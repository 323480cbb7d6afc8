SPECIFICATION MCSpec
CONSTANTS
    s1 = s1
    s2 = s2
    Daemon = Daemon
    Admin = Admin
    Procs = {Daemon, Admin}
    Services = {s1}
    NoService = NoService
    NoProc = NoProc
    NoServer = NoServer
    Ours = Ours
    Corp = Corp
    Servers = {NoServer, Ours, Corp}
    Faults = {"kill", "armSignal", "overlap"}
    Outliving = {"trust"}
INVARIANT UninstalledIsReverted
INVARIANT NothingLoadedNothingArmed
PROPERTY UninstallEnds
