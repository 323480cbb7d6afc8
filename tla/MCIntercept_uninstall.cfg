SPECIFICATION Spec
CONSTANTS
    p1 = p1
    p2 = p2
    s1 = s1
    s2 = s2
    Procs = {p1}
    Services = {s1}
    NoService = NoService
    NoProc = NoProc
    NoServer = NoServer
    Ours = Ours
    Corp = Corp
    Servers = {NoServer, Ours, Corp}
    Faults = {"kill"}
    Outliving = {"trust", "untrust", "server", "on", "off"}
INVARIANT UninstallRestoresProxy
