SPECIFICATION CrashSpec
CONSTANTS
    p1 = p1
    p2 = p2
    s1 = s1
    s2 = s2
    Procs = {p1, p2}
    Services = {s1}
    NoService = NoService
    NoProc = NoProc
    NoServer = NoServer
    Ours = Ours
    Corp = Corp
    Servers = {NoServer, Ours}
    Faults = {"kill", "revertError", "late", "overlap"}
    Outliving = {"trust"}
INVARIANT UninstallUntrusts
SYMMETRY ProcSymmetry
