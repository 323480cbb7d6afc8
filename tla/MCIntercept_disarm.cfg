SPECIFICATION Spec
CONSTANTS
    p1 = p1
    p2 = p2
    s1 = s1
    s2 = s2
    Procs = {p1}
    Services = {s1, s2}
    NoService = NoService
    NoProc = NoProc
    NoServer = NoServer
    Ours = Ours
    Corp = Corp
    Servers = {NoServer, Ours, Corp}
    Faults = {}
    Outliving = {"trust", "untrust", "server", "on", "off"}
INVARIANT Reverted
INVARIANT RedirectOnlyWhileTrusted
INVARIANT CaptureIsForeign
PROPERTY StopDisarms
