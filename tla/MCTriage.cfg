SPECIFICATION TriageSpec
CONSTANTS
    agent = agent
    app = app
    c1 = c1
    c2 = c2
    submit = submit
    Software = {agent, app}
    MaxChanges = 1
    Findings = {agent, app}
    Launch = {agent}
    MaxItems = 3
    Faults = {"move", "write", "crash"}
    Consoles = {c1, c2}
    AckFaults = {"load", "save"}
    Writers = {c1, c2, submit}
    MaxLabels = 2
    LabelFaults = {"save", "send", "die"}
    MaxScans = 2
    Uses <- MCUses
INVARIANT NeverLost
INVARIANT NoOrphans
INVARIANT CleanRestoreIsWhole
INVARIANT DoneHasItem
INVARIANT SignatureDecides
INVARIANT NeverMasks
INVARIANT SentIsAgreed
INVARIANT LatestLabelIsKept
SYMMETRY ConsoleSymmetry
CHECK_DEADLOCK FALSE
