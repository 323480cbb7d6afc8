SPECIFICATION FanoutSpec
CONSTANTS
    r1 = r1
    r2 = r2
    Readers = {r1, r2}
    Buffer = 1
    MaxMsgs = 7
    Keep = 2
    MaxSize = 4
    Sizes = {2}
    LogFaults = {"refuse", "write", "crash"}
    Launches <- MCLaunches
    MaxSessions = 1
INVARIANT NeverPanics
INVARIANT NoSilentDrop
INVARIANT Retained
INVARIANT LogIsBounded
INVARIANT GapIsDisclosed
PROPERTY CloseEnds
