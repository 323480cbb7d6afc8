SPECIFICATION Spec
CONSTANTS
    p1 = p1
    p2 = p2
    p3 = p3
    Absent = Absent
    Torn = Torn
    NoResult = NoResult
    Failed = Failed
    Procs = {p1, p2, p3}
    MaxTries = 2
    Faults = {"write", "crash"}
INVARIANT TrustOnce
SYMMETRY ProcSymmetry
