SPECIFICATION Spec
CONSTANTS
    MaxTeeBacklogChunks = 1
    MaxPipelinedRequests = 1
    MaxChunks <- MoreResponses
    Bodies <- MixedBodies
    Stray = {"request"}
INVARIANT NoFalseComplete
INVARIANT Forwards
PROPERTY Captures
PROPERTY RelayEnds
