SPECIFICATION Spec
CONSTANTS
    MaxTeeBacklogChunks = 1
    MaxPipelinedRequests = 2
    MaxChunks <- MoreRequests
    Bodies <- MalformedBodies
    Stray = {}
INVARIANT Correlates
