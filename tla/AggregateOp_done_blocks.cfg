\* Pull(true) with a context that is never cancelled: run may not be there
\* to receive done.  The blocked state has no successor, so deadlock is not
\* reported as such.
CONSTANTS
    Prims = {1, 2}
    SecVals <- MCSecVals
    QUIET = QUIET
    NIL = NIL
    Limit = 1
    BatchLen = 2
    InputDir = 0
    KeyRenamed = FALSE
    MaxValues = 2
    MaxBatchSize = 1
    MaxStreams = 1
    MaxBatches = 2
    MaxUpstreamErrors = 1
    MaxSpillFailures = 1
    CanCancel = FALSE
SPECIFICATION FairSpec
CHECK_DEADLOCK FALSE
PROPERTY PullDoneAnswered
