\* Liveness: one unsorted substream of up to two values, one per batch, an upstream error,
\* a failing spill and cancellation, under the fairness of FairSpec.
CONSTANTS
    Prims = {1, 2}
    SecVals <- MCSecVals
    QUIET = QUIET
    NIL = NIL
    Limit = 1
    BatchLen = 2
    InputDir = 0
    KeyRenamed = FALSE
    MaxValues = 2
    MaxBatchSize = 1
    MaxStreams = 1
    MaxBatches = 2
    MaxUpstreamErrors = 1
    MaxSpillFailures = 1
    CanCancel = TRUE
SPECIFICATION FairSpec
INVARIANT EOSComplete
INVARIANT RefsBalanced
PROPERTY PullAnswered
