\* Unsorted input: spills at one row, two substreams, upstream errors,
\* cancellation by Pull(true) and by the context.
CONSTANTS
    Prims = {1, 2}
    SecVals <- MCSecVals
    QUIET = QUIET
    NIL = NIL
    Limit = 1
    BatchLen = 2
    InputDir = 0
    KeyRenamed = FALSE
    MaxValues = 3
    MaxBatchSize = 2
    MaxStreams = 2
    MaxBatches = 3
    MaxUpstreamErrors = 1
    MaxSpillFailures = 0
    CanCancel = TRUE
SPECIFICATION Spec
INVARIANT TypeOK
INVARIANT ExactlyOnceGroups
INVARIANT EOSComplete
INVARIANT RefsBalanced
