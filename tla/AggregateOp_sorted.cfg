\* Sorted input, one substream: early emission from the table and from
\* the spills, upstream errors, cancellation by Pull(true) and the context.
CONSTANTS
    Prims = {1, 2, 3}
    SecVals <- MCSecVals
    QUIET = QUIET
    NIL = NIL
    Limit = 3
    BatchLen = 2
    InputDir = 1
    KeyRenamed = FALSE
    MaxValues = 4
    MaxBatchSize = 3
    MaxStreams = 1
    MaxBatches = 3
    MaxUpstreamErrors = 1
    MaxSpillFailures = 0
    CanCancel = TRUE
SPECIFICATION Spec
INVARIANT ExactlyOnceGroups
INVARIANT EOSComplete
INVARIANT RefsBalanced
INVARIANT OutputSorted
