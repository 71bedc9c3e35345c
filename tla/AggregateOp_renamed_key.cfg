\* Sorted input whose first key expression is not the output field (by k:=x).
CONSTANTS
    Prims = {1, 2}
    SecVals <- MCSecVals
    QUIET = QUIET
    NIL = NIL
    Limit = 1
    BatchLen = 2
    InputDir = 1
    KeyRenamed = TRUE
    MaxValues = 3
    MaxBatchSize = 2
    MaxStreams = 1
    MaxBatches = 3
    MaxUpstreamErrors = 0
    MaxSpillFailures = 0
    CanCancel = TRUE
SPECIFICATION Spec
INVARIANT ExactlyOnceGroups
