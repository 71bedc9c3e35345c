\* Sorted input over two substreams: maxTableKey and maxSpillKey survive the EOS.
CONSTANTS
    Prims = {1, 2}
    SecVals <- MCSecVals
    QUIET = QUIET
    NIL = NIL
    Limit = 1
    BatchLen = 2
    InputDir = 1
    KeyRenamed = FALSE
    MaxValues = 3
    MaxBatchSize = 2
    MaxStreams = 2
    MaxBatches = 3
    MaxUpstreamErrors = 0
    MaxSpillFailures = 0
    CanCancel = TRUE
SPECIFICATION Spec
INVARIANT ExactlyOnceGroups
