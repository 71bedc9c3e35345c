\* Sorted input over two substreams with a failing spill: the spiller never holds a record behind an unset maxSpillKey.
CONSTANTS
    Prims = {1, 2}
    SecVals <- MCSecVals
    QUIET = QUIET
    NIL = NIL
    Limit = 1
    BatchLen = 2
    InputDir = 1
    KeyRenamed = FALSE
    MaxValues = 3
    MaxBatchSize = 2
    MaxStreams = 2
    MaxBatches = 3
    MaxUpstreamErrors = 0
    MaxSpillFailures = 1
    CanCancel = TRUE
SPECIFICATION Spec
INVARIANT SpillKeySet
