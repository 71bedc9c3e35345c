\* A spill fails while draining at EOS; the spiller outlives the substream.
CONSTANTS
    Prims = {1, 2}
    SecVals <- MCSecVals
    QUIET = QUIET
    NIL = NIL
    Limit = 1
    BatchLen = 2
    InputDir = 0
    KeyRenamed = FALSE
    MaxValues = 3
    MaxBatchSize = 2
    MaxStreams = 2
    MaxBatches = 3
    MaxUpstreamErrors = 0
    MaxSpillFailures = 1
    CanCancel = TRUE
SPECIFICATION Spec
INVARIANT ExactlyOnceGroups
