\* run returns (here after a cancel) while the spiller still holds spill files:
\* the deferred close(o.resultCh) runs before the deferred spiller.Cleanup.
CONSTANTS
    Prims = {1, 2}
    SecVals <- MCSecVals
    QUIET = QUIET
    NIL = NIL
    Limit = 1
    BatchLen = 2
    InputDir = 0
    KeyRenamed = FALSE
    MaxValues = 3
    MaxBatchSize = 2
    MaxStreams = 1
    MaxBatches = 3
    MaxUpstreamErrors = 0
    MaxSpillFailures = 0
    CanCancel = TRUE
SPECIFICATION Spec
INVARIANT CleanedUpBeforeClose
