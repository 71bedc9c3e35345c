\* A filter inside the scope, no Pull(true).
CONSTANTS
    MaxItems = 3
    NExprs = 1
    Inputs <- MCInputsFirstNonEmpty
    Inners = {"filter"}
    MaxDone = 0
    EOS = EOS
    NIL = NIL
SPECIFICATION Spec
INVARIANT StreamsAligned
