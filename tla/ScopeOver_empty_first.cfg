\* A pass-through scope, no Pull(true), any input.
CONSTANTS
    MaxItems = 3
    NExprs = 1
    Inputs <- MCInputs
    Inners = {"pass"}
    MaxDone = 0
    EOS = EOS
    NIL = NIL
SPECIFICATION Spec
INVARIANT StreamsAligned
