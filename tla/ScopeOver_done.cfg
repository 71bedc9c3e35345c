\* A pass-through scope whose first stream has values, one Pull(true).
CONSTANTS
    MaxItems = 3
    NExprs = 1
    Inputs <- MCInputsFirstNonEmpty
    Inners = {"pass"}
    MaxDone = 1
    EOS = EOS
    NIL = NIL
SPECIFICATION Spec
INVARIANT StreamsAligned
