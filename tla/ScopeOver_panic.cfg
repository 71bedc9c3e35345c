\* Two expressions, a pass-through scope.
CONSTANTS
    MaxItems = 3
    NExprs = 2
    Inputs <- MCInputs
    Inners = {"pass"}
    MaxDone = 0
    EOS = EOS
    NIL = NIL
SPECIFICATION Spec
INVARIANT NeverPanics
