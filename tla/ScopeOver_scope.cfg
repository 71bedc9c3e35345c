\* One expression, up to three items, a pass-through or a filtering inner
\* pipeline, one Pull(true).
CONSTANTS
    MaxItems = 3
    NExprs = 1
    Inputs <- MCInputs
    Inners = {"pass", "filter"}
    MaxDone = 1
    EOS = EOS
    NIL = NIL
SPECIFICATION Spec
INVARIANT TypeOK
INVARIANT RowsInOrder
INVARIANT AllRowsDelivered
PROPERTY PullReturns
