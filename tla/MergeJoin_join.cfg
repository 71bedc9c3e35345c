\* Ascending merges with null keys and descending merges without, of every
\* sorted left and right input of up to three records over keys 1..2 (and
\* null) and missing, for inner, left and anti joins.
CONSTANTS
    Keys = {1, 2}
    NULL = NULL
    MISSING = MISSING
    NONE = NONE
    Orders <- MCOrdersChecked
    MaxLeft = 3
    MaxRight = 3
SPECIFICATION Spec
CHECK_DEADLOCK FALSE
INVARIANT TypeOK
PROPERTY JoinRefinement
PROPERTY Terminates
