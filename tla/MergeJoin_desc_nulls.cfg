\* Descending merge: the comparator puts nulls first while the sorts New
\* inserts put them last.
CONSTANTS
    Keys = {1, 2}
    NULL = NULL
    MISSING = MISSING
    NONE = NONE
    Orders <- MCOrdersDescNulls
    MaxLeft = 3
    MaxRight = 3
SPECIFICATION Spec
CHECK_DEADLOCK FALSE
PROPERTY JoinRefinement
