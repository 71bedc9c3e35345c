\* Two queries that may carry the same request id.
CONSTANTS
    Queries = {q1, q2}
    Ids = {i1}
    NONE = NONE
    UniqueIds = FALSE
SPECIFICATION Spec
INVARIANT StatusAvailable
