\* Every pair of record types of up to two fields named from a, b, a_2, b_2.
CONSTANTS
    Names = {"a", "b"}
    MaxFields = 2
    ERROR = ERROR
SPECIFICATION Spec
INVARIANT SpliceNeverFails
