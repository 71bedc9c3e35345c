\* Two overlapping Fetch calls on one object.
CONSTANTS
    Fetches = {f1, f2}
    Concurrent = TRUE
SPECIFICATION Spec
INVARIANT FetchNeverPanics
