\* Two Fetch calls on one object, one after the other.
CONSTANTS
    Fetches = {f1, f2}
    Concurrent = FALSE
SPECIFICATION Spec
INVARIANT CachedAcrossFetches
