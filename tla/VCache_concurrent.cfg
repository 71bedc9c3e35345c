\* Three overlapping Fetch calls on one object, array or float root.
CONSTANTS
    Fetches = {f1, f2, f3}
    Concurrent = TRUE
SPECIFICATION Spec
INVARIANT LoadedOncePerShadow
