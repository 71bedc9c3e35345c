-------------------------------- MODULE VCache --------------------------------
(***************************************************************************)
(* vcache.Object (src/runtime/vcache/object.go) with an array and a float *)
(* shadow (array.go, float.go).  Fetch builds a new shadow tree for the    *)
(* object's root, stores it in o.root without a lock, and then reads      *)
(* o.root twice more: to unmarshal it and to load it.  A shadow loads its *)
(* data lazily: array.unmarshal creates a.values, array.load reads the    *)
(* offsets and float.load reads the values from storage, each under the   *)
(* node's mutex and only when not yet loaded.  The object's root is an    *)
(* array of floats or a float, Fetch projects the whole value or a field. *)
(* o.root is written and read by concurrent Fetch calls with no           *)
(* synchronisation; a read sees the last pointer written.  A shadow is    *)
(* the number of the newShadow call that made it.                        *)
(***************************************************************************)
EXTENDS Integers, FiniteSets

CONSTANTS
    Fetches,     \* Fetch calls on one Object
    Concurrent   \* Fetch calls may overlap ("may run concurrently")

VARIABLES
    rootKind,   \* kind of the CSUP root: "array" or "float"
    root,       \* o.root: a shadow, 0 for nil
    made,       \* newShadow calls so far
    values,     \* shadow -> a.values created (array root)
    offs,       \* shadow -> a.offs loaded (array root)
    vals,       \* shadow -> float vals loaded (the root, or a.values)
    reads,      \* shadow -> float loads from storage
    offReads,   \* shadow -> offset loads from storage
    fpc,        \* Fetch: "idle", "unmarshal", "load", "offsets", "done", "panic"
    proj,       \* Fetch: its projection is a field path (not the whole value)
    using       \* Fetch: the shadow its load works on

vars == <<rootKind, root, made, values, offs, vals, reads, offReads, fpc, proj, using>>

Shadows == 1..Cardinality(Fetches)
None == [s \in Shadows |-> FALSE]
Zero == [s \in Shadows |-> 0]

Init ==
    /\ rootKind \in {"array", "float"}
    /\ root = 0 /\ made = 0
    /\ values = None /\ offs = None /\ vals = None
    /\ reads = Zero /\ offReads = Zero
    /\ fpc = [f \in Fetches |-> "idle"] /\ proj = [f \in Fetches |-> FALSE]
    /\ using = [f \in Fetches |-> 0]

\* Fetch: o.root = newShadow(cctx, o.object.Root(), nil).
FetchStart(f) ==
    /\ fpc[f] = "idle"
    /\ Concurrent \/ \A g \in Fetches : fpc[g] \in {"idle", "done"}
    /\ made' = made + 1 /\ root' = made + 1
    /\ \E p \in BOOLEAN : proj' = [proj EXCEPT ![f] = p]
    /\ fpc' = [fpc EXCEPT ![f] = "unmarshal"]
    /\ UNCHANGED <<rootKind, values, offs, vals, reads, offReads, using>>

\* FetchUnordered on a root that is not dynamic (an array or a float): the
\* same steps on o.root as Fetch, newShadow into o.root, then unmarshal and
\* load through o.root; the loaded vector is appended to vecs.
FetchUnorderedStart(f) == FetchStart(f)

\* o.root.unmarshal(cctx, projection): array.unmarshal creates a.values
\* under a.mu; float.unmarshal does nothing.
Unmarshal(f) ==
    /\ fpc[f] = "unmarshal"
    /\ values' = IF rootKind = "array" THEN [values EXCEPT ![root] = TRUE] ELSE values
    /\ fpc' = [fpc EXCEPT ![f] = "load"]
    /\ UNCHANGED <<rootKind, root, made, offs, vals, reads, offReads, proj, using>>

\* Mutant: float.load reads the values from storage even when loaded.
FloatLoadAlways(s) ==
    /\ vals' = [vals EXCEPT ![s] = TRUE]
    /\ reads' = [reads EXCEPT ![s] = @ + 1]

\* float.load: under i.mu, read the values from storage unless i.vals is set.
FloatLoad(s) ==
    /\ vals' = [vals EXCEPT ![s] = TRUE]
    /\ reads' = [reads EXCEPT ![s] = IF vals[s] THEN @ ELSE @ + 1]

\* float.project: a projection into a float is a missing vector, else the
\* values are loaded.
FloatProject(f, s) ==
    /\ fpc' = [fpc EXCEPT ![f] = "done"]
    /\ \/ proj[f] /\ UNCHANGED <<vals, reads>>
       \/ ~proj[f] /\ FloatLoad(s)

\* array.project: a.values.project(loader, nil), with a.values read without
\* the lock; it is nil in a shadow nobody unmarshaled, and the call on a nil
\* interface panics.  Then a.load.
ArrayProject(f, s) ==
    \/ ~values[s] /\ fpc' = [fpc EXCEPT ![f] = "panic"] /\ UNCHANGED <<vals, reads>>
    \/ values[s] /\ FloatLoad(s) /\ fpc' = [fpc EXCEPT ![f] = "offsets"]

\* loader.load(projection, o.root), reading o.root once more.
Load(f) ==
    /\ fpc[f] = "load"
    /\ using' = [using EXCEPT ![f] = root]
    /\ IF rootKind = "float" THEN FloatProject(f, root) ELSE ArrayProject(f, root)
    /\ UNCHANGED <<rootKind, root, made, values, offs, offReads, proj>>

\* array.load: under a.mu, read the offsets from storage unless a.offs is set.
LoadOffsets(f) ==
    /\ fpc[f] = "offsets"
    /\ offs' = [offs EXCEPT ![using[f]] = TRUE]
    /\ offReads' = [offReads EXCEPT ![using[f]] = IF offs[using[f]] THEN @ ELSE @ + 1]
    /\ fpc' = [fpc EXCEPT ![f] = "done"]
    /\ UNCHANGED <<rootKind, root, made, values, vals, reads, proj, using>>

Finished == \A f \in Fetches : fpc[f] \in {"done", "panic"} /\ UNCHANGED vars

Next ==
    \/ \E f \in Fetches : FetchStart(f) \/ FetchUnorderedStart(f) \/ Unmarshal(f) \/ Load(f) \/ LoadOffsets(f)
    \/ Finished

Spec == Init /\ [][Next]_vars

\* The lazy loads under each node's mutex: however Fetch calls interleave on
\* one shadow tree, its values and its offsets are read from storage at
\* most once.
LoadedOncePerShadow == \A s \in Shadows : reads[s] <= 1 /\ offReads[s] <= 1

\* The doc comment of Fetch: data not in memory is fetched from storage and
\* cached, so that later calls run from memory.  The object's float values
\* are read from storage at most once over all its Fetch calls.
CachedAcrossFetches == \A s, t \in Shadows : reads[s] + reads[t] <= 1 \/ s = t

\* The doc comment of Fetch: several Fetch calls on an object may run
\* concurrently.  None of them fails.
FetchNeverPanics == \A f \in Fetches : fpc[f] # "panic"
=============================================================================
