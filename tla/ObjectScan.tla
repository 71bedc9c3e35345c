------------------------------ MODULE ObjectScan ------------------------------
(***************************************************************************)
(* The lake object scan of package meta: the Lister (src/unnamed/part_001)  *)
(* lists the data objects of a snapshot sorted by the pool key, and the    *)
(* Slicer (src/runtime/sam/op/meta/slicer.go) pulls them one at a time and  *)
(* groups overlapping objects into partitions for merge on read.           *)
(*                                                                         *)
(* Slicer.Pull holds s.mu for its whole loop, and only the Slicer calls     *)
(* Lister.Pull (under l.mu), so concurrent trunks calling Slicer.Pull are   *)
(* serialised: a Pull is a sequence of steps no other Pull interleaves      *)
(* with, and spc says where in it the one running Pull is.                 *)
(*   "idle"  no Pull running                                               *)
(*   "pull"  Slicer.Pull calling s.parent.Pull (the Lister)                *)
(*   "list"  inside Lister.Pull's loop over l.objects                      *)
(* An object is an id (its position in the snapshot, i.e. commit order)    *)
(* with a span [min, max] of pool-key values; keys are integers.  Done is  *)
(* not modelled: Lister.Pull ignores it and Slicer.Pull only passes it on. *)
(***************************************************************************)
EXTENDS Integers, Sequences, FiniteSets, SequencesExt

CONSTANTS
    NumObjects,           \* objects in the snapshot
    MaxKey,               \* pool-key values are 1..MaxKey
    Dirs,                 \* the pool sort orders: TRUE for descending
    NIL,                  \* a nil pointer
    MaxMarshalFailures,   \* Lister: marshaler.Marshal errors
    MaxUnmarshalFailures, \* Slicer: unmarshaler.Unmarshal errors
    MaxPartitionFailures  \* Slicer: nextPartition's marshaler.Marshal errors

ASSUME Dirs \subseteq BOOLEAN

Objects == 1..NumObjects
Keys == 1..MaxKey
Spans == {s \in [min : Keys, max : Keys] : s.min <= s.max}

VARIABLES
    desc,       \* the pool's sort key order is descending
    span,       \* the span of every object of the snapshot
    pruned,     \* the objects the Lister's pruner drops
    lobjects,   \* Lister.objects: NIL until the first Pull
    lerr,       \* Lister.err is set
    sobjects,   \* Slicer.objects: the stash of the partition being built
    smin, smax, \* Slicer.min, Slicer.max: span of the stash, or NIL
    spc,        \* the running Slicer.Pull
    mfails,     \* Marshal errors so far
    ufails,     \* Unmarshal errors so far
    pfails,     \* nextPartition Marshal errors so far
    out,        \* history: the partitions Slicer.Pull returned, in order
    eos         \* history: a Slicer.Pull returned nil

snapVars == <<desc, span, pruned>>
vars == <<desc, span, pruned, lobjects, lerr, sobjects, smin, smax, spc, mfails,
          ufails, pfails, out, eos>>

Init ==
    /\ desc \in Dirs
    /\ span \in [Objects -> Spans]
    /\ pruned \in SUBSET Objects
    /\ lobjects = NIL /\ lerr = FALSE
    /\ sobjects = <<>> /\ smin = NIL /\ smax = NIL
    /\ spc = "idle" /\ mfails = 0 /\ ufails = 0 /\ pfails = 0
    /\ out = <<>> /\ eos = FALSE

-----------------------------------------------------------------------------
(* The Lister.                                                             *)

\* expr.NewValueCompareFn(o, ...): negative when x sorts before y in order o.
CompareIn(down, x, y) == IF down THEN y - x ELSE x - y

\* sortObjects' lessFunc: by the first key in scan order (Min ascending,
\* Max descending), then by the last; equal spans are not less either way.
LessFunc(a, b) ==
    LET aFrom == IF desc THEN span[a].max ELSE span[a].min
        aTo   == IF desc THEN span[a].min ELSE span[a].max
        bFrom == IF desc THEN span[b].max ELSE span[b].min
        bTo   == IF desc THEN span[b].min ELSE span[b].max
    IN \/ CompareIn(desc, aFrom, bFrom) < 0
       \/ aFrom = bFrom /\ aTo # bTo /\ CompareIn(desc, aTo, bTo) < 0

\* sort.SliceStable(objects, lessFunc): the permutation that is sorted by
\* lessFunc and keeps the snapshot order of objects neither is less than.
SortObjects(objs) ==
    CHOOSE s \in SetToSeqs(Range(objs)) :
        \A i, j \in DOMAIN s : i < j =>
            /\ ~LessFunc(s[j], s[i])
            /\ ~LessFunc(s[i], s[j]) => s[i] < s[j]

\* initObjectScan: the snapshot's objects (in commit order), sorted.
InitObjectScan == SortObjects([i \in Objects |-> i])

-----------------------------------------------------------------------------
(* The Slicer.                                                             *)

\* Slicer.cmp is ascending whatever the pool order.
Cmp(x, y) == x - y

\* Mutant: an object that only touches the stash's span starts a partition.
OverlapsStrict(o) == ~(Cmp(span[o].max, smin) <= 0 \/ Cmp(span[o].min, smax) >= 0)

\* stash's test: o overlaps the span of the stash.
Overlaps(o) == ~(Cmp(span[o].max, smin) < 0 \/ Cmp(span[o].min, smax) > 0)

\* Mutant: the partition span accumulates from a zero value, not objects[0].
PartitionOfZero(objs) ==
    [min |-> FoldLeft(LAMBDA m, o : IF Cmp(span[o].min, m) < 0 THEN span[o].min ELSE m,
                      0, Tail(objs)),
     max |-> FoldLeft(LAMBDA m, o : IF Cmp(span[o].max, m) > 0 THEN span[o].max ELSE m,
                      0, Tail(objs)),
     objects |-> objs]

\* nextPartition's Partition: the span of all the stashed objects.
PartitionOf(objs) ==
    [min |-> FoldLeft(LAMBDA m, o : IF Cmp(span[o].min, m) < 0 THEN span[o].min ELSE m,
                      span[objs[1]].min, Tail(objs)),
     max |-> FoldLeft(LAMBDA m, o : IF Cmp(span[o].max, m) > 0 THEN span[o].max ELSE m,
                      span[objs[1]].max, Tail(objs)),
     objects |-> objs]

\* Mutant: stash returns the partition before appending o.
StashDropOnSplit(o) ==
    LET split == sobjects # <<>> /\ ~Overlaps(o)
    IN /\ out' = IF split THEN Append(out, PartitionOf(sobjects)) ELSE out
       /\ sobjects' = IF split THEN <<>> ELSE Append(sobjects, o)
       /\ smin' = IF split THEN NIL
                  ELSE IF smin = NIL \/ Cmp(smin, span[o].min) > 0 THEN span[o].min ELSE smin
       /\ smax' = IF split THEN NIL
                  ELSE IF smax = NIL \/ Cmp(smax, span[o].max) < 0 THEN span[o].max ELSE smax
       /\ spc' = IF split THEN "idle" ELSE "pull"
       /\ UNCHANGED pfails

\* stash(o): a non-empty stash that o does not overlap becomes a partition,
\* which Pull returns (and min and max are cleared); then o is appended and
\* min and max widened to it.  When nextPartition's Marshal fails, the
\* stash has already been emptied (s.objects[:0]) and stash returns the
\* error before appending o and before clearing min and max.
Stash(o) ==
    LET split == sobjects # <<>> /\ ~Overlaps(o)
        min0  == IF split THEN NIL ELSE smin
        max0  == IF split THEN NIL ELSE smax
    IN \/ /\ split /\ pfails < MaxPartitionFailures
          /\ pfails' = pfails + 1
          /\ sobjects' = <<>> /\ spc' = "idle"
          /\ UNCHANGED <<out, smin, smax>>
       \/ /\ out' = IF split THEN Append(out, PartitionOf(sobjects)) ELSE out
          /\ sobjects' = Append(IF split THEN <<>> ELSE sobjects, o)
          /\ smin' = IF min0 = NIL \/ Cmp(min0, span[o].min) > 0 THEN span[o].min ELSE min0
          /\ smax' = IF max0 = NIL \/ Cmp(max0, span[o].max) < 0 THEN span[o].max ELSE max0
          /\ spc' = IF split THEN "idle" ELSE "pull"
          /\ UNCHANGED pfails

-----------------------------------------------------------------------------
(* Slicer.Pull and the Lister.Pull calls it makes.                         *)

\* A trunk calls Slicer.Pull and takes s.mu.
SlicerPull ==
    /\ spc = "idle"
    /\ spc' = "pull"
    /\ UNCHANGED <<snapVars, lobjects, lerr, sobjects, smin, smax, mfails,
                   ufails, pfails, out, eos>>

\* Lister.Pull: a stored error is returned (and Slicer.Pull returns it);
\* otherwise the sorted object list is built on first use.
ListerPull ==
    /\ spc = "pull"
    /\ \/ lerr /\ spc' = "idle" /\ UNCHANGED lobjects
       \/ /\ ~lerr /\ spc' = "list"
          /\ lobjects' = IF lobjects = NIL THEN InitObjectScan ELSE lobjects
    /\ UNCHANGED <<snapVars, lerr, sobjects, smin, smax, mfails, ufails, pfails,
                   out, eos>>

\* Slicer.Pull with the object the Lister returned: Unmarshal it (an error
\* is returned and the object is gone), then stash it; stash's partition, if
\* any, is returned.
SlicerReceive(o) ==
    \/ /\ ufails < MaxUnmarshalFailures
       /\ ufails' = ufails + 1 /\ spc' = "idle"
       /\ UNCHANGED <<sobjects, smin, smax, pfails, out>>
    \/ Stash(o) /\ UNCHANGED ufails

\* One turn of Lister.Pull's loop: pop an object and marshal it.  A Marshal
\* error is stored and returned; a pruned object is skipped; any other is
\* returned to Slicer.Pull.
ListerNext ==
    /\ spc = "list" /\ lobjects # <<>>
    /\ LET o == Head(lobjects) IN
       /\ lobjects' = Tail(lobjects)
       /\ \/ /\ mfails < MaxMarshalFailures
             /\ lerr' = TRUE /\ mfails' = mfails + 1 /\ spc' = "idle"
             /\ UNCHANGED <<sobjects, smin, smax, ufails, pfails, out>>
          \/ /\ o \in pruned
             /\ UNCHANGED <<lerr, spc, sobjects, smin, smax, mfails, ufails, pfails,
                            out>>
          \/ o \notin pruned /\ SlicerReceive(o) /\ UNCHANGED <<lerr, mfails>>
    /\ UNCHANGED <<snapVars, eos>>

\* Mutant: nextPartition does not empty the stash.
ListerEndKeep ==
    /\ spc = "list" /\ lobjects = <<>>
    /\ spc' = "idle"
    /\ IF sobjects = <<>>
       THEN eos' = TRUE /\ UNCHANGED out
       ELSE out' = Append(out, PartitionOf(sobjects)) /\ UNCHANGED eos
    /\ UNCHANGED <<snapVars, lobjects, lerr, sobjects, smin, smax, mfails, ufails,
                   pfails>>

\* Lister.Pull returns nil: Slicer.Pull returns nextPartition(), the stash
\* as a partition, or nil when it is empty.  min and max are left as they
\* are.  A Marshal error in nextPartition empties the stash and is returned.
ListerEnd ==
    /\ spc = "list" /\ lobjects = <<>>
    /\ spc' = "idle"
    /\ \/ /\ sobjects = <<>>
          /\ eos' = TRUE /\ UNCHANGED <<out, sobjects, pfails>>
       \/ /\ sobjects # <<>>
          /\ out' = Append(out, PartitionOf(sobjects))
          /\ sobjects' = <<>> /\ UNCHANGED <<eos, pfails>>
       \/ /\ sobjects # <<>> /\ pfails < MaxPartitionFailures
          /\ pfails' = pfails + 1
          /\ sobjects' = <<>> /\ UNCHANGED <<eos, out>>
    /\ UNCHANGED <<snapVars, lobjects, lerr, smin, smax, mfails, ufails>>

Next == SlicerPull \/ ListerPull \/ ListerNext \/ ListerEnd

Spec == Init /\ [][Next]_vars
-----------------------------------------------------------------------------
(* Properties.                                                             *)

Partition == [min : Keys, max : Keys, objects : Seq(Objects)]

TypeOK ==
    /\ lobjects = NIL \/ lobjects \in Seq(Objects)
    /\ sobjects \in Seq(Objects)
    /\ smin \in Keys \cup {NIL} /\ smax \in Keys \cup {NIL}
    /\ spc \in {"idle", "pull", "list"}
    /\ pfails \in 0..MaxPartitionFailures
    /\ out \in Seq(Partition)

\* The partitions Slicer.Pull returns are pairwise disjoint key ranges, in
\* scan order (ascending or descending with the pool): the Lister's stable
\* sort by the first key and the Slicer's overlap test together keep any
\* later object from overlapping a partition already returned.
PartitionsOrdered ==
    \A i, j \in DOMAIN out : i < j =>
        IF desc THEN out[j].max < out[i].min ELSE out[i].max < out[j].min

\* No object is returned twice, in one partition or in two, and no pruned
\* object is returned: nextPartition empties the stash it returns.
ObjectsOnce ==
    LET objs == [i \in DOMAIN out |-> out[i].objects]
        all  == FlattenSeq(objs)
    IN /\ \A i, j \in DOMAIN all : i # j => all[i] # all[j]
       /\ \A i \in DOMAIN all : all[i] \notin pruned

\* Once Slicer.Pull has returned nil, every object of the snapshot that the
\* pruner keeps has been returned in a partition, unless Pull returned an
\* error before: an Unmarshal error for the object, or a Marshal error in
\* nextPartition, which drops the stash it was building.
AllObjectsListed ==
    eos /\ ufails = 0 /\ pfails = 0 => \A o \in Objects \ pruned :
               \E i \in DOMAIN out : \E k \in DOMAIN out[i].objects :
                   out[i].objects[k] = o
=============================================================================
