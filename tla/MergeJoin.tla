------------------------------- MODULE MergeJoin -------------------------------
(***************************************************************************)
(* join.Op (src/runtime/sam/op/join/join.go): one Pull of the merge join. *)
(* New puts a sort (direction o, nulls last) in front of an input whose   *)
(* order is unknown, and compares keys with NewValueCompareFn(o,          *)
(* o.NullsMax(true)): nulls are the largest value, so they come last      *)
(* ascending and first descending.  Pull reads the left input record by   *)
(* record, and getJoinSet / readJoinSet advance a Peeker over the right   *)
(* input, one Peek or Read per step; the set of right records matching    *)
(* the last join key is cached in joinKey / joinSet.  The two pullers     *)
(* feeding Read and Peek only forward their upstream, so an input is a    *)
(* sequence of keys.  A key is an integer of Keys, NULL or MISSING.       *)
(***************************************************************************)
EXTENDS Integers, Sequences, FiniteSets

CONSTANTS
    Keys,      \* non-null key values, ordered by <
    NULL,      \* the null key
    MISSING,   \* a key expression that evaluates to missing
    NONE,      \* o.joinKey == nil
    Orders,    \* <<o is Down, keys may be null>> pairs to check
    MaxLeft,   \* records on the left input
    MaxRight   \* records on the right input

VARIABLES
    desc,         \* the merge direction o is Down
    nullable,     \* keys may be null
    left, right,  \* keys of the sorted inputs
    anti, inner,  \* Op.anti, Op.inner
    pc,           \* "read", "getJoinSet", "readJoinSet" or "eos"
    li,           \* index of the left record being read or joined
    ri,           \* index of the right record the Peeker is at
    joinKey,      \* o.joinKey
    joinSet,      \* o.joinSet: indices of right records
    recs,         \* readJoinSet's recs
    out           \* the rows appended to out by this Pull

vars == <<desc, nullable, left, right, anti, inner, pc, li, ri, joinKey, joinSet, recs, out>>

AllKeys == Keys \cup {MISSING} \cup (IF nullable THEN {NULL} ELSE {})
MaxKey == CHOOSE k \in Keys : \A j \in Keys : j <= k

\* Position of a key in the order of the comparator (nulls max) and of the
\* sorts New inserts (nulls last); they differ only for descending order.
CmpPos(k)  == IF k = NULL THEN (IF desc THEN 0 ELSE MaxKey + 1)
              ELSE IF desc THEN MaxKey + 1 - k ELSE k
SortPos(k) == IF k = NULL THEN MaxKey + 1
              ELSE IF desc THEN MaxKey + 1 - k ELSE k

\* o.compare, as the sign of the comparison.
Compare(a, b) == IF CmpPos(a) < CmpPos(b) THEN -1
                 ELSE IF CmpPos(a) = CmpPos(b) THEN 0 ELSE 1

\* An input after New's sort; where the sort puts records whose key is
\* missing is not in this source, and the merge skips them wherever they are.
SortedInputs(n) ==
    {s \in UNION {[1..m -> AllKeys] : m \in 0..n} :
        \A i, j \in DOMAIN s : i < j /\ s[i] # MISSING /\ s[j] # MISSING
                               => SortPos(s[i]) <= SortPos(s[j])}

\* (anti, inner) of an inner, a left and an anti join.
JoinKinds == {<<FALSE, TRUE>>, <<FALSE, FALSE>>, <<TRUE, FALSE>>}

Init ==
    /\ \E o \in Orders : desc = o[1] /\ nullable = o[2]
    /\ left \in SortedInputs(MaxLeft) /\ right \in SortedInputs(MaxRight)
    /\ \E k \in JoinKinds : anti = k[1] /\ inner = k[2]
    /\ pc = "read" /\ li = 1 /\ ri = 1
    /\ joinKey = NONE /\ joinSet = <<>> /\ recs = <<>> /\ out = <<>>

\* Splice of left record li with each right record of set.
Spliced(set) == [n \in 1..Len(set) |-> [l |-> li, r |-> set[n]]]

\* The end of one turn of Pull's loop for left record li, given what
\* getJoinSet returned (NONE for nil).
Emit(set) ==
    /\ out' = out \o (IF set = NONE THEN (IF inner THEN <<>> ELSE <<[l |-> li, r |-> 0]>>)
                      ELSE IF anti THEN <<>> ELSE Spliced(set))
    /\ li' = li + 1
    /\ pc' = "read"

Key == left[li]

\* Mutant: the cached join set is reused without comparing the keys.
CachedAny(k) == joinKey # NONE

\* getJoinSet's first test: the key of the previous match compares equal.
Cached(k) == joinKey # NONE /\ Compare(k, joinKey) = 0

\* o.left.Read() in Pull's loop, then the missing-key test and the cached
\* join set.
ReadLeft ==
    /\ pc = "read" /\ li <= Len(left)
    /\ \/ Key = MISSING /\ li' = li + 1 /\ UNCHANGED <<pc, out>>
       \/ Key # MISSING /\ Cached(Key) /\ Emit(joinSet)
       \/ Key # MISSING /\ ~Cached(Key) /\ pc' = "getJoinSet" /\ UNCHANGED <<li, out>>
    /\ UNCHANGED <<desc, nullable, left, right, anti, inner, ri, joinKey, joinSet, recs>>

\* One turn of getJoinSet's loop: o.right.Peek(), then skip a missing key,
\* start readJoinSet on an equal key, give up on a greater one, or discard.
PeekRight ==
    /\ pc = "getJoinSet"
    /\ \/ ri > Len(right) /\ Emit(NONE) /\ UNCHANGED <<ri, joinKey, recs>>
       \/ ri <= Len(right) /\ right[ri] = MISSING
          /\ ri' = ri + 1 /\ UNCHANGED <<pc, li, out, joinKey, recs>>
       \/ ri <= Len(right) /\ right[ri] # MISSING /\ Compare(Key, right[ri]) = 0
          /\ joinKey' = Key /\ recs' = <<>> /\ pc' = "readJoinSet"
          /\ UNCHANGED <<li, ri, out>>
       \/ ri <= Len(right) /\ right[ri] # MISSING /\ Compare(Key, right[ri]) < 0
          /\ Emit(NONE) /\ UNCHANGED <<ri, joinKey, recs>>
       \/ ri <= Len(right) /\ right[ri] # MISSING /\ Compare(Key, right[ri]) > 0
          /\ ri' = ri + 1 /\ UNCHANGED <<pc, li, out, joinKey, recs>>
    /\ UNCHANGED <<desc, nullable, left, right, anti, inner, joinSet>>

\* readJoinSet's Peek finds the end of the input or a key other than the
\* join key.
SetEnds == IF ri > Len(right) THEN TRUE
           ELSE right[ri] # MISSING /\ Compare(right[ri], joinKey) # 0

\* Mutant: the record is copied after o.right.Read() has moved past it.
ReadJoinSetAfterRead ==
    /\ pc = "readJoinSet"
    /\ \/ SetEnds
          /\ joinSet' = recs /\ Emit(recs) /\ UNCHANGED <<ri, recs>>
       \/ ri <= Len(right) /\ right[ri] = MISSING
          /\ ri' = ri + 1 /\ UNCHANGED <<pc, li, out, recs, joinSet>>
       \/ ri <= Len(right) /\ right[ri] # MISSING /\ Compare(right[ri], joinKey) = 0
          /\ recs' = Append(recs, ri + 1) /\ ri' = ri + 1
          /\ UNCHANGED <<pc, li, out, joinSet>>
    /\ UNCHANGED <<desc, nullable, left, right, anti, inner, joinKey>>

\* One turn of readJoinSet's loop: collect the right records equal to the
\* join key; at the first other key or at the end, cache and return them.
ReadJoinSet ==
    /\ pc = "readJoinSet"
    /\ \/ SetEnds
          /\ joinSet' = recs /\ Emit(recs) /\ UNCHANGED <<ri, recs>>
       \/ ri <= Len(right) /\ right[ri] = MISSING
          /\ ri' = ri + 1 /\ UNCHANGED <<pc, li, out, recs, joinSet>>
       \/ ri <= Len(right) /\ right[ri] # MISSING /\ Compare(right[ri], joinKey) = 0
          /\ recs' = Append(recs, ri) /\ ri' = ri + 1
          /\ UNCHANGED <<pc, li, out, joinSet>>
    /\ UNCHANGED <<desc, nullable, left, right, anti, inner, joinKey>>

\* Mutant: Pull only returns when it has rows to return.
LeftEOSNonEmpty ==
    /\ pc = "read" /\ li > Len(left) /\ out # <<>>
    /\ pc' = "eos"
    /\ UNCHANGED <<desc, nullable, left, right, anti, inner, li, ri, joinKey, joinSet, recs, out>>

\* o.left.Read() returns nil: Pull returns out, or nil when it is empty.
LeftEOS ==
    /\ pc = "read" /\ li > Len(left)
    /\ pc' = "eos"
    /\ UNCHANGED <<desc, nullable, left, right, anti, inner, li, ri, joinKey, joinSet, recs, out>>

Next == ReadLeft \/ PeekRight \/ ReadJoinSet \/ LeftEOS

\* A Pull runs its loop to the end without blocking on anything but the
\* inputs, which are all available: weak fairness of its steps.
Spec == Init /\ [][Next]_vars /\ WF_vars(Next)

TypeOK ==
    /\ pc \in {"read", "getJoinSet", "readJoinSet", "eos"}
    /\ li \in 1..Len(left) + 1 /\ ri \in 1..Len(right) + 1
    /\ joinKey \in AllKeys \cup {NONE}
    /\ out \in Seq([l : 1..Len(left), r : 0..Len(right)])

Abstract == INSTANCE JoinSpec WITH done <- li - 1

\* Pull implements the nested-loop join: after every step, the rows out
\* holds are exactly those of the reference join of the left records it
\* has finished, in the same order.  This is what the merge over two
\* sorted inputs, the Peeker's discards and the cached join set must give.
JoinRefinement == Abstract!Spec

\* Pull's loop ends: every left record is joined and Pull returns.
Terminates == <>(pc = "eos")
=============================================================================
