------------------------------- MODULE JoinSpec -------------------------------
(***************************************************************************)
(* What join.Op promises, as a nested-loop join: the left records are     *)
(* taken in their order, a record whose key is missing is dropped, and    *)
(* each other one yields, in right order, one joined row per right record *)
(* whose key compares equal to its own (keys equal under the comparator   *)
(* are equal keys, null included); an unmatched left record is kept by a  *)
(* left or anti join, a matched one only by an inner or left join.        *)
(* A row is [l |-> left index, r |-> right index], r = 0 for a left       *)
(* record kept alone.                                                     *)
(***************************************************************************)
EXTENDS Integers, Sequences

CONSTANTS MISSING

VARIABLES
    left,   \* keys of the left input, in order
    right,  \* keys of the right input, in order
    anti,   \* the join drops matched left records
    inner,  \* the join drops unmatched left records
    done,   \* left records already joined
    out     \* joined rows produced so far

vars == <<left, right, anti, inner, done, out>>

\* Indices of the right records that join with left record i.
Matches(i) ==
    SelectSeq([j \in 1..Len(right) |-> j],
              LAMBDA j : right[j] # MISSING /\ right[j] = left[i])

RefRows(i) ==
    LET m == Matches(i) IN
    IF left[i] = MISSING THEN <<>>
    ELSE IF m = <<>> THEN IF inner THEN <<>> ELSE <<[l |-> i, r |-> 0]>>
    ELSE IF anti THEN <<>>
    ELSE [n \in 1..Len(m) |-> [l |-> i, r |-> m[n]]]

Init == done = 0 /\ out = <<>>

JoinNext ==
    /\ done < Len(left)
    /\ out' = out \o RefRows(done + 1)
    /\ done' = done + 1
    /\ UNCHANGED <<left, right, anti, inner>>

Spec == Init /\ [][JoinNext]_vars
=============================================================================
