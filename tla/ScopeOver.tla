------------------------------ MODULE ScopeOver ------------------------------
(***************************************************************************)
(* The vector runtime's lateral scope (src/unnamed/part_002): Over pulls   *)
(* batches from its parent and returns, per row, the flattened values of   *)
(* its expressions; Scope turns each of those into a one-vector substream  *)
(* (the vector, then EOS) for the operators inside the scope; ScopeExit    *)
(* pulls the inner operators and turns their per-row EOS back into the     *)
(* outer stream, returning EOS on the second EOS in a row.                  *)
(*                                                                         *)
(* All Pull calls run on the consumer's goroutine, nested: pc says which   *)
(* of the frames runs next, ret carries a return value one frame up.       *)
(*                                                                         *)
(* Data: Over's parent is a sequence of items, EOS or a batch; a batch is  *)
(* a sequence of rows and a row gives each expression the number of        *)
(* elements it flattens to (0: an empty array or set, a null or a record    *)
(* with no fields, which flatten to nil).  A vector Over returns is named   *)
(* by the item and slot it came from.  The inner operators are either a    *)
(* pass-through or a filter that may drop a vector and pull again (the     *)
(* Puller contract; their code is not in this repository).                 *)
(***************************************************************************)
EXTENDS Naturals, Sequences, FiniteSets

CONSTANTS
    Inputs,     \* the sequences of items Over's parent may yield
    NExprs,     \* len(o.exprs)
    Inners,     \* the inner pipelines: subset of {"pass", "filter"}
    MaxDone,    \* bound on the consumer's Pull(true) calls
    EOS, NIL

VARIABLES
    input,      \* what Over's parent yields, fixed per behaviour
    inner,      \* the inner pipeline, fixed per behaviour
    pos,        \* the parent's next item
    vecs,       \* o.vecs: the item whose batch Over holds, 0 when empty
    idx,        \* o.idx
    sendEOS,    \* Scope.sendEOS
    firstEOS,   \* ScopeExit.firstEOS
    pc,         \* the frame that runs next
    ret,        \* the value being returned up one frame
    received,   \* what the consumer got from ScopeExit.Pull, in order
    dones       \* the consumer's Pull(true) calls so far

vars == <<input, inner, pos, vecs, idx, sendEOS, firstEOS, pc, ret,
          received, dones>>

Vec(i, s) == [item |-> i, slot |-> s]
IsBatch(it) == it # EOS
Rows(i) == input[i]

\* The number of the stream an item belongs to: the EOS items before it.
StreamOf(i) == Cardinality({j \in 1 .. i - 1 : input[j] = EOS})
EOSCount(seq) == Cardinality({k \in DOMAIN seq : seq[k] = EOS})
\* The parent returns nil for ever once its items are used up, which ends
\* one more stream.
NumStreams == EOSCount(input) + 1

(***************************************************************************)
(* Over.flatten and flattenArrayOrSet: the values of one slot, nil when    *)
(* they are empty.  With one expression an empty slot is skipped; with     *)
(* several, Pull calls vec.Len() on each flattened vector and a nil one    *)
(* panics.                                                                 *)
(***************************************************************************)
Flatten(i, s) == IF \E e \in 1 .. NExprs : Rows(i)[s][e] = 0 THEN NIL ELSE Vec(i, s)
Panics(i, s) == NExprs > 1 /\ Flatten(i, s) = NIL

\* len(o.vecs) == 0 || o.idx >= o.vecs[0].Len()
Exhausted == IF vecs = 0 THEN TRUE ELSE idx >= Len(Rows(vecs))

Init ==
    /\ input \in Inputs
    /\ inner \in Inners
    /\ pos = 1 /\ vecs = 0 /\ idx = 0
    /\ sendEOS = FALSE /\ firstEOS = FALSE
    /\ pc = "idle" /\ ret = NIL
    /\ received = <<>> /\ dones = 0

\* The consumer stops once it has seen every stream end.
Finished == pc = "idle" /\ EOSCount(received) >= NumStreams

\* ScopeExit.Pull(false): the loop starts by pulling the inner operators,
\* whose first step is Scope.Pull(false).
PullExit ==
    /\ pc = "idle" /\ ~Finished
    /\ pc' = "scope"
    /\ UNCHANGED <<input, inner, pos, vecs, idx, sendEOS, firstEOS, ret,
                   received, dones>>

(***************************************************************************)
(* ScopeExit.Pull(true): parent.Pull(true) reaches Scope.Pull(true), which *)
(* clears sendEOS and returns nil, so the inner operators return nil and   *)
(* ScopeExit returns it: over.Pull(true) is called only when the inner     *)
(* operators return a vector.                                              *)
(***************************************************************************)
PullExitDone ==
    /\ pc = "idle" /\ ~Finished /\ dones < MaxDone
    /\ sendEOS' = FALSE
    /\ received' = Append(received, EOS)
    /\ dones' = dones + 1
    /\ UNCHANGED <<input, inner, pos, vecs, idx, firstEOS, pc, ret>>

\* Scope.Pull(false): nil after each vector, else call over.Pull(false).
ScopePull ==
    /\ pc = "scope"
    /\ IF sendEOS
       THEN /\ sendEOS' = FALSE /\ ret' = NIL /\ pc' = "inner"
       ELSE /\ pc' = "over" /\ UNCHANGED <<sendEOS, ret>>
    /\ UNCHANGED <<input, inner, pos, vecs, idx, firstEOS, received, dones>>

\* Mutant: a new batch is read from the slot where the last one ended.
OverRefillNoReset ==
    /\ pc = "over"
    /\ Exhausted
    /\ IF pos <= Len(input) /\ IsBatch(input[pos])
       THEN /\ vecs' = pos /\ UNCHANGED <<pc, ret, idx>>
       ELSE /\ pc' = "scoperet" /\ ret' = NIL /\ UNCHANGED <<vecs, idx>>
    /\ pos' = IF pos <= Len(input) THEN pos + 1 ELSE pos
    /\ UNCHANGED <<input, inner, sendEOS, firstEOS, received, dones>>

\* Over.Pull(false), the loop head with o.vecs used up: pull the parent,
\* return nil on its nil, else hold the batch from slot 0.
OverRefill ==
    /\ pc = "over"
    /\ Exhausted
    /\ IF pos <= Len(input) /\ IsBatch(input[pos])
       THEN /\ vecs' = pos /\ idx' = 0 /\ UNCHANGED <<pc, ret>>
       ELSE /\ pc' = "scoperet" /\ ret' = NIL /\ UNCHANGED <<vecs, idx>>
    /\ pos' = IF pos <= Len(input) THEN pos + 1 ELSE pos
    /\ UNCHANGED <<input, inner, sendEOS, firstEOS, received, dones>>

\* Mutant: o.idx advances only past a slot that flattened to nil.
OverEmitNoAdvance ==
    /\ pc = "over"
    /\ ~Exhausted
    /\ LET out == Flatten(vecs, idx + 1)
       IN /\ idx' = IF out = NIL THEN idx + 1 ELSE idx
          /\ pc' = CASE Panics(vecs, idx + 1) -> "panic"
                     [] out = NIL             -> "over"
                     [] OTHER                 -> "scoperet"
          /\ ret' = out
    /\ UNCHANGED <<input, inner, pos, vecs, sendEOS, firstEOS, received, dones>>

\* Over.Pull(false), the rest of the loop body: flatten the slot, advance
\* o.idx and return the vector unless it is nil.
OverEmit ==
    /\ pc = "over"
    /\ ~Exhausted
    /\ LET out == Flatten(vecs, idx + 1)
       IN /\ idx' = idx + 1
          /\ pc' = CASE Panics(vecs, idx + 1) -> "panic"
                     [] out = NIL             -> "over"
                     [] OTHER                 -> "scoperet"
          /\ ret' = out
    /\ UNCHANGED <<input, inner, pos, vecs, sendEOS, firstEOS, received, dones>>

\* Scope.Pull(false) after over.Pull returns: sendEOS = vec != nil.
ScopeRet ==
    /\ pc = "scoperet"
    /\ sendEOS' = (ret # NIL)
    /\ pc' = "inner"
    /\ UNCHANGED <<input, inner, pos, vecs, idx, firstEOS, ret, received, dones>>

\* The inner operators return what Scope returned; a filter may drop a
\* vector and pull Scope again.
InnerRet ==
    /\ pc = "inner"
    /\ \/ pc' = "exit"
       \/ inner = "filter" /\ ret # NIL /\ pc' = "scope"
    /\ UNCHANGED <<input, inner, pos, vecs, idx, sendEOS, firstEOS, ret,
                   received, dones>>

\* Mutant: the first nil is not remembered.
ExitRetNoFirst ==
    /\ pc = "exit"
    /\ CASE ret # NIL ->
              /\ firstEOS' = FALSE /\ pc' = "idle"
              /\ received' = Append(received, ret)
         [] firstEOS ->
              /\ pc' = "idle" /\ received' = Append(received, EOS)
              /\ UNCHANGED firstEOS
         [] OTHER ->
              /\ pc' = "scope"
              /\ UNCHANGED <<received, firstEOS>>
    /\ UNCHANGED <<input, inner, pos, vecs, idx, sendEOS, ret, dones>>

\* ScopeExit.Pull(false) after the inner pull: return a vector; return nil
\* on a second nil in a row; else remember the first nil and loop.
ExitRet ==
    /\ pc = "exit"
    /\ CASE ret # NIL ->
              /\ firstEOS' = FALSE /\ pc' = "idle"
              /\ received' = Append(received, ret)
         [] firstEOS ->
              /\ pc' = "idle" /\ received' = Append(received, EOS)
              /\ UNCHANGED firstEOS
         [] OTHER ->
              /\ firstEOS' = TRUE /\ pc' = "scope"
              /\ UNCHANGED received
    /\ UNCHANGED <<input, inner, pos, vecs, idx, sendEOS, ret, dones>>

\* The consumer has stopped pulling.
Stop == Finished /\ UNCHANGED vars

Next ==
    \/ PullExit \/ PullExitDone
    \/ ScopePull \/ OverRefill \/ OverEmit \/ ScopeRet
    \/ InnerRet \/ ExitRet
    \/ Stop

\* The steps of a Pull already called; whether the consumer calls again is
\* its own choice.
Step == ScopePull \/ OverRefill \/ OverEmit \/ ScopeRet \/ InnerRet \/ ExitRet

\* One goroutine runs every frame of a call: a started Pull keeps running.
Spec == Init /\ [][Next]_vars /\ WF_vars(Step)

-----------------------------------------------------------------------------
TypeOK ==
    /\ input \in Inputs /\ inner \in Inners
    /\ pos \in 1 .. Len(input) + 1
    /\ vecs \in {0} \cup {i \in DOMAIN input : IsBatch(input[i])}
    /\ idx \in 0 .. (IF vecs = 0 THEN 0 ELSE Len(Rows(vecs)))
    /\ sendEOS \in BOOLEAN /\ firstEOS \in BOOLEAN
    /\ pc \in {"idle", "scope", "over", "scoperet", "inner", "exit", "panic"}
    /\ dones \in 0 .. MaxDone

IsVec(x) == x # EOS
Delivered == {received[k] : k \in {j \in DOMAIN received : IsVec(received[j])}}
Before(a, b) == a.item < b.item \/ (a.item = b.item /\ a.slot < b.slot)

\* Over: every vector the consumer gets is a slot that flattens to values,
\* and the slots come in the parent's order, none twice (o.idx advances
\* past a returned slot and restarts at 0 on each new batch).
RowsInOrder ==
    /\ \A v \in Delivered : Flatten(v.item, v.slot) # NIL
    /\ \A j, k \in DOMAIN received :
          j < k /\ IsVec(received[j]) /\ IsVec(received[k])
          => Before(received[j], received[k])

\* With nothing inside the scope dropping vectors and no Pull(true), every
\* slot of every batch that flattens to values reaches the consumer by the
\* time it has seen every stream end.
AllRowsDelivered ==
    inner = "pass" /\ dones = 0 /\ Finished =>
        Delivered = UNION {{Vec(i, s) : s \in {t \in DOMAIN Rows(i) : Flatten(i, t) # NIL}} :
                           i \in {j \in DOMAIN input : IsBatch(input[j])}}

\* ScopeExit.Pull returns: its loop over per-row EOS ends on the second nil
\* in a row once the parent is used up (firstEOS).
PullReturns == pc # "idle" ~> pc = "idle"

\* ScopeExit's EOS are the outer stream's: each vector the consumer gets
\* comes from the upstream stream the consumer is in, counting a Pull(true)
\* as the end of the stream it abandons (the pull contract, spec.md 4.5).
StreamsAligned ==
    \A k \in DOMAIN received :
        IsVec(received[k]) =>
            StreamOf(received[k].item) = EOSCount(SubSeq(received, 1, k - 1))

\* With several expressions no slot panics.
NeverPanics == pc # "panic"
=============================================================================
