----------------------------- MODULE AggregateOp -----------------------------
(***************************************************************************)
(* aggregate.Op (src/unnamed/part_000): the run goroutine that drives the  *)
(* Aggregator, the downstream that calls Op.Pull, the upstream puller and  *)
(* the query context.  run and Pull meet only on the unbuffered channels   *)
(* resultCh and doneCh and on ctx.Done, so every action below is one step  *)
(* between two of those meeting points.                                    *)
(*                                                                         *)
(* pc is the position of run:                                              *)
(*   "init"     run not started (Pull starts it once, via o.once)          *)
(*   "pull"     top of the loop, about to call o.parent.Pull(false)        *)
(*   "consume"  calling o.agg.Consume on cur.vals[idx]                     *)
(*   "emit"     sorted input: calling nextResult(false, batch)             *)
(*   "drain"    end of stream: sendResults calling nextResult(true, ...)   *)
(*   "send"     in sendResult's select with pending; ret says which call   *)
(*              site continues afterwards                                  *)
(*   "doneErr"  sendResult after doneCh: sending the error on resultCh     *)
(*   "exit"     returning from run: the deferred functions run             *)
(*   "exited"   run has returned                                           *)
(* dpc is the downstream: "idle", "pulling" (Pull(false) blocked on        *)
(* resultCh), "cancelling" (Pull(true) blocked on doneCh), "finished".     *)
(***************************************************************************)
EXTENDS Aggregator

VARIABLES
    agg,        \* the Aggregator's fields (Aggregator.tla)
    pc,         \* position of the run goroutine
    cur,        \* the batch being consumed: [id, vals]
    idx,        \* index into cur.vals of the value being consumed
    obatch,     \* o.batch: id of the first batch of the substream, or NIL
    pending,    \* the op.Result handed to sendResult: [batch, err]
    ret,        \* call site of the pending sendResult
    refs,       \* reference count of every upstream batch
    nextId,     \* id of the next upstream batch
    dpc,        \* the downstream
    ctxDone,    \* rctx.Done() is closed
    closed,     \* resultCh is closed
    stream,     \* upstream: current substream (MaxStreams + 1: exhausted)
    sent,       \* upstream: values sent in the current substream
    lastPrim,   \* upstream: last primary key sent in the current substream
    upErrs,     \* upstream: errors returned so far
    spillFails, \* spiller.Spill failures so far
    inputs,     \* history: values of each key consumed in the substream
    delivered   \* history: records the downstream received in the substream

runVars  == <<pc, cur, idx, obatch, pending, ret, refs, nextId>>
upVars   == <<stream, sent, lastPrim, upErrs>>
histVars == <<inputs, delivered>>
vars == <<agg, runVars, dpc, ctxDone, closed, upVars, spillFails, histVars>>

NoInputs == [k \in Key |-> 0]
EOSResult == [batch |-> NIL, err |-> FALSE]
ErrResult == [batch |-> NIL, err |-> TRUE]
Batches == 1..MaxBatches

Init ==
    /\ agg = AggInit
    /\ pc = "init" /\ cur = NIL /\ idx = 0 /\ obatch = NIL
    /\ pending = NIL /\ ret = NIL
    /\ refs = [b \in Batches |-> 0] /\ nextId = 1
    /\ dpc = "idle" /\ ctxDone = FALSE /\ closed = FALSE
    /\ stream = 1 /\ sent = 0 /\ lastPrim = NIL /\ upErrs = 0
    /\ spillFails = 0
    /\ inputs = NoInputs /\ delivered = <<>>

Unref(rf, b) == IF b = NIL THEN rf ELSE [rf EXCEPT ![b] = @ - 1]

\* Whether a spiller.Spill call may fail in this step.
FailChoice == IF spillFails < MaxSpillFailures THEN BOOLEAN ELSE {FALSE}
\* Whether the upstream Pull may return an error in this step.
ErrChoice == IF upErrs < MaxUpstreamErrors \/ ctxDone THEN BOOLEAN ELSE {FALSE}
CountErr(e) == upErrs' = IF e /\ ~ctxDone THEN upErrs + 1 ELSE upErrs

\* The upstream moves on to its next substream (after EOS or Pull(true)).
EndSubstream ==
    /\ stream' = IF stream <= MaxStreams THEN stream + 1 ELSE stream
    /\ sent' = 0
    /\ lastPrim' = NIL

\* A sorted upstream sends non-decreasing primary keys within a substream.
InputOrdered(vals) ==
    InputDir # 0 =>
        /\ \A i \in 1..Len(vals) - 1 : vals[i][1] <= vals[i + 1][1]
        /\ lastPrim # NIL => lastPrim <= vals[1][1]

\* Call sendResult(res) from call site k.
Send(res, k) == pending' = res /\ ret' = k /\ pc' = "send"

\* What each call site of sendResult does with its (done, ok) answer; rf and
\* ob are refs and o.batch as sendResult left them.
Resume(done, ok, rf, ob) ==
    \/ /\ ~ok \/ ret = "exit"
       /\ pc' = "exit" /\ refs' = rf /\ obatch' = ob
    \/ /\ ok /\ ret = "parentErr"
       /\ pc' = "pull" /\ refs' = rf /\ obatch' = ob
    \/ /\ ok /\ ret = "emit" /\ done
       /\ pc' = "pull" /\ refs' = Unref(rf, cur.id) /\ obatch' = ob
    \/ /\ ok /\ ret = "emit" /\ ~done
       /\ pc' = "emit" /\ refs' = rf /\ obatch' = ob
    \/ /\ ok /\ ret = "drain" /\ (done \/ pending.batch = NIL)
       /\ pc' = "pull" /\ refs' = Unref(rf, ob) /\ obatch' = NIL
    \/ /\ ok /\ ret = "drain" /\ ~done /\ pending.batch # NIL
       /\ pc' = "drain" /\ refs' = rf /\ obatch' = ob

-----------------------------------------------------------------------------
(* The run goroutine.                                                      *)

\* o.parent.Pull(false) returns an error: send it on and keep pulling.
ParentError ==
    /\ pc = "pull"
    /\ upErrs < MaxUpstreamErrors \/ ctxDone
    /\ CountErr(TRUE)
    /\ Send(ErrResult, "parentErr")
    /\ UNCHANGED <<agg, cur, idx, obatch, refs, nextId, dpc, ctxDone, closed,
                   stream, sent, lastPrim, spillFails, histVars>>

\* o.parent.Pull(false) returns nil (EOS): drain the Aggregator.
ParentEOS ==
    /\ pc = "pull"
    /\ pc' = "drain"
    /\ EndSubstream
    /\ UNCHANGED <<agg, cur, idx, obatch, pending, ret, refs, nextId, dpc,
                   ctxDone, closed, upErrs, spillFails, histVars>>

\* Mutant: the first batch of a substream is kept as o.batch without Ref.
ParentBatchNoRef ==
    /\ pc = "pull"
    /\ stream <= MaxStreams /\ nextId <= MaxBatches
    /\ \E n \in 1..MaxBatchSize : \E vals \in [1..n -> Input] :
          /\ sent + n <= MaxValues
          /\ InputOrdered(vals)
          /\ cur' = [id |-> nextId, vals |-> vals]
          /\ sent' = sent + n
          /\ lastPrim' = vals[n][1]
    /\ refs' = [refs EXCEPT ![nextId] = 1]
    /\ obatch' = IF obatch = NIL THEN nextId ELSE obatch
    /\ nextId' = nextId + 1
    /\ idx' = 1 /\ pc' = "consume"
    /\ UNCHANGED <<agg, pending, ret, dpc, ctxDone, closed, stream, upErrs,
                   spillFails, histVars>>

\* o.parent.Pull(false) returns a batch; the first of a substream becomes
\* o.batch and takes an extra reference.
ParentBatch ==
    /\ pc = "pull"
    /\ stream <= MaxStreams /\ nextId <= MaxBatches
    /\ \E n \in 1..MaxBatchSize : \E vals \in [1..n -> Input] :
          /\ sent + n <= MaxValues
          /\ InputOrdered(vals)
          /\ cur' = [id |-> nextId, vals |-> vals]
          /\ sent' = sent + n
          /\ lastPrim' = vals[n][1]
    /\ refs' = [refs EXCEPT ![nextId] = IF obatch = NIL THEN 2 ELSE 1]
    /\ obatch' = IF obatch = NIL THEN nextId ELSE obatch
    /\ nextId' = nextId + 1
    /\ idx' = 1 /\ pc' = "consume"
    /\ UNCHANGED <<agg, pending, ret, dpc, ctxDone, closed, stream, upErrs,
                   spillFails, histVars>>

\* o.agg.Consume(batch, vals[i]); after the last value an unsorted run
\* releases the batch, a sorted one looks for completed groups.  An error
\* is sent and run returns.
ConsumeValue ==
    /\ pc = "consume"
    /\ \E fail \in FailChoice :
         LET v == cur.vals[idx]
             r == Consume(agg, v, fail)
         IN /\ agg' = r.agg
            /\ spillFails' = IF r.err THEN spillFails + 1 ELSE spillFails
            /\ inputs' = IF r.err \/ v[2] = QUIET THEN inputs
                         ELSE [inputs EXCEPT ![v] = @ + 1]
            /\ \/ r.err /\ Send(ErrResult, "exit") /\ UNCHANGED <<idx, refs>>
               \/ /\ ~r.err /\ idx < Len(cur.vals)
                  /\ idx' = idx + 1 /\ UNCHANGED <<pc, pending, ret, refs>>
               \/ /\ ~r.err /\ idx = Len(cur.vals) /\ InputDir = 0
                  /\ refs' = Unref(refs, cur.id) /\ pc' = "pull"
                  /\ UNCHANGED <<idx, pending, ret>>
               \/ /\ ~r.err /\ idx = Len(cur.vals) /\ InputDir # 0
                  /\ pc' = "emit" /\ UNCHANGED <<idx, pending, ret, refs>>
    /\ UNCHANGED <<cur, obatch, nextId, dpc, ctxDone, closed, upVars, delivered>>

\* Mutant: the early batch is sent without slices.SortStableFunc.
EarlyEmitUnsorted ==
    /\ pc = "emit"
    /\ LET r == NextResult(agg, FALSE, FALSE)
       IN /\ agg' = r.agg
          /\ \/ /\ r.orders = {}
                /\ refs' = Unref(refs, cur.id) /\ pc' = "pull"
                /\ UNCHANGED <<pending, ret>>
             \/ \E s \in r.orders :
                   Send([batch |-> s, err |-> FALSE], "emit") /\ UNCHANGED refs
    /\ UNCHANGED <<cur, idx, obatch, nextId, dpc, ctxDone, closed, upVars,
                   spillFails, histVars>>

\* Sorted input: nextResult(false); a batch is stably sorted by the first
\* key and sent, nil ends the loop and releases the batch.
EarlyEmit ==
    /\ pc = "emit"
    /\ LET r == NextResult(agg, FALSE, FALSE)
       IN /\ agg' = r.agg
          /\ \/ /\ r.orders = {}
                /\ refs' = Unref(refs, cur.id) /\ pc' = "pull"
                /\ UNCHANGED <<pending, ret>>
             \/ \E s \in {o \in r.orders : IsSorted(o, LAMBDA x, y : x.key[1] <= y.key[1])} :
                   Send([batch |-> s, err |-> FALSE], "emit") /\ UNCHANGED refs
    /\ UNCHANGED <<cur, idx, obatch, nextId, dpc, ctxDone, closed, upVars,
                   spillFails, histVars>>

\* sendResults: nextResult(true) until a nil batch, each result sent.
Drain ==
    /\ pc = "drain"
    /\ \E fail \in FailChoice :
         LET r == NextResult(agg, TRUE, fail)
         IN /\ agg' = r.agg
            /\ spillFails' = IF r.err THEN spillFails + 1 ELSE spillFails
            /\ \/ r.err /\ Send(ErrResult, "drain")
               \/ ~r.err /\ r.orders = {} /\ Send(EOSResult, "drain")
               \/ \E s \in r.orders : Send([batch |-> s, err |-> FALSE], "drain")
    /\ UNCHANGED <<cur, idx, obatch, refs, nextId, dpc, ctxDone, closed, upVars,
                   histVars>>

\* sendResult, case o.resultCh <- r: a blocked Pull(false) receives it.  An
\* EOS or error ending sendResults ends the substream.
Deliver ==
    /\ pc = "send" /\ dpc = "pulling"
    /\ dpc' = "idle"
    /\ IF ret = "drain" /\ pending.batch = NIL
       THEN inputs' = NoInputs /\ delivered' = <<>>
       ELSE /\ delivered' = IF pending.batch = NIL THEN delivered
                            ELSE delivered \o pending.batch
            /\ UNCHANGED inputs
    /\ Resume(FALSE, TRUE, refs, obatch)
    /\ UNCHANGED <<agg, cur, idx, nextId, pending, ret, ctxDone, closed, upVars,
                   spillFails>>

\* sendResult, case <-o.doneCh: drop the result, o.reset() (spills, table,
\* o.batch), o.parent.Pull(true); an error (the pending one or the
\* upstream's) is then sent on resultCh.
DoneRecv ==
    /\ pc = "send" /\ dpc = "cancelling"
    /\ dpc' = "idle"
    /\ agg' = [agg EXCEPT !.spiller = NIL, !.table = EmptyTable]
    /\ inputs' = NoInputs /\ delivered' = <<>>
    /\ EndSubstream
    /\ \E pullErr \in ErrChoice :
         /\ CountErr(pullErr)
         /\ \/ /\ pending.err \/ pullErr
               /\ pc' = "doneErr" /\ refs' = Unref(refs, obatch) /\ obatch' = NIL
            \/ /\ ~pending.err /\ ~pullErr
               /\ Resume(TRUE, TRUE, Unref(refs, obatch), NIL)
    /\ UNCHANGED <<cur, idx, nextId, pending, ret, ctxDone, closed, spillFails>>

\* sendResult, case <-o.rctx.Done(): (false, false), so run returns.
CtxRecv ==
    /\ pc = "send" /\ ctxDone
    /\ Resume(FALSE, FALSE, refs, obatch)
    /\ UNCHANGED <<agg, cur, idx, nextId, pending, ret, dpc, ctxDone, closed,
                   upVars, spillFails, histVars>>

\* The error after doneCh goes to the next Pull(false), or the context ends
\* the wait; either way every caller sees ok = false and run returns.
DoneErrSend ==
    /\ pc = "doneErr"
    /\ \/ dpc = "pulling" /\ dpc' = "idle"
       \/ ctxDone /\ UNCHANGED dpc
    /\ pc' = "exit"
    /\ UNCHANGED <<agg, cur, idx, obatch, pending, ret, refs, nextId, ctxDone,
                   closed, upVars, spillFails, histVars>>

\* Mutant: run returns without closing resultCh.
ExitNoClose ==
    /\ pc = "exit"
    /\ pc' = "cleanup"
    /\ UNCHANGED <<agg, cur, idx, obatch, pending, ret, refs, nextId, dpc, ctxDone,
                   closed, upVars, spillFails, histVars>>

\* run returns: the deferred close(o.resultCh) runs first (defers run last
\* in, first out) ...
Exit ==
    /\ pc = "exit"
    /\ pc' = "cleanup"
    /\ closed' = TRUE
    /\ UNCHANGED <<agg, cur, idx, obatch, pending, ret, refs, nextId, dpc, ctxDone,
                   upVars, spillFails, histVars>>

\* ... then spiller.Cleanup and rctx.WaitGroup.Done.
Cleanup ==
    /\ pc = "cleanup"
    /\ pc' = "exited"
    /\ agg' = [agg EXCEPT !.spiller = NIL]
    /\ UNCHANGED <<cur, idx, obatch, pending, ret, refs, nextId, dpc, ctxDone,
                   closed, upVars, spillFails, histVars>>

-----------------------------------------------------------------------------
(* The downstream and the query context.                                   *)

\* Op.Pull(false): start run once, then wait on resultCh.
PullResult ==
    /\ dpc = "idle"
    /\ dpc' = "pulling"
    /\ pc' = IF pc = "init" THEN "pull" ELSE pc
    /\ UNCHANGED <<agg, cur, idx, obatch, pending, ret, refs, nextId, ctxDone,
                   closed, upVars, spillFails, histVars>>

\* Op.Pull(false) on a closed resultCh returns nil and rctx.Err().
PullClosed ==
    /\ dpc = "pulling" /\ closed
    /\ dpc' = "idle"
    /\ UNCHANGED <<agg, runVars, ctxDone, closed, upVars, spillFails, histVars>>

\* Op.Pull(true): wait to hand done to run.
PullDone ==
    /\ dpc = "idle"
    /\ dpc' = "cancelling"
    /\ UNCHANGED <<agg, runVars, ctxDone, closed, upVars, spillFails, histVars>>

\* Op.Pull(true), case <-o.rctx.Done().
PullDoneCtx ==
    /\ dpc = "cancelling" /\ ctxDone
    /\ dpc' = "idle"
    /\ UNCHANGED <<agg, runVars, ctxDone, closed, upVars, spillFails, histVars>>

\* The downstream stops calling Pull.
StopPulling ==
    /\ dpc = "idle"
    /\ dpc' = "finished"
    /\ UNCHANGED <<agg, runVars, ctxDone, closed, upVars, spillFails, histVars>>

\* The query context is cancelled: at any time if CanCancel, and always once
\* the query's consumer has finished.
Cancel ==
    /\ ~ctxDone /\ (CanCancel \/ dpc = "finished")
    /\ ctxDone' = TRUE
    /\ UNCHANGED <<agg, runVars, dpc, closed, upVars, spillFails, histVars>>

\* Both sides are done (run returned, or was never started).
Terminated ==
    /\ pc \in {"init", "exited"} /\ dpc = "finished" /\ ctxDone
    /\ UNCHANGED vars

Next ==
    \/ ParentError \/ ParentEOS \/ ParentBatch \/ ConsumeValue
    \/ EarlyEmit \/ Drain \/ Deliver \/ DoneRecv \/ CtxRecv \/ DoneErrSend
    \/ Exit \/ Cleanup
    \/ PullResult \/ PullClosed \/ PullDone \/ PullDoneCtx \/ StopPulling
    \/ Cancel \/ Terminated

Spec == Init /\ [][Next]_vars

\* The Go scheduler runs the run goroutine whenever it is runnable, the
\* upstream answers run's Pull, and a blocked Pull returns once resultCh is
\* closed or the context is done.  Nothing obliges the downstream to call
\* Pull or the context to be cancelled.
FairSpec ==
    /\ Spec
    /\ WF_vars(\/ ParentError \/ ParentEOS \/ ParentBatch \/ ConsumeValue
               \/ EarlyEmit \/ Drain \/ Deliver \/ DoneRecv \/ CtxRecv
               \/ DoneErrSend \/ Exit \/ Cleanup)
    /\ WF_vars(PullClosed \/ PullDoneCtx)
-----------------------------------------------------------------------------
(* Properties.                                                             *)

Row == [keyType : Nat, groupval : Prims \cup {NIL}, cnt : Nat \ {0}]
Rec == [key : Key, cnt : Nat \ {0}]

TypeOK ==
    /\ \A ek \in DOMAIN agg.table : agg.table[ek] \in Row
    /\ agg.spiller = NIL \/ agg.spiller \in Seq(SUBSET Rec)
    /\ agg.maxTableKey \in Prims \cup {NIL} /\ agg.maxSpillKey \in Prims \cup {NIL}
    /\ pc \in {"init", "pull", "consume", "emit", "drain", "send", "doneErr",
              "exit", "cleanup", "exited"}
    /\ dpc \in {"idle", "pulling", "cancelling", "finished"}
    /\ refs \in [Batches -> Nat]
    /\ obatch \in Batches \cup {NIL}
    /\ inputs \in [Key -> Nat] /\ delivered \in Seq(Rec)

\* Every group of a substream reaches the downstream at most once, and with
\* the count of all the values of its typed key that the substream had
\* consumed by then, so never before its last value: Consume's type-id
\* suffixed table key, spillTable/readSpills' merge by full key, and the
\* sorted-input early emission (readTable below maxTableKey, readSpills
\* below maxSpillKey) together must never split or merge a group.
ExactlyOnceGroups ==
    /\ \A i \in DOMAIN delivered : delivered[i].cnt = inputs[delivered[i].key]
    /\ \A i, j \in DOMAIN delivered : i # j => delivered[i].key # delivered[j].key

\* When sendResults is about to send the EOS of a substream, every group the
\* substream consumed has been delivered: nextResult(true) spills the table
\* before merging and is called until it returns nil.
EOSComplete ==
    pc = "send" /\ ret = "drain" /\ pending = EOSResult =>
        \A k \in Key : inputs[k] > 0 => \E i \in DOMAIN delivered : delivered[i].key = k

\* On sorted input the downstream receives a substream's records in
\* non-decreasing primary-key order, across batches (early emission, spill
\* merge and the final drain) as well as within one.
OutputSorted ==
    InputDir # 0 => IsSorted(delivered, LAMBDA x, y : x.key[1] <= y.key[1])

\* readSpills compares each record's keyExprs[0] with *a.maxSpillKey before
\* end of input on sorted input, unless the key is an error: whatever the
\* spiller holds, through spill failures, substream ends and resets, it was
\* spilled behind a maxSpillKey that is set, or its key is an error.
SpillKeySet ==
    InputDir # 0 /\ agg.spiller # NIL /\ agg.maxSpillKey = NIL =>
        \A k \in SpillKeys(agg.spiller) : EvalKey0([key |-> k]) = NIL

\* Back at the top of run's loop, every upstream batch has been released
\* except o.batch, which holds exactly the one reference run took on it:
\* batch.Unref after consuming, o.batch.Unref at EOS and in o.reset().
RefsBalanced ==
    pc = "pull" => \A b \in 1..nextId - 1 : refs[b] = IF b = obatch THEN 1 ELSE 0

\* The spill files are deleted before the downstream sees the end of the
\* operator's output: the spec asks the scoped cleanup to run before the
\* final result, and run's deferred close(o.resultCh) is that final result.
CleanedUpBeforeClose ==
    closed => agg.spiller = NIL

\* Once run has returned, every upstream batch has been released: the spec
\* requires each input batch to be unreferenced exactly once.
ReleasedOnExit ==
    pc = "exited" => \A b \in Batches : refs[b] = 0

\* Every Pull(false) returns: run answers it with a result, or has returned
\* and closed resultCh.
PullAnswered == dpc = "pulling" ~> dpc # "pulling"

\* Every Pull(true) returns (the spec: done=true makes the operator
\* propagate cancellation and return a terminal result), even when run has
\* not been started, has returned, or is handing an error to a Pull(false).
PullDoneAnswered == dpc = "cancelling" ~> dpc # "cancelling"
=============================================================================
