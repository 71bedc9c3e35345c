----------------------------- MODULE ServiceEvents -----------------------------
(***************************************************************************)
(* Event publishing of service.Core (src/service/core.go).  publishEvent  *)
(* starts one goroutine per event, which holds subscriptionsMu.RLock      *)
(* while it sends the event on every subscriber's channel.  A subscriber  *)
(* is the goroutine of an /events request (handleEvents, not in this      *)
(* source): it adds its unbuffered channel to c.subscriptions under       *)
(* subscriptionsMu.Lock, receives events, and when its request ends takes *)
(* the Lock again to delete the channel; while it waits for the Lock it   *)
(* does not receive.  sync.RWMutex: RLock blocks while a writer waits or  *)
(* holds the lock, Lock waits for the readers to leave.  A subscriber's   *)
(* critical section (one map update and Unlock) is one step.              *)
(***************************************************************************)
EXTENDS Integers, FiniteSets

CONSTANTS
    Subs,         \* subscribers (/events requests)
    Events,       \* events published, 1..n in publishing order
    LeaveMidSend  \* a request may end while an event is being sent to it

VARIABLES
    subscriptions,  \* c.subscriptions
    readers,        \* goroutines holding subscriptionsMu.RLock
    writers,        \* subscribers waiting for subscriptionsMu.Lock
    spc,            \* subscriber: "out", "joining", "reading", "leaving", "left"
    ppc,            \* publisher goroutine of an event: "idle", "rlock", "send", "done"
    todo            \* subscribers an event's goroutine has still to send to

vars == <<subscriptions, readers, writers, spc, ppc, todo>>

Init ==
    /\ subscriptions = {} /\ readers = 0 /\ writers = {}
    /\ spc = [s \in Subs |-> "out"]
    /\ ppc = [e \in Events |-> "idle"] /\ todo = [e \in Events |-> {}]

\* publishEvent: marshal the data, then start the sending goroutine.
\* Handlers publish events one after another.
Publish(e) ==
    /\ ppc[e] = "idle" /\ \A d \in Events : d < e => ppc[d] # "idle"
    /\ ppc' = [ppc EXCEPT ![e] = "rlock"]
    /\ UNCHANGED <<subscriptions, readers, writers, spc, todo>>

\* c.subscriptionsMu.RLock(), then range over c.subscriptions.
PubRLock(e) ==
    /\ ppc[e] = "rlock" /\ writers = {}
    /\ readers' = readers + 1
    /\ todo' = [todo EXCEPT ![e] = subscriptions]
    /\ ppc' = [ppc EXCEPT ![e] = "send"]
    /\ UNCHANGED <<subscriptions, writers, spc>>

\* sub <- ev: the unbuffered send meets the subscriber's receive.
PubSend(e, s) ==
    /\ ppc[e] = "send" /\ s \in todo[e] /\ spc[s] = "reading"
    /\ todo' = [todo EXCEPT ![e] = @ \ {s}]
    /\ UNCHANGED <<subscriptions, readers, writers, spc, ppc>>

\* c.subscriptionsMu.RUnlock() after the loop.
PubUnlock(e) ==
    /\ ppc[e] = "send" /\ todo[e] = {}
    /\ readers' = readers - 1
    /\ ppc' = [ppc EXCEPT ![e] = "done"]
    /\ UNCHANGED <<subscriptions, writers, spc, todo>>

\* An /events request (handleEvents) asks for the Lock to add its channel.
SubJoin(s) ==
    /\ spc[s] = "out"
    /\ spc' = [spc EXCEPT ![s] = "joining"]
    /\ writers' = writers \cup {s}
    /\ UNCHANGED <<subscriptions, readers, ppc, todo>>

\* The request's context is done: it asks for the Lock to delete its
\* channel (only between two events unless LeaveMidSend).
SubLeave(s) ==
    /\ spc[s] = "reading"
    /\ LeaveMidSend \/ \A e \in Events : s \notin todo[e]
    /\ spc' = [spc EXCEPT ![s] = "leaving"]
    /\ writers' = writers \cup {s}
    /\ UNCHANGED <<subscriptions, readers, ppc, todo>>

\* The subscriber gets the Lock once no reader holds it, updates
\* c.subscriptions and unlocks.
SubUpdate(s) ==
    /\ s \in writers /\ readers = 0
    /\ writers' = writers \ {s}
    /\ \/ spc[s] = "joining" /\ subscriptions' = subscriptions \cup {s}
          /\ spc' = [spc EXCEPT ![s] = "reading"]
       \/ spc[s] = "leaving" /\ subscriptions' = subscriptions \ {s}
          /\ spc' = [spc EXCEPT ![s] = "left"]
    /\ UNCHANGED <<readers, ppc, todo>>

\* Every goroutine is done: the final state.
Finished ==
    /\ \A e \in Events : ppc[e] = "done"
    /\ \A s \in Subs : spc[s] \in {"out", "reading", "left"}
    /\ UNCHANGED vars

\* Every step but a new subscription.
Internal ==
    \/ \E e \in Events : Publish(e) \/ PubRLock(e) \/ PubUnlock(e)
    \/ \E e \in Events, s \in Subs : PubSend(e, s)
    \/ \E s \in Subs : SubLeave(s) \/ SubUpdate(s)
    \/ Finished

Next == (\E s \in Subs : SubJoin(s)) \/ Internal

\* The Go scheduler runs every runnable goroutine; nothing obliges a client
\* to subscribe or to leave.
Fairness ==
    /\ \A e \in Events : WF_vars(PubRLock(e)) /\ WF_vars(PubUnlock(e))
    /\ \A e \in Events, s \in Subs : WF_vars(PubSend(e, s))
    /\ \A s \in Subs : WF_vars(SubUpdate(s))

Spec == Init /\ [][Next]_vars /\ Fairness

\* Every event's goroutine finishes: it gets the read lock, sends to every
\* subscriber and releases the lock, whatever the subscribers do.
PublishCompletes == \A e \in Events : ppc[e] = "rlock" ~> ppc[e] = "done"
=============================================================================
