----------------------------- MODULE QueryRegistry -----------------------------
(***************************************************************************)
(* The query-status registry of service.Core (src/service/core.go).  A    *)
(* query request registers a queryStatus under its request id            *)
(* (newQueryStatus); when the query ends, Done releases the status's      *)
(* WaitGroup and starts remove, which sleeps ten seconds and then deletes *)
(* the map entry for the id under runningQueriesMu.  A status request     *)
(* (handleQueryStatus, not in this source) looks the id up.  The id is    *)
(* r.ID(), set by requestIDMiddleware (not in this source); UniqueIds      *)
(* says whether two queries may carry the same id.                       *)
(***************************************************************************)
EXTENDS Integers, FiniteSets

CONSTANTS
    Queries,    \* query requests
    Ids,        \* request ids
    NONE,       \* no entry
    UniqueIds   \* every query has an id no other query has

VARIABLES
    runningQueries,  \* c.runningQueries: id -> queryStatus, or NONE
    qpc,             \* query: "new", "running", "done" (remove sleeping), "removed"
    qid              \* the id of a query, NONE before it registers

vars == <<runningQueries, qpc, qid>>

Init ==
    /\ runningQueries = [i \in Ids |-> NONE]
    /\ qpc = [q \in Queries |-> "new"] /\ qid = [q \in Queries |-> NONE]

\* newQueryStatus: q.wg.Add(1), then c.runningQueries[id] = q under the lock.
NewQueryStatus(q, id) ==
    /\ qpc[q] = "new"
    /\ UniqueIds => \A p \in Queries : qid[p] # id
    /\ runningQueries' = [runningQueries EXCEPT ![id] = q]
    /\ qid' = [qid EXCEPT ![q] = id]
    /\ qpc' = [qpc EXCEPT ![q] = "running"]

\* queryStatus.Done: q.wg.Done(), then go q.remove().
Done(q) ==
    /\ qpc[q] = "running"
    /\ qpc' = [qpc EXCEPT ![q] = "done"]
    /\ UNCHANGED <<runningQueries, qid>>

\* remove, after its sleep: delete(c.runningQueries, id) under the lock,
\* whatever status the id now maps to.
Remove(q) ==
    /\ qpc[q] = "done"
    /\ runningQueries' = [runningQueries EXCEPT ![qid[q]] = NONE]
    /\ qpc' = [qpc EXCEPT ![q] = "removed"]
    /\ UNCHANGED qid

Finished == \A q \in Queries : qpc[q] = "removed" /\ UNCHANGED vars

\* Every step but a new registration.
Internal == (\E q \in Queries : Done(q) \/ Remove(q)) \/ Finished

Next == (\E q \in Queries, id \in Ids : NewQueryStatus(q, id)) \/ Internal

Spec == Init /\ [][Next]_vars

\* A status request for a query's id, from its registration until remove
\* has slept its ten seconds after Done, finds that query's status (the
\* comment in newQueryStatus: late status requests still get the status).
StatusAvailable ==
    \A q \in Queries : qpc[q] \in {"running", "done"} => runningQueries[qid[q]] = q
=============================================================================
