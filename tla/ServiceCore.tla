------------------------------ MODULE ServiceCore ------------------------------
(***************************************************************************)
(* service.Core (src/service/core.go) as the composition of its HTTP      *)
(* front (CoreFront: NewCore, the routers, ServeHTTP) and its two pieces  *)
(* of shared state: the event subscriptions with publishEvent's           *)
(* goroutines (ServiceEvents) and the query-status registry               *)
(* (QueryRegistry).  Nothing runs before NewCore returns a Core.  A GET   *)
(* /events that ServeHTTP dispatches to handleEvents subscribes; a POST   *)
(* /query dispatched to handleQuery registers its status.  Core's         *)
(* handlers run on their own goroutines, so a step of one piece           *)
(* interleaves with the steps of the other, and each step leaves the      *)
(* other piece's state alone.                                              *)
(***************************************************************************)
CONSTANTS Subs, Events, LeaveMidSend, Queries, Ids, NONE, UniqueIds,
          Confs, MediaFormats, Requests

VARIABLES
    subscriptions, readers, writers, spc, ppc, todo,  \* ServiceEvents
    runningQueries, qpc, qid,                         \* QueryRegistry
    conf, core, authn, routerAPI,                     \* CoreFront
    reqCred     \* the request served in this step had a valid token

eventVars == <<subscriptions, readers, writers, spc, ppc, todo>>
statusVars == <<runningQueries, qpc, qid>>
frontVars == <<conf, core, authn, routerAPI>>
vars == <<eventVars, statusVars, frontVars, reqCred>>

Ev == INSTANCE ServiceEvents
Qr == INSTANCE QueryRegistry
Fr == INSTANCE CoreFront

Init == Ev!Init /\ Qr!Init /\ Fr!FrontInit /\ reqCred = FALSE

\* A request ServeHTTP dispatches to handler h.
Dispatched(r, h) == \E ok \in BOOLEAN : Fr!ServeHTTP(r, ok) = h

\* GET /events reaches handleEvents, which subscribes.
EventsRequest(s) ==
    \E r \in Requests :
        /\ Ev!SubJoin(s)
        /\ Dispatched(r, "handleEvents")
        /\ reqCred' = r.cred
        /\ UNCHANGED <<statusVars, frontVars>>

\* POST /query reaches handleQuery, which registers the query's status.
QueryRequest(q, id) ==
    \E r \in Requests :
        /\ Qr!NewQueryStatus(q, id)
        /\ Dispatched(r, "handleQuery")
        /\ reqCred' = r.cred
        /\ UNCHANGED <<eventVars, frontVars>>

Next ==
    \/ Fr!FrontNext /\ UNCHANGED <<eventVars, statusVars>> /\ reqCred' = FALSE
    \/ /\ core = "running"
       /\ \/ \E s \in Subs : EventsRequest(s)
          \/ \E q \in Queries, id \in Ids : QueryRequest(q, id)
          \/ Ev!Internal /\ UNCHANGED <<statusVars, frontVars>> /\ reqCred' = FALSE
          \/ Qr!Internal /\ UNCHANGED <<eventVars, frontVars>> /\ reqCred' = FALSE

\* The scheduling of ServiceEvents' goroutines; the registry's steps need
\* no fairness.
Spec == Init /\ [][Next]_vars /\ Ev!Fairness

\* A subscriber joins or a query registers, in a Core started with an
\* authenticator, only on a request with a valid token: every route of
\* addAPIServerRoutes that reaches handleEvents or handleQuery is built
\* by authhandle, and ServeHTTP's aux router does not shadow them.
Admitted ==
    \/ \E s \in Subs : spc[s] = "out" /\ spc'[s] = "joining"
    \/ \E q \in Queries : qpc[q] = "new" /\ qpc'[q] = "running"

AuthenticatedAccess == [][Admitted /\ authn => reqCred']_vars
=============================================================================
