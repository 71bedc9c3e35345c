\* Two subscribers, three events, requests that may end while an event is
\* being sent to them; two queries that may carry the same request id; a
\* Core started with an authenticator, and the Configs NewCore rejects.
\* A request ending mid-send leaves the subscriber waiting for the Lock and
\* the event goroutine blocked on its send (ServiceEvents_leave.cfg), so the
\* server really can stop there: deadlock is not checked.
CONSTANTS
    Subs = {s1, s2}
    Events = {1, 2, 3}
    LeaveMidSend = TRUE
    Queries = {q1, q2}
    Ids = {i1, i2}
    NONE = NONE
    UniqueIds = FALSE
    Confs <- MCConfs
    MediaFormats = {"sup", "bsup", "json"}
    Requests <- MCRequests
SPECIFICATION Spec
PROPERTY AuthenticatedAccess
CHECK_DEADLOCK FALSE
