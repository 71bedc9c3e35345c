\* A request may end while an event is being sent to it.  The run stops in
\* the state where the publisher and the subscriber wait for each other, so
\* deadlock is not reported as such.
CONSTANTS
    Subs = {s1, s2}
    Events = {1, 2, 3}
    LeaveMidSend = TRUE
SPECIFICATION Spec
CHECK_DEADLOCK FALSE
PROPERTY PublishCompletes
