\* Spec 4.2 / 8: messages queued when the id is unregistered are drained
\* before am_recv returns None.  Expected to be violated.
CONSTANTS
    Ids = {i1}
    Tasks = {t1, t2}
    MaxHandlers = 1
    MaxArrivals = 2
    NoId = NoId
SPECIFICATION Spec
INVARIANT NoneOnlyWhenDrained
CHECK_DEADLOCK FALSE
