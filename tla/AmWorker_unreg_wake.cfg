\* Spec 4.2: a task suspended in am_recv returns once its id is
\* unregistered.  Expected to be violated.
CONSTANTS
    Ids = {i1}
    Tasks = {t1, t2}
    MaxHandlers = 1
    MaxArrivals = 2
    NoId = NoId
SPECIFICATION Spec
PROPERTY WaiterReturnsAfterUnregister
CHECK_DEADLOCK FALSE
