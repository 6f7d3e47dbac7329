\* Register, unregister and register again: the first handler is no longer
\* referenced.  Expected to be violated.
CONSTANTS
    Ids = {i1}
    Tasks = {t1}
    MaxHandlers = 2
    MaxArrivals = 1
    NoId = NoId
SPECIFICATION Spec
INVARIANT HandlerFreedWhenUnreferenced
CHECK_DEADLOCK FALSE
