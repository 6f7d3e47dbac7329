\* Two ids, three consumer tasks, one re-registration, three arrivals.
CONSTANTS
    Ids = {i1, i2}
    Tasks = {t1, t2, t3}
    MaxHandlers = 2
    MaxArrivals = 3
    NoId = NoId
SPECIFICATION Spec
INVARIANT TypeOK
INVARIANT NoLostWakeup
INVARIANT FifoExactlyOnce
INVARIANT InUseHandlerAlive
PROPERTY WaiterServed
\* Consumers legitimately stay suspended once no more messages arrive.
CHECK_DEADLOCK FALSE
