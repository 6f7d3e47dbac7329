\* A send, reply or pull whose completion callback gets an error status returns Ok.
CONSTANTS
    Ops = {o1, o2}
    Msgs = {m1, m2}
    Eps = {e1}
    NullEp = NullEp
    NoRet = NoRet
    Outcomes <- AllOutcomes
    Statuses <- AllStatuses
SPECIFICATION Spec
INVARIANT OkOnlyOnSuccess
\* Every call ends and the inputs are bounded: the run stops there.
CHECK_DEADLOCK FALSE
