\* A reply to a closed reply_ep, or a pull or send whose future is dropped while
\* UCX still works on its buffer, makes UCX use freed memory.
CONSTANTS
    Ops = {o1, o2}
    Msgs = {m1, m2}
    Eps = {e1}
    NullEp = NullEp
    NoRet = NoRet
    Outcomes <- AllOutcomes
    Statuses <- AllStatuses
SPECIFICATION Spec
INVARIANT TransportUsesLiveMemory
\* Every call ends and the inputs are bounded: the run stops there.
CHECK_DEADLOCK FALSE
