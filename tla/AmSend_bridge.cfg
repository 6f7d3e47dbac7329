\* Sends, replies and pulls with every submission outcome and status,
\* endpoint close and future drop: each call is a one-shot completion.
CONSTANTS
    Ops = {o1, o2}
    Msgs = {m1, m2}
    Eps = {e1}
    NullEp = NullEp
    NoRet = NoRet
    Outcomes <- AllOutcomes
    Statuses <- AllStatuses
SPECIFICATION Spec
INVARIANT TypeOK
PROPERTY CompletionRefined
\* Every call ends and the inputs are bounded: the run stops there.
CHECK_DEADLOCK FALSE
