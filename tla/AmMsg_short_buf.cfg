\* Receiving into caller buffers shorter than the payload. Expected to be violated.
CONSTANTS
    Msgs = {m1, m2}
    NoRet = NoRet
    Lens <- NonEmptyLens
    Attrs <- AllAttrs
    Iovs <- AllIovs
    Caps <- AllCaps
    PullOutcomes <- AcceptedOutcomes
SYMMETRY MsgSymmetry
SPECIFICATION Spec
INVARIANT ShortBufferRejected
\* Every message ends dropped or panicked: the run stops there.
CHECK_DEADLOCK FALSE
