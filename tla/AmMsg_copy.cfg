\* Receiving an Eager payload into caller buffers. Expected to be violated.
CONSTANTS
    Msgs = {m1, m2}
    NoRet = NoRet
    Lens <- NonEmptyLens
    Attrs <- AllAttrs
    Iovs <- FittingIovs
    Caps <- FittingCaps
    PullOutcomes <- AcceptedOutcomes
SYMMETRY MsgSymmetry
SPECIFICATION Spec
INVARIANT RecvReturnsPayload
\* Every message ends dropped or panicked: the run stops there.
CHECK_DEADLOCK FALSE
