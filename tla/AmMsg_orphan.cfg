\* Zero-length payloads with a flag, and pulls UCX rejects at once. Expected to be violated.
CONSTANTS
    Msgs = {m1, m2}
    NoRet = NoRet
    Lens <- AllLens
    Attrs <- AllAttrs
    Iovs <- FittingIovs
    Caps <- FittingCaps
    PullOutcomes <- AllOutcomes
SYMMETRY MsgSymmetry
SPECIFICATION Spec
INVARIANT NoOrphanDescriptor
\* Every message ends dropped or panicked: the run stops there.
CHECK_DEADLOCK FALSE
