\* Non-empty payloads, every flag set and buffer shape, pulls UCX accepts:
\* every descriptor is given back at most once and is never orphaned.
CONSTANTS
    Msgs = {m1, m2}
    NoRet = NoRet
    Lens <- NonEmptyLens
    Attrs <- AllAttrs
    Iovs <- AllIovs
    Caps <- AllCaps
    PullOutcomes <- AcceptedOutcomes
SYMMETRY MsgSymmetry
SPECIFICATION Spec
INVARIANT TypeOK
INVARIANT DescriptorReturnedOnce
INVARIANT NoOrphanDescriptor
\* Every message ends dropped or panicked: the run stops there.
CHECK_DEADLOCK FALSE
