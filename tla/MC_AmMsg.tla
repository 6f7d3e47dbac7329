------------------------------ MODULE MC_AmMsg ------------------------------
(* Model-checking instance of AmMsg.  The input sets are the values UCX    *)
(* and the caller can pass; each .cfg picks the ones its question needs.   *)
EXTENDS AmMsg, TLC

MsgSymmetry == Permutations(Msgs)

\* Attribute sets UCX passes: no flag, DATA, RNDV (never both).
AllAttrs == {{}, {"DATA"}, {"RNDV"}}
\* Payload lengths: empty, and two bytes (splittable over two buffers).
AllLens == {0, 2}
NonEmptyLens == {2}
\* One buffer that fits, two that fit together, one that is too short.
AllIovs == {<<2>>, <<1, 1>>, <<1>>}
FittingIovs == {<<2>>, <<1, 1>>}
AllCaps == {1, 2}
FittingCaps == {2}
AllOutcomes == {"now", "later", "fail"}
AcceptedOutcomes == {"now", "later"}

=============================================================================
