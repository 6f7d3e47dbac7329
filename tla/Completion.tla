----------------------------- MODULE Completion -----------------------------
(***************************************************************************)
(* What the CompletionBridge promises (spec 4.1, 5): every operation       *)
(* issued to UCX ends exactly one way.  It is done at once, fails at once, *)
(* or is pending until UCX completes it, after which its task returns.     *)
(* A future dropped while it waits abandons the operation; UCX may still   *)
(* complete it, but the caller never sees it.  AmSend refines this module. *)
(***************************************************************************)
CONSTANTS Ops   \* the native operations (sends, replies, pulls)

VARIABLE cst    \* cst[o]: "idle", "pending", "completed" (UCX is done, the
                \* task not yet resumed), "returned", "failed", "abandoned"

States == {"idle", "pending", "completed", "returned", "failed", "abandoned"}

TypeOK == cst \in [Ops -> States]

Init == cst = [o \in Ops |-> "idle"]

Move(o, from, to) ==
    /\ cst[o] \in from
    /\ cst' = [cst EXCEPT ![o] = to]

(* The native call: NULL (done now), a request (pending), or an error or   *)
(* a failed precondition (the call ends without a result).                 *)
Issue(o) == \E to \in {"pending", "returned", "failed"} : Move(o, {"idle"}, to)

(* UCX completes the request: the one transition out of "pending".         *)
Complete(o) == Move(o, {"pending"}, "completed")

(* The awaiting task resumes and returns, only after the completion.       *)
Return(o) == Move(o, {"completed"}, "returned")

(* The caller drops the future while the operation is outstanding.         *)
Abandon(o) == Move(o, {"pending", "completed"}, "abandoned")

Next == \E o \in Ops : Issue(o) \/ Complete(o) \/ Return(o) \/ Abandon(o)

(* UCX completes what it has accepted, and the executor polls the woken    *)
(* task; issuing and abandoning are the caller's choice.                   *)
Spec == Init /\ [][Next]_cst
             /\ \A o \in Ops : WF_cst(Complete(o)) /\ WF_cst(Return(o))

=============================================================================
