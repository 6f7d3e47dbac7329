------------------------------- MODULE AmSend -------------------------------
(***************************************************************************)
(* Native operations behind a future (src/src/ucp/endpoint/am.rs: fn       *)
(* am_send, Endpoint::am_send, AmMsg::need_reply and reply, the pull of    *)
(* recv_data_vectored, poll_recv) and the CompletionBridge that suspends   *)
(* the calling task until UCX completes them (RequestHandle and            *)
(* poll_normal, which live outside src/ and follow spec 3 and 4.1).        *)
(*                                                                         *)
(* Every Op is one call of a task: an am_send on an Endpoint, a reply to   *)
(* a received message, or the pull of a message's descriptor.  The call    *)
(* borrows a caller buffer (the IoSlices or the iovec) for as long as its  *)
(* future lives, and hands UCX a handle (the endpoint, the message's       *)
(* reply_ep, or the worker).                                               *)
(***************************************************************************)
EXTENDS Naturals

CONSTANTS
    Ops,           \* the calls (model values)
    Msgs,          \* received messages the application holds (model values)
    Eps,           \* endpoints (model values)
    NullEp,        \* the null ucp_ep_h
    Outcomes,      \* what a *_nbx call returns: "now" (NULL), "later" (a request
                   \* pointer), "fail" (an error status)
    Statuses,      \* status passed to the completion callback: "ok", "err"
    NoRet          \* the call has not returned

ASSUME /\ NullEp \notin Eps
       /\ Outcomes \subseteq {"now", "later", "fail"}
       /\ Statuses \subseteq {"ok", "err"}

VARIABLES
    epLive,     \* epLive[e]: the application has not closed endpoint e
    arrived,    \* arrived[m]: UCX delivered m and the application holds its AmMsg
    attr,       \* RawMsg.attr, reduced to the REPLY_EP field
    replyEp,    \* RawMsg.reply_ep
    desc,       \* RawMsg.data still holds a Data/Rndv descriptor
    kind,       \* what call Op o is: "none", "send", "reply", "pull"
    opSt,       \* the calling task: "idle", "awaiting" (suspended on a RequestHandle),
                \* "done", "panicked", "cancelled" (its future was dropped)
    borrow,     \* the Endpoint an awaiting Endpoint::am_send borrows (&self), or NullEp
    bufLive,    \* the caller buffer lent to the call is still borrowed by its future
    handleOk,   \* the handle passed to the *_nbx call was valid when it was called
    req,        \* the UCX request: "none", "inflight", "completed", "freed"
    reqStatus,  \* the status UCX passed to the completion callback, or "none"
    woken,      \* Request.waker was woken by the completion callback
    frees,      \* how many times the request was given back to UCX
    ret         \* what the call returned: NoRet or "Ok"

vars == <<epLive, arrived, attr, replyEp, desc, kind, opSt, borrow, bufLive,
          handleOk, req, reqStatus, woken, frees, ret>>
msgVars == <<arrived, attr, replyEp, desc>>

TypeOK ==
    /\ epLive \in [Eps -> BOOLEAN]
    /\ arrived \in [Msgs -> BOOLEAN]
    /\ attr \in [Msgs -> SUBSET {"REPLY_EP"}]
    /\ replyEp \in [Msgs -> Eps \cup {NullEp}]
    /\ desc \in [Msgs -> BOOLEAN]
    /\ kind \in [Ops -> {"none", "send", "reply", "pull"}]
    /\ opSt \in [Ops -> {"idle", "awaiting", "done", "panicked", "cancelled"}]
    /\ borrow \in [Ops -> Eps \cup {NullEp}]
    /\ bufLive \in [Ops -> BOOLEAN]
    /\ handleOk \in [Ops -> BOOLEAN]
    /\ req \in [Ops -> {"none", "inflight", "completed", "freed"}]
    /\ reqStatus \in [Ops -> Statuses \cup {"none"}]
    /\ woken \in [Ops -> BOOLEAN]
    /\ frees \in [Ops -> 0..1]
    /\ ret \in [Ops -> {NoRet, "Ok"}]

Init ==
    /\ epLive = [e \in Eps |-> TRUE]
    /\ arrived = [m \in Msgs |-> FALSE]
    /\ attr = [m \in Msgs |-> {}]
    /\ replyEp = [m \in Msgs |-> NullEp]
    /\ desc = [m \in Msgs |-> FALSE]
    /\ kind = [o \in Ops |-> "none"]
    /\ opSt = [o \in Ops |-> "idle"]
    /\ borrow = [o \in Ops |-> NullEp]
    /\ bufLive = [o \in Ops |-> TRUE]
    /\ handleOk = [o \in Ops |-> TRUE]
    /\ req = [o \in Ops |-> "none"]
    /\ reqStatus = [o \in Ops |-> "none"]
    /\ woken = [o \in Ops |-> FALSE]
    /\ frees = [o \in Ops |-> 0]
    /\ ret = [o \in Ops |-> NoRet]

-----------------------------------------------------------------------------
(* The call's future ends: the caller buffer and the &Endpoint are free.   *)
EndCall(o, st, r) ==
    /\ opSt' = [opSt EXCEPT ![o] = st]
    /\ ret' = [ret EXCEPT ![o] = r]
    /\ bufLive' = [bufLive EXCEPT ![o] = FALSE]
    /\ borrow' = [borrow EXCEPT ![o] = NullEp]

(* The *_nbx call and what the code does with its result: NULL returns Ok  *)
(* at once, a request pointer is awaited through a RequestHandle whose     *)
(* first poll finds it in progress and registers the waker, and an error   *)
(* status panics.  `valid` says whether the handle passed is still alive; *)
(* `lend` is the Endpoint the suspended future borrows, if any.            *)
Submit(o, valid, lend) ==
    /\ handleOk' = [handleOk EXCEPT ![o] = valid]
    /\ \/ /\ "now" \in Outcomes
          /\ EndCall(o, "done", "Ok")
          /\ UNCHANGED req
       \/ /\ "later" \in Outcomes
          /\ opSt' = [opSt EXCEPT ![o] = "awaiting"]
          /\ req' = [req EXCEPT ![o] = "inflight"]
          /\ borrow' = [borrow EXCEPT ![o] = lend]
          /\ UNCHANGED <<ret, bufLive>>
       \/ /\ "fail" \in Outcomes
          /\ EndCall(o, "panicked", NoRet)
          /\ UNCHANGED req

(* AmMsg::need_reply: the REPLY_EP field is set and reply_ep is not null.  *)
NeedReply(m) == "REPLY_EP" \in attr[m] /\ replyEp[m] # NullEp

-----------------------------------------------------------------------------
(* An arrival (RawMsg::from_raw in the am_register callback) keeps the     *)
(* reply_ep UCX passes; UCX sets it, with the REPLY_EP field, exactly when *)
(* the sender asked for a reply.  The payload may be a descriptor.         *)
Arrive(m) ==
    /\ ~arrived[m]
    /\ \E e \in Eps \cup {NullEp}, d \in BOOLEAN :
          /\ replyEp' = [replyEp EXCEPT ![m] = e]
          /\ attr' = [attr EXCEPT ![m] = IF e = NullEp THEN {} ELSE {"REPLY_EP"}]
          /\ desc' = [desc EXCEPT ![m] = d]
    /\ arrived' = [arrived EXCEPT ![m] = TRUE]
    /\ UNCHANGED <<epLive, kind, opSt, borrow, bufLive, handleOk, req,
                   reqStatus, woken, frees, ret>>

(* The application drops an Endpoint nobody borrows.  A reply_ep kept in a *)
(* held message is a raw pointer and does not keep it alive.               *)
CloseEp(e) ==
    /\ epLive[e]
    /\ \A o \in Ops : borrow[o] # e
    /\ epLive' = [epLive EXCEPT ![e] = FALSE]
    /\ UNCHANGED <<msgVars, kind, opSt, borrow, bufLive, handleOk, req,
                   reqStatus, woken, frees, ret>>

(* Endpoint::am_send / am_send_vectorized on a live Endpoint.              *)
EpAmSend(o, e) ==
    /\ opSt[o] = "idle"
    /\ epLive[e]
    /\ kind' = [kind EXCEPT ![o] = "send"]
    /\ Submit(o, TRUE, e)
    /\ UNCHANGED <<msgVars, epLive, reqStatus, woken, frees>>

(* AmMsg::reply / reply_vectorized: assert need_reply, then am_send on the *)
(* reply_ep captured at arrival.                                           *)
Reply(o, m) ==
    /\ opSt[o] = "idle"
    /\ arrived[m]
    /\ kind' = [kind EXCEPT ![o] = "reply"]
    /\ \/ /\ ~NeedReply(m)
          /\ EndCall(o, "panicked", NoRet)
          /\ UNCHANGED <<handleOk, req>>
       \/ /\ NeedReply(m)
          /\ Submit(o, epLive[replyEp[m]], NullEp)
    /\ UNCHANGED <<msgVars, epLive, reqStatus, woken, frees>>

(* recv_data_vectored on a Data/Rndv payload: take the descriptor, then    *)
(* ucp_am_recv_data_nbx on the worker into the caller's iovec.             *)
RecvPull(o, m) ==
    /\ opSt[o] = "idle"
    /\ arrived[m]
    /\ desc[m]
    /\ desc' = [desc EXCEPT ![m] = FALSE]
    /\ kind' = [kind EXCEPT ![o] = "pull"]
    /\ Submit(o, TRUE, NullEp)
    /\ UNCHANGED <<arrived, attr, replyEp, epLive, reqStatus, woken, frees>>

(* Mutant: the completion callback also gives the request back.          *)
UcxCompleteFrees(o, s) ==
    /\ req[o] = "inflight"
    /\ req' = [req EXCEPT ![o] = "completed"]
    /\ reqStatus' = [reqStatus EXCEPT ![o] = s]
    /\ woken' = [woken EXCEPT ![o] = TRUE]
    /\ frees' = [frees EXCEPT ![o] = @ + 1]
    /\ UNCHANGED <<msgVars, epLive, kind, opSt, borrow, bufLive, handleOk, ret>>

(* UCX completes the request during a progress step and calls the send or  *)
(* recv callback, which ignores the status and wakes Request.waker.        *)
UcxComplete(o, s) ==
    /\ req[o] = "inflight"
    /\ req' = [req EXCEPT ![o] = "completed"]
    /\ reqStatus' = [reqStatus EXCEPT ![o] = s]
    /\ woken' = [woken EXCEPT ![o] = TRUE]
    /\ UNCHANGED <<msgVars, epLive, kind, opSt, borrow, bufLive, handleOk,
                   frees, ret>>

(* Mutant: the poll takes any status other than "completed" for done.     *)
ResumeNoCheck(o) ==
    /\ opSt[o] = "awaiting"
    /\ req' = [req EXCEPT ![o] = "freed"]
    /\ frees' = [frees EXCEPT ![o] = @ + 1]
    /\ woken' = [woken EXCEPT ![o] = FALSE]
    /\ EndCall(o, "done", "Ok")
    /\ UNCHANGED <<msgVars, epLive, kind, handleOk, reqStatus>>

(* The executor polls the woken task: poll_normal / poll_recv find the     *)
(* request no longer in progress, the RequestHandle resolves and frees the *)
(* request, and the call returns Ok.                                       *)
Resume(o) ==
    /\ opSt[o] = "awaiting"
    /\ woken[o]
    /\ req[o] = "completed"
    /\ req' = [req EXCEPT ![o] = "freed"]
    /\ frees' = [frees EXCEPT ![o] = @ + 1]
    /\ woken' = [woken EXCEPT ![o] = FALSE]
    /\ EndCall(o, "done", "Ok")
    /\ UNCHANGED <<msgVars, epLive, kind, handleOk, reqStatus>>

(* The caller drops the future while it waits (a select!, a timeout).     *)
(* Nothing in the code stops this; the request stays with UCX (spec 4.1).  *)
Cancel(o) ==
    /\ opSt[o] = "awaiting"
    /\ EndCall(o, "cancelled", NoRet)
    /\ UNCHANGED <<msgVars, epLive, kind, handleOk, req, reqStatus, woken, frees>>

Next ==
    \/ \E m \in Msgs : Arrive(m)
    \/ \E e \in Eps : CloseEp(e)
    \/ \E o \in Ops :
          \/ \E e \in Eps : EpAmSend(o, e)
          \/ \E m \in Msgs : Reply(o, m) \/ RecvPull(o, m)
          \/ \E s \in Statuses : UcxComplete(o, s)
          \/ Resume(o)
          \/ Cancel(o)

(* UCX completes accepted requests while the progress task runs, and the   *)
(* executor polls every woken task.                                        *)
Fairness ==
    \A o \in Ops : /\ WF_vars(\E s \in Statuses : UcxComplete(o, s))
                   /\ WF_vars(Resume(o))

Spec == Init /\ [][Next]_vars /\ Fairness

-----------------------------------------------------------------------------
(* Refinement mapping onto Completion: a suspended call is pending until   *)
(* UCX completes its request, and completed until its task is polled.      *)
CstOf(o) ==
    CASE opSt[o] = "idle"                            -> "idle"
      [] opSt[o] = "done"                            -> "returned"
      [] opSt[o] = "panicked"                        -> "failed"
      [] opSt[o] = "cancelled"                       -> "abandoned"
      [] opSt[o] = "awaiting" /\ req[o] = "inflight" -> "pending"
      [] OTHER                                       -> "completed"

Abstract == INSTANCE Completion WITH cst <- [o \in Ops |-> CstOf(o)]

(* Every send, reply and pull behaves as a one-shot completion: the task   *)
(* returns only after UCX completed its request (the waker/poll handshake  *)
(* of the callbacks, RequestHandle and poll_normal/poll_recv), and every   *)
(* accepted request that is not abandoned eventually returns.              *)
CompletionRefined == Abstract!Spec

(* A send, reply or pull returns Ok only if it succeeded: a status other  *)
(* than ok passed to the send or recv completion callback reaches the      *)
(* caller (spec 6, 7).                                                     *)
OkOnlyOnSuccess ==
    \A o \in Ops : ret[o] = "Ok" => reqStatus[o] \in {"none", "ok"}

(* UCX only uses memory that is still alive: each *_nbx call gets a live   *)
(* handle (a reply's reply_ep included), and the caller buffer of a request *)
(* UCX still works on is still lent to it.                                 *)
TransportUsesLiveMemory ==
    \A o \in Ops : /\ handleOk[o]
                   /\ (req[o] = "inflight" => bufLive[o])

=============================================================================
