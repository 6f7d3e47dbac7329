----------------------------- MODULE AmExchange -----------------------------
(***************************************************************************)
(* The integration test send_recv (src/src/ucp/endpoint/am.rs, mod tests): *)
(* two workers, each with its own registry (an instance of AmWorker), the  *)
(* payloads of the request and the reply (one instance of AmMsg), and the  *)
(* send and the reply with their UCX requests (one instance of AmSend).    *)
(*                                                                         *)
(* worker2's endpoint2 sends a request with need_reply to id 16 on         *)
(* worker1; worker1 receives it and pulls its data; the held message then  *)
(* replies with the Rndv protocol to id 12 on worker2, which receives it   *)
(* and pulls it; both endpoints close and the request message is dropped.  *)
(* Each half is a tokio::join! of a sending and a receiving branch, so the *)
(* branches and the two progress tasks interleave freely.                  *)
(*                                                                         *)
(* The transport between the workers is UCX: it delivers what was sent to  *)
(* the callback of the id it was sent to, chooses the flags of the 1 KiB   *)
(* request (none or DATA, it is sent eagerly), gives the 1 MiB Rndv reply  *)
(* the RNDV flag, and completes a rendezvous send only once the receiver   *)
(* has pulled the data.  The test expects every call to succeed, so UCX    *)
(* statuses are ok and submissions never fail here.                        *)
(***************************************************************************)
EXTENDS Naturals

CONSTANTS
    I16, I12,        \* the ids registered on worker1 and worker2
    Rx,              \* the receiving branch of a join (one per worker)
    Req, Rep,        \* the request message and the reply message
    SendReq, SendRep,\* the am_send of the request and the reply call
    Ep1, Ep2,        \* endpoint1 (worker1 to worker2) and endpoint2 (worker2 to worker1)
    NullEp, NoId, NoRet,
    PayloadLen       \* both payloads' length, abstracted (1 KiB and 1 MiB)

ASSUME PayloadLen \in Nat \ {0}

VARIABLES
    registry1, native1, nH1, hid1, msgs1, unregistered1, permit1, waiters1,
    pc1, th1, nArr1, arr1, dlv1, noneFor1, strong1, drainTo1, \* worker1
    registry2, native2, nH2, hid2, msgs2, unregistered2, permit2, waiters2,
    pc2, th2, nArr2, arr2, dlv2, noneFor2, strong2, drainTo2, \* worker2
    st, data, dlen, deferred, handedBack, room, firstRet,    \* AmMsg state
    epLive, arrived, attr, replyEp, desc, kind, opSt, borrow, bufLive,
    handleOk, req, reqStatus, woken, frees, ret,             \* AmSend state
    step    \* where send_recv and its join branches are

w1Vars == <<registry1, native1, nH1, hid1, msgs1, unregistered1, permit1,
            waiters1, pc1, th1, nArr1, arr1, dlv1, noneFor1, strong1,
            drainTo1>>
w2Vars == <<registry2, native2, nH2, hid2, msgs2, unregistered2, permit2,
            waiters2, pc2, th2, nArr2, arr2, dlv2, noneFor2, strong2,
            drainTo2>>
msgVars == <<st, data, dlen, deferred, handedBack, room, firstRet>>
sendVars == <<epLive, arrived, attr, replyEp, desc, kind, opSt, borrow,
              bufLive, handleOk, req, reqStatus, woken, frees, ret>>
vars == <<w1Vars, w2Vars, msgVars, sendVars, step>>

Ids == {I16, I12}

W1 == INSTANCE AmWorker WITH Tasks <- {Rx}, MaxHandlers <- 1, MaxArrivals <- 1,
        registry <- registry1, native <- native1, nH <- nH1, hid <- hid1,
        msgs <- msgs1, unregistered <- unregistered1, permit <- permit1,
        waiters <- waiters1, pc <- pc1, th <- th1, nArr <- nArr1,
        arr <- arr1, dlv <- dlv1, noneFor <- noneFor1, strong <- strong1,
        drainTo <- drainTo1
W2 == INSTANCE AmWorker WITH Tasks <- {Rx}, MaxHandlers <- 1, MaxArrivals <- 1,
        registry <- registry2, native <- native2, nH <- nH2, hid <- hid2,
        msgs <- msgs2, unregistered <- unregistered2, permit <- permit2,
        waiters <- waiters2, pc <- pc2, th <- th2, nArr <- nArr2,
        arr <- arr2, dlv <- dlv2, noneFor <- noneFor2, strong <- strong2,
        drainTo <- drainTo2
P == INSTANCE AmMsg WITH Msgs <- {Req, Rep}, Lens <- {PayloadLen},
        Attrs <- {{}, {"DATA"}, {"RNDV"}}, Iovs <- {<<PayloadLen>>},
        Caps <- {PayloadLen}, PullOutcomes <- {"now", "later"}
S == INSTANCE AmSend WITH Ops <- {SendReq, SendRep}, Msgs <- {Req},
        Eps <- {Ep1, Ep2}, Outcomes <- {"now", "later"}, Statuses <- {"ok"}

Init ==
    /\ W1!Init /\ W2!Init /\ P!Init /\ S!Init
    /\ step = [main |-> "register1", send |-> "start", recv |-> "start",
               reply |-> "start", recvReply |-> "start"]

Goto(b, l) == step' = [step EXCEPT ![b] = l]

FirstJoinDone == step.send = "done" /\ step.recv = "done"
SecondJoinDone == step.reply = "done" /\ step.recvReply = "done"

-----------------------------------------------------------------------------
(* Lines 566-567: worker1.am_register(16), then worker2.am_register(12).    *)
Register1 ==
    /\ step.main = "register1"
    /\ W1!AmRegister(I16)
    /\ Goto("main", "register2")
    /\ UNCHANGED <<w2Vars, msgVars, sendVars>>

Register2 ==
    /\ step.main = "register2"
    /\ W2!AmRegister(I12)
    /\ Goto("main", "join")
    /\ UNCHANGED <<w1Vars, msgVars, sendVars>>

(* Line 574: endpoint2.am_send(16, .., need_reply = true, None); a NULL    *)
(* from UCX ends the branch at once.                                       *)
SendRequest ==
    /\ step.main = "join" /\ step.send = "start"
    /\ S!EpAmSend(SendReq, Ep2)
    /\ Goto("send", IF opSt'[SendReq] = "done" THEN "done" ELSE "wait")
    /\ UNCHANGED <<w1Vars, w2Vars, msgVars>>

(* Lines 596-598: msg.reply(12, .., false, Some(Rndv)).  A rendezvous send *)
(* cannot complete before the peer pulls, so UCX returns a request.        *)
SendReply ==
    /\ FirstJoinDone /\ step.reply = "start"
    /\ S!Reply(SendRep, Req)
    /\ opSt'[SendRep] = "awaiting"
    /\ Goto("reply", "wait")
    /\ UNCHANGED <<w1Vars, w2Vars, msgVars>>

(* The executor polls a sending branch whose request UCX completed; its    *)
(* assert!(result.is_ok()) follows in the same poll.                       *)
SendReturns(o, b) ==
    /\ step[b] = "wait"
    /\ S!Resume(o)
    /\ Goto(b, "done")
    /\ UNCHANGED <<w1Vars, w2Vars, msgVars>>

(* UCX completes a send during a progress step of the sending worker: the  *)
(* eager request at any time, the rendezvous reply after the pull.         *)
CompleteSend(o) ==
    /\ o = SendRep => handedBack[Rep] = 1
    /\ S!UcxComplete(o, "ok")
    /\ UNCHANGED <<w1Vars, w2Vars, msgVars, step>>

(* The request reaches worker1's callback for id 16 with its reply_ep.     *)
ArriveRequest ==
    /\ opSt[SendReq] # "idle"
    /\ W1!Callback(I16)
    /\ P!Callback(Req)
    /\ data'[Req] \in {"eager", "data"}
    /\ S!Arrive(Req)
    /\ replyEp'[Req] = Ep1
    /\ desc'[Req] = (data'[Req] = "data")
    /\ UNCHANGED <<w2Vars, kind, opSt, borrow, bufLive, handleOk, req,
                   reqStatus, woken, frees, ret, epLive, step>>

(* The rendezvous reply reaches worker2's callback for id 12.              *)
ArriveReply ==
    /\ opSt[SendRep] # "idle"
    /\ W2!Callback(I12)
    /\ P!Callback(Rep)
    /\ data'[Rep] = "rndv"
    /\ UNCHANGED <<w1Vars, sendVars, step>>

(* A receiving branch that got its message holds it (AmMsg::from_raw) and  *)
(* runs the asserts of lines 580-583; otherwise it waits in wait_msg.      *)
Took(b, m, delivered) ==
    \/ /\ delivered
       /\ P!Receive(m)
       /\ Goto(b, "got")
    \/ /\ ~delivered
       /\ Goto(b, "wait")
       /\ UNCHANGED msgVars

(* Line 579: worker1.am_recv(16).                                          *)
RecvRequest ==
    /\ step.main = "join" /\ step.recv = "start"
    /\ W1!AmRecv(Rx, I16)
    /\ Took("recv", Req, pc1'[Rx] = "idle")
    /\ UNCHANGED <<w2Vars, sendVars>>

(* Line 603: worker2.am_recv(12).                                          *)
RecvReply ==
    /\ FirstJoinDone /\ step.recvReply = "start"
    /\ W2!AmRecv(Rx, I12)
    /\ Took("recvReply", Rep, pc2'[Rx] = "idle")
    /\ UNCHANGED <<w1Vars, sendVars>>

(* The executor polls a receiving branch woken by notify_one.              *)
RecvRequestResumes ==
    /\ step.recv = "wait"
    /\ W1!Resume(Rx)
    /\ Took("recv", Req, pc1'[Rx] = "idle")
    /\ UNCHANGED <<w2Vars, sendVars>>

RecvReplyResumes ==
    /\ step.recvReply = "wait"
    /\ W2!Resume(Rx)
    /\ Took("recvReply", Rep, pc2'[Rx] = "idle")
    /\ UNCHANGED <<w1Vars, sendVars>>

(* Lines 584 and 608: msg.recv_data().  `next` is where the branch goes    *)
(* when it returns: the request's branch ends, the reply is dropped next.  *)
RecvData(b, m, next) ==
    /\ step[b] = "got"
    /\ P!RecvData(m)
    /\ Goto(b, IF st'[m] = "pulling" THEN "pull" ELSE next)
    /\ UNCHANGED <<w1Vars, w2Vars, sendVars>>

(* The pull's callback woke the branch and recv_data returns.              *)
PullReturns(b, m, next) ==
    /\ step[b] = "pull"
    /\ P!PullDone(m)
    /\ Goto(b, next)
    /\ UNCHANGED <<w1Vars, w2Vars, sendVars>>

(* Line 611: the reply goes out of scope at the end of its branch.         *)
DropReply ==
    /\ step.recvReply = "ret"
    /\ P!Drop(Rep)
    /\ Goto("recvReply", "done")
    /\ UNCHANGED <<w1Vars, w2Vars, sendVars>>

CloseEndpoint(e, from, to) ==
    /\ SecondJoinDone /\ step.main = from
    /\ S!CloseEp(e)
    /\ Goto("main", to)
    /\ UNCHANGED <<w1Vars, w2Vars, msgVars>>

(* Line 616: send_recv returns and drops msg, the request.                 *)
DropRequest ==
    /\ step.main = "closed2"
    /\ P!Drop(Req)
    /\ Goto("main", "end")
    /\ UNCHANGED <<w1Vars, w2Vars, sendVars>>

Next ==
    \/ Register1 \/ Register2
    \/ SendRequest \/ SendReply
    \/ SendReturns(SendReq, "send") \/ SendReturns(SendRep, "reply")
    \/ CompleteSend(SendReq) \/ CompleteSend(SendRep)
    \/ ArriveRequest \/ ArriveReply
    \/ RecvRequest \/ RecvReply \/ RecvRequestResumes \/ RecvReplyResumes
    \/ RecvData("recv", Req, "done") \/ RecvData("recvReply", Rep, "ret")
    \/ PullReturns("recv", Req, "done") \/ PullReturns("recvReply", Rep, "ret")
    \/ DropReply
    \/ CloseEndpoint(Ep1, "join", "closed1")
    \/ CloseEndpoint(Ep2, "closed1", "closed2")
    \/ DropRequest

(* The test's task runs whenever one of its branches can make progress,    *)
(* the progress tasks run the callbacks of what UCX has delivered or       *)
(* completed, and the executor polls every woken branch: every step is     *)
(* weakly fair.                                                             *)
Spec == Init /\ [][Next]_vars /\ WF_vars(Next)

-----------------------------------------------------------------------------
(* Properties.                                                              *)

(* The asserts of send_recv hold wherever they are evaluated: a receiving  *)
(* branch holds a message with data of the sent length (lines 582-583,     *)
(* 606-607); once recv_data returned, it returned all sent bytes and the   *)
(* message no longer contains data (585-586, 609-610); a sending branch    *)
(* that finished got Ok (575, 599).                                        *)
TestAssertionsHold ==
    /\ \A b \in {"recv", "recvReply"} :
          LET m == IF b = "recv" THEN Req ELSE Rep IN
          /\ step[b] = "got" => P!ContainsData(m) /\ P!DataLen(m) = PayloadLen
          /\ step[b] \in {"ret", "done"} =>
                firstRet[m] = PayloadLen /\ ~P!ContainsData(m)
    /\ step.send = "done" => ret[SendReq] = "Ok"
    /\ step.reply = "done" => ret[SendRep] = "Ok"

(* When send_recv returns, both workers are left clean: every descriptor   *)
(* UCX deferred to the application was given back exactly once, no UCX    *)
(* request is outstanding or unfreed, and no handler still queues a         *)
(* message.                                                                  *)
ExchangeEndsClean ==
    step.main = "end" =>
        /\ \A m \in {Req, Rep} : handedBack[m] = IF deferred[m] THEN 1 ELSE 0
        /\ \A o \in {SendReq, SendRep} : req[o] \in {"none", "freed"}
        /\ \A h \in 1..1 : msgs1[h] = <<>> /\ msgs2[h] = <<>>

TestCompletes == <>(step.main = "end")

=============================================================================
