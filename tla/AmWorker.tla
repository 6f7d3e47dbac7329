------------------------------ MODULE AmWorker ------------------------------
(***************************************************************************)
(* The active-message handler registry of a Worker and the per-id handler  *)
(* queue (src/src/ucp/endpoint/am.rs, AmHandler and impl Worker).          *)
(*                                                                         *)
(* A handler (Rc<AmHandler>) is identified by its allocation number in    *)
(* 1..MaxHandlers.  Two tables point at handlers: the Rust map            *)
(* Worker.am_handlers ("registry") and the callback argument UCX holds    *)
(* after ucp_worker_set_am_recv_handler ("native").  am_unregister only   *)
(* touches the first one.                                                  *)
(*                                                                         *)
(* The Worker is !Send (Rc) and runs on one thread: a task's poll runs    *)
(* without interruption until it returns or suspends, and the UCX arrival *)
(* callback runs inside the progress task.  So every action below is one  *)
(* uninterrupted stretch of code between two suspension points.           *)
(*                                                                         *)
(* Messages are abstracted to their arrival number 1..MaxArrivals; their  *)
(* payload is the subject of module AmMsg.                                *)
(***************************************************************************)
EXTENDS Naturals, FiniteSets, Sequences, SequencesExt

CONSTANTS
    Ids,          \* active-message ids used by the application (model values)
    Tasks,        \* tasks calling Worker::am_recv (model values)
    MaxHandlers,  \* bound on AmHandler allocations (am_register calls that insert)
    MaxArrivals,  \* bound on messages delivered by UCX to the callback
    NoId          \* "no id": the last step returned no None

ASSUME /\ MaxHandlers \in Nat \ {0}
       /\ MaxArrivals \in Nat \ {0}
       /\ NoId \notin Ids

Handlers == 1..MaxHandlers
Msgs     == 1..MaxArrivals

VARIABLES
    registry,      \* Worker.am_handlers: id -> handler, 0 when absent
    native,        \* handler whose Rc pointer UCX passes to the callback, 0 when none
    nH,            \* handlers allocated so far
    hid,           \* AmHandler.id
    msgs,          \* AmHandler.msgs: Mutex<VecDeque<RawMsg>>
    unregistered,  \* AmHandler.unregistered: AtomicBool
    permit,        \* AmHandler.notify: the stored notify_one permit
    waiters,       \* AmHandler.notify: tasks suspended in notified().await
    pc,            \* task phase: "idle", "asleep" (registered waiter), "woken"
    th,            \* the handler a task's wait_msg runs on, 0 when idle
    nArr,          \* messages delivered by UCX so far
    arr,           \* history: messages pushed onto each handler, in order
    dlv,           \* history: messages popped from each handler, in order
    noneFor,       \* the id am_recv returned None for in the last step, or NoId
    strong,        \* Rc strong count of each handler: the map's Rc, the raw
                   \* pointer given to UCX, and the clone of each running am_recv
    drainTo        \* history: Len(arr[h]) when h was unregistered, 0 before

vars == <<registry, native, nH, hid, msgs, unregistered, permit, waiters,
          pc, th, nArr, arr, dlv, noneFor, strong, drainTo>>

Allocated == 1..nH

TypeOK ==
    /\ registry \in [Ids -> 0..MaxHandlers]
    /\ native \in [Ids -> 0..MaxHandlers]
    /\ nH \in 0..MaxHandlers
    /\ hid \in [Handlers -> Ids \cup {NoId}]
    /\ msgs \in [Handlers -> BoundedSeq(Msgs, MaxArrivals)]
    /\ unregistered \in [Handlers -> BOOLEAN]
    /\ permit \in [Handlers -> BOOLEAN]
    /\ waiters \in [Handlers -> SUBSET Tasks]
    /\ pc \in [Tasks -> {"idle", "asleep", "woken"}]
    /\ th \in [Tasks -> 0..MaxHandlers]
    /\ nArr \in 0..MaxArrivals
    /\ arr \in [Handlers -> BoundedSeq(Msgs, MaxArrivals)]
    /\ dlv \in [Handlers -> BoundedSeq(Msgs, MaxArrivals)]
    /\ noneFor \in Ids \cup {NoId}
    /\ strong \in [Handlers -> 0..(2 + Cardinality(Tasks))]
    /\ drainTo \in [Handlers -> 0..MaxArrivals]

Init ==
    /\ registry = [i \in Ids |-> 0]
    /\ native = [i \in Ids |-> 0]
    /\ nH = 0
    /\ hid = [h \in Handlers |-> NoId]
    /\ msgs = [h \in Handlers |-> <<>>]
    /\ unregistered = [h \in Handlers |-> FALSE]
    /\ permit = [h \in Handlers |-> FALSE]
    /\ waiters = [h \in Handlers |-> {}]
    /\ pc = [t \in Tasks |-> "idle"]
    /\ th = [t \in Tasks |-> 0]
    /\ nArr = 0
    /\ arr = [h \in Handlers |-> <<>>]
    /\ dlv = [h \in Handlers |-> <<>>]
    /\ noneFor = NoId
    /\ strong = [h \in Handlers |-> 0]
    /\ drainTo = [h \in Handlers |-> 0]

-----------------------------------------------------------------------------
(* tokio::sync::Notify::notify_one: wake one registered waiter, or store  *)
(* a permit when nobody waits.                                             *)
NotifyOne(h) ==
    \/ /\ waiters[h] # {}
       /\ \E w \in waiters[h] :
            /\ waiters' = [waiters EXCEPT ![h] = @ \ {w}]
            /\ pc' = [pc EXCEPT ![w] = "woken"]
       /\ UNCHANGED permit
    \/ /\ waiters[h] = {}
       /\ permit' = [permit EXCEPT ![h] = TRUE]
       /\ UNCHANGED <<waiters, pc>>

(* Mutation: the front is read (front().cloned()) but not popped.          *)
DeliverPeek(t, h) ==
    /\ dlv' = [dlv EXCEPT ![h] = Append(@, Head(msgs[h]))]
    /\ pc' = [pc EXCEPT ![t] = "idle"]
    /\ th' = [th EXCEPT ![t] = 0]
    /\ noneFor' = NoId
    /\ UNCHANGED <<msgs, permit, waiters>>

(* Mutation: the queue is popped at the back (pop_back).                   *)
DeliverPopBack(t, h) ==
    /\ msgs' = [msgs EXCEPT ![h] = SubSeq(@, 1, Len(@) - 1)]
    /\ dlv' = [dlv EXCEPT ![h] = Append(@, msgs[h][Len(msgs[h])])]
    /\ pc' = [pc EXCEPT ![t] = "idle"]
    /\ th' = [th EXCEPT ![t] = 0]
    /\ noneFor' = NoId
    /\ UNCHANGED <<permit, waiters>>

(* Return Some(AmMsg) with the front of the queue (pop_front).             *)
Deliver(t, h) ==
    /\ msgs' = [msgs EXCEPT ![h] = Tail(@)]
    /\ dlv' = [dlv EXCEPT ![h] = Append(@, Head(msgs[h]))]
    /\ pc' = [pc EXCEPT ![t] = "idle"]
    /\ th' = [th EXCEPT ![t] = 0]
    /\ noneFor' = NoId
    /\ UNCHANGED <<permit, waiters>>

(* self.notify.notified().await on an empty queue.  A stored permit makes  *)
(* the first poll ready; the loop then finds the queue still empty and     *)
(* the flag unchanged and polls a fresh Notified, which registers.  Both   *)
(* happen in the same poll, so the net effect is: permit consumed, waiter  *)
(* registered.                                                              *)
Sleep(t, h) ==
    /\ permit' = [permit EXCEPT ![h] = FALSE]
    /\ waiters' = [waiters EXCEPT ![h] = @ \cup {t}]
    /\ pc' = [pc EXCEPT ![t] = "asleep"]
    /\ th' = [th EXCEPT ![t] = h]
    /\ noneFor' = NoId
    /\ UNCHANGED <<msgs, dlv>>

ReturnNone(t, id) ==
    /\ pc' = [pc EXCEPT ![t] = "idle"]
    /\ th' = [th EXCEPT ![t] = 0]
    /\ noneFor' = id
    /\ UNCHANGED <<msgs, dlv, permit, waiters>>

(* AmHandler::wait_msg from the `while` test to the next suspension or     *)
(* return.  Both the loop body and the final drain pop the front.          *)
WaitMsg(t, h) ==
    \/ /\ msgs[h] # <<>>
       /\ Deliver(t, h)
    \/ /\ msgs[h] = <<>>
       /\ ~unregistered[h]
       /\ Sleep(t, h)
    \/ /\ msgs[h] = <<>>
       /\ unregistered[h]
       /\ ReturnNone(t, hid[h])

-----------------------------------------------------------------------------
(* Worker::am_register.  When the id is already in the map both checks     *)
(* return early and nothing changes (a stuttering step).                   *)
AmRegister(id) ==
    /\ registry[id] = 0
    /\ nH < MaxHandlers
    /\ LET h == nH + 1 IN
         /\ nH' = h
         /\ hid' = [hid EXCEPT ![h] = id]
         /\ native' = [native EXCEPT ![id] = h]
         /\ registry' = [registry EXCEPT ![id] = h]
         /\ strong' = [strong EXCEPT ![h] = 2]
    /\ UNCHANGED <<msgs, unregistered, permit, waiters, pc, th, nArr, arr,
                   dlv, noneFor, drainTo>>

(* AmHandler::unregister: store the flag; nobody is notified.  drainTo    *)
(* records how many messages had been pushed onto h by then.               *)
Unregister(h) ==
    /\ unregistered' = [unregistered EXCEPT ![h] = TRUE]
    /\ drainTo' = [drainTo EXCEPT ![h] = Len(arr[h])]

(* Mutation: am_unregister also takes back the raw pointer given to UCX   *)
(* (Rc::from_raw), while the UCX callback stays installed with it.         *)
AmUnregisterFreesRaw(id) ==
    /\ registry[id] # 0
    /\ registry' = [registry EXCEPT ![id] = 0]
    /\ Unregister(registry[id])
    /\ strong' = [strong EXCEPT ![registry[id]] = @ - 2]
    /\ noneFor' = NoId
    /\ UNCHANGED <<native, nH, hid, msgs, permit, waiters, pc, th, nArr,
                   arr, dlv>>

(* Worker::am_unregister then AmHandler::unregister: remove the map entry  *)
(* and set the flag, then drop the map's Rc.  UCX keeps the callback and   *)
(* its raw argument; nobody is notified.                                    *)
AmUnregister(id) ==
    /\ registry[id] # 0
    /\ registry' = [registry EXCEPT ![id] = 0]
    /\ Unregister(registry[id])
    /\ strong' = [strong EXCEPT ![registry[id]] = @ - 1]
    /\ noneFor' = NoId
    /\ UNCHANGED <<native, nH, hid, msgs, permit, waiters, pc, th, nArr,
                   arr, dlv>>

(* Mutation: AmHandler::callback pushes without notify_one.                *)
CallbackNoNotify(id) ==
    /\ native[id] # 0
    /\ nArr < MaxArrivals
    /\ LET h == native[id]
           m == nArr + 1
       IN /\ msgs' = [msgs EXCEPT ![h] = Append(@, m)]
          /\ arr' = [arr EXCEPT ![h] = Append(@, m)]
          /\ nArr' = m
    /\ noneFor' = NoId
    /\ UNCHANGED <<registry, native, nH, hid, unregistered, th, dlv,
                   permit, waiters, pc, strong, drainTo>>

(* The extern "C" callback installed by am_register, then                  *)
(* AmHandler::callback: push the message, notify_one.                       *)
Callback(id) ==
    /\ native[id] # 0
    /\ nArr < MaxArrivals
    /\ LET h == native[id]
           m == nArr + 1
       IN /\ msgs' = [msgs EXCEPT ![h] = Append(@, m)]
          /\ arr' = [arr EXCEPT ![h] = Append(@, m)]
          /\ nArr' = m
          /\ NotifyOne(h)
    /\ noneFor' = NoId
    /\ UNCHANGED <<registry, native, nH, hid, unregistered, th, dlv, strong,
                   drainTo>>

(* Worker::am_recv: look the handler up in the map, then run wait_msg on   *)
(* a clone of its Rc, which lives until wait_msg returns.                  *)
AmRecv(t, id) ==
    /\ pc[t] = "idle"
    /\ \/ /\ registry[id] = 0
          /\ ReturnNone(t, id)
          /\ UNCHANGED strong
       \/ /\ registry[id] # 0
          /\ WaitMsg(t, registry[id])
          /\ strong' = [strong EXCEPT ![registry[id]] =
                           @ + (IF pc'[t] = "asleep" THEN 1 ELSE 0)]
    /\ UNCHANGED <<registry, native, nH, hid, unregistered, nArr, arr,
                   drainTo>>

(* The executor polls a task woken by notify_one: wait_msg resumes after   *)
(* notified().await and re-tests the loop condition.                       *)
Resume(t) ==
    /\ pc[t] = "woken"
    /\ WaitMsg(t, th[t])
    /\ strong' = [strong EXCEPT ![th[t]] = @ - (IF pc'[t] = "idle" THEN 1 ELSE 0)]
    /\ UNCHANGED <<registry, native, nH, hid, unregistered, nArr, arr,
                   drainTo>>

Next ==
    \/ \E id \in Ids : AmRegister(id) \/ AmUnregister(id) \/ Callback(id)
    \/ \E t \in Tasks, id \in Ids : AmRecv(t, id)
    \/ \E t \in Tasks : Resume(t)

(* The single-threaded executor polls every woken task; the application    *)
(* and UCX arrivals are not obliged to act.                                 *)
Fairness == \A t \in Tasks : WF_vars(Resume(t))

Spec == Init /\ [][Next]_vars /\ Fairness

-----------------------------------------------------------------------------
(* Properties.                                                              *)

(* No lost wake-up: whenever a handler's queue holds a message while some  *)
(* task is suspended in wait_msg on it, a task woken by notify_one is      *)
(* about to run on that handler.  This relies on AmHandler::callback       *)
(* calling notify_one after every push and on wait_msg testing the queue   *)
(* in the same poll in which it registers as a waiter.                      *)
NoLostWakeup ==
    \A h \in Allocated :
        (msgs[h] # <<>> /\ waiters[h] # {})
            => \E t \in Tasks : pc[t] = "woken" /\ th[t] = h

(* FIFO, exactly once: what tasks have taken from a handler followed by    *)
(* what is still queued is exactly what the callback pushed, in order,     *)
(* however many tasks race on pop_front.                                    *)
FifoExactlyOnce ==
    \A h \in Allocated : dlv[h] \o msgs[h] = arr[h]

(* A queued message is eventually taken while some task waits on its       *)
(* handler: the callback's notify_one and the executor's polling of woken  *)
(* tasks are enough for progress.                                           *)
WaiterServed ==
    \A h \in Handlers, k \in 0..MaxArrivals :
        (Len(dlv[h]) = k /\ msgs[h] # <<>> /\ waiters[h] # {})
            ~> Len(dlv[h]) > k

(* Spec 4.2 and 8: the messages queued when a handler is unregistered are  *)
(* drained before am_recv yields None.  Checked on every step in which     *)
(* am_recv or wait_msg returned None for an id: every unregistered handler *)
(* of that id has handed out at least the drainTo messages it had been     *)
(* given before am_unregister (arrivals after it are not counted).         *)
NoneOnlyWhenDrained ==
    noneFor # NoId =>
        \A h \in Allocated :
            (hid[h] = noneFor /\ unregistered[h]) => Len(dlv[h]) >= drainTo[h]

(* Spec 4.2: a task suspended in wait_msg on a handler that has been       *)
(* unregistered eventually returns (None after the drain).                  *)
WaiterReturnsAfterUnregister ==
    \A t \in Tasks :
        (pc[t] = "asleep" /\ unregistered[th[t]]) ~> pc[t] = "idle"

(* No use after free: every handler still in use is alive.  The extern    *)
(* "C" callback dereferences UCX's raw arg pointer (line 365) and a task   *)
(* in wait_msg runs on its clone, so a handler the registry, UCX's         *)
(* installed callback or a task references has a strong count above 0,    *)
(* through registration, unregistration, re-registration and am_recv.     *)
InUseHandlerAlive ==
    \A h \in Allocated :
        (\/ h \in Range(registry)
         \/ h \in Range(native)
         \/ \E t \in Tasks : th[t] = h)
            => strong[h] > 0

(* Spec 3 (HandlerState): a handler lives as long as something uses it:   *)
(* the registry, a task in wait_msg, or UCX while its callback is         *)
(* installed with it.  A handler none of them references has been freed:  *)
(* its Rc strong count is 0.  This is about the Rc::into_raw of            *)
(* am_register, whose pointer nobody turns back into an Rc.                *)
HandlerFreedWhenUnreferenced ==
    \A h \in Allocated :
        (/\ h \notin Range(registry)
         /\ h \notin Range(native)
         /\ \A t \in Tasks : th[t] # h)
            => strong[h] = 0

=============================================================================
