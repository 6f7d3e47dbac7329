------------------------------- MODULE AmMsg -------------------------------
(***************************************************************************)
(* Ownership of a received active message's payload                        *)
(* (src/src/ucp/endpoint/am.rs: AmData, RawMsg, AmMsg, the extern "C"      *)
(* callback of am_register).                                               *)
(*                                                                         *)
(* UCX hands the callback a payload of some length and attribute flags.    *)
(* When the callback returns UCS_INPROGRESS, UCX keeps the payload's       *)
(* descriptor for the application, which must give it back exactly once:  *)
(* by ucp_am_data_release (AmMsg::drop) or by ucp_am_recv_data_nbx (the    *)
(* pull in recv_data_vectored).  Messages are independent here; which      *)
(* task takes which message, and in which order, is module AmWorker.       *)
(***************************************************************************)
EXTENDS Naturals, Sequences, SequencesExt

CONSTANTS
    Msgs,          \* the messages UCX delivers (model values)
    Lens,          \* payload lengths UCX may hand to the callback
    Attrs,         \* recv_attr flag sets UCX may pass (subsets of {"DATA", "RNDV"})
    Iovs,          \* caller iovecs for recv_data_vectored: sequences of buffer lengths
    Caps,          \* caller buffer lengths for recv_data_single
    PullOutcomes,  \* what ucp_am_recv_data_nbx returns: "now" (NULL), "later" (a
                   \* request pointer), "fail" (an error status)
    NoRet          \* no payload-consuming call has returned yet

DataFlags == {"DATA", "RNDV"}

ASSUME /\ Lens \subseteq Nat
       /\ Attrs \subseteq SUBSET DataFlags
       /\ Iovs \subseteq Seq(Nat)
       /\ Caps \subseteq Nat
       /\ PullOutcomes \subseteq {"now", "later", "fail"}

VARIABLES
    st,          \* where the message is: "unsent", "queued" (RawMsg in a handler
                 \* queue), "held" (an AmMsg), "pulling" (recv awaiting its request),
                 \* "dropped", "panicked" (the owning task unwound)
    data,        \* RawMsg.data: "none" or the AmData variant "eager", "data", "rndv"
    dlen,        \* length of the slice UCX handed to the callback
    deferred,    \* the callback returned UCS_INPROGRESS
    handedBack,  \* times the descriptor was given back (data_release or recv_data_nbx)
    room,        \* bytes of caller buffer given to the call that took the payload
    firstRet     \* byte count returned by the call that consumed the payload

vars == <<st, data, dlen, deferred, handedBack, room, firstRet>>

MaxLen == CHOOSE n \in Lens : \A l \in Lens : l <= n

TypeOK ==
    /\ st \in [Msgs -> {"unsent", "queued", "held", "pulling", "dropped", "panicked"}]
    /\ data \in [Msgs -> {"none", "eager", "data", "rndv"}]
    /\ dlen \in [Msgs -> Lens \cup {0}]
    /\ deferred \in [Msgs -> BOOLEAN]
    /\ handedBack \in [Msgs -> 0..2]
    /\ room \in [Msgs -> Nat \cup {NoRet}]
    /\ firstRet \in [Msgs -> Nat \cup {NoRet}]

Init ==
    /\ st = [m \in Msgs |-> "unsent"]
    /\ data = [m \in Msgs |-> "none"]
    /\ dlen = [m \in Msgs |-> 0]
    /\ deferred = [m \in Msgs |-> FALSE]
    /\ handedBack = [m \in Msgs |-> 0]
    /\ room = [m \in Msgs |-> NoRet]
    /\ firstRet = [m \in Msgs |-> NoRet]

-----------------------------------------------------------------------------
(* AmData::from_raw: an empty slice is no data; the DATA flag is tested    *)
(* before the RNDV flag; otherwise the bytes are copied (Eager).           *)
FromRaw(len, attr) ==
    CASE len = 0           -> "none"
      [] "DATA" \in attr   -> "data"
      [] "RNDV" \in attr   -> "rndv"
      [] OTHER             -> "eager"

Descriptor == {"data", "rndv"}

(* AmMsg::contains_data: data_type() is Some while the message holds data. *)
ContainsData(m) == data[m] # "none"

(* AmMsg::data_len: the length of the data still held (AmData::len), or 0. *)
DataLen(m) == IF ContainsData(m) THEN dlen[m] ELSE 0

(* Sum of the iovec buffer lengths (the `cap` fold).                       *)
IovCap(iov) == FoldLeft(+, 0, iov)

(* The copy loop of recv_data_vectored's Eager branch: for each buffer,    *)
(* len = min(copyed, buf.len()); stop at len = 0; copyed += len.           *)
RECURSIVE CopyLoop(_, _)
CopyLoop(iov, copyed) ==
    IF iov = <<>> THEN copyed
    ELSE LET len == IF copyed < Head(iov) THEN copyed ELSE Head(iov)
         IN IF len = 0 THEN copyed ELSE CopyLoop(Tail(iov), copyed + len)

GiveBack(m) == handedBack' = [handedBack EXCEPT ![m] = @ + 1]

-----------------------------------------------------------------------------
(* The extern "C" callback of am_register with AmHandler::callback and     *)
(* RawMsg::from_raw: classify the payload, queue the message, and return   *)
(* UCS_INPROGRESS iff a DATA or RNDV flag is set.                          *)
Callback(m) ==
    /\ st[m] = "unsent"
    /\ \E len \in Lens, attr \in Attrs :
         /\ data' = [data EXCEPT ![m] = FromRaw(len, attr)]
         /\ dlen' = [dlen EXCEPT ![m] = len]
         /\ deferred' = [deferred EXCEPT ![m] = attr \cap DataFlags # {}]
    /\ st' = [st EXCEPT ![m] = "queued"]
    /\ UNCHANGED <<handedBack, room, firstRet>>

(* Worker::am_recv returns Some(AmMsg::from_raw(worker, msg)).              *)
Receive(m) ==
    /\ st[m] = "queued"
    /\ st' = [st EXCEPT ![m] = "held"]
    /\ UNCHANGED <<data, dlen, deferred, handedBack, room, firstRet>>

(* Mutation: the descriptor branch reads the data without taking it, so    *)
(* the AmMsg still holds the descriptor after the pull.                    *)
VectoredKeepsDescriptor(m, iov) ==
    /\ data' = [data EXCEPT ![m] = IF @ \in Descriptor THEN @ ELSE "none"]
    /\ \/ /\ data[m] = "eager"
          /\ IovCap(iov) < dlen[m]
          /\ st' = [st EXCEPT ![m] = "panicked"]
          /\ UNCHANGED <<handedBack, firstRet>>
       \/ /\ data[m] = "eager"
          /\ IovCap(iov) >= dlen[m]
          /\ firstRet' = [firstRet EXCEPT ![m] = CopyLoop(iov, 0)]
          /\ UNCHANGED <<st, handedBack>>
       \/ /\ data[m] \in Descriptor
          /\ \/ /\ "now" \in PullOutcomes
                /\ GiveBack(m)
                /\ firstRet' = [firstRet EXCEPT ![m] = dlen[m]]
                /\ UNCHANGED st
             \/ /\ "later" \in PullOutcomes
                /\ st' = [st EXCEPT ![m] = "pulling"]
                /\ UNCHANGED <<handedBack, firstRet>>
             \/ /\ "fail" \in PullOutcomes
                /\ st' = [st EXCEPT ![m] = "panicked"]
                /\ UNCHANGED <<handedBack, firstRet>>
    /\ UNCHANGED <<dlen, deferred, room>>

(* recv_data_vectored after `self.msg.data.take()` found Some: the Eager   *)
(* branch (capacity assert, copy loop) and the descriptor branch (pull     *)
(* with ucp_am_recv_data_nbx).  The None branch returns Ok(0) and changes  *)
(* nothing.                                                                 *)
Vectored(m, iov) ==
    /\ data' = [data EXCEPT ![m] = "none"]
    /\ room' = [room EXCEPT ![m] = IovCap(iov)]
    /\ \/ /\ data[m] = "eager"
          /\ IovCap(iov) < dlen[m]
          /\ st' = [st EXCEPT ![m] = "panicked"]
          /\ UNCHANGED <<handedBack, firstRet>>
       \/ /\ data[m] = "eager"
          /\ IovCap(iov) >= dlen[m]
          /\ firstRet' = [firstRet EXCEPT ![m] = CopyLoop(iov, 0)]
          /\ UNCHANGED <<st, handedBack>>
       \/ /\ data[m] \in Descriptor
          /\ \/ /\ "now" \in PullOutcomes
                /\ GiveBack(m)
                /\ firstRet' = [firstRet EXCEPT ![m] = dlen[m]]
                /\ UNCHANGED st
             \/ /\ "later" \in PullOutcomes
                /\ st' = [st EXCEPT ![m] = "pulling"]
                /\ UNCHANGED <<handedBack, firstRet>>
             \/ /\ "fail" \in PullOutcomes
                /\ st' = [st EXCEPT ![m] = "panicked"]
                /\ UNCHANGED <<handedBack, firstRet>>
    /\ UNCHANGED <<dlen, deferred>>

(* AmMsg::recv_data_vectored.                                               *)
RecvDataVectored(m) ==
    /\ st[m] = "held"
    /\ data[m] # "none"
    /\ \E iov \in Iovs : Vectored(m, iov)

(* AmMsg::recv_data_single: Ok(0) without data, else one iovec.             *)
RecvDataSingle(m) ==
    /\ st[m] = "held"
    /\ data[m] # "none"
    /\ \E cap \in Caps : Vectored(m, <<cap>>)

(* Mutation: recv_data does not put the taken descriptor back before       *)
(* calling recv_data_single, which then sees no data and returns Ok(0).    *)
RecvDataNoRestore(m) ==
    /\ st[m] = "held"
    /\ \/ /\ data[m] = "eager"
          /\ data' = [data EXCEPT ![m] = "none"]
          /\ firstRet' = [firstRet EXCEPT ![m] = dlen[m]]
       \/ /\ data[m] \in Descriptor
          /\ data' = [data EXCEPT ![m] = "none"]
          /\ firstRet' = [firstRet EXCEPT ![m] = 0]
    /\ UNCHANGED <<st, dlen, deferred, handedBack, room>>

(* AmMsg::recv_data: an Eager vector is moved out; a descriptor is put     *)
(* back and pulled through recv_data_single into a buffer of data_len()    *)
(* bytes.  Without data it returns an empty vector and changes nothing.    *)
RecvData(m) ==
    /\ st[m] = "held"
    /\ \/ /\ data[m] = "eager"
          /\ data' = [data EXCEPT ![m] = "none"]
          /\ firstRet' = [firstRet EXCEPT ![m] = dlen[m]]
          /\ UNCHANGED <<st, dlen, deferred, handedBack, room>>
       \/ /\ data[m] \in Descriptor
          /\ Vectored(m, <<DataLen(m)>>)

(* The pull's completion callback wakes the task; poll_recv sees the       *)
(* request no longer in progress and recv_data_vectored returns            *)
(* Ok(data_len) whatever the status (which module AmSend follows).         *)
PullDone(m) ==
    /\ st[m] = "pulling"
    /\ GiveBack(m)
    /\ firstRet' = [firstRet EXCEPT ![m] = dlen[m]]
    /\ st' = [st EXCEPT ![m] = "held"]
    /\ UNCHANGED <<data, dlen, deferred, room>>

(* Drop for AmMsg: release a Data or Rndv descriptor still held.           *)
Drop(m) ==
    /\ st[m] = "held"
    /\ st' = [st EXCEPT ![m] = "dropped"]
    /\ data' = [data EXCEPT ![m] = "none"]
    /\ \/ /\ data[m] \in Descriptor
          /\ GiveBack(m)
       \/ /\ data[m] \notin Descriptor
          /\ UNCHANGED handedBack
    /\ UNCHANGED <<dlen, deferred, room, firstRet>>

Next ==
    \E m \in Msgs :
        \/ Callback(m)
        \/ Receive(m)
        \/ RecvData(m)
        \/ RecvDataSingle(m)
        \/ RecvDataVectored(m)
        \/ PullDone(m)
        \/ Drop(m)

Spec == Init /\ [][Next]_vars

-----------------------------------------------------------------------------
(* Properties.                                                              *)

(* A descriptor is given back to UCX at most once, and only one UCX        *)
(* deferred: neither a pull followed by a release in AmMsg::drop, nor a    *)
(* release of a buffer UCX reclaimed when the callback returned UCS_OK.    *)
DescriptorReturnedOnce ==
    \A m \in Msgs :
        /\ handedBack[m] <= 1
        /\ handedBack[m] = 1 => deferred[m]

(* Every descriptor UCX still keeps for the application is reachable from  *)
(* it: held in the RawMsg/AmMsg as Data or Rndv, or owned by an            *)
(* in-flight pull.  Otherwise nothing will ever release it.                 *)
NoOrphanDescriptor ==
    \A m \in Msgs :
        (deferred[m] /\ handedBack[m] = 0) =>
            \/ st[m] = "pulling"
            \/ st[m] \in {"queued", "held"} /\ data[m] \in Descriptor

(* Spec 8: the call that consumes a payload of length L returns L bytes.   *)
RecvReturnsPayload ==
    \A m \in Msgs : firstRet[m] # NoRet => firstRet[m] = dlen[m]

(* Spec 4.3 and 7: a receive into caller buffers with less room than the *)
(* payload fails with BufferTooSmall: it neither panics (the assert of     *)
(* recv_data_vectored's Eager branch) nor returns a byte count (a pull of  *)
(* a descriptor into a short iovec).                                       *)
ShortBufferRejected ==
    \A m \in Msgs : room[m] # NoRet /\ room[m] < dlen[m] =>
                       /\ st[m] # "panicked"
                       /\ firstRet[m] = NoRet

=============================================================================
