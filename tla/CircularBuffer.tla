--------------------------- MODULE CircularBuffer ---------------------------
(***************************************************************************)
(* The circular buffer channel (swimos_utilities/swimos_sync/src/          *)
(* circular_buffer): one sender that never waits, one receiver, and a      *)
(* buffer of fixed capacity from which the sender drops the oldest record  *)
(* when it is full.  The value downlinks that an agent opens take the      *)
(* values set through their handles from one of capacity 1.                *)
(*                                                                         *)
(* Every access to the queue, to `permits`, to `sender_active` and to the  *)
(* AtomicWaker is a step of its own, taken as sequentially consistent; the *)
(* three representations of the queue differ only in that the unbounded    *)
(* one would not notice a push that is one too many.  The records are      *)
(* numbered in the order in which they are sent.                           *)
(***************************************************************************)
EXTENDS Naturals, Sequences

CONSTANTS
  Size,       \* the capacity of the channel
  MaxSends    \* bound: records that are sent

ASSUME SizeAssumption == Size \in Nat \ {0}
ASSUME MaxSendsAssumption == MaxSends \in Nat

VARIABLES
  buffer, permits, sender_active,  \* QueueChannel and Inner
  rx_waker,     \* the AtomicWaker holds a waker
  rx_notified,  \* the task of the receiver has been woken since it was polled
  tx,           \* the sender: where it is, the permits it saw, the last record
  rx            \* the receiver: where it is, the record in its hand, the last it got

bufferVars == <<buffer, permits, sender_active, rx_waker, rx_notified, tx, rx>>
shared == <<buffer, permits, sender_active>>

BufferInit ==
  /\ buffer = <<>>
  /\ permits = Size
  /\ sender_active = TRUE
  /\ rx_waker = FALSE /\ rx_notified = FALSE
  /\ tx = [pc |-> "idle", available |-> 0, sent |-> 0]
  /\ rx = [pc |-> "idle", hand |-> 0, last |-> 0]
-----------------------------------------------------------------------------
(* The sender.                                                             *)

Go(pc) == tx' = [tx EXCEPT !.pc = pc]

\* try_send, while the receiver has not been dropped (else it is refused).
TrySend ==
  /\ tx.pc = "idle"
  /\ rx.pc # "gone"
  /\ tx.sent < MaxSends
  /\ tx' = [tx EXCEPT !.pc = "load", !.sent = @ + 1]
  /\ UNCHANGED <<shared, rx_waker, rx_notified, rx>>

SendLoad ==
  /\ tx.pc = "load"
  /\ tx' = [tx EXCEPT !.available = permits, !.pc = IF permits > 0 THEN "exchange" ELSE "pop"]
  /\ UNCHANGED <<shared, rx_waker, rx_notified, rx>>

SendExchange ==
  /\ tx.pc = "exchange"
  /\ \/ /\ permits = tx.available
        /\ permits' = permits - 1
        /\ Go("push")
     \/ /\ permits # tx.available
        /\ Go("load")
        /\ UNCHANGED permits
  /\ UNCHANGED <<buffer, sender_active, rx_waker, rx_notified, rx>>

\* Mutant of WakesReceiver: the receiver is woken only when the buffer is full.
WakesWhenFull == tx.available = 1

\* The receiver sleeps only if every permit was there.
WakesReceiver == tx.available = Size

SendPush ==
  /\ tx.pc = "push"
  /\ buffer' = Append(buffer, tx.sent)
  /\ Go(IF WakesReceiver THEN "wake" ELSE "idle")
  /\ UNCHANGED <<permits, sender_active, rx_waker, rx_notified, rx>>

\* AtomicWaker::wake takes the waker, if there is one, and wakes the task.
Wake ==
  /\ rx_waker' = FALSE
  /\ rx_notified' = (rx_notified \/ rx_waker)

SendWake ==
  /\ tx.pc = "wake"
  /\ Wake
  /\ Go("idle")
  /\ UNCHANGED <<shared, rx>>

\* Mutant of Oldest: the record that was sent last is dropped.
OldestIsLast == SubSeq(buffer, 1, Len(buffer) - 1)

\* What is left when a record has been dropped to make room.
Oldest == Tail(buffer)

\* The buffer was full: the oldest record is dropped, if it is still there.
SendPop ==
  /\ tx.pc = "pop"
  /\ \/ /\ buffer # <<>>
        /\ buffer' = Oldest
        /\ Go("release")
     \/ /\ buffer = <<>>
        /\ Go("load")
        /\ UNCHANGED buffer
  /\ UNCHANGED <<permits, sender_active, rx_waker, rx_notified, rx>>

SendRelease ==
  /\ tx.pc = "release"
  /\ permits' = permits + 1
  /\ Go("load")
  /\ UNCHANGED <<buffer, sender_active, rx_waker, rx_notified, rx>>

\* The Drop of the sender: first the flag, then the wake.
DropTx ==
  /\ tx.pc = "idle"
  /\ sender_active' = FALSE
  /\ Go("leave")
  /\ UNCHANGED <<buffer, permits, rx_waker, rx_notified, rx>>

DropTxWake ==
  /\ tx.pc = "leave"
  /\ Wake
  /\ Go("gone")
  /\ UNCHANGED <<shared, rx>>
-----------------------------------------------------------------------------
(* The receiver.                                                           *)

Goes(pc) == rx' = [rx EXCEPT !.pc = pc]

\* The receiver may be polled at any time; one that sleeps is, once it was woken.
RecvPoll ==
  /\ rx.pc \in {"idle", "asleep"}
  /\ Goes("pop")
  /\ rx_notified' = FALSE
  /\ UNCHANGED <<shared, rx_waker, tx>>

\* Mutant of RecvPop: the newest record is taken first.
RecvPopNewest ==
  /\ rx.pc = "pop"
  /\ \/ /\ buffer # <<>>
        /\ buffer' = SubSeq(buffer, 1, Len(buffer) - 1)
        /\ rx' = [rx EXCEPT !.pc = "release", !.hand = buffer[Len(buffer)]]
     \/ /\ buffer = <<>>
        /\ Goes("load")
        /\ UNCHANGED buffer
  /\ UNCHANGED <<permits, sender_active, rx_waker, rx_notified, tx>>

RecvPop ==
  /\ rx.pc = "pop"
  /\ \/ /\ buffer # <<>>
        /\ buffer' = Tail(buffer)
        /\ rx' = [rx EXCEPT !.pc = "release", !.hand = Head(buffer)]
     \/ /\ buffer = <<>>
        /\ Goes("load")
        /\ UNCHANGED buffer
  /\ UNCHANGED <<permits, sender_active, rx_waker, rx_notified, tx>>

\* The permit is given back and the record returned.
RecvRelease ==
  /\ rx.pc = "release"
  /\ permits' = permits + 1
  /\ rx' = [pc |-> "idle", hand |-> 0, last |-> rx.hand]
  /\ UNCHANGED <<buffer, sender_active, rx_waker, rx_notified, tx>>

\* With a permit missing there is a record, or there will be: try again.
RecvLoad ==
  /\ rx.pc = "load"
  /\ Goes(IF permits = Size THEN "register" ELSE "pop")
  /\ UNCHANGED <<shared, rx_waker, rx_notified, tx>>

RecvRegister ==
  /\ rx.pc = "register"
  /\ rx_waker' = TRUE
  /\ Goes("active")
  /\ UNCHANGED <<shared, rx_notified, tx>>

RecvActive ==
  /\ rx.pc = "active"
  /\ Goes(IF sender_active THEN "check" ELSE "ended")
  /\ UNCHANGED <<shared, rx_waker, rx_notified, tx>>

\* Nothing has been sent since the first look.
AllPermits == permits = Size

RecvCheck ==
  /\ rx.pc = "check"
  /\ Goes(IF AllPermits THEN "asleep" ELSE "pop")
  /\ UNCHANGED <<shared, rx_waker, rx_notified, tx>>

DropRx ==
  /\ rx.pc \in {"idle", "asleep"}
  /\ Goes("gone")
  /\ UNCHANGED <<shared, rx_waker, rx_notified, tx>>

Send ==
  \/ SendLoad \/ SendExchange \/ SendPush \/ SendWake \/ SendPop \/ SendRelease
  \/ DropTxWake

Recv ==
  \/ RecvPop \/ RecvRelease \/ RecvLoad \/ RecvRegister \/ RecvActive \/ RecvCheck

BufferNext ==
  \/ TrySend \/ DropTx \/ Send
  \/ RecvPoll \/ DropRx \/ Recv

BufferSpec == BufferInit /\ [][BufferNext]_bufferVars

\* Both threads run on; a receiver that is not asleep, or was woken, is polled.
BufferFairSpec ==
  /\ BufferSpec
  /\ WF_bufferVars(Send) /\ WF_bufferVars(Recv)
  /\ WF_bufferVars(RecvPoll /\ (rx.pc = "idle" \/ rx_notified))
-----------------------------------------------------------------------------
BufferTypeOK ==
  /\ buffer \in Seq(Nat)
  /\ permits \in 0..Size
  /\ sender_active \in BOOLEAN /\ rx_waker \in BOOLEAN /\ rx_notified \in BOOLEAN
  /\ tx \in [pc : {"idle", "load", "exchange", "push", "wake", "pop", "release", "leave", "gone"},
            available : 0..Size, sent : Nat]
  /\ rx \in [pc : {"idle", "pop", "release", "load", "register", "active", "check",
                  "asleep", "ended", "gone"},
            hand : Nat, last : Nat]

\* Permits that the sender, or the receiver, has and has not given back or used.
HeldBySender == IF tx.pc \in {"push", "release"} THEN 1 ELSE 0
HeldByReceiver == IF rx.pc = "release" THEN 1 ELSE 0

\* The permits account for the queue: a push finds room ("Inconsistent queue.").
PermitsAgree ==
  permits + Len(buffer) + HeldBySender + HeldByReceiver = Size

\* The permits that the sender saw are there still: only the sender takes any.
PermitsSeen == tx.pc = "exchange" => tx.available > 0 /\ tx.available <= permits

\* A record is being sent and is not in the queue.
Sending == tx.pc \in {"load", "exchange", "push", "pop", "release"}

\* The last record that was sent, once it is in the queue.
Newest == IF Sending THEN tx.sent - 1 ELSE tx.sent

\* The queue holds an unbroken run of records that ends with the newest; what the
\* receiver has is older.
RunOfNewest ==
  /\ Sending => tx.sent > 0
  /\ \A i \in 1..Len(buffer) : buffer[i] + Len(buffer) = Newest + i
  /\ rx.last + Len(buffer) <= Newest
  /\ rx.hand + Len(buffer) <= Newest
  /\ rx.pc = "release" => rx.last < rx.hand

\* The sender has made room, or found it, for a record newer than the newest.
Displacing == tx.pc \in {"release", "exchange", "push"} \/ (tx.pc = "load" /\ permits > 0)

\* The newest record is not lost: it is in the queue, in the hand of the receiver
\* or was received, unless a newer one is on its way and may have displaced it.
NewestKept ==
  buffer = <<>> /\ ~Displacing =>
    rx.last = Newest \/ (rx.pc = "release" /\ rx.hand = Newest)

\* Why a receiver that sleeps will be woken by the next send, and by the drop.
WakeOnItsWay ==
  /\ ~sender_active <=> tx.pc \in {"leave", "gone"}
  /\ rx.pc \in {"active", "check", "asleep"} => rx_waker \/ rx_notified
  /\ rx.pc \in {"check", "asleep"} /\ ~rx_notified /\ ~sender_active => tx.pc = "leave"
  /\ rx.pc = "asleep" /\ ~rx_notified =>
       \/ permits = Size
       \/ tx.pc = "push" /\ tx.available = Size /\ permits + 1 = Size
       \/ tx.pc = "wake"

\* The invariant that is inductive.
BufferIInv ==
  /\ BufferTypeOK /\ PermitsAgree /\ PermitsSeen
  /\ RunOfNewest /\ NewestKept /\ WakeOnItsWay

\* A receiver that sleeps with no wake on its way has nothing to wait for but a
\* send: neither a record nor the end of the channel is missed.
NoLostWake ==
  rx.pc = "asleep" /\ ~rx_notified =>
    /\ rx_waker
    /\ buffer # <<>> => tx.pc = "wake"
    /\ ~sender_active => tx.pc = "leave"

\* Records are received in the order in which they were sent.
ReceivedInOrder == [][rx'.last # rx.last => rx'.last > rx.last]_bufferVars

\* A record that stays the newest is received, unless an end is dropped.
NewestArrives ==
  \A n \in 1..MaxSends :
    (tx.pc = "idle" /\ tx.sent = n) ~> (rx.last = n \/ tx.sent > n \/ ~sender_active \/ rx.pc = "gone")

\* "If the send end is dropped, the receive end will receive all data remaining
\* in the buffer and will then terminate."
EndsDrained == rx.pc = "ended" => buffer = <<>>
=============================================================================
