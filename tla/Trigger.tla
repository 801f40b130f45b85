------------------------------ MODULE Trigger -------------------------------
(***************************************************************************)
(* A promise (swimos_trigger/src/promise/mod.rs) and the one-to-many       *)
(* trigger it is built on (trigger/mod.rs), by which agents, remotes and   *)
(* connections are told to stop and tell one another why they did.         *)
(*                                                                         *)
(* The flag, the value and the slab of wakers are reached one at a time:   *)
(* each load, store or critical section is a step.  Nothing is taken out   *)
(* of the slab until it is emptied, so it is a sequence; a receiver knows  *)
(* the place of its waker in it.  Each receiver is polled by a task of its *)
(* own, which its waker stands for.                                        *)
(***************************************************************************)
EXTENDS Naturals, Sequences

CONSTANTS
  Receivers,    \* the handles that may exist
  First,        \* the one that promise() returns
  ClonesPolled  \* TRUE: receivers are cloned at any time; FALSE: only before
                \* they are polled, as all the callers do

ASSUME FirstAssumption == First \in Receivers
ASSUME ClonesAssumption == ClonesPolled \in BOOLEAN

VARIABLES
  flag,     \* TriggerInner::flag
  value,    \* PromiseInner: is there a value
  waiters,  \* TriggerInner::waiters
  slot,     \* Receiver::slot of each receiver, 0 for None
  rcv,      \* where each receiver is
  woken,    \* its task has been woken since it was last polled
  snd       \* where the sender is

triggerVars == <<flag, value, waiters, slot, rcv, woken, snd>>

Live == {"idle", "loaded", "waiting"}

TriggerInit ==
  /\ flag = 0
  /\ value = FALSE
  /\ waiters = <<>>
  /\ slot = [r \in Receivers |-> 0]
  /\ rcv = [r \in Receivers |-> IF r = First THEN "idle" ELSE "absent"]
  /\ woken = [r \in Receivers |-> FALSE]
  /\ snd = "idle"
-----------------------------------------------------------------------------
\* Mutant of Provide: the trigger first.
ProvideLate ==
  /\ snd = "idle"
  /\ snd' = "stored"
  /\ UNCHANGED <<flag, value, waiters, slot, rcv, woken>>

\* promise::Sender::provide stores the value ...
Provide ==
  /\ snd = "idle"
  /\ value' = TRUE
  /\ snd' = "stored"
  /\ UNCHANGED <<flag, waiters, slot, rcv, woken>>

\* The weak reference of the sender can be upgraded while a receiver is there.
Upgrades == \E r \in Receivers : rcv[r] \in Live

\* ... and then triggers; with no receiver left the value is taken back.
Upgrade ==
  /\ snd = "stored"
  /\ IF Upgrades
       THEN snd' = "upgraded" /\ UNCHANGED value
       ELSE snd' = "returned" /\ value' = FALSE
  /\ UNCHANGED <<flag, waiters, slot, rcv, woken>>

\* Drop for Sender
DropSender ==
  /\ snd = "idle"
  /\ snd' = IF Upgrades THEN "dropping" ELSE "done"
  /\ UNCHANGED <<flag, value, waiters, slot, rcv, woken>>

\* trigger_with: the flag is set before the lock is taken ...
SetFlag ==
  /\ snd \in {"upgraded", "dropping"}
  /\ flag' = IF snd = "upgraded" THEN 1 ELSE 2
  /\ snd' = "flagged"
  /\ UNCHANGED <<value, waiters, slot, rcv, woken>>

\* ... and all the wakers are woken under it.
WakeAll ==
  /\ snd = "flagged"
  /\ woken' = [r \in Receivers |-> woken[r] \/ \E i \in DOMAIN waiters : waiters[i] = r]
  /\ waiters' = <<>>
  /\ snd' = "done"
  /\ UNCHANGED <<flag, value, slot, rcv>>

\* What a receiver that finds the flag set completes with; it takes for granted
\* that the value is there.
Completed == IF flag = 2 THEN "failed" ELSE IF value THEN "ok" ELSE "panicked"

\* Receiver::poll, its first look at the flag.
Poll(r) ==
  /\ rcv[r] \in {"idle", "waiting"}
  /\ woken' = [woken EXCEPT ![r] = FALSE]
  /\ rcv' = [rcv EXCEPT ![r] = IF flag = 0 THEN "loaded" ELSE Completed]
  /\ UNCHANGED <<flag, value, waiters, slot, snd>>

\* Mutant of Recheck: the flag is not looked at again under the lock.
RecheckNot == TRUE

\* The second look, with the lock.
Recheck == flag = 0

\* The rest of poll, under the lock: the waker goes into the slot that the
\* receiver has, or into a new one.
Register(r) ==
  /\ rcv[r] = "loaded"
  /\ \/ /\ Recheck
        /\ rcv' = [rcv EXCEPT ![r] = "waiting"]
        /\ IF slot[r] \in DOMAIN waiters
             THEN waiters' = [waiters EXCEPT ![slot[r]] = r] /\ UNCHANGED slot
             ELSE waiters' = Append(waiters, r) /\ slot' = [slot EXCEPT ![r] = Len(waiters) + 1]
     \/ /\ ~Recheck
        /\ rcv' = [rcv EXCEPT ![r] = Completed]
        /\ UNCHANGED <<waiters, slot>>
  /\ UNCHANGED <<flag, value, woken, snd>>

\* The derived Clone of Receiver: the slot is copied.
Clone(r, q) ==
  /\ rcv[r] \in {"idle", "waiting"}
  /\ slot[r] = 0 \/ ClonesPolled
  /\ rcv[q] = "absent"
  /\ rcv' = [rcv EXCEPT ![q] = "idle"]
  /\ slot' = [slot EXCEPT ![q] = slot[r]]
  /\ UNCHANGED <<flag, value, waiters, woken, snd>>

\* A receiver is dropped; its waker stays where it is.
DropReceiver(r) ==
  /\ rcv[r] \in {"idle", "waiting"}
  /\ rcv' = [rcv EXCEPT ![r] = "dropped"]
  /\ UNCHANGED <<flag, value, waiters, slot, woken, snd>>

SenderStep == Upgrade \/ SetFlag \/ WakeAll

TriggerNext ==
  \/ Provide \/ DropSender \/ SenderStep
  \/ \E r \in Receivers : Poll(r) \/ Register(r) \/ DropReceiver(r)
  \/ \E r, q \in Receivers : Clone(r, q)

TriggerSpec == TriggerInit /\ [][TriggerNext]_triggerVars

\* A task is polled when it is new or has been woken; a call that has begun ends.
TriggerFairness ==
  /\ WF_triggerVars(SenderStep)
  /\ \A r \in Receivers :
       /\ WF_triggerVars(Register(r))
       /\ WF_triggerVars((rcv[r] = "idle" \/ woken[r]) /\ Poll(r))

TriggerFairSpec == TriggerSpec /\ TriggerFairness
-----------------------------------------------------------------------------
TriggerTypeOK ==
  /\ flag \in {0, 1, 2}
  /\ value \in BOOLEAN
  /\ waiters \in Seq(Receivers)
  /\ slot \in [Receivers -> Nat]
  /\ rcv \in [Receivers -> Live \cup {"absent", "ok", "failed", "panicked", "dropped"}]
  /\ woken \in [Receivers -> BOOLEAN]
  /\ snd \in {"idle", "stored", "upgraded", "returned", "dropping", "flagged", "done"}

\* A receiver that waits is in the slab for as long as the sender has not
\* emptied it, and has been woken once it has.
NoLostTrigger ==
  \A r \in Receivers :
    rcv[r] = "waiting" =>
      woken[r] \/ (snd # "done" /\ \E i \in DOMAIN waiters : waiters[i] = r)

\* No receiver finds the trigger pulled and no value, and none has the value if
\* the sender was given it back.
ValueIsThere ==
  \A r \in Receivers : rcv[r] # "panicked" /\ (rcv[r] = "ok" => value /\ snd # "returned")

\* The slot of a receiver is its own.
SlotsAreOwn ==
  /\ \A r \in Receivers :
       /\ rcv[r] \in {"absent", "idle"} => slot[r] = 0
       /\ flag = 0 /\ slot[r] # 0 => slot[r] \in DOMAIN waiters /\ waiters[slot[r]] = r
       /\ rcv[r] = "waiting" /\ ~woken[r] =>
            snd # "done" /\ slot[r] \in DOMAIN waiters /\ waiters[slot[r]] = r

\* The flag, the value and what the receivers have seen agree with how far the
\* sender has come.
SenderAgrees ==
  /\ snd \in {"idle", "stored", "upgraded", "dropping", "returned"} => flag = 0
  /\ snd = "flagged" => flag # 0
  /\ snd \in {"stored", "upgraded"} \/ flag = 1 => value
  /\ snd = "returned" \/ (snd = "done" /\ flag = 0) => ~Upgrades
  /\ flag = 0 => \A r \in Receivers : rcv[r] \notin {"ok", "failed", "panicked"}

\* What holds at every step, for any number of receivers, if none is cloned
\* after it was polled.
TriggerIInv == TriggerTypeOK /\ ValueIsThere /\ SenderAgrees /\ SlotsAreOwn

\* "Every copy of the receiver will complete successfully (when the sender is
\* triggered) or with an error (if the sender is dropped)."
EveryCopyCompletes ==
  \A r \in Receivers : (rcv[r] \in Live /\ snd = "done") ~> rcv[r] \in {"ok", "failed", "dropped"}
=============================================================================
