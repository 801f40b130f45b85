----------------------------- MODULE MCWakeups ------------------------------
(***************************************************************************)
(* The primitives by which tasks wait for one another, for TLC.  They      *)
(* share nothing: a behaviour is one of the subject it begins with, so     *)
(* that the state graphs add up.                                           *)
(***************************************************************************)
EXTENDS Trigger, Readers

VARIABLE subject

vars == <<subject, triggerVars, readersVars>>

Init == subject \in {"trigger", "readers"} /\ TriggerInit /\ ReadersInit

OnTrigger(A) == subject = "trigger" /\ A /\ UNCHANGED <<subject, readersVars>>
OnReaders(A) == subject = "readers" /\ A /\ UNCHANGED <<subject, triggerVars>>

Next == OnTrigger(TriggerNext) \/ OnReaders(ReadersNext)

Spec == Init /\ [][Next]_vars

\* The fairness of the two specifications, each of its subject.
FairSpec ==
  /\ Spec
  /\ WF_vars(OnTrigger(SenderStep))
  /\ \A r \in Receivers :
       /\ WF_vars(OnTrigger(Register(r)))
       /\ WF_vars(OnTrigger((rcv[r] = "idle" \/ woken[r]) /\ Poll(r)))
  /\ WF_vars(OnReaders(ReaderStep))
  /\ \A c \in Channels : WF_vars(OnReaders(SetFlags(c) \/ WakeTask(c)))
=============================================================================
