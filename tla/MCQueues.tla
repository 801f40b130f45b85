------------------------------ MODULE MCQueues ------------------------------
(***************************************************************************)
(* The queues in which a record that has been superseded gives way to the  *)
(* one that supersedes it, for TLC: the operations of a map, the circular  *)
(* buffer, and the commands that an agent sends to others.  They share     *)
(* nothing: a behaviour is one of the subject it begins with, so that the  *)
(* state graphs add up.                                                    *)
(***************************************************************************)
EXTENDS MapQueue, CircularBuffer, ExternalLinks

\* On the operands the queue uses, the wrapping operations are arithmetic
\* modulo the width of usize.
ASSUME WrappingAssumption ==
  \A a, b \in 0..(Modulus - 1) :
    /\ WrappingAdd(a, b) = (a + b) % Modulus
    /\ WrappingSub(a, b) = (a - b) % Modulus

\* Two lanes of a host, and an address whose host cannot be parsed.
MCEndpointOf == [a \in Addresses |-> IF a = "nowhere" THEN NoHost ELSE "host"]

VARIABLE subject

queuesVars == <<subject, vars, bufferVars, linksVars>>

OnMap(A) == subject = "map" /\ A /\ UNCHANGED <<subject, bufferVars, linksVars>>
OnBuffer(A) == subject = "buffer" /\ A /\ UNCHANGED <<subject, vars, linksVars>>
OnLinks(A) == subject = "links" /\ A /\ UNCHANGED <<subject, vars, bufferVars>>

QueuesInit == subject \in {"map", "buffer", "links"} /\ Init /\ BufferInit /\ LinksInit
QueuesNext == OnMap(Next) \/ OnBuffer(BufferNext) \/ OnLinks(LinksNext)

\* The fairness of the three specifications, each of its subject.
QueuesSpec ==
  /\ QueuesInit /\ [][QueuesNext]_queuesVars
  /\ WF_queuesVars(OnMap(Pop))
  /\ WF_queuesVars(OnBuffer(Send)) /\ WF_queuesVars(OnBuffer(Recv))
  /\ WF_queuesVars(OnBuffer(RecvPoll /\ (rx.pc = "idle" \/ rx_notified)))
  /\ \A e \in Endpoints : WF_queuesVars(OnLinks(Completes(e))) /\ WF_queuesVars(OnLinks(Timeout(e)))
  /\ \A d \in Downlinks : WF_queuesVars(OnLinks(Resolves(d)))
=============================================================================
