---------------------------- MODULE MCLifecycle -----------------------------
(***************************************************************************)
(* How the instances of an agent end and begin, for TLC: the vote by which *)
(* the tasks of one decide to stop, and the state that it leaves to the    *)
(* next.  They share nothing: a behaviour is one of the subject it begins  *)
(* with, so that the state graphs add up.                                  *)
(***************************************************************************)
EXTENDS TimeoutCoord, AgentStore

CONSTANT Subjects

\* multi_party_coordinator: voter i has flag 2^i and inverse (2^n - 1) xor 2^i.
\* The test `inverse < TWO_VOTERS_LIM` singles out the two-party coordinator
\* for every number of parties the NumParties trait is implemented for.
Pow2(n) == 2^n
ASSUME TwoVotersLimAssumption ==
  \A n \in 2..8 : \A i \in 0..(n - 1) :
    ((Pow2(n) - 1) - Pow2(i) < 3) <=> (n = 2)

\* Each key of a map is a cell.
MCCellsOf == [x \in Items |-> IF x \in MapItems THEN {"k1", "k2"} ELSE {x}]

VARIABLE subject

allVars == <<subject, vars, storeVars>>

AllInit == subject \in Subjects /\ Init /\ StoreInit

OnVote(A) == subject = "vote" /\ A /\ UNCHANGED <<subject, storeVars>>
OnStore(A) == subject = "store" /\ A /\ UNCHANGED <<subject, vars>>

AllNext == OnVote(Next) \/ OnStore(StoreNext)

AllSpec == AllInit /\ [][AllNext]_allVars

\* The fairness of FairSpec and of StoreFairSpec, each of its subject.
AllFairSpec ==
  /\ AllSpec
  /\ WF_allVars(OnVote(Poll))
  /\ \A v \in Voters : WF_allVars(OnVote(InCall(v)))
  /\ WF_allVars(OnStore(StoreStep))
=============================================================================
