------------------------------ MODULE VoteSpec ------------------------------
(***************************************************************************)
(* What the stop vote of a runtime promises, abstracted from the atomics   *)
(* that implement it (TimeoutCoord): the parties may vote and withdraw     *)
(* their votes until all of them have voted at once; from then on nothing  *)
(* changes and the receiver may complete.                                  *)
(***************************************************************************)
EXTENDS Naturals

CONSTANT Voters

VARIABLES votes,   \* the parties that have a vote standing
          done     \* the receiver has completed

vars == <<votes, done>>

Init ==
  /\ votes = {}
  /\ done = FALSE

Vote(v) ==
  /\ votes' = votes \cup {v}
  /\ UNCHANGED done

Rescind(v) ==
  /\ votes # Voters
  /\ votes' = votes \ {v}
  /\ UNCHANGED done

Complete ==
  /\ votes = Voters
  /\ done' = TRUE
  /\ UNCHANGED votes

Next ==
  \/ \E v \in Voters : Vote(v) \/ Rescind(v)
  \/ Complete

Spec == Init /\ [][Next]_vars
=============================================================================
