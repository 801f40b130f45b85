------------------------- MODULE MCDownlinkRuntime --------------------------
(***************************************************************************)
(* The runtime of a downlink, and a join lane with the downlinks that fill *)
(* it, for TLC.  A behaviour is one of the subject it begins with, so that *)
(* the state graphs add up: all that the join lane knows of a runtime is   *)
(* what it is notified of.                                                 *)
(***************************************************************************)
EXTENDS DownlinkRuntime, JoinLanes, TLC

CONSTANT Subjects

Setup(k, cs, n, e, v) ==
  [kind |-> k, consumers |-> cs, commands |-> n, empty |-> e, versions |-> v]

\* Consumers that join and leave a value downlink, of which one issues a command or
\* whose lane changes; and one consumer that issues two to a value downlink (of
\* which the first may have an empty body) or to a map downlink, or one to a map
\* downlink whose lane changes.
Joining == {Setup("value", Consumers, 1, {}, 0), Setup("value", Consumers, 0, {}, 1)}
Commanding ==
  UNION {{Setup("value", {c}, 2, {}, 1), Setup("value", {c}, 2, {1}, 0),
          Setup("map", {c}, 2, {}, 0), Setup("map", {c}, 1, {}, 1)} : c \in Consumers}
JoiningOrCommanding == Joining \cup Commanding

\* Two downlinks for the first link, and one for the second.
MCOpened == [l \in LinkKeys |-> IF \A m \in LinkKeys : l <= m THEN 2 ELSE 1]

Symmetry == Permutations(Consumers)

VARIABLE subject

mcVars == <<subject, vars, joinVars>>

OnRuntime(A) == subject = "runtime" /\ A /\ UNCHANGED <<subject, joinVars>>
OnJoin(A) == subject = "join" /\ A /\ UNCHANGED <<subject, vars>>

\* The initial state of the one that is not the subject does not matter.
MCInit ==
  /\ subject \in Subjects
  /\ Init /\ JoinInit
  /\ subject = "join" => kind = "map"
  /\ subject = "runtime" =>
       joined = [kind |-> CHOOSE k \in JoinKinds : TRUE, responses |-> {"Delete"}]

MCSpec == MCInit /\ [][OnRuntime(Next) \/ OnJoin(JoinNext)]_mcVars
=============================================================================
