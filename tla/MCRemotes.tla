----------------------------- MODULE MCRemotes ------------------------------
(***************************************************************************)
(* The write task of an agent for TLC: the uplinks of one remote in        *)
(* detail, and the registries of all remotes.  They share nothing here: a  *)
(* behaviour is one of the subject it begins with, so that the state       *)
(* graphs add up.                                                          *)
(***************************************************************************)
EXTENDS Uplinks, WriteTask, TLC

CONSTANTS c1, c2, r1, r2, l1, l2, va, v2, su, s2

OneEach == (c1 :> r1) @@ (c2 :> r2)

\* One remote and two lanes; two remotes that share a lane.
Shared == {[lanes |-> {l1, l2}, conns |-> {c1}], [lanes |-> {l1}, conns |-> {c1, c2}]}

\* A lane emits two events; where a value and a supply lane share the writer each
\* emits one.
MCVersions == [l \in AllLanes |-> IF l \in {va, su} THEN 1 ELSE 2]

VARIABLE subject

allVars == <<subject, uplinkVars, vars>>

\* The subject that does not take part has one initial state.
AllInit ==
  /\ UplinksInit /\ Init
  /\ \/ subject = "uplinks" /\ lanes = {l1}
     \/ subject = "registries" /\ agentLanes = {va, su}

AllNext ==
  /\ UNCHANGED subject
  /\ \/ subject = "uplinks" /\ UplinksNext /\ UNCHANGED vars
     \/ subject = "registries" /\ Next /\ UNCHANGED uplinkVars

AllSpec == AllInit /\ [][AllNext]_allVars
=============================================================================
