---------------------------- MODULE MCAgentTask -----------------------------
(***************************************************************************)
(* The loop of an agent with its lanes, and with a downlink that it hosts, *)
(* for TLC.  They share nothing but the loop: a behaviour is one of the    *)
(* subject it begins with, so that the state graphs add up.                *)
(***************************************************************************)
EXTENDS AgentTask, HostedDownlink

VARIABLE subject

agentVars == <<subject, taskVars, dlVars>>

OnLane(A) == subject = "lane" /\ A /\ UNCHANGED <<subject, dlVars>>
OnDownlink(A) == subject = "downlink" /\ A /\ UNCHANGED <<subject, taskVars>>

\* The initial state of the one that is not the subject does not matter.
AgentInit ==
  /\ subject \in {"lane", "downlink"}
  /\ TaskInit /\ DlInit
  /\ subject = "lane" =>
       config = CHOOSE c \in [kind : {"map"}, terminate_on_unlinked : {TRUE}] : TRUE
  /\ subject = "downlink" => kind = CHOOSE k \in Kinds : TRUE

AgentNext == OnLane(TaskNext) \/ OnDownlink(DlNext)

\* The fairness of the two specifications, each of its subject.
AgentSpec ==
  /\ AgentInit /\ [][AgentNext]_agentVars
  /\ WF_agentVars(OnLane(EndHandler)) /\ SF_agentVars(OnLane(WriteComplete))
  /\ WF_agentVars(OnDownlink(DlStep))
=============================================================================
