------------------------------ MODULE MCServer ------------------------------
(***************************************************************************)
(* The connection task for downlinks, the task of one connection and the   *)
(* vote by which the two tasks of a downlink runtime stop, for TLC.  What  *)
(* each needs of the server is in its own module and they share nothing:   *)
(* a behaviour is one of the subject it begins with, so that the state     *)
(* graphs add up.                                                          *)
(***************************************************************************)
EXTENDS Connector, RemoteTask, TimeoutCoord

CONSTANT Subjects

MCResolve == [h \in Hosts |-> CHOOSE a \in Addrs : TRUE]

VARIABLE subject

serverVars == <<subject, connVars, remoteVars, vars>>

ServerInit == subject \in Subjects /\ ConnInit /\ RemoteInit /\ Init

OnConnector(A) == subject = "connector" /\ A /\ UNCHANGED <<subject, remoteVars, vars>>
OnRemote(A) == subject = "remote" /\ A /\ UNCHANGED <<subject, connVars, vars>>
OnVote(A) == subject = "vote" /\ A /\ UNCHANGED <<subject, connVars, remoteVars>>

ServerNext == OnConnector(ConnNext) \/ OnRemote(RemoteNext) \/ OnVote(Next)

\* The fairness of ConnFairSpec and of RemoteFairSpec, each of its subject.
ServerFairSpec ==
  /\ ServerInit /\ [][ServerNext]_serverVars
  /\ WF_serverVars(OnConnector(ConnStep))
  /\ \A s \in Sockets : WF_serverVars(OnConnector(RemoteStopped(s)))
  /\ WF_serverVars(OnRemote(RemoteStep))
=============================================================================
