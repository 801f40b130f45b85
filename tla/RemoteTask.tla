----------------------------- MODULE RemoteTask -----------------------------
(***************************************************************************)
(* The task of one connection (swimos_remote/src/task/mod.rs): a task that *)
(* registers downlinks, one that routes what comes in and one that writes  *)
(* what goes out; and the server (swimos_server_app/src/server/runtime/    *)
(* mod.rs) that finds the agents for it and starts them.                   *)
(*                                                                         *)
(* The peer sends envelopes to agents, numbered as they come.  An agent    *)
(* may stop at any time: its channels close at once, and the server hears  *)
(* of it later.  Other connections may have an agent started too.          *)
(***************************************************************************)
EXTENDS Naturals, Sequences, FiniteSets

CONSTANTS
  Nodes,         \* the nodes that have agents
  Unrouted,      \* nodes that match no route
  Downlinks,     \* the downlinks that are attached
  Nobody,        \* nothing
  MaxEnvelopes,  \* the bound on the envelopes
  MaxInstances   \* the bound on the instances of an agent

ASSUME NodesAssumption == Nodes \cap Unrouted = {} /\ Nobody \notin Downlinks
ASSUME EnvelopesAssumption == MaxEnvelopes \in Nat /\ MaxInstances \in Nat \ {0}

VARIABLES
  incoming,   \* the incoming task: its stage, and the envelope and node it is about
  outgoing,   \* the outgoing task: "up" or "ended"
  registrar,  \* the registration task: "up" or "ended"
  killed,     \* the kill switch
  number,     \* of envelopes that came
  routes,     \* agent_routes: the instance of each node, 0 for none
  fate,       \* what became of each envelope
  find,       \* the request to find an agent, and the instance that is to be attached
  agent,      \* the last instance of each agent: its number and stage
  known,      \* agent_channels of the server
  inbox,      \* what is on the way to the instance
  got,        \* what the instances of each node have received
  heard,      \* the instances whose responses the outgoing task reads
  half,       \* how far the two halves of a downlink are
  plane       \* "running", "stopping" or "stopped"

remoteVars ==
  <<incoming, outgoing, registrar, killed, number, routes, fate, find, agent, known, inbox, got, heard, half, plane>>
agentVars == <<agent, known, inbox, got>>

Idle == [stage |-> "idle", id |-> 0, node |-> Nobody, to |-> 0]
Ended == [stage |-> "ended", id |-> 0, node |-> Nobody, to |-> 0]
Finding(p, i) == [stage |-> p, to |-> i]

RemoteInit ==
  /\ incoming = Idle /\ outgoing = "up" /\ registrar = "up" /\ killed = FALSE
  /\ number = 0
  /\ routes = [n \in Nodes |-> 0]
  /\ fate = [e \in 1..MaxEnvelopes |-> "none"]
  /\ find = Finding("none", 0)
  /\ agent = [n \in Nodes |-> [no |-> 0, stage |-> "none"]]
  /\ known = [n \in Nodes |-> 0]
  /\ inbox = [n \in Nodes |-> <<>>]
  /\ got = [n \in Nodes |-> <<>>]
  /\ heard = {}
  /\ half = [d \in Downlinks |-> [in |-> "none", out |-> "none", told |-> FALSE]]
  /\ plane = "running"

\* An instance that runs, and so has its channels open.
Up(n, i) == agent[n] = [no |-> i, stage |-> "up"]

\* Where the incoming task ends.  What was on its way to it is lost.
EndIncoming ==
  /\ incoming' = Ended
  /\ half' = [d \in Downlinks |-> IF half[d].in = "queued" THEN [half[d] EXCEPT !.in = "lost"] ELSE half[d]]
-----------------------------------------------------------------------------
\* An envelope comes for an agent: it is for the route there is, or one must be found.
\* The signal to stop and the registrations are looked at before the input.
Envelope(n) ==
  /\ incoming = Idle
  /\ plane # "stopped" /\ registrar = "up" /\ \A d \in Downlinks : half[d].in # "queued"
  /\ number < MaxEnvelopes
  /\ number' = number + 1
  /\ incoming' =
       [stage |-> IF n \in Nodes /\ routes[n] # 0 THEN "forward" ELSE "find",
        id |-> number + 1, node |-> n, to |-> IF n \in Nodes THEN routes[n] ELSE 0]
  /\ find' = IF incoming'.stage = "find" THEN Finding("sent", 0) ELSE find
  /\ UNCHANGED <<outgoing, registrar, killed, routes, fate, agentVars, heard, half, plane>>

\* Mutant of Retry: the envelope is given up with the route.
RetryNot == incoming' = Idle /\ UNCHANGED find

\* The agent is looked for.
Retry == incoming' = [incoming EXCEPT !.stage = "find"] /\ find' = Finding("sent", 0)

\* The envelope is written to the agent.
Forwarded(n) ==
  /\ inbox' = [inbox EXCEPT ![n] = Append(@, incoming.id)]
  /\ fate' = [fate EXCEPT ![incoming.id] = "sent"]
  /\ incoming' = Idle

Forward ==
  LET n == incoming.node
  IN  /\ incoming.stage = "forward"
      /\ \/ Up(n, incoming.to) /\ Forwarded(n) /\ UNCHANGED <<routes, find>>
         \/ /\ ~Up(n, incoming.to)
            /\ routes' = [routes EXCEPT ![n] = 0]
            /\ Retry
            /\ UNCHANGED <<inbox, fate>>
      /\ UNCHANGED <<outgoing, registrar, killed, number, agent, known, got, heard, half, plane>>

\* Mutant of Register: the responses of the agent are not read.
RegisterNot(n) == UNCHANGED heard

\* RegisterOutgoing, for an agent.
Register(n) == heard' = heard \cup {<<n, find.to>>}

\* connect_agent_route has an answer.  The responses of an agent are to be read before
\* anything is sent to it; one that is not there is reported to the peer.
Connect ==
  LET n == incoming.node
  IN  /\ incoming.stage = "find"
      /\ \/ /\ find.stage = "connected"
            /\ outgoing = "up"
            /\ Register(n)
            /\ incoming' = [incoming EXCEPT !.stage = "connected", !.to = find.to]
            /\ UNCHANGED <<fate, half>>
         \/ /\ find.stage = "notFound"
            /\ outgoing = "up"
            /\ fate' = [fate EXCEPT ![incoming.id] = "refused"]
            /\ incoming' = Idle
            /\ UNCHANGED <<heard, half>>
         \/ /\ \/ find.stage \in {"connected", "notFound"} /\ outgoing = "ended"
               \/ find.stage = "dropped"
            /\ EndIncoming
            /\ UNCHANGED <<fate, heard>>
      /\ find' = Finding("none", 0)
      /\ UNCHANGED <<outgoing, registrar, killed, number, routes, agentVars, plane>>

\* The envelope is written to the agent that was found, unless it has stopped again.
Dispatch ==
  LET n == incoming.node
  IN  /\ incoming.stage = "connected"
      /\ \/ /\ Up(n, incoming.to)
            /\ routes' = [routes EXCEPT ![n] = incoming.to]
            /\ Forwarded(n)
         \/ /\ ~Up(n, incoming.to)
            /\ fate' = [fate EXCEPT ![incoming.id] = "lost"]
            /\ incoming' = Idle
            /\ UNCHANGED <<routes, inbox>>
      /\ UNCHANGED <<outgoing, registrar, killed, number, find, agent, known, got, heard, half, plane>>

\* The stream of frames ends, has something else than an envelope, or the server stops.
InputEnds ==
  /\ incoming = Idle
  /\ EndIncoming
  /\ UNCHANGED <<outgoing, registrar, killed, number, routes, fate, find, agentVars, heard, plane>>
-----------------------------------------------------------------------------
\* resolve_agent, for a node without an agent: an instance is started.
StartAgent(n) ==
  /\ agent' = [agent EXCEPT ![n] = [no |-> @.no + 1, stage |-> "up"]]
  /\ known' = [known EXCEPT ![n] = agent[n].no + 1]
  /\ inbox' = [inbox EXCEPT ![n] = <<>>]

\* The server finds the route: the instance that it knows of, or a new one.
FindRoute ==
  LET n == incoming.node
  IN  /\ find.stage = "sent"
      /\ plane = "running"
      /\ \/ n \in Unrouted /\ find' = Finding("notFound", 0) /\ UNCHANGED <<agent, known, inbox>>
         \/ /\ n \in Nodes
            /\ IF known[n] # 0 THEN UNCHANGED <<agent, known, inbox>> ELSE StartAgent(n)
            /\ find' = Finding("attach", known'[n])
      /\ UNCHANGED <<incoming, outgoing, registrar, killed, number, routes, fate, got, heard, half, plane>>

\* It starts one for another connection.
StartForOther(n) ==
  /\ plane = "running"
  /\ known[n] = 0
  /\ agent[n].no < MaxInstances
  /\ StartAgent(n)
  /\ UNCHANGED <<incoming, outgoing, registrar, killed, number, routes, fate, find, got, heard, half, plane>>

\* attach_agent: the connection is attached to the agent, or the promise is dropped, as
\* when the agent has stopped or does not answer in time.
AttachAgent ==
  /\ find.stage = "attach"
  /\ \/ Up(incoming.node, find.to) /\ find' = [find EXCEPT !.stage = "connected"]
     \/ find' = [find EXCEPT !.stage = "dropped"]
  /\ UNCHANGED <<incoming, outgoing, registrar, killed, number, routes, fate, agentVars, heard, half, plane>>

\* A plane that stops finds nothing.
FailRoute ==
  /\ find.stage = "sent"
  /\ plane # "running"
  /\ find' = [find EXCEPT !.stage = "notFound"]
  /\ UNCHANGED <<incoming, outgoing, registrar, killed, number, routes, fate, agentVars, heard, half, plane>>

\* The agent reads what was sent to it.
AgentReads(n) ==
  /\ agent[n].stage = "up"
  /\ inbox[n] # <<>>
  /\ got' = [got EXCEPT ![n] = Append(@, [id |-> Head(inbox[n]), by |-> agent[n].no])]
  /\ inbox' = [inbox EXCEPT ![n] = Tail(@)]
  /\ UNCHANGED <<incoming, outgoing, registrar, killed, number, routes, fate, find, agent, known, heard, half, plane>>

\* An agent stops, because nobody uses it or because the plane stops.
AgentStops(n) ==
  /\ agent[n].stage = "up"
  /\ agent[n].no < MaxInstances \/ plane # "running"
  /\ agent' = [agent EXCEPT ![n].stage = "closed"]
  /\ inbox' = [inbox EXCEPT ![n] = <<>>]
  /\ UNCHANGED <<incoming, outgoing, registrar, killed, number, routes, fate, find, known, got, heard, half, plane>>

\* AgentStopped: the server hears of it.
AgentStopped(n) ==
  /\ agent[n].stage = "closed"
  /\ agent' = [agent EXCEPT ![n].stage = "none"]
  /\ known' = [known EXCEPT ![n] = 0]
  /\ UNCHANGED <<incoming, outgoing, registrar, killed, number, routes, fate, find, inbox, got, heard, half, plane>>

\* The agents are told to stop; when all have, the connection is.
StopPlane ==
  /\ \/ plane = "running" /\ plane' = "stopping"
     \/ plane = "stopping" /\ plane' = "stopped" /\ \A n \in Nodes : agent[n].stage = "none"
  /\ UNCHANGED <<incoming, outgoing, registrar, killed, number, routes, fate, find, agentVars, heard, half>>
-----------------------------------------------------------------------------
\* The registration task takes a downlink and passes it to both halves.
AttachDownlink(d) ==
  /\ registrar = "up"
  /\ half[d].in = "none"
  /\ incoming # Ended /\ outgoing = "up"
  /\ half' = [half EXCEPT ![d] = [in |-> "queued", out |-> "queued", told |-> FALSE]]
  /\ UNCHANGED <<incoming, outgoing, registrar, killed, number, routes, fate, find, agentVars, heard, plane>>

RegisterIncoming(d) ==
  /\ incoming = Idle
  /\ half[d].in = "queued"
  /\ half' = [half EXCEPT ![d].in = "done"]
  /\ UNCHANGED <<incoming, outgoing, registrar, killed, number, routes, fate, find, agentVars, heard, plane>>

RegisterOutgoing(d) ==
  /\ outgoing = "up"
  /\ half[d].out = "queued"
  /\ half' = [half EXCEPT ![d].out = "done"]
  /\ UNCHANGED <<incoming, outgoing, registrar, killed, number, routes, fate, find, agentVars, heard, plane>>

\* Both halves have it.
BothDone(d) == half[d].in = "done" /\ half[d].out = "done"

\* The tracker of a downlink tells the one who asked.
Track(d) ==
  /\ registrar = "up"
  /\ BothDone(d)
  /\ ~half[d].told
  /\ half' = [half EXCEPT ![d].told = TRUE]
  /\ UNCHANGED <<incoming, outgoing, registrar, killed, number, routes, fate, find, agentVars, heard, plane>>
-----------------------------------------------------------------------------
\* The outgoing task ends: a write fails, the server stops, or nobody is left that
\* could give it anything to write.
OutputEnds ==
  /\ outgoing = "up"
  /\ outgoing' = "ended"
  /\ half' = [d \in Downlinks |-> IF half[d].out = "queued" THEN [half[d] EXCEPT !.out = "lost"] ELSE half[d]]
  /\ UNCHANGED <<incoming, registrar, killed, number, routes, fate, find, agentVars, heard, plane>>

\* Mutant of Kills: only the incoming task is waited for.
KillsIncoming == incoming = Ended

\* await_io_tasks: one of the two has ended.
Kills == incoming = Ended \/ outgoing = "ended"

Kill ==
  /\ ~killed
  /\ Kills
  /\ killed' = TRUE
  /\ UNCHANGED <<incoming, outgoing, registrar, number, routes, fate, find, agentVars, heard, half, plane>>

\* The registration task ends: it is killed, the server stops or has dropped its end.
RegistrarEnds ==
  /\ registrar = "up"
  /\ registrar' = "ended"
  /\ UNCHANGED <<incoming, outgoing, killed, number, routes, fate, find, agentVars, heard, half, plane>>
-----------------------------------------------------------------------------
\* The ends that are bound to come.
MustEnd ==
  \/ (registrar = "ended" \/ plane = "stopped") /\ InputEnds
  \/ (plane = "stopped" \/ (registrar = "ended" /\ incoming = Ended)) /\ OutputEnds
  \/ (killed \/ plane = "stopped") /\ RegistrarEnds

IncomingStep == Forward \/ Connect \/ Dispatch

RemoteNext ==
  \/ \E n \in Nodes \cup Unrouted : Envelope(n)
  \/ Forward \/ Connect \/ Dispatch \/ InputEnds
  \/ FindRoute \/ AttachAgent \/ FailRoute \/ StopPlane
  \/ \E n \in Nodes : StartForOther(n) \/ AgentReads(n) \/ AgentStops(n) \/ AgentStopped(n)
  \/ \E d \in Downlinks : AttachDownlink(d) \/ RegisterIncoming(d) \/ RegisterOutgoing(d) \/ Track(d)
  \/ OutputEnds \/ Kill \/ RegistrarEnds

RemoteSpec == RemoteInit /\ [][RemoteNext]_remoteVars

\* The steps that are bound to come.
RemoteStep ==
  \/ IncomingStep \/ FindRoute \/ AttachAgent \/ FailRoute \/ Kill \/ MustEnd
  \/ \E n \in Nodes : AgentReads(n) \/ AgentStopped(n) \/ (plane # "running" /\ AgentStops(n))
  \/ \E d \in Downlinks : RegisterIncoming(d) \/ RegisterOutgoing(d) \/ Track(d)
  \/ plane = "stopping" /\ StopPlane

RemoteFairSpec == RemoteSpec /\ WF_remoteVars(RemoteStep)
-----------------------------------------------------------------------------
\* The instances of a node receive the envelopes for it in the order they came in, each
\* at most once, though a route may break and be found again with one in hand; and an
\* instance that has received one is heard.
InOrderAndHeard ==
  \A n \in Nodes :
    \A k \in DOMAIN got[n] :
      /\ k > 1 => got[n][k-1].id < got[n][k].id /\ got[n][k-1].by <= got[n][k].by
      /\ <<n, got[n][k].by>> \in heard

\* Each envelope that comes in is sent to an agent, refused, or lost because the agent
\* that was found for it has stopped at once, unless the connection ends.
EnvelopesDealtWith ==
  \A e \in 1..MaxEnvelopes : (number >= e) ~> (fate[e] # "none" \/ incoming = Ended)

\* When a part of the task ends, all of it does.
AllEndTogether ==
  (incoming = Ended \/ outgoing = "ended" \/ registrar = "ended") ~>
    (incoming = Ended /\ outgoing = "ended" /\ registrar = "ended")
=============================================================================
