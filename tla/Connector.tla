----------------------------- MODULE Connector ------------------------------
(***************************************************************************)
(* The downlink connection task of the server                              *)
(* (swimos_server_app/src/server/runtime/downlinks/mod.rs) together with   *)
(* what the loop of the server (runtime/mod.rs) does for it: agents ask    *)
(* for downlinks and for command channels, the task resolves the host,     *)
(* asks the server for a connection, attaches to it, starts a runtime for  *)
(* each lane and hands the requests to the runtimes.  Then they stop.      *)
(*                                                                         *)
(* PendingDownlinks is where the requests are: one that is at "host" is in *)
(* awaiting_remote, at "socket" in awaiting_dl and at "local" in local.    *)
(* The entry of a host is there exactly while flow has something for it.   *)
(* A future of the task and the event that it gives are one step, unless   *)
(* something may happen in between that makes a difference.                *)
(***************************************************************************)
EXTENDS Naturals

CONSTANTS
  MaxRequests,  \* the bound on the requests of agents
  Hosts,        \* the remote hosts
  Addrs,        \* the socket addresses
  Resolve,      \* the address of each host
  Lanes,        \* the keys of downlinks
  Local,        \* stands for this server in place of a host or an address
  None,         \* nothing
  MaxSockets,   \* the bound on the connections that are opened
  Runtimes,     \* the runtimes of downlinks there may be at a time
  StopOpening,  \* TRUE: the server may be stopped while it opens a connection
  AttachLate    \* TRUE: attaching to a local agent may time out

ASSUME ResolveAssumption == Resolve \in [Hosts -> Addrs]
ASSUME LocalAssumption == Local \notin Hosts \cup Addrs /\ None \notin Runtimes
ASSUME BoundsAssumption == MaxRequests \in Nat /\ MaxSockets \in Nat
ASSUME GateAssumption == StopOpening \in BOOLEAN /\ AttachLate \in BOOLEAN

VARIABLES
  at,        \* where each request is, what it waits for there and what it is for
  flow,      \* what is done about a host
  clients,   \* clients: the connection of an address, and the runtimes in its handle
  locals,    \* local_handle: the runtimes for local lanes
  run,       \* start_downlink_runtime, and the runtime it starts
  channels,  \* remote_channels of the server
  socket,    \* the connections
  task,      \* the connection task: "loop", "draining" or "stopped"
  server     \* TaskState

connVars == <<at, flow, clients, locals, run, channels, socket, task, server>>

Requests == 1..MaxRequests
Sockets == 1..MaxSockets

In(p) == [in |-> p, on |-> None]
On(p, x) == [in |-> p, on |-> x]

\* A request with an answer, one whose promise was dropped, and one there is not yet.
Answered == [in |-> "answered", on |-> None, for |-> None]
Dropped == [in |-> "dropped", on |-> None, for |-> None]
Unused == [in |-> "unused", on |-> None, for |-> None]
Settled == {Answered, Dropped}

\* A request goes to a place, to wait there for something.
Moved(r, p, x) == [at[r] EXCEPT !.in = p, !.on = x]

\* What a request may ask for.
Forms ==
  [type : {"downlink"}, host : Hosts \cup {Local}, lane : Lanes]
    \cup [type : {"commander"}, host : Hosts \cup {Local}, lane : {None}]

Free == [stage |-> "free", addr |-> Local, lane |-> None, tx |-> None]
NoDls == [l \in Lanes |-> None]
NoClient == [tx |-> None, dls |-> NoDls]

ConnInit ==
  /\ at = [r \in Requests |-> Unused]
  /\ flow = [h \in Hosts |-> In("none")]
  /\ clients = [a \in Addrs |-> NoClient]
  /\ locals = NoDls
  /\ run = [i \in Runtimes |-> Free]
  /\ channels = [a \in Addrs |-> None]
  /\ socket = [s \in Sockets |-> [stage |-> "free", addr |-> None]]
  /\ task = "loop"
  /\ server = "running"

\* The requests for a host or a lane that wait at a place.
ForHost(h) == {r \in Requests : at[r].in = "host" /\ at[r].for.host = h}
ForDl(a, l) ==
  {r \in Requests :
     /\ at[r].in = IF a = Local THEN "local" ELSE "socket"
     /\ at[r].for.lane = l
     /\ a # Local => Resolve[at[r].for.host] = a}

\* The runtimes in the handle of an address.
Handle(a) == IF a = Local THEN locals ELSE clients[a].dls

\* An identity that nothing refers to any more.
FreeIds ==
  {i \in Runtimes : run[i] = Free /\ \A r \in Requests : ~(at[r].in = "attach" /\ at[r].on = i)}

\* Runtimes are started for lanes of an address, each with an identity of its own.
Start(a, ls, s) ==
  LET Distinct(f) == \A l, k \in ls : f[l] = f[k] => l = k
      ids == {f \in [ls -> FreeIds] : Distinct(f)}
      id == CHOOSE f \in ids : TRUE
  IN  /\ ids # {}
      /\ run' = [i \in Runtimes |->
                   IF \E l \in ls : id[l] = i
                     THEN [stage |-> "asking", addr |-> a, lane |-> CHOOSE l \in ls : id[l] = i, tx |-> s]
                     ELSE run[i]]

\* Mutant of Answers: a server that stops does not listen to the task any more.
AnswersRunning == server = "running"

\* The server takes what the task asks for, though it may refuse it when it stops.
Answers == server \in {"running", "stoppingDownlinks"}
-----------------------------------------------------------------------------
\* A request for a link to a host: the first one has the host resolved.
RequestRemote(r, f) ==
  /\ f.host # Local
  /\ at' = [at EXCEPT ![r] = [in |-> "host", on |-> None, for |-> f]]
  /\ flow' = IF flow[f.host].in = "none" THEN [flow EXCEPT ![f.host] = In("resolve")] ELSE flow
  /\ UNCHANGED run

\* A request for a downlink to a local lane: it is handed to the runtime, or waits for
\* one that is started now.
RequestLocal(r, f) ==
  /\ f.host = Local /\ f.type = "downlink"
  /\ IF locals[f.lane] # None
       THEN at' = [at EXCEPT ![r] = [in |-> "attach", on |-> locals[f.lane], for |-> f]] /\ UNCHANGED run
       ELSE at' = [at EXCEPT ![r] = [in |-> "local", on |-> None, for |-> f]] /\ Start(Local, {f.lane}, None)
  /\ UNCHANGED flow

RequestCommander(r, f) ==
  /\ f.host = Local /\ f.type = "commander"
  /\ at' = [at EXCEPT ![r] = [in |-> "cmdLocal", on |-> None, for |-> f]]
  /\ UNCHANGED <<flow, run>>

Request(r, f) ==
  /\ task = "loop"
  /\ \A q \in Requests : at[q] = Unused <=> q >= r
  /\ RequestRemote(r, f) \/ RequestLocal(r, f) \/ RequestCommander(r, f)
  /\ UNCHANGED <<clients, locals, channels, socket, task, server>>
-----------------------------------------------------------------------------
\* The host has not been resolved, or no connection to it could be opened.
HostFails(h) ==
  /\ task = "loop"
  /\ flow[h].in \in {"resolve", "refused"}
  /\ at' = [r \in Requests |-> IF r \in ForHost(h) THEN Answered ELSE at[r]]
  /\ flow' = [flow EXCEPT ![h] = In("none")]
  /\ UNCHANGED <<clients, locals, run, channels, socket, task, server>>

\* The host has been resolved and there is a connection: the requests are handed to
\* the runtimes, or wait for those that are started now.
ResolvedOpen(h) ==
  LET a == Resolve[h]
      c == clients[a]
      new == {at[r].for.lane : r \in {q \in ForHost(h) : at[q].for.type = "downlink" /\ c.dls[at[q].for.lane] = None}}
  IN  /\ task = "loop"
      /\ flow[h].in = "resolve"
      /\ c.tx # None
      /\ flow' = [flow EXCEPT ![h] = In("none")]
      /\ at' = [r \in Requests |->
                  IF r \notin ForHost(h) THEN at[r]
                  ELSE IF at[r].for.type = "commander" THEN Moved(r, "cmd", c.tx)
                  ELSE IF at[r].for.lane \in new THEN Moved(r, "socket", None)
                  ELSE Moved(r, "attach", c.dls[at[r].for.lane])]
      /\ Start(a, new, c.tx)
      /\ UNCHANGED <<clients, locals, channels, socket, task, server>>

\* There is none: the server is asked for it (new_client).
ResolvedNew(h) ==
  /\ task = "loop"
  /\ flow[h].in = "resolve"
  /\ clients[Resolve[h]].tx = None
  /\ flow' = [flow EXCEPT ![h] = In("register")]
  /\ UNCHANGED <<at, clients, locals, run, channels, socket, task, server>>

\* The requests that socket_ready replaces in awaiting_dl by those of the host.
Replaced(h) ==
  {r \in Requests :
     /\ at[r].in = "socket"
     /\ Resolve[at[r].for.host] = Resolve[h]
     /\ \E q \in ForHost(h) : at[q].for.type = "downlink" /\ at[q].for.lane = at[r].for.lane}

\* The server has a connection: its handle is begun again, and a runtime is started
\* for every lane that is awaited at the address (socket_ready).
NewClient(h) ==
  LET a == Resolve[h]
      s == flow[h].on
      ls == {at[r].for.lane : r \in {q \in Requests :
               \/ q \in ForHost(h) /\ at[q].for.type = "downlink"
               \/ at[q].in = "socket" /\ Resolve[at[q].for.host] = a}}
  IN  /\ task = "loop"
      /\ flow[h].in = "ready"
      /\ flow' = [flow EXCEPT ![h] = In("none")]
      /\ clients' = [clients EXCEPT ![a] = [tx |-> s, dls |-> NoDls]]
      /\ at' = [r \in Requests |->
                  IF r \in Replaced(h) THEN Dropped
                  ELSE IF r \notin ForHost(h) THEN at[r]
                  ELSE IF at[r].for.type = "commander" THEN Moved(r, "cmd", s) ELSE Moved(r, "socket", None)]
      /\ Start(a, ls, s)
      /\ UNCHANGED <<locals, channels, socket, task, server>>
-----------------------------------------------------------------------------
\* The connection, or the server for a local lane, has taken the downlink.
StartAccepted(i) ==
  /\ run[i].stage = "asking"
  /\ IF run[i].addr = Local THEN Answers ELSE socket[run[i].tx].stage = "up"
  /\ run' = [run EXCEPT ![i].stage = "accepted"]
  /\ UNCHANGED <<at, flow, clients, locals, channels, socket, task, server>>

\* The connection has stopped, or the local agent does not exist or does not answer.
StartRefused(i) ==
  /\ run[i].stage = "asking"
  /\ run[i].addr # Local => socket[run[i].tx].stage # "up"
  /\ run' = [run EXCEPT ![i].stage = "refused"]
  /\ UNCHANGED <<at, flow, clients, locals, channels, socket, task, server>>

\* The requests for the lane of a runtime (dl_ready).
DlReady(i) == ForDl(run[i].addr, run[i].lane)

\* RuntimeAttachmentResult, Ok: the runtime is registered and runs.
RuntimeStarts(i) ==
  LET a == run[i].addr
      l == run[i].lane
  IN  /\ task = "loop"
      /\ run[i].stage = "accepted"
      /\ a # Local => clients[a].tx # None
      /\ at' = [r \in Requests |-> IF r \in DlReady(i) THEN Moved(r, "attach", i) ELSE at[r]]
      /\ run' = [run EXCEPT ![i].stage = "up"]
      /\ clients' = IF a = Local THEN clients ELSE [clients EXCEPT ![a].dls[l] = i]
      /\ locals' = IF a = Local THEN [locals EXCEPT ![l] = i] ELSE locals
      /\ UNCHANGED <<flow, channels, socket, task, server>>

\* RuntimeAttachmentResult, Err; or the handle of the address has gone.
RuntimeFails(i) ==
  /\ task = "loop"
  /\ \/ run[i].stage = "refused"
     \/ run[i].stage = "accepted" /\ run[i].addr # Local /\ clients[run[i].addr].tx = None
  /\ at' = [r \in Requests |-> IF r \in DlReady(i) THEN Answered ELSE at[r]]
  /\ run' = [run EXCEPT ![i] = Free]
  /\ UNCHANGED <<flow, clients, locals, channels, socket, task, server>>

\* Attached: the request has its channels, or an error if the runtime has stopped.
Attached(r) ==
  /\ task = "loop"
  /\ at[r].in = "attach"
  /\ at' = [at EXCEPT ![r] = Answered]
  /\ UNCHANGED <<flow, clients, locals, run, channels, socket, task, server>>

\* A runtime ends: it is not used, its connection has closed or it is told to stop.
RuntimeEnds(i) ==
  /\ run[i].stage = "up"
  /\ run' = [run EXCEPT ![i].stage = "ended"]
  /\ UNCHANGED <<at, flow, clients, locals, channels, socket, task, server>>

\* Mutant of Deregistered: the lane of the runtime stays in the handle.
DeregisteredNot(c, l) == c

\* ClientHandle::remove: a handle without downlinks is removed too.
Deregistered(c, l) ==
  LET d == [c EXCEPT !.dls[l] = None]
  IN  IF d.dls = NoDls THEN NoClient ELSE d

\* RuntimeTerminated
RuntimeTerminated(i) ==
  LET a == run[i].addr
      l == run[i].lane
  IN  /\ task = "loop"
      /\ run[i].stage = "ended"
      /\ run' = [run EXCEPT ![i] = Free]
      /\ clients' = IF a = Local THEN clients ELSE [clients EXCEPT ![a] = Deregistered(@, l)]
      /\ locals' = IF a = Local THEN [locals EXCEPT ![l] = None] ELSE locals
      /\ UNCHANGED <<at, flow, channels, socket, task, server>>
-----------------------------------------------------------------------------
\* CommanderAttached: a connection has taken a command channel.
CommanderAttached(r) ==
  /\ task = "loop"
  /\ at[r].in = "cmd"
  /\ socket[at[r].on].stage = "up"
  /\ at' = [at EXCEPT ![r] = Answered]
  /\ UNCHANGED <<flow, clients, locals, run, channels, socket, task, server>>

\* Mutant of AskAgain: the host is taken to be dealt with already.
AskAgainNot(h) == UNCHANGED flow

\* The server is asked for a connection, unless that is under way.
AskAgain(h) == flow' = IF flow[h].in = "none" THEN [flow EXCEPT ![h] = In("register")] ELSE flow

\* ClientStopped: it has stopped, and the request is tried again with a new one.
ClientStopped(r) ==
  /\ task = "loop"
  /\ at[r].in = "cmd"
  /\ socket[at[r].on].stage # "up"
  /\ clients' = [clients EXCEPT ![Resolve[at[r].for.host]] = NoClient]
  /\ at' = [at EXCEPT ![r] = Moved(r, "host", None)]
  /\ AskAgain(at[r].for.host)
  /\ UNCHANGED <<locals, run, channels, socket, task, server>>

\* The server has attached a command channel to a local agent, or there is none.
LocalAttached(r) ==
  /\ task = "loop"
  /\ at[r].in = "cmdLocal"
  /\ Answers
  /\ at' = [at EXCEPT ![r] = Answered]
  /\ UNCHANGED <<flow, clients, locals, run, channels, socket, task, server>>
-----------------------------------------------------------------------------
\* The loop ends, and with it what is pending.  The futures go on.
EndLoop(failed) ==
  /\ task' = "draining"
  /\ at' = [r \in Requests |->
              IF r \in failed THEN Answered
              ELSE IF at[r].in \in {"host", "socket", "local"} THEN Dropped ELSE at[r]]
  /\ clients' = [a \in Addrs |-> NoClient]
  /\ locals' = NoDls
  /\ UNCHANGED <<flow, run, channels, socket, server>>

\* The server has told the task to stop.
StopLoop == task = "loop" /\ server # "running" /\ EndLoop({})

\* LocalAttachFailed: the server has not answered, which is taken to mean that it stops.
LocalAttachFailed(r) ==
  /\ task = "loop"
  /\ at[r].in = "cmdLocal"
  /\ server # "running" \/ AttachLate
  /\ EndLoop({r})

\* The events of the futures that are left are not looked at.
Drain ==
  /\ task = "draining"
  /\ \/ /\ \E r \in Requests :
             /\ at[r].in \in {"attach", "cmd", "cmdLocal"}
             /\ at' = [at EXCEPT ![r] = Dropped]
        /\ UNCHANGED <<flow, run>>
     \/ /\ \E h \in Hosts :
             /\ flow[h].in \in {"resolve", "ready", "refused"}
             /\ flow' = [flow EXCEPT ![h] = In("none")]
        /\ UNCHANGED <<at, run>>
     \/ /\ \E i \in Runtimes :
             /\ run[i].stage \in {"accepted", "refused", "ended"}
             /\ run' = [run EXCEPT ![i] = Free]
        /\ UNCHANGED <<at, flow>>
  /\ UNCHANGED <<clients, locals, channels, socket, task, server>>

\* No future is left.
Stopped ==
  /\ task = "draining"
  /\ \A r \in Requests : at[r].in \notin {"attach", "cmd", "cmdLocal"}
  /\ \A h \in Hosts : flow[h].in = "none"
  /\ \A i \in Runtimes : run[i] = Free
  /\ task' = "stopped"
  /\ UNCHANGED <<at, flow, clients, locals, run, channels, socket, server>>
-----------------------------------------------------------------------------
\* The server takes the request for a connection: one that it has is used, else one
\* is opened.  A server that stops drops the request.
RegisterClient(h) ==
  /\ flow[h].in = "register"
  /\ Answers
  /\ flow' = [flow EXCEPT ![h] =
       IF server # "running" THEN In("refused")
       ELSE IF channels[Resolve[h]] # None THEN On("ready", channels[Resolve[h]]) ELSE In("opening")]
  /\ UNCHANGED <<at, clients, locals, run, channels, socket, task, server>>

\* client_tasks: the connection is opened or not; only a server that runs looks.
OpenClient(h) ==
  /\ flow[h].in = "opening"
  /\ server = "running"
  /\ \/ /\ flow' = [flow EXCEPT ![h] = In("refused")]
        /\ UNCHANGED <<socket, channels>>
     \/ \E s \in Sockets :
          /\ \A x \in Sockets : socket[x].stage = "free" <=> x >= s
          /\ socket' = [socket EXCEPT ![s] = [stage |-> "up", addr |-> Resolve[h]]]
          /\ channels' = [channels EXCEPT ![Resolve[h]] = s]
          /\ flow' = [flow EXCEPT ![h] = On("ready", s)]
  /\ UNCHANGED <<at, clients, locals, run, task, server>>

\* A connection ends: the peer has closed it, or the server tells it to.
SocketEnds(s) ==
  /\ socket[s].stage = "up"
  /\ socket' = [socket EXCEPT ![s].stage = "ended"]
  /\ UNCHANGED <<at, flow, clients, locals, run, channels, task, server>>

\* RemoteStopped: whatever connection there is now for the address is removed.
RemoteStopped(s) ==
  /\ socket[s].stage = "ended"
  /\ server # "stopped"
  /\ socket' = [socket EXCEPT ![s].stage = "gone"]
  /\ channels' = [channels EXCEPT ![socket[s].addr] = None]
  /\ UNCHANGED <<at, flow, clients, locals, run, task, server>>

\* The server is told to stop and stops the downlinks first.
StopServer ==
  /\ server = "running"
  /\ StopOpening \/ \A h \in Hosts : flow[h].in # "opening"
  /\ server' = "stoppingDownlinks"
  /\ UNCHANGED <<at, flow, clients, locals, run, channels, socket, task>>

\* Mutant of AwaitsDownlinks: the connection task has stopped its loop, and that is taken for all.
AwaitsDownlinksNot == task # "loop"

\* next_message returns nothing when the connection task has stopped.
AwaitsDownlinks == task = "stopped"

\* It goes on with the agents when the connection task has stopped, even if the server
\* was not told to stop; then with the connections; and is done when there are none.
StopAgents ==
  /\ server \in {"running", "stoppingDownlinks"}
  /\ AwaitsDownlinks
  /\ server' = "stoppingAgents"
  /\ UNCHANGED <<at, flow, clients, locals, run, channels, socket, task>>

StopRemotes ==
  /\ server = "stoppingAgents"
  /\ server' = "stoppingRemotes"
  /\ UNCHANGED <<at, flow, clients, locals, run, channels, socket, task>>

StoppedServer ==
  /\ server = "stoppingRemotes"
  /\ \A s \in Sockets : socket[s].stage \in {"free", "gone"}
  /\ server' = "stopped"
  /\ UNCHANGED <<at, flow, clients, locals, run, channels, socket, task>>
-----------------------------------------------------------------------------
ConnNext ==
  \/ \E r \in Requests :
       \/ \E f \in Forms : Request(r, f)
       \/ Attached(r) \/ CommanderAttached(r) \/ ClientStopped(r) \/ LocalAttached(r) \/ LocalAttachFailed(r)
  \/ \E h \in Hosts :
       HostFails(h) \/ ResolvedOpen(h) \/ ResolvedNew(h) \/ NewClient(h) \/ RegisterClient(h) \/ OpenClient(h)
  \/ \E i \in Runtimes :
       StartAccepted(i) \/ StartRefused(i) \/ RuntimeStarts(i) \/ RuntimeFails(i) \/ RuntimeEnds(i) \/ RuntimeTerminated(i)
  \/ \E s \in Sockets : SocketEnds(s) \/ RemoteStopped(s)
  \/ StopLoop \/ Drain \/ Stopped \/ StopServer \/ StopAgents \/ StopRemotes \/ StoppedServer

ConnSpec == ConnInit /\ [][ConnNext]_connVars

\* The steps that are bound to come: those of the task and of the server, the futures,
\* runtimes that were told to stop and connections that were.
ConnStep ==
  \/ \E r \in Requests : Attached(r) \/ CommanderAttached(r) \/ ClientStopped(r) \/ LocalAttached(r) \/ LocalAttachFailed(r)
  \/ \E h \in Hosts :
       HostFails(h) \/ ResolvedOpen(h) \/ ResolvedNew(h) \/ NewClient(h) \/ RegisterClient(h) \/ OpenClient(h)
  \/ \E i \in Runtimes :
       \/ StartAccepted(i) \/ StartRefused(i) \/ RuntimeStarts(i) \/ RuntimeFails(i) \/ RuntimeTerminated(i)
       \/ server # "running" /\ RuntimeEnds(i)
  \/ \E s \in Sockets : RemoteStopped(s) \/ (server = "stoppingRemotes" /\ SocketEnds(s))
  \/ StopLoop \/ Drain \/ Stopped \/ StopAgents \/ StopRemotes \/ StoppedServer

\* The loop of the server looks for connections that have stopped first.
ConnFairSpec == ConnSpec /\ WF_connVars(ConnStep) /\ \A s \in Sockets : WF_connVars(RemoteStopped(s))
-----------------------------------------------------------------------------
\* What is in the handle of an address or of the server is a runtime of that lane
\* that runs, or whose end has not been noticed.
HandlesCurrent ==
  \A a \in Addrs \cup {Local}, l \in Lanes :
    LET i == Handle(a)[l]
    IN  i # None => run[i].stage \in {"up", "ended"} /\ run[i].addr = a /\ run[i].lane = l

\* Each request gets its answer.
RequestsAnswered == \A r \in Requests : at[r] # Unused ~> at[r] \in Settled

\* The agents are stopped when no downlink runs any more and nobody waits for one.
StopsInOrder ==
  server \in {"stoppingAgents", "stoppingRemotes", "stopped"} =>
    /\ \A i \in Runtimes : run[i] = Free
    /\ \A r \in Requests : at[r] \in Settled \cup {Unused}

\* The connector knows of the runtimes there are, and outlives them when it stops.
ConnectorInv == HandlesCurrent /\ StopsInOrder

\* A server that is told to stop does.
ServerStops == server # "running" ~> server = "stopped"
=============================================================================
