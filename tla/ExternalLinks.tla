---------------------------- MODULE ExternalLinks ---------------------------
(***************************************************************************)
(* The task that opens the links an agent asks for                         *)
(* (runtime/swimos_runtime/src/agent/task/external_links/mod.rs): the      *)
(* commands that the agent sends to lanes of other agents, over a channel  *)
(* for each endpoint that is opened when there is a command for it, and    *)
(* its requests for downlinks.                                             *)
(*                                                                         *)
(* An endpoint is a CommanderKey: a remote host, with any number of        *)
(* addresses, or a local lane.  A turn of the loop takes one event.  The   *)
(* select is biased, but what it puts last is only what is not ready yet:  *)
(* a future that completes does so in the turn that takes its result.      *)
(*                                                                         *)
(* A timer closes an output that nothing was sent to for as long as it     *)
(* runs.  One that was started before the last command finds that it was   *)
(* used: only the timers since then are kept.                              *)
(*                                                                         *)
(* A buffer that is sent has commands for several targets, each of which   *)
(* reads its own: sent, taken and received are kept target by target.      *)
(***************************************************************************)
EXTENDS Naturals, Sequences, SequencesExt

CONSTANTS
  Addresses,    \* the addresses commands are sent to
  EndpointOf,   \* [Addresses -> CommanderKey, or NoHost if the host cannot be parsed]
  NoHost,
  Downlinks,    \* the requests for downlinks
  MaxCommands,  \* the bound on the commands of the agent
  MaxRetries    \* how often the retry strategy has another attempt be made

ASSUME RetriesAssumption == MaxCommands \in Nat /\ MaxRetries \in Nat

VARIABLES
  reader,    \* the agent has a channel for its commands
  given,     \* how many commands it has sent
  outputs,   \* AdHocOutput of each endpoint
  timer,     \* a timer since the last command for the endpoint is pending
  received,  \* what the endpoint got from the output it has
  requests,  \* where each request for a downlink is, and its retry strategy
  running    \* the loop has not ended

linksVars == <<reader, given, outputs, timer, received, requests, running>>

Endpoints == {EndpointOf[a] : a \in Addresses} \ {NoHost}
AddressesOf(e) == {a \in Addresses : EndpointOf[a] = e}

EmptyBuffer == [log |-> <<>>, offset |-> 0]
Nothing(e) == [a \in AddressesOf(e) |-> <<>>]

\* AdHocOutput::new; `writer` is "none", "home" or "out", `sent` the buffer that
\* goes with it, and `taken` the commands that were appended.
NewOutput(e) ==
  [writer |-> "none", sent |-> Nothing(e),
   lane_buffers |-> [a \in AddressesOf(e) |-> EmptyBuffer], dirty |-> <<>>,
   retries |-> MaxRetries, taken |-> Nothing(e)]

NoOutput == [writer |-> "absent"]
Present(e) == outputs[e].writer # "absent"

LinksInit ==
  /\ reader = FALSE /\ given = 0 /\ running = TRUE
  /\ outputs = [e \in Endpoints |-> NoOutput]
  /\ timer = [e \in Endpoints |-> FALSE]
  /\ received = [e \in Endpoints |-> Nothing(e)]
  /\ requests = [d \in Downlinks |-> [at |-> "none", retries |-> MaxRetries]]
-----------------------------------------------------------------------------
\* Mutant of AppendCommand: every command may be overwritten.
AppendOver(o, c) ==
  LET kept == SubSeq(o.lane_buffers[c.to].log, 1, o.lane_buffers[c.to].offset)
  IN  [o EXCEPT !.lane_buffers[c.to] = [log |-> Append(kept, c), offset |-> Len(kept)],
                !.dirty = Append(@, c.to), !.taken[c.to] = Append(@, c)]

\* AdHocOutput::append: the command takes the place of one that may be overwritten.
AppendCommand(o, c) ==
  LET kept == SubSeq(o.lane_buffers[c.to].log, 1, o.lane_buffers[c.to].offset)
      offset == Len(kept) + IF c.overwrite THEN 0 ELSE 1
  IN  [o EXCEPT !.lane_buffers[c.to] = [log |-> Append(kept, c), offset |-> offset],
                !.dirty = Append(@, c.to), !.taken[c.to] = Append(@, c)]

\* AdHocSender::append_buffer, for each of the dirty targets.
AppendBuffer(o) ==
  [o EXCEPT !.sent = [a \in DOMAIN @ |-> IF Contains(o.dirty, a) THEN @[a] \o o.lane_buffers[a].log ELSE @[a]]]

\* AdHocSender::swap_buffer, for the one dirty target.
SwapBuffer(o) ==
  [o EXCEPT !.sent = [a \in DOMAIN @ |-> IF a = Head(o.dirty) THEN o.lane_buffers[a].log ELSE <<>>]]

\* AdHocOutput::write, with the writer home: the buffer of a single target is
\* swapped in, those of several are appended to what is in the send buffer.
Write(o) ==
  LET w == IF Len(o.dirty) = 1 THEN SwapBuffer(o) ELSE AppendBuffer(o)
  IN  [w EXCEPT !.writer = "out", !.dirty = <<>>,
                !.lane_buffers = [a \in DOMAIN @ |-> IF Contains(o.dirty, a) THEN EmptyBuffer ELSE @[a]]]

\* A write is begun if there is something to write and the writer is there;
\* otherwise a timer is started.
CanWrite(o) == o.writer = "home" /\ o.dirty # <<>>

TryWrite(e, o, t) ==
  /\ outputs' = [outputs EXCEPT ![e] = IF CanWrite(o) THEN Write(o) ELSE o]
  /\ timer' = [timer EXCEPT ![e] = IF CanWrite(o) THEN t ELSE TRUE]

CloseOutput(e) ==
  /\ outputs' = [outputs EXCEPT ![e] = NoOutput]
  /\ timer' = [timer EXCEPT ![e] = FALSE]
  /\ received' = [received EXCEPT ![e] = Nothing(e)]
-----------------------------------------------------------------------------
\* The agent asks for its channel.
AdHocRequest ==
  /\ running
  /\ reader' = TRUE
  /\ UNCHANGED <<given, outputs, timer, received, requests, running>>

\* The agent drops its channel.
DropChannel ==
  /\ running /\ reader
  /\ reader' = FALSE
  /\ UNCHANGED <<given, outputs, timer, received, requests, running>>

\* A command: the output of its endpoint has it, or one is opened for it.  A
\* command for a host that cannot be parsed is dropped.
Command(a, over) ==
  /\ running /\ reader
  /\ given < MaxCommands
  /\ given' = given + 1
  /\ LET e == EndpointOf[a]
         c == [id |-> given + 1, to |-> a, overwrite |-> over]
     IN  \/ e = NoHost /\ UNCHANGED <<outputs, timer, received>>
         \/ /\ e # NoHost /\ Present(e)
            /\ TryWrite(e, AppendCommand(outputs[e], c), FALSE)
            /\ UNCHANGED received
         \/ /\ e # NoHost /\ ~Present(e)
            /\ outputs' = [outputs EXCEPT ![e] = AppendCommand(NewOutput(e), c)]
            /\ UNCHANGED <<timer, received>>
  /\ UNCHANGED <<reader, requests, running>>

\* The server has opened the channel of an output.
NewChannel(e) ==
  /\ running /\ outputs[e].writer = "none"
  /\ TryWrite(e, [outputs[e] EXCEPT !.writer = "home"], timer[e])
  /\ UNCHANGED <<reader, given, received, requests, running>>

\* It could not: for now, so that it is asked again while the strategy allows it,
\* or for good; or the server dropped the request.
NewChannelFails(e, fatal) ==
  /\ running /\ outputs[e].writer = "none"
  /\ IF fatal \/ outputs[e].retries = 0
       THEN CloseOutput(e)
       ELSE outputs' = [outputs EXCEPT ![e].retries = @ - 1] /\ UNCHANGED <<timer, received>>
  /\ UNCHANGED <<reader, given, requests, running>>

\* Mutant of AfterWrite: no timer is started when there is nothing left to write.
AfterWriteNoTimer(e) ==
  LET o == [outputs[e] EXCEPT !.writer = "home"]
  IN  /\ outputs' = [outputs EXCEPT ![e] = IF CanWrite(o) THEN Write(o) ELSE o]
      /\ UNCHANGED timer

AfterWrite(e) == TryWrite(e, [outputs[e] EXCEPT !.writer = "home"], timer[e])

\* A write is done, and the writer is back with its buffer as it was.
WriteDone(e) ==
  /\ running /\ outputs[e].writer = "out"
  /\ received' = [received EXCEPT ![e] = [a \in DOMAIN @ |-> @[a] \o outputs[e].sent[a]]]
  /\ AfterWrite(e)
  /\ UNCHANGED <<reader, given, requests, running>>

\* The other end of the channel has gone: the output is dropped, with what
\* waits in it.
WriteFails(e) ==
  /\ running /\ outputs[e].writer = "out"
  /\ CloseOutput(e)
  /\ UNCHANGED <<reader, given, requests, running>>

\* A timer expires: it closes the output unless it is opening or writing.
Timeout(e) ==
  /\ running /\ timer[e]
  /\ IF outputs[e].writer = "home"
       THEN CloseOutput(e)
       ELSE timer' = [timer EXCEPT ![e] = FALSE] /\ UNCHANGED <<outputs, received>>
  /\ UNCHANGED <<reader, given, requests, running>>
-----------------------------------------------------------------------------
AnswerRequest(d) == requests' = [requests EXCEPT ![d].at = "answered"]

DownlinkRequest(d) ==
  /\ running /\ requests[d].at = "none"
  /\ requests' = [requests EXCEPT ![d].at = "opening"]
  /\ UNCHANGED <<reader, given, outputs, timer, received, running>>

\* The downlink is open, or the server dropped the request: the agent is told.
DownlinkResult(d) ==
  /\ running /\ requests[d].at = "opening"
  /\ AnswerRequest(d)
  /\ UNCHANGED <<reader, given, outputs, timer, received, running>>

DownlinkRetried(d) == requests' = [requests EXCEPT ![d].retries = @ - 1]

\* It could not be opened; the strategy that goes along is moved on.
DownlinkFails(d, fatal) ==
  /\ running /\ requests[d].at = "opening"
  /\ IF fatal \/ requests[d].retries = 0 THEN AnswerRequest(d) ELSE DownlinkRetried(d)
  /\ UNCHANGED <<reader, given, outputs, timer, received, running>>

\* The channel of requests has ended, or that of the server has and an attempt to
\* open something finds it: the loop ends, and every promise it holds is dropped.
\* Its outputs are handed on when it was that of the initialisation; an agent asks
\* for its channel only after that, so that there are none then.
LinksStop ==
  /\ running
  /\ running' = FALSE
  /\ outputs' = [e \in Endpoints |-> NoOutput]
  /\ timer' = [e \in Endpoints |-> FALSE]
  /\ received' = [e \in Endpoints |-> Nothing(e)]
  /\ requests' = [d \in Downlinks |->
                    IF requests[d].at = "opening" THEN [requests[d] EXCEPT !.at = "answered"]
                    ELSE requests[d]]
  /\ UNCHANGED <<reader, given>>

LinksNext ==
  \/ AdHocRequest \/ DropChannel \/ LinksStop
  \/ \E a \in Addresses, over \in BOOLEAN : Command(a, over)
  \/ \E e \in Endpoints :
       NewChannel(e) \/ (\E fatal \in BOOLEAN : NewChannelFails(e, fatal))
         \/ WriteDone(e) \/ WriteFails(e) \/ Timeout(e)
  \/ \E d \in Downlinks :
       DownlinkRequest(d) \/ DownlinkResult(d) \/ \E fatal \in BOOLEAN : DownlinkFails(d, fatal)

LinksSpec == LinksInit /\ [][LinksNext]_linksVars

\* The server answers what it is asked for, with success or failure; the other
\* end of a channel takes what is written; and time passes.
Completes(e) ==
  NewChannel(e) \/ (\E fatal \in BOOLEAN : NewChannelFails(e, fatal)) \/ WriteDone(e) \/ WriteFails(e)

Resolves(d) == DownlinkResult(d) \/ \E fatal \in BOOLEAN : DownlinkFails(d, fatal)

LinksFairSpec ==
  /\ LinksSpec
  /\ \A e \in Endpoints : WF_linksVars(Completes(e)) /\ WF_linksVars(Timeout(e))
  /\ \A d \in Downlinks : WF_linksVars(Resolves(d))
-----------------------------------------------------------------------------
LinksTypeOK ==
  /\ given \in 0..MaxCommands
  /\ \A e \in Endpoints :
       Present(e) =>
         /\ outputs[e].writer \in {"none", "home", "out"}
         /\ \A a \in AddressesOf(e) :
              outputs[e].lane_buffers[a].offset \in 0..Len(outputs[e].lane_buffers[a].log)

\* A command that an output took has arrived or is being written, or it waits in
\* a buffer that will be; but one that may be overwritten gives way to a later
\* one for the same target.  When an output has come to rest each target has the
\* last command that was sent to it, and has it last.
CommandsKept ==
  \A e \in Endpoints :
    LET o == outputs[e]
    IN  Present(e) =>
          \A a \in AddressesOf(e) :
            LET all == o.taken[a]
            IN  /\ \A i \in DOMAIN all :
                     \/ all[i].overwrite /\ i < Len(all)
                     \/ Contains(received[e][a], all[i])
                     \/ o.writer = "out" /\ Contains(o.sent[a], all[i])
                     \/ Contains(o.lane_buffers[a].log, all[i]) /\ Contains(o.dirty, a)
                /\ o.writer = "home" /\ all # <<>> =>
                     received[e][a] # <<>> /\ Last(received[e][a]) = Last(all)

\* The buffers are sound and keep every command that is to be sent.
LinksInv == LinksTypeOK /\ CommandsKept

\* An output that is no longer used is closed, and every request for a downlink
\* is answered, however often the server fails to open it.
LinksSettle ==
  /\ \A e \in Endpoints : Present(e) ~> ~Present(e)
  /\ \A d \in Downlinks : requests[d].at = "opening" ~> requests[d].at = "answered"

\* "write all pending commands to the output channel": a command that has been
\* written is not pending, and is not written again.
SentOnce == \A e \in Endpoints : \A a \in AddressesOf(e) : IsInjective(received[e][a])
=============================================================================
