---------------------------- MODULE AgentRuntime ----------------------------
(***************************************************************************)
(* The tasks of one agent runtime and the queues between them              *)
(* (agent/task/mod.rs): the attachment task gives new remotes and items to *)
(* the read and the write task, the read task turns the envelopes of       *)
(* remotes into requests to the write task or into writes to lanes, the    *)
(* write task hands new lanes back to the read task, and the HTTP task     *)
(* serves requests.  The three vote on whether the agent stops (VoteSpec). *)
(*                                                                         *)
(* `await` on a full queue is a control state of the task that waits.  A   *)
(* task reads its queues only where it selects on them, so that one that   *)
(* waits to send does not see the stop signal.  What the write task does   *)
(* with a request is WriteTask; here only its effect on the vote is kept.  *)
(***************************************************************************)
EXTENDS Naturals, Sequences, FiniteSets, SequencesExt

CONSTANTS
  TwoWays,       \* remotes that attach in both directions
  OneWays,       \* command channels
  InitialLanes,  \* the lanes that exist when the runtime starts
  NewLanes,      \* the lanes that the agent adds later
  NewStores,     \* the stores that the agent adds later
  NoLane,        \* the name of a lane that does not exist
  Setups         \* the instances: attachment_queue_size, the requests that are
                 \* made, the envelopes that arrive and, as bounds, how many
                 \* inputs there are of every other kind

Conns == TwoWays \cup OneWays
Lanes == InitialLanes \cup NewLanes

ASSUME NamesAssumption ==
  /\ TwoWays \cap OneWays = {}
  /\ InitialLanes \cap NewLanes = {}
  /\ NoLane \notin Lanes

Ops == {"Link", "Unlink", "Sync", "Command"}
Envelopes == [from : Conns, op : Ops, lane : Lanes \cup {NoLane}]
Inputs == [envelopes : Seq(Envelopes), events : Nat, drops : Nat, http : Nat, httpLanes : Nat]

ASSUME SetupsAssumption ==
  \A s \in Setups :
    /\ s.size \in Nat \ {0}
    /\ s.requests \subseteq Conns \cup NewLanes \cup NewStores
    /\ s.left \in Inputs

VARIABLES
  size,       \* attachment_queue_size
  stopping,   \* the stop signal of the agent has been given
  requests,   \* what may still be asked of the attachment task
  att,        \* where the attachment task is
  readQ,      \* the queue of the read task
  permit,     \* the attachment task has reserved a place in it
  writeQ,     \* the queue of the write task
  httpQ,      \* the queue of the HTTP task: how many registrations
  read,       \* where the read task is
  readConns,  \* `remotes` of the read task
  names,      \* `name_mapping` of the read task
  senders,    \* `lanes` of the read task
  flush,      \* needs_flush
  write,      \* where the write task is
  remotes,    \* the remotes of the write task: "new", "attached" or "removed"
  streams,    \* lanes_and_stores
  reason,     \* remote_reason
  http,       \* where the HTTP task is
  voted,      \* the `voted` local of each task
  cast,       \* the tasks whose Voter has voted: its own `voted`, which no rescind clears
  votes,      \* the votes that stand
  voteDone,   \* vote_waiter has completed
  dropped,    \* the lanes that the agent has dropped
  left        \* how many inputs of each kind may still come

queues == <<readQ, permit, writeQ, httpQ>>
readVars == <<read, readConns, names, senders, flush>>
writeVars == <<write, remotes, streams, reason>>
voteVars == <<voted, cast, votes, voteDone>>
inputs == <<stopping, requests, dropped, left>>
vars == <<size, inputs, att, queues, readVars, writeVars, http, voteVars>>

Tasks == {"read", "write", "http"}

StopVote == INSTANCE VoteSpec WITH Voters <- Tasks, done <- voteDone

At(where, what) == [at |-> where, with |-> what]
Idle == At("select", NoLane)
Done == At("done", NoLane)

Init ==
  /\ \E s \in Setups : size = s.size /\ requests = s.requests /\ left = s.left
  /\ stopping = FALSE
  /\ att = Idle
  /\ readQ = <<>> /\ permit = FALSE /\ writeQ = <<>> /\ httpQ = 0
  /\ read = Idle /\ readConns = {} /\ flush = NoLane
  /\ names = InitialLanes /\ senders = InitialLanes
  /\ write = Idle /\ remotes = [c \in TwoWays |-> "new"]
  /\ streams = InitialLanes
  /\ reason = "AgentStoppedExternally"
  /\ http = "select"
  /\ voted = [t \in Tasks |-> FALSE] /\ cast = {}
  /\ StopVote!Init
  /\ dropped = {}

ReadGone == read = Done
WriteGone == write = Done
HttpGone == http = "done"
AttGone == att = Done

ReadRoom == Len(readQ) + (IF permit THEN 1 ELSE 0) < size
WriteRoom == Len(writeQ) < size

Msg(type, of) == [type |-> type, of |-> of, lane |-> NoLane]
Coord(type, c, l) == [type |-> type, of |-> c, lane |-> l]
StopMsg == Msg("Stop", NoLane)

\* Voter::vote and Voter::rescind.
CastVote(t) ==
  StopVote!Vote(t) /\ voted' = [voted EXCEPT ![t] = TRUE] /\ cast' = cast \cup {t}
Withdraw(t) ==
  StopVote!Rescind(t) /\ voted' = [voted EXCEPT ![t] = FALSE] /\ UNCHANGED cast

\* Voter::drop: the vote of a task that never voted is cast.
Leave(t) ==
  /\ IF t \in cast THEN UNCHANGED <<votes, voteDone>> ELSE StopVote!Vote(t)
  /\ cast' = cast \cup {t}
  /\ UNCHANGED voted

VoteCompletes ==
  /\ StopVote!Complete
  /\ ~voteDone
  /\ UNCHANGED <<size, inputs, att, queues, readVars, writeVars, http, voted, cast>>

Unanimous == votes = Tasks
-----------------------------------------------------------------------------
\* await_io_tasks: the first of the read and write tasks that ends triggers it.
KillSwitch == ReadGone \/ WriteGone

\* combined_stop
CombinedStop == stopping \/ KillSwitch \/ voteDone

AttTo(where, what) ==
  /\ att' = At(where, what)
  /\ UNCHANGED <<size, readVars, writeVars, http, voteVars>>

Cleanup == At("stop", {"read", "write"})

\* attachment_task: the stop signal comes first in its select.
AttStop ==
  /\ att = Idle
  /\ CombinedStop
  /\ att' = Cleanup
  /\ UNCHANGED <<size, inputs, queues, readVars, writeVars, http, voteVars>>

\* The agent or the server drops its sender.
AttClosed ==
  /\ att = Idle
  /\ ~CombinedStop
  /\ att' = Cleanup
  /\ UNCHANGED <<size, inputs, queues, readVars, writeVars, http, voteVars>>

AttRequest(x) ==
  /\ att = Idle
  /\ ~CombinedStop
  /\ x \in requests
  /\ requests' = requests \ {x}
  /\ att' = At(IF x \in Conns THEN "reserve_read" ELSE "send_write", x)
  /\ UNCHANGED <<size, stopping, dropped, left, queues, readVars, writeVars, http, voteVars>>

\* AgentRuntimeRequest::AddHttpLane
AttHttpLane ==
  /\ att = Idle
  /\ ~CombinedStop
  /\ left.httpLanes > 0
  /\ left' = [left EXCEPT !.httpLanes = @ - 1]
  /\ att' = At("send_http", NoLane)
  /\ UNCHANGED <<size, stopping, requests, dropped, queues, readVars, writeVars, http, voteVars>>

\* A receiver has gone: the loop ends.
AttAbandon ==
  /\ permit' = FALSE
  /\ AttTo("stop", {"read", "write"})
  /\ UNCHANGED <<inputs, readQ, writeQ, httpQ>>

\* AddLane, AddStore: write_tx.send, which fails when the write task has gone.
AttSendWrite ==
  /\ att.at = "send_write"
  /\ \/ WriteGone /\ AttAbandon
     \/ /\ ~WriteGone /\ WriteRoom
        /\ writeQ' = Append(writeQ, Msg("Item", att.with))
        /\ AttTo("select", NoLane)
        /\ UNCHANGED <<inputs, readQ, permit, httpQ>>

AttSendHttp ==
  /\ att.at = "send_http"
  /\ \/ HttpGone /\ AttAbandon
     \/ /\ ~HttpGone /\ httpQ < size
        /\ httpQ' = httpQ + 1
        /\ AttTo("select", NoLane)
        /\ UNCHANGED <<inputs, readQ, permit, writeQ>>

\* Mutant of AttReserveRead: the read task is told of the remote before there is
\* room for the message to the write task.
AttReserveReadAndSend ==
  /\ att.at = "reserve_read"
  /\ ~ReadGone /\ ReadRoom
  /\ readQ' = Append(readQ, Msg("Remote", att.with))
  /\ IF att.with \in OneWays THEN AttTo("select", NoLane) ELSE AttTo("reserve_write", att.with)
  /\ UNCHANGED <<inputs, permit, writeQ, httpQ>>

\* handle_att_request: a place in the queue of the read task is reserved, for a
\* command channel it is used at once ...
AttReserveRead ==
  /\ att.at = "reserve_read"
  /\ \/ ReadGone /\ AttAbandon
     \/ /\ ~ReadGone /\ ReadRoom
        /\ \/ /\ att.with \in OneWays
              /\ readQ' = Append(readQ, Msg("Remote", att.with))
              /\ AttTo("select", NoLane)
              /\ UNCHANGED permit
           \/ /\ att.with \in TwoWays
              /\ permit' = TRUE
              /\ AttTo("reserve_write", att.with)
              /\ UNCHANGED readQ
        /\ UNCHANGED <<inputs, writeQ, httpQ>>

\* ... and for a remote once there is a place in the queue of the write task too.
AttReserveWrite ==
  /\ att.at = "reserve_write"
  /\ \/ WriteGone /\ AttAbandon
     \/ /\ ~WriteGone /\ WriteRoom
        /\ permit' = FALSE
        /\ readQ' = IF permit /\ ~ReadGone THEN Append(readQ, Msg("Remote", att.with)) ELSE readQ
        /\ writeQ' = Append(writeQ, Msg("Remote", att.with))
        /\ AttTo("select", NoLane)
        /\ UNCHANGED <<inputs, httpQ>>

\* The two Stop messages at the end are sent concurrently.
AttSendStop(t) ==
  /\ att.at = "stop"
  /\ t \in att.with
  /\ att' = IF att.with = {t} THEN Done ELSE At("stop", att.with \ {t})
  /\ \/ t = "read" /\ ~ReadGone /\ ReadRoom
        /\ readQ' = Append(readQ, StopMsg) /\ UNCHANGED writeQ
     \/ t = "write" /\ ~WriteGone /\ WriteRoom
        /\ writeQ' = Append(writeQ, StopMsg) /\ UNCHANGED readQ
     \/ (IF t = "read" THEN ReadGone ELSE WriteGone) /\ UNCHANGED <<readQ, writeQ>>
  /\ UNCHANGED <<size, inputs, permit, httpQ, readVars, writeVars, http, voteVars>>
-----------------------------------------------------------------------------
\* The read task ends: its queue and its Voter are dropped.
ReadStops ==
  /\ read' = Done
  /\ readQ' = <<>> /\ readConns' = {} /\ names' = {} /\ senders' = {} /\ flush' = NoLane
  /\ UNCHANGED <<size, att, permit, writeQ, httpQ, writeVars, http>>
ReadEnds == ReadStops /\ Leave("read")

\* reg_stream has ended: by the stop signal, or when all the senders have gone.
ReadClosed ==
  /\ read = Idle
  /\ stopping \/ (AttGone /\ WriteGone /\ readQ = <<>>)
  /\ ReadEnds
  /\ UNCHANGED inputs

\* The queue comes first in the select of the read task.
ReadMessage ==
  LET m == Head(readQ)
  IN  /\ read = Idle
      /\ ~stopping
      /\ readQ # <<>>
      /\ UNCHANGED inputs
      /\ \/ m.type = "Stop" /\ ReadEnds
         \/ /\ m.type # "Stop"
            /\ readQ' = Tail(readQ)
            /\ readConns' = IF m.type = "Remote" THEN readConns \cup {m.of} ELSE readConns
            /\ names' = IF m.type = "Lane" THEN names \cup {m.of} ELSE names
            /\ senders' = IF m.type = "Lane" THEN senders \cup {m.of} ELSE senders
            /\ UNCHANGED <<size, att, permit, writeQ, httpQ, read, flush, writeVars, http, voteVars>>

\* flush_lane: a lane that can not be flushed loses its sender, but not its name.
Flushed ==
  /\ flush' = NoLane
  /\ senders' = IF flush \in dropped THEN senders \ {flush} ELSE senders

\* The flush goes on while the task waits for an event.
ReadFlush ==
  /\ read = Idle
  /\ flush # NoLane
  /\ Flushed
  /\ UNCHANGED <<size, inputs, att, queues, read, readConns, names, writeVars, http, voteVars>>

\* Where the read task goes with an envelope: commands and syncs are written to
\* the lane, the other operations and unknown lanes are for the write task.
ReadRoute(c, op, l) ==
  CASE l \notin names /\ op = "Command" -> Idle
    [] l \notin names /\ op # "Command" -> At("send", Coord("UnknownLane", c, l))
    [] l \in names /\ l \notin senders -> Idle
    [] l \in senders /\ op \in {"Link", "Unlink"} -> At("send", Coord(op, c, l))
    [] OTHER -> At(IF op = "Sync" THEN "sync" ELSE "feed", [of |-> c, lane |-> l])

\* Mutant of ReadRescinds: the vote is left standing.
ReadRescindsNot == UNCHANGED voteVars

\* A vote that stands is withdrawn before the envelope is looked at.
ReadRescinds ==
  IF voted["read"]
    THEN Withdraw("read")
    ELSE UNCHANGED voteVars

\* ReadTaskEvent::Envelope from one of the attached remotes; the lane that was
\* written to last is flushed before another is looked at.
ReadEnvelope ==
 LET e == Head(left.envelopes) IN
  /\ read = Idle
  /\ ~stopping
  /\ readQ = <<>>
  /\ left.envelopes # <<>>
  /\ e.from \in readConns
  /\ left' = [left EXCEPT !.envelopes = Tail(@)]
  /\ UNCHANGED <<stopping, requests, dropped>>
  /\ \/ voted["read"] /\ Unanimous /\ ReadEnds
     \/ /\ ReadRescinds
        /\ read' = ReadRoute(e.from, e.op, e.lane)
        /\ IF flush # NoLane /\ e.lane # flush
             THEN Flushed
             ELSE UNCHANGED <<flush, senders>>
        /\ UNCHANGED <<size, att, queues, readConns, names, writeVars, http>>

\* Mutant of ReadSend: that the write task has gone is not noticed.
ReadSendOnly ==
  /\ read.at = "send"
  /\ ~WriteGone /\ WriteRoom
  /\ writeQ' = Append(writeQ, read.with)
  /\ read' = Idle
  /\ UNCHANGED <<size, inputs, att, readQ, permit, httpQ, readConns, names, senders, flush,
                writeVars, http, voteVars>>

\* write_tx.send(Coord); while it waits the task reads nothing else.
ReadSend ==
  /\ read.at = "send"
  /\ UNCHANGED inputs
  /\ \/ WriteGone /\ ReadEnds
     \/ /\ ~WriteGone /\ WriteRoom
        /\ writeQ' = Append(writeQ, read.with)
        /\ read' = Idle
        /\ UNCHANGED <<size, att, readQ, permit, httpQ, readConns, names, senders, flush,
                      writeVars, http, voteVars>>

\* start_sync and feed_frame: the agent takes what is written; a lane that has
\* been dropped is noticed by start_sync, by feed_frame only if it has to write,
\* and a command that can not be read is reported to the write task.
ReadLane ==
  LET l == read.with.lane
      remove ==
        /\ names' = names \ {l}
        /\ senders' = senders \ {l}
        /\ read' = Idle
        /\ UNCHANGED flush
      keep == UNCHANGED <<names, senders>>
  IN  /\ \/ read.at \in {"sync", "feed"} /\ l \in dropped /\ remove
         \/ read.at = "sync" /\ l \notin dropped /\ read' = Idle /\ keep /\ UNCHANGED flush
         \/ read.at = "feed" /\ read' = Idle /\ flush' = l /\ keep
         \/ /\ read.at = "feed"
            /\ read' = At("send", Coord("BadEnvelope", read.with.of, l))
            /\ keep /\ UNCHANGED flush
      /\ UNCHANGED <<size, inputs, att, queues, readConns, writeVars, http, voteVars>>

\* Nothing came within inactive_timeout.  The task votes every time, but a vote that
\* stands already is answered with UnanimityPending and changes nothing.
ReadTimeout ==
  /\ read = Idle
  /\ ~stopping
  /\ readQ = <<>> /\ flush = NoLane
  /\ ~voted["read"]
  /\ UNCHANGED inputs
  /\ CastVote("read")
  /\ IF votes' = Tasks
       THEN ReadStops
       ELSE UNCHANGED <<size, att, queues, readVars, writeVars, http>>
-----------------------------------------------------------------------------
\* The loop of the write task ends: unlink_all, and then only the writes are
\* served, within shutdown_timeout (WriteTask).  Its queue stays, unread.
WriteEnds(why) ==
  /\ write' = At("cleanup", NoLane)
  /\ reason' = why
  /\ streams' = {}
  /\ UNCHANGED <<size, att, readVars, readQ, permit, httpQ, remotes, http, voteVars>>

\* persist_response or an item fails: the task returns, with no clean up.
WriteFails ==
  /\ write' = Done
  /\ writeQ' = <<>>
  /\ Leave("write")
  /\ UNCHANGED <<size, att, readVars, readQ, permit, httpQ, remotes, streams, reason, http>>

WriteClosed ==
  /\ write = Idle
  /\ stopping \/ (AttGone /\ ReadGone /\ writeQ = <<>>)
  /\ WriteEnds(reason)
  /\ UNCHANGED <<inputs, writeQ>>

\* Mutant of WriteRescinds: the timer is not enabled again.
WriteRescindsForGood(also) ==
  /\ also
  /\ UNCHANGED <<voted, cast>>
  /\ IF voted["write"] THEN StopVote!Rescind("write") ELSE UNCHANGED <<votes, voteDone>>

\* The write task does something for the agent: a vote that stands is withdrawn,
\* unless it is too late.
WriteRescinds(also) ==
  \/ /\ ~voted["write"]
     /\ also
     /\ UNCHANGED voteVars
  \/ /\ voted["write"]
     /\ Withdraw("write")
     /\ also

TooLate == voted["write"] /\ Unanimous

\* The requests that may lead to a write: the remote is there, and unless a
\* write to it is in progress one is scheduled.
Answers(m) == m.type \in {"Link", "Unlink", "UnknownLane"} /\ m.of \in TwoWays /\ remotes[m.of] = "attached"

\* handle_task_message, the requests of the read task.
WriteCoord ==
  LET m == Head(writeQ)
      rest == writeQ' = Tail(writeQ) /\ UNCHANGED inputs
      same == UNCHANGED <<size, att, readVars, readQ, permit, httpQ, writeVars, http>>
  IN  /\ write = Idle
      /\ ~stopping
      /\ writeQ # <<>>
      /\ m.type \in {"Link", "Unlink", "UnknownLane", "BadEnvelope"}
      /\ rest
      /\ \/ Answers(m) /\ TooLate /\ WriteEnds("AgentTimedOut")
         \/ Answers(m) /\ WriteRescinds(same)
         \/ same /\ UNCHANGED voteVars

\* handle_task_message, the messages of the attachment task.
WriteMessage ==
  LET m == Head(writeQ)
      same == UNCHANGED <<size, att, readVars, readQ, permit, httpQ, reason, http, voteVars>>
  IN  /\ write = Idle
      /\ ~stopping
      /\ writeQ # <<>>
      /\ writeQ' = Tail(writeQ)
      /\ UNCHANGED inputs
      /\ \/ m.type = "Stop" /\ WriteEnds(reason)
         \/ /\ m.type = "Remote"
            /\ remotes' = [remotes EXCEPT ![m.of] = "attached"]
            /\ UNCHANGED <<write, streams>> /\ same
         \/ /\ m.type = "Item"
            /\ write' = At("init", m.of)
            /\ UNCHANGED <<remotes, streams>> /\ same

\* The initialisation of an item ends: it is added, it was given up by the
\* agent, or its store failed and the task returns.
WriteInit ==
  LET x == write.with
      same == UNCHANGED <<size, att, readVars, readQ, permit, writeQ, httpQ, remotes, reason, http, voteVars>>
  IN  /\ write.at = "init"
      /\ UNCHANGED inputs
      /\ \/ /\ write' = IF x \in NewLanes THEN At("hand_over", x) ELSE Idle
            /\ streams' = streams \cup {x}
            /\ same
         \/ write' = Idle /\ UNCHANGED streams /\ same
         \/ WriteFails

\* read_task_tx.send(Lane); while it waits the task reads nothing else.
WriteHandOver ==
  /\ write.at = "hand_over"
  /\ UNCHANGED inputs
  /\ \/ ReadGone /\ WriteEnds(reason) /\ UNCHANGED writeQ
     \/ /\ ~ReadGone /\ ReadRoom
        /\ readQ' = Append(readQ, Msg("Lane", write.with))
        /\ write' = Idle
        /\ UNCHANGED <<size, att, readVars, permit, writeQ, httpQ, remotes, streams, reason, http, voteVars>>

\* WriteTaskEvent::Event; only an event of a lane is activity.  The queue comes
\* first in select_next.
WriteEvent(x) ==
  LET same == UNCHANGED <<size, att, readVars, readQ, permit, writeQ, httpQ, writeVars, http>>
  IN  /\ write = Idle
      /\ ~stopping
      /\ writeQ = <<>>
      /\ x \in streams
      /\ left.events > 0
      /\ left' = [left EXCEPT !.events = @ - 1]
      /\ UNCHANGED <<stopping, requests, dropped>>
      /\ \/ x \in Lanes /\ TooLate /\ WriteEnds("AgentTimedOut") /\ UNCHANGED writeQ
         \/ x \in Lanes /\ WriteRescinds(same)
         \/ x \in NewStores /\ same /\ UNCHANGED voteVars
         \/ WriteFails

\* WriteTaskEvent::LaneFailed and StoreFailed: the stream of a dropped item ends.
WriteItemGone(x) ==
  /\ write = Idle
  /\ ~stopping
  /\ writeQ = <<>>
  /\ x \in streams \cap dropped
  /\ streams' = streams \ {x}
  /\ UNCHANGED <<size, inputs, att, queues, readVars, write, remotes, reason, http, voteVars>>

\* A remote is pruned, or a write to it fails.
WriteRemoveRemote(c) ==
  /\ write = Idle
  /\ remotes[c] = "attached"
  /\ remotes' = [remotes EXCEPT ![c] = "removed"]
  /\ UNCHANGED <<size, inputs, att, queues, readVars, write, streams, reason, http, voteVars>>

\* has_remotes
WriteVotes == \E c \in TwoWays : remotes[c] = "attached"

\* Nothing was sent within inactive_timeout: with no lanes or no remotes the task
\* just stops.  The timer is off while the vote stands.
WriteTimeout ==
  /\ write = Idle
  /\ ~stopping
  /\ writeQ = <<>>
  /\ ~voted["write"]
  /\ UNCHANGED <<inputs, writeQ>>
  /\ \/ (streams = {} \/ ~WriteVotes) /\ WriteEnds(reason)
     \/ /\ streams # {} /\ WriteVotes
        /\ CastVote("write")
        /\ write' = IF votes' = Tasks THEN At("cleanup", NoLane) ELSE write
        /\ reason' = IF votes' = Tasks THEN "AgentTimedOut" ELSE reason
        /\ streams' = IF votes' = Tasks THEN {} ELSE streams
        /\ UNCHANGED <<size, att, readVars, readQ, permit, httpQ, remotes, http>>

WriteCleanupEnds ==
  /\ write.at = "cleanup"
  /\ write' = Done
  /\ writeQ' = <<>>
  /\ Leave("write")
  /\ UNCHANGED <<size, inputs, att, readVars, readQ, permit, httpQ, remotes, streams, reason, http>>
-----------------------------------------------------------------------------
HttpStops ==
  /\ http' = "done"
  /\ httpQ' = 0
  /\ UNCHANGED <<size, att, readQ, permit, writeQ, readVars, writeVars>>
HttpEnds == HttpStops /\ Leave("http")

\* The stop signal, or the end of the attachment task, or of the server.
HttpClosed ==
  /\ http = "select"
  /\ stopping \/ (AttGone /\ httpQ = 0)
  /\ HttpEnds
  /\ UNCHANGED inputs

HttpRegister ==
  /\ http = "select"
  /\ httpQ > 0
  /\ httpQ' = httpQ - 1
  /\ UNCHANGED <<size, inputs, att, readQ, permit, writeQ, readVars, writeVars, http, voteVars>>

\* HttpTaskEvent::Request, for an HTTP lane that exists or for none.
HttpRequest ==
  /\ http = "select"
  /\ left.http > 0
  /\ left' = [left EXCEPT !.http = @ - 1]
  /\ UNCHANGED <<stopping, requests, dropped>>
  /\ \/ voted["http"] /\ Unanimous /\ HttpEnds
     \/ /\ IF voted["http"]
             THEN Withdraw("http")
             ELSE UNCHANGED voteVars
        /\ http' \in {"select", "forward"}
        /\ UNCHANGED <<size, att, queues, readVars, writeVars>>

\* The lane takes the request, or is found to have gone.
HttpForward ==
  /\ http = "forward"
  /\ http' = "select"
  /\ UNCHANGED <<size, inputs, att, queues, readVars, writeVars, voteVars>>

\* The task votes once.
HttpTimeout ==
  /\ http = "select"
  /\ ~voted["http"]
  /\ UNCHANGED inputs
  /\ CastVote("http")
  /\ IF votes' = Tasks
       THEN HttpStops
       ELSE UNCHANGED <<size, att, queues, readVars, writeVars, http>>
-----------------------------------------------------------------------------
StopSignal ==
  /\ ~stopping
  /\ stopping' = TRUE
  /\ UNCHANGED <<size, requests, dropped, left, att, queues, readVars, writeVars, http, voteVars>>

\* The agent drops an item.
DropItem(x) ==
  /\ x \in streams \ dropped
  /\ left.drops > 0
  /\ left' = [left EXCEPT !.drops = @ - 1]
  /\ dropped' = dropped \cup {x}
  /\ UNCHANGED <<size, stopping, requests, att, queues, readVars, writeVars, http, voteVars>>

AttStep ==
  AttStop \/ AttSendWrite \/ AttSendHttp \/ AttReserveRead \/ AttReserveWrite
    \/ (\E t \in {"read", "write"} : AttSendStop(t))
ReadStep == ReadClosed \/ ReadMessage \/ ReadFlush \/ ReadSend \/ ReadLane \/ ReadTimeout
WriteStep ==
  WriteClosed \/ WriteCoord \/ WriteMessage \/ WriteInit \/ WriteHandOver \/ WriteTimeout
    \/ WriteCleanupEnds \/ (\E x \in Lanes \cup NewStores : WriteItemGone(x))
HttpStep == HttpClosed \/ HttpRegister \/ HttpForward \/ HttpTimeout

Environment ==
  \/ AttClosed \/ (\E x \in requests : AttRequest(x)) \/ AttHttpLane
  \/ ReadEnvelope
  \/ \E x \in Lanes \cup NewStores : WriteEvent(x) \/ DropItem(x)
  \/ \E c \in TwoWays : WriteRemoveRemote(c)
  \/ HttpRequest
  \/ StopSignal

AllDone == AttGone /\ ReadGone /\ WriteGone /\ HttpGone

Next == AttStep \/ ReadStep \/ WriteStep \/ HttpStep \/ VoteCompletes \/ Environment

Spec == Init /\ [][Next]_vars

\* Every task that can go on does: they are joined in one future, whose parts are
\* all polled.  Timers expire, and the agent takes what is sent to it.
Fairness ==
  /\ WF_vars(AttStep) /\ WF_vars(ReadStep) /\ WF_vars(WriteStep) /\ WF_vars(HttpStep)
  /\ WF_vars(VoteCompletes)

FairSpec == Spec /\ Fairness
-----------------------------------------------------------------------------
TypeOK ==
  /\ left \in Inputs
  /\ Len(readQ) <= size /\ Len(writeQ) <= size /\ httpQ <= size
  /\ names \subseteq Lanes /\ senders \subseteq names
  /\ votes \subseteq cast /\ cast \subseteq Tasks

\* A link or unlink request in the queue of the write task will find the remote
\* it is for: the message that attaches the remote was put there before it, by
\* another task, unless the remote has come and gone; and it is about a lane that
\* the write task knows.
RequestsResolve ==
  \A i \in DOMAIN writeQ :
    LET m == writeQ[i]
    IN  m.type \in {"Link", "Unlink"} =>
          /\ m.of \in TwoWays /\ remotes[m.of] = "new" =>
               \E j \in 1..(i - 1) : writeQ[j] = Msg("Remote", m.of)
          /\ m.lane \in Lanes

\* A task does not hold on to a piece of work while its vote to stop stands, so
\* that the agent never stops by vote in the middle of one.
VoterIsIdle ==
  /\ "read" \in votes => read.at \in {"select", "done"}
  /\ "http" \in votes => http \in {"select", "done"}
  /\ "AgentTimedOut" = reason => Unanimous

\* What the tasks have in their queues can be dealt with, and none of them votes
\* while it has something to deal with.
AgentInv == TypeOK /\ RequestsResolve /\ VoterIsIdle

\* The write task waits for a place in the queue of the read task, which waits
\* for a place in the queue of the write task.
ReadWriteCycle == write.at = "hand_over" /\ read.at = "send" /\ ~ReadRoom /\ ~WriteRoom

\* ... or the only place is reserved by the attachment task, which waits for one
\* in the queue of the write task.
AttachmentCycle ==
  write.at = "hand_over" /\ att.at = "reserve_write" /\ readQ = <<>> /\ ~ReadRoom /\ ~WriteRoom

\* The stop signal ends every task, whatever each of them is waiting for, unless
\* a new lane is being handed over and the two tasks wait for one another.
StopEnds == stopping ~> (AllDone \/ ReadWriteCycle)

\* An agent that is no longer used stops by itself, by vote or because one task
\* ended, and then all four tasks end; only a hand over can be in the way.
UnusedStops == <>(AllDone \/ ReadWriteCycle \/ AttachmentCycle)

\* "The task will stop when this future completes."
CombinedStopEnds == CombinedStop ~> AttGone

\* "The agent stopped as part of a clean shutdown", not after "a period of
\* inactivity": an agent that stops because all have voted says so.
TimeoutIsReported ==
  (write.at = "cleanup" /\ Unanimous /\ ~stopping) => reason = "AgentTimedOut"
=============================================================================
