--------------------------- MODULE DownlinkRuntime --------------------------
(***************************************************************************)
(* The runtime of a downlink (runtime/swimos_runtime/src/downlink/mod.rs): *)
(* the attachment task hands each new consumer to the read task and to the *)
(* write task; the read task relays the notifications of the remote lane   *)
(* to the consumers; the write task sends the link, sync requests and the  *)
(* commands of the consumers to the lane.  The lane is external.           *)
(*                                                                         *)
(* A value downlink has one key (SINGLE_FRAME_STATE), a map downlink any   *)
(* number.  The lane numbers the states it goes through; consumers number  *)
(* their commands.  A consumer is a pair of byte channels, of which it may *)
(* close one or both. A write to a consumer does not block here; writes to *)
(* the lane do, and are the jobs of the write task.                        *)
(***************************************************************************)
EXTENDS Naturals, Sequences, FiniteSets, FiniteSetsExt, SequencesExt

CONSTANTS
  Consumers,
  SyncConsumers,  \* the consumers with DownlinkOptions::SYNC
  Setups,         \* the instances looked at: a kind of downlink, who attaches, the
                  \* bound on the commands they issue, which of these (by number) have
                  \* an empty body, and the bound on the versions that the state of the
                  \* lane has before it ceases to change by itself
  One, Keys,      \* the key of a value downlink, the keys of a map downlink
  None,           \* no job, no consumer
  QueueSize,      \* attachment_queue_size
  MaxChannel      \* bound: messages in flight to the lane, and from it before it sends more

ASSUME SetsAssumption ==
  /\ SyncConsumers \subseteq Consumers /\ IsFiniteSet(Keys)
  /\ \A s \in Setups : /\ s.kind \in {"value", "map"}
                      /\ s.consumers \subseteq Consumers
                      /\ s.commands \in Nat
                      /\ s.empty \subseteq 1..s.commands
                      /\ s.versions \in Nat
ASSUME BoundsAssumption ==
  QueueSize \in Nat \ {0} /\ MaxChannel \in Nat \ {0}

VARIABLES
  kind,        \* which runtime this is
  consumer_q,  \* from the attachment task to the read task
  producer_q,  \* from the attachment task to the write task
  attach,      \* the attachment task: "ready", a consumer half attached, "done"
  stopping,    \* the trigger that stops the runtime
  votes,       \* the coordinator of the stop vote (VoteSpec)
  r,           \* the read task
  w,           \* the write task
  cons,        \* the far side of each consumer
  out, inn,    \* the channels to and from the lane
  lane,        \* the remote lane: whether it is linked, its state, commands seen
  counts       \* how many versions and commands there have been, and were taken

vars == <<kind, consumer_q, producer_q, attach, stopping, votes, r, w, cons, out, inn, lane, counts>>
attachVars == <<consumer_q, producer_q, attach, stopping>>

KeysOf == IF kind = "value" THEN {One} ELSE Keys
Never == [k \in KeysOf |-> 0]

Link == [type |-> "Link"]
Sync == [type |-> "Sync"]
Flush == [type |-> "Flush"]
Command(op) == [type |-> "Command", op |-> op]
Linked == [type |-> "Linked"]
Synced == [type |-> "Synced"]
Unlinked == [type |-> "Unlinked"]
Event(k, v) == [type |-> "Event", key |-> k, version |-> v]

\* The local state that a task starts with; when it ends none of it is left.
ReadTask(pc) ==
  [pc |-> pc, dl_state |-> "Init", timer |-> TRUE, voted |-> FALSE,
   flushed |-> TRUE, joined |-> FALSE, current |-> Event(One, 0), sync_event |-> FALSE,
   awaiting_linked |-> {}, awaiting_synced |-> {}, registered |-> {}]
WriteTask(pc) ==
  [pc |-> pc, job |-> None, voted |-> FALSE, flushed |-> TRUE,
   needs_sync |-> FALSE, registered |-> {}, data |-> <<>>, buffered |-> <<>>]

Init ==
  /\ \E s \in Setups :
       /\ kind = s.kind
       /\ cons = [c \in Consumers |->
            [asked |-> c \notin s.consumers, reads |-> c \in s.consumers,
             writes |-> c \in s.consumers, view |-> Never]]
       /\ counts = [version |-> 0, command |-> 0, limit |-> s.commands, empty |-> s.empty,
                   versions |-> s.versions, taken |-> Never]
  /\ consumer_q = <<>> /\ producer_q = <<>>
  /\ attach = "ready"
  /\ stopping = FALSE
  /\ votes = {}
  /\ r = ReadTask("run")
  /\ w = WriteTask("link")
  /\ out = <<>> /\ inn = <<>>
  /\ lane = [up |-> TRUE, linked |-> FALSE, state |-> Never, seen |-> Never]
-----------------------------------------------------------------------------
(* The attachment task.                                                    *)

Unanimous(vs) == vs = {"read", "write"}

\* combined_stop: the trigger, the kill switch of await_io_tasks or the vote.
CombinedStop ==
  stopping \/ r.pc = "done" \/ w.pc = "done" \/ Unanimous(votes)

\* A request is taken and its writer sent to the read task.
AttachConsumer(c) ==
  /\ attach = "ready"
  /\ ~cons[c].asked
  /\ cons' = [cons EXCEPT ![c].asked = TRUE]
  /\ \/ /\ r.pc # "done" /\ Len(consumer_q) < QueueSize
        /\ consumer_q' = Append(consumer_q, c)
        /\ attach' = c
     \/ /\ r.pc = "done"
        /\ attach' = "done"
        /\ UNCHANGED consumer_q
  /\ UNCHANGED <<kind, producer_q, stopping, votes, r, w, out, inn, lane, counts>>

\* Its reader is sent to the write task.
AttachProducer ==
  /\ attach \in Consumers
  /\ \/ /\ w.pc # "done" /\ Len(producer_q) < QueueSize
        /\ producer_q' = Append(producer_q, attach)
        /\ attach' = "ready"
     \/ /\ w.pc = "done"
        /\ attach' = "done"
        /\ UNCHANGED producer_q
  /\ UNCHANGED <<kind, consumer_q, stopping, votes, r, w, cons, out, inn, lane, counts>>

AttachStops ==
  /\ attach = "ready"
  /\ CombinedStop
  /\ attach' = "done"
  /\ UNCHANGED <<kind, consumer_q, producer_q, stopping, votes, r, w, cons, out, inn, lane, counts>>
-----------------------------------------------------------------------------
(* The read task.                                                          *)

Reading(cs) == {c \in cs : cons[c].reads}
InRead == r.awaiting_linked \cup r.awaiting_synced \cup r.registered

\* No consumers: the timer runs and no vote has been cast.
Active == ~r.timer \/ r.voted

\* The consumers that keep the timer from running.
Subscribers(x) == x.awaiting_synced \cup x.registered

\* Once the number of subscribers has dropped to 0 the timer is started.
Settle(x) == IF Subscribers(x) = {} THEN [x EXCEPT !.timer = TRUE] ELSE x

\* The task ends: its consumers are unlinked and their channels dropped.
ReadStops == r' = ReadTask("done")

\* A cast vote; the task goes on unless the vote is unanimous.
ReadTimeout ==
  /\ r.pc = "run"
  /\ ~Active /\ ~r.joined
  /\ votes' = votes \cup {"read"}
  /\ IF Unanimous(votes')
       THEN ReadStops
       ELSE r' = [r EXCEPT !.timer = FALSE, !.voted = TRUE]
  /\ UNCHANGED <<kind, attachVars, w, cons, out, inn, lane, counts>>

\* Mutant of Joins: a consumer joins without withdrawing the vote.
JoinsQuietly(x) ==
  /\ r' = [x EXCEPT !.timer = FALSE, !.voted = FALSE, !.joined = FALSE]
  /\ UNCHANGED votes

\* A consumer has been added: the timer stops and a standing vote is withdrawn,
\* unless it is too late for that.
Joins(x) ==
  IF r.voted /\ Unanimous(votes)
    THEN ReadStops /\ UNCHANGED votes
    ELSE /\ r' = [x EXCEPT !.timer = FALSE, !.voted = FALSE, !.joined = FALSE]
         /\ votes' = votes \ (IF r.voted THEN {"read"} ELSE {})

\* ReadTaskEvent::NewConsumer
NewConsumer ==
  LET c == Head(consumer_q)
  IN  /\ r.pc = "run"
      /\ consumer_q # <<>>
      /\ consumer_q' = Tail(consumer_q)
      /\ \/ /\ r.dl_state = "Init"
            /\ Joins([r EXCEPT !.awaiting_linked = @ \cup {c}])
         \/ /\ r.dl_state # "Init" /\ cons[c].reads
            /\ Joins([r EXCEPT !.awaiting_synced = @ \cup {c}])
         \/ /\ r.dl_state # "Init" /\ ~cons[c].reads
            /\ r' = [r EXCEPT !.joined = FALSE]
            /\ UNCHANGED votes
      /\ UNCHANGED <<kind, producer_q, attach, stopping, w, cons, out, inn, lane, counts>>

\* The select is biased to new consumers while the timer runs; the one that was
\* joined with a flush is not.
MayRead ==
  /\ r.pc = "run"
  /\ Active \/ r.joined \/ (consumer_q = <<>> /\ attach # "done")

NextMessage(note) ==
  /\ MayRead
  /\ inn # <<>>
  /\ note = Head(inn)
  /\ inn' = Tail(inn)

OnLinked ==
  /\ NextMessage(Linked)
  /\ LET told == Reading(r.awaiting_linked)
         x == [r EXCEPT !.dl_state = "Linked", !.joined = FALSE]
     IN  IF Active
           THEN r' = Settle([x EXCEPT
                        !.awaiting_linked = {},
                        !.awaiting_synced = @ \cup (told \cap SyncConsumers),
                        !.registered = @ \cup (told \ SyncConsumers)])
           ELSE r' = x
  /\ UNCHANGED <<kind, attachVars, votes, w, cons, out, lane, counts>>

\* What an event does to the view of a consumer.
Seen(view, e) == [view EXCEPT ![e.key] = e.version]

\* Mutant of WithCurrent: the event is left out.
WithCurrentNothing(c) == cons[c].view

\* sync_current for a value downlink that has had an event, else sync_only.
WithCurrent(c) ==
  IF kind = "value" /\ r.sync_event THEN Seen(cons[c].view, r.current) ELSE cons[c].view

OnSynced ==
  /\ NextMessage(Synced)
  /\ LET told == Reading(r.awaiting_synced)
         x == [r EXCEPT !.dl_state = "Synced", !.joined = FALSE]
     IN  IF Active
           THEN /\ r' = Settle([x EXCEPT !.awaiting_synced = {}, !.registered = @ \cup told])
                /\ cons' = [c \in Consumers |->
                     IF c \in told
                       THEN [cons[c] EXCEPT !.view = WithCurrent(c)]
                       ELSE cons[c]]
           ELSE r' = x /\ UNCHANGED cons
  /\ UNCHANGED <<kind, attachVars, votes, w, out, lane, counts>>

\* The consumers that an event is fed to.
EventTargets == r.registered \cup (IF kind = "map" THEN r.awaiting_synced ELSE {})

\* feed may notice that a consumer has gone, or leave that to the flush.
OnEvent ==
  LET e == Head(inn) IN
  /\ inn # <<>> /\ e.type = "Event"
  /\ NextMessage(e)
  /\ LET x == [r EXCEPT !.sync_event = TRUE, !.current = e, !.joined = FALSE]
     IN  IF Active
           THEN \E failed \in SUBSET {c \in EventTargets : ~cons[c].reads} :
                  LET y == [x EXCEPT !.registered = @ \ failed, !.awaiting_synced = @ \ failed]
                  IN  /\ r' = [Settle(y) EXCEPT !.flushed = Subscribers(y) = {}]
                      /\ cons' = [c \in Consumers |->
                           IF c \in EventTargets /\ cons[c].reads
                             THEN [cons[c] EXCEPT !.view = Seen(@, e)] ELSE cons[c]]
           ELSE r' = x /\ UNCHANGED cons
  /\ UNCHANGED <<kind, attachVars, votes, w, out, lane, counts>>

\* Unlinked, or the connection is lost.
OnUnlinked ==
  /\ \/ NextMessage(Unlinked)
     \/ MayRead /\ inn = <<>> /\ ~lane.up /\ UNCHANGED inn
  /\ ReadStops
  /\ UNCHANGED <<kind, attachVars, votes, w, cons, out, lane, counts>>

\* The consumers are flushed while the task has nothing else to do.  With nobody
\* left the timer is started, but not looked at before the next event.
ReadFlush ==
  /\ r.pc = "run"
  /\ Active /\ ~r.flushed
  /\ consumer_q = <<>> /\ inn = <<>>
  /\ LET x == [r EXCEPT !.flushed = TRUE, !.awaiting_synced = Reading(@), !.registered = Reading(@)]
     IN  r' = [Settle(x) EXCEPT !.joined = Subscribers(x) = {}]
  /\ UNCHANGED <<kind, attachVars, votes, w, cons, out, inn, lane, counts>>

\* ConsumerChannelStopped
ReadChannelClosed ==
  /\ r.pc = "run"
  /\ consumer_q = <<>> /\ attach = "done"
  /\ ReadStops
  /\ UNCHANGED <<kind, attachVars, votes, w, cons, out, inn, lane, counts>>
-----------------------------------------------------------------------------
(* The write task.  `buffered` is what has been fed to the channel but not  *)
(* flushed; `data` is the backpressure relief.                             *)

\* A flush moves everything that is buffered into the channel.
Room(n) == Len(out) + n <= MaxChannel
Flushed(notes) ==
  /\ Room(Len(w.buffered) + Len(notes))
  /\ out' = out \o w.buffered \o notes

\* The loop is left; what is buffered is dropped with the sender.
WriteStops == w' = WriteTask("done")

\* send_link, before the loop.
SendLink ==
  /\ w.pc = "link"
  /\ Flushed(<<Link>>)
  /\ w' = [w EXCEPT !.pc = "idle"]
  /\ UNCHANGED <<kind, attachVars, votes, r, cons, inn, lane, counts>>

\* Idle and not flushed: the flush completes.
IdleFlush ==
  /\ w.pc = "idle"
  /\ ~w.flushed
  /\ Flushed(<<>>)
  /\ w' = [w EXCEPT !.flushed = TRUE, !.buffered = <<>>]
  /\ UNCHANGED <<kind, attachVars, votes, r, cons, inn, lane, counts>>

Writing(x, job) == [x EXCEPT !.pc = "writing", !.job = job]

\* A consumer is registered by an idle task.  One that needs a sync gets it at
\* once, unless a flush has been started and has not completed.
IdleRegister(c, x) ==
  LET y == [x EXCEPT !.registered = @ \cup {c}]
  IN  \/ w' = IF c \in SyncConsumers THEN Writing(y, Sync) ELSE y
      \/ /\ ~w.flushed /\ w.registered # {}
         /\ w' = Writing([y EXCEPT !.needs_sync = @ \/ c \in SyncConsumers], Flush)

\* With no consumers a vote may stand, and the flush is waited for.
NewProducerIdle ==
  /\ w.pc = "idle"
  /\ producer_q # <<>>
  /\ producer_q' = Tail(producer_q)
  /\ \/ /\ w.registered # {}
        /\ IdleRegister(Head(producer_q), w)
        /\ UNCHANGED votes
     \/ /\ w.registered = {} /\ w.flushed
        /\ IF w.voted /\ Unanimous(votes)
             THEN WriteStops /\ UNCHANGED votes
             ELSE /\ IdleRegister(Head(producer_q), [w EXCEPT !.voted = FALSE, !.needs_sync = FALSE])
                  /\ votes' = votes \ (IF w.voted THEN {"write"} ELSE {})
  /\ UNCHANGED <<kind, consumer_q, attach, stopping, r, cons, out, inn, lane, counts>>

\* No consumers within the timeout.
WriteTimeout ==
  /\ w.pc = "idle"
  /\ w.registered = {} /\ w.flushed /\ ~w.voted
  /\ votes' = votes \cup {"write"}
  /\ IF Unanimous(votes') THEN WriteStops ELSE w' = [w EXCEPT !.voted = TRUE]
  /\ UNCHANGED <<kind, attachVars, r, cons, out, inn, lane, counts>>

\* Mutant of PushOperation: what waits is kept and the new command dropped.
PushOperationFirst(data, op) ==
  IF \E i \in DOMAIN data : data[i].key = op.key THEN data ELSE Append(data, op)

\* Mutant of PushOperation: nothing is replaced and the newest command goes first.
PushOperationStack(data, op) == <<op>> \o data

\* The relief: a command replaces the one that waits for the same key.
PushOperation(data, op) ==
  IF \E i \in DOMAIN data : data[i].key = op.key
    THEN [i \in DOMAIN data |-> IF data[i].key = op.key THEN op ELSE data[i]]
    ELSE Append(data, op)

\* ValueBackpressure::has_data looks for bytes, MapOperationQueue for entries.
HasData(data) ==
  data # <<>> /\ (kind = "value" => data[1].number \notin counts.empty)

\* Consumer c issues a command; an idle task writes it, a busy one lets it wait.
TakeCommand(c, k) ==
  LET op == [key |-> k, number |-> counts.command + 1]
  IN  /\ c \in w.registered /\ cons[c].writes
      /\ counts.command < counts.limit
      /\ counts' = [counts EXCEPT !.command = @ + 1, !.taken[k] = op.number]
      /\ \/ /\ w.pc = "idle"
            /\ w' = Writing([w EXCEPT !.flushed = FALSE], Command(op))
         \/ /\ w.pc = "idle" /\ ~w.flushed
            /\ w' = Writing([w EXCEPT !.data = PushOperation(@, op)], Flush)
         \/ /\ w.pc = "writing"
            /\ w' = [w EXCEPT !.data = PushOperation(@, op)]
      /\ UNCHANGED <<kind, attachVars, votes, r, cons, out, inn, lane>>

\* A consumer has closed its end: it is no longer registered, and with the last
\* one the need for a sync goes.
ProducerGone(c) ==
  LET left == w.registered \ {c}
      x == [w EXCEPT !.registered = left, !.needs_sync = @ /\ left # {}]
  IN  /\ c \in w.registered /\ ~cons[c].writes
      /\ \/ w.pc \in {"idle", "writing"} /\ w' = x
         \/ w.pc = "idle" /\ ~w.flushed /\ left = {} /\ w' = Writing(x, Flush)
      /\ UNCHANGED <<kind, attachVars, votes, r, cons, out, inn, lane, counts>>

NewProducerWriting ==
  LET c == Head(producer_q)
  IN  /\ w.pc = "writing"
      /\ producer_q # <<>>
      /\ producer_q' = Tail(producer_q)
      /\ w' = [w EXCEPT !.registered = @ \cup {c},
                        !.needs_sync = @ \/ c \in SyncConsumers]
      /\ UNCHANGED <<kind, consumer_q, attach, stopping, votes, r, cons, out, inn, lane, counts>>

\* What the job that has just completed leaves in the buffer of the channel.
JobWritten ==
  \/ /\ w.job = Sync /\ Flushed(<<Sync>>)
  \/ /\ w.job = Flush /\ Flushed(<<>>)
  \/ /\ w.job \notin {Sync, Flush} /\ UNCHANGED out

\* A sync first, then the data that waits.
AfterWrite(x) ==
  CASE x.needs_sync -> Writing([x EXCEPT !.needs_sync = FALSE, !.flushed = FALSE], Sync)
    [] ~x.needs_sync /\ HasData(x.data) ->
         Writing([x EXCEPT !.data = Tail(@), !.flushed = FALSE], Command(Head(x.data)))
    [] OTHER -> [x EXCEPT !.pc = "idle", !.job = None]

\* SuspendedResult::SuspendedCompleted
WriteDone ==
  /\ w.pc = "writing"
  /\ JobWritten
  /\ w' = AfterWrite([w EXCEPT !.buffered =
       IF w.job \in {Sync, Flush} THEN <<>> ELSE Append(@, w.job)])
  /\ UNCHANGED <<kind, attachVars, votes, r, cons, inn, lane, counts>>

\* The channel of new consumers is closed, or the connection is lost.
WriteChannelClosed ==
  /\ w.pc # "done"
  /\ \/ producer_q = <<>> /\ attach = "done" /\ w.pc # "link"
     \/ ~lane.up
  /\ WriteStops
  /\ UNCHANGED <<kind, attachVars, votes, r, cons, out, inn, lane, counts>>
-----------------------------------------------------------------------------
(* The lane, the consumers and the stop trigger.                           *)

\* The environment is looked at while the runtime is up.
Running == r.pc = "run" /\ w.pc # "done" /\ attach # "done" /\ lane.up

Answers(notes) == Len(inn) < MaxChannel /\ inn' = inn \o notes

Sends(e) == IF lane.linked THEN Answers(<<e>>) ELSE UNCHANGED inn

LaneReceives ==
  LET m == Head(out)
      state == [k \in KeysOf |-> IF m.type = "Command" /\ m.op.key = k
                                   THEN counts.version + 1 ELSE lane.state[k]]
  IN  /\ Running /\ out # <<>>
      /\ out' = Tail(out)
      /\ \/ /\ m.type = "Link"
            /\ Answers(<<Linked>>)
            /\ lane' = [lane EXCEPT !.linked = TRUE]
            /\ UNCHANGED counts
         \/ /\ m.type = "Sync"
            /\ Answers(SetToSeq({Event(k, lane.state[k]) : k \in KeysOf}) \o <<Synced>>)
            /\ UNCHANGED <<lane, counts>>
         \/ /\ m.type = "Command"
            /\ Sends(Event(m.op.key, counts.version + 1))
            /\ lane' = [lane EXCEPT !.state = state, !.seen[m.op.key] = m.op.number]
            /\ counts' = [counts EXCEPT !.version = @ + 1]
      /\ UNCHANGED <<kind, attachVars, votes, r, w, cons>>

LaneChanges(k) ==
  /\ Running
  /\ counts.version < counts.versions
  /\ counts' = [counts EXCEPT !.version = @ + 1]
  /\ lane' = [lane EXCEPT !.state[k] = counts.version + 1]
  /\ Sends(Event(k, counts.version + 1))
  /\ UNCHANGED <<kind, attachVars, votes, r, w, cons, out>>

LaneUnlinks ==
  /\ Running /\ lane.linked
  /\ lane' = [lane EXCEPT !.linked = FALSE]
  /\ Answers(<<Unlinked>>)
  /\ UNCHANGED <<kind, attachVars, votes, r, w, cons, out, counts>>

ConnectionLost ==
  /\ Running
  /\ lane' = [lane EXCEPT !.up = FALSE]
  /\ UNCHANGED <<kind, attachVars, votes, r, w, cons, out, inn, counts>>

\* A consumer drops both its channels, or just the one for commands (an event
\* downlink has no use for it).
Leave(c) ==
  /\ Running
  /\ cons[c].asked /\ cons[c].reads
  /\ cons' = [cons EXCEPT ![c].reads = FALSE, ![c].writes = FALSE]
  /\ UNCHANGED <<kind, attachVars, votes, r, w, out, inn, lane, counts>>

StopWriting(c) ==
  /\ Running
  /\ cons[c].asked /\ cons[c].writes
  /\ cons' = [cons EXCEPT ![c].writes = FALSE]
  /\ UNCHANGED <<kind, attachVars, votes, r, w, out, inn, lane, counts>>

Stop ==
  /\ Running /\ ~stopping
  /\ stopping' = TRUE
  /\ UNCHANGED <<kind, consumer_q, producer_q, attach, votes, r, w, cons, out, inn, lane, counts>>

Tasks ==
  \/ AttachProducer \/ AttachStops
  \/ ReadTimeout \/ NewConsumer \/ OnLinked \/ OnSynced \/ OnEvent \/ OnUnlinked
  \/ ReadFlush \/ ReadChannelClosed
  \/ SendLink \/ IdleFlush \/ NewProducerIdle \/ WriteTimeout
  \/ NewProducerWriting \/ WriteDone \/ WriteChannelClosed

Next ==
  \/ Tasks
  \/ \E c \in Consumers :
       AttachConsumer(c) \/ ProducerGone(c) \/ Leave(c) \/ StopWriting(c)
  \/ \E c \in Consumers, k \in KeysOf : TakeCommand(c, k)
  \/ \E k \in KeysOf : LaneChanges(k)
  \/ LaneReceives \/ LaneUnlinks \/ ConnectionLost \/ Stop

Spec == Init /\ [][Next]_vars
-----------------------------------------------------------------------------
\* A sync request of the write task that has not been answered yet, wherever it
\* is: with a consumer on its way, as a flag, a job, a request or an answer.
SyncUnderWay ==
  \/ attach \in SyncConsumers
  \/ \E i \in DOMAIN producer_q : producer_q[i] \in SyncConsumers
  \/ w.needs_sync \/ w.job = Sync \/ Sync \in Range(out) \/ Synced \in Range(inn)

Quiet ==
  /\ r.pc = "run" /\ w.pc = "idle" /\ w.buffered = <<>> /\ lane.up /\ lane.linked
  /\ attach \notin Consumers /\ consumer_q = <<>> /\ producer_q = <<>>
  /\ out = <<>> /\ inn = <<>>

\* When nothing is in flight, every consumer of a value downlink that was told it
\* is synced has the value of the lane, in whatever order the consumers joined.
SyncedHaveState ==
  (Quiet /\ kind = "value") => \A c \in Reading(r.registered) \cap SyncConsumers : cons[c].view = lane.state

\* When nothing is in flight, the last command that was taken for each key has
\* reached the lane, whatever came before it.  (One with an empty body may not
\* have: see HasData.)
LastCommandArrives ==
  Quiet => \A k \in KeysOf : lane.seen[k] = counts.taken[k] \/ counts.taken[k] \in counts.empty

\* Commands for one key reach the lane in the order in which they were taken.
CommandsInOrder == [][\A k \in KeysOf : lane.seen'[k] >= lane.seen[k]]_vars

\* A unanimous vote means that neither task has a consumer: nobody is cut off
\* because of the other task, and a consumer that joins late is seen in time.
UnanimousMeansUnused ==
  Unanimous(votes) => InRead = {} /\ w.registered = {}

\* Consumers and lane agree when nothing is in flight, and the runtime does not
\* stop while anybody uses it: the two tasks of the runtime take consumers,
\* events and commands in different orders.
DownlinkInv == SyncedHaveState /\ LastCommandArrives /\ UnanimousMeansUnused

\* "The consumer needs to be synchronized with the remote lane": a consumer that
\* waits to be synced has a sync request under way.
NobodyForgotten ==
  r.pc = "run" /\ w.pc # "done" /\ lane.up /\ lane.linked =>
    \A c \in Reading(r.awaiting_synced) \cap SyncConsumers : SyncUnderWay
=============================================================================
