# A TLA+ model of the Swim runtime

SwimOS runs *agents*. An agent has *lanes*; a *remote* (another agent, a server
or a client) opens a *downlink* to a lane and the lane keeps an *uplink* to the
remote. This directory models the parts of the Rust implementation that carry
these links, checks them with TLC on small instances and proves what matters
most with TLAPS. `PROJECT.json` records which definition models which lines,
the runs, the mutants that show each property can fail, the hazards and the
theorems.

## 1. Inventory

### How the parts interact

```
            remote / client                             agent (user code)
                 |  WARP envelopes                            |  lane responses
     +-----------v-----------+                    +-----------v-----------+
     | remote task           |   byte channels    | agent runtime         |
     |  registration         +-------------------->  attachment task      |
     |  incoming / outgoing  <--------------------+  read task            |
     +-----------^-----------+                    |  write task           |
                 |                                |   links, remotes,     |
     +-----------+-----------+                    |   prune timers        |
     | downlink runtime      |                    |   uplinks per remote  |
     |  attachment task      |                    |    + backpressure     |
     |  read task            |                    |  http task            |
     |  write task           |                    +-----------+-----------+
     |   + backpressure      |                                |
     +-----------^-----------+          stop vote (timeout_coord) between the
                 |                      tasks of each runtime
       consumers (agents, clients)
```

The tasks of one runtime are futures that one tokio task joins
(`agent/task/mod.rs:559`, `downlink/mod.rs:263`) and interleave where they await;
different runtimes run on different threads. The coordinator of the vote does not
rely on this: its voters are `Send` and it is built of atomics, so it is modelled
for parties that run in parallel, of which the joined tasks are a special case.
Between tasks there are
bounded `mpsc` channels, byte channels, triggers and promises; the shared state
is in atomics with an `AtomicWaker` (the vote, the circular buffer) or behind a
lock (byte channels, triggers).

### Components

| Component (source) | State | Operations | What is hard | What makes it correct |
|---|---|---|---|---|
| Stop vote (`timeout_coord`) | a byte of flags, a waker, `voted` per voter | `vote`, `rescind`, `Drop`, `poll` | lock-free, called from threads that race | unanimity is final and true when reported; the wake-up is not lost |
| Map operation queue (`backpressure/map_queue`) | queue, `epoch_map`, `head_epoch` | `push`, `pop` | wrapping epochs, conflation in place | the slot of a key is its own; nothing lost; no starvation |
| Uplinks (`agent/task/remotes/uplink`, `write_fut`) | the writer, `special_queue`, `write_queue`, relief per lane | `push`, `push_special`, `replace_and_pop` | link messages overtake events; one writer for all lanes | events only within a link; an idle remote has been sent everything, and what empties its state is known |
| Write task registries (`agent/task`: `links`, `remotes`, `prune`, the loop) | two indexes of links and counts, trackers, timers | attach, link, unlink, events, failures, prune, stop | stale timers, late responses, failing writes, cleanup with a deadline | one relation; idle remotes are pruned, linked ones not; all are told when it stops |
| Read, attachment, HTTP tasks (`agent/task/mod.rs`) | the lanes and their senders, `voted`, queues of a fixed size | attach, forward, hand over, vote, time out | waits on the write task while it waits on them | all end; none votes with work in hand; requests find their remote |
| External links (`agent/task/external_links`) | an output per endpoint with its buffers, timers, attempts | command, open, write, time out, open a downlink | commands come while the channel opens, writes or closes | nothing that may not be overwritten is lost; all comes to an end |
| Downlink runtime (`downlink`) | three tasks, consumers in three states, flush/write state, relief | attach, relay, sync, command, timeout | both halves of a consumer travel separately | synced consumers have the state; the last command arrives; stops only when unused |
| Circular buffer (`swimos_sync/circular_buffer`) | queue, permits, `sender_active`, waker | `try_send`, `recv`, drops | sender evicts what the receiver may be taking | in order, newest kept, no lost wake-up |
| Trigger, promise (`swimos_trigger`) | flag, slab of wakers; a value | `trigger`, `provide`, drop, clone, poll | flag, value and wakers are reached one at a time | every receiver completes once, with the value |
| Byte channel (`swimos_byte_channel`) | bytes, one waker, `closed`; budget per task | read, write, close | one waker slot for both ends | no side waits for a wake-up that does not come |
| Multi reader (`swimos_multi_reader`) | buckets of flags, a local copy, a queue, streams | add, poll | flags set by wakers during a poll | every ready stream is read in the end |
| Lanes (`swimos_agent/src/lanes`, `event_queue`) | content, event and sync queues | set, update, remove, clear, cue, supply, sync, write | syncs interleaved with events while the content changes | a remote that syncs ends up with the state |
| Agent task (`swimos_agent/src/agent_model`) | dirty items, writers, handlers | run a handler, write lanes, take a writer back | the writer is away when a lane changes | all that is marked is written |
| Hosted downlinks (`agent_model/downlink/hosted`) | link state, content, receiver, output, stop trigger | notification, stop, failure, reconnection | sessions that end and begin again | nothing of an old session is left; a stopped downlink goes |
| Downlink connector, server runtime (`swimos_server_app`) | pending requests, runtimes, connections, agents | resolve, connect, start, attach, stop in stages | requests while a connection opens or ends | every request answered; stops in order |
| Remote task (`swimos_remote/src/task`) | routes to agents, registered downlinks | route, find, register, end | agents that stop and restart | envelopes in order, each dealt with; ends as a whole |
| Join lanes (`lanes/join`) | links and the keys each owns | add, remove, events | keys that change hands, links removed while their downlinks speak | links agree with the downlinks that run; entries go with their links |
| Initialisation, persistence (`agent/task/init`, `agent/store`, `in_memory_store`) | the entry of a node, the state an instance holds, items being restored | start, restore, save, stop, hand the state on | ends between change, save and relay; instances that overlap | the state is in one place; what was told is kept; what was saved is restored |
| Client, client downlinks (`swimos_client`, `swimos_downlink`) | pending peers and downlinks | open, close | as the connector's and the hosted downlinks' | not modelled, see section 8 |
| Transport, codecs, forms, stores, macros, introspection | - | - | I/O or pure conversions | not modelled, see section 7 |

### Hazards

`PROJECT.json` lists those that bite hardest, at their line, with the properties
that would catch them; section 6 has more. In short: races on atomics and wakers
(vote, circular buffer, trigger, byte channel); one writer lent out between a
decision and its use (uplinks, write task, lanes, external links); stale timers,
handles and late answers (pruning, sync responses, runtimes, reconnection); the
two halves of a consumer that reach two tasks at different times (downlink
runtime); wrap-around (map queue, event queue); bounded channels in both
directions between two tasks (agent runtime); stopping in stages while the stages
wait for one another (server); instances of an agent that end and begin again
between a change, its being saved and its being told; partial failure in the
middle of a handler.

Some are covered in part only, which their notes in `PROJECT.json` say: the properties leave
out by name the empty event that a value lane may write before Synced and the join downlink that is opened
beside an earlier one of its link (`SyncedHasState` and `PairsAreSet` show them, section 4); that a
consumer is synced in the end does not hold (`NobodyForgotten`, section 4); the circles of
waits between the tasks of an agent are left out by name of `StopEnds` and `UnusedStops`,
which say that there are no others (`CombinedStopEnds` shows them, section 4); and the budget of the
multi reader is checked only where it is as large as the number of streams (section 6).

## 2. Modules

| Module | Models | Kind |
|---|---|---|
| `VoteSpec` | what the vote promises | abstract specification |
| `TimeoutCoord` | `timeout_coord/mod.rs` | detailed, refines `VoteSpec` |
| `MapRelaySpec` | what a conflating relay of a map promises | abstract specification |
| `MapQueue` | `backpressure/map_queue/mod.rs` | detailed, refines `MapRelaySpec` |
| `Uplinks` | `remotes/uplink/mod.rs`, `write_fut/mod.rs`, the parts of the write task that drive one remote | state machine |
| `WriteTask` | `links.rs`, `remotes/mod.rs`, `prune.rs`, the event loop and the cleanup | composes an abstraction of `Uplinks` with the registries |
| `AgentRuntime` | the attachment, read, write and HTTP tasks of `agent/task/mod.rs` | composition of four tasks, their queues and the vote as `VoteSpec` states it |
| `ExternalLinks` | `agent/task/external_links/mod.rs` | state machine |
| `AgentStore` | `in_memory_store/mod.rs`, `agent/task/init/mod.rs`, `agent/store/mod.rs`, `agent_model/init/mod.rs`, `persist_response` | composition of the store, the server that starts instances, and the two sides of an instance |
| `DownlinkRuntime` | `downlink/mod.rs` with the relief of `backpressure/mod.rs` | composition of three tasks, consumers, a lane and the vote as `VoteSpec` states it |
| `CircularBuffer` | `swimos_sync/src/circular_buffer/mod.rs` | state machine |
| `Trigger` | `swimos_trigger/src/trigger/mod.rs`, `promise/mod.rs` | state machine |
| `Readers` | `swimos_multi_reader/src/reader/mod.rs` over `swimos_byte_channel/src/channel/mod.rs`, `coop/mod.rs` | composition of the reader, its channels and their writers |
| `LaneQueues` | `event_queue/mod.rs`, `lanes/queues/mod.rs` | operators |
| `AgentTask` | `run_agent` and `run_handler` of `agent_model/mod.rs` with a lane of each kind | composition, uses `LaneQueues` |
| `HostedDownlink` | `agent_model/downlink/hosted/`, the arms of `run_agent` that drive it | state machine, with the lane at the other end |
| `JoinLanes` | `lanes/join/`, the event downlinks of `agent_model/downlink/hosted/event/mod.rs` | state machine of a lane and the downlinks that feed it |
| `Connector` | `runtime/downlinks/` and what `runtime/mod.rs` of the server does for it | composition of two loops, runtimes and connections |
| `RemoteTask` | `swimos_remote/src/task/mod.rs` and how the server finds agents | composition of three tasks, agents and the server |
| `*Proofs` | | proofs, section 5 |
| `MC*` | instances for TLC | |

`MCLifecycle`, `MCQueues`, `MCRemotes`, `MCDownlinkRuntime`, `MCWakeups`,
`MCAgentTask` and `MCServer` each check two or three components that share nothing: a variable `subject` says which one a behaviour is
about, and the others do not move. Their state graphs add up instead of
multiplying, each component keeps its own fairness, and a property of one of them
is checked on the behaviours about it. The instances of the other `MC` modules
use sets of setups in the same way.

### Correspondence with the code

**TimeoutCoord.** The byte of flags is the set of voters whose bit is set. Each
atomic operation is one action: `Vote` (the `fetch_or`), `Wake` (the wake that
follows the decisive vote), `RescindTwo` (the single compare-exchange used with
two parties), `RescindLoad` / `RescindExchange` (the loop used with more),
`Drop`, and the three steps of `Receiver::poll` (`PollFirst`, `PollRegister`,
`PollSecond`). `standing` is the local `voted` of the task that owns a voter;
`TracksOwnVote` says that it rescinds only when that is set, as all tasks of the
runtimes do.

**MapQueue.** `PushUpdate`, `PushRemove`, `PushClear` and `Pop` are the arms of
`push` and `pop`. `source` and `replica`, the map after everything pushed and
after everything popped, are the only additions. `Modulus` stands for the width
of `usize`.

**Uplinks.** The struct `Uplinks` is the variable `u` and its methods are
operators on it (`PushSpecial`, `PushEvent`, `PushSynced`, `ReplaceAndPop`), as
one handler of the write task calls several. A write is the sequence of
notifications that `perform_write` sends; `view` is the newest version of each key that
the remote was sent in its link (`Received`). Bodies are versions; a clear is an event on
every key. An event with an empty body brings no version but, as `downlink/mod.rs:674`
says, is an event like any other: the remote has the empty body from then on. `emptied`
has the lanes of which it does, `left` those that had a place in `write_queue` when a link
of theirs was closed. Both are additions, and every property that speaks of the state of the
remote goes by them. `EmptyAssumption` says that an empty body and a missing entry are no
body and no entry.

**WriteTask.** One action per message or event of the loop (`Attach`, `Link`,
`Unlink`, `Broadcast`, `Respond`, `LaneFailed`, `Prune`, `WriteDone`,
`WriteFailed`, `Stop`, `StoreFails`) and of the cleanup (`WriteDone`,
`WriteFailed`, `Dispose`, `CleanupTimeout`). `forward`, `backwards`,
`total_count` and `link_count` are the fields of `Links`; a connection is what
the far side was told. A handler pushes to a remote some link messages and then at
most one event (`PushAll`): the first takes the writer if it is home, the others wait. Ticks stand for the passing of the prune delay.

**AgentRuntime.** `att`, `read`, `write` and `http` say where each task is; an
`await` on a full queue is a place of its own (`reserve_write`, `send`,
`hand_over`, ...), where the task sees neither its queue nor the stop signal.
`readQ`, `writeQ` and `httpQ` are the bounded channels, `names` and `senders` the
lanes the read task knows and can still write to, `votes` the flags of the vote,
`voted` the local variables of the tasks and `cast` the `voted` of their voters, which
no rescind clears: a task that ends votes only if it never did. A task votes once until it
rescinds, and ends itself if its vote is the last one.
What the write task does with a request is `WriteTask`; here only its effect on
the vote and on the queues is kept.

**ExternalLinks.** `outputs` has the `AdHocOutput` of each endpoint with `writer`,
`lane_buffers` (the records and the offset behind which they may be overwritten)
and `dirty`; `sent` is the buffer that goes with the writer. One action per arm of
the loop. `taken` and `received` are additions: what an output was given and what
its endpoint got. The last three are kept target by target: a buffer is for
several targets, of which each reads its own, so that the order of records for different
targets is not kept.

**AgentStore.** `entry` is the `NodeEntry` of the node with the one place to wait,
`channel` the instance the server knows; `held` is the `NodeState` that an instance
owns, `memory` its items. `AddItem`, `SendFrame`, `ItemReady` are the runtime's side
of the initialisation, `ReadFrame`, `ReadComplete`, `OnStart` the agent's. A change
goes from `queue` (what the item has to write) by `WriteOut` to `out` (its channel)
and by `HandleEvent` to the store and to `told`. `overlap` says that the server
starts the next instance before the last one is destroyed, the case for which
`NodeEntry::InUse` has a place to wait (`in_memory_store/mod.rs:48`); the other
server waits for the future of the agent to be dropped.

**DownlinkRuntime.** `r` and `w` hold the local state of the read and the write
task, `attach`, `consumer_q` and `producer_q` that of the attachment task. One
action per arm of the `select` of each task; the arms of the read task that
`flush` are one with the branch they are in. The lane, the consumers and the
stop trigger are external.

**CircularBuffer.** One action for every access of `send`, `poll_consume_queue`
and the `Drop` of the sender to the queue, to `permits`, to `sender_active` and
to the waker. Records are numbered as they are sent.

**Trigger.** The sender stores the value, upgrades its reference, sets the flag
and empties the slab in steps of its own; a receiver looks at the flag and then
registers under the lock. `slot` is the place of its waker in the slab.
`ClonesPolled` allows a receiver to be cloned after it has been polled.

**Readers.** A channel is reached under its lock: each of `Write`, `PollChannel`
and `Close` is one step, but a writer that wakes the reader first sets the flag of its stream (`SetFlags`) and then wakes the task (`WakeTask`).
`flags`, `local` and `queue_flags` are the bits of the buckets, their local copy
and those that are being worked through. Frames stand for bytes. `WakerAssumption`
says that a waker of a stream, that of the writer and none can be told apart.

**LaneQueues, AgentTask.** `Push` and `PopEvent` are `EventQueue`, `PushSyncs`
and `PopQueues` are `WriteQueues`. The keys that are to be sent to a remote come in the order
of a hash map, which is any: they are a set, from which `PopQueues` takes one. A turn of `run_agent` is `BeginHandler`, the
steps of a handler (`MapLaneUpdate`, `ValueLaneSet`, `CueKey`, ...) with what they
mark, and `EndHandler`, which writes what is dirty; `WriteComplete` is the event with which a writer comes back. `WriteMap`,
`WriteDemandMap`, ... are `write_to_buffer` of each kind. `view` and `seen` are
what one remote has made of the responses.

**HostedDownlink.** `held` is `MapDlState` (a value downlink has one key), `next`,
`dl_state`, `receiver`, `output` and `stop_rx` are the fields, `stage` is where the
future of the downlink is in the loop of the agent. `StopSeen`, `ReadNext`,
`ReadEnd`, `NoReceiver`, `WriteFails` and `WriteEnds` are what `select_next` can
come back with. `content`, `session` and `input` belong to the lane at the other
end, which may change between two sessions.

**Connector.** `at` says where each request is: in which table of
`PendingDownlinks` or in which future. `flow` is what is under way for a host,
`clients` and `locals` the handles with the runtimes they offer, `run` the
runtimes, `channels` and `socket` the connections, `server` and `task` the stages
of the two loops.

**RemoteTask.** `incoming` is where the task that routes is, `routes` its
`agent_routes`, `find` the request to the server that it waits for, `agent` and
`known` the instances that run and the ones the server knows of, `half` the two
halves of a downlink that is being attached.

**JoinLanes.** `links` is the map of that name of `Links` (of a value lane `keys`),
with "None" for a link that is not there; `ownership` and `inner` are the fields,
`inner` reduced to the keys that have an entry. `marked` is `inner` when a handler
last returned a `modified_item`. `hosted` has the downlinks of a link in the order in
which they were opened. The loop of the agent takes what a downlink has read and runs its
handler to the end before it does anything else (`agent_model/mod.rs:1148`), so that
reading and handling are one step. `AddDownlink` looks only at whether there is the link, as
the code does: an earlier downlink of the link may still run. `alone` is an addition, it
says of a downlink that none did when it was opened.

Atomics are taken as sequentially consistent; weaker orderings are not explored.

## 3. Runs

All passing runs check every reachable state of their instance.

| Run | Instance | What it shows |
|---|---|---|
| `lifecycle` | vote: 3 voters, any calls | `IInv` is an invariant, which contains that a task's own idea of its vote agrees with the flags, that no wake-up is lost and that the answer `Unanimous` is true; the receiver completes; `VoteSpec`, and so finality, is implemented |
| | store: a value lane, a map store of 2 keys and a transient lane; 3 instances, 2 changes; the store fails, initialisation times out | `StoreInv`: the state is in one place, holds what anybody was told, and an instance that runs differs from it by changes on their way only; `StoreSettles`: a start ends, what a handler changed is saved |
| `store_stop` | the store, with no failures and no changes by `on_start` | *violation*: finding F3 |
| `queues` | map queue: 3 keys, 2 values, epochs modulo 5 | `IInv`; every key queued is sent; `MapRelaySpec` is implemented |
| | circular buffer: capacity 2, 5 records | `BufferIInv`; received in order; the newest arrives |
| | external links: 3 commands to 2 lanes of a host, 1 retry, 1 downlink request | `LinksInv`: every command has arrived, is on its way or was overwritten by a later one for its lane, which is the last to arrive; `LinksSettle`: unused outputs are closed and requests answered |
| `remotes` | uplinks: an agent with a value and a supply lane, one with a value lane, one with a supply lane, one with a map lane of 2 keys | `UplinksInv`: queues agree with each other, events only within a link, an idle remote was sent everything, and an empty event, which takes its state from it again, is written in two known cases only; synced means current but for these cases, which are named; versions never go back and supply records are neither lost nor repeated |
| | registries: 1 remote with 2 lanes, 2 remotes sharing a lane | `RegistriesInv`: the indexes of links agree and an idle remote has a timer; a linked one is not pruned; all are told when the task stops in time |
| `downlink` | 2 consumers that join and leave a value downlink; 1 that issues 2 commands to a value or map downlink | synced consumers have the value of the lane; the last command arrives, in order; a unanimous vote means no consumers |
| | join lanes of both kinds: 2 links, 2 keys, 2 downlinks for one of the links | `JoinInv`: a downlink that runs, and was opened when no other of its link did, is the one that removing the link stops, has its messages taken and is the only one of its link; a link taken for linked is; with `Delete`, no entry of a value lane outlives the downlink that set it and every entry of a map lane has an owner; the agent has been told of every entry |
| `join_clear` | a join map lane, the same links and keys | *violation*: finding F4 |
| `agent` | queues of one place; a lane added while remotes attach; an agent used in every way; a lane and a store dropped | `AgentInv`: a link request finds its remote and no task votes with work in hand; a stop ends all four tasks and an unused agent stops, unless a hand over is in the way (section 6) |
| `wakeups` | trigger: 3 receivers that are cloned, polled, dropped | `TriggerIInv`; every copy completes |
| | 3 channels of one frame in buckets of 2, a budget of 2 | `ReadersInv`: neither side waits for a wake-up that will not come; every channel is served, whatever the others do |
| `lane` | each kind of lane, 2 keys, 2 remotes that sync, epochs modulo 3 | `LaneInv`: queues are sound and lose nothing that a remote is owed; syncs end; changes are reported |
| | each kind of hosted downlink, 2 keys, 1 retry | `CaughtUp`: a synced downlink is the lane but for what is in the channel; `DownlinkEnds`: stopped downlinks go, reconnection comes to an end |
| `lane_remove` | a map lane from which missing keys are removed | *violation*: finding F1 |
| `server` | connector: 2 requests, a host, 2 connections, 3 runtimes | `ConnectorInv`: handles offer runtimes of their lane, and the stages of the stop follow one another; every request is answered; the server stops |
| | remote task: 3 envelopes, an agent of 2 instances, a downlink | envelopes arrive in order at agents that are heard; each is dealt with; the three tasks end together |
| | vote: 2 voters that rescind only a standing vote | the answer `Unanimous` is true in the two-party case |
| `server_stop` | the connector, with a stop while a connection opens | *violation*: finding F2 |

### Bounds, and why they are enough

- *Vote*: three is the number of voters of an agent runtime and the smallest
  that uses the loop; two is that of a downlink runtime. The theorems cover the
  rest.
- *Map queue*: three keys let an operation hit the head, the middle and the tail;
  modulo 5 the epochs wrap with a full queue in any position. The theorems cover
  any finite set of keys and any width that leaves room for them.
- *Circular buffer*: capacity 2 distinguishes full, half full and empty; 5 sends
  fill it twice and leave one to evict. The theorems cover every capacity and
  any number of sends (`MaxSends` is any natural number).
- *External links*: two lanes of one host share an output, so that a write has one
  or several targets; three commands are one being written and two that wait, of
  which one may overwrite the other.
- *Uplinks*: two events per lane are the least with conflation after a write; a lane that
  shares the writer has one, the same kinds of lane have two where they are alone; `MaxSpecials = 1` link message waits while another is written, and
  `MaxPlaces` lets a lane be in `write_queue` twice (see section 6). The theorems cover
  any number of each.
- *Store*: three instances are one that writes, one that restores and one that
  takes over from it; two changes are one that is saved and one on its way, or two
  of one item; a channel of one frame blocks both sides.
- *Write task*: `MaxWaiting = 2` link messages per remote, `MaxTimers = 2`
  pending timers: an old timer and the one that replaces it. Each remote attaches
  once.
- *Downlink runtime*: `QueueSize = 1` is the smallest attachment queue, so that
  the attachment task blocks; `MaxChannel = 2` messages in flight make the write
  task block; one change of the lane beside those the commands cause; two
  commands: one being written, one waiting. The first of two may have an empty
  body. Two consumers are looked at with a command or a change of the lane, and
  one with both.
- *Agent runtime*: queues of one place block as often as they can; two envelopes
  are one in hand and one behind it.
- *Trigger*: three receivers are two that wait and one that is cloned from them.
  The theorems cover any number.
- *Readers*: three streams fill one bucket and begin another; a budget of 2 runs
  out between two streams of a bucket; the theorem covers any number of each. `Default` is the budget a task is given once
  it has run out (`DEFAULT_START_BUDGET`, 64); with as many as there are streams none
  is kept out by the others (section 6).
- *Lanes*: two keys distinguish the operations that meet from those that do not;
  modulo 3 the epochs wrap in every position; two syncs take turns. The theorem covers any
  number of each.
- *Join lanes*: two links are enough for a key to change hands and be taken from
  either; a link that is opened twice meets what its first downlink left, and that
  downlink itself while it still runs.
- *Hosted downlinks*: a change in the channel while another is handled
  (`MaxBehind`); take and drop of one of two keys; one retry distinguishes a first
  attempt, a repeated one and giving up. `AddAfterTake` is explained in section 6.
- *Connector*: two requests meet at the same host, lane, runtime or connection;
  a second connection follows one that ended; the third runtime is one that starts
  while two wait for their end to be noticed. `StopOpening` and `AttachLate` are
  FALSE: a server is not stopped while a connection opens, which is F2, and
  `attach_link_local` is in time (section 6).
- *Remote task*: three envelopes are one sent over a route, one that finds it
  broken and one that follows; two instances are one that stops and its successor.

Deadlock is not checked where the system may stop: a vote that has been decided,
a runtime, task or server that has ended, a channel with an end dropped, or an
instance in which a bound has been used up.

### Fairness

Users, remotes and failures are never fair: nobody has to vote, send, link, sync
or stop, and nothing has to fail.

- `lifecycle`: a call that was made runs to its end, and the executor polls the
  receiver it has woken. Both sides of an instance go on, and one that has ended is
  destroyed; an instance need not stop.
- `queues`: the writer drains the map queue, since `replace_and_pop` and the write
  task of a downlink go on with the next write whenever one completes; pushes may
  outrun it. Both ends of the circular buffer run on, and a receiver is polled when
  it is not asleep or has been woken. The server answers a request of the external
  links with success or failure, a write ends, and timers expire.
- `agent`: each of the four tasks goes on when it can, as one future joins and
  polls them all; its timers expire, and the lanes take what is sent to them.
- `wakeups`: the sender of a trigger and a receiver under way run on; one that
  sleeps is polled when it was woken. The reader runs when it was woken, and a
  writer that has begun to wake it does.
- `lane`: a turn of the loop ends (weak), and a writer that keeps coming back is
  taken (strong: writes complete only between turns, where the biased `select!` of
  `agent_model/mod.rs:1050` takes a finished write before any other event but the end
  of a sent command).
  The loop polls a hosted downlink that can go on, and attempts to open one end.
- `server`: the loops, futures, runtimes and connections that were told to stop go
  on; one that was not told need not end.

`remotes` and `downlink` state safety only.

## 4. Findings

- **F1 `lane_remove`**: `MapLaneRemove::step` marks its lane as changed even when
  the key was not there and nothing was queued (`lanes/map/mod.rs:258`). The loop
  takes the writer of a marked lane, is told `NoData` and drops the writer
  (`agent_model/mod.rs:1453`): the lane never writes again. The flag is documented
  as "The lane has data to write." (`event_handler/mod.rs:385`).
- **F2 `server_stop`**: while downlinks stop, the loop of the server does not poll
  `client_tasks` (`runtime/mod.rs:422`), so that a registration that is being
  opened is neither answered nor dropped; the connection task waits for it before
  it ends (`downlinks/mod.rs:591`), and the server for the connection task.
- **F3 `store_stop`**: an event of a lane is saved when the write task has read it.
  When the agent stops, the task drops the channels of the lanes unread
  (`clear_lanes_and_stores`, `agent/task/mod.rs:1917`), so that the last changes are
  not in the state that the next instance restores. `docs/define.md:113` says that
  "if the agent is stopped and then later restarted, the state of the lanes will be
  restored." What remotes were told is never lost (`ToldIsKept`).
- **F4 `join_clear`**: `Links::insert` adds a key to the keys of its link and then
  takes it from those of its previous owner, which may be the same link
  (`lanes/join/map/mod.rs:115`). After a second update of a key its link owns the key
  and does not have it, and a clear, which goes by the keys, leaves the entry;
  `map/mod.rs:64` says that "all keys owned by that link will be removed from the
  map." The same entry survives a take, a drop, the end of the link with `Delete`,
  and its removal. If the previous owner is left alone when it is the link itself,
  `ClearRemovesOwned` and `JoinInv` both hold on this instance.

### Properties that do not hold

The modules also state these properties, which the code does not have. No run is
kept for them; each line says what to add to a configuration to see it.

| Property | How to see it | What happens |
|---|---|---|
| `DropNeverDeadlocks` | property of `TimeoutCoord` with `SPECIFICATION DropSpec`, `Voters = {v1, v2}` and `TracksOwnVote = FALSE` | `Drop` votes only if `voted` was never set, and `rescind` does not clear it: the receiver waits for ever for a party that voted, rescinded and was dropped, against the comment at `timeout_coord/mod.rs:223` |
| `SyncedHasState` | invariant of `remotes.cfg` | the event and the synced message of a sync are two responses; if the writer is home for the first and out for the second, only Synced waits for the value uplink, `replace_and_pop` takes a body that is not there (`uplink/mod.rs:280`, `backpressure/mod.rs:146`), and an event with an empty body goes before Synced. The other side passes it on (`downlink/mod.rs:674`: "it's valid Recon for an empty event envelope to be sent"): the downlink is synced with the empty body in place of the state of the lane, against `docs/downlink.md:24` ("a consistent view of the state of the remote lane has been assembled in the downlink") |
| `WriterNotLost` | invariant of `remotes.cfg` | `Uplinks::push` takes the writer before it returns `InvalidKey` (`uplink/mod.rs:153`): the remote hears nothing more |
| `ReportedIsActual` | invariant of `remotes.cfg` | when a failed write takes the last remote of a lane, the reporter goes with the entry (`links.rs:286`): later links are not counted |
| `NobodyForgotten` | invariant of `downlink.cfg` | the Synced that answers a new consumer is taken before the consumer is (`downlink/mod.rs:607`); nobody asks again |
| `EndsDrained` | invariant of `queues.cfg` | a record sent, with the sender then dropped, between the receiver's looks at the permits and at `sender_active` is never received (`circular_buffer/mod.rs:224`; `:32` promises the rest of the data) |
| `CombinedStopEnds` | property of `agent.cfg` | on a stop the attachment task waits for the read task to take a lane while both queues are full (`agent/task/mod.rs:1789`, `:942`, against `:614`) |
| `TimeoutIsReported` | invariant of `agent.cfg` | a vote decided by another task is reported as a stop (`agent/task/mod.rs:1898`, against `agent/mod.rs:301`) |
| `SentOnce` | invariant of `queues.cfg` | the send buffer that comes back with the writer is appended to without being cleared (`external_links/mod.rs:240`): commands arrive again |
| `OrderKept`, `CaughtUp` | `lane.cfg` with `AddAfterTake = TRUE` | a key added to a hosted map downlink after take or drop is missing from the order the next one uses (`hosted/map/mod.rs:119`, against `:79`) |
| `PairsAreSet` | invariant of `downlink.cfg` | a link is removed and added again while its earlier downlink still runs, which `add_downlink` does not look at (`lanes/join/map/mod.rs:422`); the end of the earlier one removes the new link (`lanes/join/map/downlink/mod.rs:529`). The new downlink runs on, as a `stop_tx` that is dropped is no signal to stop (`hosted/event/mod.rs:158`): nothing can stop it, and a map lane ignores what it receives, against `agent_lifecycle/utility/mod.rs:830` ("All key-value pairs received on the downlink will be set into the map state of the lane."). The same happens in a join value lane, where what it receives is still set |
| `NoLostTrigger` | `wakeups.cfg` with `ClonesPolled = TRUE` | a clone of a receiver that was polled shares its slot in the slab (`trigger/mod.rs:46`) |
| `DirtyHasData` | `lane_remove.cfg` with `Kinds = {"demandMap"}` | as F1, for a demand map lane whose key has no value (`lanes/demand_map/mod.rs:155`) |

## 5. Proofs

Eight modules hold theorems; every obligation is proved by SMT, Zenon or LS4. A module
has the proofs of two components where TLC checks these in one run, or where
one serves the other.

**LifecycleProofs, the vote** (any finite set of two or more voters; `TracksOwnVote`
either way). `IInv` adds to the properties where the calls in progress stand: a
voter between its decisive vote and its wake has seen unanimity, one between load
and exchange has not, a flag that is set was set by its owner, and a receiver past
its registration has left a waker or been woken. Without the third,
`StandingAgrees` is not preserved by a rescind; without the last, `NoLostWake` is
not preserved by a decisive vote that finds the receiver asleep. From it:
`ToldTheTruth`, `WakeNeverLost`, `Finality` and `Refinement` (`Spec => VoteSpec`).
`ToldTheTruth` needs three voters or voters that rescind only a standing vote
(section 6).

**LifecycleProofs, the store** (any items, finite sets of cells, numbers of instances
and changes; `CellsAssumption`: a clear is no cell). `StoreIInv` says for each
instance how far it has come with each item (`Initialising`): what the item has not got
is still to be sent or on its way, no frame follows `InitComplete`, and an item
is ready only with all of it (`Restores`). Once the item has acknowledged, `AllThere`
takes over: for each cell, what the item has is queued, or the last operation on the
cell in the channel says it, or, with none there, the store has it. `Formed` is needed
for the step from the one to the next: a queue has an operation of a cell
once, and a clear only at its head, as it would otherwise wipe in the store what
was queued before it. `Whereabouts` says who has the state: at most one
instance is live, and the plane has the state when none is. `ToldIsSaved` is
inductive because `HandleEvent` saves before it relays. From it: `StateKept`.

**QueuesProofs, the map queue** (any finite set of keys, any set of values, any modulus with
room for the keys, a clear and one more). `IInv` is the conjunction of
`SlotsAgree`, `OnePerKey` and `NothingLost`. The wrapped difference of two epochs
is the distance of their positions as long as the queue is shorter than the
modulus; `OnePerKey` bounds its length by the number of keys and one, through an
injection into the keys, so that `SlotsAgree` survives a push at the tail.
`NothingLost` needs both: the entry an operation replaces is that of its own key.
From it: `Drained`, `Positions` and `Refinement` (`Spec => MapRelaySpec`).

**QueuesProofs, the circular buffer** (any capacity above 0, any number of records).
`BufferIInv` says that permits, queue and the permits in hand add up to the
capacity; that the permits the sender saw are still there, since only it takes
any; that the queue is an unbroken run of records that ends with the newest, above
what the receiver has; and that a receiver which sleeps has left a waker, with a
wake-up on its way whenever a permit is missing or the sender has gone. The run of
records makes "received in order" and "newest kept" inductive, the count of
permits makes them survive an eviction that races a receive. From it:
`PushFindsRoom` (the `expect` in `send` cannot fail), `NewestNotLost`,
`WakeNeverLost`, `InOrder`.

**QueuesProofs, the external links** (any addresses and endpoints, any number of commands and of attempts
to open). `LinksIInv` keeps an `Account` of each target of each output, from the
commands that were taken for it to what it got: what may be overwritten is behind
the offset; a buffer that is not empty is marked and ends with the last command;
and if it is empty, the last command ends what is being sent or, where nothing is, what
has arrived. The buffer that comes back with the writer still ends with what it sent
(the sequence of `SentOnce`, section 4): the account says of it that it ends with the
last command when nothing waits, so that this one is again the last to arrive. An output whose writer is home has nothing to write
(`~CanWrite`): it is what turns the account into `CommandsKept`. Appending, writing and the end of
a write each keep the account (`AppendAccount`, `WriteAccount`, `ReturnAccount`).
From it: `CommandsArrive`.

**WriteTaskProofs** (any finite sets of remotes and lanes). The first half,
`IndexInvariant`, holds however often one id is attached: `total_count` is the
cardinality of the relation that `forward` and `backwards` both describe, so that
each of `insert`, `remove`, `remove_lane` and `remove_remote` is a theorem about adding
or removing a set of pairs; and a timer at the head is spent either on a remote that has links or
together with the remote it removes, so that an idle remote always keeps one. The
second half needs that no id is attached twice, section 6 says
what happens otherwise. `WillBeLinked` is what a remote will believe once it has
read the write in progress and everything that waits: `KnowsItsLinks` says that this
is what `backwards` says, and is preserved because only the last message about a
lane counts (`LastWordOfTail`, `LastWordOfBoth`), whether a message is written at
once, waits, or moves from the queue to the writer. `SendersAgree` is needed for it: a sender is
home, with nothing waiting, or in exactly one write. When the cleanup ends with no write in
progress, what will be believed is what is believed, and no links are left:
`StopUnlinksAll`. From it: `RegistriesInvariant`; and `LinkedRemotesStay`.

**UplinksProofs** (any disjoint sets of lanes, any keys, any number of events, link
messages and places in the queues). `UplinksInv` speaks of the moments when the
writer is home, or of the write in progress; what makes it inductive is an account,
for each lane, of everything between what was pushed (`sent`) and what the remote
has (`view`), in the order in which it will be written:
- `After`, the view when the write in progress is over; then `Linking` and `Base`,
  what the link messages that wait make of it: the lane is linked in the write task if
  and only if the last of them is a Linked, or there is none and the remote is linked
  already; an Unlinked among them means that the next events begin from nothing;
- `Owes`: the backlog of the lane leads from there to `sent`, key by key (`Leads`),
  and never back (`Ascends`), and has the shape that its backpressure strategy keeps
  (`ShapeOf`: one value; every supply record since some version, without a gap; at most one
  clear, at the front, and one event per key);
- `Queued`: a lane that counts as queued has a place, one with a backlog or a synced
  message counts, and a lane that is not linked has neither: this is where
  `push_special` has to purge the uplink when an Unlinked waits;
- `DueIsPushed`, `WithinLink`, `SyncedInTime`, `InOrder`: the three properties, said
  of the write in progress and of the view it will leave.

A second invariant, `EInv`, accounts for the empty events. A lane that never lost a link while
it waited has one place in `write_queue` and something to write there (`Placed`); so the
only empty event that can be written is that of a value lane with a synced message alone. And
once a value lane has sent its state for a sync, the remote has a body of it or one waits
(`Fresh`), up to the write that has Synced in it: that write begins with an empty event, or leaves
the remote with a body.

The argument then goes through the methods, not the handlers: `OwesPushed` and
`OwesTail` say what pushing to and taking from a backlog of each kind does,
`WriteForBrings` what a popped write brings the remote and leaves behind,
`PushSpecialKeeps`, `PushEventKeeps`, `PushSyncedKeeps`, `PushBadKeyKeeps` and
`PopKeeps` that each method keeps the account of every lane, its own and the others;
a handler is one or two of them in turn. That a lane can have two places in
`write_queue`, or one with nothing to write, is a case of `PopKeeps`: a place passed over
belongs to a supply lane that owes nothing or to a lane whose uplink is gone, and a lane
popped at its first place either has nothing left or goes to the end. From it: `UplinksInvariant`, `SyncedInTimeAlways` and
`InOrderAlways`.

**AgentRuntimeProofs, the tasks** (any remotes, lanes and stores, queues of any size). `RuntimeIInv` has
five parts. `QueuesFit`: no queue has more than its size, the reserved place
counted, and each holds only messages that its task knows. `TasksHold`: what a
task has in hand while it waits for room in a queue is fit to be sent. `HeardAnnounced`: if the
read task has heard of a remote, be it by its queue or by an envelope in hand, the write task has heard of it or
has it in its queue. This is what makes `RequestsResolve` inductive: the attachment task
tells the write task first and the read task only when it has, so that a request to
link comes behind the remote it is for; it rests on the order of two sends to two
queues. `VotersWait`: a task whose vote stands waits for its next event or has ended, so
that a vote is rescinded before any work; and a vote that stands was cast, so that a task that
ends adds none but its first. From it: `TasksAgree`.

**AgentRuntimeProofs, the lanes** (any finite sets of keys and remotes, any values, any
width of the epochs above the number of keys; `None` is no key, value or epoch).
`LaneIInv` says what a lane has, for the remote that is observed and for those that
are not:
- `QueuesSound` adds to `QueuesOK` that no epoch is beyond the end of the queue. It survives
  a push because a key that is not queued leaves an epoch free (`RoomForKey`, an injection
  of the queue into the other keys and the clear), and a pop because each place moves by one
  through the wrap-around (`PlaceAhead`);
- `MapSound` relates the queues to the map: a key that is still to be sent to some remote
  has a value, or its removal is queued; behind a clear, a key without an operation of its
  own has no value; a queued operation of a map lane is what has become of its key, so that no
  event is passed over; and what a demand-map lane has computed is the value there is, or
  a change of the key is queued after it;
- `MapHeld` and `ValueHeld`: the observed remote has what the lane has, but for what is
  `Coming`, and a remote that has not asked for anything has nothing and nothing is
  `UnderWay` to it. The latter makes it inductive: a response can only end a sync
  that was asked for.

`Taken` says what `PopQueues` takes and leaves (`PopSound`), `TakeNextKeeps` and `SyncsKeep`
what the handler of a demand-map lane makes of it, and `WriteKeeps` that a write of any lane
brings the remote what it no longer owes. From it: `LanesConverge`.

**DownlinkProofs, the runtime of a downlink** (any consumers, any finite set of keys, any number
of commands and changes). `DownlinkIInv` has four parts beside the types:
- `VotesOK`: a task whose vote stands has no consumer. The write task can have voted
  only while it is idle; the read task, only without anyone in any of its three sets;
- `LinkOK`: while the read task has not been linked, the Linked is at the head of what
  comes in, or the Link at the head of what goes out, or still to be sent. Without it the
  next part would not survive the end of a link that began with something left over;
- `ValueOK`: the last event that the lane has sent, whether in the channel or taken, has its
  value; a Synced has an event before it; and every consumer that asked for the
  state has what the read task has. From this and an empty channel: `SyncedHaveState`;
- `CommandsOK`: what has been received, what is in the channel, in the buffer and
  being written, and what waits in the relief are in the order of each key, the last
  command taken among them. An operation that overtakes another in the relief is of
  another key (`OneEach`). From it: `LastCommandArrives` and, as the lane receives from the head of this order,
  `KeyOrderKept`.

An empty body is left out of the account of the last command, see section 6. From
it: `ConsumersAndLaneAgree` and `KeyOrderKept`.

**DownlinkProofs, the join lanes** (any links, keys and numbers of downlinks, added, removed and
ending in any order). `JoinInv` is inductive. The end of a downlink removes
whatever link has its key, so that what must be excluded is that two downlinks of one link
run where the property speaks of one of them: a downlink that runs and was opened alone
has no other of its link beside it (the last part of `LinksAgreeWithDownlinks`). It survives
an addition because a link that is not there has nothing that runs and is `alone`
(`AddKeepsInv`), and a removal because the downlink that is stopped no longer runs. Of a
downlink that was opened beside an earlier one nothing is said, as nothing holds
(`PairsAreSet`, section 4). From it: `JoinInvariant`.

**ServerProofs** (any nodes, numbers of envelopes and of instances; any hosts, addresses, lanes,
requests, connections and runtimes). For the task of a connection, `RemoteIInv` orders
what a node has received, what is in the channel of its instance and the envelope in
hand (`Ordered`), and says that whatever the task sends to or remembers a
route to is read by the outgoing task (`RoutesHeard`): registration comes before
the first envelope. For the connector, `ConnIInv` says that a handle offers only a
runtime of its own lane and connection, whatever becomes of the runtime in between, and that
each stage of the stop leaves nothing behind that a later one would wait for
(`EndsInOrder`). `ForDownlinks` is needed, since only requests for downlinks wait for
a connection and are given a runtime. From these: `EnvelopesInOrder` and
`ConnectorOutlives`.

**WakeupsProofs, the trigger** (any set of receivers, none cloned after it was polled).
`TriggerIInv` adds two facts to `ValueIsThere`. `SlotsAreOwn`, no two receivers
have one slot in the slab and the waker in a slot is that of its owner, makes
`NoLostTrigger` inductive: it is what a poll that replaces a waker and a drop that
removes one need. `SenderAgrees`, where the sender is determines which of the
value, the flag and the wakers it has already seen to, makes `ValueIsThere`
inductive. From it: `TriggerInvariant`, `TriggerNeverLost`, `PromiseKept`. The
assumption about clones is needed, see `NoLostTrigger` in section 4.

**WakeupsProofs, the reader** (any number of channels, any capacity, buckets of any size, any
budget above 1). `ReadersInv` is inductive. `KeysAgree`: the slab and the buckets
grow together, no channel has two keys, and what is left to serve is of the bucket
that is worked through. `WakersAgree`: a waker in a channel is that of the stream
which reads from it, and only while there is nothing to read, although keys are used
again. `StreamsTracked`: for every stream there is a flag, a writer that is about to
set it, or a waker in its channel. `ScanMissesNone`: a flag set in a bucket that the
scan has passed comes with a wake-up of the task, because a writer sets the flag
before it wakes; without it, `SleepIsSafe` is not preserved by the step that ends a
scan. From it: `NobodySleepsThroughIt`.

Only model-checked:
- all liveness, since the prover does not reason about fairness and ENABLED;
- `CaughtUp` of `HostedDownlink`: what it says is computed by recursion over a sequence (the
  notifications applied one after the other), and the induction theorems of the library take an operator, which none of the
  provers here can instantiate;
- the properties of section 4 that do not hold, of course.

The theorems rest on the named assumptions of the modules alone. Those that say more than that a
bound is a number are the following: two voters at least; room in the epochs of the map queue and
of the queues of a lane for every key; finite sets of keys, cells and remotes; names of things that are told apart.

## 6. Other observations

Met while reading and modelling; no run is kept for them.

- *Vote.* With two parties, `rescind` without a standing vote answers `Unanimous`
  when nobody has voted (`timeout_coord/mod.rs:189`); the tasks never do that. A
  second `vote` after unanimity answers `UnanimityPending` (`:165`).
- *Uplinks.* An Unlinked that is sent while a lane is queued drops its relief and leaves
  its place in `write_queue`, so that a lane linked again can be there twice
  (`uplink/mod.rs:123`). The second place of a supply lane is skipped if nothing waits; a
  value lane writes an event with an empty body, and so does a map lane
  (`uplink/mod.rs:341`): `EmptyEventsAreKnown` has both cases.
- *Two attachments of one id.* If a remote attaches again while a write to its
  old connection is in progress, the sender that comes back is given to the new
  uplinks (`remotes/mod.rs:96`, `:143`), against the
  `debug_assert!(writer.is_none())` at `uplink/mod.rs:257`, and the links of the
  old connection are inherited without a Linked. The runs attach each id once.
- *Write task.* A response to a sync of a remote that has been removed links it
  (`task/mod.rs:1577`). A prune timer set before a link came and went may take the
  remote earlier than the delay after its last link.
- *Agent runtime.* After a failed flush a lane loses its sender but keeps its name,
  so that later envelopes for it are dropped without an answer. A task that holds a
  place it has reserved in a queue of size one can close a circle of waits; `agent`
  states its liveness for behaviours without a hand over in the way.
- *Trigger, readers.* `with_budget(1)` never makes progress. A reader with more
  streams that are always ready than the budget it restarts with can keep one of
  them waiting for ever.
- *Lanes.* A clear empties the sync queues too. Value and supply lanes answer all
  syncs before any event; command lanes never answer a sync. Drop and take
  commands to a map lane reach a `todo!`. Commands buffered by a handler that is
  rejected wait until the next that is not.
- *External links.* A failed write and a dropped request for a channel remove the
  output without `report_failed`, although its documentation says that the pending
  commands are reported. Outputs that are opening when the initialisation of an
  agent ends are handed over without their future; agents of this library ask for
  the channel only afterwards (`agent_model/mod.rs:971`). `RetryStrategy` computes
  `2 ^ retry_no`, an exclusive or, and `reset` keeps the start.
- *Store.* What `on_start` and `on_stop` change is queued but its item not marked
  (`agent_model/mod.rs:1522`): it is saved and sent only with the next change of the
  same item, and never if there is none. The server calls `node_store` for every
  lookup of a route, before it knows whether the agent runs
  (`server/runtime/mod.rs:567`); the future is dropped and its place to wait stays
  taken, so that where instances overlap a start that waits for the state fails
  with "Multiple copies of agent instance starting." Events of supply and command
  lanes are saved although nothing restores them, unless the lane is transient.
- *Hosted downlinks.* Dropping the handle clears `stop_rx`, and the downlink cannot
  be started again. After a failed write the lifecycle is told `on_linked` again
  without `on_unlinked`. Values waiting in the write stream are lost when the
  downlink reconnects.
- *Downlink runtime.* `ValueBackpressure::has_data` is false for an empty body
  (`backpressure/mod.rs:79`), so such a command that has to wait is dropped;
  `LastCommandArrives` leaves it out. A consumer without SYNC that joins a linked
  value downlink gets no events until the next Synced; a map consumer taken while
  the map is being sent is told Synced with what came after it joined. The read
  task notices that a consumer has gone only when it writes to it, so the runtime
  of a silent lane does not stop after `empty_timeout`. With
  `AlwaysIgnoreStrategy` a frame that cannot be interpreted is still dispatched,
  with what the buffer holds (`:707`).
- *Connector.* `socket_ready` extends one table with another, and the requests a
  lane already had there are dropped (`pending/mod.rs:123`). `RemoteStopped`
  removes whatever channel its address has now. A timeout of `attach_link_local`
  stops the whole server. A local request for a lane whose runtime is starting
  starts another.
- *Remote task.* An agent that stops just as an envelope is routed, or does not
  answer in time, makes `attach_agent` drop its promise, and the connection is
  closed with "Server is stopping.". The body of an Unlinked is kept only when it
  is empty (`task/mod.rs:842`).
- *Join lanes.* A key removed by another link stays in the keys of its owner, so
  that two links may come to have it. `JoinMapRemoveDownlink` leaves `ownership` as it
  is. An event of a downlink whose link was taken by the end of an earlier one (`PairsAreSet`) sets the
  entry of a value lane all the same; with `Abandon`, the default, it stays. Removing a downlink changes the lane
  without marking it, so that remotes are not told until something else does; a
  message that removes nothing marks it, with the consequence of F1. A downlink that
  could not be opened, or ended before it was linked, leaves its link pending, and
  adding it again does nothing; nor does adding it in `on_unlinked`, which runs before
  the link is removed. `Retry` is a `todo!`.

## 7. Not modelled

Most of the implementation's lines are conversions (forms, Recon, MessagePack,
codecs, route patterns), generated code (derive macros) and callbacks
(lifecycles): sequential code without a protocol, whose inputs are text and types.
They are outside the reach of a small instance, and the share of lines that is
mapped is small for that reason. Transport, RocksDB and HTTP are I/O; the R-tree
is floating point; introspection only reports.

What is left out of components that are partly modelled: of the downlink runtime
the failure strategies, the interpretation of map events and consumers that block;
of the write task lanes and stores added while it runs; of the agent runtime the
queue to the external links; of the byte channel the budget of writers; of the
lanes HTTP lanes; of hosted downlinks the values written through the
handle; of the server accepting connections; of the remote task one-way
attachments and responses. The client is planned.

## 8. Plan

1. The tasks of the client.
2. The composition of `AgentTask` with `Uplinks`: what a remote that syncs is owed
   from end to end.
3. Theorems: `CaughtUp`, the one invariant that is only model-checked (section 5), with the
   sequence it is about replaced by what the order of its elements is needed for.
