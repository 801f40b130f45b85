------------------------------ MODULE Readers -------------------------------
(***************************************************************************)
(* A MultiReader (swimos_multi_reader/src/reader/mod.rs) that reads from   *)
(* byte channels (swimos_byte_channel/src/channel/mod.rs) under their      *)
(* cooperative budget (coop/mod.rs), as the task of a connection reads     *)
(* from all the agents and downlinks it carries.                           *)
(*                                                                         *)
(* The writers run concurrently with the reader.  A channel is reached     *)
(* under its lock, and its writer wakes the reader with the lock held: it  *)
(* first sets the flag of the stream in its bucket, then wakes the task.   *)
(* Of the data only the number of frames is kept.                          *)
(***************************************************************************)
EXTENDS Naturals, FiniteSets, FiniteSetsExt

CONSTANTS
  N,           \* how many byte channels there are; they are added in this order
  Capacity,    \* the frames that fit into one
  BucketSize,  \* BUCKET_SIZE
  Budget,      \* the budget of the task that reads
  Default,     \* DEFAULT_START_BUDGET
  None,        \* no waker, no stream
  Writer       \* the waker of the writer of a channel

Channels == 1..N

ASSUME NAssumption == N \in Nat \ {0}
ASSUME CapacityAssumption == Capacity \in Nat \ {0}
ASSUME BucketAssumption == BucketSize \in Nat \ {0}
\* A budget of one is used up before anything is read: such a task is woken again
\* and again and never reads.
ASSUME BudgetAssumption == Budget \in Nat \ {0, 1} /\ Default \in Nat \ {0}

Slots == 0..(N - 1)

\* The two are told from each other, from a key and from a channel.
ASSUME WakerAssumption ==
  None \notin Slots \cup Channels /\ Writer \notin Slots /\ None # Writer

Bucket(k) == k \div BucketSize
Buckets == {Bucket(k) : k \in Slots}

VARIABLES
  data,      \* Conduit::data of each channel, in frames
  closed,    \* Conduit::closed
  waker,     \* Conduit::waker: None, Writer, or the key of the stream
  writer,    \* where each writer is: "idle", "waiting", "flag" or "wake"
  room,      \* the task of a writer has been woken
  waking,    \* the key in the waker that a writer has taken
  streams,   \* MultiReader::streams, the channel at each key
  vacant,    \* the keys that were given back
  flags,     \* stream_buckets: the keys whose flag is set
  buckets,   \* how many buckets there are
  local,     \* local_flags
  queue_flags, \* the keys to be served again
  current,   \* current_bucket
  task,      \* where the task is
  at,        \* the bucket a scan began with
  notified,  \* the task has been woken
  added,     \* how many channels have been added
  budget     \* TASK_BUDGET

channelVars == <<data, closed, waker>>
writerVars == <<writer, room, waking>>
readerVars == <<added, streams, vacant, buckets, local, queue_flags, current, task, at, budget>>
readersVars == <<channelVars, writerVars, readerVars, flags, notified>>

Added(c) == \E k \in Slots : streams[k] = c

ReadersInit ==
  /\ data = [c \in Channels |-> 0]
  /\ closed = [c \in Channels |-> FALSE]
  /\ waker = [c \in Channels |-> None]
  /\ writer = [c \in Channels |-> "idle"]
  /\ room = [c \in Channels |-> FALSE]
  /\ waking = [c \in Channels |-> 0]
  /\ streams = [k \in Slots |-> None]
  /\ vacant = {} /\ added = 0
  /\ flags = {}
  /\ buckets = 1
  /\ local = {} /\ queue_flags = {} /\ current = 0
  /\ task = "running" /\ at = 0
  /\ notified = FALSE
  /\ budget = Budget
-----------------------------------------------------------------------------
\* Conduit::wake on the side of the writer: if it is the reader that waits, its
\* waker is called next, with the lock held.
TakesWaker(c) ==
  /\ waker' = [waker EXCEPT ![c] = None]
  /\ IF waker[c] \in Slots
       THEN writer' = [writer EXCEPT ![c] = "flag"] /\ waking' = [waking EXCEPT ![c] = waker[c]]
       ELSE writer' = [writer EXCEPT ![c] = "idle"] /\ UNCHANGED waking

\* poll_write: a frame goes in, or the writer waits for room.
Write(c) ==
  /\ c <= added
  /\ writer[c] = "idle" \/ (writer[c] = "waiting" /\ room[c])
  /\ ~closed[c]
  /\ room' = [room EXCEPT ![c] = FALSE]
  /\ \/ /\ data[c] < Capacity
        /\ data' = [data EXCEPT ![c] = @ + 1]
        /\ TakesWaker(c)
     \/ /\ data[c] = Capacity
        /\ waker' = [waker EXCEPT ![c] = Writer]
        /\ writer' = [writer EXCEPT ![c] = "waiting"]
        /\ UNCHANGED <<data, waking>>
  /\ UNCHANGED <<closed, readerVars, flags, notified>>

\* Drop for ByteWriter, by a writer that may have been waiting: close_channel.
Close(c) ==
  /\ c <= added
  /\ writer[c] \in {"idle", "waiting"}
  /\ ~closed[c]
  /\ closed' = [closed EXCEPT ![c] = TRUE]
  /\ room' = [room EXCEPT ![c] = FALSE]
  /\ TakesWaker(c)
  /\ UNCHANGED <<data, readerVars, flags, notified>>

\* The waker that poll_next made: the flag of the stream ...
SetFlags(c) ==
  /\ writer[c] = "flag"
  /\ flags' = flags \cup {waking[c]}
  /\ writer' = [writer EXCEPT ![c] = "wake"]
  /\ UNCHANGED <<channelVars, room, waking, readerVars, notified>>

\* ... and then the task.
WakeTask(c) ==
  /\ writer[c] = "wake"
  /\ notified' = TRUE
  /\ writer' = [writer EXCEPT ![c] = "idle"]
  /\ waking' = [waking EXCEPT ![c] = 0]
  /\ UNCHANGED <<channelVars, room, readerVars, flags>>
-----------------------------------------------------------------------------
\* The task is polled.
TaskPoll ==
  /\ task = "asleep"
  /\ notified
  /\ notified' = FALSE
  /\ task' = "running"
  /\ UNCHANGED <<channelVars, writerVars, added, streams, vacant, flags, buckets, local, queue_flags, current,
                at, budget>>

NewKeys == IF vacant # {} THEN vacant ELSE {Cardinality({k \in Slots : streams[k] # None})}

\* A stream in the bucket that is being worked through joins it.
AddFlag(k) ==
  IF Bucket(k) = current
    THEN local' = local \cup {k} /\ UNCHANGED flags
    ELSE flags' = flags \cup {k} /\ UNCHANGED local

\* MultiReader::add, by the task that owns it, between two calls of poll_next.
Add(c) ==
  /\ task \in {"running", "asleep"}
  /\ c = added + 1
  /\ added' = c
  /\ \E k \in NewKeys :
       /\ streams' = [streams EXCEPT ![k] = c]
       /\ vacant' = vacant \ {k}
       /\ buckets' = IF Bucket(k) = buckets THEN buckets + 1 ELSE buckets
       /\ AddFlag(k)
  /\ task' = "running"
  /\ UNCHANGED <<channelVars, writerVars, queue_flags, current, at, notified, budget>>

\* get_next_stream with none left: those that were served go back to their bucket.
NextQueued ==
  /\ task \in {"running", "next"}
  /\ local = {}
  /\ flags' = flags \cup queue_flags
  /\ queue_flags' = {}
  /\ at' = current
  /\ task' = "scan"
  /\ UNCHANGED <<channelVars, writerVars, added, streams, vacant, buckets, local, current, notified, budget>>

\* The next bucket is emptied into the local flags.
Scan ==
  LET b == (current + 1) % buckets
      ready == {k \in flags : Bucket(k) = b}
  IN  /\ task = "scan"
      /\ current' = b
      /\ flags' = flags \ ready
      /\ local' = ready
      /\ task' = IF ready # {} THEN "next" ELSE IF b = at THEN "none" ELSE "scan"
      /\ at' = IF task' = "scan" THEN at ELSE 0
      /\ UNCHANGED <<channelVars, writerVars, added, streams, vacant, buckets, queue_flags, notified, budget>>

\* Nothing is ready: poll_next returns Pending, or None if there are no streams.
\* RunWithBudget: whatever wakes the task, its next poll begins with its budget.
Sleep ==
  /\ task = "none"
  /\ task' = "asleep"
  /\ budget' = Budget
  /\ at' = 0
  /\ UNCHANGED <<channelVars, writerVars, added, streams, vacant, flags, buckets, local, queue_flags, current,
                notified>>

\* get_next_stream while there are local flags: the key of the stream to poll.
Polled == Min(local)
Picks == task \in {"running", "next"} /\ local # {} /\ local' = local \ {Polled}

\* The flag of a key at which there is no stream any more.
PollNothing ==
  /\ Picks
  /\ streams[Polled] = None
  /\ task' = "next"
  /\ UNCHANGED <<channelVars, writerVars, added, streams, vacant, flags, buckets, queue_flags, current,
                at, notified, budget>>

\* consume_budget: with the last of it the task wakes itself, through the waker
\* of the stream, and the channel is not looked at.
PollNoBudget ==
  /\ Picks
  /\ streams[Polled] # None
  /\ budget = 1
  /\ budget' = 0
  /\ flags' = flags \cup {Polled}
  /\ notified' = TRUE
  /\ task' = "next"
  /\ UNCHANGED <<channelVars, writerVars, added, streams, vacant, buckets, queue_flags, current, at>>

\* What is left after consume_budget; 0 stands for None, which is set anew.
Consumed == IF budget = 0 THEN Default ELSE budget - 1

\* There is budget, and the lock of the channel is free.
PollChannel(c) ==
  /\ Picks
  /\ c = streams[Polled]
  /\ budget # 1
  /\ writer[c] \notin {"flag", "wake"}
  /\ UNCHANGED <<added, flags, buckets, current, at, notified>>

\* Mutant of Served: the stream is not queued again.
ServedOnce == UNCHANGED queue_flags

\* A stream that gave an item goes to the back of the queue.
Served == queue_flags' = queue_flags \cup {Polled}

\* Mutant of ReadWakes: the writer that waits is left alone.
ReadWakesNot(c) == UNCHANGED <<waker, room>>

\* Conduit::wake on the side of the reader.
ReadWakes(c) ==
  /\ waker' = [waker EXCEPT ![c] = None]
  /\ room' = IF waker[c] = Writer THEN [room EXCEPT ![c] = TRUE] ELSE room

\* poll_read finds a frame; poll_next returns it.
PollItem(c) ==
  /\ PollChannel(c)
  /\ data[c] > 0
  /\ data' = [data EXCEPT ![c] = @ - 1]
  /\ budget' = Consumed
  /\ ReadWakes(c)
  /\ Served
  /\ task' = "running"
  /\ UNCHANGED <<closed, writer, waking, streams, vacant>>

\* It finds the end: the stream is removed.
PollEnd(c) ==
  /\ PollChannel(c)
  /\ data[c] = 0 /\ closed[c]
  /\ budget' = Consumed
  /\ streams' = [streams EXCEPT ![Polled] = None]
  /\ vacant' = vacant \cup {Polled}
  /\ task' = "next"
  /\ UNCHANGED <<channelVars, writerVars, queue_flags>>

\* Nothing is there: the waker is left in the channel, and track_progress gives
\* the budget back.
PollPending(c) ==
  /\ PollChannel(c)
  /\ data[c] = 0 /\ ~closed[c]
  /\ budget' = Consumed + 1
  /\ waker' = [waker EXCEPT ![c] = Polled]
  /\ task' = "next"
  /\ UNCHANGED <<data, closed, writerVars, streams, vacant, queue_flags>>

ReaderStep ==
  \/ TaskPoll \/ NextQueued \/ Scan \/ Sleep
  \/ PollNothing \/ PollNoBudget
  \/ \E c \in Channels : PollItem(c) \/ PollEnd(c) \/ PollPending(c)

ReadersNext ==
  \/ ReaderStep
  \/ \E c \in Channels : Write(c) \/ Close(c) \/ SetFlags(c) \/ WakeTask(c) \/ Add(c)

ReadersSpec == ReadersInit /\ [][ReadersNext]_readersVars

\* The task goes on while it runs and is polled when it was woken; a writer that
\* holds a lock lets go of it.
ReadersFairSpec ==
  /\ ReadersSpec
  /\ WF_readersVars(ReaderStep)
  /\ \A c \in Channels : WF_readersVars(SetFlags(c) \/ WakeTask(c))
-----------------------------------------------------------------------------
ReadersTypeOK ==
  /\ data \in [Channels -> 0..Capacity]
  /\ closed \in [Channels -> BOOLEAN]
  /\ waker \in [Channels -> Slots \cup {None, Writer}]
  /\ writer \in [Channels -> {"idle", "waiting", "flag", "wake"}]
  /\ room \in [Channels -> BOOLEAN]
  /\ waking \in [Channels -> Slots]
  /\ streams \in [Slots -> Channels \cup {None}]
  /\ vacant \subseteq Slots /\ flags \subseteq Slots
  /\ local \subseteq Slots /\ queue_flags \subseteq Slots
  /\ buckets \in {b + 1 : b \in Buckets}
  /\ current \in 0..(buckets - 1) /\ at \in 0..(buckets - 1)
  /\ task \in {"running", "scan", "next", "none", "asleep"}
  /\ notified \in BOOLEAN
  /\ added \in 0..N
  /\ budget \in Nat

\* The first top keys, and no others, have a stream or were given back; only they
\* have a flag, and all of them have one in some bucket.
KeysBelow(top) ==
  /\ \A k \in Slots : k < top <=> (streams[k] # None \/ k \in vacant)
  /\ flags \cup local \cup queue_flags \subseteq 0..(top - 1)
  /\ \A k \in Slots : k < top => Bucket(k) < buckets
  /\ Bucket(top) <= buckets

\* The slab of streams and the buckets of their flags grow together, a key that
\* was given back has no stream, no channel is read at two keys, and what is left
\* to serve is of the bucket that is being worked through.
KeysAgree ==
  /\ \E top \in 0..added : KeysBelow(top)
  /\ \A k \in vacant : streams[k] = None
  /\ \A k \in Slots : streams[k] # None => streams[k] <= added
  /\ \A j, k \in Slots : streams[j] # None /\ streams[j] = streams[k] => j = k
  /\ \A k \in local \cup queue_flags : Bucket(k) = current

\* A waker leads to the stream that reads from the channel it was left in, and it
\* is there only while there is nothing to read.
WakersAgree ==
  \A c \in Channels :
    /\ waker[c] \in Slots => data[c] = 0 /\ ~closed[c] /\ streams[waker[c]] = c
    /\ writer[c] = "flag" => streams[waking[c]] = c

\* The task will come back to the stream at key k, or be woken for it.
Tracked(k) ==
  \/ k \in flags \cup local \cup queue_flags
  \/ writer[streams[k]] = "flag" /\ waking[streams[k]] = k
  \/ waker[streams[k]] = k

\* No stream is ever forgotten.
StreamsTracked == \A k \in Slots : streams[k] # None => Tracked(k)

\* The buckets a scan has been through.
Visited(b) ==
  \/ task # "scan"
  \/ at <= current /\ at < b /\ b <= current
  \/ current < at /\ (at < b \/ b <= current)

WakeComing == notified \/ \E c \in Channels : writer[c] = "wake"

\* A scan begins with nothing left to serve, and a flag that is set behind its back
\* comes with a wake up.
ScanMissesNone ==
  task \in {"scan", "none", "asleep"} =>
    /\ local = {} /\ queue_flags = {}
    /\ \A k \in flags : Visited(Bucket(k)) => WakeComing

\* The task never sleeps on something to read: if it does and no wake up is on
\* its way, every stream is empty and open, and its channel holds its waker.
SleepIsSafe ==
  (task = "asleep" /\ ~notified /\ \A c \in Channels : writer[c] \notin {"flag", "wake"}) =>
    \A k \in Slots :
      streams[k] # None =>
        data[streams[k]] = 0 /\ ~closed[streams[k]] /\ waker[streams[k]] = k

\* A writer that waits and has not been woken is the one whose waker is in the
\* only place there is, and the channel is full.
NoLostSpace ==
  \A c \in Channels :
    (writer[c] = "waiting" /\ ~room[c]) => waker[c] = Writer /\ data[c] = Capacity

\* Neither side of a channel waits for a wake up that will not come: the reader
\* for something to read, or a writer for room; with what keeps it so.
ReadersInv ==
  /\ ReadersTypeOK /\ KeysAgree /\ WakersAgree
  /\ StreamsTracked /\ ScanMissesNone
  /\ NoLostSpace /\ SleepIsSafe

\* Whatever the other writers do, a frame in a channel is read, and a channel
\* that was closed is read to its end and removed.
EveryChannelServed ==
  \A c \in Channels :
    /\ \A n \in 1..Capacity : (Added(c) /\ data[c] = n) ~> data[c] # n
    /\ (Added(c) /\ closed[c]) ~> ~Added(c)
=============================================================================
