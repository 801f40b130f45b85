-------------------------- MODULE DownlinkProofs --------------------------
(***************************************************************************)
(* Proofs about DownlinkRuntime, for any consumers and keys and however    *)
(* often the lane changes: the consumers of a downlink agree with the lane,*)
(* and what they send arrives in the order of each key. Proofs about       *)
(* JoinLanes, for any links, keys and numbers of downlinks: a join lane    *)
(* agrees with the downlinks that feed it.                                 *)
(***************************************************************************)
EXTENDS DownlinkRuntime, JoinLanes, SequenceTheorems, FiniteSetTheorems, TLAPS

-----------------------------------------------------------------------------
(* The runtime of a downlink.                                              *)

\* What the variables range over, for a downlink of either kind: messages to the lane,
\* notifications from it, and the states of the two tasks.
Ops == [key : KeysOf, number : Nat]
Commands == [type : {"Command"}, op : Ops]
Messages == Commands \cup {Link, Sync, Flush}
Events == [type : {"Event"}, key : KeysOf, version : Nat]
Notes == Events \cup {Linked, Synced, Unlinked}

ReadRecord ==
  [pc : {"run", "done"}, dl_state : {"Init", "Linked", "Synced"}, timer : BOOLEAN, voted : BOOLEAN,
   flushed : BOOLEAN, joined : BOOLEAN, current : Events \cup {Event(One, 0)}, sync_event : BOOLEAN,
   awaiting_linked : SUBSET Consumers, awaiting_synced : SUBSET Consumers, registered : SUBSET Consumers]
WriteRecord ==
  [pc : {"link", "idle", "writing", "done"}, job : Messages \cup {None}, voted : BOOLEAN, flushed : BOOLEAN,
   needs_sync : BOOLEAN, registered : SUBSET Consumers, data : Seq(Ops), buffered : Seq(Messages)]
ConsumerRecord == [asked : BOOLEAN, reads : BOOLEAN, writes : BOOLEAN, view : [KeysOf -> Nat]]
LaneRecord == [up : BOOLEAN, linked : BOOLEAN, state : [KeysOf -> Nat], seen : [KeysOf -> Nat]]
CountsRecord ==
  [version : Nat, command : Nat, limit : Nat, empty : SUBSET Nat, versions : Nat, taken : [KeysOf -> Nat]]

\* Every variable is of its type.
DownlinkTypeOK ==
  /\ kind \in {"value", "map"}
  /\ consumer_q \in Seq(Consumers) /\ producer_q \in Seq(Consumers)
  /\ votes \subseteq {"read", "write"}
  /\ r \in ReadRecord /\ w \in WriteRecord
  /\ cons \in [Consumers -> ConsumerRecord]
  /\ out \in Seq(Messages) /\ inn \in Seq(Notes)
  /\ lane \in LaneRecord /\ counts \in CountsRecord

\* A vote stands as long as its task has no consumer.
ReadVotes ==
  /\ r.timer \/ r.voted => InRead = {}
  /\ r.dl_state # "Init" => r.awaiting_linked = {}
  /\ r.pc = "done" => InRead = {}
  /\ "read" \in votes => r.voted \/ r.pc = "done"

\* ... and that of the write task, which also casts it only while it is idle.
WriteVotes ==
  /\ w.voted => w.pc = "idle" /\ w.registered = {}
  /\ w.pc = "done" => w.registered = {}
  /\ "write" \in votes => w.voted \/ w.pc = "done"

\* The votes agree with the consumers.
VotesOK == ReadVotes /\ WriteVotes

\* The lane has not been asked for a link, or has not answered.
NotLinked == inn = <<>> /\ ~lane.linked /\ ~r.sync_event

\* The link comes first, and there is one.
ReadStarts == r.dl_state = "Init" => r.flushed /\ ~r.sync_event
LinkOnItsWay ==
  r.dl_state = "Init" /\ r.pc = "run" =>
    \/ inn # <<>> /\ inn[1] = Linked
    \/ NotLinked /\ IF out = <<>> THEN w.pc \in {"link", "done"} ELSE out[1] = Link
WriteStarts == w.pc = "link" => NotLinked /\ out = <<>> /\ w.buffered = <<>> /\ w.data = <<>>
OneLink == \A n \in DOMAIN out : out[n] = Link => n = 1 /\ NotLinked
BufferedOK == \A n \in DOMAIN w.buffered : w.buffered[n] # Link
JobOK == w.pc = "writing" => w.job \in Commands \cup {Sync, Flush}

\* The link that opens the conversation with the lane.
LinkOK == ReadStarts /\ LinkOnItsWay /\ WriteStarts /\ OneLink /\ BufferedOK /\ JobOK

\* The last event, in q or else the one taken before, has this version.
LastEventHas(q, taken, current, version) ==
  /\ \A n \in DOMAIN q :
       q[n].type = "Event" /\ (\A m \in DOMAIN q : m > n => q[m].type # "Event") => q[n].version = version
  /\ taken /\ (\A n \in DOMAIN q : q[n].type # "Event") => current.version = version

\* The lane says what it has before it says that it has said so.
SyncedAfterEvent(q, taken) ==
  \A n \in DOMAIN q : q[n] = Synced => taken \/ \E m \in DOMAIN q : m < n /\ q[m].type = "Event"

\* A consumer of a value downlink that asked for the state has what the read task has.
ViewsAreCurrent ==
  \A c \in Reading(r.registered) \cap SyncConsumers : r.sync_event /\ cons[c].view[One] = r.current.version

\* What the consumers of a value downlink have follows from what the lane has.
ValueOK ==
  kind = "value" =>
    /\ lane.linked => LastEventHas(inn, r.sync_event, r.current, lane.state[One])
    /\ r.pc = "run" => SyncedAfterEvent(inn, r.sync_event)
    /\ ViewsAreCurrent

\* What has been written and not received: what is in the channel, what is in the
\* buffer, and the command that is being written.
Job == IF w.pc = "writing" /\ w.job \in Commands THEN <<w.job>> ELSE <<>>
Pipe == out \o (w.buffered \o Job)

\* The commands that wait and will be written.
Waits(d) == IF HasData(d) THEN {d[n] : n \in DOMAIN d} ELSE {}

\* A message that carries an operation of a consumer.
IsCommand(m) == m.type = "Command"

\* Commands for a key are in order: those received, those written, and the one that waits.
InOrder(p, ws, seen, taken) ==
  /\ \A k \in KeysOf : seen[k] <= taken[k]
  /\ \A i \in DOMAIN p : IsCommand(p[i]) =>
       /\ seen[p[i].op.key] < p[i].op.number /\ p[i].op.number <= taken[p[i].op.key]
       /\ \A j \in DOMAIN p : j < i /\ IsCommand(p[j]) /\ p[j].op.key = p[i].op.key
                                => p[j].op.number < p[i].op.number
  /\ \A o \in ws :
       /\ seen[o.key] < o.number /\ o.number <= taken[o.key]
       /\ \A i \in DOMAIN p : IsCommand(p[i]) /\ p[i].op.key = o.key => p[i].op.number < o.number
       /\ \A u \in ws : u.key = o.key => u = o

\* The last command that was taken for a key has been received or is on its way.
NotLost(p, ws, seen, n, k) ==
  \/ n \in counts.empty \/ seen[k] = n
  \/ \E i \in DOMAIN p : IsCommand(p[i]) /\ p[i].op.key = k /\ p[i].op.number = n
  \/ \E o \in ws : o.key = k /\ o.number = n

\* This is so of every key.
NoneLost(p, ws, seen, taken) == \A k \in KeysOf : NotLost(p, ws, seen, taken[k], k)

\* The numbers of the commands are given in order, and a key waits once.
TakenNumbered == \A k \in KeysOf : counts.taken[k] <= counts.command
OneEach(d) == \A n, m \in DOMAIN d : d[n].key = d[m].key => n = m

\* The commands on their way are in order and none that counts is missing.
CommandsOK ==
  /\ InOrder(Pipe, Waits(w.data), lane.seen, counts.taken)
  /\ TakenNumbered
  /\ OneEach(w.data)
  /\ w.pc \in {"link", "idle"} => ~HasData(w.data)
  /\ w.pc # "done" => NoneLost(Pipe, Waits(w.data), lane.seen, counts.taken)

\* The inductive invariant of the downlink.
DownlinkIInv == DownlinkTypeOK /\ VotesOK /\ LinkOK /\ ValueOK /\ CommandsOK

\* A downlink keeps its kind.
LEMMA SameKind == ASSUME [Next]_vars PROVE kind' = kind
BY DEF Next, Tasks, vars, AttachProducer, AttachStops, ReadTimeout, NewConsumer, OnLinked, OnSynced, OnEvent,
       OnUnlinked, ReadFlush, ReadChannelClosed, SendLink, IdleFlush, NewProducerIdle, WriteTimeout,
       NewProducerWriting, WriteDone, WriteChannelClosed, AttachConsumer, ProducerGone, Leave, StopWriting,
       TakeCommand, LaneChanges, LaneReceives, LaneUnlinks, ConnectionLost, Stop

\* What the variables range over depends on the kind alone.
LEMMA SameSorts ==
  ASSUME kind' = kind
  PROVE  /\ KeysOf' = KeysOf /\ Ops' = Ops /\ Commands' = Commands /\ Messages' = Messages /\ Events' = Events
         /\ Notes' = Notes /\ ReadRecord' = ReadRecord /\ WriteRecord' = WriteRecord
         /\ ConsumerRecord' = ConsumerRecord /\ LaneRecord' = LaneRecord /\ CountsRecord' = CountsRecord
<1>1. KeysOf' = KeysOf
  BY DEF KeysOf
<1>2. Ops' = Ops /\ Events' = Events /\ ConsumerRecord' = ConsumerRecord /\ LaneRecord' = LaneRecord
      /\ CountsRecord' = CountsRecord
  BY <1>1 DEF Ops, Events, ConsumerRecord, LaneRecord, CountsRecord
<1>3. Commands' = Commands /\ Notes' = Notes
  BY <1>2 DEF Commands, Notes
<1>4. Messages' = Messages /\ ReadRecord' = ReadRecord
  BY <1>2, <1>3 DEF Messages, ReadRecord
<1>5. WriteRecord' = WriteRecord
  BY <1>2, <1>4 DEF WriteRecord
<1> QED BY <1>1, <1>2, <1>3, <1>4, <1>5

\* Types under a step that keeps the kind.
TypesNext ==
  /\ consumer_q' \in Seq(Consumers) /\ producer_q' \in Seq(Consumers)
  /\ votes' \subseteq {"read", "write"}
  /\ r' \in ReadRecord /\ w' \in WriteRecord
  /\ cons' \in [Consumers -> ConsumerRecord]
  /\ out' \in Seq(Messages) /\ inn' \in Seq(Notes)
  /\ lane' \in LaneRecord /\ counts' \in CountsRecord

\* The read task is of its type when it starts and when it has ended.
LEMMA ReadDoneType == ReadTask("done") \in ReadRecord /\ ReadTask("run") \in ReadRecord
BY DEF ReadTask, ReadRecord

\* ... and so is the write task.
LEMMA WriteDoneType == WriteTask("done") \in WriteRecord /\ WriteTask("link") \in WriteRecord
<1>1. <<>> \in Seq(Ops) /\ <<>> \in Seq(Messages)
  OBVIOUS
<1> QED BY <1>1 DEF WriteTask, WriteRecord

\* A read task that looks for consumers is of its type.
LEMMA SettleFacts ==
  ASSUME NEW x \in ReadRecord
  PROVE  /\ Settle(x) \in ReadRecord
         /\ \A b \in BOOLEAN : [Settle(x) EXCEPT !.flushed = b] \in ReadRecord
         /\ \A b \in BOOLEAN : [Settle(x) EXCEPT !.joined = b] \in ReadRecord
BY DEF Settle, ReadRecord

\* ... and so is one that may have lost the last of them.
LEMMA JoinsType ==
  ASSUME NEW x \in ReadRecord, votes \subseteq {"read", "write"}, Joins(x)
  PROVE  r' \in ReadRecord /\ votes' \subseteq {"read", "write"}
<1>1. [x EXCEPT !.timer = FALSE, !.voted = FALSE, !.joined = FALSE] \in ReadRecord
  BY DEF ReadRecord
<1> QED BY <1>1, ReadDoneType DEF Joins, ReadStops

\* The read task: types.
LEMMA ReadTypes ==
  ASSUME DownlinkTypeOK,
         ReadTimeout \/ NewConsumer \/ OnLinked \/ OnSynced \/ OnEvent \/ OnUnlinked \/ ReadFlush \/ ReadChannelClosed
  PROVE  TypesNext
<1> USE DEF DownlinkTypeOK
<1>0. r \in ReadRecord /\ ReadTask("done") \in ReadRecord
  BY ReadDoneType
<1>00. inn # <<>> => Head(inn) \in Notes /\ Tail(inn) \in Seq(Notes)
  OBVIOUS
<1>1. CASE ReadTimeout
  <2>1. [r EXCEPT !.timer = FALSE, !.voted = TRUE] \in ReadRecord
    BY <1>0 DEF ReadRecord
  <2>2. r' \in ReadRecord /\ votes' \subseteq {"read", "write"}
    BY <1>0, <1>1, <2>1 DEF ReadTimeout, ReadStops
  <2> QED BY <1>1, <2>2 DEF ReadTimeout, TypesNext, attachVars
<1>2. CASE NewConsumer
  <2> DEFINE c == Head(consumer_q)
  <2>1. c \in Consumers /\ Tail(consumer_q) \in Seq(Consumers)
    BY <1>2 DEF NewConsumer
  <2> HIDE DEF c
  <2>2. /\ [r EXCEPT !.awaiting_linked = @ \cup {c}] \in ReadRecord
        /\ [r EXCEPT !.awaiting_synced = @ \cup {c}] \in ReadRecord
        /\ [r EXCEPT !.joined = FALSE] \in ReadRecord
    BY <1>0, <2>1 DEF ReadRecord
  <2>3. r' \in ReadRecord /\ votes' \subseteq {"read", "write"}
    BY <1>2, <2>2, JoinsType DEF NewConsumer, c
  <2> QED BY <1>2, <2>1, <2>3 DEF NewConsumer, TypesNext
<1>3. CASE OnLinked
  <2> DEFINE told == Reading(r.awaiting_linked)
             x == [r EXCEPT !.dl_state = "Linked", !.joined = FALSE]
             y == [x EXCEPT !.awaiting_linked = {}, !.awaiting_synced = @ \cup (told \cap SyncConsumers),
                            !.registered = @ \cup (told \ SyncConsumers)]
  <2>1. told \subseteq Consumers
    BY <1>0 DEF Reading, ReadRecord
  <2> HIDE DEF told
  <2>2. x \in ReadRecord
    BY <1>0 DEF ReadRecord
  <2>3. y \in ReadRecord
    BY <2>1, <2>2 DEF ReadRecord
  <2> HIDE DEF x, y
  <2>4. r' = Settle(y) \/ r' = x
    BY <1>3 DEF OnLinked, x, y, told
  <2>5. r' \in ReadRecord
    BY <2>2, <2>3, <2>4, SettleFacts
  <2>6. inn' \in Seq(Notes)
    BY <1>3 DEF OnLinked, NextMessage
  <2> QED BY <1>3, <2>5, <2>6 DEF OnLinked, TypesNext, attachVars
<1>4. CASE OnSynced
  <2> DEFINE told == Reading(r.awaiting_synced)
             x == [r EXCEPT !.dl_state = "Synced", !.joined = FALSE]
             y == [x EXCEPT !.awaiting_synced = {}, !.registered = @ \cup told]
  <2>1. told \subseteq Consumers
    BY <1>0 DEF Reading, ReadRecord
  <2> HIDE DEF told
  <2>2. x \in ReadRecord
    BY <1>0 DEF ReadRecord
  <2>3. y \in ReadRecord
    BY <2>1, <2>2 DEF ReadRecord
  <2> HIDE DEF x, y
  <2>4. r' = Settle(y) \/ r' = x
    BY <1>4 DEF OnSynced, x, y, told
  <2>5. r' \in ReadRecord
    BY <2>2, <2>3, <2>4, SettleFacts
  <2>6. inn' \in Seq(Notes)
    BY <1>4 DEF OnSynced, NextMessage
  <2>7. \A c \in Consumers : WithCurrent(c) \in [KeysOf -> Nat]
    <3> TAKE c \in Consumers
    <3>1. cons[c].view \in [KeysOf -> Nat] /\ r.current.version \in Nat
      BY <1>0 DEF ConsumerRecord, ReadRecord, Events, Event
    <3> QED BY <3>1 DEF WithCurrent, Seen
  <2>8. \A c \in Consumers : [cons[c] EXCEPT !.view = WithCurrent(c)] \in ConsumerRecord
    BY <2>7 DEF ConsumerRecord
  <2>9. cons' \in [Consumers -> ConsumerRecord]
    BY <1>4, <2>8 DEF OnSynced
  <2> QED BY <1>4, <2>5, <2>6, <2>9 DEF OnSynced, TypesNext, attachVars
<1>5. CASE OnEvent
  <2> DEFINE e == Head(inn)
             x == [r EXCEPT !.sync_event = TRUE, !.current = e, !.joined = FALSE]
  <2>1. inn # <<>> /\ e \in Notes /\ e.type = "Event" /\ inn' \in Seq(Notes)
    BY <1>00, <1>5 DEF OnEvent, NextMessage
  <2>2. e \in Events /\ e.version \in Nat
    BY <2>1 DEF Notes, Linked, Synced, Unlinked, Events
  <2> HIDE DEF e
  <2>3. x \in ReadRecord
    BY <1>0, <2>2 DEF ReadRecord
  <2>4. \A failed \in SUBSET Consumers :
          [x EXCEPT !.registered = @ \ failed, !.awaiting_synced = @ \ failed] \in ReadRecord
    BY <2>3 DEF ReadRecord
  <2> HIDE DEF x
  <2>5. r' \in ReadRecord
    <3>1. CASE Active
      <4>1. PICK failed \in SUBSET {c \in EventTargets : ~cons[c].reads} :
              r' = [Settle([x EXCEPT !.registered = @ \ failed, !.awaiting_synced = @ \ failed])
                     EXCEPT !.flushed = Subscribers([x EXCEPT !.registered = @ \ failed,
                                                              !.awaiting_synced = @ \ failed]) = {}]
        BY <1>5, <3>1 DEF OnEvent, x, e
      <4>2. failed \in SUBSET Consumers
        BY <1>0 DEF EventTargets, ReadRecord
      <4> QED BY <2>4, <4>1, <4>2, SettleFacts
    <3>2. CASE ~Active
      BY <1>5, <2>3, <3>2 DEF OnEvent, x, e
    <3> QED BY <3>1, <3>2
  <2>6. \A c \in Consumers : [cons[c] EXCEPT !.view = Seen(@, e)] \in ConsumerRecord
    BY <2>2 DEF ConsumerRecord, Seen
  <2>7. cons' \in [Consumers -> ConsumerRecord]
    <3>1. Active => cons' = [c \in Consumers |-> IF c \in EventTargets /\ cons[c].reads
                                                    THEN [cons[c] EXCEPT !.view = Seen(@, e)] ELSE cons[c]]
      BY <1>5 DEF OnEvent, e
    <3>2. ~Active => cons' = cons
      BY <1>5 DEF OnEvent
    <3> QED BY <2>6, <3>1, <3>2
  <2> QED BY <1>5, <2>1, <2>5, <2>7 DEF OnEvent, TypesNext, attachVars
<1>6. CASE OnUnlinked
  BY <1>0, <1>00, <1>6 DEF OnUnlinked, ReadStops, NextMessage, TypesNext, attachVars
<1>7. CASE ReadFlush
  <2> DEFINE x == [r EXCEPT !.flushed = TRUE, !.awaiting_synced = Reading(@), !.registered = Reading(@)]
  <2>1. x \in ReadRecord
    BY <1>0 DEF ReadRecord, Reading
  <2> HIDE DEF x
  <2>2. r' \in ReadRecord
    BY <1>7, <2>1, SettleFacts DEF ReadFlush, x
  <2> QED BY <1>7, <2>2 DEF ReadFlush, TypesNext, attachVars
<1>8. CASE ReadChannelClosed
  BY <1>0, <1>8 DEF ReadChannelClosed, ReadStops, TypesNext, attachVars
<1> QED BY <1>1, <1>2, <1>3, <1>4, <1>5, <1>6, <1>7, <1>8

\* The messages are what they are taken for.
LEMMA MessageTypes ==
  ASSUME NEW op \in Ops
  PROVE  Command(op) \in Commands /\ Command(op) \in Messages /\ {Link, Sync, Flush} \subseteq Messages
         /\ Command(op).op = op /\ IsCommand(Command(op))
BY DEF Command, Commands, Messages, IsCommand

\* A queue with one more operation is a queue.
LEMMA PushType == ASSUME NEW d \in Seq(Ops), NEW op \in Ops PROVE PushOperation(d, op) \in Seq(Ops)
<1>1. [i \in DOMAIN d |-> IF d[i].key = op.key THEN op ELSE d[i]] \in Seq(Ops)
  <2>1. DOMAIN d = 1..Len(d) /\ Len(d) \in Nat
    OBVIOUS
  <2>2. [i \in DOMAIN d |-> IF d[i].key = op.key THEN op ELSE d[i]] \in [1..Len(d) -> Ops]
    BY <2>1
  <2> QED BY <2>1, <2>2
<1>2. Append(d, op) \in Seq(Ops)
  OBVIOUS
<1> QED BY <1>1, <1>2 DEF PushOperation

\* The write task while it writes.
LEMMA WritingType ==
  ASSUME NEW x \in WriteRecord, NEW job \in Messages
  PROVE  Writing(x, job) \in WriteRecord
BY DEF Writing, WriteRecord

\* The write task with one more producer.
LEMMA RegisterType ==
  ASSUME NEW c \in Consumers, NEW x \in WriteRecord, IdleRegister(c, x)
  PROVE  w' \in WriteRecord
<1> DEFINE y == [x EXCEPT !.registered = @ \cup {c}]
<1>1. y \in WriteRecord
  BY DEF WriteRecord
<1>2. Sync \in Messages /\ Flush \in Messages
  BY DEF Messages
<1>3. [y EXCEPT !.needs_sync = @ \/ c \in SyncConsumers] \in WriteRecord
  BY <1>1 DEF WriteRecord
<1> QED BY <1>1, <1>2, <1>3, WritingType DEF IdleRegister

\* The write task after a write.
LEMMA AfterWriteType ==
  ASSUME NEW x \in WriteRecord
  PROVE  AfterWrite(x) \in WriteRecord
<1>1. [x EXCEPT !.needs_sync = FALSE, !.flushed = FALSE] \in WriteRecord
  BY DEF WriteRecord
<1>2. [x EXCEPT !.pc = "idle", !.job = None] \in WriteRecord
  BY DEF WriteRecord
<1>3. ASSUME HasData(x.data)
      PROVE  [x EXCEPT !.data = Tail(@), !.flushed = FALSE] \in WriteRecord /\ Command(Head(x.data)) \in Messages
  <2>1. x.data \in Seq(Ops) /\ x.data # <<>>
    BY <1>3 DEF HasData, WriteRecord
  <2>2. Tail(x.data) \in Seq(Ops) /\ Head(x.data) \in Ops
    BY <2>1
  <2> QED BY <2>2, MessageTypes DEF WriteRecord
<1>4. Sync \in Messages
  BY DEF Messages
<1> QED BY <1>1, <1>2, <1>3, <1>4, WritingType DEF AfterWrite

\* What has been flushed is in the channel.
LEMMA FlushedType ==
  ASSUME DownlinkTypeOK, NEW notes \in Seq(Messages), Flushed(notes)
  PROVE  out' \in Seq(Messages)
<1>1. out \in Seq(Messages) /\ w.buffered \in Seq(Messages)
  BY DEF DownlinkTypeOK, WriteRecord
<1> QED BY <1>1 DEF Flushed

\* The write task: types.
LEMMA WriteTypes ==
  ASSUME DownlinkTypeOK, LinkOK,
         SendLink \/ IdleFlush \/ NewProducerIdle \/ WriteTimeout \/ NewProducerWriting \/ WriteDone \/ WriteChannelClosed
  PROVE  TypesNext
<1> USE DEF DownlinkTypeOK
<1>0. w \in WriteRecord /\ WriteTask("done") \in WriteRecord
  BY WriteDoneType
<1>00. /\ <<Link>> \in Seq(Messages) /\ <<>> \in Seq(Messages) /\ <<Sync>> \in Seq(Messages)
       /\ producer_q # <<>> => Head(producer_q) \in Consumers /\ Tail(producer_q) \in Seq(Consumers)
  BY DEF Messages
<1>1. CASE SendLink
  <2>1. [w EXCEPT !.pc = "idle"] \in WriteRecord
    BY <1>0 DEF WriteRecord
  <2>2. out' \in Seq(Messages)
    BY <1>1, <1>00, FlushedType DEF SendLink
  <2> QED BY <1>1, <2>1, <2>2 DEF SendLink, TypesNext, attachVars
<1>2. CASE IdleFlush
  <2>1. [w EXCEPT !.flushed = TRUE, !.buffered = <<>>] \in WriteRecord
    BY <1>0, <1>00 DEF WriteRecord
  <2>2. out' \in Seq(Messages)
    BY <1>2, <1>00, FlushedType DEF IdleFlush
  <2> QED BY <1>2, <2>1, <2>2 DEF IdleFlush, TypesNext, attachVars
<1>3. CASE NewProducerIdle
  <2>1. [w EXCEPT !.voted = FALSE, !.needs_sync = FALSE] \in WriteRecord
    BY <1>0 DEF WriteRecord
  <2>2. producer_q # <<>> /\ producer_q' = Tail(producer_q)
    BY <1>3 DEF NewProducerIdle
  <2>3. Head(producer_q) \in Consumers
    BY <1>00, <2>2
  <2>4. w' \in WriteRecord /\ votes' \subseteq {"read", "write"}
    BY <1>0, <1>3, <2>1, <2>3, RegisterType DEF NewProducerIdle, WriteStops
  <2> QED BY <1>00, <1>3, <2>2, <2>4 DEF NewProducerIdle, TypesNext
<1>4. CASE WriteTimeout
  <2>1. [w EXCEPT !.voted = TRUE] \in WriteRecord
    BY <1>0 DEF WriteRecord
  <2> QED BY <1>0, <1>4, <2>1 DEF WriteTimeout, WriteStops, TypesNext, attachVars
<1>5. CASE NewProducerWriting
  <2> DEFINE c == Head(producer_q)
  <2>1. producer_q # <<>> /\ producer_q' = Tail(producer_q)
    BY <1>5 DEF NewProducerWriting
  <2>2. c \in Consumers
    BY <1>00, <2>1
  <2> HIDE DEF c
  <2>3. [w EXCEPT !.registered = @ \cup {c}, !.needs_sync = @ \/ c \in SyncConsumers] \in WriteRecord
    BY <1>0, <2>2 DEF WriteRecord
  <2> QED BY <1>00, <1>5, <2>1, <2>3 DEF NewProducerWriting, TypesNext, c
<1>6. CASE WriteDone
  <2> DEFINE b == IF w.job \in {Sync, Flush} THEN <<>> ELSE Append(w.buffered, w.job)
  <2>1. b \in Seq(Messages)
    <3>1. w.buffered \in Seq(Messages) /\ w.job \in Commands \cup {Sync, Flush}
      BY <1>0, <1>6 DEF WriteRecord, WriteDone, LinkOK, JobOK
    <3>2. w.job \in {Sync, Flush} \/ w.job \in Messages
      BY <3>1 DEF Messages
    <3> QED BY <3>1, <3>2, <1>00
  <2> HIDE DEF b
  <2>2. [w EXCEPT !.buffered = b] \in WriteRecord
    BY <1>0, <2>1 DEF WriteRecord
  <2>3. w' = AfterWrite([w EXCEPT !.buffered = b])
    BY <1>6 DEF WriteDone, b
  <2>4. w' \in WriteRecord
    BY <2>2, <2>3, AfterWriteType
  <2>5. out' \in Seq(Messages)
    BY <1>6, <1>00, FlushedType DEF WriteDone, JobWritten
  <2> QED BY <1>6, <2>4, <2>5 DEF WriteDone, TypesNext, attachVars
<1>7. CASE WriteChannelClosed
  BY <1>0, <1>7 DEF WriteChannelClosed, WriteStops, TypesNext, attachVars
<1> QED BY <1>1, <1>2, <1>3, <1>4, <1>5, <1>6, <1>7

\* A sequence of a finite set has all of it, and nothing else.
LEMMA SetToSeqHas ==
  ASSUME NEW S, IsFiniteSet(S)
  PROVE  /\ SetToSeq(S) \in Seq(S)
         /\ \A c \in S : \E n \in DOMAIN SetToSeq(S) : SetToSeq(S)[n] = c
<1> DEFINE n == Cardinality(S)
<1>1. n \in Nat /\ ExistsBijection(1..n, S)
  BY FS_CardinalityType
<1>2. PICK g \in Bijection(1..n, S) : TRUE
  BY <1>1 DEF ExistsBijection
<1>3. g \in [1..n -> S] /\ IsInjective(g)
  BY <1>2 DEF Bijection, Injection
<1> DEFINE f == SetToSeq(S)
<1>4. f \in [1..n -> S] /\ IsInjective(f)
  BY <1>3 DEF SetToSeq
<1>5. f \in Injection(1..n, S)
  BY <1>4 DEF Injection
<1>6. IsFiniteSet(1..n) /\ Cardinality(1..n) = n
  BY <1>1, FS_Interval
<1>7. f \in Surjection(1..n, S)
  BY <1>5, <1>6, FS_Injection
<1>8. \A c \in S : \E k \in 1..n : f[k] = c
  BY <1>7 DEF Surjection
<1> HIDE DEF f
<1>9. f \in Seq(S) /\ DOMAIN f = 1..n
  BY <1>1, <1>4
<1> QED BY <1>8, <1>9 DEF f

\* What the lane answers to a request to sync.
Answer == SetToSeq({Event(k, lane.state[k]) : k \in KeysOf}) \o <<Synced>>

\* The lane answers with notifications; that of a value is an event and the mark.
LEMMA AnswerFacts ==
  ASSUME DownlinkTypeOK
  PROVE  /\ Answer \in Seq(Notes)
         /\ Len(Answer) \in Nat
         /\ kind = "value" => /\ DOMAIN Answer = {1, 2} /\ Answer[1] = Event(One, lane.state[One])
                              /\ Answer[2] = Synced
<1> DEFINE S == {Event(k, lane.state[k]) : k \in KeysOf}
           q == SetToSeq(S)
<1>1. IsFiniteSet(KeysOf)
  BY SetsAssumption, FS_Singleton DEF KeysOf
<1>2. IsFiniteSet(S) /\ S \subseteq Notes
  <2>1. IsFiniteSet(S)
    <3> DEFINE f == [k \in KeysOf |-> Event(k, lane.state[k])]
    <3>1. f \in Surjection(KeysOf, S)
      BY DEF Surjection
    <3> QED BY <1>1, <3>1, FS_Surjection
  <2> QED BY <2>1 DEF Notes, Events, Event, DownlinkTypeOK, LaneRecord
<1>3. q \in Seq(S) /\ \A e \in S : \E n \in DOMAIN q : q[n] = e
  BY <1>2, SetToSeqHas
<1>4. q \in Seq(Notes)
  BY <1>2, <1>3
<1>5. Answer \in Seq(Notes) /\ Len(Answer) \in Nat
  <2>1. <<Synced>> \in Seq(Notes)
    BY DEF Notes
  <2> HIDE DEF q
  <2> QED BY <1>4, <2>1 DEF Answer, q
<1>6. ASSUME kind = "value"
      PROVE  DOMAIN Answer = {1, 2} /\ Answer[1] = Event(One, lane.state[One]) /\ Answer[2] = Synced
  <2>1. S = {Event(One, lane.state[One])}
    BY <1>6 DEF KeysOf
  <2> HIDE DEF S
  <2>2. Cardinality(S) = 1
    BY <2>1, FS_Singleton
  <2>3. q \in [1..1 -> S]
    <3> DEFINE f == [i \in 1..1 |-> Event(One, lane.state[One])]
    <3>1. f \in [1..1 -> S] /\ DOMAIN f = {1}
      BY <2>1
    <3>2. \E g \in [1..1 -> S] : IsInjective(g)
      BY <3>1 DEF IsInjective
    <3> QED BY <2>2, <3>2 DEF SetToSeq
  <2>4. q[1] = Event(One, lane.state[One]) /\ Len(q) = 1
    BY <2>1, <2>3
  <2> HIDE DEF q
  <2>5. Answer = q \o <<Synced>>
    BY DEF Answer, q, S
  <2> QED BY <1>4, <2>4, <2>5
<1> QED BY <1>5, <1>6

\* Sequences joined and extended are of their type.
LEMMA ConcatType == ASSUME NEW S, NEW a \in Seq(S), NEW b \in Seq(S) PROVE a \o b \in Seq(S)
OBVIOUS

LEMMA AppendType == ASSUME NEW S, NEW a \in Seq(S), NEW e \in S PROVE Append(a, e) \in Seq(S)
OBVIOUS

\* The counters stay numbers.
LEMMA CountsType ==
  ASSUME counts \in CountsRecord
  PROVE  /\ [counts EXCEPT !.version = @ + 1] \in CountsRecord
         /\ \A k \in KeysOf : \A n \in Nat : [counts EXCEPT !.command = @ + 1, !.taken[k] = n] \in CountsRecord
<1>1. [counts EXCEPT !.version = @ + 1] \in CountsRecord
  BY DEF CountsRecord
<1>2. ASSUME NEW k \in KeysOf, NEW n \in Nat
      PROVE  [counts EXCEPT !.command = @ + 1, !.taken[k] = n] \in CountsRecord
  <2> DEFINE t == [counts.taken EXCEPT ![k] = n]
  <2>1. t \in [KeysOf -> Nat] /\ counts.command + 1 \in Nat
    BY DEF CountsRecord
  <2>2. [counts EXCEPT !.command = @ + 1, !.taken[k] = n] = [counts EXCEPT !.command = counts.command + 1, !.taken = t]
    BY DEF CountsRecord
  <2> HIDE DEF t
  <2> QED BY <2>1, <2>2 DEF CountsRecord
<1> QED BY <1>1, <1>2

\* The rest: types.
LEMMA CommandTypes ==
  ASSUME DownlinkTypeOK, NEW c \in Consumers, NEW k \in KeysOf, TakeCommand(c, k)
  PROVE  TypesNext
<1> USE DEF DownlinkTypeOK
<1> DEFINE op == [key |-> k, number |-> counts.command + 1]
<1>1. counts \in CountsRecord /\ w \in WriteRecord /\ w.data \in Seq(Ops)
  BY DEF WriteRecord
<1>2. op \in Ops
  BY <1>1 DEF Ops, CountsRecord
<1>3. op.number \in Nat
  BY <1>1 DEF CountsRecord
<1> HIDE DEF op
<1>4. [counts EXCEPT !.command = @ + 1, !.taken[k] = op.number] \in CountsRecord
  BY <1>1, <1>3, CountsType
<1>5. PushOperation(w.data, op) \in Seq(Ops) /\ Command(op) \in Messages /\ Flush \in Messages
  BY <1>1, <1>2, PushType, MessageTypes
<1>6. [w EXCEPT !.flushed = FALSE] \in WriteRecord /\ [w EXCEPT !.data = PushOperation(@, op)] \in WriteRecord
  BY <1>1, <1>5 DEF WriteRecord
<1>7. w' \in WriteRecord
  BY <1>5, <1>6, WritingType DEF TakeCommand, op
<1> QED BY <1>4, <1>7 DEF TakeCommand, TypesNext, attachVars, op

\* The end of a producer.
LEMMA GoneTypes ==
  ASSUME DownlinkTypeOK, NEW c \in Consumers, ProducerGone(c)
  PROVE  TypesNext
<1> USE DEF DownlinkTypeOK
<1> DEFINE left == w.registered \ {c}
           x == [w EXCEPT !.registered = left, !.needs_sync = @ /\ left # {}]
<1>1. x \in WriteRecord
  BY DEF WriteRecord
<1>2. Flush \in Messages
  BY DEF Messages
<1>3. w' = x \/ w' = Writing(x, Flush)
  BY DEF ProducerGone
<1> HIDE DEF x
<1>4. w' \in WriteRecord
  BY <1>1, <1>2, <1>3, WritingType
<1> QED BY <1>4 DEF ProducerGone, TypesNext, attachVars

\* The lane takes a message.
LEMMA ReceiveTypes == ASSUME DownlinkTypeOK, LaneReceives PROVE TypesNext
<1> USE DEF DownlinkTypeOK
<1> DEFINE m == Head(out)
           state == [k \in KeysOf |-> IF m.type = "Command" /\ m.op.key = k THEN counts.version + 1 ELSE lane.state[k]]
<1>1. out # <<>> /\ out' = Tail(out)
  BY DEF LaneReceives
<1>2. m \in Messages /\ out' \in Seq(Messages)
  BY <1>1
<1>3. lane \in LaneRecord /\ counts \in CountsRecord
  OBVIOUS
<1>4. state \in [KeysOf -> Nat]
  BY <1>3 DEF LaneRecord, CountsRecord
<1>5. UNCHANGED <<kind, consumer_q, producer_q, votes, r, w, cons>>
  BY DEF LaneReceives, attachVars
<1>6. CASE m.type = "Link" /\ Answers(<<Linked>>) /\ lane' = [lane EXCEPT !.linked = TRUE] /\ UNCHANGED counts
  <2>1. <<Linked>> \in Seq(Notes)
    BY DEF Notes
  <2>2. inn' \in Seq(Notes)
    BY <1>6, <2>1 DEF Answers
  <2> QED BY <1>2, <1>3, <1>5, <1>6, <2>2 DEF TypesNext, LaneRecord
<1>7. CASE m.type = "Sync" /\ Answers(Answer) /\ UNCHANGED <<lane, counts>>
  <2>1. inn' \in Seq(Notes)
    BY <1>7, AnswerFacts DEF Answers
  <2> QED BY <1>2, <1>5, <1>7, <2>1 DEF TypesNext
<1>8. CASE /\ m.type = "Command"
           /\ Sends(Event(m.op.key, counts.version + 1))
           /\ lane' = [lane EXCEPT !.state = state, !.seen[m.op.key] = m.op.number]
           /\ counts' = [counts EXCEPT !.version = @ + 1]
  <2>1. m.op \in Ops
    BY <1>2, <1>8 DEF Messages, Commands, Link, Sync, Flush
  <2>2. Event(m.op.key, counts.version + 1) \in Notes
    BY <1>3, <2>1 DEF Notes, Events, Event, Ops, CountsRecord
  <2>3. inn' \in Seq(Notes)
    <3>1. CASE lane.linked
      <4>1. <<Event(m.op.key, counts.version + 1)>> \in Seq(Notes)
        BY <2>2
      <4> DEFINE e == <<Event(m.op.key, counts.version + 1)>>
      <4>2. inn' = inn \o e
        BY <1>8, <3>1 DEF Sends, Answers
      <4> HIDE DEF e
      <4> QED BY <4>1, <4>2, ConcatType DEF e
    <3> QED BY <1>8, <3>1 DEF Sends
  <2> HIDE DEF state
  <2>4. lane' \in LaneRecord
    BY <1>3, <1>4, <1>8, <2>1 DEF LaneRecord, Ops
  <2>5. counts' \in CountsRecord
    BY <1>3, <1>8, CountsType
  <2> QED BY <1>2, <1>5, <2>3, <2>4, <2>5 DEF TypesNext
<1> QED BY <1>6, <1>7, <1>8 DEF LaneReceives, Answer

\* The lane changes.
LEMMA ChangeTypes == ASSUME DownlinkTypeOK, NEW k \in KeysOf, LaneChanges(k) PROVE TypesNext
<1> USE DEF DownlinkTypeOK
<1>1. lane \in LaneRecord /\ counts \in CountsRecord /\ counts.version + 1 \in Nat
  BY DEF CountsRecord
<1>2. lane' \in LaneRecord /\ counts' \in CountsRecord
  BY <1>1 DEF LaneChanges, LaneRecord, CountsRecord
<1>3. <<Event(k, counts.version + 1)>> \in Seq(Notes)
  BY <1>1 DEF Notes, Events, Event
<1>4. inn' \in Seq(Notes)
  <2> DEFINE e == <<Event(k, counts.version + 1)>>
  <2>1. inn' = inn \o e \/ inn' = inn
    BY DEF LaneChanges, Sends, Answers
  <2> HIDE DEF e
  <2> QED BY <1>3, <2>1, ConcatType DEF e
<1> QED BY <1>2, <1>4 DEF LaneChanges, TypesNext, attachVars

\* The attachment of consumers and the ends of the connection.
LEMMA OtherTypes ==
  ASSUME DownlinkTypeOK,
         \/ AttachProducer \/ AttachStops \/ LaneUnlinks \/ ConnectionLost \/ Stop
         \/ \E c \in Consumers : AttachConsumer(c) \/ Leave(c) \/ StopWriting(c)
  PROVE  TypesNext
<1> USE DEF DownlinkTypeOK
<1>1. CASE AttachProducer
  <2>1. attach \in Consumers /\ (producer_q' = producer_q \/ producer_q' = Append(producer_q, attach))
    BY <1>1 DEF AttachProducer
  <2>2. producer_q' \in Seq(Consumers)
    BY <2>1, AppendType
  <2> QED BY <1>1, <2>2 DEF AttachProducer, TypesNext
<1>2. CASE AttachStops
  BY <1>2 DEF AttachStops, TypesNext
<1>3. CASE LaneUnlinks
  <2>1. <<Unlinked>> \in Seq(Notes)
    BY DEF Notes
  <2>2. inn' \in Seq(Notes)
    BY <1>3, <2>1 DEF LaneUnlinks, Answers
  <2>3. lane' \in LaneRecord
    BY <1>3 DEF LaneUnlinks, LaneRecord
  <2> QED BY <1>3, <2>2, <2>3 DEF LaneUnlinks, TypesNext, attachVars
<1>4. CASE ConnectionLost
  BY <1>4 DEF ConnectionLost, TypesNext, attachVars, LaneRecord
<1>5. CASE Stop
  BY <1>5 DEF Stop, TypesNext
<1>6. ASSUME NEW c \in Consumers, AttachConsumer(c) PROVE TypesNext
  <2>1. [cons EXCEPT ![c].asked = TRUE] \in [Consumers -> ConsumerRecord]
    BY DEF ConsumerRecord
  <2>2. consumer_q' = consumer_q \/ consumer_q' = Append(consumer_q, c)
    BY <1>6 DEF AttachConsumer
  <2>3. consumer_q' \in Seq(Consumers)
    BY <2>2, AppendType
  <2> QED BY <1>6, <2>1, <2>3 DEF AttachConsumer, TypesNext
<1>7. ASSUME NEW c \in Consumers, Leave(c) \/ StopWriting(c) PROVE TypesNext
  <2>1. cons' \in [Consumers -> ConsumerRecord]
    <3>1. [cons EXCEPT ![c].writes = FALSE] \in [Consumers -> ConsumerRecord]
      BY DEF ConsumerRecord
    <3>2. [cons EXCEPT ![c].reads = FALSE, ![c].writes = FALSE] \in [Consumers -> ConsumerRecord]
      BY DEF ConsumerRecord
    <3> QED BY <1>7, <3>1, <3>2 DEF Leave, StopWriting
  <2> QED BY <1>7, <2>1 DEF Leave, StopWriting, TypesNext, attachVars
<1> QED BY <1>1, <1>2, <1>3, <1>4, <1>5, <1>6, <1>7

\* Every step keeps the types.
LEMMA DownlinkTypesKept == ASSUME DownlinkTypeOK, LinkOK, [Next]_vars PROVE DownlinkTypeOK'
<1>1. kind' = kind
  BY SameKind
<1>2. TypesNext
  <2>1. CASE UNCHANGED vars
    BY <2>1 DEF vars, DownlinkTypeOK, TypesNext
  <2>2. CASE Next
    BY <2>2, ReadTypes, WriteTypes, CommandTypes, GoneTypes, ReceiveTypes, ChangeTypes, OtherTypes DEF Next, Tasks
  <2> QED BY <2>1, <2>2
<1> QED BY <1>1, <1>2, SameSorts DEF TypesNext, DownlinkTypeOK

\* A read task that ends leaves its vote.
LEMMA ReadDoneVotes == ASSUME r' = ReadTask("done") PROVE ReadVotes'
BY DEF ReadTask, ReadVotes, InRead

\* A task that has not linked is told of the link first.
LEMMA LinkedFirst ==
  ASSUME DownlinkTypeOK, LinkOK, r.pc = "run", inn # <<>>, r.dl_state = "Init"
  PROVE  Head(inn) = Linked
BY DEF LinkOK, LinkOnItsWay, NotLinked, DownlinkTypeOK

\* What a read task that looks for consumers keeps.
LEMMA SettleIs ==
  ASSUME NEW x \in ReadRecord
  PROVE  LET s == Settle(x)
         IN  /\ s.pc = x.pc /\ s.dl_state = x.dl_state /\ s.voted = x.voted /\ s.flushed = x.flushed
             /\ s.current = x.current /\ s.sync_event = x.sync_event /\ s.awaiting_linked = x.awaiting_linked
             /\ s.awaiting_synced = x.awaiting_synced /\ s.registered = x.registered
             /\ s.timer => x.timer \/ (x.awaiting_synced = {} /\ x.registered = {})
BY DEF Settle, Subscribers, ReadRecord

\* The steps of the read task keep the votes right.
LEMMA ReadVotesKept ==
  ASSUME DownlinkTypeOK, VotesOK, LinkOK,
         ReadTimeout \/ NewConsumer \/ OnLinked \/ OnSynced \/ OnEvent \/ OnUnlinked \/ ReadFlush \/ ReadChannelClosed
  PROVE  VotesOK'
<1> USE DEF DownlinkTypeOK, VotesOK
<1>0. r \in ReadRecord
  OBVIOUS
<1>1. WriteVotes'
  <2>1. w' = w /\ ("write" \in votes' <=> "write" \in votes)
    BY DEF ReadTimeout, NewConsumer, OnLinked, OnSynced, OnEvent, OnUnlinked, ReadFlush, ReadChannelClosed, Joins
  <2> QED BY <2>1 DEF WriteVotes
<1>2. CASE ReadTimeout
  <2>1. r.timer /\ InRead = {} /\ r.pc = "run"
    BY <1>2 DEF ReadTimeout, Active, ReadVotes
  <2>2. CASE r' = [r EXCEPT !.timer = FALSE, !.voted = TRUE]
    <3>1. /\ r'.timer = FALSE /\ r'.voted = TRUE /\ r'.pc = r.pc /\ r'.dl_state = r.dl_state
          /\ r'.awaiting_linked = r.awaiting_linked /\ r'.awaiting_synced = r.awaiting_synced
          /\ r'.registered = r.registered
      BY <1>0, <2>2 DEF ReadRecord
    <3> QED BY <1>1, <2>1, <3>1 DEF ReadVotes, InRead
  <2> QED BY <1>1, <1>2, <2>2, ReadDoneVotes DEF ReadTimeout, ReadStops
<1>3. ASSUME NEW x \in ReadRecord, Joins(x), x.dl_state = r.dl_state, r.pc = "run", x.pc = "run",
             x.dl_state # "Init" => x.awaiting_linked = {}
      PROVE  ReadVotes'
  <2>1. CASE r' = [x EXCEPT !.timer = FALSE, !.voted = FALSE, !.joined = FALSE]
             /\ votes' = votes \ (IF r.voted THEN {"read"} ELSE {})
    <3>1. /\ r'.timer = FALSE /\ r'.voted = FALSE /\ r'.pc = "run" /\ r'.dl_state = x.dl_state
          /\ r'.awaiting_linked = x.awaiting_linked
      BY <1>3, <2>1 DEF ReadRecord
    <3>2. "read" \notin votes'
      <4>1. CASE r.voted
        BY <2>1, <4>1
      <4>2. CASE ~r.voted
        BY <1>3, <2>1, <4>2 DEF ReadVotes
      <4> QED BY <4>1, <4>2
    <3> QED BY <1>3, <3>1, <3>2 DEF ReadVotes
  <2> QED BY <1>3, <2>1, ReadDoneVotes DEF Joins, ReadStops
<1>4. CASE NewConsumer
  <2> DEFINE c == Head(consumer_q)
  <2>1. c \in Consumers /\ r.pc = "run"
    BY <1>4 DEF NewConsumer
  <2> HIDE DEF c
  <2>2. CASE r.dl_state = "Init" /\ Joins([r EXCEPT !.awaiting_linked = @ \cup {c}])
    <3> DEFINE x == [r EXCEPT !.awaiting_linked = @ \cup {c}]
    <3>1. x \in ReadRecord /\ x.pc = r.pc /\ x.dl_state = r.dl_state
      BY <1>0, <2>1 DEF ReadRecord
    <3> HIDE DEF x
    <3> QED BY <1>1, <1>3, <2>1, <2>2, <3>1 DEF x
  <2>3. CASE r.dl_state # "Init" /\ Joins([r EXCEPT !.awaiting_synced = @ \cup {c}])
    <3> DEFINE x == [r EXCEPT !.awaiting_synced = @ \cup {c}]
    <3>1. x \in ReadRecord /\ x.pc = r.pc /\ x.dl_state = r.dl_state /\ x.awaiting_linked = r.awaiting_linked
      BY <1>0, <2>1 DEF ReadRecord
    <3> HIDE DEF x
    <3> QED BY <1>1, <1>3, <2>1, <2>3, <3>1 DEF x, ReadVotes
  <2>4. CASE r' = [r EXCEPT !.joined = FALSE] /\ UNCHANGED votes
    BY <1>0, <1>1, <2>4 DEF ReadVotes, InRead, ReadRecord
  <2> QED BY <1>4, <2>2, <2>3, <2>4 DEF NewConsumer, c
<1>5. CASE OnLinked
  <2> DEFINE told == Reading(r.awaiting_linked)
             x == [r EXCEPT !.dl_state = "Linked", !.joined = FALSE]
             y == [x EXCEPT !.awaiting_linked = {}, !.awaiting_synced = @ \cup (told \cap SyncConsumers),
                            !.registered = @ \cup (told \ SyncConsumers)]
  <2>1. told \subseteq r.awaiting_linked /\ told \subseteq Consumers
    BY <1>0 DEF Reading, ReadRecord
  <2> HIDE DEF told
  <2>2. x \in ReadRecord /\ y \in ReadRecord
    BY <1>0, <2>1 DEF ReadRecord
  <2>3. UNCHANGED votes /\ r.pc = "run"
    BY <1>5 DEF OnLinked, NextMessage, MayRead
  <2>4. CASE Active
    <3>1. r' = Settle(y)
      BY <1>5, <2>4 DEF OnLinked, told
    <3>2. /\ y.pc = r.pc /\ y.voted = r.voted /\ y.timer = r.timer /\ y.awaiting_linked = {}
          /\ y.awaiting_synced = r.awaiting_synced \cup (told \cap SyncConsumers)
          /\ y.registered = r.registered \cup (told \ SyncConsumers)
      BY <1>0 DEF ReadRecord
    <3> HIDE DEF x, y
    <3>3. /\ r'.pc = "run" /\ r'.voted = r.voted /\ r'.awaiting_linked = {}
          /\ r'.awaiting_synced = r.awaiting_synced \cup (told \cap SyncConsumers)
          /\ r'.registered = r.registered \cup (told \ SyncConsumers)
          /\ r'.timer => r.timer \/ (r'.awaiting_synced = {} /\ r'.registered = {})
      BY <2>2, <2>3, <3>1, <3>2, SettleIs
    <3>4. r.timer \/ r.voted => InRead' = {}
      BY <2>1, <3>3 DEF ReadVotes, InRead
    <3>5. ReadVotes'
      BY <2>3, <3>3, <3>4 DEF ReadVotes, InRead
    <3> QED BY <1>1, <3>5
  <2>5. CASE ~Active
    <3>1. r' = x /\ r.timer
      BY <1>5, <2>5 DEF OnLinked, Active
    <3>2. /\ x.pc = r.pc /\ x.voted = r.voted /\ x.timer = r.timer /\ x.awaiting_linked = r.awaiting_linked
          /\ x.awaiting_synced = r.awaiting_synced /\ x.registered = r.registered
      BY <1>0 DEF ReadRecord
    <3> QED BY <1>1, <2>3, <3>1, <3>2 DEF ReadVotes, InRead
  <2> QED BY <2>4, <2>5
<1>6. CASE OnSynced
  <2> DEFINE told == Reading(r.awaiting_synced)
             x == [r EXCEPT !.dl_state = "Synced", !.joined = FALSE]
             y == [x EXCEPT !.awaiting_synced = {}, !.registered = @ \cup told]
  <2>1. told \subseteq r.awaiting_synced /\ told \subseteq Consumers
    BY <1>0 DEF Reading, ReadRecord
  <2> HIDE DEF told
  <2>2. x \in ReadRecord /\ y \in ReadRecord
    BY <1>0, <2>1 DEF ReadRecord
  <2>3. UNCHANGED votes /\ r.pc = "run" /\ r.awaiting_linked = {}
    <3>1. UNCHANGED votes /\ r.pc = "run" /\ inn # <<>> /\ Head(inn) = Synced
      BY <1>6 DEF OnSynced, NextMessage, MayRead
    <3>2. r.dl_state # "Init"
      BY <3>1, LinkedFirst DEF Linked, Synced
    <3> QED BY <3>1, <3>2 DEF ReadVotes
  <2>4. CASE Active
    <3>1. r' = Settle(y)
      BY <1>6, <2>4 DEF OnSynced, told
    <3>2. /\ y.pc = r.pc /\ y.voted = r.voted /\ y.timer = r.timer /\ y.awaiting_linked = r.awaiting_linked
          /\ y.awaiting_synced = {} /\ y.registered = r.registered \cup told
      BY <1>0 DEF ReadRecord
    <3> HIDE DEF x, y
    <3>3. /\ r'.pc = "run" /\ r'.voted = r.voted /\ r'.awaiting_linked = {}
          /\ r'.awaiting_synced = {} /\ r'.registered = r.registered \cup told
          /\ r'.timer => r.timer \/ (r'.awaiting_synced = {} /\ r'.registered = {})
      BY <2>2, <2>3, <3>1, <3>2, SettleIs
    <3>4. r.timer \/ r.voted => InRead' = {}
      BY <2>1, <3>3 DEF ReadVotes, InRead
    <3>5. ReadVotes'
      BY <2>3, <3>3, <3>4 DEF ReadVotes, InRead
    <3> QED BY <1>1, <3>5
  <2>5. CASE ~Active
    <3>1. r' = x /\ r.timer
      BY <1>6, <2>5 DEF OnSynced, Active
    <3>2. /\ x.pc = r.pc /\ x.voted = r.voted /\ x.timer = r.timer /\ x.awaiting_linked = r.awaiting_linked
          /\ x.awaiting_synced = r.awaiting_synced /\ x.registered = r.registered
      BY <1>0 DEF ReadRecord
    <3> QED BY <1>1, <2>3, <3>1, <3>2 DEF ReadVotes, InRead
  <2> QED BY <2>4, <2>5
<1>7. CASE OnEvent
  <2> DEFINE x == [r EXCEPT !.sync_event = TRUE, !.current = Head(inn), !.joined = FALSE]
  <2>1. UNCHANGED votes /\ r.pc = "run" /\ inn # <<>> /\ Head(inn).type = "Event"
    BY <1>7 DEF OnEvent, NextMessage, MayRead
  <2>2. r.awaiting_linked = {} /\ r.dl_state # "Init"
    <3>1. r.dl_state # "Init"
      BY <2>1, LinkedFirst DEF Linked
    <3> QED BY <3>1 DEF ReadVotes
  <2>3. x \in ReadRecord
    <3>1. Head(inn) \in Events
      BY <2>1 DEF Notes, Linked, Synced, Unlinked
    <3> QED BY <1>0, <3>1 DEF ReadRecord
  <2>4. /\ x.pc = r.pc /\ x.voted = r.voted /\ x.timer = r.timer /\ x.awaiting_linked = r.awaiting_linked
        /\ x.awaiting_synced = r.awaiting_synced /\ x.registered = r.registered
    BY <1>0 DEF ReadRecord
  <2> HIDE DEF x
  <2>5. CASE Active
    <3>1. PICK failed \in SUBSET {c \in EventTargets : ~cons[c].reads} :
            r' = [Settle([x EXCEPT !.registered = @ \ failed, !.awaiting_synced = @ \ failed])
                   EXCEPT !.flushed = Subscribers([x EXCEPT !.registered = @ \ failed,
                                                            !.awaiting_synced = @ \ failed]) = {}]
      BY <1>7, <2>5 DEF OnEvent, x
    <3> DEFINE y == [x EXCEPT !.registered = @ \ failed, !.awaiting_synced = @ \ failed]
    <3>2. /\ y \in ReadRecord
          /\ y.pc = r.pc /\ y.voted = r.voted /\ y.timer = r.timer /\ y.awaiting_linked = {}
          /\ y.awaiting_synced = r.awaiting_synced \ failed /\ y.registered = r.registered \ failed
      BY <2>2, <2>3, <2>4 DEF ReadRecord
    <3>3. r' = [Settle(y) EXCEPT !.flushed = Subscribers(y) = {}]
      BY <3>1
    <3> HIDE DEF y
    <3>4. Settle(y) \in ReadRecord
      BY <3>2, SettleFacts
    <3>5. /\ r'.pc = "run" /\ r'.voted = r.voted /\ r'.awaiting_linked = {}
          /\ r'.awaiting_synced = r.awaiting_synced \ failed /\ r'.registered = r.registered \ failed
          /\ r'.timer => r.timer \/ (r'.awaiting_synced = {} /\ r'.registered = {})
      <4> DEFINE z == Settle(y)
      <4>1. /\ z.pc = "run" /\ z.voted = r.voted /\ z.awaiting_linked = {}
            /\ z.awaiting_synced = r.awaiting_synced \ failed /\ z.registered = r.registered \ failed
            /\ z.timer => r.timer \/ (z.awaiting_synced = {} /\ z.registered = {})
        BY <2>1, <3>2, SettleIs
      <4> HIDE DEF z
      <4> QED BY <3>3, <3>4, <4>1 DEF z, ReadRecord
    <3>6. r.timer \/ r.voted => InRead' = {}
      BY <3>5 DEF ReadVotes, InRead
    <3>7. ReadVotes'
      BY <2>1, <3>5, <3>6 DEF ReadVotes, InRead
    <3> QED BY <1>1, <3>7
  <2>6. CASE ~Active
    <3>1. r' = x /\ r.timer
      BY <1>7, <2>6 DEF OnEvent, Active, x
    <3> QED BY <1>1, <2>1, <2>2, <2>4, <3>1 DEF ReadVotes, InRead
  <2> QED BY <2>5, <2>6
<1>8. CASE ReadFlush
  <2> DEFINE x == [r EXCEPT !.flushed = TRUE, !.awaiting_synced = Reading(@), !.registered = Reading(@)]
  <2>1. UNCHANGED votes /\ r.pc = "run" /\ ~r.flushed /\ r' = [Settle(x) EXCEPT !.joined = Subscribers(x) = {}]
    BY <1>8 DEF ReadFlush
  <2>2. r.awaiting_linked = {}
    BY <2>1 DEF LinkOK, ReadStarts, ReadVotes
  <2>3. /\ x \in ReadRecord
        /\ x.pc = r.pc /\ x.voted = r.voted /\ x.timer = r.timer /\ x.awaiting_linked = {}
        /\ x.awaiting_synced \subseteq r.awaiting_synced /\ x.registered \subseteq r.registered
    BY <1>0, <2>2 DEF ReadRecord, Reading
  <2> HIDE DEF x
  <2>4. Settle(x) \in ReadRecord
    BY <2>3, SettleFacts
  <2>5. /\ r'.pc = "run" /\ r'.voted = r.voted /\ r'.awaiting_linked = {}
        /\ r'.awaiting_synced \subseteq r.awaiting_synced /\ r'.registered \subseteq r.registered
        /\ r'.timer => r.timer \/ (r'.awaiting_synced = {} /\ r'.registered = {})
    <3> DEFINE z == Settle(x)
    <3>1. /\ z.pc = "run" /\ z.voted = r.voted /\ z.awaiting_linked = {}
          /\ z.awaiting_synced \subseteq r.awaiting_synced /\ z.registered \subseteq r.registered
          /\ z.timer => r.timer \/ (z.awaiting_synced = {} /\ z.registered = {})
      BY <2>1, <2>3, SettleIs
    <3> HIDE DEF z
    <3> QED BY <2>1, <2>4, <3>1 DEF z, ReadRecord
  <2>6. r.timer \/ r.voted => InRead' = {}
    BY <2>5 DEF ReadVotes, InRead
  <2>7. ReadVotes'
    BY <2>1, <2>5, <2>6 DEF ReadVotes, InRead
  <2> QED BY <1>1, <2>7
<1>9. CASE OnUnlinked \/ ReadChannelClosed
  BY <1>1, <1>9, ReadDoneVotes DEF OnUnlinked, ReadChannelClosed, ReadStops
<1> QED BY <1>2, <1>4, <1>5, <1>6, <1>7, <1>8, <1>9

\* ... and so do those of the write task.
LEMMA WriteVotesKept ==
  ASSUME DownlinkTypeOK, VotesOK,
         \/ SendLink \/ IdleFlush \/ NewProducerIdle \/ WriteTimeout \/ NewProducerWriting \/ WriteDone
         \/ WriteChannelClosed \/ \E c \in Consumers : ProducerGone(c)
         \/ \E c \in Consumers, k \in KeysOf : TakeCommand(c, k)
  PROVE  VotesOK'
<1> USE DEF DownlinkTypeOK, VotesOK
<1>0. w \in WriteRecord
  OBVIOUS
<1>1. ReadVotes'
  <2>1. r' = r /\ ("read" \in votes' <=> "read" \in votes)
    BY DEF SendLink, IdleFlush, NewProducerIdle, WriteTimeout, NewProducerWriting, WriteDone, WriteChannelClosed,
           ProducerGone, TakeCommand
  <2> QED BY <2>1 DEF ReadVotes, InRead
<1>2. CASE w' = WriteTask("done")
  BY <1>1, <1>2 DEF WriteTask, WriteVotes
<1>3. CASE /\ ~w.voted /\ w.pc # "done" /\ ~w'.voted /\ w'.pc # "done"
           /\ "write" \notin votes => "write" \notin votes'
  BY <1>1, <1>3 DEF WriteVotes
<1>4. CASE SendLink
  BY <1>0, <1>3, <1>4 DEF SendLink, WriteVotes, WriteRecord
<1>5. CASE IdleFlush
  BY <1>0, <1>1, <1>5 DEF IdleFlush, WriteVotes, WriteRecord
<1>6. CASE NewProducerIdle
  <2> DEFINE c == Head(producer_q)
             x == [w EXCEPT !.voted = FALSE, !.needs_sync = FALSE]
  <2>0. w.pc = "idle"
    BY <1>6 DEF NewProducerIdle
  <2>1. CASE w.registered # {} /\ IdleRegister(c, w) /\ UNCHANGED votes
    <3>1. ~w.voted
      BY <2>1 DEF WriteVotes
    <3>2. w'.voted = w.voted /\ w'.pc \in {"idle", "writing"}
      BY <1>0, <2>0, <2>1 DEF IdleRegister, Writing, WriteRecord
    <3> QED BY <1>3, <2>0, <2>1, <3>1, <3>2
  <2>2. CASE IdleRegister(c, x) /\ votes' = votes \ (IF w.voted THEN {"write"} ELSE {})
    <3>1. x \in WriteRecord /\ x.pc = "idle" /\ x.voted = FALSE
      BY <1>0, <2>0 DEF WriteRecord
    <3> HIDE DEF x
    <3>2. w'.voted = x.voted /\ w'.pc \in {"idle", "writing"}
      BY <2>2, <3>1 DEF IdleRegister, Writing, WriteRecord
    <3>3. "write" \notin votes'
      <4>1. CASE w.voted
        BY <2>2, <4>1
      <4>2. CASE ~w.voted
        BY <2>0, <2>2, <4>2 DEF WriteVotes
      <4> QED BY <4>1, <4>2
    <3> QED BY <1>1, <3>1, <3>2, <3>3 DEF WriteVotes
  <2> QED BY <1>2, <1>6, <2>1, <2>2 DEF NewProducerIdle, WriteStops
<1>7. CASE WriteTimeout
  <2>1. CASE w' = [w EXCEPT !.voted = TRUE]
    BY <1>0, <1>1, <1>7, <2>1 DEF WriteTimeout, WriteVotes, WriteRecord
  <2> QED BY <1>2, <1>7, <2>1 DEF WriteTimeout, WriteStops
<1>8. CASE NewProducerWriting
  <2>1. ~w.voted /\ w.pc = "writing" /\ UNCHANGED votes
    BY <1>8 DEF NewProducerWriting, WriteVotes
  <2>2. w'.voted = w.voted /\ w'.pc = w.pc
    BY <1>0, <1>8 DEF NewProducerWriting, WriteRecord
  <2> QED BY <1>3, <2>1, <2>2
<1>9. CASE WriteDone
  <2> DEFINE x == [w EXCEPT !.buffered = IF w.job \in {Sync, Flush} THEN <<>> ELSE Append(@, w.job)]
  <2>1. ~w.voted /\ w.pc = "writing" /\ UNCHANGED votes /\ w' = AfterWrite(x)
    BY <1>9 DEF WriteDone, WriteVotes
  <2>2. x.voted = w.voted /\ x.pc = w.pc /\ DOMAIN x = DOMAIN w
    BY <1>0 DEF WriteRecord
  <2> HIDE DEF x
  <2>3. w'.voted = w.voted /\ w'.pc \in {"idle", "writing"}
    BY <1>0, <2>1, <2>2 DEF AfterWrite, Writing, WriteRecord
  <2> QED BY <1>3, <2>1, <2>3
<1>10. CASE WriteChannelClosed
  BY <1>2, <1>10 DEF WriteChannelClosed, WriteStops
<1>11. ASSUME NEW c \in Consumers, ProducerGone(c) PROVE VotesOK'
  <2>1. c \in w.registered /\ UNCHANGED votes
    BY <1>11 DEF ProducerGone
  <2>2. ~w.voted /\ w.pc # "done"
    BY <2>1 DEF WriteVotes
  <2>3. w'.voted = w.voted /\ w'.pc \in {"idle", "writing"}
    BY <1>0, <1>11 DEF ProducerGone, Writing, WriteRecord
  <2> QED BY <1>3, <2>1, <2>2, <2>3
<1>12. ASSUME NEW c \in Consumers, NEW k \in KeysOf, TakeCommand(c, k) PROVE VotesOK'
  <2>1. c \in w.registered /\ UNCHANGED votes
    BY <1>12 DEF TakeCommand
  <2>2. ~w.voted /\ w.pc # "done"
    BY <2>1 DEF WriteVotes
  <2>3. w'.voted = w.voted /\ w'.pc \in {"idle", "writing"}
    BY <1>0, <1>12 DEF TakeCommand, Writing, WriteRecord
  <2> QED BY <1>3, <2>1, <2>2, <2>3
<1> QED BY <1>4, <1>5, <1>6, <1>7, <1>8, <1>9, <1>10, <1>11, <1>12

\* Every step keeps the votes right.
LEMMA VotesKept == ASSUME DownlinkTypeOK, VotesOK, LinkOK, [Next]_vars PROVE VotesOK'
<1>1. ASSUME UNCHANGED <<r, w, votes>> PROVE VotesOK'
  BY <1>1 DEF VotesOK, ReadVotes, WriteVotes, InRead
<1>2. CASE \/ AttachProducer \/ AttachStops \/ LaneReceives \/ LaneUnlinks \/ ConnectionLost \/ Stop \/ UNCHANGED vars
           \/ \E c \in Consumers : AttachConsumer(c) \/ Leave(c) \/ StopWriting(c)
           \/ \E k \in KeysOf : LaneChanges(k)
  <2>1. UNCHANGED <<r, w, votes>>
    BY <1>2 DEF AttachProducer, AttachStops, LaneReceives, LaneUnlinks, ConnectionLost, Stop, vars, AttachConsumer,
                Leave, StopWriting, LaneChanges
  <2> QED BY <1>1, <2>1
<1> QED BY <1>2, ReadVotesKept, WriteVotesKept DEF Next, Tasks

\* The read task goes on without looking at a message, takes one, or ends.
LEMMA LinkByRead ==
  ASSUME DownlinkTypeOK, LinkOK, UNCHANGED <<kind, w, out, lane>>,
         \/ /\ inn' = inn /\ r'.pc = r.pc /\ r'.dl_state = r.dl_state /\ r'.sync_event = r.sync_event
            /\ r.dl_state = "Init" => r'.flushed = r.flushed
         \/ inn # <<>> /\ r'.dl_state # "Init"
         \/ r' = ReadTask("done") /\ (inn' = inn \/ inn # <<>>)
  PROVE  LinkOK'
<1>1. BufferedOK' /\ JobOK'
  BY SameSorts DEF LinkOK, BufferedOK, JobOK
<1>2. CASE /\ inn' = inn /\ r'.pc = r.pc /\ r'.dl_state = r.dl_state /\ r'.sync_event = r.sync_event
           /\ r.dl_state = "Init" => r'.flushed = r.flushed
  BY <1>1, <1>2 DEF LinkOK, NotLinked, ReadStarts, LinkOnItsWay, WriteStarts, OneLink
<1>3. CASE inn # <<>> /\ r'.dl_state # "Init"
  BY <1>1, <1>3 DEF LinkOK, NotLinked, ReadStarts, LinkOnItsWay, WriteStarts, OneLink
<1>4. CASE r' = ReadTask("done") /\ (inn' = inn \/ inn # <<>>)
  <2>1. r'.pc = "done" /\ r'.dl_state = "Init" /\ r'.flushed = TRUE /\ r'.sync_event = FALSE
    BY <1>4 DEF ReadTask
  <2>2. ReadStarts' /\ LinkOnItsWay'
    BY <2>1 DEF ReadStarts, LinkOnItsWay
  <2>3. WriteStarts' /\ OneLink'
    BY <1>4, <2>1 DEF LinkOK, NotLinked, WriteStarts, OneLink
  <2> QED BY <1>1, <2>2, <2>3 DEF LinkOK
<1> QED BY <1>2, <1>3, <1>4

\* The steps of the read task keep the link in its place.
LEMMA ReadLinkKept ==
  ASSUME DownlinkTypeOK, LinkOK,
         ReadTimeout \/ NewConsumer \/ OnLinked \/ OnSynced \/ OnEvent \/ OnUnlinked \/ ReadFlush \/ ReadChannelClosed
  PROVE  LinkOK'
<1> USE DEF DownlinkTypeOK
<1>0. r \in ReadRecord /\ UNCHANGED <<kind, w, out, lane>>
  BY DEF ReadTimeout, NewConsumer, OnLinked, OnSynced, OnEvent, OnUnlinked, ReadFlush, ReadChannelClosed
<1>1. CASE ReadTimeout
  <2>1. CASE r' = [r EXCEPT !.timer = FALSE, !.voted = TRUE]
    BY <1>0, <1>1, <2>1, LinkByRead DEF ReadTimeout, ReadRecord
  <2> QED BY <1>0, <1>1, <2>1, LinkByRead DEF ReadTimeout, ReadStops
<1>2. CASE NewConsumer
  <2>1. ASSUME NEW x, Joins(x), DOMAIN x = DOMAIN r, x.pc = r.pc, x.dl_state = r.dl_state, x.sync_event = r.sync_event,
               x.flushed = r.flushed
        PROVE  LinkOK'
    <3>1. CASE r' = [x EXCEPT !.timer = FALSE, !.voted = FALSE, !.joined = FALSE]
      BY <1>0, <1>2, <2>1, <3>1, LinkByRead DEF NewConsumer, ReadRecord
    <3> QED BY <1>0, <1>2, <2>1, <3>1, LinkByRead DEF Joins, NewConsumer, ReadStops
  <2>2. CASE r' = [r EXCEPT !.joined = FALSE]
    BY <1>0, <1>2, <2>2, LinkByRead DEF NewConsumer, ReadRecord
  <2>3. \A cs : LET x == [r EXCEPT !.awaiting_linked = cs]
                    y == [r EXCEPT !.awaiting_synced = cs]
                IN  /\ DOMAIN x = DOMAIN r /\ x.pc = r.pc /\ x.dl_state = r.dl_state /\ x.sync_event = r.sync_event
                    /\ x.flushed = r.flushed
                    /\ DOMAIN y = DOMAIN r /\ y.pc = r.pc /\ y.dl_state = r.dl_state /\ y.sync_event = r.sync_event
                    /\ y.flushed = r.flushed
    BY <1>0 DEF ReadRecord
  <2> QED BY <1>2, <2>1, <2>2, <2>3 DEF NewConsumer
<1>3. CASE OnLinked
  <2> DEFINE told == Reading(r.awaiting_linked)
             x == [r EXCEPT !.dl_state = "Linked", !.joined = FALSE]
             y == [x EXCEPT !.awaiting_linked = {}, !.awaiting_synced = @ \cup (told \cap SyncConsumers),
                            !.registered = @ \cup (told \ SyncConsumers)]
  <2>1. inn # <<>> /\ (r' = Settle(y) \/ r' = x)
    BY <1>3 DEF OnLinked, NextMessage
  <2>2. x \in ReadRecord /\ y \in ReadRecord /\ x.dl_state = "Linked" /\ y.dl_state = "Linked"
    BY <1>0 DEF ReadRecord, Reading
  <2> HIDE DEF x, y
  <2>3. r'.dl_state # "Init"
    BY <2>1, <2>2, SettleIs
  <2> QED BY <1>0, <2>1, <2>3, LinkByRead
<1>4. CASE OnSynced
  <2> DEFINE told == Reading(r.awaiting_synced)
             x == [r EXCEPT !.dl_state = "Synced", !.joined = FALSE]
             y == [x EXCEPT !.awaiting_synced = {}, !.registered = @ \cup told]
  <2>1. inn # <<>> /\ (r' = Settle(y) \/ r' = x)
    BY <1>4 DEF OnSynced, NextMessage
  <2>2. x \in ReadRecord /\ y \in ReadRecord /\ x.dl_state = "Synced" /\ y.dl_state = "Synced"
    BY <1>0 DEF ReadRecord, Reading
  <2> HIDE DEF x, y
  <2>3. r'.dl_state # "Init"
    BY <2>1, <2>2, SettleIs
  <2> QED BY <1>0, <2>1, <2>3, LinkByRead
<1>5. CASE OnEvent
  <2> DEFINE x == [r EXCEPT !.sync_event = TRUE, !.current = Head(inn), !.joined = FALSE]
  <2>1. r.pc = "run" /\ inn # <<>> /\ Head(inn).type = "Event"
    BY <1>5 DEF OnEvent, NextMessage, MayRead
  <2>2. r.dl_state # "Init"
    BY <2>1, LinkedFirst DEF Linked
  <2>3. Head(inn) \in Events
    BY <2>1 DEF Notes, Linked, Synced, Unlinked
  <2>4. x \in ReadRecord /\ x.dl_state = r.dl_state
    BY <1>0, <2>3 DEF ReadRecord
  <2> HIDE DEF x
  <2>5. ASSUME NEW failed \in SUBSET Consumers
        PROVE  LET y == [x EXCEPT !.registered = @ \ failed, !.awaiting_synced = @ \ failed]
               IN  [Settle(y) EXCEPT !.flushed = Subscribers(y) = {}].dl_state = r.dl_state
    <3> DEFINE y == [x EXCEPT !.registered = @ \ failed, !.awaiting_synced = @ \ failed]
    <3>1. y \in ReadRecord /\ y.dl_state = r.dl_state
      BY <2>4 DEF ReadRecord
    <3> HIDE DEF y
    <3>2. Settle(y) \in ReadRecord /\ Settle(y).dl_state = r.dl_state
      BY <3>1, SettleFacts, SettleIs
    <3>3. [Settle(y) EXCEPT !.flushed = Subscribers(y) = {}].dl_state = r.dl_state
      BY <3>2 DEF ReadRecord
    <3> QED BY <3>3 DEF y
  <2>6. r'.dl_state = r.dl_state
    <3>1. CASE Active
      <4>1. {c \in EventTargets : ~cons[c].reads} \subseteq Consumers
        BY <1>0 DEF EventTargets, ReadRecord
      <4> QED BY <1>5, <2>5, <3>1, <4>1 DEF OnEvent, x
    <3>2. CASE ~Active
      BY <1>5, <2>4, <3>2 DEF OnEvent, x
    <3> QED BY <3>1, <3>2
  <2> QED BY <1>0, <2>1, <2>2, <2>6, LinkByRead
<1>6. CASE OnUnlinked
  BY <1>0, <1>6, LinkByRead DEF OnUnlinked, NextMessage, ReadStops
<1>7. CASE ReadFlush
  <2> DEFINE x == [r EXCEPT !.flushed = TRUE, !.awaiting_synced = Reading(@), !.registered = Reading(@)]
  <2>1. ~r.flushed /\ inn' = inn /\ r' = [Settle(x) EXCEPT !.joined = Subscribers(x) = {}]
    BY <1>7 DEF ReadFlush
  <2>2. r.dl_state # "Init"
    BY <2>1 DEF LinkOK, ReadStarts
  <2>3. x \in ReadRecord /\ x.pc = r.pc /\ x.dl_state = r.dl_state /\ x.sync_event = r.sync_event
    BY <1>0 DEF ReadRecord, Reading
  <2> HIDE DEF x
  <2>4. /\ Settle(x) \in ReadRecord /\ Settle(x).pc = r.pc /\ Settle(x).dl_state = r.dl_state
        /\ Settle(x).sync_event = r.sync_event
    BY <2>3, SettleFacts, SettleIs
  <2>5. r'.pc = r.pc /\ r'.dl_state = r.dl_state /\ r'.sync_event = r.sync_event
    BY <2>1, <2>4 DEF ReadRecord
  <2> QED BY <1>0, <2>1, <2>2, <2>5, LinkByRead
<1>8. CASE ReadChannelClosed
  BY <1>0, <1>8, LinkByRead DEF ReadChannelClosed, ReadStops
<1> QED BY <1>1, <1>2, <1>3, <1>4, <1>5, <1>6, <1>7, <1>8

\* The write task adds messages that are not the link, or stops.
LEMMA LinkByWrite ==
  ASSUME DownlinkTypeOK, LinkOK, UNCHANGED <<kind, r, inn, lane>>,
         \/ w' = WriteTask("done") /\ out' = out
         \/ /\ w.pc \in {"idle", "writing"} /\ w'.pc \in {"idle", "writing", "done"} /\ BufferedOK' /\ JobOK'
            /\ \E more \in Seq(Messages) : out' = out \o more /\ \A n \in DOMAIN more : more[n] # Link
  PROVE  LinkOK'
<1>0. ReadStarts'
  BY DEF LinkOK, ReadStarts
<1>1. CASE w' = WriteTask("done") /\ out' = out
  <2>1. w'.pc = "done" /\ w'.buffered = <<>>
    BY <1>1 DEF WriteTask
  <2> QED BY <1>0, <1>1, <2>1 DEF LinkOK, NotLinked, LinkOnItsWay, WriteStarts, OneLink, BufferedOK, JobOK
<1>2. ASSUME w.pc \in {"idle", "writing"}, w'.pc \in {"idle", "writing", "done"}, BufferedOK', JobOK',
             NEW more \in Seq(Messages), out' = out \o more, \A n \in DOMAIN more : more[n] # Link
      PROVE  LinkOK'
  <2>0. out \in Seq(Messages)
    BY DEF DownlinkTypeOK
  <2>1. WriteStarts'
    BY <1>2 DEF WriteStarts
  <2>2. \A n \in DOMAIN out' : \/ n \in DOMAIN out /\ out'[n] = out[n]
                               \/ n - Len(out) \in DOMAIN more /\ out'[n] = more[n - Len(out)]
    BY <1>2, <2>0
  <2>3. out # <<>> => out' # <<>> /\ out'[1] = out[1]
    BY <1>2, <2>0
  <2>4. OneLink'
    BY <1>2, <2>2 DEF LinkOK, OneLink, NotLinked
  <2>5. LinkOnItsWay'
    BY <1>2, <2>3 DEF LinkOK, LinkOnItsWay, NotLinked
  <2> QED BY <1>0, <1>2, <2>1, <2>4, <2>5 DEF LinkOK
<1> QED BY <1>1, <1>2

\* A flush puts no second link into the channel.
LEMMA FlushedAddsNoLink ==
  ASSUME DownlinkTypeOK, LinkOK, NEW notes \in {<<>>, <<Sync>>}, Flushed(notes)
  PROVE  \E more \in Seq(Messages) : out' = out \o more /\ \A n \in DOMAIN more : more[n] # Link
<1> DEFINE b == w.buffered
<1>1. b \in Seq(Messages) /\ notes \in Seq(Messages) /\ \A n \in DOMAIN b : b[n] # Link
  <2>1. b \in Seq(Messages)
    BY DEF DownlinkTypeOK, WriteRecord
  <2>2. <<>> \in Seq(Messages) /\ <<Sync>> \in Seq(Messages)
    BY DEF Messages
  <2>3. \A n \in DOMAIN b : b[n] # Link
    BY DEF LinkOK, BufferedOK
  <2> QED BY <2>1, <2>2, <2>3
<1>2. out' = (out \o b) \o notes /\ out \in Seq(Messages)
  BY DEF Flushed, DownlinkTypeOK
<1> HIDE DEF b
<1>3. out' = out \o (b \o notes)
  BY <1>1, <1>2
<1>4. \A n \in DOMAIN notes : notes[n] # Link
  BY DEF Link, Sync
<1>5. \A n \in DOMAIN (b \o notes) : (b \o notes)[n] # Link
  BY <1>1, <1>4
<1>6. b \o notes \in Seq(Messages)
  BY <1>1, ConcatType
<1> QED BY <1>3, <1>5, <1>6

\* The steps of the write task keep the link in its place.
LEMMA WriteLinkKept ==
  ASSUME DownlinkTypeOK, DownlinkTypeOK', LinkOK,
         \/ SendLink \/ IdleFlush \/ NewProducerIdle \/ WriteTimeout \/ NewProducerWriting \/ WriteDone
         \/ WriteChannelClosed \/ \E c \in Consumers : ProducerGone(c)
         \/ \E c \in Consumers, k \in KeysOf : TakeCommand(c, k)
  PROVE  LinkOK'
<1> USE DEF DownlinkTypeOK
<1>0. w \in WriteRecord /\ UNCHANGED <<kind, r, inn, lane>>
  BY DEF SendLink, IdleFlush, NewProducerIdle, WriteTimeout, NewProducerWriting, WriteDone, WriteChannelClosed,
         ProducerGone, TakeCommand
<1>1. Commands' = Commands
  BY <1>0, SameSorts
<1>2. CASE w' = WriteTask("done") /\ out' = out
  BY <1>0, <1>2, LinkByWrite
<1>3. CASE /\ w.pc \in {"idle", "writing"} /\ w'.pc \in {"idle", "writing"} /\ out' = out
           /\ w'.buffered = w.buffered
           /\ w'.pc = "writing" => w'.job \in Commands \cup {Sync, Flush}
  <2>1. BufferedOK' /\ JobOK'
    BY <1>1, <1>3 DEF LinkOK, BufferedOK, JobOK
  <2> DEFINE e == <<>>
  <2>2. out' = out \o e /\ e \in Seq(Messages) /\ \A n \in DOMAIN e : e[n] # Link
    BY <1>3
  <2> HIDE DEF e
  <2>3. \E more \in Seq(Messages) : out' = out \o more /\ \A n \in DOMAIN more : more[n] # Link
    BY <2>2
  <2> QED BY <1>0, <1>3, <2>1, <2>3, LinkByWrite
<1>4. \A x \in WriteRecord : \A j : LET y == Writing(x, j) IN y.pc = "writing" /\ y.job = j /\ y.buffered = x.buffered
  BY DEF Writing, WriteRecord
<1>5. CASE SendLink
  <2>1. NotLinked /\ out = <<>> /\ w.buffered = <<>> /\ w.data = <<>>
    BY <1>5 DEF SendLink, LinkOK, WriteStarts
  <2>2. out' = <<Link>> /\ w'.pc = "idle" /\ w'.buffered = w.buffered
    BY <1>0, <1>5, <2>1 DEF SendLink, Flushed, WriteRecord
  <2>3. ReadStarts' /\ BufferedOK' /\ JobOK' /\ WriteStarts' /\ NotLinked'
    BY <1>0, <2>1, <2>2 DEF LinkOK, ReadStarts, BufferedOK, JobOK, WriteStarts, NotLinked
  <2>4. LinkOnItsWay' /\ OneLink'
    BY <2>2, <2>3 DEF LinkOnItsWay, OneLink
  <2> QED BY <2>3, <2>4 DEF LinkOK
<1>6. CASE IdleFlush
  <2>1. w.pc = "idle" /\ w'.pc = "idle" /\ w'.buffered = <<>>
    BY <1>0, <1>6 DEF IdleFlush, WriteRecord
  <2>2. BufferedOK' /\ JobOK'
    BY <2>1 DEF BufferedOK, JobOK
  <2>3. \E more \in Seq(Messages) : out' = out \o more /\ \A n \in DOMAIN more : more[n] # Link
    BY <1>6, FlushedAddsNoLink DEF IdleFlush
  <2> QED BY <1>0, <2>1, <2>2, <2>3, LinkByWrite
<1>7. CASE NewProducerIdle
  <2> DEFINE c == Head(producer_q)
             z == [w EXCEPT !.voted = FALSE, !.needs_sync = FALSE]
  <2>1. w.pc = "idle" /\ out' = out
    BY <1>7 DEF NewProducerIdle
  <2>2. ASSUME NEW x \in WriteRecord, x.pc = "idle", x.buffered = w.buffered, IdleRegister(c, x)
        PROVE  LinkOK'
    <3> DEFINE y == [x EXCEPT !.registered = @ \cup {c}]
               v == [y EXCEPT !.needs_sync = @ \/ c \in SyncConsumers]
    <3>1. c \in Consumers
      BY <1>7 DEF NewProducerIdle
    <3> HIDE DEF c
    <3>2. /\ y \in WriteRecord /\ v \in WriteRecord /\ y.pc = "idle" /\ y.buffered = w.buffered
          /\ v.buffered = w.buffered
      BY <2>2, <3>1 DEF WriteRecord
    <3>3. w' = Writing(y, Sync) \/ w' = y \/ w' = Writing(v, Flush)
      BY <2>2 DEF IdleRegister, c
    <3> HIDE DEF y, v
    <3> QED BY <1>3, <1>4, <2>1, <3>2, <3>3
  <2>3. z \in WriteRecord /\ z.pc = w.pc /\ z.buffered = w.buffered
    BY <1>0 DEF WriteRecord
  <2> HIDE DEF z
  <2> QED BY <1>0, <1>2, <1>7, <2>1, <2>2, <2>3 DEF NewProducerIdle, WriteStops, z
<1>8. CASE WriteTimeout
  <2>1. CASE w' = [w EXCEPT !.voted = TRUE]
    BY <1>0, <1>3, <1>8, <2>1 DEF WriteTimeout, WriteRecord
  <2> QED BY <1>2, <1>8, <2>1 DEF WriteTimeout, WriteStops
<1>9. CASE NewProducerWriting
  <2>1. w.pc = "writing" /\ out' = out /\ w'.pc = w.pc /\ w'.buffered = w.buffered /\ w'.job = w.job
    BY <1>0, <1>9 DEF NewProducerWriting, WriteRecord
  <2> QED BY <1>3, <2>1 DEF LinkOK, JobOK
<1>10. CASE WriteDone
  <2> DEFINE b == IF w.job \in {Sync, Flush} THEN <<>> ELSE Append(w.buffered, w.job)
             x == [w EXCEPT !.buffered = b]
  <2>1. w.pc = "writing" /\ w.job \in Commands \cup {Sync, Flush} /\ w.buffered \in Seq(Messages)
    BY <1>10 DEF WriteDone, LinkOK, JobOK, WriteRecord
  <2>2. w' = AfterWrite(x)
    BY <1>10 DEF WriteDone
  <2>3. b \in Seq(Messages) /\ \A n \in DOMAIN b : b[n] # Link
    <3>1. CASE w.job \in {Sync, Flush}
      BY <3>1
    <3>2. CASE w.job \notin {Sync, Flush}
      <4>1. w.job \in Commands /\ w.job \in Messages /\ w.job # Link
        BY <2>1, <3>2 DEF Messages, Commands, Link
      <4>2. b = Append(w.buffered, w.job)
        BY <3>2
      <4> HIDE DEF b
      <4>3. \A n \in DOMAIN w.buffered : w.buffered[n] # Link
        BY DEF LinkOK, BufferedOK
      <4> QED BY <2>1, <4>1, <4>2, <4>3
    <3> QED BY <3>1, <3>2
  <2> HIDE DEF b
  <2>4. x \in WriteRecord /\ x.buffered = b
    BY <1>0, <2>3 DEF WriteRecord
  <2> HIDE DEF x
  <2>5. w'.pc \in {"idle", "writing"} /\ w'.buffered = b /\ (w'.pc = "writing" => w'.job \in Commands \cup {Sync, Flush})
    <3>1. CASE w' = Writing([x EXCEPT !.needs_sync = FALSE, !.flushed = FALSE], Sync)
      BY <2>4, <3>1 DEF Writing, WriteRecord
    <3>2. CASE w' = Writing([x EXCEPT !.data = Tail(@), !.flushed = FALSE], Command(Head(x.data))) /\ HasData(x.data)
      <4>1. x.data \in Seq(Ops) /\ x.data # <<>>
        BY <2>4, <3>2 DEF HasData, WriteRecord
      <4>2. Head(x.data) \in Ops /\ Tail(x.data) \in Seq(Ops)
        BY <4>1
      <4>3. Command(Head(x.data)) \in Commands
        BY <4>2, MessageTypes
      <4> QED BY <2>4, <3>2, <4>3 DEF Writing, WriteRecord
    <3>3. CASE w' = [x EXCEPT !.pc = "idle", !.job = None]
      BY <2>4, <3>3 DEF WriteRecord
    <3> QED BY <2>2, <3>1, <3>2, <3>3 DEF AfterWrite
  <2>6. BufferedOK' /\ JobOK'
    BY <1>1, <2>3, <2>5 DEF BufferedOK, JobOK
  <2>7. \E more \in Seq(Messages) : out' = out \o more /\ \A n \in DOMAIN more : more[n] # Link
    <3>1. out' = out \o <<>> \/ Flushed(<<Sync>>) \/ Flushed(<<>>)
      BY <1>10 DEF WriteDone, JobWritten
    <3>2. <<>> \in Seq(Messages) /\ \A n \in DOMAIN <<>> : <<>>[n] # Link
      OBVIOUS
    <3> QED BY <3>1, <3>2, FlushedAddsNoLink
  <2> QED BY <1>0, <2>1, <2>5, <2>6, <2>7, LinkByWrite
<1>11. CASE WriteChannelClosed
  BY <1>2, <1>11 DEF WriteChannelClosed, WriteStops
<1>12. ASSUME NEW c \in Consumers, ProducerGone(c) PROVE LinkOK'
  <2> DEFINE left == w.registered \ {c}
             x == [w EXCEPT !.registered = left, !.needs_sync = @ /\ left # {}]
  <2>1. x \in WriteRecord /\ x.pc = w.pc /\ x.buffered = w.buffered /\ x.job = w.job
    BY <1>0 DEF WriteRecord
  <2>2. out' = out /\ w.pc \in {"idle", "writing"} /\ (w' = x \/ w' = Writing(x, Flush))
    BY <1>12 DEF ProducerGone
  <2> HIDE DEF x
  <2> QED BY <1>3, <1>4, <2>1, <2>2 DEF LinkOK, JobOK
<1>13. ASSUME NEW c \in Consumers, NEW k \in KeysOf, TakeCommand(c, k) PROVE LinkOK'
  <2> DEFINE op == [key |-> k, number |-> counts.command + 1]
             x == [w EXCEPT !.flushed = FALSE]
             y == [w EXCEPT !.data = PushOperation(@, op)]
  <2>1. op \in Ops
    <3>1. counts.command + 1 \in Nat
      BY DEF CountsRecord
    <3> QED BY <3>1 DEF Ops
  <2> HIDE DEF op
  <2>2. w.data \in Seq(Ops)
    BY DEF WriteRecord
  <2>3. /\ x \in WriteRecord /\ x.pc = w.pc /\ x.buffered = w.buffered
        /\ y \in WriteRecord /\ y.pc = w.pc /\ y.buffered = w.buffered /\ y.job = w.job
    BY <1>0, <2>1, <2>2, PushType DEF WriteRecord
  <2>4. /\ out' = out /\ w.pc \in {"idle", "writing"}
        /\ w' = Writing(x, Command(op)) \/ w' = Writing(y, Flush) \/ (w' = y /\ w.pc = "writing")
    BY <1>13 DEF TakeCommand, op
  <2>5. Command(op) \in Commands
    BY <2>1, MessageTypes
  <2> HIDE DEF x, y
  <2> QED BY <1>3, <1>4, <2>3, <2>4, <2>5 DEF LinkOK, JobOK
<1> QED BY <1>5, <1>6, <1>7, <1>8, <1>9, <1>10, <1>11, <1>12, <1>13

\* ... and so do those of the lane.
LEMMA LaneLinkKept ==
  ASSUME DownlinkTypeOK, DownlinkTypeOK', LinkOK,
         LaneReceives \/ LaneUnlinks \/ ConnectionLost \/ \E k \in KeysOf : LaneChanges(k)
  PROVE  LinkOK'
<1>00. counts.version + 1 \in Nat
  <2>1. counts \in CountsRecord
    BY DEF DownlinkTypeOK
  <2>2. counts.version \in Nat
    BY <2>1 DEF CountsRecord
  <2> QED BY <2>2
<1> USE DEF DownlinkTypeOK
<1>0. UNCHANGED <<kind, r, w>>
  BY DEF LaneReceives, LaneUnlinks, ConnectionLost, LaneChanges
<1>1. ReadStarts' /\ BufferedOK' /\ JobOK'
  BY <1>0, SameSorts DEF LinkOK, ReadStarts, BufferedOK, JobOK
<1>2. CASE /\ out' = out /\ inn' = inn /\ lane'.linked = lane.linked
  BY <1>0, <1>1, <1>2 DEF LinkOK, LinkOnItsWay, WriteStarts, OneLink, NotLinked
<1>3. \A more \in Seq(Notes) : inn # <<>> => inn \o more # <<>> /\ (inn \o more)[1] = inn[1]
  OBVIOUS
<1>4. CASE lane.linked /\ out' = out /\ \E more \in Seq(Notes) : inn' = inn \o more
  <2>1. ~NotLinked
    BY <1>4 DEF NotLinked
  <2>2. LinkOnItsWay'
    BY <1>0, <1>3, <1>4, <2>1 DEF LinkOK, LinkOnItsWay
  <2>3. WriteStarts' /\ OneLink'
    BY <1>0, <1>4, <2>1 DEF LinkOK, WriteStarts, OneLink
  <2> QED BY <1>1, <2>2, <2>3 DEF LinkOK
<1>5. CASE LaneReceives
  <2> DEFINE m == Head(out)
  <2>1. out # <<>> /\ out' = Tail(out) /\ m = out[1] /\ m \in Messages /\ r.pc = "run"
    BY <1>5 DEF LaneReceives, Running
  <2>2. w.pc # "link"
    BY <2>1 DEF LinkOK, WriteStarts
  <2>3. WriteStarts'
    BY <1>0, <2>2 DEF WriteStarts
  <2>4. OneLink'
    <3>1. \A n \in DOMAIN out' : n + 1 \in DOMAIN out /\ out'[n] = out[n + 1] /\ n + 1 # 1
      BY <2>1
    <3> QED BY <3>1 DEF LinkOK, OneLink
  <2>5. CASE m.type = "Link" /\ Answers(<<Linked>>)
    <3>1. m = Link
      BY <2>1, <2>5 DEF Messages, Commands, Sync, Flush
    <3>2. inn = <<>>
      BY <2>1, <3>1 DEF LinkOK, OneLink, NotLinked
    <3>3. inn' = <<Linked>>
      BY <2>5, <3>2 DEF Answers
    <3>4. LinkOnItsWay'
      BY <3>3 DEF LinkOnItsWay
    <3> QED BY <1>1, <2>3, <2>4, <3>4 DEF LinkOK
  <2>6. CASE m.type # "Link" /\ \E more \in Seq(Notes) : inn' = inn \o more
    <3>1. m # Link
      BY <2>6 DEF Link
    <3>2. LinkOnItsWay'
      BY <1>0, <1>3, <2>1, <2>6, <3>1 DEF LinkOK, LinkOnItsWay
    <3> QED BY <1>1, <2>3, <2>4, <3>2 DEF LinkOK
  <2>7. CASE m.type = "Sync" /\ Answers(Answer)
    BY <2>6, <2>7, AnswerFacts DEF Answers
  <2>8. CASE m.type = "Command" /\ Sends(Event(m.op.key, counts.version + 1))
    <3>1. m.op \in Ops
      BY <2>1, <2>8 DEF Messages, Commands, Link, Sync, Flush
    <3>2. Event(m.op.key, counts.version + 1) \in Notes
      <4>1. counts.version + 1 \in Nat /\ m.op.key \in KeysOf
        BY <1>00, <3>1 DEF Ops
      <4> QED BY <4>1 DEF Notes, Events, Event
    <3> DEFINE e == <<Event(m.op.key, counts.version + 1)>>
    <3>3. e \in Seq(Notes) /\ <<>> \in Seq(Notes)
      BY <3>2
    <3>4. inn' = inn \o e \/ inn' = inn
      BY <2>8 DEF Sends, Answers
    <3> HIDE DEF e
    <3>5. inn' = inn \o e \/ inn' = inn \o <<>>
      BY <3>4
    <3> QED BY <2>6, <2>8, <3>3, <3>5
  <2> QED BY <1>5, <2>5, <2>7, <2>8 DEF LaneReceives, Answer
<1>6. CASE LaneUnlinks
  <2>1. <<Unlinked>> \in Seq(Notes)
    BY DEF Notes
  <2> QED BY <1>4, <1>6, <2>1 DEF LaneUnlinks, Answers
<1>7. CASE ConnectionLost
  BY <1>2, <1>7 DEF ConnectionLost, LaneRecord
<1>8. ASSUME NEW k \in KeysOf, LaneChanges(k) PROVE LinkOK'
  <2>0. counts.version + 1 \in Nat
    BY <1>00
  <2>1. Event(k, counts.version + 1) \in Notes
    BY <2>0 DEF Notes, Events, Event
  <2>2. <<Event(k, counts.version + 1)>> \in Seq(Notes)
    BY <2>1
  <2>3. CASE lane.linked
    <3>1. \E more \in Seq(Notes) : inn' = inn \o more
      BY <1>8, <2>2, <2>3 DEF LaneChanges, Sends, Answers
    <3> QED BY <1>4, <1>8, <2>3, <3>1 DEF LaneChanges
  <2>4. CASE ~lane.linked
    BY <1>2, <1>8, <2>4 DEF LaneChanges, Sends, LaneRecord
  <2> QED BY <2>3, <2>4
<1> QED BY <1>5, <1>6, <1>7, <1>8

\* Every step keeps the link in its place.
LEMMA LinkKept == ASSUME DownlinkTypeOK, DownlinkTypeOK', LinkOK, [Next]_vars PROVE LinkOK'
<1>1. CASE \/ AttachProducer \/ AttachStops \/ Stop \/ UNCHANGED vars
           \/ \E c \in Consumers : AttachConsumer(c) \/ Leave(c) \/ StopWriting(c)
  <2>1. UNCHANGED <<kind, r, w, inn, out, lane>>
    BY <1>1 DEF AttachProducer, AttachStops, Stop, vars, AttachConsumer, Leave, StopWriting
  <2> QED BY <2>1, SameSorts DEF LinkOK, ReadStarts, LinkOnItsWay, WriteStarts, OneLink, BufferedOK, JobOK, NotLinked
<1> QED BY <1>1, ReadLinkKept, WriteLinkKept, LaneLinkKept DEF Next, Tasks

\* A notification is taken: an event becomes the last that was taken.
LEMMA NoteTaken ==
  ASSUME NEW q \in Seq(Notes), q # <<>>, NEW version, NEW taken \in BOOLEAN, NEW current,
         LastEventHas(q, taken, current, version)
  PROVE  /\ LastEventHas(Tail(q), FALSE, current, version)
         /\ Head(q).type # "Event" => LastEventHas(Tail(q), taken, current, version)
         /\ Head(q).type = "Event" => LastEventHas(Tail(q), TRUE, Head(q), version)
<1>1. /\ Head(q) = q[1] /\ Tail(q) \in Seq(Notes) /\ Len(Tail(q)) = Len(q) - 1
      /\ \A n \in DOMAIN Tail(q) : n \in Nat /\ n + 1 \in DOMAIN q /\ Tail(q)[n] = q[n + 1]
      /\ \A n \in DOMAIN q : n \in Nat /\ (n # 1 => n - 1 \in DOMAIN Tail(q) /\ q[n] = Tail(q)[n - 1])
      /\ 1 \in DOMAIN q
  OBVIOUS
<1> DEFINE p == Tail(q)
<1> HIDE DEF p
<1>2. ASSUME NEW n \in DOMAIN p, p[n].type = "Event", \A m \in DOMAIN p : m > n => p[m].type # "Event"
      PROVE  p[n].version = version
  <2>1. n + 1 \in DOMAIN q /\ q[n + 1] = p[n] /\ n \in Nat
    BY <1>1, <1>2 DEF p
  <2>2. ASSUME NEW m \in DOMAIN q, m > n + 1 PROVE q[m].type # "Event"
    <3>1. m - 1 \in DOMAIN p /\ q[m] = p[m - 1] /\ m \in Nat
      BY <1>1, <2>1, <2>2 DEF p
    <3> QED BY <1>2, <2>1, <2>2, <3>1
  <2> QED BY <1>2, <2>1, <2>2 DEF LastEventHas
<1>3. ASSUME \A n \in DOMAIN p : p[n].type # "Event"
      PROVE  \A n \in DOMAIN q : n # 1 => q[n].type # "Event"
  BY <1>1, <1>3 DEF p
<1>4. LastEventHas(p, FALSE, current, version)
  BY <1>2 DEF LastEventHas
<1>5. ASSUME Head(q).type # "Event" PROVE LastEventHas(p, taken, current, version)
  BY <1>1, <1>2, <1>3, <1>5 DEF LastEventHas
<1>6. ASSUME Head(q).type = "Event" PROVE LastEventHas(p, TRUE, Head(q), version)
  <2>1. ASSUME \A n \in DOMAIN p : p[n].type # "Event" PROVE Head(q).version = version
    <3>1. \A m \in DOMAIN q : m > 1 => q[m].type # "Event"
      BY <1>3, <2>1
    <3> QED BY <1>1, <1>6, <3>1 DEF LastEventHas
  <2> QED BY <1>2, <2>1 DEF LastEventHas
<1> QED BY <1>4, <1>5, <1>6 DEF p

\* An event, and what follows that is none, are sent.
LEMMA NotesSent ==
  ASSUME NEW q \in Seq(Notes), NEW a \in Seq(Notes), a # <<>>, a[1].type = "Event",
         \A n \in DOMAIN a : n # 1 => a[n].type # "Event",
         NEW taken, NEW current
  PROVE  /\ LastEventHas(q \o a, taken, current, a[1].version)
         /\ SyncedAfterEvent(q, taken) => SyncedAfterEvent(q \o a, taken)
<1> DEFINE p == q \o a
           l == Len(q) + 1
<1>1. /\ p \in Seq(Notes) /\ l \in DOMAIN p /\ p[l] = a[1] /\ l \in Nat
      /\ \A n \in DOMAIN p : n \in Nat /\ (n > l => p[n].type # "Event")
      /\ \A n \in DOMAIN q : n \in DOMAIN p /\ p[n] = q[n]
      /\ \A n \in DOMAIN p : n < l => n \in DOMAIN q
  OBVIOUS
<1> HIDE DEF p, l
<1>2. ASSUME NEW n \in DOMAIN p, p[n].type = "Event", \A m \in DOMAIN p : m > n => p[m].type # "Event"
      PROVE  p[n].version = a[1].version
  BY <1>1, <1>2
<1>3. LastEventHas(p, taken, current, a[1].version)
  BY <1>1, <1>2 DEF LastEventHas
<1>4. ASSUME SyncedAfterEvent(q, taken), NEW n \in DOMAIN p, p[n] = Synced, ~taken
      PROVE  \E m \in DOMAIN p : m < n /\ p[m].type = "Event"
  <2>1. CASE n < l
    BY <1>1, <1>4, <2>1 DEF SyncedAfterEvent
  <2>2. CASE n = l
    BY <1>1, <1>4, <2>2 DEF Synced
  <2>3. CASE n > l
    BY <1>1, <2>3
  <2> QED BY <1>1, <2>1, <2>2, <2>3
<1>5. SyncedAfterEvent(q, taken) => SyncedAfterEvent(p, taken)
  BY <1>4 DEF SyncedAfterEvent
<1> QED BY <1>3, <1>5 DEF p

\* ... and the mark has an event before it, there or taken.
LEMMA SyncedTaken ==
  ASSUME NEW q \in Seq(Notes), q # <<>>, NEW taken \in BOOLEAN, SyncedAfterEvent(q, taken)
  PROVE  /\ Head(q).type # "Event" => SyncedAfterEvent(Tail(q), taken)
         /\ SyncedAfterEvent(Tail(q), TRUE)
         /\ Head(q) = Synced => taken
<1>1. /\ Head(q) = q[1] /\ 1 \in DOMAIN q
      /\ \A n \in DOMAIN Tail(q) : n \in Nat /\ n + 1 \in DOMAIN q /\ Tail(q)[n] = q[n + 1]
      /\ \A n \in DOMAIN q : n \in Nat /\ n >= 1 /\ (n # 1 => n - 1 \in DOMAIN Tail(q) /\ q[n] = Tail(q)[n - 1])
  OBVIOUS
<1> DEFINE p == Tail(q)
<1> HIDE DEF p
<1>2. ASSUME Head(q).type # "Event", NEW n \in DOMAIN p, p[n] = Synced, ~taken
      PROVE  \E m \in DOMAIN p : m < n /\ p[m].type = "Event"
  <2>1. n + 1 \in DOMAIN q /\ q[n + 1] = Synced /\ n \in Nat
    BY <1>1, <1>2 DEF p
  <2>2. PICK m \in DOMAIN q : m < n + 1 /\ q[m].type = "Event"
    BY <1>2, <2>1 DEF SyncedAfterEvent
  <2>3. m # 1 /\ m \in Nat
    BY <1>1, <1>2, <2>2
  <2>4. m - 1 \in DOMAIN p /\ q[m] = p[m - 1]
    BY <1>1, <2>3 DEF p
  <2> QED BY <2>1, <2>2, <2>3, <2>4
<1>3. Head(q).type # "Event" => SyncedAfterEvent(p, taken)
  BY <1>2 DEF SyncedAfterEvent
<1>4. SyncedAfterEvent(p, TRUE)
  BY DEF SyncedAfterEvent
<1>5. Head(q) = Synced => taken
  BY <1>1 DEF SyncedAfterEvent
<1> QED BY <1>3, <1>4, <1>5 DEF p

\* Something other than the mark is sent.
LEMMA OtherSent ==
  ASSUME NEW q \in Seq(Notes), NEW e \in Notes, e # Synced, NEW taken, SyncedAfterEvent(q, taken)
  PROVE  SyncedAfterEvent(q \o <<e>>, taken)
<1> DEFINE p == q \o <<e>>
<1>1. /\ \A n \in DOMAIN p : n \in DOMAIN q \/ p[n] = e
      /\ \A n \in DOMAIN q : n \in DOMAIN p /\ p[n] = q[n]
  OBVIOUS
<1> HIDE DEF p
<1>2. SyncedAfterEvent(p, taken)
  BY <1>1 DEF SyncedAfterEvent
<1> QED BY <1>2 DEF p

\* Nothing is said or taken; a consumer may go.
LEMMA ValueSame ==
  ASSUME DownlinkTypeOK, ValueOK, kind' = kind, inn' = inn, lane'.linked = lane.linked, lane'.state = lane.state,
         r'.sync_event = r.sync_event, r'.current = r.current, r'.pc = "run" => r.pc = "run",
         Reading(r.registered)' \subseteq Reading(r.registered),
         \A c \in Consumers : cons'[c].view = cons[c].view
  PROVE  ValueOK'
<1>1. Reading(r.registered) \subseteq Consumers
  BY DEF DownlinkTypeOK, ReadRecord, Reading
<1>2. ViewsAreCurrent => ViewsAreCurrent'
  BY <1>1 DEF ViewsAreCurrent
<1> QED BY <1>2 DEF ValueOK

\* A read task that ends has no consumer left to be wrong about.
LEMMA ValueDone ==
  ASSUME DownlinkTypeOK, ValueOK, UNCHANGED <<kind, lane>>, r' = ReadTask("done"),
         inn' = inn \/ (inn # <<>> /\ inn' = Tail(inn))
  PROVE  ValueOK'
<1>1. r'.pc = "done" /\ r'.registered = {} /\ r'.sync_event = FALSE
  BY DEF ReadTask
<1>2. ViewsAreCurrent'
  BY <1>1 DEF ViewsAreCurrent, Reading
<1>3. ASSUME kind = "value", lane.linked
      PROVE  LastEventHas(inn', FALSE, r'.current, lane.state[One])
  <2>1. LastEventHas(inn, r.sync_event, r.current, lane.state[One])
    BY <1>3 DEF ValueOK
  <2>2. inn \in Seq(Notes) /\ r.sync_event \in BOOLEAN
    BY DEF DownlinkTypeOK, ReadRecord
  <2>3. LastEventHas(inn', FALSE, r.current, lane.state[One])
    <3>1. LastEventHas(inn, FALSE, r.current, lane.state[One])
      BY <2>1 DEF LastEventHas
    <3>2. inn # <<>> => LastEventHas(Tail(inn), FALSE, r.current, lane.state[One])
      BY <2>1, <2>2, NoteTaken
    <3> QED BY <3>1, <3>2
  <2> QED BY <2>3 DEF LastEventHas
<1> QED BY <1>1, <1>2, <1>3 DEF ValueOK

\* The steps of the read task keep the value right.
LEMMA ReadValueKept ==
  ASSUME DownlinkTypeOK, VotesOK, LinkOK, ValueOK,
         ReadTimeout \/ NewConsumer \/ OnLinked \/ OnSynced \/ OnEvent \/ OnUnlinked \/ ReadFlush \/ ReadChannelClosed
  PROVE  ValueOK'
<1> USE DEF DownlinkTypeOK
<1>0. r \in ReadRecord /\ UNCHANGED <<kind, w, out, lane>>
  BY DEF ReadTimeout, NewConsumer, OnLinked, OnSynced, OnEvent, OnUnlinked, ReadFlush, ReadChannelClosed
<1>1. ASSUME UNCHANGED <<inn, cons>>, r'.sync_event = r.sync_event, r'.current = r.current, r'.pc = r.pc,
             r'.registered \subseteq r.registered
      PROVE  ValueOK'
  BY <1>0, <1>1, ValueSame DEF Reading
<1>2. CASE ReadTimeout
  <2>1. CASE r' = [r EXCEPT !.timer = FALSE, !.voted = TRUE]
    <3>1. r'.sync_event = r.sync_event /\ r'.current = r.current /\ r'.pc = r.pc /\ r'.registered = r.registered
      BY <1>0, <2>1 DEF ReadRecord
    <3> QED BY <1>1, <1>2, <3>1 DEF ReadTimeout
  <2> QED BY <1>0, <1>2, <2>1, ValueDone DEF ReadTimeout, ReadStops
<1>3. CASE NewConsumer
  <2>0. UNCHANGED <<inn, cons>>
    BY <1>3 DEF NewConsumer
  <2>1. ASSUME NEW x, Joins(x), DOMAIN x = DOMAIN r, x.pc = r.pc, x.sync_event = r.sync_event,
               x.current = r.current, x.registered = r.registered
        PROVE  ValueOK'
    <3>1. CASE r' = [x EXCEPT !.timer = FALSE, !.voted = FALSE, !.joined = FALSE]
      <4>1. r'.sync_event = r.sync_event /\ r'.current = r.current /\ r'.pc = r.pc /\ r'.registered = r.registered
        BY <1>0, <2>1, <3>1 DEF ReadRecord
      <4> QED BY <1>1, <2>0, <4>1
    <3> QED BY <1>0, <2>0, <2>1, <3>1, ValueDone DEF Joins, ReadStops
  <2>2. CASE r' = [r EXCEPT !.joined = FALSE]
    <3>1. r'.sync_event = r.sync_event /\ r'.current = r.current /\ r'.pc = r.pc /\ r'.registered = r.registered
      BY <1>0, <2>2 DEF ReadRecord
    <3> QED BY <1>1, <2>0, <3>1
  <2>3. \A cs : LET x == [r EXCEPT !.awaiting_linked = cs]
                    y == [r EXCEPT !.awaiting_synced = cs]
                IN  /\ DOMAIN x = DOMAIN r /\ x.pc = r.pc /\ x.sync_event = r.sync_event
                    /\ x.current = r.current /\ x.registered = r.registered
                    /\ DOMAIN y = DOMAIN r /\ y.pc = r.pc /\ y.sync_event = r.sync_event
                    /\ y.current = r.current /\ y.registered = r.registered
    BY <1>0 DEF ReadRecord
  <2> QED BY <1>3, <2>1, <2>2, <2>3 DEF NewConsumer
<1>4. CASE OnUnlinked
  BY <1>0, <1>4, ValueDone DEF OnUnlinked, NextMessage, ReadStops
<1>5. CASE ReadChannelClosed
  BY <1>0, <1>5, ValueDone DEF ReadChannelClosed, ReadStops
<1>6. CASE ReadFlush
  <2> DEFINE x == [r EXCEPT !.flushed = TRUE, !.awaiting_synced = Reading(@), !.registered = Reading(@)]
  <2>1. UNCHANGED <<inn, cons>> /\ r' = [Settle(x) EXCEPT !.joined = Subscribers(x) = {}]
    BY <1>6 DEF ReadFlush
  <2>2. x \in ReadRecord /\ x.pc = r.pc /\ x.sync_event = r.sync_event /\ x.current = r.current
        /\ x.registered \subseteq r.registered
    BY <1>0 DEF ReadRecord, Reading
  <2> HIDE DEF x
  <2> DEFINE z == Settle(x)
  <2>3. z \in ReadRecord /\ z.pc = r.pc /\ z.sync_event = r.sync_event /\ z.current = r.current
        /\ z.registered \subseteq r.registered
    BY <2>2, SettleFacts, SettleIs
  <2> HIDE DEF z
  <2>4. r' = [z EXCEPT !.joined = Subscribers(x) = {}]
    BY <2>1 DEF z
  <2>5. r'.pc = r.pc /\ r'.sync_event = r.sync_event /\ r'.current = r.current /\ r'.registered \subseteq r.registered
    BY <2>3, <2>4 DEF ReadRecord
  <2> QED BY <1>1, <2>1, <2>5
<1>7. ASSUME inn # <<>>, inn' = Tail(inn), Head(inn).type # "Event", r.pc = "run",
             r'.sync_event = r.sync_event, r'.current = r.current, ViewsAreCurrent => ViewsAreCurrent'
      PROVE  ValueOK'
  <2>1. inn \in Seq(Notes) /\ r.sync_event \in BOOLEAN
    BY <1>0 DEF ReadRecord
  <2>2. kind = "value" /\ lane.linked => LastEventHas(inn', r'.sync_event, r'.current, lane.state[One])
    BY <1>7, <2>1, NoteTaken DEF ValueOK
  <2>3. kind = "value" => SyncedAfterEvent(inn', r'.sync_event)
    BY <1>7, <2>1, SyncedTaken DEF ValueOK
  <2> QED BY <1>0, <1>7, <2>2, <2>3 DEF ValueOK
<1>8. CASE OnLinked
  <2> DEFINE told == Reading(r.awaiting_linked)
             x == [r EXCEPT !.dl_state = "Linked", !.joined = FALSE]
             y == [x EXCEPT !.awaiting_linked = {}, !.awaiting_synced = @ \cup (told \cap SyncConsumers),
                            !.registered = @ \cup (told \ SyncConsumers)]
  <2>1. /\ inn # <<>> /\ inn' = Tail(inn) /\ Head(inn) = Linked /\ r.pc = "run" /\ cons' = cons
        /\ r' = Settle(y) \/ r' = x
    BY <1>8 DEF OnLinked, NextMessage, MayRead
  <2>2. /\ x \in ReadRecord /\ x.sync_event = r.sync_event /\ x.current = r.current /\ x.registered = r.registered
        /\ y \in ReadRecord /\ y.sync_event = r.sync_event /\ y.current = r.current
        /\ y.registered = r.registered \cup (told \ SyncConsumers)
    BY <1>0 DEF ReadRecord, Reading
  <2> HIDE DEF x, y
  <2>3. /\ r'.sync_event = r.sync_event /\ r'.current = r.current
        /\ r'.registered \cap SyncConsumers \subseteq r.registered
    <3>1. CASE r' = Settle(y)
      <4>1. r'.sync_event = r.sync_event /\ r'.current = r.current /\ r'.registered = y.registered
        BY <2>2, <3>1, SettleIs
      <4> QED BY <2>2, <4>1
    <3>2. CASE r' = x
      BY <2>2, <3>2
    <3> QED BY <2>1, <3>1, <3>2
  <2>4. ViewsAreCurrent => ViewsAreCurrent'
    BY <2>1, <2>3 DEF ViewsAreCurrent, Reading
  <2> QED BY <1>7, <2>1, <2>3, <2>4 DEF Linked
<1>9. CASE OnSynced
  <2> DEFINE told == Reading(r.awaiting_synced)
             x == [r EXCEPT !.dl_state = "Synced", !.joined = FALSE]
             y == [x EXCEPT !.awaiting_synced = {}, !.registered = @ \cup told]
  <2>1. inn # <<>> /\ inn' = Tail(inn) /\ Head(inn) = Synced /\ r.pc = "run"
    BY <1>9 DEF OnSynced, NextMessage, MayRead
  <2>2. CASE kind # "value"
    BY <1>0, <2>2 DEF ValueOK
  <2>3. CASE kind = "value" /\ Active
    <3>1. r.sync_event
      <4>1. SyncedAfterEvent(inn, r.sync_event) /\ inn \in Seq(Notes) /\ r.sync_event \in BOOLEAN
        BY <1>0, <2>1, <2>3 DEF ValueOK, ReadRecord
      <4> QED BY <2>1, <4>1, SyncedTaken
    <3>2. /\ r' = Settle(y)
          /\ cons' = [c \in Consumers |->
                        IF c \in told THEN [cons[c] EXCEPT !.view = Seen(cons[c].view, r.current)] ELSE cons[c]]
      BY <1>9, <2>3, <3>1 DEF OnSynced, WithCurrent
    <3>3. y \in ReadRecord /\ y.sync_event = r.sync_event /\ y.current = r.current
          /\ y.registered = r.registered \cup told
      BY <1>0 DEF ReadRecord, Reading
    <3> HIDE DEF y
    <3>4. r'.sync_event = r.sync_event /\ r'.current = r.current /\ r'.registered = r.registered \cup told
      BY <3>2, <3>3, SettleIs
    <3>5. r.current.key = One
      BY <1>0, <2>3 DEF ReadRecord, Events, Event, KeysOf
    <3>6. ASSUME NEW c \in Consumers
          PROVE  /\ cons'[c].reads = cons[c].reads
                 /\ c \in told => cons'[c].view[One] = r.current.version
                 /\ c \notin told => cons'[c].view = cons[c].view
      <4>1. cons[c] \in ConsumerRecord /\ One \in KeysOf
        BY <2>3 DEF KeysOf
      <4> QED BY <3>2, <3>5, <4>1 DEF Seen, ConsumerRecord
    <3>7. r'.registered \subseteq Consumers
      BY <1>0, <3>4 DEF ReadRecord, Reading
    <3>8. ViewsAreCurrent'
      <4> SUFFICES ASSUME NEW c \in r'.registered, cons'[c].reads, c \in SyncConsumers
                   PROVE  r'.sync_event /\ cons'[c].view[One] = r'.current.version
        BY DEF ViewsAreCurrent, Reading
      <4>1. CASE c \in told
        BY <3>1, <3>4, <3>6, <3>7, <4>1
      <4>2. CASE c \notin told
        <5>1. c \in Reading(r.registered)
          BY <3>4, <3>6, <3>7, <4>2 DEF Reading
        <5>2. ViewsAreCurrent
          BY <2>3 DEF ValueOK
        <5>3. cons[c].view[One] = r.current.version
          BY <5>1, <5>2 DEF ViewsAreCurrent
        <5> QED BY <3>1, <3>4, <3>6, <3>7, <4>2, <5>3
      <4> QED BY <4>1, <4>2
    <3> QED BY <1>7, <2>1, <3>4, <3>8 DEF Synced
  <2>4. CASE ~Active
    <3>1. r' = x /\ cons' = cons
      BY <1>9, <2>4 DEF OnSynced
    <3>2. x.sync_event = r.sync_event /\ x.current = r.current /\ x.registered = r.registered
      BY <1>0 DEF ReadRecord
    <3>3. ViewsAreCurrent => ViewsAreCurrent'
      BY <3>1, <3>2 DEF ViewsAreCurrent, Reading
    <3> QED BY <1>7, <2>1, <3>1, <3>2, <3>3 DEF Synced
  <2> QED BY <2>2, <2>3, <2>4
<1>10. CASE OnEvent
  <2> DEFINE e == Head(inn)
             x == [r EXCEPT !.sync_event = TRUE, !.current = e, !.joined = FALSE]
  <2>1. r.pc = "run" /\ inn # <<>> /\ e.type = "Event" /\ inn' = Tail(inn)
    BY <1>10 DEF OnEvent, NextMessage, MayRead
  <2>2. e \in Events
    BY <2>1 DEF Notes, Linked, Synced, Unlinked
  <2>3. CASE kind # "value"
    BY <1>0, <2>3 DEF ValueOK
  <2>4. x \in ReadRecord /\ x.sync_event = TRUE /\ x.current = e /\ x.registered = r.registered
    BY <1>0, <2>2 DEF ReadRecord
  <2>5. ASSUME kind = "value", r'.sync_event, r'.current = e, ViewsAreCurrent' PROVE ValueOK'
    <3>1. inn \in Seq(Notes) /\ r.sync_event \in BOOLEAN
      BY <1>0 DEF ReadRecord
    <3>2. lane.linked => LastEventHas(inn', TRUE, e, lane.state[One])
      BY <2>1, <2>5, <3>1, NoteTaken DEF ValueOK
    <3>3. SyncedAfterEvent(inn', TRUE)
      BY <2>1 DEF SyncedAfterEvent
    <3>4. r'.sync_event = TRUE
      <4>1. r' \in ReadRecord
        <5>1. TypesNext
          BY <1>10, ReadTypes
        <5> QED BY <5>1 DEF TypesNext
      <4> QED BY <2>5, <4>1 DEF ReadRecord
    <3> QED BY <1>0, <2>5, <3>2, <3>3, <3>4 DEF ValueOK
  <2> HIDE DEF x
  <2>6. CASE kind = "value" /\ Active
    <3>1. EventTargets = r.registered
      BY <2>6 DEF EventTargets
    <3>2. PICK failed \in SUBSET {c \in EventTargets : ~cons[c].reads} :
            r' = [Settle([x EXCEPT !.registered = @ \ failed, !.awaiting_synced = @ \ failed])
                   EXCEPT !.flushed = Subscribers([x EXCEPT !.registered = @ \ failed,
                                                            !.awaiting_synced = @ \ failed]) = {}]
      BY <1>10, <2>6 DEF OnEvent, x
    <3> DEFINE y == [x EXCEPT !.registered = @ \ failed, !.awaiting_synced = @ \ failed]
               z == Settle(y)
    <3>3. y \in ReadRecord /\ y.sync_event = TRUE /\ y.current = e /\ y.registered = r.registered \ failed
      BY <2>4 DEF ReadRecord
    <3>4. r' = [z EXCEPT !.flushed = Subscribers(y) = {}]
      BY <3>2
    <3> HIDE DEF y
    <3>5. z \in ReadRecord /\ z.sync_event = TRUE /\ z.current = e /\ z.registered = r.registered \ failed
      BY <3>3, SettleFacts, SettleIs
    <3> HIDE DEF z
    <3>6. r'.sync_event = TRUE /\ r'.current = e /\ r'.registered = r.registered \ failed
      BY <3>4, <3>5 DEF ReadRecord
    <3>7. e.key = One
      BY <2>2, <2>6 DEF Events, KeysOf
    <3>8. cons' = [c \in Consumers |-> IF c \in EventTargets /\ cons[c].reads
                                          THEN [cons[c] EXCEPT !.view = Seen(@, e)] ELSE cons[c]]
      BY <1>10, <2>6 DEF OnEvent
    <3> HIDE DEF e
    <3>9. ASSUME NEW c \in Consumers, c \in r.registered, cons'[c].reads
          PROVE  cons'[c].view[One] = e.version
      <4>1. cons[c] \in ConsumerRecord /\ One \in KeysOf
        BY <2>6 DEF KeysOf
      <4>2. cons'[c].reads = cons[c].reads
        BY <3>8, <4>1 DEF ConsumerRecord
      <4> QED BY <3>1, <3>7, <3>8, <3>9, <4>1, <4>2 DEF Seen, ConsumerRecord
    <3>10. r.registered \subseteq Consumers
      BY <1>0 DEF ReadRecord
    <3>11. ViewsAreCurrent'
      BY <3>6, <3>9, <3>10 DEF ViewsAreCurrent, Reading
    <3> QED BY <2>5, <2>6, <3>6, <3>11
  <2>7. CASE kind = "value" /\ ~Active
    <3>1. r' = x /\ r.timer
      BY <1>10, <2>7 DEF OnEvent, Active, x
    <3>2. r.registered = {}
      BY <3>1 DEF VotesOK, ReadVotes, InRead
    <3>3. ViewsAreCurrent'
      BY <2>4, <3>1, <3>2 DEF ViewsAreCurrent, Reading
    <3> QED BY <2>4, <2>5, <2>7, <3>1, <3>3
  <2> QED BY <2>3, <2>6, <2>7
<1> QED BY <1>2, <1>3, <1>4, <1>5, <1>6, <1>8, <1>9, <1>10

\* ... and so do those of the lane.
LEMMA LaneValueKept ==
  ASSUME DownlinkTypeOK, LinkOK, ValueOK,
         LaneReceives \/ LaneUnlinks \/ ConnectionLost \/ \E k \in KeysOf : LaneChanges(k)
  PROVE  ValueOK'
<1>0. /\ UNCHANGED <<kind, r, cons>> /\ inn \in Seq(Notes) /\ lane \in LaneRecord /\ counts \in CountsRecord
      /\ counts.version + 1 \in Nat
  <2>1. counts.version \in Nat
    BY DEF DownlinkTypeOK, CountsRecord
  <2> QED BY <2>1 DEF LaneReceives, LaneUnlinks, ConnectionLost, LaneChanges, DownlinkTypeOK
<1>1. ViewsAreCurrent' <=> ViewsAreCurrent
  BY <1>0 DEF ViewsAreCurrent, Reading
<1>2. CASE inn' = inn /\ lane'.linked = lane.linked /\ lane'.state = lane.state
  BY <1>0, <1>1, <1>2 DEF ValueOK
<1>3. CASE kind # "value"
  BY <1>0, <1>3 DEF ValueOK
<1>4. ASSUME kind = "value", NEW a \in Seq(Notes), a # <<>>, a[1].type = "Event", inn' = inn \o a,
             \A n \in DOMAIN a : n # 1 => a[n].type # "Event", lane'.state[One] = a[1].version
      PROVE  ValueOK'
  <2>1. LastEventHas(inn', r.sync_event, r.current, lane'.state[One])
    BY <1>0, <1>4, NotesSent
  <2>2. r.pc = "run" => SyncedAfterEvent(inn', r.sync_event)
    BY <1>0, <1>4, NotesSent DEF ValueOK
  <2> QED BY <1>0, <1>1, <1>4, <2>1, <2>2 DEF ValueOK
<1>5. ASSUME kind = "value", NEW v \in Nat, Sends(Event(One, v)), lane'.state[One] = v, lane'.linked = lane.linked
      PROVE  ValueOK'
  <2>1. CASE lane.linked
    <3> DEFINE a == <<Event(One, v)>>
    <3>1. Event(One, v) \in Notes /\ Event(One, v).type = "Event" /\ Event(One, v).version = v
      BY <1>5 DEF Event, Notes, Events, KeysOf
    <3>2. /\ a \in Seq(Notes) /\ a # <<>> /\ a[1] = Event(One, v)
          /\ \A n \in DOMAIN a : n # 1 => a[n].type # "Event"
      BY <3>1
    <3>3. inn' = inn \o a
      BY <1>5, <2>1 DEF Sends, Answers
    <3> HIDE DEF a
    <3> QED BY <1>4, <1>5, <3>1, <3>2, <3>3
  <2>2. CASE ~lane.linked
    BY <1>0, <1>1, <1>5, <2>2 DEF ValueOK, Sends
  <2> QED BY <2>1, <2>2
<1>6. CASE LaneReceives /\ kind = "value"
  <2> DEFINE m == Head(out)
             state == [k \in KeysOf |-> IF m.type = "Command" /\ m.op.key = k
                                          THEN counts.version + 1 ELSE lane.state[k]]
  <2>1. out # <<>> /\ m = out[1] /\ m \in Messages
    BY <1>6 DEF LaneReceives, DownlinkTypeOK
  <2>2. CASE m.type = "Link" /\ Answers(<<Linked>>) /\ lane' = [lane EXCEPT !.linked = TRUE]
    <3>1. m = Link
      BY <2>1, <2>2 DEF Messages, Commands, Sync, Flush
    <3>2. 1 \in DOMAIN out
      BY <2>1 DEF DownlinkTypeOK
    <3>3. inn = <<>> /\ ~r.sync_event
      BY <2>1, <3>1, <3>2 DEF LinkOK, OneLink, NotLinked
    <3>4. inn' = <<Linked>>
      BY <2>2, <3>3 DEF Answers
    <3>5. LastEventHas(inn', r.sync_event, r.current, lane'.state[One])
      BY <3>3, <3>4 DEF LastEventHas, Linked
    <3>6. SyncedAfterEvent(inn', r.sync_event)
      BY <3>4 DEF SyncedAfterEvent, Linked, Synced
    <3> QED BY <1>0, <1>1, <1>6, <3>5, <3>6 DEF ValueOK
  <2>3. CASE Answers(Answer) /\ lane' = lane
    <3>1. /\ Answer \in Seq(Notes) /\ DOMAIN Answer = {1, 2} /\ Answer[1] = Event(One, lane.state[One])
          /\ Answer[2] = Synced
      BY <1>6, AnswerFacts
    <3>2. Answer # <<>> /\ Answer[1].type = "Event" /\ Answer[1].version = lane.state[One]
          /\ \A n \in DOMAIN Answer : n # 1 => Answer[n].type # "Event"
      <4> HIDE DEF m, state
      <4>1. Event(One, lane.state[One]).type = "Event" /\ Event(One, lane.state[One]).version = lane.state[One]
        BY DEF Event
      <4>2. Synced.type # "Event"
        BY DEF Synced
      <4>3. Answer # <<>>
        <5>1. 1 \in DOMAIN Answer
          BY <3>1
        <5>2. 1 \notin DOMAIN <<>>
          OBVIOUS
        <5> QED BY <5>1, <5>2
      <4> QED BY <3>1, <4>1, <4>2, <4>3
    <3>3. inn' = inn \o Answer /\ lane'.state[One] = lane.state[One]
      BY <2>3 DEF Answers
    <3> QED BY <1>4, <1>6, <3>1, <3>2, <3>3
  <2>4. CASE /\ m.type = "Command" /\ Sends(Event(m.op.key, counts.version + 1))
             /\ lane' = [lane EXCEPT !.state = state, !.seen[m.op.key] = m.op.number]
    <3>1. m.op.key = One
      BY <1>6, <2>1, <2>4 DEF Messages, Commands, Ops, Link, Sync, Flush, KeysOf
    <3>2. state[One] = counts.version + 1
      BY <1>6, <2>4, <3>1 DEF KeysOf
    <3> HIDE DEF state
    <3>3. lane'.state = state /\ lane'.linked = lane.linked
      BY <1>0, <2>4 DEF LaneRecord
    <3> QED BY <1>0, <1>5, <1>6, <2>4, <3>1, <3>2, <3>3
  <2> QED BY <1>6, <2>2, <2>3, <2>4 DEF LaneReceives, Answer
<1>7. CASE LaneUnlinks /\ kind = "value"
  <2>1. inn' = inn \o <<Unlinked>> /\ Unlinked \in Notes /\ Unlinked # Synced /\ ~lane'.linked
    BY <1>0, <1>7 DEF LaneUnlinks, Answers, Notes, Unlinked, Synced, LaneRecord
  <2>2. r.pc = "run" => SyncedAfterEvent(inn', r.sync_event)
    BY <1>0, <1>7, <2>1, OtherSent DEF ValueOK
  <2> QED BY <1>0, <1>1, <1>7, <2>1, <2>2 DEF ValueOK
<1>8. CASE ConnectionLost
  BY <1>0, <1>2, <1>8 DEF ConnectionLost, LaneRecord
<1>9. ASSUME NEW k \in KeysOf, LaneChanges(k), kind = "value" PROVE ValueOK'
  <2>1. k = One
    BY <1>9 DEF KeysOf
  <2>2. lane'.state[One] = counts.version + 1 /\ lane'.linked = lane.linked
    BY <1>0, <1>9, <2>1 DEF LaneChanges, LaneRecord
  <2> QED BY <1>0, <1>5, <1>9, <2>1, <2>2 DEF LaneChanges
<1> QED BY <1>3, <1>6, <1>7, <1>8, <1>9

\* Every step keeps the value right.
LEMMA ValueKept == ASSUME DownlinkTypeOK, VotesOK, LinkOK, ValueOK, [Next]_vars PROVE ValueOK'
<1>1. CASE \/ AttachProducer \/ AttachStops \/ Stop \/ UNCHANGED vars
           \/ SendLink \/ IdleFlush \/ NewProducerIdle \/ WriteTimeout \/ NewProducerWriting \/ WriteDone
           \/ WriteChannelClosed \/ \E c \in Consumers : ProducerGone(c)
           \/ \E c \in Consumers, k \in KeysOf : TakeCommand(c, k)
  <2>1. UNCHANGED <<kind, inn, lane, r, cons>>
    BY <1>1 DEF AttachProducer, AttachStops, Stop, vars, SendLink, IdleFlush, NewProducerIdle, WriteTimeout,
                NewProducerWriting, WriteDone, WriteChannelClosed, ProducerGone, TakeCommand
  <2> QED BY <2>1 DEF ValueOK, ViewsAreCurrent, Reading
<1>2. ASSUME NEW c \in Consumers, AttachConsumer(c) \/ Leave(c) \/ StopWriting(c) PROVE ValueOK'
  <2>1. UNCHANGED <<kind, inn, lane, r>>
    BY <1>2 DEF AttachConsumer, Leave, StopWriting
  <2>2. \A d \in Consumers : cons'[d].view = cons[d].view /\ (cons'[d].reads => cons[d].reads)
    <3>1. CASE AttachConsumer(c)
      BY <3>1 DEF AttachConsumer, DownlinkTypeOK, ConsumerRecord
    <3>2. CASE Leave(c)
      BY <3>2 DEF Leave, DownlinkTypeOK, ConsumerRecord
    <3>3. CASE StopWriting(c)
      BY <3>3 DEF StopWriting, DownlinkTypeOK, ConsumerRecord
    <3> QED BY <1>2, <3>1, <3>2, <3>3
  <2>3. r.registered \subseteq Consumers
    BY DEF DownlinkTypeOK, ReadRecord
  <2>4. Reading(r.registered)' \subseteq Reading(r.registered)
    BY <2>1, <2>2, <2>3 DEF Reading
  <2> QED BY <2>1, <2>2, <2>4, ValueSame
<1> QED BY <1>1, <1>2, ReadValueKept, LaneValueKept DEF Next, Tasks

\* What waits is operations.
LEMMA WaitsType == ASSUME NEW d \in Seq(Ops) PROVE Waits(d) \in SUBSET Ops
BY DEF Waits

\* An operation takes the place of the one that waited for its key.
LEMMA WaitsPush ==
  ASSUME NEW d \in Seq(Ops), NEW op \in Ops, OneEach(d)
  PROVE  LET e == PushOperation(d, op)
         IN  /\ Waits(e) \subseteq {o \in Waits(d) : o.key # op.key} \cup {op}
             /\ {o \in Waits(d) : o.key # op.key} \subseteq Waits(e)
             /\ op \in Waits(e) \/ op.number \in counts.empty
             /\ OneEach(e)
<1> DEFINE e == PushOperation(d, op)
<1>1. /\ e \in Seq(Ops)
      /\ DOMAIN d \subseteq DOMAIN e
      /\ \E n \in DOMAIN e : e[n] = op
      /\ \A n \in DOMAIN e : e[n] = op \/ (n \in DOMAIN d /\ e[n] = d[n] /\ d[n].key # op.key)
      /\ \A n \in DOMAIN d : d[n].key # op.key => n \in DOMAIN e /\ e[n] = d[n]
      /\ OneEach(e)
  <2>0. e \in Seq(Ops)
    BY PushType
  <2>1. CASE \E i \in DOMAIN d : d[i].key = op.key
    <3>1. e = [i \in DOMAIN d |-> IF d[i].key = op.key THEN op ELSE d[i]]
      BY <2>1 DEF PushOperation
    <3> HIDE DEF e
    <3> QED BY <2>0, <2>1, <3>1 DEF OneEach
  <2>2. CASE ~\E i \in DOMAIN d : d[i].key = op.key
    <3>1. e = Append(d, op)
      BY <2>2 DEF PushOperation
    <3> HIDE DEF e
    <3>2. Len(e) = Len(d) + 1 /\ e[Len(d) + 1] = op /\ \A n \in 1..Len(d) : e[n] = d[n]
      BY <3>1
    <3>3. DOMAIN d = 1..Len(d) /\ DOMAIN e = 1..(Len(d) + 1) /\ Len(d) \in Nat
      BY <2>0, <3>2
    <3> QED BY <2>0, <2>2, <3>2, <3>3 DEF OneEach
  <2> QED BY <2>1, <2>2
<1> HIDE DEF e
<1>2. e # <<>>
  BY <1>1
<1>3. CASE kind = "value"
  <2>1. \A o \in Ops : o.key = op.key
    BY <1>3 DEF Ops, KeysOf
  <2>2. \A n \in DOMAIN e : e[n] = op
    BY <1>1, <2>1
  <2>3. 1 \in DOMAIN e
    BY <1>1, <1>2
  <2>4. op \in Waits(e) \/ op.number \in counts.empty
    BY <1>2, <1>3, <2>2, <2>3 DEF Waits, HasData
  <2>5. Waits(e) \subseteq {op}
    BY <2>2 DEF Waits
  <2>6. {o \in Waits(d) : o.key # op.key} = {}
    BY <2>1, WaitsType
  <2> QED BY <1>1, <2>4, <2>5, <2>6 DEF e
<1>4. CASE kind # "value"
  <2>1. Waits(e) = {e[n] : n \in DOMAIN e}
    BY <1>2, <1>4 DEF Waits, HasData
  <2>2. Waits(d) = {d[n] : n \in DOMAIN d}
    BY <1>4 DEF Waits, HasData
  <2>3. op \in Waits(e)
    BY <1>1, <2>1
  <2>4. {o \in Waits(d) : o.key # op.key} \subseteq Waits(e)
    BY <1>1, <2>1, <2>2
  <2>5. Waits(e) \subseteq {o \in Waits(d) : o.key # op.key} \cup {op}
    BY <1>1, <2>1, <2>2
  <2> QED BY <1>1, <2>3, <2>4, <2>5 DEF e
<1> QED BY <1>3, <1>4

\* The first of what waits leaves the rest.
LEMMA WaitsTail ==
  ASSUME NEW d \in Seq(Ops), OneEach(d), HasData(d)
  PROVE  Head(d) \in Waits(d) /\ Head(d) \in Ops /\ Waits(Tail(d)) = Waits(d) \ {Head(d)} /\ OneEach(Tail(d))
<1>1. d # <<>> /\ Head(d) = d[1] /\ Head(d) \in Ops /\ 1 \in DOMAIN d
  BY DEF HasData
<1>2. /\ \A n \in DOMAIN Tail(d) : n \in Nat /\ n + 1 \in DOMAIN d /\ Tail(d)[n] = d[n + 1] /\ n + 1 # 1
      /\ \A n \in DOMAIN d : n \in Nat /\ (n # 1 => n - 1 \in DOMAIN Tail(d) /\ d[n] = Tail(d)[n - 1])
  BY <1>1
<1> DEFINE t == Tail(d)
<1> HIDE DEF t
<1>3. OneEach(t)
  <2> SUFFICES ASSUME NEW n \in DOMAIN t, NEW m \in DOMAIN t, t[n].key = t[m].key PROVE n = m
    BY DEF OneEach
  <2>1. n + 1 = m + 1
    BY <1>2 DEF OneEach, t
  <2> QED BY <1>2, <2>1 DEF t
<1>4. Waits(d) = {d[n] : n \in DOMAIN d}
  BY DEF Waits
<1>5. {t[n] : n \in DOMAIN t} = Waits(d) \ {d[1]}
  <2>1. \A n \in DOMAIN t : t[n] \in Waits(d) /\ t[n] # d[1]
    BY <1>1, <1>2, <1>4 DEF t, OneEach
  <2>2. \A n \in DOMAIN d : d[n] # d[1] => \E m \in DOMAIN t : t[m] = d[n]
    BY <1>2 DEF t
  <2> QED BY <1>4, <2>1, <2>2
<1>6. CASE kind = "value"
  <2>1. \A n \in DOMAIN d : d[n].key = d[1].key
    <3>1. \A o \in Ops : o.key = One
      BY <1>6 DEF Ops, KeysOf
    <3>2. \A n \in DOMAIN d : d[n] \in Ops
      OBVIOUS
    <3> QED BY <1>1, <3>1, <3>2
  <2>2. \A n \in DOMAIN d : n = 1
    BY <1>1, <2>1 DEF OneEach
  <2>3. Waits(d) = {d[1]}
    BY <1>1, <1>4, <2>2
  <2>4. Waits(t) \subseteq {t[n] : n \in DOMAIN t}
    BY DEF Waits
  <2> QED BY <1>1, <1>3, <1>4, <1>5, <2>3, <2>4 DEF t
<1>7. CASE kind # "value"
  <2>1. t \in Seq(Ops)
    BY <1>1 DEF t
  <2>2. Waits(t) = {t[n] : n \in DOMAIN t}
    BY <1>7, <2>1 DEF Waits, HasData
  <2> QED BY <1>1, <1>3, <1>4, <1>5, <2>2 DEF t
<1> QED BY <1>6, <1>7

\* One more message in the pipe.
LEMMA Grown ==
  ASSUME NEW p \in Seq(Messages), NEW m \in Messages
  PROVE  LET q == p \o <<m>>
             l == Len(p) + 1
         IN  /\ q \in Seq(Messages) /\ l \in DOMAIN q /\ l \in Nat /\ q[l] = m
             /\ \A i \in DOMAIN p : i \in Nat /\ i < l /\ i \in DOMAIN q /\ q[i] = p[i]
             /\ \A i \in DOMAIN q : i \in Nat /\ (i = l \/ i \in DOMAIN p)
OBVIOUS

\* A command is made of its operation.
LEMMA CommandMessage == ASSUME NEW m \in Messages, IsCommand(m) PROVE m \in Commands /\ m.op \in Ops /\ m = Command(m.op)
BY DEF IsCommand, Messages, Commands, Link, Sync, Flush, Command

\* A request to link or sync is sent.
LEMMA OrderOther ==
  ASSUME NEW p \in Seq(Messages), NEW ws, NEW seen, NEW taken, NEW m \in Messages, ~IsCommand(m)
  PROVE  /\ InOrder(p, ws, seen, taken) => InOrder(p \o <<m>>, ws, seen, taken)
         /\ NoneLost(p, ws, seen, taken) => NoneLost(p \o <<m>>, ws, seen, taken)
<1> DEFINE q == p \o <<m>>
           l == Len(p) + 1
<1>1. /\ \A i \in DOMAIN p : i \in DOMAIN q /\ q[i] = p[i]
      /\ \A i \in DOMAIN q : IsCommand(q[i]) => i \in DOMAIN p /\ q[i] = p[i]
  <2>1. /\ \A i \in DOMAIN p : i \in DOMAIN q /\ q[i] = p[i]
        /\ \A i \in DOMAIN q : i = l \/ i \in DOMAIN p
        /\ q[l] = m
    BY Grown
  <2> HIDE DEF q, l
  <2> QED BY <2>1
<1> HIDE DEF q, l
<1>2. InOrder(p, ws, seen, taken) => InOrder(q, ws, seen, taken)
  BY <1>1 DEF InOrder
<1>3. NoneLost(p, ws, seen, taken) => NoneLost(q, ws, seen, taken)
  BY <1>1 DEF NoneLost, NotLost
<1> QED BY <1>2, <1>3 DEF q

\* What waits is written.
LEMMA OrderMove ==
  ASSUME NEW p \in Seq(Messages), NEW ws \in SUBSET Ops, NEW seen \in [KeysOf -> Nat], NEW taken \in [KeysOf -> Nat],
         NEW o \in ws
  PROVE  /\ InOrder(p, ws, seen, taken) => InOrder(p \o <<Command(o)>>, ws \ {o}, seen, taken)
         /\ NoneLost(p, ws, seen, taken) => NoneLost(p \o <<Command(o)>>, ws \ {o}, seen, taken)
<1> DEFINE m == Command(o)
           q == p \o <<m>>
           l == Len(p) + 1
           us == ws \ {o}
<1>1. m \in Messages /\ IsCommand(m) /\ m.op = o
  BY MessageTypes
<1>2. /\ q[l] = m /\ l \in DOMAIN q /\ l \in Nat
      /\ \A i \in DOMAIN p : i \in Nat /\ i < l /\ i \in DOMAIN q /\ q[i] = p[i]
      /\ \A i \in DOMAIN q : i \in Nat /\ (i = l \/ i \in DOMAIN p)
  BY <1>1, Grown
<1> HIDE DEF q, l, m
<1>3. ASSUME InOrder(p, ws, seen, taken) PROVE InOrder(q, us, seen, taken)
  <2>1. \A k \in KeysOf : seen[k] <= taken[k]
    BY <1>3 DEF InOrder
  <2>2. /\ seen[o.key] < o.number /\ o.number <= taken[o.key]
        /\ \A i \in DOMAIN p : IsCommand(p[i]) /\ p[i].op.key = o.key => p[i].op.number < o.number
        /\ \A u \in ws : u.key = o.key => u = o
    BY <1>3 DEF InOrder
  <2>3. ASSUME NEW i \in DOMAIN q, IsCommand(q[i])
        PROVE  /\ seen[q[i].op.key] < q[i].op.number /\ q[i].op.number <= taken[q[i].op.key]
               /\ \A j \in DOMAIN q : j < i /\ IsCommand(q[j]) /\ q[j].op.key = q[i].op.key
                                        => q[j].op.number < q[i].op.number
    <3>1. CASE i = l
      <4>1. q[i] = m /\ q[i].op = o
        BY <1>1, <1>2, <3>1
      <4>2. \A j \in DOMAIN q : j < i => j \in DOMAIN p /\ q[j] = p[j]
        BY <1>2, <3>1
      <4> QED BY <2>2, <4>1, <4>2
    <3>2. CASE i \in DOMAIN p
      <4>1. q[i] = p[i] /\ i \in Nat /\ i < l /\ IsCommand(p[i])
        BY <1>2, <2>3, <3>2
      <4>2. /\ seen[p[i].op.key] < p[i].op.number /\ p[i].op.number <= taken[p[i].op.key]
            /\ \A j \in DOMAIN p : j < i /\ IsCommand(p[j]) /\ p[j].op.key = p[i].op.key
                                     => p[j].op.number < p[i].op.number
        BY <1>3, <3>2, <4>1 DEF InOrder
      <4>3. \A j \in DOMAIN q : j < i => j \in DOMAIN p /\ q[j] = p[j]
        BY <1>2, <4>1
      <4> QED BY <4>1, <4>2, <4>3
    <3> QED BY <1>2, <3>1, <3>2
  <2>4. ASSUME NEW u \in us
        PROVE  /\ seen[u.key] < u.number /\ u.number <= taken[u.key]
               /\ \A i \in DOMAIN q : IsCommand(q[i]) /\ q[i].op.key = u.key => q[i].op.number < u.number
               /\ \A v \in us : v.key = u.key => v = u
    <3>1. u \in ws /\ u # o
      BY <2>4
    <3>2. u.key # o.key
      BY <2>2, <3>1
    <3>3. /\ seen[u.key] < u.number /\ u.number <= taken[u.key]
          /\ \A i \in DOMAIN p : IsCommand(p[i]) /\ p[i].op.key = u.key => p[i].op.number < u.number
          /\ \A v \in us : v.key = u.key => v = u
      BY <1>3, <3>1 DEF InOrder
    <3> QED BY <1>1, <1>2, <3>2, <3>3
  <2> QED BY <2>1, <2>3, <2>4 DEF InOrder
<1>4. ASSUME NoneLost(p, ws, seen, taken), NEW k \in KeysOf PROVE NotLost(q, us, seen, taken[k], k)
  <2>1. NotLost(p, ws, seen, taken[k], k)
    BY <1>4 DEF NoneLost
  <2> QED BY <1>1, <1>2, <2>1 DEF NotLost
<1>5. NoneLost(p, ws, seen, taken) => NoneLost(q, us, seen, taken)
  BY <1>4 DEF NoneLost
<1> QED BY <1>3, <1>5 DEF q, m

\* A new command is to wait, in place of one for the same key.
LEMMA OrderPush ==
  ASSUME NEW p \in Seq(Messages), NEW ws \in SUBSET Ops, NEW seen \in [KeysOf -> Nat], NEW taken \in [KeysOf -> Nat],
         NEW op \in Ops, taken[op.key] < op.number, InOrder(p, ws, seen, taken),
         NEW us, us \subseteq {o \in ws : o.key # op.key} \cup {op}, {o \in ws : o.key # op.key} \subseteq us,
         op \in us \/ op.number \in counts.empty
  PROVE  LET now == [taken EXCEPT ![op.key] = op.number]
         IN  /\ InOrder(p, us, seen, now)
             /\ NoneLost(p, ws, seen, taken) => NoneLost(p, us, seen, now)
<1> DEFINE now == [taken EXCEPT ![op.key] = op.number]
<1>0. op.key \in KeysOf /\ op.number \in Nat
  BY DEF Ops
<1>1. /\ now \in [KeysOf -> Nat] /\ now[op.key] = op.number
      /\ \A k \in KeysOf : k # op.key => now[k] = taken[k]
      /\ \A k \in KeysOf : taken[k] <= now[k]
  BY <1>0
<1> HIDE DEF now
<1>2. \A k \in KeysOf : seen[k] <= taken[k] /\ seen[k] <= now[k]
  BY <1>1 DEF InOrder
<1>3. ASSUME NEW i \in DOMAIN p, IsCommand(p[i])
      PROVE  /\ seen[p[i].op.key] < p[i].op.number /\ p[i].op.number <= now[p[i].op.key]
             /\ p[i].op.number <= taken[p[i].op.key]
             /\ \A j \in DOMAIN p : j < i /\ IsCommand(p[j]) /\ p[j].op.key = p[i].op.key
                                      => p[j].op.number < p[i].op.number
  <2>1. p[i].op.key \in KeysOf /\ p[i].op.number \in Nat
    <3>1. p[i].op \in Ops
      BY <1>3, CommandMessage
    <3> QED BY <3>1 DEF Ops
  <2>2. /\ seen[p[i].op.key] < p[i].op.number /\ p[i].op.number <= taken[p[i].op.key]
        /\ \A j \in DOMAIN p : j < i /\ IsCommand(p[j]) /\ p[j].op.key = p[i].op.key
                                 => p[j].op.number < p[i].op.number
    BY <1>3 DEF InOrder
  <2> QED BY <1>1, <2>1, <2>2
<1>4. ASSUME NEW u \in us
      PROVE  /\ seen[u.key] < u.number /\ u.number <= now[u.key]
             /\ \A i \in DOMAIN p : IsCommand(p[i]) /\ p[i].op.key = u.key => p[i].op.number < u.number
             /\ \A v \in us : v.key = u.key => v = u
  <2>1. CASE u = op
    <3>1. seen[op.key] < op.number
      BY <1>0, <1>2
    <3>2. \A i \in DOMAIN p : IsCommand(p[i]) /\ p[i].op.key = op.key => p[i].op.number < op.number
      <4> SUFFICES ASSUME NEW i \in DOMAIN p, IsCommand(p[i]), p[i].op.key = op.key PROVE p[i].op.number < op.number
        OBVIOUS
      <4>1. p[i].op.number <= taken[op.key] /\ p[i].op \in Ops
        BY <1>3, CommandMessage
      <4> QED BY <1>0, <4>1 DEF Ops
    <3>3. \A v \in us : v.key = op.key => v = op
      OBVIOUS
    <3> QED BY <1>0, <1>1, <2>1, <3>1, <3>2, <3>3
  <2>2. CASE u # op
    <3>1. u \in ws /\ u.key # op.key /\ u.key \in KeysOf
      BY <1>4, <2>2 DEF Ops
    <3>2. /\ seen[u.key] < u.number /\ u.number <= taken[u.key]
          /\ \A i \in DOMAIN p : IsCommand(p[i]) /\ p[i].op.key = u.key => p[i].op.number < u.number
          /\ \A v \in ws : v.key = u.key => v = u
      BY <3>1 DEF InOrder
    <3>3. \A v \in us : v.key = u.key => v = u
      BY <3>1, <3>2
    <3> QED BY <1>1, <3>1, <3>2, <3>3
  <2> QED BY <2>1, <2>2
<1>5. InOrder(p, us, seen, now)
  BY <1>2, <1>3, <1>4 DEF InOrder
<1>6. ASSUME NoneLost(p, ws, seen, taken), NEW k \in KeysOf PROVE NotLost(p, us, seen, now[k], k)
  <2>1. CASE k = op.key
    BY <1>1, <2>1 DEF NotLost
  <2>2. CASE k # op.key
    <3>1. NotLost(p, ws, seen, taken[k], k) /\ now[k] = taken[k]
      BY <1>1, <1>6, <2>2 DEF NoneLost
    <3> QED BY <2>2, <3>1 DEF NotLost
  <2> QED BY <2>1, <2>2
<1>7. NoneLost(p, ws, seen, taken) => NoneLost(p, us, seen, now)
  BY <1>6 DEF NoneLost
<1> QED BY <1>5, <1>7 DEF now

\* The channel is closed: its end is lost with what waits.
LEMMA OrderCut ==
  ASSUME NEW p \in Seq(Messages), NEW q \in Seq(Messages), NEW ws, NEW seen, NEW taken,
         InOrder(p \o q, ws, seen, taken)
  PROVE  InOrder(p, {}, seen, taken)
<1> DEFINE z == p \o q
<1>1. \A i \in DOMAIN p : i \in DOMAIN z /\ z[i] = p[i]
  OBVIOUS
<1>2. InOrder(z, ws, seen, taken)
  OBVIOUS
<1> HIDE DEF z
<1> QED BY <1>1, <1>2 DEF InOrder

\* The lane takes a message.
LEMMA OrderTaken ==
  ASSUME NEW p \in Seq(Messages), p # <<>>, NEW ws \in SUBSET Ops, NEW seen \in [KeysOf -> Nat],
         NEW taken \in [KeysOf -> Nat], InOrder(p, ws, seen, taken)
  PROVE  LET m == Head(p)
             now == [seen EXCEPT ![m.op.key] = m.op.number]
         IN  /\ ~IsCommand(m) => /\ InOrder(Tail(p), ws, seen, taken)
                                 /\ NoneLost(p, ws, seen, taken) => NoneLost(Tail(p), ws, seen, taken)
             /\ IsCommand(m) => /\ InOrder(Tail(p), ws, now, taken)
                                /\ NoneLost(p, ws, seen, taken) => NoneLost(Tail(p), ws, now, taken)
                                /\ seen[m.op.key] < m.op.number
<1> DEFINE m == Head(p)
           t == Tail(p)
           now == [seen EXCEPT ![m.op.key] = m.op.number]
<1>1. /\ m = p[1] /\ 1 \in DOMAIN p /\ m \in Messages
      /\ \A i \in DOMAIN t : i \in Nat /\ i >= 1 /\ i + 1 \in DOMAIN p /\ t[i] = p[i + 1]
      /\ \A i \in DOMAIN p : i \in Nat /\ (i # 1 => i - 1 \in DOMAIN t /\ p[i] = t[i - 1])
  OBVIOUS
<1> HIDE DEF m, t
<1>2. ASSUME NEW i \in DOMAIN t, IsCommand(t[i])
      PROVE  /\ seen[t[i].op.key] < t[i].op.number /\ t[i].op.number <= taken[t[i].op.key]
             /\ \A j \in DOMAIN t : j < i /\ IsCommand(t[j]) /\ t[j].op.key = t[i].op.key
                                      => t[j].op.number < t[i].op.number
             /\ IsCommand(m) /\ m.op.key = t[i].op.key => m.op.number < t[i].op.number
  <2>1. /\ seen[t[i].op.key] < t[i].op.number /\ t[i].op.number <= taken[t[i].op.key]
        /\ \A j \in DOMAIN p : j < i + 1 /\ IsCommand(p[j]) /\ p[j].op.key = t[i].op.key
                                 => p[j].op.number < t[i].op.number
    BY <1>1, <1>2 DEF InOrder
  <2>2. \A j \in DOMAIN t : j < i => j + 1 < i + 1 /\ j + 1 \in DOMAIN p /\ t[j] = p[j + 1]
    BY <1>1
  <2>3. 1 < i + 1
    BY <1>1
  <2>4. ASSUME NEW j \in DOMAIN t, j < i, IsCommand(t[j]), t[j].op.key = t[i].op.key
        PROVE  t[j].op.number < t[i].op.number
    BY <2>1, <2>2, <2>4
  <2>5. IsCommand(m) /\ m.op.key = t[i].op.key => m.op.number < t[i].op.number
    BY <1>1, <2>1, <2>3
  <2> QED BY <2>1, <2>4, <2>5
<1>3. ASSUME NEW o \in ws
      PROVE  /\ seen[o.key] < o.number /\ o.number <= taken[o.key]
             /\ \A i \in DOMAIN t : IsCommand(t[i]) /\ t[i].op.key = o.key => t[i].op.number < o.number
             /\ IsCommand(m) /\ m.op.key = o.key => m.op.number < o.number
             /\ \A u \in ws : u.key = o.key => u = o
  <2>1. /\ seen[o.key] < o.number /\ o.number <= taken[o.key]
        /\ \A i \in DOMAIN p : IsCommand(p[i]) /\ p[i].op.key = o.key => p[i].op.number < o.number
        /\ \A u \in ws : u.key = o.key => u = o
    BY DEF InOrder
  <2> QED BY <1>1, <2>1
<1>4. \A k \in KeysOf : seen[k] <= taken[k]
  BY DEF InOrder
<1>5. ASSUME ~IsCommand(m) PROVE InOrder(t, ws, seen, taken)
  BY <1>2, <1>3, <1>4 DEF InOrder
<1>6. ASSUME ~IsCommand(m), NoneLost(p, ws, seen, taken), NEW k \in KeysOf PROVE NotLost(t, ws, seen, taken[k], k)
  <2>1. NotLost(p, ws, seen, taken[k], k)
    BY <1>6 DEF NoneLost
  <2>2. ASSUME NEW i \in DOMAIN p, IsCommand(p[i]), p[i].op.key = k, p[i].op.number = taken[k]
        PROVE  \E j \in DOMAIN t : IsCommand(t[j]) /\ t[j].op.key = k /\ t[j].op.number = taken[k]
    <3>1. i # 1
      BY <1>1, <1>6, <2>2
    <3> QED BY <1>1, <2>2, <3>1
  <2> QED BY <2>1, <2>2 DEF NotLost
<1>7. ASSUME IsCommand(m)
      PROVE  /\ InOrder(t, ws, now, taken)
             /\ NoneLost(p, ws, seen, taken) => NoneLost(t, ws, now, taken)
             /\ seen[m.op.key] < m.op.number
  <2>1. m.op.key \in KeysOf /\ m.op.number \in Nat
    <3>1. m.op \in Ops
      BY <1>1, <1>7, CommandMessage
    <3> QED BY <3>1 DEF Ops
  <2>2. /\ now \in [KeysOf -> Nat] /\ now[m.op.key] = m.op.number
        /\ \A k \in KeysOf : k # m.op.key => now[k] = seen[k]
    BY <2>1
  <2>3. seen[m.op.key] < m.op.number /\ m.op.number <= taken[m.op.key]
    BY <1>1, <1>7 DEF InOrder
  <2> HIDE DEF now
  <2>4. \A k \in KeysOf : now[k] <= taken[k]
    BY <1>4, <2>2, <2>3
  <2>5. ASSUME NEW i \in DOMAIN t, IsCommand(t[i]) PROVE now[t[i].op.key] < t[i].op.number
    <3>1. t[i].op.key \in KeysOf
      <4>1. t[i] \in Messages
        BY <1>1
      <4>2. t[i].op \in Ops
        BY <2>5, <4>1, CommandMessage
      <4> QED BY <4>2 DEF Ops
    <3> QED BY <1>2, <1>7, <2>2, <2>5, <3>1
  <2>6. ASSUME NEW o \in ws PROVE now[o.key] < o.number
    <3>1. o.key \in KeysOf
      BY DEF Ops
    <3> QED BY <1>3, <1>7, <2>2, <3>1
  <2>7. InOrder(t, ws, now, taken)
    BY <1>2, <1>3, <2>4, <2>5, <2>6 DEF InOrder
  <2>8. ASSUME NoneLost(p, ws, seen, taken), NEW k \in KeysOf PROVE NotLost(t, ws, now, taken[k], k)
    <3>1. NotLost(p, ws, seen, taken[k], k)
      BY <2>8 DEF NoneLost
    <3>2. ASSUME seen[k] = taken[k] PROVE now[k] = taken[k]
      <4>1. k # m.op.key
        BY <2>1, <2>3, <3>2
      <4> QED BY <2>2, <3>2, <4>1
    <3>3. ASSUME NEW i \in DOMAIN p, IsCommand(p[i]), p[i].op.key = k, p[i].op.number = taken[k]
          PROVE  now[k] = taken[k]
                 \/ \E j \in DOMAIN t : IsCommand(t[j]) /\ t[j].op.key = k /\ t[j].op.number = taken[k]
      <4>1. CASE i = 1
        BY <1>1, <2>2, <3>3, <4>1
      <4>2. CASE i # 1
        BY <1>1, <3>3, <4>2
      <4> QED BY <4>1, <4>2
    <3> QED BY <3>1, <3>2, <3>3 DEF NotLost
  <2>9. NoneLost(p, ws, seen, taken) => NoneLost(t, ws, now, taken)
    BY <2>8 DEF NoneLost
  <2> QED BY <2>3, <2>7, <2>9
<1>8. ~IsCommand(m) /\ NoneLost(p, ws, seen, taken) => NoneLost(t, ws, seen, taken)
  BY <1>6 DEF NoneLost
<1> QED BY <1>5, <1>7, <1>8 DEF m, t

\* What the order of the commands is about, with its types.
LEMMA PipeType ==
  ASSUME DownlinkTypeOK
  PROVE  /\ out \in Seq(Messages) /\ w.buffered \in Seq(Messages) /\ Job \in Seq(Messages) /\ Pipe \in Seq(Messages)
         /\ w.data \in Seq(Ops) /\ Waits(w.data) \in SUBSET Ops
         /\ lane.seen \in [KeysOf -> Nat] /\ counts.taken \in [KeysOf -> Nat]
<1>1. out \in Seq(Messages) /\ w.buffered \in Seq(Messages) /\ w.data \in Seq(Ops)
  BY DEF DownlinkTypeOK, WriteRecord
<1>2. Job \in Seq(Messages)
  <2>1. CASE w.job \in Commands
    <3>1. w.job \in Messages
      BY <2>1 DEF Messages
    <3>2. <<w.job>> \in Seq(Messages)
      BY <3>1
    <3> QED BY <3>2 DEF Job
  <2>2. CASE w.job \notin Commands
    BY <2>2 DEF Job
  <2> QED BY <2>1, <2>2
<1>3. w.buffered \o Job \in Seq(Messages)
  BY <1>1, <1>2, ConcatType
<1>4. Pipe \in Seq(Messages)
  BY <1>1, <1>3, ConcatType DEF Pipe
<1>5. lane.seen \in [KeysOf -> Nat] /\ counts.taken \in [KeysOf -> Nat]
  BY DEF DownlinkTypeOK, LaneRecord, CountsRecord
<1> QED BY <1>1, <1>2, <1>4, <1>5, WaitsType

\* The conditions on the next state, with the set of numbers unchanged.
LEMMA CommandsNext ==
  ASSUME kind' = kind, counts'.empty = counts.empty,
         InOrder(Pipe', Waits(w'.data), lane'.seen, counts'.taken),
         \A k \in KeysOf : counts'.taken[k] <= counts'.command,
         OneEach(w'.data), w'.pc \in {"link", "idle"} => ~HasData(w'.data),
         w'.pc # "done" => NoneLost(Pipe', Waits(w'.data), lane'.seen, counts'.taken)
  PROVE  CommandsOK'
<1>1. KeysOf' = KeysOf
  BY SameSorts
<1>2. HasData(w.data)' <=> HasData(w'.data)
  BY DEF HasData
<1>3. Waits(w.data)' = Waits(w'.data)
  BY <1>2 DEF Waits
<1>4. InOrder(Pipe, Waits(w.data), lane.seen, counts.taken)'
  BY <1>1, <1>3 DEF InOrder, IsCommand
<1>5. w'.pc # "done" => NoneLost(Pipe, Waits(w.data), lane.seen, counts.taken)'
  BY <1>1, <1>3 DEF NoneLost, NotLost, IsCommand
<1> QED BY <1>1, <1>2, <1>4, <1>5 DEF CommandsOK, TakenNumbered, OneEach

\* A step that moves no command.
LEMMA CommandsSame ==
  ASSUME CommandsOK, kind' = kind, Pipe' = Pipe, w'.data = w.data, lane'.seen = lane.seen,
         counts'.empty = counts.empty, counts'.taken = counts.taken, counts'.command = counts.command,
         w'.pc \in {"link", "idle"} => w.pc \in {"link", "idle"} \/ ~HasData(w.data), w'.pc # "done" => w.pc # "done"
  PROVE  CommandsOK'
<1>1. InOrder(Pipe', Waits(w'.data), lane'.seen, counts'.taken)
  BY DEF CommandsOK
<1>2. w'.pc # "done" => NoneLost(Pipe', Waits(w'.data), lane'.seen, counts'.taken)
  BY DEF CommandsOK
<1>3. \A k \in KeysOf : counts'.taken[k] <= counts'.command
  BY DEF CommandsOK, TakenNumbered
<1>4. OneEach(w'.data) /\ (w'.pc \in {"link", "idle"} => ~HasData(w'.data))
  BY DEF CommandsOK
<1> QED BY <1>1, <1>2, <1>3, <1>4, CommandsNext

\* The command that is being written.
LEMMA JobNext ==
  ASSUME kind' = kind
  PROVE  /\ w'.pc # "writing" => Job' = <<>>
         /\ w'.job \in {Sync, Flush} => Job' = <<>>
         /\ \A op \in Ops : w'.pc = "writing" /\ w'.job = Command(op) => Job' = <<Command(op)>>
         /\ w'.pc = w.pc /\ w'.job = w.job => Job' = Job
<1>1. Commands' = Commands
  BY SameSorts
<1>2. Sync \notin Commands /\ Flush \notin Commands
  BY DEF Commands, Sync, Flush
<1> QED BY <1>1, <1>2, MessageTypes DEF Job

\* What is being written is a command, or nothing of the pipe.
LEMMA JobNow == /\ w.pc # "writing" => Job = <<>>
                /\ w.job \in {Sync, Flush} => Job = <<>>
                /\ w.pc = "writing" /\ w.job \in Commands => Job = <<w.job>>
<1>1. Sync \notin Commands /\ Flush \notin Commands
  BY DEF Commands, Sync, Flush
<1> QED BY <1>1 DEF Job

\* The write task ends: what it had buffered will not be sent.
LEMMA CommandsCut ==
  ASSUME DownlinkTypeOK, CommandsOK, UNCHANGED <<kind, out, lane, counts>>, w' = WriteTask("done")
  PROVE  CommandsOK'
<1>1. w'.pc = "done" /\ w'.data = <<>> /\ w'.buffered = <<>>
  BY DEF WriteTask
<1>2. Job' = <<>>
  BY <1>1, JobNext
<1>3. Pipe' = out
  BY <1>1, <1>2, PipeType DEF Pipe
<1>4. InOrder(out, {}, lane.seen, counts.taken)
  <2> DEFINE rest == w.buffered \o Job
  <2>1. rest \in Seq(Messages) /\ out \in Seq(Messages) /\ Pipe = out \o rest
    BY PipeType, ConcatType DEF Pipe
  <2>2. InOrder(out \o rest, Waits(w.data), lane.seen, counts.taken)
    BY <2>1 DEF CommandsOK
  <2> HIDE DEF rest
  <2> QED BY <2>1, <2>2, OrderCut
<1>5. Waits(w'.data) = {} /\ OneEach(w'.data)
  BY <1>1 DEF Waits, HasData, OneEach
<1>6. \A k \in KeysOf : counts'.taken[k] <= counts'.command
  BY DEF CommandsOK, TakenNumbered
<1> QED BY <1>1, <1>3, <1>4, <1>5, <1>6, CommandsNext

\* It is all the same which end of a run of messages is joined first.
LEMMA ConcatGroups ==
  ASSUME NEW a \in Seq(Messages), NEW b \in Seq(Messages), NEW c \in Seq(Messages)
  PROVE  (a \o b) \o c = a \o (b \o c)
BY ConcatAssociative

\* A flush moves what is buffered to the channel.
LEMMA FlushedPipe ==
  ASSUME DownlinkTypeOK, NEW notes \in Seq(Messages), Flushed(notes), Job = <<>>
  PROVE  out' = Pipe \o notes /\ out' \in Seq(Messages)
<1> DEFINE b == w.buffered
<1>1. out \in Seq(Messages) /\ b \in Seq(Messages)
  BY PipeType
<1>2. out' = (out \o b) \o notes
  BY DEF Flushed
<1>3. Pipe = out \o b
  BY <1>1 DEF Pipe
<1> HIDE DEF b
<1> QED BY <1>1, <1>2, <1>3

\* The steps of the write task keep the commands in order.
LEMMA WriteCommandsKept ==
  ASSUME DownlinkTypeOK, LinkOK, CommandsOK,
         \/ SendLink \/ IdleFlush \/ NewProducerIdle \/ WriteTimeout \/ NewProducerWriting \/ WriteDone
         \/ WriteChannelClosed \/ \E c \in Consumers : ProducerGone(c)
  PROVE  CommandsOK'
<1> USE DEF DownlinkTypeOK
<1>0. w \in WriteRecord /\ UNCHANGED <<kind, lane, counts>>
  BY DEF SendLink, IdleFlush, NewProducerIdle, WriteTimeout, NewProducerWriting, WriteDone, WriteChannelClosed,
         ProducerGone
<1>1. CASE w' = WriteTask("done") /\ out' = out
  BY <1>0, <1>1, CommandsCut
<1>2. ASSUME out' = out, w'.buffered = w.buffered, w'.data = w.data, Job' = Job, w.pc # "done",
             w'.pc \in {"link", "idle"} => w.pc \in {"link", "idle"} \/ ~HasData(w.data)
      PROVE  CommandsOK'
  <2>1. Pipe' = Pipe
    BY <1>2 DEF Pipe
  <2> QED BY <1>0, <1>2, <2>1, CommandsSame
<1>3. \A x \in WriteRecord : \A j : LET y == Writing(x, j)
                                IN  y.pc = "writing" /\ y.job = j /\ y.buffered = x.buffered /\ y.data = x.data
  BY DEF Writing, WriteRecord
<1>4. ASSUME NEW x \in WriteRecord, w.pc = "idle", out' = out, x.pc = "idle", x.buffered = w.buffered, x.data = w.data,
             w' = x \/ w' = Writing(x, Sync) \/ w' = Writing(x, Flush)
      PROVE  CommandsOK'
  <2>1. w'.buffered = w.buffered /\ w'.data = w.data /\ (w'.pc = "idle" \/ w'.job \in {Sync, Flush})
    BY <1>3, <1>4
  <2>2. Job' = Job
    BY <1>0, <1>4, <2>1, JobNext, JobNow
  <2> QED BY <1>2, <1>4, <2>1, <2>2
<1>5. ASSUME NEW notes \in Seq(Messages), Flushed(notes), Job = <<>>
      PROVE  out' = Pipe \o notes /\ out' \in Seq(Messages)
  BY <1>5, FlushedPipe
<1>6. CASE SendLink
  <2>1. w.pc = "link" /\ w'.pc = "idle" /\ w'.buffered = w.buffered /\ w'.data = w.data /\ w.buffered = <<>> /\ w.data = <<>>
    BY <1>0, <1>6 DEF SendLink, WriteRecord, LinkOK, WriteStarts
  <2>2. Job = <<>> /\ Job' = <<>>
    BY <1>0, <2>1, JobNow, JobNext
  <2>3. <<Link>> \in Seq(Messages) /\ Link \in Messages /\ ~IsCommand(Link)
    BY DEF Messages, IsCommand, Link
  <2>4. out' = Pipe \o <<Link>> /\ out' \in Seq(Messages)
    BY <1>5, <1>6, <2>2, <2>3 DEF SendLink
  <2>5. Pipe' = Pipe \o <<Link>>
    BY <2>1, <2>2, <2>4 DEF Pipe
  <2>6. /\ InOrder(Pipe', Waits(w'.data), lane'.seen, counts'.taken)
        /\ NoneLost(Pipe', Waits(w'.data), lane'.seen, counts'.taken)
    BY <1>0, <2>1, <2>3, <2>5, PipeType, OrderOther DEF CommandsOK
  <2>7. OneEach(w'.data) /\ ~HasData(w'.data) /\ \A k \in KeysOf : counts'.taken[k] <= counts'.command
    BY <1>0, <2>1 DEF CommandsOK, TakenNumbered
  <2> QED BY <1>0, <2>6, <2>7, CommandsNext
<1>7. CASE IdleFlush
  <2>1. w.pc = "idle" /\ w'.pc = "idle" /\ w'.buffered = <<>> /\ w'.data = w.data
    BY <1>0, <1>7 DEF IdleFlush, WriteRecord
  <2>2. Job = <<>> /\ Job' = <<>>
    BY <1>0, <2>1, JobNow, JobNext
  <2>3. out' = Pipe \o <<>> /\ out' \in Seq(Messages)
    <3>1. <<>> \in Seq(Messages)
      OBVIOUS
    <3> QED BY <1>5, <1>7, <2>2, <3>1 DEF IdleFlush
  <2>4. Pipe' = Pipe
    BY <2>1, <2>2, <2>3, PipeType DEF Pipe
  <2> QED BY <1>0, <2>1, <2>4, CommandsSame
<1>8. CASE NewProducerIdle
  <2> DEFINE c == Head(producer_q)
             z == [w EXCEPT !.voted = FALSE, !.needs_sync = FALSE]
  <2>1. w.pc = "idle" /\ out' = out /\ c \in Consumers
    BY <1>8 DEF NewProducerIdle
  <2> HIDE DEF c
  <2>2. ASSUME NEW x \in WriteRecord, x.pc = "idle", x.buffered = w.buffered, x.data = w.data, IdleRegister(c, x)
        PROVE  CommandsOK'
    <3> DEFINE y == [x EXCEPT !.registered = @ \cup {c}]
               v == [y EXCEPT !.needs_sync = @ \/ c \in SyncConsumers]
    <3>2. /\ y \in WriteRecord /\ y.pc = "idle" /\ y.buffered = w.buffered /\ y.data = w.data
          /\ v \in WriteRecord /\ v.pc = "idle" /\ v.buffered = w.buffered /\ v.data = w.data
      BY <2>1, <2>2 DEF WriteRecord
    <3>3. w' = Writing(y, Sync) \/ w' = y \/ w' = Writing(v, Flush)
      BY <2>2 DEF IdleRegister
    <3> HIDE DEF y, v
    <3> QED BY <1>4, <2>1, <3>2, <3>3
  <2>3. z \in WriteRecord /\ z.pc = w.pc /\ z.buffered = w.buffered /\ z.data = w.data
    BY <1>0 DEF WriteRecord
  <2> HIDE DEF z
  <2> QED BY <1>0, <1>1, <1>8, <2>1, <2>2, <2>3 DEF NewProducerIdle, WriteStops, z, c
<1>9. CASE WriteTimeout
  <2>1. CASE w' = [w EXCEPT !.voted = TRUE]
    <3> DEFINE x == [w EXCEPT !.voted = TRUE]
    <3>1. x \in WriteRecord /\ x.pc = w.pc /\ x.buffered = w.buffered /\ x.data = w.data
      BY <1>0 DEF WriteRecord
    <3>2. w' = x /\ w.pc = "idle" /\ out' = out
      BY <1>9, <2>1 DEF WriteTimeout
    <3> HIDE DEF x
    <3> QED BY <1>4, <3>1, <3>2
  <2> QED BY <1>1, <1>9, <2>1 DEF WriteTimeout, WriteStops
<1>10. CASE NewProducerWriting
  <2>1. w.pc = "writing" /\ out' = out /\ w'.pc = w.pc /\ w'.buffered = w.buffered /\ w'.job = w.job /\ w'.data = w.data
    BY <1>0, <1>10 DEF NewProducerWriting, WriteRecord
  <2>2. Job' = Job
    BY <1>0, <2>1, JobNext
  <2> QED BY <1>2, <2>1, <2>2
<1>11. CASE WriteDone
  <2> DEFINE b == IF w.job \in {Sync, Flush} THEN <<>> ELSE Append(w.buffered, w.job)
             x == [w EXCEPT !.buffered = b]
             p == out' \o b
  <2>1. /\ w.pc = "writing" /\ w.job \in Commands \cup {Sync, Flush} /\ w.buffered \in Seq(Messages)
        /\ out \in Seq(Messages) /\ <<Sync>> \in Seq(Messages) /\ <<>> \in Seq(Messages)
    BY <1>11 DEF WriteDone, LinkOK, JobOK, WriteRecord, Messages
  <2>2. w' = AfterWrite(x)
    BY <1>11 DEF WriteDone
  <2>3. /\ b \in Seq(Messages) /\ out' \in Seq(Messages)
        /\ p = Pipe \/ p = Pipe \o <<Sync>>
    <3>1. CASE w.job = Sync
      <4>1. Job = <<>> /\ Flushed(<<Sync>>)
        BY <1>11, <3>1, JobNow DEF WriteDone, JobWritten, Sync, Flush
      <4>2. out' = Pipe \o <<Sync>> /\ out' \in Seq(Messages)
        BY <1>5, <2>1, <4>1
      <4> QED BY <2>1, <3>1, <4>2
    <3>2. CASE w.job = Flush
      <4>1. Job = <<>> /\ Flushed(<<>>)
        BY <1>11, <3>2, JobNow DEF WriteDone, JobWritten, Sync, Flush
      <4>2. out' = Pipe \o <<>> /\ out' \in Seq(Messages)
        BY <1>5, <2>1, <4>1
      <4> QED BY <2>1, <3>2, <4>2, PipeType
    <3>3. CASE w.job \notin {Sync, Flush}
      <4>1. w.job \in Commands /\ w.job \in Messages
        BY <2>1, <3>3 DEF Messages
      <4>2. out' = out /\ b = Append(w.buffered, w.job) /\ Job = <<w.job>>
        BY <1>11, <2>1, <3>3, <4>1, JobNow DEF WriteDone, JobWritten
      <4> DEFINE bf == w.buffered
                 jb == w.job
      <4>3. bf \in Seq(Messages) /\ jb \in Messages /\ b = Append(bf, jb) /\ Job = <<jb>>
        BY <2>1, <4>1, <4>2
      <4> HIDE DEF bf, jb, b
      <4>4. b = bf \o <<jb>> /\ b \in Seq(Messages)
        BY <4>3
      <4>5. Pipe = out \o b
        BY <4>3, <4>4 DEF Pipe, bf
      <4> QED BY <2>1, <4>2, <4>4, <4>5
    <3> QED BY <3>1, <3>2, <3>3
  <2>4. p \in Seq(Messages)
    BY <2>3, ConcatType
  <2>5. /\ InOrder(p, Waits(w.data), lane.seen, counts.taken)
        /\ NoneLost(p, Waits(w.data), lane.seen, counts.taken)
    <3>1. /\ InOrder(Pipe, Waits(w.data), lane.seen, counts.taken)
          /\ NoneLost(Pipe, Waits(w.data), lane.seen, counts.taken)
      BY <2>1 DEF CommandsOK
    <3>2. Sync \in Messages /\ ~IsCommand(Sync)
      BY DEF Messages, IsCommand, Sync
    <3> DEFINE ws == Waits(w.data)
               seen == lane.seen
               taken == counts.taken
    <3> HIDE DEF p, ws, seen, taken
    <3>3. Pipe \in Seq(Messages)
      BY PipeType
    <3>4. InOrder(Pipe, ws, seen, taken) /\ NoneLost(Pipe, ws, seen, taken)
      BY <3>1 DEF ws, seen, taken
    <3>5. InOrder(Pipe \o <<Sync>>, ws, seen, taken) /\ NoneLost(Pipe \o <<Sync>>, ws, seen, taken)
      BY <3>2, <3>3, <3>4, OrderOther
    <3>6. InOrder(p, ws, seen, taken) /\ NoneLost(p, ws, seen, taken)
      BY <2>3, <3>4, <3>5
    <3> QED BY <3>6 DEF ws, seen, taken
  <2>6. x \in WriteRecord /\ x.buffered = b /\ x.data = w.data
    <3> HIDE DEF b
    <3> QED BY <1>0, <2>3 DEF WriteRecord
  <2> HIDE DEF b, x
  <2>7. OneEach(w.data) /\ w.data \in Seq(Ops) /\ \A k \in KeysOf : counts'.taken[k] <= counts'.command
    BY <1>0, PipeType DEF CommandsOK, TakenNumbered
  <2>8. Pipe' = out' \o (w'.buffered \o Job')
    BY DEF Pipe
  <2>9. CASE w' = Writing([x EXCEPT !.needs_sync = FALSE, !.flushed = FALSE], Sync)
    <3>1. w'.pc = "writing" /\ w'.job = Sync /\ w'.buffered = b /\ w'.data = w.data
      BY <2>6, <2>9 DEF Writing, WriteRecord
    <3>2. Job' = <<>>
      BY <1>0, <3>1, JobNext
    <3>3. Pipe' = p
      BY <2>3, <2>8, <3>1, <3>2
    <3> HIDE DEF p
    <3> QED BY <1>0, <2>5, <2>7, <3>1, <3>3, CommandsNext
  <2>10. CASE /\ HasData(x.data)
              /\ w' = Writing([x EXCEPT !.data = Tail(@), !.flushed = FALSE], Command(Head(x.data)))
    <3> DEFINE o == Head(w.data)
               t == Tail(w.data)
    <3>1. o \in Waits(w.data) /\ o \in Ops /\ Waits(t) = Waits(w.data) \ {o} /\ OneEach(t)
      BY <2>6, <2>7, <2>10, WaitsTail
    <3>2. w' = Writing([x EXCEPT !.data = t, !.flushed = FALSE], Command(o))
      BY <2>6, <2>10
    <3> HIDE DEF o, t
    <3>3. w'.pc = "writing" /\ w'.job = Command(o) /\ w'.buffered = b /\ w'.data = t
      BY <2>6, <3>2 DEF Writing, WriteRecord
    <3>4. Job' = <<Command(o)>> /\ Command(o) \in Messages
      BY <1>0, <3>1, <3>3, JobNext, MessageTypes
    <3>5. Pipe' = p \o <<Command(o)>>
      <4> DEFINE j == <<Command(o)>>
      <4>1. j \in Seq(Messages)
        BY <3>4
      <4> HIDE DEF j
      <4>2. out' \o (b \o j) = (out' \o b) \o j
        BY <2>3, <4>1, ConcatGroups
      <4> QED BY <2>8, <3>3, <3>4, <4>2 DEF j
    <3> HIDE DEF p
    <3>6. /\ InOrder(Pipe', Waits(t), lane.seen, counts.taken)
          /\ NoneLost(Pipe', Waits(t), lane.seen, counts.taken)
      <4> DEFINE ws == Waits(w.data)
                 us == Waits(t)
                 seen == lane.seen
                 taken == counts.taken
      <4>1. ws \in SUBSET Ops /\ seen \in [KeysOf -> Nat] /\ taken \in [KeysOf -> Nat] /\ o \in ws /\ us = ws \ {o}
        BY <3>1, PipeType
      <4>2. InOrder(p, ws, seen, taken) /\ NoneLost(p, ws, seen, taken)
        BY <2>5
      <4> HIDE DEF ws, us, seen, taken
      <4>3. InOrder(Pipe', us, seen, taken) /\ NoneLost(Pipe', us, seen, taken)
        BY <2>4, <3>5, <4>1, <4>2, OrderMove
      <4> QED BY <4>3 DEF us, seen, taken
    <3> QED BY <1>0, <2>7, <3>1, <3>3, <3>6, CommandsNext
  <2>11. CASE ~HasData(x.data) /\ w' = [x EXCEPT !.pc = "idle", !.job = None]
    <3>1. w'.pc = "idle" /\ w'.buffered = b /\ w'.data = w.data
      BY <2>6, <2>11 DEF WriteRecord
    <3>2. Job' = <<>>
      BY <1>0, <3>1, JobNext
    <3>3. Pipe' = p
      BY <2>3, <2>8, <3>1, <3>2
    <3> HIDE DEF p
    <3> QED BY <1>0, <2>5, <2>6, <2>7, <2>11, <3>1, <3>3, CommandsNext
  <2> QED BY <2>2, <2>9, <2>10, <2>11 DEF AfterWrite
<1>12. CASE WriteChannelClosed
  BY <1>1, <1>12 DEF WriteChannelClosed, WriteStops
<1>13. ASSUME NEW c \in Consumers, ProducerGone(c) PROVE CommandsOK'
  <2> DEFINE left == w.registered \ {c}
             x == [w EXCEPT !.registered = left, !.needs_sync = @ /\ left # {}]
  <2>1. x \in WriteRecord /\ x.pc = w.pc /\ x.buffered = w.buffered /\ x.job = w.job /\ x.data = w.data
    BY <1>0 DEF WriteRecord
  <2>2. out' = out /\ w.pc \in {"idle", "writing"} /\ (w' = x \/ (w' = Writing(x, Flush) /\ w.pc = "idle"))
    BY <1>13 DEF ProducerGone
  <2> HIDE DEF x
  <2>3. CASE w.pc = "idle"
    BY <1>4, <2>1, <2>2, <2>3
  <2>4. CASE w.pc = "writing"
    <3>1. Job' = Job
      BY <1>0, <2>1, <2>2, <2>4, JobNext
    <3> QED BY <1>2, <2>1, <2>2, <2>4, <3>1
  <2> QED BY <2>2, <2>3, <2>4
<1> QED BY <1>6, <1>7, <1>8, <1>9, <1>10, <1>11, <1>12, <1>13

\* ... and so does that by which it takes a command.
LEMMA TakeCommandKept ==
  ASSUME DownlinkTypeOK, LinkOK, CommandsOK, NEW c \in Consumers, NEW k \in KeysOf, TakeCommand(c, k)
  PROVE  CommandsOK'
<1> DEFINE op == [key |-> k, number |-> counts.command + 1]
           now == [counts.taken EXCEPT ![k] = op.number]
<1>1. /\ w \in WriteRecord /\ counts \in CountsRecord /\ UNCHANGED <<kind, lane, out>>
      /\ counts' = [counts EXCEPT !.command = @ + 1, !.taken[k] = op.number] /\ w.pc \in {"idle", "writing"}
  BY DEF TakeCommand, DownlinkTypeOK
<1>2. counts.command \in Nat /\ counts.taken \in [KeysOf -> Nat]
  BY <1>1 DEF CountsRecord
<1>3. op \in Ops /\ op.key = k /\ op.number = counts.command + 1
  BY <1>2 DEF Ops
<1>4. counts'.command = counts.command + 1 /\ counts'.taken = now /\ counts'.empty = counts.empty
  BY <1>1 DEF CountsRecord
<1> HIDE DEF op
<1>5. \A j \in KeysOf : counts'.taken[j] <= counts'.command
  BY <1>2, <1>3, <1>4 DEF CommandsOK, TakenNumbered
<1>6. counts.taken[op.key] < op.number
  BY <1>2, <1>3 DEF CommandsOK, TakenNumbered
<1> DEFINE ws == Waits(w.data)
           d == PushOperation(w.data, op)
           taken == counts.taken
           seen == lane.seen
<1>7. ws \in SUBSET Ops /\ seen \in [KeysOf -> Nat] /\ taken \in [KeysOf -> Nat] /\ Pipe \in Seq(Messages)
      /\ w.data \in Seq(Ops) /\ OneEach(w.data)
  BY PipeType DEF CommandsOK
<1>8. InOrder(Pipe, ws, seen, taken) /\ NoneLost(Pipe, ws, seen, taken)
  BY <1>1 DEF CommandsOK
<1>9. now = [taken EXCEPT ![op.key] = op.number]
  BY <1>3
<1>10. taken[op.key] < op.number
  BY <1>6
<1>11. /\ Waits(d) \subseteq {o \in ws : o.key # op.key} \cup {op}
       /\ {o \in ws : o.key # op.key} \subseteq Waits(d)
       /\ op \in Waits(d) \/ op.number \in counts.empty
       /\ OneEach(d)
  BY <1>3, <1>7, WaitsPush
<1> DEFINE us == Waits(d)
           x == [w EXCEPT !.flushed = FALSE]
           y == [w EXCEPT !.data = d]
<1>12. /\ x \in WriteRecord /\ x.pc = w.pc /\ x.buffered = w.buffered /\ x.data = w.data
       /\ y \in WriteRecord /\ y.pc = w.pc /\ y.buffered = w.buffered /\ y.job = w.job /\ y.data = d
  <2>1. d \in Seq(Ops)
    BY <1>3, <1>7, PushType
  <2> HIDE DEF d
  <2> QED BY <1>1, <2>1 DEF WriteRecord
<1>13. \/ w' = Writing(x, Command(op)) /\ w.pc = "idle"
       \/ w' = Writing(y, Flush) /\ w.pc = "idle"
       \/ w' = y /\ w.pc = "writing"
  BY DEF TakeCommand, op
<1> HIDE DEF ws, d, taken, seen, us, x, y, now
<1>14. CASE w' = Writing(x, Command(op)) /\ w.pc = "idle"
  <2>1. ws = {}
    BY <1>14 DEF CommandsOK, Waits, ws
  <2>2. InOrder(Pipe, {op}, seen, now) /\ NoneLost(Pipe, {op}, seen, now)
    <3>1. {op} \subseteq {o \in ws : o.key # op.key} \cup {op} /\ {o \in ws : o.key # op.key} \subseteq {op} /\ op \in {op}
      BY <2>1
    <3> QED BY <1>3, <1>7, <1>8, <1>9, <1>10, <3>1, OrderPush
  <2>3. now \in [KeysOf -> Nat] /\ {op} \in SUBSET Ops /\ op \in {op} /\ {op} \ {op} = {}
    BY <1>2, <1>3, <1>7, <1>9
  <2>4. InOrder(Pipe \o <<Command(op)>>, {op} \ {op}, seen, now) /\ NoneLost(Pipe \o <<Command(op)>>, {op} \ {op}, seen, now)
    BY <1>7, <2>2, <2>3, OrderMove
  <2>5. w'.pc = "writing" /\ w'.job = Command(op) /\ w'.buffered = w.buffered /\ w'.data = w.data
    BY <1>12, <1>14 DEF Writing, WriteRecord
  <2>6. Job = <<>> /\ Job' = <<Command(op)>> /\ Command(op) \in Messages
    BY <1>1, <1>3, <1>14, <2>5, JobNow, JobNext, MessageTypes
  <2>7. Pipe' = Pipe \o <<Command(op)>>
    <3> DEFINE j == <<Command(op)>>
               b == w.buffered
    <3>1. j \in Seq(Messages) /\ b \in Seq(Messages) /\ out \in Seq(Messages)
      BY <2>6, PipeType
    <3>2. Pipe = out \o b /\ Pipe' = out \o (b \o j)
      BY <1>1, <2>5, <2>6, <3>1 DEF Pipe
    <3> HIDE DEF j, b
    <3> QED BY <3>1, <3>2, ConcatGroups DEF j
  <2>8. InOrder(Pipe', Waits(w'.data), lane'.seen, counts'.taken) /\ NoneLost(Pipe', Waits(w'.data), lane'.seen, counts'.taken)
    BY <1>1, <1>4, <2>1, <2>3, <2>4, <2>5, <2>7 DEF ws, seen
  <2> QED BY <1>1, <1>4, <1>5, <1>7, <2>5, <2>8, CommandsNext
<1>15. CASE (w' = Writing(y, Flush) /\ w.pc = "idle") \/ (w' = y /\ w.pc = "writing")
  <2>1. InOrder(Pipe, us, seen, now) /\ NoneLost(Pipe, us, seen, now)
    BY <1>3, <1>7, <1>8, <1>9, <1>10, <1>11, OrderPush DEF us
  <2>2. w'.pc = "writing" /\ w'.buffered = w.buffered /\ w'.data = d
        /\ ((w'.job = Flush /\ w.pc = "idle") \/ (w'.job = w.job /\ w.pc = "writing"))
    BY <1>12, <1>15 DEF Writing, WriteRecord
  <2>3. Job' = Job
    BY <1>1, <2>2, JobNow, JobNext
  <2>4. Pipe' = Pipe
    BY <1>1, <2>2, <2>3 DEF Pipe
  <2>5. InOrder(Pipe', Waits(w'.data), lane'.seen, counts'.taken) /\ NoneLost(Pipe', Waits(w'.data), lane'.seen, counts'.taken)
    BY <1>1, <1>4, <2>1, <2>2, <2>4 DEF us, seen
  <2> QED BY <1>1, <1>4, <1>5, <1>11, <2>2, <2>5, CommandsNext
<1> QED BY <1>13, <1>14, <1>15

\* The lane receives the commands for a key in order.
LEMMA ReceiveCommandsKept ==
  ASSUME DownlinkTypeOK, CommandsOK, LaneReceives
  PROVE  CommandsOK' /\ \A k \in KeysOf : lane'.seen[k] >= lane.seen[k]
<1> DEFINE m == Head(out)
           rest == w.buffered \o Job
           ws == Waits(w.data)
           seen == lane.seen
           taken == counts.taken
           now == [seen EXCEPT ![m.op.key] = m.op.number]
<1>0. /\ UNCHANGED <<kind, w>> /\ out # <<>> /\ out' = Tail(out) /\ lane \in LaneRecord /\ counts \in CountsRecord
      /\ counts'.empty = counts.empty /\ counts'.taken = counts.taken /\ counts'.command = counts.command
  BY DEF LaneReceives, DownlinkTypeOK, CountsRecord
<1>1. /\ out \in Seq(Messages) /\ rest \in Seq(Messages) /\ Pipe = out \o rest /\ Pipe \in Seq(Messages)
      /\ ws \in SUBSET Ops /\ seen \in [KeysOf -> Nat] /\ taken \in [KeysOf -> Nat]
  BY PipeType, ConcatType DEF Pipe
<1>2. Job' = Job
  BY <1>0, JobNext
<1>3. Pipe' = Tail(out) \o rest
  BY <1>0, <1>2 DEF Pipe
<1>4. m \in Messages
  BY <1>0, <1>1
<1>5. /\ ~IsCommand(m) => lane'.seen = seen
      /\ IsCommand(m) => lane'.seen = now
  <2>1. IsCommand(m) => m.op.key \in KeysOf
    BY <1>4, CommandMessage DEF Ops
  <2>2. CASE m.type = "Link"
    BY <1>0, <2>2 DEF LaneReceives, IsCommand, LaneRecord
  <2>3. CASE m.type = "Sync"
    BY <2>3 DEF LaneReceives, IsCommand
  <2>4. CASE m.type = "Command"
    <3> DEFINE state == [k \in KeysOf |-> IF m.type = "Command" /\ m.op.key = k
                                            THEN counts.version + 1 ELSE lane.state[k]]
    <3>1. lane' = [lane EXCEPT !.state = state, !.seen[m.op.key] = m.op.number]
      BY <2>4 DEF LaneReceives
    <3> HIDE DEF state
    <3> QED BY <1>0, <2>4, <3>1 DEF IsCommand, LaneRecord
  <2> QED BY <2>2, <2>3, <2>4 DEF LaneReceives
<1> HIDE DEF rest, ws, taken, m
<1>6. Pipe # <<>> /\ Head(Pipe) = m /\ Tail(Pipe) = Tail(out) \o rest
  BY <1>0, <1>1 DEF m
<1> HIDE DEF seen
<1>7. InOrder(Pipe, ws, seen, taken) /\ (w.pc # "done" => NoneLost(Pipe, ws, seen, taken))
  BY DEF CommandsOK, ws, seen, taken
<1>8. /\ InOrder(Tail(Pipe), ws, lane'.seen, taken)
      /\ w.pc # "done" => NoneLost(Tail(Pipe), ws, lane'.seen, taken)
      /\ IsCommand(m) => seen[m.op.key] < m.op.number
  <2>1. CASE ~IsCommand(m)
    <3>1. InOrder(Tail(Pipe), ws, seen, taken) /\ (NoneLost(Pipe, ws, seen, taken) => NoneLost(Tail(Pipe), ws, seen, taken))
      BY <1>1, <1>6, <1>7, <2>1, OrderTaken
    <3> QED BY <1>5, <1>7, <2>1, <3>1
  <2>2. CASE IsCommand(m)
    <3>1. /\ InOrder(Tail(Pipe), ws, now, taken) /\ (NoneLost(Pipe, ws, seen, taken) => NoneLost(Tail(Pipe), ws, now, taken))
          /\ seen[m.op.key] < m.op.number
      BY <1>1, <1>6, <1>7, <2>2, OrderTaken
    <3> HIDE DEF now
    <3> QED BY <1>5, <1>7, <2>2, <3>1
  <2> QED BY <2>1, <2>2
<1>9. \A k \in KeysOf : lane'.seen[k] >= lane.seen[k]
  <2>1. CASE ~IsCommand(m)
    BY <1>1, <1>5, <2>1 DEF seen
  <2>2. CASE IsCommand(m)
    <3>1. m.op.number \in Nat
      BY <1>4, <2>2, CommandMessage DEF Ops
    <3>2. seen[m.op.key] < m.op.number
      BY <1>8, <2>2
    <3>3. \A k \in KeysOf : now[k] = (IF k = m.op.key THEN m.op.number ELSE seen[k]) /\ seen[k] \in Nat
      BY <1>1
    <3>4. \A k \in KeysOf : now[k] >= seen[k]
      BY <3>1, <3>2, <3>3
    <3>5. lane'.seen = now
      BY <1>5, <2>2
    <3> HIDE DEF now
    <3> QED BY <3>4, <3>5 DEF seen
  <2> QED BY <2>1, <2>2
<1>10. /\ InOrder(Pipe', Waits(w'.data), lane'.seen, counts'.taken)
       /\ w'.pc # "done" => NoneLost(Pipe', Waits(w'.data), lane'.seen, counts'.taken)
  BY <1>0, <1>3, <1>6, <1>8 DEF ws, taken
<1>11. /\ OneEach(w'.data) /\ (w'.pc \in {"link", "idle"} => ~HasData(w'.data))
       /\ \A k \in KeysOf : counts'.taken[k] <= counts'.command
  BY <1>0 DEF CommandsOK, TakenNumbered
<1> QED BY <1>0, <1>9, <1>10, <1>11, CommandsNext

\* Every step keeps the commands in order.
LEMMA CommandsKept == ASSUME DownlinkTypeOK, LinkOK, CommandsOK, [Next]_vars PROVE CommandsOK'
<1>1. ASSUME UNCHANGED <<kind, out, w>>, lane'.seen = lane.seen, counts'.empty = counts.empty,
             counts'.taken = counts.taken, counts'.command = counts.command
      PROVE  CommandsOK'
  <2>1. Pipe' = Pipe
    <3>1. Job' = Job
      BY <1>1, JobNext
    <3> QED BY <1>1, <3>1 DEF Pipe
  <2> QED BY <1>1, <2>1, CommandsSame
<1>2. CASE \/ UNCHANGED vars \/ AttachProducer \/ AttachStops \/ Stop
           \/ ReadTimeout \/ NewConsumer \/ OnLinked \/ OnSynced \/ OnEvent \/ OnUnlinked \/ ReadFlush \/ ReadChannelClosed
           \/ \E c \in Consumers : AttachConsumer(c) \/ Leave(c) \/ StopWriting(c)
  <2>1. UNCHANGED <<kind, out, w, lane, counts>>
    BY <1>2 DEF vars, AttachProducer, AttachStops, Stop, ReadTimeout, NewConsumer, OnLinked, OnSynced, OnEvent,
                OnUnlinked, ReadFlush, ReadChannelClosed, AttachConsumer, Leave, StopWriting
  <2> QED BY <1>1, <2>1
<1>3. CASE LaneUnlinks \/ ConnectionLost \/ \E k \in KeysOf : LaneChanges(k)
  <2>1. UNCHANGED <<kind, out, w>> /\ lane \in LaneRecord /\ counts \in CountsRecord
    BY <1>3 DEF LaneUnlinks, ConnectionLost, LaneChanges, DownlinkTypeOK
  <2>2. lane'.seen = lane.seen
    BY <1>3, <2>1 DEF LaneUnlinks, ConnectionLost, LaneChanges, LaneRecord
  <2>3. counts'.empty = counts.empty /\ counts'.taken = counts.taken /\ counts'.command = counts.command
    BY <1>3, <2>1 DEF LaneUnlinks, ConnectionLost, LaneChanges, CountsRecord
  <2> QED BY <1>1, <2>1, <2>2, <2>3
<1> QED BY <1>2, <1>3, WriteCommandsKept, TakeCommandKept, ReceiveCommandsKept DEF Next, Tasks

\* The invariant holds when the downlink starts.
LEMMA DownlinkStarts == Init => DownlinkIInv
<1> SUFFICES ASSUME Init PROVE DownlinkIInv
  OBVIOUS
<1>1. PICK s \in Setups :
        /\ kind = s.kind
        /\ cons = [c \in Consumers |->
             [asked |-> c \notin s.consumers, reads |-> c \in s.consumers,
              writes |-> c \in s.consumers, view |-> Never]]
        /\ counts = [version |-> 0, command |-> 0, limit |-> s.commands, empty |-> s.empty,
                    versions |-> s.versions, taken |-> Never]
  BY DEF Init
<1>2. /\ consumer_q = <<>> /\ producer_q = <<>> /\ votes = {} /\ r = ReadTask("run") /\ w = WriteTask("link")
      /\ out = <<>> /\ inn = <<>>
      /\ lane = [up |-> TRUE, linked |-> FALSE, state |-> Never, seen |-> Never]
  BY DEF Init
<1>3. Never \in [KeysOf -> Nat] /\ \A k \in KeysOf : Never[k] = 0
  BY DEF Never
<1>4. s.kind \in {"value", "map"} /\ s.commands \in Nat /\ s.versions \in Nat /\ s.empty \in SUBSET Nat
  <2>1. s.empty \subseteq 1..s.commands /\ s.commands \in Nat /\ s.kind \in {"value", "map"} /\ s.versions \in Nat
    BY SetsAssumption
  <2> QED BY <2>1
<1> HIDE DEF Never
<1>5. DownlinkTypeOK
  <2>1. counts \in CountsRecord /\ lane \in LaneRecord /\ cons \in [Consumers -> ConsumerRecord]
    BY <1>1, <1>2, <1>3, <1>4 DEF CountsRecord, LaneRecord, ConsumerRecord
  <2>2. r \in ReadRecord /\ w \in WriteRecord
    BY <1>2, ReadDoneType, WriteDoneType
  <2>3. <<>> \in Seq(Consumers) /\ <<>> \in Seq(Messages) /\ <<>> \in Seq(Notes)
    OBVIOUS
  <2> QED BY <1>1, <1>2, <1>4, <2>1, <2>2, <2>3 DEF DownlinkTypeOK
<1>6. VotesOK
  BY <1>2 DEF VotesOK, ReadVotes, WriteVotes, ReadTask, WriteTask, InRead
<1>7. LinkOK
  BY <1>2 DEF LinkOK, ReadStarts, LinkOnItsWay, WriteStarts, OneLink, BufferedOK, JobOK, NotLinked, ReadTask, WriteTask
<1>8. ValueOK
  BY <1>2 DEF ValueOK, SyncedAfterEvent, ViewsAreCurrent, Reading, ReadTask
<1>9. CommandsOK
  <2>1. w.data = <<>> /\ w.buffered = <<>> /\ w.pc = "link"
    BY <1>2 DEF WriteTask
  <2>2. Pipe = <<>>
    BY <1>2, <2>1 DEF Pipe, Job
  <2>3. ~HasData(w.data) /\ Waits(w.data) = {}
    BY <2>1 DEF HasData, Waits
  <2>4. InOrder(Pipe, Waits(w.data), lane.seen, counts.taken) /\ TakenNumbered
    BY <1>1, <1>2, <1>3, <2>2, <2>3 DEF InOrder, TakenNumbered
  <2>5. NoneLost(Pipe, Waits(w.data), lane.seen, counts.taken)
    BY <1>1, <1>2 DEF NoneLost, NotLost
  <2> QED BY <2>1, <2>3, <2>4, <2>5 DEF CommandsOK, OneEach
<1> QED BY <1>5, <1>6, <1>7, <1>8, <1>9 DEF DownlinkIInv

\* Every step keeps the invariant.
LEMMA DownlinkKept == DownlinkIInv /\ [Next]_vars => DownlinkIInv'
<1> SUFFICES ASSUME DownlinkIInv, [Next]_vars PROVE DownlinkIInv'
  OBVIOUS
<1>1. DownlinkTypeOK /\ VotesOK /\ LinkOK /\ ValueOK /\ CommandsOK
  BY DEF DownlinkIInv
<1>2. DownlinkTypeOK'
  BY <1>1, DownlinkTypesKept
<1>3. VotesOK' /\ LinkOK' /\ ValueOK' /\ CommandsOK'
  BY <1>1, <1>2, VotesKept, LinkKept, ValueKept, CommandsKept
<1> QED BY <1>2, <1>3 DEF DownlinkIInv

\* A consumer that the read task serves as synced has, with nothing in flight, what the lane has.
LEMMA SyncedAtRest == DownlinkIInv => SyncedHaveState
<1> SUFFICES ASSUME DownlinkIInv, Quiet, kind = "value", NEW c \in Reading(r.registered) \cap SyncConsumers
             PROVE  cons[c].view = lane.state
  BY DEF SyncedHaveState
<1>1. inn = <<>> /\ lane.linked
  BY DEF Quiet
<1>2. r.sync_event /\ cons[c].view[One] = r.current.version
  BY DEF DownlinkIInv, ValueOK, ViewsAreCurrent
<1>3. r.current.version = lane.state[One]
  BY <1>1, <1>2 DEF DownlinkIInv, ValueOK, LastEventHas
<1>4. c \in Consumers /\ cons \in [Consumers -> ConsumerRecord] /\ lane \in LaneRecord /\ KeysOf = {One}
  BY DEF DownlinkIInv, DownlinkTypeOK, ReadRecord, Reading, KeysOf
<1>5. cons[c].view \in [{One} -> Nat] /\ lane.state \in [{One} -> Nat]
  BY <1>4 DEF ConsumerRecord, LaneRecord
<1> QED BY <1>2, <1>3, <1>5

\* When nothing is on its way the last command has arrived.
LEMMA CommandsAtRest == DownlinkIInv => LastCommandArrives
<1> SUFFICES ASSUME DownlinkIInv, Quiet, NEW k \in KeysOf
             PROVE  lane.seen[k] = counts.taken[k] \/ counts.taken[k] \in counts.empty
  BY DEF LastCommandArrives
<1>1. w.pc = "idle" /\ w.buffered = <<>> /\ out = <<>>
  BY DEF Quiet
<1>2. Pipe = <<>>
  BY <1>1 DEF Pipe, Job
<1>3. Waits(w.data) = {}
  BY <1>1 DEF DownlinkIInv, CommandsOK, Waits
<1>4. NotLost(Pipe, Waits(w.data), lane.seen, counts.taken[k], k)
  BY <1>1 DEF DownlinkIInv, CommandsOK, NoneLost
<1> QED BY <1>2, <1>3, <1>4 DEF NotLost

\* The downlink stops by a vote only when nobody uses it.
LEMMA VotesMeanUnused == DownlinkIInv => UnanimousMeansUnused
BY DEF DownlinkIInv, VotesOK, ReadVotes, WriteVotes, UnanimousMeansUnused, Unanimous, InRead

\* DownlinkInv, for any number of consumers, keys, commands and versions.  The two
\* tasks take consumers, events and commands in different orders; the proof follows
\* an event to the views of the consumers and a command to the lane.
THEOREM ConsumersAndLaneAgree == Spec => []DownlinkInv
<1>1. DownlinkIInv => DownlinkInv
  BY SyncedAtRest, CommandsAtRest, VotesMeanUnused DEF DownlinkInv
<1> QED BY <1>1, DownlinkStarts, DownlinkKept, PTL DEF Spec

\* CommandsInOrder: of two commands for one key the lane never takes the later one
\* first, although a command may be written at once, wait in the relief, be replaced
\* there, or be written only when a sync request has been.
THEOREM KeyOrderKept == Spec => CommandsInOrder
<1>1. ASSUME DownlinkIInv, [Next]_vars PROVE [\A k \in KeysOf : lane.seen'[k] >= lane.seen[k]]_vars
  <2>1. CASE UNCHANGED vars
    BY <2>1
  <2>2. CASE LaneReceives
    BY <1>1, <2>2, ReceiveCommandsKept DEF DownlinkIInv
  <2>3. ASSUME lane'.seen = lane.seen PROVE \A k \in KeysOf : lane'.seen[k] >= lane.seen[k]
    BY <1>1, <2>3 DEF DownlinkIInv, DownlinkTypeOK, LaneRecord
  <2>4. CASE Next /\ ~LaneReceives
    <3>1. lane \in LaneRecord
      BY <1>1 DEF DownlinkIInv, DownlinkTypeOK
    <3>2. lane'.seen = lane.seen
      <4>1. CASE LaneUnlinks \/ ConnectionLost \/ \E k \in KeysOf : LaneChanges(k)
        BY <3>1, <4>1 DEF LaneUnlinks, ConnectionLost, LaneChanges, LaneRecord
      <4> QED BY <2>4, <4>1 DEF Next, Tasks, vars, AttachProducer, AttachStops, ReadTimeout, NewConsumer, OnLinked,
            OnSynced, OnEvent, OnUnlinked, ReadFlush, ReadChannelClosed, SendLink, IdleFlush, NewProducerIdle,
            WriteTimeout, NewProducerWriting, WriteDone, WriteChannelClosed, AttachConsumer, ProducerGone, Leave,
            StopWriting, TakeCommand, Stop
    <3> QED BY <2>3, <3>2
  <2> QED BY <1>1, <2>1, <2>2, <2>4
<1> QED BY <1>1, DownlinkStarts, DownlinkKept, PTL DEF Spec, CommandsInOrder

-----------------------------------------------------------------------------
(* The join lanes.                                                         *)

\* The invariant holds when the lane is made.
LEMMA JoinInitInv == JoinInit => JoinInv
<1> SUFFICES ASSUME JoinInit PROVE JoinInv
  OBVIOUS
<1>1. JoinTypeOK
  BY JoinBoundsAssumption DEF JoinInit, JoinTypeOK, NoLink, NoStop
<1>2. \A l \in LinkKeys : DOMAIN hosted[l] = {}
  BY DEF JoinInit
<1> QED BY <1>1, <1>2 DEF JoinInit, JoinInv, NoLink, LinksAgreeWithDownlinks, EntriesGoWithLinks,
          EntriesAreMarked

\* A handler adds a downlink: if it is alone nothing else of its link runs, and if it
\* is not nothing is asked of it.
LEMMA AddKeepsInv ==
  ASSUME JoinInv, NEW l \in LinkKeys, AddDownlink(l)
  PROVE JoinInv'
<1> USE DEF JoinInv, AddDownlink
<1> DEFINE n == Len(hosted[l]) + 1
           d == Downlink("Opening", ~HasLive(l))
<1>1. d \in Downlinks /\ d.state = "Opening" /\ (d.alone <=> ~HasLive(l))
  BY Zenon DEF Downlink, Downlinks
<1> HIDE DEF d
<1>2. /\ hosted[l] \in Seq(Downlinks) /\ n \in Nat \ {0}
      /\ links[l].stop_tx = NoStop
  BY DEF JoinTypeOK
<1>3. /\ hosted' \in [LinkKeys -> Seq(Downlinks)]
      /\ DOMAIN hosted'[l] = DOMAIN hosted[l] \cup {n}
      /\ hosted'[l][n] = d
      /\ \A i \in DOMAIN hosted[l] : hosted'[l][i] = hosted[l][i] /\ i # n /\ i # NoStop
      /\ \A m \in LinkKeys : m # l => hosted'[m] = hosted[m]
      /\ Len(hosted'[l]) = n
  <2>1. hosted' = [hosted EXCEPT ![l] = Append(@, d)]
    BY DEF d
  <2> QED BY <1>1, <1>2, <2>1 DEF JoinTypeOK, NoStop
<1>4. JoinTypeOK'
  <2>1. links' \in [LinkKeys -> [status : {"None", "Pending", "Linked"}, keys : SUBSET EntryKeys,
                                 stop_tx : Nat]]
    BY <1>2 DEF JoinTypeOK
  <2> QED BY <1>2, <1>3, <2>1, JoinBoundsAssumption DEF JoinTypeOK
<1>5. \A m \in LinkKeys : HasUp(m) => HasUp(m)'
  BY <1>3 DEF HasUp
<1>6. /\ links'[l].status = "Pending" /\ links'[l].stop_tx = n
      /\ \A m \in LinkKeys : m # l => links'[m] = links[m]
  BY DEF JoinTypeOK
<1>7. \A i \in DOMAIN hosted[l] : ~(Runs(l, i) /\ hosted[l][i].alone)
  BY <1>2, <1>3 DEF LinksAgreeWithDownlinks
<1>8. LinksAgreeWithDownlinks'
  <2>1. ASSUME NEW m \in LinkKeys, links'[m].status = "Linked" PROVE HasUp(m)'
    BY <1>5, <1>6, <2>1 DEF LinksAgreeWithDownlinks
  <2>2. ASSUME NEW m \in LinkKeys, NEW i \in DOMAIN hosted'[m], Runs(m, i)', hosted'[m][i].alone
        PROVE /\ links'[m].stop_tx = i
              /\ IsUp(hosted'[m][i]) => links'[m].status = "Linked"
              /\ \A j \in DOMAIN hosted'[m] : j # i => ~Live(hosted'[m][j])
    <3>1. CASE m # l
      BY <1>3, <1>6, <2>2, <3>1 DEF LinksAgreeWithDownlinks, Runs
    <3>2. CASE m = l /\ i # n
      BY <1>3, <1>7, <2>2, <3>2 DEF Runs
    <3>3. CASE m = l /\ i = n
      <4>1. ~HasLive(l)
        BY <1>1, <1>3, <2>2, <3>3
      <4> QED BY <1>1, <1>3, <1>6, <3>3, <4>1 DEF HasLive, IsUp
    <3> QED BY <3>1, <3>2, <3>3
  <2> QED BY <2>1, <2>2 DEF LinksAgreeWithDownlinks
<1>9. EntriesGoWithLinks' /\ EntriesAreMarked'
  BY <1>5 DEF EntriesGoWithLinks, EntriesAreMarked
<1> QED BY <1>4, <1>8, <1>9

\* One that has ended.
LEMMA StoppedType ==
  /\ Stopped \in Downlinks
  /\ ~Live(Stopped) /\ ~IsUp(Stopped)
BY DEF Stopped, Downlink, Downlinks, Live, IsUp

\* What a downlink of the lane is.
LEMMA DownlinkType ==
  ASSUME JoinInv, NEW l \in LinkKeys, NEW i \in DOMAIN hosted[l]
  PROVE hosted[l][i] \in Downlinks /\ i \in Nat \ {0}
BY DEF JoinInv, JoinTypeOK

\* A downlink that is not linked changes and the lane does not: it does not come back
\* to life or become linked, and is left to its ghost and to its trigger.
LEMMA DownlinkKeepsInv ==
  ASSUME JoinInv, NEW l \in LinkKeys, NEW i \in DOMAIN hosted[l], NEW d \in Downlinks,
         hosted' = [hosted EXCEPT ![l][i] = d], UNCHANGED <<joined, laneVars>>,
         ~IsUp(hosted[l][i]), ~IsUp(d),
         Live(d) => /\ Live(hosted[l][i])
                    /\ d.alone = hosted[l][i].alone /\ d.stop = hosted[l][i].stop
  PROVE JoinInv'
<1> USE DEF JoinInv
<1>1. /\ hosted \in [LinkKeys -> Seq(Downlinks)]
      /\ \A m \in LinkKeys : Len(hosted[m]) <= MaxOpened[m]
  BY DEF JoinTypeOK
<1>2. /\ hosted' \in [LinkKeys -> Seq(Downlinks)]
      /\ \A m \in LinkKeys : Len(hosted'[m]) = Len(hosted[m]) /\ DOMAIN hosted'[m] = DOMAIN hosted[m]
      /\ hosted'[l][i] = d
      /\ \A m \in LinkKeys : \A j \in DOMAIN hosted[m] :
           m # l \/ j # i => hosted'[m][j] = hosted[m][j]
  BY <1>1
<1>3. UNCHANGED <<joined, links, ownership, inner, marked>>
  BY DEF laneVars
<1>4. JoinTypeOK'
  BY <1>1, <1>2, <1>3 DEF JoinTypeOK
<1>5. \A m \in LinkKeys : HasUp(m) => HasUp(m)'
  BY <1>2 DEF HasUp
<1>6. \A m \in LinkKeys : \A j \in DOMAIN hosted[m] :
        /\ Live(hosted'[m][j]) => Live(hosted[m][j])
        /\ Runs(m, j)' => Runs(m, j) /\ hosted'[m][j].alone = hosted[m][j].alone
        /\ IsUp(hosted'[m][j]) => IsUp(hosted[m][j])
  BY <1>2 DEF Runs
<1>7. LinksAgreeWithDownlinks'
  BY <1>2, <1>3, <1>5, <1>6 DEF LinksAgreeWithDownlinks
<1>8. EntriesGoWithLinks' /\ EntriesAreMarked'
  BY <1>3, <1>5 DEF EntriesGoWithLinks, EntriesAreMarked
<1> QED BY <1>4, <1>7, <1>8

\* A handler removes a downlink.
LEMMA RemoveKeepsInv ==
  ASSUME JoinInv, NEW l \in LinkKeys, RemoveMapDownlink(l) \/ RemoveValueDownlink(l)
  PROVE JoinInv'
<1> USE DEF JoinInv
<1> DEFINE t == links[l].stop_tx
<1>1. /\ StopDownlink(l) /\ links' = [links EXCEPT ![l] = NoLink]
      /\ inner' \subseteq inner /\ UNCHANGED <<joined, ownership, marked>>
  BY DEF RemoveMapDownlink, RemoveValueDownlink
<1>2. /\ hosted \in [LinkKeys -> Seq(Downlinks)] /\ t \in Nat
      /\ links' \in [LinkKeys -> [status : {"None", "Pending", "Linked"}, keys : SUBSET EntryKeys,
                                  stop_tx : Nat]]
  BY <1>1 DEF JoinTypeOK, NoLink, NoStop
<1>3. /\ hosted' \in [LinkKeys -> Seq(Downlinks)]
      /\ \A m \in LinkKeys : Len(hosted'[m]) = Len(hosted[m]) /\ DOMAIN hosted'[m] = DOMAIN hosted[m]
      /\ \A m \in LinkKeys : \A j \in DOMAIN hosted[m] :
           /\ hosted'[m][j].state = hosted[m][j].state /\ hosted'[m][j].alone = hosted[m][j].alone
           /\ hosted[m][j].stop => hosted'[m][j].stop
           /\ m = l /\ j = t /\ Live(hosted[m][j]) => hosted'[m][j].stop
  <2>1. CASE t # NoStop /\ Live(hosted[l][t])
    <3> DEFINE e == [hosted[l][t] EXCEPT !.stop = TRUE]
    <3>1. t \in DOMAIN hosted[l] /\ hosted[l][t] \in Downlinks
      BY <1>2, <2>1 DEF NoStop, JoinTypeOK
    <3>2. /\ e \in Downlinks /\ e.stop /\ e.state = hosted[l][t].state
          /\ e.alone = hosted[l][t].alone
      BY <3>1 DEF Downlinks
    <3>3. hosted' = [hosted EXCEPT ![l][t] = e]
      BY <1>1, <2>1 DEF StopDownlink
    <3> HIDE DEF e
    <3>4. hosted'[l][t] = e /\ \A m \in LinkKeys : \A j \in DOMAIN hosted[m] :
            m # l \/ j # t => hosted'[m][j] = hosted[m][j]
      BY <1>2, <3>1, <3>3
    <3>5. /\ hosted' \in [LinkKeys -> Seq(Downlinks)]
          /\ \A m \in LinkKeys : Len(hosted'[m]) = Len(hosted[m]) /\ DOMAIN hosted'[m] = DOMAIN hosted[m]
      BY <1>2, <3>1, <3>2, <3>3
    <3> QED BY <3>2, <3>4, <3>5
  <2>2. CASE ~(t # NoStop /\ Live(hosted[l][t]))
    <3>1. hosted' = hosted
      BY <1>1, <2>2 DEF StopDownlink
    <3>2. \A j \in DOMAIN hosted[l] : j # NoStop
      BY <1>2 DEF NoStop
    <3> QED BY <1>2, <2>2, <3>1, <3>2
  <2> QED BY <2>1, <2>2
<1>4. JoinTypeOK'
  <2>1. \A m \in LinkKeys : links'[m].stop_tx <= Len(hosted[m])
    BY <1>1, <1>2 DEF JoinTypeOK, NoLink, NoStop
  <2>2. \A m \in LinkKeys : links'[m].status = "None" => links'[m].stop_tx = NoStop
    BY <1>1, <1>2 DEF JoinTypeOK, NoLink
  <2> QED BY <1>1, <1>2, <1>3, <2>1, <2>2 DEF JoinTypeOK
<1>5. \A m \in LinkKeys : HasUp(m) => HasUp(m)'
  BY <1>3 DEF HasUp, IsUp
<1>6. /\ links'[l] = NoLink /\ \A m \in LinkKeys : m # l => links'[m] = links[m]
      /\ NoLink.status = "None"
  BY <1>1 DEF JoinTypeOK, NoLink
<1>7. \A m \in LinkKeys : \A j \in DOMAIN hosted[m] :
        /\ Live(hosted'[m][j]) = Live(hosted[m][j]) /\ IsUp(hosted'[m][j]) = IsUp(hosted[m][j])
        /\ Runs(m, j)' => Runs(m, j) /\ (m # l \/ j # t)
  BY <1>3 DEF Runs, Live, IsUp
<1>8. LinksAgreeWithDownlinks'
  <2>1. ASSUME NEW m \in LinkKeys, links'[m].status = "Linked" PROVE HasUp(m)'
    BY <1>5, <1>6, <2>1 DEF LinksAgreeWithDownlinks
  <2>2. ASSUME NEW m \in LinkKeys, NEW i \in DOMAIN hosted'[m], Runs(m, i)', hosted'[m][i].alone
        PROVE /\ links'[m].stop_tx = i
              /\ IsUp(hosted'[m][i]) => links'[m].status = "Linked"
              /\ \A j \in DOMAIN hosted'[m] : j # i => ~Live(hosted'[m][j])
    <3>1. i \in DOMAIN hosted[m] /\ Runs(m, i) /\ hosted[m][i].alone /\ (m # l \/ i # t)
      BY <1>3, <1>7, <2>2
    <3>2. m # l
      BY <3>1 DEF LinksAgreeWithDownlinks
    <3> QED BY <1>3, <1>6, <1>7, <2>2, <3>1, <3>2 DEF LinksAgreeWithDownlinks
  <2> QED BY <2>1, <2>2 DEF LinksAgreeWithDownlinks
<1>9. EntriesGoWithLinks' /\ EntriesAreMarked'
  BY <1>1, <1>5 DEF EntriesGoWithLinks, EntriesAreMarked
<1> QED BY <1>4, <1>8, <1>9

\* What the parts of the lane are.
LaneTypes ==
  /\ links \in [LinkKeys -> [status : {"None", "Pending", "Linked"}, keys : SUBSET EntryKeys,
                             stop_tx : Nat]]
  /\ ownership \in [EntryKeys -> LinkKeys \cup {Nobody}]
  /\ inner \subseteq EntryKeys /\ marked \subseteq EntryKeys

\* What the handler of a notification n for link l does to the other links, to its
\* own and to the entries.
HandlerEffect(l, n) ==
  /\ LaneTypes'
  /\ inner' \subseteq marked'
  /\ \A m \in LinkKeys : m # l => links'[m].status = links[m].status
                                  /\ links'[m].stop_tx = links[m].stop_tx
  /\ Closing(n) => links'[l] = NoLink
  /\ ~Closing(n) => links'[l].stop_tx = links[l].stop_tx
  /\ n = LinkedNote => links'[l].status = "Linked"
  /\ ~Closing(n) /\ n # LinkedNote => links'[l].status = links[l].status
  /\ joined.kind = "map" /\ joined.responses = {"Delete"} => \A k \in inner' : ownership'[k] # Nobody
  /\ joined.kind = "value" =>
       \A k \in inner' : k \in inner \/ (k = l /\ ~Closing(n) /\ n # LinkedNote)
  /\ joined.kind = "value" /\ joined.responses = {"Delete"} /\ Closing(n) => l \notin inner'

LEMMA HandlerHasEffect ==
  ASSUME JoinInv, NEW l \in LinkKeys, NEW n,
         n.is \in {"update", "remove"} => n.key \in EntryKeys, Handler(l, n)
  PROVE HandlerEffect(l, n)
<1> USE DEF HandlerEffect, LaneTypes
<1>0. /\ LaneTypes /\ inner \subseteq marked /\ l \in EntryKeys
      /\ joined.kind \in {"map", "value"} /\ joined.responses \subseteq {"Abandon", "Delete"}
      /\ joined.kind = "map" /\ joined.responses = {"Delete"} => \A k \in inner : ownership[k] # Nobody
  BY JoinKeysAssumption, JoinKindsAssumption
     DEF JoinInv, JoinTypeOK, EntriesAreMarked, EntriesGoWithLinks
<1>1. CASE n = LinkedNote
  <2>1. ~Closing(n) /\ AlterLinkState(l)
    BY <1>1 DEF Handler, Closing, LinkedNote, UnlinkedNote, FailedNote
  <2> QED BY <1>0, <1>1, <2>1 DEF AlterLinkState
<1>2. CASE Closing(n) /\ joined.kind = "map"
  <2>1. AfterMapClosed(l) /\ n # LinkedNote
    BY <1>2 DEF Handler, Closing, LinkedNote, UnlinkedNote, FailedNote
  <2>2. /\ links' = [links EXCEPT ![l] = NoLink]
        /\ ownership' = Disown(links[l].keys)
        /\ \/ inner' = inner \ links[l].keys /\ marked' = inner'
           \/ /\ UNCHANGED <<inner, marked>>
              /\ joined.responses = {"Delete"} => links[l].keys = {}
    BY <1>0, <2>1 DEF AfterMapClosed, Response
  <2>3. /\ links' \in [LinkKeys -> [status : {"None", "Pending", "Linked"}, keys : SUBSET EntryKeys,
                                    stop_tx : Nat]]
        /\ links'[l] = NoLink /\ \A m \in LinkKeys : m # l => links'[m] = links[m]
    BY <1>0, <2>2 DEF NoLink, NoStop
  <2>4. /\ ownership' \in [EntryKeys -> LinkKeys \cup {Nobody}]
        /\ \A k \in EntryKeys : k \notin links[l].keys => ownership'[k] = ownership[k]
    BY <1>0, <2>2 DEF Disown
  <2> QED BY <1>0, <1>2, <2>1, <2>2, <2>3, <2>4
<1>3. CASE Closing(n) /\ joined.kind = "value"
  <2>1. AfterClosed(l) /\ n # LinkedNote
    BY <1>3 DEF Handler, Closing, LinkedNote, UnlinkedNote, FailedNote
  <2>2. /\ links' = [links EXCEPT ![l] = NoLink] /\ ownership' = ownership
        /\ \/ inner' = inner \ {l} /\ marked' = inner'
           \/ UNCHANGED <<inner, marked>> /\ joined.responses # {"Delete"}
    BY <1>0, <2>1 DEF AfterClosed, Response
  <2>3. /\ links' \in [LinkKeys -> [status : {"None", "Pending", "Linked"}, keys : SUBSET EntryKeys,
                                    stop_tx : Nat]]
        /\ links'[l] = NoLink /\ \A m \in LinkKeys : m # l => links'[m] = links[m]
    BY <1>0, <2>2 DEF NoLink, NoStop
  <2> QED BY <1>0, <1>3, <2>1, <2>2, <2>3
<1>4. CASE ~Closing(n) /\ n # LinkedNote /\ joined.kind = "map"
  <2>1. OnMapMessage(l, n)
    BY <1>4 DEF Handler
  <2>2. CASE links[l].status # "Linked"
    BY <1>0, <1>4, <2>1, <2>2 DEF OnMapMessage, laneVars
  <2>3. CASE links[l].status = "Linked" /\ n.is = "update"
    <3>1. /\ inner' = inner \cup {n.key} /\ marked' = inner' /\ n.key \in EntryKeys
          /\ links' = Inserted(l, n.key) /\ ownership' = [ownership EXCEPT ![n.key] = l]
      BY <2>1, <2>3 DEF OnMapMessage
    <3>2. /\ links' \in [LinkKeys -> [status : {"None", "Pending", "Linked"}, keys : SUBSET EntryKeys,
                                      stop_tx : Nat]]
          /\ \A m \in LinkKeys : links'[m].status = links[m].status
                                 /\ links'[m].stop_tx = links[m].stop_tx
      <4> DEFINE with == [links EXCEPT ![l].keys = @ \cup {n.key}]
                 old == ownership[n.key]
      <4>1. /\ with \in [LinkKeys -> [status : {"None", "Pending", "Linked"}, keys : SUBSET EntryKeys,
                                      stop_tx : Nat]]
            /\ \A m \in LinkKeys : with[m].status = links[m].status /\ with[m].stop_tx = links[m].stop_tx
        BY <1>0, <3>1
      <4>2. links' = IF old = Nobody THEN with ELSE [with EXCEPT ![old].keys = @ \ {n.key}]
        BY <3>1 DEF Inserted
      <4>3. old \in LinkKeys \cup {Nobody}
        BY <1>0, <3>1
      <4> HIDE DEF with, old
      <4> QED BY <4>1, <4>2, <4>3
    <3>3. /\ ownership' \in [EntryKeys -> LinkKeys \cup {Nobody}]
          /\ ownership'[n.key] = l /\ \A k \in EntryKeys : k # n.key => ownership'[k] = ownership[k]
      BY <1>0, <3>1
    <3> QED BY <1>0, <1>4, <3>1, <3>2, <3>3, JoinBoundsAssumption
  <2>4. CASE links[l].status = "Linked" /\ n.is # "update"
    <3> DEFINE ks == Dropped(l, n)
    <3>1. /\ inner' = inner \ ks /\ marked' = inner'
          /\ links' = [links EXCEPT ![l].keys = @ \ ks] /\ ownership' = Disown(ks)
      BY <2>1, <2>4 DEF OnMapMessage
    <3> HIDE DEF ks
    <3>2. /\ links' \in [LinkKeys -> [status : {"None", "Pending", "Linked"}, keys : SUBSET EntryKeys,
                                      stop_tx : Nat]]
          /\ \A m \in LinkKeys : links'[m].status = links[m].status
                                 /\ links'[m].stop_tx = links[m].stop_tx
      BY <1>0, <3>1
    <3>3. /\ ownership' \in [EntryKeys -> LinkKeys \cup {Nobody}]
          /\ \A k \in EntryKeys : k \notin ks => ownership'[k] = ownership[k]
      BY <1>0, <3>1 DEF Disown
    <3> QED BY <1>0, <1>4, <3>1, <3>2, <3>3
  <2> QED BY <2>2, <2>3, <2>4
<1>5. CASE ~Closing(n) /\ n # LinkedNote /\ joined.kind = "value"
  <2>1. OnValueEvent(l)
    BY <1>5 DEF Handler
  <2> QED BY <1>0, <1>5, <2>1 DEF OnValueEvent
<1> QED BY <1>0, <1>1, <1>2, <1>3, <1>4, <1>5

\* A downlink of the loop is notified of what it may be told and the handler is run.
\* If it is another's, none that is alone runs beside it.
LEMMA NotificationKeepsInv ==
  ASSUME JoinInv, NEW l \in LinkKeys, NEW i \in DOMAIN hosted[l], NEW n,
         Waiting(hosted[l][i]), n \in Notifications(l, hosted[l][i]), NextNotification(l, i, n)
  PROVE JoinInv'
<1> DEFINE d == hosted[l][i]
           e == CASE n = LinkedNote -> [d EXCEPT !.state = "Linked"]
                  [] Closing(n) -> Stopped
                  [] OTHER -> d
<1>1. /\ Handler(l, n) /\ UNCHANGED joined
      /\ hosted' = [hosted EXCEPT ![l][i] = e]
  BY DEF NextNotification
<1>2. d \in Downlinks /\ Live(d)
  BY DownlinkType DEF Live, Waiting
<1>3. /\ n.is \in {"update", "remove"} => n.key \in EntryKeys
      /\ n = LinkedNote \/ Closing(n) \/ IsUp(d)
  <2>1. CASE n \in {UnlinkedNote, FailedNote, LinkedNote}
    BY <2>1 DEF Closing, UnlinkedNote, FailedNote, LinkedNote
  <2>2. CASE IsUp(d) /\ n \in [is : {"update", "remove"}, key : EntryKeys]
    BY <2>2
  <2>3. CASE IsUp(d) /\ n = [is |-> "clear", key |-> 0]
    BY <2>3
  <2>4. CASE IsUp(d) /\ n \in [is : {"take", "drop"}, key : Takes]
    BY <2>4
  <2>5. CASE IsUp(d) /\ n = [is |-> "update", key |-> l]
    BY <2>5, JoinKeysAssumption
  <2> QED BY <2>1, <2>2, <2>3, <2>4, <2>5 DEF Notifications
<1>5. HandlerEffect(l, n)
  BY <1>1, <1>3, HandlerHasEffect
<1>6. /\ e \in Downlinks
      /\ Live(e) <=> ~Closing(n)
      /\ ~Closing(n) => IsUp(e) /\ e.stop = d.stop /\ e.alone = d.alone
      /\ ~Closing(n) /\ n # LinkedNote => IsUp(d)
  <2>1. CASE n = LinkedNote
    BY <1>2, <2>1 DEF Downlinks, Closing, Live, IsUp, LinkedNote, UnlinkedNote, FailedNote
  <2>2. CASE Closing(n)
    BY <2>2, StoppedType DEF Closing, LinkedNote, UnlinkedNote, FailedNote
  <2>3. CASE n # LinkedNote /\ ~Closing(n)
    BY <1>2, <1>3, <2>3
  <2> QED BY <2>1, <2>2, <2>3
<1> HIDE DEF e
<1>7. /\ hosted \in [LinkKeys -> Seq(Downlinks)]
      /\ \A m \in LinkKeys : /\ links[m].stop_tx <= Len(hosted[m]) /\ Len(hosted[m]) <= MaxOpened[m]
                             /\ links[m].status = "None" => links[m].stop_tx = NoStop
  BY DEF JoinInv, JoinTypeOK
<1>8. /\ hosted' \in [LinkKeys -> Seq(Downlinks)]
      /\ \A m \in LinkKeys : Len(hosted'[m]) = Len(hosted[m]) /\ DOMAIN hosted'[m] = DOMAIN hosted[m]
      /\ hosted'[l][i] = e
      /\ \A m \in LinkKeys : \A j \in DOMAIN hosted[m] :
           m # l \/ j # i => hosted'[m][j] = hosted[m][j]
  BY <1>1, <1>6, <1>7
<1>9. JoinTypeOK'
  <2>1. NoLink.stop_tx = NoStop /\ NoStop = 0
    BY DEF NoLink, NoStop
  <2>2. \A m \in LinkKeys : links'[m].stop_tx <= Len(hosted[m])
    <3>1. \A m \in LinkKeys : Len(hosted[m]) \in Nat
      BY <1>7
    <3>2. \A m \in LinkKeys : links'[m].stop_tx = links[m].stop_tx \/ links'[m] = NoLink
      BY <1>5 DEF HandlerEffect
    <3> QED BY <1>7, <2>1, <3>1, <3>2
  <2>3. \A m \in LinkKeys : links'[m].status = "None" => links'[m].stop_tx = NoStop
    <3>1. CASE Closing(n)
      BY <1>5, <1>7, <2>1, <3>1 DEF HandlerEffect
    <3>2. CASE ~Closing(n)
      BY <1>5, <1>7, <3>2 DEF HandlerEffect
    <3> QED BY <3>1, <3>2
  <2> QED BY <1>1, <1>5, <1>7, <1>8, <2>2, <2>3 DEF JoinInv, JoinTypeOK, HandlerEffect, LaneTypes
<1>10. \A m \in LinkKeys : m # l => HasUp(m)' = HasUp(m)
  BY <1>8 DEF HasUp
<1>11. ~Closing(n) => HasUp(l)'
  BY <1>6, <1>8 DEF HasUp
<1>12. LinksAgreeWithDownlinks'
  <2>1. \A m \in LinkKeys : links'[m].status = "Linked" => HasUp(m)'
    BY <1>5, <1>10, <1>11 DEF JoinInv, LinksAgreeWithDownlinks, HandlerEffect, NoLink
  <2>2. ASSUME NEW m \in LinkKeys, NEW j \in DOMAIN hosted'[m], Runs(m, j)', hosted'[m][j].alone
        PROVE /\ links'[m].stop_tx = j
              /\ IsUp(hosted'[m][j]) => links'[m].status = "Linked"
              /\ \A k \in DOMAIN hosted'[m] : k # j => ~Live(hosted'[m][k])
    <3>1. CASE m # l
      <4>1. /\ hosted'[m][j] = hosted[m][j] /\ j \in DOMAIN hosted[m] /\ Runs(m, j)
            /\ \A k \in DOMAIN hosted'[m] : k \in DOMAIN hosted[m] /\ hosted'[m][k] = hosted[m][k]
        BY <1>8, <2>2, <3>1 DEF Runs
      <4>2. /\ links[m].stop_tx = j
            /\ IsUp(hosted[m][j]) => links[m].status = "Linked"
            /\ \A k \in DOMAIN hosted[m] : k # j => ~Live(hosted[m][k])
        BY <2>2, <4>1 DEF JoinInv, LinksAgreeWithDownlinks
      <4> QED BY <1>5, <3>1, <4>1, <4>2 DEF HandlerEffect
    <3>2. CASE m = l /\ j # i
      <4>1. j \in DOMAIN hosted[l] /\ Runs(l, j) /\ hosted[l][j].alone
        BY <1>8, <2>2, <3>2 DEF Runs
      <4>2. ~Live(hosted[l][i])
        BY <3>2, <4>1 DEF JoinInv, LinksAgreeWithDownlinks
      <4> QED BY <1>2, <4>2
    <3>3. CASE m = l /\ j = i
      <4>1. Live(e) /\ ~e.stop /\ e.alone
        BY <1>8, <2>2, <3>3 DEF Runs
      <4>2. ~Closing(n) /\ Runs(l, i) /\ d.alone
        BY <1>2, <1>6, <4>1 DEF Runs
      <4>3. /\ links[l].stop_tx = i
            /\ IsUp(d) => links[l].status = "Linked"
            /\ \A k \in DOMAIN hosted[l] : k # i => ~Live(hosted[l][k])
        BY <4>2 DEF JoinInv, LinksAgreeWithDownlinks
      <4>4. links'[l].stop_tx = i /\ links'[l].status = "Linked"
        BY <1>5, <1>6, <4>2, <4>3 DEF HandlerEffect
      <4> QED BY <1>8, <3>3, <4>3, <4>4
    <3> QED BY <3>1, <3>2, <3>3
  <2> QED BY <2>1, <2>2 DEF LinksAgreeWithDownlinks
<1>13. EntriesGoWithLinks'
  <2> SUFFICES ASSUME joined.responses = {"Delete"}, NEW k \in inner'
               PROVE IF joined.kind = "value" THEN k \in LinkKeys /\ HasUp(k)' ELSE ownership'[k] # Nobody
    BY <1>1 DEF EntriesGoWithLinks
  <2>1. joined.kind \in {"map", "value"}
    BY JoinKindsAssumption DEF JoinInv, JoinTypeOK
  <2>2. CASE joined.kind = "map"
    BY <1>5, <2>2 DEF HandlerEffect
  <2>3. CASE joined.kind = "value"
    <3>1. k \in inner \/ (k = l /\ ~Closing(n))
      BY <1>5, <2>3 DEF HandlerEffect
    <3>2. Closing(n) => k # l
      BY <1>5, <2>3 DEF HandlerEffect
    <3>3. k \in inner => k \in LinkKeys /\ HasUp(k)
      BY <2>3 DEF JoinInv, EntriesGoWithLinks
    <3> QED BY <1>10, <1>11, <2>3, <3>1, <3>2, <3>3
  <2> QED BY <2>1, <2>2, <2>3
<1>14. EntriesAreMarked'
  BY <1>5 DEF HandlerEffect, EntriesAreMarked
<1> QED BY <1>9, <1>12, <1>13, <1>14 DEF JoinInv

\* The loop of the agent registers a downlink, reads from it, or finds that it ends.
LEMMA LoopKeepsInv ==
  ASSUME JoinInv, NEW l \in LinkKeys, NEW i \in DOMAIN hosted[l],
         Registers(l, i) \/ Reads(l, i) \/ Ends(l, i)
  PROVE JoinInv'
<1> DEFINE d == hosted[l][i]
<1>0. d \in Downlinks
  BY DownlinkType
<1>1. CASE Registers(l, i)
  <2>1. ~IsUp(d) /\ Live(d) /\ UNCHANGED <<joined, laneVars>>
    BY <1>1 DEF Registers, IsUp, Live
  <2>2. CASE hosted' = [hosted EXCEPT ![l][i].state = "Unlinked"]
    <3> DEFINE e == [d EXCEPT !.state = "Unlinked"]
    <3>1. e \in Downlinks /\ e.alone = d.alone /\ e.stop = d.stop /\ ~IsUp(e)
      BY <1>0 DEF Downlinks, IsUp
    <3>2. hosted' = [hosted EXCEPT ![l][i] = e]
      BY <2>2
    <3> HIDE DEF e
    <3> QED BY <2>1, <3>1, <3>2, DownlinkKeepsInv
  <2>3. CASE hosted' = [hosted EXCEPT ![l][i] = Stopped]
    BY <2>1, <2>3, StoppedType, DownlinkKeepsInv
  <2> QED BY <1>1, <2>2, <2>3 DEF Registers
<1>2. CASE Reads(l, i)
  BY <1>2, NotificationKeepsInv DEF Reads
<1>3. CASE Ends(l, i)
  <2>1. CASE IsUp(d)
    <3>1. UnlinkedNote \in Notifications(l, d)
      BY DEF Notifications
    <3> QED BY <1>3, <2>1, <3>1, NotificationKeepsInv DEF Ends
  <2>2. CASE ~IsUp(d)
    <3>1. hosted' = [hosted EXCEPT ![l][i] = Stopped] /\ UNCHANGED <<joined, laneVars>>
      BY <1>3, <2>2 DEF Ends
    <3> QED BY <2>2, <3>1, StoppedType, DownlinkKeepsInv
  <2> QED BY <2>1, <2>2
<1> QED BY <1>1, <1>2, <1>3

\* Whatever is added, removed and notified, in whatever order, the lane keeps to its
\* downlinks: what is taken for linked is, no entry is left behind, and a downlink that
\* was opened when no other of its link ran can be removed, sets what it receives and
\* has none running beside it as long as it runs (AddDownlinkAction, the removals and
\* the handlers of both kinds of lane).
THEOREM JoinInvariant == JoinSpec => []JoinInv
<1>1. JoinInit => JoinInv
  BY JoinInitInv
<1>2. JoinInv /\ [JoinNext]_joinVars => JoinInv'
  <2> SUFFICES ASSUME JoinInv, [JoinNext]_joinVars PROVE JoinInv'
    OBVIOUS
  <2>1. CASE JoinNext
    <3>1. PICK l \in LinkKeys :
            \/ AddDownlink(l) \/ RemoveMapDownlink(l) \/ RemoveValueDownlink(l)
            \/ \E i \in DOMAIN hosted[l] : Registers(l, i) \/ Reads(l, i) \/ Ends(l, i)
      BY <2>1, Zenon DEF JoinNext
    <3> QED BY <3>1, AddKeepsInv, RemoveKeepsInv, LoopKeepsInv
  <2>2. CASE UNCHANGED joinVars
    BY <2>2 DEF joinVars, JoinInv, JoinTypeOK, LinksAgreeWithDownlinks, EntriesGoWithLinks,
                EntriesAreMarked, HasUp, Runs
  <2> QED BY <2>1, <2>2
<1> QED BY <1>1, <1>2, PTL DEF JoinSpec

=============================================================================
