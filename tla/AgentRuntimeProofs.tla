------------------------- MODULE AgentRuntimeProofs -------------------------
(***************************************************************************)
(* Proofs about AgentRuntime, for any remotes, lanes and stores: the tasks *)
(* of the runtime of an agent agree about what is attached, answer every   *)
(* request, keep within their queues, and stop together only when none has *)
(* anything to do. Proofs about AgentTask, for any finite sets of keys and *)
(* remotes and any width of the epochs that leaves one for each key: the   *)
(* queues of a lane are sound and lose nothing that a remote is to have.   *)
(***************************************************************************)
EXTENDS AgentRuntime, AgentTask, FiniteSetTheorems, SequenceTheorems, TLAPS

-----------------------------------------------------------------------------
(* The tasks of the runtime.                                               *)

\* A task whose vote stands waits for nothing but its next event, or has ended.
VotersWait ==
  /\ votes \subseteq cast /\ cast \subseteq Tasks /\ voted \in [Tasks -> BOOLEAN]
  /\ "read" \in votes => ReadGone \/ (read = Idle /\ voted["read"])
  /\ "http" \in votes => HttpGone \/ (http = "select" /\ voted["http"])
  /\ reason = "AgentTimedOut" => Unanimous

\* No task has voted at first.
LEMMA VotersWaitInit == Init => VotersWait
BY DEF Init, VotersWait, StopVote!Init, Tasks

\* The steps that leave the votes alone, and the tasks that have cast them.
LEMMA VotersUndisturbed ==
  ASSUME VotersWait, UNCHANGED <<votes, voted, cast, reason>>,
         read' = read \/ "read" \notin votes, http' = http \/ "http" \notin votes
  PROVE  VotersWait'
BY DEF VotersWait, ReadGone, HttpGone, Unanimous

\* A vote that stands goes on standing when its task ends, and no other is withdrawn.
LEMMA LeaveVote ==
  ASSUME VotersWait, NEW t \in Tasks, Leave(t)
  PROVE  /\ votes \subseteq votes' /\ votes' \subseteq votes \cup {t} /\ voted' = voted
         /\ votes' \subseteq cast' /\ cast' \subseteq Tasks
         /\ Unanimous => Unanimous'
BY DEF VotersWait, Leave, StopVote!Vote, Unanimous

LEMMA ReadLeaves == ASSUME VotersWait, ReadEnds PROVE VotersWait'
<1>1. /\ read' = Done /\ UNCHANGED <<http, reason>> /\ Leave("read") /\ "read" \in Tasks
  BY DEF ReadEnds, ReadStops, writeVars, Tasks
<1> QED BY <1>1, LeaveVote DEF VotersWait, ReadGone, HttpGone

\* ... so does the write task.
LEMMA WriteLeaves == ASSUME VotersWait, WriteFails \/ WriteCleanupEnds PROVE VotersWait'
<1>1. /\ UNCHANGED <<read, http, reason>> /\ Leave("write") /\ "write" \in Tasks
  BY DEF WriteFails, WriteCleanupEnds, readVars, Tasks
<1> QED BY <1>1, LeaveVote DEF VotersWait, ReadGone, HttpGone

\* ... and the task for HTTP.
LEMMA HttpLeaves == ASSUME VotersWait, HttpEnds PROVE VotersWait'
<1>1. /\ http' = "done" /\ UNCHANGED <<read, reason>> /\ Leave("http") /\ "http" \in Tasks
  BY DEF HttpEnds, HttpStops, readVars, writeVars, Tasks
<1> QED BY <1>1, LeaveVote DEF VotersWait, ReadGone, HttpGone

\* A task that votes waits, or it is the last one and ends.
LEMMA CastVotes ==
  ASSUME VotersWait, NEW t \in Tasks, CastVote(t)
  PROVE  /\ votes' = votes \cup {t} /\ votes' \subseteq cast' /\ cast' \subseteq Tasks
         /\ voted' \in [Tasks -> BOOLEAN] /\ voted'[t]
         /\ \A u \in Tasks : u # t => voted'[u] = voted[u]
         /\ Unanimous => Unanimous'
BY DEF VotersWait, CastVote, StopVote!Vote, Unanimous

\* What is withdrawn was not the last vote.
LEMMA Withdraws ==
  ASSUME VotersWait, NEW t \in Tasks, Withdraw(t)
  PROVE  /\ votes' = votes \ {t} /\ votes' \subseteq cast' /\ cast' \subseteq Tasks
         /\ voted' \in [Tasks -> BOOLEAN]
         /\ \A u \in Tasks : u # t => voted'[u] = voted[u]
         /\ ~Unanimous
BY DEF VotersWait, Withdraw, StopVote!Rescind, Unanimous

\* A task that ends for another reason than the vote does not claim it.
LEMMA WriteEndsVote ==
  ASSUME VotersWait, NEW STATE why, WriteEnds(why), why \in {reason, "AgentStoppedExternally"} \/ Unanimous
  PROVE  VotersWait'
BY DEF VotersWait, WriteEnds, ReadGone, HttpGone, Unanimous, Tasks, readVars, voteVars

\* A vote that is withdrawn was not the last one.
LEMMA WriteRescindsVote ==
  ASSUME VotersWait, NEW ACTION also, WriteRescinds(also), UNCHANGED <<read, http, reason>>
  PROVE  VotersWait'
<1>1. CASE UNCHANGED voteVars
  BY <1>1, VotersUndisturbed DEF voteVars
<1>2. CASE Withdraw("write")
  <2>1. "write" \in Tasks /\ "read" \in Tasks /\ "http" \in Tasks
    BY DEF Tasks
  <2> QED BY <1>2, <2>1, Withdraws DEF VotersWait, ReadGone, HttpGone
<1> QED BY <1>1, <1>2 DEF WriteRescinds

\* The attachment task and the environment have no vote.
LEMMA AttVote ==
  ASSUME VotersWait,
         \/ AttStop \/ AttSendWrite \/ AttSendHttp \/ AttReserveRead \/ AttReserveWrite
         \/ \E t \in {"read", "write"} : AttSendStop(t)
         \/ AttClosed \/ (\E x \in requests : AttRequest(x)) \/ AttHttpLane
  PROVE  VotersWait' /\ UNCHANGED <<readVars, writeVars, http, voteVars, size>>
<1>1. UNCHANGED <<readVars, writeVars, http, voteVars, size>>
  BY DEF AttStop, AttSendWrite, AttSendHttp, AttReserveRead, AttReserveWrite, AttSendStop, AttClosed, AttRequest,
         AttHttpLane, AttTo, AttAbandon
<1> QED BY <1>1, VotersUndisturbed DEF readVars, writeVars, voteVars

\* A step of the read task keeps the votes right: it goes on only without a vote.
LEMMA ReadVote ==
  ASSUME VotersWait, ReadStep \/ ReadEnvelope
  PROVE  VotersWait'
<1>1. CASE ReadClosed
  BY <1>1, ReadLeaves DEF ReadClosed
<1>2. CASE ReadMessage
  <2>1. CASE ReadEnds
    BY <2>1, ReadLeaves
  <2> QED BY <2>1, <1>2, VotersUndisturbed DEF ReadMessage, writeVars, voteVars
<1>3. CASE ReadFlush
  BY <1>3, VotersUndisturbed DEF ReadFlush, writeVars, voteVars
<1>4. CASE ReadSend
  <2>1. CASE ReadEnds
    BY <2>1, ReadLeaves
  <2>2. CASE UNCHANGED <<writeVars, http, voteVars>> /\ read.at = "send"
    <3>1. "read" \notin votes
      BY <2>2 DEF VotersWait, ReadGone, Idle, Done, At
    <3> QED BY <2>2, <3>1, VotersUndisturbed DEF writeVars, voteVars
  <2> QED BY <2>1, <2>2, <1>4 DEF ReadSend
<1>5. CASE ReadLane
  <2>1. UNCHANGED <<writeVars, http, voteVars>> /\ read.at \in {"sync", "feed"}
    BY <1>5 DEF ReadLane
  <2>2. "read" \notin votes
    BY <2>1 DEF VotersWait, ReadGone, Idle, Done, At
  <2> QED BY <2>1, <2>2, VotersUndisturbed DEF writeVars, voteVars
<1>6. CASE ReadTimeout
  <2>1. /\ CastVote("read") /\ "read" \in Tasks /\ "http" \in Tasks /\ UNCHANGED <<http, reason>>
        /\ read' = Done \/ (read' = read /\ read = Idle)
    BY <1>6 DEF ReadTimeout, ReadStops, readVars, writeVars, Tasks
  <2> QED BY <2>1, CastVotes DEF VotersWait, ReadGone, HttpGone
<1>7. CASE ReadEnvelope
  <2>1. CASE ReadEnds
    BY <2>1, ReadLeaves
  <2>2. CASE ReadRescinds /\ UNCHANGED <<writeVars, http>> /\ read = Idle
    <3>1. reason' = reason /\ http' = http /\ "read" \in Tasks /\ "http" \in Tasks
      BY <2>2 DEF writeVars, Tasks
    <3>2. CASE voted["read"]
      <4>1. Withdraw("read")
        BY <2>2, <3>2 DEF ReadRescinds
      <4> QED BY <3>1, <4>1, Withdraws DEF VotersWait, ReadGone, HttpGone
    <3>3. CASE ~voted["read"]
      <4>1. "read" \notin votes
        BY <2>2, <3>3 DEF VotersWait, ReadGone, Idle, Done, At
      <4>2. UNCHANGED voteVars
        BY <2>2, <3>3 DEF ReadRescinds
      <4> QED BY <3>1, <4>1, <4>2, VotersUndisturbed DEF voteVars
    <3> QED BY <3>2, <3>3
  <2> QED BY <2>1, <2>2, <1>7 DEF ReadEnvelope
<1> QED BY <1>1, <1>2, <1>3, <1>4, <1>5, <1>6, <1>7 DEF ReadStep

\* ... and so does one of the write task,
LEMMA WriteVote ==
  ASSUME VotersWait,
         WriteStep \/ (\E x \in Lanes \cup NewStores : WriteEvent(x)) \/ \E c \in TwoWays : WriteRemoveRemote(c)
  PROVE  VotersWait'
<1>1. CASE WriteClosed
  BY <1>1, WriteEndsVote DEF WriteClosed
<1>2. CASE WriteCoord
  <2>1. CASE TooLate /\ WriteEnds("AgentTimedOut")
    BY <2>1, WriteEndsVote DEF TooLate
  <2>2. CASE WriteRescinds(UNCHANGED <<size, att, readVars, readQ, permit, httpQ, writeVars, http>>)
    <3>1. UNCHANGED <<read, http, reason>>
      BY <2>2 DEF WriteRescinds, readVars, writeVars
    <3> QED BY <2>2, <3>1, WriteRescindsVote
  <2>3. CASE UNCHANGED <<readVars, writeVars, http, voteVars>>
    BY <2>3, VotersUndisturbed DEF readVars, writeVars, voteVars
  <2> QED BY <2>1, <2>2, <2>3, <1>2 DEF WriteCoord
<1>3. CASE WriteMessage
  <2>1. CASE WriteEnds(reason)
    BY <2>1, WriteEndsVote
  <2> QED BY <2>1, <1>3, VotersUndisturbed DEF WriteMessage, readVars, voteVars
<1>4. CASE WriteInit
  <2>1. CASE WriteFails
    BY <2>1, WriteLeaves
  <2> QED BY <2>1, <1>4, VotersUndisturbed DEF WriteInit, readVars, voteVars
<1>5. CASE WriteHandOver
  <2>1. CASE WriteEnds(reason)
    BY <2>1, WriteEndsVote
  <2> QED BY <2>1, <1>5, VotersUndisturbed DEF WriteHandOver, readVars, voteVars
<1>6. CASE WriteTimeout
  <2>1. CASE WriteEnds(reason)
    BY <2>1, WriteEndsVote
  <2>2. CASE /\ CastVote("write")
             /\ reason' = IF votes' = Tasks THEN "AgentTimedOut" ELSE reason
             /\ UNCHANGED <<readVars, http>>
    <3>1. "write" \in Tasks /\ "read" \in Tasks /\ "http" \in Tasks /\ read' = read
      BY <2>2 DEF readVars, Tasks
    <3>2. reason' = "AgentTimedOut" => Unanimous'
      BY <2>2, <3>1, CastVotes DEF VotersWait, Unanimous
    <3> QED BY <2>2, <3>1, <3>2, CastVotes DEF VotersWait, ReadGone, HttpGone
  <2> QED BY <2>1, <2>2, <1>6 DEF WriteTimeout
<1>7. CASE WriteCleanupEnds
  BY <1>7, WriteLeaves
<1>8. ASSUME NEW x, WriteItemGone(x) PROVE VotersWait'
  BY <1>8, VotersUndisturbed DEF WriteItemGone, readVars, voteVars
<1>9. ASSUME NEW x, WriteEvent(x) PROVE VotersWait'
  <2>1. CASE TooLate /\ WriteEnds("AgentTimedOut")
    BY <2>1, WriteEndsVote DEF TooLate
  <2>2. CASE WriteRescinds(UNCHANGED <<size, att, readVars, readQ, permit, writeQ, httpQ, writeVars, http>>)
    <3>1. UNCHANGED <<read, http, reason>>
      BY <2>2 DEF WriteRescinds, readVars, writeVars
    <3> QED BY <2>2, <3>1, WriteRescindsVote
  <2>3. CASE UNCHANGED <<readVars, writeVars, http, voteVars>>
    BY <2>3, VotersUndisturbed DEF readVars, writeVars, voteVars
  <2>4. CASE WriteFails
    BY <2>4, WriteLeaves
  <2> QED BY <2>1, <2>2, <2>3, <2>4, <1>9 DEF WriteEvent
<1>10. ASSUME NEW c, WriteRemoveRemote(c) PROVE VotersWait'
  BY <1>10, VotersUndisturbed DEF WriteRemoveRemote, readVars, voteVars
<1> QED BY <1>1, <1>2, <1>3, <1>4, <1>5, <1>6, <1>7, <1>8, <1>9, <1>10 DEF WriteStep

\* ... and one of the task for HTTP.
LEMMA HttpVote ==
  ASSUME VotersWait, HttpStep \/ HttpRequest
  PROVE  VotersWait'
<1>1. CASE HttpClosed
  BY <1>1, HttpLeaves DEF HttpClosed
<1>2. CASE HttpRegister
  BY <1>2, VotersUndisturbed DEF HttpRegister, readVars, writeVars, voteVars
<1>3. CASE HttpForward
  <2>1. "http" \notin votes
    BY <1>3 DEF HttpForward, VotersWait, HttpGone
  <2> QED BY <1>3, <2>1, VotersUndisturbed DEF HttpForward, readVars, writeVars, voteVars
<1>4. CASE HttpTimeout
  <2>1. /\ CastVote("http") /\ "http" \in Tasks /\ "read" \in Tasks /\ UNCHANGED <<read, reason>>
        /\ http' = "done" \/ (http' = http /\ http = "select")
    BY <1>4 DEF HttpTimeout, HttpStops, readVars, writeVars, Tasks
  <2> QED BY <2>1, CastVotes DEF VotersWait, ReadGone, HttpGone
<1>5. CASE HttpRequest
  <2>1. CASE HttpEnds
    BY <2>1, HttpLeaves
  <2>2. CASE /\ IF voted["http"] THEN Withdraw("http") ELSE UNCHANGED voteVars
             /\ UNCHANGED <<readVars, writeVars>> /\ http = "select"
    <3>1. reason' = reason /\ read' = read /\ "read" \in Tasks /\ "http" \in Tasks
      BY <2>2 DEF readVars, writeVars, Tasks
    <3>2. CASE voted["http"]
      <4>1. Withdraw("http")
        BY <2>2, <3>2
      <4> QED BY <3>1, <4>1, Withdraws DEF VotersWait, ReadGone, HttpGone
    <3>3. CASE ~voted["http"]
      <4>1. "http" \notin votes
        BY <2>2, <3>3 DEF VotersWait, HttpGone
      <4>2. UNCHANGED voteVars
        BY <2>2, <3>3
      <4> QED BY <3>1, <4>1, <4>2, VotersUndisturbed DEF voteVars
    <3> QED BY <3>2, <3>3
  <2> QED BY <2>1, <2>2, <1>5 DEF HttpRequest
<1> QED BY <1>1, <1>2, <1>3, <1>4, <1>5 DEF HttpStep

\* Every step keeps the votes right.
LEMMA NextVote == VotersWait /\ [Next]_vars => VotersWait'
<1> SUFFICES ASSUME VotersWait, [Next]_vars PROVE VotersWait'
  OBVIOUS
<1>1. CASE VoteCompletes \/ StopSignal \/ (\E x \in Lanes \cup NewStores : DropItem(x)) \/ UNCHANGED vars
  <2>1. UNCHANGED <<votes, voted, cast, reason, read, http>>
    BY <1>1 DEF VoteCompletes, StopVote!Complete, StopSignal, DropItem, vars, readVars, writeVars, voteVars
  <2> QED BY <2>1, VotersUndisturbed
<1> QED BY <1>1, AttVote, ReadVote, WriteVote, HttpVote DEF Next, AttStep, Environment

-----------------------------------------------------------------------------
(* The queues, what is in them and where the tasks are.                    *)

\* What the tasks send to one another.
ReadMsgs == {Msg("Remote", c) : c \in Conns} \cup {Msg("Lane", l) : l \in NewLanes} \cup {StopMsg}
CoordMsgs ==
  {m \in [type : {"Link", "Unlink", "UnknownLane", "BadEnvelope"}, of : Conns, lane : Lanes \cup {NoLane}] :
     m.type \in {"Link", "Unlink"} => m.lane \in Lanes}
WriteMsgs ==
  CoordMsgs \cup {Msg("Remote", c) : c \in TwoWays} \cup {Msg("Item", x) : x \in NewLanes \cup NewStores} \cup {StopMsg}

\* The places that are reserved in the queue of the read task.
Reserved == IF permit THEN 1 ELSE 0

\* No queue has more than there is room for, the reserved place included.
QueuesFit ==
  /\ size \in Nat /\ permit \in BOOLEAN /\ httpQ \in 0..size
  /\ readQ \in Seq(ReadMsgs) /\ Len(readQ) + Reserved <= size
  /\ writeQ \in Seq(WriteMsgs) /\ Len(writeQ) <= size

\* What the tasks know, and what each of them holds while it waits for a place in a queue.
TasksHold ==
  /\ left \in Inputs /\ requests \subseteq Conns \cup NewLanes \cup NewStores
  /\ readConns \subseteq Conns /\ names \subseteq Lanes /\ senders \subseteq names
  /\ remotes \in [TwoWays -> {"new", "attached", "removed"}]
  /\ att.at = "reserve_read" => att.with \in Conns
  /\ att.at = "reserve_write" => att.with \in TwoWays
  /\ att.at = "send_write" => att.with \in NewLanes \cup NewStores
  /\ read.at = "send" => read.with \in CoordMsgs
  /\ read.at \in {"sync", "feed"} => read.with.of \in Conns /\ read.with.lane \in Lanes
  /\ write.at = "init" => write.with \in NewLanes \cup NewStores
  /\ write.at = "hand_over" => write.with \in NewLanes

\* The read task has heard of a remote, and the write task will.
Heard(c) ==
  \/ c \in readConns
  \/ \E i \in DOMAIN readQ : readQ[i] = Msg("Remote", c)
  \/ read.at \in {"send", "sync", "feed"} /\ read.with.of = c

\* The write task has not taken the remote from its queue yet.
Announced(c) == \E j \in DOMAIN writeQ : writeQ[j] = Msg("Remote", c)

\* No remote that the read task reads from is unknown to the write task for good.
HeardAnnounced ==
  ~WriteGone => \A c \in TwoWays : remotes[c] = "new" /\ Heard(c) => Announced(c)

\* The inductive invariant of the runtime.
RuntimeIInv == QueuesFit /\ TasksHold /\ HeardAnnounced /\ RequestsResolve /\ VotersWait

\* What a step may do to the queue of the read task.
ReadQueueStep ==
  \/ readQ' = readQ /\ permit' \in {permit, FALSE}
  \/ readQ' = readQ /\ ReadRoom /\ permit' = TRUE
  \/ readQ # <<>> /\ readQ' = Tail(readQ) /\ permit' = permit
  \/ readQ' = <<>> /\ permit' = permit
  \/ /\ \E m \in ReadMsgs : readQ' = Append(readQ, m)
     /\ \/ ReadRoom /\ permit' = permit
        \/ permit /\ permit' = FALSE

\* ... and to that of the write task.
WriteQueueStep ==
  \/ writeQ' = writeQ
  \/ writeQ # <<>> /\ writeQ' = Tail(writeQ)
  \/ writeQ' = <<>>
  \/ WriteRoom /\ \E m \in WriteMsgs : writeQ' = Append(writeQ, m)

\* Such a step keeps the queues within their bounds.
LEMMA QueuesStayFit ==
  ASSUME QueuesFit, ReadQueueStep, WriteQueueStep, size' = size,
         \/ httpQ' \in {httpQ, 0}
         \/ httpQ < size /\ httpQ' = httpQ + 1
         \/ httpQ > 0 /\ httpQ' = httpQ - 1
  PROVE  QueuesFit'
<1>0. size \in Nat /\ Len(readQ) \in Nat /\ Len(writeQ) \in Nat
  BY DEF QueuesFit
<1>1. httpQ' \in 0..size'
  BY <1>0 DEF QueuesFit
<1>a. permit' \in BOOLEAN
  BY Zenon DEF QueuesFit, ReadQueueStep
<1>b. /\ Reserved \in {0, 1} /\ Reserved' \in {0, 1}
      /\ (permit' = permit => Reserved' = Reserved) /\ (permit' = FALSE => Reserved' = 0)
      /\ (permit => Reserved = 1)
  <2>1. Reserved \in {0, 1} /\ (permit => Reserved = 1)
    BY DEF Reserved
  <2>2. Reserved' \in {0, 1}
    BY DEF Reserved
  <2>3. permit' = permit => Reserved' = Reserved
    BY SMT DEF Reserved
  <2>4. permit' = FALSE => Reserved' = 0
    BY Zenon DEF Reserved
  <2> QED BY <2>1, <2>2, <2>3, <2>4
<1>c. ReadRoom <=> Len(readQ) + Reserved < size
  BY Zenon DEF ReadRoom, Reserved
<1>2. readQ' \in Seq(ReadMsgs) /\ Len(readQ') + Reserved' <= size'
  <2>1. CASE readQ' = readQ /\ permit' \in {permit, FALSE}
    <3>1. Reserved' \in {Reserved, 0}
      BY <1>b, <2>1, Zenon
    <3> QED BY <1>0, <1>b, <2>1, <3>1 DEF QueuesFit
  <2>2. CASE readQ' = readQ /\ ReadRoom /\ permit' = TRUE
    BY <1>0, <1>b, <1>c, <2>2 DEF QueuesFit
  <2>3. CASE readQ # <<>> /\ readQ' = Tail(readQ) /\ permit' = permit
    BY <1>0, <1>b, <2>3 DEF QueuesFit
  <2>4. CASE readQ' = <<>> /\ permit' = permit
    BY <1>0, <1>b, <2>4 DEF QueuesFit
  <2>5. CASE /\ \E m \in ReadMsgs : readQ' = Append(readQ, m)
             /\ (ReadRoom /\ permit' = permit) \/ (permit /\ permit' = FALSE)
    <3>1. readQ' \in Seq(ReadMsgs) /\ Len(readQ') = Len(readQ) + 1
      BY <2>5 DEF QueuesFit
    <3>2. CASE ReadRoom /\ permit' = permit
      BY <1>0, <1>b, <1>c, <3>1, <3>2
    <3>3. CASE permit /\ permit' = FALSE
      BY <1>0, <1>b, <3>1, <3>3 DEF QueuesFit
    <3> QED BY <2>5, <3>2, <3>3
  <2> QED BY <2>1, <2>2, <2>3, <2>4, <2>5 DEF ReadQueueStep
<1>3. writeQ' \in Seq(WriteMsgs) /\ Len(writeQ') <= size'
  <2>1. CASE writeQ' = writeQ
    BY <2>1 DEF QueuesFit
  <2>2. CASE writeQ # <<>> /\ writeQ' = Tail(writeQ)
    BY <1>0, <2>2 DEF QueuesFit
  <2>3. CASE writeQ' = <<>>
    BY <1>0, <2>3
  <2>4. CASE WriteRoom /\ \E m \in WriteMsgs : writeQ' = Append(writeQ, m)
    BY <1>0, <2>4 DEF QueuesFit, WriteRoom
  <2> QED BY <2>1, <2>2, <2>3, <2>4 DEF WriteQueueStep
<1> QED BY <1>a, <1>0, <1>1, <1>2, <1>3 DEF QueuesFit

\* The parts of a message.
LEMMA MsgFields ==
  /\ \A t, x : Msg(t, x).type = t /\ Msg(t, x).of = x
  /\ StopMsg.type = "Stop"
  /\ \A m \in CoordMsgs : m.type \in {"Link", "Unlink", "UnknownLane", "BadEnvelope"} /\ m.of \in Conns
<1>1. \A t, x : Msg(t, x).type = t /\ Msg(t, x).of = x
  BY DEF Msg
<1>2. StopMsg.type = "Stop"
  BY DEF Msg, StopMsg
<1>3. \A m \in CoordMsgs : m.type \in {"Link", "Unlink", "UnknownLane", "BadEnvelope"} /\ m.of \in Conns
  BY DEF CoordMsgs
<1> QED BY <1>1, <1>2, <1>3

\* What the type of a message says of it.
LEMMA ReadMsgKinds ==
  ASSUME NEW m \in ReadMsgs
  PROVE  /\ m.type \in {"Remote", "Lane", "Stop"}
         /\ m.type = "Remote" => m.of \in Conns /\ m = Msg("Remote", m.of)
         /\ m.type = "Lane" => m.of \in NewLanes
BY MsgFields DEF ReadMsgs

\* A message to the write task is of one of four kinds.
LEMMA WriteMsgKinds ==
  ASSUME NEW m \in WriteMsgs
  PROVE  /\ m.type \in {"Link", "Unlink", "UnknownLane", "BadEnvelope"} => m \in CoordMsgs
         /\ m.type = "Remote" => m.of \in TwoWays /\ m = Msg("Remote", m.of)
         /\ m.type = "Item" => m.of \in NewLanes \cup NewStores
         /\ \A c : m = Msg("Remote", c) => m.type = "Remote" /\ m.of = c
BY MsgFields DEF WriteMsgs

\* Nothing new is heard of, and the queue of the write task stays as it is.
LEMMA ResolveSame ==
  ASSUME HeardAnnounced, RequestsResolve, writeQ' = writeQ,
         \A c \in TwoWays : remotes'[c] = "new" => remotes[c] = "new",
         \A c \in TwoWays : Heard(c)' => Heard(c),
         WriteGone => WriteGone'
  PROVE  HeardAnnounced' /\ RequestsResolve'
BY DEF HeardAnnounced, RequestsResolve, Announced

\* The write task has gone.
LEMMA ResolveGone ==
  ASSUME writeQ' = <<>>, WriteGone'
  PROVE  HeardAnnounced' /\ RequestsResolve'
BY DEF HeardAnnounced, RequestsResolve

\* A message more for the write task.
LEMMA ResolveAppend ==
  ASSUME QueuesFit, HeardAnnounced, RequestsResolve, ~WriteGone, remotes' = remotes,
         NEW m \in WriteMsgs, writeQ' = Append(writeQ, m),
         m.type \in {"Link", "Unlink"} => Heard(m.of),
         \A c \in TwoWays : Heard(c)' => Heard(c) \/ m = Msg("Remote", c)
  PROVE  HeardAnnounced' /\ RequestsResolve'
<1>1. /\ Len(writeQ) \in Nat /\ DOMAIN writeQ = 1..Len(writeQ)
      /\ DOMAIN writeQ' = 1..(Len(writeQ) + 1)
      /\ \A j \in 1..Len(writeQ) : writeQ'[j] = writeQ[j]
      /\ writeQ'[Len(writeQ) + 1] = m
  BY DEF QueuesFit
<1>2. \A c : Announced(c) => Announced(c)'
  BY <1>1 DEF Announced
<1>3. \A c : m = Msg("Remote", c) => Announced(c)'
  BY <1>1 DEF Announced
<1>4. HeardAnnounced'
  BY <1>2, <1>3 DEF HeardAnnounced
<1>5. ASSUME NEW i \in DOMAIN writeQ', writeQ'[i].type \in {"Link", "Unlink"}
      PROVE  /\ writeQ'[i].of \in TwoWays /\ remotes[writeQ'[i].of] = "new" =>
                  \E j \in 1..(i - 1) : writeQ'[j] = Msg("Remote", writeQ'[i].of)
             /\ writeQ'[i].lane \in Lanes
  <2>1. CASE i \in 1..Len(writeQ)
    <3>1. writeQ'[i] = writeQ[i] /\ \A j \in 1..(i - 1) : writeQ'[j] = writeQ[j]
      BY <1>1, <2>1
    <3> QED BY <1>1, <1>5, <2>1, <3>1 DEF RequestsResolve
  <2>2. CASE i = Len(writeQ) + 1
    <3>1. m \in CoordMsgs
      BY <1>1, <1>5, <2>2, WriteMsgKinds
    <3>2. m.lane \in Lanes
      BY <1>1, <1>5, <2>2, <3>1 DEF CoordMsgs
    <3>3. m.of \in TwoWays /\ remotes[m.of] = "new" => Announced(m.of)
      BY <1>1, <1>5, <2>2 DEF HeardAnnounced
    <3>4. i - 1 = Len(writeQ)
      BY <1>1, <2>2
    <3> QED BY <1>1, <2>2, <3>2, <3>3, <3>4 DEF Announced
  <2> QED BY <1>1, <2>1, <2>2
<1>6. RequestsResolve'
  BY <1>5 DEF RequestsResolve
<1> QED BY <1>4, <1>6

\* The write task takes a message; the one that tells it of a remote tells it.
LEMMA ResolveTail ==
  ASSUME QueuesFit, HeardAnnounced, RequestsResolve, ~WriteGone, writeQ # <<>>, writeQ' = Tail(writeQ),
         \A c \in TwoWays : remotes'[c] = "new" => remotes[c] = "new" /\ Head(writeQ) # Msg("Remote", c),
         \A c \in TwoWays : Heard(c)' => Heard(c)
  PROVE  HeardAnnounced' /\ RequestsResolve'
<1>1. /\ Len(writeQ) \in Nat /\ DOMAIN writeQ = 1..Len(writeQ) /\ Len(writeQ) >= 1
      /\ DOMAIN writeQ' = 1..(Len(writeQ) - 1)
      /\ \A j \in 1..(Len(writeQ) - 1) : writeQ'[j] = writeQ[j + 1]
      /\ Head(writeQ) = writeQ[1]
  BY DEF QueuesFit
<1>2. ASSUME NEW c \in TwoWays, remotes'[c] = "new", Announced(c) PROVE Announced(c)'
  <2>1. PICK j \in DOMAIN writeQ : writeQ[j] = Msg("Remote", c)
    BY <1>2 DEF Announced
  <2>2. j # 1
    BY <1>1, <1>2, <2>1
  <2>3. j - 1 \in 1..(Len(writeQ) - 1) /\ writeQ'[j - 1] = writeQ[j]
    BY <1>1, <2>2
  <2> QED BY <1>1, <2>1, <2>3 DEF Announced
<1>3. HeardAnnounced'
  BY <1>2 DEF HeardAnnounced
<1>4. ASSUME NEW i \in DOMAIN writeQ', writeQ'[i].type \in {"Link", "Unlink"}
      PROVE  /\ writeQ'[i].of \in TwoWays /\ remotes'[writeQ'[i].of] = "new" =>
                  \E j \in 1..(i - 1) : writeQ'[j] = Msg("Remote", writeQ'[i].of)
             /\ writeQ'[i].lane \in Lanes
  <2>1. i \in 1..(Len(writeQ) - 1) /\ i + 1 \in DOMAIN writeQ /\ writeQ'[i] = writeQ[i + 1]
    BY <1>1
  <2>2. writeQ[i + 1].lane \in Lanes
    BY <2>1, <1>4 DEF RequestsResolve
  <2>3. ASSUME writeQ'[i].of \in TwoWays, remotes'[writeQ'[i].of] = "new"
        PROVE  \E j \in 1..(i - 1) : writeQ'[j] = Msg("Remote", writeQ'[i].of)
    <3>1. PICK j \in 1..i : writeQ[j] = Msg("Remote", writeQ[i + 1].of)
      BY <2>1, <2>3, <1>4 DEF RequestsResolve
    <3>2. j # 1
      BY <1>1, <2>1, <2>3, <3>1
    <3>3. j - 1 \in 1..(i - 1) /\ writeQ'[j - 1] = writeQ[j]
      BY <1>1, <2>1, <3>2
    <3> QED BY <2>1, <3>1, <3>3
  <2> QED BY <2>1, <2>2, <2>3
<1>5. RequestsResolve'
  BY <1>4 DEF RequestsResolve
<1> QED BY <1>3, <1>5

\* The steps of the attachment task that put nothing in the queues.
LEMMA AttWaitsKeeps ==
  ASSUME RuntimeIInv,
         AttStop \/ AttClosed \/ (\E x \in requests : AttRequest(x)) \/ AttHttpLane \/ AttSendHttp
  PROVE  QueuesFit' /\ TasksHold' /\ HeardAnnounced' /\ RequestsResolve'
<1>1. /\ UNCHANGED <<size, readQ, writeQ, readVars, writeVars>>
      /\ permit' \in {permit, FALSE} /\ (httpQ' = httpQ \/ (httpQ < size /\ httpQ' = httpQ + 1))
  BY DEF AttStop, AttClosed, AttRequest, AttHttpLane, AttSendHttp, AttTo, AttAbandon, queues
<1>2. QueuesFit'
  BY <1>1, QueuesStayFit DEF RuntimeIInv, ReadQueueStep, WriteQueueStep
<1>3. HeardAnnounced' /\ RequestsResolve'
  BY <1>1, ResolveSame DEF RuntimeIInv, Heard, WriteGone, readVars, writeVars
<1>4. left' \in Inputs /\ requests' \subseteq Conns \cup NewLanes \cup NewStores
  BY DEF RuntimeIInv, TasksHold, Inputs, inputs, AttStop, AttClosed, AttRequest, AttHttpLane, AttSendHttp, AttTo, AttAbandon
<1>5. /\ att'.at = "reserve_read" => att'.with \in Conns
      /\ att'.at = "reserve_write" => att'.with \in TwoWays
      /\ att'.at = "send_write" => att'.with \in NewLanes \cup NewStores
  BY DEF RuntimeIInv, TasksHold, At, Cleanup, Idle, AttStop, AttClosed, AttRequest, AttHttpLane, AttSendHttp, AttTo, AttAbandon
<1> QED BY <1>1, <1>2, <1>3, <1>4, <1>5 DEF RuntimeIInv, TasksHold, readVars, writeVars

\* The attachment task sends, or waits for room to send.
LEMMA AttSendsKeeps ==
  ASSUME RuntimeIInv,
         AttSendWrite \/ AttReserveRead \/ AttReserveWrite \/ \E t \in {"read", "write"} : AttSendStop(t)
  PROVE  QueuesFit' /\ TasksHold' /\ HeardAnnounced' /\ RequestsResolve'
<1>0. UNCHANGED <<size, readVars, writeVars, left, requests, httpQ>>
  BY DEF AttSendWrite, AttReserveRead, AttReserveWrite, AttSendStop, AttTo, AttAbandon, inputs
<1>1. TasksHold'
  <2>1. /\ att'.at = "reserve_read" => att'.with \in Conns
        /\ att'.at = "reserve_write" => att'.with \in TwoWays
        /\ att'.at = "send_write" => att'.with \in NewLanes \cup NewStores
    BY DEF RuntimeIInv, TasksHold, At, Done, AttSendWrite, AttReserveRead, AttReserveWrite, AttSendStop, AttTo, AttAbandon
  <2> QED BY <1>0, <2>1 DEF RuntimeIInv, TasksHold, readVars, writeVars
<1>2. StopMsg \in ReadMsgs /\ StopMsg \in WriteMsgs /\ \A c : StopMsg # Msg("Remote", c)
  BY MsgFields DEF ReadMsgs, WriteMsgs
<1>3. CASE readQ' = readQ /\ writeQ' = writeQ /\ (permit' \in {permit, FALSE} \/ (ReadRoom /\ permit' = TRUE))
  <2>1. QueuesFit'
    BY <1>0, <1>3, QueuesStayFit DEF RuntimeIInv, ReadQueueStep, WriteQueueStep
  <2> QED BY <1>0, <1>1, <1>3, <2>1, ResolveSame DEF RuntimeIInv, Heard, WriteGone, readVars, writeVars
<1>4. ASSUME NEW m \in WriteMsgs, m.type \in {"Item", "Stop"}, ~WriteGone, WriteRoom, writeQ' = Append(writeQ, m),
             UNCHANGED <<readQ, permit>>
      PROVE  QueuesFit' /\ HeardAnnounced' /\ RequestsResolve'
  <2>1. QueuesFit'
    BY <1>0, <1>4, QueuesStayFit DEF RuntimeIInv, ReadQueueStep, WriteQueueStep
  <2> QED BY <1>0, <1>4, <2>1, ResolveAppend DEF RuntimeIInv, Heard, WriteGone, readVars, writeVars
<1>5. ASSUME NEW m \in ReadMsgs, \A c \in TwoWays : m # Msg("Remote", c), ReadRoom, readQ' = Append(readQ, m),
             UNCHANGED <<writeQ, permit>>
      PROVE  QueuesFit' /\ HeardAnnounced' /\ RequestsResolve'
  <2>1. QueuesFit'
    BY <1>0, <1>5, QueuesStayFit DEF RuntimeIInv, ReadQueueStep, WriteQueueStep
  <2>2. ASSUME NEW c \in TwoWays, Heard(c)' PROVE Heard(c)
    <3>1. \A i \in DOMAIN readQ' : (i \in DOMAIN readQ /\ readQ'[i] = readQ[i]) \/ readQ'[i] = m
      BY <1>5 DEF RuntimeIInv, QueuesFit
    <3> QED BY <1>0, <1>5, <2>2, <3>1 DEF Heard, readVars
  <2> QED BY <1>0, <1>5, <2>1, <2>2, ResolveSame DEF RuntimeIInv, WriteGone, writeVars
<1>6. CASE AttSendWrite
  <2>1. CASE WriteGone /\ AttAbandon
    BY <2>1, <1>1, <1>3, <1>6 DEF AttSendWrite, AttAbandon
  <2>2. CASE /\ ~WriteGone /\ WriteRoom /\ writeQ' = Append(writeQ, Msg("Item", att.with))
             /\ UNCHANGED <<readQ, permit>>
    <3>1. Msg("Item", att.with) \in WriteMsgs /\ Msg("Item", att.with).type = "Item"
      BY <1>6, MsgFields DEF AttSendWrite, WriteMsgs, RuntimeIInv, TasksHold
    <3> QED BY <1>1, <1>4, <2>2, <3>1
  <2> QED BY <1>6, <2>1, <2>2 DEF AttSendWrite
<1>7. CASE AttReserveRead
  <2>1. CASE ReadGone /\ AttAbandon
    BY <2>1, <1>1, <1>3, <1>7 DEF AttReserveRead, AttAbandon
  <2>2. CASE /\ ReadRoom /\ att.with \in OneWays /\ readQ' = Append(readQ, Msg("Remote", att.with))
             /\ UNCHANGED <<permit, writeQ>>
    <3>1. Msg("Remote", att.with) \in ReadMsgs /\ \A c \in TwoWays : Msg("Remote", att.with) # Msg("Remote", c)
      BY <2>2, MsgFields, NamesAssumption DEF ReadMsgs, Conns
    <3> QED BY <1>1, <1>5, <2>2, <3>1
  <2>3. CASE ReadRoom /\ permit' = TRUE /\ UNCHANGED <<readQ, writeQ>>
    BY <1>1, <1>3, <2>3
  <2> QED BY <1>7, <2>1, <2>2, <2>3 DEF AttReserveRead
<1>8. CASE AttReserveWrite
  <2>1. CASE WriteGone /\ AttAbandon
    BY <2>1, <1>1, <1>3, <1>8 DEF AttReserveWrite, AttAbandon
  <2>2. CASE ~WriteGone /\ WriteRoom
    <3> DEFINE m == Msg("Remote", att.with)
    <3>1. att.with \in TwoWays /\ m \in WriteMsgs /\ m \in ReadMsgs /\ m.type = "Remote"
      BY <1>8, MsgFields DEF AttReserveWrite, WriteMsgs, ReadMsgs, Conns, RuntimeIInv, TasksHold
    <3>2. /\ permit' = FALSE /\ writeQ' = Append(writeQ, m)
          /\ readQ' = IF permit /\ ~ReadGone THEN Append(readQ, m) ELSE readQ
      BY <1>8, <2>2 DEF AttReserveWrite
    <3> HIDE DEF m
    <3>3. ReadQueueStep
      BY <3>1, <3>2 DEF ReadQueueStep
    <3>4. WriteQueueStep
      BY <2>2, <3>1, <3>2 DEF WriteQueueStep
    <3>5. QueuesFit'
      BY <1>0, <3>3, <3>4, QueuesStayFit DEF RuntimeIInv
    <3>6. ASSUME NEW c \in TwoWays, Heard(c)' PROVE Heard(c) \/ m = Msg("Remote", c)
      <4>1. \A i \in DOMAIN readQ' : (i \in DOMAIN readQ /\ readQ'[i] = readQ[i]) \/ readQ'[i] = m
        BY <3>2 DEF RuntimeIInv, QueuesFit
      <4> QED BY <1>0, <3>6, <4>1 DEF Heard, readVars
    <3> QED BY <1>0, <1>1, <2>2, <3>1, <3>2, <3>5, <3>6, ResolveAppend DEF RuntimeIInv, writeVars
  <2> QED BY <1>8, <2>1, <2>2 DEF AttReserveWrite
<1>9. ASSUME NEW t \in {"read", "write"}, AttSendStop(t)
      PROVE QueuesFit' /\ TasksHold' /\ HeardAnnounced' /\ RequestsResolve'
  <2>1. CASE ReadRoom /\ readQ' = Append(readQ, StopMsg) /\ UNCHANGED <<writeQ, permit>>
    BY <2>1, <1>1, <1>2, <1>5
  <2>2. CASE ~WriteGone /\ WriteRoom /\ writeQ' = Append(writeQ, StopMsg) /\ UNCHANGED <<readQ, permit>>
    BY <2>2, <1>1, <1>2, <1>4, MsgFields
  <2>3. CASE UNCHANGED <<readQ, writeQ, permit>>
    BY <2>3, <1>1, <1>3
  <2> QED BY <1>9, <2>1, <2>2, <2>3 DEF AttSendStop
<1> QED BY <1>6, <1>7, <1>8, <1>9

\* The envelopes that are still to come.
LEMMA EnvelopeTaken ==
  ASSUME left \in Inputs, left.envelopes # <<>>, left' = [left EXCEPT !.envelopes = Tail(left.envelopes)]
  PROVE  left' \in Inputs /\ Head(left.envelopes) \in Envelopes
<1>1. left.envelopes \in Seq(Envelopes)
  BY DEF Inputs
<1>2. Tail(left.envelopes) \in Seq(Envelopes) /\ Head(left.envelopes) \in Envelopes
  BY <1>1
<1>3. ASSUME NEW t \in Seq(Envelopes) PROVE [left EXCEPT !.envelopes = t] \in Inputs
  BY DEF Inputs
<1> QED BY <1>2, <1>3

\* The read task ends, and hears of no remote any more.
LEMMA ReadEndsKeeps ==
  ASSUME RuntimeIInv, ReadStops,
         \/ UNCHANGED <<left, requests>>
         \/ (left.envelopes # <<>> /\ left' = [left EXCEPT !.envelopes = Tail(left.envelopes)] /\ requests' = requests)
  PROVE  QueuesFit' /\ TasksHold' /\ HeardAnnounced' /\ RequestsResolve'
<1>1. /\ UNCHANGED <<size, att, permit, writeQ, httpQ, writeVars>>
      /\ read' = Done /\ readQ' = <<>> /\ readConns' = {} /\ names' = {} /\ senders' = {}
  BY DEF ReadStops
<1>2. QueuesFit'
  BY <1>1, QueuesStayFit DEF RuntimeIInv, ReadQueueStep, WriteQueueStep
<1>3. left' \in Inputs
  BY EnvelopeTaken DEF RuntimeIInv, TasksHold
<1>4. \A c : ~Heard(c)'
  BY <1>1 DEF Heard, Done, At
<1>5. TasksHold'
  BY <1>1, <1>3 DEF RuntimeIInv, TasksHold, Done, At, writeVars
<1> QED BY <1>1, <1>2, <1>4, <1>5, ResolveSame DEF RuntimeIInv, WriteGone, writeVars

\* What the read task does with its queue and with the lanes alone.
LEMMA ReadWorksKeeps ==
  ASSUME RuntimeIInv, ReadClosed \/ ReadMessage \/ ReadFlush \/ ReadLane \/ ReadTimeout
  PROVE  QueuesFit' /\ TasksHold' /\ HeardAnnounced' /\ RequestsResolve'
<1>0. ASSUME ReadStops, UNCHANGED inputs
      PROVE  QueuesFit' /\ TasksHold' /\ HeardAnnounced' /\ RequestsResolve'
  BY <1>0, ReadEndsKeeps DEF inputs
<1>1. CASE ReadEnds /\ UNCHANGED inputs
  BY <1>0, <1>1 DEF ReadEnds
<1>2. ASSUME UNCHANGED <<size, att, readQ, permit, writeQ, httpQ, readConns, writeVars, left, requests>>,
             names' \subseteq names, senders' \subseteq names',
             \/ read' = read
             \/ read' = Idle
             \/ /\ read.at = "feed" /\ read' = At("send", Coord("BadEnvelope", read.with.of, read.with.lane))
      PROVE  QueuesFit' /\ TasksHold' /\ HeardAnnounced' /\ RequestsResolve'
  <2>1. QueuesFit'
    BY <1>2, QueuesStayFit DEF RuntimeIInv, ReadQueueStep, WriteQueueStep
  <2>2. read'.at = "send" => read' = read \/ (read.at = "feed" /\ read'.with = Coord("BadEnvelope", read.with.of, read.with.lane))
    BY <1>2 DEF Idle, At
  <2>3. read.at = "feed" => Coord("BadEnvelope", read.with.of, read.with.lane) \in CoordMsgs
    BY DEF Coord, CoordMsgs, RuntimeIInv, TasksHold
  <2>4. read'.at \in {"sync", "feed"} => read' = read
    BY <1>2 DEF Idle, At
  <2>5. TasksHold'
    BY <1>2, <2>2, <2>3, <2>4 DEF RuntimeIInv, TasksHold, writeVars
  <2>6. read'.at \in {"send", "sync", "feed"} => read.at \in {"send", "sync", "feed"} /\ read'.with.of = read.with.of
    BY <1>2 DEF Idle, At, Coord
  <2>7. \A c \in TwoWays : Heard(c)' => Heard(c)
    BY <1>2, <2>6 DEF Heard
  <2> QED BY <1>2, <2>1, <2>5, <2>7, ResolveSame DEF RuntimeIInv, WriteGone, writeVars
<1>3. CASE ReadClosed
  BY <1>1, <1>3 DEF ReadClosed
<1>4. CASE ReadFlush
  <2>1. /\ UNCHANGED <<size, inputs, att, queues, read, readConns, names, writeVars>>
        /\ senders' \subseteq names
    BY <1>4 DEF ReadFlush, Flushed, RuntimeIInv, TasksHold
  <2> QED BY <1>2, <2>1 DEF inputs, queues
<1>5. CASE ReadLane
  <2>1. /\ UNCHANGED <<size, inputs, att, queues, readConns, writeVars>>
        /\ names' \subseteq names /\ senders' \subseteq names'
    BY <1>5 DEF ReadLane, RuntimeIInv, TasksHold
  <2>2. \/ read' = Idle
        \/ /\ read.at = "feed" /\ read' = At("send", Coord("BadEnvelope", read.with.of, read.with.lane))
    BY <1>5 DEF ReadLane
  <2> QED BY <1>2, <2>1, <2>2 DEF inputs, queues
<1>6. CASE ReadTimeout
  <2>1. CASE UNCHANGED <<size, inputs, att, queues, readVars, writeVars>>
    <3>1. senders \subseteq names
      BY DEF RuntimeIInv, TasksHold
    <3> QED BY <1>2, <2>1, <3>1 DEF inputs, queues, readVars
  <2>2. CASE ReadStops
    BY <1>0, <1>6, <2>2 DEF ReadTimeout
  <2> QED BY <1>6, <2>1, <2>2 DEF ReadTimeout, queues
<1>7. CASE ReadMessage
  <2>1. CASE Head(readQ).type # "Stop"
    <3> DEFINE m == Head(readQ)
    <3>1. /\ readQ # <<>> /\ readQ' = Tail(readQ)
          /\ readConns' = IF m.type = "Remote" THEN readConns \cup {m.of} ELSE readConns
          /\ names' = IF m.type = "Lane" THEN names \cup {m.of} ELSE names
          /\ senders' = IF m.type = "Lane" THEN senders \cup {m.of} ELSE senders
          /\ UNCHANGED <<size, att, permit, writeQ, httpQ, read, writeVars, left, requests>>
      BY <1>7, <2>1 DEF ReadMessage, inputs
    <3>2. /\ m \in ReadMsgs /\ 1 \in DOMAIN readQ /\ readQ[1] = m
          /\ \A i \in DOMAIN readQ' : i + 1 \in DOMAIN readQ /\ readQ'[i] = readQ[i + 1]
      BY <3>1 DEF RuntimeIInv, QueuesFit
    <3> HIDE DEF m
    <3>3. /\ m.type = "Remote" => m.of \in Conns /\ m = Msg("Remote", m.of)
          /\ m.type = "Lane" => m.of \in Lanes
      BY <3>2, ReadMsgKinds DEF Lanes
    <3>4. QueuesFit'
      BY <3>1, QueuesStayFit DEF RuntimeIInv, ReadQueueStep, WriteQueueStep
    <3>5. TasksHold'
      BY <3>1, <3>3 DEF RuntimeIInv, TasksHold, writeVars
    <3>6. ASSUME NEW c \in TwoWays, Heard(c)' PROVE Heard(c)
      <4>1. CASE c \in readConns' /\ c \notin readConns
        BY <3>1, <3>2, <3>3, <4>1 DEF Heard
      <4>2. CASE \E i \in DOMAIN readQ' : readQ'[i] = Msg("Remote", c)
        BY <3>2, <4>2 DEF Heard
      <4> QED BY <3>1, <3>6, <4>1, <4>2 DEF Heard
    <3> QED BY <3>1, <3>4, <3>5, <3>6, ResolveSame DEF RuntimeIInv, WriteGone, writeVars
  <2> QED BY <1>1, <1>7, <2>1 DEF ReadMessage
<1> QED BY <1>3, <1>4, <1>5, <1>6, <1>7

\* Where the read task goes with an envelope: what it will hold there.
LEMMA RouteHolds ==
  ASSUME NEW c \in Conns, NEW op \in Ops, NEW l \in Lanes \cup {NoLane}, names \subseteq Lanes, senders \subseteq names
  PROVE  LET r == ReadRoute(c, op, l)
         IN  /\ r.at = "send" => r.with \in CoordMsgs /\ r.with.of = c
             /\ r.at \in {"sync", "feed"} => r.with.of = c /\ r.with.lane \in Lanes
<1>1. CASE l \notin names
  <2>1. \/ ReadRoute(c, op, l) = Idle
        \/ ReadRoute(c, op, l) = At("send", Coord("UnknownLane", c, l))
    BY <1>1 DEF ReadRoute
  <2> QED BY <2>1 DEF Idle, At, Coord, CoordMsgs
<1>2. CASE l \in names
  <2>1. l \in Lanes
    BY <1>2
  <2>2. \/ ReadRoute(c, op, l) = Idle
        \/ op \in {"Link", "Unlink"} /\ ReadRoute(c, op, l) = At("send", Coord(op, c, l))
        \/ \E w \in {"sync", "feed"} : ReadRoute(c, op, l) = At(w, [of |-> c, lane |-> l])
    BY <1>2 DEF ReadRoute
  <2> QED BY <2>1, <2>2 DEF Idle, At, Coord, CoordMsgs
<1> QED BY <1>1, <1>2

\* The read task takes an envelope of a remote.
LEMMA ReadEnvelopeKeeps ==
  ASSUME RuntimeIInv, ReadEnvelope
  PROVE  QueuesFit' /\ TasksHold' /\ HeardAnnounced' /\ RequestsResolve'
<1> DEFINE e == Head(left.envelopes)
<1>0. /\ left.envelopes # <<>> /\ left' = [left EXCEPT !.envelopes = Tail(left.envelopes)]
      /\ requests' = requests /\ e.from \in readConns /\ read = Idle
  BY DEF ReadEnvelope
<1>1. CASE ReadEnds
  BY <1>0, <1>1, ReadEndsKeeps DEF ReadEnds
<1>2. CASE /\ read' = ReadRoute(e.from, e.op, e.lane)
           /\ senders' \subseteq senders
           /\ UNCHANGED <<size, att, queues, readConns, names, writeVars>>
  <2>2. e \in Envelopes /\ left' \in Inputs
    BY <1>0, EnvelopeTaken DEF RuntimeIInv, TasksHold
  <2>3. e.from \in Conns /\ e.op \in Ops /\ e.lane \in Lanes \cup {NoLane}
    BY <2>2 DEF Envelopes
  <2> HIDE DEF e
  <2>4. /\ read'.at = "send" => read'.with \in CoordMsgs /\ read'.with.of = e.from
        /\ read'.at \in {"sync", "feed"} => read'.with.of = e.from /\ read'.with.lane \in Lanes
    BY <1>2, <2>3, RouteHolds DEF RuntimeIInv, TasksHold
  <2>5. QueuesFit'
    BY <1>2, QueuesStayFit DEF RuntimeIInv, ReadQueueStep, WriteQueueStep, queues
  <2>6. TasksHold'
    BY <1>0, <1>2, <2>2, <2>3, <2>4 DEF RuntimeIInv, TasksHold, writeVars
  <2>7. \A c \in TwoWays : Heard(c)' => Heard(c)
    BY <1>0, <1>2, <2>4 DEF Heard, queues
  <2> QED BY <1>2, <2>5, <2>6, <2>7, ResolveSame DEF RuntimeIInv, WriteGone, writeVars, queues
<1> QED BY <1>1, <1>2 DEF ReadEnvelope, Flushed

\* The read task has room to tell the write task.
LEMMA ReadSendKeeps ==
  ASSUME RuntimeIInv, ReadSend
  PROVE  QueuesFit' /\ TasksHold' /\ HeardAnnounced' /\ RequestsResolve'
<1>1. CASE ReadEnds
  BY <1>1, ReadEndsKeeps DEF ReadSend, ReadEnds, inputs
<1>2. CASE ~ReadEnds
  <2>1. /\ ~WriteGone /\ WriteRoom /\ read.at = "send" /\ writeQ' = Append(writeQ, read.with) /\ read' = Idle
        /\ UNCHANGED <<size, att, readQ, permit, httpQ, readConns, names, senders, writeVars, left, requests>>
    BY <1>2 DEF ReadSend, inputs
  <2>2. read.with \in WriteMsgs /\ read.with \in CoordMsgs
    BY <2>1 DEF WriteMsgs, RuntimeIInv, TasksHold
  <2>3. Heard(read.with.of)
    BY <2>1 DEF Heard
  <2>4. QueuesFit'
    BY <2>1, <2>2, QueuesStayFit DEF RuntimeIInv, ReadQueueStep, WriteQueueStep
  <2>5. TasksHold'
    BY <2>1 DEF RuntimeIInv, TasksHold, Idle, At, writeVars
  <2>6. \A c \in TwoWays : Heard(c)' => Heard(c)
    BY <2>1 DEF Heard, Idle, At
  <2> QED BY <2>1, <2>2, <2>3, <2>4, <2>5, <2>6, ResolveAppend DEF RuntimeIInv, writeVars
<1> QED BY <1>1, <1>2

-----------------------------------------------------------------------------
\* The write task stops serving its queue.
LEMMA WriteEndsKeeps ==
  ASSUME RuntimeIInv, NEW STATE why, WriteEnds(why), write # Done, left' \in Inputs, requests' = requests,
         writeQ' = writeQ \/ (writeQ # <<>> /\ writeQ' = Tail(writeQ) /\ Head(writeQ).type # "Remote")
  PROVE  QueuesFit' /\ TasksHold' /\ HeardAnnounced' /\ RequestsResolve'
<1>1. /\ UNCHANGED <<size, att, readVars, readQ, permit, httpQ, remotes>> /\ write' = At("cleanup", NoLane)
  BY DEF WriteEnds
<1>2. QueuesFit'
  BY <1>1, QueuesStayFit DEF RuntimeIInv, ReadQueueStep, WriteQueueStep
<1>3. TasksHold'
  BY <1>1 DEF RuntimeIInv, TasksHold, At, readVars
<1>4. \A c \in TwoWays : Heard(c)' => Heard(c)
  BY <1>1 DEF Heard, readVars
<1>5. CASE writeQ' = writeQ
  BY <1>1, <1>2, <1>3, <1>4, <1>5, ResolveSame DEF RuntimeIInv, WriteGone
<1>6. CASE writeQ # <<>> /\ writeQ' = Tail(writeQ) /\ Head(writeQ).type # "Remote"
  <2>1. \A c : Head(writeQ) # Msg("Remote", c)
    BY <1>6, MsgFields
  <2> QED BY <1>1, <1>2, <1>3, <1>4, <1>6, <2>1, ResolveTail DEF RuntimeIInv, WriteGone
<1> QED BY <1>5, <1>6

\* The write task is gone, with its queue.
LEMMA WriteLeavesKeeps ==
  ASSUME RuntimeIInv, left' \in Inputs, requests' = requests, write' = Done, writeQ' = <<>>,
         UNCHANGED <<size, att, readVars, readQ, permit, httpQ, remotes>>
  PROVE  QueuesFit' /\ TasksHold' /\ HeardAnnounced' /\ RequestsResolve'
<1>2. QueuesFit'
  BY QueuesStayFit DEF RuntimeIInv, ReadQueueStep, WriteQueueStep
<1>3. TasksHold'
  BY DEF RuntimeIInv, TasksHold, At, Done, readVars
<1> QED BY <1>2, <1>3, ResolveGone DEF WriteGone

\* The write task goes on with something; its queue stays, or it has taken a message.
LEMMA WriteWorksKeeps ==
  ASSUME RuntimeIInv, left' \in Inputs, requests' = requests, write # Done,
         UNCHANGED <<size, att, readVars, permit, httpQ>>,
         \/ UNCHANGED readQ
         \/ ReadRoom /\ \E l \in NewLanes : readQ' = Append(readQ, Msg("Lane", l)),
         write'.at = "init" => write'.with \in NewLanes \cup NewStores,
         write'.at = "hand_over" => write'.with \in NewLanes,
         remotes' \in [TwoWays -> {"new", "attached", "removed"}],
         \A c \in TwoWays : remotes'[c] = "new" => remotes[c] = "new",
         \/ writeQ' = writeQ
         \/ /\ writeQ # <<>> /\ writeQ' = Tail(writeQ)
            /\ \A c \in TwoWays : Head(writeQ) = Msg("Remote", c) => remotes'[c] # "new"
  PROVE  QueuesFit' /\ TasksHold' /\ HeardAnnounced' /\ RequestsResolve'
<1>1. QueuesFit'
  BY QueuesStayFit DEF RuntimeIInv, ReadQueueStep, WriteQueueStep, ReadMsgs
<1>2. TasksHold'
  BY DEF RuntimeIInv, TasksHold, readVars
<1>3. \A c \in TwoWays : Heard(c)' => Heard(c)
  <2>1. CASE UNCHANGED readQ
    BY <2>1 DEF Heard, readVars
  <2>2. ASSUME NEW l \in NewLanes, readQ' = Append(readQ, Msg("Lane", l)) PROVE \A c \in TwoWays : Heard(c)' => Heard(c)
    <3>1. \A i \in DOMAIN readQ' : (i \in DOMAIN readQ /\ readQ'[i] = readQ[i]) \/ readQ'[i] = Msg("Lane", l)
      BY <2>2 DEF RuntimeIInv, QueuesFit
    <3>2. \A c : Msg("Lane", l) # Msg("Remote", c)
      BY MsgFields
    <3> QED BY <3>1, <3>2 DEF Heard, readVars
  <2> QED BY <2>1, <2>2
<1>4. ~WriteGone
  BY DEF WriteGone
<1>5. CASE writeQ' = writeQ
  BY <1>1, <1>2, <1>3, <1>4, <1>5, ResolveSame DEF RuntimeIInv
<1>6. CASE writeQ # <<>> /\ writeQ' = Tail(writeQ) /\ \A c \in TwoWays : Head(writeQ) = Msg("Remote", c) => remotes'[c] # "new"
  BY <1>1, <1>2, <1>3, <1>4, <1>6, ResolveTail DEF RuntimeIInv
<1> QED BY <1>5, <1>6

\* What the write task takes from its queue.
LEMMA WriteHead ==
  ASSUME RuntimeIInv, writeQ # <<>>
  PROVE  Head(writeQ) \in WriteMsgs
BY DEF RuntimeIInv, QueuesFit

\* The write task takes a message about a link.
LEMMA WriteCoordKeeps ==
  ASSUME RuntimeIInv, WriteCoord
  PROVE  QueuesFit' /\ TasksHold' /\ HeardAnnounced' /\ RequestsResolve'
<1>1. /\ write # Done /\ writeQ # <<>> /\ writeQ' = Tail(writeQ) /\ UNCHANGED <<left, requests>>
      /\ Head(writeQ).type \in {"Link", "Unlink", "UnknownLane", "BadEnvelope"} /\ left \in Inputs
  BY DEF WriteCoord, inputs, Idle, Done, At, RuntimeIInv, TasksHold
<1>2. CASE WriteEnds("AgentTimedOut")
  BY <1>1, <1>2, WriteEndsKeeps
<1>3. CASE UNCHANGED <<size, att, readVars, readQ, permit, httpQ, writeVars, http>>
  <2>1. \A c : Head(writeQ) # Msg("Remote", c)
    BY <1>1, MsgFields
  <2> QED BY <1>1, <1>3, <2>1, WriteWorksKeeps DEF RuntimeIInv, TasksHold, writeVars
<1> QED BY <1>2, <1>3 DEF WriteCoord, WriteRescinds

\* The write task takes the next message.
LEMMA WriteMessageKeeps ==
  ASSUME RuntimeIInv, WriteMessage
  PROVE  QueuesFit' /\ TasksHold' /\ HeardAnnounced' /\ RequestsResolve'
<1> DEFINE m == Head(writeQ)
<1>1. /\ write = Idle /\ write # Done /\ writeQ # <<>> /\ writeQ' = Tail(writeQ) /\ UNCHANGED <<left, requests>>
      /\ left \in Inputs /\ remotes \in [TwoWays -> {"new", "attached", "removed"}] /\ m \in WriteMsgs
  BY WriteHead DEF WriteMessage, inputs, Idle, Done, At, RuntimeIInv, TasksHold
<1>2. CASE m.type = "Stop" /\ WriteEnds(reason)
  BY <1>1, <1>2, WriteEndsKeeps
<1>3. CASE /\ m.type = "Remote" /\ remotes' = [remotes EXCEPT ![m.of] = "attached"] /\ write' = write
           /\ UNCHANGED <<size, att, readVars, readQ, permit, httpQ>>
  <2>1. m.of \in TwoWays /\ \A c : m = Msg("Remote", c) => c = m.of
    BY <1>1, <1>3, WriteMsgKinds
  <2>2. remotes' \in [TwoWays -> {"new", "attached", "removed"}] /\ remotes'[m.of] = "attached"
        /\ \A c \in TwoWays : remotes'[c] = "new" => remotes[c] = "new"
    BY <1>1, <1>3, <2>1
  <2>3. \A c \in TwoWays : m = Msg("Remote", c) => remotes'[c] # "new"
    BY <2>1, <2>2
  <2>4. write'.at \notin {"init", "hand_over"}
    BY <1>1, <1>3 DEF Idle, At
  <2> HIDE DEF m
  <2> QED BY <1>1, <1>3, <2>2, <2>3, <2>4, WriteWorksKeeps DEF m
<1>4. CASE /\ m.type = "Item" /\ write' = At("init", m.of)
           /\ UNCHANGED <<size, att, readVars, readQ, permit, httpQ, remotes>>
  <2>1. m.of \in NewLanes \cup NewStores /\ \A c : m # Msg("Remote", c)
    BY <1>1, <1>4, WriteMsgKinds
  <2>2. write'.at = "init" /\ write'.with \in NewLanes \cup NewStores
    BY <1>4, <2>1 DEF At
  <2> HIDE DEF m
  <2> QED BY <1>1, <1>4, <2>1, <2>2, WriteWorksKeeps DEF m
<1> QED BY <1>2, <1>3, <1>4 DEF WriteMessage

\* The other steps of the write task.
LEMMA WriteOthersKeep ==
  ASSUME RuntimeIInv,
         \/ WriteClosed \/ WriteInit \/ WriteHandOver \/ WriteTimeout \/ WriteCleanupEnds
         \/ \E x \in Lanes \cup NewStores : WriteItemGone(x) \/ WriteEvent(x)
         \/ \E c \in TwoWays : WriteRemoveRemote(c)
  PROVE  QueuesFit' /\ TasksHold' /\ HeardAnnounced' /\ RequestsResolve'
<1>0. /\ left \in Inputs /\ remotes \in [TwoWays -> {"new", "attached", "removed"}]
      /\ write.at = "init" => write.with \in NewLanes \cup NewStores
      /\ write.at = "hand_over" => write.with \in NewLanes
      /\ \A p, q : At(p, q).at = p /\ At(p, q).with = q
      /\ Idle.at = "select" /\ Done.at = "done"
  BY DEF RuntimeIInv, TasksHold, At, Idle, Done
<1>1. CASE WriteClosed
  <2>1. write # Done /\ WriteEnds(reason) /\ UNCHANGED <<left, requests, writeQ>>
    BY <1>0, <1>1 DEF WriteClosed, inputs
  <2> QED BY <1>0, <2>1, WriteEndsKeeps
<1>2. CASE WriteInit
  <2>1. UNCHANGED <<left, requests>> /\ write # Done /\ write.at = "init"
    BY <1>0, <1>2 DEF WriteInit, inputs
  <2>2. CASE WriteFails
    BY <1>0, <2>1, <2>2, WriteLeavesKeeps DEF WriteFails
  <2>3. CASE /\ write' = (IF write.with \in NewLanes THEN At("hand_over", write.with) ELSE Idle) \/ write' = Idle
             /\ UNCHANGED <<size, att, readVars, readQ, permit, writeQ, httpQ, remotes>>
    <3>1. write'.at # "init" /\ (write'.at = "hand_over" => write'.with \in NewLanes)
      BY <1>0, <2>3
    <3> QED BY <1>0, <2>1, <2>3, <3>1, WriteWorksKeeps
  <2> QED BY <1>2, <2>2, <2>3 DEF WriteInit
<1>3. CASE WriteHandOver
  <2>1. UNCHANGED <<left, requests>> /\ write # Done /\ write.with \in NewLanes
    BY <1>0, <1>3 DEF WriteHandOver, inputs
  <2>2. CASE WriteEnds(reason) /\ UNCHANGED writeQ
    BY <1>0, <2>1, <2>2, WriteEndsKeeps
  <2>3. CASE /\ ReadRoom /\ readQ' = Append(readQ, Msg("Lane", write.with)) /\ write' = Idle
             /\ UNCHANGED <<size, att, readVars, permit, writeQ, httpQ, remotes>>
    BY <1>0, <2>1, <2>3, WriteWorksKeeps
  <2> QED BY <1>3, <2>2, <2>3 DEF WriteHandOver
<1>4. CASE WriteTimeout
  <2>1. UNCHANGED <<left, requests, writeQ>> /\ write # Done /\ write = Idle
    BY <1>0, <1>4 DEF WriteTimeout, inputs
  <2>2. CASE WriteEnds(reason)
    BY <1>0, <2>1, <2>2, WriteEndsKeeps
  <2>3. CASE /\ write' = IF votes' = Tasks THEN At("cleanup", NoLane) ELSE write
             /\ UNCHANGED <<size, att, readVars, readQ, permit, httpQ, remotes>>
    <3>1. write'.at \notin {"init", "hand_over"}
      BY <1>0, <2>1, <2>3
    <3> QED BY <1>0, <2>1, <2>3, <3>1, WriteWorksKeeps
  <2> QED BY <1>4, <2>2, <2>3 DEF WriteTimeout
<1>5. CASE WriteCleanupEnds
  BY <1>0, <1>5, WriteLeavesKeeps DEF WriteCleanupEnds, inputs
<1>6. ASSUME NEW x \in Lanes \cup NewStores, WriteItemGone(x)
      PROVE  QueuesFit' /\ TasksHold' /\ HeardAnnounced' /\ RequestsResolve'
  <2>1. write # Done
    BY <1>0, <1>6 DEF WriteItemGone
  <2> QED BY <1>0, <1>6, <2>1, WriteWorksKeeps DEF WriteItemGone, inputs, queues
<1>7. ASSUME NEW x \in Lanes \cup NewStores, WriteEvent(x)
      PROVE  QueuesFit' /\ TasksHold' /\ HeardAnnounced' /\ RequestsResolve'
  <2>1. write # Done /\ requests' = requests /\ left' = [left EXCEPT !.events = left.events - 1] /\ left.events > 0
    BY <1>0, <1>7 DEF WriteEvent
  <2>2. left' \in Inputs
    BY <1>0, <2>1 DEF Inputs
  <2>3. CASE WriteEnds("AgentTimedOut") /\ UNCHANGED writeQ
    BY <2>1, <2>2, <2>3, WriteEndsKeeps
  <2>4. CASE WriteFails
    BY <2>1, <2>2, <2>4, WriteLeavesKeeps DEF WriteFails
  <2>5. CASE UNCHANGED <<size, att, readVars, readQ, permit, writeQ, httpQ, writeVars, http>>
    BY <1>0, <2>1, <2>2, <2>5, WriteWorksKeeps DEF writeVars
  <2> QED BY <1>7, <2>3, <2>4, <2>5 DEF WriteEvent, WriteRescinds
<1>8. ASSUME NEW c \in TwoWays, WriteRemoveRemote(c)
      PROVE  QueuesFit' /\ TasksHold' /\ HeardAnnounced' /\ RequestsResolve'
  <2>1. write # Done /\ UNCHANGED <<size, inputs, att, queues, readVars, write>> /\ remotes' = [remotes EXCEPT ![c] = "removed"]
    BY <1>0, <1>8 DEF WriteRemoveRemote
  <2>2. /\ remotes' \in [TwoWays -> {"new", "attached", "removed"}]
        /\ \A d \in TwoWays : remotes'[d] = "new" => remotes[d] = "new"
    BY <1>0, <2>1
  <2> QED BY <1>0, <2>1, <2>2, WriteWorksKeeps DEF inputs, queues
<1> QED BY <1>1, <1>2, <1>3, <1>4, <1>5, <1>6, <1>7, <1>8

\* The steps of the HTTP task, of the vote and of the agent touch none of these queues.
LEMMA RestKeeps ==
  ASSUME RuntimeIInv,
         \/ HttpStep \/ HttpRequest \/ VoteCompletes \/ StopSignal
         \/ (\E x \in Lanes \cup NewStores : DropItem(x)) \/ UNCHANGED vars
  PROVE  QueuesFit' /\ TasksHold' /\ HeardAnnounced' /\ RequestsResolve'
<1>1. /\ UNCHANGED <<size, att, readQ, permit, writeQ, read, readConns, names, senders, write, remotes, requests>>
      /\ \/ httpQ' \in {httpQ, 0}
         \/ httpQ > 0 /\ httpQ' = httpQ - 1
  BY DEF HttpStep, HttpClosed, HttpRegister, HttpForward, HttpTimeout, HttpRequest, HttpEnds, HttpStops, VoteCompletes, StopSignal,
         DropItem, vars, inputs, queues, readVars, writeVars
<1>2. QueuesFit'
  BY <1>1, QueuesStayFit DEF RuntimeIInv, ReadQueueStep, WriteQueueStep
<1>3. left' \in Inputs
  <2>1. left \in Inputs
    BY DEF RuntimeIInv, TasksHold
  <2>2. \/ left' = left
        \/ left.http > 0 /\ left' = [left EXCEPT !.http = left.http - 1]
        \/ left.drops > 0 /\ left' = [left EXCEPT !.drops = left.drops - 1]
    BY DEF HttpStep, HttpClosed, HttpRegister, HttpForward, HttpTimeout, HttpRequest, HttpEnds, HttpStops, VoteCompletes, StopSignal,
           DropItem, vars, inputs
  <2> QED BY <2>1, <2>2 DEF Inputs
<1>4. TasksHold'
  BY <1>1, <1>3 DEF RuntimeIInv, TasksHold
<1>5. \A c \in TwoWays : Heard(c)' => Heard(c)
  BY <1>1 DEF Heard
<1> QED BY <1>1, <1>2, <1>4, <1>5, ResolveSame DEF RuntimeIInv, WriteGone

\* The invariant holds when the runtime starts.
LEMMA RuntimeInit == Init => RuntimeIInv
<1> SUFFICES ASSUME Init PROVE RuntimeIInv
  OBVIOUS
<1>1. PICK s \in Setups : size = s.size /\ requests = s.requests /\ left = s.left
  BY DEF Init
<1>2. size \in Nat /\ size > 0 /\ left \in Inputs /\ requests \subseteq Conns \cup NewLanes \cup NewStores
  BY <1>1, SetupsAssumption
<1>3. QueuesFit
  <2>1. permit = FALSE /\ permit \in BOOLEAN /\ readQ = <<>> /\ writeQ = <<>> /\ httpQ = 0
    BY DEF Init
  <2>2. Reserved = 0
    BY <2>1, Zenon DEF Reserved
  <2> QED BY <1>2, <2>1, <2>2 DEF QueuesFit
<1>4. TasksHold
  BY <1>2 DEF Init, TasksHold, Idle, At, Lanes
<1>5. HeardAnnounced /\ RequestsResolve
  BY DEF Init, HeardAnnounced, RequestsResolve, Heard, Idle, At
<1> QED BY <1>3, <1>4, <1>5, VotersWaitInit DEF RuntimeIInv

\* Every step keeps the invariant.
LEMMA NextKeepsRuntime == RuntimeIInv /\ [Next]_vars => RuntimeIInv'
<1> SUFFICES ASSUME RuntimeIInv, [Next]_vars PROVE RuntimeIInv'
  OBVIOUS
<1>1. QueuesFit' /\ TasksHold' /\ HeardAnnounced' /\ RequestsResolve'
  BY AttWaitsKeeps, AttSendsKeeps, ReadWorksKeeps, ReadEnvelopeKeeps, ReadSendKeeps, WriteCoordKeeps,
     WriteMessageKeeps, WriteOthersKeep, RestKeeps
     DEF Next, AttStep, ReadStep, WriteStep, Environment
<1>2. VotersWait'
  BY NextVote DEF RuntimeIInv
<1> QED BY <1>1, <1>2 DEF RuntimeIInv

(***************************************************************************)
(* The queues of the tasks never hold more than they have room for, a      *)
(* request that reaches the write task is for a remote that it knows or    *)
(* has known, or will know by then, and no task keeps its vote to stop     *)
(* while it has something to deal with (attachment_task, read_task,        *)
(* write_task, http_task).                                                 *)
(***************************************************************************)
THEOREM TasksAgree == Spec => []AgentInv
<1>1. RuntimeIInv => AgentInv
  <2> SUFFICES ASSUME RuntimeIInv PROVE AgentInv
    OBVIOUS
  <2>1. Len(readQ) <= size /\ Len(writeQ) <= size /\ httpQ <= size
    <3>1. Len(readQ) \in Nat /\ Reserved \in {0, 1} /\ Len(readQ) + Reserved <= size /\ size \in Nat
      BY DEF RuntimeIInv, QueuesFit, Reserved
    <3> QED BY <3>1 DEF RuntimeIInv, QueuesFit
  <2>2. TypeOK
    BY <2>1 DEF RuntimeIInv, TypeOK, TasksHold, VotersWait
  <2>3. VoterIsIdle
    BY DEF RuntimeIInv, VotersWait, VoterIsIdle, ReadGone, HttpGone, Idle, Done, At
  <2> QED BY <2>2, <2>3 DEF RuntimeIInv, AgentInv
<1> QED BY RuntimeInit, NextKeepsRuntime, <1>1, PTL DEF Spec


-----------------------------------------------------------------------------
(* The lanes, and the loop of the agent that writes what they have.        *)

\* What is in the queues of a lane.
Actions == [op : {"update", "remove"}, key : Keys] \cup {Cleared}
SyncQueues == [id : Remotes, keys : SUBSET Keys]
QueueRecords ==
  [events : Seq(Actions), head : 0..(W - 1), epochs : [Keys -> 0..(W - 1) \cup {None}],
   syncs : Seq(SyncQueues), index : Nat, next : {"event", "sync"}]

\* The operations that are queued.
Queued(q) == {q.events[i] : i \in DOMAIN q.events}

\* The queues are sound, and no epoch is beyond the end.
QueuesSound(q) ==
  /\ QueuesOK(q)
  /\ \A k \in Keys : q.epochs[k] # None => Place(q, k) <= Len(q.events)

\* Where the operation of one key is.
KeyPlaced(q, k) ==
  IF q.epochs[k] = None
    THEN \A i \in DOMAIN q.events : q.events[i].key # k
    ELSE /\ \A i \in DOMAIN q.events : q.events[i].key = k <=> i = Place(q, k)
         /\ Place(q, k) <= Len(q.events)

\* The queues are sound key by key.
LEMMA SoundByKeys ==
  ASSUME NEW q
  PROVE  QueuesSound(q) <=>
           /\ \A k \in Keys : KeyPlaced(q, k)
           /\ \A i \in DOMAIN q.events : q.events[i].op = "clear" => i = 1
           /\ q.index < Len(q.syncs) \/ q.index = 0
BY DEF QueuesSound, QueuesOK, KeyPlaced

\* Only a clear has no key.
LEMMA ActionKeys ==
  ASSUME NEW a \in Actions
  PROVE  /\ a.op = "clear" => a = Cleared /\ a.key = None
         /\ a.op # "clear" => a.key \in Keys /\ a.key # None
         /\ a.key = None => a.op = "clear"
BY LaneKeysAssumption DEF Actions, Cleared

\* There is an epoch for each place.
LEMMA SomeEpoch == W \in Nat /\ W >= 1 /\ \A n \in 0..(2 * W - 1) : Wrapped(n) \in 0..(W - 1)
BY LaneKeysAssumption, WidthAssumption, FS_CardinalityType DEF Wrapped

\* The place of an operation is within the width.
LEMMA PlaceInRange ==
  ASSUME NEW q \in QueueRecords, NEW k \in Keys, q.epochs[k] # None
  PROVE  Place(q, k) \in 1..W
<1>1. q.epochs[k] \in 0..(W - 1) /\ q.head \in 0..(W - 1)
  BY DEF QueueRecords
<1> QED BY <1>1, SomeEpoch DEF Place

\* A key of which nothing is to be reported leaves an epoch for it.
LEMMA RoomForKey ==
  ASSUME NEW q \in QueueRecords, QueuesSound(q), NEW k \in Keys, k \notin Reported(q)
  PROVE  Len(q.events) \in 0..(W - 1)
<1> DEFINE T == (Keys \ {k}) \cup {None}
           n == Len(q.events)
           f == [i \in 1..n |-> q.events[i].key]
<1>1. IsFiniteSet(T) /\ Cardinality(T) = Cardinality(Keys) /\ Cardinality(Keys) \in Nat
  <2>1. IsFiniteSet(Keys \ {k}) /\ Cardinality(Keys \ {k}) = Cardinality(Keys) - 1 /\ Cardinality(Keys) \in Nat
    BY LaneKeysAssumption, FS_RemoveElement, FS_CardinalityType
  <2>2. None \notin Keys \ {k}
    BY LaneKeysAssumption
  <2> DEFINE K == Keys \ {k}
  <2>3. IsFiniteSet(K \cup {None}) /\ Cardinality(K \cup {None}) = Cardinality(K) + 1
    BY <2>1, <2>2, FS_AddElement
  <2> QED BY <2>1, <2>3
<1>2. n \in Nat /\ DOMAIN q.events = 1..n /\ \A i \in 1..n : q.events[i] \in Actions
  BY DEF QueueRecords
<1>3. f \in [1..n -> T]
  <2>1. ASSUME NEW i \in 1..n PROVE q.events[i].key \in T
    BY <1>2, ActionKeys DEF Reported
  <2> QED BY <2>1
<1>4. ASSUME NEW i \in 1..n, NEW j \in 1..n, f[i] = f[j] PROVE i = j
  <2>1. CASE q.events[i].key = None
    BY <1>2, <1>4, <2>1, ActionKeys DEF QueuesSound, QueuesOK
  <2>2. CASE q.events[i].key \in Keys
    BY <1>2, <1>4, <2>2 DEF QueuesSound, QueuesOK
  <2> QED BY <1>2, <2>1, <2>2, ActionKeys
<1>5. f \in Injection(1..n, T)
  BY <1>3, <1>4 DEF Injection, IsInjective
<1> HIDE DEF T, f
<1>6. Cardinality(1..n) <= Cardinality(T)
  BY <1>1, <1>5, FS_Injection
<1>7. ASSUME NEW m \in Nat PROVE Cardinality(1..m) = m
  <2>1. 1 \in Int /\ m \in Int
    OBVIOUS
  <2>2. Cardinality(1..m) = IF 1 > m THEN 0 ELSE m - 1 + 1
    BY ONLY <2>1, FS_Interval
  <2> QED BY <2>2
<1>8. Cardinality(1..n) = n
  BY <1>2, <1>7
<1> QED BY <1>1, <1>2, <1>6, <1>8, WidthAssumption

\* What a push does: an operation takes the place of the one of its key, or goes to the end.
LEMMA PushSound ==
  ASSUME NEW q \in QueueRecords, QueuesSound(q), NEW a \in Actions
  PROVE  /\ Push(q, a) \in QueueRecords /\ QueuesSound(Push(q, a))
         /\ Reported(Push(q, a)) = IF a.op = "clear" THEN {None} ELSE Reported(q) \cup {a.key}
         /\ Push(q, a).syncs = q.syncs
         /\ Queued(Push(q, a)) \subseteq {a} \cup {b \in Queued(q) : a.op # "clear" /\ b.key # a.key}
<1> DEFINE p == Push(q, a)
<1>1. /\ q.events \in Seq(Actions) /\ Len(q.events) \in Nat /\ DOMAIN q.events = 1..Len(q.events)
      /\ q.head \in 0..(W - 1) /\ q.epochs \in [Keys -> 0..(W - 1) \cup {None}] /\ q.syncs \in Seq(SyncQueues)
      /\ q.index \in Nat /\ q.next \in {"event", "sync"}
      /\ q = [events |-> q.events, head |-> q.head, epochs |-> q.epochs, syncs |-> q.syncs,
              index |-> q.index, next |-> q.next]
  BY DEF QueueRecords
<1>2. CASE a.op = "clear"
  <2>1. /\ p = [events |-> <<a>>, head |-> 0, epochs |-> [k \in Keys |-> None], syncs |-> q.syncs,
                index |-> q.index, next |-> q.next]
        /\ a.key = None
    BY <1>1, <1>2, ActionKeys DEF Push
  <2> HIDE DEF p
  <2>2. /\ <<a>> \in Seq(Actions) /\ DOMAIN <<a>> = {1} /\ <<a>>[1] = a /\ Len(<<a>>) = 1
    OBVIOUS
  <2>3. p \in QueueRecords
    BY <1>1, <2>1, <2>2, SomeEpoch DEF QueueRecords
  <2>4. QueuesSound(p)
    BY <1>1, <2>1, <2>2, LaneKeysAssumption DEF QueuesSound, QueuesOK
  <2>5. Reported(p) = {None}
    BY <2>1, <2>2 DEF Reported
  <2>6. Queued(p) = {a}
    BY <2>1, <2>2 DEF Queued
  <2> QED BY <1>2, <2>1, <2>3, <2>4, <2>5, <2>6 DEF p
<1>3. CASE a.op # "clear" /\ q.epochs[a.key] # None /\ Place(q, a.key) <= Len(q.events)
  <2> DEFINE n == Place(q, a.key)
  <2>1. a.key \in Keys /\ n \in 1..Len(q.events) /\ q.events[n].key = a.key
    BY <1>1, <1>3, ActionKeys, PlaceInRange DEF QueuesSound, QueuesOK
  <2>2. p = [events |-> [q.events EXCEPT ![n] = a], head |-> q.head, epochs |-> q.epochs, syncs |-> q.syncs,
             index |-> q.index, next |-> q.next]
    BY <1>1, <1>3 DEF Push
  <2> HIDE DEF p, n
  <2>3. /\ p.events \in Seq(Actions) /\ Len(p.events) = Len(q.events) /\ DOMAIN p.events = 1..Len(q.events)
        /\ p.events[n] = a /\ \A i \in 1..Len(q.events) : p.events[i].key = q.events[i].key
        /\ \A i \in (1..Len(q.events)) \ {n} : p.events[i] = q.events[i]
    BY <1>1, <2>1, <2>2
  <2>4. p \in QueueRecords
    BY <1>1, <2>2, <2>3 DEF QueueRecords
  <2>5. \A k \in Keys : Place(p, k) = Place(q, k) /\ p.epochs[k] = q.epochs[k]
    BY <2>2 DEF Place
  <2>6. QueuesSound(p)
    <3>1. \A k \in Keys : KeyPlaced(q, k)
      BY SoundByKeys
    <3>2. \A k \in Keys : KeyPlaced(p, k)
      <4>1. DOMAIN q.events = DOMAIN p.events /\ \A i \in DOMAIN q.events : p.events[i].key = q.events[i].key
        BY <1>1, <2>3
      <4>2. Len(p.events) = Len(q.events)
        BY <2>3
      <4> QED BY <2>5, <3>1, <4>1, <4>2 DEF KeyPlaced
    <3>3. \A i \in DOMAIN p.events : p.events[i].op = "clear" => i = 1
      BY <1>1, <1>3, <2>3 DEF QueuesSound, QueuesOK
    <3>4. p.index < Len(p.syncs) \/ p.index = 0
      BY <2>2 DEF QueuesSound, QueuesOK
    <3> QED BY <3>2, <3>3, <3>4, SoundByKeys
  <2>7. Reported(p) = Reported(q) /\ a.key \in Reported(q)
    BY <1>1, <2>1, <2>3 DEF Reported
  <2>8. ASSUME NEW b \in Queued(p) PROVE b = a \/ (b \in Queued(q) /\ b.key # a.key)
    <3>1. PICK i \in 1..Len(q.events) : b = p.events[i]
      BY <2>3, <2>8 DEF Queued
    <3>2. i # n => q.events[i].key # a.key
      BY <1>1, <1>3, <2>1 DEF QueuesSound, QueuesOK, n
    <3> QED BY <1>1, <2>3, <3>1, <3>2 DEF Queued
  <2>9. Queued(p) \subseteq {a} \cup {b \in Queued(q) : a.op # "clear" /\ b.key # a.key}
    BY <1>3, <2>8
  <2>10. p.syncs = q.syncs /\ Reported(p) = Reported(q) \cup {a.key}
    BY <2>2, <2>7
  <2> QED BY <1>3, <2>4, <2>6, <2>9, <2>10 DEF p
<1>4. CASE a.op # "clear" /\ ~(q.epochs[a.key] # None /\ Place(q, a.key) <= Len(q.events))
  <2> DEFINE n == Len(q.events)
             e == Wrapped(q.head + n)
  <2>1. a.key \in Keys /\ q.epochs[a.key] = None /\ a.key \notin Reported(q)
    BY <1>1, <1>4, ActionKeys DEF QueuesSound, QueuesOK, Reported
  <2>2. n \in 0..(W - 1)
    BY <2>1, RoomForKey
  <2>3. e \in 0..(W - 1) /\ e # None
    BY <1>1, <2>2, SomeEpoch, WidthAssumption
  <2>4. Wrapped(e + W - q.head) = n
    BY <1>1, <2>2, SomeEpoch DEF Wrapped
  <2>5. p = [events |-> Append(q.events, a), head |-> q.head, epochs |-> [q.epochs EXCEPT ![a.key] = e],
             syncs |-> q.syncs, index |-> q.index, next |-> q.next]
    BY <1>1, <1>4 DEF Push
  <2> HIDE DEF p, e
  <2>6. /\ p.events \in Seq(Actions) /\ Len(p.events) = n + 1 /\ DOMAIN p.events = 1..(n + 1)
        /\ p.events[n + 1] = a /\ \A i \in 1..n : p.events[i] = q.events[i]
    BY <1>1, <2>5
  <2>7. p \in QueueRecords
    BY <1>1, <2>3, <2>5, <2>6 DEF QueueRecords
  <2>8. /\ p.epochs[a.key] = e /\ Place(p, a.key) = n + 1
        /\ \A k \in Keys \ {a.key} : Place(p, k) = Place(q, k) /\ p.epochs[k] = q.epochs[k]
    BY <1>1, <2>1, <2>4, <2>5 DEF Place
  <2> HIDE DEF n
  <2>9. n = Len(q.events) /\ n \in Nat
    BY <1>1 DEF n
  <2>10. QueuesSound(p)
    <3>1. ASSUME NEW k \in Keys \ {a.key}
          PROVE  KeyPlaced(p, k)
      <4>1. KeyPlaced(q, k) /\ Place(p, k) = Place(q, k) /\ p.epochs[k] = q.epochs[k]
        BY <2>8, SoundByKeys
      <4>2. CASE q.epochs[k] = None
        BY <1>1, <2>6, <2>9, <3>1, <4>1, <4>2 DEF KeyPlaced
      <4>3. CASE q.epochs[k] # None
        <5>1. Place(q, k) \in 1..n /\ \A i \in 1..n : q.events[i].key = k <=> i = Place(q, k)
          BY <1>1, <2>9, <4>1, <4>3, PlaceInRange DEF KeyPlaced
        <5>2. \A i \in 1..(n + 1) : p.events[i].key = k <=> i = Place(p, k)
          BY <2>6, <2>9, <3>1, <4>1, <5>1
        <5> QED BY <2>6, <2>9, <4>1, <4>3, <5>1, <5>2 DEF KeyPlaced
      <4> QED BY <4>2, <4>3
    <3>2. KeyPlaced(p, a.key)
      <4>1. \A i \in 1..n : q.events[i].key # a.key
        BY <1>1, <2>1, <2>9 DEF Reported
      <4>2. \A i \in 1..(n + 1) : p.events[i].key = a.key <=> i = n + 1
        BY <2>6, <2>9, <4>1
      <4> QED BY <2>3, <2>6, <2>8, <2>9, <4>2 DEF KeyPlaced
    <3>4. \A i \in DOMAIN p.events : p.events[i].op = "clear" => i = 1
      BY <1>1, <1>4, <2>6, <2>9 DEF QueuesSound, QueuesOK
    <3>5. p.index < Len(p.syncs) \/ p.index = 0
      BY <2>5 DEF QueuesSound, QueuesOK
    <3> QED BY <3>1, <3>2, <3>4, <3>5, SoundByKeys
  <2>11. Reported(p) = Reported(q) \cup {a.key}
    <3>1. Reported(p) = {p.events[i].key : i \in 1..(n + 1)} /\ Reported(q) = {q.events[i].key : i \in 1..n}
      BY <1>1, <2>6, <2>9 DEF Reported
    <3> QED BY <2>6, <2>9, <3>1
  <2>12. p.syncs = q.syncs
    BY <2>5
  <2>13. ASSUME NEW b \in Queued(p) PROVE b = a \/ (b \in Queued(q) /\ b.key # a.key)
    <3>1. PICK i \in 1..(n + 1) : b = p.events[i]
      BY <2>6, <2>13 DEF Queued
    <3>2. CASE i = n + 1
      BY <2>6, <3>1, <3>2
    <3>3. CASE i \in 1..n
      <4>1. b = q.events[i] /\ i \in DOMAIN q.events
        BY <1>1, <2>6, <2>9, <3>1, <3>3
      <4> QED BY <2>1, <4>1 DEF Queued, Reported
    <3> QED BY <2>9, <3>2, <3>3
  <2> QED BY <1>4, <2>7, <2>10, <2>11, <2>12, <2>13 DEF p
<1> QED BY <1>2, <1>3, <1>4

\* The place of an operation, one further on.
LEMMA PlaceAhead ==
  ASSUME NEW e \in 0..(W - 1), NEW h \in 0..(W - 1), Wrapped(e + W - h) # 0
  PROVE  Wrapped(e + W - Wrapped(h + 1)) = Wrapped(e + W - h) - 1
<1>1. W \in Nat /\ W >= 1
  BY SomeEpoch
<1>2. CASE h + 1 < W
  BY <1>1, <1>2 DEF Wrapped
<1>3. CASE h + 1 >= W
  <2>1. h = W - 1 /\ Wrapped(h + 1) = 0
    BY <1>1, <1>3 DEF Wrapped
  <2>2. Wrapped(e + W - 0) = e
    BY <1>1 DEF Wrapped
  <2>3. Wrapped(e + W - h) = IF e + 1 < W THEN e + 1 ELSE 0
    BY <1>1, <2>1 DEF Wrapped
  <2> QED BY <1>1, <2>1, <2>2, <2>3
<1> QED BY <1>1, <1>2, <1>3

\* What taking the first operation does.
LEMMA PopEventSound ==
  ASSUME NEW q \in QueueRecords, QueuesSound(q), q.events # <<>>
  PROVE  /\ Head(q.events) \in Actions
         /\ PopEvent(q) \in QueueRecords /\ QueuesSound(PopEvent(q))
         /\ Head(q.events).key \in Reported(q)
         /\ Reported(PopEvent(q)) = Reported(q) \ {Head(q.events).key}
         /\ PopEvent(q).syncs = q.syncs
         /\ Head(q.events) \in Queued(q) /\ Queued(PopEvent(q)) \subseteq Queued(q)
         /\ None \in Reported(q) => Head(q.events).key = None
<1> DEFINE p == PopEvent(q)
           a == Head(q.events)
           n == Len(q.events)
           h == Wrapped(q.head + 1)
           ep == IF a.op = "clear" THEN q.epochs ELSE [q.epochs EXCEPT ![a.key] = None]
<1>1. /\ q.events \in Seq(Actions) /\ n \in Nat /\ DOMAIN q.events = 1..n
      /\ q.head \in 0..(W - 1) /\ q.epochs \in [Keys -> 0..(W - 1) \cup {None}] /\ q.syncs \in Seq(SyncQueues)
      /\ q.index \in Nat /\ q.next \in {"event", "sync"}
      /\ q = [events |-> q.events, head |-> q.head, epochs |-> q.epochs, syncs |-> q.syncs,
              index |-> q.index, next |-> q.next]
  BY DEF QueueRecords
<1>2. /\ n >= 1 /\ a = q.events[1] /\ a \in Actions /\ Tail(q.events) \in Seq(Actions)
      /\ Len(Tail(q.events)) = n - 1 /\ DOMAIN Tail(q.events) = 1..(n - 1)
      /\ \A i \in 1..(n - 1) : Tail(q.events)[i] = q.events[i + 1]
  BY <1>1
<1>3. h \in 0..(W - 1)
  BY <1>1, SomeEpoch
<1>4. p = [events |-> Tail(q.events), head |-> h, epochs |-> ep, syncs |-> q.syncs, index |-> q.index, next |-> q.next]
  BY <1>1 DEF PopEvent
<1> HIDE DEF p
<1>5. /\ ep \in [Keys -> 0..(W - 1) \cup {None}]
      /\ \A k \in Keys : ep[k] = IF k = a.key THEN None ELSE q.epochs[k]
  <2>1. CASE a.op = "clear"
    <3>1. a.key = None /\ None \notin Keys
      BY <1>2, <2>1, ActionKeys, LaneKeysAssumption
    <3> QED BY <1>1, <2>1, <3>1
  <2>2. CASE a.op # "clear"
    BY <1>1, <2>2
  <2> QED BY <2>1, <2>2
<1>6. p \in QueueRecords
  BY <1>1, <1>2, <1>3, <1>4, <1>5 DEF QueueRecords
<1>7. /\ DOMAIN p.events = 1..(n - 1) /\ Len(p.events) = n - 1
      /\ \A i \in 1..(n - 1) : p.events[i] = q.events[i + 1]
      /\ p.epochs = ep /\ p.head = h /\ p.syncs = q.syncs /\ p.index = q.index
  BY <1>2, <1>4
<1>8. a.key \in Reported(q)
  BY <1>1, <1>2 DEF Reported
<1>9. \A k \in Keys : KeyPlaced(q, k)
  BY SoundByKeys
<1>10. \A i \in 1..n : q.events[i].op = "clear" => i = 1
  BY <1>1, SoundByKeys
<1>11. \A i \in 2..n : q.events[i].key # a.key
  <2> SUFFICES ASSUME NEW i \in 2..n, q.events[i].key = a.key PROVE FALSE
    OBVIOUS
  <2>1. i \in 1..n /\ i # 1 /\ 1 \in 1..n /\ q.events[i] \in Actions
    BY <1>1, <1>2
  <2>2. a.key # None
    BY <1>10, <2>1, ActionKeys
  <2>3. a.key \in Keys
    BY <1>2, <2>2, ActionKeys
  <2>4. KeyPlaced(q, a.key)
    BY <1>9, <2>3
  <2> QED BY <1>1, <1>2, <2>1, <2>4 DEF KeyPlaced
<1> HIDE DEF a, h, ep, n
<1>14. n = Len(q.events) /\ n \in Nat /\ n >= 1
  BY <1>1, <1>2 DEF n
<1>12. QueuesSound(p)
  <2>1. ASSUME NEW k \in Keys
        PROVE  KeyPlaced(p, k)
    <3>1. CASE k = a.key
      <4>1. \A i \in 1..(n - 1) : p.events[i].key # k
        BY <1>7, <1>11, <1>14, <3>1
      <4> QED BY <1>5, <1>7, <3>1, <4>1 DEF KeyPlaced
    <3>2. CASE k # a.key /\ q.epochs[k] = None
      <4>1. \A i \in 1..n : q.events[i].key # k
        BY <1>1, <1>9, <3>2 DEF KeyPlaced
      <4>2. \A i \in 1..(n - 1) : p.events[i].key # k
        <5> SUFFICES ASSUME NEW i \in 1..(n - 1) PROVE p.events[i].key # k
          OBVIOUS
        <5>1. p.events[i] = q.events[i + 1] /\ i + 1 \in 1..n
          BY <1>7, <1>14
        <5> QED BY <4>1, <5>1
      <4> QED BY <1>5, <1>7, <3>2, <4>2 DEF KeyPlaced
    <3>3. CASE k # a.key /\ q.epochs[k] # None
      <4>1. Place(q, k) \in 1..n /\ \A i \in 1..n : q.events[i].key = k <=> i = Place(q, k)
        BY <1>1, <1>9, <3>3, PlaceInRange DEF KeyPlaced
      <4>2. Place(q, k) # 1
        BY <1>1, <1>2, <3>3, <4>1
      <4>3. q.epochs[k] \in 0..(W - 1) /\ p.epochs[k] = q.epochs[k]
        BY <1>1, <1>5, <1>7, <3>3
      <4>4. Place(p, k) = Place(q, k) - 1
        <5>1. Wrapped(q.epochs[k] + W - q.head) # 0 /\ Place(q, k) = Wrapped(q.epochs[k] + W - q.head) + 1
          BY <4>2 DEF Place
        <5>2. Wrapped(q.epochs[k] + W - h) = Wrapped(q.epochs[k] + W - q.head) - 1
          BY <1>1, <4>3, <5>1, PlaceAhead DEF h
        <5>3. Place(p, k) = Wrapped(q.epochs[k] + W - h) + 1
          BY <1>7, <4>3 DEF Place
        <5>4. Wrapped(q.epochs[k] + W - q.head) \in 0..(W - 1)
          <6>1. q.epochs[k] + W - q.head \in 0..(2 * W - 1)
            BY <1>1, <4>3, SomeEpoch
          <6> QED BY <6>1, SomeEpoch
        <5> QED BY <5>1, <5>2, <5>3, <5>4, SomeEpoch
      <4>5. \A i \in 1..(n - 1) : p.events[i].key = k <=> i = Place(p, k)
        <5> SUFFICES ASSUME NEW i \in 1..(n - 1) PROVE p.events[i].key = k <=> i = Place(p, k)
          OBVIOUS
        <5>1. p.events[i] = q.events[i + 1] /\ i + 1 \in 1..n
          BY <1>7, <1>14
        <5>2. q.events[i + 1].key = k <=> i + 1 = Place(q, k)
          BY <4>1, <5>1
        <5> QED BY <1>14, <4>1, <4>4, <5>1, <5>2
      <4> QED BY <1>14, <1>7, <3>3, <4>1, <4>3, <4>4, <4>5 DEF KeyPlaced
    <3> QED BY <3>1, <3>2, <3>3
  <2>2. \A i \in DOMAIN p.events : p.events[i].op = "clear" => i = 1
    <3> SUFFICES ASSUME NEW i \in 1..(n - 1), p.events[i].op = "clear" PROVE FALSE
      BY <1>7
    <3>1. p.events[i] = q.events[i + 1] /\ i + 1 \in 1..n
      BY <1>7, <1>14
    <3> QED BY <1>10, <1>14, <3>1
  <2>3. p.index < Len(p.syncs) \/ p.index = 0
    BY <1>7 DEF QueuesSound, QueuesOK
  <2> QED BY <2>1, <2>2, <2>3, SoundByKeys
<1>13. Reported(p) = Reported(q) \ {a.key}
  <2>1. Reported(p) = {p.events[i].key : i \in 1..(n - 1)} /\ Reported(q) = {q.events[i].key : i \in 1..n}
    BY <1>1, <1>7 DEF Reported
  <2>2. ASSUME NEW x \in Reported(p) PROVE x \in Reported(q) \ {a.key}
    <3>1. PICK i \in 1..(n - 1) : x = p.events[i].key
      BY <2>1, <2>2
    <3>2. i + 1 \in 2..n /\ i + 1 \in 1..n /\ x = q.events[i + 1].key
      BY <1>1, <1>7, <3>1
    <3> QED BY <1>11, <2>1, <3>2
  <2>3. ASSUME NEW x \in Reported(q), x # a.key PROVE x \in Reported(p)
    <3>1. PICK i \in 1..n : x = q.events[i].key
      BY <2>1, <2>3
    <3>2. i # 1
      BY <1>2, <2>3, <3>1
    <3>3. i - 1 \in 1..(n - 1) /\ p.events[i - 1] = q.events[i]
      BY <1>1, <1>7, <3>1, <3>2
    <3> QED BY <2>1, <3>1, <3>3
  <2> QED BY <2>2, <2>3
<1>15. a \in Queued(q) /\ Queued(p) \subseteq Queued(q)
  <2>1. \A i \in 1..(n - 1) : p.events[i] = q.events[i + 1] /\ i + 1 \in 1..n
    BY <1>7, <1>14
  <2> QED BY <1>1, <1>2, <1>7, <1>14, <2>1 DEF Queued
<1>16. None \in Reported(q) => a.key = None
  <2> HAVE None \in Reported(q)
  <2>1. PICK i \in 1..n : q.events[i].key = None
    BY <1>1 DEF Reported
  <2>2. i = 1
    BY <1>1, <1>10, <2>1, ActionKeys
  <2> QED BY <1>2, <2>1, <2>2
<1> QED BY <1>2, <1>6, <1>7, <1>8, <1>12, <1>13, <1>15, <1>16 DEF p, a

\* The remotes that have a queue of keys.
Syncing(q) == {q.syncs[i].id : i \in DOMAIN q.syncs}

\* The queues of keys are beside that of the operations.
LEMMA SyncsApart ==
  ASSUME NEW q \in QueueRecords, QueuesSound(q), NEW syncs \in Seq(SyncQueues), NEW index \in Nat,
         index < Len(syncs) \/ index = 0, NEW next \in {"event", "sync"}, NEW p,
         p = [events |-> q.events, head |-> q.head, epochs |-> q.epochs, syncs |-> syncs,
              index |-> index, next |-> next]
  PROVE  p \in QueueRecords /\ QueuesSound(p) /\ Reported(p) = Reported(q) /\ Queued(p) = Queued(q)
<1>1. p \in QueueRecords
  BY DEF QueueRecords
<1>2. p.events = q.events /\ p.head = q.head /\ p.epochs = q.epochs /\ p.syncs = syncs /\ p.index = index
  OBVIOUS
<1>3. \A k \in Keys : Place(p, k) = Place(q, k)
  BY <1>2 DEF Place
<1>4. QueuesSound(p) /\ Reported(p) = Reported(q) /\ Queued(p) = Queued(q)
  BY <1>2, <1>3 DEF QueuesSound, QueuesOK, Reported, Queued
<1> QED BY <1>1, <1>4

\* The places of two sequences, one after the other.
LEMMA TwoParts ==
  ASSUME NEW S, NEW s \in Seq(S), NEW t \in Seq(S)
  PROVE  /\ s \o t \in Seq(S) /\ Len(s \o t) = Len(s) + Len(t) /\ DOMAIN (s \o t) = 1..(Len(s) + Len(t))
         /\ \A i \in 1..Len(s) : (s \o t)[i] = s[i]
         /\ \A i \in 1..Len(t) : (s \o t)[Len(s) + i] = t[i]
OBVIOUS

\* What reporting an operation does to the queues of keys.
LEMMA OvertakeSound ==
  ASSUME NEW q \in QueueRecords, QueuesSound(q), NEW a \in Actions
  PROVE  /\ Overtake(q, a) \in QueueRecords /\ QueuesSound(Overtake(q, a))
         /\ Reported(Overtake(q, a)) = Reported(q) /\ Syncing(Overtake(q, a)) = Syncing(q)
         /\ Queued(Overtake(q, a)) = Queued(q)
         /\ \A id : ToSync(Overtake(q, a), id) =
                      IF a.op = "clear" THEN {} ELSE ToSync(q, id) \ {a.key}
<1> DEFINE syncs == [i \in DOMAIN q.syncs |->
                       [q.syncs[i] EXCEPT !.keys = IF a.op = "clear" THEN {} ELSE @ \ {a.key}]]
           p == Overtake(q, a)
<1>1. /\ q.syncs \in Seq(SyncQueues) /\ DOMAIN q.syncs = 1..Len(q.syncs) /\ Len(q.syncs) \in Nat
      /\ q.index \in Nat /\ q.next \in {"event", "sync"} /\ (q.index < Len(q.syncs) \/ q.index = 0)
      /\ q = [events |-> q.events, head |-> q.head, epochs |-> q.epochs, syncs |-> q.syncs,
              index |-> q.index, next |-> q.next]
  BY DEF QueueRecords, QueuesSound, QueuesOK
<1>2. p = [events |-> q.events, head |-> q.head, epochs |-> q.epochs, syncs |-> syncs,
           index |-> q.index, next |-> q.next]
  <2>1. p = [q EXCEPT !.syncs = syncs]
    BY Zenon DEF Overtake
  <2> HIDE DEF p, syncs
  <2> QED BY <1>1, <2>1
<1>3. \A i \in DOMAIN q.syncs : /\ syncs[i] \in SyncQueues /\ syncs[i].id = q.syncs[i].id
                               /\ syncs[i].keys = IF a.op = "clear" THEN {} ELSE q.syncs[i].keys \ {a.key}
  <2> SUFFICES ASSUME NEW i \in DOMAIN q.syncs
               PROVE  /\ syncs[i] \in SyncQueues /\ syncs[i].id = q.syncs[i].id
                      /\ syncs[i].keys = IF a.op = "clear" THEN {} ELSE q.syncs[i].keys \ {a.key}
    OBVIOUS
  <2> DEFINE c == q.syncs[i]
  <2>1. c \in SyncQueues
    BY <1>1
  <2>2. syncs[i] = [c EXCEPT !.keys = IF a.op = "clear" THEN {} ELSE @ \ {a.key}]
    OBVIOUS
  <2> HIDE DEF c, syncs
  <2>3. syncs[i] \in SyncQueues /\ syncs[i].id = c.id /\ syncs[i].keys = IF a.op = "clear" THEN {} ELSE c.keys \ {a.key}
    BY <2>1, <2>2 DEF SyncQueues
  <2> QED BY <2>3 DEF c
<1>4. syncs \in Seq(SyncQueues) /\ Len(syncs) = Len(q.syncs) /\ DOMAIN syncs = DOMAIN q.syncs
  BY <1>1, <1>3
<1> HIDE DEF syncs, p
<1>5. p \in QueueRecords /\ QueuesSound(p) /\ Reported(p) = Reported(q) /\ Queued(p) = Queued(q)
  <2>1. /\ syncs \in Seq(SyncQueues) /\ q.index \in Nat /\ q.next \in {"event", "sync"}
        /\ q.index < Len(syncs) \/ q.index = 0
    BY <1>1, <1>4
  <2> QED BY <1>2, <2>1, SyncsApart
<1>6. p.syncs = syncs
  BY <1>2
<1>7. Syncing(p) = Syncing(q)
  BY <1>3, <1>4, <1>6 DEF Syncing
<1>8. ASSUME NEW id PROVE ToSync(p, id) = IF a.op = "clear" THEN {} ELSE ToSync(q, id) \ {a.key}
  <2>1. \A k : k \in ToSync(p, id) <=> \E i \in DOMAIN q.syncs : syncs[i].id = id /\ k \in syncs[i].keys
    BY <1>4, <1>6 DEF ToSync
  <2>2. \A k : k \in ToSync(q, id) <=> \E i \in DOMAIN q.syncs : q.syncs[i].id = id /\ k \in q.syncs[i].keys
    BY DEF ToSync
  <2>3. CASE a.op = "clear"
    BY <1>3, <2>1, <2>3
  <2>4. CASE a.op # "clear"
    <3>1. \A i \in DOMAIN q.syncs : syncs[i].id = q.syncs[i].id /\ syncs[i].keys = q.syncs[i].keys \ {a.key}
      BY <1>3, <2>4
    <3>2. \A k : k \in ToSync(p, id) <=> k \in ToSync(q, id) /\ k # a.key
      BY <2>1, <2>2, <3>1
    <3>3. ToSync(p, id) = ToSync(q, id) \ {a.key}
      BY <3>2
    <3> QED BY <2>4, <3>3
  <2> QED BY <2>3, <2>4
<1> QED BY <1>5, <1>7, <1>8 DEF p

\* What more remotes that sync are to be sent.
LEMMA PushSyncsSound ==
  ASSUME NEW q \in QueueRecords, QueuesSound(q), NEW ids \in Seq(Remotes), NEW keys \in SUBSET Keys
  PROVE  /\ PushSyncs(q, ids, keys) \in QueueRecords /\ QueuesSound(PushSyncs(q, ids, keys))
         /\ Reported(PushSyncs(q, ids, keys)) = Reported(q) /\ Queued(PushSyncs(q, ids, keys)) = Queued(q)
         /\ Syncing(PushSyncs(q, ids, keys)) = Syncing(q) \cup {ids[i] : i \in DOMAIN ids}
         /\ \A id : ToSync(PushSyncs(q, ids, keys), id) =
                      ToSync(q, id) \cup (IF id \in {ids[i] : i \in DOMAIN ids} THEN keys ELSE {})
<1> DEFINE more == [i \in DOMAIN ids |-> [id |-> ids[i], keys |-> keys]]
           syncs == q.syncs \o more
           p == PushSyncs(q, ids, keys)
           n == Len(q.syncs)
           m == Len(ids)
<1>1. /\ q.syncs \in Seq(SyncQueues) /\ DOMAIN q.syncs = 1..n /\ n \in Nat
      /\ q.index \in Nat /\ q.next \in {"event", "sync"} /\ (q.index < n \/ q.index = 0)
      /\ q = [events |-> q.events, head |-> q.head, epochs |-> q.epochs, syncs |-> q.syncs,
              index |-> q.index, next |-> q.next]
      /\ DOMAIN ids = 1..m /\ m \in Nat
  BY DEF QueueRecords, QueuesSound, QueuesOK
<1>2. p = [events |-> q.events, head |-> q.head, epochs |-> q.epochs, syncs |-> syncs,
           index |-> q.index, next |-> q.next]
  <2>1. p = [q EXCEPT !.syncs = syncs]
    BY Zenon DEF PushSyncs
  <2> HIDE DEF p, syncs
  <2> QED BY <1>1, <2>1
<1>3. more \in Seq(SyncQueues) /\ Len(more) = m /\ \A i \in 1..m : more[i].id = ids[i] /\ more[i].keys = keys
  BY <1>1 DEF SyncQueues
<1> HIDE DEF p
<1>4. /\ syncs \in Seq(SyncQueues) /\ Len(syncs) = n + m /\ DOMAIN syncs = 1..(n + m)
      /\ \A i \in 1..n : syncs[i] = q.syncs[i]
      /\ \A i \in 1..m : syncs[n + i] = more[i]
  <2> HIDE DEF more
  <2>1. Len(more) = m /\ more \in Seq(SyncQueues) /\ q.syncs \in Seq(SyncQueues)
    BY <1>1, <1>3
  <2> DEFINE s == q.syncs
  <2> HIDE DEF s
  <2>2. s \in Seq(SyncQueues) /\ s = q.syncs /\ more \in Seq(SyncQueues)
    BY <2>1 DEF s
  <2> HIDE DEF syncs, n, m
  <2>3. /\ s \o more \in Seq(SyncQueues) /\ Len(s \o more) = Len(s) + Len(more)
        /\ DOMAIN (s \o more) = 1..(Len(s) + Len(more))
        /\ \A i \in 1..Len(s) : (s \o more)[i] = s[i]
        /\ \A i \in 1..Len(more) : (s \o more)[Len(s) + i] = more[i]
    BY <2>2, TwoParts
  <2> QED BY <2>1, <2>2, <2>3 DEF syncs, n, m
<1> HIDE DEF more, syncs, n, m
<1>5. p \in QueueRecords /\ QueuesSound(p) /\ Reported(p) = Reported(q) /\ Queued(p) = Queued(q)
  <2>1. q.index < Len(syncs) \/ q.index = 0
    BY <1>1, <1>4
  <2>2. syncs \in Seq(SyncQueues) /\ q.index \in Nat /\ q.next \in {"event", "sync"}
    BY <1>1, <1>4
  <2>3. /\ syncs \in Seq(SyncQueues) /\ q.index \in Nat /\ q.next \in {"event", "sync"}
        /\ q.index < Len(syncs) \/ q.index = 0
    BY <2>1, <2>2
  <2>4. p = [events |-> q.events, head |-> q.head, epochs |-> q.epochs, syncs |-> syncs,
           index |-> q.index, next |-> q.next]
    BY <1>2
  <2>5. q \in QueueRecords /\ QueuesSound(q)
    OBVIOUS
  <2> QED BY <2>3, <2>4, <2>5, SyncsApart
<1>6. p.syncs = syncs
  BY <1>2
<1>7. /\ \A j \in 1..(n + m) : j \in 1..n \/ \E i \in 1..m : j = n + i
      /\ \A i \in 1..n : i \in 1..(n + m)
      /\ \A i \in 1..m : n + i \in 1..(n + m)
  <2>1. ASSUME NEW j \in 1..(n + m), j \notin 1..n PROVE \E i \in 1..m : j = n + i
    <3>1. j - n \in 1..m /\ j = n + (j - n)
      BY <1>1, <2>1
    <3> QED BY <3>1
  <2> QED BY <1>1, <2>1
<1>8. Syncing(p) = Syncing(q) \cup {ids[i] : i \in DOMAIN ids}
  <2>1. \A x : x \in Syncing(p) <=> \E j \in 1..(n + m) : x = syncs[j].id
    BY <1>4, <1>6 DEF Syncing
  <2>2. \A x : x \in Syncing(q) <=> \E j \in 1..n : x = q.syncs[j].id
    BY <1>1 DEF Syncing
  <2>3. ASSUME NEW x \in Syncing(p) PROVE x \in Syncing(q) \cup {ids[i] : i \in DOMAIN ids}
    <3>1. PICK j \in 1..(n + m) : x = syncs[j].id
      BY <2>1, <2>3
    <3>2. CASE j \in 1..n
      BY <1>4, <2>2, <3>1, <3>2
    <3>3. CASE j \notin 1..n
      <4>1. PICK i \in 1..m : j = n + i
        BY <1>7, <3>3
      <4> QED BY <1>1, <1>3, <1>4, <3>1, <4>1
    <3> QED BY <3>2, <3>3
  <2>4. ASSUME NEW x \in Syncing(q) PROVE x \in Syncing(p)
    BY <1>4, <1>7, <2>1, <2>2, <2>4
  <2>5. ASSUME NEW i \in DOMAIN ids PROVE ids[i] \in Syncing(p)
    <3>1. n + i \in 1..(n + m) /\ ids[i] = syncs[n + i].id
      BY <1>1, <1>3, <1>4, <1>7
    <3> QED BY <2>1, <3>1
  <2> QED BY <2>3, <2>4, <2>5
<1>9. ASSUME NEW id
      PROVE  ToSync(p, id) = ToSync(q, id) \cup (IF id \in {ids[i] : i \in DOMAIN ids} THEN keys ELSE {})
  <2>1. ASSUME NEW k \in ToSync(p, id)
        PROVE  k \in ToSync(q, id) \/ (id \in {ids[i] : i \in DOMAIN ids} /\ k \in keys)
    <3>1. PICK j \in 1..(n + m) : syncs[j].id = id /\ k \in syncs[j].keys
      BY <1>4, <1>6, <2>1 DEF ToSync
    <3>2. CASE j \in 1..n
      BY <1>1, <1>4, <3>1, <3>2 DEF ToSync
    <3>3. CASE j \notin 1..n
      <4>1. PICK i \in 1..m : j = n + i
        BY <1>7, <3>3
      <4>2. ids[i] = id /\ k \in keys
        BY <1>3, <1>4, <3>1, <4>1
      <4> QED BY <1>1, <4>2
    <3> QED BY <3>2, <3>3
  <2>2. ASSUME NEW k \in ToSync(q, id) PROVE k \in ToSync(p, id)
    <3>1. PICK j \in 1..n : q.syncs[j].id = id /\ k \in q.syncs[j].keys
      BY <1>1, <2>2 DEF ToSync
    <3> QED BY <1>4, <1>6, <1>7, <3>1 DEF ToSync
  <2>3. ASSUME NEW i \in DOMAIN ids, ids[i] = id, NEW k \in keys PROVE k \in ToSync(p, id)
    <3>1. n + i \in DOMAIN syncs /\ syncs[n + i].id = id /\ k \in syncs[n + i].keys
      BY <1>1, <1>3, <1>4, <1>7, <2>3
    <3> QED BY <1>6, <3>1 DEF ToSync
  <2> QED BY <2>1, <2>2, <2>3
<1> QED BY <1>5, <1>8, <1>9 DEF p

\* What is left of a sequence without one of its places.
LEMMA WithoutOne ==
  ASSUME NEW S, NEW s \in Seq(S), NEW i \in 1..Len(s)
  PROVE  /\ RemoveAt(s, i) \in Seq(S) /\ Len(RemoveAt(s, i)) = Len(s) - 1 /\ Len(s) \in Nat
         /\ \A j \in 1..(i - 1) : RemoveAt(s, i)[j] = s[j]
         /\ \A j \in i..(Len(s) - 1) : RemoveAt(s, i)[j] = s[j + 1]
<1> DEFINE t == SubSeq(s, 1, i - 1)
           u == SubSeq(s, i + 1, Len(s))
<1>1. /\ t \in Seq(S) /\ Len(t) = i - 1 /\ \A j \in 1..(i - 1) : t[j] = s[j]
      /\ u \in Seq(S) /\ Len(u) = Len(s) - i /\ \A j \in 1..(Len(s) - i) : u[j] = s[i + j]
      /\ Len(s) \in Nat
  OBVIOUS
<1>2. RemoveAt(s, i) = t \o u
  BY DEF RemoveAt
<1> HIDE DEF t, u
<1>3. /\ t \o u \in Seq(S) /\ Len(t \o u) = Len(t) + Len(u)
      /\ \A j \in 1..Len(t) : (t \o u)[j] = t[j]
      /\ \A j \in 1..Len(u) : (t \o u)[Len(t) + j] = u[j]
  <2>1. t \in Seq(S) /\ u \in Seq(S)
    BY <1>1
  <2> QED BY <2>1, TwoParts
<1>4. ASSUME NEW j \in i..(Len(s) - 1) PROVE (t \o u)[j] = s[j + 1]
  <2>1. j - (i - 1) \in 1..(Len(s) - i) /\ Len(t) + (j - (i - 1)) = j /\ i + (j - (i - 1)) = j + 1
    BY <1>1
  <2>2. (t \o u)[Len(t) + (j - (i - 1))] = u[j - (i - 1)] /\ u[j - (i - 1)] = s[i + (j - (i - 1))]
    BY <1>1, <1>3, <2>1
  <2> QED BY <2>1, <2>2
<1>5. t \o u \in Seq(S) /\ Len(s) \in Nat
  BY <1>1, <1>3
<1>6. Len(t \o u) = Len(s) - 1
  <2>1. Len(t) = i - 1 /\ Len(u) = Len(s) - i /\ Len(t \o u) = Len(t) + Len(u)
    BY <1>1, <1>3
  <2> QED BY <1>5, <2>1
<1>7. ASSUME NEW j \in 1..(i - 1) PROVE (t \o u)[j] = s[j]
  <2>1. j \in 1..Len(t) /\ t[j] = s[j]
    BY <1>1
  <2> QED BY <1>3, <2>1
<1> QED BY <1>2, <1>4, <1>5, <1>6, <1>7

\* What may be taken from the queues, and what it leaves.
Taken(q, o, p) ==
  \/ /\ o = [to |-> "none"] /\ Queued(p) = Queued(q)
     /\ Reported(p) = Reported(q) /\ Syncing(p) = Syncing(q) /\ \A id : ToSync(p, id) = ToSync(q, id)
  \/ /\ \E a \in Actions :
          /\ o = [to |-> "event", action |-> a]
          /\ a \in Queued(q) /\ Queued(p) \subseteq Queued(q)
          /\ a.key \in Reported(q) /\ Reported(p) = Reported(q) \ {a.key}
          /\ None \in Reported(q) => a.key = None
          /\ \A id : ToSync(p, id) = IF a.op = "clear" THEN {} ELSE ToSync(q, id) \ {a.key}
     /\ Syncing(p) = Syncing(q)
  \/ \E r \in Syncing(q) : \E k \in ToSync(q, r) :
       /\ o = [to |-> "sync", id |-> r, key |-> k] /\ Queued(p) = Queued(q)
       /\ Reported(p) = Reported(q) /\ Syncing(p) = Syncing(q)
       /\ \A id : ToSync(p, id) \subseteq ToSync(q, id)
                  /\ ToSync(q, id) \ ToSync(p, id) \subseteq IF id = r THEN {k} ELSE {}
  \/ \E r \in Syncing(q) :
       /\ o = [to |-> "synced", id |-> r] /\ Queued(p) = Queued(q)
       /\ Reported(p) = Reported(q) /\ Syncing(p) \subseteq Syncing(q)
       /\ \A id : ToSync(p, id) = ToSync(q, id)

\* Flipping turns changes nothing else.
LEMMA FlipSound ==
  ASSUME NEW q \in QueueRecords, QueuesSound(q)
  PROVE  /\ Flip(q) \in QueueRecords /\ QueuesSound(Flip(q))
         /\ Reported(Flip(q)) = Reported(q) /\ Queued(Flip(q)) = Queued(q)
         /\ Flip(q).events = q.events /\ Flip(q).syncs = q.syncs /\ Flip(q).index = q.index
         /\ Flip(q) = [events |-> q.events, head |-> q.head, epochs |-> q.epochs, syncs |-> q.syncs,
                       index |-> q.index, next |-> Flip(q).next]
<1> DEFINE p == Flip(q)
           x == IF q.next = "event" THEN "sync" ELSE "event"
<1>1. /\ q.syncs \in Seq(SyncQueues) /\ q.index \in Nat /\ x \in {"event", "sync"}
      /\ q.index < Len(q.syncs) \/ q.index = 0
      /\ q = [events |-> q.events, head |-> q.head, epochs |-> q.epochs, syncs |-> q.syncs,
              index |-> q.index, next |-> q.next]
  BY DEF QueueRecords, QueuesSound, QueuesOK
<1>2. p = [events |-> q.events, head |-> q.head, epochs |-> q.epochs, syncs |-> q.syncs,
           index |-> q.index, next |-> x]
  BY <1>1 DEF Flip
<1> HIDE DEF p, x
<1>3. p \in QueueRecords /\ QueuesSound(p) /\ Reported(p) = Reported(q) /\ Queued(p) = Queued(q)
  BY <1>1, <1>2, SyncsApart
<1> QED BY <1>2, <1>3 DEF p

\* Taking the next thing to be written.
LEMMA PopSound ==
  ASSUME NEW q \in QueueRecords, QueuesSound(q), NEW x \in PopQueues(q)
  PROVE  x.left \in QueueRecords /\ QueuesSound(x.left) /\ Taken(q, x.out, x.left)
<1> DEFINE p == Flip(q)
           n == Len(q.syncs)
           i == q.index + 1
           s == q.syncs[i]
<1>1. /\ p \in QueueRecords /\ QueuesSound(p) /\ Reported(p) = Reported(q) /\ Queued(p) = Queued(q)
      /\ p.events = q.events /\ p.syncs = q.syncs /\ p.index = q.index
      /\ p.next \in {"event", "sync"}
      /\ p = [events |-> q.events, head |-> q.head, epochs |-> q.epochs, syncs |-> q.syncs,
              index |-> q.index, next |-> p.next]
  BY FlipSound DEF QueueRecords
<1>2. Syncing(p) = Syncing(q) /\ \A id : ToSync(p, id) = ToSync(q, id)
  BY <1>1 DEF Syncing, ToSync
<1>3. /\ q.events \in Seq(Actions) /\ q.syncs \in Seq(SyncQueues) /\ n \in Nat /\ q.index \in Nat
      /\ DOMAIN q.syncs = 1..n
      /\ q.index < n \/ q.index = 0
  BY DEF QueueRecords, QueuesSound, QueuesOK
<1> HIDE DEF p
<1>4. CASE x = [out |-> [to |-> "none"], left |-> p]
  BY <1>1, <1>2, <1>4 DEF Taken
<1>5. CASE q.events # <<>> /\ x = [out |-> [to |-> "event", action |-> Head(q.events)],
                                   left |-> Overtake(PopEvent(p), Head(q.events))]
  <2> DEFINE a == Head(q.events)
             e == PopEvent(p)
  <2>1. /\ a \in Actions /\ e \in QueueRecords /\ QueuesSound(e)
        /\ a.key \in Reported(q) /\ Reported(e) = Reported(q) \ {a.key} /\ e.syncs = q.syncs
        /\ a \in Queued(q) /\ Queued(e) \subseteq Queued(q) /\ (None \in Reported(q) => a.key = None)
    BY <1>1, <1>5, PopEventSound
  <2>2. Syncing(e) = Syncing(q) /\ \A id : ToSync(e, id) = ToSync(q, id)
    BY <2>1 DEF Syncing, ToSync
  <2> HIDE DEF a, e
  <2>3. /\ Overtake(e, a) \in QueueRecords /\ QueuesSound(Overtake(e, a))
        /\ Reported(Overtake(e, a)) = Reported(e) /\ Syncing(Overtake(e, a)) = Syncing(e)
        /\ Queued(Overtake(e, a)) = Queued(e)
        /\ \A id : ToSync(Overtake(e, a), id) = IF a.op = "clear" THEN {} ELSE ToSync(e, id) \ {a.key}
    BY <2>1, OvertakeSound
  <2>4. x.out = [to |-> "event", action |-> a] /\ x.left = Overtake(e, a)
    BY <1>5 DEF a, e
  <2> QED BY <2>1, <2>2, <2>3, <2>4 DEF Taken
<1>6. CASE q.syncs # <<>> /\ \E k \in s.keys :
             x = [out |-> [to |-> "sync", id |-> s.id, key |-> k],
                  left |-> [p EXCEPT !.syncs[i].keys = @ \ {k}, !.index = (@ + 1) % n]]
  <2>1. PICK k \in s.keys : x = [out |-> [to |-> "sync", id |-> s.id, key |-> k],
                                 left |-> [p EXCEPT !.syncs[i].keys = @ \ {k}, !.index = (@ + 1) % n]]
    BY <1>6
  <2>2. n >= 1 /\ i \in 1..n /\ s \in SyncQueues
    BY <1>3, <1>6
  <2> DEFINE t == [s EXCEPT !.keys = @ \ {k}]
             syncs == [q.syncs EXCEPT ![i] = t]
             index == (q.index + 1) % n
             l == x.left
  <2>3. t \in SyncQueues /\ t.id = s.id /\ t.keys = s.keys \ {k}
    BY <2>2 DEF SyncQueues
  <2>4. /\ syncs \in Seq(SyncQueues) /\ Len(syncs) = n /\ DOMAIN syncs = 1..n
        /\ syncs[i] = t /\ \A j \in (1..n) \ {i} : syncs[j] = q.syncs[j]
    <3> HIDE DEF t
    <3> QED BY <1>3, <2>2, <2>3
  <2>5. index \in Nat /\ index < n
    BY <1>3, <2>2
  <2>6. l = [events |-> q.events, head |-> q.head, epochs |-> q.epochs, syncs |-> syncs,
             index |-> index, next |-> p.next]
    <3>1. l = [p EXCEPT !.syncs = syncs, !.index = index]
      <4>1. l = [p EXCEPT !.syncs[i].keys = @ \ {k}, !.index = (@ + 1) % n]
        BY <2>1
      <4> QED BY <1>1, <4>1
    <3> HIDE DEF l, syncs, index, s, n, i
    <3>2. /\ p = [events |-> p.events, head |-> p.head, epochs |-> p.epochs, syncs |-> p.syncs,
                  index |-> p.index, next |-> p.next]
          /\ p.events = q.events /\ p.head = q.head /\ p.epochs = q.epochs
      BY <1>1 DEF QueueRecords
    <3>3. l = [events |-> p.events, head |-> p.head, epochs |-> p.epochs, syncs |-> syncs,
               index |-> index, next |-> p.next]
      BY <3>1, <3>2
    <3> QED BY <3>2, <3>3
  <2> HIDE DEF t, syncs, index, l, s, n, i
  <2>7. l \in QueueRecords /\ QueuesSound(l) /\ Reported(l) = Reported(q) /\ Queued(l) = Queued(q)
    BY <1>1, <2>4, <2>5, <2>6, SyncsApart
  <2>8. l.syncs = syncs
    BY <2>6
  <2>9. \A j \in 1..n : syncs[j].id = q.syncs[j].id
    BY <2>3, <2>4 DEF s
  <2>10. Syncing(l) = Syncing(q)
    BY <1>3, <2>4, <2>8, <2>9 DEF Syncing, n
  <2>11. ASSUME NEW id
         PROVE  ToSync(l, id) \subseteq ToSync(q, id)
                /\ ToSync(q, id) \ ToSync(l, id) \subseteq IF id = s.id THEN {k} ELSE {}
    <3>1. \A y : y \in ToSync(l, id) <=> \E j \in 1..n : syncs[j].id = id /\ y \in syncs[j].keys
      BY <2>4, <2>8 DEF ToSync
    <3>2. \A y : y \in ToSync(q, id) <=> \E j \in 1..n : q.syncs[j].id = id /\ y \in q.syncs[j].keys
      BY <1>3 DEF ToSync, n
    <3>3. \A j \in 1..n : syncs[j].keys \subseteq q.syncs[j].keys
      BY <2>3, <2>4 DEF s
    <3>4. ASSUME NEW y \in ToSync(q, id), y \notin ToSync(l, id) PROVE y = k /\ id = s.id
      <4>1. PICK j \in 1..n : q.syncs[j].id = id /\ y \in q.syncs[j].keys
        BY <3>2, <3>4
      <4>2. y \notin syncs[j].keys
        BY <2>9, <3>1, <3>4, <4>1
      <4>3. j = i
        BY <2>4, <4>1, <4>2
      <4> QED BY <2>3, <2>4, <4>1, <4>2, <4>3 DEF s
    <3> QED BY <2>9, <3>1, <3>2, <3>3, <3>4
  <2>12. s.id \in Syncing(q) /\ k \in ToSync(q, s.id)
    BY <1>3, <2>1, <2>2 DEF Syncing, ToSync, s, n, i
  <2>13. x.out = [to |-> "sync", id |-> s.id, key |-> k]
    BY <2>1
  <2> QED BY <2>7, <2>10, <2>11, <2>12, <2>13 DEF Taken, l
<1>7. CASE q.syncs # <<>> /\ s.keys = {} /\
             x = [out |-> [to |-> "synced", id |-> s.id],
                  left |-> [p EXCEPT !.syncs = RemoveAt(@, i), !.index = IF @ >= n - 1 THEN 0 ELSE @]]
  <2>1. n >= 1 /\ i \in 1..n /\ s \in SyncQueues
    BY <1>3, <1>7
  <2> DEFINE syncs == RemoveAt(q.syncs, i)
             index == IF q.index >= n - 1 THEN 0 ELSE q.index
             l == x.left
  <2>2. /\ syncs \in Seq(SyncQueues) /\ Len(syncs) = n - 1
        /\ \A j \in 1..(i - 1) : syncs[j] = q.syncs[j]
        /\ \A j \in i..(n - 1) : syncs[j] = q.syncs[j + 1]
    BY <1>3, <2>1, WithoutOne
  <2>3. l = [events |-> q.events, head |-> q.head, epochs |-> q.epochs, syncs |-> syncs,
             index |-> index, next |-> p.next]
    <3>1. l = [p EXCEPT !.syncs = syncs, !.index = index]
      BY <1>1, <1>7
    <3> HIDE DEF l, syncs, index, s, n, i
    <3>2. /\ p = [events |-> p.events, head |-> p.head, epochs |-> p.epochs, syncs |-> p.syncs,
                  index |-> p.index, next |-> p.next]
          /\ p.events = q.events /\ p.head = q.head /\ p.epochs = q.epochs
      BY <1>1 DEF QueueRecords
    <3>3. l = [events |-> p.events, head |-> p.head, epochs |-> p.epochs, syncs |-> syncs,
               index |-> index, next |-> p.next]
      BY <3>1, <3>2
    <3> QED BY <3>2, <3>3
  <2> HIDE DEF syncs, l, s, n
  <2>4. index \in Nat /\ (index < Len(syncs) \/ index = 0)
    BY <1>3, <2>1, <2>2
  <2> HIDE DEF index, i
  <2>5. l \in QueueRecords /\ QueuesSound(l) /\ Reported(l) = Reported(q) /\ Queued(l) = Queued(q)
    BY <1>1, <2>2, <2>3, <2>4, SyncsApart
  <2>6. l.syncs = syncs /\ DOMAIN syncs = 1..(n - 1)
    BY <1>3, <2>1, <2>2, <2>3
  <2>7. ASSUME NEW j \in 1..(n - 1) PROVE \E m \in 1..n : syncs[j] = q.syncs[m]
    <3>1. CASE j \in 1..(i - 1)
      BY <2>1, <2>2, <3>1, <1>3
    <3>2. CASE j \in i..(n - 1)
      <4>1. j + 1 \in 1..n
        BY <2>1, <3>2, <1>3
      <4> QED BY <2>2, <3>2, <4>1
    <3> QED BY <1>3, <2>1, <3>1, <3>2
  <2>8. ASSUME NEW m \in 1..n, m # i PROVE \E j \in 1..(n - 1) : syncs[j] = q.syncs[m]
    <3>1. CASE m < i
      <4>1. m \in 1..(i - 1) /\ m \in 1..(n - 1)
        BY <2>1, <3>1, <1>3
      <4> QED BY <2>2, <4>1
    <3>2. CASE m > i
      <4>1. m - 1 \in i..(n - 1) /\ m - 1 \in 1..(n - 1) /\ m - 1 + 1 = m
        BY <2>1, <3>2, <1>3
      <4> QED BY <2>2, <4>1
    <3> QED BY <1>3, <2>1, <2>8, <3>1, <3>2
  <2>9. Syncing(l) \subseteq Syncing(q)
    BY <1>3, <2>6, <2>7 DEF Syncing, n
  <2>10. ASSUME NEW id PROVE ToSync(l, id) = ToSync(q, id)
    <3>1. \A y : y \in ToSync(l, id) <=> \E j \in 1..(n - 1) : syncs[j].id = id /\ y \in syncs[j].keys
      BY <2>6 DEF ToSync
    <3>2. \A y : y \in ToSync(q, id) <=> \E j \in 1..n : q.syncs[j].id = id /\ y \in q.syncs[j].keys
      BY <1>3 DEF ToSync, n
    <3>3. q.syncs[i].keys = {}
      BY <1>7 DEF s
    <3>4. ASSUME NEW y \in ToSync(l, id) PROVE y \in ToSync(q, id)
      BY <2>7, <3>1, <3>2, <3>4
    <3>5. ASSUME NEW y \in ToSync(q, id) PROVE y \in ToSync(l, id)
      <4>1. PICK m \in 1..n : q.syncs[m].id = id /\ y \in q.syncs[m].keys
        BY <3>2, <3>5
      <4>2. m # i
        BY <3>3, <4>1
      <4> QED BY <2>8, <3>1, <4>1, <4>2
    <3> QED BY <3>4, <3>5
  <2>11. s.id \in Syncing(q) /\ x.out = [to |-> "synced", id |-> s.id]
    BY <1>3, <1>7, <2>1 DEF Syncing, s, n, i
  <2> QED BY <2>5, <2>9, <2>10, <2>11 DEF Taken, l
<1> QED BY <1>4, <1>5, <1>6, <1>7 DEF PopQueues, p

\* What a lane is.
Contents == MapValues \cup {None}
Pendings ==
  [to : {"none"}] \cup [to : {"event"}, key : Keys, value : Contents]
    \cup [to : {"sync"}, id : Remotes, key : Keys, value : Contents] \cup [to : {"synced"}, id : Remotes]
LaneRecords ==
  [queues : QueueRecords, content : Entries, pending : Pendings, requests : SUBSET Remotes,
   value : Values, flag : BOOLEAN, computed : Values \cup {None}, ids : Seq(Remotes), backlog : Seq(Values)]

\* The parts of a lane that only map-like lanes use agree.
MapSound(l) ==
  LET q == l.queues
  IN  /\ QueuesSound(q)
      /\ \A r \in Remotes : \A k \in ToSync(q, r) :
           k \in Keys /\ (l.content[k] # None \/ k \in Reported(q) \/ None \in Reported(q))
      /\ None \in Reported(q) => \A k \in Keys : l.content[k] = None \/ k \in Reported(q)
      /\ kind # "demandMap" =>
           /\ l.pending.to = "none" /\ l.requests = {}
           /\ \A a \in Queued(q) :
                (a.op = "update" => l.content[a.key] # None) /\ (a.op = "remove" => l.content[a.key] = None)
      /\ kind = "demandMap" => None \notin Reported(q)
      /\ l.pending.to \in {"event", "sync"} =>
           l.pending.value = l.content[l.pending.key] \/ l.pending.key \in Reported(q)
      /\ l.pending.to = "sync" /\ l.pending.value = None => l.pending.key \in Reported(q)

\* What a lane has computed is its value.
LaneSound(l) == l \in LaneRecords /\ MapSound(l) /\ (kind = "demand" => l.computed \in {None, l.value})

\* The observed remote is to have something of a key.
Coming(l, k) ==
  \/ k \in Reported(l.queues)
  \/ k \in ToSync(l.queues, Observed)
  \/ Observed \in l.requests /\ l.content[k] # None
  \/ l.pending.to = "event" /\ l.pending.key = k
  \/ l.pending.to = "sync" /\ l.pending.id = Observed /\ l.pending.key = k

\* It has a sync under way.
UnderWay(l) ==
  \/ Observed \in Syncing(l.queues) \/ Observed \in l.requests
  \/ l.pending.to \in {"sync", "synced"} /\ l.pending.id = Observed

\* The observed remote has the map w, but for what is to come; if it has not asked for
\* the state of the lane, h is FALSE and it has nothing.
MapHeld(l, w, h) ==
  /\ h => \A k \in Keys : Coming(l, k) \/ None \in Reported(l.queues) \/ w[k] = l.content[k]
  /\ ~h => w = [k \in Keys |-> None] /\ ~UnderWay(l)

\* And it has the value v.
ValueHeld(l, v, h) ==
  /\ h /\ kind \in {"value", "demand"} /\ ~l.flag /\ Observed \notin ToSet(l.ids) => v = l.value
  /\ ~h => Observed \notin ToSet(l.ids)

LaneHeld(l, w, v, h) == (MapLike => MapHeld(l, w, h)) /\ ValueHeld(l, v, h)

\* The inductive invariant of a lane.
LaneIInv ==
  /\ kind \in Kinds /\ dirty \in BOOLEAN
  /\ writer \in {"idle", "busy", "busyEvent", "lost"}
  /\ phase \in {"select", "handler", "done", "stopped"}
  /\ writer = "busyEvent" => kind = "demandMap"
  /\ view \in Entries /\ status \in [Remotes -> {"none", "syncing", "synced"}]
  /\ LaneSound(lane) /\ LaneHeld(lane, view, seen, Listens)

\* What is taken from the queues of a lane leaves them sound.
LEMMA LanePop ==
  ASSUME NEW l \in LaneRecords, MapSound(l), NEW p \in PopQueues(l.queues)
  PROVE  p.left \in QueueRecords /\ QueuesSound(p.left) /\ Taken(l.queues, p.out, p.left)
BY PopSound DEF LaneRecords, MapSound

\* The part of a lane for the map, after a change of it.
WithMap(l, q, pending, asked) == [l EXCEPT !.queues = q, !.pending = pending, !.requests = asked]

LEMMA WithMapIs ==
  ASSUME NEW l \in LaneRecords, NEW q \in QueueRecords, NEW pending \in Pendings, NEW asked \in SUBSET Remotes
  PROVE  LET m == WithMap(l, q, pending, asked)
         IN  /\ m \in LaneRecords /\ m.queues = q /\ m.pending = pending /\ m.requests = asked
             /\ m.content = l.content /\ m.value = l.value /\ m.flag = l.flag
             /\ m.computed = l.computed /\ m.ids = l.ids /\ m.backlog = l.backlog
BY DEF LaneRecords, WithMap

\* Who syncs is a remote.
LEMMA SyncingRemotes ==
  ASSUME NEW q \in QueueRecords
  PROVE  Syncing(q) \subseteq Remotes
<1>1. ASSUME NEW r \in Syncing(q) PROVE r \in Remotes
  <2>1. PICK i \in DOMAIN q.syncs : r = q.syncs[i].id
    BY <1>1 DEF Syncing
  <2>2. q.syncs \in Seq(SyncQueues)
    BY DEF QueueRecords
  <2>3. q.syncs[i] \in SyncQueues
    BY <2>1, <2>2
  <2> QED BY <2>1, <2>3 DEF SyncQueues
<1> QED BY <1>1

\* A demand-map lane takes the next thing and computes its value.
LEMMA TakeNextKeeps ==
  ASSUME NEW l \in LaneRecords, MapSound(l), NEW w \in Entries, NEW h \in BOOLEAN, MapHeld(l, w, h),
         kind = "demandMap", l.pending.to = "none", NEW m \in TakeNext(l)
  PROVE  /\ m \in LaneRecords /\ MapSound(m) /\ MapHeld(m, w, h)
         /\ m.value = l.value /\ m.flag = l.flag /\ m.computed = l.computed /\ m.ids = l.ids
<1> DEFINE q == l.queues
           Due(o) ==
             CASE o.to = "event" -> [to |-> "event", key |-> o.action.key, value |-> l.content[o.action.key]]
               [] o.to = "sync" -> [to |-> "sync", id |-> o.id, key |-> o.key, value |-> l.content[o.key]]
               [] OTHER -> o
<1>1. PICK p \in PopQueues(l.queues) : m = [l EXCEPT !.queues = p.left, !.pending = Due(p.out)]
  BY DEF TakeNext
<1> DEFINE s == p.left
           o == p.out
<1>2. s \in QueueRecords /\ QueuesSound(s) /\ Taken(q, o, s)
  BY LanePop
<1>3. q \in QueueRecords /\ l.content \in [Keys -> Contents] /\ l.requests \in SUBSET Remotes
  BY DEF LaneRecords, Entries, Contents
<1>4. m = [l EXCEPT !.queues = s, !.pending = Due(o), !.requests = l.requests]
  BY <1>1 DEF LaneRecords
<1>5. /\ None \notin Reported(q)
      /\ \A r \in Remotes : \A k \in ToSync(q, r) : k \in Keys /\ (l.content[k] # None \/ k \in Reported(q))
      /\ \A k \in Keys : h => Coming(l, k) \/ w[k] = l.content[k]
      /\ \A k \in Keys : Coming(l, k) <=> k \in Reported(q) \/ k \in ToSync(q, Observed)
                                          \/ (Observed \in l.requests /\ l.content[k] # None)
      /\ ~h => w = [k \in Keys |-> None] /\ Observed \notin Syncing(q) /\ Observed \notin l.requests
  BY DEF MapSound, MapHeld, Coming, UnderWay
<1> HIDE DEF q, s, o
<1>6. ASSUME NEW n \in Pendings, Due(o) = n,
             \A r \in Remotes : \A k \in ToSync(s, r) :
               k \in Keys /\ (l.content[k] # None \/ k \in Reported(s)),
             None \notin Reported(s),
             n.to \in {"event", "sync"} => n.value = l.content[n.key],
             n.to = "sync" /\ n.value = None => n.key \in Reported(s),
             \A k \in Keys : k \in Reported(q) => k \in Reported(s) \/ (n.to = "event" /\ n.key = k),
             \A k \in Keys : k \in ToSync(q, Observed) =>
               \/ k \in ToSync(s, Observed) \/ (n.to = "event" /\ n.key = k)
               \/ (n.to = "sync" /\ n.id = Observed /\ n.key = k),
             Syncing(s) \subseteq Syncing(q),
             n.to \in {"sync", "synced"} => n.id \in Syncing(q)
      PROVE  /\ m \in LaneRecords /\ MapSound(m) /\ MapHeld(m, w, h)
             /\ m.value = l.value /\ m.flag = l.flag /\ m.computed = l.computed /\ m.ids = l.ids
  <2>1. /\ m \in LaneRecords /\ m.queues = s /\ m.pending = n /\ m.requests = l.requests /\ m.content = l.content
        /\ m.value = l.value /\ m.flag = l.flag /\ m.computed = l.computed /\ m.ids = l.ids
    <3>1. m = WithMap(l, s, n, l.requests)
      BY <1>4, <1>6 DEF WithMap
    <3> HIDE DEF Due
    <3>2. s \in QueueRecords /\ n \in Pendings /\ l.requests \in SUBSET Remotes
      BY <1>2, <1>3, <1>6
    <3> QED BY <3>1, <3>2, WithMapIs
  <2>2. MapSound(m)
    BY <1>2, <1>6, <2>1 DEF MapSound
  <2>3. \A k \in Keys : Coming(l, k) => Coming(m, k)
    BY <1>5, <1>6, <2>1 DEF Coming
  <2>4. MapHeld(m, w, h)
    BY <1>5, <1>6, <2>1, <2>3 DEF MapHeld, UnderWay
  <2> QED BY <2>1, <2>2, <2>4
<1>7. CASE o = [to |-> "none"]
  <2>1. Due(o) = o /\ o \in Pendings /\ o.to = "none"
    BY <1>7 DEF Pendings
  <2>2. Reported(s) = Reported(q) /\ Syncing(s) = Syncing(q) /\ \A id : ToSync(s, id) = ToSync(q, id)
    BY <1>2, <1>7 DEF Taken
  <2> HIDE DEF Due
  <2> QED BY <1>5, <1>6, <2>1, <2>2
<1>8. ASSUME NEW a \in Actions, o = [to |-> "event", action |-> a],
             a.key \in Reported(q), Reported(s) = Reported(q) \ {a.key}, Syncing(s) = Syncing(q),
             \A id : ToSync(s, id) = IF a.op = "clear" THEN {} ELSE ToSync(q, id) \ {a.key}
      PROVE  /\ m \in LaneRecords /\ MapSound(m) /\ MapHeld(m, w, h)
             /\ m.value = l.value /\ m.flag = l.flag /\ m.computed = l.computed /\ m.ids = l.ids
  <2>1. a.key \in Keys /\ a.op # "clear"
    BY <1>5, <1>8, ActionKeys
  <2> DEFINE n == [to |-> "event", key |-> a.key, value |-> l.content[a.key]]
  <2>2. n \in Pendings /\ Due(o) = n /\ n.to = "event" /\ n.key = a.key /\ n.value = l.content[a.key]
    BY <1>3, <1>8, <2>1 DEF Pendings
  <2> HIDE DEF Due, n
  <2>3. \A id : ToSync(s, id) = ToSync(q, id) \ {a.key}
    BY <1>8, <2>1
  <2> QED BY <1>5, <1>6, <1>8, <2>1, <2>2, <2>3
<1>9. ASSUME NEW r \in Syncing(q), NEW k \in ToSync(q, r), o = [to |-> "sync", id |-> r, key |-> k],
             Reported(s) = Reported(q), Syncing(s) = Syncing(q),
             \A id : ToSync(s, id) \subseteq ToSync(q, id)
                     /\ ToSync(q, id) \ ToSync(s, id) \subseteq IF id = r THEN {k} ELSE {}
      PROVE  /\ m \in LaneRecords /\ MapSound(m) /\ MapHeld(m, w, h)
             /\ m.value = l.value /\ m.flag = l.flag /\ m.computed = l.computed /\ m.ids = l.ids
  <2>1. r \in Remotes /\ k \in Keys /\ (l.content[k] # None \/ k \in Reported(q))
    BY <1>3, <1>5, SyncingRemotes
  <2> DEFINE n == [to |-> "sync", id |-> r, key |-> k, value |-> l.content[k]]
  <2>2. n \in Pendings /\ Due(o) = n /\ n.to = "sync" /\ n.key = k /\ n.id = r /\ n.value = l.content[k]
    BY <1>3, <1>9, <2>1 DEF Pendings
  <2> HIDE DEF Due, n
  <2>3. \A x : x \in ToSync(q, Observed) => x \in ToSync(s, Observed) \/ (Observed = r /\ x = k)
    BY <1>9
  <2>4. \A x \in Remotes : \A y \in ToSync(s, x) : y \in Keys /\ (l.content[y] # None \/ y \in Reported(s))
    BY <1>5, <1>9
  <2> QED BY <1>5, <1>6, <1>9, <2>1, <2>2, <2>3, <2>4
<1>10. ASSUME NEW r \in Syncing(q), o = [to |-> "synced", id |-> r],
              Reported(s) = Reported(q), Syncing(s) \subseteq Syncing(q), \A id : ToSync(s, id) = ToSync(q, id)
       PROVE  /\ m \in LaneRecords /\ MapSound(m) /\ MapHeld(m, w, h)
              /\ m.value = l.value /\ m.flag = l.flag /\ m.computed = l.computed /\ m.ids = l.ids
  <2>1. r \in Remotes
    BY <1>3, SyncingRemotes
  <2>2. Due(o) = o /\ o \in Pendings /\ o.to = "synced" /\ o.id = r
    BY <1>10, <2>1 DEF Pendings
  <2> HIDE DEF Due
  <2> QED BY <1>5, <1>6, <1>10, <2>2
<1> HIDE DEF Due
<1> QED BY <1>2, <1>7, <1>8, <1>9, <1>10 DEF Taken

\* The elements of a set, in some order.
LEMMA SeqOfSet ==
  ASSUME NEW S, IsFiniteSet(S), NEW f \in SetToSeqs(S)
  PROVE  f \in Seq(S) /\ {f[i] : i \in DOMAIN f} = S
<1> DEFINE n == Cardinality(S)
<1>1. n \in Nat /\ f \in [1..n -> S] /\ \A i, j \in 1..n : i # j => f[i] # f[j]
  BY FS_CardinalityType DEF SetToSeqs
<1>2. f \in Injection(1..n, S)
  BY <1>1 DEF Injection, IsInjective
<1>3. Cardinality(1..n) = n
  BY <1>1, FS_Interval
<1>4. f \in Surjection(1..n, S)
  BY <1>2, <1>3, FS_Injection
<1> HIDE DEF n
<1>5. f \in Seq(S)
  BY <1>1
<1>6. \A t \in S : \E s \in 1..n : f[s] = t
  BY <1>4 DEF Surjection
<1>7. DOMAIN f = 1..n /\ \A i \in 1..n : f[i] \in S
  BY <1>1
<1> QED BY <1>5, <1>6, <1>7

\* The remotes that sync are given the keys there are.
LEMMA SyncsKeep ==
  ASSUME NEW l \in LaneRecords, MapSound(l), NEW w \in Entries, NEW h \in BOOLEAN, MapHeld(l, w, h),
         NEW ids \in Seq(Remotes), NEW asked \in SUBSET l.requests,
         l.requests \subseteq asked \cup {ids[i] : i \in DOMAIN ids}
  PROVE  LET m == WithMap(l, PushSyncs(l.queues, ids, KeysOf(l)), l.pending, asked)
         IN  m \in LaneRecords /\ MapSound(m) /\ MapHeld(m, w, h \/ Observed \in {ids[i] : i \in DOMAIN ids})
<1> DEFINE q == l.queues
           I == {ids[i] : i \in DOMAIN ids}
           K == KeysOf(l)
           s == PushSyncs(q, ids, K)
           m == WithMap(l, s, l.pending, asked)
           g == h \/ Observed \in I
<1>1. /\ q \in QueueRecords /\ QueuesSound(q) /\ l.content \in [Keys -> Contents] /\ l.requests \in SUBSET Remotes
      /\ K \in SUBSET Keys /\ \A k \in Keys : k \in K <=> l.content[k] # None
      /\ l.pending \in Pendings
  BY DEF LaneRecords, Entries, Contents, MapSound, KeysOf
<1> HIDE DEF K, q
<1>2. /\ s \in QueueRecords /\ QueuesSound(s) /\ Reported(s) = Reported(q) /\ Queued(s) = Queued(q)
      /\ Syncing(s) = Syncing(q) \cup I
      /\ \A id : ToSync(s, id) = ToSync(q, id) \cup (IF id \in I THEN K ELSE {})
  BY <1>1, PushSyncsSound
<1> HIDE DEF s, I
<1>3. asked \in SUBSET Remotes
  BY <1>1
<1>4. /\ m \in LaneRecords /\ m.queues = s /\ m.pending = l.pending /\ m.requests = asked /\ m.content = l.content
  BY <1>1, <1>2, <1>3, WithMapIs
<1> HIDE DEF m
<1>5. \A id : ToSync(s, id) \subseteq ToSync(q, id) \cup K
  BY <1>2
<1>6. MapSound(m)
  <2>1. \A r \in Remotes : \A k \in ToSync(s, r) :
           k \in Keys /\ (l.content[k] # None \/ k \in Reported(q) \/ None \in Reported(q))
    BY <1>1, <1>5 DEF MapSound, q
  <2>2. kind # "demandMap" => asked = {}
    BY DEF MapSound
  <2> QED BY <1>2, <1>4, <2>1, <2>2 DEF MapSound, q
<1>7. ASSUME NEW k \in Keys, Coming(l, k) PROVE Coming(m, k)
  <2>1. CASE Observed \in l.requests /\ Observed \notin asked /\ l.content[k] # None
    <3>1. Observed \in I
      BY <2>1 DEF I
    <3> QED BY <1>1, <1>2, <1>4, <2>1, <3>1 DEF Coming
  <2>2. CASE ~(Observed \in l.requests /\ Observed \notin asked /\ l.content[k] # None)
    <3>1. k \in ToSync(q, Observed) => k \in ToSync(s, Observed)
      BY <1>2
    <3> QED BY <1>2, <1>4, <1>7, <2>2, <3>1 DEF Coming, q
  <2> QED BY <2>1, <2>2
<1>8. MapHeld(m, w, g)
  <2>1. ASSUME g, NEW k \in Keys PROVE Coming(m, k) \/ None \in Reported(s) \/ w[k] = l.content[k]
    <3>1. CASE h
      BY <1>2, <1>7, <3>1 DEF MapHeld, q
    <3>2. CASE ~h /\ Observed \in I
      <4>1. w[k] = None
        BY <3>2 DEF MapHeld
      <4>2. l.content[k] # None => k \in ToSync(s, Observed)
        BY <1>1, <1>2, <3>2
      <4> QED BY <1>4, <4>1, <4>2 DEF Coming
    <3> QED BY <2>1, <3>1, <3>2
  <2>2. ~g => w = [k \in Keys |-> None] /\ ~UnderWay(m)
    BY <1>2, <1>4 DEF MapHeld, UnderWay, q
  <2> HIDE DEF g
  <2> QED BY <1>4, <2>1, <2>2 DEF MapHeld
<1> QED BY <1>4, <1>6, <1>8 DEF I, s, m, q, K

\* A demand-map lane gets its keys.
LEMMA GetKeysKeeps ==
  ASSUME NEW l \in LaneRecords, MapSound(l), NEW w \in Entries, NEW h \in BOOLEAN, MapHeld(l, w, h),
         NEW m \in GetKeys(l)
  PROVE  /\ m \in LaneRecords /\ MapSound(m) /\ MapHeld(m, w, h) /\ m.pending = l.pending
         /\ m.value = l.value /\ m.flag = l.flag /\ m.computed = l.computed /\ m.ids = l.ids
<1>1. PICK ids \in SetToSeqs(l.requests) :
        m = [l EXCEPT !.requests = {}, !.queues = PushSyncs(@, ids, KeysOf(l))]
  BY DEF GetKeys
<1>2. l.requests \in SUBSET Remotes /\ l.queues \in QueueRecords /\ QueuesSound(l.queues) /\ l.pending \in Pendings
  BY DEF LaneRecords, MapSound
<1>3. IsFiniteSet(l.requests)
  BY <1>2, FS_Subset, ObservedAssumption
<1>4. ids \in Seq(l.requests) /\ {ids[i] : i \in DOMAIN ids} = l.requests
  BY <1>3, SeqOfSet
<1>5. ids \in Seq(Remotes)
  BY <1>2, <1>4
<1> DEFINE s == PushSyncs(l.queues, ids, KeysOf(l))
<1>6. m = WithMap(l, s, l.pending, {})
  BY <1>1 DEF WithMap, LaneRecords
<1>7. m \in LaneRecords /\ MapSound(m) /\ MapHeld(m, w, h \/ Observed \in l.requests)
  <2>1. {} \in SUBSET l.requests /\ l.requests \subseteq {} \cup {ids[i] : i \in DOMAIN ids}
    BY <1>4
  <2>2. MapHeld(m, w, h \/ Observed \in {ids[i] : i \in DOMAIN ids}) /\ m \in LaneRecords /\ MapSound(m)
    BY <1>5, <1>6, <2>1, SyncsKeep
  <2> QED BY <1>4, <2>2
<1>8. Observed \in l.requests => h
  BY DEF MapHeld, UnderWay
<1>9. KeysOf(l) \in SUBSET Keys
  BY DEF KeysOf
<1>10. s \in QueueRecords
  BY <1>2, <1>5, <1>9, PushSyncsSound
<1> HIDE DEF s
<1>11. m.pending = l.pending /\ m.value = l.value /\ m.flag = l.flag /\ m.computed = l.computed /\ m.ids = l.ids
  BY <1>2, <1>6, <1>10, WithMapIs
<1>12. MapHeld(m, w, h)
  <2>1. (h \/ Observed \in l.requests) = h
    BY <1>8
  <2> QED BY <1>7, <2>1
<1> QED BY <1>7, <1>11, <1>12

\* The handler of a demand-map lane.
LEMMA DemandMapHandlerKeeps ==
  ASSUME NEW l \in LaneRecords, MapSound(l), NEW w \in Entries, NEW h \in BOOLEAN, MapHeld(l, w, h),
         kind = "demandMap", NEW m \in DemandMapHandler(l)
  PROVE  /\ m \in LaneRecords /\ MapSound(m) /\ MapHeld(m, w, h)
         /\ m.value = l.value /\ m.flag = l.flag /\ m.computed = l.computed /\ m.ids = l.ids
<1>1. CASE l.pending.to # "none"
  BY <1>1 DEF DemandMapHandler
<1>2. CASE l.pending.to = "none" /\ l.requests # {}
  <2>1. PICK g \in GetKeys(l) : m \in TakeNext(g)
    BY <1>2 DEF DemandMapHandler
  <2>2. /\ g \in LaneRecords /\ MapSound(g) /\ MapHeld(g, w, h) /\ g.pending = l.pending
        /\ g.value = l.value /\ g.flag = l.flag /\ g.computed = l.computed /\ g.ids = l.ids
    BY GetKeysKeeps
  <2> QED BY <1>2, <2>1, <2>2, TakeNextKeeps
<1>3. CASE l.pending.to = "none" /\ l.requests = {}
  <2>1. m \in TakeNext(l)
    BY <1>3 DEF DemandMapHandler
  <2> QED BY <1>3, <2>1, TakeNextKeeps
<1> QED BY <1>1, <1>2, <1>3

\* What is taken is nothing, an operation, or part of a sync.
LEMMA TakenIs ==
  ASSUME NEW q, NEW o, NEW p, Taken(q, o, p)
  PROVE  o.to \in {"none", "event", "sync", "synced"}
<1>1. \/ o = [to |-> "none"] \/ \E a \in Actions : o = [to |-> "event", action |-> a]
      \/ \E r \in Syncing(q) : \E k \in ToSync(q, r) : o = [to |-> "sync", id |-> r, key |-> k]
      \/ \E r \in Syncing(q) : o = [to |-> "synced", id |-> r]
  BY Zenon DEF Taken
<1> QED BY <1>1

\* A lane with another map and other operations to report.
WithContent(l, content, q) == [l EXCEPT !.content = content, !.queues = q]

LEMMA WithContentIs ==
  ASSUME NEW l \in LaneRecords, NEW content \in Entries, NEW q \in QueueRecords
  PROVE  LET m == WithContent(l, content, q)
         IN  /\ m \in LaneRecords /\ m.queues = q /\ m.content = content
             /\ m.pending = l.pending /\ m.requests = l.requests /\ m.value = l.value /\ m.flag = l.flag
             /\ m.computed = l.computed /\ m.ids = l.ids /\ m.backlog = l.backlog
BY DEF LaneRecords, WithContent

\* A lane in which an entry changes.
WithEntry(l, k, v, a) == [l EXCEPT !.content[k] = v, !.queues = Push(@, a)]

\* A change of an entry is queued.
LEMMA ChangeKeeps ==
  ASSUME NEW l \in LaneRecords, MapSound(l), NEW w \in Entries, NEW h \in BOOLEAN, MapHeld(l, w, h),
         NEW k \in Keys, NEW v \in Contents, NEW a \in Actions, a.key = k,
         kind # "demandMap" => (a.op = "update" => v # None) /\ (a.op = "remove" => v = None)
  PROVE  LET m == WithEntry(l, k, v, a)
         IN  /\ m \in LaneRecords /\ MapSound(m) /\ MapHeld(m, w, h)
             /\ m.value = l.value /\ m.flag = l.flag /\ m.computed = l.computed /\ m.ids = l.ids
<1> DEFINE q == l.queues
           s == Push(q, a)
           content == [l.content EXCEPT ![k] = v]
           m == WithContent(l, content, s)
<1>1. q \in QueueRecords /\ QueuesSound(q) /\ l.content \in [Keys -> Contents]
  BY DEF LaneRecords, Entries, Contents, MapSound
<1>2. a.op # "clear" /\ k # None
  BY ActionKeys, LaneKeysAssumption
<1> HIDE DEF q
<1>3. /\ s \in QueueRecords /\ QueuesSound(s) /\ Reported(s) = Reported(q) \cup {k}
      /\ Queued(s) \subseteq {a} \cup {b \in Queued(q) : b.key # k}
      /\ s.syncs = q.syncs
  BY <1>1, <1>2, PushSound
<1>4. Syncing(s) = Syncing(q) /\ \A id : ToSync(s, id) = ToSync(q, id)
  BY <1>3 DEF Syncing, ToSync
<1>5. content \in Entries /\ content[k] = v /\ \A x \in Keys \ {k} : content[x] = l.content[x]
  BY <1>1 DEF Entries, Contents
<1> HIDE DEF s, content
<1>6. /\ m \in LaneRecords /\ m.queues = s /\ m.content = content /\ m.pending = l.pending /\ m.requests = l.requests
      /\ m.value = l.value /\ m.flag = l.flag /\ m.computed = l.computed /\ m.ids = l.ids
  BY <1>3, <1>5, WithContentIs
<1>7. WithEntry(l, k, v, a) = m
  BY DEF WithEntry, WithContent, content, s, q, LaneRecords
<1> HIDE DEF m
<1>8. MapSound(m)
  <2>1. \A r \in Remotes : \A x \in ToSync(s, r) :
           x \in Keys /\ (content[x] # None \/ x \in Reported(s) \/ None \in Reported(s))
    BY <1>3, <1>4, <1>5 DEF MapSound, q
  <2>2. /\ None \in Reported(s) => \A x \in Keys : content[x] = None \/ x \in Reported(s)
        /\ kind = "demandMap" => None \notin Reported(s)
    BY <1>2, <1>3, <1>5 DEF MapSound, q
  <2>3. ASSUME kind # "demandMap", NEW b \in Queued(s)
        PROVE  (b.op = "update" => content[b.key] # None) /\ (b.op = "remove" => content[b.key] = None)
    <3>1. CASE b = a
      BY <1>5, <2>3, <3>1
    <3>2. CASE b # a
      <4>1. b \in Queued(q) /\ b.key # k
        BY <1>3, <3>2
      <4>2. b \in Actions
        <5>1. q.events \in Seq(Actions)
          BY <1>1 DEF QueueRecords
        <5> QED BY <4>1, <5>1 DEF Queued
      <4>3. b.op # "clear" => content[b.key] = l.content[b.key]
        BY <1>5, <4>1, <4>2, ActionKeys
      <4> QED BY <2>3, <4>1, <4>3 DEF MapSound, q
    <3> QED BY <3>1, <3>2
  <2>4. l.pending.to \in {"event", "sync"} => l.pending.key \in Keys
    BY DEF LaneRecords, Pendings
  <2>5. /\ l.pending.to \in {"event", "sync"} =>
             l.pending.value = content[l.pending.key] \/ l.pending.key \in Reported(s)
        /\ l.pending.to = "sync" /\ l.pending.value = None => l.pending.key \in Reported(s)
    BY <1>3, <1>5, <2>4 DEF MapSound, q
  <2>6. kind # "demandMap" => l.pending.to = "none" /\ l.requests = {}
    BY DEF MapSound
  <2> QED BY <1>3, <1>6, <2>1, <2>2, <2>3, <2>5, <2>6 DEF MapSound
<1>9. MapHeld(m, w, h)
  <2>1. ASSUME NEW x \in Keys, x # k, Coming(l, x) PROVE Coming(m, x)
    BY <1>3, <1>4, <1>5, <1>6, <2>1 DEF Coming, q
  <2>2. Coming(m, k)
    BY <1>3, <1>6 DEF Coming
  <2>3. ASSUME h, NEW x \in Keys PROVE Coming(m, x) \/ None \in Reported(s) \/ w[x] = content[x]
    BY <1>3, <1>5, <2>1, <2>2, <2>3 DEF MapHeld, q
  <2>4. ~h => w = [x \in Keys |-> None] /\ ~UnderWay(m)
    BY <1>4, <1>6 DEF MapHeld, UnderWay, q
  <2> QED BY <1>6, <2>3, <2>4 DEF MapHeld
<1> QED BY <1>6, <1>7, <1>8, <1>9

\* A clear takes the place of all the changes.
LEMMA ClearKeeps ==
  ASSUME NEW l \in LaneRecords, MapSound(l), NEW w \in Entries, NEW h \in BOOLEAN, MapHeld(l, w, h),
         kind = "map"
  PROVE  LET m == [l EXCEPT !.content = [k \in Keys |-> None], !.queues = Push(@, Cleared)]
         IN  /\ m \in LaneRecords /\ MapSound(m) /\ MapHeld(m, w, h)
             /\ m.value = l.value /\ m.flag = l.flag /\ m.computed = l.computed /\ m.ids = l.ids
<1> DEFINE q == l.queues
           s == Push(q, Cleared)
           content == [k \in Keys |-> None]
           m == WithContent(l, content, s)
<1>1. q \in QueueRecords /\ QueuesSound(q) /\ Cleared \in Actions /\ Cleared.op = "clear"
  BY DEF LaneRecords, MapSound, Actions, Cleared
<1> HIDE DEF q
<1>2. /\ s \in QueueRecords /\ QueuesSound(s) /\ Reported(s) = {None}
      /\ Queued(s) \subseteq {Cleared} /\ s.syncs = q.syncs
  BY <1>1, PushSound
<1>3. Syncing(s) = Syncing(q) /\ \A id : ToSync(s, id) = ToSync(q, id)
  BY <1>2 DEF Syncing, ToSync
<1>4. content \in Entries /\ \A x \in Keys : content[x] = None
  BY DEF Entries
<1> HIDE DEF s, content
<1>5. /\ m \in LaneRecords /\ m.queues = s /\ m.content = content /\ m.pending = l.pending /\ m.requests = l.requests
      /\ m.value = l.value /\ m.flag = l.flag /\ m.computed = l.computed /\ m.ids = l.ids
  BY <1>2, <1>4, WithContentIs
<1>6. [l EXCEPT !.content = [k \in Keys |-> None], !.queues = Push(@, Cleared)] = m
  BY DEF WithContent, content, s, q
<1> HIDE DEF m
<1>7. l.pending.to = "none" /\ l.requests = {}
  BY DEF MapSound
<1>8. MapSound(m)
  <2>1. \A r \in Remotes : \A x \in ToSync(s, r) : x \in Keys
    BY <1>3 DEF MapSound, q
  <2>2. \A b \in Queued(s) : b.op = "clear"
    BY <1>1, <1>2
  <2> QED BY <1>2, <1>4, <1>5, <1>7, <2>1, <2>2 DEF MapSound
<1>9. MapHeld(m, w, h)
  <2>1. None \in Reported(s)
    BY <1>2
  <2> QED BY <1>3, <1>5, <2>1 DEF MapHeld, UnderWay, q
<1> QED BY <1>5, <1>6, <1>8, <1>9

\* What the observed remote has after a response.
ViewAfter(o, w, h) ==
  CASE o.to = "event" /\ h -> IF o.key = None THEN [k \in Keys |-> None] ELSE [w EXCEPT ![o.key] = o.value]
    [] o.to = "sync" /\ o.id = Observed -> [w EXCEPT ![o.key] = o.value]
    [] OTHER -> w

SeenAfter(o, v, h) ==
  IF (o.to = "value" /\ h) \/ (o.to = "answer" /\ o.id = Observed) THEN o.value ELSE v

\* A response ends the sync of the observed remote.
Ends(o) == o.to \in {"synced", "answer"} /\ o.id = Observed

\* A write keeps the invariant as far as the map is concerned.
MapKept(x, w, h) ==
  /\ x.lane \in LaneRecords /\ MapSound(x.lane)
  /\ ViewAfter(x.out, w, h) \in Entries /\ MapHeld(x.lane, ViewAfter(x.out, w, h), h)
  /\ Ends(x.out) => h

\* A map lane writes the next thing of its queues.
LEMMA WriteMapKeeps ==
  ASSUME NEW l \in LaneRecords, MapSound(l), NEW w \in Entries, NEW h \in BOOLEAN, MapHeld(l, w, h),
         kind = "map", NEW x \in WriteMap(l)
  PROVE  MapKept(x, w, h)
<1> DEFINE q == l.queues
           Operation(o) ==
             CASE o.to = "event" ->
                    IF o.action.op = "update" /\ l.content[o.action.key] = None THEN [to |-> "again"]
                    ELSE [to |-> "event", key |-> o.action.key,
                          value |-> IF o.action.op = "update" THEN l.content[o.action.key] ELSE None]
               [] o.to = "sync" ->
                    IF l.content[o.key] = None THEN [to |-> "again"]
                    ELSE [to |-> "sync", id |-> o.id, key |-> o.key, value |-> l.content[o.key]]
               [] OTHER -> o
<1>1. PICK p \in PopQueues(l.queues) :
        x = Written([l EXCEPT !.queues = p.left], Operation(p.out), ~NoneQueued(p.left))
  BY DEF WriteMap
<1> DEFINE s == p.left
           o == p.out
           m == x.lane
           v == ViewAfter(x.out, w, h)
<1>2. s \in QueueRecords /\ QueuesSound(s) /\ Taken(q, o, s)
  BY LanePop
<1>3. /\ q \in QueueRecords /\ l.content \in [Keys -> Contents] /\ w \in [Keys -> Contents]
      /\ l.pending \in Pendings /\ l.requests \in SUBSET Remotes
  BY DEF LaneRecords, Entries, Contents
<1>4. x.lane = WithMap(l, s, l.pending, l.requests) /\ x.out = Operation(o)
  BY <1>1 DEF Written, WithMap, LaneRecords
<1>5. m \in LaneRecords /\ m.queues = s /\ m.pending = l.pending /\ m.requests = l.requests /\ m.content = l.content
  BY <1>2, <1>3, <1>4, WithMapIs
<1>6. /\ l.pending.to = "none" /\ l.requests = {}
      /\ \A r \in Remotes : \A k \in ToSync(q, r) :
           k \in Keys /\ (l.content[k] # None \/ k \in Reported(q) \/ None \in Reported(q))
      /\ None \in Reported(q) => \A k \in Keys : l.content[k] = None \/ k \in Reported(q)
      /\ \A a \in Queued(q) :
           (a.op = "update" => l.content[a.key] # None) /\ (a.op = "remove" => l.content[a.key] = None)
  BY <1>2 DEF MapSound
<1>7. /\ \A k \in Keys : h => \/ k \in Reported(q) \/ k \in ToSync(q, Observed)
                              \/ None \in Reported(q) \/ w[k] = l.content[k]
      /\ ~h => w = [k \in Keys |-> None] /\ Observed \notin Syncing(q)
  BY <1>6 DEF MapHeld, Coming, UnderWay
<1> HIDE DEF m, q, s, o, Operation
<1>8. ASSUME \A r \in Remotes : \A k \in ToSync(s, r) :
               k \in Keys /\ (l.content[k] # None \/ k \in Reported(s) \/ None \in Reported(s)),
             None \in Reported(s) => \A k \in Keys : l.content[k] = None \/ k \in Reported(s),
             Queued(s) \subseteq Queued(q), Syncing(s) \subseteq Syncing(q),
             NEW u \in Entries, v = u,
             \A k \in Keys : h => \/ k \in Reported(s) \/ k \in ToSync(s, Observed)
                                  \/ None \in Reported(s) \/ u[k] = l.content[k],
             ~h => u = w, Ends(x.out) => h
      PROVE  MapKept(x, w, h)
  <2>1. MapSound(m)
    BY <1>2, <1>5, <1>6, <1>8 DEF MapSound
  <2>2. \A k \in Keys : k \in Reported(s) \/ k \in ToSync(s, Observed) => Coming(m, k)
    BY <1>5 DEF Coming
  <2>3. ~UnderWay(m) \/ h
    BY <1>5, <1>6, <1>7, <1>8 DEF UnderWay
  <2>4. MapHeld(m, u, h)
    BY <1>5, <1>7, <1>8, <2>2, <2>3 DEF MapHeld
  <2> QED BY <1>5, <1>8, <2>1, <2>4 DEF MapKept, m
<1>9. CASE o = [to |-> "none"]
  <2>1. x.out = [to |-> "none"] /\ o.to = "none"
    BY <1>4, <1>9 DEF Operation
  <2>2. v = w /\ ~Ends(x.out)
    BY <2>1 DEF ViewAfter, Ends
  <2>3. /\ Reported(s) = Reported(q) /\ Syncing(s) = Syncing(q) /\ Queued(s) = Queued(q)
        /\ \A id : ToSync(s, id) = ToSync(q, id)
    BY <1>2, <1>9 DEF Taken
  <2> HIDE DEF v
  <2> QED BY <1>6, <1>7, <1>8, <2>2, <2>3
<1>10. ASSUME NEW a \in Actions, o = [to |-> "event", action |-> a], a \in Queued(q), Queued(s) \subseteq Queued(q),
              a.key \in Reported(q), Reported(s) = Reported(q) \ {a.key}, Syncing(s) = Syncing(q),
              None \in Reported(q) => a.key = None,
              \A id : ToSync(s, id) = IF a.op = "clear" THEN {} ELSE ToSync(q, id) \ {a.key}
       PROVE  MapKept(x, w, h)
  <2>1. CASE a.op = "clear"
    <3>1. a.key = None /\ None \in Reported(q) /\ None \notin Reported(s) /\ \A id : ToSync(s, id) = {}
      BY <1>10, <2>1, ActionKeys
    <3>2. x.out = [to |-> "event", key |-> None, value |-> None]
      BY <1>4, <1>10, <2>1, <3>1 DEF Operation
    <3>3. v = [k \in Keys |-> None]
      BY <1>7, <3>2 DEF ViewAfter
    <3>4. ~Ends(x.out) /\ [k \in Keys |-> None] \in Entries
      BY <3>2 DEF Ends, Entries
    <3>5. \A k \in Keys : k \in Reported(s) \/ l.content[k] = None
      BY <1>6, <1>10, <3>1, LaneKeysAssumption
    <3> HIDE DEF v
    <3> QED BY <1>7, <1>8, <1>10, <3>1, <3>3, <3>4, <3>5
  <2>2. CASE a.op # "clear"
    <3>1. a.key \in Keys /\ a.key # None /\ None \notin Reported(q) /\ a.op \in {"update", "remove"}
      BY <1>10, <2>2, ActionKeys DEF Actions, Cleared
    <3>2. x.out = [to |-> "event", key |-> a.key, value |-> l.content[a.key]]
      <4>1. Operation(o) = IF a.op = "update" /\ l.content[a.key] = None THEN [to |-> "again"]
                           ELSE [to |-> "event", key |-> a.key,
                                 value |-> IF a.op = "update" THEN l.content[a.key] ELSE None]
        BY <1>10 DEF Operation
      <4>2. (a.op = "update" => l.content[a.key] # None) /\ (a.op = "remove" => l.content[a.key] = None)
        BY <1>6, <1>10
      <4> QED BY <1>4, <3>1, <4>1, <4>2
    <3> DEFINE u == IF h THEN [w EXCEPT ![a.key] = l.content[a.key]] ELSE w
    <3>3. v = u /\ ~Ends(x.out)
      BY <3>1, <3>2 DEF ViewAfter, Ends
    <3>4. u \in Entries /\ h => \A k \in Keys : u[k] = IF k = a.key THEN l.content[k] ELSE w[k]
      BY <1>3, <3>1 DEF Entries, Contents
    <3>5. u \in Entries /\ (~h => u = w)
      BY <1>3, <3>1 DEF Entries, Contents
    <3> HIDE DEF v, u
    <3>6. \A id : ToSync(s, id) = ToSync(q, id) \ {a.key}
      BY <1>10, <2>2
    <3>7. \A r \in Remotes : \A k \in ToSync(s, r) :
             k \in Keys /\ (l.content[k] # None \/ k \in Reported(s) \/ None \in Reported(s))
      BY <1>6, <1>10, <3>1, <3>6
    <3>8. \A k \in Keys : h => k \in Reported(s) \/ k \in ToSync(s, Observed) \/ u[k] = l.content[k]
      BY <1>7, <1>10, <3>1, <3>4, <3>5, <3>6
    <3>9. None \notin Reported(s)
      BY <1>10, <3>1
    <3> QED BY <1>8, <1>10, <3>3, <3>5, <3>7, <3>8, <3>9
  <2> QED BY <2>1, <2>2
<1>11. ASSUME NEW r \in Syncing(q), NEW k \in ToSync(q, r), o = [to |-> "sync", id |-> r, key |-> k],
              Queued(s) = Queued(q), Reported(s) = Reported(q), Syncing(s) = Syncing(q),
              \A id : ToSync(s, id) \subseteq ToSync(q, id)
                      /\ ToSync(q, id) \ ToSync(s, id) \subseteq IF id = r THEN {k} ELSE {}
       PROVE  MapKept(x, w, h)
  <2>1. r \in Remotes /\ k \in Keys /\ (l.content[k] # None \/ k \in Reported(q) \/ None \in Reported(q))
    BY <1>3, <1>6, SyncingRemotes
  <2>2. \A y \in Remotes : \A z \in ToSync(s, y) :
           z \in Keys /\ (l.content[z] # None \/ z \in Reported(s) \/ None \in Reported(s))
    BY <1>6, <1>11
  <2>3. \A z : z \in ToSync(q, Observed) => z \in ToSync(s, Observed) \/ (Observed = r /\ z = k)
    BY <1>11
  <2>4. Operation(o) = IF l.content[k] = None THEN [to |-> "again"]
                       ELSE [to |-> "sync", id |-> r, key |-> k, value |-> l.content[k]]
    BY <1>11 DEF Operation
  <2>5. CASE l.content[k] = None
    <3>1. v = w /\ ~Ends(x.out)
      BY <1>4, <2>4, <2>5 DEF ViewAfter, Ends
    <3> HIDE DEF v
    <3> QED BY <1>6, <1>7, <1>8, <1>11, <2>1, <2>2, <2>3, <2>5, <3>1
  <2>6. CASE l.content[k] # None /\ r # Observed
    <3>1. v = w /\ ~Ends(x.out)
      BY <1>4, <2>4, <2>6 DEF ViewAfter, Ends
    <3> HIDE DEF v
    <3> QED BY <1>6, <1>7, <1>8, <1>11, <2>2, <2>3, <2>6, <3>1
  <2>7. CASE l.content[k] # None /\ r = Observed
    <3> DEFINE u == [w EXCEPT ![k] = l.content[k]]
    <3>1. v = u /\ ~Ends(x.out)
      BY <1>4, <2>4, <2>7 DEF ViewAfter, Ends
    <3>2. u \in Entries /\ \A z \in Keys : u[z] = IF z = k THEN l.content[k] ELSE w[z]
      BY <1>3, <2>1 DEF Entries, Contents
    <3>3. h
      BY <1>7, <2>7
    <3> HIDE DEF u, v
    <3>4. \A z \in Keys : \/ z \in Reported(s) \/ z \in ToSync(s, Observed)
                          \/ None \in Reported(s) \/ u[z] = l.content[z]
      BY <1>7, <1>11, <2>3, <3>2, <3>3
    <3> QED BY <1>6, <1>8, <1>11, <2>2, <3>1, <3>2, <3>3, <3>4
  <2> QED BY <2>5, <2>6, <2>7
<1>12. ASSUME NEW r \in Syncing(q), o = [to |-> "synced", id |-> r], Queued(s) = Queued(q),
              Reported(s) = Reported(q), Syncing(s) \subseteq Syncing(q), \A id : ToSync(s, id) = ToSync(q, id)
       PROVE  MapKept(x, w, h)
  <2>1. x.out = o
    BY <1>4, <1>12 DEF Operation
  <2>2. v = w /\ (Ends(x.out) => Observed = r)
    BY <1>12, <2>1 DEF ViewAfter, Ends
  <2>3. Ends(x.out) => h
    BY <1>7, <2>2
  <2> HIDE DEF v
  <2> QED BY <1>6, <1>7, <1>8, <1>12, <2>2, <2>3
<1> HIDE DEF v
<1> QED BY <1>2, <1>9, <1>10, <1>11, <1>12 DEF Taken

\* A demand-map lane writes what it has computed.
LEMMA WriteDemandMapKeeps ==
  ASSUME NEW l \in LaneRecords, MapSound(l), NEW w \in Entries, NEW h \in BOOLEAN, MapHeld(l, w, h),
         kind = "demandMap"
  PROVE  MapKept(WriteDemandMap(l), w, h)
<1> DEFINE q == l.queues
           n == l.pending
           x == WriteDemandMap(l)
           v == ViewAfter(x.out, w, h)
           m == WithMap(l, q, [to |-> "none"], l.requests)
<1>1. /\ q \in QueueRecords /\ QueuesSound(q) /\ l.content \in [Keys -> Contents] /\ w \in [Keys -> Contents]
      /\ n \in Pendings /\ l.requests \in SUBSET Remotes /\ [to |-> "none"] \in Pendings
  BY DEF LaneRecords, Entries, Contents, MapSound, Pendings
<1>2. /\ m \in LaneRecords /\ m.queues = q /\ m.pending = [to |-> "none"] /\ m.requests = l.requests
      /\ m.content = l.content
  BY <1>1, WithMapIs
<1>3. x.lane = m /\ x.out = IF n.to = "none" \/ (n.to = "sync" /\ n.value = None) THEN [to |-> "none"] ELSE n
  <2>1. [l EXCEPT !.pending = [to |-> "none"]] = m
    BY DEF WithMap, LaneRecords
  <2> HIDE DEF m
  <2> QED BY <2>1 DEF WriteDemandMap, Nothing, Written
<1> HIDE DEF m, q, x
<1>4. MapSound(m)
  BY <1>1, <1>2 DEF MapSound, q
<1>5. /\ None \notin Reported(q)
      /\ n.to \in {"event", "sync"} => n.value = l.content[n.key] \/ n.key \in Reported(q)
      /\ n.to = "sync" /\ n.value = None => n.key \in Reported(q)
  BY DEF MapSound, q
<1>6. ~h => w = [k \in Keys |-> None] /\ ~UnderWay(l)
  BY DEF MapHeld
<1>7. ~h => ~UnderWay(m)
  BY <1>2, <1>6 DEF UnderWay, q
<1>8. \A k \in Keys : h => Coming(l, k) \/ w[k] = l.content[k]
  BY <1>5 DEF MapHeld, q
<1>9. \A k \in Keys : Coming(l, k) =>
        Coming(m, k) \/ (n.to = "event" /\ n.key = k) \/ (n.to = "sync" /\ n.id = Observed /\ n.key = k)
  BY <1>2 DEF Coming, q
<1>10. ASSUME NEW u \in Entries, v = u, ~h => u = w, Ends(x.out) => h,
              \A k \in Keys : h => Coming(m, k) \/ u[k] = l.content[k]
       PROVE  MapKept(x, w, h)
  <2>1. MapHeld(m, u, h)
    BY <1>2, <1>6, <1>7, <1>10 DEF MapHeld
  <2> QED BY <1>2, <1>3, <1>4, <1>10, <2>1 DEF MapKept
<1>11. CASE n.to = "none" \/ (n.to = "sync" /\ n.value = None)
  <2>1. v = w /\ ~Ends(x.out)
    BY <1>3, <1>11 DEF ViewAfter, Ends
  <2>2. \A k \in Keys : k \in Reported(q) => Coming(m, k)
    BY <1>2 DEF Coming
  <2>3. \A k \in Keys : h => Coming(m, k) \/ w[k] = l.content[k]
    BY <1>5, <1>8, <1>9, <1>11, <2>2
  <2> HIDE DEF v
  <2> QED BY <1>10, <2>1, <2>3 DEF x
<1>12. CASE n.to = "synced"
  <2>1. x.out = n
    BY <1>3, <1>12
  <2>2. v = w /\ (Ends(x.out) => n.id = Observed)
    BY <1>12, <2>1 DEF ViewAfter, Ends
  <2>3. Ends(x.out) => h
    BY <1>6, <1>12, <2>2 DEF UnderWay
  <2>4. \A k \in Keys : h => Coming(m, k) \/ w[k] = l.content[k]
    BY <1>8, <1>9, <1>12
  <2> HIDE DEF v
  <2> QED BY <1>10, <2>2, <2>3, <2>4 DEF x
<1>13. CASE n.to = "event" \/ (n.to = "sync" /\ n.value # None /\ n.id = Observed)
  <2>1. n.key \in Keys /\ n.key # None /\ n.value \in Contents
    BY <1>1, <1>13, LaneKeysAssumption DEF Pendings
  <2>2. x.out = n
    BY <1>3, <1>13
  <2>3. n.to = "sync" => h
    BY <1>6, <1>13 DEF UnderWay
  <2> DEFINE u == IF h THEN [w EXCEPT ![n.key] = n.value] ELSE w
  <2>4. v = u /\ ~Ends(x.out)
    BY <1>13, <2>1, <2>2, <2>3 DEF ViewAfter, Ends
  <2>5. u \in Entries /\ (~h => u = w) /\ (h => \A k \in Keys : u[k] = IF k = n.key THEN n.value ELSE w[k])
    BY <1>1, <2>1 DEF Entries, Contents
  <2> HIDE DEF u, v
  <2>6. ASSUME h, NEW k \in Keys PROVE Coming(m, k) \/ u[k] = l.content[k]
    <3>1. CASE k = n.key
      BY <1>2, <1>5, <1>13, <2>5, <2>6, <3>1 DEF Coming
    <3>2. CASE k # n.key
      BY <1>8, <1>9, <2>5, <2>6, <3>2
    <3> QED BY <3>1, <3>2
  <2> QED BY <1>10, <2>4, <2>5, <2>6 DEF x
<1>14. CASE n.to = "sync" /\ n.value # None /\ n.id # Observed
  <2>1. x.out = n
    BY <1>3, <1>14
  <2>2. v = w /\ ~Ends(x.out)
    BY <1>14, <2>1 DEF ViewAfter, Ends
  <2>3. \A k \in Keys : h => Coming(m, k) \/ w[k] = l.content[k]
    BY <1>8, <1>9, <1>14
  <2> HIDE DEF v
  <2> QED BY <1>10, <2>2, <2>3 DEF x
<1>15. n.to \in {"none", "synced", "event", "sync"}
  BY <1>1 DEF Pendings
<1> QED BY <1>11, <1>12, <1>13, <1>14, <1>15 DEF x

\* The parts of a lane that map-like lanes use.
SameMap(l, m) ==
  m.queues = l.queues /\ m.content = l.content /\ m.pending = l.pending /\ m.requests = l.requests

LEMMA SameMapKeeps ==
  ASSUME NEW l, NEW m, SameMap(l, m), NEW w, NEW h
  PROVE  (MapSound(m) <=> MapSound(l)) /\ (MapHeld(m, w, h) <=> MapHeld(l, w, h))
<1>1. MapSound(m) <=> MapSound(l)
  BY DEF SameMap, MapSound
<1>2. \A k \in Keys : Coming(m, k) <=> Coming(l, k)
  BY DEF SameMap, Coming
<1>3. UnderWay(m) <=> UnderWay(l)
  BY DEF SameMap, UnderWay
<1> QED BY <1>1, <1>2, <1>3 DEF SameMap, MapHeld

\* A write keeps the invariant.
WriteKept(x, w, v, h) ==
  /\ LaneSound(x.lane) /\ ViewAfter(x.out, w, h) \in Entries
  /\ LaneHeld(x.lane, ViewAfter(x.out, w, h), SeenAfter(x.out, v, h), h)
  /\ Ends(x.out) => h

\* The part of a lane for its value, after a write.
WithValue(l, flag, computed, ids, backlog) ==
  [l EXCEPT !.flag = flag, !.computed = computed, !.ids = ids, !.backlog = backlog]

LEMMA WithValueIs ==
  ASSUME NEW l \in LaneRecords, NEW flag \in BOOLEAN, NEW computed \in Values \cup {None}, NEW ids \in Seq(Remotes),
         NEW backlog \in Seq(Values)
  PROVE  LET m == WithValue(l, flag, computed, ids, backlog)
         IN  /\ m \in LaneRecords /\ SameMap(l, m) /\ m.value = l.value /\ m.flag = flag
             /\ m.computed = computed /\ m.ids = ids /\ m.backlog = backlog
BY DEF LaneRecords, WithValue, SameMap

\* A write of a lane that is not map-like changes what it has of its value.
LEMMA ValueKept ==
  ASSUME NEW l, LaneSound(l), NEW w \in Entries, NEW v, NEW h \in BOOLEAN, ~MapLike,
         NEW flag \in BOOLEAN, NEW computed \in Values \cup {None}, NEW ids \in Seq(Remotes), NEW backlog \in Seq(Values),
         kind = "demand" => computed \in {None, l.value},
         NEW x, x.lane = WithValue(l, flag, computed, ids, backlog), x.out.to \notin {"event", "sync"},
         h /\ kind \in {"value", "demand"} /\ ~flag /\ Observed \notin ToSet(ids) => SeenAfter(x.out, v, h) = l.value,
         ~h => Observed \notin ToSet(ids), Ends(x.out) => h
  PROVE  WriteKept(x, w, v, h)
<1>1. l \in LaneRecords /\ MapSound(l)
  BY DEF LaneSound
<1>2. /\ x.lane \in LaneRecords /\ SameMap(l, x.lane) /\ x.lane.value = l.value /\ x.lane.flag = flag
      /\ x.lane.computed = computed /\ x.lane.ids = ids
  BY <1>1, WithValueIs
<1>3. LaneSound(x.lane)
  BY <1>1, <1>2, SameMapKeeps DEF LaneSound
<1>4. ViewAfter(x.out, w, h) = w
  BY DEF ViewAfter
<1>5. ValueHeld(x.lane, SeenAfter(x.out, v, h), h)
  BY <1>2 DEF ValueHeld
<1> QED BY <1>3, <1>4, <1>5 DEF WriteKept, LaneHeld

\* What a sequence has, without the first.
LEMMA WithoutFirst ==
  ASSUME NEW S, NEW s \in Seq(S), s # <<>>
  PROVE  Head(s) \in S /\ Tail(s) \in Seq(S) /\ ToSet(s) = {Head(s)} \cup ToSet(Tail(s))
<1>1. /\ Len(s) \in Nat /\ Len(s) >= 1 /\ DOMAIN s = 1..Len(s) /\ Head(s) = s[1] /\ s[1] \in S
      /\ Tail(s) \in Seq(S) /\ DOMAIN Tail(s) = 1..(Len(s) - 1)
      /\ \A i \in 1..(Len(s) - 1) : Tail(s)[i] = s[i + 1]
  OBVIOUS
<1>2. ToSet(s) = {s[i] : i \in 1..Len(s)} /\ ToSet(Tail(s)) = {Tail(s)[i] : i \in 1..(Len(s) - 1)}
  BY <1>1 DEF ToSet
<1>3. ASSUME NEW y \in ToSet(s) PROVE y \in {Head(s)} \cup ToSet(Tail(s))
  <2>1. PICK i \in 1..Len(s) : y = s[i]
    BY <1>2, <1>3
  <2>2. i # 1 => i - 1 \in 1..(Len(s) - 1) /\ Tail(s)[i - 1] = s[i]
    BY <1>1
  <2> QED BY <1>1, <1>2, <2>1, <2>2
<1>4. ASSUME NEW y \in ToSet(Tail(s)) PROVE y \in ToSet(s)
  <2>1. PICK i \in 1..(Len(s) - 1) : y = Tail(s)[i]
    BY <1>2, <1>4
  <2>2. i + 1 \in 1..Len(s) /\ y = s[i + 1]
    BY <1>1, <2>1
  <2> QED BY <1>2, <2>2
<1>5. Head(s) \in ToSet(s)
  BY <1>1, <1>2
<1> QED BY <1>1, <1>3, <1>4, <1>5

\* The first of those that sync is answered.
LEMMA AnswerKeeps ==
  ASSUME NEW l, LaneSound(l), NEW w \in Entries, NEW v, NEW h \in BOOLEAN, ValueHeld(l, v, h), ~MapLike,
         l.ids # <<>>, NEW computed \in Values \cup {None}, kind = "demand" => computed \in {None, l.value},
         NEW x, x.lane = WithValue(l, l.flag, computed, Tail(l.ids), l.backlog),
         x.out.to \in {"answer", "synced"}, x.out.id = Head(l.ids),
         kind \in {"value", "demand"} => x.out.to = "answer" /\ x.out.value = l.value
  PROVE  WriteKept(x, w, v, h)
<1>1. l.flag \in BOOLEAN /\ l.ids \in Seq(Remotes) /\ l.backlog \in Seq(Values)
  BY DEF LaneSound, LaneRecords
<1>2. Tail(l.ids) \in Seq(Remotes) /\ ToSet(l.ids) = {Head(l.ids)} \cup ToSet(Tail(l.ids))
  BY <1>1, WithoutFirst
<1>3. h /\ kind \in {"value", "demand"} /\ ~l.flag /\ Observed \notin ToSet(Tail(l.ids)) =>
        SeenAfter(x.out, v, h) = l.value
  BY <1>2 DEF ValueHeld, SeenAfter
<1>4. ~h => Observed \notin ToSet(Tail(l.ids)) /\ x.out.id # Observed
  BY <1>2 DEF ValueHeld
<1>5. x.out.to \notin {"event", "sync"} /\ (Ends(x.out) => h) /\ (~h => Observed \notin ToSet(Tail(l.ids)))
  BY <1>4 DEF Ends
<1> DEFINE ids == Tail(l.ids)
<1>6. ids \in Seq(Remotes) /\ x.lane = WithValue(l, l.flag, computed, ids, l.backlog)
  BY <1>2
<1> HIDE DEF ids
<1>7. h /\ kind \in {"value", "demand"} /\ ~l.flag /\ Observed \notin ToSet(ids) =>
        SeenAfter(x.out, v, h) = l.value
  BY <1>3 DEF ids
<1>8. ~h => Observed \notin ToSet(ids)
  BY <1>5 DEF ids
<1> QED BY <1>1, <1>5, <1>6, <1>7, <1>8, ValueKept

\* An event is written.
LEMMA EventKeeps ==
  ASSUME NEW l, LaneSound(l), NEW w \in Entries, NEW v, NEW h \in BOOLEAN, ValueHeld(l, v, h), ~MapLike,
         NEW flag \in BOOLEAN, NEW computed \in Values \cup {None}, NEW backlog \in Seq(Values),
         kind = "demand" => computed \in {None, l.value},
         NEW x, x.lane = WithValue(l, flag, computed, l.ids, backlog),
         x.out.to = "value", kind \in {"value", "demand"} => x.out.value = l.value
  PROVE  WriteKept(x, w, v, h)
<1>1. l.ids \in Seq(Remotes)
  BY DEF LaneSound, LaneRecords
<1>2. h /\ kind \in {"value", "demand"} => SeenAfter(x.out, v, h) = l.value
  BY DEF SeenAfter
<1>3. ~h => Observed \notin ToSet(l.ids)
  BY DEF ValueHeld
<1> QED BY <1>1, <1>2, <1>3, ValueKept DEF Ends

\* Nothing is written.
LEMMA NothingKeeps ==
  ASSUME NEW l, LaneSound(l), NEW w \in Entries, NEW v, NEW h \in BOOLEAN, LaneHeld(l, w, v, h),
         NEW x, x.lane = l, x.out.to \in {"none", "empty"}
  PROVE  WriteKept(x, w, v, h)
<1>1. ViewAfter(x.out, w, h) = w /\ SeenAfter(x.out, v, h) = v /\ ~Ends(x.out)
  BY DEF ViewAfter, SeenAfter, Ends
<1> QED BY <1>1 DEF WriteKept

\* The ways in which a write changes a lane.
LEMMA ValueChanges ==
  ASSUME NEW l \in LaneRecords, NEW t
  PROVE  /\ [l EXCEPT !.ids = t] = WithValue(l, l.flag, l.computed, t, l.backlog)
         /\ [[l EXCEPT !.ids = t] EXCEPT !.computed = None] = WithValue(l, l.flag, None, t, l.backlog)
         /\ [l EXCEPT !.flag = FALSE] = WithValue(l, FALSE, l.computed, l.ids, l.backlog)
         /\ [l EXCEPT !.flag = FALSE, !.computed = None] = WithValue(l, FALSE, None, l.ids, l.backlog)
         /\ [l EXCEPT !.backlog = t] = WithValue(l, l.flag, l.computed, l.ids, t)
BY DEF LaneRecords, WithValue

\* The lanes that are not map-like.
LEMMA ValueWriteKeeps ==
  ASSUME NEW l, LaneSound(l), NEW w \in Entries, NEW v, NEW h \in BOOLEAN, LaneHeld(l, w, v, h),
         kind \in {"value", "demand", "supply", "command"}, NEW x \in WriteToBuffer(l)
  PROVE  WriteKept(x, w, v, h)
<1>1. /\ l \in LaneRecords /\ ValueHeld(l, v, h) /\ ~MapLike /\ (kind = "demand" => l.computed \in {None, l.value})
      /\ l.computed \in Values \cup {None} /\ None \in Values \cup {None} /\ l.backlog \in Seq(Values) /\ FALSE \in BOOLEAN
  BY DEF LaneSound, LaneHeld, MapLike, LaneRecords
<1>2. CASE kind = "value"
  <2>1. x = WriteValue(l)
    BY <1>2 DEF WriteToBuffer
  <2>2. CASE l.ids # <<>>
    <3> DEFINE m == [l EXCEPT !.ids = Tail(l.ids)]
    <3>1. x.lane = m /\ x.out = Answer(l, l.value)
      BY <2>1, <2>2 DEF WriteValue, Written
    <3>2. m = WithValue(l, l.flag, l.computed, Tail(l.ids), l.backlog)
      BY <1>1, ValueChanges
    <3>3. x.out.to = "answer" /\ x.out.id = Head(l.ids) /\ x.out.value = l.value
      BY <3>1 DEF Answer
    <3> QED BY <1>1, <1>2, <2>2, <3>1, <3>2, <3>3, AnswerKeeps
  <2>3. CASE l.ids = <<>> /\ l.flag
    <3>1. x.lane = [l EXCEPT !.flag = FALSE] /\ x.out = [to |-> "value", value |-> l.value]
      BY <2>1, <2>3 DEF WriteValue, Written
    <3>2. x.lane = WithValue(l, FALSE, l.computed, l.ids, l.backlog)
      BY <1>1, <3>1, ValueChanges
    <3>3. x.out.to = "value" /\ x.out.value = l.value
      BY <3>1
    <3> QED BY <1>1, <1>2, <3>2, <3>3, EventKeeps
  <2>4. CASE l.ids = <<>> /\ ~l.flag
    <3>1. x.lane = l /\ x.out.to = "none"
      BY <2>1, <2>4 DEF WriteValue, Nothing, Written
    <3> QED BY <3>1, NothingKeeps
  <2> QED BY <2>2, <2>3, <2>4
<1>3. CASE kind = "demand"
  <2>1. x = WriteDemand(l)
    BY <1>3 DEF WriteToBuffer
  <2>2. CASE l.computed # None /\ l.ids # <<>>
    <3> DEFINE m == [l EXCEPT !.ids = Tail(l.ids)]
    <3>1. x.lane \in {m, [m EXCEPT !.computed = None]} /\ x.out = Answer(l, l.computed)
      BY <2>1, <2>2 DEF WriteDemand, Written
    <3>2. m = WithValue(l, l.flag, l.computed, Tail(l.ids), l.backlog)
          /\ [m EXCEPT !.computed = None] = WithValue(l, l.flag, None, Tail(l.ids), l.backlog)
      BY <1>1, ValueChanges
    <3>3. x.out.to = "answer" /\ x.out.id = Head(l.ids) /\ x.out.value = l.value
      BY <1>1, <1>3, <2>2, <3>1 DEF Answer
    <3> HIDE DEF m
    <3>4. CASE x.lane = WithValue(l, l.flag, l.computed, Tail(l.ids), l.backlog)
      BY <1>1, <1>3, <2>2, <3>3, <3>4, AnswerKeeps
    <3>5. CASE x.lane = WithValue(l, l.flag, None, Tail(l.ids), l.backlog)
      BY <1>1, <1>3, <2>2, <3>3, <3>5, AnswerKeeps
    <3> QED BY <3>1, <3>2, <3>4, <3>5
  <2>3. CASE l.computed # None /\ l.ids = <<>> /\ l.flag
    <3>1. x.lane = [l EXCEPT !.flag = FALSE, !.computed = None] /\ x.out = [to |-> "value", value |-> l.computed]
      BY <2>1, <2>3 DEF WriteDemand, Written
    <3>2. x.lane = WithValue(l, FALSE, None, l.ids, l.backlog)
      BY <1>1, <3>1, ValueChanges
    <3>3. x.out.to = "value" /\ x.out.value = l.value
      BY <1>1, <1>3, <2>3, <3>1
    <3> QED BY <1>1, <1>3, <3>2, <3>3, EventKeeps
  <2>4. CASE l.computed = None \/ (l.ids = <<>> /\ ~l.flag)
    <3>1. x.lane = l /\ x.out.to = "none"
      BY <2>1, <2>4 DEF WriteDemand, Nothing, Written
    <3> QED BY <3>1, NothingKeeps
  <2> QED BY <2>2, <2>3, <2>4
<1>4. CASE kind = "supply"
  <2>1. x = WriteSupply(l)
    BY <1>4 DEF WriteToBuffer
  <2>2. CASE l.ids # <<>>
    <3> DEFINE m == [l EXCEPT !.ids = Tail(l.ids)]
    <3>1. x.lane = m /\ x.out = [to |-> "synced", id |-> Head(l.ids)]
      BY <2>1, <2>2 DEF WriteSupply, Written
    <3>2. m = WithValue(l, l.flag, l.computed, Tail(l.ids), l.backlog)
      BY <1>1, ValueChanges
    <3>3. x.out.to = "synced" /\ x.out.id = Head(l.ids)
      BY <3>1
    <3>4. kind \notin {"value", "demand"} /\ x.lane = WithValue(l, l.flag, l.computed, Tail(l.ids), l.backlog)
      BY <1>4, <3>1, <3>2
    <3> HIDE DEF m
    <3> QED BY <1>1, <2>2, <3>3, <3>4, AnswerKeeps
  <2>3. CASE l.ids = <<>> /\ l.backlog # <<>>
    <3> DEFINE t == Tail(l.backlog)
    <3>1. x.lane = [l EXCEPT !.backlog = t] /\ x.out = [to |-> "value", value |-> Head(l.backlog)]
      BY <2>1, <2>3 DEF WriteSupply, Written
    <3>2. t \in Seq(Values)
      BY <1>1, <2>3
    <3> HIDE DEF t
    <3>3. x.lane = WithValue(l, l.flag, l.computed, l.ids, t)
      BY <1>1, <3>1, ValueChanges
    <3>4. x.out.to = "value" /\ l.flag \in BOOLEAN
      BY <1>1, <3>1 DEF LaneRecords
    <3> QED BY <1>1, <1>4, <3>2, <3>3, <3>4, EventKeeps
  <2>4. CASE l.ids = <<>> /\ l.backlog = <<>>
    <3>1. x.lane = l /\ x.out.to = "empty"
      BY <2>1, <2>4 DEF WriteSupply, Written
    <3> QED BY <3>1, NothingKeeps
  <2> QED BY <2>2, <2>3, <2>4
<1>5. CASE kind = "command"
  <2>1. x = WriteCommand(l)
    BY <1>5 DEF WriteToBuffer
  <2>2. CASE l.flag
    <3>1. x.lane = [l EXCEPT !.flag = FALSE] /\ x.out = [to |-> "value", value |-> l.value]
      BY <2>1, <2>2 DEF WriteCommand, Written
    <3>2. x.lane = WithValue(l, FALSE, l.computed, l.ids, l.backlog)
      BY <1>1, <3>1, ValueChanges
    <3>3. x.out.to = "value"
      BY <3>1
    <3> QED BY <1>1, <1>5, <3>2, <3>3, EventKeeps
  <2>3. CASE ~l.flag
    <3>1. x.lane = l /\ x.out.to = "none"
      BY <2>1, <2>3 DEF WriteCommand, Nothing, Written
    <3> QED BY <3>1, NothingKeeps
  <2> QED BY <2>2, <2>3
<1> QED BY <1>2, <1>3, <1>4, <1>5

\* Any write.
LEMMA WriteKeeps ==
  ASSUME kind \in Kinds, NEW l, LaneSound(l), NEW w \in Entries, NEW v, NEW h \in BOOLEAN, LaneHeld(l, w, v, h),
         NEW x \in WriteToBuffer(l)
  PROVE  WriteKept(x, w, v, h)
<1>1. kind \in {"map", "demandMap", "value", "demand", "supply", "command"}
  BY KindsAssumption
<1>2. ASSUME MapLike, MapKept(x, w, h), x.lane.ids = l.ids, x.out.to \notin {"value", "answer"}
      PROVE  WriteKept(x, w, v, h)
  <2>1. LaneSound(x.lane)
    BY <1>2 DEF MapKept, LaneSound, MapLike
  <2>2. SeenAfter(x.out, v, h) = v /\ ValueHeld(x.lane, v, h)
    BY <1>2 DEF SeenAfter, ValueHeld, LaneHeld, MapLike
  <2> QED BY <1>2, <2>1, <2>2 DEF MapKept, WriteKept, LaneHeld
<1>3. l \in LaneRecords /\ MapSound(l) /\ (MapLike => MapHeld(l, w, h))
  BY DEF LaneSound, LaneHeld
<1>4. CASE kind = "map"
  <2>1. x \in WriteMap(l)
    BY <1>4 DEF WriteToBuffer
  <2>2. MapLike /\ MapKept(x, w, h)
    BY <1>3, <1>4, <2>1, WriteMapKeeps DEF MapLike
  <2>3. x.lane.ids = l.ids /\ x.out.to \notin {"value", "answer"}
    <3>1. PICK p \in PopQueues(l.queues) :
            /\ x.lane = [l EXCEPT !.queues = p.left]
            /\ x.out.to \in {"event", "sync", "again", p.out.to}
      <4>1. PICK p \in PopQueues(l.queues) :
              x = Written([l EXCEPT !.queues = p.left],
                          CASE p.out.to = "event" ->
                                 IF p.out.action.op = "update" /\ l.content[p.out.action.key] = None THEN [to |-> "again"]
                                 ELSE [to |-> "event", key |-> p.out.action.key,
                                       value |-> IF p.out.action.op = "update" THEN l.content[p.out.action.key] ELSE None]
                            [] p.out.to = "sync" ->
                                 IF l.content[p.out.key] = None THEN [to |-> "again"]
                                 ELSE [to |-> "sync", id |-> p.out.id, key |-> p.out.key, value |-> l.content[p.out.key]]
                            [] OTHER -> p.out,
                          ~NoneQueued(p.left))
        BY <2>1 DEF WriteMap
      <4>2. CASE p.out.to = "event"
        BY <4>1, <4>2 DEF Written
      <4>3. CASE p.out.to = "sync"
        BY <4>1, <4>3 DEF Written
      <4>4. CASE p.out.to \notin {"event", "sync"}
        BY <4>1, <4>4 DEF Written
      <4> QED BY <4>2, <4>3, <4>4
    <3>2. Taken(l.queues, p.out, p.left)
      BY <1>3, LanePop
    <3>3. p.out.to \in {"none", "event", "sync", "synced"}
      BY <3>2, TakenIs
    <3> QED BY <1>3, <3>1, <3>3 DEF LaneRecords
  <2> QED BY <1>2, <2>2, <2>3
<1>5. CASE kind = "demandMap"
  <2>1. x = WriteDemandMap(l)
    BY <1>5 DEF WriteToBuffer
  <2>2. MapLike /\ MapKept(x, w, h)
    BY <1>3, <1>5, <2>1, WriteDemandMapKeeps DEF MapLike
  <2>3. x.lane.ids = l.ids /\ (x.out = [to |-> "none"] \/ x.out = l.pending)
    BY <1>3, <2>1 DEF WriteDemandMap, Nothing, Written, LaneRecords
  <2>4. x.out.to \notin {"value", "answer"}
    BY <1>3, <2>3 DEF LaneRecords, Pendings
  <2> QED BY <1>2, <2>2, <2>3, <2>4
<1>6. CASE kind \notin {"map", "demandMap"}
  BY <1>1, <1>6, ValueWriteKeeps
<1> QED BY <1>1, <1>4, <1>5, <1>6

\* A lane that is sound is so in the next state too, if it is the lane there.
LEMMA SoundNext ==
  ASSUME NEW l, LaneSound(l), lane' = l, kind' = kind
  PROVE  LaneSound(lane)'
<1>1. l \in LaneRecords /\ MapSound(l) /\ (kind = "demand" => l.computed \in {None, l.value})
  BY DEF LaneSound
<1>2. MapSound(lane)'
  BY <1>1 DEF MapSound
<1>3. (lane \in LaneRecords)'
  BY <1>1 DEF LaneRecords
<1> QED BY <1>1, <1>2, <1>3 DEF LaneSound

LEMMA HeldNext ==
  ASSUME NEW l, NEW w, NEW v, NEW h \in BOOLEAN, LaneHeld(l, w, v, h),
         lane' = l, view' = w, seen' = v, Listens' = h, kind' = kind
  PROVE  LaneHeld(lane, view, seen, Listens)'
<1>1. (MapLike => MapHeld(l, w, h)) /\ ValueHeld(l, v, h)
  BY DEF LaneHeld
<1>2. MapLike' <=> MapLike
  BY DEF MapLike
<1>3. ValueHeld(lane, seen, Listens)'
  BY <1>1 DEF ValueHeld
<1>4. \A k \in Keys : Coming(lane, k)' <=> Coming(l, k)
  BY DEF Coming
<1>5. UnderWay(lane)' <=> UnderWay(l)
  BY DEF UnderWay
<1>6. MapLike => MapHeld(lane, view, Listens)'
  BY <1>1, <1>4, <1>5 DEF MapHeld
<1> QED BY <1>2, <1>3, <1>6 DEF LaneHeld

\* A step to a lane that is sound.
LEMMA StepKeeps ==
  ASSUME LaneIInv, kind' = kind, NEW l, LaneSound(l), NEW w \in Entries, NEW v, NEW h \in BOOLEAN, LaneHeld(l, w, v, h),
         lane' = l, view' = w, seen' = v, Listens' = h, dirty' \in BOOLEAN,
         writer' \in {"idle", "busy", "busyEvent", "lost"}, writer' = "busyEvent" => kind = "demandMap",
         phase' \in {"select", "handler", "done", "stopped"},
         status' \in [Remotes -> {"none", "syncing", "synced"}]
  PROVE  LaneIInv'
<1>1. LaneSound(lane)'
  BY SoundNext
<1>2. LaneHeld(lane, view, seen, Listens)'
  BY HeldNext
<1> QED BY <1>1, <1>2 DEF LaneIInv

\* The end of a turn keeps the invariant, if the handlers have.
LEMMA EndTurnKeeps ==
  ASSUME LaneIInv, NEW l, LaneSound(l), LaneHeld(l, view, seen, Listens), NEW d \in BOOLEAN,
         NEW w \in {"idle", "busy", "busyEvent", "lost"}, w = "busyEvent" => kind = "demandMap", EndTurn(l, d, w)
  PROVE  LaneIInv'
<1>1. /\ kind' = kind /\ kind \in Kinds /\ view \in Entries /\ Listens \in BOOLEAN
      /\ status \in [Remotes -> {"none", "syncing", "synced"}]
  BY DEF EndTurn, LaneIInv, Listens
<1>2. CASE d /\ w = "idle"
  <2>1. PICK x \in WriteToBuffer(l) :
          /\ lane' = x.lane
          /\ Deliver(x.out)
          /\ phase' = IF x.out.to = "again" THEN "done" ELSE "select"
          /\ dirty' = StillDirty(x)
          /\ writer' = CASE x.out.to = "none" -> "lost"
                         [] x.out.to = "again" -> "idle"
                         [] OTHER -> IF x.more /\ kind = "demandMap" THEN "busyEvent" ELSE "busy"
    BY <1>2 DEF EndTurn
  <2>2. WriteKept(x, view, seen, Listens)
    BY <1>1, WriteKeeps
  <2>3. view' = ViewAfter(x.out, view, Listens)
    BY <2>1 DEF Deliver, ViewAfter
  <2>4. seen' = SeenAfter(x.out, seen, Listens)
    BY <2>1 DEF Deliver, SeenAfter
  <2>5. status' = [r \in Remotes |-> IF x.out.to \in {"synced", "answer"} /\ x.out.id = r THEN "synced" ELSE status[r]]
    BY <2>1 DEF Deliver
  <2>6. status' \in [Remotes -> {"none", "syncing", "synced"}]
    BY <1>1, <2>5
  <2>7. Listens' = Listens
    <3>1. status'[Observed] = IF Ends(x.out) THEN "synced" ELSE status[Observed]
      BY <2>5, ObservedAssumption DEF Ends
    <3>2. Ends(x.out) => Listens
      BY <2>2 DEF WriteKept
    <3> QED BY <3>1, <3>2 DEF Listens
  <2>8. dirty' \in BOOLEAN
    BY <2>1 DEF StillDirty
  <2>9. writer' \in {"idle", "busy", "busyEvent", "lost"} /\ (writer' = "busyEvent" => kind = "demandMap")
    BY <2>1
  <2>10. phase' \in {"select", "handler", "done", "stopped"}
    BY <2>1
  <2> DEFINE u == ViewAfter(x.out, view, Listens)
             v == SeenAfter(x.out, seen, Listens)
  <2>11. LaneSound(x.lane) /\ u \in Entries /\ LaneHeld(x.lane, u, v, Listens)
    BY <2>2 DEF WriteKept
  <2> HIDE DEF u, v
  <2>12. view' = u /\ seen' = v
    BY <2>3, <2>4 DEF u, v
  <2>13. lane' = x.lane
    BY <2>1
  <2> QED BY <1>1, <2>6, <2>7, <2>8, <2>9, <2>10, <2>11, <2>12, <2>13, StepKeeps
<1>3. CASE ~(d /\ w = "idle")
  <2>1. /\ phase' = "select" /\ lane' = l /\ dirty' = d /\ writer' = w
        /\ view' = view /\ seen' = seen /\ status' = status
    BY <1>3 DEF EndTurn, remoteVars
  <2>2. Listens' = Listens
    BY <2>1 DEF Listens
  <2> QED BY <1>1, <2>1, <2>2, StepKeeps
<1> QED BY <1>2, <1>3

\* A step of a handler keeps it, if what it does to the lane does.
LEMMA MarksKeeps ==
  ASSUME LaneIInv, NEW l, LaneSound(l), LaneHeld(l, view, seen, Listens), Marks(l)
  PROVE  LaneIInv'
<1>1. /\ kind' = kind /\ lane' = l /\ dirty' = TRUE /\ writer' = writer /\ phase' = phase
      /\ view' = view /\ seen' = seen /\ status' = status
  BY DEF Marks, remoteVars
<1>2. /\ view \in Entries /\ Listens \in BOOLEAN /\ status \in [Remotes -> {"none", "syncing", "synced"}]
      /\ writer \in {"idle", "busy", "busyEvent", "lost"} /\ phase \in {"select", "handler", "done", "stopped"}
      /\ writer = "busyEvent" => kind = "demandMap"
  BY DEF LaneIInv, Listens
<1>3. Listens' = Listens
  BY <1>1 DEF Listens
<1> QED BY <1>1, <1>2, <1>3, StepKeeps

\* A change of the part for the map.
LEMMA MapStepKeeps ==
  ASSUME NEW l, NEW w, NEW v, NEW h \in BOOLEAN, NEW g \in BOOLEAN, LaneHeld(l, w, v, h), MapLike, h => g,
         NEW m \in LaneRecords, MapSound(m), MapHeld(m, w, g), m.ids = l.ids
  PROVE  LaneSound(m) /\ LaneHeld(m, w, v, g)
<1>1. kind \notin {"value", "demand"}
  BY DEF MapLike
<1> QED BY <1>1 DEF LaneSound, LaneHeld, ValueHeld

\* A change of an entry of a map-like lane.
LEMMA LaneChangeKeeps ==
  ASSUME LaneIInv, MapLike, NEW k \in Keys, NEW v \in Contents, NEW a \in Actions, a.key = k,
         kind # "demandMap" => (a.op = "update" => v # None) /\ (a.op = "remove" => v = None)
  PROVE  LET m == WithEntry(lane, k, v, a)
         IN  m \in LaneRecords /\ LaneSound(m) /\ LaneHeld(m, view, seen, Listens) /\ MapSound(m) /\ MapHeld(m, view, Listens)
<1> DEFINE m == WithEntry(lane, k, v, a)
<1>1. /\ lane \in LaneRecords /\ MapSound(lane) /\ MapHeld(lane, view, Listens) /\ view \in Entries /\ Listens \in BOOLEAN
      /\ LaneHeld(lane, view, seen, Listens)
  BY DEF LaneIInv, LaneSound, LaneHeld, Listens
<1>2. m \in LaneRecords /\ MapSound(m) /\ MapHeld(m, view, Listens) /\ m.ids = lane.ids
  BY <1>1, ChangeKeeps
<1> HIDE DEF m
<1>3. LaneSound(m) /\ LaneHeld(m, view, seen, Listens)
  BY <1>1, <1>2, MapStepKeeps
<1> QED BY <1>2, <1>3 DEF m

LEMMA ChangesKeeps ==
  ASSUME LaneIInv, kind = "map", NEW k \in Keys, NEW v \in Contents
  PROVE  LaneSound(Changes(k, v)) /\ LaneHeld(Changes(k, v), view, seen, Listens)
<1> DEFINE a == IF v = None THEN Removed(k) ELSE Changed(k)
<1>1. a \in Actions /\ a.key = k /\ (a.op = "update" => v # None) /\ (a.op = "remove" => v = None)
  BY DEF Actions, Removed, Changed
<1>2. Changes(k, v) = WithEntry(lane, k, v, a)
  BY DEF Changes, WithEntry
<1> HIDE DEF a
<1>3. MapLike
  BY DEF MapLike
<1> QED BY <1>1, <1>2, <1>3, LaneChangeKeeps

\* A handler of a demand-map lane.
LEMMA LaneHandlerKeeps ==
  ASSUME NEW l \in LaneRecords, MapSound(l), NEW w \in Entries, NEW v, NEW h \in BOOLEAN, LaneHeld(l, w, v, h),
         kind = "demandMap", NEW m \in DemandMapHandler(l)
  PROVE  LaneSound(m) /\ LaneHeld(m, w, v, h)
<1>1. MapLike /\ MapHeld(l, w, h)
  BY DEF MapLike, LaneHeld
<1>2. m \in LaneRecords /\ MapSound(m) /\ MapHeld(m, w, h) /\ m.ids = l.ids
  BY <1>1, DemandMapHandlerKeeps
<1> QED BY <1>1, <1>2, MapStepKeeps

LEMMA CueKeyKeeps ==
  ASSUME LaneIInv, NEW k \in Keys, NEW v \in Contents, CueKey(k, v)
  PROVE  LaneIInv'
<1>1. kind = "demandMap" /\ MapLike /\ Changed(k) \in Actions /\ Changed(k).key = k
  BY DEF CueKey, MapLike, Changed, Actions
<1> DEFINE l == WithEntry(lane, k, v, Changed(k))
<1>2. l \in LaneRecords /\ LaneHeld(l, view, seen, Listens) /\ MapSound(l)
  BY <1>1, LaneChangeKeeps
<1>3. PICK m \in DemandMapHandler(l) : Marks(m)
  BY DEF CueKey, WithEntry
<1> HIDE DEF l
<1>4. view \in Entries /\ Listens \in BOOLEAN
  BY DEF LaneIInv, Listens
<1>5. LaneSound(m) /\ LaneHeld(m, view, seen, Listens)
  BY <1>1, <1>2, <1>4, LaneHandlerKeeps
<1> QED BY <1>3, <1>5, MarksKeeps

LEMMA MapLaneClearKeeps ==
  ASSUME LaneIInv, MapLaneClear
  PROVE  LaneIInv'
<1> DEFINE m == [lane EXCEPT !.content = [k \in Keys |-> None], !.queues = Push(@, Cleared)]
<1>1. /\ lane \in LaneRecords /\ MapSound(lane) /\ view \in Entries /\ Listens \in BOOLEAN
      /\ LaneHeld(lane, view, seen, Listens) /\ kind = "map" /\ Marks(m)
  BY DEF LaneIInv, LaneSound, Listens, MapLaneClear
<1>2. MapLike /\ MapHeld(lane, view, Listens)
  BY <1>1 DEF LaneHeld, MapLike
<1>3. m \in LaneRecords /\ MapSound(m) /\ MapHeld(m, view, Listens) /\ m.ids = lane.ids
  BY <1>1, <1>2, ClearKeeps
<1> HIDE DEF m
<1>4. LaneSound(m) /\ LaneHeld(m, view, seen, Listens)
  BY <1>1, <1>2, <1>3, MapStepKeeps
<1> QED BY <1>1, <1>4, MarksKeeps

\* A handler that sets the value of a lane, or adds to it.
LEMMA SetKeeps ==
  ASSUME LaneIInv, ~MapLike, NEW m \in LaneRecords, SameMap(lane, m), m.ids = lane.ids,
         m.flag \/ kind \notin {"value", "demand"}, kind = "demand" => m.computed = m.value, Marks(m)
  PROVE  LaneIInv'
<1>1. MapSound(lane) /\ ValueHeld(lane, seen, Listens)
  BY DEF LaneIInv, LaneSound, LaneHeld
<1>2. LaneSound(m)
  BY <1>1, SameMapKeeps DEF LaneSound
<1>3. LaneHeld(m, view, seen, Listens)
  BY <1>1 DEF LaneHeld, ValueHeld
<1> QED BY <1>2, <1>3, MarksKeeps

LEMMA SetsKeep ==
  ASSUME LaneIInv, NEW v \in Values, ValueLaneSet(v) \/ DoCommand(v) \/ Cue(v) \/ Supply(v)
  PROVE  LaneIInv'
<1>1. lane \in LaneRecords
  BY DEF LaneIInv, LaneSound
<1> DEFINE m == [lane EXCEPT !.value = v, !.flag = TRUE]
<1>2. m \in LaneRecords /\ SameMap(lane, m) /\ m.ids = lane.ids /\ m.flag
  BY <1>1 DEF LaneRecords, SameMap
<1>3. CASE ValueLaneSet(v) \/ DoCommand(v)
  <2>1. kind \in {"value", "command"} /\ Marks(m)
    BY <1>3 DEF ValueLaneSet, DoCommand
  <2> HIDE DEF m
  <2>2. ~MapLike /\ kind # "demand"
    BY <2>1 DEF MapLike
  <2> QED BY <1>2, <2>1, <2>2, SetKeeps
<1>4. CASE Cue(v)
  <2> DEFINE n == Computed(m)
  <2>1. kind = "demand" /\ Marks(n)
    BY <1>4 DEF Cue
  <2>2. n \in LaneRecords /\ SameMap(lane, n) /\ n.ids = lane.ids /\ n.flag /\ n.computed = n.value
    BY <1>1 DEF LaneRecords, SameMap, Computed
  <2> HIDE DEF n
  <2>3. ~MapLike
    BY <2>1 DEF MapLike
  <2> QED BY <2>1, <2>2, <2>3, SetKeeps
<1>5. CASE Supply(v)
  <2> DEFINE n == [lane EXCEPT !.backlog = Append(@, v)]
  <2>1. kind = "supply" /\ Marks(n)
    BY <1>5 DEF Supply
  <2>2. n \in LaneRecords /\ SameMap(lane, n) /\ n.ids = lane.ids
    <3>1. lane.backlog \in Seq(Values)
      BY <1>1 DEF LaneRecords
    <3>2. Append(lane.backlog, v) \in Seq(Values)
      BY <3>1
    <3> QED BY <1>1, <3>2 DEF LaneRecords, SameMap
  <2> HIDE DEF n
  <2>3. ~MapLike /\ kind \notin {"value", "demand"}
    BY <2>1 DEF MapLike
  <2> QED BY <2>1, <2>2, <2>3, SetKeeps
<1> QED BY <1>3, <1>4, <1>5

\* What a sequence has, with one more.
LEMMA WithLast ==
  ASSUME NEW S, NEW s \in Seq(S), NEW r \in S
  PROVE  Append(s, r) \in Seq(S) /\ ToSet(Append(s, r)) = ToSet(s) \cup {r}
<1>1. /\ Len(s) \in Nat /\ DOMAIN s = 1..Len(s) /\ Append(s, r) \in Seq(S)
      /\ DOMAIN Append(s, r) = 1..(Len(s) + 1) /\ Append(s, r)[Len(s) + 1] = r
      /\ \A i \in 1..Len(s) : Append(s, r)[i] = s[i]
  OBVIOUS
<1>2. /\ ToSet(s) = {s[i] : i \in 1..Len(s)}
      /\ ToSet(Append(s, r)) = {Append(s, r)[i] : i \in 1..(Len(s) + 1)}
  BY <1>1 DEF ToSet
<1> QED BY <1>1, <1>2

\* A request of a sync, of a lane that is not map-like.
LEMMA ValueSyncKeeps ==
  ASSUME LaneIInv, ~MapLike, NEW r \in Remotes, NEW m,
         m = [lane EXCEPT !.ids = Append(@, r)] \/ m = [lane EXCEPT !.ids = Append(@, r), !.computed = lane.value],
         kind = "demand" => m.computed = lane.value
  PROVE  LaneSound(m) /\ LaneHeld(m, view, seen, Listens \/ r = Observed)
<1>1. lane \in LaneRecords /\ MapSound(lane) /\ ValueHeld(lane, seen, Listens) /\ lane.ids \in Seq(Remotes)
  BY DEF LaneIInv, LaneSound, LaneHeld, LaneRecords
<1> DEFINE ids == Append(lane.ids, r)
<1>2. ids \in Seq(Remotes) /\ ToSet(ids) = ToSet(lane.ids) \cup {r}
  BY <1>1, WithLast
<1>3. m = [lane EXCEPT !.ids = ids] \/ m = [lane EXCEPT !.ids = ids, !.computed = lane.value]
  OBVIOUS
<1> HIDE DEF ids
<1>4. m \in LaneRecords /\ SameMap(lane, m) /\ m.ids = ids /\ m.value = lane.value /\ m.flag = lane.flag
  BY <1>1, <1>2, <1>3 DEF LaneRecords, SameMap
<1>5. LaneSound(m)
  BY <1>1, <1>4, SameMapKeeps DEF LaneSound
<1>6. ValueHeld(m, seen, Listens \/ r = Observed)
  BY <1>1, <1>2, <1>4 DEF ValueHeld
<1> QED BY <1>5, <1>6 DEF LaneHeld

\* Of a map lane.
LEMMA MapSyncKeeps ==
  ASSUME LaneIInv, kind = "map", NEW r \in Remotes
  PROVE  LET m == [lane EXCEPT !.queues = PushSyncs(@, <<r>>, KeysOf(lane))]
         IN  LaneSound(m) /\ LaneHeld(m, view, seen, Listens \/ r = Observed)
<1>1. /\ lane \in LaneRecords /\ MapSound(lane) /\ view \in Entries /\ Listens \in BOOLEAN
      /\ LaneHeld(lane, view, seen, Listens)
  BY DEF LaneIInv, LaneSound, Listens
<1>2. MapLike /\ MapHeld(lane, view, Listens)
  BY <1>1 DEF LaneHeld, MapLike
<1> DEFINE ids == <<r>>
           s == PushSyncs(lane.queues, ids, KeysOf(lane))
           m == WithMap(lane, s, lane.pending, lane.requests)
           g == Listens \/ r = Observed
<1>3. ids \in Seq(Remotes) /\ {ids[i] : i \in DOMAIN ids} = {r}
  OBVIOUS
<1>4. [lane EXCEPT !.queues = PushSyncs(@, <<r>>, KeysOf(lane))] = m
  BY <1>1 DEF WithMap, LaneRecords
<1> HIDE DEF ids
<1>5. m \in LaneRecords /\ MapSound(m) /\ MapHeld(m, view, Listens \/ Observed \in {r})
  <2>1. lane.requests \in SUBSET lane.requests /\ lane.requests \subseteq lane.requests \cup {ids[i] : i \in DOMAIN ids}
    OBVIOUS
  <2>2. m \in LaneRecords /\ MapSound(m) /\ MapHeld(m, view, Listens \/ Observed \in {ids[i] : i \in DOMAIN ids})
    BY <1>1, <1>2, <1>3, <2>1, SyncsKeep
  <2> QED BY <1>3, <2>2
<1>6. lane.queues \in QueueRecords /\ QueuesSound(lane.queues) /\ KeysOf(lane) \in SUBSET Keys
  BY <1>1 DEF LaneRecords, MapSound, KeysOf
<1>7. s \in QueueRecords
  BY <1>3, <1>6, PushSyncsSound
<1>8. lane.pending \in Pendings /\ lane.requests \in SUBSET Remotes
  BY <1>1 DEF LaneRecords
<1> HIDE DEF s
<1>9. m.ids = lane.ids
  BY <1>1, <1>7, <1>8, WithMapIs
<1>10. MapHeld(m, view, g) /\ g \in BOOLEAN /\ (Listens => g)
  <2>1. (Listens \/ Observed \in {r}) = g
    OBVIOUS
  <2> QED BY <1>5, <2>1
<1> HIDE DEF m, g
<1>11. LaneSound(m) /\ LaneHeld(m, view, seen, g)
  BY <1>1, <1>2, <1>5, <1>9, <1>10, MapStepKeeps
<1> QED BY <1>4, <1>11 DEF g, ids

\* Of a demand-map lane.
LEMMA RequestKeeps ==
  ASSUME LaneIInv, kind = "demandMap", NEW r \in Remotes
  PROVE  LET m == [lane EXCEPT !.requests = @ \cup {r}]
         IN  m \in LaneRecords /\ MapSound(m) /\ LaneHeld(m, view, seen, Listens \/ r = Observed)
<1>1. /\ lane \in LaneRecords /\ MapSound(lane) /\ view \in Entries /\ Listens \in BOOLEAN
      /\ LaneHeld(lane, view, seen, Listens)
  BY DEF LaneIInv, LaneSound, Listens
<1>2. MapLike /\ MapHeld(lane, view, Listens)
  BY <1>1 DEF LaneHeld, MapLike
<1> DEFINE m == WithMap(lane, lane.queues, lane.pending, lane.requests \cup {r})
           g == Listens \/ r = Observed
<1>3. [lane EXCEPT !.requests = @ \cup {r}] = m
  BY <1>1 DEF WithMap, LaneRecords
<1>4. lane.queues \in QueueRecords /\ lane.pending \in Pendings /\ lane.requests \cup {r} \in SUBSET Remotes
  BY <1>1 DEF LaneRecords
<1>5. /\ m \in LaneRecords /\ m.queues = lane.queues /\ m.pending = lane.pending
      /\ m.requests = lane.requests \cup {r} /\ m.content = lane.content /\ m.ids = lane.ids
  BY <1>1, <1>4, WithMapIs
<1> HIDE DEF m
<1>6. MapSound(m)
  BY <1>1, <1>5 DEF MapSound
<1>7. \A k \in Keys : Coming(lane, k) => Coming(m, k)
  BY <1>5 DEF Coming
<1>8. r = Observed => \A k \in Keys : m.content[k] # None => Coming(m, k)
  BY <1>5 DEF Coming
<1>9. MapHeld(m, view, g)
  <2>1. CASE Listens
    BY <1>2, <1>5, <1>7, <2>1 DEF MapHeld
  <2>2. CASE ~Listens /\ r = Observed
    BY <1>2, <1>8, <2>2 DEF MapHeld
  <2>3. CASE ~Listens /\ r # Observed
    BY <1>2, <1>5, <2>3 DEF MapHeld, UnderWay
  <2> QED BY <2>1, <2>2, <2>3
<1> HIDE DEF g
<1>10. g \in BOOLEAN /\ (Listens => g)
  BY DEF g
<1>11. LaneHeld(m, view, seen, g)
  BY <1>1, <1>2, <1>5, <1>6, <1>9, <1>10, MapStepKeeps
<1> QED BY <1>3, <1>5, <1>6, <1>11 DEF g

\* A request of a sync.
LEMMA SyncRequestKeeps ==
  ASSUME LaneIInv, NEW r \in Remotes, SyncRequest(r)
  PROVE  LaneIInv'
<1> DEFINE g == Listens \/ r = Observed
<1>1. PICK l \in
        CASE kind = "map" ->
               {[lane EXCEPT !.queues = PushSyncs(@, <<r>>, KeysOf(lane))]}
          [] kind = "demandMap" -> DemandMapHandler([lane EXCEPT !.requests = @ \cup {r}])
          [] kind = "demand" -> {Computed([lane EXCEPT !.ids = Append(@, r)])}
          [] OTHER -> {[lane EXCEPT !.ids = Append(@, r)]} :
        lane' = l
  BY DEF SyncRequest
<1>2. /\ status' = [status EXCEPT ![r] = "syncing"] /\ dirty' = TRUE /\ phase' = "done"
      /\ kind' = kind /\ writer' = writer /\ view' = view /\ seen' = seen
  BY DEF SyncRequest
<1>3. /\ view \in Entries /\ Listens \in BOOLEAN /\ status \in [Remotes -> {"none", "syncing", "synced"}]
      /\ writer \in {"idle", "busy", "busyEvent", "lost"} /\ (writer = "busyEvent" => kind = "demandMap")
      /\ lane \in LaneRecords
  BY DEF LaneIInv, LaneSound, Listens
<1>4. g \in BOOLEAN /\ Listens' = g
  BY <1>2, <1>3, ObservedAssumption DEF Listens
<1>5. LaneSound(l) /\ LaneHeld(l, view, seen, g)
  <2>1. CASE kind = "map"
    <3>1. l = [lane EXCEPT !.queues = PushSyncs(@, <<r>>, KeysOf(lane))]
      BY <1>1, <2>1
    <3> QED BY <2>1, <3>1, MapSyncKeeps
  <2>2. CASE kind = "demandMap"
    <3> DEFINE m == [lane EXCEPT !.requests = @ \cup {r}]
    <3>1. l \in DemandMapHandler(m)
      BY <1>1, <2>2
    <3>2. m \in LaneRecords /\ MapSound(m) /\ LaneHeld(m, view, seen, g)
      BY <2>2, RequestKeeps
    <3> HIDE DEF m, g
    <3> QED BY <1>3, <1>4, <2>2, <3>1, <3>2, LaneHandlerKeeps
  <2>3. CASE kind = "demand"
    <3>1. l = Computed([lane EXCEPT !.ids = Append(@, r)])
      BY <1>1, <2>3
    <3>2. l = [lane EXCEPT !.ids = Append(@, r), !.computed = lane.value] /\ l.computed = lane.value
      BY <1>3, <3>1 DEF Computed, LaneRecords
    <3> QED BY <2>3, <3>2, ValueSyncKeeps DEF MapLike
  <2>4. CASE kind \notin {"map", "demandMap", "demand"}
    <3>1. l = [lane EXCEPT !.ids = Append(@, r)]
      BY <1>1, <2>4
    <3> QED BY <2>4, <3>1, ValueSyncKeeps DEF MapLike
  <2> QED BY <2>1, <2>2, <2>3, <2>4
<1> HIDE DEF g
<1>6. status' \in [Remotes -> {"none", "syncing", "synced"}]
  BY <1>2, <1>3
<1> QED BY <1>1, <1>2, <1>3, <1>4, <1>5, <1>6, StepKeeps

\* The writer is back.
LEMMA WriteCompleteKeeps ==
  ASSUME LaneIInv, WriteComplete
  PROVE  LaneIInv'
<1>1. /\ view \in Entries /\ Listens \in BOOLEAN /\ dirty \in BOOLEAN /\ lane \in LaneRecords /\ MapSound(lane)
      /\ LaneSound(lane) /\ LaneHeld(lane, view, seen, Listens) /\ (writer = "busyEvent" => kind = "demandMap")
  BY DEF LaneIInv, LaneSound, Listens
<1>2. CASE writer = "busy" /\ EndTurn(lane, dirty, "idle")
  BY <1>1, <1>2, EndTurnKeeps
<1>3. ASSUME writer = "busyEvent", NEW l \in DemandMapHandler(lane),
             EndTurn(l, dirty \/ (l.pending.to # "none" /\ lane.pending.to = "none"), "idle")
      PROVE  LaneIInv'
  <2> DEFINE d == dirty \/ (l.pending.to # "none" /\ lane.pending.to = "none")
  <2>1. LaneSound(l) /\ LaneHeld(l, view, seen, Listens)
    BY <1>1, <1>3, LaneHandlerKeeps
  <2>2. d \in BOOLEAN /\ EndTurn(l, d, "idle")
    BY <1>3
  <2> HIDE DEF d
  <2> QED BY <2>1, <2>2, EndTurnKeeps
<1> QED BY <1>2, <1>3 DEF WriteComplete

\* A lane that has just been made is sound.
LEMMA NewLaneSound ==
  LaneSound(NewLane) /\ LaneHeld(NewLane, [k \in Keys |-> None], None, FALSE)
<1> DEFINE q == EmptyQueues
<1>1. /\ q.events = <<>> /\ q.syncs = <<>> /\ q.index = 0 /\ \A k \in Keys : q.epochs[k] = None
      /\ q = [events |-> <<>>, head |-> 0, epochs |-> [k \in Keys |-> None], syncs |-> <<>>, index |-> 0, next |-> "event"]
  BY DEF EmptyQueues
<1>2. q \in QueueRecords
  <2>1. 0 \in 0..(W - 1)
    BY SomeEpoch
  <2>2. <<>> \in Seq(Actions) /\ <<>> \in Seq(SyncQueues)
    OBVIOUS
  <2> QED BY <1>1, <2>1, <2>2 DEF QueueRecords
<1> HIDE DEF q
<1>3. /\ DOMAIN q.events = {} /\ DOMAIN q.syncs = {}
  BY <1>1
<1>4. QueuesSound(q)
  BY <1>1, <1>3 DEF QueuesSound, QueuesOK
<1>5. Reported(q) = {} /\ Queued(q) = {} /\ Syncing(q) = {} /\ \A id : ToSync(q, id) = {}
  BY <1>3 DEF Reported, Queued, Syncing, ToSync
<1>6. /\ NewLane.queues = q /\ NewLane.content = [k \in Keys |-> None] /\ NewLane.pending = [to |-> "none"]
      /\ NewLane.requests = {} /\ NewLane.value = Initial /\ NewLane.flag = FALSE /\ NewLane.computed = None
      /\ NewLane.ids = <<>> /\ NewLane.backlog = <<>>
  BY DEF NewLane, q
<1>7. NewLane \in LaneRecords
  <2>1. /\ [k \in Keys |-> None] \in Entries /\ [to |-> "none"] \in Pendings /\ {} \in SUBSET Remotes
        /\ Initial \in Values /\ FALSE \in BOOLEAN /\ None \in Values \cup {None}
        /\ <<>> \in Seq(Remotes) /\ <<>> \in Seq(Values)
    BY ValuesAssumption DEF Entries, Pendings
  <2> QED BY <1>2, <2>1 DEF LaneRecords, NewLane, q
<1>8. MapSound(NewLane)
  BY <1>4, <1>5, <1>6 DEF MapSound
<1>9. LaneSound(NewLane)
  BY <1>6, <1>7, <1>8 DEF LaneSound
<1>10. MapHeld(NewLane, [k \in Keys |-> None], FALSE)
  BY <1>5, <1>6 DEF MapHeld, UnderWay
<1>11. ValueHeld(NewLane, None, FALSE)
  BY <1>6 DEF ValueHeld, ToSet
<1> QED BY <1>9, <1>10, <1>11 DEF LaneHeld

LEMMA LaneInit == TaskInit => LaneIInv
<1> SUFFICES ASSUME TaskInit PROVE LaneIInv
  OBVIOUS
<1>1. /\ lane = NewLane /\ view = [k \in Keys |-> None] /\ seen = None /\ status = [r \in Remotes |-> "none"]
      /\ kind \in Kinds /\ phase = "select" /\ dirty = FALSE /\ writer = "idle"
  BY DEF TaskInit
<1>2. Listens = FALSE
  BY <1>1, ObservedAssumption DEF Listens
<1>3. view \in Entries
  BY <1>1 DEF Entries
<1> QED BY <1>1, <1>2, <1>3, NewLaneSound DEF LaneIInv

LEMMA LaneStep == LaneIInv /\ [TaskNext]_taskVars => LaneIInv'
<1> SUFFICES ASSUME LaneIInv, [TaskNext]_taskVars PROVE LaneIInv'
  OBVIOUS
<1>1. /\ view \in Entries /\ Listens \in BOOLEAN /\ dirty \in BOOLEAN /\ lane \in LaneRecords
      /\ LaneSound(lane) /\ LaneHeld(lane, view, seen, Listens)
      /\ writer \in {"idle", "busy", "busyEvent", "lost"} /\ (writer = "busyEvent" => kind = "demandMap")
      /\ phase \in {"select", "handler", "done", "stopped"}
      /\ status \in [Remotes -> {"none", "syncing", "synced"}]
  BY DEF LaneIInv, LaneSound, Listens
<1>2. CASE BeginHandler
  <2>1. /\ kind' = kind /\ lane' = lane /\ dirty' = dirty /\ writer' = writer /\ phase' = "handler"
        /\ view' = view /\ seen' = seen /\ status' = status
    BY <1>2 DEF BeginHandler, remoteVars
  <2>2. Listens' = Listens
    BY <2>1 DEF Listens
  <2> QED BY <1>1, <2>1, <2>2, StepKeeps
<1>3. CASE EndHandler
  BY <1>1, <1>3, EndTurnKeeps DEF EndHandler
<1>4. CASE WriteComplete
  BY <1>4, WriteCompleteKeeps
<1>5. CASE Stop
  <2> DEFINE w == [k \in Keys |-> None]
  <2>1. /\ kind' = kind /\ lane' = NewLane /\ dirty' = FALSE /\ writer' = "idle" /\ phase' = "stopped"
        /\ view' = w /\ seen' = None /\ status' = [r \in Remotes |-> "none"]
    BY <1>5 DEF Stop
  <2>2. Listens' = FALSE
    BY <2>1, ObservedAssumption DEF Listens
  <2>3. w \in Entries /\ LaneSound(NewLane) /\ LaneHeld(NewLane, w, None, FALSE)
    BY NewLaneSound DEF Entries
  <2>4. status' \in [Remotes -> {"none", "syncing", "synced"}]
    BY <2>1
  <2> HIDE DEF w
  <2> QED BY <2>1, <2>2, <2>3, <2>4, StepKeeps
<1>6. CASE MapLaneClear
  BY <1>6, MapLaneClearKeeps
<1>7. ASSUME NEW k \in Keys, MapLaneRemove(k)
      PROVE  LaneIInv'
  <2>1. CASE lane.content[k] = None
    BY <1>1, <1>7, <2>1, MarksKeeps DEF MapLaneRemove
  <2>2. CASE lane.content[k] # None
    <3>1. kind = "map" /\ Marks(Changes(k, None)) /\ None \in Contents
      BY <1>7, <2>2 DEF MapLaneRemove, Contents
    <3> QED BY <3>1, ChangesKeeps, MarksKeeps
  <2> QED BY <2>1, <2>2
<1>8. ASSUME NEW k \in Keys, NEW v \in MapValues, MapLaneUpdate(k, v)
      PROVE  LaneIInv'
  <2>1. kind = "map" /\ Marks(Changes(k, v)) /\ v \in Contents
    BY <1>8 DEF MapLaneUpdate, Contents
  <2> QED BY <2>1, ChangesKeeps, MarksKeeps
<1>9. ASSUME NEW k \in Keys, NEW v \in MapValues \cup {None}, MapLaneTransformEntry(k, v)
      PROVE  LaneIInv'
  <2>1. kind = "map" /\ Marks(Changes(k, v)) /\ v \in Contents
    BY <1>9 DEF MapLaneTransformEntry, Contents
  <2> QED BY <2>1, ChangesKeeps, MarksKeeps
<1>10. ASSUME NEW k \in Keys, NEW v \in MapValues \cup {None}, CueKey(k, v)
       PROVE  LaneIInv'
  BY <1>10, CueKeyKeeps DEF Contents
<1>11. ASSUME NEW v \in Values, ValueLaneSet(v) \/ DoCommand(v) \/ Cue(v) \/ Supply(v)
       PROVE  LaneIInv'
  BY <1>11, SetsKeep
<1>12. ASSUME NEW r \in Remotes, SyncRequest(r)
       PROVE  LaneIInv'
  BY <1>12, SyncRequestKeeps
<1>13. CASE UNCHANGED taskVars
  <2>1. /\ kind' = kind /\ lane' = lane /\ dirty' = dirty /\ writer' = writer /\ phase' = phase
        /\ view' = view /\ seen' = seen /\ status' = status
    BY <1>13 DEF taskVars
  <2>2. Listens' = Listens
    BY <2>1 DEF Listens
  <2> QED BY <1>1, <2>1, <2>2, StepKeeps
<1> QED BY <1>2, <1>3, <1>4, <1>5, <1>6, <1>7, <1>8, <1>9, <1>10, <1>11, <1>12, <1>13 DEF TaskNext

\* The remote has what the lane has, but for what is to come.
LEMMA LaneHolds == LaneIInv => LaneInv
<1> SUFFICES ASSUME LaneIInv PROVE LaneInv
  OBVIOUS
<1>1. /\ lane \in LaneRecords /\ MapSound(lane) /\ ValueHeld(lane, seen, Listens)
      /\ MapLike => MapHeld(lane, view, Listens)
  BY DEF LaneIInv, LaneSound, LaneHeld
<1>2. TaskTypeOK
  BY <1>1 DEF LaneIInv, TaskTypeOK, LaneRecords, MapSound, QueuesSound
<1>3. ASSUME Listens, MapLike, NEW k \in Keys,
             ~(\/ k \in Reported(lane.queues) \/ k \in ToSync(lane.queues, Observed)
               \/ Observed \in lane.requests
               \/ lane.pending.to \in {"event", "sync"} /\ lane.pending.key = k)
      PROVE  IF None \in Reported(lane.queues) THEN lane.content[k] = None ELSE view[k] = lane.content[k]
  <2>1. ~Coming(lane, k)
    BY <1>3 DEF Coming
  <2>2. CASE None \in Reported(lane.queues)
    BY <1>1, <1>3, <2>2 DEF MapSound
  <2>3. CASE None \notin Reported(lane.queues)
    BY <1>1, <1>3, <2>1, <2>3 DEF MapHeld
  <2> QED BY <2>2, <2>3
<1>4. Listens /\ kind \in {"value", "demand"} /\ ~lane.flag /\ Observed \notin ToSet(lane.ids) => seen = lane.value
  BY <1>1 DEF ValueHeld
<1> QED BY <1>2, <1>3, <1>4 DEF LaneInv, Converges

\* The queues of a lane stay sound: each key has one operation at most, where its epoch
\* says, though epochs wrap around, and a clear is the first of all.  And they lose nothing:
\* a remote that syncs with a lane, or has, is up to date with it but for what is queued or
\* computed for it.  So it is however often the lane changes while its state is sent, in
\* whatever order the queues take turns (EventQueue::push, WriteQueues::pop,
\* update_sync_queues, write_to_buffer).
THEOREM LanesConverge == TaskSpec => []LaneInv
<1>1. LaneIInv /\ [TaskNext]_taskVars => LaneIInv'
  BY LaneStep
<1> QED BY <1>1, LaneInit, LaneHolds, PTL DEF TaskSpec
=============================================================================
