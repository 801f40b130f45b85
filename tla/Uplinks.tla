------------------------------ MODULE Uplinks -------------------------------
(***************************************************************************)
(* The uplinks from the lanes of an agent to one remote                    *)
(* (agent/task/remotes/uplink/mod.rs and write_fut/mod.rs), driven by the  *)
(* write task of the agent runtime (agent/task/mod.rs).                    *)
(*                                                                         *)
(* The remote has one writer.  While it is home a push produces a write at *)
(* once and takes it; while it is out, events go into the backpressure     *)
(* relief of their lane and link messages into special_queue, and the next *)
(* write is popped when the writer comes back.  The struct is the variable *)
(* u and its methods are functions of it, so that one handler of the write *)
(* task can call several of them.                                          *)
(*                                                                         *)
(* A body is a version: the lanes number what they emit.  A write is the   *)
(* sequence of notifications that perform_write sends for it.  A map lane  *)
(* has Keys, the others have one key; a clear is an event on every key.    *)
(***************************************************************************)
EXTENDS Naturals, Sequences, FiniteSetsExt, Functions

CONSTANTS
  ValueLanes, SupplyLanes, MapLanes,   \* the lanes, by the kind of their uplink
  LaneSets,      \* the agents looked at, each by the lanes that it has
  Keys,          \* the keys of a map lane
  One,           \* the key that stands for the state of the other lanes
  All,           \* the key of a clear
  NoBody,        \* an empty body
  NoUplink,      \* no entry for a lane in the maps of uplinks
  MaxVersion,    \* bound: how many events each lane emits
  MaxSpecials,   \* bound: how many special actions wait
  MaxPlaces      \* bound: a link is closed while write_queue is shorter than this

AllLanes == ValueLanes \cup SupplyLanes \cup MapLanes

ASSUME LanesAssumption ==
  /\ ValueLanes \cap SupplyLanes = {}
  /\ ValueLanes \cap MapLanes = {}
  /\ SupplyLanes \cap MapLanes = {}
  /\ LaneSets \subseteq SUBSET AllLanes
  /\ Keys # {} /\ One \notin Keys /\ All \notin Keys /\ One # All
ASSUME BoundAssumption ==
  MaxVersion \in [AllLanes -> Nat] /\ MaxSpecials \in Nat /\ MaxPlaces \in Nat

VARIABLES
  agentLanes,     \* the lanes of the agent
  u,         \* struct Uplinks
  linked,    \* the lanes the write task has linked to this remote
  version,   \* how many events each lane has emitted
  state,     \* the version of each key of each lane
  syncing,   \* the keys a lane has yet to send of a sync, or NotSyncing
  sent,      \* ghost: the newest version of each key pushed since the link was made
  view,      \* ghost: the newest version of each key the remote was sent in its link
  emptied,   \* ghost: the lanes whose last event at the remote had an empty body
  left       \* ghost: the value and map lanes of which a link was closed while they
             \* had a place in write_queue

uplinkVars == <<agentLanes, u, linked, version, state, syncing, sent, view, emptied, left>>

NotSyncing == {All}
NotLinked == [k \in {} |-> 0]

KeysOf(l) == IF l \in MapLanes THEN Keys ELSE {One}
Nothing(l) == [k \in KeysOf(l) |-> 0]

\* Notifications.
LinkedNote(l) == [type |-> "Linked", lane |-> l]
UnlinkedNote(l) == [type |-> "Unlinked", lane |-> l]
LaneNotFound == [type |-> "LaneNotFound"]
EventNote(l, b) == [type |-> "Event", lane |-> l, body |-> b]
Synced(l, due) == [type |-> "Synced", lane |-> l, due |-> due]

Home == <<>>
Lost == <<[type |-> "Lost"]>>

\* What an event carries, and an entry in the maps of uplinks.
Bodies == [key : Keys \cup {One, All}, version : Nat]
Dues == {NotLinked} \cup [Keys -> Nat] \cup [{One} -> Nat]
UplinkRecords == [queued : BOOLEAN, send_synced : Dues, backpressure : Seq(Bodies)]

ASSUME EmptyAssumption == NoBody \notin Bodies /\ NoUplink \notin UplinkRecords

NewUplink == [queued |-> FALSE, send_synced |-> NotLinked, backpressure |-> <<>>]

\* Uplinks::new
NewUplinks ==
  [writer |-> Home, uplinks |-> [l \in AllLanes |-> NoUplink],
   write_queue |-> <<>>, special_queue |-> <<>>]

UplinksInit ==
  /\ agentLanes \in LaneSets
  /\ u = NewUplinks
  /\ linked = {}
  /\ version = [l \in AllLanes |-> 0]
  /\ state = [l \in AllLanes |-> Nothing(l)]
  /\ syncing = [l \in AllLanes |-> NotSyncing]
  /\ sent = [l \in AllLanes |-> Nothing(l)]
  /\ view = [l \in AllLanes |-> NotLinked]
  /\ emptied = {} /\ left = {}
-----------------------------------------------------------------------------
\* Mutant of PurgeOnUnlink: what is queued for the lane is kept.
PurgeNothing(x, a) == x.uplinks

\* An Unlinked that has to wait discards what is queued for its lane; the
\* lane keeps its place in write_queue.
PurgeOnUnlink(x, a) ==
  IF a.type = "Unlinked" THEN [x.uplinks EXCEPT ![a.lane] = NoUplink] ELSE x.uplinks

\* Uplinks::push_special
PushSpecial(x, a) ==
  IF x.writer = Home
    THEN [x EXCEPT !.writer = <<a>>]
    ELSE [x EXCEPT !.uplinks = PurgeOnUnlink(x, a), !.special_queue = Append(@, a)]

\* Mutant of PushBytes: what is pushed last is written first.
PushBytesFront(l, bp, b) == IF l \in ValueLanes THEN <<b>> ELSE <<b>> \o bp

\* The three backpressure strategies: a value is overwritten, a supply is a
\* FIFO, a map is conflated by key and emptied by a clear (MapQueue).
PushBytes(l, bp, b) ==
  CASE l \in ValueLanes -> <<b>>
    [] l \in SupplyLanes -> Append(bp, b)
    [] l \in MapLanes ->
         IF b.key = All THEN <<b>>
         ELSE IF \E i \in DOMAIN bp : bp[i].key = b.key
           THEN [i \in DOMAIN bp |-> IF bp[i].key = b.key THEN b ELSE bp[i]]
           ELSE Append(bp, b)

\* value_uplinks.entry(lane_id).or_default() and the like.
Entry(x, l) == IF x.uplinks[l] = NoUplink THEN NewUplink ELSE x.uplinks[l]

\* The lane takes a place in the queue unless it has one.
Enqueue(x, l, up) ==
  [x EXCEPT !.uplinks[l] = [up EXCEPT !.queued = TRUE],
            !.write_queue = IF up.queued THEN @ ELSE Append(@, l)]

\* Uplinks::push of an event; write_to_buffer when the writer is home.
PushEvent(x, l, b) ==
  IF x.writer = Home
    THEN [x EXCEPT !.writer = <<EventNote(l, b)>>]
    ELSE Enqueue(x, l, [Entry(x, l) EXCEPT !.backpressure = PushBytes(l, @, b)])

\* Uplinks::push of an event whose key is refused: the error leaves push after
\* `writer.take()` and before the write exists.
PushBadKey(x, l) ==
  IF x.writer = Home
    THEN [x EXCEPT !.writer = Lost]
    ELSE [x EXCEPT !.uplinks[l] = Entry(x, l)]

\* Uplinks::push of a synced message.
PushSynced(x, l, due) ==
  IF x.writer = Home
    THEN [x EXCEPT !.writer = <<Synced(l, due)>>]
    ELSE Enqueue(x, l, [Entry(x, l) EXCEPT !.send_synced = due])

\* BackpressureStrategy::prepare_write: the next body, empty if there is none.
PrepareWrite(bp) == IF bp = <<>> THEN NoBody ELSE Head(bp)
Prepared(bp) == IF bp = <<>> THEN <<>> ELSE Tail(bp)

\* Mutant of HasWrite: the place of a supply lane with nothing waiting is not skipped.
HasWriteAlways(x, l) == x.uplinks[l] # NoUplink

\* Whether a place in write_queue yields a write.
HasWrite(x, l) ==
  /\ x.uplinks[l] # NoUplink
  /\ l \in SupplyLanes =>
       x.uplinks[l].send_synced # NotLinked \/ x.uplinks[l].backpressure # <<>>

\* WriteAction::MapSynced: everything that is queued, and then synced.
MapSynced(l, up) ==
  [i \in DOMAIN up.backpressure |-> EventNote(l, up.backpressure[i])]
    \o <<Synced(l, up.send_synced)>>

\* Mutant of WriteFor: the synced message is written without the waiting event.
WriteForSyncedOnly(l, up) ==
  IF up.send_synced = NotLinked
    THEN <<EventNote(l, PrepareWrite(up.backpressure))>>
    ELSE <<Synced(l, up.send_synced)>>

\* The notifications of the write that is popped for lane l.
WriteFor(l, up) ==
  LET event == EventNote(l, PrepareWrite(up.backpressure))
  IN  IF up.send_synced = NotLinked THEN <<event>>
      ELSE IF l \in MapLanes THEN MapSynced(l, up)
      ELSE IF l \in SupplyLanes /\ up.backpressure = <<>> THEN <<Synced(l, up.send_synced)>>
      ELSE <<event, Synced(l, up.send_synced)>>

\* What is left of the uplink once that write has been taken from it.
Popped(l, up) ==
  LET rest == IF l \in MapLanes /\ up.send_synced # NotLinked
                THEN <<>> ELSE Prepared(up.backpressure)
  IN  [queued |-> rest # <<>>, send_synced |-> NotLinked, backpressure |-> rest]

\* Mutant of NextQueue: the lane is not put back when it has more to write.
NextQueueOnce(rest, l, up) == rest

\* A lane with more to write goes to the back of the queue.
NextQueue(rest, l, up) == IF up.queued THEN Append(rest, l) ELSE rest

\* A supply uplink whose place yielded nothing no longer counts as queued.
Skip(ups, ls) ==
  [l \in AllLanes |-> IF l \in SupplyLanes \cap ls /\ ups[l] # NoUplink
                    THEN [ups[l] EXCEPT !.queued = FALSE] ELSE ups[l]]

\* Uplinks::replace_and_pop: special actions first; then the first place in
\* write_queue that yields a write, those before it being dropped.
ReplaceAndPop(x) ==
  LET ready == {i \in DOMAIN x.write_queue : HasWrite(x, x.write_queue[i])}
      i == Min(ready)
      l == x.write_queue[i]
      up == Popped(l, x.uplinks[l])
  IN  CASE x.special_queue # <<>> ->
             [x EXCEPT !.writer = <<Head(x.special_queue)>>, !.special_queue = Tail(@)]
        [] x.special_queue = <<>> /\ ready = {} ->
             [x EXCEPT !.writer = Home, !.write_queue = <<>>,
                       !.uplinks = Skip(@, Range(x.write_queue))]
        [] OTHER ->
             [x EXCEPT !.writer = WriteFor(l, x.uplinks[l]),
                       !.write_queue = NextQueue(SubSeq(@, i + 1, Len(@)), l, up),
                       !.uplinks = [Skip(@, Range(SubSeq(x.write_queue, 1, i - 1)))
                                      EXCEPT ![l] = up]]
-----------------------------------------------------------------------------
\* An event that brings the remote a version of key k of lane l.  One with an empty
\* body brings none, but it is an event like any other for the remote, which has
\* the empty body from then on: see Emptied.
Bears(n, l, k) ==
  n.type = "Event" /\ n.lane = l /\ n.body # NoBody /\ n.body.key \in {k, All}

\* The version of key k after a write, for a remote that has version v of it.
VersionAfter(w, l, k, v) ==
  LET on == {i \in DOMAIN w : Bears(w[i], l, k)}
  IN  IF on = {} THEN v ELSE w[Max(on)].body.version

Has(w, type, l) == \E i \in DOMAIN w : w[i].type = type /\ w[i].lane = l

\* What a write, which is one link message or the events of one lane, does to the
\* view of lane l.
Received(v, w, l) ==
  IF Has(w, "Unlinked", l) THEN NotLinked
  ELSE IF v = NotLinked THEN (IF Has(w, "Linked", l) THEN Nothing(l) ELSE NotLinked)
  ELSE [k \in KeysOf(l) |-> VersionAfter(w, l, k, v[k])]

\* Whether the remote has an empty body for lane l after a write: the last event
\* of the lane in this write has one or, where there is no such event, it had one
\* before (e).
Emptied(e, w, l) ==
  LET on == {i \in DOMAIN w : w[i].type = "Event" /\ w[i].lane = l}
  IN  /\ ~Has(w, "Unlinked", l)
      /\ \/ on = {} /\ l \in e
         \/ \E i \in on : w[i].body = NoBody /\ \A j \in on : j <= i

SpecialRoom == Len(u.special_queue) < MaxSpecials

\* The remote asks for a link to a lane that exists.
LinkLane(l) ==
  /\ SpecialRoom
  /\ linked' = linked \cup {l}
  /\ u' = PushSpecial(u, LinkedNote(l))
  /\ UNCHANGED <<agentLanes, version, state, syncing, sent, view, emptied, left>>

\* The remote closes a link that is open.
UnlinkLane(l) ==
  /\ SpecialRoom
  /\ Len(u.write_queue) < MaxPlaces
  /\ l \in linked
  /\ linked' = linked \ {l}
  /\ sent' = [sent EXCEPT ![l] = Nothing(l)]
  /\ u' = PushSpecial(u, UnlinkedNote(l))
  /\ left' = IF l \in Range(u.write_queue) \ SupplyLanes THEN left \cup {l} ELSE left
  /\ UNCHANGED <<agentLanes, version, state, syncing, view, emptied>>

\* The remote addresses a lane that does not exist.
UnknownLane ==
  /\ SpecialRoom
  /\ u' = PushSpecial(u, LaneNotFound)
  /\ UNCHANGED <<agentLanes, linked, version, state, syncing, sent, view, emptied, left>>

\* A lane emits an event, which goes to the remotes that are linked to it.
LaneEvent(l, k) ==
  LET n == version[l] + 1
      changed(f) == [f EXCEPT ![l] = [j \in DOMAIN @ |-> IF k \in {j, All} THEN n ELSE @[j]]]
  IN  /\ n <= MaxVersion[l]
      /\ version' = [version EXCEPT ![l] = n]
      /\ state' = changed(state)
      /\ IF l \in linked
           THEN u' = PushEvent(u, l, [key |-> k, version |-> n]) /\ sent' = changed(sent)
           ELSE UNCHANGED <<u, sent>>
      /\ UNCHANGED <<agentLanes, linked, syncing, view, emptied, left>>

\* A map lane emits an event with a key that is not UTF-8; discard_error.
BadLaneEvent(l) ==
  /\ l \in linked
  /\ u' = PushBadKey(u, l)
  /\ UNCHANGED <<agentLanes, linked, version, state, syncing, sent, view, emptied, left>>

\* The remote asks a lane to sync: the lane will send its state and then synced
\* to this remote alone.  A supply lane has no state to send.
StartSync(l) ==
  /\ syncing[l] = NotSyncing
  /\ syncing' = [syncing EXCEPT ![l] =
       CASE l \in ValueLanes -> {One}
         [] l \in SupplyLanes -> {}
         [] l \in MapLanes -> {k \in Keys : state[l][k] > 0}]
  /\ UNCHANGED <<agentLanes, u, linked, version, state, sent, view, emptied, left>>

\* A response that is targeted at a remote that is not linked links it first.
Targeted(l) == IF l \in linked THEN u ELSE PushSpecial(u, LinkedNote(l))

SyncEvent(l, k) ==
  /\ l \in linked \/ SpecialRoom
  /\ k \in syncing[l]
  /\ linked' = linked \cup {l}
  /\ u' = PushEvent(Targeted(l), l, [key |-> k, version |-> state[l][k]])
  /\ sent' = [sent EXCEPT ![l][k] = state[l][k]]
  /\ syncing' = [syncing EXCEPT ![l] = @ \ {k}]
  /\ UNCHANGED <<agentLanes, version, state, view, emptied, left>>

SyncDone(l) ==
  /\ l \in linked \/ SpecialRoom
  /\ syncing[l] = {}
  /\ linked' = linked \cup {l}
  /\ u' = PushSynced(Targeted(l), l, sent[l])
  /\ syncing' = [syncing EXCEPT ![l] = NotSyncing]
  /\ UNCHANGED <<agentLanes, version, state, sent, view, emptied, left>>

\* A write completes: the remote has its notifications and the writer is back.
WriteReturns ==
  /\ u.writer \notin {Home, Lost}
  /\ view' = [l \in AllLanes |-> Received(view[l], u.writer, l)]
  /\ emptied' = {l \in AllLanes : Emptied(emptied, u.writer, l)}
  /\ u' = ReplaceAndPop(u)
  /\ UNCHANGED <<agentLanes, linked, version, state, syncing, sent, left>>

UplinksNext ==
  \/ \E l \in agentLanes : LinkLane(l) \/ UnlinkLane(l) \/ StartSync(l) \/ SyncDone(l)
  \/ \E l \in agentLanes \cap MapLanes : BadLaneEvent(l)
  \/ \E l \in agentLanes, k \in Keys \cup {One} :
       /\ k \in KeysOf(l)
       /\ LaneEvent(l, k) \/ SyncEvent(l, k)
  \/ \E l \in agentLanes \cap MapLanes : LaneEvent(l, All)
  \/ UnknownLane
  \/ WriteReturns

UplinksSpec == UplinksInit /\ [][UplinksNext]_uplinkVars
-----------------------------------------------------------------------------
\* The queues agree with each other: while the writer is home there is nothing
\* to write, and a lane that counts as queued has a place in write_queue.
QueuesAgree ==
  /\ u.writer = Home => u.special_queue = <<>> /\ u.write_queue = <<>>
  /\ \A l \in AllLanes :
       u.uplinks[l] # NoUplink =>
         /\ u.uplinks[l].queued => l \in Range(u.write_queue)
         /\ u.uplinks[l].backpressure # <<>> => u.uplinks[l].queued

\* The protocol of a link as the remote sees it: events and synced messages of a
\* lane arrive only between Linked and Unlinked, although link messages overtake
\* events that wait in the backpressure relief.
EventsWithinLink ==
  \A i \in DOMAIN u.writer :
    u.writer[i].type \in {"Event", "Synced"} => view[u.writer[i].lane] # NotLinked

\* Conflation loses nothing: when the writer is home the remote has been sent the
\* newest event of each key of each lane it is linked to.  It still has it, but
\* for the lanes that an empty event has reached since (emptied), and it has
\* nothing of a lane it is not linked to.
IdleIsExact ==
  u.writer = Home =>
    \A l \in AllLanes :
      IF l \in linked THEN view[l] = sent[l]
      ELSE view[l] = NotLinked /\ l \notin emptied

\* Note i of a write is the empty event of a value lane that has only synced to
\* write: replace_and_pop asks for a body that is not there.
EmptyBeforeSynced(w, i) ==
  LET l == w[i].lane
  IN  /\ l \in ValueLanes
      /\ i = 1 /\ Len(w) = 2
      /\ w[2].type = "Synced" /\ w[2].lane = l

\* An event with an empty body, which replaces what the remote has of the lane, is
\* written in two cases only: before the synced message of a value lane whose
\* event was written already, and for a value or map lane that had a place in
\* write_queue when a link to it was closed, and so comes to have two.  Supply
\* lanes never write one.
EmptyEventsAreKnown ==
  /\ emptied \subseteq ValueLanes \cup left
  /\ emptied \cap SupplyLanes = {}
  /\ \A i \in DOMAIN u.writer :
       (u.writer[i].type = "Event" /\ u.writer[i].body = NoBody) =>
         /\ u.writer[i].lane \notin SupplyLanes
         /\ u.writer[i].lane \in left \/ EmptyBeforeSynced(u.writer, i)

\* The state of the uplinks and what the remote has seen of them fit together:
\* nothing is stranded in a queue, out of its link, or lost by conflation, and
\* what empties the state of the remote is known.
UplinksInv == QueuesAgree /\ EventsWithinLink /\ IdleIsExact /\ EmptyEventsAreKnown

\* A synced message of a value or map lane arrives when the remote has been sent
\* everything there was before the lane reported that it was synced; and the
\* remote still has it, except where the write itself puts the empty event
\* before synced, and for lanes a link to which was closed with events waiting.
SyncedIsCurrent ==
  [][\A i \in DOMAIN u.writer :
       LET n == u.writer[i]
       IN  (WriteReturns /\ n.type = "Synced" /\ n.lane \notin SupplyLanes) =>
             /\ \A k \in KeysOf(n.lane) : view'[n.lane][k] >= n.due[k]
             /\ n.lane \in emptied' =>
                  \/ n.lane \in left
                  \/ i = 2 /\ u.writer[1] = EventNote(n.lane, NoBody)]_uplinkVars

\* Within a link no key of a lane ever goes back to an older version, and the
\* events of a supply lane arrive one by one, none lost or repeated.
DeliveredInOrder ==
  [][\A l \in AllLanes :
       (view[l] # NotLinked /\ view'[l] # NotLinked) =>
         \A k \in KeysOf(l) :
           /\ view'[l][k] >= view[l][k]
           /\ (l \in SupplyLanes /\ view[l][k] > 0) => view'[l][k] <= view[l][k] + 1]_uplinkVars

\* "Discarding invalid map lane event": only the event is discarded.
WriterNotLost == u.writer # Lost

\* docs/downlink.md:24: "This is triggered when a consistent view of the state of the
\* remote lane has been assembled in the downlink": the synced message of a value
\* lane leaves the remote with a state of the lane.  This does not hold: the empty
\* event of EmptyBeforeSynced takes it away.
SyncedHasState ==
  \A i \in DOMAIN u.writer :
    (u.writer[i].type = "Synced" /\ u.writer[i].lane \in ValueLanes) =>
      ~Emptied(emptied, u.writer, u.writer[i].lane)
=============================================================================
