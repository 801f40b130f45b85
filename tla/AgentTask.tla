----------------------------- MODULE AgentTask ------------------------------
(***************************************************************************)
(* The task of an agent (swimos_agent/src/agent_model/mod.rs, run_agent)   *)
(* with one of its lanes (lanes/), as the remotes see it.                  *)
(*                                                                         *)
(* A turn of the loop takes one event, runs its handlers and then asks the *)
(* lanes that were marked dirty, and whose writer is at hand, for what     *)
(* they have to write.  The writer is away until the runtime has taken it. *)
(* The channel to the runtime keeps the order, so a response counts as     *)
(* received by its remotes when it is written.                             *)
(*                                                                         *)
(* The lanes of an agent share nothing but the loop: a behaviour has one,  *)
(* of one of Kinds.  A demand lane and a demand-map lane compute what they *)
(* send from the state of the agent, which their handlers cue when they    *)
(* change it.                                                              *)
(***************************************************************************)
EXTENDS LaneQueues

CONSTANTS
  Kinds,       \* of "map", "demandMap", "value", "demand", "supply", "command"
  Values,      \* the values
  MapValues,   \* those that the entries of a map have
  Initial,     \* the value there is to begin with
  Remotes,     \* the remotes that sync
  Observed,    \* the one of them whose state is kept; they are all alike
  MaxBacklog,  \* the bound on the events of a supply lane
  EmptyMarks   \* TRUE: a key that is not there may be removed from a map, and a key of
               \* a demand-map lane may vanish while there are syncs; FALSE: they do not

ASSUME KindsAssumption ==
  Kinds \subseteq {"map", "demandMap", "value", "demand", "supply", "command"}
ASSUME ValuesAssumption == Initial \in Values /\ None \notin Values \cup MapValues
ASSUME ObservedAssumption == IsFiniteSet(Remotes) /\ Observed \in Remotes
ASSUME MarksAssumption == EmptyMarks \in BOOLEAN /\ MaxBacklog \in Nat \ {0}

VARIABLES
  kind,     \* of the lane
  lane,     \* its state
  dirty,    \* is it in dirty_items
  writer,   \* "idle": in item_writers; "busy", "busyEvent": in pending_writes; "lost"
  phase,    \* of a turn of the loop: "select", "handler" or "done"; or "stopped"
  view,     \* the map that the observed remote has
  seen,     \* the last value that it has
  status    \* of the syncs of each remote: "none", "syncing" or "synced"

taskVars == <<kind, lane, dirty, writer, phase, view, seen, status>>
remoteVars == <<view, seen, status>>

MapLike == kind \in {"map", "demandMap"}
Entries == [Keys -> MapValues \cup {None}]

NewLane ==
  [queues |-> EmptyQueues,                 \* of map-like lanes
   content |-> [k \in Keys |-> None],
   pending |-> [to |-> "none"],            \* DemandMapLaneInner
   requests |-> {},
   value |-> Initial, flag |-> FALSE,      \* the value, and dirty or cued
   computed |-> None,                      \* DemandLaneInner
   ids |-> <<>>,                           \* sync_queue of value-like lanes
   backlog |-> <<>>]                       \* event_queue of a supply lane

TaskInit ==
  /\ kind \in Kinds
  /\ phase = "select"
  /\ lane = NewLane /\ dirty = FALSE /\ writer = "idle"
  /\ view = [k \in Keys |-> None] /\ seen = None /\ status = [r \in Remotes |-> "none"]
-----------------------------------------------------------------------------
\* demand_map_handler_inner takes the next thing from the queues and computes its
\* value, unless one is waiting to be written.
TakeNext(l) ==
  LET Pending(o) ==
        CASE o.to = "event" -> [to |-> "event", key |-> o.action.key, value |-> l.content[o.action.key]]
          [] o.to = "sync" -> [to |-> "sync", id |-> o.id, key |-> o.key, value |-> l.content[o.key]]
          [] OTHER -> o
  IN  {[l EXCEPT !.queues = p.left, !.pending = Pending(p.out)] : p \in PopQueues(l.queues)}

KeysOf(l) == {k \in Keys : l.content[k] # None}

\* The keys handler: all the requests are given the keys there are, in any order.
GetKeys(l) ==
  {[l EXCEPT !.requests = {}, !.queues = PushSyncs(@, rs, KeysOf(l))] : rs \in SetToSeqs(l.requests)}

\* The handler of a demand-map lane, with the one that GettingKeys triggers again.
DemandMapHandler(l) ==
  IF l.pending.to # "none" THEN {l}
  ELSE IF l.requests # {} THEN UNION {TakeNext(m) : m \in GetKeys(l)}
  ELSE TakeNext(l)
-----------------------------------------------------------------------------
\* What write_to_buffer returns: the lane that is left, the response, with "none"
\* for NoData, and whether there is more to write.
Written(l, out, more) == [lane |-> l, out |-> out, more |-> more]

Nothing(l) == Written(l, [to |-> "none"], FALSE)

\* MapEventQueue::pop: an update or a sync of a key that has gone is passed over,
\* and the next thing in the queues is tried.
WriteMap(l) ==
  LET Operation(o) ==
        CASE o.to = "event" ->
               IF o.action.op = "update" /\ l.content[o.action.key] = None THEN [to |-> "again"]
               ELSE [to |-> "event", key |-> o.action.key,
                     value |-> IF o.action.op = "update" THEN l.content[o.action.key] ELSE None]
          [] o.to = "sync" ->
               IF l.content[o.key] = None THEN [to |-> "again"]
               ELSE [to |-> "sync", id |-> o.id, key |-> o.key, value |-> l.content[o.key]]
          [] OTHER -> o
  IN  {Written([l EXCEPT !.queues = p.left], Operation(p.out), ~NoneQueued(p.left)) :
         p \in PopQueues(l.queues)}

\* An item that was computed and is not there is not written.
WriteDemandMap(l) ==
  LET m == [l EXCEPT !.pending = [to |-> "none"]]
  IN  IF l.pending.to = "none" \/ (l.pending.to = "sync" /\ l.pending.value = None)
        THEN Nothing(m)
        ELSE Written(m, l.pending, ~NoneQueued(m.queues) \/ m.requests # {})

\* A sync is answered with the value and the end of the sync at once.
Answer(l, v) == [to |-> "answer", id |-> Head(l.ids), value |-> v]

\* Mutant of WriteValue: a sync answers for the event too.
WriteValueOnce(l) ==
  IF l.ids # <<>>
    THEN LET m == [l EXCEPT !.ids = Tail(@), !.flag = FALSE]
         IN  Written(m, Answer(l, l.value), m.ids # <<>>)
    ELSE IF l.flag
      THEN Written([l EXCEPT !.flag = FALSE], [to |-> "value", value |-> l.value], FALSE)
      ELSE Nothing(l)

WriteValue(l) ==
  IF l.ids # <<>>
    THEN LET m == [l EXCEPT !.ids = Tail(@)]
         IN  Written(m, Answer(l, l.value), m.flag \/ m.ids # <<>>)
    ELSE IF l.flag
      THEN Written([l EXCEPT !.flag = FALSE], [to |-> "value", value |-> l.value], FALSE)
      ELSE Nothing(l)

WriteDemand(l) ==
  IF l.computed = None THEN Nothing(l)
  ELSE IF l.ids # <<>>
    THEN LET m == [l EXCEPT !.ids = Tail(@)]
             more == m.flag \/ m.ids # <<>>
         IN  Written(IF more THEN m ELSE [m EXCEPT !.computed = None], Answer(l, l.computed), more)
    ELSE IF l.flag
      THEN Written([l EXCEPT !.flag = FALSE, !.computed = None],
                   [to |-> "value", value |-> l.computed], FALSE)
      ELSE Nothing(l)

WriteSupply(l) ==
  IF l.ids # <<>>
    THEN LET m == [l EXCEPT !.ids = Tail(@)]
         IN  Written(m, [to |-> "synced", id |-> Head(l.ids)], m.backlog # <<>> \/ m.ids # <<>>)
    ELSE IF l.backlog # <<>>
      THEN LET m == [l EXCEPT !.backlog = Tail(@)]
           IN  Written(m, [to |-> "value", value |-> Head(l.backlog)], m.backlog # <<>>)
      ELSE Written(l, [to |-> "empty"], FALSE)

WriteCommand(l) ==
  IF l.flag
    THEN Written([l EXCEPT !.flag = FALSE], [to |-> "value", value |-> l.value], FALSE)
    ELSE Nothing(l)

\* AgentSpec::write_event, as the set of what may come of it.
WriteToBuffer(l) ==
  CASE kind = "map" -> WriteMap(l)
    [] kind = "demandMap" -> {WriteDemandMap(l)}
    [] kind = "value" -> {WriteValue(l)}
    [] kind = "demand" -> {WriteDemand(l)}
    [] kind = "supply" -> {WriteSupply(l)}
    [] kind = "command" -> {WriteCommand(l)}
-----------------------------------------------------------------------------
\* A remote that has asked for the state of the lane gets its events too.
Listens == status[Observed] # "none"

\* What a response does to the remotes it is for.
Deliver(o) ==
  /\ view' =
       CASE o.to = "event" /\ Listens ->
              IF o.key = None THEN [k \in Keys |-> None] ELSE [view EXCEPT ![o.key] = o.value]
         [] o.to = "sync" /\ o.id = Observed -> [view EXCEPT ![o.key] = o.value]
         [] OTHER -> view
  /\ seen' =
       IF (o.to = "value" /\ Listens) \/ (o.to = "answer" /\ o.id = Observed) THEN o.value ELSE seen
  /\ status' =
       [r \in Remotes |->
          IF o.to \in {"synced", "answer"} /\ o.id = r THEN "synced" ELSE status[r]]

\* Mutant of StillDirty: what the lane still has is left to the next mark.
StillDirtyNot(x) == x.out.to = "again"

\* DataStillAvailable; a demand-map lane RequiresEvent instead.
StillDirty(x) == x.out.to = "again" \/ (x.more /\ kind # "demandMap")

\* The end of a turn, with the lane, the mark and the writer the handlers leave:
\* a lane that is marked writes if it can.  One that has nothing to write, though
\* it is marked, does not get its writer back.
EndTurn(l, d, w) ==
  /\ IF d /\ w = "idle"
       THEN \E x \in WriteToBuffer(l) :
              /\ lane' = x.lane
              /\ Deliver(x.out)
              /\ phase' = IF x.out.to = "again" THEN "done" ELSE "select"
              /\ dirty' = StillDirty(x)
              /\ writer' = CASE x.out.to = "none" -> "lost"
                             [] x.out.to = "again" -> "idle"
                             [] OTHER -> IF x.more /\ kind = "demandMap" THEN "busyEvent" ELSE "busy"
       ELSE phase' = "select" /\ lane' = l /\ dirty' = d /\ writer' = w /\ UNCHANGED remoteVars
  /\ UNCHANGED kind

\* A command, a suspended future or a downlink gives the loop a handler to run.
BeginHandler ==
  /\ phase = "select"
  /\ phase' = "handler"
  /\ UNCHANGED <<kind, lane, dirty, writer, remoteVars>>

\* The handler is done.
EndHandler == phase \in {"handler", "done"} /\ EndTurn(lane, dirty, writer)

\* A step of a handler that changes the lane and marks it.
Marks(l) ==
  /\ phase = "handler"
  /\ lane' = l
  /\ dirty' = TRUE
  /\ UNCHANGED <<kind, writer, phase, remoteVars>>

\* A change of the map, and its place in the queue.
Changes(k, v) ==
  [lane EXCEPT !.content[k] = v,
               !.queues = Push(@, IF v = None THEN Removed(k) ELSE Changed(k))]

MapLaneUpdate(k, v) == kind = "map" /\ Marks(Changes(k, v))

\* A key that is not there leaves the queue alone, and yet the lane is marked.
MapLaneRemove(k) ==
  /\ kind = "map"
  /\ lane.content[k] # None \/ EmptyMarks
  /\ Marks(IF lane.content[k] = None THEN lane ELSE Changes(k, None))

\* The function may remove the entry or leave a missing one alone, which marks
\* nothing.
MapLaneTransformEntry(k, v) ==
  /\ kind = "map"
  /\ v # None \/ lane.content[k] # None
  /\ Marks(Changes(k, v))

MapLaneClear ==
  /\ kind = "map"
  /\ Marks([lane EXCEPT !.content = [k \in Keys |-> None], !.queues = Push(@, Cleared)])

\* The state of the agent changes and the key is cued: CueKey.
CueKey(k, v) ==
  /\ kind = "demandMap"
  /\ v = None => EmptyMarks \/ \A r \in Remotes : status[r] # "syncing"
  /\ \E m \in DemandMapHandler([lane EXCEPT !.content[k] = v, !.queues = Push(@, Changed(k))]) :
       Marks(m)

ValueLaneSet(v) ==
  kind = "value" /\ Marks([lane EXCEPT !.value = v, !.flag = TRUE])

DoCommand(v) ==
  kind = "command" /\ Marks([lane EXCEPT !.value = v, !.flag = TRUE])

\* The on_cue handler of a demand lane.
Computed(l) == [l EXCEPT !.computed = l.value]

\* The state of the agent changes and the lane is cued: Cue.
Cue(v) ==
  kind = "demand" /\ Marks(Computed([lane EXCEPT !.value = v, !.flag = TRUE]))

Supply(v) ==
  /\ kind = "supply"
  /\ Len(lane.backlog) < MaxBacklog
  /\ Marks([lane EXCEPT !.backlog = Append(@, v)])

\* A sync request, of a remote that has none under way; command lanes ignore it.
SyncRequest(r) ==
  /\ phase = "select"
  /\ kind # "command"
  /\ status[r] # "syncing"
  /\ \E l \in
       CASE kind = "map" ->
              {[lane EXCEPT !.queues = PushSyncs(@, <<r>>, KeysOf(lane))]}
         [] kind = "demandMap" -> DemandMapHandler([lane EXCEPT !.requests = @ \cup {r}])
         [] kind = "demand" -> {Computed([lane EXCEPT !.ids = Append(@, r)])}
         [] OTHER -> {[lane EXCEPT !.ids = Append(@, r)]} :
       /\ lane' = l
       /\ status' = [status EXCEPT ![r] = "syncing"]
       /\ dirty' = TRUE
       /\ phase' = "done"
       /\ UNCHANGED <<kind, writer, view, seen>>

\* The runtime has taken what was written: the writer is back, after the handler
\* of the lane if it asked for it.
WriteComplete ==
  /\ phase = "select"
  /\ \/ writer = "busy" /\ EndTurn(lane, dirty, "idle")
     \/ /\ writer = "busyEvent"
        /\ \E l \in DemandMapHandler(lane) :
             EndTurn(l, dirty \/ (l.pending.to # "none" /\ lane.pending.to = "none"), "idle")

\* The runtime has closed the lanes, or a handler has asked for it or failed: the
\* agent is dropped, and with it all that was not written.
Stop ==
  /\ phase # "stopped"
  /\ phase' = "stopped"
  /\ lane' = NewLane /\ dirty' = FALSE /\ writer' = "idle"
  /\ view' = [k \in Keys |-> None] /\ seen' = None /\ status' = [r \in Remotes |-> "none"]
  /\ UNCHANGED kind

TaskNext ==
  \/ BeginHandler \/ EndHandler \/ WriteComplete \/ Stop
  \/ MapLaneClear
  \/ \E k \in Keys : MapLaneRemove(k)
  \/ \E k \in Keys, v \in MapValues : MapLaneUpdate(k, v)
  \/ \E k \in Keys, v \in MapValues \cup {None} : MapLaneTransformEntry(k, v) \/ CueKey(k, v)
  \/ \E v \in Values : ValueLaneSet(v) \/ DoCommand(v) \/ Cue(v) \/ Supply(v)
  \/ \E r \in Remotes : SyncRequest(r)

TaskSpec == TaskInit /\ [][TaskNext]_taskVars

\* Handlers end, and the loop goes on; the runtime takes what is written, and the
\* loop looks for that first (biased).
TaskFairSpec == TaskSpec /\ WF_taskVars(EndHandler) /\ SF_taskVars(WriteComplete)
-----------------------------------------------------------------------------
TaskTypeOK ==
  /\ kind \in Kinds
  /\ QueuesOK(lane.queues)
  /\ lane.content \in Entries
  /\ dirty \in BOOLEAN
  /\ writer \in {"idle", "busy", "busyEvent", "lost"}
  /\ phase \in {"select", "handler", "done", "stopped"}
  /\ view \in Entries

\* A remote that syncs or has synced is up to date but for what is on its way to
\* it: a change in the queue of events, a key in its queue, or what was computed.
Converges ==
  Listens =>
    /\ \A k \in Keys :
         LET q == lane.queues
             awaited == \/ k \in Reported(q) \/ k \in ToSync(q, Observed)
                        \/ Observed \in lane.requests
                        \/ lane.pending.to \in {"event", "sync"} /\ lane.pending.key = k
         IN  MapLike /\ ~awaited =>
               IF None \in Reported(q) THEN lane.content[k] = None ELSE view[k] = lane.content[k]
    /\ kind \in {"value", "demand"} /\ ~lane.flag /\ Observed \notin ToSet(lane.ids) =>
         seen = lane.value

\* The queues are sound and lose nothing that the observed remote is to have.
LaneInv == TaskTypeOK /\ Converges

\* "The lane has data to write": a lane is marked only if it has, so that it
\* never loses its writer.
DirtyHasData == writer # "lost"

\* Each sync comes to its end, however often the lane changes.
SyncsEnd ==
  \A r \in Remotes : status[r] = "syncing" ~> (status[r] = "synced" \/ phase = "stopped")

\* Each change is reported.  A value-like lane answers all the syncs first: a
\* change may wait for as long as there are any.
ChangesReported ==
  /\ \A k \in Keys :
       k \in Reported(lane.queues) ~> (k \notin Reported(lane.queues) \/ phase = "stopped")
  /\ lane.flag ~> (~lane.flag \/ lane.ids # <<>> \/ phase = "stopped")
  /\ Len(lane.backlog) = MaxBacklog ~>
       (Len(lane.backlog) < MaxBacklog \/ lane.ids # <<>> \/ phase = "stopped")
=============================================================================
