----------------------------- MODULE WriteTask ------------------------------
(***************************************************************************)
(* The registries of the write task of an agent runtime: which remotes are *)
(* attached (agent/task/remotes/mod.rs), which lanes are linked to which   *)
(* of them (agent/task/links.rs), which are to be pruned (prune.rs), and   *)
(* the event loop that keeps them (agent/task/mod.rs).                     *)
(*                                                                         *)
(* A remote is known by an Id; each attachment of it is a connection of    *)
(* its own, with its own writer.  Of the uplinks of a remote (Uplinks) it  *)
(* keeps the sender that is home, the link messages that wait and the      *)
(* lanes with events that wait.  A write in progress holds the sender of   *)
(* the connection it writes to.  Time is in ticks of the prune timer.      *)
(***************************************************************************)
EXTENDS Naturals, Sequences, FiniteSets, FiniteSetsExt, SequencesExt

CONSTANTS
  Ids,        \* the routing ids of remotes
  Conns,      \* the attachments that are made
  IdOf,       \* the id that each attachment is made for
  Lanes,      \* the lanes of agents
  Setups,     \* the instances looked at: the lanes of the agent, who attaches
  NoConn,     \* no sender; no uplinks
  Delay,      \* prune_remote_delay
  MaxWaiting, \* bound: how many link messages wait for one remote
  MaxTimers   \* bound: how many prune timers are pending

\* The link messages, and what is kept of the uplinks of a remote.
LinkNotes == [type : {"Linked", "Unlinked"}, lane : Lanes]
RemoteUplinks ==
  [conn : Conns, home : Conns \cup {NoConn}, specials : Seq(LinkNotes), events : SUBSET Lanes]

\* A write in progress, and the far side of an attachment.
Writes == [id : Ids, conn : Conns, note : [type : {"Linked", "Unlinked", "Event"}, lane : Lanes]]
FarSides ==
  [status : {"unused", "absent", "attached", "DuplicateRegistration", "RemoteTimedOut",
             "ChannelClosed", "AgentStoppedExternally", "AgentTimedOut"},
   open : BOOLEAN, told : SUBSET Lanes]

ASSUME IdOfAssumption == IdOf \in [Conns -> Ids]
ASSUME FiniteAssumption == IsFiniteSet(Ids) /\ IsFiniteSet(Lanes)
ASSUME NoConnAssumption == NoConn \notin Conns /\ NoConn \notin RemoteUplinks
ASSUME SetupsAssumption == Setups \subseteq [lanes : SUBSET Lanes, conns : SUBSET Conns]
ASSUME DelayAssumption ==
  Delay \in Nat \ {0} /\ MaxWaiting \in Nat /\ MaxTimers \in Nat

VARIABLES
  remotes,      \* RemoteTracker::remotes
  writes,       \* pending_writes
  forward,      \* Links::forward, the remotes of each lane
  backwards,    \* Links::backwards, the lanes of each remote
  total_count,  \* Links::total_count
  reporters,    \* the lanes whose LaneLinks holds a reporter
  link_count,   \* UplinkCounters::link_count of each lane
  timers,       \* PruneRemotes: the ids and the ticks until each is due
  registry,     \* LaneRegistry: the lanes that were registered
  lanes,        \* the lanes that have not failed
  phase,        \* "running", "cleanup", "stopped", "timed_out" or "failed"
  reason,       \* remote_reason
  conn          \* the far side of each attachment: is it there, what was it told

links == <<forward, backwards, total_count, reporters, link_count>>
vars == <<remotes, writes, links, timers, registry, lanes, phase, reason, conn>>

Linked(l) == [type |-> "Linked", lane |-> l]
Unlinked(l) == [type |-> "Unlinked", lane |-> l]
Event(l) == [type |-> "Event", lane |-> l]

Init ==
  /\ remotes = [r \in Ids |-> NoConn]
  /\ writes = {}
  /\ forward = [l \in Lanes |-> {}]
  /\ backwards = [r \in Ids |-> {}]
  /\ total_count = 0
  /\ reporters = Lanes
  /\ link_count = [l \in Lanes |-> 0]
  /\ timers = <<>>
  /\ phase = "running"
  /\ reason = "AgentStoppedExternally"
  /\ \E s \in Setups :
       /\ registry = s.lanes
       /\ lanes = s.lanes
       /\ conn = [c \in Conns |-> [status |-> IF c \in s.conns THEN "unused" ELSE "absent",
                                  open |-> TRUE, told |-> {}]]

Registered(r) == remotes[r] # NoConn
-----------------------------------------------------------------------------
\* Uplinks: link messages ls and then an event of each lane of es are pushed.  The
\* first takes the sender that is home; the others wait, and an Unlinked that waits
\* discards the waiting events of its lane.
Push(up, ls, es) ==
  LET sent == up.home # NoConn
      waiting == IF sent /\ ls # <<>> THEN Tail(ls) ELSE ls
      purged == {l \in Lanes : \E i \in DOMAIN waiting : waiting[i] = Unlinked(l)}
  IN  [up EXCEPT !.home = NoConn,
                 !.specials = @ \o waiting,
                 !.events = (@ \ purged) \cup (IF sent /\ ls = <<>> THEN {} ELSE es)]

\* The write that is begun if the sender is home.
First(ls, es) == IF ls # <<>> THEN Head(ls) ELSE Event(CHOOSE l \in es : TRUE)

\* One handler pushes to each remote the link messages of ls, and then at most one
\* event, if the remote is registered.
PushAll(ls, es) ==
  LET targets == {r \in Ids : Registered(r) /\ (ls[r] # <<>> \/ es[r] # {})}
  IN  /\ remotes' = [r \in Ids |->
           IF r \in targets THEN Push(remotes[r], ls[r], es[r]) ELSE remotes[r]]
      /\ writes' = writes \cup
           {[id |-> r, conn |-> remotes[r].home, note |-> First(ls[r], es[r])] :
              r \in {q \in targets : remotes[q].home # NoConn}}

NoMessages == [r \in Ids |-> <<>>]
NoEvents == [r \in Ids |-> {}]
To(rs, m) == [r \in Ids |-> IF r \in rs THEN <<m>> ELSE <<>>]
EventsTo(rs, l) == [r \in Ids |-> IF r \in rs THEN {l} ELSE {}]

HasRoom(r) == Registered(r) => Len(remotes[r].specials) < MaxWaiting

\* A lane reports how many links it has whenever that changes, if its entry in
\* forward still holds the reporter.
Relink(f) ==
  /\ forward' = f
  /\ link_count' = [l \in Lanes |->
       IF l \in reporters /\ f[l] # forward[l] THEN Cardinality(f[l]) ELSE link_count[l]]

\* Links::insert
InsertLink(l, r) ==
  /\ Relink([forward EXCEPT ![l] = @ \cup {r}])
  /\ UNCHANGED reporters
  /\ backwards' = [backwards EXCEPT ![r] = @ \cup {l}]
  /\ total_count' = IF r \in forward[l] THEN total_count ELSE total_count + 1

\* streams.schedule_prune: the timers are all of one length, so they stay in order.
Schedule(rs) ==
  timers' = timers \o [i \in 1..Cardinality(rs) |-> [id |-> SetToSeq(rs)[i], left |-> Delay]]

TimersFit == Len(timers) < MaxTimers

\* WriteTaskMessage::Remote; RemoteTracker::insert completes a connection that
\* it displaces.
Attach(c) ==
  LET r == IdOf[c]
  IN  /\ phase = "running"
      /\ TimersFit
      /\ conn[c].status = "unused"
      /\ conn' = [d \in Conns |->
           IF d = c THEN [conn[c] EXCEPT !.status = "attached"]
           ELSE IF Registered(r) /\ remotes[r].conn = d
             THEN [conn[d] EXCEPT !.status = "DuplicateRegistration"]
             ELSE conn[d]]
      /\ remotes' = [remotes EXCEPT ![r] =
           [conn |-> c, home |-> c, specials |-> <<>>, events |-> {}]]
      /\ Schedule({r})
      /\ UNCHANGED <<writes, links, registry, lanes, phase, reason>>

\* RwCoordinationMessage::Link for a lane that exists; a remote that is not
\* registered is refused.
Link(r, l) ==
  /\ phase = "running"
  /\ l \in registry
  /\ Registered(r) /\ HasRoom(r)
  /\ InsertLink(l, r)
  /\ PushAll(To({r}, Linked(l)), NoEvents)
  /\ UNCHANGED <<timers, registry, lanes, phase, reason, conn>>

\* Links::remove
RemoveLink(l, r) ==
  /\ Relink([forward EXCEPT ![l] = @ \ {r}])
  /\ UNCHANGED reporters
  /\ backwards' = [backwards EXCEPT ![r] = @ \ {l}]
  /\ total_count' = IF r \in forward[l] THEN total_count - 1 ELSE total_count

\* RwCoordinationMessage::Unlink; the last link of a remote starts its timer.
Unlink(r, l) ==
  /\ phase = "running"
  /\ HasRoom(r) /\ TimersFit
  /\ r \in forward[l]
  /\ RemoveLink(l, r)
  /\ Schedule(IF backwards[r] = {l} THEN {r} ELSE {})
  /\ PushAll(To({r}, Unlinked(l)), NoEvents)
  /\ UNCHANGED <<registry, lanes, phase, reason, conn>>

\* WriteTaskState::handle_event without a target: to every linked remote.
Broadcast(l) ==
  /\ phase = "running"
  /\ l \in lanes
  /\ forward[l] # {}
  /\ PushAll(NoMessages, EventsTo(forward[l], l))
  /\ UNCHANGED <<links, timers, registry, lanes, phase, reason, conn>>

\* handle_event with a target (the answer to a sync that the remote asked for
\* while it was attached): a remote that is not linked is linked first, whether
\* or not it is still registered.
Respond(r, l) ==
  /\ phase = "running"
  /\ l \in lanes
  /\ HasRoom(r)
  /\ \E c \in Conns : IdOf[c] = r /\ conn[c].status \notin {"unused", "absent"}
  /\ InsertLink(l, r)
  /\ PushAll(To({r} \ forward[l], Linked(l)), EventsTo({r}, l))
  /\ UNCHANGED <<timers, registry, lanes, phase, reason, conn>>

\* Mutant of Prunes: no timer is started.
NoPrunes(l) == {}

\* The remotes that lose their last link with lane l.
Prunes(l) == {r \in forward[l] : backwards[r] = {l}}

\* WriteTaskEvent::LaneFailed; Links::remove_lane and unlink_lane.
LaneFailed(l) ==
  /\ phase = "running"
  /\ l \in lanes
  /\ \A r \in forward[l] : HasRoom(r)
  /\ Len(timers) + Cardinality(Prunes(l)) <= MaxTimers
  /\ lanes' = lanes \ {l}
  /\ total_count' = total_count - Cardinality(forward[l])
  /\ Relink([forward EXCEPT ![l] = {}])
  /\ reporters' = reporters \ {l}
  /\ backwards' = [r \in Ids |-> backwards[r] \ {l}]
  /\ Schedule(Prunes(l))
  /\ PushAll(To(forward[l], Unlinked(l)), NoEvents)
  /\ UNCHANGED <<registry, phase, reason, conn>>

\* Mutant of RemovedFrom: the lanes of the remote are not updated.
RemovedFromNone(r) == forward

\* What Links::remove_remote leaves of the links of each lane.
RemovedFrom(r) == [l \in Lanes |-> forward[l] \ (IF l \in backwards[r] THEN {r} ELSE {})]

\* WriteTaskState::remove_remote: the links go first, then the uplinks.  A lane
\* that is left with no links loses its entry, and with it its reporter.
RemoveRemote(r, why) ==
  /\ Relink(RemovedFrom(r))
  /\ reporters' = {l \in reporters : l \in backwards[r] => RemovedFrom(r)[l] # {}}
  /\ total_count' = total_count - Cardinality({l \in backwards[r] : r \in forward[l]})
  /\ backwards' = [backwards EXCEPT ![r] = {}]
  /\ remotes' = [remotes EXCEPT ![r] = NoConn]
  /\ conn' = IF Registered(r) THEN [conn EXCEPT ![remotes[r].conn].status = why] ELSE conn

\* Mutant of Prunable: the links are not looked at.
PrunableAlways(r) == TRUE

\* remove_remote_if_idle
Prunable(r) == backwards[r] = {}

\* WriteTaskEvent::PruneRemote, when the timer at the head is due.
Prune ==
  /\ phase = "running"
  /\ timers # <<>> /\ Head(timers).left = 0
  /\ timers' = Tail(timers)
  /\ IF Prunable(Head(timers).id)
       THEN RemoveRemote(Head(timers).id, "RemoteTimedOut")
       ELSE UNCHANGED <<remotes, links, conn>>
  /\ UNCHANGED <<writes, registry, lanes, phase, reason>>

Tick ==
  /\ phase = "running"
  /\ timers # <<>>
  /\ timers' = [i \in DOMAIN timers |->
       [timers[i] EXCEPT !.left = IF @ = 0 THEN 0 ELSE @ - 1]]
  /\ UNCHANGED <<remotes, writes, links, registry, lanes, phase, reason, conn>>

\* What the far side knows once a message has been written to it.
Told(w) ==
  [conn EXCEPT ![w.conn].told =
    CASE w.note.type = "Linked" -> @ \cup {w.note.lane}
      [] w.note.type = "Unlinked" -> @ \ {w.note.lane}
      [] OTHER -> @]

\* Mutant of Replace: the sender is put back with no look at what waits.
ReplaceOnly(w) ==
  /\ writes' = writes \ {w}
  /\ remotes' = IF Registered(w.id) THEN [remotes EXCEPT ![w.id].home = w.conn] ELSE remotes

\* RemoteTracker::replace_and_pop: the sender that comes back is given to the
\* uplinks that the id has now, if it has any.
Replace(w) ==
  LET up == remotes[w.id]
      next(n) == (writes \ {w}) \cup {[id |-> w.id, conn |-> w.conn, note |-> n]}
  IN  \/ /\ up = NoConn
         /\ writes' = writes \ {w}
         /\ UNCHANGED remotes
      \/ /\ up # NoConn /\ up.specials # <<>>
         /\ writes' = next(Head(up.specials))
         /\ remotes' = [remotes EXCEPT ![w.id].specials = Tail(@)]
      \/ /\ up # NoConn /\ up.specials = <<>>
         /\ \E l \in up.events :
              /\ writes' = next(Event(l))
              /\ remotes' = [remotes EXCEPT ![w.id].events = @ \ {l}]
      \/ /\ up # NoConn /\ up.specials = <<>> /\ up.events = {}
         /\ writes' = writes \ {w}
         /\ remotes' = [remotes EXCEPT ![w.id].home = w.conn]

\* WriteTaskEvent::WriteDone, in the loop and during the cleanup.
WriteDone(w) ==
  /\ phase \in {"running", "cleanup"}
  /\ conn[w.conn].open
  /\ conn' = Told(w)
  /\ Replace(w)
  /\ UNCHANGED <<links, timers, registry, lanes, phase, reason>>

\* A write fails because the far side has gone; the id is removed.  During the
\* cleanup the sender is just dropped.
WriteFailed(w) ==
  /\ ~conn[w.conn].open
  /\ writes' = writes \ {w}
  /\ \/ phase = "running" /\ RemoveRemote(w.id, "ChannelClosed")
     \/ phase = "cleanup" /\ UNCHANGED <<remotes, links, conn>>
  /\ UNCHANGED <<timers, registry, lanes, phase, reason>>

\* The far side of a connection goes away.
Disconnect(c) ==
  /\ phase \in {"running", "cleanup"}
  /\ conn[c].status \notin {"unused", "absent"} /\ conn[c].open
  /\ conn' = [conn EXCEPT ![c].open = FALSE]
  /\ UNCHANGED <<remotes, writes, links, timers, registry, lanes, phase, reason>>

\* The loop ends (a stop message, a unanimous vote, a timeout with no remotes or
\* no lanes): unlink_all, and from then on only the writes are served.
Stop ==
  /\ phase = "running"
  /\ phase' = "cleanup"
  /\ reason' \in {"AgentStoppedExternally", "AgentTimedOut"}
  /\ PushAll([r \in Ids |-> SetToSeq({Unlinked(l) : l \in {k \in Lanes : r \in forward[k]}})],
             NoEvents)
  /\ Relink([l \in Lanes |-> {}])
  /\ backwards' = [r \in Ids |-> {}]
  /\ total_count' = 0
  /\ UNCHANGED reporters
  /\ lanes' = {}
  /\ timers' = <<>>
  /\ UNCHANGED <<registry, conn>>

\* The last write is done: dispose_of_remotes.
Dispose ==
  /\ phase = "cleanup"
  /\ writes = {}
  /\ phase' = "stopped"
  /\ conn' = [c \in Conns |->
       IF \E r \in Ids : Registered(r) /\ remotes[r].conn = c
         THEN [conn[c] EXCEPT !.status = reason] ELSE conn[c]]
  /\ UNCHANGED <<remotes, writes, links, timers, registry, lanes, reason>>

\* shutdown_timeout: the state is dropped, and with it the promises.
CleanupTimeout ==
  /\ phase = "cleanup"
  /\ writes # {}
  /\ phase' = "timed_out"
  /\ UNCHANGED <<remotes, writes, links, timers, registry, lanes, reason, conn>>

\* persist_response or the set up of a store fails: the task returns at once and
\* drops everything.
StoreFails ==
  /\ phase = "running"
  /\ phase' = "failed"
  /\ UNCHANGED <<remotes, writes, links, timers, registry, lanes, reason, conn>>

Next ==
  \/ \E c \in Conns : Attach(c) \/ Disconnect(c)
  \/ \E r \in Ids, l \in Lanes : Link(r, l) \/ Unlink(r, l) \/ Respond(r, l)
  \/ \E l \in Lanes : Broadcast(l) \/ LaneFailed(l)
  \/ Prune
  \/ Tick
  \/ \E w \in writes : WriteDone(w) \/ WriteFailed(w)
  \/ Stop
  \/ Dispose
  \/ CleanupTimeout
  \/ StoreFails

Spec == Init /\ [][Next]_vars
-----------------------------------------------------------------------------
RegistriesTypeOK ==
  /\ remotes \in [Ids -> RemoteUplinks \cup {NoConn}]
  /\ writes \subseteq Writes
  /\ forward \in [Lanes -> SUBSET Ids] /\ backwards \in [Ids -> SUBSET Lanes]
  /\ total_count \in Nat /\ reporters \subseteq Lanes /\ link_count \in [Lanes -> Nat]
  /\ timers \in Seq([id : Ids, left : Nat])
  /\ registry \subseteq Lanes /\ lanes \subseteq Lanes
  /\ phase \in {"running", "cleanup", "stopped", "timed_out", "failed"}
  /\ reason \in {"AgentStoppedExternally", "AgentTimedOut"}
  /\ conn \in [Conns -> FarSides]

\* The two indexes and the count of Links describe one relation, whatever
\* removes a lane, a remote or a single link.
LinksAgree ==
  /\ \A l \in Lanes, r \in Ids : r \in forward[l] <=> l \in backwards[r]
  /\ total_count = Cardinality({p \in Lanes \X Ids : p[2] \in forward[p[1]]})

\* A remote with no links has a timer running, so that it will be deregistered:
\* the timer that was spent while it had links has been replaced.
IdleHasTimer ==
  \A r \in Ids :
    (phase = "running" /\ Registered(r) /\ backwards[r] = {}) =>
      \E i \in DOMAIN timers : timers[i].id = r

\* When the task has stopped in time, every remote that was there has been told
\* that each of its links is closed, and why it was disconnected.
StopUnlinksAll ==
  phase = "stopped" =>
    \A c \in Conns :
      /\ conn[c].status # "attached"
      /\ (conn[c].status = reason /\ conn[c].open) => conn[c].told = {}

Serving == phase \in {"running", "cleanup"}

\* When no id is attached twice: a write is to the connection of its id, and there is
\* one at most for each.
WritersAgree ==
  /\ \A w \in writes : IdOf[w.conn] = w.id /\ conn[w.conn].status \notin {"unused", "absent"}
  /\ \A w, v \in writes : w.id = v.id => w = v

\* Those who are attached are registered, for what they are; who has not come yet has
\* no links; nobody was told of the end of the agent before it came.
AttachedAgree ==
  /\ \A c \in Conns : conn[c].status \in {"unused", "absent"} =>
       ~Registered(IdOf[c]) /\ backwards[IdOf[c]] = {} /\ conn[c].told = {}
  /\ Serving => \A c \in Conns :
       /\ conn[c].status \notin {"AgentStoppedExternally", "AgentTimedOut"}
       /\ conn[c].status = "attached" => Registered(IdOf[c])
  /\ \A r \in Ids : Registered(r) =>
       IdOf[remotes[r].conn] = r /\ (Serving => conn[remotes[r].conn].status = "attached")
  /\ phase = "cleanup" => \A r \in Ids : backwards[r] = {}

\* Nothing waits for a sender that is home; one that is not is writing, if its far
\* side is there.
HomeAgrees(r) ==
  LET up == remotes[r]
      writing == \E w \in writes : w.id = r
  IN  /\ up.home # NoConn => up.home = up.conn /\ up.specials = <<>> /\ up.events = {} /\ ~writing
      /\ up.home = NoConn /\ Serving /\ conn[up.conn].open => writing

SendersAgree ==
  WritersAgree /\ AttachedAgree /\ \A r \in Ids : Registered(r) => HomeAgrees(r)

\* What the last of the link messages of q that are about lane l says.
Mentions(q, l) == \E i \in DOMAIN q : q[i].lane = l
LastLinked(q, l) == \E i \in DOMAIN q : q[i] = Linked(l) /\ \A j \in DOMAIN q : j > i => q[j].lane # l

\* Whether remote r takes itself for linked to l once it has read all there is for it.
WillBeLinked(r, l) ==
  LET up == remotes[r]
      writing(n) == \E w \in writes : w.id = r /\ w.note = n
  IN  IF Mentions(up.specials, l) THEN LastLinked(up.specials, l)
      ELSE writing(Linked(l)) \/ (l \in conn[up.conn].told /\ ~writing(Unlinked(l)))

\* A remote that reads all there is for it knows its links.
KnowsItsLinks ==
  Serving =>
    \A r \in Ids : Registered(r) /\ conn[remotes[r].conn].open =>
      \A l \in Lanes : l \in backwards[r] <=> WillBeLinked(r, l)

\* The registries of links, remotes and timers fit together after whatever comes
\* and goes (Links, RemoteTracker, PruneRemotes).
IndexInv == RegistriesTypeOK /\ LinksAgree /\ IdleHasTimer

\* Every remote is told of its links as they come and go, and that they are closed
\* when the task stops in time (Uplinks::push_special, unlink_all, dispose_of_remotes).
ToldInv == SendersAgree /\ KnowsItsLinks /\ StopUnlinksAll

RegistriesInv == IndexInv /\ ToldInv

\* The timer never takes a remote that has a link.
LinkedNotPruned ==
  [][\A r \in Ids : (Registered(r) /\ backwards[r] # {} /\ Prune) => Registered(r)']_vars

\* "The number of active uplinks for the lane": what the lane reports is the
\* number of remotes that are linked to it.
ReportedIsActual ==
  phase = "running" => \A l \in lanes : link_count[l] = Cardinality(forward[l])
=============================================================================
