----------------------------- MODULE LaneQueues -----------------------------
(***************************************************************************)
(* The queues of map-like lanes (swimos_agent/src/lanes/queues/mod.rs,     *)
(* event_queue/mod.rs): one of the changes that are still to be reported,  *)
(* at most one for each key, and one of keys for each remote that syncs.   *)
(* They are records with                                                   *)
(*   events, head, epochs    EventQueue: the operations, the epoch of the  *)
(*                           first and the epoch of the one of each key    *)
(*   syncs                   sync_queues                                   *)
(*   index, next             NextWrite                                     *)
(* Epochs wrap around, at W instead of 2^64. The keys for a remote are a   *)
(* set: they are put in the order of a hash map, which is any.             *)
(***************************************************************************)
EXTENDS Naturals, Sequences, SequencesExt, FiniteSets

CONSTANTS
  Keys,   \* the keys of the map
  W,      \* how many epochs there are
  None    \* nothing

ASSUME LaneKeysAssumption == IsFiniteSet(Keys) /\ None \notin Keys
ASSUME WidthAssumption == W \in Nat /\ W > Cardinality(Keys) /\ None \notin 0..W

Changed(k) == [op |-> "update", key |-> k]
Removed(k) == [op |-> "remove", key |-> k]
Cleared == [op |-> "clear", key |-> None]

EmptyQueues ==
  [events |-> <<>>, head |-> 0, epochs |-> [k \in Keys |-> None],
   syncs |-> <<>>, index |-> 0, next |-> "event"]

Wrapped(n) == IF n < W THEN n ELSE n - W

\* Where the operation of a key is, by its epoch.
Place(q, k) == Wrapped(q.epochs[k] + W - q.head) + 1

\* EventQueue::push: an operation replaces the one of the same key, a clear all.
Push(q, a) ==
  IF a.op = "clear"
    THEN [q EXCEPT !.events = <<a>>, !.head = 0, !.epochs = [k \in Keys |-> None]]
    ELSE IF q.epochs[a.key] # None /\ Place(q, a.key) <= Len(q.events)
      THEN [q EXCEPT !.events[Place(q, a.key)] = a]
      ELSE [q EXCEPT !.events = Append(@, a), !.epochs[a.key] = Wrapped(q.head + Len(q.events))]

\* EventQueue::pop, of a queue that is not empty.
PopEvent(q) ==
  LET a == Head(q.events)
      p == [q EXCEPT !.events = Tail(@), !.head = Wrapped(@ + 1)]
  IN  IF a.op = "clear" THEN p ELSE [p EXCEPT !.epochs[a.key] = None]

\* update_sync_queues: what an event reports need not be synced any more.
Overtake(q, a) ==
  [q EXCEPT !.syncs =
     [i \in DOMAIN q.syncs |->
        [q.syncs[i] EXCEPT !.keys = IF a.op = "clear" THEN {} ELSE @ \ {a.key}]]]

\* WriteQueues::sync, for each of the remotes in turn.
PushSyncs(q, ids, keys) ==
  [q EXCEPT !.syncs = @ \o [i \in DOMAIN ids |-> [id |-> ids[i], keys |-> keys]]]

\* Mutant of Flip: events always come first.
FlipNot(q) == q

\* EventOrSync::flip
Flip(q) == [q EXCEPT !.next = IF @ = "event" THEN "sync" ELSE "event"]

\* WriteQueues::pop: what is to be written, None if nothing is, and what is left.
\* Events and syncs take turns, and so do the syncs.
PopQueues(q) ==
  LET p == Flip(q)
      s == q.syncs[q.index + 1]
      n == Len(q.syncs)
  IN  IF (q.next = "event" /\ q.events # <<>>) \/ q.syncs = <<>>
        THEN IF q.events = <<>>
               THEN {[out |-> [to |-> "none"], left |-> p]}
               ELSE {[out |-> [to |-> "event", action |-> Head(q.events)],
                      left |-> Overtake(PopEvent(p), Head(q.events))]}
        ELSE IF s.keys # {}
          THEN {[out |-> [to |-> "sync", id |-> s.id, key |-> k],
                 left |-> [p EXCEPT !.syncs[q.index + 1].keys = @ \ {k}, !.index = (@ + 1) % n]] :
                  k \in s.keys}
          ELSE {[out |-> [to |-> "synced", id |-> s.id],
                 left |-> [p EXCEPT !.syncs = RemoveAt(@, q.index + 1),
                                    !.index = IF @ >= n - 1 THEN 0 ELSE @]]}

NoneQueued(q) == q.events = <<>> /\ q.syncs = <<>>

\* The keys of which a change is still to be reported.
Reported(q) == {q.events[i].key : i \in DOMAIN q.events}

\* The keys that are still to be sent to a remote that syncs.
ToSync(q, id) == UNION {q.syncs[i].keys : i \in {j \in DOMAIN q.syncs : q.syncs[j].id = id}}

\* Each key has one operation at most, at the place its epoch says, and a clear
\* is the first of all.
QueuesOK(q) ==
  /\ \A k \in Keys :
       IF q.epochs[k] = None
         THEN \A i \in DOMAIN q.events : q.events[i].key # k
         ELSE \A i \in DOMAIN q.events : q.events[i].key = k <=> i = Place(q, k)
  /\ \A i \in DOMAIN q.events : q.events[i].op = "clear" => i = 1
  /\ q.index < Len(q.syncs) \/ q.index = 0
=============================================================================
