--------------------------- MODULE HostedDownlink ---------------------------
(***************************************************************************)
(* A downlink that is run by an agent                                      *)
(* (swimos_agent/src/agent_model/downlink/hosted/) and the part of the     *)
(* loop of the agent that drives it (agent_model/mod.rs): it is waited     *)
(* for, its notifications are handled one at a time, it is stopped by its  *)
(* handle, and it is connected again when its channel fails or ends.       *)
(*                                                                         *)
(* A value downlink has the one key 1.  An event downlink keeps no state;  *)
(* it says that its output has ended before anything else, so that its     *)
(* output is "active" until then.  The handlers of the lifecycle are given *)
(* what is handled here and do not change it.                              *)
(***************************************************************************)
EXTENDS Naturals, Sequences, SequencesExt, FiniteSets

CONSTANTS
  DlKinds,       \* of "value", "map" and "event"
  NumKeys,       \* the keys of a map are 1..NumKeys, in their order
  DlValues,      \* the values
  DlMapValues,   \* those that the entries of a map have
  ReconnectMax,  \* how often keep_linked_retry has another attempt be made
  Counts,        \* the numbers of entries that are taken or dropped
  MaxBehind,     \* the bound on the changes in the channel
  AddAfterTake   \* TRUE: keys are added to a map after some were taken or dropped; FALSE:
                 \* they are not, until it is cleared or the downlink connects again

ASSUME DlKindsAssumption == DlKinds \subseteq {"value", "map", "event"}
ASSUME DlBoundsAssumption ==
  NumKeys \in Nat \ {0} /\ ReconnectMax \in Nat /\ MaxBehind \in Nat /\ AddAfterTake \in BOOLEAN

VARIABLES
  config,     \* the kind of the downlink, and terminate_on_unlinked
  held,       \* its state: the entries, and the order of the keys if it is kept
  next,       \* the notification that is to be handled, if any
  dl_state,   \* "unlinked", "linked", "synced" or "stopped"
  receiver,   \* there is one
  output,     \* write_stream: "active", "inactive" or "stopped"
  stop,       \* what the handle has done: "none", "stopped" or "dropped"
  stop_rx,    \* the downlink has the trigger
  stage,      \* "waiting", "ready", "failed", "reconnect" or "removed"
  tries,      \* the attempts to connect that are left
  content,    \* the entries of the lane, while there is a link to it
  session,    \* of the lane: "open", "linked", "synced", "unlinked" or "closed"
  input       \* the notifications in the channel

localVars == <<held, next, dl_state, receiver, output, stop_rx, stage, tries>>
dlVars == <<config, localVars, stop, content, session, input>>

KeysIn(m) == {e[1] : e \in m}
Put(m, k, v) == {e \in m : e[1] # k} \cup {<<k, v>>}
Without(m, ks) == {e \in m : e[1] \notin ks}

\* The n first or last of a set of keys.
FirstKeys(n, ks) == {k \in ks : Cardinality({j \in ks : j < k}) < n}
LastKeys(n, ks) == {k \in ks : Cardinality({j \in ks : j > k}) < n}
Excess(n, m) == IF Cardinality(m) > n THEN Cardinality(m) - n ELSE 0

NoState == [map |-> {}, order |-> <<>>]
IsLinked == dl_state \in {"linked", "synced"}

DlInit ==
  /\ config \in [kind : DlKinds, terminate_on_unlinked : BOOLEAN]
  /\ held = NoState /\ next = <<>> /\ dl_state = "unlinked"
  /\ receiver = TRUE /\ output = "active" /\ stop = "none" /\ stop_rx = TRUE
  /\ stage = "waiting" /\ tries = 0
  /\ content = {} /\ session = "open" /\ input = <<>>
-----------------------------------------------------------------------------
\* MapDlState: the order of the keys is made when it is first needed.
OrderOf(h) == IF h.order = <<>> THEN KeysIn(h.map) ELSE h.order[1]

DropKeys(h, ks) == [map |-> Without(h.map, ks), order |-> <<OrderOf(h) \ ks>>]

\* The state after a notification; an update puts the key in the order only if it
\* had a value.
Handled(h, n) ==
  IF config.kind = "event" THEN h
  ELSE
    CASE n.is = "update" ->
         [map |-> Put(h.map, n.key, n.value),
          order |-> IF h.order # <<>> /\ n.key \in KeysIn(h.map)
                      THEN <<h.order[1] \cup {n.key}>> ELSE h.order]
      [] n.is = "remove" ->
         [map |-> Without(h.map, {n.key}),
          order |-> IF h.order # <<>> /\ n.key \in KeysIn(h.map)
                      THEN <<h.order[1] \ {n.key}>> ELSE h.order]
      [] n.is = "take" ->
         IF Excess(n.count, h.map) > 0
           THEN DropKeys(h, LastKeys(Excess(n.count, h.map), OrderOf(h)))
           ELSE h
      [] n.is = "drop" ->
         IF n.count >= Cardinality(h.map) THEN NoState
         ELSE DropKeys(h, FirstKeys(n.count, OrderOf(h)))
      [] n.is \in {"clear", "unlinked", "bad"} -> NoState
      [] OTHER -> h

\* next_event: the state, and where the link is after the notification.
Linking(n) ==
  CASE n.is = "linked" -> IF dl_state = "unlinked" THEN "linked" ELSE dl_state
    [] n.is = "synced" -> "synced"
    [] n.is \in {"unlinked", "bad"} ->
         IF config.terminate_on_unlinked THEN "stopped" ELSE "unlinked"
    [] OTHER -> dl_state

\* The first attempt to connect again does not count as a retry.
Reconnect == stage' = "reconnect" /\ tries' = ReconnectMax + 1

NoSession == session' = "closed" /\ input' = <<>> /\ content' = {}

\* The receiver is dropped: what is in the channel is lost, and the output is
\* closed.
DropReceiver ==
  /\ receiver' = FALSE
  /\ output' = IF output = "active" THEN "inactive" ELSE output
  /\ NoSession

\* A link that ends is handled as one that was unlinked.
Ended ==
  /\ DropReceiver
  /\ IF IsLinked
       THEN next' = <<[is |-> "unlinked"]>> /\ stage' = "ready" /\ UNCHANGED tries
       ELSE Reconnect /\ UNCHANGED next
-----------------------------------------------------------------------------
\* The stop signal comes before anything that is read or written; but an event
\* downlink looks for it only while it has a receiver.
StopReady ==
  /\ stop_rx /\ stop # "none"
  /\ config.kind = "event" => receiver /\ output # "active"

StopSeen ==
  /\ stage = "waiting" /\ StopReady
  /\ stop_rx' = FALSE
  /\ IF stop = "stopped" THEN Ended
     ELSE UNCHANGED <<next, receiver, output, stage, tries, content, session, input>>
  /\ UNCHANGED <<config, held, dl_state, stop>>

CanRead ==
  stage = "waiting" /\ receiver /\ ~StopReady /\ (config.kind = "event" => output # "active")

ReadNext ==
  /\ CanRead /\ input # <<>>
  /\ next' = <<Head(input)>>
  /\ IF Head(input).is = "bad"
       THEN DropReceiver /\ stage' = "failed"
       ELSE /\ stage' = "ready" /\ input' = Tail(input)
            /\ UNCHANGED <<receiver, output, content, session>>
  /\ UNCHANGED <<config, held, dl_state, stop, stop_rx, tries>>

ReadEnd ==
  /\ CanRead /\ input = <<>> /\ session = "closed"
  /\ Ended
  /\ UNCHANGED <<config, held, dl_state, stop, stop_rx>>

NoReceiver ==
  /\ stage = "waiting" /\ ~receiver /\ ~StopReady /\ (config.kind = "event" => output # "active")
  /\ Reconnect
  /\ output' = IF output = "active" THEN "inactive" ELSE output
  /\ UNCHANGED <<config, held, next, dl_state, receiver, stop, stop_rx, content, session, input>>

\* The other end no longer reads.  There is still a receiver, but it is not read
\* again.
WriteFails ==
  /\ stage = "waiting" /\ config.kind # "event" /\ output = "active" /\ ~StopReady
  /\ output' = "inactive"
  /\ Reconnect
  /\ NoSession
  /\ UNCHANGED <<config, held, next, dl_state, receiver, stop, stop_rx>>

\* The handle is gone, and with it all that there is to write.
WriteEnds ==
  /\ stage = "waiting" /\ output = "active" /\ ~StopReady
  /\ config.kind = "event" \/ stop = "dropped"
  /\ output' = "stopped"
  /\ UNCHANGED <<config, held, next, dl_state, receiver, stop, stop_rx, stage, tries, content,
                 session, input>>

\* The loop of the agent runs the handler of the notification and waits again, or
\* connects again if the channel has failed.
NextEvent ==
  /\ stage \in {"ready", "failed"}
  /\ LET n == next[1]
     IN  /\ held' = Handled(held, n)
         /\ dl_state' = Linking(n)
         /\ IF n.is \in {"unlinked", "bad"} /\ config.terminate_on_unlinked
              THEN receiver' = FALSE /\ NoSession
              ELSE UNCHANGED <<receiver, content, session, input>>
  /\ next' = <<>>
  /\ IF stage = "failed" THEN Reconnect ELSE stage' = "waiting" /\ UNCHANGED tries
  /\ UNCHANGED <<config, output, stop, stop_rx>>
-----------------------------------------------------------------------------
\* Mutant of CanRestart: that the downlink was stopped is forgotten.
CanRestartStopped == ~config.terminate_on_unlinked

CanRestart == ~config.terminate_on_unlinked /\ stop_rx

\* Mutant of ClearState: what the last session left is kept.
ClearStateNot == UNCHANGED held

ClearState == held' = NoState

\* An attempt to open the downlink succeeds, and it is connected: a new session.
ReconnectSucceeds ==
  /\ stage = "reconnect" /\ CanRestart /\ tries > 0
  /\ ClearState
  /\ next' = <<>> /\ dl_state' = "unlinked" /\ receiver' = TRUE
  /\ output' = IF output = "stopped" /\ config.kind # "event" THEN "stopped" ELSE "active"
  /\ stage' = "waiting" /\ tries' = 0
  /\ session' = "open" /\ input' = <<>>
  /\ UNCHANGED <<config, stop, stop_rx, content>>

ReconnectFails ==
  /\ stage = "reconnect" /\ CanRestart /\ tries > 0
  /\ tries' = tries - 1
  /\ UNCHANGED <<config, held, next, dl_state, receiver, output, stop, stop_rx, stage, content,
                 session, input>>

\* The downlink is dropped.
ReconnectNotPossible ==
  /\ stage = "reconnect" /\ (~CanRestart \/ tries = 0)
  /\ stage' = "removed" /\ tries' = 0
  /\ held' = NoState /\ next' = <<>> /\ dl_state' = "stopped" /\ receiver' = FALSE
  /\ output' = "stopped" /\ stop_rx' = FALSE
  /\ NoSession
  /\ UNCHANGED <<config, stop>>
-----------------------------------------------------------------------------
\* ValueDownlinkHandle::stop, or the handle is dropped.
StopHandle ==
  /\ stop = "none" /\ stage # "removed"
  /\ stop' \in {"stopped", "dropped"}
  /\ UNCHANGED <<config, localVars, content, session, input>>

\* The lane at the other end, through the runtime of the downlink.
Sends(ns) == input' = input \o ns

\* It may have changed in any way since the last session.
Contents ==
  IF config.kind = "map" THEN {{<<k, v>> : k \in ks} : ks \in SUBSET (1..NumKeys), v \in DlMapValues}
  ELSE {{<<1, v>>} : v \in DlValues}

LaneLinks ==
  /\ session = "open"
  /\ session' = "linked"
  /\ content' \in Contents
  /\ Sends(<<[is |-> "linked"]>>)
  /\ UNCHANGED <<config, localVars, stop>>

Updates(m) ==
  FoldLeft(LAMBDA s, k : LET e == CHOOSE x \in m : x[1] = k
                         IN  Append(s, [is |-> "update", key |-> k, value |-> e[2]]),
           <<>>, SetToSortSeq(KeysIn(m), <))

LaneSyncs ==
  /\ session = "linked"
  /\ session' = "synced"
  /\ Sends(Append(Updates(content), [is |-> "synced"]))
  /\ UNCHANGED <<config, localVars, stop, content>>

\* What a notification does to the entries of the lane.
Applied(m, n) ==
  CASE n.is = "update" -> Put(m, n.key, n.value)
    [] n.is = "remove" -> Without(m, {n.key})
    [] n.is = "take" -> Without(m, KeysIn(m) \ FirstKeys(n.count, KeysIn(m)))
    [] n.is = "drop" -> Without(m, FirstKeys(n.count, KeysIn(m)))
    [] n.is = "clear" -> {}
    [] OTHER -> m

Pending == next \o input
Partial == held.order # <<>> \/ \E i \in DOMAIN Pending : Pending[i].is \in {"take", "drop"}

MayChange(n) ==
  CASE n.is = "update" -> Partial => n.key \in KeysIn(content) \/ AddAfterTake
    [] n.is = "remove" -> n.key \in KeysIn(content)
    [] n.is \in {"take", "drop"} -> session = "synced"
    [] OTHER -> TRUE

Notifications ==
  IF config.kind # "map" THEN [is : {"update"}, key : {1}, value : DlValues]
  ELSE [is : {"update"}, key : 1..NumKeys, value : DlMapValues] \cup [is : {"remove"}, key : 1..NumKeys]
         \cup [is : {"take", "drop"}, count : Counts] \cup [is : {"clear"}]

LaneChanges ==
  /\ session \in {"linked", "synced"}
  /\ Len(input) < MaxBehind
  /\ \E n \in Notifications :
       /\ MayChange(n)
       /\ content' = Applied(content, n)
       /\ Sends(<<n>>)
  /\ UNCHANGED <<config, localVars, stop, session>>

LaneUnlinks ==
  /\ session \in {"linked", "synced"}
  /\ session' = "unlinked" /\ content' = {}
  /\ Sends(<<[is |-> "unlinked"]>>)
  /\ UNCHANGED <<config, localVars, stop>>

\* The channel is closed, and a frame that cannot be read may be the last.
LaneCloses ==
  /\ session # "closed"
  /\ session' = "closed" /\ content' = {}
  /\ Sends(<<>>) \/ (session # "open" /\ Sends(<<[is |-> "bad"]>>))
  /\ UNCHANGED <<config, localVars, stop>>

DlStep ==
  \/ StopSeen \/ ReadNext \/ ReadEnd \/ NoReceiver \/ WriteEnds \/ NextEvent
  \/ ReconnectSucceeds \/ ReconnectFails \/ ReconnectNotPossible

LaneStep == LaneLinks \/ LaneSyncs \/ LaneChanges \/ LaneUnlinks \/ LaneCloses

DlNext == DlStep \/ WriteFails \/ StopHandle \/ LaneStep

DlSpec == DlInit /\ [][DlNext]_dlVars

\* The loop of the agent polls the downlink when it can go on, and attempts to
\* open it end.
DlFairSpec == DlSpec /\ WF_dlVars(DlStep)
-----------------------------------------------------------------------------
\* A downlink that has synced is up to date but for what it has not handled yet,
\* whatever the sessions before left; one that is not linked has no state.
CaughtUp ==
  config.kind # "event" =>
    /\ dl_state = "synced" /\ session = "synced" => FoldLeft(Applied, held.map, Pending) = content
    /\ dl_state \in {"unlinked", "stopped"} => held = NoState

\* A downlink that is stopped is removed, also if it is being connected again,
\* and the attempts to do that come to an end.
DownlinkEnds ==
  /\ stop = "stopped" ~> stage = "removed"
  /\ stage = "reconnect" ~> stage # "reconnect"

\* "a separate ordered set of the keys which will then be kept up to date with the
\* map"
OrderKept == held.order # <<>> => held.order[1] = KeysIn(held.map)
=============================================================================
