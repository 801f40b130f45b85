----------------------------- MODULE JoinLanes ------------------------------
(***************************************************************************)
(* The join lanes of an agent (swimos_agent/src/lanes/join/): a map that   *)
(* is filled by downlinks which handlers of the agent add and remove.  In  *)
(* a join value lane each downlink sets the entry of its own key; in a     *)
(* join map lane each may change any entry, and Links keeps which of them  *)
(* changed it last.                                                        *)
(*                                                                         *)
(* The downlinks are event downlinks that end when they are unlinked       *)
(* (agent_model/downlink/hosted/event/mod.rs).  What the lane at the other *)
(* end says is chosen as it is read.  The loop of the agent polls a        *)
(* downlink, takes what it has read and runs the handler to its end before *)
(* it does anything else (agent_model/mod.rs), so that it is one step. The *)
(* values of the entries make no difference here.  Neither does Synced, as *)
(* events are handled before it too and on_synced changes nothing, so that *)
(* it is left out and "Linked" stands for both states.                     *)
(***************************************************************************)
EXTENDS Naturals, Sequences, FiniteSets

CONSTANTS
  JoinKinds,  \* of "map" and "value"
  LinkKeys,   \* the keys of the links; those of a value lane are those of its entries
  EntryKeys,  \* the keys of the entries, in their order
  Takes,      \* the numbers of entries that are taken or dropped
  MaxOpened,  \* the bound on the downlinks that are opened for each link
  Nobody      \* no link

ASSUME JoinKindsAssumption == JoinKinds \subseteq {"map", "value"}
ASSUME JoinKeysAssumption ==
  LinkKeys \subseteq EntryKeys /\ EntryKeys \subseteq Nat /\ Takes \subseteq Nat
ASSUME JoinBoundsAssumption ==
  MaxOpened \in [LinkKeys -> Nat \ {0}] /\ Nobody \notin LinkKeys

VARIABLES
  joined,     \* the kind of the lane, and the LinkClosedResponses of its lifecycle
  links,      \* of each link its status, its keys and the downlink stop_tx stops
  ownership,  \* which link each key belongs to
  inner,      \* the keys of the entries of the map
  marked,     \* the entries when the agent was last told that the lane was modified
  hosted      \* the downlinks of each link, in the order in which they were opened

joinVars == <<joined, links, ownership, inner, marked, hosted>>
laneVars == <<links, ownership, inner, marked>>

NoStop == 0
NoLink == [status |-> "None", keys |-> {}, stop_tx |-> NoStop]

\* A downlink may have been triggered to stop.  alone: no other downlink of its link
\* ran when it was opened (the code keeps no such thing: it is here for the
\* properties).
Downlink(s, alone) == [state |-> s, stop |-> FALSE, alone |-> alone]
Stopped == Downlink("Stopped", TRUE)

JoinInit ==
  /\ joined \in [kind : JoinKinds, responses : {{"Delete"}, {"Abandon", "Delete"}}]
  /\ links = [l \in LinkKeys |-> NoLink]
  /\ ownership = [k \in EntryKeys |-> Nobody]
  /\ inner = {} /\ marked = {}
  /\ hosted = [l \in LinkKeys |-> <<>>]

IsUp(d) == d.state = "Linked"
Live(d) == d.state # "Stopped"
HasLive(l) == \E i \in DOMAIN hosted[l] : Live(hosted[l][i])
HasUp(l) == \E i \in DOMAIN hosted[l] : IsUp(hosted[l][i])
-----------------------------------------------------------------------------
\* AddDownlinkAction: nothing is done if there is the link.  A downlink that the
\* link had before it was removed may still be running.
AddDownlink(l) ==
  /\ links[l].status = "None"
  /\ Len(hosted[l]) < MaxOpened[l]
  /\ links' = [links EXCEPT ![l] =
       [status |-> "Pending", keys |-> {}, stop_tx |-> Len(hosted[l]) + 1]]
  /\ hosted' = [hosted EXCEPT ![l] = Append(@, Downlink("Opening", ~HasLive(l)))]
  /\ UNCHANGED <<joined, ownership, inner, marked>>

\* The downlink is registered with the loop of the agent; that this failed is only
\* logged.
Registers(l, i) ==
  /\ hosted[l][i].state = "Opening"
  /\ \/ hosted' = [hosted EXCEPT ![l][i].state = "Unlinked"]
     \/ hosted' = [hosted EXCEPT ![l][i] = Stopped]
  /\ UNCHANGED <<joined, laneVars>>

\* Mutant of StopDownlink: it is not triggered.
StopDownlinkNot(l) == UNCHANGED hosted

\* The stop_tx of a link is triggered, if it has one.
StopDownlink(l) ==
  LET i == links[l].stop_tx
  IN  hosted' = IF i # NoStop /\ Live(hosted[l][i])
                  THEN [hosted EXCEPT ![l][i].stop = TRUE] ELSE hosted

\* JoinMapRemoveDownlink and JoinValueRemoveDownlink: the agent is not told that
\* the lane was modified.  What belongs to the link of a map lane is not forgotten.
RemoveMapDownlink(l) ==
  /\ joined.kind = "map" /\ links[l].status # "None"
  /\ inner' = inner \ links[l].keys
  /\ StopDownlink(l)
  /\ links' = [links EXCEPT ![l] = NoLink]
  /\ UNCHANGED <<joined, ownership, marked>>

RemoveValueDownlink(l) ==
  /\ joined.kind = "value" /\ links[l].status # "None"
  /\ inner' = IF links[l].stop_tx = NoStop THEN inner ELSE inner \ {l}
  /\ StopDownlink(l)
  /\ links' = [links EXCEPT ![l] = NoLink]
  /\ UNCHANGED <<joined, ownership, marked>>
-----------------------------------------------------------------------------
(* What the notifications of the downlinks of link l do to the lane.        *)

\* on_linked: AlterLinkState and AlterKeyState add a link that is not there.
AlterLinkState(l) ==
  /\ links' = [links EXCEPT ![l].status = "Linked"]
  /\ UNCHANGED <<ownership, inner, marked>>

\* Links::insert
Inserted(l, k) ==
  LET with == [links EXCEPT ![l].keys = @ \cup {k}]
      old == ownership[k]
  IN  IF old = Nobody THEN with ELSE [with EXCEPT ![old].keys = @ \ {k}]

\* The first n of a set of keys.
FirstOf(n, ks) == {k \in ks : Cardinality({j \in ks : j < k}) < n}

\* The keys that a message other than an update removes: Links::remove, clear, take
\* and drop.
Dropped(l, m) ==
  LET ks == links[l].keys
  IN  CASE m.is = "remove" -> {m.key}
        [] m.is = "clear" -> ks
        [] m.is = "take" -> ks \ FirstOf(m.key, ks)
        [] m.is = "drop" -> FirstOf(m.key, ks)

Disown(ks) == [k \in EntryKeys |-> IF k \in ks THEN Nobody ELSE ownership[k]]

\* JoinMapLane::update, which has no effect unless the link is there and linked.
OnMapMessage(l, m) ==
  IF links[l].status # "Linked" THEN UNCHANGED laneVars
  ELSE IF m.is = "update"
    THEN /\ inner' = inner \cup {m.key} /\ marked' = inner'
         /\ links' = Inserted(l, m.key) /\ ownership' = [ownership EXCEPT ![m.key] = l]
  ELSE LET ks == Dropped(l, m)
       IN  /\ inner' = inner \ ks /\ marked' = inner'
           /\ links' = [links EXCEPT ![l].keys = @ \ ks] /\ ownership' = Disown(ks)

\* JoinValueLaneUpdate does not look at the link.
OnValueEvent(l) ==
  /\ inner' = inner \cup {l} /\ marked' = inner'
  /\ UNCHANGED <<links, ownership>>

\* The entries that a link leaves are deleted or not, as the lifecycle responds.
\* (Retry is a todo!.)
Response(ks) ==
  \E response \in joined.responses :
    IF response = "Delete" /\ ks # {}
      THEN inner' = inner \ ks /\ marked' = inner'
      ELSE UNCHANGED <<inner, marked>>

\* Mutant of AfterClosed: the link is left in the lane.
AfterClosedKeeping(l) == Response({l}) /\ UNCHANGED <<links, ownership>>

\* on_unlinked and on_failed of a join value lane.
AfterClosed(l) ==
  /\ links' = [links EXCEPT ![l] = NoLink]
  /\ Response({l})
  /\ UNCHANGED ownership

\* Mutant of AfterMapClosed: the entries stay.
AfterMapClosedOnly(l) ==
  /\ links' = [links EXCEPT ![l] = NoLink]
  /\ ownership' = Disown(links[l].keys)
  /\ UNCHANGED <<inner, marked>>

\* The same of a join map lane: the keys are the link's no more (RunOnUnlinkedTrans)
\* before it is removed.
AfterMapClosed(l) ==
  /\ links' = [links EXCEPT ![l] = NoLink]
  /\ ownership' = Disown(links[l].keys)
  /\ Response(links[l].keys)

UnlinkedNote == [is |-> "unlinked", key |-> 0]
FailedNote == [is |-> "failed", key |-> 0]
LinkedNote == [is |-> "linked", key |-> 0]
Closing(n) == n \in {UnlinkedNote, FailedNote}

\* What the handler of a notification does.
Handler(l, n) ==
  CASE n = LinkedNote -> AlterLinkState(l)
    [] Closing(n) -> IF joined.kind = "map" THEN AfterMapClosed(l) ELSE AfterClosed(l)
    [] OTHER -> IF joined.kind = "map" THEN OnMapMessage(l, n) ELSE OnValueEvent(l)

\* next_event, and the handler is run.  After it has been unlinked the downlink is
\* dropped, as it can not restart.
NextNotification(l, i, n) ==
  /\ Handler(l, n)
  /\ hosted' = [hosted EXCEPT ![l][i] =
       CASE n = LinkedNote -> [@ EXCEPT !.state = "Linked"]
         [] Closing(n) -> Stopped
         [] OTHER -> @]
  /\ UNCHANGED joined
-----------------------------------------------------------------------------
\* The loop of the agent waits for the downlink.
Waiting(d) == d.state \in {"Unlinked", "Linked"}

\* What the lane at the other end may say.
Notifications(l, d) ==
  LET changes == IF joined.kind = "value"
                   THEN {[is |-> "update", key |-> l]}
                   ELSE [is : {"update", "remove"}, key : EntryKeys]
                          \cup {[is |-> "clear", key |-> 0]}
                          \cup [is : {"take", "drop"}, key : Takes]
  IN  {UnlinkedNote, FailedNote} \cup (IF IsUp(d) THEN changes ELSE {LinkedNote})

\* The stop signal comes before anything that is read.
Reads(l, i) ==
  /\ Waiting(hosted[l][i]) /\ ~hosted[l][i].stop
  /\ \E n \in Notifications(l, hosted[l][i]) : NextNotification(l, i, n)

\* The downlink is stopped, or its channel ends: it is unlinked if it was linked,
\* and is dropped without a word if it was not.
Ends(l, i) ==
  /\ Waiting(hosted[l][i])
  /\ IF IsUp(hosted[l][i])
       THEN NextNotification(l, i, UnlinkedNote)
       ELSE hosted' = [hosted EXCEPT ![l][i] = Stopped] /\ UNCHANGED <<joined, laneVars>>
-----------------------------------------------------------------------------
JoinNext ==
  \E l \in LinkKeys :
    \/ AddDownlink(l) \/ RemoveMapDownlink(l) \/ RemoveValueDownlink(l)
    \/ \E i \in DOMAIN hosted[l] :
         Registers(l, i) \/ Reads(l, i) \/ Ends(l, i)

JoinSpec == JoinInit /\ [][JoinNext]_joinVars
-----------------------------------------------------------------------------
Downlinks ==
  [state : {"Opening", "Unlinked", "Linked", "Stopped"}, stop : BOOLEAN, alone : BOOLEAN]

JoinTypeOK ==
  /\ joined \in [kind : JoinKinds, responses : SUBSET {"Abandon", "Delete"}]
  /\ links \in [LinkKeys -> [status : {"None", "Pending", "Linked"}, keys : SUBSET EntryKeys,
                             stop_tx : Nat]]
  /\ ownership \in [EntryKeys -> LinkKeys \cup {Nobody}]
  /\ inner \subseteq EntryKeys /\ marked \subseteq EntryKeys
  /\ hosted \in [LinkKeys -> Seq(Downlinks)]
  /\ \A l \in LinkKeys :
       /\ links[l].stop_tx <= Len(hosted[l]) /\ Len(hosted[l]) <= MaxOpened[l]
       /\ links[l].status = "None" => links[l].stop_tx = NoStop

\* Downlink i of link l runs and was not removed.
Runs(l, i) == Live(hosted[l][i]) /\ ~hosted[l][i].stop

\* What is taken for linked is.  A downlink that was opened when no other of its link
\* ran, and that runs, is the one that removing the link stops, its messages are
\* taken, and no other downlink of the link runs beside it: whatever earlier and
\* later ones did (AddDownlink, the removals, AfterClosed).  Nothing is said of a
\* downlink that was opened while an earlier one of its link still ran: see
\* PairsAreSet.
LinksAgreeWithDownlinks ==
  \A l \in LinkKeys :
    /\ links[l].status = "Linked" => HasUp(l)
    /\ \A i \in DOMAIN hosted[l] :
         Runs(l, i) /\ hosted[l][i].alone =>
           /\ links[l].stop_tx = i
           /\ IsUp(hosted[l][i]) => links[l].status = "Linked"
           /\ \A j \in DOMAIN hosted[l] : j # i => ~Live(hosted[l][j])

\* If entries are deleted with their links, one of a value lane does not outlive
\* the downlink that set it, although its link may be gone; and one of a map lane
\* belongs to some link.
EntriesGoWithLinks ==
  joined.responses = {"Delete"} =>
    \A k \in inner : IF joined.kind = "value"
                       THEN k \in LinkKeys /\ HasUp(k)
                       ELSE ownership[k] # Nobody

\* The agent has been told of every entry that there is.
EntriesAreMarked == inner \subseteq marked

\* The lane keeps to its downlinks, whatever the order in which they are added,
\* removed and notified, but for what LinksAgreeWithDownlinks leaves out (the handlers
\* above): all of this together.
JoinInv ==
  JoinTypeOK /\ LinksAgreeWithDownlinks /\ EntriesGoWithLinks /\ EntriesAreMarked

\* agent_lifecycle/utility/mod.rs:830: "Add a downlink to a Join Map lane. All
\* key-value pairs received on the downlink will be set into the map state of the
\* lane."  A downlink that is linked, and that was not removed, has the link without
\* which JoinMapLane::update sets nothing.  This does not hold: AfterClosed of an
\* earlier downlink removes the link, whichever downlink has it by then.
PairsAreSet ==
  joined.kind = "map" =>
    \A l \in LinkKeys : \A i \in DOMAIN hosted[l] :
      IsUp(hosted[l][i]) /\ Runs(l, i) => links[l].status = "Linked"

\* map/mod.rs:64: "Each entry in the map is 'owned' by the link that most recently
\* updated it. When a 'clear' message is received on a link, all keys owned by that
\* link will be removed from the map."  What a clear would leave of the entries that
\* a linked link owns.  This does not hold: Links::insert takes a key that the link
\* has already from its own keys.
ClearRemovesOwned ==
  joined.kind = "map" =>
    \A l \in LinkKeys : links[l].status = "Linked" =>
      \A k \in inner \ Dropped(l, [is |-> "clear", key |-> 0]) : ownership[k] # l
=============================================================================
