----------------------------- MODULE AgentStore -----------------------------
(***************************************************************************)
(* The state of one agent across its instances: the in-memory store that   *)
(* keeps it while no instance runs (in_memory_store/mod.rs), how a new     *)
(* instance takes it and restores its items (agent/task/init/mod.rs,       *)
(* agent/store/mod.rs, agent_model/init/mod.rs), how changes are saved     *)
(* while it runs (persist_response) and what becomes of it when the        *)
(* instance ends, fails or the store does.                                 *)
(*                                                                         *)
(* The content of an item is in cells: one for a value, one for each key   *)
(* of a map; Absent is a cell that has no value, or the default.           *)
(* The order of the cells in a map is left out.  How the lanes write, and  *)
(* how the write task relays, is in AgentTask and WriteTask; here a change *)
(* goes from the queue of its item through its channel to the store.       *)
(***************************************************************************)
EXTENDS Naturals, Sequences, SequencesExt, FiniteSets

CONSTANTS
  Items,           \* the value and map lanes and stores of the agent
  MapItems,        \* those that are maps
  Private,         \* those that are stores: nobody is told of their changes
  Transient,       \* those that are declared transient
  CellsOf,         \* the cells of each item
  Overlaps,        \* whether an instance may be replaced before it is destroyed
  Faults,          \* whether the store fails and initialisation times out
  OnStartChanges,  \* whether on_start changes an item
  MaxStarts,       \* bound: instances
  MaxWrites,       \* bound: changes of cells
  Room             \* how many frames a channel takes

Cells == UNION {CellsOf[x] : x \in Items}
Starts == 1..MaxStarts
Absent == 0
Nothing == [c \in Cells |-> Absent]
Contents == [Cells -> 0..MaxWrites]

Clear == "clear"

ASSUME ItemsAssumption ==
  /\ MapItems \subseteq Items /\ Private \subseteq Items /\ Transient \subseteq Items
  /\ \A x, y \in Items : x # y => CellsOf[x] \cap CellsOf[y] = {}
  /\ \A x \in Items \ MapItems : Cardinality(CellsOf[x]) = 1
  /\ Items \ Private # {}
  /\ Overlaps \subseteq BOOLEAN /\ Faults \in BOOLEAN /\ OnStartChanges \in BOOLEAN
  /\ MaxStarts \in Nat /\ MaxWrites \in Nat /\ Room \in Nat \ {0}

\* The cells of an item are finitely many, and none has the name of an operation on all
\* or of the frame that ends an initialisation.
ASSUME CellsAssumption ==
  (\A x \in Items : IsFiniteSet(CellsOf[x])) /\ Cells # {} /\ Clear \notin Cells /\ "none" \notin Cells

VARIABLES
  overlap,   \* this server replaces an instance that has not been destroyed yet
  entry,     \* NodeEntry of the node: where it is, the state if it is idle, who waits
  channel,   \* the instance in `agent_channels`, 0 if there is none
  inst,      \* the phase of each instance
  held,      \* the NodeState in the InMemoryNodePersistence of each instance
  item,      \* how far the initialisation of each item is
  memory,    \* the items of each instance
  started,   \* on_start has run
  queue,     \* the changes of each item that have not been written
  dirty,     \* the items of each instance that were marked as changed
  out,       \* the channel from each item to the write task
  told,      \* what was last relayed of each cell of a lane
  made       \* how many changes there were

plane == <<entry, channel>>
agentVars == <<item, memory, started, queue, dirty, out>>
storeVars == <<overlap, plane, inst, held, agentVars, told, made>>

Dead == MaxStarts + 1  \* a waiter whose receiver was dropped
NoState == [c \in {} |-> Absent]

Persistent == Items \ Transient
Kept == UNION {CellsOf[x] : x \in Persistent}
Public == UNION {CellsOf[x] : x \in Persistent \ Private}

NotAdded == [at |-> "none", todo |-> <<>>, frames |-> <<>>, got |-> Nothing, acked |-> FALSE]

IdleEntry(s) == [at |-> "idle", state |-> s, waiter |-> 0]
InUse(w) == [at |-> "inUse", state |-> NoState, waiter |-> w]

StoreInit ==
  /\ overlap \in Overlaps
  /\ entry = [at |-> "absent", state |-> NoState, waiter |-> 0]
  /\ channel = 0
  /\ inst = [i \in Starts |-> "none"]
  /\ held = [i \in Starts |-> NoState]
  /\ item = [i \in Starts |-> [x \in Items |-> NotAdded]]
  /\ memory = [i \in Starts |-> Nothing]
  /\ started = [i \in Starts |-> FALSE]
  /\ queue = [i \in Starts |-> [x \in Items |-> <<>>]]
  /\ dirty = [i \in Starts |-> {}]
  /\ out = [i \in Starts |-> [x \in Items |-> <<>>]]
  /\ told = Nothing
  /\ made = 0

-----------------------------------------------------------------------------
(* The plane: requests for the node, and instances that end.               *)

Stored == IF entry.at = "idle" THEN entry.state ELSE Nothing

\* node_store: the state is there unless another instance has it; then there is
\* one place to wait, which the last to come takes.
NodeStore(i) ==
  IF entry.at = "inUse"
    THEN /\ entry' = InUse(i)
         /\ inst' = [inst EXCEPT ![i] = "waiting"]
         /\ UNCHANGED held
    ELSE /\ entry' = InUse(0)
         /\ inst' = [inst EXCEPT ![i] = "init"]
         /\ held' = [held EXCEPT ![i] = Stored]

\* resolve_agent starts an instance, with the future of node_store.
StartAgent(i) ==
  /\ channel = 0 /\ inst[i] = "none"
  /\ \A j \in Starts : j < i => inst[j] # "none"
  /\ channel' = i
  /\ NodeStore(i)
  /\ UNCHANGED <<overlap, agentVars, told, made>>

\* node_store is called for each request, and its future dropped when the agent
\* runs already: a state that it took goes back, a place to wait stays taken.
FindRunning ==
  /\ channel # 0
  /\ entry' = IF entry.at = "inUse" THEN InUse(Dead) ELSE IdleEntry(Stored)
  /\ UNCHANGED <<overlap, channel, inst, held, agentVars, told, made>>

\* The receiver of one that waits ends when its place is taken.
WaitFails(i) ==
  /\ inst[i] = "waiting" /\ entry.waiter # i
  /\ inst' = [inst EXCEPT ![i] = "gone"]
  /\ UNCHANGED <<overlap, plane, held, agentVars, told, made>>

\* Drop of InMemoryNodePersistence: the state goes to the one that waits, or back.
ReturnState(i) ==
  IF entry.at = "inUse" /\ entry.waiter \in Starts /\ inst[entry.waiter] = "waiting"
    THEN /\ entry' = InUse(0)
         /\ held' = [held EXCEPT ![i] = NoState, ![entry.waiter] = held[i]]
         /\ inst' = [inst EXCEPT ![i] = "gone", ![entry.waiter] = "init"]
    ELSE /\ entry' = IdleEntry(held[i])
         /\ held' = [held EXCEPT ![i] = NoState]
         /\ inst' = [inst EXCEPT ![i] = "gone"]

\* The future of the agent ends and what it owns is dropped; `memory` is kept as
\* what the items had at the end.
Destroy(i) ==
  /\ inst[i] = "ending"
  /\ ReturnState(i)
  /\ item' = [item EXCEPT ![i] = [x \in Items |-> NotAdded]]
  /\ started' = [started EXCEPT ![i] = FALSE]
  /\ queue' = [queue EXCEPT ![i] = [x \in Items |-> <<>>]]
  /\ dirty' = [dirty EXCEPT ![i] = {}]
  /\ out' = [out EXCEPT ![i] = [x \in Items |-> <<>>]]
  /\ UNCHANGED <<overlap, channel, memory, told, made>>

\* ServerEvent::AgentStopped
AgentStopped(i) ==
  /\ channel = i
  /\ inst[i] = "gone" \/ (overlap /\ inst[i] = "ending")
  /\ channel' = 0
  /\ UNCHANGED <<overlap, entry, inst, held, agentVars, told, made>>

-----------------------------------------------------------------------------
(* Initialisation: the runtime sends what is stored of each item, the      *)
(* agent puts it together and acknowledges.                                *)

ToItem(i, x, s) == item' = [item EXCEPT ![i][x] = s]

\* add_lane, add_store: a transient item has nothing to restore.
AddItem(i, x) ==
  /\ inst[i] = "init" /\ item[i][x].at = "none"
  /\ ToItem(i, x,
       IF x \in Transient
         THEN [NotAdded EXCEPT !.at = "ready", !.acked = TRUE]
         ELSE [NotAdded EXCEPT !.at = "sending",
                               !.todo = SetToSeq({c \in CellsOf[x] : held[i][c] # Absent})])
  /\ UNCHANGED <<overlap, plane, inst, held, memory, started, queue, dirty, out, told, made>>

InitComplete == [cell |-> "none", to |-> Absent]

\* ValueInit, MapInit: a frame for each cell, then InitComplete.
SendFrame(i, x) ==
  LET t == item[i][x]
  IN  /\ inst[i] = "init" /\ t.at = "sending" /\ Len(t.frames) < Room
      /\ ToItem(i, x,
           IF t.todo # <<>>
             THEN [t EXCEPT !.todo = Tail(@),
                            !.frames = Append(@, [cell |-> Head(t.todo), to |-> held[i][Head(t.todo)]])]
             ELSE [t EXCEPT !.at = "sent", !.frames = Append(@, InitComplete)])
      /\ UNCHANGED <<overlap, plane, inst, held, memory, started, queue, dirty, out, told, made>>

AllAdded(i) == \A x \in Items : item[i][x].at # "none"
AllRead(i) == \A x \in Items : item[i][x].acked
AllReady(i) == \A x \in Items : item[i][x].at = "ready"

\* init_stream, value_like_init, map_like_init: the agent reads once it has added
\* all its items.
ReadFrame(i, x) ==
  LET t == item[i][x]
      f == Head(t.frames)
  IN  /\ inst[i] = "init" /\ AllAdded(i) /\ t.frames # <<>> /\ f # InitComplete
      /\ ToItem(i, x, [t EXCEPT !.frames = Tail(@), !.got[f.cell] = f.to])
      /\ UNCHANGED <<overlap, plane, inst, held, memory, started, queue, dirty, out, told, made>>

\* run_item_initializer: the content is complete, which is acknowledged, and set.
ReadComplete(i, x) ==
  LET t == item[i][x]
  IN  /\ inst[i] = "init" /\ AllAdded(i) /\ t.frames # <<>> /\ Head(t.frames) = InitComplete
      /\ ToItem(i, x, [t EXCEPT !.frames = <<>>, !.got = Nothing, !.acked = TRUE])
      /\ memory' = [memory EXCEPT ![i] = [c \in Cells |-> IF c \in CellsOf[x] THEN t.got[c] ELSE @[c]]]
      /\ UNCHANGED <<overlap, plane, inst, held, started, queue, dirty, out, told, made>>

\* wait_for_initialized: the runtime has the endpoint of an item.
ItemReady(i, x) ==
  /\ inst[i] = "init" /\ item[i][x].at = "sent" /\ item[i][x].acked
  /\ ToItem(i, x, [item[i][x] EXCEPT !.at = "ready"])
  /\ UNCHANGED <<overlap, plane, inst, held, memory, started, queue, dirty, out, told, made>>

\* The store cannot be read, an item does not answer in time, or on_start fails:
\* both sides of the initialisation end.
InitFails(i) ==
  /\ Faults
  /\ inst[i] = "init" /\ ~(started[i] /\ AllReady(i))
  /\ inst' = [inst EXCEPT ![i] = "ending"]
  /\ UNCHANGED <<overlap, plane, held, agentVars, told, made>>

-----------------------------------------------------------------------------
(* Changes: the queue of an item has one operation at most for each cell,  *)
(* and a clear takes the place of all.                                     *)

Enqueue(q, c) == IF c \in ToSet(q) THEN q ELSE Append(q, c)

\* A value is set, or an entry of a map updated or removed.
Assign(i, x, c, to) ==
  /\ made < MaxWrites
  /\ made' = made + 1
  /\ memory' = [memory EXCEPT ![i][c] = to]
  /\ queue' = [queue EXCEPT ![i][x] = Enqueue(@, c)]

\* on_start runs when the content of all items is set.  What it changes is queued
\* as ever, but its items are not marked (Discard).
OnStart(i) ==
  /\ inst[i] = "init" /\ AllAdded(i) /\ AllRead(i) /\ ~started[i]
  /\ started' = [started EXCEPT ![i] = TRUE]
  /\ \/ UNCHANGED <<memory, queue, made>>
     \/ /\ OnStartChanges
        /\ \E x \in Items : \E c \in CellsOf[x] : Assign(i, x, c, made + 1)
  /\ UNCHANGED <<overlap, plane, inst, held, item, dirty, out, told>>

\* The initialisation is complete on both sides: the runtime and the agent run.
Begin(i) ==
  /\ inst[i] = "init" /\ started[i] /\ AllReady(i)
  /\ inst' = [inst EXCEPT ![i] = "running"]
  /\ item' = [item EXCEPT ![i] = [x \in Items |-> NotAdded]]
  /\ UNCHANGED <<overlap, plane, held, memory, started, queue, dirty, out, told, made>>

\* A handler changes an item, which is marked.
Change(i, x) ==
  /\ inst[i] = "running"
  /\ \/ \E c \in CellsOf[x] :
          \/ Assign(i, x, c, made + 1)
          \/ x \in MapItems /\ memory[i][c] # Absent /\ Assign(i, x, c, Absent)
     \/ /\ x \in MapItems /\ \E c \in CellsOf[x] : memory[i][c] # Absent
        /\ made < MaxWrites
        /\ made' = made + 1
        /\ memory' = [memory EXCEPT ![i] = [c \in Cells |-> IF c \in CellsOf[x] THEN Absent ELSE @[c]]]
        /\ queue' = [queue EXCEPT ![i][x] = <<Clear>>]
  /\ dirty' = [dirty EXCEPT ![i] = @ \cup {x}]
  /\ UNCHANGED <<overlap, plane, inst, held, item, started, out, told>>

\* What an operation says is what the item holds when it is written.
Operation(i, op) == [cell |-> op, to |-> IF op = Clear THEN Absent ELSE memory[i][op]]

\* Mutant of MoreToWrite: the item is taken to have written all.
MoreToWriteNever(i, x) == FALSE

\* WriteResult::DataStillAvailable
MoreToWrite(i, x) == Len(queue[i][x]) > 1

\* The event loop writes the first change of a marked item, which stays marked
\* while it has more.  A transient store has no channel and stays marked.
WriteOut(i, x) ==
  /\ inst[i] = "running" /\ x \in dirty[i] /\ x \notin Private \cap Transient
  /\ Len(out[i][x]) < Room
  /\ out' = [out EXCEPT ![i][x] = Append(@, Operation(i, Head(queue[i][x])))]
  /\ queue' = [queue EXCEPT ![i][x] = Tail(@)]
  /\ dirty' = [dirty EXCEPT ![i] = IF MoreToWrite(i, x) THEN @ ELSE @ \ {x}]
  /\ UNCHANGED <<overlap, plane, inst, held, item, memory, started, told, made>>

\* put_value, update_map, remove_map, clear_map
Applied(s, x, op) ==
  [c \in Cells |-> IF c = op.cell \/ (op.cell = Clear /\ c \in CellsOf[x]) THEN op.to ELSE s[c]]

Relay(x, op) == told' = IF x \in Persistent \ Private THEN Applied(told, x, op) ELSE told

\* An event of the write task: saved if the item has an id in the store, then relayed.
HandleEvent(i, x) ==
  /\ inst[i] = "running" /\ out[i][x] # <<>>
  /\ held' = IF x \in Persistent THEN [held EXCEPT ![i] = Applied(@, x, Head(out[i][x]))] ELSE held
  /\ Relay(x, Head(out[i][x]))
  /\ out' = [out EXCEPT ![i][x] = Tail(@)]
  /\ UNCHANGED <<overlap, plane, inst, item, memory, started, queue, dirty, made>>

\* Mutant of SaveFails: what cannot be saved is relayed all the same.
SaveFailsLate(i, x) ==
  /\ Faults
  /\ inst[i] = "running" /\ out[i][x] # <<>> /\ x \in Persistent
  /\ inst' = [inst EXCEPT ![i] = "ending"]
  /\ Relay(x, Head(out[i][x]))
  /\ UNCHANGED <<overlap, plane, held, agentVars, made>>

\* persist_response fails: the write task ends before it relays, and with it all.
SaveFails(i, x) ==
  /\ Faults
  /\ inst[i] = "running" /\ out[i][x] # <<>> /\ x \in Persistent
  /\ inst' = [inst EXCEPT ![i] = "ending"]
  /\ UNCHANGED <<overlap, plane, held, agentVars, told, made>>

\* The agent is told to stop, is not used any more, or fails: what has not reached
\* the write task is not read (clear_lanes_and_stores).
StopAgent(i) ==
  /\ inst[i] = "running"
  /\ inst' = [inst EXCEPT ![i] = "ending"]
  /\ UNCHANGED <<overlap, plane, held, agentVars, told, made>>

-----------------------------------------------------------------------------
InitStep(i) ==
  \/ \E x \in Items : AddItem(i, x) \/ SendFrame(i, x) \/ ReadFrame(i, x)
                  \/ ReadComplete(i, x) \/ ItemReady(i, x)
  \/ OnStart(i) \/ Begin(i)

SaveStep(i, x) == WriteOut(i, x) \/ HandleEvent(i, x)

StoreNext ==
  \/ FindRunning
  \/ \E i \in Starts :
       \/ StartAgent(i) \/ WaitFails(i) \/ Destroy(i) \/ AgentStopped(i)
       \/ InitStep(i) \/ InitFails(i) \/ StopAgent(i)
       \/ \E x \in Items : Change(i, x) \/ SaveStep(i, x) \/ SaveFails(i, x)

StoreSpec == StoreInit /\ [][StoreNext]_storeVars

StoreStep == \E i \in Starts :
  InitStep(i) \/ WaitFails(i) \/ Destroy(i) \/ \E x \in Items : SaveStep(i, x)

\* The tasks of an instance go on, and what has ended is destroyed.  There are
\* finitely many such steps, so that fairness of all is fairness of each.
StoreFairSpec == StoreSpec /\ WF_storeVars(StoreStep)

-----------------------------------------------------------------------------
StoreTypeOK ==
  /\ entry.at \in {"absent", "idle", "inUse"}
  /\ entry.state \in Contents \cup {NoState} /\ entry.waiter \in 0..Dead
  /\ channel \in 0..MaxStarts
  /\ inst \in [Starts -> {"none", "waiting", "init", "running", "ending", "gone"}]
  /\ held \in [Starts -> Contents \cup {NoState}]
  /\ memory \in [Starts -> Contents] /\ told \in Contents
  /\ made \in 0..MaxWrites

Holders == {i \in Starts : held[i] # NoState}

\* The state of the agent is in one place: with the plane, or with the one instance
\* that is initialised or runs.
OneState ==
  CASE entry.at = "absent" -> Holders = {} /\ \A i \in Starts : inst[i] = "none"
    [] entry.at = "idle"   -> Holders = {} /\ entry.state # NoState
    [] entry.at = "inUse"  -> Cardinality(Holders) = 1
                              /\ Holders = {i \in Starts : inst[i] \in {"init", "running", "ending"}}

SavedState == IF Holders # {} THEN held[CHOOSE i \in Holders : TRUE] ELSE Stored

\* What remotes were told of a lane is saved, whatever fails afterwards.
ToldIsKept == \A c \in Public : SavedState[c] = told[c]

\* The operations of an item that have not reached the store.
OnItsWay(i, x) == out[i][x] \o [n \in DOMAIN queue[i][x] |-> Operation(i, queue[i][x][n])]

Touches(op, c) == op.cell \in {c, Clear}

\* The last of the operations that touches a cell says v, or s has it and none does.
Accounted(ops, s, c, v) ==
  \/ \E n \in DOMAIN ops :
       Touches(ops[n], c) /\ ops[n].to = v /\ \A m \in DOMAIN ops : m > n => ~Touches(ops[m], c)
  \/ s[c] = v /\ \A n \in DOMAIN ops : ~Touches(ops[n], c)

\* An instance that runs has restored all that was saved: each item differs from
\* it only by the changes that are on their way.
NothingForgotten ==
  \A i \in Starts : inst[i] = "running" =>
    \A x \in Persistent : \A c \in CellsOf[x] : Accounted(OnItsWay(i, x), held[i], c, memory[i][c])

\* The state of an agent is in one place, holds what anybody was told, and is what
\* the items have but for changes that are on their way: instances that take the
\* state from one another (in_memory_store), restoration in frames that the item
\* acknowledges (init), and persist_response before relaying.
StoreInv == StoreTypeOK /\ OneState /\ ToldIsKept /\ NothingForgotten

\* An instance that is started runs or ends, one that waits for the state of
\* another too; and what a handler changed is saved unless the instance ends.
StoreSettles ==
  /\ (\E i \in Starts : inst[i] \in {"waiting", "init"})
       ~> (\A i \in Starts : inst[i] \notin {"waiting", "init"})
  /\ \A x \in Persistent :
       (\E i \in Starts : inst[i] = "running" /\ x \in dirty[i])
         ~> (\A i \in Starts : inst[i] = "running" =>
               \A c \in CellsOf[x] : memory[i][c] = held[i][c])

\* The content that an instance restores is what the instance before it had when
\* it ended (docs/define.md:113).
StateRestored ==
  \A i \in Starts : i > 1 /\ inst[i] = "init" /\ AllAdded(i) /\ AllRead(i) /\ ~started[i]
    => \A c \in Kept : memory[i][c] = memory[i - 1][c]
=============================================================================
