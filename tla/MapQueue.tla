------------------------------ MODULE MapQueue ------------------------------
(***************************************************************************)
(* MapOperationQueue (runtime/swimos_runtime/src/backpressure/map_queue):  *)
(* the queue that holds the operations of a map lane or map downlink while *)
(* its output is blocked.  An operation on a key that is queued replaces   *)
(* the queued one in place; a clear empties the queue.                     *)
(*                                                                         *)
(* A key finds its slot through epoch_map: the epoch it was queued at,     *)
(* less the epoch of the head, in the wrapping arithmetic of usize.  The   *)
(* width of usize is the constant Modulus, so that a small instance wraps. *)
(* A key that is not UTF-8 is refused with InvalidKey before the queue is  *)
(* touched; keys equal as Recon are one key here.  The byte buffer that    *)
(* the copies are carved from holds no state of its own.                   *)
(***************************************************************************)
EXTENDS Integers, Sequences, FiniteSets

CONSTANTS Keys, Values, NoKey, NoValue, NoEpoch, Modulus

ASSUME KeysAssumption == IsFiniteSet(Keys) /\ NoKey \notin Keys
ASSUME ValuesAssumption == NoValue \notin Values
ASSUME ModulusAssumption ==
  Modulus \in Nat /\ Modulus > Cardinality(Keys) + 1 /\ NoEpoch \notin 0..Modulus

VARIABLES
  head_epoch,   \* the epoch of the entry at the head
  queue,        \* the queued operations
  epoch_map,    \* the epoch of each key with an entry
  source,       \* the map after every operation pushed so far
  replica       \* the map after every operation popped so far

vars == <<head_epoch, queue, epoch_map, source, replica>>

Entries ==
  [op : {"Update", "Remove", "Clear"}, key : Keys \cup {NoKey}, value : Values \cup {NoValue}]

Update(k, v) == [op |-> "Update", key |-> k, value |-> v]
RemoveEntry(k) == [op |-> "Remove", key |-> k, value |-> NoValue]
Clear == [op |-> "Clear", key |-> NoKey, value |-> NoValue]

Empty == [k \in Keys |-> NoValue]

Init ==
  /\ head_epoch = 0
  /\ queue = <<>>
  /\ epoch_map = [k \in Keys |-> NoEpoch]
  /\ source = Empty
  /\ replica = Empty

\* usize::wrapping_add and wrapping_sub of operands below the modulus.
WrappingAdd(a, b) == IF a + b < Modulus THEN a + b ELSE a + b - Modulus

WrappingSub(a, b) == IF a >= b THEN a - b ELSE a - b + Modulus

\* Mutant of Slot: a saturating subtraction in place of the wrapping one.
SlotSaturating(k) ==
  (IF epoch_map[k] >= head_epoch THEN epoch_map[k] - head_epoch ELSE 0) + 1

\* The position (from 1) of the entry that epoch_map gives for k.
Slot(k) == WrappingSub(epoch_map[k], head_epoch) + 1

\* `epoch_map.get(..).and_then(.. queue.get_mut(index))` finds an entry.
HasSlot(k) == epoch_map[k] # NoEpoch /\ Slot(k) <= Len(queue)

\* Mutant of Place: the entry is moved to the tail of the queue.
PlaceAtTail(k, e) ==
  /\ queue' = Append(SelectSeq(queue, LAMBDA x : x.key # k), e)
  /\ epoch_map' = [j \in Keys |->
       IF \E i \in DOMAIN queue' : queue'[i].key = j
         THEN WrappingAdd(head_epoch, (CHOOSE i \in DOMAIN queue' : queue'[i].key = j) - 1)
         ELSE NoEpoch]

\* An entry replaces the one its key has, or goes to the tail.
Place(k, e) ==
  IF HasSlot(k)
    THEN queue' = [queue EXCEPT ![Slot(k)] = e] /\ UNCHANGED epoch_map
    ELSE /\ queue' = Append(queue, e)
         /\ epoch_map' = [epoch_map EXCEPT ![k] = WrappingAdd(head_epoch, Len(queue))]

PushUpdate(k, v) ==
  /\ Place(k, Update(k, v))
  /\ source' = [source EXCEPT ![k] = v]
  /\ UNCHANGED <<head_epoch, replica>>

PushRemove(k) ==
  /\ Place(k, RemoveEntry(k))
  /\ source' = [source EXCEPT ![k] = NoValue]
  /\ UNCHANGED <<head_epoch, replica>>

\* Mutant of EpochsAfterClear: the keys keep their epochs.
EpochsKept == epoch_map

\* epoch_map.clear()
EpochsAfterClear == [k \in Keys |-> NoEpoch]

PushClear ==
  /\ head_epoch' = 0
  /\ queue' = <<Clear>>
  /\ epoch_map' = EpochsAfterClear
  /\ source' = Empty
  /\ UNCHANGED replica

\* What an operation does to a map.
Applied(e, m) ==
  IF e.op = "Clear" THEN Empty ELSE [m EXCEPT ![e.key] = e.value]

\* The epoch advances for every entry popped, a clear included.
EpochAfterPop == WrappingAdd(head_epoch, 1)

EpochsAfterPop(e) ==
  IF e.op = "Clear" THEN epoch_map ELSE [epoch_map EXCEPT ![e.key] = NoEpoch]

\* pop of a queue that has an entry; the entry is written to the far side.
Pop ==
  /\ queue # <<>>
  /\ head_epoch' = EpochAfterPop
  /\ queue' = Tail(queue)
  /\ epoch_map' = EpochsAfterPop(Head(queue))
  /\ replica' = Applied(Head(queue), replica)
  /\ UNCHANGED source

Next ==
  \/ \E k \in Keys, v \in Values : PushUpdate(k, v)
  \/ \E k \in Keys : PushRemove(k)
  \/ PushClear
  \/ Pop

Spec == Init /\ [][Next]_vars

\* The writer that drains the queue is resumed after each completed write.
FairSpec == Spec /\ WF_vars(Pop)
-----------------------------------------------------------------------------
TypeOK ==
  /\ head_epoch \in 0..(Modulus - 1)
  /\ queue \in Seq(Entries)
  /\ epoch_map \in [Keys -> 0..(Modulus - 1) \cup {NoEpoch}]
  /\ source \in [Keys -> Values \cup {NoValue}]
  /\ replica \in [Keys -> Values \cup {NoValue}]

Queued == {queue[i].key : i \in DOMAIN queue} \ {NoKey}

Wiped == queue # <<>> /\ queue[1].op = "Clear"

\* epoch_map and the queue describe each other, whatever the wrap-around: the
\* slot computed for a key holds the entry of that key (the debug_assert of
\* push), and every entry after a clear belongs to a key that can find it.
SlotsAgree ==
  /\ \A k \in Keys :
       epoch_map[k] # NoEpoch => Slot(k) <= Len(queue) /\ queue[Slot(k)].key = k
  /\ \A i \in DOMAIN queue :
       queue[i].op # "Clear" =>
         /\ queue[i].key \in Keys
         /\ epoch_map[queue[i].key] = WrappingAdd(head_epoch, i - 1)

\* No key is queued twice, and "if a clear operation is pushed into the queue,
\* the queue will be emptied and the clear pushed at the head".
OnePerKey ==
  /\ \A i, j \in DOMAIN queue : queue[i].key = queue[j].key => i = j
  /\ \A i \in DOMAIN queue :
       /\ queue[i].op = "Clear" <=> queue[i].key = NoKey
       /\ queue[i].op = "Clear" => i = 1
       /\ queue[i].op # "Update" => queue[i].value = NoValue

\* Nothing is lost by conflation: what is queued for a key is the state the
\* source has for it, and a key that is not queued needs no operation.
NothingLost ==
  /\ \A i \in DOMAIN queue :
       queue[i].key \in Keys => queue[i].value = source[queue[i].key]
  /\ \A k \in Keys \ Queued :
       source[k] = IF Wiped THEN NoValue ELSE replica[k]

\* The invariant that is inductive.
IInv == TypeOK /\ SlotsAgree /\ OnePerKey /\ NothingLost

\* The far side is exact whenever the queue runs empty.
DrainedIsExact == queue = <<>> => replica = source

\* "without altering its position in the queue": no later operation moves a
\* queued key back, so a key that is updated all the time is still sent.
NeverMovedBack ==
  [][\A k \in Keys :
       (k \in Queued /\ k \in Queued') =>
         \A i \in DOMAIN queue, j \in DOMAIN queue' :
           (queue[i].key = k /\ queue'[j].key = k) => j <= i]_vars

\* Every queued key is sent (or wiped by a clear), however often it, and the
\* other keys, are updated meanwhile.
QueuedIsRelayed == \A k \in Keys : (k \in Queued) ~> (k \notin Queued)

Relay == INSTANCE MapRelaySpec WITH behind <- Queued, wiped <- Wiped

\* The queue implements the relay: an entry that is popped is the newest state
\* of its key.
ImplementsRelay == Relay!Spec
=============================================================================
