--------------------------- MODULE QueuesProofs ---------------------------
(***************************************************************************)
(* Proofs about MapQueue, for any finite set of keys, any values and any   *)
(* width of the epochs that leaves room for one entry per key and a clear: *)
(* the epochs and the queue agree through every wrap-around, nothing is    *)
(* lost by conflation, and the queue implements MapRelaySpec. Proofs about *)
(* CircularBuffer, for every capacity and any number of records: the       *)
(* permits account for the queue, the newest record is never lost, the     *)
(* records are received in order and no wake-up is missed. Proofs about    *)
(* ExternalLinks, for any addresses, endpoints and downlinks: no command is*)
(* lost but to a later one, and the last for each target arrives last.     *)
(***************************************************************************)
EXTENDS MapQueue, CircularBuffer, ExternalLinks, FiniteSetTheorems, SequenceTheorems, TLAPS

-----------------------------------------------------------------------------
(* The queue of the operations on a map.                                   *)

\* There is room for a clear at least.
LEMMA PositiveModulus == Modulus \in Nat /\ 0 < Modulus - 1
BY KeysAssumption, ModulusAssumption, FS_CardinalityType

\* Wrapping arithmetic stays in range, and a subtraction undoes an addition.
LEMMA Wrapping ==
  ASSUME NEW a \in 0..(Modulus - 1), NEW b \in 0..(Modulus - 1)
  PROVE  /\ WrappingAdd(a, b) \in 0..(Modulus - 1)
         /\ WrappingSub(a, b) \in 0..(Modulus - 1)
         /\ WrappingSub(WrappingAdd(a, b), a) = b
         /\ WrappingAdd(a, WrappingSub(b, a)) = b
BY ModulusAssumption DEF WrappingAdd, WrappingSub

\* The epoch that is one further on is one less away.
LEMMA NextEpoch ==
  ASSUME NEW a \in 0..(Modulus - 1), NEW i \in 1..(Modulus - 1)
  PROVE  WrappingAdd(WrappingAdd(a, 1), i - 1) = WrappingAdd(a, i)
BY ModulusAssumption DEF WrappingAdd

\* A sequence of entries with different keys is shorter than the epochs are wide.
LEMMA QueueBound ==
  ASSUME TypeOK, OnePerKey
  PROVE  Len(queue) \in 0..(Modulus - 1)
<1> DEFINE T == Keys \cup {NoKey}
           f == [i \in 1..Len(queue) |-> queue[i].key]
<1>1. IsFiniteSet(T) /\ Cardinality(T) = Cardinality(Keys) + 1
  BY KeysAssumption, FS_AddElement
<1>2. Len(queue) \in Nat /\ DOMAIN queue = 1..Len(queue)
  BY LenProperties DEF TypeOK
<1>3. f \in [1..Len(queue) -> T]
  <2>1. \A i \in 1..Len(queue) : queue[i] \in Entries
    BY ElementOfSeq DEF TypeOK
  <2>2. \A i \in 1..Len(queue) : queue[i].key \in T
    BY <2>1 DEF Entries
  <2> QED BY <2>2
<1>4. \A i, j \in 1..Len(queue) : f[i] = f[j] => i = j
  BY <1>2 DEF OnePerKey
<1>5. f \in Injection(1..Len(queue), T)
  BY <1>3, <1>4 DEF Injection, IsInjective
<1> HIDE DEF T, f
<1>6. Cardinality(1..Len(queue)) <= Cardinality(T)
  BY <1>1, <1>5, FS_Injection
<1>7. Cardinality(1..Len(queue)) = Len(queue)
  <2>1. Cardinality(1..Len(queue)) = IF 1 > Len(queue) THEN 0 ELSE Len(queue) - 1 + 1
    BY <1>2, FS_Interval
  <2> QED BY <1>2, <2>1
<1>8. Cardinality(Keys) \in Nat
  BY KeysAssumption, FS_CardinalityType
<1> QED
  BY <1>1, <1>2, <1>6, <1>7, <1>8, ModulusAssumption

\* What the invariant says of each position of the queue.
LEMMA QueueFacts ==
  ASSUME IInv
  PROVE  /\ Len(queue) \in 0..(Modulus - 1)
         /\ DOMAIN queue = 1..Len(queue)
         /\ \A i \in 1..Len(queue) :
              /\ queue[i] \in Entries
              /\ queue[i].key \in Keys \/ (queue[i].op = "Clear" /\ i = 1)
<1>1. Len(queue) \in 0..(Modulus - 1)
  BY QueueBound DEF IInv
<1>2. DOMAIN queue = 1..Len(queue)
  BY LenProperties DEF IInv, TypeOK
<1>3. \A i \in 1..Len(queue) : queue[i] \in Entries
  BY ElementOfSeq DEF IInv, TypeOK
<1> QED
  BY <1>1, <1>2, <1>3 DEF IInv, SlotsAgree, OnePerKey

\* The slot of a key is where its entry is: a key has a slot exactly if it is queued.
LEMMA SlotFacts ==
  ASSUME IInv, NEW k \in Keys
  PROVE  /\ epoch_map[k] # NoEpoch =>
              /\ Slot(k) \in 1..Len(queue)
              /\ queue[Slot(k)].key = k
              /\ HasSlot(k)
         /\ epoch_map[k] = NoEpoch => \A i \in 1..Len(queue) : queue[i].key # k
<1>1. ASSUME epoch_map[k] # NoEpoch
      PROVE  Slot(k) \in 1..Len(queue) /\ queue[Slot(k)].key = k /\ HasSlot(k)
  <2>1. head_epoch \in 0..(Modulus - 1) /\ epoch_map[k] \in 0..(Modulus - 1)
    BY <1>1 DEF IInv, TypeOK
  <2>2. WrappingSub(epoch_map[k], head_epoch) \in 0..(Modulus - 1)
    BY <2>1, Wrapping
  <2>3. Slot(k) <= Len(queue) /\ queue[Slot(k)].key = k
    BY <1>1 DEF IInv, SlotsAgree
  <2>4. Len(queue) \in Nat /\ Modulus \in Nat
    BY QueueFacts, ModulusAssumption
  <2> QED
    BY <1>1, <2>2, <2>3, <2>4 DEF Slot, HasSlot
<1>2. ASSUME epoch_map[k] = NoEpoch, NEW i \in 1..Len(queue)
      PROVE  queue[i].key # k
  <2> SUFFICES ASSUME queue[i].key = k PROVE FALSE
    OBVIOUS
  <2>1. queue[i].op # "Clear"
    BY KeysAssumption, QueueFacts DEF IInv, OnePerKey
  <2>2. epoch_map[k] = WrappingAdd(head_epoch, i - 1)
    BY <2>1, QueueFacts DEF IInv, SlotsAgree
  <2>3. head_epoch \in 0..(Modulus - 1) /\ i - 1 \in 0..(Modulus - 1)
    BY QueueFacts, ModulusAssumption DEF IInv, TypeOK
  <2>4. WrappingAdd(head_epoch, i - 1) \in 0..(Modulus - 1)
    BY <2>3, Wrapping
  <2> QED
    BY <1>2, <2>2, <2>4, ModulusAssumption
<1> QED BY <1>1, <1>2

\* The invariant holds initially.
LEMMA InitIInv == Init => IInv
<1> SUFFICES ASSUME Init PROVE IInv
  OBVIOUS
<1>0. 0 \in 0..(Modulus - 1)
  BY PositiveModulus
<1>1. TypeOK
  BY <1>0 DEF Init, TypeOK, Empty
<1>2. SlotsAgree /\ OnePerKey /\ NothingLost
  BY <1>1 DEF Init, TypeOK, SlotsAgree, OnePerKey, NothingLost, Queued, Wiped, Empty
<1> QED BY <1>1, <1>2 DEF IInv

\* An entry for key k, as push makes them.
EntryFor(k, e) ==
  /\ e \in Entries
  /\ e.key = k
  /\ e.op # "Clear"
  /\ e.op # "Update" => e.value = NoValue

\* What placing an entry for k does to the queue as a whole: k is queued, nothing
\* that was queued moves, and a clear at the head stays.
Placed(k) ==
  /\ Queued' = Queued \cup {k}
  /\ Wiped' = Wiped
  /\ \A i \in DOMAIN queue : i \in DOMAIN queue' /\ queue'[i].key = queue[i].key

\* An entry written over the one its key has preserves the invariant.
LEMMA ReplaceIInv ==
  ASSUME IInv, NEW k \in Keys, NEW e, EntryFor(k, e), HasSlot(k), Place(k, e),
         source' = [source EXCEPT ![k] = e.value], UNCHANGED <<head_epoch, replica>>
  PROVE  IInv' /\ Placed(k)
<1> DEFINE s == Slot(k)
<1>1. s \in 1..Len(queue) /\ queue[s].key = k
  BY SlotFacts DEF HasSlot
<1>2. queue' = [queue EXCEPT ![s] = e] /\ epoch_map' = epoch_map
  BY DEF Place
<1>3. Len(queue) \in Nat /\ DOMAIN queue = 1..Len(queue)
  BY QueueFacts, ModulusAssumption
<1> HIDE DEF s
<1>4. /\ queue' \in Seq(Entries) /\ Len(queue') = Len(queue)
      /\ DOMAIN queue' = 1..Len(queue)
  BY <1>1, <1>2, <1>3, ExceptSeq, LenProperties DEF IInv, TypeOK, EntryFor
<1>5. \A i \in 1..Len(queue) : queue'[i] = IF i = s THEN e ELSE queue[i]
  BY <1>1, <1>2, <1>3
<1>6. \A i \in 1..Len(queue) : queue'[i].key = queue[i].key
  BY <1>1, <1>5 DEF EntryFor
<1>7. queue[s].op # "Clear"
  BY <1>1, <1>3, KeysAssumption DEF IInv, OnePerKey
<1>8. \A i \in 1..Len(queue) : queue'[i].op = "Clear" <=> queue[i].op = "Clear"
  BY <1>5, <1>7 DEF EntryFor
<1>9. TypeOK'
  BY <1>2, <1>4 DEF IInv, TypeOK, EntryFor, Entries
<1>10. SlotsAgree'
  <2>1. \A j \in Keys : Slot(j)' = Slot(j)
    BY <1>2 DEF Slot
  <2>2. ASSUME NEW j \in Keys, epoch_map'[j] # NoEpoch
        PROVE  Slot(j)' <= Len(queue') /\ queue'[Slot(j)'].key = j
    BY <1>2, <1>4, <1>6, <2>1, <2>2, SlotFacts
  <2>3. ASSUME NEW i \in DOMAIN queue', queue'[i].op # "Clear"
        PROVE  queue'[i].key \in Keys /\ epoch_map'[queue'[i].key] = WrappingAdd(head_epoch', i - 1)
    BY <1>2, <1>3, <1>4, <1>6, <1>8, <2>3 DEF IInv, SlotsAgree
  <2> QED BY <2>2, <2>3 DEF SlotsAgree
<1>11. OnePerKey'
  <2>1. \A i, j \in DOMAIN queue' : queue'[i].key = queue'[j].key => i = j
    BY <1>3, <1>4, <1>6 DEF IInv, OnePerKey
  <2>2. ASSUME NEW i \in DOMAIN queue'
        PROVE  /\ queue'[i].op = "Clear" <=> queue'[i].key = NoKey
               /\ queue'[i].op = "Clear" => i = 1
    BY <1>3, <1>4, <1>6, <1>8 DEF IInv, OnePerKey
  <2>3. ASSUME NEW i \in DOMAIN queue', queue'[i].op # "Update"
        PROVE  queue'[i].value = NoValue
    BY <1>3, <1>4, <1>5, <2>3 DEF IInv, OnePerKey, EntryFor
  <2> QED BY <2>1, <2>2, <2>3 DEF OnePerKey
<1>12. Queued' = Queued /\ k \in Queued
  BY <1>1, <1>3, <1>4, <1>6, KeysAssumption DEF Queued
<1>13. Wiped' = Wiped
  <2>1. queue # <<>> /\ queue' # <<>> /\ 1 \in 1..Len(queue)
    BY <1>1, <1>3, <1>4
  <2> QED BY <2>1, <1>8 DEF Wiped
<1>14. NothingLost'
  <2>3. source \in [Keys -> Values \cup {NoValue}]
    BY DEF IInv, TypeOK
  <2>4. ASSUME NEW i \in DOMAIN queue', queue'[i].key \in Keys
        PROVE  queue'[i].value = source'[queue'[i].key]
    <3>1. CASE i = s
      BY <3>1, <1>1, <1>5, <2>3 DEF EntryFor
    <3>2. CASE i # s
      <4>1. queue'[i] = queue[i] /\ i \in DOMAIN queue /\ queue[i].key # k
        BY <3>2, <1>1, <1>3, <1>4, <1>5 DEF IInv, OnePerKey
      <4> QED BY <4>1, <2>3, <2>4 DEF IInv, NothingLost
    <3> QED BY <3>1, <3>2
  <2>5. ASSUME NEW j \in Keys \ Queued'
        PROVE  source'[j] = IF Wiped' THEN NoValue ELSE replica'[j]
    BY <1>12, <1>13, <2>3 DEF IInv, NothingLost
  <2> QED BY <2>4, <2>5 DEF NothingLost
<1>15. Placed(k)
  BY <1>3, <1>4, <1>6, <1>12, <1>13 DEF Placed
<1> QED BY <1>9, <1>10, <1>11, <1>14, <1>15 DEF IInv

\* An entry for a key that has none goes to the tail and preserves the invariant.
LEMMA AppendIInv ==
  ASSUME IInv, NEW k \in Keys, NEW e, EntryFor(k, e), ~HasSlot(k), Place(k, e),
         source' = [source EXCEPT ![k] = e.value], UNCHANGED <<head_epoch, replica>>
  PROVE  IInv' /\ Placed(k)
<1> DEFINE n == Len(queue)
           ep == WrappingAdd(head_epoch, n)
<1>1. epoch_map[k] = NoEpoch /\ \A i \in 1..n : queue[i].key # k
  BY SlotFacts
<1>2. queue' = Append(queue, e) /\ epoch_map' = [epoch_map EXCEPT ![k] = ep]
  BY DEF Place
<1>3. n \in 0..(Modulus - 1) /\ n \in Nat /\ DOMAIN queue = 1..n /\ Modulus \in Nat
  BY QueueFacts, ModulusAssumption
<1>4. head_epoch \in 0..(Modulus - 1) /\ ep \in 0..(Modulus - 1)
      /\ WrappingSub(ep, head_epoch) = n
  BY <1>3, Wrapping DEF IInv, TypeOK
<1>5. /\ queue' \in Seq(Entries) /\ Len(queue') = n + 1 /\ DOMAIN queue' = 1..(n + 1)
      /\ queue'[n + 1] = e /\ \A i \in 1..n : queue'[i] = queue[i]
  BY <1>2, <1>3, AppendProperties, LenProperties DEF IInv, TypeOK, EntryFor
<1>6. epoch_map' \in [Keys -> 0..(Modulus - 1) \cup {NoEpoch}]
      /\ epoch_map'[k] = ep /\ \A j \in Keys \ {k} : epoch_map'[j] = epoch_map[j]
  BY <1>2, <1>4 DEF IInv, TypeOK
<1> HIDE DEF n, ep
<1>7. TypeOK'
  BY <1>5, <1>6 DEF IInv, TypeOK, EntryFor, Entries
<1>8. SlotsAgree'
  <2>1. Slot(k)' = n + 1
    BY <1>4, <1>6 DEF Slot
  <2>2. \A j \in Keys \ {k} : Slot(j)' = Slot(j)
    BY <1>6 DEF Slot
  <2>3. ASSUME NEW j \in Keys, epoch_map'[j] # NoEpoch
        PROVE  Slot(j)' <= Len(queue') /\ queue'[Slot(j)'].key = j
    <3>1. CASE j = k
      BY <3>1, <2>1, <1>3, <1>5 DEF EntryFor
    <3>2. CASE j # k
      <4>1. Slot(j) \in 1..n /\ queue[Slot(j)].key = j
        BY <3>2, <2>3, <1>6, SlotFacts DEF n
      <4> QED BY <3>2, <4>1, <2>2, <1>3, <1>5
    <3> QED BY <3>1, <3>2
  <2>4. ASSUME NEW i \in DOMAIN queue', queue'[i].op # "Clear"
        PROVE  queue'[i].key \in Keys /\ epoch_map'[queue'[i].key] = WrappingAdd(head_epoch', i - 1)
    <3>1. CASE i = n + 1
      BY <3>1, <1>3, <1>5, <1>6 DEF EntryFor, ep
    <3>2. CASE i # n + 1
      <4>1. i \in 1..n /\ queue'[i] = queue[i] /\ queue[i].key # k
        BY <3>2, <1>1, <1>3, <1>5
      <4>2. queue[i].key \in Keys /\ epoch_map[queue[i].key] = WrappingAdd(head_epoch, i - 1)
        BY <4>1, <2>4, <1>3 DEF IInv, SlotsAgree
      <4> QED BY <4>1, <4>2, <1>6
    <3> QED BY <3>1, <3>2
  <2> QED BY <2>3, <2>4 DEF SlotsAgree
<1>9. OnePerKey'
  <2>1. ASSUME NEW i \in DOMAIN queue', NEW j \in DOMAIN queue', queue'[i].key = queue'[j].key
        PROVE  i = j
    <3>1. CASE i = n + 1 \/ j = n + 1
      BY <3>1, <2>1, <1>1, <1>3, <1>5 DEF EntryFor
    <3>2. CASE i # n + 1 /\ j # n + 1
      BY <3>2, <2>1, <1>3, <1>5 DEF IInv, OnePerKey
    <3> QED BY <3>1, <3>2
  <2>2. ASSUME NEW i \in DOMAIN queue'
        PROVE  /\ queue'[i].op = "Clear" <=> queue'[i].key = NoKey
               /\ queue'[i].op = "Clear" => i = 1
               /\ queue'[i].op # "Update" => queue'[i].value = NoValue
    <3>1. CASE i = n + 1
      BY <3>1, <1>5, KeysAssumption DEF EntryFor
    <3>2. CASE i # n + 1
      BY <3>2, <1>3, <1>5 DEF IInv, OnePerKey
    <3> QED BY <3>1, <3>2
  <2> QED BY <2>1, <2>2 DEF OnePerKey
<1>10. Queued' = Queued \cup {k}
  BY <1>3, <1>5, KeysAssumption DEF Queued, EntryFor
<1>11. Wiped' = Wiped
  BY <1>3, <1>5, EmptySeq DEF Wiped, EntryFor, n
<1>12. NothingLost'
  <2>3. source \in [Keys -> Values \cup {NoValue}]
    BY DEF IInv, TypeOK
  <2>4. ASSUME NEW i \in DOMAIN queue', queue'[i].key \in Keys
        PROVE  queue'[i].value = source'[queue'[i].key]
    <3>1. CASE i = n + 1
      BY <3>1, <1>5, <2>3 DEF EntryFor
    <3>2. CASE i # n + 1
      <4>1. i \in 1..n /\ queue'[i] = queue[i] /\ queue[i].key # k
        BY <3>2, <1>1, <1>3, <1>5
      <4> QED BY <4>1, <2>3, <2>4, <1>3 DEF IInv, NothingLost
    <3> QED BY <3>1, <3>2
  <2>5. ASSUME NEW j \in Keys \ Queued'
        PROVE  source'[j] = IF Wiped' THEN NoValue ELSE replica'[j]
    BY <1>10, <1>11, <2>3 DEF IInv, NothingLost
  <2> QED BY <2>4, <2>5 DEF NothingLost
<1>13. Placed(k)
  BY <1>3, <1>5, <1>10, <1>11 DEF Placed
<1> QED BY <1>7, <1>8, <1>9, <1>12, <1>13 DEF IInv

\* A clear preserves the invariant.
LEMMA ClearIInv ==
  ASSUME IInv, PushClear
  PROVE  IInv'
<1>1. queue' = <<Clear>> /\ Len(queue') = 1 /\ DOMAIN queue' = {1} /\ queue'[1] = Clear
  BY DEF PushClear
<1>2. TypeOK'
  BY <1>1, PositiveModulus DEF IInv, TypeOK, PushClear, EpochsAfterClear, Empty, Clear, Entries
<1>3. SlotsAgree' /\ OnePerKey'
  BY <1>1 DEF SlotsAgree, OnePerKey, PushClear, EpochsAfterClear, Clear
<1>4. NothingLost'
  BY <1>1, KeysAssumption DEF NothingLost, PushClear, Empty, Clear, Wiped
<1> QED BY <1>2, <1>3, <1>4 DEF IInv

\* Placing an entry preserves the invariant.
LEMMA PlaceIInv ==
  ASSUME IInv, NEW k \in Keys, NEW e, EntryFor(k, e), Place(k, e),
         source' = [source EXCEPT ![k] = e.value], UNCHANGED <<head_epoch, replica>>
  PROVE  IInv' /\ Placed(k)
<1>1. CASE HasSlot(k)
  BY <1>1, ReplaceIInv
<1>2. CASE ~HasSlot(k)
  BY <1>2, AppendIInv
<1> QED BY <1>1, <1>2

\* What a pop does to the queue as a whole: the entries move up by one, and the
\* one that was popped is no longer queued.
Popped ==
  /\ Queued' = Queued \ {Head(queue).key}
  /\ ~Wiped'
  /\ \A i \in DOMAIN queue' : i + 1 \in DOMAIN queue /\ queue'[i] = queue[i + 1]

\* A pop preserves the invariant.
LEMMA PopIInv ==
  ASSUME IInv, Pop
  PROVE  IInv' /\ Popped
<1> DEFINE n == Len(queue)
           e == Head(queue)
<1>1. /\ queue # <<>> /\ queue' = Tail(queue)
      /\ head_epoch' = WrappingAdd(head_epoch, 1)
      /\ epoch_map' = EpochsAfterPop(e)
      /\ replica' = Applied(e, replica) /\ source' = source
  BY DEF Pop, EpochAfterPop
<1>2. n \in 1..(Modulus - 1) /\ DOMAIN queue = 1..n /\ Modulus \in Nat
  BY <1>1, QueueFacts, ModulusAssumption, EmptySeq DEF IInv, TypeOK
<1>3. /\ e = queue[1] /\ queue' \in Seq(Entries) /\ Len(queue') = n - 1
      /\ DOMAIN queue' = 1..(n - 1) /\ \A i \in 1..(n - 1) : queue'[i] = queue[i + 1]
  BY <1>1, <1>2, HeadTailProperties, LenProperties DEF IInv, TypeOK
<1>4. e \in Entries /\ \A i \in 1..(n - 1) : queue[i + 1] \in Entries
  BY <1>2, <1>3, QueueFacts
<1>5. /\ e.op = "Clear" <=> e.key = NoKey
      /\ e.key \in Keys \/ e.key = NoKey
  BY <1>2, <1>3, <1>4 DEF IInv, OnePerKey, Entries
<1>6. \A i \in 1..(n - 1) :
        queue'[i].op # "Clear" /\ queue'[i].key \in Keys /\ queue'[i].key # e.key
  <2> TAKE i \in 1..(n - 1)
  <2>1. i + 1 \in DOMAIN queue /\ 1 \in DOMAIN queue /\ i + 1 # 1
    BY <1>2
  <2>2. queue[i + 1].op # "Clear" /\ queue[i + 1].key \in Keys
    BY <2>1 DEF IInv, OnePerKey, SlotsAgree
  <2>3. queue[i + 1].key # queue[1].key
    BY <2>1 DEF IInv, OnePerKey
  <2> QED BY <2>2, <2>3, <1>3
<1>7. head_epoch \in 0..(Modulus - 1) /\ head_epoch' \in 0..(Modulus - 1)
  BY <1>1, <1>2, Wrapping DEF IInv, TypeOK
<1>8. /\ epoch_map' \in [Keys -> 0..(Modulus - 1) \cup {NoEpoch}]
      /\ \A j \in Keys : epoch_map'[j] = IF j = e.key THEN NoEpoch ELSE epoch_map[j]
  BY <1>1, <1>5, KeysAssumption DEF EpochsAfterPop, IInv, TypeOK
<1>9. /\ replica' \in [Keys -> Values \cup {NoValue}]
      /\ e.op = "Clear" => \A j \in Keys : replica'[j] = NoValue
      /\ e.op # "Clear" => \A j \in Keys : replica'[j] = IF j = e.key THEN e.value ELSE replica[j]
  BY <1>1, <1>4, <1>5 DEF Applied, Empty, IInv, TypeOK, Entries
<1> HIDE DEF n, e
<1>10. TypeOK'
  BY <1>1, <1>3, <1>7, <1>8, <1>9 DEF IInv, TypeOK
<1>11. SlotsAgree'
  <2>1. ASSUME NEW j \in Keys, epoch_map'[j] # NoEpoch
        PROVE  Slot(j)' <= Len(queue') /\ queue'[Slot(j)'].key = j
    <3>1. j # e.key /\ epoch_map'[j] = epoch_map[j]
      BY <2>1, <1>8
    <3>2. Slot(j) \in 1..n /\ queue[Slot(j)].key = j
      BY <2>1, <3>1, SlotFacts DEF n
    <3>3. PICK i \in 1..(n - 1) : Slot(j) = i + 1
      <4>1. Slot(j) # 1
        BY <3>1, <3>2, <1>3
      <4>2. Slot(j) - 1 \in 1..(n - 1) /\ Slot(j) = (Slot(j) - 1) + 1
        BY <4>1, <3>2, <1>2
      <4> QED BY <4>2
    <3>4. queue'[i].key = j /\ queue[i + 1].op # "Clear" /\ i + 1 \in DOMAIN queue
      BY <3>2, <3>3, <1>2, <1>3, <1>6
    <3>5. epoch_map[j] = WrappingAdd(head_epoch, i)
      BY <3>2, <3>3, <3>4, <1>2 DEF IInv, SlotsAgree
    <3>6. i \in 1..(Modulus - 1) /\ i - 1 \in 0..(Modulus - 1)
      BY <1>2
    <3>7. WrappingAdd(head_epoch, i) = WrappingAdd(head_epoch', i - 1)
      BY <3>6, <1>1, <1>7, NextEpoch
    <3>8. WrappingSub(WrappingAdd(head_epoch', i - 1), head_epoch') = i - 1
      BY <3>6, <1>7, Wrapping
    <3>9. Slot(j)' = i
      BY <3>1, <3>5, <3>7, <3>8, <3>6 DEF Slot
    <3> QED BY <3>4, <3>9, <1>2, <1>3
  <2>2. ASSUME NEW i \in DOMAIN queue', queue'[i].op # "Clear"
        PROVE  queue'[i].key \in Keys /\ epoch_map'[queue'[i].key] = WrappingAdd(head_epoch', i - 1)
    <3>1. i \in 1..(n - 1) /\ i + 1 \in DOMAIN queue /\ i \in 1..(Modulus - 1)
      BY <1>2, <1>3
    <3>2. queue'[i] = queue[i + 1] /\ queue'[i].key \in Keys /\ queue'[i].key # e.key
      BY <3>1, <1>3, <1>6
    <3>3. epoch_map[queue[i + 1].key] = WrappingAdd(head_epoch, (i + 1) - 1)
      BY <3>1, <3>2, <2>2 DEF IInv, SlotsAgree
    <3>4. (i + 1) - 1 = i
      BY <3>1
    <3>5. WrappingAdd(head_epoch, i) = WrappingAdd(head_epoch', i - 1)
      BY <3>1, <1>1, <1>7, NextEpoch
    <3> QED BY <3>2, <3>3, <3>4, <3>5, <1>8
  <2> QED BY <2>1, <2>2 DEF SlotsAgree
<1>12. OnePerKey'
  <2>1. ASSUME NEW i \in DOMAIN queue', NEW j \in DOMAIN queue', queue'[i].key = queue'[j].key
        PROVE  i = j
    <3>1. i + 1 \in DOMAIN queue /\ j + 1 \in DOMAIN queue /\ queue[i + 1].key = queue[j + 1].key
      BY <2>1, <1>2, <1>3
    <3>2. i + 1 = j + 1
      BY <3>1 DEF IInv, OnePerKey
    <3> QED BY <3>2, <1>2, <1>3
  <2>2. ASSUME NEW i \in DOMAIN queue', queue'[i].op # "Update"
        PROVE  queue'[i].value = NoValue
    <3>1. i + 1 \in DOMAIN queue /\ queue'[i] = queue[i + 1]
      BY <1>2, <1>3
    <3> QED BY <3>1, <2>2 DEF IInv, OnePerKey
  <2>3. \A i \in DOMAIN queue' : queue'[i].op # "Clear" /\ queue'[i].key # NoKey
    BY <1>3, <1>6, KeysAssumption
  <2> QED BY <2>1, <2>2, <2>3 DEF OnePerKey
<1>13. Queued' = Queued \ {e.key}
  <2>1. ASSUME NEW x \in Queued', x # NoKey PROVE x \in Queued /\ x # e.key
    <3>1. PICK i \in DOMAIN queue' : x = queue'[i].key
      BY <2>1 DEF Queued
    <3>2. i \in 1..(n - 1) /\ i + 1 \in DOMAIN queue
      BY <1>2, <1>3
    <3>3. x = queue[i + 1].key /\ x # e.key
      BY <3>1, <3>2, <1>3, <1>6
    <3> QED BY <3>2, <3>3, <2>1 DEF Queued
  <2>2. ASSUME NEW x \in Queued, x # e.key PROVE x \in Queued'
    <3>1. PICK i \in DOMAIN queue : x = queue[i].key /\ x # NoKey
      BY <2>2 DEF Queued
    <3>2. i - 1 \in 1..(n - 1) /\ (i - 1) + 1 = i
      BY <3>1, <2>2, <1>2, <1>3
    <3>3. queue'[i - 1] = queue[i]
      BY <3>2, <1>3
    <3> QED BY <3>1, <3>2, <3>3, <1>3 DEF Queued
  <2>3. NoKey \notin Queued'
    BY DEF Queued
  <2> QED BY <2>1, <2>2, <2>3
<1>14. ~Wiped'
  <2> SUFFICES ASSUME queue' # <<>> PROVE queue'[1].op # "Clear"
    BY DEF Wiped
  <2>1. 1 \in 1..(n - 1)
    BY <1>2, <1>3, EmptySeq
  <2> QED BY <2>1, <1>6
<1>15. Wiped <=> e.op = "Clear"
  BY <1>1, <1>3 DEF Wiped
<1>16. NothingLost'
  <2>1. ASSUME NEW i \in DOMAIN queue', queue'[i].key \in Keys
        PROVE  queue'[i].value = source'[queue'[i].key]
    <3>1. i + 1 \in DOMAIN queue /\ queue'[i] = queue[i + 1]
      BY <1>2, <1>3
    <3> QED BY <3>1, <2>1, <1>1 DEF IInv, NothingLost
  <2>2. ASSUME NEW j \in Keys \ Queued'
        PROVE  source'[j] = replica'[j]
    <3>1. CASE j = e.key
      <4>1. 1 \in DOMAIN queue /\ e.op # "Clear"
        BY <3>1, <1>2, <1>5, KeysAssumption
      <4>2. source[j] = e.value
        BY <3>1, <4>1, <1>3 DEF IInv, NothingLost
      <4> QED BY <3>1, <4>1, <4>2, <1>1, <1>9
    <3>2. CASE j # e.key
      <4>1. source[j] = IF Wiped THEN NoValue ELSE replica[j]
        BY <3>2, <1>13 DEF IInv, NothingLost
      <4> QED BY <3>2, <4>1, <1>1, <1>9, <1>15
    <3> QED BY <3>1, <3>2
  <2> QED BY <2>1, <2>2, <1>14 DEF NothingLost
<1>17. Popped
  BY <1>2, <1>3, <1>13, <1>14 DEF Popped, e
<1> QED BY <1>10, <1>11, <1>12, <1>16, <1>17 DEF IInv

\* The entries that push makes are entries for their key.
LEMMA PushedEntries ==
  ASSUME NEW k \in Keys
  PROVE  /\ \A v \in Values : EntryFor(k, Update(k, v)) /\ Update(k, v).value = v
         /\ EntryFor(k, RemoveEntry(k)) /\ RemoveEntry(k).value = NoValue
BY DEF EntryFor, Entries, Update, RemoveEntry

\* Every step but a clear and a pop places an entry.
LEMMA PushIInv ==
  ASSUME IInv, NEW k \in Keys,
         (\E v \in Values : PushUpdate(k, v)) \/ PushRemove(k)
  PROVE  IInv' /\ Placed(k)
<1>1. ASSUME NEW v \in Values, PushUpdate(k, v) PROVE IInv' /\ Placed(k)
  BY <1>1, PushedEntries, PlaceIInv DEF PushUpdate
<1>2. ASSUME PushRemove(k) PROVE IInv' /\ Placed(k)
  BY <1>2, PushedEntries, PlaceIInv DEF PushRemove
<1> QED BY <1>1, <1>2

\* Every step preserves the invariant.
LEMMA NextIInv == IInv /\ [Next]_vars => IInv'
<1> SUFFICES ASSUME IInv, [Next]_vars PROVE IInv'
  OBVIOUS
<1>1. ASSUME NEW k \in Keys, (\E v \in Values : PushUpdate(k, v)) \/ PushRemove(k) PROVE IInv'
  BY <1>1, PushIInv
<1>2. CASE PushClear
  BY <1>2, ClearIInv
<1>3. CASE Pop
  BY <1>3, PopIInv
<1>4. CASE UNCHANGED vars
  BY <1>4 DEF vars, IInv, TypeOK, SlotsAgree, OnePerKey, NothingLost, Slot, Queued, Wiped
<1> QED BY <1>1, <1>2, <1>3, <1>4 DEF Next

\* The epochs and the queue agree, each key is queued once and nothing is lost, for
\* any number of keys and any width of the epochs (the slot arithmetic of push).
THEOREM QueueInvariant == Spec => []IInv
BY InitIInv, NextIInv, PTL DEF Spec

\* Whenever the queue has been drained the far side has exactly what was pushed.
THEOREM Drained == Spec => []DrainedIsExact
<1>1. IInv => DrainedIsExact
  <2> SUFFICES ASSUME IInv, queue = <<>> PROVE replica = source
    BY DEF DrainedIsExact
  <2>1. Queued = {} /\ ~Wiped
    BY DEF Queued, Wiped
  <2>2. \A k \in Keys : source[k] = replica[k]
    BY <2>1 DEF IInv, NothingLost
  <2> QED BY <2>2 DEF IInv, TypeOK
<1> QED BY <1>1, QueueInvariant, PTL

\* No operation, on this key or another, moves a queued key back (push replaces "without
\* altering its position in the queue").
THEOREM Positions == Spec => NeverMovedBack
<1> DEFINE Kept == \A k \in Keys :
             (k \in Queued /\ k \in Queued') =>
               \A i \in DOMAIN queue, j \in DOMAIN queue' :
                 (queue[i].key = k /\ queue'[j].key = k) => j <= i
<1>1. IInv /\ [Next]_vars => [Kept]_vars
  <2> SUFFICES ASSUME IInv, Next PROVE Kept
    OBVIOUS
  <2> SUFFICES ASSUME NEW k \in Keys, NEW i \in DOMAIN queue, NEW j \in DOMAIN queue',
                      queue[i].key = k, queue'[j].key = k
               PROVE  j <= i
    OBVIOUS
  <2>1. i \in Nat /\ j \in Nat /\ IInv'
    <3>1. IInv'
      BY NextIInv
    <3>2. DOMAIN queue \subseteq Nat
      BY LenProperties DEF IInv, TypeOK
    <3>3. DOMAIN queue' \subseteq Nat
      BY <3>1, LenProperties DEF IInv, TypeOK
    <3> QED BY <3>1, <3>2, <3>3
  <2>2. ASSUME NEW x \in Keys, (\E v \in Values : PushUpdate(x, v)) \/ PushRemove(x)
        PROVE  j <= i
    <3>1. i \in DOMAIN queue' /\ queue'[i].key = k
      BY <2>2, PushIInv DEF Placed
    <3>2. i = j
      BY <2>1, <3>1 DEF IInv, OnePerKey
    <3> QED BY <2>1, <3>2
  <2>3. CASE PushClear
    BY <2>3, KeysAssumption DEF PushClear, Clear
  <2>4. CASE Pop
    <3>1. j + 1 \in DOMAIN queue /\ queue[j + 1].key = k
      BY <2>4, PopIInv DEF Popped
    <3>2. j + 1 = i
      BY <3>1 DEF IInv, OnePerKey
    <3> QED BY <2>1, <3>2
  <2> QED BY <2>2, <2>3, <2>4 DEF Next
<1> QED BY <1>1, QueueInvariant, PTL DEF Spec, NeverMovedBack

\* The queue implements the abstract relay: whatever is popped is the newest state
\* of its key, for any number of keys and any width of the epochs.
THEOREM Refinement == Spec => ImplementsRelay
<1>1. Init => Relay!Init
  BY DEF Init, Relay!Init, Empty, Relay!Empty, Queued, Wiped
<1>2. IInv /\ [Next]_vars => [Relay!Next]_(Relay!vars)
  <2> SUFFICES ASSUME IInv, [Next]_vars PROVE [Relay!Next]_(Relay!vars)
    OBVIOUS
  <2>1. ASSUME NEW k \in Keys, NEW v \in Values, PushUpdate(k, v) PROVE Relay!Next
    <3>1. Relay!Change(k, v)
      BY <2>1, PushIInv DEF Placed, PushUpdate, Relay!Change
    <3> QED BY <3>1 DEF Relay!Next
  <2>2. ASSUME NEW k \in Keys, PushRemove(k) PROVE Relay!Next
    <3>1. Relay!Change(k, NoValue)
      BY <2>2, PushIInv DEF Placed, PushRemove, Relay!Change
    <3> QED BY <3>1 DEF Relay!Next
  <2>3. CASE PushClear
    <3>1. Queued' = {} /\ Wiped'
      BY <2>3 DEF PushClear, Queued, Wiped, Clear
    <3>2. Relay!Clear
      BY <2>3, <3>1 DEF PushClear, Relay!Clear, Empty, Relay!Empty
    <3> QED BY <3>2 DEF Relay!Next
  <2>4. CASE Pop
    <3> DEFINE e == Head(queue)
    <3>1. queue # <<>> /\ e = queue[1] /\ 1 \in DOMAIN queue
      BY <2>4, HeadTailProperties, LenProperties, EmptySeq DEF Pop, IInv, TypeOK
    <3>2. Queued' = Queued \ {e.key} /\ ~Wiped'
      BY <2>4, PopIInv DEF Popped
    <3>3. replica' = Applied(e, replica) /\ source' = source
      BY <2>4 DEF Pop
    <3> HIDE DEF e
    <3>4. CASE e.op = "Clear"
      <4>1. e.key = NoKey /\ Wiped /\ NoKey \notin Queued
        BY <3>1, <3>4 DEF IInv, OnePerKey, Wiped, Queued
      <4>2. Relay!RelayClear
        BY <4>1, <3>2, <3>3, <3>4 DEF Relay!RelayClear, Applied, Empty, Relay!Empty
      <4> QED BY <4>2 DEF Relay!Next
    <3>5. CASE e.op # "Clear"
      <4>1. e.key \in Keys /\ e.key # NoKey /\ ~Wiped
        BY <3>1, <3>5, KeysAssumption DEF IInv, SlotsAgree, Wiped
      <4>2. e.key \in Queued
        BY <4>1, <3>1 DEF Queued
      <4>3. e.value = source[e.key]
        BY <4>1, <3>1 DEF IInv, NothingLost
      <4>4. Wiped' = Wiped
        BY <4>1, <3>2 DEF Wiped
      <4>5. replica' = [replica EXCEPT ![e.key] = source[e.key]]
        BY <4>3, <3>3, <3>5 DEF Applied
      <4>6. Relay!Relay(e.key)
        BY <4>1, <4>2, <4>4, <4>5, <3>2, <3>3 DEF Relay!Relay
      <4> QED BY <4>1, <4>6 DEF Relay!Next
    <3> QED BY <3>4, <3>5
  <2>5. CASE UNCHANGED vars
    BY <2>5 DEF vars, Relay!vars, Queued, Wiped
  <2> QED BY <2>1, <2>2, <2>3, <2>4, <2>5 DEF Next
<1> QED BY <1>1, <1>2, QueueInvariant, PTL DEF Spec, ImplementsRelay, Relay!Spec

-----------------------------------------------------------------------------
(* The circular buffer.                                                    *)

\* What is left of a run of records without the first.
LEMMA TailOfQueue ==
  ASSUME BufferTypeOK, buffer # <<>>
  PROVE  /\ Len(buffer) \in Nat /\ Len(buffer) > 0
         /\ Head(buffer) = buffer[1] /\ Head(buffer) \in Nat
         /\ Tail(buffer) \in Seq(Nat) /\ Len(Tail(buffer)) = Len(buffer) - 1
         /\ \A i \in 1..Len(Tail(buffer)) : Tail(buffer)[i] = buffer[i + 1]
         /\ \A i \in 1..Len(buffer) : buffer[i] \in Nat
BY HeadTailProperties, LenProperties, EmptySeq, ElementOfSeq DEF BufferTypeOK

\* What is in a run of records with one more.
LEMMA AppendToQueue ==
  ASSUME BufferTypeOK, NEW n \in Nat
  PROVE  /\ Len(buffer) \in Nat
         /\ Append(buffer, n) \in Seq(Nat) /\ Len(Append(buffer, n)) = Len(buffer) + 1
         /\ Append(buffer, n)[Len(buffer) + 1] = n
         /\ \A i \in 1..Len(buffer) : Append(buffer, n)[i] = buffer[i] /\ buffer[i] \in Nat
         /\ Append(buffer, n) # <<>>
BY SMTT(30), AppendProperties, LenProperties, ElementOfSeq, EmptySeq DEF BufferTypeOK

\* The queue is empty if its length is 0.
LEMMA EmptyQueue ==
  ASSUME BufferTypeOK
  PROVE  Len(buffer) \in Nat /\ (buffer = <<>> <=> Len(buffer) = 0)
BY LenProperties, EmptySeq DEF BufferTypeOK

\* The invariant holds initially.
LEMMA BufferInitIInv == BufferInit => BufferIInv
<1> SUFFICES ASSUME BufferInit PROVE BufferIInv
  OBVIOUS
<1>1. BufferTypeOK
  <2>1. permits \in 0..Size /\ 0 \in 0..Size
    BY SizeAssumption DEF BufferInit
  <2>2. tx \in [pc : {"idle", "load", "exchange", "push", "wake", "pop", "release", "leave", "gone"},
               available : 0..Size, sent : Nat]
    BY <2>1 DEF BufferInit
  <2>3. rx \in [pc : {"idle", "pop", "release", "load", "register", "active", "check",
                     "asleep", "ended", "gone"}, hand : Nat, last : Nat]
    BY DEF BufferInit
  <2>4. buffer \in Seq(Nat)
    BY DEF BufferInit
  <2>5. sender_active \in BOOLEAN /\ rx_waker \in BOOLEAN /\ rx_notified \in BOOLEAN
    BY DEF BufferInit
  <2> QED BY <2>1, <2>2, <2>3, <2>4, <2>5 DEF BufferTypeOK
<1>2. Len(buffer) = 0
  BY DEF BufferInit
<1> QED
  BY <1>1, <1>2, SizeAssumption DEF BufferInit, BufferIInv, PermitsAgree, PermitsSeen, RunOfNewest, NewestKept,
     WakeOnItsWay, HeldBySender, HeldByReceiver, Newest, Sending, Displacing

\* A step that leaves the queue alone keeps its part of the invariant if it keeps
\* the newest record and does not touch what the receiver has.
LEMMA SenderSteps ==
  ASSUME BufferIInv, TrySend \/ SendLoad \/ SendExchange \/ SendWake \/ SendRelease
               \/ DropTx \/ DropTxWake
  PROVE  BufferIInv'
<1> USE SizeAssumption, EmptyQueue
<1> USE DEF BufferIInv, BufferTypeOK, PermitsAgree, PermitsSeen, RunOfNewest, NewestKept, WakeOnItsWay,
        HeldBySender, HeldByReceiver, Newest, Sending, Displacing, shared
<1>1. CASE TrySend
  <2>1. BufferTypeOK'
    <3>1. tx' = [pc |-> "load", available |-> tx.available, sent |-> tx.sent + 1]
      BY <1>1 DEF TrySend
    <3> QED BY <1>1, <3>1 DEF TrySend
  <2>2. PermitsAgree' /\ PermitsSeen'
    BY <1>1 DEF TrySend
  <2>3. RunOfNewest'
    BY <1>1 DEF TrySend
  <2>4. NewestKept'
    BY <1>1 DEF TrySend
  <2>5. WakeOnItsWay'
    BY <1>1 DEF TrySend
  <2> QED BY <2>1, <2>2, <2>3, <2>4, <2>5
<1>2. CASE SendLoad
  <2>1. BufferTypeOK'
    BY <1>2 DEF SendLoad
  <2>2. PermitsAgree' /\ PermitsSeen'
    BY <1>2 DEF SendLoad
  <2>3. RunOfNewest'
    BY <1>2 DEF SendLoad
  <2>4. NewestKept'
    BY <1>2 DEF SendLoad
  <2>5. WakeOnItsWay'
    BY <1>2 DEF SendLoad
  <2> QED BY <2>1, <2>2, <2>3, <2>4, <2>5
<1>3. CASE SendExchange
  <2>1. BufferTypeOK'
    BY SMTT(30), <1>3 DEF SendExchange, Go
  <2>2. PermitsAgree' /\ PermitsSeen'
    BY <1>3 DEF SendExchange, Go
  <2>3. RunOfNewest'
    BY <1>3 DEF SendExchange, Go
  <2>4. NewestKept'
    BY <1>3 DEF SendExchange, Go
  <2>5. WakeOnItsWay'
    BY <1>3 DEF SendExchange, Go
  <2> QED BY <2>1, <2>2, <2>3, <2>4, <2>5
<1>4. CASE SendWake
  BY <1>4 DEF SendWake, Wake, Go
<1>5. CASE SendRelease
  <2>1. BufferTypeOK'
    <3>1. permits + 1 \in 0..Size
      BY <1>5 DEF SendRelease
    <3>2. tx' = [pc |-> "load", available |-> tx.available, sent |-> tx.sent]
      BY <1>5 DEF SendRelease, Go
    <3> QED BY <1>5, <3>1, <3>2 DEF SendRelease
  <2>2. PermitsAgree' /\ PermitsSeen'
    BY <1>5 DEF SendRelease, Go
  <2>3. RunOfNewest'
    BY <1>5 DEF SendRelease, Go
  <2>4. NewestKept'
    BY <1>5 DEF SendRelease, Go
  <2>5. WakeOnItsWay'
    BY <1>5 DEF SendRelease, Go
  <2> QED BY <2>1, <2>2, <2>3, <2>4, <2>5
<1>6. CASE DropTx
  BY <1>6 DEF DropTx, Go
<1>7. CASE DropTxWake
  BY <1>7 DEF DropTxWake, Wake, Go
<1> QED BY <1>1, <1>2, <1>3, <1>4, <1>5, <1>6, <1>7

\* The steps of the receiver that leave the queue alone.
LEMMA ReceiverSteps ==
  ASSUME BufferIInv, RecvPoll \/ RecvRelease \/ RecvLoad \/ RecvRegister \/ RecvActive \/ RecvCheck
               \/ DropRx
  PROVE  BufferIInv'
<1> USE SizeAssumption, EmptyQueue
<1> USE DEF BufferIInv, BufferTypeOK, PermitsAgree, PermitsSeen, RunOfNewest, NewestKept, WakeOnItsWay,
        HeldBySender, HeldByReceiver, Newest, Sending, Displacing, shared, Goes
<1>1. CASE RecvPoll
  BY ZenonT(60), <1>1 DEF RecvPoll
<1>2. CASE RecvRelease
  BY <1>2 DEF RecvRelease
<1>3. CASE RecvLoad
  BY <1>3 DEF RecvLoad
<1>4. CASE RecvRegister
  BY <1>4 DEF RecvRegister
<1>5. CASE RecvActive
  BY <1>5 DEF RecvActive
<1>6. CASE RecvCheck
  BY <1>6 DEF RecvCheck, AllPermits
<1>7. CASE DropRx
  BY ZenonT(60), <1>7 DEF DropRx
<1> QED BY <1>1, <1>2, <1>3, <1>4, <1>5, <1>6, <1>7

\* The record is put in the queue.
LEMMA PushStep ==
  ASSUME BufferIInv, SendPush
  PROVE  BufferIInv'
<1> DEFINE n == Len(buffer)
<1>1. /\ tx.pc = "push" /\ buffer' = Append(buffer, tx.sent)
      /\ tx' = [tx EXCEPT !.pc = IF tx.available = Size THEN "wake" ELSE "idle"]
      /\ UNCHANGED <<permits, sender_active, rx_waker, rx_notified, rx>>
  BY DEF SendPush, Go, WakesReceiver
<1>2. BufferTypeOK /\ tx.sent \in Nat
  BY DEF BufferIInv, BufferTypeOK
<1>3. /\ n \in Nat /\ buffer' \in Seq(Nat) /\ Len(buffer') = n + 1 /\ buffer' # <<>>
      /\ buffer'[n + 1] = tx.sent /\ \A i \in 1..n : buffer'[i] = buffer[i] /\ buffer[i] \in Nat
  BY <1>1, <1>2, AppendToQueue
<1> HIDE DEF n
<1>4. BufferTypeOK'
  BY <1>1, <1>2, <1>3 DEF BufferTypeOK
<1>5. PermitsAgree' /\ PermitsSeen'
  BY <1>1, <1>2, <1>3 DEF BufferIInv, BufferTypeOK, PermitsAgree, PermitsSeen, HeldBySender, HeldByReceiver, n
<1>6. tx.sent > 0 /\ Newest = tx.sent - 1 /\ Newest' = tx.sent /\ ~Sending'
  BY <1>1, <1>2 DEF BufferIInv, BufferTypeOK, RunOfNewest, Newest, Sending
<1>7. RunOfNewest'
  <2>1. ASSUME NEW i \in 1..Len(buffer') PROVE buffer'[i] + Len(buffer') = Newest' + i
    <3>1. CASE i = n + 1
      BY <3>1, <1>2, <1>3, <1>6
    <3>2. CASE i # n + 1
      <4>1. i \in 1..n /\ buffer'[i] = buffer[i] /\ buffer[i] \in Nat
        BY <3>2, <1>3
      <4> DEFINE a == buffer[i]
      <4>2. buffer[i] + n = tx.sent - 1 + i
        BY <4>1, <1>6 DEF BufferIInv, RunOfNewest, n
      <4>3. a \in Nat /\ i \in Nat /\ a + n = tx.sent - 1 + i
        BY <4>1, <4>2, <1>3
      <4> HIDE DEF a
      <4>4. \A b, c, d, e \in Int : b + c = d - 1 + e => b + (c + 1) = d + e
        OBVIOUS
      <4>5. n \in Int /\ tx.sent \in Int /\ a \in Int /\ i \in Int
        BY <4>3, <1>2, <1>3
      <4>6. a + (n + 1) = tx.sent + i
        BY <4>3, <4>4, <4>5
      <4> QED BY <4>1, <4>6, <1>3, <1>6 DEF a
    <3> QED BY <3>1, <3>2
  <2>2. rx.last + n <= tx.sent - 1 /\ rx.hand + n <= tx.sent - 1 /\ rx.last \in Nat /\ rx.hand \in Nat
    BY <1>6 DEF BufferIInv, BufferTypeOK, RunOfNewest, n
  <2>3. rx'.last + Len(buffer') <= Newest' /\ rx'.hand + Len(buffer') <= Newest'
    BY <2>2, <1>1, <1>2, <1>3, <1>6
  <2>4. rx'.pc = "release" => rx'.last < rx'.hand
    BY <1>1 DEF BufferIInv, RunOfNewest
  <2> HIDE DEF n
  <2> QED BY <2>1, <2>3, <2>4, <1>6 DEF RunOfNewest
<1>8. NewestKept'
  BY <1>3 DEF NewestKept
<1>9. WakeOnItsWay'
  <2>1. permits + n + 1 <= Size /\ permits \in Nat
    BY <1>1, <1>2, <1>3 DEF BufferIInv, BufferTypeOK, PermitsAgree, HeldBySender, HeldByReceiver, n
  <2>2. permits # Size
    BY <2>1, <1>3, SizeAssumption
  <2> QED BY <1>1, <1>2, <2>2 DEF BufferIInv, BufferTypeOK, WakeOnItsWay
<1> QED BY <1>4, <1>5, <1>7, <1>8, <1>9 DEF BufferIInv

\* A record is taken from the head of the queue, by the sender or the receiver: the
\* rest is still an unbroken run.
LEMMA RunWithoutFirst ==
  ASSUME BufferIInv, buffer # <<>>
  PROVE  /\ \A i \in 1..Len(Tail(buffer)) : Tail(buffer)[i] + Len(Tail(buffer)) = Newest + i
         /\ Head(buffer) \in Nat /\ Head(buffer) + Len(Tail(buffer)) = Newest
         /\ rx.last < Head(buffer) /\ rx.hand < Head(buffer)
         /\ rx.last + Len(Tail(buffer)) <= Newest /\ rx.hand + Len(Tail(buffer)) <= Newest
<1> DEFINE n == Len(buffer)
           q == Tail(buffer)
<1>1. /\ n \in Nat /\ n > 0 /\ Head(buffer) = buffer[1] /\ Head(buffer) \in Nat
      /\ q \in Seq(Nat) /\ Len(q) = n - 1 /\ \A i \in 1..Len(q) : q[i] = buffer[i + 1]
      /\ \A i \in 1..n : buffer[i] \in Nat
  BY TailOfQueue DEF BufferIInv
<1>2. Newest \in Nat
  BY DEF BufferIInv, BufferTypeOK, RunOfNewest, Newest
<1>3. \A i \in 1..n : buffer[i] + n = Newest + i
  BY DEF BufferIInv, RunOfNewest
<1>4. rx.last \in Nat /\ rx.hand \in Nat /\ rx.last + n <= Newest /\ rx.hand + n <= Newest
  BY DEF BufferIInv, BufferTypeOK, RunOfNewest
<1> HIDE DEF n, q
<1>5. ASSUME NEW i \in 1..Len(q) PROVE q[i] + Len(q) = Newest + i
  <2>1. i + 1 \in 1..n /\ q[i] = buffer[i + 1] /\ buffer[i + 1] \in Nat
    BY <1>1
  <2>2. buffer[i + 1] + n = Newest + (i + 1)
    BY <2>1, <1>3
  <2> DEFINE a == buffer[i + 1]
             m == Newest
  <2>3. a \in Nat /\ i \in Nat /\ m \in Nat /\ a + n = m + (i + 1)
    BY <2>1, <2>2, <1>1, <1>2
  <2> HIDE DEF a, m
  <2>4. a + (n - 1) = m + i
    BY <2>3, <1>1
  <2> QED BY <2>1, <2>4, <1>1 DEF a, m
<1>6. buffer[1] + n = Newest + 1
  BY <1>1, <1>3
<1>7. Head(buffer) + Len(q) = Newest /\ rx.last < Head(buffer) /\ rx.hand < Head(buffer)
  BY SMTT(30), <1>1, <1>2, <1>4, <1>6
<1>8. rx.last + Len(q) <= Newest /\ rx.hand + Len(q) <= Newest
  BY <1>1, <1>2, <1>4
<1> QED BY <1>1, <1>5, <1>7, <1>8 DEF q

\* The sender makes room.
LEMMA SendPopStep ==
  ASSUME BufferIInv, SendPop
  PROVE  BufferIInv'
<1>1. tx.pc = "pop" /\ UNCHANGED <<permits, sender_active, rx_waker, rx_notified, rx>>
  BY DEF SendPop
<1>2. BufferTypeOK /\ tx.sent \in Nat
  BY DEF BufferIInv, BufferTypeOK
<1>3. CASE buffer = <<>>
  <2>1. buffer' = buffer /\ tx' = [tx EXCEPT !.pc = "load"]
    BY <1>3 DEF SendPop, Go
  <2> QED
    BY <1>1, <1>2, <1>3, <2>1 DEF BufferIInv, BufferTypeOK, PermitsAgree, PermitsSeen, RunOfNewest, NewestKept,
       WakeOnItsWay, HeldBySender, HeldByReceiver, Newest, Sending, Displacing
<1>4. CASE buffer # <<>>
  <2>1. buffer' = Tail(buffer) /\ tx' = [tx EXCEPT !.pc = "release"]
    BY <1>4 DEF SendPop, Go, Oldest
  <2>2. Len(buffer) \in Nat /\ Len(buffer) > 0 /\ buffer' \in Seq(Nat) /\ Len(buffer') = Len(buffer) - 1
    BY <1>2, <1>4, <2>1, TailOfQueue
  <2>3. BufferTypeOK'
    BY <1>1, <1>2, <2>1, <2>2 DEF BufferTypeOK
  <2>4. PermitsAgree' /\ PermitsSeen'
    BY <1>1, <1>2, <2>1, <2>2 DEF BufferIInv, BufferTypeOK, PermitsAgree, PermitsSeen, HeldBySender, HeldByReceiver
  <2>5. Newest' = Newest /\ Sending /\ Sending' /\ tx'.sent = tx.sent
    BY <1>1, <1>2, <2>1 DEF BufferTypeOK, Newest, Sending
  <2>6. RunOfNewest'
    BY <1>1, <1>4, <2>1, <2>5, RunWithoutFirst DEF BufferIInv, RunOfNewest
  <2>7. NewestKept'
    BY <1>2, <2>1 DEF NewestKept, Displacing, BufferTypeOK
  <2>8. WakeOnItsWay'
    <3>1. permits # Size
      BY <1>1, <1>2, <2>2, SizeAssumption DEF BufferIInv, BufferTypeOK, PermitsAgree, HeldBySender, HeldByReceiver
    <3> QED BY <1>1, <1>2, <2>1, <3>1 DEF BufferIInv, BufferTypeOK, WakeOnItsWay
  <2> QED BY <2>3, <2>4, <2>6, <2>7, <2>8 DEF BufferIInv
<1> QED BY <1>3, <1>4

\* The receiver takes a record, or finds none.
LEMMA RecvPopStep ==
  ASSUME BufferIInv, RecvPop
  PROVE  BufferIInv'
<1>1. rx.pc = "pop" /\ UNCHANGED <<permits, sender_active, rx_waker, rx_notified, tx>>
  BY DEF RecvPop
<1>2. BufferTypeOK /\ rx.last \in Nat /\ rx.hand \in Nat
  BY DEF BufferIInv, BufferTypeOK
<1>3. Newest' = Newest /\ (Sending <=> Sending') /\ (Displacing <=> Displacing')
  BY <1>1 DEF Newest, Sending, Displacing
<1>4. CASE buffer = <<>>
  <2>1. buffer' = buffer /\ rx' = [rx EXCEPT !.pc = "load"]
    BY <1>4 DEF RecvPop, Goes
  <2> QED
    BY <1>1, <1>2, <1>3, <1>4, <2>1 DEF BufferIInv, BufferTypeOK, PermitsAgree, PermitsSeen, RunOfNewest, NewestKept,
       WakeOnItsWay, HeldBySender, HeldByReceiver
<1>5. CASE buffer # <<>>
  <2>1. buffer' = Tail(buffer) /\ rx' = [rx EXCEPT !.pc = "release", !.hand = Head(buffer)]
    BY <1>5 DEF RecvPop
  <2>2. /\ Len(buffer) \in Nat /\ Len(buffer) > 0 /\ buffer' \in Seq(Nat) /\ Len(buffer') = Len(buffer) - 1
        /\ Head(buffer) \in Nat
    BY <1>2, <1>5, <2>1, TailOfQueue
  <2>3. rx'.pc = "release" /\ rx'.hand = Head(buffer) /\ rx'.last = rx.last
    BY <1>2, <2>1 DEF BufferTypeOK
  <2>4. BufferTypeOK'
    BY <1>1, <1>2, <2>1, <2>2 DEF BufferTypeOK
  <2>5. PermitsAgree' /\ PermitsSeen'
    BY <1>1, <1>2, <2>2, <2>3 DEF BufferIInv, BufferTypeOK, PermitsAgree, PermitsSeen, HeldBySender, HeldByReceiver
  <2>6. /\ \A i \in 1..Len(buffer') : buffer'[i] + Len(buffer') = Newest + i
        /\ Head(buffer) + Len(buffer') = Newest /\ rx.last < Head(buffer) /\ rx.last + Len(buffer') <= Newest
    BY <1>5, <2>1, RunWithoutFirst
  <2>7. Newest \in Nat
    BY DEF BufferIInv, BufferTypeOK, RunOfNewest, Newest
  <2>8. RunOfNewest'
    BY <1>1, <1>3, <2>2, <2>3, <2>6, <2>7 DEF BufferIInv, RunOfNewest
  <2>9. NewestKept'
    <3>1. SUFFICES ASSUME buffer' = <<>> PROVE rx'.hand = Newest'
      BY <2>3 DEF NewestKept
    <3>2. Len(buffer') = 0
      BY <3>1
    <3>3. Head(buffer) = Newest
      BY <3>2, <2>2, <2>6, <2>7
    <3> QED BY <3>3, <1>3, <2>3
  <2>10. WakeOnItsWay'
    BY <1>1, <2>3 DEF BufferIInv, WakeOnItsWay
  <2> QED BY <2>4, <2>5, <2>8, <2>9, <2>10 DEF BufferIInv
<1> QED BY <1>4, <1>5

\* Every step of either thread preserves the invariant.
LEMMA BufferNextIInv == BufferIInv /\ [BufferNext]_bufferVars => BufferIInv'
<1> SUFFICES ASSUME BufferIInv, [BufferNext]_bufferVars PROVE BufferIInv'
  OBVIOUS
<1>1. CASE UNCHANGED bufferVars
  BY <1>1 DEF bufferVars, BufferIInv, BufferTypeOK, PermitsAgree, PermitsSeen, RunOfNewest, NewestKept,
     WakeOnItsWay, HeldBySender, HeldByReceiver, Newest, Sending, Displacing
<1>2. CASE BufferNext
  BY <1>2, SenderSteps, ReceiverSteps, PushStep, SendPopStep, RecvPopStep DEF BufferNext, Send, Recv
<1> QED BY <1>1, <1>2

\* The inductive invariant holds for every capacity (permits, queue, waker).
THEOREM BufferInvariant == BufferSpec => []BufferIInv
BY BufferInitIInv, BufferNextIInv, PTL DEF BufferSpec

\* The permits always account for the queue, so that a push finds room and the expect
\* in send ("Inconsistent queue.") never fails.
THEOREM PushFindsRoom == BufferSpec => [](PermitsAgree /\ (tx.pc = "push" => Len(buffer) < Size))
<1>1. BufferIInv => PermitsAgree /\ (tx.pc = "push" => Len(buffer) < Size)
  BY EmptyQueue, SizeAssumption DEF BufferIInv, BufferTypeOK, PermitsAgree, HeldBySender, HeldByReceiver
<1> QED BY <1>1, BufferInvariant, PTL

\* The newest record is never lost, except to a newer one (send drops the oldest).
THEOREM NewestNotLost == BufferSpec => []NewestKept
<1>1. BufferIInv => NewestKept
  BY DEF BufferIInv
<1> QED BY <1>1, BufferInvariant, PTL

\* A receiver does not sleep through a record or the end of the channel
\* (poll_consume_queue looks at the permits again once its waker is registered).
THEOREM WakeNeverLost == BufferSpec => []NoLostWake
<1>1. BufferIInv => NoLostWake
  <2> SUFFICES ASSUME BufferIInv, rx.pc = "asleep", ~rx_notified
               PROVE  rx_waker /\ (buffer # <<>> => tx.pc = "wake") /\ (~sender_active => tx.pc = "leave")
    BY DEF NoLostWake
  <2>1. rx_waker /\ (~sender_active => tx.pc = "leave")
    BY DEF BufferIInv, WakeOnItsWay
  <2>2. ASSUME buffer # <<>>, tx.pc # "wake" PROVE FALSE
    <3>1. Len(buffer) \in Nat /\ Len(buffer) > 0
      BY <2>2, EmptyQueue DEF BufferIInv
    <3>2. permits + Len(buffer) + HeldBySender + HeldByReceiver = Size
      BY DEF BufferIInv, PermitsAgree
    <3>3. permits \in Nat /\ Size \in Nat
      BY SizeAssumption DEF BufferIInv, BufferTypeOK
    <3>4. permits = Size \/ (tx.pc = "push" /\ permits + 1 = Size)
      BY <2>2 DEF BufferIInv, WakeOnItsWay
    <3> QED BY <3>1, <3>2, <3>3, <3>4 DEF HeldBySender, HeldByReceiver
  <2> QED BY <2>1, <2>2
<1> QED BY <1>1, BufferInvariant, PTL

\* Records are received in the order in which they were sent.
THEOREM InOrder == BufferSpec => ReceivedInOrder
<1>1. BufferIInv /\ [BufferNext]_bufferVars => [rx'.last # rx.last => rx'.last > rx.last]_bufferVars
  <2> SUFFICES ASSUME BufferIInv, BufferNext, rx'.last # rx.last PROVE rx'.last > rx.last
    OBVIOUS
  <2>1. CASE RecvRelease
    BY <2>1 DEF RecvRelease, BufferIInv, BufferTypeOK, RunOfNewest
  <2>2. CASE ~RecvRelease
    BY <2>2 DEF BufferNext, Send, Recv, TrySend, SendLoad, SendExchange, SendPush, SendWake, SendPop,
       SendRelease, DropTx, DropTxWake, RecvPoll, DropRx, RecvPop, RecvLoad, RecvRegister,
       RecvActive, RecvCheck, Goes, BufferIInv, BufferTypeOK
  <2> QED BY <2>1, <2>2
<1> QED BY <1>1, BufferInvariant, PTL DEF BufferSpec, ReceivedInOrder

-----------------------------------------------------------------------------
(* The commands that an agent sends.                                       *)

\* The commands, what the output of an endpoint is, and what it has been sent.
AgentCommands == [id : Nat, to : Addresses, overwrite : BOOLEAN]
LaneBuffers == [log : Seq(AgentCommands), offset : Nat]
Logs(e) == [AddressesOf(e) -> Seq(AgentCommands)]
OutputRecord(e) ==
  [writer : {"none", "home", "out"}, sent : Logs(e), lane_buffers : [AddressesOf(e) -> LaneBuffers],
   dirty : Seq(AddressesOf(e)), retries : Nat, taken : Logs(e)]

\* The variables are of their types.
OutputsTyped ==
  /\ given \in 0..MaxCommands
  /\ outputs = [e \in Endpoints |-> outputs[e]]
  /\ \A e \in Endpoints : outputs[e] = NoOutput \/ outputs[e] \in OutputRecord(e)
  /\ received = [e \in Endpoints |-> received[e]]
  /\ \A e \in Endpoints : received[e] \in Logs(e)

\* The last of a run of commands, if there is one, is the last that was taken.
EndsWith(s, all) == s # <<>> /\ Last(s) = Last(all)

\* The account of one target: what was taken for it, what it got, what is in the send
\* buffer, what waits in its own, whether that is marked, and where the writer is.
Account(all, got, sent, b, marked, writer) ==
  /\ b.offset <= Len(b.log)
  /\ \A k \in DOMAIN b.log : k > b.offset => b.log[k].overwrite
  /\ b.log # <<>> => marked /\ EndsWith(b.log, all)
  /\ all = <<>> => b.log = <<>> /\ sent = <<>>
  /\ writer = "none" => sent = <<>> /\ (all # <<>> => b.log # <<>>)
  /\ \A i \in DOMAIN all :
       \/ all[i].overwrite /\ i < Len(all)
       \/ Contains(got, all[i])
       \/ writer = "out" /\ Contains(sent, all[i])
       \/ Contains(b.log, all[i])
  /\ all # <<>> /\ b.log = <<>> =>
       /\ sent # <<>> => EndsWith(sent, all)
       /\ writer = "home" => EndsWith(got, all)
       /\ writer = "out" /\ sent = <<>> => EndsWith(got, all)

\* The accounts of an output are in order.
Accounts(e, o, got) ==
  \A a \in AddressesOf(e) :
    Account(o.taken[a], got[a], o.sent[a], o.lane_buffers[a], Contains(o.dirty, a), o.writer)

\* The inductive invariant of the outputs: one whose writer is home has nothing to write.
LinksIInv ==
  /\ OutputsTyped
  /\ \A e \in Endpoints :
       Present(e) => Accounts(e, outputs[e], received[e]) /\ ~CanWrite(outputs[e])

\* What is in a run of commands with one more.
LEMMA OneMore ==
  ASSUME NEW s \in Seq(AgentCommands), NEW c \in AgentCommands
  PROVE  /\ Append(s, c) \in Seq(AgentCommands) /\ Append(s, c) # <<>> /\ Last(Append(s, c)) = c
         /\ Contains(Append(s, c), c)
         /\ Len(Append(s, c)) = Len(s) + 1 /\ Len(s) \in Nat
         /\ DOMAIN Append(s, c) = 1..(Len(s) + 1) /\ DOMAIN s = 1..Len(s)
         /\ Append(s, c)[Len(s) + 1] = c
         /\ \A i \in 1..Len(s) : Append(s, c)[i] = s[i]
         /\ \A x : Contains(s, x) => Contains(Append(s, c), x)
<1>1. /\ Append(s, c) \in Seq(AgentCommands)
      /\ Len(Append(s, c)) = Len(s) + 1 /\ Len(s) \in Nat
      /\ DOMAIN Append(s, c) = 1..(Len(s) + 1) /\ DOMAIN s = 1..Len(s)
      /\ Append(s, c)[Len(s) + 1] = c
      /\ \A i \in 1..Len(s) : Append(s, c)[i] = s[i]
  OBVIOUS
<1>2. Append(s, c) # <<>> /\ Last(Append(s, c)) = c
  BY <1>1 DEF Last
<1>3. Contains(Append(s, c), c) /\ \A x : Contains(s, x) => Contains(Append(s, c), x)
  BY <1>1 DEF Contains
<1> QED BY <1>1, <1>2, <1>3

\* What is in two runs of commands together.
LEMMA Joined ==
  ASSUME NEW s \in Seq(AgentCommands), NEW t \in Seq(AgentCommands)
  PROVE  /\ s \o t \in Seq(AgentCommands)
         /\ t = <<>> => s \o t = s
         /\ t # <<>> => s \o t # <<>> /\ Last(s \o t) = Last(t)
         /\ \A x : Contains(s, x) \/ Contains(t, x) => Contains(s \o t, x)
<1>1. /\ s \o t \in Seq(AgentCommands) /\ Len(s \o t) = Len(s) + Len(t) /\ Len(s) \in Nat /\ Len(t) \in Nat
      /\ \A i \in 1..Len(s) : (s \o t)[i] = s[i]
      /\ \A i \in 1..Len(t) : (s \o t)[Len(s) + i] = t[i]
  OBVIOUS
<1>2. t = <<>> => s \o t = s
  OBVIOUS
<1>3. t # <<>> => s \o t # <<>> /\ Last(s \o t) = Last(t)
  <2> HAVE t # <<>>
  <2>1. Len(t) > 0 /\ Len(t) \in 1..Len(t)
    BY <1>1, EmptySeq
  <2> QED BY <1>1, <2>1 DEF Last
<1>4. ASSUME NEW x, Contains(s, x) PROVE Contains(s \o t, x)
  BY <1>1, <1>4 DEF Contains
<1>5. ASSUME NEW x, Contains(t, x) PROVE Contains(s \o t, x)
  <2>1. PICK i \in 1..Len(t) : t[i] = x
    BY <1>5 DEF Contains
  <2>2. Len(s) + i \in 1..Len(s \o t) /\ (s \o t)[Len(s) + i] = x
    BY <1>1, <2>1
  <2> QED BY <2>2 DEF Contains
<1> QED BY <1>1, <1>2, <1>3, <1>4, <1>5

\* What is kept of a buffer.
LEMMA KeptOf ==
  ASSUME NEW s \in Seq(AgentCommands), NEW n \in Nat, n <= Len(s)
  PROVE  /\ SubSeq(s, 1, n) \in Seq(AgentCommands) /\ Len(SubSeq(s, 1, n)) = n
         /\ \A i \in 1..n : SubSeq(s, 1, n)[i] = s[i]
BY SubSeqProperties

\* The account after another command: it takes the place of one that gives way.
LEMMA AppendAccount ==
  ASSUME NEW all \in Seq(AgentCommands), NEW got \in Seq(AgentCommands), NEW sent \in Seq(AgentCommands),
         NEW b \in LaneBuffers, NEW marked \in BOOLEAN, NEW writer, NEW c \in AgentCommands,
         Account(all, got, sent, b, marked, writer),
         NEW over \in LaneBuffers,
         over.log = Append(SubSeq(b.log, 1, b.offset), c),
         over.offset = Len(SubSeq(b.log, 1, b.offset)) + (IF c.overwrite THEN 0 ELSE 1)
  PROVE  Account(Append(all, c), got, sent, over, TRUE, writer)
<1> DEFINE kept == SubSeq(b.log, 1, b.offset)
           now == Append(all, c)
<1>1. /\ kept \in Seq(AgentCommands) /\ Len(kept) = b.offset
      /\ \A i \in 1..b.offset : kept[i] = b.log[i]
      /\ b.log \in Seq(AgentCommands) /\ b.offset \in Nat /\ b.offset <= Len(b.log)
  BY KeptOf DEF LaneBuffers, Account
<1>2. over.log = Append(kept, c) /\ over.offset = b.offset + (IF c.overwrite THEN 0 ELSE 1)
  BY <1>1
<1> HIDE DEF kept
<1>3. over.offset <= Len(over.log) /\ \A k \in DOMAIN over.log : k > over.offset => over.log[k].overwrite
  <2>1. DOMAIN over.log = 1..(b.offset + 1) /\ over.log[b.offset + 1] = c /\ Len(over.log) = b.offset + 1
    BY <1>1, <1>2, OneMore
  <2> QED BY <1>1, <1>2, <2>1
<1>4. over.log # <<>> /\ Last(over.log) = c /\ now # <<>> /\ Last(now) = c
  <2>1. over.log # <<>> /\ Last(over.log) = c
    <3>1. Append(kept, c) # <<>> /\ Last(Append(kept, c)) = c
      BY <1>1, OneMore, Zenon
    <3> QED BY <1>2, <3>1, Zenon
  <2> QED BY <2>1, OneMore, Zenon
<1>7. Contains(over.log, c) /\ \A x : Contains(kept, x) => Contains(over.log, x)
  <2>1. Contains(Append(kept, c), c) /\ \A x : Contains(kept, x) => Contains(Append(kept, c), x)
    BY <1>1, OneMore, Zenon
  <2> QED BY <1>2, <2>1, Zenon
<1>5. ASSUME NEW i \in DOMAIN now
      PROVE  \/ now[i].overwrite /\ i < Len(now)
             \/ Contains(got, now[i])
             \/ writer = "out" /\ Contains(sent, now[i])
             \/ Contains(over.log, now[i])
  <2>1. DOMAIN now = 1..(Len(all) + 1) /\ Len(now) = Len(all) + 1 /\ now[Len(all) + 1] = c /\ Len(all) \in Nat
        /\ DOMAIN all = 1..Len(all) /\ \A j \in 1..Len(all) : now[j] = all[j]
    BY OneMore
  <2>2. CASE i = Len(all) + 1
    <3>1. now[i] = c
      BY <2>1, <2>2
    <3> QED BY <3>1, <1>7, Zenon
  <2>3. CASE i \in DOMAIN all
    <3>1. now[i] = all[i] /\ i < Len(now)
      BY <2>1, <2>3
    <3>2. CASE Contains(b.log, all[i])
      <4>1. PICK k \in 1..Len(b.log) : b.log[k] = all[i]
        BY <3>2 DEF Contains
      <4>2. CASE k > b.offset
        <5>1. k \in DOMAIN b.log
          BY <1>1, <4>1
        <5>2. b.log[k].overwrite
          BY <5>1, <4>2 DEF Account
        <5> QED BY <3>1, <4>1, <5>2
      <4>3. CASE k <= b.offset
        <5>1. kept[k] = all[i] /\ k \in 1..Len(kept)
          <6>1. k \in 1..b.offset
            BY <1>1, <4>1, <4>3
          <6>2. kept[k] = b.log[k]
            BY <1>1, <6>1
          <6> QED BY <1>1, <4>1, <6>1, <6>2
        <5>2. Contains(kept, all[i])
          BY <5>1 DEF Contains
        <5> QED BY <5>2, <3>1, <1>7
      <4>4. k \in Nat /\ b.offset \in Nat
        BY <1>1, <4>1
      <4> QED BY <4>2, <4>3, <4>4
    <3>3. CASE ~Contains(b.log, all[i])
      BY <2>3, <3>1, <3>3 DEF Account
    <3> QED BY <3>2, <3>3
  <2> QED BY <2>1, <2>2, <2>3
<1> HIDE DEF now
<1>6. writer = "none" => sent = <<>>
  BY DEF Account
<1> QED BY <1>3, <1>4, <1>5, <1>6 DEF Account, EndsWith, now

\* The account after what waits has been swapped into the send buffer, or appended to it.
LEMMA WriteAccount ==
  ASSUME NEW all \in Seq(AgentCommands), NEW got \in Seq(AgentCommands), NEW sent \in Seq(AgentCommands),
         NEW b \in LaneBuffers, NEW marked \in BOOLEAN,
         Account(all, got, sent, b, marked, "home")
  PROVE  /\ Account(all, got, b.log, EmptyBuffer, FALSE, "out")
         /\ Account(all, got, sent \o b.log, EmptyBuffer, FALSE, "out")
         /\ ~marked => Account(all, got, <<>>, b, FALSE, "out") /\ Account(all, got, sent, b, FALSE, "out")
<1>1. EmptyBuffer.log = <<>> /\ EmptyBuffer.offset = 0 /\ Len(<<>>) = 0 /\ DOMAIN <<>> = {} /\ \A x : ~Contains(<<>>, x)
  BY DEF EmptyBuffer, Contains
<1>2. b.log \in Seq(AgentCommands)
  BY DEF LaneBuffers
<1>3. Account(all, got, b.log, EmptyBuffer, FALSE, "out")
  BY <1>1, <1>2 DEF Account
<1>4. Account(all, got, sent \o b.log, EmptyBuffer, FALSE, "out")
  <2>1. /\ b.log = <<>> => sent \o b.log = sent
        /\ b.log # <<>> => sent \o b.log # <<>> /\ Last(sent \o b.log) = Last(b.log)
        /\ \A x : Contains(b.log, x) => Contains(sent \o b.log, x)
    BY <1>2, Joined
  <2> DEFINE both == sent \o b.log
  <2>2. all = <<>> => both = <<>>
    BY <2>1 DEF Account
  <2>3. all # <<>> => (both # <<>> => EndsWith(both, all)) /\ (both = <<>> => EndsWith(got, all))
    <3>1. CASE b.log = <<>>
      BY <2>1, <3>1, Zenon DEF Account, EndsWith
    <3>2. CASE b.log # <<>>
      BY <2>1, <3>2, Zenon DEF Account, EndsWith
    <3> QED BY <3>1, <3>2
  <2> HIDE DEF both
  <2> QED BY <1>1, <2>1, <2>2, <2>3 DEF Account, both
<1>5. ASSUME ~marked
      PROVE  Account(all, got, <<>>, b, FALSE, "out") /\ Account(all, got, sent, b, FALSE, "out")
  <2>1. b.log = <<>> /\ Len(b.log) = 0 /\ DOMAIN b.log = {}
    BY <1>5 DEF Account
  <2>2. \A x : ~Contains(b.log, x)
    BY <2>1, <1>1
  <2> QED BY <2>1, <2>2 DEF Account
<1> QED BY <1>3, <1>4, <1>5

\* The account when a write has come to its end.
LEMMA ReturnAccount ==
  ASSUME NEW all \in Seq(AgentCommands), NEW got \in Seq(AgentCommands), NEW sent \in Seq(AgentCommands),
         NEW b \in LaneBuffers, NEW marked \in BOOLEAN,
         Account(all, got, sent, b, marked, "out")
  PROVE  Account(all, got \o sent, sent, b, marked, "home")
<1>1. /\ sent = <<>> => got \o sent = got
      /\ sent # <<>> => got \o sent # <<>> /\ Last(got \o sent) = Last(sent)
      /\ \A x : Contains(got, x) \/ Contains(sent, x) => Contains(got \o sent, x)
  BY Joined
<1> DEFINE more == got \o sent
<1>2. all # <<>> /\ b.log = <<>> => EndsWith(more, all)
  <2>1. CASE sent = <<>>
    BY <1>1, <2>1, Zenon DEF Account, EndsWith
  <2>2. CASE sent # <<>>
    BY <1>1, <2>2, Zenon DEF Account, EndsWith
  <2> QED BY <2>1, <2>2
<1> HIDE DEF more
<1> QED BY <1>1, <1>2 DEF Account, more

\* The account when the channel has been opened: nothing has been sent.
LEMMA OpenAccount ==
  ASSUME NEW all, NEW got, NEW sent, NEW b, NEW marked, Account(all, got, sent, b, marked, "none")
  PROVE  Account(all, got, sent, b, marked, "home")
BY DEF Account

\* An output takes a command.
LEMMA AppendOutput ==
  ASSUME NEW e \in Endpoints, NEW o \in OutputRecord(e), NEW got \in Logs(e), Accounts(e, o, got),
         NEW c \in AgentCommands, c.to \in AddressesOf(e)
  PROVE  /\ AppendCommand(o, c) \in OutputRecord(e) /\ AppendCommand(o, c).writer = o.writer
         /\ Accounts(e, AppendCommand(o, c), got)
<1> DEFINE p == AppendCommand(o, c)
           b == o.lane_buffers[c.to]
           kept == SubSeq(b.log, 1, b.offset)
           over == [log |-> Append(kept, c), offset |-> Len(kept) + IF c.overwrite THEN 0 ELSE 1]
<1>1. /\ b \in LaneBuffers /\ b.log \in Seq(AgentCommands) /\ b.offset \in Nat /\ b.offset <= Len(b.log)
      /\ o.taken \in Logs(e) /\ o.sent \in Logs(e) /\ o.dirty \in Seq(AddressesOf(e))
      /\ o.lane_buffers \in [AddressesOf(e) -> LaneBuffers]
  BY DEF OutputRecord, LaneBuffers, Accounts, Account
<1>2. kept \in Seq(AgentCommands) /\ Len(kept) \in Nat
  BY <1>1, KeptOf
<1> HIDE DEF kept
<1>3. over \in LaneBuffers
  BY <1>2 DEF LaneBuffers
<1> HIDE DEF b, over
<1>4. p = [o EXCEPT !.lane_buffers[c.to] = over, !.dirty = Append(@, c.to), !.taken[c.to] = Append(@, c)]
  BY DEF AppendCommand, over, kept, b
<1>5. /\ p.writer = o.writer /\ p.sent = o.sent /\ p.retries = o.retries
      /\ p.lane_buffers = [o.lane_buffers EXCEPT ![c.to] = over]
      /\ p.dirty = Append(o.dirty, c.to)
      /\ p.taken = [o.taken EXCEPT ![c.to] = Append(@, c)]
      /\ p.lane_buffers[c.to] = over /\ p.taken[c.to] = Append(o.taken[c.to], c)
      /\ \A a \in AddressesOf(e) \ {c.to} : p.lane_buffers[a] = o.lane_buffers[a] /\ p.taken[a] = o.taken[a]
  BY <1>1, <1>4 DEF OutputRecord, Logs
<1>6. \A a \in AddressesOf(e) : o.taken[a] \in Seq(AgentCommands) /\ o.sent[a] \in Seq(AgentCommands) /\ got[a] \in Seq(AgentCommands)
  BY <1>1 DEF Logs
<1>7. p \in OutputRecord(e)
  <2>1. p.taken \in Logs(e)
    BY <1>1, <1>5, <1>6 DEF Logs
  <2>2. p.lane_buffers \in [AddressesOf(e) -> LaneBuffers] /\ p.dirty \in Seq(AddressesOf(e))
    BY <1>1, <1>3, <1>5
  <2>3. p = [writer |-> p.writer, sent |-> p.sent, lane_buffers |-> p.lane_buffers, dirty |-> p.dirty,
             retries |-> p.retries, taken |-> p.taken]
    BY <1>4 DEF OutputRecord
  <2>4. p.writer \in {"none", "home", "out"} /\ p.retries \in Nat /\ p.sent \in Logs(e)
    BY <1>1, <1>5 DEF OutputRecord
  <2> HIDE DEF p
  <2> QED BY <2>1, <2>2, <2>3, <2>4 DEF OutputRecord
<1> HIDE DEF p
<1>8. \A a : Contains(o.dirty, a) => Contains(p.dirty, a)
  BY <1>1, <1>5 DEF Contains
<1>9. Contains(p.dirty, c.to)
  <2>1. Len(o.dirty) + 1 \in 1..Len(p.dirty) /\ p.dirty[Len(o.dirty) + 1] = c.to
    BY <1>1, <1>5
  <2> QED BY <2>1 DEF Contains
<1>10. ASSUME NEW a \in AddressesOf(e)
       PROVE  Account(p.taken[a], got[a], p.sent[a], p.lane_buffers[a], Contains(p.dirty, a), p.writer)
  <2>1. Account(o.taken[a], got[a], o.sent[a], o.lane_buffers[a], Contains(o.dirty, a), o.writer)
    BY DEF Accounts
  <2>2. CASE a = c.to
    <3>1. over.log = Append(SubSeq(b.log, 1, b.offset), c)
          /\ over.offset = Len(SubSeq(b.log, 1, b.offset)) + (IF c.overwrite THEN 0 ELSE 1)
      BY DEF over, kept
    <3>2. Account(o.taken[a], got[a], o.sent[a], b, Contains(o.dirty, a), o.writer)
      BY <2>1, <2>2 DEF b
    <3>5. Contains(o.dirty, a) \in BOOLEAN
      BY DEF Contains
    <3>3. Account(Append(o.taken[a], c), got[a], o.sent[a], over, TRUE, o.writer)
      BY <3>1, <3>2, <3>5, <1>1, <1>3, <1>6, AppendAccount
    <3>4. Contains(p.dirty, a) = TRUE
      BY <1>9, <2>2 DEF Contains
    <3> QED BY <3>3, <3>4, <1>5, <2>2
  <2>3. CASE a # c.to
    <3>1. Contains(o.dirty, a) => Contains(p.dirty, a)
      BY <1>8
    <3>2. p.lane_buffers[a] = o.lane_buffers[a] /\ p.taken[a] = o.taken[a] /\ p.sent[a] = o.sent[a] /\ p.writer = o.writer
      BY <2>3, <1>5
    <3> QED BY <2>1, <3>1, <3>2 DEF Account
  <2> QED BY <2>2, <2>3
<1> QED BY <1>5, <1>7, <1>10 DEF Accounts, p

\* An output whose writer is home writes what waits.
LEMMA WriteOutput ==
  ASSUME NEW e \in Endpoints, NEW o \in OutputRecord(e), NEW got \in Logs(e), Accounts(e, o, got), CanWrite(o)
  PROVE  /\ Write(o) \in OutputRecord(e) /\ Write(o).writer = "out"
         /\ Accounts(e, Write(o), got)
<1> DEFINE p == Write(o)
<1>1. /\ o.taken \in Logs(e) /\ o.sent \in Logs(e) /\ o.dirty \in Seq(AddressesOf(e)) /\ o.retries \in Nat
      /\ o.lane_buffers \in [AddressesOf(e) -> LaneBuffers]
      /\ o.writer = "home" /\ o.dirty # <<>>
  BY DEF OutputRecord, CanWrite
<1>2. /\ p.writer = "out" /\ p.dirty = <<>> /\ p.retries = o.retries /\ p.taken = o.taken
      /\ p.lane_buffers = [a \in AddressesOf(e) |-> IF Contains(o.dirty, a) THEN EmptyBuffer ELSE o.lane_buffers[a]]
      /\ p.sent = IF Len(o.dirty) = 1
                    THEN [a \in AddressesOf(e) |-> IF a = Head(o.dirty) THEN o.lane_buffers[a].log ELSE <<>>]
                    ELSE [a \in AddressesOf(e) |-> IF Contains(o.dirty, a) THEN o.sent[a] \o o.lane_buffers[a].log ELSE o.sent[a]]
      /\ p = [writer |-> p.writer, sent |-> p.sent, lane_buffers |-> p.lane_buffers, dirty |-> p.dirty,
              retries |-> p.retries, taken |-> p.taken]
  <2>1. /\ DOMAIN o.sent = AddressesOf(e) /\ DOMAIN o.lane_buffers = AddressesOf(e)
        /\ o = [writer |-> o.writer, sent |-> o.sent, lane_buffers |-> o.lane_buffers, dirty |-> o.dirty,
                retries |-> o.retries, taken |-> o.taken]
    BY <1>1 DEF OutputRecord, Logs
  <2> DEFINE s == IF Len(o.dirty) = 1
                    THEN [a \in AddressesOf(e) |-> IF a = Head(o.dirty) THEN o.lane_buffers[a].log ELSE <<>>]
                    ELSE [a \in AddressesOf(e) |-> IF Contains(o.dirty, a) THEN o.sent[a] \o o.lane_buffers[a].log ELSE o.sent[a]]
             w == IF Len(o.dirty) = 1 THEN SwapBuffer(o) ELSE AppendBuffer(o)
  <2>2. w = [o EXCEPT !.sent = s]
    <3>1. CASE Len(o.dirty) = 1
      BY <2>1, <3>1 DEF SwapBuffer
    <3>2. CASE Len(o.dirty) # 1
      BY <2>1, <3>2 DEF AppendBuffer
    <3> QED BY <3>1, <3>2
  <2>3. p = [w EXCEPT !.writer = "out", !.dirty = <<>>,
                !.lane_buffers = [a \in DOMAIN @ |-> IF Contains(o.dirty, a) THEN EmptyBuffer ELSE @[a]]]
    BY DEF Write
  <2> HIDE DEF s, w, p
  <2>4. p = [writer |-> "out", sent |-> s, dirty |-> <<>>, retries |-> o.retries, taken |-> o.taken,
             lane_buffers |-> [a \in AddressesOf(e) |-> IF Contains(o.dirty, a) THEN EmptyBuffer ELSE o.lane_buffers[a]]]
    BY <2>1, <2>2, <2>3
  <2> QED BY <2>4 DEF s
<1> HIDE DEF p
<1>3. \A a \in AddressesOf(e) : /\ o.taken[a] \in Seq(AgentCommands) /\ o.sent[a] \in Seq(AgentCommands)
                                /\ got[a] \in Seq(AgentCommands) /\ o.lane_buffers[a] \in LaneBuffers
                                /\ o.lane_buffers[a].log \in Seq(AgentCommands)
  BY <1>1 DEF Logs, LaneBuffers
<1>4. \A a : ~Contains(p.dirty, a)
  BY <1>2 DEF Contains
<1>5. Len(o.dirty) = 1 => \A a : Contains(o.dirty, a) <=> a = Head(o.dirty)
  <2> HAVE Len(o.dirty) = 1
  <2>1. Head(o.dirty) = o.dirty[1] /\ 1..Len(o.dirty) = {1}
    BY <1>1
  <2> QED BY <2>1 DEF Contains
<1>6. ASSUME NEW a \in AddressesOf(e)
      PROVE  /\ p.sent[a] \in Seq(AgentCommands) /\ p.lane_buffers[a] \in LaneBuffers
             /\ Account(p.taken[a], got[a], p.sent[a], p.lane_buffers[a], Contains(p.dirty, a), p.writer)
  <2> DEFINE b == o.lane_buffers[a]
             all == o.taken[a]
             m == Contains(o.dirty, a)
             had == got[a]
             kept == o.sent[a]
  <2>1. /\ Account(all, got[a], b.log, EmptyBuffer, FALSE, "out")
        /\ Account(all, got[a], o.sent[a] \o b.log, EmptyBuffer, FALSE, "out")
        /\ ~Contains(o.dirty, a) =>
             Account(all, got[a], <<>>, b, FALSE, "out") /\ Account(all, got[a], o.sent[a], b, FALSE, "out")
    <3>1. Account(all, had, kept, b, m, "home")
      BY <1>1 DEF Accounts
    <3>2. b \in LaneBuffers /\ all \in Seq(AgentCommands) /\ kept \in Seq(AgentCommands) /\ had \in Seq(AgentCommands)
      BY <1>3
    <3>4. m \in BOOLEAN
      BY DEF Contains
    <3> HIDE DEF b, all, m, had, kept
    <3>3. /\ Account(all, had, b.log, EmptyBuffer, FALSE, "out")
          /\ Account(all, had, kept \o b.log, EmptyBuffer, FALSE, "out")
          /\ ~m => Account(all, had, <<>>, b, FALSE, "out") /\ Account(all, had, kept, b, FALSE, "out")
      BY <3>1, <3>2, <3>4, WriteAccount
    <3> QED BY <3>3 DEF m, had, kept
  <2>2. Contains(p.dirty, a) = FALSE /\ p.writer = "out" /\ p.taken[a] = all
    BY <1>2, <1>4 DEF Contains
  <2>3. EmptyBuffer \in LaneBuffers /\ <<>> \in Seq(AgentCommands) /\ o.sent[a] \o b.log \in Seq(AgentCommands)
    BY <1>3 DEF EmptyBuffer, LaneBuffers
  <2>4. CASE Contains(o.dirty, a)
    <3>1. p.lane_buffers[a] = EmptyBuffer /\ p.sent[a] \in {b.log, o.sent[a] \o b.log}
      BY <1>2, <1>5, <2>4
    <3> HIDE DEF b, all
    <3> QED BY <2>1, <2>2, <2>3, <3>1, <1>3 DEF b
  <2>5. CASE ~Contains(o.dirty, a)
    <3>1. p.lane_buffers[a] = b /\ p.sent[a] \in {<<>>, o.sent[a]}
      BY <1>2, <1>5, <2>5
    <3> HIDE DEF b, all
    <3> QED BY <2>1, <2>2, <2>3, <2>5, <3>1, <1>3 DEF b
  <2> QED BY <2>4, <2>5
<1>7. p \in OutputRecord(e)
  <2>1. p.sent \in Logs(e) /\ p.lane_buffers \in [AddressesOf(e) -> LaneBuffers]
    BY <1>2, <1>6 DEF Logs
  <2>2. p.writer \in {"none", "home", "out"} /\ p.dirty \in Seq(AddressesOf(e)) /\ p.retries \in Nat /\ p.taken \in Logs(e)
    BY <1>1, <1>2
  <2> QED BY <1>2, <2>1, <2>2 DEF OutputRecord
<1> QED BY <1>2, <1>6, <1>7 DEF Accounts, p

\* An output that is in order and has nothing to write takes the place of another.
LEMMA PutOutput ==
  ASSUME LinksIInv, NEW e \in Endpoints, NEW p \in OutputRecord(e), NEW got \in Logs(e),
         Accounts(e, p, got), ~CanWrite(p),
         outputs' = [outputs EXCEPT ![e] = p], received' = [received EXCEPT ![e] = got],
         given' \in 0..MaxCommands
  PROVE  LinksIInv'
<1>1. /\ outputs = [f \in Endpoints |-> outputs[f]] /\ received = [f \in Endpoints |-> received[f]]
  BY DEF LinksIInv, OutputsTyped
<1>2. /\ outputs' = [f \in Endpoints |-> outputs'[f]] /\ received' = [f \in Endpoints |-> received'[f]]
      /\ outputs'[e] = p /\ received'[e] = got
      /\ \A f \in Endpoints \ {e} : outputs'[f] = outputs[f] /\ received'[f] = received[f]
  BY <1>1
<1>3. OutputsTyped'
  BY <1>2 DEF LinksIInv, OutputsTyped, OutputRecord, Logs, LaneBuffers
<1>4. ASSUME NEW f \in Endpoints, Present(f)'
      PROVE  Accounts(f, outputs[f], received[f])' /\ ~CanWrite(outputs[f])'
  <2>1. CASE f = e
    <3>1. outputs'[f] = p /\ received'[f] = got /\ f = e
      BY <1>2, <2>1
    <3> QED BY <3>1 DEF Accounts, CanWrite
  <2>2. CASE f # e
    <3>1. outputs'[f] = outputs[f] /\ received'[f] = received[f]
      BY <1>2, <2>2
    <3>2. Present(f)
      BY <1>4, <3>1 DEF Present
    <3> QED BY <3>1, <3>2 DEF LinksIInv, Accounts, CanWrite
  <2> QED BY <2>1, <2>2
<1> QED BY <1>3, <1>4 DEF LinksIInv

\* The step of an output that takes a command, or whose writer comes home, ends with a
\* write if there is something to write.
LEMMA TryWriteKeeps ==
  ASSUME LinksIInv, NEW e \in Endpoints, NEW o \in OutputRecord(e), NEW t,
         NEW got \in Logs(e), Accounts(e, o, got), TryWrite(e, o, t),
         received' = [received EXCEPT ![e] = got], given' \in 0..MaxCommands
  PROVE  LinksIInv'
<1> DEFINE p == IF CanWrite(o) THEN Write(o) ELSE o
<1>1. p \in OutputRecord(e) /\ Accounts(e, p, got) /\ ~CanWrite(p)
  BY WriteOutput DEF CanWrite
<1>2. outputs' = [outputs EXCEPT ![e] = p]
  BY DEF TryWrite
<1> HIDE DEF p
<1> QED BY <1>1, <1>2, PutOutput

\* An output is closed.
LEMMA CloseKeeps ==
  ASSUME LinksIInv, NEW e \in Endpoints, CloseOutput(e), given' = given
  PROVE  LinksIInv'
<1>1. /\ outputs = [f \in Endpoints |-> outputs[f]] /\ received = [f \in Endpoints |-> received[f]]
  BY DEF LinksIInv, OutputsTyped
<1>2. /\ outputs' = [f \in Endpoints |-> outputs'[f]] /\ received' = [f \in Endpoints |-> received'[f]]
      /\ outputs'[e] = NoOutput /\ received'[e] = Nothing(e)
      /\ \A f \in Endpoints \ {e} : outputs'[f] = outputs[f] /\ received'[f] = received[f]
  BY <1>1 DEF CloseOutput
<1>3. Nothing(e) \in Logs(e)
  BY DEF Nothing, Logs
<1>4. OutputsTyped'
  BY <1>2, <1>3 DEF LinksIInv, OutputsTyped, OutputRecord, Logs, LaneBuffers, NoOutput
<1>5. ASSUME NEW f \in Endpoints, Present(f)'
      PROVE  Accounts(f, outputs[f], received[f])' /\ ~CanWrite(outputs[f])'
  <2>1. f # e
    BY <1>2, <1>5 DEF Present, NoOutput
  <2>2. outputs'[f] = outputs[f] /\ received'[f] = received[f] /\ Present(f)
    BY <1>2, <1>5, <2>1 DEF Present
  <2> QED BY <2>2 DEF LinksIInv, Accounts, CanWrite
<1> QED BY <1>4, <1>5 DEF LinksIInv

\* What a present output is.
LEMMA PresentOutput ==
  ASSUME LinksIInv, NEW e \in Endpoints, Present(e)
  PROVE  /\ outputs[e] \in OutputRecord(e) /\ received[e] \in Logs(e)
         /\ Accounts(e, outputs[e], received[e]) /\ ~CanWrite(outputs[e])
         /\ received = [received EXCEPT ![e] = received[e]]
BY DEF LinksIInv, OutputsTyped, Present, NoOutput

\* A command for an endpoint that has no output: it waits in a new one.
LEMMA NewOutputKeeps ==
  ASSUME NEW e \in Endpoints, NEW got \in Logs(e)
  PROVE  NewOutput(e) \in OutputRecord(e) /\ NewOutput(e).writer = "none" /\ Accounts(e, NewOutput(e), got)
<1>1. /\ Nothing(e) \in Logs(e) /\ [a \in AddressesOf(e) |-> EmptyBuffer] \in [AddressesOf(e) -> LaneBuffers]
      /\ <<>> \in Seq(AddressesOf(e)) /\ MaxRetries \in Nat
  BY RetriesAssumption DEF Nothing, Logs, EmptyBuffer, LaneBuffers
<1>2. NewOutput(e) \in OutputRecord(e) /\ NewOutput(e).writer = "none"
  BY <1>1 DEF NewOutput, OutputRecord
<1>3. ASSUME NEW a \in AddressesOf(e)
      PROVE  /\ NewOutput(e).taken[a] = <<>> /\ NewOutput(e).sent[a] = <<>>
             /\ NewOutput(e).lane_buffers[a].log = <<>> /\ NewOutput(e).lane_buffers[a].offset = 0
  BY DEF NewOutput, Nothing, EmptyBuffer
<1>4. Len(<<>>) = 0 /\ DOMAIN <<>> = {}
  OBVIOUS
<1> QED BY <1>2, <1>3, <1>4 DEF Accounts, Account

\* A command is given to the output of its endpoint.
LEMMA CommandKeeps ==
  ASSUME LinksIInv, NEW a \in Addresses, NEW over \in BOOLEAN, Command(a, over)
  PROVE  LinksIInv'
<1> DEFINE e == EndpointOf[a]
           c == [id |-> given + 1, to |-> a, overwrite |-> over]
<1>1. given' \in 0..MaxCommands /\ c \in AgentCommands /\ c.to = a
  BY RetriesAssumption DEF LinksIInv, OutputsTyped, Command, AgentCommands
<1>2. CASE e = NoHost /\ UNCHANGED <<outputs, timer, received>>
  BY <1>1, <1>2 DEF LinksIInv, OutputsTyped, Accounts, Present, CanWrite
<1>3. CASE e # NoHost /\ Present(e) /\ TryWrite(e, AppendCommand(outputs[e], c), FALSE) /\ UNCHANGED received
  <2>1. e \in Endpoints /\ c.to \in AddressesOf(e)
    BY <1>1, <1>3 DEF Endpoints, AddressesOf
  <2> HIDE DEF c, e
  <2>2. /\ outputs[e] \in OutputRecord(e) /\ received[e] \in Logs(e) /\ Accounts(e, outputs[e], received[e])
        /\ received' = [received EXCEPT ![e] = received[e]]
    BY <1>3, <2>1, PresentOutput
  <2>3. /\ AppendCommand(outputs[e], c) \in OutputRecord(e)
        /\ Accounts(e, AppendCommand(outputs[e], c), received[e])
    BY <1>1, <2>1, <2>2, AppendOutput
  <2> QED BY <1>1, <1>3, <2>1, <2>2, <2>3, TryWriteKeeps
<1>4. CASE e # NoHost /\ outputs' = [outputs EXCEPT ![e] = AppendCommand(NewOutput(e), c)] /\ UNCHANGED <<timer, received>>
  <2>1. e \in Endpoints /\ c.to \in AddressesOf(e)
    BY <1>1, <1>4 DEF Endpoints, AddressesOf
  <2> HIDE DEF c, e
  <2>2. received[e] \in Logs(e) /\ received' = [received EXCEPT ![e] = received[e]]
    BY <1>4, <2>1 DEF LinksIInv, OutputsTyped
  <2>3. /\ AppendCommand(NewOutput(e), c) \in OutputRecord(e) /\ AppendCommand(NewOutput(e), c).writer = "none"
        /\ Accounts(e, AppendCommand(NewOutput(e), c), received[e])
    BY <1>1, <2>1, <2>2, NewOutputKeeps, AppendOutput
  <2>4. ~CanWrite(AppendCommand(NewOutput(e), c))
    BY <2>3 DEF CanWrite
  <2> QED BY <1>1, <1>4, <2>1, <2>2, <2>3, <2>4, PutOutput
<1> QED BY <1>2, <1>3, <1>4 DEF Command

\* The writer of an output that is opening or writing comes home.
LEMMA HomeKeeps ==
  ASSUME NEW e \in Endpoints, NEW o \in OutputRecord(e), NEW got \in Logs(e),
         \A a \in AddressesOf(e) :
           Account(o.taken[a], got[a], o.sent[a], o.lane_buffers[a], Contains(o.dirty, a), "home")
  PROVE  /\ [o EXCEPT !.writer = "home"] \in OutputRecord(e)
         /\ Accounts(e, [o EXCEPT !.writer = "home"], got)
<1> DEFINE p == [o EXCEPT !.writer = "home"]
<1>1. /\ p.writer = "home" /\ p.sent = o.sent /\ p.lane_buffers = o.lane_buffers /\ p.dirty = o.dirty
      /\ p.taken = o.taken /\ p \in OutputRecord(e)
  BY DEF OutputRecord
<1> HIDE DEF p
<1> QED BY <1>1 DEF Accounts, p

\* The server has opened a channel.
LEMMA NewChannelKeeps ==
  ASSUME LinksIInv, NEW e \in Endpoints, NewChannel(e)
  PROVE  LinksIInv'
<1>1. Present(e) /\ outputs[e].writer = "none" /\ UNCHANGED received /\ given' \in 0..MaxCommands
  BY DEF NewChannel, Present, LinksIInv, OutputsTyped
<1>2. /\ outputs[e] \in OutputRecord(e) /\ received[e] \in Logs(e) /\ Accounts(e, outputs[e], received[e])
      /\ received' = [received EXCEPT ![e] = received[e]]
  BY <1>1, PresentOutput
<1> DEFINE o == [outputs[e] EXCEPT !.writer = "home"]
<1>3. o \in OutputRecord(e) /\ Accounts(e, o, received[e])
  <2>1. ASSUME NEW a \in AddressesOf(e)
        PROVE  Account(outputs[e].taken[a], received[e][a], outputs[e].sent[a], outputs[e].lane_buffers[a],
                       Contains(outputs[e].dirty, a), "home")
    BY <1>1, <1>2, OpenAccount DEF Accounts
  <2> QED BY <1>2, <2>1, HomeKeeps
<1>4. TryWrite(e, o, timer[e])
  BY DEF NewChannel
<1> HIDE DEF o
<1> QED BY <1>1, <1>2, <1>3, <1>4, TryWriteKeeps

\* It could not, and may be asked again.
LEMMA NewChannelFailsKeeps ==
  ASSUME LinksIInv, NEW e \in Endpoints, NEW fatal, NewChannelFails(e, fatal)
  PROVE  LinksIInv'
<1>1. CASE CloseOutput(e)
  BY <1>1, CloseKeeps DEF NewChannelFails
<1>2. CASE outputs[e].retries # 0 /\ outputs' = [outputs EXCEPT ![e].retries = @ - 1] /\ UNCHANGED received
  <2>1. Present(e) /\ outputs[e].writer = "none" /\ given' \in 0..MaxCommands
    BY DEF NewChannelFails, Present, LinksIInv, OutputsTyped
  <2>2. /\ outputs[e] \in OutputRecord(e) /\ received[e] \in Logs(e) /\ Accounts(e, outputs[e], received[e])
        /\ received' = [received EXCEPT ![e] = received[e]]
    BY <1>2, <2>1, PresentOutput
  <2> DEFINE p == [outputs[e] EXCEPT !.retries = @ - 1]
  <2>3. /\ p \in OutputRecord(e) /\ p.writer = "none" /\ p.sent = outputs[e].sent
        /\ p.lane_buffers = outputs[e].lane_buffers /\ p.dirty = outputs[e].dirty /\ p.taken = outputs[e].taken
    BY <1>2, <2>1, <2>2 DEF OutputRecord
  <2>4. outputs' = [outputs EXCEPT ![e] = p]
    BY <1>2
  <2> HIDE DEF p
  <2>5. Accounts(e, p, received[e]) /\ ~CanWrite(p)
    BY <2>1, <2>2, <2>3 DEF Accounts, CanWrite
  <2> QED BY <2>1, <2>2, <2>3, <2>4, <2>5, PutOutput
<1> QED BY <1>1, <1>2 DEF NewChannelFails

\* A write has come to its end.
LEMMA WriteDoneKeeps ==
  ASSUME LinksIInv, NEW e \in Endpoints, WriteDone(e)
  PROVE  LinksIInv'
<1>1. Present(e) /\ outputs[e].writer = "out" /\ given' \in 0..MaxCommands
  BY DEF WriteDone, Present, LinksIInv, OutputsTyped
<1>2. outputs[e] \in OutputRecord(e) /\ received[e] \in Logs(e) /\ Accounts(e, outputs[e], received[e])
  BY <1>1, PresentOutput
<1> DEFINE o == [outputs[e] EXCEPT !.writer = "home"]
           got == [a \in AddressesOf(e) |-> received[e][a] \o outputs[e].sent[a]]
<1>3. \A a \in AddressesOf(e) :
        /\ outputs[e].taken[a] \in Seq(AgentCommands) /\ outputs[e].sent[a] \in Seq(AgentCommands)
        /\ received[e][a] \in Seq(AgentCommands) /\ outputs[e].lane_buffers[a] \in LaneBuffers
  BY <1>2 DEF OutputRecord, Logs
<1>4. received' = [received EXCEPT ![e] = got] /\ got \in Logs(e)
  <2>1. DOMAIN received[e] = AddressesOf(e)
    BY <1>2 DEF Logs
  <2>2. received' = [received EXCEPT ![e] = got]
    BY <2>1 DEF WriteDone
  <2> QED BY <2>2, <1>3 DEF Logs
<1>5. o \in OutputRecord(e) /\ Accounts(e, o, got)
  <2>1. ASSUME NEW a \in AddressesOf(e)
        PROVE  Account(outputs[e].taken[a], got[a], outputs[e].sent[a], outputs[e].lane_buffers[a],
                       Contains(outputs[e].dirty, a), "home")
    <3>1. Account(outputs[e].taken[a], received[e][a], outputs[e].sent[a], outputs[e].lane_buffers[a],
                  Contains(outputs[e].dirty, a), "out")
      BY <1>1, <1>2 DEF Accounts
    <3>2. Contains(outputs[e].dirty, a) \in BOOLEAN
      BY DEF Contains
    <3>3. got[a] = received[e][a] \o outputs[e].sent[a]
      OBVIOUS
    <3> HIDE DEF got
    <3>4. Account(outputs[e].taken[a], received[e][a] \o outputs[e].sent[a], outputs[e].sent[a],
                  outputs[e].lane_buffers[a], Contains(outputs[e].dirty, a), "home")
      BY <3>1, <3>2, <1>3, ReturnAccount
    <3> QED BY <3>3, <3>4
  <2> HIDE DEF got
  <2> QED BY <1>2, <1>4, <2>1, HomeKeeps
<1>6. TryWrite(e, o, timer[e])
  BY DEF WriteDone, AfterWrite
<1> HIDE DEF o, got
<1> QED BY <1>1, <1>4, <1>5, <1>6, TryWriteKeeps

\* Every step keeps the outputs in order.
LEMMA LinksStep ==
  ASSUME LinksIInv, [LinksNext]_linksVars
  PROVE  LinksIInv'
<1>1. ASSUME UNCHANGED <<given, outputs, received>> PROVE LinksIInv'
  BY <1>1 DEF LinksIInv, OutputsTyped, Accounts, Present, CanWrite
<1>2. ASSUME NEW a \in Addresses, NEW over \in BOOLEAN, Command(a, over) PROVE LinksIInv'
  BY <1>2, CommandKeeps
<1>3. ASSUME NEW e \in Endpoints, NewChannel(e) PROVE LinksIInv'
  BY <1>3, NewChannelKeeps
<1>4. ASSUME NEW e \in Endpoints, NEW fatal \in BOOLEAN, NewChannelFails(e, fatal) PROVE LinksIInv'
  BY <1>4, NewChannelFailsKeeps
<1>5. ASSUME NEW e \in Endpoints, WriteDone(e) PROVE LinksIInv'
  BY <1>5, WriteDoneKeeps
<1>6. ASSUME NEW e \in Endpoints, WriteFails(e) PROVE LinksIInv'
  BY <1>6, CloseKeeps DEF WriteFails
<1>7. ASSUME NEW e \in Endpoints, Timeout(e) PROVE LinksIInv'
  BY <1>1, <1>7, CloseKeeps DEF Timeout
<1>8. CASE LinksStop
  <2>1. \A e \in Endpoints : outputs'[e] = NoOutput /\ received'[e] = Nothing(e) /\ Nothing(e) \in Logs(e)
    BY <1>8 DEF LinksStop, Nothing, Logs
  <2>2. /\ outputs' = [e \in Endpoints |-> outputs'[e]] /\ received' = [e \in Endpoints |-> received'[e]]
        /\ given' \in 0..MaxCommands
    BY <1>8 DEF LinksStop, LinksIInv, OutputsTyped
  <2> QED BY <2>1, <2>2 DEF LinksIInv, OutputsTyped, OutputRecord, Logs, LaneBuffers, Present, NoOutput
<1>9. CASE AdHocRequest \/ DropChannel \/ UNCHANGED linksVars
  BY <1>1, <1>9 DEF AdHocRequest, DropChannel, linksVars
<1>10. ASSUME NEW d \in Downlinks,
              DownlinkRequest(d) \/ DownlinkResult(d) \/ \E fatal \in BOOLEAN : DownlinkFails(d, fatal)
       PROVE  LinksIInv'
  BY <1>1, <1>10 DEF DownlinkRequest, DownlinkResult, DownlinkFails
<1> QED BY <1>2, <1>3, <1>4, <1>5, <1>6, <1>7, <1>8, <1>9, <1>10 DEF LinksNext

\* What the invariant of the outputs says of the commands.
LEMMA LinksImplied ==
  ASSUME LinksIInv
  PROVE  LinksInv
<1>1. ASSUME NEW e \in Endpoints, Present(e), NEW a \in AddressesOf(e)
      PROVE  /\ outputs[e].writer \in {"none", "home", "out"}
             /\ outputs[e].lane_buffers[a].offset \in 0..Len(outputs[e].lane_buffers[a].log)
             /\ \A i \in DOMAIN outputs[e].taken[a] :
                  \/ outputs[e].taken[a][i].overwrite /\ i < Len(outputs[e].taken[a])
                  \/ Contains(received[e][a], outputs[e].taken[a][i])
                  \/ outputs[e].writer = "out" /\ Contains(outputs[e].sent[a], outputs[e].taken[a][i])
                  \/ /\ Contains(outputs[e].lane_buffers[a].log, outputs[e].taken[a][i])
                     /\ Contains(outputs[e].dirty, a)
             /\ outputs[e].writer = "home" /\ outputs[e].taken[a] # <<>> =>
                  received[e][a] # <<>> /\ Last(received[e][a]) = Last(outputs[e].taken[a])
  <2> DEFINE all == outputs[e].taken[a]
             got == received[e][a]
             sent == outputs[e].sent[a]
             b == outputs[e].lane_buffers[a]
             marked == Contains(outputs[e].dirty, a)
             writer == outputs[e].writer
  <2>1. /\ b \in LaneBuffers /\ Account(all, got, sent, b, marked, writer) /\ writer \in {"none", "home", "out"}
        /\ ~CanWrite(outputs[e])
    BY <1>1, PresentOutput DEF Accounts, OutputRecord
  <2>2. writer = "home" => ~marked
    BY <2>1 DEF CanWrite, Contains
  <2> HIDE DEF all, got, sent, b, marked, writer
  <2>3. b.offset \in 0..Len(b.log)
    BY <2>1 DEF LaneBuffers, Account
  <2>4. \A x : Contains(b.log, x) => marked
    <3>1. \A x : Contains(<<>>, x) => FALSE
      BY DEF Contains
    <3> QED BY <2>1, <3>1 DEF Account
  <2>5. \A i \in DOMAIN all : \/ all[i].overwrite /\ i < Len(all)
                              \/ Contains(got, all[i])
                              \/ writer = "out" /\ Contains(sent, all[i])
                              \/ Contains(b.log, all[i]) /\ marked
    BY <2>1, <2>4 DEF Account
  <2>6. writer = "home" /\ all # <<>> => got # <<>> /\ Last(got) = Last(all)
    BY <2>1, <2>2 DEF Account, EndsWith
  <2> QED BY <2>1, <2>3, <2>5, <2>6 DEF all, got, sent, b, marked, writer
<1>2. LinksTypeOK
  <2>1. ASSUME NEW e \in Endpoints, Present(e) PROVE outputs[e].writer \in {"none", "home", "out"}
    BY <2>1, PresentOutput DEF OutputRecord
  <2> QED BY <1>1, <2>1 DEF LinksTypeOK, LinksIInv, OutputsTyped
<1>3. CommandsKept
  BY <1>1, Zenon DEF CommandsKept
<1> QED BY <1>2, <1>3 DEF LinksInv

\* Whatever the timers, the failures of the server and the order in which writers come
\* back, an output that took a command has sent it, is sending it or will, or a later
\* one takes its place, and one at rest has left every target its last command.
THEOREM CommandsArrive == LinksSpec => []LinksInv
<1>1. LinksInit => LinksIInv
  <2> HAVE LinksInit
  <2>1. \A e \in Endpoints : outputs[e] = NoOutput /\ received[e] = Nothing(e) /\ Nothing(e) \in Logs(e)
    BY DEF LinksInit, Nothing, Logs
  <2>2. /\ outputs = [e \in Endpoints |-> outputs[e]] /\ received = [e \in Endpoints |-> received[e]]
        /\ given \in 0..MaxCommands
    BY RetriesAssumption DEF LinksInit
  <2> QED BY <2>1, <2>2 DEF LinksIInv, OutputsTyped, Present, NoOutput
<1>2. LinksIInv /\ [LinksNext]_linksVars => LinksIInv'
  BY LinksStep
<1>3. LinksIInv => LinksInv
  BY LinksImplied
<1> QED BY <1>1, <1>2, <1>3, PTL DEF LinksSpec
=============================================================================
