--------------------------- MODULE WakeupsProofs --------------------------
(***************************************************************************)
(* Proofs about Trigger, for any number of receivers, none of which is     *)
(* cloned after it has been polled: no receiver is left waiting, and none of*)
(* a promise misses its value. Proofs about Readers, for every number of   *)
(* channels, capacity, size of the buckets and budget: a task that reads   *)
(* from byte channels never sleeps on something to read, and no writer waits*)
(* for room that nobody will tell it about.                                *)
(***************************************************************************)
EXTENDS Trigger, Readers, FiniteSetTheorems, WellFoundedInduction, TLAPS

-----------------------------------------------------------------------------
(* The trigger and the promise.                                            *)

\* The invariant holds when the promise is made.
LEMMA TriggerInitIInv == TriggerInit => TriggerIInv
<1> SUFFICES ASSUME TriggerInit PROVE TriggerIInv
  OBVIOUS
<1>1. woken \in [Receivers -> BOOLEAN] /\ value \in BOOLEAN
  BY Zenon DEF TriggerInit
<1>2. /\ waiters \in Seq(Receivers) /\ slot \in [Receivers -> Nat]
      /\ rcv \in [Receivers -> Live \cup {"absent", "ok", "failed", "panicked", "dropped"}]
  BY DEF TriggerInit, Live
<1>3. flag \in {0, 1, 2} /\ snd \in {"idle", "stored", "upgraded", "returned", "dropping", "flagged", "done"}
  BY DEF TriggerInit
<1>4. TriggerTypeOK
  BY <1>1, <1>2, <1>3, Zenon DEF TriggerTypeOK
<1>5. ValueIsThere /\ SenderAgrees /\ SlotsAreOwn
  BY FirstAssumption DEF TriggerInit, ValueIsThere, SenderAgrees, SlotsAreOwn, Live, Upgrades
<1> QED BY <1>4, <1>5 DEF TriggerIInv

\* The steps of the sender keep it.
LEMMA SenderKeepsIInv ==
  ASSUME TriggerIInv, Provide \/ DropSender \/ SenderStep
  PROVE TriggerIInv'
<1> USE DEF TriggerIInv, TriggerTypeOK, ValueIsThere, SenderAgrees, SlotsAreOwn, Live, Upgrades
<1>1. CASE Provide
  BY <1>1 DEF Provide
<1>2. CASE DropSender
  BY <1>2 DEF DropSender
<1>3. CASE Upgrade
  <2>1. CASE Upgrades
    BY <1>3, <2>1 DEF Upgrade
  <2>2. CASE ~Upgrades
    <3>1. TriggerTypeOK' /\ SlotsAreOwn'
      BY <1>3, <2>2 DEF Upgrade
    <3>2. ValueIsThere'
      BY <1>3, <2>2 DEF Upgrade
    <3>3. SenderAgrees'
      BY <1>3, <2>2 DEF Upgrade
    <3> QED BY <3>1, <3>2, <3>3
  <2> QED BY <2>1, <2>2
<1>4. CASE SetFlag
  BY <1>4 DEF SetFlag
<1>5. CASE WakeAll
  <2>1. woken' \in [Receivers -> BOOLEAN]
    BY <1>5, Zenon DEF WakeAll
  <2>2. \A r \in Receivers : rcv[r] = "waiting" => woken'[r]
    <3>1. ASSUME NEW r \in Receivers, rcv[r] = "waiting", ~woken[r]
          PROVE \E i \in DOMAIN waiters : waiters[i] = r
      BY <3>1
    <3>2. \A r \in Receivers : woken'[r] <=> woken[r] \/ \E i \in DOMAIN waiters : waiters[i] = r
      BY <1>5, Zenon DEF WakeAll
    <3> QED BY <3>1, <3>2
  <2>3. TriggerTypeOK'
    BY <1>5, <2>1 DEF WakeAll
  <2>4. ValueIsThere' /\ SenderAgrees'
    BY <1>5 DEF WakeAll
  <2>5. SlotsAreOwn'
    BY <1>5, <2>2 DEF WakeAll
  <2> QED BY <2>3, <2>4, <2>5
<1> QED BY <1>1, <1>2, <1>3, <1>4, <1>5 DEF SenderStep

\* The steps of the receivers keep it.
LEMMA ReceiverKeepsIInv ==
  ASSUME TriggerIInv, ~ClonesPolled, NEW r \in Receivers, NEW q \in Receivers,
         Poll(r) \/ Register(r) \/ DropReceiver(r) \/ Clone(r, q)
  PROVE TriggerIInv'
<1> USE DEF TriggerIInv, TriggerTypeOK, ValueIsThere, SenderAgrees, SlotsAreOwn, Live, Upgrades
<1>1. CASE Poll(r)
  BY <1>1 DEF Poll, Completed
<1>2. CASE Register(r)
  <2>1. CASE Recheck /\ slot[r] \in DOMAIN waiters
    <3>1. waiters[slot[r]] = r /\ waiters' = waiters
      BY <1>2, <2>1 DEF Register, Recheck
    <3> QED BY <1>2, <2>1, <3>1 DEF Register, Recheck
  <2>2. CASE Recheck /\ slot[r] \notin DOMAIN waiters
    <3>0. /\ waiters' = Append(waiters, r)
          /\ slot' = [slot EXCEPT ![r] = Len(waiters) + 1]
          /\ rcv' = [rcv EXCEPT ![r] = "waiting"]
          /\ flag = 0 /\ UNCHANGED <<flag, value, woken, snd>>
      BY <1>2, <2>2, Zenon DEF Register, Recheck
    <3>1. /\ waiters' = Append(waiters, r) /\ waiters' \in Seq(Receivers)
          /\ slot' = [slot EXCEPT ![r] = Len(waiters) + 1]
          /\ rcv' = [rcv EXCEPT ![r] = "waiting"]
          /\ flag = 0 /\ UNCHANGED <<flag, value, woken, snd>>
      BY <3>0
    <3>2. /\ Len(waiters) + 1 \in DOMAIN waiters' /\ waiters'[Len(waiters) + 1] = r
          /\ \A i \in DOMAIN waiters : i \in DOMAIN waiters' /\ waiters'[i] = waiters[i]
      BY <3>1
    <3>3. TriggerTypeOK'
      BY <3>1
    <3>4. ValueIsThere' /\ SenderAgrees'
      BY <3>1, <1>2 DEF Register
    <3>5. SlotsAreOwn'
      <4> SUFFICES ASSUME NEW p \in Receivers
                   PROVE /\ rcv'[p] \in {"absent", "idle"} => slot'[p] = 0
                         /\ slot'[p] # 0 => slot'[p] \in DOMAIN waiters' /\ waiters'[slot'[p]] = p
                         /\ rcv'[p] = "waiting" /\ ~woken'[p] =>
                              snd' # "done" /\ slot'[p] \in DOMAIN waiters' /\ waiters'[slot'[p]] = p
        BY <3>1
      <4>1. CASE p = r
        BY <3>1, <3>2, <4>1, <1>2 DEF Register
      <4>2. CASE p # r
        BY <3>1, <3>2, <4>2
      <4> QED BY <4>1, <4>2
    <3> QED BY <3>3, <3>4, <3>5
  <2>3. CASE ~Recheck
    BY <1>2, <2>3 DEF Register, Recheck, Completed
  <2> QED BY <2>1, <2>2, <2>3
<1>3. CASE DropReceiver(r)
  BY <1>3 DEF DropReceiver
<1>4. CASE Clone(r, q)
  BY <1>4 DEF Clone
<1> QED BY <1>1, <1>2, <1>3, <1>4

\* The invariant holds at every step of trigger and promise.
THEOREM TriggerInvariant == ~ClonesPolled => (TriggerSpec => []TriggerIInv)
<1>1. ASSUME ~ClonesPolled, TriggerIInv, [TriggerNext]_triggerVars
      PROVE TriggerIInv'
  <2>1. CASE UNCHANGED triggerVars
    BY <1>1, <2>1
    DEF triggerVars, TriggerIInv, TriggerTypeOK, ValueIsThere, SenderAgrees, SlotsAreOwn, Live, Upgrades
  <2>2. CASE TriggerNext
    BY <1>1, <2>2, SenderKeepsIInv, ReceiverKeepsIInv DEF TriggerNext
  <2> QED BY <1>1, <2>1, <2>2
<1>2. ASSUME ~ClonesPolled PROVE TriggerSpec => []TriggerIInv
  <2>1. TriggerIInv /\ [TriggerNext]_triggerVars => TriggerIInv'
    BY <1>1, <1>2
  <2> QED BY TriggerInitIInv, <2>1, PTL DEF TriggerSpec
<1> QED BY <1>2

\* A receiver that waits has been woken or will be.
THEOREM TriggerNeverLost == ~ClonesPolled => (TriggerSpec => []NoLostTrigger)
<1>1. TriggerIInv => NoLostTrigger
  BY DEF TriggerIInv, SlotsAreOwn, NoLostTrigger, TriggerTypeOK
<1> QED BY <1>1, TriggerInvariant, PTL

\* A receiver that completes finds the value, and none has a value that was given back.
THEOREM PromiseKept == ~ClonesPolled => (TriggerSpec => []ValueIsThere)
<1>1. TriggerIInv => ValueIsThere
  BY DEF TriggerIInv
<1> QED BY <1>1, TriggerInvariant, PTL

-----------------------------------------------------------------------------
(* The reader of many byte channels.                                       *)

\* The invariant by which the steps are reasoned about: what the sleep of the task
\* rests on.
ReadersIInv ==
  /\ ReadersTypeOK /\ KeysAgree /\ WakersAgree
  /\ StreamsTracked /\ ScanMissesNone /\ NoLostSpace
-----------------------------------------------------------------------------
\* What is picked is one of what there is to pick from.
LEMMA LeastOf ==
  ASSUME NEW S, S \subseteq Nat, S # {}
  PROVE  Min(S) \in S
<1> DEFINE R == OpToRel(<, Nat)
<1>1. \A y, x \in Nat : y < x => <<y, x>> \in R
  BY DEF OpToRel
<1>2. IsWellFoundedOn(R, Nat)
  BY NatLessThanWellFounded
<1> HIDE DEF R
<1>3. PICK x \in S : \A y \in S : ~(<<y, x>> \in R)
  BY <1>2, WFMin
<1>4. \A y \in S : ~(y < x)
  BY <1>1, <1>3
<1>5. \A y \in S : x =< y
  BY <1>4
<1> QED
  BY <1>5, <1>3 DEF Min

\* The buckets are filled one after the other.
LEMMA BucketFacts ==
  /\ Bucket(0) = 0
  /\ \A k \in Nat : Bucket(k) \in Nat /\ Bucket(k + 1) <= Bucket(k) + 1
  BY BucketAssumption, Z3 DEF Bucket

\* The bucket after another, around the end.
LEMMA NextBucket ==
  ASSUME NEW n \in Nat \ {0}, NEW k \in 0..(n - 1)
  PROVE  (k + 1) % n = IF k + 1 = n THEN 0 ELSE k + 1
  OBVIOUS

\* There is always a bucket.
LEMMA SomeBucket ==
  /\ Buckets \subseteq Nat
  /\ 0 \in Buckets
  BY BucketFacts, NAssumption DEF Buckets, Slots

\* What the arithmetic of the steps is about.
LEMMA Numbers ==
  ASSUME ReadersTypeOK
  PROVE  /\ buckets \in Nat \ {0}
         /\ current \in 0..(buckets - 1) /\ at \in 0..(buckets - 1)
         /\ added \in Nat /\ added <= N
<1>1. PICK b \in Buckets : buckets = b + 1
  BY DEF ReadersTypeOK
<1>2. b \in Nat
  BY SomeBucket
<1>3. buckets \in Nat \ {0}
  BY <1>1, <1>2
<1>4. added \in 0..N
  BY DEF ReadersTypeOK
<1> QED
  BY <1>3, <1>4, NAssumption DEF ReadersTypeOK

\* There is a stream or a vacant key behind every flag, and its bucket exists.
LEMMA FlagsHaveBuckets ==
  ASSUME ReadersTypeOK, KeysAgree
  PROVE  \A k \in flags \cup local \cup queue_flags :
           k \in Slots /\ Bucket(k) \in 0..(buckets - 1)
<1>1. PICK top \in 0..added : KeysBelow(top)
  BY DEF KeysAgree
<1>2. added \in Nat /\ buckets \in Nat /\ flags \cup local \cup queue_flags \subseteq Slots
  BY Numbers DEF ReadersTypeOK
<1> QED
  BY <1>1, <1>2, BucketFacts, NAssumption DEF KeysBelow, Slots

\* What is polled.
LEMMA PickedIsLocal ==
  ASSUME ReadersTypeOK, Picks
  PROVE  Polled \in local /\ Polled \in Slots
<1>1. local \subseteq Nat /\ local # {} /\ local \subseteq Slots
  BY NAssumption DEF ReadersTypeOK, Picks, Slots
<1>2. Min(local) \in local
  BY <1>1, LeastOf
<1> QED
  BY <1>1, <1>2 DEF Polled

\* The keys stay as they are when a step only moves flags, and sets none but those
\* of streams.
LEMMA KeysStay ==
  ASSUME ReadersIInv, UNCHANGED <<streams, vacant, buckets, added>>,
         \A k \in flags' \cup local' \cup queue_flags' :
           k \in Slots /\ (k \in flags \cup local \cup queue_flags \/ streams[k] # None),
         \A k \in local' \cup queue_flags' : Bucket(k) = current'
  PROVE  KeysAgree'
<1>1. PICK top \in 0..added : KeysBelow(top)
  BY DEF ReadersIInv, KeysAgree
<1>2. KeysBelow(top)'
  BY <1>1, NAssumption DEF KeysBelow, ReadersIInv, ReadersTypeOK, Slots
<1> QED
  BY <1>1, <1>2 DEF KeysAgree, ReadersIInv
-----------------------------------------------------------------------------
LEMMA ReadersInitIInv == ReadersInit => ReadersIInv
<1> SUFFICES ASSUME ReadersInit
             PROVE  ReadersIInv
  OBVIOUS
<1> USE DEF ReadersInit
<1>1. ReadersTypeOK
  <2>1. buckets \in {b + 1 : b \in Buckets}
    BY SomeBucket
  <2>2. 0 \in Slots /\ 0 \in 0..Capacity /\ 0 \in 0..N
    BY NAssumption, CapacityAssumption DEF Slots
  <2>3. /\ data \in [Channels -> 0..Capacity]
        /\ waker \in [Channels -> Slots \cup {None, Writer}]
        /\ writer \in [Channels -> {"idle", "waiting", "flag", "wake"}]
        /\ waking \in [Channels -> Slots]
        /\ streams \in [Slots -> Channels \cup {None}]
    BY <2>2
  <2>4. closed \in [Channels -> BOOLEAN] /\ room \in [Channels -> BOOLEAN]
    OBVIOUS
  <2>5. current \in 0..(buckets - 1) /\ at \in 0..(buckets - 1) /\ budget \in Nat
    BY BudgetAssumption
  <2> QED
    BY <2>1, <2>2, <2>3, <2>4, <2>5 DEF ReadersTypeOK
<1>2. KeysAgree
  <2>1. KeysBelow(0)
    BY BucketFacts, NAssumption DEF KeysBelow, Slots
  <2> QED
    BY <2>1 DEF KeysAgree
<1>3. WakersAgree /\ StreamsTracked /\ ScanMissesNone /\ NoLostSpace
  BY WakerAssumption DEF WakersAgree, StreamsTracked, ScanMissesNone, NoLostSpace
<1> QED
  BY <1>1, <1>2, <1>3 DEF ReadersIInv

\* A frame goes in, the writer waits for room, or it closes the channel.
LEMMA WriteKeeps ==
  ASSUME ReadersIInv, NEW c \in Channels, Write(c) \/ Close(c)
  PROVE  ReadersIInv'
<1> USE DEF readerVars, TakesWaker
<1>1. ReadersTypeOK'
  <2>1. data' \in [Channels -> 0..Capacity]
    BY CapacityAssumption DEF Write, Close, ReadersIInv, ReadersTypeOK
  <2>2. closed' \in [Channels -> BOOLEAN] /\ room' \in [Channels -> BOOLEAN]
    BY DEF Write, Close, ReadersIInv, ReadersTypeOK
  <2>3. waker' \in [Channels -> Slots \cup {None, Writer}]
    BY DEF Write, Close, ReadersIInv, ReadersTypeOK
  <2>4. writer' \in [Channels -> {"idle", "waiting", "flag", "wake"}]
    BY DEF Write, Close, ReadersIInv, ReadersTypeOK
  <2>5. waking' \in [Channels -> Slots]
    BY DEF Write, Close, ReadersIInv, ReadersTypeOK
  <2> QED
    BY <2>1, <2>2, <2>3, <2>4, <2>5 DEF Write, Close, ReadersIInv, ReadersTypeOK
<1>2. KeysAgree'
  BY KeysStay DEF Write, Close, ReadersIInv, ReadersTypeOK, KeysAgree
<1>3. WakersAgree'
  BY WakerAssumption DEF Write, Close, ReadersIInv, ReadersTypeOK, WakersAgree
<1>4. StreamsTracked'
  <2> SUFFICES ASSUME NEW k \in Slots, streams[k] # None
               PROVE  Tracked(k)'
    BY DEF Write, Close, StreamsTracked
  <2>1. Tracked(k) /\ streams[k] \in Channels
    BY DEF ReadersIInv, StreamsTracked, ReadersTypeOK
  <2>2. CASE streams[k] = c /\ waker[c] = k
    <3>1. data[c] = 0 /\ waker[c] \in Slots
      BY <2>2 DEF ReadersIInv, WakersAgree
    <3>2. TakesWaker(c)
      BY <3>1, CapacityAssumption DEF Write, Close
    <3> QED
      BY <2>2, <3>1, <3>2 DEF Write, Close, Tracked, ReadersIInv, ReadersTypeOK
  <2>3. CASE streams[k] = c /\ waker[c] # k
    BY <2>1, <2>3 DEF Write, Close, Tracked, ReadersIInv, ReadersTypeOK
  <2>4. CASE streams[k] # c
    BY <2>1, <2>4 DEF Write, Close, Tracked, ReadersIInv, ReadersTypeOK
  <2> QED
    BY <2>2, <2>3, <2>4
<1>5. ScanMissesNone'
  BY DEF Write, Close, ReadersIInv, ReadersTypeOK, ScanMissesNone, Visited, WakeComing
<1>6. NoLostSpace'
  BY WakerAssumption DEF Write, Close, ReadersIInv, ReadersTypeOK, NoLostSpace
<1> QED
  BY <1>1, <1>2, <1>3, <1>4, <1>5, <1>6 DEF ReadersIInv

\* The writer, with the lock of the channel, sets the flag and wakes the task.
LEMMA WakeKeeps ==
  ASSUME ReadersIInv, NEW c \in Channels, SetFlags(c) \/ WakeTask(c)
  PROVE  ReadersIInv'
<1> USE DEF readerVars, channelVars
<1>1. ReadersTypeOK'
  <2>1. writer' \in [Channels -> {"idle", "waiting", "flag", "wake"}]
    BY DEF SetFlags, WakeTask, ReadersIInv, ReadersTypeOK
  <2>2. 0 \in Slots
    BY NAssumption DEF Slots
  <2>3. waking' \in [Channels -> Slots] /\ flags' \subseteq Slots
    BY <2>2 DEF SetFlags, WakeTask, ReadersIInv, ReadersTypeOK
  <2> QED
    BY <2>1, <2>3 DEF SetFlags, WakeTask, ReadersIInv, ReadersTypeOK
<1>2. KeysAgree'
  <2>1. writer[c] = "flag" => waking[c] \in Slots /\ streams[waking[c]] # None
    BY WakerAssumption DEF ReadersIInv, WakersAgree, ReadersTypeOK
  <2> QED
    BY <2>1, KeysStay DEF SetFlags, WakeTask, ReadersIInv, ReadersTypeOK, KeysAgree
<1>3. WakersAgree'
  BY DEF SetFlags, WakeTask, ReadersIInv, ReadersTypeOK, WakersAgree
<1>4. StreamsTracked'
  BY DEF SetFlags, WakeTask, ReadersIInv, ReadersTypeOK, WakersAgree, StreamsTracked, Tracked
<1>5. ScanMissesNone'
  BY DEF SetFlags, WakeTask, ReadersIInv, ReadersTypeOK, ScanMissesNone, Visited, WakeComing
<1>6. NoLostSpace'
  BY DEF SetFlags, WakeTask, ReadersIInv, ReadersTypeOK, NoLostSpace
<1> QED
  BY <1>1, <1>2, <1>3, <1>4, <1>5, <1>6 DEF ReadersIInv

\* The task is polled, falls asleep, or turns to the next bucket.
LEMMA TaskKeeps ==
  ASSUME ReadersIInv, TaskPoll \/ Sleep \/ NextQueued
  PROVE  ReadersIInv'
<1> USE DEF channelVars, writerVars
<1>1. ReadersTypeOK'
  <2>1. at' \in 0..(buckets' - 1) /\ current' \in 0..(buckets' - 1)
    BY Numbers DEF TaskPoll, Sleep, NextQueued, ReadersIInv
  <2>2. budget' \in Nat
    BY BudgetAssumption DEF TaskPoll, Sleep, NextQueued, ReadersIInv, ReadersTypeOK
  <2> QED
    BY <2>1, <2>2 DEF TaskPoll, Sleep, NextQueued, ReadersIInv, ReadersTypeOK
<1>2. KeysAgree'
  BY KeysStay, SomeBucket DEF TaskPoll, Sleep, NextQueued, ReadersIInv, ReadersTypeOK, KeysAgree
<1>3. WakersAgree'
  BY DEF TaskPoll, Sleep, NextQueued, ReadersIInv, WakersAgree
<1>4. StreamsTracked'
  BY DEF TaskPoll, Sleep, NextQueued, ReadersIInv, StreamsTracked, Tracked
<1>5. ScanMissesNone'
  <2>1. CASE TaskPoll
    BY <2>1 DEF TaskPoll, ScanMissesNone
  <2>2. CASE Sleep
    BY <2>2 DEF Sleep, ReadersIInv, ScanMissesNone, Visited, WakeComing
  <2>3. CASE NextQueued
    <3>1. \A k \in flags' : ~Visited(Bucket(k))'
      <4> SUFFICES ASSUME NEW k \in flags'
                   PROVE  ~Visited(Bucket(k))'
        OBVIOUS
      <4>1. Bucket(k) \in 0..(buckets - 1) /\ current \in 0..(buckets - 1) /\ buckets \in Nat
        BY <2>3, FlagsHaveBuckets, Numbers DEF NextQueued, ReadersIInv
      <4> QED
        BY <2>3, <4>1 DEF NextQueued, Visited
    <3> QED
      BY <2>3, <3>1 DEF NextQueued, ScanMissesNone
  <2> QED
    BY <2>1, <2>2, <2>3
<1>6. NoLostSpace'
  BY DEF TaskPoll, Sleep, NextQueued, ReadersIInv, NoLostSpace
<1> QED
  BY <1>1, <1>2, <1>3, <1>4, <1>5, <1>6 DEF ReadersIInv

\* The next bucket is emptied: the scan has been through it, or works through it.
LEMMA ScanKeeps ==
  ASSUME ReadersIInv, Scan
  PROVE  ReadersIInv'
<1> DEFINE b == (current + 1) % buckets
<1>1. /\ buckets \in Nat \ {0}
      /\ current \in 0..(buckets - 1) /\ at \in 0..(buckets - 1)
  BY Numbers DEF ReadersIInv
<1>2. b = IF current + 1 = buckets THEN 0 ELSE current + 1
  BY <1>1, NextBucket
<1>3. b \in 0..(buckets - 1)
  BY <1>1, <1>2
<1>4. local = {} /\ queue_flags = {}
  BY DEF Scan, ReadersIInv, ScanMissesNone
<1>5. /\ current' = b
      /\ flags' = flags \ local'
      /\ local' = {k \in flags : Bucket(k) = b}
      /\ task' = IF local' # {} THEN "next" ELSE IF b = at THEN "none" ELSE "scan"
      /\ at' = IF task' = "scan" THEN at ELSE 0
      /\ UNCHANGED <<channelVars, writerVars, added, streams, vacant, buckets, queue_flags, notified, budget>>
  BY DEF Scan
<1> HIDE DEF b
<1> USE DEF channelVars, writerVars
<1>6. ReadersTypeOK'
  BY <1>1, <1>3, <1>5 DEF ReadersIInv, ReadersTypeOK
<1>7. KeysAgree'
  BY <1>4, <1>5, KeysStay DEF ReadersIInv, ReadersTypeOK
<1>8. WakersAgree'
  BY <1>5 DEF ReadersIInv, WakersAgree
<1>9. StreamsTracked'
  BY <1>4, <1>5 DEF ReadersIInv, StreamsTracked, Tracked
<1>10. ScanMissesNone'
  <2>1. CASE local' # {}
    BY <2>1, <1>5 DEF ScanMissesNone
  <2>2. CASE local' = {}
    <3> SUFFICES ASSUME NEW k \in flags, Bucket(k) # b, Visited(Bucket(k))'
                 PROVE  Visited(Bucket(k))
      BY <2>2, <1>4, <1>5 DEF ReadersIInv, ScanMissesNone, WakeComing, Scan
    <3>1. Bucket(k) \in 0..(buckets - 1)
      BY FlagsHaveBuckets DEF ReadersIInv
    <3>2. task = "scan"
      BY DEF Scan
    <3>3. CASE b = at
      BY <1>1, <1>2, <3>1, <3>2, <3>3 DEF Visited
    <3>4. CASE b # at
      BY <1>1, <1>2, <1>5, <2>2, <3>1, <3>2, <3>4 DEF Visited
    <3> QED
      BY <3>3, <3>4
  <2> QED
    BY <2>1, <2>2
<1>11. NoLostSpace'
  BY <1>5 DEF ReadersIInv, NoLostSpace
<1> QED
  BY <1>6, <1>7, <1>8, <1>9, <1>10, <1>11 DEF ReadersIInv

\* Where a channel is added: a key that was given back, or the next one.
LEMMA NewKeyFacts ==
  ASSUME ReadersIInv, NEW k \in NewKeys, added < N,
         NEW top \in 0..added, KeysBelow(top)
  PROVE  /\ k \in Slots /\ streams[k] = None
         /\ vacant # {} => k \in vacant /\ k < top
         /\ vacant = {} => k = top
<1>1. CASE vacant # {}
  BY <1>1 DEF NewKeys, ReadersIInv, KeysAgree, ReadersTypeOK, KeysBelow
<1>2. CASE vacant = {}
  <2> DEFINE used == {j \in Slots : streams[j] # None}
  <2>0. added \in Nat /\ top \in Nat /\ top < N
    BY Numbers, NAssumption DEF ReadersIInv
  <2>1. used = 0..(top - 1)
    BY <1>2, <2>0, NAssumption DEF KeysBelow, Slots
  <2>2. Cardinality(0..(top - 1)) = top
    BY <2>0, FS_Interval
  <2>3. k = top
    BY <1>2, <2>1, <2>2 DEF NewKeys
  <2>4. k \in Slots
    BY <2>0, <2>3, NAssumption DEF Slots
  <2>5. streams[k] = None
    BY <2>3, <2>4 DEF KeysBelow, Slots
  <2> QED
    BY <1>2, <2>3, <2>4, <2>5
<1> QED
  BY <1>1, <1>2

\* A channel is added.
LEMMA AddKeeps ==
  ASSUME ReadersIInv, NEW c \in Channels, Add(c)
  PROVE  ReadersIInv'
<1>1. PICK k \in NewKeys :
        /\ streams' = [streams EXCEPT ![k] = c]
        /\ vacant' = vacant \ {k}
        /\ buckets' = IF Bucket(k) = buckets THEN buckets + 1 ELSE buckets
        /\ AddFlag(k)
  BY DEF Add
<1>2. PICK top \in 0..added : KeysBelow(top)
  BY DEF ReadersIInv, KeysAgree
<1>3. c = added + 1 /\ added' = c /\ added \in Nat /\ added < N /\ added' \in 0..N /\ c # None
  BY NAssumption, WakerAssumption DEF Add, ReadersIInv, ReadersTypeOK, Channels
<1>4. /\ k \in Slots /\ streams[k] = None
      /\ vacant # {} => k \in vacant /\ k < top
      /\ vacant = {} => k = top
  BY <1>2, <1>3, NewKeyFacts
<1>5. buckets \in Nat /\ Bucket(k) \in Nat /\ k \in Nat /\ top \in Nat /\ Bucket(top) \in Nat
  BY <1>2, <1>3, <1>4, Numbers, BucketFacts, NAssumption DEF ReadersIInv, Slots
<1>6. flags' \cup local' = flags \cup local \cup {k} /\ flags \subseteq flags' /\ local \subseteq local'
  BY <1>1 DEF AddFlag
<1>7. UNCHANGED <<channelVars, writerVars, queue_flags, current, at, notified, budget>> /\ task' = "running"
  BY DEF Add
<1> USE DEF channelVars, writerVars
<1>8. buckets' \in Nat /\ buckets <= buckets' /\ Bucket(k) < buckets'
  BY <1>1, <1>2, <1>4, <1>5 DEF KeysBelow
<1>9. ReadersTypeOK'
  <2>1. buckets' \in {x + 1 : x \in Buckets}
    BY <1>1, <1>4 DEF ReadersIInv, ReadersTypeOK, Buckets
  <2>2. streams' \in [Slots -> Channels \cup {None}]
    BY <1>1 DEF ReadersIInv, ReadersTypeOK
  <2>3. current' \in 0..(buckets' - 1) /\ at' \in 0..(buckets' - 1)
    BY <1>7, <1>8, Numbers DEF ReadersIInv
  <2>4. vacant' \subseteq Slots /\ flags' \subseteq Slots /\ local' \subseteq Slots
    BY <1>1, <1>4, <1>6 DEF ReadersIInv, ReadersTypeOK
  <2> QED
    BY <2>1, <2>2, <2>3, <2>4, <1>3, <1>7 DEF ReadersIInv, ReadersTypeOK
<1>10. KeysAgree'
  <2>1. \E t \in 0..added' : KeysBelow(t)'
    <3>1. CASE vacant # {}
      <4>1. Bucket(k) < buckets
        BY <3>1, <1>2, <1>4 DEF KeysBelow
      <4>2. buckets' = buckets
        BY <1>1, <1>5, <4>1
      <4>3. KeysBelow(top)'
        BY <3>1, <1>1, <1>2, <1>3, <1>4, <1>5, <1>6, <1>7, <4>2 DEF KeysBelow, ReadersIInv, ReadersTypeOK, Slots
      <4> QED
        BY <1>3, <4>3
    <3>2. CASE vacant = {}
      <4>1. Bucket(top + 1) \in Nat /\ Bucket(top + 1) <= Bucket(top) + 1
        BY <1>5, BucketFacts
      <4>2. Bucket(top + 1) <= buckets'
        BY <3>2, <1>1, <1>2, <1>4, <1>5, <4>1 DEF KeysBelow
      <4>3. \A j \in Slots : j < top + 1 <=> (streams'[j] # None \/ j \in vacant')
        BY <3>2, <1>1, <1>2, <1>3, <1>4, <1>5, NAssumption DEF KeysBelow, ReadersIInv, ReadersTypeOK, Slots
      <4>4. flags' \cup local' \cup queue_flags' \subseteq 0..(top + 1 - 1)
        BY <3>2, <1>2, <1>4, <1>5, <1>6, <1>7 DEF KeysBelow
      <4>5. \A j \in Slots : j < top + 1 => Bucket(j) < buckets'
        BY <3>2, <1>2, <1>4, <1>5, <1>8, BucketFacts, NAssumption DEF KeysBelow, Slots
      <4>6. KeysBelow(top + 1)'
        BY <4>2, <4>3, <4>4, <4>5 DEF KeysBelow
      <4> QED
        BY <1>3, <4>6
    <3> QED
      BY <3>1, <3>2
  <2>2. \A j \in vacant' : streams'[j] = None
    BY <1>1, <1>4 DEF ReadersIInv, KeysAgree, ReadersTypeOK
  <2>3. \A j \in Slots : streams'[j] # None => streams'[j] <= added'
    BY <1>1, <1>3, <1>4 DEF ReadersIInv, KeysAgree, ReadersTypeOK, Channels
  <2>4. \A i, j \in Slots : streams'[i] # None /\ streams'[i] = streams'[j] => i = j
    BY <1>1, <1>3, <1>4 DEF ReadersIInv, KeysAgree, ReadersTypeOK, Channels
  <2>5. \A j \in local' \cup queue_flags' : Bucket(j) = current'
    BY <1>1, <1>7 DEF AddFlag, ReadersIInv, KeysAgree
  <2> QED
    BY <2>1, <2>2, <2>3, <2>4, <2>5 DEF KeysAgree
<1>11. WakersAgree'
  <2> SUFFICES ASSUME NEW d \in Channels
               PROVE  /\ waker[d] \in Slots => data[d] = 0 /\ ~closed[d] /\ streams'[waker[d]] = d
                      /\ writer[d] = "flag" => streams'[waking[d]] = d
    BY <1>7 DEF WakersAgree
  <2>1. d # None /\ waking[d] \in Slots
    BY WakerAssumption DEF ReadersIInv, ReadersTypeOK
  <2>2. /\ waker[d] \in Slots => data[d] = 0 /\ ~closed[d] /\ streams[waker[d]] = d
        /\ writer[d] = "flag" => streams[waking[d]] = d
    BY DEF ReadersIInv, WakersAgree
  <2>3. \A j \in Slots : streams[j] = d => streams'[j] = d
    BY <1>1, <1>4, <2>1 DEF ReadersIInv, ReadersTypeOK
  <2> QED
    BY <2>1, <2>2, <2>3
<1>12. StreamsTracked'
  <2> SUFFICES ASSUME NEW j \in Slots, streams'[j] # None
               PROVE  Tracked(j)'
    BY DEF StreamsTracked
  <2>1. CASE j = k
    BY <2>1, <1>6 DEF Tracked
  <2>2. CASE j # k
    BY <2>2, <1>1, <1>4, <1>6, <1>7 DEF ReadersIInv, StreamsTracked, Tracked, ReadersTypeOK
  <2> QED
    BY <2>1, <2>2
<1>13. ScanMissesNone' /\ NoLostSpace'
  BY <1>7 DEF ScanMissesNone, ReadersIInv, NoLostSpace
<1> QED
  BY <1>9, <1>10, <1>11, <1>12, <1>13 DEF ReadersIInv

\* A flag without a stream, or a stream that is polled without budget.
LEMMA PollNoneKeeps ==
  ASSUME ReadersIInv, PollNothing \/ PollNoBudget
  PROVE  ReadersIInv'
<1>1. Polled \in local /\ Polled \in Slots /\ local' = local \ {Polled}
  BY PickedIsLocal DEF ReadersIInv, PollNothing, PollNoBudget, Picks
<1> USE DEF channelVars, writerVars
<1>2. ReadersTypeOK'
  <2>1. local' \subseteq Slots /\ flags' \subseteq Slots /\ budget' \in Nat
    BY <1>1 DEF PollNothing, PollNoBudget, ReadersIInv, ReadersTypeOK
  <2>2. notified' \in BOOLEAN
    BY DEF PollNothing, PollNoBudget, ReadersIInv, ReadersTypeOK
  <2>3. task' \in {"running", "scan", "next", "none", "asleep"}
    BY DEF PollNothing, PollNoBudget
  <2> QED
    BY <2>1, <2>2, <2>3 DEF PollNothing, PollNoBudget, ReadersIInv, ReadersTypeOK
<1>3. KeysAgree'
  BY <1>1, KeysStay DEF PollNothing, PollNoBudget, ReadersIInv, ReadersTypeOK, KeysAgree
<1>4. WakersAgree' /\ NoLostSpace'
  BY DEF PollNothing, PollNoBudget, ReadersIInv, WakersAgree, NoLostSpace
<1>5. StreamsTracked'
  BY <1>1 DEF PollNothing, PollNoBudget, ReadersIInv, StreamsTracked, Tracked
<1>6. ScanMissesNone'
  BY DEF PollNothing, PollNoBudget, ScanMissesNone
<1> QED
  BY <1>2, <1>3, <1>4, <1>5, <1>6 DEF ReadersIInv

\* A frame is read, and the stream is queued again.
LEMMA PollItemKeeps ==
  ASSUME ReadersIInv, NEW c \in Channels, PollItem(c)
  PROVE  ReadersIInv'
<1>1. Polled \in local /\ Polled \in Slots /\ local' = local \ {Polled}
  BY PickedIsLocal DEF ReadersIInv, PollItem, PollChannel, Picks
<1> USE DEF PollItem, PollChannel
<1>2. ReadersTypeOK'
  <2>1. data' \in [Channels -> 0..Capacity]
    BY CapacityAssumption DEF ReadersIInv, ReadersTypeOK
  <2>2. waker' \in [Channels -> Slots \cup {None, Writer}]
    BY DEF ReadWakes, ReadersIInv, ReadersTypeOK
  <2>3. room' \in [Channels -> BOOLEAN]
    BY DEF ReadWakes, ReadersIInv, ReadersTypeOK
  <2>4. local' \subseteq Slots /\ queue_flags' \subseteq Slots
    BY <1>1 DEF Served, ReadersIInv, ReadersTypeOK
  <2>5. budget' \in Nat
    BY BudgetAssumption DEF Consumed, ReadersIInv, ReadersTypeOK
  <2> QED
    BY <2>1, <2>2, <2>3, <2>4, <2>5 DEF ReadersIInv, ReadersTypeOK
<1>3. KeysAgree'
  BY <1>1, KeysStay DEF Served, ReadersIInv, ReadersTypeOK, KeysAgree
<1>4. WakersAgree'
  BY WakerAssumption DEF ReadWakes, ReadersIInv, ReadersTypeOK, WakersAgree
<1>5. StreamsTracked'
  <2> SUFFICES ASSUME NEW k \in Slots, streams[k] # None
               PROVE  Tracked(k)'
    BY DEF StreamsTracked
  <2>1. Tracked(k) /\ streams[k] \in Channels
    BY DEF ReadersIInv, StreamsTracked, ReadersTypeOK
  <2>2. CASE streams[k] = c
    <3>1. k = Polled
      BY <2>2, <1>1, WakerAssumption DEF ReadersIInv, KeysAgree
    <3> QED
      BY <3>1 DEF Served, Tracked
  <2>3. CASE streams[k] # c
    BY <2>1, <2>3, <1>1 DEF Served, ReadWakes, Tracked, ReadersIInv, ReadersTypeOK
  <2> QED
    BY <2>2, <2>3
<1>6. ScanMissesNone'
  BY DEF ScanMissesNone
<1>7. NoLostSpace'
  BY WakerAssumption DEF ReadWakes, ReadersIInv, ReadersTypeOK, NoLostSpace
<1> QED
  BY <1>2, <1>3, <1>4, <1>5, <1>6, <1>7 DEF ReadersIInv

\* The end of a channel: its key is given back.
LEMMA PollEndKeeps ==
  ASSUME ReadersIInv, NEW c \in Channels, PollEnd(c)
  PROVE  ReadersIInv'
<1>1. Polled \in local /\ Polled \in Slots /\ local' = local \ {Polled}
  BY PickedIsLocal DEF ReadersIInv, PollEnd, PollChannel, Picks
<1> USE DEF PollEnd, PollChannel, channelVars, writerVars
<1>2. c = streams[Polled] /\ c # None
  BY WakerAssumption
<1>3. \A k \in Slots : k # Polled => streams'[k] = streams[k] /\ streams[k] # c
  BY <1>1, <1>2 DEF ReadersIInv, ReadersTypeOK, KeysAgree
<1>4. streams'[Polled] = None
  BY <1>1 DEF ReadersIInv, ReadersTypeOK
<1>5. ReadersTypeOK'
  <2>1. streams' \in [Slots -> Channels \cup {None}]
    BY DEF ReadersIInv, ReadersTypeOK
  <2>2. vacant' \subseteq Slots /\ local' \subseteq Slots
    BY <1>1 DEF ReadersIInv, ReadersTypeOK
  <2>3. budget' \in Nat
    BY BudgetAssumption DEF Consumed, ReadersIInv, ReadersTypeOK
  <2> QED
    BY <2>1, <2>2, <2>3 DEF ReadersIInv, ReadersTypeOK
<1>6. KeysAgree'
  <2>1. PICK top \in 0..added : KeysBelow(top)
    BY DEF ReadersIInv, KeysAgree
  <2>2. KeysBelow(top)'
    BY <2>1, <1>1, <1>2, <1>3 DEF KeysBelow, ReadersIInv, ReadersTypeOK
  <2> QED
    BY <2>1, <2>2, <1>1, <1>3, <1>4 DEF ReadersIInv, KeysAgree, ReadersTypeOK
<1>7. WakersAgree'
  <2> SUFFICES ASSUME NEW d \in Channels
               PROVE  /\ waker[d] \in Slots => data[d] = 0 /\ ~closed[d] /\ streams'[waker[d]] = d
                      /\ writer[d] = "flag" => streams'[waking[d]] = d
    BY DEF WakersAgree
  <2>1. /\ waker[d] \in Slots => data[d] = 0 /\ ~closed[d] /\ streams[waker[d]] = d
        /\ writer[d] = "flag" => streams[waking[d]] = d
    BY DEF ReadersIInv, WakersAgree
  <2>2. waking[d] \in Slots
    BY DEF ReadersIInv, ReadersTypeOK
  <2>3. CASE d = c
    BY <2>1, <2>3
  <2>4. CASE d # c
    BY <2>1, <2>2, <2>4, <1>2, <1>3
  <2> QED
    BY <2>3, <2>4
<1>8. StreamsTracked'
  <2> SUFFICES ASSUME NEW k \in Slots, streams'[k] # None
               PROVE  Tracked(k)'
    BY DEF StreamsTracked
  <2> QED
    BY <1>1, <1>3, <1>4 DEF ReadersIInv, StreamsTracked, Tracked
<1>9. ScanMissesNone' /\ NoLostSpace'
  BY DEF ScanMissesNone, ReadersIInv, NoLostSpace
<1> QED
  BY <1>5, <1>6, <1>7, <1>8, <1>9 DEF ReadersIInv

\* Nothing to read: the waker is left in the channel.
LEMMA PollPendingKeeps ==
  ASSUME ReadersIInv, NEW c \in Channels, PollPending(c)
  PROVE  ReadersIInv'
<1>1. Polled \in local /\ Polled \in Slots /\ local' = local \ {Polled}
  BY PickedIsLocal DEF ReadersIInv, PollPending, PollChannel, Picks
<1> USE DEF PollPending, PollChannel, writerVars
<1>2. c = streams[Polled] /\ c # None
  BY WakerAssumption
<1>3. ReadersTypeOK'
  <2>1. waker' \in [Channels -> Slots \cup {None, Writer}]
    BY <1>1 DEF ReadersIInv, ReadersTypeOK
  <2>2. local' \subseteq Slots
    BY <1>1 DEF ReadersIInv, ReadersTypeOK
  <2>3. budget' \in Nat
    BY BudgetAssumption DEF Consumed, ReadersIInv, ReadersTypeOK
  <2> QED
    BY <2>1, <2>2, <2>3 DEF ReadersIInv, ReadersTypeOK
<1>4. KeysAgree'
  BY <1>1, KeysStay DEF ReadersIInv, ReadersTypeOK, KeysAgree
<1>5. WakersAgree'
  BY <1>2 DEF ReadersIInv, ReadersTypeOK, WakersAgree
<1>6. StreamsTracked'
  <2> SUFFICES ASSUME NEW k \in Slots, streams[k] # None
               PROVE  Tracked(k)'
    BY DEF StreamsTracked
  <2>1. Tracked(k) /\ streams[k] \in Channels
    BY DEF ReadersIInv, StreamsTracked, ReadersTypeOK
  <2>2. CASE streams[k] = c
    <3>1. k = Polled
      BY <2>2, <1>1, <1>2 DEF ReadersIInv, KeysAgree
    <3> QED
      BY <2>2, <3>1 DEF Tracked, ReadersIInv, ReadersTypeOK
  <2>3. CASE streams[k] # c
    BY <2>1, <2>3, <1>1, <1>2 DEF Tracked, ReadersIInv, ReadersTypeOK
  <2> QED
    BY <2>2, <2>3
<1>7. ScanMissesNone'
  BY DEF ScanMissesNone
<1>8. NoLostSpace'
  BY CapacityAssumption DEF ReadersIInv, ReadersTypeOK, NoLostSpace
<1> QED
  BY <1>3, <1>4, <1>5, <1>6, <1>7, <1>8 DEF ReadersIInv
-----------------------------------------------------------------------------
\* A step of nothing here.
LEMMA StutterKeeps ==
  ASSUME ReadersIInv, UNCHANGED readersVars
  PROVE  ReadersIInv'
  BY DEF readersVars, channelVars, writerVars, readerVars, ReadersIInv, ReadersTypeOK, KeysAgree, KeysBelow,
     WakersAgree, StreamsTracked, Tracked, ScanMissesNone, Visited, WakeComing, NoLostSpace

\* When the task sleeps, no flag is set and no writer is about to set one: all the
\* streams are tracked by the waker in their channel.
LEMMA AsleepIsSafe ==
  ASSUME ReadersIInv
  PROVE  SleepIsSafe
<1> SUFFICES ASSUME task = "asleep", ~notified, \A c \in Channels : writer[c] \notin {"flag", "wake"},
                    NEW k \in Slots, streams[k] # None
             PROVE  data[streams[k]] = 0 /\ ~closed[streams[k]] /\ waker[streams[k]] = k
  BY DEF SleepIsSafe
<1>1. flags = {} /\ local = {} /\ queue_flags = {}
  BY DEF ReadersIInv, ScanMissesNone, Visited, WakeComing
<1>2. streams[k] \in Channels
  BY DEF ReadersIInv, ReadersTypeOK
<1>3. waker[streams[k]] = k
  BY <1>1, <1>2 DEF ReadersIInv, StreamsTracked, Tracked
<1> QED
  BY <1>2, <1>3 DEF ReadersIInv, WakersAgree

\* MultiReader and ByteReader: whatever the writers do while the task scans its
\* buckets, serves its streams or falls asleep, neither side waits for a wake up
\* that will not come.
THEOREM NobodySleepsThroughIt == ReadersSpec => []ReadersInv
<1>1. ReadersInit => ReadersIInv
  BY ReadersInitIInv
<1>2. ReadersIInv /\ [ReadersNext]_readersVars => ReadersIInv'
  <2> SUFFICES ASSUME ReadersIInv, [ReadersNext]_readersVars
               PROVE  ReadersIInv'
    OBVIOUS
  <2>1. ASSUME NEW c \in Channels, Write(c) \/ Close(c)
        PROVE  ReadersIInv'
    BY <2>1, WriteKeeps
  <2>2. ASSUME NEW c \in Channels, SetFlags(c) \/ WakeTask(c)
        PROVE  ReadersIInv'
    BY <2>2, WakeKeeps
  <2>3. ASSUME NEW c \in Channels, Add(c)
        PROVE  ReadersIInv'
    BY <2>3, AddKeeps
  <2>4. CASE TaskPoll \/ Sleep \/ NextQueued
    BY <2>4, TaskKeeps
  <2>5. CASE Scan
    BY <2>5, ScanKeeps
  <2>6. CASE PollNothing \/ PollNoBudget
    BY <2>6, PollNoneKeeps
  <2>7. ASSUME NEW c \in Channels, PollItem(c)
        PROVE  ReadersIInv'
    BY <2>7, PollItemKeeps
  <2>8. ASSUME NEW c \in Channels, PollEnd(c)
        PROVE  ReadersIInv'
    BY <2>8, PollEndKeeps
  <2>9. ASSUME NEW c \in Channels, PollPending(c)
        PROVE  ReadersIInv'
    BY <2>9, PollPendingKeeps
  <2>10. CASE UNCHANGED readersVars
    BY <2>10, StutterKeeps
  <2> QED
    BY <2>1, <2>2, <2>3, <2>4, <2>5, <2>6, <2>7, <2>8, <2>9, <2>10 DEF ReadersNext, ReaderStep
<1>3. ReadersIInv => ReadersInv
  BY AsleepIsSafe DEF ReadersIInv, ReadersInv
<1> QED
  BY <1>1, <1>2, <1>3, PTL DEF ReadersSpec

=============================================================================
