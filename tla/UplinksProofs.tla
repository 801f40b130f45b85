--------------------------- MODULE UplinksProofs ----------------------------
(***************************************************************************)
(* Uplinks: conflation and link messages that overtake events lose nothing *)
(* and deliver nothing out of its link or out of order, and the events     *)
(* with an empty body are known, for any sets of lanes and keys and queues *)
(* of any length.                                                          *)
(***************************************************************************)
EXTENDS Uplinks, WellFoundedInduction, TLAPS

Versions(l) == [KeysOf(l) -> Nat]
Specials == [type : {"Linked", "Unlinked"}, lane : AllLanes] \cup {LaneNotFound}

\* What waits for a lane in a struct Uplinks: its events, a synced message, a place
\* that counts.
Backlog(x, l) == IF x.uplinks[l] = NoUplink THEN <<>> ELSE x.uplinks[l].backpressure
Due(x, l) == IF x.uplinks[l] = NoUplink THEN NotLinked ELSE x.uplinks[l].send_synced
Counted(x, l) == x.uplinks[l] # NoUplink /\ x.uplinks[l].queued
Waits(x, l) == \E i \in DOMAIN x.write_queue : x.write_queue[i] = l

\* What a remote with view v of a lane will have when the write in progress is over.
After(x, v, l) == Received(v, x.writer, l)

\* The link messages that wait, and the state of the link that they lead to.
IsLink(n, l) == n.type \in {"Linked", "Unlinked"} /\ n.lane = l
Mentions(q, l) == \E i \in DOMAIN q : IsLink(q[i], l)
LastLinked(q, l) ==
  \E i \in DOMAIN q :
    /\ q[i].type = "Linked" /\ q[i].lane = l
    /\ \A j \in DOMAIN q : j > i => ~IsLink(q[j], l)
Linking(q, v, l) == LastLinked(q, l) \/ (~Mentions(q, l) /\ v # NotLinked)

\* The version of a key that the remote will have before the backlog is written.
Base(q, v, l, k) == IF Has(q, "Unlinked", l) \/ v = NotLinked THEN 0 ELSE v[k]

Touches(b, k) == b.key \in {k, All}

\* A backlog leads from version v of a key to version n.
Leads(bs, k, v, n) ==
  \/ n = v /\ \A i \in DOMAIN bs : ~Touches(bs[i], k)
  \/ \E i \in DOMAIN bs :
       /\ Touches(bs[i], k) /\ bs[i].version = n
       /\ \A j \in DOMAIN bs : j > i => ~Touches(bs[j], k)

\* It does so without going back.
Ascends(bs, k, v, n) ==
  /\ v <= n
  /\ \A i \in DOMAIN bs : Touches(bs[i], k) => v <= bs[i].version /\ bs[i].version <= n
  /\ \A i, j \in DOMAIN bs :
       Touches(bs[i], k) /\ Touches(bs[j], k) /\ i < j => bs[i].version <= bs[j].version

\* The backlog of a value lane is one event, of a supply lane every event since
\* some version, of a map lane a clear at most at its front and an event for a key.
ShapeOf(l, bs, v, n) ==
  /\ \A i \in DOMAIN bs : bs[i].key \in KeysOf(l) \cup {All}
  /\ l \notin MapLanes => \A i \in DOMAIN bs : bs[i].key = One
  /\ l \in ValueLanes => Len(bs) <= 1
  /\ l \in SupplyLanes =>
       /\ \A i \in DOMAIN bs : bs[i].version + Len(bs) = n[One] + i
       /\ \A i \in DOMAIN bs : bs[i].version > 0
       /\ v > 0 => v + Len(bs) = n[One]
  /\ l \in MapLanes =>
       /\ \A i \in DOMAIN bs : bs[i].key = All => i = 1
       /\ \A i, j \in DOMAIN bs : bs[i].key = bs[j].key => i = j

\* A backlog is what is owed of key k to a remote that will have version v of it and
\* was sent n.
Owes(l, bs, k, v, n) == Leads(bs, k, v, n[k]) /\ Ascends(bs, k, v, n[k]) /\ ShapeOf(l, bs, v, n)

\* The struct as such.
OfLanes(w) == \A i \in DOMAIN w : w[i].type \in {"Event", "Synced"} => w[i].lane \in AllLanes

StructOK(x) ==
  /\ x = [writer |-> x.writer, uplinks |-> x.uplinks,
          write_queue |-> x.write_queue, special_queue |-> x.special_queue]
  /\ x.uplinks \in [AllLanes -> UplinkRecords \cup {NoUplink}]
  /\ x.write_queue \in Seq(AllLanes)
  /\ x.special_queue \in Seq(Specials)
  /\ x.writer = Home => x.special_queue = <<>> /\ x.write_queue = <<>>
  /\ OfLanes(x.writer)

\* Of one lane, in a struct x and under the links L: the queues.
Queued(x, L, l) ==
  /\ Counted(x, l) => Waits(x, l)
  /\ Backlog(x, l) # <<>> \/ Due(x, l) # NotLinked => Counted(x, l)
  /\ x.uplinks[l] # NoUplink /\ Waits(x, l) => l \in L
  /\ l \notin L => Backlog(x, l) = <<>> /\ Due(x, l) = NotLinked

\* What was pushed, s, is what a remote with view v will have.
Exact(x, L, l, s, v) ==
  /\ After(x, v, l) \in Versions(l) \cup {NotLinked}
  /\ l \in L <=> Linking(x.special_queue, After(x, v, l), l)
  /\ l \notin L => s = Nothing(l)
  /\ \A k \in KeysOf(l) :
       Owes(l, Backlog(x, l), k, Base(x.special_queue, After(x, v, l), l, k), s)

\* A synced message that waits is not due more than was pushed.
DueIsPushed(x, l, s) ==
  Due(x, l) # NotLinked =>
    Due(x, l) \in Versions(l) /\ \A k \in KeysOf(l) : Due(x, l)[k] <= s[k]

\* The write in progress keeps to the protocol of the link.
WithinLink(x, l, v) ==
  \A i \in DOMAIN x.writer :
    x.writer[i].type \in {"Event", "Synced"} /\ x.writer[i].lane = l => v # NotLinked

SyncedInTime(x, l, v) ==
  \A i \in DOMAIN x.writer :
    x.writer[i].type = "Synced" /\ x.writer[i].lane = l /\ l \notin SupplyLanes =>
      /\ After(x, v, l) # NotLinked
      /\ \A k \in KeysOf(l) : x.writer[i].due[k] <= After(x, v, l)[k]

InOrder(x, l, v) ==
  v # NotLinked /\ After(x, v, l) # NotLinked =>
    \A k \in KeysOf(l) :
      /\ v[k] <= After(x, v, l)[k]
      /\ l \in SupplyLanes /\ v[k] > 0 => After(x, v, l)[k] <= v[k] + 1

Good(x, L, l, s, v) ==
  /\ Queued(x, L, l) /\ Exact(x, L, l, s, v) /\ DueIsPushed(x, l, s)
  /\ WithinLink(x, l, v) /\ SyncedInTime(x, l, v) /\ InOrder(x, l, v)

\* What was pushed is not newer than what the lane emitted.
Emitted(l, s, st, n) ==
  \A k \in KeysOf(l) :
    /\ s[k] <= st[k] /\ st[k] <= n
    /\ l \in SupplyLanes => st[k] = n /\ (s[k] > 0 => s[k] = n)

LanesOK ==
  /\ agentLanes \subseteq AllLanes
  /\ linked \subseteq AllLanes
  /\ version \in [AllLanes -> Nat]
  /\ state = [l \in AllLanes |-> state[l]]
  /\ sent = [l \in AllLanes |-> sent[l]]
  /\ view = [l \in AllLanes |-> view[l]]
  /\ syncing = [l \in AllLanes |-> syncing[l]]
  /\ \A l \in AllLanes :
       /\ state[l] \in Versions(l) /\ sent[l] \in Versions(l)
       /\ view[l] \in Versions(l) \cup {NotLinked}
       /\ syncing[l] = NotSyncing \/ syncing[l] \subseteq KeysOf(l)
       /\ l \in SupplyLanes => syncing[l] = NotSyncing \/ syncing[l] = {}
       /\ Emitted(l, sent[l], state[l], version[l])

IInv ==
  /\ StructOK(u)
  /\ LanesOK
  /\ \A l \in AllLanes : Good(u, linked, l, sent[l], view[l])

\* The empty events, of one lane: where they may be in the write in progress; the
\* lane has one place in write_queue, and something to write there; the synced
\* message of an emptied value lane has its empty event before it.
EmptyKnown(x, G, l) ==
  \A i \in DOMAIN x.writer :
    x.writer[i].type = "Event" /\ x.writer[i].lane = l /\ x.writer[i].body = NoBody =>
      l \notin SupplyLanes /\ (l \in G \/ EmptyBeforeSynced(x.writer, i))

Placed(x, l) ==
  /\ \A i, j \in DOMAIN x.write_queue : x.write_queue[i] = l /\ x.write_queue[j] = l => i = j
  /\ Waits(x, l) => Backlog(x, l) # <<>> \/ Due(x, l) # NotLinked

SyncKnown(x, E, l) ==
  \A i \in DOMAIN x.writer :
    x.writer[i].type = "Synced" /\ x.writer[i].lane = l /\ Emptied(E, x.writer, l) =>
      i = 2 /\ x.writer[1] = EventNote(l, NoBody)

\* The remote will have a body for the lane without a synced message being written.
Fresh(x, E, l) == Backlog(x, l) # <<>> \/ (Due(x, l) = NotLinked /\ ~Emptied(E, x.writer, l))

EmptyOK(x, E, G, l) ==
  /\ EmptyKnown(x, G, l)
  /\ l \notin G \cup SupplyLanes => Placed(x, l)
  /\ l \in ValueLanes \ G => SyncKnown(x, E, l)

\* The lanes that are emptied are known; once a value lane has sent its state for a
\* sync the remote will have a body for it when synced is written.
EInv ==
  /\ emptied \subseteq AllLanes
  /\ \A l \in AllLanes :
       /\ EmptyOK(u, emptied, left, l)
       /\ l \in ValueLanes \ left /\ syncing[l] = {} => Fresh(u, emptied, l)
       /\ l \in emptied => l \notin SupplyLanes /\ l \in ValueLanes \cup left /\ view[l] # NotLinked
-----------------------------------------------------------------------------
\* The greatest and the least of a set.
LEMMA MaxIs ==
  ASSUME NEW S, S \subseteq Nat, NEW m \in S, \A j \in S : j <= m
  PROVE  Max(S) = m
<1>1. \A y \in S : m >= y
  OBVIOUS
<1>2. \A x \in S : (\A y \in S : x >= y) => x = m
  OBVIOUS
<1> QED
  BY <1>1, <1>2 DEF Max

LEMMA LeastOf ==
  ASSUME NEW S, S \subseteq Nat, S # {}
  PROVE  Min(S) \in S /\ \A y \in S : Min(S) <= y
<1> DEFINE R == OpToRel(<, Nat)
<1>1. \A y, x \in Nat : y < x => <<y, x>> \in R
  BY DEF OpToRel
<1>2. IsWellFoundedOn(R, Nat)
  BY NatLessThanWellFounded
<1> HIDE DEF R
<1>3. PICK x \in S : \A y \in S : ~(<<y, x>> \in R)
  BY <1>2, WFMin
<1>4. \A y \in S : ~(y < x)
  BY <1>1, <1>3
<1>5. \A y \in S : x =< y
  BY <1>4
<1> QED
  BY <1>5, <1>3 DEF Min

\* The keys of a lane.
LEMMA KeysFacts ==
  ASSUME NEW l \in AllLanes
  PROVE  /\ KeysOf(l) # {} /\ KeysOf(l) \subseteq Keys \cup {One}
         /\ All \notin KeysOf(l) /\ NotLinked \notin Versions(l)
         /\ Nothing(l) \in Versions(l) /\ \A k \in KeysOf(l) : Nothing(l)[k] = 0
<1>1. KeysOf(l) # {} /\ KeysOf(l) \subseteq Keys \cup {One} /\ All \notin KeysOf(l)
  BY LanesAssumption DEF KeysOf
<1>2. DOMAIN NotLinked = {}
  BY DEF NotLinked
<1>3. \A f \in Versions(l) : DOMAIN f = KeysOf(l)
  BY DEF Versions
<1> QED
  BY <1>1, <1>2, <1>3 DEF Versions, Nothing

\* A write that says nothing of a lane.
SaysNothing(w, l) ==
  /\ ~Has(w, "Linked", l) /\ ~Has(w, "Unlinked", l)
  /\ \A i \in DOMAIN w, k \in KeysOf(l) : ~Bears(w[i], l, k)

LEMMA ReceivedNothing ==
  ASSUME NEW l \in AllLanes, NEW v \in Versions(l) \cup {NotLinked}, NEW w, SaysNothing(w, l)
  PROVE  Received(v, w, l) = v
<1>1. CASE v = NotLinked
  BY <1>1 DEF Received, SaysNothing
<1>2. CASE v # NotLinked
  <2>1. \A k \in KeysOf(l) : VersionAfter(w, l, k, v[k]) = v[k]
    BY DEF VersionAfter, SaysNothing
  <2>2. Received(v, w, l) = [k \in KeysOf(l) |-> v[k]]
    BY <1>2, <2>1 DEF Received, SaysNothing
  <2> QED
    BY <1>2, <2>2 DEF Versions
<1> QED
  BY <1>1, <1>2

\* The events of a write lead from one version to another.
WriteLeads(w, l, k, v, n) ==
  \/ n = v /\ \A i \in DOMAIN w : ~Bears(w[i], l, k)
  \/ \E i \in DOMAIN w :
       /\ Bears(w[i], l, k) /\ w[i].body.version = n
       /\ \A j \in DOMAIN w : j > i => ~Bears(w[j], l, k)

LEMMA ReceivedEvents ==
  ASSUME NEW l \in AllLanes, NEW v \in Versions(l), NEW w, DOMAIN w \subseteq Nat,
         ~Has(w, "Unlinked", l),
         NEW f \in Versions(l), \A k \in KeysOf(l) : WriteLeads(w, l, k, v[k], f[k])
  PROVE  Received(v, w, l) = f
<1>1. ASSUME NEW k \in KeysOf(l)
      PROVE  VersionAfter(w, l, k, v[k]) = f[k]
  <2> DEFINE on == {i \in DOMAIN w : Bears(w[i], l, k)}
  <2>1. WriteLeads(w, l, k, v[k], f[k])
    OBVIOUS
  <2>2. CASE on = {}
    BY <2>1, <2>2 DEF WriteLeads, VersionAfter
  <2>3. CASE on # {}
    <3>1. PICK i \in on : w[i].body.version = f[k] /\ \A j \in DOMAIN w : j > i => ~Bears(w[j], l, k)
      BY <2>1, <2>3 DEF WriteLeads
    <3>2. \A j \in on : j <= i
      BY <3>1
    <3>3. Max(on) = i
      BY <3>1, <3>2, MaxIs
    <3> QED
      BY <2>3, <3>1, <3>3 DEF VersionAfter
  <2> QED
    BY <2>2, <2>3
<1>2. Received(v, w, l) = [k \in KeysOf(l) |-> f[k]]
  BY <1>1, KeysFacts DEF Received
<1> QED
  BY <1>2 DEF Versions

\* A write of one link message.
LEMMA ReceivedLink ==
  ASSUME NEW l \in AllLanes, NEW v \in Versions(l) \cup {NotLinked}, NEW n \in Specials
  PROVE  Received(v, <<n>>, l) =
           IF IsLink(n, l)
             THEN IF n.type = "Unlinked" THEN NotLinked ELSE IF v = NotLinked THEN Nothing(l) ELSE v
             ELSE v
<1> DEFINE w == <<n>>
<1>1. DOMAIN w = {1} /\ w[1] = n
  OBVIOUS
<1>2. n.type # "Event"
  BY DEF Specials, LaneNotFound
<1>3. \A i \in DOMAIN w, k \in KeysOf(l) : ~Bears(w[i], l, k)
  BY <1>1, <1>2 DEF Bears
<1>4. Has(w, "Unlinked", l) <=> n.type = "Unlinked" /\ n.lane = l
  BY <1>1 DEF Has
<1>5. Has(w, "Linked", l) <=> n.type = "Linked" /\ n.lane = l
  BY <1>1 DEF Has
<1> HIDE DEF w
<1>6. CASE ~IsLink(n, l)
  BY <1>6, <1>3, <1>4, <1>5, ReceivedNothing DEF SaysNothing, IsLink, w
<1>7. CASE IsLink(n, l) /\ n.type = "Unlinked"
  BY <1>7, <1>4 DEF Received, IsLink, w
<1>8. CASE IsLink(n, l) /\ n.type = "Linked" /\ v = NotLinked
  BY <1>8, <1>4, <1>5 DEF Received, IsLink, w
<1>9. CASE IsLink(n, l) /\ n.type = "Linked" /\ v # NotLinked
  <2>1. \A k \in KeysOf(l) : WriteLeads(w, l, k, v[k], v[k])
    BY <1>3 DEF WriteLeads
  <2> QED
    BY <1>9, <1>1, <1>4, <2>1, ReceivedEvents DEF w
<1> QED
  BY <1>6, <1>7, <1>8, <1>9 DEF IsLink

\* A write of the events and the synced message of one lane.
WriteOf(w, l) ==
  /\ DOMAIN w \subseteq Nat
  /\ \A i \in DOMAIN w : w[i].type \in {"Event", "Synced"} /\ w[i].lane = l

LEMMA WriteOfOther ==
  ASSUME NEW l \in AllLanes, NEW m \in AllLanes, m # l, NEW w, WriteOf(w, l)
  PROVE  SaysNothing(w, m)
  BY DEF WriteOf, SaysNothing, Has, Bears

LEMMA ReceivedWrite ==
  ASSUME NEW l \in AllLanes, NEW v \in Versions(l), NEW w, WriteOf(w, l),
         NEW f \in Versions(l), \A k \in KeysOf(l) : WriteLeads(w, l, k, v[k], f[k])
  PROVE  Received(v, w, l) = f
<1>1. ~Has(w, "Unlinked", l) /\ DOMAIN w \subseteq Nat
  BY DEF WriteOf, Has
<1> QED
  BY <1>1, ReceivedEvents

\* Nothing is owed when there is no backlog, and nothing but what was sent.
LEMMA OwesNothing ==
  ASSUME NEW l \in AllLanes, NEW k \in KeysOf(l), NEW v \in Nat, NEW n \in Versions(l)
  PROVE  /\ Owes(l, <<>>, k, v, n) => v = n[k]
         /\ v = n[k] => Owes(l, <<>>, k, v, n)
<1>1. n[k] \in Nat
  BY DEF Versions
<1>2. l \in SupplyLanes => k = One
  BY LanesAssumption DEF KeysOf
<1> QED
  BY <1>1, <1>2 DEF Owes, Leads, Ascends, ShapeOf

\* What a lane pushes: with a version that is not older than what was sent.
Pushable(l, b, n) ==
  /\ b \in Bodies /\ b.key \in KeysOf(l) \cup {All}
  /\ l \notin MapLanes => b.key = One
  /\ \A k \in KeysOf(l) : Touches(b, k) => n[k] <= b.version
  /\ l \in SupplyLanes => b.version > 0 /\ (n[One] > 0 => b.version = n[One] + 1)

Pushed(l, b, n) == [k \in KeysOf(l) |-> IF Touches(b, k) THEN b.version ELSE n[k]]

LEMMA OwesPushed ==
  ASSUME NEW l \in AllLanes, NEW bs \in Seq(Bodies), NEW k \in KeysOf(l), NEW v \in Nat,
         NEW n \in Versions(l), Owes(l, bs, k, v, n), NEW b, Pushable(l, b, n)
  PROVE  /\ PushBytes(l, bs, b) \in Seq(Bodies)
         /\ Owes(l, PushBytes(l, bs, b), k, v, Pushed(l, b, n))
<1> DEFINE n1 == Pushed(l, b, n)
           bs1 == PushBytes(l, bs, b)
<1>1. n[k] \in Nat /\ n1[k] = IF Touches(b, k) THEN b.version ELSE n[k]
  BY DEF Versions, Pushed
<1>2. b \in Bodies /\ b.version \in Nat /\ b.key \in KeysOf(l) \cup {All}
  BY DEF Pushable, Bodies
<1>3. \A i \in DOMAIN bs : bs[i] \in Bodies /\ bs[i].version \in Nat
  <2>1. \A x \in Bodies : x.version \in Nat
    BY DEF Bodies
  <2>2. \A i \in DOMAIN bs : bs[i] \in Bodies
    OBVIOUS
  <2> QED
    BY <2>1, <2>2
<1>4. Touches(b, k) => n[k] <= b.version
  BY DEF Pushable
<1>5. l \notin MapLanes => k = One /\ b.key = One /\ Touches(b, k)
  BY DEF KeysOf, Pushable, Touches
<1>6. v <= n[k]
  BY DEF Owes, Ascends
<1> HIDE DEF n1
<1>7. CASE l \in ValueLanes
  <2>1. bs1 = <<b>> /\ l \notin MapLanes /\ l \notin SupplyLanes
    BY <1>7, LanesAssumption DEF PushBytes
  <2> HIDE DEF bs1
  <2>2. bs1 \in Seq(Bodies) /\ Len(bs1) = 1 /\ DOMAIN bs1 = {1} /\ bs1[1] = b
    BY <2>1, <1>2
  <2>3. Leads(bs1, k, v, n1[k])
    BY <2>1, <2>2, <1>1, <1>5 DEF Leads
  <2>4. Ascends(bs1, k, v, n1[k])
    BY <2>1, <2>2, <1>1, <1>2, <1>4, <1>5, <1>6 DEF Ascends
  <2>5. ShapeOf(l, bs1, v, n1)
    BY <2>1, <2>2, <1>2, <1>5 DEF ShapeOf
  <2> QED
    BY <2>2, <2>3, <2>4, <2>5 DEF Owes, bs1, n1
<1>8. CASE l \in SupplyLanes
  <2>1. bs1 = Append(bs, b) /\ l \notin MapLanes /\ l \notin ValueLanes
    BY <1>8, LanesAssumption DEF PushBytes
  <2> HIDE DEF bs1
  <2>2. /\ bs1 \in Seq(Bodies) /\ Len(bs1) = Len(bs) + 1
        /\ \A i \in DOMAIN bs1 : i \in 1..(Len(bs) + 1) /\ bs1[i] = IF i = Len(bs) + 1 THEN b ELSE bs[i]
        /\ Len(bs) + 1 \in DOMAIN bs1
    BY <2>1, <1>2
  <2>3. Leads(bs1, k, v, n1[k])
    <3>1. Touches(bs1[Len(bs) + 1], k) /\ bs1[Len(bs) + 1].version = n1[k]
      BY <2>1, <2>2, <1>1, <1>5
    <3> QED
      BY <2>2, <3>1 DEF Leads
  <2>4. Ascends(bs1, k, v, n1[k])
    BY <2>1, <2>2, <1>1, <1>2, <1>3, <1>4, <1>5, <1>6 DEF Ascends, Owes
  <2>5. ShapeOf(l, bs1, v, n1)
    <3>1. n1[One] = b.version /\ n[One] \in Nat /\ b.version > 0 /\ k = One
      BY <1>1, <1>5, <1>8, <2>1 DEF Pushable
    <3>2. \A i \in DOMAIN bs : bs[i].key = One /\ bs[i].version + Len(bs) = n[One] + i /\ bs[i].version > 0
      BY <1>8, <2>1 DEF Owes, ShapeOf
    <3>3. CASE n[One] > 0
      <4>1. b.version = n[One] + 1
        BY <3>3, <1>8 DEF Pushable
      <4>2. v > 0 => v + Len(bs) = n[One]
        BY <1>8 DEF Owes, ShapeOf
      <4>3. Len(bs) \in Nat /\ DOMAIN bs = 1..Len(bs)
        OBVIOUS
      <4>4. \A i \in DOMAIN bs1 : bs1[i].key = One /\ bs1[i].version > 0
        BY <4>1, <4>3, <3>1, <3>2, <2>2, <1>5, <2>1
      <4>5. \A i \in DOMAIN bs1 : bs1[i].version + Len(bs1) = n1[One] + i
        <5> SUFFICES ASSUME NEW i \in DOMAIN bs1
                     PROVE  bs1[i].version + Len(bs1) = n1[One] + i
          OBVIOUS
        <5>1. CASE i = Len(bs) + 1
          BY <5>1, <4>3, <3>1, <2>2, <1>2
        <5>2. CASE i # Len(bs) + 1
          <6>1. i \in DOMAIN bs /\ bs1[i] = bs[i] /\ i \in Nat
            BY <5>2, <4>3, <2>2
          <6>2. bs[i].version + Len(bs) = n[One] + i /\ bs[i].version \in Nat
            BY <6>1, <3>2, <1>3
          <6> QED
            <7>1. bs1[i].version = bs[i].version
              BY <6>1
            <7>2. Len(bs1) = Len(bs) + 1 /\ n1[One] = n[One] + 1 /\ n[One] \in Nat /\ Len(bs) \in Nat
              BY <4>1, <4>3, <3>1, <2>2
            <7>3. \A x \in Nat : x + Len(bs) = n[One] + i => x + (Len(bs) + 1) = (n[One] + 1) + i
              BY <7>2, <6>1
            <7>4. bs[i].version + (Len(bs) + 1) = (n[One] + 1) + i
              BY <7>3, <6>2, Zenon
            <7> QED
              BY <7>1, <7>2, <7>4
        <5> QED
          BY <5>1, <5>2
      <4>6. v > 0 => v + Len(bs1) = n1[One]
        BY <4>1, <4>2, <4>3, <3>1, <2>2
      <4> QED
        BY <4>4, <4>5, <4>6, <3>1, <2>1, <1>5 DEF ShapeOf
    <3>4. CASE n[One] = 0
      <4>1. \A i \in DOMAIN bs : FALSE
        <5> SUFFICES ASSUME NEW i \in DOMAIN bs
                     PROVE  FALSE
          OBVIOUS
        <5>1. i \in Nat /\ Len(bs) \in Nat /\ i <= Len(bs)
          OBVIOUS
        <5>2. \A x \in Nat : x > 0 /\ x + Len(bs) = 0 + i => FALSE
          BY <5>1
        <5>3. bs[i].version \in Nat /\ bs[i].version > 0 /\ bs[i].version + Len(bs) = 0 + i
          BY <3>2, <3>4, <1>3, Zenon
        <5> QED
          BY <5>2, <5>3, Zenon
      <4>2. Len(bs) = 0 /\ v = 0
        BY <4>1, <3>1, <3>4, <1>6, SMTT(30)
      <4>3. \A i \in DOMAIN bs1 : i = 1 /\ bs1[i] = b
        BY <4>2, <2>2
      <4>4. Len(bs1) = 1
        BY <4>2, <2>2
      <4>5. \A i \in DOMAIN bs1 : bs1[i].key = One /\ bs1[i].version > 0
        BY <4>3, <3>1, <1>5, <2>1
      <4>6. \A i \in DOMAIN bs1 : bs1[i].version + Len(bs1) = n1[One] + i
        <5>1. \A i \in DOMAIN bs1 : bs1[i].version = n1[One] /\ i = 1
          BY <4>3, <3>1
        <5> QED
          BY <5>1, <4>4
      <4> QED
        BY <4>2, <4>5, <4>6, <2>1, <1>5, <1>8 DEF ShapeOf
    <3> QED
      BY <3>1, <3>3, <3>4
  <2> QED
    BY <2>2, <2>3, <2>4, <2>5 DEF Owes, bs1, n1
<1>9. CASE l \in MapLanes
  <2>1. /\ l \notin ValueLanes /\ l \notin SupplyLanes /\ All \notin KeysOf(l)
        /\ \A i \in DOMAIN bs : bs[i].key \in KeysOf(l) \cup {All}
        /\ \A i \in DOMAIN bs : bs[i].key = All => i = 1
        /\ \A i, j \in DOMAIN bs : bs[i].key = bs[j].key => i = j
    BY <1>9, LanesAssumption, KeysFacts DEF Owes, ShapeOf
  <2>2. CASE b.key = All
    <3>1. bs1 = <<b>>
      BY <2>1, <2>2, <1>9 DEF PushBytes
    <3> HIDE DEF bs1
    <3>2. bs1 \in Seq(Bodies) /\ Len(bs1) = 1 /\ DOMAIN bs1 = {1} /\ bs1[1] = b /\ Touches(b, k)
      BY <3>1, <1>2, <2>2 DEF Touches
    <3>3. Leads(bs1, k, v, n1[k]) /\ Ascends(bs1, k, v, n1[k])
      BY <3>2, <1>1, <1>2, <1>4, <1>6 DEF Leads, Ascends
    <3>4. ShapeOf(l, bs1, v, n1)
      BY <3>2, <1>2, <1>9, <2>1 DEF ShapeOf
    <3> QED
      BY <3>2, <3>3, <3>4 DEF Owes, bs1, n1
  <2>3. ASSUME b.key # All, NEW h \in DOMAIN bs, bs[h].key = b.key
        PROVE  bs1 \in Seq(Bodies) /\ Owes(l, bs1, k, v, n1)
    <3>1. bs1 = [i \in DOMAIN bs |-> IF bs[i].key = b.key THEN b ELSE bs[i]]
      BY <2>1, <2>3, <1>9 DEF PushBytes
    <3>2. \A i \in DOMAIN bs : (IF bs[i].key = b.key THEN b ELSE bs[i]) = (IF i = h THEN b ELSE bs[i])
      BY <2>1, <2>3
    <3> HIDE DEF bs1
    <3>3. /\ bs1 \in Seq(Bodies) /\ Len(bs1) = Len(bs) /\ DOMAIN bs1 = DOMAIN bs
          /\ \A i \in DOMAIN bs : bs1[i] = IF i = h THEN b ELSE bs[i]
          /\ DOMAIN bs \subseteq Nat /\ \A i \in DOMAIN bs : i >= 1
      BY <3>1, <3>2, <1>2
    <3>4. ShapeOf(l, bs1, v, n1)
      BY <3>3, <2>1, <2>3, <1>2, <1>9 DEF ShapeOf
    <3>5. \A i \in DOMAIN bs : Touches(bs1[i], k) <=> Touches(bs[i], k)
      BY <3>3, <2>3 DEF Touches
    <3>6. CASE k = b.key
      <4>1. Touches(b, k) /\ n1[k] = b.version /\ n[k] <= b.version
        BY <3>6, <1>1, <1>4 DEF Touches
      <4>2. \A i \in DOMAIN bs : Touches(bs[i], k) => i = h \/ i = 1
        BY <3>6, <2>1, <2>3 DEF Touches
      <4>3. Leads(bs1, k, v, n1[k])
        BY <4>1, <4>2, <3>3, <3>5 DEF Leads
      <4>4. \A i \in DOMAIN bs : Touches(bs[i], k) => v <= bs[i].version /\ bs[i].version <= n[k]
        BY DEF Ascends, Owes
      <4>5. \A i \in DOMAIN bs1 : Touches(bs1[i], k) => v <= bs1[i].version /\ bs1[i].version <= n1[k]
        BY <4>1, <4>4, <3>3, <3>5, <1>1, <1>2, <1>3, <1>6
      <4>6. ASSUME NEW i \in DOMAIN bs1, NEW j \in DOMAIN bs1, Touches(bs1[i], k), Touches(bs1[j], k), i < j
            PROVE  bs1[i].version <= bs1[j].version
        <5>1. j = h /\ i # h
          BY <4>2, <4>6, <3>3, <3>5
        <5> QED
          BY <5>1, <4>1, <4>5, <4>6, <3>3
      <4>7. Ascends(bs1, k, v, n1[k])
        BY <4>1, <4>5, <4>6, <1>2, <1>6, <1>1 DEF Ascends
      <4> QED
        BY <4>3, <4>7, <3>3, <3>4 DEF Owes
    <3>7. CASE k # b.key
      <4>1. ~Touches(b, k) /\ n1[k] = n[k] /\ ~Touches(bs[h], k)
        BY <3>7, <2>3, <1>1 DEF Touches
      <4>2. Leads(bs1, k, v, n1[k])
        BY <4>1, <3>3, <3>5 DEF Leads, Owes
      <4>3. Ascends(bs1, k, v, n1[k])
        BY <4>1, <3>3, <3>5 DEF Ascends, Owes
      <4> QED
        BY <4>2, <4>3, <3>3, <3>4 DEF Owes
    <3> QED
      BY <3>6, <3>7
  <2>4. CASE b.key # All /\ \A h \in DOMAIN bs : bs[h].key # b.key
    <3>1. bs1 = Append(bs, b)
      BY <2>1, <2>4, <1>9 DEF PushBytes
    <3> HIDE DEF bs1
    <3>2. /\ bs1 \in Seq(Bodies) /\ Len(bs1) = Len(bs) + 1
          /\ \A i \in DOMAIN bs1 : i \in 1..(Len(bs) + 1) /\ bs1[i] = IF i = Len(bs) + 1 THEN b ELSE bs[i]
          /\ Len(bs) + 1 \in DOMAIN bs1 /\ DOMAIN bs = 1..Len(bs) /\ DOMAIN bs1 = 1..(Len(bs) + 1)
      BY <3>1, <1>2
    <3>3. ShapeOf(l, bs1, v, n1)
      BY <3>2, <2>1, <2>4, <1>2, <1>9 DEF ShapeOf
    <3>4. Leads(bs1, k, v, n1[k])
      <4>1. CASE Touches(b, k)
        BY <4>1, <3>2, <1>1 DEF Leads
      <4>2. CASE ~Touches(b, k)
        <5>1. n1[k] = n[k] /\ Leads(bs, k, v, n[k])
          BY <4>2, <1>1 DEF Owes
        <5>2. CASE \A i \in DOMAIN bs : ~Touches(bs[i], k)
          BY <5>1, <5>2, <4>2, <3>2 DEF Leads
        <5>3. CASE \E i \in DOMAIN bs : Touches(bs[i], k)
          <6>1. PICK i \in DOMAIN bs : /\ Touches(bs[i], k) /\ bs[i].version = n[k]
                                       /\ \A j \in DOMAIN bs : j > i => ~Touches(bs[j], k)
            BY <5>1, <5>3 DEF Leads
          <6> QED
            BY <6>1, <5>1, <4>2, <3>2 DEF Leads
        <5> QED
          BY <5>2, <5>3
      <4> QED
        BY <4>1, <4>2
    <3>5. Ascends(bs1, k, v, n1[k])
      BY <3>2, <1>1, <1>2, <1>3, <1>4, <1>6, SMTT(30) DEF Ascends, Owes
    <3> QED
      BY <3>2, <3>3, <3>4, <3>5 DEF Owes, n1, bs1
  <2> QED
    BY <2>2, <2>3, <2>4 DEF n1
<1> QED
  BY <1>7, <1>8, <1>9 DEF AllLanes

\* The version that a remote has after the first event of a backlog.
Next1(bs, k, v) == IF Touches(Head(bs), k) THEN Head(bs).version ELSE v

LEMMA OwesTail ==
  ASSUME NEW l \in AllLanes, NEW bs \in Seq(Bodies), bs # <<>>, NEW k \in KeysOf(l), NEW v \in Nat,
         NEW n \in Versions(l), Owes(l, bs, k, v, n)
  PROVE  /\ Next1(bs, k, v) \in Nat /\ v <= Next1(bs, k, v)
         /\ l \in SupplyLanes /\ v > 0 => Next1(bs, k, v) <= v + 1
         /\ Tail(bs) \in Seq(Bodies)
         /\ Owes(l, Tail(bs), k, Next1(bs, k, v), n)
<1> DEFINE t == Tail(bs)
           x == Next1(bs, k, v)
<1>1. /\ t \in Seq(Bodies) /\ Len(bs) \in Nat /\ Len(bs) = Len(t) + 1 /\ Len(t) \in Nat
      /\ DOMAIN t = 1..Len(t) /\ DOMAIN bs = 1..(Len(t) + 1)
      /\ \A i \in 1..Len(t) : t[i] = bs[i + 1]
      /\ Head(bs) = bs[1]
  OBVIOUS
<1>2. \A b \in Bodies : b.version \in Nat
  BY DEF Bodies
<1>3. \A i \in DOMAIN bs : bs[i].version \in Nat
  BY <1>2
<1>4. n[k] \in Nat /\ v <= n[k]
  BY DEF Versions, Owes, Ascends
<1> HIDE DEF t
<1>5. x = IF Touches(bs[1], k) THEN bs[1].version ELSE v
  BY <1>1 DEF Next1
<1>6. \A i \in DOMAIN bs : Touches(bs[i], k) => v <= bs[i].version /\ bs[i].version <= n[k]
  BY DEF Owes, Ascends
<1>7. x \in Nat /\ v <= x /\ x <= n[k]
  BY <1>1, <1>3, <1>4, <1>5, <1>6
<1> HIDE DEF x
<1>8. Leads(t, k, x, n[k])
  <2>1. CASE n[k] = v /\ \A i \in DOMAIN bs : ~Touches(bs[i], k)
    BY <2>1, <1>1, <1>5 DEF Leads
  <2>2. ASSUME NEW i \in DOMAIN bs, Touches(bs[i], k), bs[i].version = n[k],
               \A j \in DOMAIN bs : j > i => ~Touches(bs[j], k)
        PROVE  Leads(t, k, x, n[k])
    <3>1. CASE i = 1
      <4>1. x = n[k]
        BY <3>1, <2>2, <1>5
      <4>2. \A j \in DOMAIN t : ~Touches(t[j], k)
        BY <3>1, <2>2, <1>1
      <4> QED
        BY <4>1, <4>2 DEF Leads
    <3>2. CASE i # 1
      <4>1. i - 1 \in DOMAIN t /\ t[i - 1] = bs[i]
        BY <3>2, <1>1
      <4>2. \A j \in DOMAIN t : j > i - 1 => ~Touches(t[j], k)
        BY <2>2, <1>1, SMTT(30)
      <4> QED
        BY <4>1, <4>2, <2>2 DEF Leads
    <3> QED
      BY <3>1, <3>2
  <2> QED
    BY <2>1, <2>2 DEF Owes, Leads
<1>9. Ascends(t, k, x, n[k])
  <2>1. \A i, j \in DOMAIN bs : Touches(bs[i], k) /\ Touches(bs[j], k) /\ i < j => bs[i].version <= bs[j].version
    BY DEF Owes, Ascends
  <2>2. ASSUME NEW i \in DOMAIN t, Touches(t[i], k)
        PROVE  x <= t[i].version /\ t[i].version <= n[k]
    <3>1. i + 1 \in DOMAIN bs /\ t[i] = bs[i + 1] /\ 1 \in DOMAIN bs /\ 1 < i + 1
      BY <1>1
    <3> QED
      BY <3>1, <2>1, <2>2, <1>5, <1>6
  <2>3. ASSUME NEW i \in DOMAIN t, NEW j \in DOMAIN t, Touches(t[i], k), Touches(t[j], k), i < j
        PROVE  t[i].version <= t[j].version
    <3>1. i + 1 \in DOMAIN bs /\ t[i] = bs[i + 1] /\ j + 1 \in DOMAIN bs /\ t[j] = bs[j + 1] /\ i + 1 < j + 1
      BY <1>1, <2>3
    <3> QED
      BY <3>1, <2>1, <2>3
  <2> QED
    BY <2>2, <2>3, <1>7 DEF Ascends
<1>10. ShapeOf(l, t, x, n) /\ (l \in SupplyLanes /\ v > 0 => x <= v + 1)
  <2>1. \A i \in DOMAIN t : i + 1 \in DOMAIN bs /\ t[i] = bs[i + 1] /\ i \in Nat
    BY <1>1
  <2>2. /\ \A i \in DOMAIN t : t[i].key \in KeysOf(l) \cup {All}
        /\ l \notin MapLanes => \A i \in DOMAIN t : t[i].key = One
        /\ l \in ValueLanes => Len(t) <= 1
    BY <2>1, <1>1 DEF Owes, ShapeOf
  <2>3. CASE l \in SupplyLanes
    <3>1. /\ \A i \in DOMAIN bs : bs[i].version + Len(bs) = n[One] + i
          /\ \A i \in DOMAIN bs : bs[i].version > 0 /\ bs[i].key = One
          /\ v > 0 => v + Len(bs) = n[One]
      BY <2>3, LanesAssumption DEF Owes, ShapeOf
    <3>2. k = One /\ l \notin MapLanes
      BY <2>3, LanesAssumption DEF KeysOf
    <3>3. 1 \in DOMAIN bs
      BY <1>1
    <3>4. x = bs[1].version /\ n[One] \in Nat
      BY <3>1, <3>2, <3>3, <1>4, <1>5 DEF Touches
    <3>5. x + Len(bs) = n[One] + 1
      BY <3>1, <3>3, <3>4
    <3>6. \A i \in DOMAIN t : t[i].version > 0
      BY <3>1, <2>1
    <3>7. \A i \in DOMAIN t : t[i].version + Len(t) = n[One] + i
      <4> SUFFICES ASSUME NEW i \in DOMAIN t
                   PROVE  t[i].version + Len(t) = n[One] + i
        OBVIOUS
      <4>1. t[i].version \in Nat /\ t[i].version + Len(bs) = n[One] + (i + 1)
        BY <2>1, <3>1, <1>3
      <4>2. \A y, z, g, h \in Nat : y + (z + 1) = g + (h + 1) => y + z = g + h
        OBVIOUS
      <4>3. i \in Nat /\ Len(bs) = Len(t) + 1 /\ Len(t) \in Nat
        BY <2>1, <1>1
      <4>4. t[i].version + (Len(t) + 1) = n[One] + (i + 1)
        BY <4>1, <4>3
      <4>5. \A y, g \in Nat : y + (Len(t) + 1) = g + (i + 1) => y + Len(t) = g + i
        BY <4>2, <4>3, SMTT(30)
      <4>6. t[i].version \in Nat /\ n[One] \in Nat
        BY <4>1, <3>4
      <4> QED
        BY <4>4, <4>5, <4>6, Zenon
    <3>8. x + Len(t) = n[One]
      <4>1. \A y, z, g \in Nat : y + (z + 1) = g + 1 => y + z = g
        OBVIOUS
      <4>2. x + (Len(t) + 1) = n[One] + 1 /\ Len(t) \in Nat
        BY <3>5, <1>1
      <4> QED
        BY <4>1, <4>2, <3>4, <1>7, Zenon
    <3>9. v > 0 => x <= v + 1
      BY <3>1, <3>4, <3>5, <1>1, <1>7
    <3> QED
      BY <3>2, <3>6, <3>7, <3>8, <3>9, <2>2 DEF ShapeOf
  <2>4. CASE l \notin SupplyLanes
    <3>1. l \in MapLanes =>
            /\ \A i \in DOMAIN bs : bs[i].key = All => i = 1
            /\ \A i, j \in DOMAIN bs : bs[i].key = bs[j].key => i = j
      BY DEF Owes, ShapeOf
    <3>2. l \in MapLanes => \A i \in DOMAIN t : t[i].key = All => i = 1
      BY <3>1, <2>1
    <3>3. ASSUME l \in MapLanes, NEW i \in DOMAIN t, NEW j \in DOMAIN t, t[i].key = t[j].key
          PROVE  i = j
      <4>1. i + 1 = j + 1
        BY <3>1, <3>3, <2>1
      <4> QED
        BY <4>1, <2>1
    <3> QED
      BY <2>2, <2>4, <3>2, <3>3 DEF ShapeOf
  <2> QED
    BY <2>3, <2>4
<1> QED
  BY <1>1, <1>7, <1>8, <1>9, <1>10 DEF Owes, x, t

LEMMA NoteFacts ==
  ASSUME NEW l \in AllLanes, NEW b, NEW d
  PROVE  /\ EventNote(l, b).type = "Event" /\ EventNote(l, b).lane = l /\ EventNote(l, b).body = b
         /\ Synced(l, d).type = "Synced" /\ Synced(l, d).lane = l /\ Synced(l, d).due = d
  BY DEF EventNote, Synced

LEMMA BearsFacts ==
  ASSUME NEW l \in AllLanes, NEW k, NEW b, NEW d
  PROVE  /\ b \in Bodies => (Bears(EventNote(l, b), l, k) <=> Touches(b, k))
         /\ ~Bears(EventNote(l, NoBody), l, k)
         /\ ~Bears(Synced(l, d), l, k)
  BY NoteFacts, EmptyAssumption DEF Bears, Touches

\* A write takes a remote from version v of a key to version x, and leaves rest.
WrittenAs(l, w, rest, k, v, n, x) ==
  /\ x \in Nat /\ v <= x
  /\ l \in SupplyLanes /\ v > 0 => x <= v + 1
  /\ WriteLeads(w, l, k, v, x)
  /\ Owes(l, rest, k, x, n)

LEMMA WrittenFirst ==
  ASSUME NEW l \in AllLanes, NEW bs \in Seq(Bodies), NEW k \in KeysOf(l), NEW v \in Nat,
         NEW n \in Versions(l), Owes(l, bs, k, v, n), NEW w, NEW d,
         \/ w = <<EventNote(l, PrepareWrite(bs))>>
         \/ w = <<EventNote(l, PrepareWrite(bs)), Synced(l, d)>>
  PROVE  \E x \in Nat : WrittenAs(l, w, Prepared(bs), k, v, n, x)
<1>1. /\ DOMAIN w = {1} \/ DOMAIN w = {1, 2}
      /\ w[1] = EventNote(l, PrepareWrite(bs))
      /\ 2 \in DOMAIN w => w[2] = Synced(l, d)
  OBVIOUS
<1>2. 2 \in DOMAIN w => ~Bears(w[2], l, k)
  BY <1>1, BearsFacts
<1>3. CASE bs = <<>>
  <2>1. Prepared(bs) = bs /\ PrepareWrite(bs) = NoBody
    BY <1>3 DEF Prepared, PrepareWrite
  <2>2. \A i \in DOMAIN w : ~Bears(w[i], l, k)
    BY <2>1, <1>1, <1>2, BearsFacts
  <2>3. WriteLeads(w, l, k, v, v)
    BY <2>2 DEF WriteLeads
  <2> QED
    BY <2>1, <2>3 DEF WrittenAs
<1>4. CASE bs # <<>>
  <2>1. Prepared(bs) = Tail(bs) /\ PrepareWrite(bs) = Head(bs) /\ Head(bs) \in Bodies
    BY <1>4 DEF Prepared, PrepareWrite
  <2>2. Bears(w[1], l, k) <=> Touches(Head(bs), k)
    BY <2>1, <1>1, BearsFacts
  <2>3. w[1].body = Head(bs)
    BY <2>1, <1>1 DEF EventNote
  <2>4. WriteLeads(w, l, k, v, Next1(bs, k, v))
    BY <2>2, <2>3, <1>1, <1>2 DEF WriteLeads, Next1
  <2> QED
    BY <2>1, <2>4, <1>4, OwesTail DEF WrittenAs
<1> QED
  BY <1>3, <1>4

\* A synced message of a map lane follows all that waits.
LEMMA WrittenAll ==
  ASSUME NEW l \in AllLanes, NEW bs \in Seq(Bodies), NEW k \in KeysOf(l), NEW v \in Nat,
         NEW n \in Versions(l), Owes(l, bs, k, v, n), l \notin SupplyLanes, NEW w, NEW d,
         w = [i \in DOMAIN bs |-> EventNote(l, bs[i])] \o <<Synced(l, d)>>
  PROVE  WrittenAs(l, w, <<>>, k, v, n, n[k])
<1> DEFINE e == [i \in DOMAIN bs |-> EventNote(l, bs[i])]
<1>1. /\ Len(bs) \in Nat /\ DOMAIN bs = 1..Len(bs) /\ DOMAIN e = 1..Len(bs)
      /\ \A i \in 1..Len(bs) : e[i] = EventNote(l, bs[i]) /\ bs[i] \in Bodies
  OBVIOUS
<1>2. e \in Seq({EventNote(l, b) : b \in Bodies}) /\ Len(e) = Len(bs)
  BY <1>1
<1> HIDE DEF e
<1>3. /\ DOMAIN w = 1..(Len(bs) + 1)
      /\ \A i \in 1..Len(bs) : w[i] = EventNote(l, bs[i])
      /\ w[Len(bs) + 1] = Synced(l, d)
  <2>1. ASSUME NEW S, NEW q \in Seq(S), NEW T, NEW a \in T
        PROVE  /\ DOMAIN (q \o <<a>>) = 1..(Len(q) + 1)
               /\ \A i \in 1..Len(q) : (q \o <<a>>)[i] = q[i]
               /\ (q \o <<a>>)[Len(q) + 1] = a
    OBVIOUS
  <2>2. /\ DOMAIN (e \o <<Synced(l, d)>>) = 1..(Len(e) + 1)
        /\ \A i \in 1..Len(e) : (e \o <<Synced(l, d)>>)[i] = e[i]
        /\ (e \o <<Synced(l, d)>>)[Len(e) + 1] = Synced(l, d)
    BY <1>2, <2>1
  <2>3. w = e \o <<Synced(l, d)>>
    BY DEF e
  <2> QED
    BY <1>1, <1>2, <2>2, <2>3
<1>4. \A i \in 1..Len(bs) : (Bears(w[i], l, k) <=> Touches(bs[i], k)) /\ w[i].body = bs[i]
  <2>1. \A b \in Bodies : (Bears(EventNote(l, b), l, k) <=> Touches(b, k)) /\ EventNote(l, b).body = b
    BY BearsFacts, NoteFacts
  <2> QED
    BY <1>1, <1>3, <2>1
<1>5. ~Bears(w[Len(bs) + 1], l, k)
  BY <1>3, BearsFacts
<1>6. WriteLeads(w, l, k, v, n[k])
  <2>1. CASE n[k] = v /\ \A i \in DOMAIN bs : ~Touches(bs[i], k)
    BY <2>1, <1>1, <1>3, <1>4, <1>5 DEF WriteLeads
  <2>2. ASSUME NEW i \in DOMAIN bs, Touches(bs[i], k), bs[i].version = n[k],
               \A j \in DOMAIN bs : j > i => ~Touches(bs[j], k)
        PROVE  WriteLeads(w, l, k, v, n[k])
    <3>1. i \in DOMAIN w /\ Bears(w[i], l, k) /\ w[i].body.version = n[k]
      BY <2>2, <1>1, <1>3, <1>4
    <3>2. \A j \in DOMAIN w : j > i => ~Bears(w[j], l, k)
      BY <2>2, <1>1, <1>3, <1>4, <1>5
    <3> QED
      BY <3>1, <3>2 DEF WriteLeads
  <2> QED
    BY <2>1, <2>2 DEF Owes, Leads
<1>7. n[k] \in Nat /\ v <= n[k]
  BY DEF Versions, Owes, Ascends
<1> QED
  BY <1>6, <1>7, OwesNothing DEF WrittenAs

\* The write that is popped for a lane, by what is in the uplink.
LEMMA WriteForCases ==
  ASSUME NEW l \in AllLanes, NEW up \in UplinkRecords
  PROVE  LET bs == up.backpressure
             d == up.send_synced
             w == WriteFor(l, up)
             rest == Popped(l, up).backpressure
         IN  \/ d = NotLinked /\ w = <<EventNote(l, PrepareWrite(bs))>> /\ rest = Prepared(bs)
             \/ d # NotLinked /\ l \in MapLanes /\ w = MapSynced(l, up) /\ rest = <<>>
             \/ d # NotLinked /\ l \in SupplyLanes /\ bs = <<>> /\ w = <<Synced(l, d)>> /\ rest = <<>>
             \/ /\ d # NotLinked /\ l \notin MapLanes /\ ~(l \in SupplyLanes /\ bs = <<>>)
                /\ w = <<EventNote(l, PrepareWrite(bs)), Synced(l, d)>> /\ rest = Prepared(bs)
<1>1. l \in SupplyLanes => l \notin MapLanes
  BY LanesAssumption
<1> DEFINE bs == up.backpressure
           d == up.send_synced
<1>2. bs = <<>> => Prepared(bs) = <<>>
  BY DEF Prepared
<1>3. Popped(l, up).backpressure = IF l \in MapLanes /\ d # NotLinked THEN <<>> ELSE Prepared(bs)
  BY DEF Popped
<1> HIDE DEF bs, d
<1>4. CASE d = NotLinked
  <2>1. WriteFor(l, up) = <<EventNote(l, PrepareWrite(bs))>>
    BY <1>4 DEF WriteFor, bs, d
  <2> QED
    BY <2>1, <1>3, <1>4 DEF bs, d
<1>5. CASE d # NotLinked /\ l \in MapLanes
  <2>1. WriteFor(l, up) = MapSynced(l, up)
    BY <1>1, <1>5 DEF WriteFor, d
  <2> QED
    BY <2>1, <1>3, <1>5 DEF bs, d
<1>6. CASE d # NotLinked /\ l \in SupplyLanes /\ bs = <<>>
  <2>1. WriteFor(l, up) = <<Synced(l, d)>>
    BY <1>1, <1>6 DEF WriteFor, bs, d
  <2> QED
    BY <2>1, <1>1, <1>2, <1>3, <1>6 DEF bs, d
<1>7. CASE d # NotLinked /\ l \notin MapLanes /\ ~(l \in SupplyLanes /\ bs = <<>>)
  <2>1. WriteFor(l, up) = <<EventNote(l, PrepareWrite(bs)), Synced(l, d)>>
    BY <1>7 DEF WriteFor, bs, d
  <2> QED
    BY <2>1, <1>3, <1>7 DEF bs, d
<1> QED
  BY <1>4, <1>5, <1>6, <1>7

LEMMA PoppedFacts ==
  ASSUME NEW l \in AllLanes, NEW up \in UplinkRecords
  PROVE  /\ Popped(l, up) \in UplinkRecords /\ Popped(l, up).send_synced = NotLinked
         /\ Popped(l, up).queued <=> Popped(l, up).backpressure # <<>>
<1>1. up.backpressure \in Seq(Bodies)
  BY DEF UplinkRecords
<1>2. Prepared(up.backpressure) \in Seq(Bodies)
  BY <1>1 DEF Prepared
<1>3. Popped(l, up).backpressure \in Seq(Bodies)
  BY <1>2 DEF Popped
<1>4. NotLinked \in Dues
  BY DEF Dues
<1> DEFINE rest == Popped(l, up).backpressure
<1>5. Popped(l, up) = [queued |-> rest # <<>>, send_synced |-> NotLinked, backpressure |-> rest]
  BY DEF Popped
<1>6. (rest # <<>>) \in BOOLEAN
  OBVIOUS
<1> HIDE DEF rest
<1>7. [queued |-> rest # <<>>, send_synced |-> NotLinked, backpressure |-> rest] \in UplinkRecords
  BY <1>3, <1>4, <1>6 DEF UplinkRecords, rest
<1>8. Popped(l, up).send_synced = NotLinked
  BY DEF Popped
<1>9. Popped(l, up).queued = (rest # <<>>)
  BY <1>5
<1> QED
  BY <1>5, <1>7, <1>8, <1>9 DEF rest

\* A map lane writes its backlog and then synced.
LEMMA MapSyncedIs ==
  ASSUME NEW l \in AllLanes, NEW up \in UplinkRecords
  PROVE  LET bs == up.backpressure
             w == MapSynced(l, up)
         IN  /\ DOMAIN w = 1..(Len(bs) + 1) /\ Len(bs) \in Nat
             /\ \A i \in 1..Len(bs) : w[i] = EventNote(l, bs[i]) /\ bs[i] \in Bodies
             /\ w[Len(bs) + 1] = Synced(l, up.send_synced)
<1> DEFINE bs == up.backpressure
           w == MapSynced(l, up)
           d == up.send_synced
           e == [i \in DOMAIN bs |-> EventNote(l, bs[i])]
<1>1. bs \in Seq(Bodies)
  BY DEF UplinkRecords
<1>2. DOMAIN bs = 1..Len(bs) /\ Len(bs) \in Nat
  BY <1>1
<1>3. e \in Seq({EventNote(l, b) : b \in Bodies}) /\ Len(e) = Len(bs)
      /\ \A i \in 1..Len(bs) : e[i] = EventNote(l, bs[i])
  BY <1>1, <1>2
<1>4. w = e \o <<Synced(l, d)>>
  BY DEF MapSynced
<1> HIDE DEF e, w
<1>5. ASSUME NEW S, NEW q \in Seq(S), NEW T, NEW a \in T
      PROVE  /\ DOMAIN (q \o <<a>>) = 1..(Len(q) + 1)
             /\ \A i \in 1..Len(q) : (q \o <<a>>)[i] = q[i]
             /\ (q \o <<a>>)[Len(q) + 1] = a
  OBVIOUS
<1>6. /\ DOMAIN (e \o <<Synced(l, d)>>) = 1..(Len(e) + 1)
      /\ \A i \in 1..Len(e) : (e \o <<Synced(l, d)>>)[i] = e[i]
      /\ (e \o <<Synced(l, d)>>)[Len(e) + 1] = Synced(l, d)
  BY <1>3, <1>5
<1>7. /\ DOMAIN w = 1..(Len(bs) + 1)
      /\ \A i \in 1..Len(bs) : w[i] = EventNote(l, bs[i])
      /\ w[Len(bs) + 1] = Synced(l, d)
  BY <1>3, <1>4, <1>6
<1> QED
  BY <1>1, <1>2, <1>7 DEF w

\* Its notes are of the lane, and its synced message is the one that waited.
LEMMA WriteForNotes ==
  ASSUME NEW l \in AllLanes, NEW up \in UplinkRecords
  PROVE  /\ WriteOf(WriteFor(l, up), l)
         /\ \A i \in DOMAIN WriteFor(l, up) : WriteFor(l, up)[i].type = "Synced" =>
              up.send_synced # NotLinked /\ WriteFor(l, up)[i].due = up.send_synced
<1> DEFINE bs == up.backpressure
           d == up.send_synced
           w == WriteFor(l, up)
<1>1. \A b : EventNote(l, b).type = "Event" /\ EventNote(l, b).lane = l
  BY DEF EventNote
<1>2. Synced(l, d).type = "Synced" /\ Synced(l, d).lane = l /\ Synced(l, d).due = d
  BY DEF Synced
<1> HIDE DEF d
<1>3. CASE w = <<EventNote(l, PrepareWrite(bs))>>
  <2>1. DOMAIN w = {1} /\ w[1] = EventNote(l, PrepareWrite(bs))
    BY <1>3
  <2> HIDE DEF w
  <2> QED
    BY <2>1, <1>1 DEF WriteOf, w
<1>4. CASE d # NotLinked /\ w = <<Synced(l, d)>>
  <2>1. DOMAIN w = {1} /\ w[1] = Synced(l, d)
    BY <1>4
  <2> HIDE DEF w
  <2> QED
    BY <2>1, <1>2, <1>4 DEF WriteOf, w, d
<1>5. CASE d # NotLinked /\ w = <<EventNote(l, PrepareWrite(bs)), Synced(l, d)>>
  <2>1. DOMAIN w = {1, 2} /\ w[1] = EventNote(l, PrepareWrite(bs)) /\ w[2] = Synced(l, d)
    BY <1>5
  <2> HIDE DEF w
  <2> QED
    BY <2>1, <1>1, <1>2, <1>5 DEF WriteOf, w, d
<1>6. CASE d # NotLinked /\ w = MapSynced(l, up)
  <2>1. Len(bs) \in Nat
    BY DEF UplinkRecords
  <2>7. /\ DOMAIN w = 1..(Len(bs) + 1)
        /\ \A i \in 1..Len(bs) : w[i] = EventNote(l, bs[i])
        /\ w[Len(bs) + 1] = Synced(l, d)
    BY <1>6, MapSyncedIs DEF d
  <2>8. \A i \in DOMAIN w : i \in 1..Len(bs) \/ i = Len(bs) + 1
    BY <2>1, <2>7
  <2>9. \A i \in DOMAIN w : w[i].type \in {"Event", "Synced"} /\ w[i].lane = l
    BY <2>7, <2>8, <1>1, <1>2
  <2>10. \A i \in DOMAIN w : w[i].type = "Synced" => w[i].due = d
    BY <2>7, <2>8, <1>1, <1>2
  <2>11. DOMAIN w \subseteq Nat
    BY <2>1, <2>7
  <2> QED
    BY <2>9, <2>10, <2>11, <1>6 DEF WriteOf, w, d
<1> HIDE DEF w, bs
<1> QED
  BY <1>3, <1>4, <1>5, <1>6, WriteForCases DEF w, bs, d

\* For one key, what it brings and what it leaves.
LEMMA WriteForLeads ==
  ASSUME NEW l \in AllLanes, NEW up \in UplinkRecords, NEW k \in KeysOf(l), NEW v \in Nat,
         NEW n \in Versions(l), Owes(l, up.backpressure, k, v, n)
  PROVE  \E x \in Nat :
           /\ WrittenAs(l, WriteFor(l, up), Popped(l, up).backpressure, k, v, n, x)
           /\ up.send_synced # NotLinked /\ l \notin SupplyLanes => x = n[k]
<1> DEFINE bs == up.backpressure
           d == up.send_synced
           w == WriteFor(l, up)
           rest == Popped(l, up).backpressure
<1>1. bs \in Seq(Bodies) /\ Owes(l, bs, k, v, n)
  BY DEF UplinkRecords
<1>2. \/ d = NotLinked /\ w = <<EventNote(l, PrepareWrite(bs))>> /\ rest = Prepared(bs)
      \/ d # NotLinked /\ l \in MapLanes /\ w = MapSynced(l, up) /\ rest = <<>>
      \/ d # NotLinked /\ l \in SupplyLanes /\ bs = <<>> /\ w = <<Synced(l, d)>> /\ rest = <<>>
      \/ /\ d # NotLinked /\ l \notin MapLanes
         /\ w = <<EventNote(l, PrepareWrite(bs)), Synced(l, d)>> /\ rest = Prepared(bs)
  BY WriteForCases
<1>3. MapSynced(l, up) = [i \in DOMAIN bs |-> EventNote(l, bs[i])] \o <<Synced(l, d)>>
  BY DEF MapSynced
<1> HIDE DEF bs, d, w, rest
<1> SUFFICES \E x \in Nat : WrittenAs(l, w, rest, k, v, n, x) /\ (d # NotLinked /\ l \notin SupplyLanes => x = n[k])
  BY DEF w, rest, d
<1>4. CASE d = NotLinked /\ w = <<EventNote(l, PrepareWrite(bs))>> /\ rest = Prepared(bs)
  BY <1>1, <1>4, WrittenFirst
<1>5. CASE d # NotLinked /\ l \in MapLanes /\ w = MapSynced(l, up) /\ rest = <<>>
  <2>1. l \notin SupplyLanes /\ n[k] \in Nat
    BY <1>5, LanesAssumption DEF Versions
  <2> QED
    BY <2>1, <1>1, <1>3, <1>5, WrittenAll
<1>6. CASE d # NotLinked /\ l \in SupplyLanes /\ bs = <<>> /\ w = <<Synced(l, d)>> /\ rest = <<>>
  <2>1. DOMAIN w = {1} /\ w[1] = Synced(l, d)
    BY <1>6
  <2>2. \A i \in DOMAIN w : ~Bears(w[i], l, k)
    BY <2>1, BearsFacts
  <2>3. WriteLeads(w, l, k, v, v)
    BY <2>2 DEF WriteLeads
  <2> QED
    BY <2>3, <1>1, <1>6 DEF WrittenAs
<1>7. CASE /\ d # NotLinked /\ l \notin MapLanes
           /\ w = <<EventNote(l, PrepareWrite(bs)), Synced(l, d)>> /\ rest = Prepared(bs)
  <2>1. PICK x \in Nat : WrittenAs(l, w, rest, k, v, n, x)
    BY <1>1, <1>7, WrittenFirst
  <2>2. l \in ValueLanes => x = n[k]
    <3> SUFFICES ASSUME l \in ValueLanes
                 PROVE  x = n[k]
      OBVIOUS
    <3>1. Len(bs) <= 1
      BY <1>1 DEF Owes, ShapeOf
    <3>2. rest = <<>>
      BY <3>1, <1>1, <1>7 DEF Prepared
    <3> QED
      BY <2>1, <3>2, OwesNothing DEF WrittenAs
  <2> QED
    BY <2>1, <2>2, <1>7 DEF AllLanes
<1> QED
  BY <1>2, <1>4, <1>5, <1>6, <1>7

\* And for all of them.
LEMMA WriteForBrings ==
  ASSUME NEW l \in AllLanes, NEW up \in UplinkRecords, NEW v \in Versions(l), NEW n \in Versions(l),
         \A k \in KeysOf(l) : Owes(l, up.backpressure, k, v[k], n)
  PROVE  \E f \in Versions(l) :
           /\ Received(v, WriteFor(l, up), l) = f
           /\ \A k \in KeysOf(l) :
                /\ Owes(l, Popped(l, up).backpressure, k, f[k], n)
                /\ v[k] <= f[k]
                /\ l \in SupplyLanes /\ v[k] > 0 => f[k] <= v[k] + 1
                /\ up.send_synced # NotLinked /\ l \notin SupplyLanes => f[k] = n[k]
<1> DEFINE w == WriteFor(l, up)
           rest == Popped(l, up).backpressure
           P(k, x) == /\ WrittenAs(l, w, rest, k, v[k], n, x)
                      /\ up.send_synced # NotLinked /\ l \notin SupplyLanes => x = n[k]
           f == [k \in KeysOf(l) |-> CHOOSE x \in Nat : P(k, x)]
<1>1. \A k \in KeysOf(l) : v[k] \in Nat
  BY DEF Versions
<1>2. \A k \in KeysOf(l) : \E x \in Nat : P(k, x)
  BY <1>1, WriteForLeads
<1> HIDE DEF P
<1>3. \A k \in KeysOf(l) : f[k] \in Nat /\ P(k, f[k])
  BY <1>2
<1>4. f \in Versions(l)
  BY <1>3 DEF Versions
<1> HIDE DEF f
<1>5. \A k \in KeysOf(l) : WriteLeads(w, l, k, v[k], f[k])
  BY <1>3 DEF P, WrittenAs
<1>6. Received(v, w, l) = f
  <2>1. WriteOf(w, l)
    BY WriteForNotes
  <2> HIDE DEF w
  <2> QED
    BY <2>1, <1>4, <1>5, ReceivedWrite
<1> QED
  BY <1>3, <1>4, <1>6 DEF P, WrittenAs

-----------------------------------------------------------------------------
\* Queues with one more message.
LEMMA AppendFacts ==
  ASSUME NEW S, NEW q \in Seq(S), NEW a \in S
  PROVE  /\ Append(q, a) \in Seq(S) /\ Append(q, a) # <<>>
         /\ DOMAIN q \subseteq Nat
         /\ \A i \in DOMAIN q : i \in DOMAIN Append(q, a) /\ Append(q, a)[i] = q[i] /\ i < Len(q) + 1
         /\ Len(q) + 1 \in DOMAIN Append(q, a) /\ Append(q, a)[Len(q) + 1] = a /\ Len(q) + 1 \in Nat
         /\ \A i \in DOMAIN Append(q, a) : i \in DOMAIN q \/ i = Len(q) + 1
  OBVIOUS

LEMMA TailFacts ==
  ASSUME NEW S, NEW q \in Seq(S), q # <<>>
  PROVE  /\ Tail(q) \in Seq(S) /\ Head(q) \in S /\ Head(q) = q[1] /\ 1 \in DOMAIN q
         /\ \A i \in DOMAIN Tail(q) : i \in Nat /\ i >= 1 /\ i + 1 \in DOMAIN q /\ Tail(q)[i] = q[i + 1]
         /\ \A i \in DOMAIN q : i \in Nat /\ (i = 1 \/ (i > 1 /\ i - 1 \in DOMAIN Tail(q) /\ q[i] = Tail(q)[i - 1]))
  OBVIOUS

LEMMA SpecialsFacts ==
  /\ \A l \in AllLanes : /\ LinkedNote(l) \in Specials /\ LinkedNote(l).type = "Linked" /\ LinkedNote(l).lane = l
                         /\ UnlinkedNote(l) \in Specials /\ UnlinkedNote(l).type = "Unlinked"
                         /\ UnlinkedNote(l).lane = l
  /\ LaneNotFound \in Specials /\ LaneNotFound.type = "LaneNotFound"
  /\ \A n \in Specials : n.type \in {"Linked", "Unlinked", "LaneNotFound"}
  BY DEF Specials, LinkedNote, UnlinkedNote, LaneNotFound

\* What a message at the end of the queue does to the link of a lane.
LEMMA LinkingAppend ==
  ASSUME NEW q \in Seq(Specials), NEW n \in Specials, NEW m \in AllLanes, NEW v
  PROVE  /\ Linking(Append(q, n), v, m) <=>
              IF IsLink(n, m) THEN n.type = "Linked" ELSE Linking(q, v, m)
         /\ Has(Append(q, n), "Unlinked", m) <=>
              Has(q, "Unlinked", m) \/ (n.type = "Unlinked" /\ n.lane = m)
<1> DEFINE p == Append(q, n)
           z == Len(q) + 1
<1>1. /\ DOMAIN q \subseteq Nat /\ z \in Nat
      /\ \A i \in DOMAIN q : i \in DOMAIN p /\ p[i] = q[i] /\ i < z
      /\ z \in DOMAIN p /\ p[z] = n
      /\ \A i \in DOMAIN p : i \in DOMAIN q \/ i = z
  BY AppendFacts
<1> HIDE DEF p, z
<1>2. Has(p, "Unlinked", m) <=> Has(q, "Unlinked", m) \/ (n.type = "Unlinked" /\ n.lane = m)
  BY <1>1 DEF Has
<1>3. CASE IsLink(n, m)
  <2>1. Mentions(p, m)
    BY <1>1, <1>3 DEF Mentions
  <2>2. LastLinked(p, m) <=> n.type = "Linked"
    BY <1>1, <1>3 DEF LastLinked, IsLink
  <2> QED
    BY <2>1, <2>2, <1>2, <1>3 DEF Linking, p
<1>4. CASE ~IsLink(n, m)
  <2>1. Mentions(p, m) <=> Mentions(q, m)
    BY <1>1, <1>4 DEF Mentions
  <2>2. LastLinked(p, m) <=> LastLinked(q, m)
    BY <1>1, <1>4 DEF LastLinked, IsLink
  <2> QED
    BY <2>1, <2>2, <1>2, <1>4 DEF Linking, p
<1> QED
  BY <1>3, <1>4

\* And what the first message of the queue does, when it is written.
LEMMA LinkingTail ==
  ASSUME NEW q \in Seq(Specials), q # <<>>, NEW m \in AllLanes, NEW v \in Versions(m) \cup {NotLinked}
  PROVE  LET w == Received(v, <<Head(q)>>, m)
         IN  /\ Linking(Tail(q), w, m) <=> Linking(q, v, m)
             /\ \A k \in KeysOf(m) : Base(Tail(q), w, m, k) = Base(q, v, m, k)
             /\ w \in Versions(m) \cup {NotLinked}
<1> DEFINE h == Head(q)
           t == Tail(q)
           w == Received(v, <<h>>, m)
<1>1. /\ h \in Specials /\ h = q[1] /\ 1 \in DOMAIN q
      /\ \A i \in DOMAIN t : i \in Nat /\ i >= 1 /\ i + 1 \in DOMAIN q /\ t[i] = q[i + 1]
      /\ \A i \in DOMAIN q : i \in Nat /\ (i = 1 \/ (i > 1 /\ i - 1 \in DOMAIN t /\ q[i] = t[i - 1]))
  BY TailFacts
<1> HIDE DEF h, t
<1>2. w = IF IsLink(h, m)
            THEN IF h.type = "Unlinked" THEN NotLinked ELSE IF v = NotLinked THEN Nothing(m) ELSE v
            ELSE v
  BY <1>1, ReceivedLink
<1> HIDE DEF w
<1>3. NotLinked \notin Versions(m) /\ Nothing(m) \in Versions(m) /\ \A k \in KeysOf(m) : Nothing(m)[k] = 0
  BY KeysFacts
<1>4. Mentions(q, m) <=> IsLink(h, m) \/ Mentions(t, m)
  BY <1>1 DEF Mentions
<1>5. LastLinked(q, m) <=> LastLinked(t, m) \/ (~Mentions(t, m) /\ IsLink(h, m) /\ h.type = "Linked")
  <2>1. ASSUME LastLinked(q, m)
        PROVE  LastLinked(t, m) \/ (~Mentions(t, m) /\ IsLink(h, m) /\ h.type = "Linked")
    <3>1. PICK i \in DOMAIN q : /\ q[i].type = "Linked" /\ q[i].lane = m
                                /\ \A j \in DOMAIN q : j > i => ~IsLink(q[j], m)
      BY <2>1 DEF LastLinked
    <3>2. CASE i = 1
      BY <3>1, <3>2, <1>1 DEF Mentions, IsLink
    <3>3. CASE i # 1
      <4>1. i - 1 \in DOMAIN t /\ t[i - 1] = q[i] /\ i \in Nat
        BY <3>3, <1>1
      <4>2. \A j \in DOMAIN t : j > i - 1 => ~IsLink(t[j], m)
        <5> SUFFICES ASSUME NEW j \in DOMAIN t, j > i - 1
                     PROVE  ~IsLink(t[j], m)
          OBVIOUS
        <5>1. j + 1 \in DOMAIN q /\ j + 1 > i /\ t[j] = q[j + 1]
          BY <1>1, <4>1
        <5> QED
          BY <5>1, <3>1
      <4> QED
        BY <4>1, <4>2, <3>1 DEF LastLinked
    <3> QED
      BY <3>2, <3>3
  <2>2. ASSUME LastLinked(t, m)
        PROVE  LastLinked(q, m)
    <3>1. PICK i \in DOMAIN t : /\ t[i].type = "Linked" /\ t[i].lane = m
                                /\ \A j \in DOMAIN t : j > i => ~IsLink(t[j], m)
      BY <2>2 DEF LastLinked
    <3>2. i + 1 \in DOMAIN q /\ q[i + 1] = t[i] /\ i \in Nat
      BY <1>1
    <3>3. \A j \in DOMAIN q : j > i + 1 => ~IsLink(q[j], m)
      <4> SUFFICES ASSUME NEW j \in DOMAIN q, j > i + 1
                   PROVE  ~IsLink(q[j], m)
        OBVIOUS
      <4>1. j - 1 \in DOMAIN t /\ j - 1 > i /\ q[j] = t[j - 1]
        BY <1>1, <3>2
      <4> QED
        BY <4>1, <3>1
    <3> QED
      BY <3>1, <3>2, <3>3 DEF LastLinked
  <2>3. ASSUME ~Mentions(t, m), IsLink(h, m), h.type = "Linked"
        PROVE  LastLinked(q, m)
    <3>1. \A j \in DOMAIN q : j > 1 => ~IsLink(q[j], m)
      <4> SUFFICES ASSUME NEW j \in DOMAIN q, j > 1
                   PROVE  ~IsLink(q[j], m)
        OBVIOUS
      <4>1. j - 1 \in DOMAIN t /\ q[j] = t[j - 1]
        BY <1>1
      <4> QED
        BY <4>1, <2>3 DEF Mentions
    <3> QED
      BY <3>1, <2>3, <1>1 DEF LastLinked, IsLink
  <2> QED
    BY <2>1, <2>2, <2>3
<1>6. Has(q, "Unlinked", m) <=> (h.type = "Unlinked" /\ h.lane = m) \/ Has(t, "Unlinked", m)
  BY <1>1 DEF Has
<1>7. LastLinked(t, m) => Mentions(t, m)
  BY DEF LastLinked, Mentions, IsLink
<1>8. Linking(t, w, m) <=> Linking(q, v, m)
  BY <1>2, <1>3, <1>4, <1>5, <1>7 DEF Linking, IsLink
<1>9. \A k \in KeysOf(m) : Base(t, w, m, k) = Base(q, v, m, k)
  BY <1>2, <1>3, <1>6 DEF Base, IsLink
<1> QED
  BY <1>2, <1>3, <1>8, <1>9 DEF t, w, h

-----------------------------------------------------------------------------
\* While the writer is home nothing waits, and the remote has what was pushed.
LEMMA HomeFacts ==
  ASSUME NEW x, StructOK(x), x.writer = Home, NEW L, NEW l \in AllLanes,
         NEW s \in Versions(l), NEW v \in Versions(l) \cup {NotLinked}, Good(x, L, l, s, v)
  PROVE  /\ After(x, v, l) = v /\ x.special_queue = <<>> /\ x.write_queue = <<>>
         /\ ~Waits(x, l) /\ ~Counted(x, l) /\ Backlog(x, l) = <<>> /\ Due(x, l) = NotLinked
         /\ l \in L <=> v # NotLinked
         /\ v = IF l \in L THEN s ELSE NotLinked
         /\ l \notin L => s = Nothing(l)
<1>1. x.special_queue = <<>> /\ x.write_queue = <<>>
  BY DEF StructOK
<1>2. ~Waits(x, l) /\ ~Counted(x, l) /\ Backlog(x, l) = <<>> /\ Due(x, l) = NotLinked
  BY <1>1 DEF Waits, Good, Queued
<1>3. After(x, v, l) = v
  <2>1. SaysNothing(<<>>, l)
    BY DEF SaysNothing, Has
  <2> QED
    BY <2>1, ReceivedNothing DEF After, Home
<1>4. l \in L <=> v # NotLinked
  BY <1>1, <1>3 DEF Good, Exact, Linking, LastLinked, Mentions
<1>5. CASE v # NotLinked
  <2>1. \A k \in KeysOf(l) : v[k] \in Nat /\ Owes(l, <<>>, k, v[k], s)
    BY <1>1, <1>2, <1>3, <1>5 DEF Good, Exact, Base, Has, Versions
  <2>2. \A k \in KeysOf(l) : v[k] = s[k]
    BY <2>1, OwesNothing
  <2>3. v = s
    BY <2>2, <1>5 DEF Versions
  <2> QED
    BY <1>1, <1>2, <1>3, <1>4, <1>5, <2>3
<1>6. CASE v = NotLinked
  BY <1>1, <1>2, <1>3, <1>4, <1>6 DEF Good, Exact
<1> QED
  BY <1>5, <1>6

\* What a link message leaves of the struct.
LEMMA PushSpecialIs ==
  ASSUME NEW x, StructOK(x), NEW a \in Specials
  PROVE  LET y == PushSpecial(x, a)
         IN  /\ StructOK(y) /\ y.write_queue = x.write_queue /\ y.writer # Home
             /\ x.writer = Home =>
                  y.writer = <<a>> /\ y.uplinks = x.uplinks /\ y.special_queue = x.special_queue
             /\ x.writer # Home =>
                  /\ y.writer = x.writer /\ y.uplinks = PurgeOnUnlink(x, a)
                  /\ y.special_queue = Append(x.special_queue, a)
<1> DEFINE y == PushSpecial(x, a)
<1>1. /\ x = [writer |-> x.writer, uplinks |-> x.uplinks,
              write_queue |-> x.write_queue, special_queue |-> x.special_queue]
      /\ x.uplinks \in [AllLanes -> UplinkRecords \cup {NoUplink}]
      /\ x.write_queue \in Seq(AllLanes) /\ x.special_queue \in Seq(Specials)
      /\ OfLanes(x.writer)
  BY DEF StructOK
<1>2. <<a>> # Home /\ OfLanes(<<a>>)
  BY SpecialsFacts DEF Home, OfLanes
<1>3. CASE x.writer = Home
  <2>1. y = [writer |-> <<a>>, uplinks |-> x.uplinks,
             write_queue |-> x.write_queue, special_queue |-> x.special_queue]
    BY <1>1, <1>3 DEF PushSpecial
  <2> HIDE DEF y
  <2>2. /\ y.writer = <<a>> /\ y.uplinks = x.uplinks
        /\ y.write_queue = x.write_queue /\ y.special_queue = x.special_queue
    BY <2>1
  <2>3. StructOK(y)
    BY <2>1, <2>2, <1>1, <1>2 DEF StructOK
  <2> QED
    BY <2>2, <2>3, <1>2, <1>3 DEF y
<1>4. CASE x.writer # Home
  <2>1. y = [writer |-> x.writer, uplinks |-> PurgeOnUnlink(x, a),
             write_queue |-> x.write_queue, special_queue |-> Append(x.special_queue, a)]
    BY <1>1, <1>4 DEF PushSpecial
  <2>2. PurgeOnUnlink(x, a) \in [AllLanes -> UplinkRecords \cup {NoUplink}]
    BY <1>1 DEF PurgeOnUnlink
  <2>3. Append(x.special_queue, a) \in Seq(Specials)
    BY <1>1
  <2> HIDE DEF y
  <2>4. /\ y.writer = x.writer /\ y.uplinks = PurgeOnUnlink(x, a)
        /\ y.write_queue = x.write_queue /\ y.special_queue = Append(x.special_queue, a)
    BY <2>1
  <2>5. StructOK(y)
    BY <2>1, <2>2, <2>3, <2>4, <1>1, <1>4 DEF StructOK
  <2> QED
    BY <2>4, <2>5, <1>4 DEF y
<1> QED
  BY <1>3, <1>4

\* The links, and what was sent, after a link message.
LinksAfter(L, a) ==
  IF a.type = "Linked" THEN L \cup {a.lane} ELSE IF a.type = "Unlinked" THEN L \ {a.lane} ELSE L
SentAfter(s, a, m) == IF a.type = "Unlinked" /\ a.lane = m THEN Nothing(m) ELSE s

LEMMA PushSpecialKeeps ==
  ASSUME NEW x, StructOK(x), NEW a \in Specials, NEW L, NEW m \in AllLanes,
         NEW s \in Versions(m), NEW v \in Versions(m) \cup {NotLinked}, Good(x, L, m, s, v)
  PROVE  Good(PushSpecial(x, a), LinksAfter(L, a), m, SentAfter(s, a, m), v)
<1> DEFINE y == PushSpecial(x, a)
           L2 == LinksAfter(L, a)
           s2 == SentAfter(s, a, m)
<1>1. /\ StructOK(y) /\ y.write_queue = x.write_queue
      /\ x.writer = Home =>
           y.writer = <<a>> /\ y.uplinks = x.uplinks /\ y.special_queue = x.special_queue
      /\ x.writer # Home =>
           /\ y.writer = x.writer /\ y.uplinks = PurgeOnUnlink(x, a)
           /\ y.special_queue = Append(x.special_queue, a)
  BY PushSpecialIs
<1>2. a.type \in {"Linked", "Unlinked", "LaneNotFound"}
  BY SpecialsFacts
<1>3. m \in L2 <=> IF IsLink(a, m) THEN a.type = "Linked" ELSE m \in L
  BY <1>2 DEF LinksAfter, IsLink
<1>4. s2 = IF IsLink(a, m) /\ a.type = "Unlinked" THEN Nothing(m) ELSE s
  BY DEF SentAfter, IsLink
<1>5. NotLinked \notin Versions(m) /\ Nothing(m) \in Versions(m) /\ \A k \in KeysOf(m) : Nothing(m)[k] = 0
  BY KeysFacts
<1> HIDE DEF y, L2, s2
<1>6. CASE x.writer = Home
  <2>1. /\ After(x, v, m) = v /\ x.special_queue = <<>> /\ x.write_queue = <<>>
        /\ Backlog(x, m) = <<>> /\ Due(x, m) = NotLinked /\ ~Counted(x, m)
        /\ m \in L <=> v # NotLinked
        /\ v = IF m \in L THEN s ELSE NotLinked
        /\ m \notin L => s = Nothing(m)
    BY <1>6, HomeFacts
  <2>2. /\ Backlog(y, m) = <<>> /\ Due(y, m) = NotLinked /\ ~Counted(y, m) /\ ~Waits(y, m)
        /\ y.special_queue = <<>> /\ y.writer = <<a>>
    BY <2>1, <1>1, <1>6 DEF Backlog, Due, Counted, Waits
  <2>3. After(y, v, m) = IF IsLink(a, m)
                           THEN IF a.type = "Unlinked" THEN NotLinked
                                ELSE IF v = NotLinked THEN Nothing(m) ELSE v
                           ELSE v
    BY <2>2, ReceivedLink DEF After
  <2>4. After(y, v, m) = IF m \in L2 THEN s2 ELSE NotLinked
    BY <2>1, <2>3, <1>2, <1>3, <1>4, <1>5 DEF IsLink
  <2>5. s2 \in Versions(m) /\ (m \notin L2 => s2 = Nothing(m))
    BY <2>1, <1>2, <1>3, <1>4, <1>5 DEF IsLink
  <2>6. Queued(y, L2, m) /\ DueIsPushed(y, m, s2)
    BY <2>2 DEF Queued, DueIsPushed
  <2>7. Exact(y, L2, m, s2, v)
    <3>1. m \in L2 <=> Linking(y.special_queue, After(y, v, m), m)
      BY <2>2, <2>4, <2>5, <1>5 DEF Linking, LastLinked, Mentions
    <3>2. ASSUME NEW k \in KeysOf(m)
          PROVE  Owes(m, Backlog(y, m), k, Base(y.special_queue, After(y, v, m), m, k), s2)
      <4>1. Base(y.special_queue, After(y, v, m), m, k) = s2[k]
        BY <2>2, <2>4, <2>5, <1>5 DEF Base, Has
      <4>2. s2[k] \in Nat
        BY <2>5 DEF Versions
      <4> QED
        BY <4>1, <4>2, <2>2, <2>5, OwesNothing
    <3> QED
      BY <3>1, <3>2, <2>4, <2>5 DEF Exact
  <2>8. WithinLink(y, m, v) /\ SyncedInTime(y, m, v)
    <3>1. DOMAIN y.writer = {1} /\ y.writer[1] = a
      BY <2>2
    <3> QED
      BY <3>1, <1>2 DEF WithinLink, SyncedInTime
  <2>9. InOrder(y, m, v)
    <3>1. After(y, v, m) # NotLinked /\ v # NotLinked => After(y, v, m) = v
      BY <2>3
    <3>2. v # NotLinked => \A k \in KeysOf(m) : v[k] \in Nat
      BY DEF Versions
    <3> QED
      BY <3>1, <3>2 DEF InOrder
  <2> QED
    BY <2>6, <2>7, <2>8, <2>9 DEF Good, y, L2, s2
<1>7. CASE x.writer # Home
  <2>1. y.writer = x.writer /\ y.special_queue = Append(x.special_queue, a) /\ y.write_queue = x.write_queue
    BY <1>1, <1>7
  <2>2. x.special_queue \in Seq(Specials) /\ x.uplinks \in [AllLanes -> UplinkRecords \cup {NoUplink}]
    BY DEF StructOK
  <2>3. After(y, v, m) = After(x, v, m) /\ (Waits(y, m) <=> Waits(x, m))
    BY <2>1 DEF After, Waits
  <2>4. y.uplinks[m] = IF IsLink(a, m) /\ a.type = "Unlinked" THEN NoUplink ELSE x.uplinks[m]
    BY <2>2, <1>1, <1>7 DEF PurgeOnUnlink, IsLink
  <2>5. WithinLink(y, m, v) /\ SyncedInTime(y, m, v) /\ InOrder(y, m, v)
    BY <2>1, <2>3 DEF Good, WithinLink, SyncedInTime, InOrder
  <2>6. /\ Linking(y.special_queue, After(x, v, m), m) <=>
             IF IsLink(a, m) THEN a.type = "Linked" ELSE Linking(x.special_queue, After(x, v, m), m)
        /\ Has(y.special_queue, "Unlinked", m) <=>
             Has(x.special_queue, "Unlinked", m) \/ (a.type = "Unlinked" /\ a.lane = m)
    BY <2>1, <2>2, LinkingAppend
  <2>7. m \in L2 <=> Linking(y.special_queue, After(y, v, m), m)
    BY <2>3, <2>6, <1>3 DEF Good, Exact
  <2>8. CASE IsLink(a, m) /\ a.type = "Unlinked"
    <3>1. /\ Backlog(y, m) = <<>> /\ Due(y, m) = NotLinked /\ ~Counted(y, m) /\ y.uplinks[m] = NoUplink
          /\ s2 = Nothing(m) /\ m \notin L2
      BY <2>4, <2>8, <1>3, <1>4 DEF Backlog, Due, Counted
    <3>2. \A k \in KeysOf(m) : Base(y.special_queue, After(y, v, m), m, k) = 0
      BY <2>6, <2>8 DEF Base, IsLink
    <3>3. \A k \in KeysOf(m) : Owes(m, <<>>, k, 0, Nothing(m))
      BY <1>5, OwesNothing
    <3>4. Exact(y, L2, m, s2, v)
      BY <3>1, <3>2, <3>3, <2>3, <2>7 DEF Good, Exact
    <3>5. Queued(y, L2, m) /\ DueIsPushed(y, m, s2)
      BY <3>1 DEF Queued, DueIsPushed
    <3> QED
      BY <3>4, <3>5, <2>5 DEF Good, y, L2, s2
  <2>9. CASE ~(IsLink(a, m) /\ a.type = "Unlinked")
    <3>1. y.uplinks[m] = x.uplinks[m] /\ s2 = s
      BY <2>4, <2>9, <1>4
    <3>2. Backlog(y, m) = Backlog(x, m) /\ Due(y, m) = Due(x, m) /\ (Counted(y, m) <=> Counted(x, m))
      BY <3>1 DEF Backlog, Due, Counted
    <3>3. m \in L => m \in L2
      BY <2>9, <1>2, <1>3 DEF IsLink
    <3>4. Queued(y, L2, m) /\ DueIsPushed(y, m, s2)
      BY <3>1, <3>2, <3>3, <2>3 DEF Good, Queued, DueIsPushed
    <3>5. \A k \in KeysOf(m) : Base(y.special_queue, After(y, v, m), m, k) = Base(x.special_queue, After(x, v, m), m, k)
      BY <2>3, <2>6, <2>9 DEF Base, IsLink
    <3>6. Exact(y, L2, m, s2, v)
      BY <3>1, <3>2, <3>3, <3>5, <2>3, <2>7 DEF Good, Exact
    <3> QED
      BY <3>4, <3>6, <2>5 DEF Good, y, L2, s2
  <2> QED
    BY <2>8, <2>9
<1> QED
  BY <1>6, <1>7

-----------------------------------------------------------------------------
\* A lane of which nothing has changed.
LEMMA SameLane ==
  ASSUME NEW x, NEW y, NEW L, NEW m \in AllLanes, NEW s \in Versions(m),
         NEW v \in Versions(m) \cup {NotLinked}, Good(x, L, m, s, v),
         y.writer = x.writer, y.special_queue = x.special_queue, y.uplinks[m] = x.uplinks[m],
         Waits(y, m) <=> Waits(x, m)
  PROVE  Good(y, L, m, s, v)
<1>1. /\ Backlog(y, m) = Backlog(x, m) /\ Due(y, m) = Due(x, m) /\ (Counted(y, m) <=> Counted(x, m))
      /\ After(y, v, m) = After(x, v, m)
  BY DEF Backlog, Due, Counted, After
<1>2. Queued(y, L, m) /\ DueIsPushed(y, m, s)
  BY <1>1 DEF Good, Queued, DueIsPushed
<1>3. Exact(y, L, m, s, v)
  BY <1>1 DEF Good, Exact
<1>4. WithinLink(y, m, v) /\ SyncedInTime(y, m, v) /\ InOrder(y, m, v)
  BY <1>1 DEF Good, WithinLink, SyncedInTime, InOrder
<1> QED
  BY <1>2, <1>3, <1>4 DEF Good

\* A write, begun at once or popped, is of another lane.
LEMMA OtherWrite ==
  ASSUME NEW y, NEW L, NEW l \in AllLanes, NEW m \in AllLanes, m # l, NEW s \in Versions(m),
         NEW v \in Versions(m) \cup {NotLinked}, WriteOf(y.writer, l), y.special_queue = <<>>,
         Queued(y, L, m), DueIsPushed(y, m, s),
         m \in L <=> v # NotLinked, m \notin L => s = Nothing(m),
         \A k \in KeysOf(m) : Owes(m, Backlog(y, m), k, IF v = NotLinked THEN 0 ELSE v[k], s)
  PROVE  Good(y, L, m, s, v)
<1>1. After(y, v, m) = v
  BY WriteOfOther, ReceivedNothing DEF After
<1>2. Exact(y, L, m, s, v)
  BY <1>1 DEF Exact, Linking, LastLinked, Mentions, Base, Has
<1>3. \A k \in KeysOf(m) : v # NotLinked => v[k] \in Nat
  BY DEF Versions
<1>4. WithinLink(y, m, v) /\ SyncedInTime(y, m, v)
  BY DEF WriteOf, WithinLink, SyncedInTime
<1>5. InOrder(y, m, v)
  BY <1>1, <1>3 DEF InOrder
<1> QED
  BY <1>2, <1>4, <1>5 DEF Good

\* A write that is begun at once: the other lanes, and its own.
LEMMA AtOnceOther ==
  ASSUME NEW x, StructOK(x), x.writer = Home, NEW L, NEW l \in AllLanes, NEW m \in AllLanes, m # l,
         NEW s \in Versions(m), NEW v \in Versions(m) \cup {NotLinked}, Good(x, L, m, s, v),
         NEW w, WriteOf(w, l)
  PROVE  Good([x EXCEPT !.writer = w], L, m, s, v)
<1> DEFINE y == [x EXCEPT !.writer = w]
<1>1. y.writer = w /\ y.uplinks = x.uplinks /\ y.write_queue = x.write_queue /\ y.special_queue = x.special_queue
  BY DEF StructOK
<1> HIDE DEF y
<1>2. /\ x.special_queue = <<>> /\ x.write_queue = <<>>
      /\ ~Waits(x, m) /\ ~Counted(x, m) /\ Backlog(x, m) = <<>> /\ Due(x, m) = NotLinked
      /\ m \in L <=> v # NotLinked
      /\ v = IF m \in L THEN s ELSE NotLinked
      /\ m \notin L => s = Nothing(m)
  BY HomeFacts
<1>3. Backlog(y, m) = <<>> /\ Due(y, m) = NotLinked /\ ~Counted(y, m) /\ ~Waits(y, m)
  BY <1>1, <1>2 DEF Backlog, Due, Counted, Waits
<1>4. Queued(y, L, m) /\ DueIsPushed(y, m, s)
  BY <1>3 DEF Queued, DueIsPushed
<1>5. \A k \in KeysOf(m) : s[k] \in Nat /\ s[k] = IF v = NotLinked THEN 0 ELSE v[k]
  BY <1>2, KeysFacts DEF Versions
<1>6. \A k \in KeysOf(m) : Owes(m, Backlog(y, m), k, IF v = NotLinked THEN 0 ELSE v[k], s)
  BY <1>3, <1>5, OwesNothing
<1>7. WriteOf(y.writer, l) /\ y.special_queue = <<>>
  BY <1>1, <1>2
<1> QED
  BY <1>2, <1>4, <1>6, <1>7, OtherWrite DEF y

LEMMA AtOnceOwn ==
  ASSUME NEW x, StructOK(x), x.writer = Home, NEW L, NEW l \in L, l \in AllLanes,
         NEW s \in Versions(l), NEW v \in Versions(l) \cup {NotLinked}, Good(x, L, l, s, v),
         NEW w, WriteOf(w, l), NEW f \in Versions(l),
         \A k \in KeysOf(l) : WriteLeads(w, l, k, s[k], f[k]) /\ s[k] <= f[k],
         l \in SupplyLanes => \A k \in KeysOf(l) : s[k] > 0 => f[k] <= s[k] + 1,
         \A i \in DOMAIN w : w[i].type = "Synced" => w[i].due = f
  PROVE  Good([x EXCEPT !.writer = w], L, l, f, v)
<1> DEFINE y == [x EXCEPT !.writer = w]
<1>1. y.writer = w /\ y.uplinks = x.uplinks /\ y.write_queue = x.write_queue /\ y.special_queue = x.special_queue
  BY DEF StructOK
<1> HIDE DEF y
<1>2. /\ x.special_queue = <<>> /\ x.write_queue = <<>>
      /\ ~Waits(x, l) /\ ~Counted(x, l) /\ Backlog(x, l) = <<>> /\ Due(x, l) = NotLinked
      /\ v = s /\ v # NotLinked
  BY HomeFacts
<1>3. Backlog(y, l) = <<>> /\ Due(y, l) = NotLinked /\ ~Counted(y, l) /\ ~Waits(y, l)
  BY <1>1, <1>2 DEF Backlog, Due, Counted, Waits
<1>4. Queued(y, L, l) /\ DueIsPushed(y, l, f)
  BY <1>3 DEF Queued, DueIsPushed
<1>5. After(y, v, l) = f
  BY <1>1, <1>2, ReceivedWrite DEF After
<1>6. f # NotLinked
  BY KeysFacts
<1>7. \A k \in KeysOf(l) : f[k] \in Nat /\ Owes(l, <<>>, k, f[k], f)
  BY OwesNothing DEF Versions
<1>8. Exact(y, L, l, f, v)
  BY <1>1, <1>2, <1>3, <1>5, <1>6, <1>7 DEF Exact, Linking, LastLinked, Mentions, Base, Has
<1>9. WithinLink(y, l, v) /\ InOrder(y, l, v)
  BY <1>2, <1>5 DEF WithinLink, InOrder
<1>10. SyncedInTime(y, l, v)
  BY <1>1, <1>5, <1>6, <1>7 DEF SyncedInTime
<1> QED
  BY <1>4, <1>8, <1>9, <1>10 DEF Good, y

\* The entry of a lane, new or not, and a lane that takes its place.
LEMMA EntryFacts ==
  ASSUME NEW x, StructOK(x), NEW l \in AllLanes
  PROVE  /\ Entry(x, l) \in UplinkRecords
         /\ Entry(x, l).backpressure = Backlog(x, l) /\ Entry(x, l).send_synced = Due(x, l)
         /\ Entry(x, l).queued <=> Counted(x, l)
<1>1. x.uplinks[l] \in UplinkRecords \cup {NoUplink}
  BY DEF StructOK
<1>2. CASE x.uplinks[l] = NoUplink
  <2>1. NewUplink \in UplinkRecords
    BY DEF NewUplink, UplinkRecords, Dues
  <2>2. NewUplink.queued = FALSE /\ NewUplink.send_synced = NotLinked /\ NewUplink.backpressure = <<>>
    BY DEF NewUplink
  <2> QED
    BY <1>2, <2>1, <2>2 DEF Entry, Backlog, Due, Counted
<1>3. CASE x.uplinks[l] # NoUplink
  BY <1>1, <1>3 DEF Entry, Backlog, Due, Counted
<1> QED
  BY <1>2, <1>3

LEMMA EnqueueIs ==
  ASSUME NEW x, StructOK(x), x.writer # Home, NEW l \in AllLanes, NEW up \in UplinkRecords,
         up.queued <=> Counted(x, l), Counted(x, l) => Waits(x, l)
  PROVE  LET y == Enqueue(x, l, up)
         IN  /\ StructOK(y) /\ y.writer = x.writer /\ y.special_queue = x.special_queue
             /\ \A m \in AllLanes : m # l => y.uplinks[m] = x.uplinks[m] /\ (Waits(y, m) <=> Waits(x, m))
             /\ Waits(y, l) /\ Counted(y, l)
             /\ Backlog(y, l) = up.backpressure /\ Due(y, l) = up.send_synced
<1> DEFINE y == Enqueue(x, l, up)
           up1 == [up EXCEPT !.queued = TRUE]
<1>1. /\ x = [writer |-> x.writer, uplinks |-> x.uplinks,
              write_queue |-> x.write_queue, special_queue |-> x.special_queue]
      /\ x.uplinks \in [AllLanes -> UplinkRecords \cup {NoUplink}]
      /\ x.write_queue \in Seq(AllLanes) /\ x.special_queue \in Seq(Specials)
      /\ OfLanes(x.writer)
  BY DEF StructOK
<1>2. /\ up1 \in UplinkRecords /\ up1.queued = TRUE
      /\ up1.backpressure = up.backpressure /\ up1.send_synced = up.send_synced
  BY DEF UplinkRecords
<1>3. up1 # NoUplink
  BY <1>2, EmptyAssumption
<1>4. y = [writer |-> x.writer, uplinks |-> [x.uplinks EXCEPT ![l] = up1],
           write_queue |-> IF up.queued THEN x.write_queue ELSE Append(x.write_queue, l),
           special_queue |-> x.special_queue]
  <2> HIDE DEF up1
  <2>1. y = [x EXCEPT !.uplinks[l] = up1,
                      !.write_queue = IF up.queued THEN @ ELSE Append(@, l)]
    BY DEF Enqueue, up1
  <2>2. ASSUME NEW w, NEW ups, NEW q, NEW sq,
               x = [writer |-> w, uplinks |-> ups, write_queue |-> q, special_queue |-> sq]
        PROVE  y = [writer |-> w, uplinks |-> [ups EXCEPT ![l] = up1],
                    write_queue |-> IF up.queued THEN q ELSE Append(q, l), special_queue |-> sq]
    <3> HIDE DEF y
    <3>1. x.write_queue = q /\ x.uplinks = ups
      BY <2>2
    <3>2. CASE up.queued
      BY <2>1, <2>2, <3>1, <3>2
    <3>3. CASE ~up.queued
      BY <2>1, <2>2, <3>1, <3>3
    <3> QED
      BY <3>2, <3>3
  <2> QED
    BY <2>2, <1>1
<1> HIDE DEF y, up1
<1>5. /\ y.writer = x.writer /\ y.special_queue = x.special_queue
      /\ y.uplinks = [x.uplinks EXCEPT ![l] = up1]
      /\ y.write_queue = IF up.queued THEN x.write_queue ELSE Append(x.write_queue, l)
  BY <1>4
<1>6. y.uplinks \in [AllLanes -> UplinkRecords \cup {NoUplink}] /\ y.uplinks[l] = up1
      /\ \A m \in AllLanes : m # l => y.uplinks[m] = x.uplinks[m]
  BY <1>1, <1>2, <1>5
<1>7. /\ y.write_queue \in Seq(AllLanes) /\ Waits(y, l)
      /\ \A m \in AllLanes : m # l => (Waits(y, m) <=> Waits(x, m))
  <2>1. CASE up.queued
    BY <2>1, <1>1, <1>5 DEF Waits
  <2>2. CASE ~up.queued
    <3>1. y.write_queue = Append(x.write_queue, l)
      BY <2>2, <1>5
    <3>2. /\ y.write_queue \in Seq(AllLanes)
          /\ \A i \in DOMAIN x.write_queue : i \in DOMAIN y.write_queue /\ y.write_queue[i] = x.write_queue[i]
          /\ Len(x.write_queue) + 1 \in DOMAIN y.write_queue
          /\ y.write_queue[Len(x.write_queue) + 1] = l
          /\ \A i \in DOMAIN y.write_queue : i \in DOMAIN x.write_queue \/ i = Len(x.write_queue) + 1
      BY <3>1, <1>1, AppendFacts
    <3> QED
      BY <3>2 DEF Waits
  <2> QED
    BY <2>1, <2>2
<1>8. StructOK(y)
  BY <1>1, <1>4, <1>5, <1>6, <1>7 DEF StructOK
<1> QED
  BY <1>2, <1>3, <1>5, <1>6, <1>7, <1>8 DEF y, Counted, Backlog, Due

\* A write that is begun at once leaves the struct as it should be.
LEMMA AtOnceStruct ==
  ASSUME NEW x, StructOK(x), NEW w, w # Home, OfLanes(w)
  PROVE  StructOK([x EXCEPT !.writer = w])
<1> DEFINE y == [x EXCEPT !.writer = w]
<1>1. /\ x = [writer |-> x.writer, uplinks |-> x.uplinks,
              write_queue |-> x.write_queue, special_queue |-> x.special_queue]
  BY DEF StructOK
<1>2. y = [writer |-> w, uplinks |-> x.uplinks,
           write_queue |-> x.write_queue, special_queue |-> x.special_queue]
  BY <1>1
<1> HIDE DEF y
<1>3. /\ y.writer = w /\ y.uplinks = x.uplinks
      /\ y.write_queue = x.write_queue /\ y.special_queue = x.special_queue
  BY <1>2
<1> QED
  BY <1>2, <1>3 DEF StructOK, y

\* What was sent of a lane when body b has been pushed.
LEMMA PushedFacts ==
  ASSUME NEW l \in AllLanes, NEW n \in Versions(l), NEW b, Pushable(l, b, n)
  PROVE  /\ Pushed(l, b, n) \in Versions(l)
         /\ \A k \in KeysOf(l) : n[k] <= Pushed(l, b, n)[k]
         /\ l \in SupplyLanes => \A k \in KeysOf(l) : n[k] > 0 => Pushed(l, b, n)[k] <= n[k] + 1
         /\ \A k \in KeysOf(l) : WriteLeads(<<EventNote(l, b)>>, l, k, n[k], Pushed(l, b, n)[k])
<1> DEFINE n1 == Pushed(l, b, n)
           w == <<EventNote(l, b)>>
<1>1. \A k \in KeysOf(l) : n[k] \in Nat /\ n1[k] = IF Touches(b, k) THEN b.version ELSE n[k]
  BY DEF Versions, Pushed
<1>2. b \in Bodies /\ b.version \in Nat /\ \A k \in KeysOf(l) : Touches(b, k) => n[k] <= b.version
  BY DEF Pushable, Bodies
<1>3. n1 \in Versions(l)
  BY <1>2 DEF Pushed, Versions
<1>4. DOMAIN w = {1} /\ w[1] = EventNote(l, b)
  OBVIOUS
<1>5. w[1].body = b
  BY <1>4 DEF EventNote
<1> HIDE DEF n1, w
<1>6. \A k \in KeysOf(l) : n[k] <= n1[k]
  BY <1>1, <1>2
<1>7. l \in SupplyLanes => \A k \in KeysOf(l) : n[k] > 0 => n1[k] <= n[k] + 1
  <2>1. l \in SupplyLanes => \A k \in KeysOf(l) : k = One
    BY LanesAssumption DEF KeysOf
  <2> QED
    BY <2>1, <1>1, <1>2 DEF Pushable
<1>8. \A k \in KeysOf(l) : WriteLeads(w, l, k, n[k], n1[k])
  <2> SUFFICES ASSUME NEW k \in KeysOf(l)
               PROVE  WriteLeads(w, l, k, n[k], n1[k])
    OBVIOUS
  <2>1. Bears(w[1], l, k) <=> Touches(b, k)
    BY <1>2, <1>4, BearsFacts
  <2> QED
    BY <2>1, <1>1, <1>4, <1>5 DEF WriteLeads
<1> QED
  BY <1>3, <1>6, <1>7, <1>8 DEF n1, w

LEMMA OneNote ==
  ASSUME NEW l \in AllLanes, NEW n, n.type \in {"Event", "Synced"}, n.lane = l
  PROVE  /\ WriteOf(<<n>>, l) /\ OfLanes(<<n>>) /\ <<n>> # Home
         /\ DOMAIN <<n>> = {1} /\ <<n>>[1] = n
  BY DEF WriteOf, OfLanes, Home

\* An event is pushed: the other lanes, and its own.
LEMMA PushEventKeeps ==
  ASSUME NEW x, StructOK(x), NEW L, NEW l \in L, l \in AllLanes, NEW b,
         NEW s \in Versions(l), NEW v \in Versions(l) \cup {NotLinked}, Good(x, L, l, s, v),
         Pushable(l, b, s)
  PROVE  /\ StructOK(PushEvent(x, l, b))
         /\ Good(PushEvent(x, l, b), L, l, Pushed(l, b, s), v)
         /\ \A m \in AllLanes :
              \A s2 \in Versions(m), v2 \in Versions(m) \cup {NotLinked} :
                m # l /\ Good(x, L, m, s2, v2) => Good(PushEvent(x, l, b), L, m, s2, v2)
<1> DEFINE y == PushEvent(x, l, b)
           w == <<EventNote(l, b)>>
           f == Pushed(l, b, s)
<1>1. EventNote(l, b).type = "Event" /\ EventNote(l, b).lane = l
  BY DEF EventNote
<1>2. WriteOf(w, l) /\ OfLanes(w) /\ w # Home /\ DOMAIN w = {1} /\ w[1].type = "Event"
  BY <1>1, OneNote
<1>3. /\ f \in Versions(l)
      /\ \A k \in KeysOf(l) : WriteLeads(w, l, k, s[k], f[k]) /\ s[k] <= f[k]
      /\ l \in SupplyLanes => \A k \in KeysOf(l) : s[k] > 0 => f[k] <= s[k] + 1
  BY PushedFacts
<1> HIDE DEF f
<1>4. CASE x.writer = Home
  <2>1. y = [x EXCEPT !.writer = w]
    BY <1>4 DEF PushEvent
  <2> HIDE DEF w, y
  <2>2. StructOK(y)
    BY <2>1, <1>2, AtOnceStruct
  <2>3. \A i \in DOMAIN w : w[i].type = "Synced" => w[i].due = f
    BY <1>2
  <2>4. Good(y, L, l, f, v)
    BY <2>1, <2>3, <1>2, <1>3, <1>4, AtOnceOwn
  <2>5. ASSUME NEW m \in AllLanes, NEW s2 \in Versions(m), NEW v2 \in Versions(m) \cup {NotLinked},
               m # l, Good(x, L, m, s2, v2)
        PROVE  Good(y, L, m, s2, v2)
    BY <2>1, <2>5, <1>2, <1>4, AtOnceOther
  <2> QED
    BY <2>2, <2>4, <2>5 DEF y, f
<1>5. CASE x.writer # Home
  <2> DEFINE up == [Entry(x, l) EXCEPT !.backpressure = PushBytes(l, @, b)]
             bs == Backlog(x, l)
             q == x.special_queue
             z == After(x, v, l)
  <2>1. y = Enqueue(x, l, up)
    BY <1>5 DEF PushEvent
  <2>2. /\ Entry(x, l) \in UplinkRecords /\ Entry(x, l).backpressure = bs
        /\ Entry(x, l).send_synced = Due(x, l) /\ (Entry(x, l).queued <=> Counted(x, l))
    BY EntryFacts
  <2>3. bs \in Seq(Bodies)
    BY <2>2 DEF UplinkRecords
  <2>4. /\ z \in Versions(l) \cup {NotLinked}
        /\ \A k \in KeysOf(l) : Owes(l, bs, k, Base(q, z, l, k), s)
        /\ l \in L <=> Linking(q, z, l)
    BY DEF Good, Exact
  <2>5. \A k \in KeysOf(l) : Base(q, z, l, k) \in Nat
    BY <2>4 DEF Base, Versions
  <2> HIDE DEF bs, z, q
  <2>6. \A k \in KeysOf(l) : /\ PushBytes(l, bs, b) \in Seq(Bodies)
                             /\ Owes(l, PushBytes(l, bs, b), k, Base(q, z, l, k), f)
    BY <2>3, <2>4, <2>5, OwesPushed DEF f
  <2>7. PushBytes(l, bs, b) \in Seq(Bodies)
    BY <2>6, KeysFacts
  <2>8. /\ up \in UplinkRecords /\ up.backpressure = PushBytes(l, bs, b)
        /\ up.send_synced = Due(x, l) /\ (up.queued <=> Counted(x, l))
    BY <2>2, <2>7 DEF UplinkRecords
  <2>9. Counted(x, l) => Waits(x, l)
    BY DEF Good, Queued
  <2> HIDE DEF up, y
  <2>10. /\ StructOK(y) /\ y.writer = x.writer /\ y.special_queue = x.special_queue
         /\ \A m \in AllLanes : m # l => y.uplinks[m] = x.uplinks[m] /\ (Waits(y, m) <=> Waits(x, m))
         /\ Waits(y, l) /\ Counted(y, l)
         /\ Backlog(y, l) = up.backpressure /\ Due(y, l) = up.send_synced
    BY <2>1, <2>8, <2>9, <1>5, EnqueueIs
  <2>11. After(y, v, l) = z
    BY <2>10 DEF After, z
  <2>12. Queued(y, L, l)
    BY <2>10 DEF Queued
  <2>13. Exact(y, L, l, f, v)
    BY <2>4, <2>6, <2>8, <2>10, <2>11 DEF Exact, q
  <2>14. DueIsPushed(y, l, f)
    <3> SUFFICES ASSUME Due(x, l) # NotLinked
                 PROVE  Due(x, l) \in Versions(l) /\ \A k \in KeysOf(l) : Due(x, l)[k] <= f[k]
      BY <2>8, <2>10 DEF DueIsPushed
    <3>1. Due(x, l) \in Versions(l) /\ \A k \in KeysOf(l) : Due(x, l)[k] <= s[k]
      BY DEF Good, DueIsPushed
    <3>2. \A k \in KeysOf(l) : Due(x, l)[k] \in Nat /\ s[k] \in Nat /\ f[k] \in Nat
      BY <3>1, <1>3 DEF Versions
    <3> QED
      BY <3>1, <3>2, <1>3
  <2>15. WithinLink(y, l, v) /\ SyncedInTime(y, l, v) /\ InOrder(y, l, v)
    <3>1. After(y, v, l) = After(x, v, l)
      BY <2>11 DEF z
    <3> QED
      BY <3>1, <2>10 DEF Good, WithinLink, SyncedInTime, InOrder
  <2>16. Good(y, L, l, f, v)
    BY <2>12, <2>13, <2>14, <2>15 DEF Good
  <2>17. ASSUME NEW m \in AllLanes, NEW s2 \in Versions(m), NEW v2 \in Versions(m) \cup {NotLinked},
                m # l, Good(x, L, m, s2, v2)
         PROVE  Good(y, L, m, s2, v2)
    BY <2>10, <2>17, SameLane
  <2> QED
    BY <2>10, <2>16, <2>17 DEF y, f
<1> QED
  BY <1>4, <1>5

\* A synced message is pushed: the other lanes, and its own.
LEMMA PushSyncedKeeps ==
  ASSUME NEW x, StructOK(x), NEW L, NEW l \in L, l \in AllLanes,
         NEW s \in Versions(l), NEW v \in Versions(l) \cup {NotLinked}, Good(x, L, l, s, v)
  PROVE  /\ StructOK(PushSynced(x, l, s))
         /\ Good(PushSynced(x, l, s), L, l, s, v)
         /\ \A m \in AllLanes :
              \A s2 \in Versions(m), v2 \in Versions(m) \cup {NotLinked} :
                m # l /\ Good(x, L, m, s2, v2) => Good(PushSynced(x, l, s), L, m, s2, v2)
<1> DEFINE y == PushSynced(x, l, s)
           w == <<Synced(l, s)>>
<1>1. Synced(l, s).type = "Synced" /\ Synced(l, s).lane = l /\ Synced(l, s).due = s
  BY DEF Synced
<1>2. WriteOf(w, l) /\ OfLanes(w) /\ w # Home /\ DOMAIN w = {1} /\ w[1] = Synced(l, s)
  BY <1>1, OneNote
<1>3. \A k \in KeysOf(l) : s[k] \in Nat
  BY DEF Versions
<1>4. CASE x.writer = Home
  <2>1. y = [x EXCEPT !.writer = w]
    BY <1>4 DEF PushSynced
  <2> HIDE DEF w, y
  <2>2. StructOK(y)
    BY <2>1, <1>2, AtOnceStruct
  <2>3. \A i \in DOMAIN w : w[i].type = "Synced" => w[i].due = s
    BY <1>1, <1>2
  <2>4. \A k \in KeysOf(l) : WriteLeads(w, l, k, s[k], s[k]) /\ s[k] <= s[k] /\ s[k] <= s[k] + 1
    <3>1. \A i \in DOMAIN w, k \in KeysOf(l) : ~Bears(w[i], l, k)
      BY <1>1, <1>2 DEF Bears
    <3> QED
      BY <3>1, <1>3 DEF WriteLeads
  <2>5. Good(y, L, l, s, v)
    BY <2>1, <2>3, <2>4, <1>2, <1>4, AtOnceOwn
  <2>6. ASSUME NEW m \in AllLanes, NEW s2 \in Versions(m), NEW v2 \in Versions(m) \cup {NotLinked},
               m # l, Good(x, L, m, s2, v2)
        PROVE  Good(y, L, m, s2, v2)
    BY <2>1, <2>6, <1>2, <1>4, AtOnceOther
  <2> QED
    BY <2>2, <2>5, <2>6 DEF y
<1>5. CASE x.writer # Home
  <2> DEFINE up == [Entry(x, l) EXCEPT !.send_synced = s]
  <2>1. y = Enqueue(x, l, up)
    BY <1>5 DEF PushSynced
  <2>2. /\ Entry(x, l) \in UplinkRecords /\ Entry(x, l).backpressure = Backlog(x, l)
        /\ (Entry(x, l).queued <=> Counted(x, l))
    BY EntryFacts
  <2>3. s \in Dues
    BY DEF Versions, KeysOf, Dues
  <2>4. /\ up \in UplinkRecords /\ up.backpressure = Backlog(x, l)
        /\ up.send_synced = s /\ (up.queued <=> Counted(x, l))
    BY <2>2, <2>3 DEF UplinkRecords
  <2>5. Counted(x, l) => Waits(x, l)
    BY DEF Good, Queued
  <2> HIDE DEF up, y
  <2>6. /\ StructOK(y) /\ y.writer = x.writer /\ y.special_queue = x.special_queue
        /\ \A m \in AllLanes : m # l => y.uplinks[m] = x.uplinks[m] /\ (Waits(y, m) <=> Waits(x, m))
        /\ Waits(y, l) /\ Counted(y, l)
        /\ Backlog(y, l) = up.backpressure /\ Due(y, l) = up.send_synced
    BY <2>1, <2>4, <2>5, <1>5, EnqueueIs
  <2>7. After(y, v, l) = After(x, v, l)
    BY <2>6 DEF After
  <2>8. Queued(y, L, l)
    BY <2>6 DEF Queued
  <2>9. Exact(y, L, l, s, v)
    BY <2>4, <2>6, <2>7 DEF Good, Exact
  <2>10. DueIsPushed(y, l, s)
    BY <2>4, <2>6, <1>3 DEF DueIsPushed
  <2>11. WithinLink(y, l, v) /\ SyncedInTime(y, l, v) /\ InOrder(y, l, v)
    BY <2>6, <2>7 DEF Good, WithinLink, SyncedInTime, InOrder
  <2>12. Good(y, L, l, s, v)
    BY <2>8, <2>9, <2>10, <2>11 DEF Good
  <2>13. ASSUME NEW m \in AllLanes, NEW s2 \in Versions(m), NEW v2 \in Versions(m) \cup {NotLinked},
                m # l, Good(x, L, m, s2, v2)
         PROVE  Good(y, L, m, s2, v2)
    BY <2>6, <2>13, SameLane
  <2> QED
    BY <2>6, <2>12, <2>13 DEF y
<1> QED
  BY <1>4, <1>5

\* An event whose key is refused.
LEMMA PushBadKeyKeeps ==
  ASSUME NEW x, StructOK(x), NEW L, NEW l \in L, l \in AllLanes
  PROVE  /\ StructOK(PushBadKey(x, l))
         /\ \A m \in AllLanes :
              \A s \in Versions(m), v \in Versions(m) \cup {NotLinked} :
                Good(x, L, m, s, v) => Good(PushBadKey(x, l), L, m, s, v)
<1> DEFINE y == PushBadKey(x, l)
<1>1. CASE x.writer = Home
  <2>1. y = [x EXCEPT !.writer = Lost]
    BY <1>1 DEF PushBadKey
  <2>2. Lost # Home /\ OfLanes(Lost) /\ DOMAIN Lost = {1} /\ Lost[1].type = "Lost"
    BY DEF Lost, Home, OfLanes
  <2> HIDE DEF y
  <2>3. StructOK(y)
    BY <2>1, <2>2, AtOnceStruct
  <2>4. y.writer = Lost /\ y.uplinks = x.uplinks /\ y.write_queue = x.write_queue /\ y.special_queue = x.special_queue
    BY <2>1 DEF StructOK
  <2>5. ASSUME NEW m \in AllLanes, NEW s \in Versions(m), NEW v \in Versions(m) \cup {NotLinked},
               Good(x, L, m, s, v)
        PROVE  Good(y, L, m, s, v)
    <3>1. After(x, v, m) = v
      BY <2>5, <1>1, HomeFacts
    <3>2. SaysNothing(Lost, m)
      BY <2>2 DEF SaysNothing, Has, Bears
    <3>3. After(y, v, m) = After(x, v, m)
      BY <3>1, <3>2, <2>4, ReceivedNothing DEF After
    <3>4. /\ Backlog(y, m) = Backlog(x, m) /\ Due(y, m) = Due(x, m)
          /\ (Counted(y, m) <=> Counted(x, m)) /\ (Waits(y, m) <=> Waits(x, m))
          /\ y.uplinks[m] = x.uplinks[m]
      BY <2>4 DEF Backlog, Due, Counted, Waits
    <3>5. Queued(y, L, m) /\ Exact(y, L, m, s, v) /\ DueIsPushed(y, m, s)
      BY <3>3, <3>4, <2>4, <2>5 DEF Good, Queued, Exact, DueIsPushed
    <3>6. WithinLink(y, m, v) /\ SyncedInTime(y, m, v)
      BY <2>2, <2>4 DEF WithinLink, SyncedInTime
    <3>7. InOrder(y, m, v)
      BY <3>3, <2>5 DEF Good, InOrder
    <3> QED
      BY <3>5, <3>6, <3>7 DEF Good
  <2> QED
    BY <2>3, <2>5 DEF y
<1>2. CASE x.writer # Home
  <2>1. /\ x = [writer |-> x.writer, uplinks |-> x.uplinks,
                write_queue |-> x.write_queue, special_queue |-> x.special_queue]
        /\ x.uplinks \in [AllLanes -> UplinkRecords \cup {NoUplink}]
    BY DEF StructOK
  <2>2. y = [x EXCEPT !.uplinks[l] = Entry(x, l)]
    BY <1>2 DEF PushBadKey
  <2> HIDE DEF y
  <2>3. y = [writer |-> x.writer, uplinks |-> [x.uplinks EXCEPT ![l] = Entry(x, l)],
             write_queue |-> x.write_queue, special_queue |-> x.special_queue]
    BY <2>1, <2>2
  <2>4. /\ y.writer = x.writer /\ y.write_queue = x.write_queue /\ y.special_queue = x.special_queue
        /\ y.uplinks = [x.uplinks EXCEPT ![l] = Entry(x, l)]
    BY <2>3
  <2>5. /\ Entry(x, l) \in UplinkRecords /\ Entry(x, l).backpressure = Backlog(x, l)
        /\ Entry(x, l).send_synced = Due(x, l) /\ (Entry(x, l).queued <=> Counted(x, l))
        /\ Entry(x, l) # NoUplink
    BY EntryFacts, EmptyAssumption
  <2>6. StructOK(y)
    <3>1. y.uplinks \in [AllLanes -> UplinkRecords \cup {NoUplink}]
      BY <2>1, <2>4, <2>5
    <3> QED
      BY <3>1, <2>3, <2>4 DEF StructOK
  <2>7. \A m \in AllLanes : y.uplinks[m] = IF m = l THEN Entry(x, l) ELSE x.uplinks[m]
    BY <2>1, <2>4
  <2>8. ASSUME NEW m \in AllLanes, NEW s \in Versions(m), NEW v \in Versions(m) \cup {NotLinked},
               Good(x, L, m, s, v)
        PROVE  Good(y, L, m, s, v)
    <3>1. After(y, v, m) = After(x, v, m) /\ (Waits(y, m) <=> Waits(x, m))
      BY <2>4 DEF After, Waits
    <3>2. /\ Backlog(y, m) = Backlog(x, m) /\ Due(y, m) = Due(x, m)
          /\ (Counted(y, m) <=> Counted(x, m))
      BY <2>5, <2>7 DEF Backlog, Due, Counted
    <3>3. y.uplinks[m] # NoUplink => m \in L \/ x.uplinks[m] # NoUplink
      BY <2>7
    <3>4. Queued(y, L, m) /\ Exact(y, L, m, s, v) /\ DueIsPushed(y, m, s)
      BY <3>1, <3>2, <3>3, <2>4, <2>8 DEF Good, Queued, Exact, DueIsPushed
    <3>5. WithinLink(y, m, v) /\ SyncedInTime(y, m, v) /\ InOrder(y, m, v)
      BY <3>1, <2>4, <2>8 DEF Good, WithinLink, SyncedInTime, InOrder
    <3> QED
      BY <3>4, <3>5 DEF Good
  <2> QED
    BY <2>6, <2>8 DEF y
<1> QED
  BY <1>1, <1>2


-----------------------------------------------------------------------------
\* A lane whose place in the queue is dropped without a write, or is not.
Skipped(x, y, m, gone) ==
  IF m \in SupplyLanes /\ gone /\ x.uplinks[m] # NoUplink
    THEN /\ y.uplinks[m] # NoUplink /\ ~Counted(y, m)
         /\ Backlog(y, m) = Backlog(x, m) /\ Due(y, m) = Due(x, m)
    ELSE y.uplinks[m] = x.uplinks[m]

LEMMA SkipFacts ==
  ASSUME NEW x, x.uplinks \in [AllLanes -> UplinkRecords \cup {NoUplink}], NEW ls,
         NEW y, NEW m \in AllLanes, y.uplinks[m] = Skip(x.uplinks, ls)[m]
  PROVE  y.uplinks[m] \in UplinkRecords \cup {NoUplink} /\ Skipped(x, y, m, m \in ls)
<1>1. x.uplinks[m] \in UplinkRecords \cup {NoUplink}
  OBVIOUS
<1>2. CASE m \in SupplyLanes /\ m \in ls /\ x.uplinks[m] # NoUplink
  <2>1. y.uplinks[m] = [x.uplinks[m] EXCEPT !.queued = FALSE]
    BY <1>2 DEF Skip
  <2>2. /\ y.uplinks[m] \in UplinkRecords /\ y.uplinks[m].queued = FALSE
        /\ y.uplinks[m].backpressure = x.uplinks[m].backpressure
        /\ y.uplinks[m].send_synced = x.uplinks[m].send_synced
    BY <1>1, <1>2, <2>1 DEF UplinkRecords
  <2>3. y.uplinks[m] # NoUplink
    BY <2>2, EmptyAssumption
  <2> QED
    BY <1>2, <2>2, <2>3 DEF Skipped, Counted, Backlog, Due
<1>3. CASE ~(m \in SupplyLanes /\ m \in ls /\ x.uplinks[m] # NoUplink)
  <2>1. y.uplinks[m] = x.uplinks[m]
    BY <1>3 DEF Skip
  <2> QED
    BY <1>1, <1>3, <2>1 DEF Skipped
<1> QED
  BY <1>2, <1>3

LEMMA WriteForBegins ==
  ASSUME NEW l \in AllLanes, NEW up \in UplinkRecords
  PROVE  WriteFor(l, up) # Home
<1> DEFINE bs == up.backpressure
           d == up.send_synced
           w == WriteFor(l, up)
<1>1. \/ w = <<EventNote(l, PrepareWrite(bs))>>
      \/ w = MapSynced(l, up)
      \/ w = <<Synced(l, d)>>
      \/ w = <<EventNote(l, PrepareWrite(bs)), Synced(l, d)>>
  BY WriteForCases
<1>2. MapSynced(l, up) # <<>>
  <2>1. bs \in Seq(Bodies)
    BY DEF UplinkRecords
  <2>2. ASSUME NEW T, NEW q \in Seq(T), NEW S, NEW a \in S
        PROVE  q \o <<a>> # <<>>
    <3>1. Len(q \o <<a>>) = Len(q) + 1
      OBVIOUS
    <3> QED
      BY <3>1
  <2>3. [i \in DOMAIN bs |-> EventNote(l, bs[i])] \in Seq({EventNote(l, b) : b \in Bodies})
    BY <2>1
  <2> QED
    BY <2>2, <2>3 DEF MapSynced
<1> QED
  BY <1>1, <1>2 DEF Home


\* What comes of replace_and_pop: a special action, nothing, or the write of a lane.
PopsSpecial(x, y) ==
  /\ x.special_queue # <<>>
  /\ y.writer = <<Head(x.special_queue)>> /\ y.special_queue = Tail(x.special_queue)
  /\ y.uplinks = x.uplinks /\ y.write_queue = x.write_queue

ComesHome(x, y) ==
  /\ x.special_queue = <<>> /\ y.special_queue = <<>>
  /\ y.writer = Home /\ y.write_queue = <<>>
  /\ \A m \in AllLanes : (Waits(x, m) => ~HasWrite(x, m)) /\ Skipped(x, y, m, Waits(x, m))

PopsFrom(x, y, i, l) ==
  /\ x.special_queue = <<>> /\ y.special_queue = <<>>
  /\ i \in DOMAIN x.write_queue /\ x.write_queue[i] = l /\ HasWrite(x, l)
  /\ \A j \in DOMAIN x.write_queue : j < i => ~HasWrite(x, x.write_queue[j])
  /\ y.writer = WriteFor(l, x.uplinks[l])
  /\ y.uplinks[l] = Popped(l, x.uplinks[l])
  /\ y.write_queue = NextQueue(SubSeq(x.write_queue, i + 1, Len(x.write_queue)), l, y.uplinks[l])
  /\ y.uplinks[l].queued => Waits(y, l)
  /\ \A m \in AllLanes : m # l =>
       /\ Skipped(x, y, m, \E j \in DOMAIN x.write_queue : j < i /\ x.write_queue[j] = m)
       /\ Waits(y, m) <=> \E j \in DOMAIN x.write_queue : j > i /\ x.write_queue[j] = m

\* The places before and after a place in a queue.
Around(S, q, i, m) ==
  /\ m \in Range(SubSeq(q, 1, i - 1)) <=> \E j \in DOMAIN q : j < i /\ q[j] = m
  /\ SubSeq(q, i + 1, Len(q)) \in Seq(S)
  /\ (\E j \in DOMAIN SubSeq(q, i + 1, Len(q)) : SubSeq(q, i + 1, Len(q))[j] = m)
       <=> \E j \in DOMAIN q : j > i /\ q[j] = m

LEMMA AroundFacts ==
  ASSUME NEW S, NEW q \in Seq(S), NEW i \in DOMAIN q, NEW m
  PROVE  Around(S, q, i, m)
<1> DEFINE a == SubSeq(q, 1, i - 1)
           z == SubSeq(q, i + 1, Len(q))
<1>1. i \in Nat /\ i >= 1 /\ i <= Len(q) /\ Len(q) \in Nat /\ DOMAIN q = 1..Len(q)
  OBVIOUS
<1>2. a \in Seq(S) /\ DOMAIN a = 1..(i - 1) /\ \A j \in 1..(i - 1) : a[j] = q[j]
  BY <1>1
<1>3. z \in Seq(S) /\ DOMAIN z = 1..(Len(q) - i) /\ \A j \in 1..(Len(q) - i) : z[j] = q[i + j]
  BY <1>1, SMTT(30)
<1> HIDE DEF a, z
<1>4. m \in Range(a) <=> \E j \in DOMAIN q : j < i /\ q[j] = m
  <2>1. \A j : j \in 1..(i - 1) <=> j \in DOMAIN q /\ j < i
    BY <1>1
  <2> QED
    BY <1>2, <2>1 DEF Range
<1>5. (\E j \in DOMAIN z : z[j] = m) <=> \E j \in DOMAIN q : j > i /\ q[j] = m
  <2>1. \A j \in 1..(Len(q) - i) : i + j \in DOMAIN q /\ i + j > i
    BY <1>1
  <2>2. \A j \in DOMAIN q : j > i => j - i \in 1..(Len(q) - i) /\ i + (j - i) = j
    BY <1>1
  <2> QED
    BY <1>3, <2>1, <2>2
<1> QED
  BY <1>3, <1>4, <1>5 DEF Around, a, z

LEMMA ReplaceAndPopIs ==
  ASSUME NEW x, StructOK(x)
  PROVE  LET y == ReplaceAndPop(x)
         IN  /\ StructOK(y)
             /\ \/ PopsSpecial(x, y)
                \/ ComesHome(x, y)
                \/ \E l \in AllLanes, i \in DOMAIN x.write_queue : PopsFrom(x, y, i, l)
<1> DEFINE y == ReplaceAndPop(x)
           ready == {i \in DOMAIN x.write_queue : HasWrite(x, x.write_queue[i])}
<1>1. /\ x = [writer |-> x.writer, uplinks |-> x.uplinks,
              write_queue |-> x.write_queue, special_queue |-> x.special_queue]
      /\ x.uplinks \in [AllLanes -> UplinkRecords \cup {NoUplink}]
      /\ x.write_queue \in Seq(AllLanes) /\ x.special_queue \in Seq(Specials)
  BY DEF StructOK
<1>2. ASSUME NEW w, NEW ups, NEW q, NEW s,
             y = [writer |-> w, uplinks |-> ups, write_queue |-> q, special_queue |-> s],
             w # Home \/ (q = <<>> /\ s = <<>>), OfLanes(w),
             ups \in [AllLanes -> UplinkRecords \cup {NoUplink}], q \in Seq(AllLanes), s \in Seq(Specials)
      PROVE  StructOK(y) /\ y.writer = w /\ y.uplinks = ups /\ y.write_queue = q /\ y.special_queue = s
  <2> HIDE DEF y
  <2> QED
    BY <1>2 DEF StructOK
<1>3. \A m \in AllLanes : m \in Range(x.write_queue) <=> Waits(x, m)
  BY DEF Range, Waits
<1>4. CASE x.special_queue # <<>>
  <2> DEFINE w == <<Head(x.special_queue)>>
  <2>1. y = [x EXCEPT !.writer = <<Head(x.special_queue)>>, !.special_queue = Tail(@)]
    BY <1>4 DEF ReplaceAndPop
  <2>2. y = [writer |-> w, uplinks |-> x.uplinks, write_queue |-> x.write_queue,
             special_queue |-> Tail(x.special_queue)]
    <3> HIDE DEF y
    <3> QED
      BY <2>1, <1>1
  <2>3. Head(x.special_queue) \in Specials /\ Tail(x.special_queue) \in Seq(Specials)
    BY <1>1, <1>4
  <2>4. w # Home /\ OfLanes(w)
    BY <2>3, SpecialsFacts DEF Home, OfLanes
  <2> HIDE DEF y, w
  <2>5. StructOK(y) /\ y.writer = w /\ y.uplinks = x.uplinks /\ y.write_queue = x.write_queue
        /\ y.special_queue = Tail(x.special_queue)
    BY <2>2, <2>3, <2>4, <1>1, <1>2
  <2> QED
    BY <2>5, <1>4 DEF PopsSpecial, y, w
<1>5. CASE x.special_queue = <<>> /\ ready = {}
  <2>1. y = [x EXCEPT !.writer = Home, !.write_queue = <<>>, !.uplinks = Skip(@, Range(x.write_queue))]
    BY <1>5 DEF ReplaceAndPop
  <2> DEFINE ups == Skip(x.uplinks, Range(x.write_queue))
  <2> HIDE DEF y
  <2>2. y = [writer |-> Home, uplinks |-> ups, write_queue |-> <<>>, special_queue |-> x.special_queue]
    BY <2>1, <1>1
  <2>3. y.uplinks = ups /\ y.writer = Home /\ y.write_queue = <<>> /\ y.special_queue = x.special_queue
    BY <2>2
  <2>4. \A m \in AllLanes :
          y.uplinks[m] \in UplinkRecords \cup {NoUplink} /\ Skipped(x, y, m, m \in Range(x.write_queue))
    BY <2>3, <1>1, SkipFacts
  <2>5. ups \in [AllLanes -> UplinkRecords \cup {NoUplink}]
    BY <2>3, <2>4 DEF Skip
  <2>6. OfLanes(Home) /\ <<>> \in Seq(AllLanes)
    BY DEF OfLanes, Home
  <2> HIDE DEF ups
  <2>7. StructOK(y)
    BY <2>2, <2>5, <2>6, <1>1, <1>2, <1>5
  <2>8. \A m \in AllLanes : Waits(x, m) => ~HasWrite(x, m)
    BY <1>5 DEF Waits
  <2>9. \A m \in AllLanes : Skipped(x, y, m, Waits(x, m))
    BY <2>4, <1>3 DEF Skipped
  <2> QED
    BY <2>3, <2>7, <2>8, <2>9, <1>5 DEF ComesHome, y
<1>6. CASE x.special_queue = <<>> /\ ready # {}
  <2> DEFINE i == Min(ready)
             l == x.write_queue[i]
             up == Popped(l, x.uplinks[l])
             rest == SubSeq(x.write_queue, i + 1, Len(x.write_queue))
             gone == Range(SubSeq(x.write_queue, 1, i - 1))
             w == WriteFor(l, x.uplinks[l])
             q == NextQueue(rest, l, up)
             ups == [Skip(x.uplinks, gone) EXCEPT ![l] = up]
  <2>1. y = [x EXCEPT !.writer = w, !.write_queue = NextQueue(SubSeq(@, i + 1, Len(@)), l, up),
                      !.uplinks = [Skip(@, gone) EXCEPT ![l] = up]]
    BY <1>6 DEF ReplaceAndPop
  <2>2. y = [writer |-> w, uplinks |-> ups, write_queue |-> q, special_queue |-> x.special_queue]
    <3> HIDE DEF y, ready, i, l, up, gone, w
    <3> QED
      BY <2>1, <1>1
  <2>3. i \in ready /\ \A j \in ready : i <= j
    <3>1. ready \subseteq Nat
      BY <1>1
    <3> HIDE DEF ready
    <3> QED
      BY <3>1, <1>6, LeastOf
  <2> HIDE DEF y, i
  <2>4. /\ i \in DOMAIN x.write_queue /\ HasWrite(x, l) /\ l \in AllLanes
        /\ \A j \in DOMAIN x.write_queue : j < i => ~HasWrite(x, x.write_queue[j])
    <3>1. i \in DOMAIN x.write_queue /\ HasWrite(x, l) /\ i \in Nat
      BY <2>3, <1>1
    <3>2. ASSUME NEW j \in DOMAIN x.write_queue, j < i
          PROVE  ~HasWrite(x, x.write_queue[j])
      BY <2>3, <3>1, <3>2, <1>1
    <3> QED
      BY <3>1, <3>2, <1>1
  <2>5. x.uplinks[l] \in UplinkRecords
    BY <2>4, <1>1 DEF HasWrite
  <2> HIDE DEF ready, l
  <2>6. up \in UplinkRecords
    BY <2>4, <2>5, PoppedFacts
  <2>7. w # Home
    BY <2>4, <2>5, WriteForBegins
  <2>8. OfLanes(w)
    BY <2>4, <2>5, WriteForNotes DEF WriteOf, OfLanes
  <2> HIDE DEF w, up
  <2>9. \A m \in AllLanes :
          /\ m \in gone <=> \E j \in DOMAIN x.write_queue : j < i /\ x.write_queue[j] = m
          /\ rest \in Seq(AllLanes)
          /\ (\E j \in DOMAIN rest : rest[j] = m) <=> \E j \in DOMAIN x.write_queue : j > i /\ x.write_queue[j] = m
    <3>1. \A m \in AllLanes : Around(AllLanes, x.write_queue, i, m)
      BY <2>4, <1>1, AroundFacts
    <3> QED
      BY <3>1 DEF Around
  <2>10. rest \in Seq(AllLanes)
    BY <2>4, <2>9
  <2> HIDE DEF rest, gone
  <2>11. /\ q \in Seq(AllLanes)
         /\ up.queued => \E j \in DOMAIN q : q[j] = l
         /\ \A m \in AllLanes : m # l => ((\E j \in DOMAIN q : q[j] = m) <=> \E j \in DOMAIN rest : rest[j] = m)
    <3>1. CASE up.queued
      <4>1. q = Append(rest, l)
        BY <3>1 DEF NextQueue
      <4> HIDE DEF q
      <4>2. /\ q \in Seq(AllLanes)
            /\ \A j \in DOMAIN rest : j \in DOMAIN q /\ q[j] = rest[j]
            /\ Len(rest) + 1 \in DOMAIN q /\ q[Len(rest) + 1] = l
            /\ \A j \in DOMAIN q : j \in DOMAIN rest \/ j = Len(rest) + 1
        BY <4>1, <2>4, <2>10, AppendFacts
      <4> QED
        BY <4>2
    <3>2. CASE ~up.queued
      BY <3>2, <2>10 DEF NextQueue
    <3> QED
      BY <3>1, <3>2
  <2>12. /\ ups \in [AllLanes -> UplinkRecords \cup {NoUplink}] /\ ups[l] = up
         /\ \A m \in AllLanes : m # l => ups[m] = Skip(x.uplinks, gone)[m]
    <3> DEFINE sk == Skip(x.uplinks, gone)
    <3>1. sk \in [AllLanes -> UplinkRecords \cup {NoUplink}]
      <4>1. \A m \in AllLanes : sk[m] \in UplinkRecords \cup {NoUplink}
        <5> SUFFICES ASSUME NEW m \in AllLanes
                     PROVE  sk[m] \in UplinkRecords \cup {NoUplink}
          OBVIOUS
        <5>1. [x EXCEPT !.uplinks = sk].uplinks = sk
          BY <1>1
        <5> QED
          BY <5>1, <1>1, SkipFacts
      <4>2. sk = [m \in AllLanes |-> sk[m]]
        BY DEF Skip
      <4> QED
        BY <4>1, <4>2
    <3> HIDE DEF sk
    <3>2. ups = [sk EXCEPT ![l] = up]
      BY DEF sk
    <3> QED
      BY <3>1, <3>2, <2>4, <2>6 DEF sk
  <2> HIDE DEF q, ups
  <2>13. StructOK(y) /\ y.writer = w /\ y.uplinks = ups /\ y.write_queue = q /\ y.special_queue = x.special_queue
    BY <2>2, <2>7, <2>8, <2>11, <2>12, <1>1, <1>2
  <2>14. y.uplinks[l].queued => Waits(y, l)
    BY <2>11, <2>12, <2>13 DEF Waits
  <2>15. ASSUME NEW m \in AllLanes, m # l
         PROVE  /\ Skipped(x, y, m, \E j \in DOMAIN x.write_queue : j < i /\ x.write_queue[j] = m)
                /\ Waits(y, m) <=> \E j \in DOMAIN x.write_queue : j > i /\ x.write_queue[j] = m
    <3>1. Skipped(x, y, m, m \in gone)
      BY <2>12, <2>13, <2>15, <1>1, SkipFacts
    <3>2. Skipped(x, y, m, \E j \in DOMAIN x.write_queue : j < i /\ x.write_queue[j] = m)
      BY <3>1, <2>9 DEF Skipped
    <3>3. Waits(y, m) <=> \E j \in DOMAIN x.write_queue : j > i /\ x.write_queue[j] = m
      BY <2>9, <2>11, <2>13, <2>15 DEF Waits
    <3> QED
      BY <3>2, <3>3
  <2>16. y.write_queue = NextQueue(SubSeq(x.write_queue, i + 1, Len(x.write_queue)), l, y.uplinks[l])
    BY <2>12, <2>13 DEF q, rest
  <2>17. PopsFrom(x, y, i, l)
    BY <2>4, <2>12, <2>13, <2>14, <2>15, <2>16, <1>6 DEF PopsFrom, w, up, l
  <2> QED
    BY <2>4, <2>13, <2>17 DEF y
<1> QED
  BY <1>4, <1>5, <1>6


\* A write is over, and the next one is popped.
LEMMA PopKeeps ==
  ASSUME NEW x, StructOK(x), NEW L, NEW m \in AllLanes, NEW s \in Versions(m),
         NEW v \in Versions(m) \cup {NotLinked}, Good(x, L, m, s, v)
  PROVE  Good(ReplaceAndPop(x), L, m, s, After(x, v, m))
<1> DEFINE y == ReplaceAndPop(x)
           z == After(x, v, m)
           q == x.special_queue
<1>1. z \in Versions(m) \cup {NotLinked}
  BY DEF Good, Exact
<1>2. /\ m \in L <=> Linking(q, z, m)
      /\ m \notin L => s = Nothing(m)
      /\ \A k \in KeysOf(m) : Owes(m, Backlog(x, m), k, Base(q, z, m, k), s)
  BY DEF Good, Exact
<1>3. NotLinked \notin Versions(m) /\ \A f \in Versions(m), k \in KeysOf(m) : f[k] \in Nat
  BY KeysFacts DEF Versions
<1>4. q \in Seq(Specials) /\ x.uplinks[m] \in UplinkRecords \cup {NoUplink}
  BY DEF StructOK
<1>5. q = <<>> => /\ m \in L <=> z # NotLinked
                  /\ \A k \in KeysOf(m) : Base(q, z, m, k) = IF z = NotLinked THEN 0 ELSE z[k]
  BY <1>2 DEF Linking, LastLinked, Mentions, Base, Has
<1>6. /\ Counted(x, m) => Waits(x, m)
      /\ Backlog(x, m) # <<>> \/ Due(x, m) # NotLinked => Counted(x, m)
      /\ x.uplinks[m] # NoUplink /\ Waits(x, m) => m \in L
      /\ m \notin L => Backlog(x, m) = <<>> /\ Due(x, m) = NotLinked
  BY DEF Good, Queued
<1>7. Due(x, m) # NotLinked => \A k \in KeysOf(m) : Due(x, m)[k] \in Nat /\ Due(x, m)[k] <= s[k]
  BY DEF Good, DueIsPushed, Versions
<1>8. /\ StructOK(y)
      /\ \/ PopsSpecial(x, y)
         \/ ComesHome(x, y)
         \/ \E l \in AllLanes, i \in DOMAIN x.write_queue : PopsFrom(x, y, i, l)
  BY ReplaceAndPopIs
<1> HIDE DEF y, z, q
<1>9. CASE PopsSpecial(x, y)
  <2> DEFINE w == Received(z, <<Head(q)>>, m)
  <2>1. q # <<>> /\ y.writer = <<Head(q)>> /\ y.special_queue = Tail(q)
        /\ y.uplinks = x.uplinks /\ y.write_queue = x.write_queue
    BY <1>9 DEF PopsSpecial, q
  <2>2. /\ Linking(Tail(q), w, m) <=> Linking(q, z, m)
        /\ \A k \in KeysOf(m) : Base(Tail(q), w, m, k) = Base(q, z, m, k)
        /\ w \in Versions(m) \cup {NotLinked}
    BY <2>1, <1>1, <1>4, LinkingTail
  <2>3. Head(q) \in Specials
    BY <2>1, <1>4, TailFacts
  <2>4. w = IF IsLink(Head(q), m)
              THEN IF Head(q).type = "Unlinked" THEN NotLinked ELSE IF z = NotLinked THEN Nothing(m) ELSE z
              ELSE z
    BY <2>3, <1>1, ReceivedLink
  <2> HIDE DEF w
  <2>5. After(y, z, m) = w
    BY <2>1 DEF After, w
  <2>6. /\ Backlog(y, m) = Backlog(x, m) /\ Due(y, m) = Due(x, m)
        /\ (Counted(y, m) <=> Counted(x, m)) /\ (Waits(y, m) <=> Waits(x, m))
    BY <2>1 DEF Backlog, Due, Counted, Waits
  <2>7. Queued(y, L, m) /\ DueIsPushed(y, m, s)
    BY <2>1, <2>6 DEF Good, Queued, DueIsPushed
  <2>8. Exact(y, L, m, s, z)
    BY <2>1, <2>2, <2>5, <2>6, <1>2 DEF Exact
  <2>9. WithinLink(y, m, z) /\ SyncedInTime(y, m, z)
    <3>1. DOMAIN y.writer = {1} /\ y.writer[1] = Head(q)
      BY <2>1
    <3> QED
      BY <3>1, <2>3, SpecialsFacts DEF WithinLink, SyncedInTime
  <2>10. InOrder(y, m, z)
    <3>1. w # NotLinked /\ z # NotLinked => w = z /\ \A k \in KeysOf(m) : z[k] \in Nat
      BY <2>4, <1>1, <1>3
    <3> QED
      BY <3>1, <2>5 DEF InOrder
  <2> QED
    BY <2>7, <2>8, <2>9, <2>10 DEF Good, y, z
<1>10. CASE ComesHome(x, y)
  <2>1. /\ q = <<>> /\ y.special_queue = q /\ y.writer = Home /\ y.write_queue = <<>>
        /\ Waits(x, m) => ~HasWrite(x, m)
        /\ Skipped(x, y, m, Waits(x, m))
    BY <1>10 DEF ComesHome, q
  <2>2. /\ DOMAIN y.writer = {} /\ ~Waits(y, m)
    BY <2>1 DEF Home, Waits
  <2>3. After(y, z, m) = z
    <3>1. SaysNothing(y.writer, m)
      BY <2>2 DEF SaysNothing, Has
    <3> QED
      BY <3>1, <1>1, ReceivedNothing DEF After
  <2>4. Backlog(x, m) = <<>> /\ Due(x, m) = NotLinked
    BY <2>1, <1>6 DEF HasWrite, Backlog, Due, Counted
  <2>5. Backlog(y, m) = Backlog(x, m) /\ Due(y, m) = Due(x, m)
    BY <2>1 DEF Skipped, Backlog, Due
  <2>6. ~Counted(y, m)
    <3>1. Counted(x, m) => Waits(x, m) /\ m \in SupplyLanes /\ x.uplinks[m] # NoUplink
      BY <2>1, <1>6 DEF HasWrite, Counted
    <3> QED
      BY <3>1, <2>1 DEF Skipped, Counted
  <2>7. Queued(y, L, m) /\ DueIsPushed(y, m, s)
    BY <2>2, <2>4, <2>5, <2>6 DEF Queued, DueIsPushed
  <2>8. Exact(y, L, m, s, z)
    BY <2>1, <2>3, <2>5, <1>1, <1>2 DEF Exact
  <2>9. WithinLink(y, m, z) /\ SyncedInTime(y, m, z)
    BY <2>2 DEF WithinLink, SyncedInTime
  <2>10. InOrder(y, m, z)
    <3>1. z # NotLinked => \A k \in KeysOf(m) : z[k] \in Nat
      BY <1>1, <1>3
    <3> QED
      BY <3>1, <2>3 DEF InOrder
  <2> QED
    BY <2>7, <2>8, <2>9, <2>10 DEF Good, y, z
<1>11. ASSUME NEW i \in DOMAIN x.write_queue, PopsFrom(x, y, i, m)
       PROVE  Good(y, L, m, s, z)
  <2> DEFINE up == x.uplinks[m]
  <2>1. /\ q = <<>> /\ y.special_queue = q /\ HasWrite(x, m) /\ Waits(x, m)
        /\ y.writer = WriteFor(m, up) /\ y.uplinks[m] = Popped(m, up)
        /\ y.uplinks[m].queued => Waits(y, m)
    BY <1>11 DEF PopsFrom, q, Waits
  <2>2. up # NoUplink /\ up \in UplinkRecords /\ m \in L
    BY <2>1, <1>4, <1>6 DEF HasWrite
  <2>3. up.backpressure = Backlog(x, m) /\ up.send_synced = Due(x, m)
    BY <2>2 DEF Backlog, Due
  <2>4. z \in Versions(m) /\ \A k \in KeysOf(m) : Owes(m, up.backpressure, k, z[k], s)
    BY <2>1, <2>2, <2>3, <1>1, <1>2, <1>5
  <2> HIDE DEF up
  <2>5. PICK f \in Versions(m) :
          /\ Received(z, WriteFor(m, up), m) = f
          /\ \A k \in KeysOf(m) :
               /\ Owes(m, Popped(m, up).backpressure, k, f[k], s)
               /\ z[k] <= f[k]
               /\ m \in SupplyLanes /\ z[k] > 0 => f[k] <= z[k] + 1
               /\ up.send_synced # NotLinked /\ m \notin SupplyLanes => f[k] = s[k]
    BY <2>2, <2>4, WriteForBrings
  <2>6. After(y, z, m) = f
    BY <2>1, <2>5 DEF After
  <2>7. /\ y.uplinks[m] # NoUplink /\ Due(y, m) = NotLinked
        /\ Backlog(y, m) = Popped(m, up).backpressure
        /\ Counted(y, m) <=> Backlog(y, m) # <<>>
    BY <2>1, <2>2, PoppedFacts, EmptyAssumption DEF Backlog, Due, Counted
  <2>8. Counted(y, m) => Waits(y, m)
    BY <2>1 DEF Counted
  <2>9. Queued(y, L, m) /\ DueIsPushed(y, m, s)
    BY <2>2, <2>7, <2>8 DEF Queued, DueIsPushed
  <2>10. Exact(y, L, m, s, z)
    <3>1. Linking(y.special_queue, f, m)
      BY <2>1, <1>3 DEF Linking, Mentions
    <3>2. \A k \in KeysOf(m) : Base(y.special_queue, f, m, k) = f[k]
      BY <2>1, <1>3 DEF Base, Has
    <3> QED
      BY <3>1, <3>2, <2>2, <2>5, <2>6, <2>7 DEF Exact
  <2>11. WithinLink(y, m, z)
    BY <2>4, <1>3 DEF WithinLink
  <2>12. SyncedInTime(y, m, z)
    <3>1. \A j \in DOMAIN y.writer : y.writer[j].type = "Synced" =>
            up.send_synced # NotLinked /\ y.writer[j].due = up.send_synced
      BY <2>1, <2>2, WriteForNotes
    <3>2. f # NotLinked
      BY <1>3
    <3>3. up.send_synced # NotLinked /\ m \notin SupplyLanes =>
            \A k \in KeysOf(m) : up.send_synced[k] <= f[k]
      BY <2>3, <2>5, <1>7
    <3> QED
      BY <3>1, <3>2, <3>3, <2>6 DEF SyncedInTime
  <2>13. InOrder(y, m, z)
    BY <2>5, <2>6 DEF InOrder
  <2> QED
    BY <2>9, <2>10, <2>11, <2>12, <2>13 DEF Good
<1>12. ASSUME NEW l \in AllLanes, NEW i \in DOMAIN x.write_queue, PopsFrom(x, y, i, l), l # m
       PROVE  Good(y, L, m, s, z)
  <2> DEFINE gone == \E j \in DOMAIN x.write_queue : j < i /\ x.write_queue[j] = m
             rest == \E j \in DOMAIN x.write_queue : j > i /\ x.write_queue[j] = m
  <2>1. /\ q = <<>> /\ y.special_queue = <<>> /\ HasWrite(x, l) /\ x.write_queue[i] = l
        /\ gone => ~HasWrite(x, m)
        /\ y.writer = WriteFor(l, x.uplinks[l])
        /\ Skipped(x, y, m, gone) /\ (Waits(y, m) <=> rest)
    BY <1>12 DEF PopsFrom, q
  <2>2. WriteOf(y.writer, l)
    <3>1. x.uplinks[l] \in UplinkRecords
      BY <2>1 DEF StructOK, HasWrite
    <3> QED
      BY <3>1, <2>1, WriteForNotes
  <2>3. Waits(x, m) <=> gone \/ rest
    <3>1. ASSUME NEW j \in DOMAIN x.write_queue, x.write_queue[j] = m
          PROVE  gone \/ rest
      <4>1. j # i
        BY <3>1, <2>1, <1>12
      <4>2. j \in Nat /\ i \in Nat
        BY DEF StructOK
      <4>3. j < i \/ j > i
        BY <4>1, <4>2
      <4> QED
        BY <4>3, <3>1
    <3> QED
      BY <3>1 DEF Waits
  <2> HIDE DEF gone, rest
  <2>4. Backlog(y, m) = Backlog(x, m) /\ Due(y, m) = Due(x, m)
    BY <2>1 DEF Skipped, Backlog, Due
  <2>5. Counted(y, m) => Waits(y, m)
    BY <2>1, <2>3, <1>6 DEF Skipped, Counted, HasWrite
  <2>6. Backlog(y, m) # <<>> \/ Due(y, m) # NotLinked => Counted(y, m)
    <3> SUFFICES ASSUME Backlog(x, m) # <<>> \/ Due(x, m) # NotLinked
                 PROVE  Counted(y, m)
      BY <2>4
    <3>1. Counted(x, m)
      BY <1>6
    <3>2. HasWrite(x, m)
      BY <3>1 DEF Counted, HasWrite, Backlog, Due
    <3> QED
      BY <3>1, <3>2, <2>1 DEF Skipped, Counted
  <2>7. Queued(y, L, m) /\ DueIsPushed(y, m, s)
    <3>1. y.uplinks[m] # NoUplink /\ Waits(y, m) => m \in L
      BY <2>1, <2>3, <1>6 DEF Skipped
    <3> QED
      BY <3>1, <2>4, <2>5, <2>6, <1>6 DEF Good, Queued, DueIsPushed
  <2>8. /\ m \in L <=> z # NotLinked
        /\ \A k \in KeysOf(m) : Owes(m, Backlog(y, m), k, IF z = NotLinked THEN 0 ELSE z[k], s)
    BY <2>1, <2>4, <1>2, <1>5
  <2> QED
    BY <2>1, <2>2, <2>7, <2>8, <1>1, <1>2, <1>12, OtherWrite
<1> QED
  BY <1>8, <1>9, <1>10, <1>11, <1>12 DEF y, z


-----------------------------------------------------------------------------
LEMMA Begins == UplinksInit => IInv
<1> SUFFICES ASSUME UplinksInit
             PROVE  IInv
  OBVIOUS
<1>1. /\ u = NewUplinks /\ linked = {} /\ agentLanes \in LaneSets
      /\ version = [l \in AllLanes |-> 0]
      /\ state = [l \in AllLanes |-> Nothing(l)]
      /\ syncing = [l \in AllLanes |-> NotSyncing]
      /\ sent = [l \in AllLanes |-> Nothing(l)]
      /\ view = [l \in AllLanes |-> NotLinked]
  BY DEF UplinksInit
<1>2. /\ u.writer = Home /\ u.uplinks = [l \in AllLanes |-> NoUplink]
      /\ u.write_queue = <<>> /\ u.special_queue = <<>>
  BY <1>1 DEF NewUplinks
<1>3. StructOK(u)
  <2>1. u = [writer |-> u.writer, uplinks |-> u.uplinks,
             write_queue |-> u.write_queue, special_queue |-> u.special_queue]
    BY <1>1, <1>2 DEF NewUplinks
  <2>2. OfLanes(Home) /\ <<>> \in Seq(AllLanes) /\ <<>> \in Seq(Specials)
    BY DEF OfLanes, Home
  <2> QED
    BY <2>1, <2>2, <1>2 DEF StructOK
<1>4. LanesOK
  <2>1. agentLanes \subseteq AllLanes
    BY <1>1, LanesAssumption
  <2>2. \A l \in AllLanes : Emitted(l, sent[l], state[l], version[l])
    BY <1>1, KeysFacts DEF Emitted
  <2> QED
    BY <2>1, <2>2, <1>1, KeysFacts DEF LanesOK
<1>5. ASSUME NEW l \in AllLanes
      PROVE  Good(u, linked, l, sent[l], view[l])
  <2>1. sent[l] = Nothing(l) /\ view[l] = NotLinked /\ l \notin linked
    BY <1>1
  <2>2. ~Waits(u, l) /\ ~Counted(u, l) /\ Backlog(u, l) = <<>> /\ Due(u, l) = NotLinked
    BY <1>2 DEF Waits, Counted, Backlog, Due
  <2>3. After(u, NotLinked, l) = NotLinked
    <3>1. SaysNothing(<<>>, l)
      BY DEF SaysNothing, Has
    <3> QED
      BY <3>1, <1>2, ReceivedNothing DEF After, Home
  <2>4. Queued(u, linked, l) /\ DueIsPushed(u, l, sent[l])
    BY <2>2 DEF Queued, DueIsPushed
  <2>5. \A k \in KeysOf(l) : Owes(l, <<>>, k, 0, Nothing(l))
    BY KeysFacts, OwesNothing
  <2>6. Exact(u, linked, l, sent[l], view[l])
    BY <2>1, <2>2, <2>3, <2>5, <1>2 DEF Exact, Linking, LastLinked, Base
  <2>7. WithinLink(u, l, view[l]) /\ SyncedInTime(u, l, view[l]) /\ InOrder(u, l, view[l])
    BY <2>1, <1>2 DEF WithinLink, SyncedInTime, InOrder, Home
  <2> QED
    BY <2>4, <2>6, <2>7 DEF Good
<1> QED
  BY <1>3, <1>4, <1>5 DEF IInv

\* What the invariant says of one lane.
LEMMA LaneFacts ==
  ASSUME IInv, NEW l \in AllLanes
  PROVE  /\ StructOK(u) /\ Good(u, linked, l, sent[l], view[l])
         /\ sent[l] \in Versions(l) /\ state[l] \in Versions(l)
         /\ view[l] \in Versions(l) \cup {NotLinked}
         /\ version[l] \in Nat /\ Emitted(l, sent[l], state[l], version[l])
         /\ syncing[l] = NotSyncing \/ syncing[l] \subseteq KeysOf(l)
         /\ l \in SupplyLanes => syncing[l] = NotSyncing \/ syncing[l] = {}
         /\ l \notin linked => sent[l] = Nothing(l)
<1>1. StructOK(u) /\ Good(u, linked, l, sent[l], view[l]) /\ LanesOK
  BY DEF IInv
<1>2. l \notin linked => sent[l] = Nothing(l)
  BY <1>1 DEF Good, Exact
<1> QED
  BY <1>1, <1>2 DEF LanesOK

\* A link message to the remote.
LEMMA SpecialStep ==
  ASSUME IInv, NEW a \in Specials
  PROVE  /\ StructOK(PushSpecial(u, a))
         /\ \A m \in AllLanes :
              Good(PushSpecial(u, a), LinksAfter(linked, a), m, SentAfter(sent[m], a, m), view[m])
<1>1. StructOK(u)
  BY DEF IInv
<1>2. StructOK(PushSpecial(u, a))
  BY <1>1, PushSpecialIs
<1>3. ASSUME NEW m \in AllLanes
      PROVE  Good(PushSpecial(u, a), LinksAfter(linked, a), m, SentAfter(sent[m], a, m), view[m])
  <2>1. /\ Good(u, linked, m, sent[m], view[m]) /\ sent[m] \in Versions(m)
        /\ view[m] \in Versions(m) \cup {NotLinked}
    BY LaneFacts
  <2> QED
    BY <1>1, <2>1, PushSpecialKeeps
<1> QED
  BY <1>2, <1>3

LEMMA TargetedStep ==
  ASSUME IInv, NEW l \in AllLanes
  PROVE  /\ StructOK(Targeted(l))
         /\ \A m \in AllLanes : Good(Targeted(l), linked \cup {l}, m, sent[m], view[m])
<1>1. CASE l \in linked
  <2>1. linked \cup {l} = linked /\ Targeted(l) = u
    BY <1>1 DEF Targeted
  <2> QED
    BY <2>1 DEF IInv
<1>2. CASE l \notin linked
  <2> DEFINE a == LinkedNote(l)
  <2>1. Targeted(l) = PushSpecial(u, a)
    BY <1>2 DEF Targeted
  <2>2. a \in Specials /\ a.type = "Linked" /\ a.lane = l
    BY SpecialsFacts
  <2> HIDE DEF a
  <2>3. LinksAfter(linked, a) = linked \cup {l} /\ \A m \in AllLanes : SentAfter(sent[m], a, m) = sent[m]
    BY <2>2 DEF LinksAfter, SentAfter
  <2>4. /\ StructOK(PushSpecial(u, a))
        /\ \A m \in AllLanes :
             Good(PushSpecial(u, a), LinksAfter(linked, a), m, SentAfter(sent[m], a, m), view[m])
    BY <2>2, SpecialStep
  <2> QED
    BY <2>1, <2>3, <2>4
<1> QED
  BY <1>1, <1>2

\* The actions.
LEMMA LinkLaneKeeps ==
  ASSUME IInv, NEW l \in AllLanes, LinkLane(l)
  PROVE  IInv'
<1> DEFINE a == LinkedNote(l)
<1>1. a \in Specials /\ a.type = "Linked" /\ a.lane = l
  BY SpecialsFacts
<1> HIDE DEF a
<1>2. LinksAfter(linked, a) = linked \cup {l} /\ \A m \in AllLanes : SentAfter(sent[m], a, m) = sent[m]
  BY <1>1 DEF LinksAfter, SentAfter
<1>3. /\ linked' = linked \cup {l} /\ u' = PushSpecial(u, a)
      /\ UNCHANGED <<agentLanes, version, state, syncing, sent, view>>
  BY DEF LinkLane, a
<1>4. StructOK(u') /\ \A m \in AllLanes : Good(u', linked', m, sent'[m], view'[m])
  BY <1>1, <1>2, <1>3, SpecialStep
<1>5. LanesOK'
  BY <1>3 DEF IInv, LanesOK
<1> QED
  BY <1>4, <1>5 DEF IInv

LEMMA UnlinkLaneKeeps ==
  ASSUME IInv, NEW l \in AllLanes, UnlinkLane(l)
  PROVE  IInv'
<1> DEFINE a == UnlinkedNote(l)
<1>1. a \in Specials /\ a.type = "Unlinked" /\ a.lane = l
  BY SpecialsFacts
<1> HIDE DEF a
<1>2. /\ linked' = linked \ {l} /\ u' = PushSpecial(u, a) /\ sent' = [sent EXCEPT ![l] = Nothing(l)]
      /\ UNCHANGED <<agentLanes, version, state, syncing, view>>
  BY DEF UnlinkLane, a
<1>3. sent = [m \in AllLanes |-> sent[m]]
  BY DEF IInv, LanesOK
<1>4. sent' = [m \in AllLanes |-> IF m = l THEN Nothing(l) ELSE sent[m]]
  BY <1>2, <1>3
<1>5. LinksAfter(linked, a) = linked' /\ \A m \in AllLanes : SentAfter(sent[m], a, m) = sent'[m]
  BY <1>1, <1>2, <1>4 DEF LinksAfter, SentAfter
<1>6. StructOK(u') /\ \A m \in AllLanes : Good(u', linked', m, sent'[m], view'[m])
  BY <1>1, <1>2, <1>5, SpecialStep
<1>7. \A m \in AllLanes : sent'[m] \in Versions(m)
  BY <1>4, KeysFacts DEF IInv, LanesOK
<1>8. \A m \in AllLanes : Emitted(m, sent'[m], state[m], version[m])
  <2> SUFFICES ASSUME NEW m \in AllLanes
               PROVE  Emitted(m, sent'[m], state[m], version[m])
    OBVIOUS
  <2>1. Emitted(m, sent[m], state[m], version[m]) /\ state[m] \in Versions(m)
    BY LaneFacts
  <2>2. \A k \in KeysOf(m) : Nothing(m)[k] = 0 /\ state[m][k] \in Nat
    BY <2>1, KeysFacts DEF Versions
  <2> QED
    BY <2>1, <2>2, <1>4 DEF Emitted
<1>9. LanesOK'
  BY <1>2, <1>4, <1>7, <1>8 DEF IInv, LanesOK
<1> QED
  BY <1>6, <1>9 DEF IInv

LEMMA UnknownLaneKeeps ==
  ASSUME IInv, UnknownLane
  PROVE  IInv'
<1> DEFINE a == LaneNotFound
<1>1. a \in Specials /\ a.type = "LaneNotFound"
  BY SpecialsFacts
<1> HIDE DEF a
<1>2. LinksAfter(linked, a) = linked /\ \A m \in AllLanes : SentAfter(sent[m], a, m) = sent[m]
  BY <1>1 DEF LinksAfter, SentAfter
<1>3. u' = PushSpecial(u, a) /\ UNCHANGED <<agentLanes, linked, version, state, syncing, sent, view>>
  BY DEF UnknownLane, a
<1>4. StructOK(u') /\ \A m \in AllLanes : Good(u', linked', m, sent'[m], view'[m])
  BY <1>1, <1>2, <1>3, SpecialStep
<1>5. LanesOK'
  BY <1>3 DEF IInv, LanesOK
<1> QED
  BY <1>4, <1>5 DEF IInv

LEMMA BadLaneEventKeeps ==
  ASSUME IInv, NEW l \in AllLanes, BadLaneEvent(l)
  PROVE  IInv'
<1>1. /\ l \in linked /\ u' = PushBadKey(u, l)
      /\ UNCHANGED <<agentLanes, linked, version, state, syncing, sent, view>>
  BY DEF BadLaneEvent
<1>2. StructOK(u)
  BY DEF IInv
<1>3. StructOK(u') /\ \A m \in AllLanes :
         \A s \in Versions(m), v \in Versions(m) \cup {NotLinked} :
           Good(u, linked, m, s, v) => Good(u', linked, m, s, v)
  BY <1>1, <1>2, PushBadKeyKeeps
<1>4. \A m \in AllLanes : Good(u', linked', m, sent'[m], view'[m])
  BY <1>1, <1>3, LaneFacts
<1>5. LanesOK'
  BY <1>1 DEF IInv, LanesOK
<1> QED
  BY <1>3, <1>4, <1>5 DEF IInv

LEMMA StartSyncKeeps ==
  ASSUME IInv, NEW l \in AllLanes, StartSync(l)
  PROVE  IInv'
<1> DEFINE ks == CASE l \in ValueLanes -> {One}
                   [] l \in SupplyLanes -> {}
                   [] l \in MapLanes -> {k \in Keys : state[l][k] > 0}
<1>1. syncing' = [syncing EXCEPT ![l] = ks] /\ UNCHANGED <<agentLanes, u, linked, version, state, sent, view>>
  BY DEF StartSync
<1>2. ks \subseteq KeysOf(l) /\ (l \in SupplyLanes => ks = {})
  <2>1. CASE l \in ValueLanes
    BY <2>1, LanesAssumption DEF KeysOf
  <2>2. CASE l \in SupplyLanes
    BY <2>2, LanesAssumption DEF KeysOf
  <2>3. CASE l \in MapLanes
    BY <2>3, LanesAssumption DEF KeysOf
  <2> QED
    BY <2>1, <2>2, <2>3 DEF AllLanes
<1> HIDE DEF ks
<1>3. syncing = [m \in AllLanes |-> syncing[m]]
  BY DEF IInv, LanesOK
<1>4. syncing' = [m \in AllLanes |-> IF m = l THEN ks ELSE syncing[m]]
  BY <1>1, <1>3
<1>5. LanesOK'
  BY <1>1, <1>2, <1>4 DEF IInv, LanesOK
<1> QED
  BY <1>1, <1>5 DEF IInv

LEMMA WriteReturnsKeeps ==
  ASSUME IInv, WriteReturns
  PROVE  /\ IInv' /\ \A l \in AllLanes : view'[l] = After(u, view[l], l)
<1>1. /\ view' = [l \in AllLanes |-> After(u, view[l], l)] /\ u' = ReplaceAndPop(u)
      /\ UNCHANGED <<agentLanes, linked, version, state, syncing, sent>>
  BY DEF WriteReturns, After
<1>2. StructOK(u')
  BY <1>1, ReplaceAndPopIs DEF IInv
<1>3. ASSUME NEW m \in AllLanes
      PROVE  /\ Good(u', linked', m, sent'[m], view'[m])
             /\ view'[m] \in Versions(m) \cup {NotLinked} /\ view'[m] = After(u, view[m], m)
  <2>1. /\ StructOK(u) /\ Good(u, linked, m, sent[m], view[m]) /\ sent[m] \in Versions(m)
        /\ view[m] \in Versions(m) \cup {NotLinked}
    BY LaneFacts
  <2>2. Good(ReplaceAndPop(u), linked, m, sent[m], After(u, view[m], m))
    BY <2>1, PopKeeps
  <2> QED
    BY <2>1, <2>2, <1>1 DEF Good, Exact
<1>4. LanesOK'
  BY <1>1, <1>3 DEF IInv, LanesOK
<1> QED
  BY <1>2, <1>3, <1>4 DEF IInv


\* An event of a lane is pushed for a remote that is linked to it.
LEMMA EventStep ==
  ASSUME IInv, NEW l \in AllLanes, NEW x, StructOK(x), NEW L, l \in L,
         \A m \in AllLanes : Good(x, L, m, sent[m], view[m]),
         NEW b, Pushable(l, b, sent[l])
  PROVE  /\ StructOK(PushEvent(x, l, b))
         /\ \A m \in AllLanes :
              Good(PushEvent(x, l, b), L, m, IF m = l THEN Pushed(l, b, sent[l]) ELSE sent[m], view[m])
<1>1. \A m \in AllLanes : sent[m] \in Versions(m) /\ view[m] \in Versions(m) \cup {NotLinked}
  BY LaneFacts
<1>2. Good(x, L, l, sent[l], view[l])
  OBVIOUS
<1>3. /\ StructOK(PushEvent(x, l, b))
      /\ Good(PushEvent(x, l, b), L, l, Pushed(l, b, sent[l]), view[l])
      /\ \A m \in AllLanes :
           \A s2 \in Versions(m), v2 \in Versions(m) \cup {NotLinked} :
             m # l /\ Good(x, L, m, s2, v2) => Good(PushEvent(x, l, b), L, m, s2, v2)
  BY <1>1, <1>2, PushEventKeeps
<1>4. ASSUME NEW m \in AllLanes, m # l
      PROVE  Good(PushEvent(x, l, b), L, m, sent[m], view[m])
  BY <1>1, <1>3, <1>4
<1> QED
  BY <1>3, <1>4

\* The new state of a lane.
Changed(l, f, k, n) == [j \in KeysOf(l) |-> IF k \in {j, All} THEN n ELSE f[j]]

LEMMA LaneEventKeeps ==
  ASSUME IInv, NEW l \in AllLanes, NEW k, k \in KeysOf(l) \/ (l \in MapLanes /\ k = All), LaneEvent(l, k)
  PROVE  IInv'
<1> DEFINE n == version[l] + 1
           b == [key |-> k, version |-> n]
<1>1. /\ sent[l] \in Versions(l) /\ state[l] \in Versions(l) /\ version[l] \in Nat
      /\ Emitted(l, sent[l], state[l], version[l])
      /\ l \notin linked => sent[l] = Nothing(l)
  BY LaneFacts
<1>2. DOMAIN state[l] = KeysOf(l) /\ DOMAIN sent[l] = KeysOf(l)
  BY <1>1 DEF Versions
<1>3. /\ state = [m \in AllLanes |-> state[m]] /\ sent = [m \in AllLanes |-> sent[m]]
      /\ version \in [AllLanes -> Nat]
  BY DEF IInv, LanesOK
<1>4. /\ version' = [version EXCEPT ![l] = n]
      /\ state' = [state EXCEPT ![l] = Changed(l, state[l], k, n)]
      /\ IF l \in linked
           THEN u' = PushEvent(u, l, b) /\ sent' = [sent EXCEPT ![l] = Changed(l, sent[l], k, n)]
           ELSE UNCHANGED <<u, sent>>
      /\ UNCHANGED <<agentLanes, linked, syncing, view>>
  BY <1>2, <1>3 DEF LaneEvent, Changed
<1>5. n \in Nat /\ n > version[l] /\ n > 0
  BY <1>1
<1>6. \A j \in KeysOf(l) : /\ sent[l][j] \in Nat /\ state[l][j] \in Nat
                           /\ sent[l][j] <= state[l][j] /\ state[l][j] <= version[l]
                           /\ l \in SupplyLanes => (sent[l][j] > 0 => sent[l][j] = version[l])
  BY <1>1 DEF Emitted, Versions
<1>7. l \notin MapLanes => KeysOf(l) = {One} /\ k = One
  BY DEF KeysOf
<1>8. l \in SupplyLanes => l \notin MapLanes
  BY LanesAssumption
<1>9. Pushable(l, b, sent[l])
  <2>1. b.key = k /\ b.version = n
    OBVIOUS
  <2>2. k \in Keys \cup {One, All}
    BY KeysFacts
  <2>3. b \in Bodies
    BY <2>2, <1>5 DEF Bodies
  <2> HIDE DEF b, n
  <2>4. \A j \in KeysOf(l) : sent[l][j] <= n
    BY <1>1, <1>5, <1>6
  <2>5. l \in SupplyLanes => n > 0 /\ (sent[l][One] > 0 => n = sent[l][One] + 1)
    <3> SUFFICES ASSUME l \in SupplyLanes, sent[l][One] > 0
                 PROVE  n = sent[l][One] + 1
      BY <1>5
    <3>1. One \in KeysOf(l)
      BY <1>7, <1>8
    <3>2. sent[l][One] = version[l]
      BY <3>1, <1>6
    <3> QED
      BY <3>2 DEF n
  <2> QED
    BY <2>1, <2>3, <2>4, <2>5, <1>7 DEF Pushable
<1>10. Changed(l, sent[l], k, n) = Pushed(l, b, sent[l])
  BY DEF Changed, Pushed, Touches
<1> HIDE DEF b, n
<1>11. StructOK(u') /\ \A m \in AllLanes : Good(u', linked', m, sent'[m], view'[m])
  <2>1. CASE l \in linked
    <3>1. /\ StructOK(u')
          /\ \A m \in AllLanes :
               Good(u', linked, m, IF m = l THEN Pushed(l, b, sent[l]) ELSE sent[m], view[m])
      <4>1. StructOK(u) /\ \A m \in AllLanes : Good(u, linked, m, sent[m], view[m])
        BY DEF IInv
      <4>2. u' = PushEvent(u, l, b)
        BY <2>1, <1>4
      <4> QED
        BY <4>1, <4>2, <2>1, <1>9, EventStep
    <3>2. \A m \in AllLanes : sent'[m] = IF m = l THEN Pushed(l, b, sent[l]) ELSE sent[m]
      BY <2>1, <1>3, <1>4, <1>10
    <3> QED
      BY <3>1, <3>2, <1>4
  <2>2. CASE l \notin linked
    BY <2>2, <1>4 DEF IInv
  <2> QED
    BY <2>1, <2>2
<1>12. /\ state' = [m \in AllLanes |-> IF m = l THEN Changed(l, state[l], k, n) ELSE state[m]]
       /\ version' = [m \in AllLanes |-> IF m = l THEN n ELSE version[m]]
  BY <1>3, <1>4
<1>13. sent' = [m \in AllLanes |-> IF m = l /\ l \in linked THEN Changed(l, sent[l], k, n) ELSE sent[m]]
  <2>1. CASE l \in linked
    BY <2>1, <1>3, <1>4
  <2>2. CASE l \notin linked
    BY <2>2, <1>3, <1>4
  <2> QED
    BY <2>1, <2>2
<1>14. Changed(l, state[l], k, n) \in Versions(l) /\ Changed(l, sent[l], k, n) \in Versions(l)
  BY <1>5, <1>6 DEF Changed, Versions
<1>15. Emitted(l, sent'[l], state'[l], version'[l])
  <2>1. \A j \in KeysOf(l) :
          /\ state'[l][j] = IF k \in {j, All} THEN n ELSE state[l][j]
          /\ sent'[l][j] = IF l \in linked /\ k \in {j, All} THEN n ELSE sent[l][j]
    BY <1>12, <1>13 DEF Changed
  <2>2. version'[l] = n
    BY <1>12
  <2>3. ASSUME NEW j \in KeysOf(l)
        PROVE  /\ sent'[l][j] <= state'[l][j] /\ state'[l][j] <= n
               /\ l \in SupplyLanes => state'[l][j] = n /\ (sent'[l][j] > 0 => sent'[l][j] = n)
    <3>1. sent'[l][j] <= state'[l][j] /\ state'[l][j] <= n
      BY <2>1, <1>1, <1>5, <1>6
    <3>2. ASSUME l \in SupplyLanes
          PROVE  state'[l][j] = n /\ (sent'[l][j] > 0 => sent'[l][j] = n)
      <4>1. k = j
        BY <3>2, <1>7, <1>8
      <4>2. l \notin linked => sent[l][j] = 0
        BY <1>1, KeysFacts
      <4> QED
        BY <4>1, <4>2, <2>1
    <3> QED
      BY <3>1, <3>2
  <2> QED
    BY <2>2, <2>3 DEF Emitted
<1>16. ASSUME NEW m \in AllLanes
       PROVE  /\ state'[m] \in Versions(m) /\ sent'[m] \in Versions(m) /\ version'[m] \in Nat
              /\ Emitted(m, sent'[m], state'[m], version'[m])
  <2>1. CASE m = l
    BY <2>1, <1>5, <1>1, <1>12, <1>13, <1>14, <1>15
  <2>2. CASE m # l
    BY <2>2, <1>12, <1>13, LaneFacts
  <2> QED
    BY <2>1, <2>2
<1>17. LanesOK'
  <2>1. version' \in [AllLanes -> Nat]
    BY <1>12, <1>16
  <2>2. state' = [m \in AllLanes |-> state'[m]] /\ sent' = [m \in AllLanes |-> sent'[m]]
    BY <1>12, <1>13
  <2> QED
    BY <2>1, <2>2, <1>4, <1>16 DEF IInv, LanesOK
<1> QED
  BY <1>11, <1>17 DEF IInv

LEMMA SyncEventKeeps ==
  ASSUME IInv, NEW l \in AllLanes, NEW k \in KeysOf(l), SyncEvent(l, k)
  PROVE  IInv'
<1> DEFINE b == [key |-> k, version |-> state[l][k]]
<1>1. /\ linked' = linked \cup {l} /\ k \in syncing[l]
      /\ u' = PushEvent(Targeted(l), l, b)
      /\ sent' = [sent EXCEPT ![l][k] = state[l][k]]
      /\ syncing' = [syncing EXCEPT ![l] = @ \ {k}]
      /\ UNCHANGED <<agentLanes, version, state, view>>
  BY DEF SyncEvent
<1>2. /\ sent[l] \in Versions(l) /\ state[l] \in Versions(l) /\ version[l] \in Nat
      /\ Emitted(l, sent[l], state[l], version[l])
      /\ syncing[l] = NotSyncing \/ syncing[l] \subseteq KeysOf(l)
      /\ l \in SupplyLanes => syncing[l] = NotSyncing \/ syncing[l] = {}
  BY LaneFacts
<1>3. k # All
  BY KeysFacts
<1>4. l \notin SupplyLanes /\ syncing[l] \subseteq KeysOf(l)
  BY <1>1, <1>2, <1>3 DEF NotSyncing
<1>5. sent = [m \in AllLanes |-> sent[m]] /\ syncing = [m \in AllLanes |-> syncing[m]]
  BY DEF IInv, LanesOK
<1>6. \A j \in KeysOf(l) : sent[l][j] \in Nat /\ state[l][j] \in Nat /\ sent[l][j] <= state[l][j]
  BY <1>2 DEF Emitted, Versions
<1>7. b.key = k /\ b.version = state[l][k]
  OBVIOUS
<1>8. \A j \in KeysOf(l) : Touches(b, j) <=> j = k
  BY <1>3 DEF Touches
<1>9. Pushable(l, b, sent[l])
  <2>1. k \in Keys \cup {One, All}
    BY KeysFacts
  <2>2. b \in Bodies
    BY <2>1, <1>6 DEF Bodies
  <2>3. l \notin MapLanes => k = One
    BY DEF KeysOf
  <2> HIDE DEF b
  <2> QED
    BY <2>2, <2>3, <1>4, <1>6, <1>7, <1>8 DEF Pushable
<1> HIDE DEF b
<1>10. sent' = [m \in AllLanes |-> IF m = l THEN Pushed(l, b, sent[l]) ELSE sent[m]]
  <2>1. Pushed(l, b, sent[l]) = [sent[l] EXCEPT ![k] = state[l][k]]
    BY <1>2, <1>7, <1>8 DEF Pushed, Versions
  <2> QED
    BY <2>1, <1>1, <1>5
<1>11. StructOK(u') /\ \A m \in AllLanes : Good(u', linked', m, sent'[m], view'[m])
  <2>1. /\ StructOK(Targeted(l))
        /\ \A m \in AllLanes : Good(Targeted(l), linked', m, sent[m], view[m])
    BY <1>1, TargetedStep
  <2>2. l \in linked'
    BY <1>1
  <2>3. /\ StructOK(u')
        /\ \A m \in AllLanes :
             Good(u', linked', m, IF m = l THEN Pushed(l, b, sent[l]) ELSE sent[m], view[m])
    BY <2>1, <2>2, <1>1, <1>9, EventStep
  <2> QED
    BY <2>3, <1>1, <1>10
<1>12. Pushed(l, b, sent[l]) \in Versions(l) /\ Emitted(l, Pushed(l, b, sent[l]), state[l], version[l])
  <2>1. \A j \in KeysOf(l) : Pushed(l, b, sent[l])[j] = IF j = k THEN state[l][k] ELSE sent[l][j]
    BY <1>7, <1>8 DEF Pushed
  <2>2. Emitted(l, Pushed(l, b, sent[l]), state[l], version[l])
    BY <2>1, <1>2, <1>4, <1>6 DEF Emitted
  <2> QED
    BY <2>2, <1>2, <1>9, PushedFacts
<1>13. syncing' = [m \in AllLanes |-> IF m = l THEN syncing[l] \ {k} ELSE syncing[m]]
  BY <1>1, <1>5
<1>14. \A m \in AllLanes :
         /\ sent'[m] \in Versions(m) /\ Emitted(m, sent'[m], state[m], version[m])
         /\ syncing'[m] = NotSyncing \/ syncing'[m] \subseteq KeysOf(m)
         /\ m \in SupplyLanes => syncing'[m] = NotSyncing \/ syncing'[m] = {}
  BY <1>4, <1>10, <1>12, <1>13, LaneFacts
<1>15. LanesOK'
  <2>1. sent' = [m \in AllLanes |-> sent'[m]] /\ syncing' = [m \in AllLanes |-> syncing'[m]]
    BY <1>10, <1>13
  <2>2. linked' \subseteq AllLanes
    BY <1>1 DEF IInv, LanesOK
  <2> QED
    BY <2>1, <2>2, <1>1, <1>14 DEF IInv, LanesOK
<1> QED
  BY <1>11, <1>15 DEF IInv

LEMMA SyncDoneKeeps ==
  ASSUME IInv, NEW l \in AllLanes, SyncDone(l)
  PROVE  IInv'
<1>1. /\ linked' = linked \cup {l}
      /\ u' = PushSynced(Targeted(l), l, sent[l])
      /\ syncing' = [syncing EXCEPT ![l] = NotSyncing]
      /\ UNCHANGED <<agentLanes, version, state, sent, view>>
  BY DEF SyncDone
<1>2. /\ StructOK(Targeted(l)) /\ l \in linked'
      /\ \A m \in AllLanes : Good(Targeted(l), linked', m, sent[m], view[m])
  BY <1>1, TargetedStep
<1>3. \A m \in AllLanes : sent[m] \in Versions(m) /\ view[m] \in Versions(m) \cup {NotLinked}
  BY LaneFacts
<1>4. Good(Targeted(l), linked', l, sent[l], view[l])
  BY <1>2
<1>5. /\ StructOK(u')
      /\ Good(u', linked', l, sent[l], view[l])
      /\ \A m \in AllLanes :
           \A s2 \in Versions(m), v2 \in Versions(m) \cup {NotLinked} :
             m # l /\ Good(Targeted(l), linked', m, s2, v2) => Good(u', linked', m, s2, v2)
  BY <1>1, <1>2, <1>3, <1>4, PushSyncedKeeps
<1>6. \A m \in AllLanes : Good(u', linked', m, sent'[m], view'[m])
  BY <1>1, <1>2, <1>3, <1>5
<1>7. syncing = [m \in AllLanes |-> syncing[m]]
  BY DEF IInv, LanesOK
<1>8. syncing' = [m \in AllLanes |-> IF m = l THEN NotSyncing ELSE syncing[m]]
  BY <1>1, <1>7
<1>9. LanesOK'
  BY <1>1, <1>8 DEF IInv, LanesOK
<1> QED
  BY <1>5, <1>6, <1>9 DEF IInv


-----------------------------------------------------------------------------
\* Every step keeps the invariant.
LEMMA Steps == IInv /\ [UplinksNext]_uplinkVars => IInv'
<1> SUFFICES ASSUME IInv, [UplinksNext]_uplinkVars
             PROVE  IInv'
  OBVIOUS
<1>1. agentLanes \subseteq AllLanes
  BY DEF IInv, LanesOK
<1>2. ASSUME NEW l \in agentLanes, LinkLane(l)
      PROVE  IInv'
  BY <1>1, <1>2, LinkLaneKeeps
<1>3. ASSUME NEW l \in agentLanes, UnlinkLane(l)
      PROVE  IInv'
  BY <1>1, <1>3, UnlinkLaneKeeps
<1>4. ASSUME NEW l \in agentLanes, StartSync(l)
      PROVE  IInv'
  BY <1>1, <1>4, StartSyncKeeps
<1>5. ASSUME NEW l \in agentLanes, SyncDone(l)
      PROVE  IInv'
  BY <1>1, <1>5, SyncDoneKeeps
<1>6. ASSUME NEW l \in agentLanes \cap MapLanes, BadLaneEvent(l)
      PROVE  IInv'
  BY <1>1, <1>6, BadLaneEventKeeps
<1>7. ASSUME NEW l \in agentLanes, NEW k \in KeysOf(l), LaneEvent(l, k)
      PROVE  IInv'
  BY <1>1, <1>7, LaneEventKeeps
<1>8. ASSUME NEW l \in agentLanes, NEW k \in KeysOf(l), SyncEvent(l, k)
      PROVE  IInv'
  BY <1>1, <1>8, SyncEventKeeps
<1>9. ASSUME NEW l \in agentLanes \cap MapLanes, LaneEvent(l, All)
      PROVE  IInv'
  BY <1>1, <1>9, LaneEventKeeps
<1>10. ASSUME UnknownLane
       PROVE  IInv'
  BY <1>10, UnknownLaneKeeps
<1>11. ASSUME WriteReturns
       PROVE  IInv'
  BY <1>11, WriteReturnsKeeps
<1>12. ASSUME UNCHANGED uplinkVars
       PROVE  IInv'
  BY <1>12 DEF uplinkVars, IInv, LanesOK
<1> QED
  BY <1>2, <1>3, <1>4, <1>5, <1>6, <1>7, <1>8, <1>9, <1>10, <1>11, <1>12 DEF UplinksNext

-----------------------------------------------------------------------------
\* What empties a remote: a write with no event of the lane, and one with a last event.
LEMMA EmptiedByNone ==
  ASSUME NEW E, NEW w, NEW l \in AllLanes,
         \A i \in DOMAIN w : ~(w[i].type = "Event" /\ w[i].lane = l)
  PROVE  Emptied(E, w, l) <=> ~Has(w, "Unlinked", l) /\ l \in E
  BY DEF Emptied

LEMMA EmptiedByLast ==
  ASSUME NEW E, NEW w, NEW l \in AllLanes, NEW i \in DOMAIN w, DOMAIN w \subseteq Nat,
         w[i].type = "Event", w[i].lane = l,
         \A j \in DOMAIN w : w[j].type = "Event" /\ w[j].lane = l => j <= i
  PROVE  Emptied(E, w, l) => w[i].body = NoBody
<1> DEFINE on == {j \in DOMAIN w : w[j].type = "Event" /\ w[j].lane = l}
<1>1. i \in on /\ on \subseteq Nat /\ \A j \in on : j <= i
  OBVIOUS
<1>2. ASSUME Emptied(E, w, l)
      PROVE  w[i].body = NoBody
  <2>1. PICK j \in on : w[j].body = NoBody /\ \A h \in on : h <= j
    BY <1>1, <1>2 DEF Emptied
  <2>2. j = i
    BY <1>1, <2>1
  <2> QED
    BY <2>1, <2>2
<1> QED
  BY <1>2

\* A write that a push begins at once, and the writer at home.
LEMMA HomeIsEmptied ==
  ASSUME NEW E, NEW l \in AllLanes
  PROVE  Emptied(E, Home, l) <=> l \in E
<1>1. DOMAIN Home = {}
  BY DEF Home
<1> QED
  BY <1>1, EmptiedByNone DEF Has

\* An event at once.
LEMMA OneEvent ==
  ASSUME NEW E, NEW m \in AllLanes, NEW b, b # NoBody, NEW l \in AllLanes, NEW G, NEW y,
         y.writer = <<EventNote(m, b)>>
  PROVE  /\ EmptyKnown(y, G, l) /\ SyncKnown(y, E, l)
         /\ Emptied(E, y.writer, l) <=> l # m /\ l \in E
<1> DEFINE w == y.writer
<1>1. DOMAIN w = {1} /\ w[1].type = "Event" /\ w[1].lane = m /\ w[1].body = b
  BY NoteFacts
<1> HIDE DEF w
<1>2. ~Has(w, "Unlinked", l)
  BY <1>1 DEF Has
<1>3. EmptyKnown(y, G, l) /\ SyncKnown(y, E, l)
  BY <1>1 DEF EmptyKnown, SyncKnown, w
<1>4. Emptied(E, w, l) <=> l # m /\ l \in E
  <2>1. CASE l = m
    BY <2>1, <1>1, EmptiedByLast
  <2>2. CASE l # m
    BY <2>2, <1>1, <1>2, EmptiedByNone
  <2> QED
    BY <2>1, <2>2
<1> QED
  BY <1>3, <1>4 DEF w

\* A write without an event.
LEMMA NoEvent ==
  ASSUME NEW E, NEW l \in AllLanes, NEW G, NEW y,
         \A i \in DOMAIN y.writer : y.writer[i].type # "Event"
  PROVE  /\ EmptyKnown(y, G, l)
         /\ Emptied(E, y.writer, l) <=> ~Has(y.writer, "Unlinked", l) /\ l \in E
  BY EmptiedByNone DEF EmptyKnown

LEMMA OneSpecial ==
  ASSUME NEW E, NEW l \in AllLanes, NEW G, NEW a \in Specials, NEW y, y.writer = <<a>>
  PROVE  /\ EmptyKnown(y, G, l) /\ SyncKnown(y, E, l)
         /\ Emptied(E, y.writer, l) => l \in E
<1>1. DOMAIN y.writer = {1} /\ y.writer[1] = a
  OBVIOUS
<1>2. \A i \in DOMAIN y.writer : y.writer[i].type \notin {"Event", "Synced"}
  BY <1>1, SpecialsFacts
<1> QED
  BY <1>2, NoEvent DEF SyncKnown

\* While the writer is home no lane waits.
LEMMA HomeWaits ==
  ASSUME NEW x, StructOK(x), x.writer = Home, NEW L, NEW l \in AllLanes, Queued(x, L, l)
  PROVE  /\ x.write_queue = <<>> /\ ~Waits(x, l) /\ ~Counted(x, l)
         /\ Backlog(x, l) = <<>> /\ Due(x, l) = NotLinked
  BY DEF StructOK, Waits, Queued

\* What is kept when the writer and the queues of a lane are.
LEMMA SameEmpty ==
  ASSUME NEW x, NEW y, NEW E, NEW G, NEW H, G \subseteq H, NEW l \in AllLanes, EmptyOK(x, E, G, l),
         y.writer = x.writer, y.write_queue = x.write_queue, y.uplinks[l] = x.uplinks[l]
  PROVE  EmptyOK(y, E, H, l) /\ (Fresh(x, E, l) => Fresh(y, E, l))
<1>1. Backlog(y, l) = Backlog(x, l) /\ Due(y, l) = Due(x, l) /\ (Waits(y, l) <=> Waits(x, l))
  BY DEF Backlog, Due, Waits
<1>2. EmptyKnown(y, H, l)
  BY DEF EmptyOK, EmptyKnown
<1>3. l \notin H \cup SupplyLanes => Placed(y, l)
  BY <1>1 DEF EmptyOK, Placed
<1>4. l \in ValueLanes \ H => SyncKnown(y, E, l)
  BY DEF EmptyOK, SyncKnown
<1>5. Fresh(x, E, l) => Fresh(y, E, l)
  BY <1>1 DEF Fresh
<1> QED
  BY <1>2, <1>3, <1>4, <1>5 DEF EmptyOK

\* A link message.
LEMMA SpecialKeepsEmpty ==
  ASSUME NEW x, StructOK(x), NEW L, NEW l \in AllLanes, Queued(x, L, l), NEW a \in Specials,
         NEW E, NEW G, NEW H, G \subseteq H, EmptyOK(x, E, G, l),
         a.type = "Unlinked" /\ a.lane = l /\ l \notin SupplyLanes /\ Waits(x, l) => l \in H
  PROVE  /\ EmptyOK(PushSpecial(x, a), E, H, l)
         /\ l \in ValueLanes \ H /\ Fresh(x, E, l) => Fresh(PushSpecial(x, a), E, l)
<1> DEFINE y == PushSpecial(x, a)
<1>1. /\ StructOK(y) /\ y.write_queue = x.write_queue
      /\ x.writer = Home => y.writer = <<a>> /\ y.uplinks = x.uplinks
      /\ x.writer # Home => y.writer = x.writer /\ y.uplinks = PurgeOnUnlink(x, a)
  BY PushSpecialIs
<1>2. x.uplinks \in [AllLanes -> UplinkRecords \cup {NoUplink}]
  BY DEF StructOK
<1> HIDE DEF y
<1>3. CASE x.writer = Home
  <2>1. /\ x.write_queue = <<>> /\ ~Waits(x, l) /\ Backlog(x, l) = <<>> /\ Due(x, l) = NotLinked
    BY <1>3, HomeWaits
  <2>2. Backlog(y, l) = <<>> /\ Due(y, l) = NotLinked /\ ~Waits(y, l) /\ y.write_queue = <<>>
    BY <2>1, <1>1, <1>3 DEF Backlog, Due, Waits
  <2>3. /\ EmptyKnown(y, H, l) /\ SyncKnown(y, E, l)
        /\ Emptied(E, y.writer, l) => l \in E
    BY <1>1, <1>3, OneSpecial
  <2>4. Placed(y, l)
    BY <2>2 DEF Placed
  <2>5. Fresh(x, E, l) => Fresh(y, E, l)
    BY <2>1, <2>2, <2>3, <1>3, HomeIsEmptied DEF Fresh
  <2> QED
    BY <2>3, <2>4, <2>5 DEF EmptyOK, y
<1>4. CASE x.writer # Home /\ ~(a.type = "Unlinked" /\ a.lane = l)
  <2>1. y.uplinks[l] = x.uplinks[l]
    BY <1>1, <1>2, <1>4 DEF PurgeOnUnlink
  <2> QED
    BY <2>1, <1>1, <1>4, SameEmpty DEF y
<1>5. CASE x.writer # Home /\ a.type = "Unlinked" /\ a.lane = l
  <2>1. y.uplinks[l] = NoUplink
    BY <1>1, <1>2, <1>5 DEF PurgeOnUnlink
  <2>2. Backlog(y, l) = <<>> /\ Due(y, l) = NotLinked /\ (Waits(y, l) <=> Waits(x, l))
    BY <2>1, <1>1 DEF Backlog, Due, Waits
  <2>3. EmptyKnown(y, H, l) /\ (l \in ValueLanes \ H => SyncKnown(y, E, l))
    BY <1>1, <1>5 DEF EmptyOK, EmptyKnown, SyncKnown
  <2>4. ASSUME l \notin H \cup SupplyLanes
        PROVE  Placed(y, l) /\ ~Waits(x, l)
    <3>1. ~Waits(x, l)
      BY <2>4, <1>5
    <3> QED
      BY <3>1, <2>2, <1>1 DEF Placed, Waits
  <2>5. ASSUME l \in ValueLanes \ H, Fresh(x, E, l)
        PROVE  Fresh(y, E, l)
    <3>1. l \notin SupplyLanes
      BY <2>5, LanesAssumption
    <3>2. Backlog(x, l) = <<>>
      BY <2>4, <2>5, <3>1 DEF Queued
    <3> QED
      BY <3>2, <2>2, <2>5, <1>1, <1>5 DEF Fresh
  <2> QED
    BY <2>3, <2>4, <2>5 DEF EmptyOK, y
<1> QED
  BY <1>3, <1>4, <1>5

\* A lane that takes its place: its queues, and its places in write_queue.
LEMMA EnqueuePlaces ==
  ASSUME NEW x, StructOK(x), x.writer # Home, NEW m \in AllLanes, NEW up \in UplinkRecords,
         up.queued <=> Counted(x, m), NEW L, Queued(x, L, m),
         up.backpressure # <<>> \/ up.send_synced # NotLinked,
         NEW l \in AllLanes, NEW E, NEW G, EmptyOK(x, E, G, l)
  PROVE  /\ EmptyOK(Enqueue(x, m, up), E, G, l)
         /\ l # m /\ Fresh(x, E, l) => Fresh(Enqueue(x, m, up), E, l)
<1> DEFINE y == Enqueue(x, m, up)
<1>1. /\ y.writer = x.writer
      /\ l # m => y.uplinks[l] = x.uplinks[l] /\ (Waits(y, l) <=> Waits(x, l))
      /\ Backlog(y, m) = up.backpressure /\ Due(y, m) = up.send_synced
  BY EnqueueIs DEF Queued
<1>2. y.write_queue = IF up.queued THEN x.write_queue ELSE Append(x.write_queue, m)
  <2>1. x = [writer |-> x.writer, uplinks |-> x.uplinks,
             write_queue |-> x.write_queue, special_queue |-> x.special_queue]
    BY DEF StructOK
  <2>2. y = [[x EXCEPT !.uplinks[m] = [up EXCEPT !.queued = TRUE]] EXCEPT
               !.write_queue = IF up.queued THEN @ ELSE Append(@, m)]
    BY DEF Enqueue
  <2> DEFINE z == [x EXCEPT !.uplinks[m] = [up EXCEPT !.queued = TRUE]]
  <2>3. z.write_queue = x.write_queue /\ DOMAIN z = {"writer", "uplinks", "write_queue", "special_queue"}
    BY <2>1
  <2> HIDE DEF y, z
  <2> QED
    BY <2>2, <2>3 DEF z
<1> HIDE DEF y
<1>3. EmptyKnown(y, G, l) /\ (l \in ValueLanes \ G => SyncKnown(y, E, l))
  BY <1>1 DEF EmptyOK, EmptyKnown, SyncKnown
<1>4. ASSUME l \notin G \cup SupplyLanes
      PROVE  Placed(y, l)
  <2>1. Placed(x, l) /\ x.write_queue \in Seq(AllLanes)
    BY <1>4 DEF EmptyOK, StructOK
  <2>2. CASE l # m
    <3>1. Backlog(y, l) = Backlog(x, l) /\ Due(y, l) = Due(x, l)
      BY <2>2, <1>1 DEF Backlog, Due
    <3>2. ASSUME NEW i \in DOMAIN y.write_queue, NEW j \in DOMAIN y.write_queue,
                 y.write_queue[i] = l, y.write_queue[j] = l
          PROVE  i = j
      <4>1. CASE up.queued
        BY <4>1, <3>2, <2>1, <1>2 DEF Placed
      <4>2. CASE ~up.queued
        BY <4>2, <3>2, <2>1, <2>2, <1>2, AppendFacts DEF Placed
      <4> QED
        BY <4>1, <4>2
    <3> QED
      BY <3>1, <3>2, <2>1, <2>2, <1>1 DEF Placed
  <2>3. CASE l = m
    <3>1. ASSUME NEW i \in DOMAIN y.write_queue, NEW j \in DOMAIN y.write_queue,
                 y.write_queue[i] = l, y.write_queue[j] = l
          PROVE  i = j
      <4>1. CASE up.queued
        BY <4>1, <3>1, <2>1, <1>2 DEF Placed
      <4>2. CASE ~up.queued
        <5>1. ~Waits(x, l)
          BY <4>2, <2>1, <2>3 DEF Placed, Queued
        <5> QED
          BY <5>1, <4>2, <3>1, <2>1, <1>2, AppendFacts DEF Waits
      <4> QED
        BY <4>1, <4>2
    <3> QED
      BY <3>1, <2>3, <1>1 DEF Placed
  <2> QED
    BY <2>2, <2>3
<1>5. l # m /\ Fresh(x, E, l) => Fresh(y, E, l)
  BY <1>1 DEF Fresh, Backlog, Due
<1> QED
  BY <1>3, <1>4, <1>5 DEF EmptyOK, y

LEMMA PushBytesSome ==
  ASSUME NEW l \in AllLanes, NEW bp \in Seq(Bodies), NEW b \in Bodies
  PROVE  PushBytes(l, bp, b) \in Seq(Bodies) /\ PushBytes(l, bp, b) # <<>>
<1>1. CASE l \in ValueLanes
  BY <1>1 DEF PushBytes
<1>2. CASE l \in SupplyLanes
  <2>1. PushBytes(l, bp, b) = Append(bp, b)
    BY <1>2, LanesAssumption DEF PushBytes
  <2> QED
    BY <2>1, AppendFacts
<1>3. CASE l \in MapLanes
  <2> DEFINE c == [i \in DOMAIN bp |-> IF bp[i].key = b.key THEN b ELSE bp[i]]
  <2>1. PushBytes(l, bp, b) = IF b.key = All THEN <<b>>
                              ELSE IF \E i \in DOMAIN bp : bp[i].key = b.key THEN c ELSE Append(bp, b)
    BY <1>3, LanesAssumption DEF PushBytes
  <2>2. Append(bp, b) \in Seq(Bodies) /\ Append(bp, b) # <<>> /\ <<b>> \in Seq(Bodies)
    BY AppendFacts
  <2>3. (\E i \in DOMAIN bp : bp[i].key = b.key) => c # <<>>
    <3>1. DOMAIN c = DOMAIN bp /\ DOMAIN <<>> = {}
      OBVIOUS
    <3> HIDE DEF c
    <3> QED
      BY <3>1
  <2>4. c \in Seq(Bodies)
    <3>1. DOMAIN bp = 1..Len(bp) /\ Len(bp) \in Nat /\ \A i \in DOMAIN bp : bp[i] \in Bodies
      OBVIOUS
    <3>2. c \in [1..Len(bp) -> Bodies]
      BY <3>1
    <3> HIDE DEF c
    <3> QED
      BY <3>1, <3>2
  <2> HIDE DEF c
  <2> QED
    BY <2>1, <2>2, <2>3, <2>4
<1> QED
  BY <1>1, <1>2, <1>3 DEF AllLanes

\* An event, of lane m.
LEMMA EventKeepsEmpty ==
  ASSUME NEW x, StructOK(x), NEW L, NEW m \in AllLanes, Queued(x, L, m), NEW b \in Bodies,
         NEW l \in AllLanes, Queued(x, L, l), NEW E, NEW G, EmptyOK(x, E, G, l)
  PROVE  /\ EmptyOK(PushEvent(x, m, b), E, G, l)
         /\ l = m \/ Fresh(x, E, l) => Fresh(PushEvent(x, m, b), E, l)
<1> DEFINE y == PushEvent(x, m, b)
           up == [Entry(x, m) EXCEPT !.backpressure = PushBytes(m, @, b)]
<1>1. CASE x.writer = Home
  <2>1. y = [x EXCEPT !.writer = <<EventNote(m, b)>>]
    BY <1>1 DEF PushEvent
  <2> HIDE DEF y
  <2>2. /\ y.writer = <<EventNote(m, b)>> /\ y.uplinks = x.uplinks /\ y.write_queue = x.write_queue
    BY <2>1 DEF StructOK
  <2>3. x.write_queue = <<>> /\ Backlog(x, l) = <<>> /\ Due(x, l) = NotLinked
    BY <1>1, HomeWaits
  <2>4. Backlog(y, l) = <<>> /\ Due(y, l) = NotLinked /\ y.write_queue = <<>>
    BY <2>2, <2>3 DEF Backlog, Due
  <2>5. /\ EmptyKnown(y, G, l) /\ SyncKnown(y, E, l)
        /\ Emptied(E, y.writer, l) <=> l # m /\ l \in E
    BY <2>2, EmptyAssumption, OneEvent
  <2>6. Placed(y, l)
    BY <2>4 DEF Placed, Waits
  <2>7. l = m \/ Fresh(x, E, l) => Fresh(y, E, l)
    BY <2>3, <2>4, <2>5, <1>1, HomeIsEmptied DEF Fresh
  <2> QED
    BY <2>5, <2>6, <2>7 DEF EmptyOK, y
<1>2. CASE x.writer # Home
  <2>1. /\ Entry(x, m) \in UplinkRecords /\ (Entry(x, m).queued <=> Counted(x, m))
    BY EntryFacts
  <2>2. Entry(x, m).backpressure \in Seq(Bodies)
    BY <2>1 DEF UplinkRecords
  <2>3. /\ PushBytes(m, Entry(x, m).backpressure, b) \in Seq(Bodies)
        /\ PushBytes(m, Entry(x, m).backpressure, b) # <<>>
    BY <2>2, PushBytesSome
  <2>4. up \in UplinkRecords /\ up.queued = Entry(x, m).queued
        /\ up.backpressure = PushBytes(m, Entry(x, m).backpressure, b)
    BY <2>1, <2>3 DEF UplinkRecords
  <2>5. y = Enqueue(x, m, up)
    BY <1>2 DEF PushEvent
  <2> HIDE DEF y, up
  <2>6. (up.queued <=> Counted(x, m)) /\ up.backpressure # <<>>
    BY <2>1, <2>3, <2>4
  <2>7. EmptyOK(y, E, G, l) /\ (l # m /\ Fresh(x, E, l) => Fresh(y, E, l))
    BY <2>4, <2>5, <2>6, <1>2, EnqueuePlaces
  <2>8. Backlog(y, m) = up.backpressure
    BY <2>4, <2>5, <2>6, <1>2, EnqueueIs DEF Queued
  <2>9. Fresh(y, E, m)
    BY <2>6, <2>8 DEF Fresh
  <2> QED
    BY <2>7, <2>9 DEF y
<1> QED
  BY <1>1, <1>2

\* A synced message of lane m; it is written at once, or has a body to go with, if the
\* lane sent its state before.
LEMMA SyncedKeepsEmpty ==
  ASSUME NEW x, StructOK(x), NEW L, NEW m \in AllLanes, Queued(x, L, m), NEW d \in Versions(m),
         NEW l \in AllLanes, Queued(x, L, l), NEW E, NEW G, EmptyOK(x, E, G, l),
         m \in ValueLanes \ G => Fresh(x, E, m)
  PROVE  /\ EmptyOK(PushSynced(x, m, d), E, G, l)
         /\ l # m /\ Fresh(x, E, l) => Fresh(PushSynced(x, m, d), E, l)
<1> DEFINE y == PushSynced(x, m, d)
           up == [Entry(x, m) EXCEPT !.send_synced = d]
<1>1. CASE x.writer = Home
  <2>1. y = [x EXCEPT !.writer = <<Synced(m, d)>>]
    BY <1>1 DEF PushSynced
  <2> HIDE DEF y
  <2>2. /\ y.writer = <<Synced(m, d)>> /\ y.uplinks = x.uplinks /\ y.write_queue = x.write_queue
    BY <2>1 DEF StructOK
  <2>3. x.write_queue = <<>> /\ Backlog(x, l) = <<>> /\ Due(x, l) = NotLinked /\ Backlog(x, m) = <<>>
    BY <1>1, HomeWaits
  <2>4. Backlog(y, l) = <<>> /\ Due(y, l) = NotLinked /\ y.write_queue = <<>>
    BY <2>2, <2>3 DEF Backlog, Due
  <2>5. DOMAIN y.writer = {1} /\ y.writer[1].type = "Synced" /\ y.writer[1].lane = m
    BY <2>2, NoteFacts
  <2>6. /\ EmptyKnown(y, G, l)
        /\ Emptied(E, y.writer, l) <=> l \in E
    BY <2>5, NoEvent DEF Has
  <2>7. Placed(y, l)
    BY <2>4 DEF Placed, Waits
  <2>8. m \in ValueLanes \ G => m \notin E
    BY <2>3, <1>1, HomeIsEmptied DEF Fresh
  <2>9. l \in ValueLanes \ G => SyncKnown(y, E, l)
    BY <2>5, <2>6, <2>8 DEF SyncKnown
  <2>10. Fresh(x, E, l) => Fresh(y, E, l)
    BY <2>3, <2>4, <2>6, <1>1, HomeIsEmptied DEF Fresh
  <2> QED
    BY <2>6, <2>7, <2>9, <2>10 DEF EmptyOK, y
<1>2. CASE x.writer # Home
  <2>1. /\ Entry(x, m) \in UplinkRecords /\ (Entry(x, m).queued <=> Counted(x, m))
    BY EntryFacts
  <2>2. d \in Dues /\ d # NotLinked
    BY KeysFacts DEF Dues, Versions, KeysOf
  <2>3. up \in UplinkRecords /\ up.queued = Entry(x, m).queued /\ up.send_synced = d
    BY <2>1, <2>2 DEF UplinkRecords
  <2>4. y = Enqueue(x, m, up)
    BY <1>2 DEF PushSynced
  <2> HIDE DEF y, up
  <2>5. up.queued <=> Counted(x, m)
    BY <2>1, <2>3
  <2>6. EmptyOK(y, E, G, l) /\ (l # m /\ Fresh(x, E, l) => Fresh(y, E, l))
    BY <2>2, <2>3, <2>4, <2>5, <1>2, EnqueuePlaces
  <2> QED
    BY <2>6 DEF y
<1> QED
  BY <1>1, <1>2

\* An event that is refused.
LEMMA BadKeyKeepsEmpty ==
  ASSUME NEW x, StructOK(x), NEW L, NEW m \in AllLanes, NEW l \in AllLanes, Queued(x, L, l),
         NEW E, NEW G, EmptyOK(x, E, G, l)
  PROVE  EmptyOK(PushBadKey(x, m), E, G, l) /\ (Fresh(x, E, l) => Fresh(PushBadKey(x, m), E, l))
<1> DEFINE y == PushBadKey(x, m)
<1>1. CASE x.writer = Home
  <2>1. y = [x EXCEPT !.writer = Lost]
    BY <1>1 DEF PushBadKey
  <2> HIDE DEF y
  <2>2. y.writer = Lost /\ y.uplinks = x.uplinks /\ y.write_queue = x.write_queue
    BY <2>1 DEF StructOK
  <2>3. x.write_queue = <<>> /\ Backlog(x, l) = <<>> /\ Due(x, l) = NotLinked
    BY <1>1, HomeWaits
  <2>4. Backlog(y, l) = <<>> /\ Due(y, l) = NotLinked /\ y.write_queue = <<>>
    BY <2>2, <2>3 DEF Backlog, Due
  <2>5. DOMAIN y.writer = {1} /\ y.writer[1].type = "Lost"
    BY <2>2 DEF Lost
  <2>6. /\ EmptyKnown(y, G, l) /\ SyncKnown(y, E, l)
        /\ Emptied(E, y.writer, l) <=> l \in E
    BY <2>5, NoEvent DEF Has, SyncKnown
  <2>7. Placed(y, l)
    BY <2>4 DEF Placed, Waits
  <2>8. Fresh(x, E, l) => Fresh(y, E, l)
    BY <2>3, <2>4, <2>6, <1>1, HomeIsEmptied DEF Fresh
  <2> QED
    BY <2>6, <2>7, <2>8 DEF EmptyOK, y
<1>2. CASE x.writer # Home
  <2>1. y = [x EXCEPT !.uplinks[m] = Entry(x, m)]
    BY <1>2 DEF PushBadKey
  <2> HIDE DEF y
  <2>2. /\ y.writer = x.writer /\ y.write_queue = x.write_queue
        /\ y.uplinks = [x.uplinks EXCEPT ![m] = Entry(x, m)]
    BY <2>1 DEF StructOK
  <2>3. /\ Entry(x, m) # NoUplink /\ Entry(x, m).backpressure = Backlog(x, m)
        /\ Entry(x, m).send_synced = Due(x, m)
    BY EntryFacts, EmptyAssumption
  <2>4. /\ Backlog(y, l) = Backlog(x, l) /\ Due(y, l) = Due(x, l) /\ (Waits(y, l) <=> Waits(x, l))
    BY <2>2, <2>3 DEF Backlog, Due, Waits, StructOK
  <2>5. EmptyKnown(y, G, l) /\ (l \in ValueLanes \ G => SyncKnown(y, E, l))
    BY <2>2 DEF EmptyOK, EmptyKnown, SyncKnown
  <2>6. l \notin G \cup SupplyLanes => Placed(y, l)
    BY <2>2, <2>4 DEF EmptyOK, Placed
  <2>7. Fresh(x, E, l) => Fresh(y, E, l)
    BY <2>2, <2>4 DEF Fresh
  <2> QED
    BY <2>5, <2>6, <2>7 DEF EmptyOK, y
<1> QED
  BY <1>1, <1>2


\* The places that are left when the first ones are taken from write_queue.
LEMMA PlacesLeft ==
  ASSUME NEW S, NEW q \in Seq(S), NEW i \in DOMAIN q
  PROVE  LET z == SubSeq(q, i + 1, Len(q))
         IN  /\ z \in Seq(S) /\ DOMAIN q \subseteq Nat
             /\ \A j \in DOMAIN z : j \in Nat /\ i + j \in DOMAIN q /\ i + j > i /\ z[j] = q[i + j]
<1> DEFINE z == SubSeq(q, i + 1, Len(q))
<1>1. i \in Nat /\ i >= 1 /\ i <= Len(q) /\ Len(q) \in Nat /\ DOMAIN q = 1..Len(q)
  OBVIOUS
<1>2. z \in Seq(S) /\ DOMAIN z = 1..(Len(q) - i) /\ \A j \in 1..(Len(q) - i) : z[j] = q[i + j]
  BY <1>1, SMTT(30)
<1> HIDE DEF z
<1>3. \A j \in 1..(Len(q) - i) : j \in Nat /\ i + j \in DOMAIN q /\ i + j > i
  BY <1>1
<1> QED
  BY <1>1, <1>2, <1>3 DEF z

\* A lane has one place at most when another lane's has been taken, or its own.
LEMMA OnePlaceLeft ==
  ASSUME NEW S, NEW q \in Seq(S), NEW i \in DOMAIN q, NEW l \in S, NEW k \in S, NEW up,
         \A g, h \in DOMAIN q : q[g] = l /\ q[h] = l => g = h, q[i] = k,
         NEW r, r = NextQueue(SubSeq(q, i + 1, Len(q)), k, up)
  PROVE  /\ \A g, h \in DOMAIN r : r[g] = l /\ r[h] = l => g = h
         /\ k = l /\ ~up.queued => \A h \in DOMAIN r : r[h] # l
<1> DEFINE z == SubSeq(q, i + 1, Len(q))
<1>1. /\ z \in Seq(S) /\ DOMAIN q \subseteq Nat
      /\ \A j \in DOMAIN z : j \in Nat /\ i + j \in DOMAIN q /\ i + j > i /\ z[j] = q[i + j]
  BY PlacesLeft
<1> HIDE DEF z
<1>2. r = IF up.queued THEN Append(z, k) ELSE z
  BY DEF NextQueue, z
<1>3. \A g, h \in DOMAIN z : z[g] = l /\ z[h] = l => g = h
  <2> SUFFICES ASSUME NEW g \in DOMAIN z, NEW h \in DOMAIN z, z[g] = l, z[h] = l
               PROVE  g = h
    OBVIOUS
  <2>1. i + g = i + h
    BY <1>1
  <2> QED
    BY <2>1, <1>1
<1>4. k = l => \A h \in DOMAIN z : z[h] # l
  BY <1>1
<1>5. CASE up.queued
  <2>1. r = Append(z, k)
    BY <1>2, <1>5
  <2>2. \A h \in DOMAIN Append(z, k) : \/ h \in DOMAIN z /\ Append(z, k)[h] = z[h]
                                       \/ h = Len(z) + 1 /\ Append(z, k)[h] = k
    BY <1>1
  <2>3. ASSUME NEW g \in DOMAIN r, NEW h \in DOMAIN r, r[g] = l, r[h] = l
        PROVE  g = h
    BY <2>1, <2>2, <2>3, <1>3, <1>4
  <2> QED
    BY <2>3, <1>5
<1>6. CASE ~up.queued
  BY <1>2, <1>3, <1>4, <1>6
<1> QED
  BY <1>5, <1>6

\* A write is over: the write that is popped for the lane.
LEMMA OwnWriteEmpty ==
  ASSUME NEW x, NEW l \in AllLanes, x.uplinks[l] \in UplinkRecords, HasWrite(x, l),
         NEW E, NEW G, l \notin G \cup SupplyLanes => Backlog(x, l) # <<>> \/ Due(x, l) # NotLinked,
         NEW y, y.writer = WriteFor(l, x.uplinks[l])
  PROVE  /\ EmptyKnown(y, G, l)
         /\ l \in ValueLanes \ G => SyncKnown(y, E, l)
         /\ l \in ValueLanes /\ Backlog(x, l) # <<>> => ~Emptied(E, y.writer, l)
<1> DEFINE bs == x.uplinks[l].backpressure
           d == x.uplinks[l].send_synced
           w == y.writer
           e == EventNote(l, PrepareWrite(bs))
<1>1. Backlog(x, l) = bs /\ Due(x, l) = d /\ bs \in Seq(Bodies)
  BY EmptyAssumption DEF Backlog, Due, UplinkRecords
<1>2. bs # <<>> => PrepareWrite(bs) # NoBody
  BY <1>1, TailFacts, EmptyAssumption DEF PrepareWrite
<1>3. e.type = "Event" /\ e.lane = l /\ e.body = PrepareWrite(bs)
      /\ Synced(l, d).type = "Synced" /\ Synced(l, d).lane = l
  BY NoteFacts
<1>4. \/ d = NotLinked /\ w = <<e>>
      \/ d # NotLinked /\ l \in MapLanes /\ w = MapSynced(l, x.uplinks[l])
      \/ d # NotLinked /\ l \in SupplyLanes /\ w = <<Synced(l, d)>>
      \/ /\ d # NotLinked /\ l \notin MapLanes /\ ~(l \in SupplyLanes /\ bs = <<>>)
         /\ w = <<e, Synced(l, d)>>
  BY WriteForCases
<1>5. l \in SupplyLanes /\ d = NotLinked => bs # <<>>
  BY DEF HasWrite
<1> HIDE DEF bs, d, w
<1>6. CASE d = NotLinked /\ w = <<e>>
  <2>1. DOMAIN w = {1} /\ w[1] = e
    BY <1>6
  <2>2. l \notin G => bs # <<>>
    BY <1>1, <1>5, <1>6
  <2>3. EmptyKnown(y, G, l)
    BY <2>1, <2>2, <1>2, <1>3, <1>5, <1>6 DEF EmptyKnown, w
  <2>4. SyncKnown(y, E, l)
    BY <2>1, <1>3 DEF SyncKnown, w
  <2>5. bs # <<>> => ~Emptied(E, w, l)
    BY <2>1, <1>2, <1>3, EmptiedByLast
  <2> QED
    BY <2>3, <2>4, <2>5, <1>1 DEF w
<1>7. CASE d # NotLinked /\ l \in MapLanes /\ w = MapSynced(l, x.uplinks[l])
  <2>1. \A i \in DOMAIN w : w[i].type = "Event" => w[i].body # NoBody
    BY <1>7, MapSyncedIs, NoteFacts, EmptyAssumption
  <2>2. EmptyKnown(y, G, l)
    BY <2>1 DEF EmptyKnown, w
  <2> QED
    BY <2>2, <1>7, LanesAssumption
<1>8. CASE d # NotLinked /\ l \in SupplyLanes /\ w = <<Synced(l, d)>>
  <2>1. DOMAIN w = {1} /\ w[1].type = "Synced"
    BY <1>3, <1>8
  <2>2. EmptyKnown(y, G, l)
    BY <2>1 DEF EmptyKnown, w
  <2> QED
    BY <2>2, <1>8, LanesAssumption
<1>9. CASE /\ d # NotLinked /\ l \notin MapLanes /\ ~(l \in SupplyLanes /\ bs = <<>>)
           /\ w = <<e, Synced(l, d)>>
  <2>1. DOMAIN w = {1, 2} /\ Len(w) = 2 /\ w[1] = e /\ w[2] = Synced(l, d)
    BY <1>9
  <2>2. l \in SupplyLanes => w[1].body # NoBody
    BY <2>1, <1>2, <1>3, <1>9
  <2>3. l \notin SupplyLanes => EmptyBeforeSynced(w, 1)
    BY <2>1, <1>3, <1>9 DEF EmptyBeforeSynced, AllLanes
  <2>4. \A i \in DOMAIN w : w[i].type = "Event" => i = 1
    BY <2>1, <1>3
  <2>5. EmptyKnown(y, G, l)
    BY <2>2, <2>3, <2>4 DEF EmptyKnown, w
  <2>6. Emptied(E, w, l) => w[1].body = NoBody
    BY <2>1, <2>4, <1>3, EmptiedByLast
  <2>7. w[1].body = NoBody => w[1] = EventNote(l, NoBody)
    BY <2>1, <1>3
  <2>8. \A i \in DOMAIN w : w[i].type = "Synced" => i = 2
    BY <2>1, <1>3
  <2>9. SyncKnown(y, E, l)
    BY <2>6, <2>7, <2>8 DEF SyncKnown, w
  <2>10. bs # <<>> => ~Emptied(E, w, l)
    BY <2>1, <2>6, <1>2, <1>3
  <2> QED
    BY <2>5, <2>9, <2>10, <1>1 DEF w
<1> QED
  BY <1>4, <1>6, <1>7, <1>8, <1>9

LEMMA PopKeepsEmpty ==
  ASSUME NEW x, StructOK(x), NEW L, NEW l \in AllLanes, Queued(x, L, l),
         NEW E, NEW G, EmptyOK(x, E, G, l), NEW F, l \in F <=> Emptied(E, x.writer, l)
  PROVE  /\ EmptyOK(ReplaceAndPop(x), F, G, l)
         /\ l \in ValueLanes \ G /\ Fresh(x, E, l) => Fresh(ReplaceAndPop(x), F, l)
<1> DEFINE y == ReplaceAndPop(x)
<1>1. /\ StructOK(y)
      /\ \/ PopsSpecial(x, y)
         \/ ComesHome(x, y)
         \/ \E k \in AllLanes, i \in DOMAIN x.write_queue : PopsFrom(x, y, i, k)
  BY ReplaceAndPopIs
<1>2. x.write_queue \in Seq(AllLanes) /\ x.special_queue \in Seq(Specials)
      /\ x.uplinks \in [AllLanes -> UplinkRecords \cup {NoUplink}]
  BY DEF StructOK
<1> HIDE DEF y
<1>3. l \in ValueLanes => l \notin SupplyLanes
  BY LanesAssumption
<1>4. CASE PopsSpecial(x, y)
  <2> DEFINE a == Head(x.special_queue)
  <2>1. a \in Specials /\ y.writer = <<a>> /\ y.uplinks = x.uplinks /\ y.write_queue = x.write_queue
    BY <1>2, <1>4, TailFacts DEF PopsSpecial
  <2> HIDE DEF a
  <2>2. /\ EmptyKnown(y, G, l) /\ SyncKnown(y, F, l)
        /\ Emptied(F, y.writer, l) => l \in F
    BY <2>1, OneSpecial
  <2>3. Backlog(y, l) = Backlog(x, l) /\ Due(y, l) = Due(x, l) /\ (Waits(y, l) <=> Waits(x, l))
    BY <2>1 DEF Backlog, Due, Waits
  <2>4. l \notin G \cup SupplyLanes => Placed(y, l)
    BY <2>1, <2>3 DEF EmptyOK, Placed
  <2>5. Fresh(x, E, l) => Fresh(y, F, l)
    BY <2>2, <2>3 DEF Fresh
  <2> QED
    BY <2>2, <2>4, <2>5 DEF EmptyOK, y
<1>5. CASE ComesHome(x, y)
  <2>1. y.writer = Home /\ y.write_queue = <<>> /\ DOMAIN y.writer = {}
    BY <1>5 DEF ComesHome, Home
  <2>2. EmptyKnown(y, G, l) /\ SyncKnown(y, F, l) /\ Placed(y, l)
    BY <2>1 DEF EmptyKnown, SyncKnown, Placed, Waits
  <2>3. ASSUME l \in ValueLanes, Fresh(x, E, l)
        PROVE  Fresh(y, F, l)
    <3>1. y.uplinks[l] = x.uplinks[l]
      BY <2>3, <1>3, <1>5 DEF ComesHome, Skipped
    <3>2. Backlog(y, l) = Backlog(x, l) /\ Due(y, l) = Due(x, l)
      BY <3>1 DEF Backlog, Due
    <3> QED
      BY <3>2, <2>1, <2>3, HomeIsEmptied DEF Fresh
  <2> QED
    BY <2>2, <2>3 DEF EmptyOK, y
<1>6. ASSUME NEW k \in AllLanes, NEW i \in DOMAIN x.write_queue, PopsFrom(x, y, i, k)
      PROVE  /\ EmptyOK(y, F, G, l)
             /\ l \in ValueLanes \ G /\ Fresh(x, E, l) => Fresh(y, F, l)
  <2>1. /\ x.write_queue[i] = k /\ HasWrite(x, k)
        /\ y.writer = WriteFor(k, x.uplinks[k]) /\ y.uplinks[k] = Popped(k, x.uplinks[k])
        /\ y.write_queue = NextQueue(SubSeq(x.write_queue, i + 1, Len(x.write_queue)), k, y.uplinks[k])
    BY <1>6 DEF PopsFrom
  <2>2. x.uplinks[k] \in UplinkRecords
    BY <2>1, <1>2 DEF HasWrite
  <2>3. ASSUME l \notin G \cup SupplyLanes
        PROVE  /\ \A g, h \in DOMAIN y.write_queue : y.write_queue[g] = l /\ y.write_queue[h] = l => g = h
               /\ k = l /\ ~y.uplinks[k].queued => ~Waits(y, l)
    <3>1. \A g, h \in DOMAIN x.write_queue : x.write_queue[g] = l /\ x.write_queue[h] = l => g = h
      BY <2>3 DEF EmptyOK, Placed
    <3> QED
      BY <3>1, <2>1, <1>2, OnePlaceLeft DEF Waits
  <2>4. CASE k # l
    <3>1. WriteOf(y.writer, k)
      BY <2>1, <2>2, WriteForNotes
    <3>2. \A j \in DOMAIN y.writer : y.writer[j].lane # l /\ y.writer[j].type \in {"Event", "Synced"}
      BY <3>1, <2>4 DEF WriteOf
    <3>3. EmptyKnown(y, G, l) /\ SyncKnown(y, F, l)
      BY <3>2 DEF EmptyKnown, SyncKnown
    <3>4. Emptied(F, y.writer, l) => l \in F
      BY <3>2, EmptiedByNone
    <3>5. ASSUME l \notin SupplyLanes
          PROVE  /\ Backlog(y, l) = Backlog(x, l) /\ Due(y, l) = Due(x, l)
                 /\ Waits(y, l) => Waits(x, l)
      <4>1. y.uplinks[l] = x.uplinks[l]
        BY <3>5, <2>4, <1>6 DEF PopsFrom, Skipped
      <4>2. Waits(y, l) => Waits(x, l)
        BY <2>4, <1>6 DEF PopsFrom, Waits
      <4> QED
        BY <4>1, <4>2 DEF Backlog, Due
    <3>6. l \notin G \cup SupplyLanes => Placed(y, l)
      BY <3>5, <2>3 DEF EmptyOK, Placed
    <3>7. l \in ValueLanes /\ Fresh(x, E, l) => Fresh(y, F, l)
      BY <3>4, <3>5, <1>3 DEF Fresh
    <3> QED
      BY <3>3, <3>6, <3>7 DEF EmptyOK
  <2>5. CASE k = l
    <3>1. Waits(x, l)
      BY <2>1, <2>5 DEF Waits
    <3>2. l \notin G \cup SupplyLanes => Backlog(x, l) # <<>> \/ Due(x, l) # NotLinked
      BY <3>1 DEF EmptyOK, Placed
    <3>3. /\ EmptyKnown(y, G, l)
          /\ l \in ValueLanes \ G => SyncKnown(y, F, l)
          /\ l \in ValueLanes /\ Backlog(x, l) # <<>> => ~Emptied(F, y.writer, l)
      BY <3>2, <2>1, <2>2, <2>5, OwnWriteEmpty
    <3>4. /\ y.uplinks[l] # NoUplink /\ y.uplinks[l].send_synced = NotLinked
          /\ y.uplinks[l].queued <=> y.uplinks[l].backpressure # <<>>
      BY <2>1, <2>2, <2>5, PoppedFacts, EmptyAssumption
    <3>5. Due(y, l) = NotLinked /\ (y.uplinks[l].queued <=> Backlog(y, l) # <<>>)
      BY <3>4 DEF Due, Backlog
    <3>6. l \notin G \cup SupplyLanes => Placed(y, l)
      BY <3>5, <2>3, <2>5 DEF Placed
    <3>7. l \in ValueLanes \ G /\ Fresh(x, E, l) => Fresh(y, F, l)
      BY <3>2, <3>3, <3>5, <1>3 DEF Fresh
    <3> QED
      BY <3>3, <3>6, <3>7 DEF EmptyOK
  <2> QED
    BY <2>4, <2>5
<1> QED
  BY <1>1, <1>4, <1>5, <1>6 DEF y


\* A step that writes nothing to the remote.
LEMMA EmptyStep ==
  ASSUME EInv, emptied' = emptied, view' = view, left \subseteq left',
         \A m \in AllLanes : EmptyOK(u', emptied, left', m),
         \A m \in AllLanes : m \in ValueLanes \ left' /\ syncing'[m] = {} => Fresh(u', emptied, m)
  PROVE  EInv'
  BY DEF EInv

LEMMA LaneEmpty ==
  ASSUME IInv, EInv, NEW m \in AllLanes
  PROVE  /\ StructOK(u) /\ Queued(u, linked, m) /\ EmptyOK(u, emptied, left, m)
         /\ m \in ValueLanes \ left /\ syncing[m] = {} => Fresh(u, emptied, m)
  BY LaneFacts DEF EInv, Good

\* A link message that is not Unlinked.
LEMMA LinkEmpty ==
  ASSUME IInv, EInv, NEW a \in Specials, a.type # "Unlinked", NEW m \in AllLanes
  PROVE  /\ EmptyOK(PushSpecial(u, a), emptied, left, m)
         /\ m \in ValueLanes \ left /\ syncing[m] = {} => Fresh(PushSpecial(u, a), emptied, m)
  BY LaneEmpty, SpecialKeepsEmpty

LEMMA TargetedEmpty ==
  ASSUME IInv, EInv, NEW l \in AllLanes, NEW m \in AllLanes
  PROVE  /\ StructOK(Targeted(l)) /\ Queued(Targeted(l), linked \cup {l}, m)
         /\ EmptyOK(Targeted(l), emptied, left, m)
         /\ m \in ValueLanes \ left /\ syncing[m] = {} => Fresh(Targeted(l), emptied, m)
<1>1. StructOK(Targeted(l)) /\ Queued(Targeted(l), linked \cup {l}, m)
  BY TargetedStep DEF Good
<1>2. CASE l \in linked
  BY <1>1, <1>2, LaneEmpty DEF Targeted
<1>3. CASE l \notin linked
  <2>1. LinkedNote(l) \in Specials /\ LinkedNote(l).type # "Unlinked"
    BY SpecialsFacts
  <2>2. Targeted(l) = PushSpecial(u, LinkedNote(l))
    BY <1>3 DEF Targeted
  <2> QED
    BY <2>1, <2>2, <1>1, LinkEmpty
<1> QED
  BY <1>2, <1>3

LEMMA EmptySteps == IInv /\ EInv /\ [UplinksNext]_uplinkVars => EInv'
<1> SUFFICES ASSUME IInv, EInv, [UplinksNext]_uplinkVars
             PROVE  EInv'
  OBVIOUS
<1>1. agentLanes \subseteq AllLanes /\ syncing = [m \in AllLanes |-> syncing[m]]
  BY DEF IInv, LanesOK
<1>2. ASSUME NEW l \in agentLanes, LinkLane(l)
      PROVE  EInv'
  <2>1. /\ u' = PushSpecial(u, LinkedNote(l)) /\ UNCHANGED <<syncing, view, emptied, left>>
    BY <1>2 DEF LinkLane
  <2>2. LinkedNote(l) \in Specials /\ LinkedNote(l).type # "Unlinked"
    BY <1>1, SpecialsFacts
  <2> QED
    BY <2>1, <2>2, LinkEmpty, EmptyStep
<1>3. ASSUME NEW l \in agentLanes, UnlinkLane(l)
      PROVE  EInv'
  <2>1. /\ u' = PushSpecial(u, UnlinkedNote(l)) /\ UNCHANGED <<syncing, view, emptied>>
        /\ left' = IF l \in Range(u.write_queue) \ SupplyLanes THEN left \cup {l} ELSE left
    BY <1>3 DEF UnlinkLane
  <2>2. /\ UnlinkedNote(l) \in Specials /\ UnlinkedNote(l).lane = l /\ left \subseteq left'
    BY <2>1, <1>1, SpecialsFacts
  <2>3. Waits(u, l) /\ l \notin SupplyLanes => l \in left'
    BY <2>1 DEF Waits, Range
  <2>4. ASSUME NEW m \in AllLanes
        PROVE  /\ EmptyOK(u', emptied, left', m)
               /\ m \in ValueLanes \ left' /\ syncing'[m] = {} => Fresh(u', emptied, m)
    <3>1. /\ StructOK(u) /\ Queued(u, linked, m) /\ EmptyOK(u, emptied, left, m)
          /\ m \in ValueLanes \ left /\ syncing[m] = {} => Fresh(u, emptied, m)
      BY LaneEmpty
    <3> QED
      BY <3>1, <2>1, <2>2, <2>3, SpecialKeepsEmpty
  <2> QED
    BY <2>1, <2>2, <2>4, EmptyStep
<1>4. ASSUME NEW l \in agentLanes, StartSync(l)
      PROVE  EInv'
  <2> DEFINE ks == CASE l \in ValueLanes -> {One}
                     [] l \in SupplyLanes -> {}
                     [] l \in MapLanes -> {k \in Keys : state[l][k] > 0}
  <2>1. UNCHANGED <<u, view, emptied, left>> /\ syncing' = [syncing EXCEPT ![l] = ks]
    BY <1>4 DEF StartSync
  <2>2. l \in ValueLanes => ks = {One}
    BY LanesAssumption
  <2> HIDE DEF ks
  <2>3. \A m \in ValueLanes : syncing'[m] = {} => syncing[m] = {}
    BY <2>1, <2>2, <1>1 DEF AllLanes
  <2> QED
    BY <2>1, <2>3, LaneEmpty, EmptyStep
<1>5. ASSUME NEW l \in agentLanes, SyncDone(l)
      PROVE  EInv'
  <2>1. /\ u' = PushSynced(Targeted(l), l, sent[l]) /\ syncing[l] = {}
        /\ syncing' = [syncing EXCEPT ![l] = NotSyncing] /\ UNCHANGED <<view, emptied, left>>
    BY <1>5 DEF SyncDone
  <2>2. l \in AllLanes /\ sent[l] \in Versions(l)
    BY <1>1, LaneFacts
  <2>3. \A m \in AllLanes : syncing'[m] = {} => m # l /\ syncing[m] = {}
    BY <2>1, <1>1 DEF NotSyncing
  <2>4. ASSUME NEW m \in AllLanes
        PROVE  /\ EmptyOK(u', emptied, left, m)
               /\ m \in ValueLanes \ left /\ syncing'[m] = {} => Fresh(u', emptied, m)
    <3>1. /\ StructOK(Targeted(l)) /\ Queued(Targeted(l), linked \cup {l}, m)
          /\ Queued(Targeted(l), linked \cup {l}, l)
          /\ EmptyOK(Targeted(l), emptied, left, m)
          /\ m \in ValueLanes \ left /\ syncing[m] = {} => Fresh(Targeted(l), emptied, m)
          /\ l \in ValueLanes \ left => Fresh(Targeted(l), emptied, l)
      BY <2>1, <2>2, TargetedEmpty
    <3> QED
      BY <3>1, <2>1, <2>2, <2>3, SyncedKeepsEmpty
  <2> QED
    BY <2>1, <2>4, EmptyStep
<1>6. ASSUME NEW l \in agentLanes \cap MapLanes, BadLaneEvent(l)
      PROVE  EInv'
  <2>1. u' = PushBadKey(u, l) /\ UNCHANGED <<syncing, view, emptied, left>>
    BY <1>6 DEF BadLaneEvent
  <2> QED
    BY <2>1, <1>1, LaneEmpty, BadKeyKeepsEmpty, EmptyStep
<1>7. ASSUME NEW l \in agentLanes, NEW k \in KeysOf(l) \cup {All}, LaneEvent(l, k)
      PROVE  EInv'
  <2> DEFINE b == [key |-> k, version |-> version[l] + 1]
  <2>1. UNCHANGED <<syncing, view, emptied, left>> /\ u' = IF l \in linked THEN PushEvent(u, l, b) ELSE u
    BY <1>7 DEF LaneEvent
  <2>2. b \in Bodies /\ l \in AllLanes
    BY <1>1, LaneFacts, KeysFacts DEF Bodies
  <2> HIDE DEF b
  <2>3. ASSUME NEW m \in AllLanes
        PROVE  /\ EmptyOK(u', emptied, left, m)
               /\ m \in ValueLanes \ left /\ syncing[m] = {} => Fresh(u', emptied, m)
    <3>1. /\ StructOK(u) /\ Queued(u, linked, m) /\ Queued(u, linked, l) /\ EmptyOK(u, emptied, left, m)
          /\ m \in ValueLanes \ left /\ syncing[m] = {} => Fresh(u, emptied, m)
      BY <2>2, LaneEmpty
    <3> QED
      BY <3>1, <2>1, <2>2, EventKeepsEmpty
  <2> QED
    BY <2>1, <2>3, EmptyStep
<1>8. ASSUME NEW l \in agentLanes, NEW k \in KeysOf(l), SyncEvent(l, k)
      PROVE  EInv'
  <2> DEFINE b == [key |-> k, version |-> state[l][k]]
  <2>1. /\ u' = PushEvent(Targeted(l), l, b) /\ UNCHANGED <<view, emptied, left>>
        /\ syncing' = [syncing EXCEPT ![l] = @ \ {k}]
    BY <1>8 DEF SyncEvent
  <2>2. b \in Bodies /\ l \in AllLanes
    BY <1>1, LaneFacts, KeysFacts DEF Bodies, Versions
  <2> HIDE DEF b
  <2>3. \A m \in AllLanes : m # l => syncing'[m] = syncing[m]
    BY <2>1, <1>1
  <2>4. ASSUME NEW m \in AllLanes
        PROVE  /\ EmptyOK(u', emptied, left, m)
               /\ m \in ValueLanes \ left /\ syncing'[m] = {} => Fresh(u', emptied, m)
    <3>1. /\ StructOK(Targeted(l)) /\ Queued(Targeted(l), linked \cup {l}, m)
          /\ Queued(Targeted(l), linked \cup {l}, l)
          /\ EmptyOK(Targeted(l), emptied, left, m)
          /\ m \in ValueLanes \ left /\ syncing[m] = {} => Fresh(Targeted(l), emptied, m)
      BY <2>2, TargetedEmpty
    <3> QED
      BY <3>1, <2>1, <2>2, <2>3, EventKeepsEmpty
  <2> QED
    BY <2>1, <2>4, EmptyStep
<1>9. ASSUME UnknownLane
      PROVE  EInv'
  <2>1. u' = PushSpecial(u, LaneNotFound) /\ UNCHANGED <<syncing, view, emptied, left>>
    BY <1>9 DEF UnknownLane
  <2>2. LaneNotFound \in Specials /\ LaneNotFound.type # "Unlinked"
    BY SpecialsFacts
  <2> QED
    BY <2>1, <2>2, LinkEmpty, EmptyStep
<1>10. ASSUME WriteReturns
       PROVE  EInv'
  <2>1. /\ u' = ReplaceAndPop(u) /\ UNCHANGED <<syncing, left>>
        /\ emptied' \subseteq AllLanes
        /\ \A m \in AllLanes : m \in emptied' <=> Emptied(emptied, u.writer, m)
    BY <1>10 DEF WriteReturns
  <2>2. ASSUME NEW m \in AllLanes
        PROVE  /\ EmptyOK(u', emptied', left', m)
               /\ m \in ValueLanes \ left' /\ syncing'[m] = {} => Fresh(u', emptied', m)
    <3>1. /\ StructOK(u) /\ Queued(u, linked, m) /\ EmptyOK(u, emptied, left, m)
          /\ m \in ValueLanes \ left /\ syncing[m] = {} => Fresh(u, emptied, m)
      BY LaneEmpty
    <3> QED
      BY <3>1, <2>1, PopKeepsEmpty
  <2>3. ASSUME NEW m \in AllLanes, m \in emptied'
        PROVE  m \notin SupplyLanes /\ m \in ValueLanes \cup left' /\ view'[m] # NotLinked
    <3> DEFINE w == u.writer
               on == {i \in DOMAIN w : w[i].type = "Event" /\ w[i].lane = m}
    <3>1. /\ ~Has(w, "Unlinked", m)
          /\ \/ on = {} /\ m \in emptied
             \/ \E i \in on : w[i].body = NoBody
      BY <2>1, <2>3 DEF Emptied
    <3>2. EmptyKnown(u, left, m) /\ WithinLink(u, m, view[m])
      BY LaneFacts, LaneEmpty DEF EmptyOK, Good
    <3>3. on # {} => view[m] # NotLinked
      BY <3>2 DEF WithinLink
    <3>4. m \notin SupplyLanes /\ m \in ValueLanes \cup left /\ view[m] # NotLinked
      BY <3>1, <3>2, <3>3 DEF EInv, EmptyKnown, EmptyBeforeSynced
    <3>5. view'[m] = Received(view[m], w, m)
      BY <1>10 DEF WriteReturns
    <3>6. DOMAIN Received(view[m], w, m) = KeysOf(m) /\ KeysOf(m) # {} /\ DOMAIN NotLinked = {}
      BY <3>1, <3>4, KeysFacts DEF Received, NotLinked
    <3> QED
      BY <3>4, <3>5, <3>6, <2>1
  <2> QED
    BY <2>1, <2>2, <2>3 DEF EInv
<1>11. ASSUME UNCHANGED uplinkVars
       PROVE  EInv'
  BY <1>11 DEF uplinkVars, EInv
<1> QED
  BY <1>2, <1>3, <1>4, <1>5, <1>6, <1>7, <1>8, <1>9, <1>10, <1>11 DEF UplinksNext

LEMMA EmptyBegins == UplinksInit => EInv
<1> SUFFICES ASSUME UplinksInit
             PROVE  EInv
  OBVIOUS
<1>1. u.writer = Home /\ u.write_queue = <<>> /\ emptied = {} /\ DOMAIN u.writer = {}
  BY DEF UplinksInit, NewUplinks, Home
<1>2. \A l \in AllLanes : syncing[l] # {}
  BY DEF UplinksInit, NotSyncing
<1>3. \A l \in AllLanes : EmptyOK(u, emptied, left, l)
  BY <1>1 DEF EmptyOK, EmptyKnown, SyncKnown, Placed, Waits
<1> QED
  BY <1>1, <1>2, <1>3 DEF EInv


\* What the invariants say of the queues, of the protocol of a link, of an idle
\* writer, and of events with an empty body.
LEMMA Says == IInv /\ EInv => UplinksInv
<1> SUFFICES ASSUME IInv, EInv
             PROVE  UplinksInv
  OBVIOUS
<1>1. StructOK(u)
  BY DEF IInv
<1>2. QueuesAgree
  <2>1. u.writer = Home => u.special_queue = <<>> /\ u.write_queue = <<>>
    BY <1>1 DEF StructOK
  <2>2. ASSUME NEW l \in AllLanes, u.uplinks[l] # NoUplink
        PROVE  /\ u.uplinks[l].queued => l \in Range(u.write_queue)
               /\ u.uplinks[l].backpressure # <<>> => u.uplinks[l].queued
    <3>1. Queued(u, linked, l)
      BY LaneFacts DEF Good
    <3> QED
      BY <3>1, <2>2 DEF Queued, Counted, Waits, Backlog, Range
  <2> QED
    BY <2>1, <2>2 DEF QueuesAgree
<1>3. EventsWithinLink
  <2> SUFFICES ASSUME NEW i \in DOMAIN u.writer, u.writer[i].type \in {"Event", "Synced"}
               PROVE  view[u.writer[i].lane] # NotLinked
    BY DEF EventsWithinLink
  <2>1. u.writer[i].lane \in AllLanes
    BY <1>1 DEF StructOK, OfLanes
  <2>2. WithinLink(u, u.writer[i].lane, view[u.writer[i].lane])
    BY <2>1, LaneFacts DEF Good
  <2> QED
    BY <2>2 DEF WithinLink
<1>4. IdleIsExact
  <2> SUFFICES ASSUME u.writer = Home, NEW l \in AllLanes
               PROVE  IF l \in linked THEN view[l] = sent[l]
                      ELSE view[l] = NotLinked /\ l \notin emptied
    BY DEF IdleIsExact
  <2>1. /\ Good(u, linked, l, sent[l], view[l]) /\ sent[l] \in Versions(l)
        /\ view[l] \in Versions(l) \cup {NotLinked}
    BY LaneFacts
  <2>2. view[l] = NotLinked => l \notin emptied
    BY DEF EInv
  <2> QED
    BY <2>1, <2>2, <1>1, HomeFacts
<1>5. EmptyEventsAreKnown
  <2>1. emptied \subseteq AllLanes
    BY DEF EInv
  <2>2. emptied \subseteq ValueLanes \cup left /\ emptied \cap SupplyLanes = {}
    BY <2>1 DEF EInv
  <2>3. ASSUME NEW i \in DOMAIN u.writer, u.writer[i].type = "Event", u.writer[i].body = NoBody
        PROVE  /\ u.writer[i].lane \notin SupplyLanes
               /\ u.writer[i].lane \in left \/ EmptyBeforeSynced(u.writer, i)
    <3>1. u.writer[i].lane \in AllLanes
      BY <2>3, <1>1 DEF StructOK, OfLanes
    <3>2. EmptyKnown(u, left, u.writer[i].lane)
      BY <3>1 DEF EInv, EmptyOK
    <3> QED
      BY <3>2, <2>3 DEF EmptyKnown
  <2> QED
    BY <2>2, <2>3 DEF EmptyEventsAreKnown
<1> QED
  BY <1>2, <1>3, <1>4, <1>5 DEF UplinksInv

\* Whatever is linked, unlinked, synced and emitted while the writer is out, no event
\* is stranded in a queue, none leaves its link, and an idle writer means that the
\* remote was sent the newest event of each key of each lane.  It has lost it again
\* only where an event with an empty body followed, and those are written in two
\* cases only (Uplinks::push, push_special and replace_and_pop).
THEOREM UplinksInvariant == UplinksSpec => []UplinksInv
<1>1. UplinksSpec => [](IInv /\ EInv)
  BY Begins, Steps, EmptyBegins, EmptySteps, PTL DEF UplinksSpec
<1> QED
  BY <1>1, Says, PTL

\* A synced message of a value or map lane is written when the remote was sent all that
\* was pushed before it, however it was conflated and overtaken, and has it still,
\* unless the write has the empty event before synced or the lane lost a link while it
\* waited (WriteAction::ValueSynced and WriteAction::MapSynced).
THEOREM SyncedInTimeAlways == UplinksSpec => SyncedIsCurrent
<1> DEFINE Current(i) == LET n == u.writer[i]
                         IN  (WriteReturns /\ n.type = "Synced" /\ n.lane \notin SupplyLanes) =>
                               /\ \A k \in KeysOf(n.lane) : view'[n.lane][k] >= n.due[k]
                               /\ n.lane \in emptied' =>
                                    \/ n.lane \in left
                                    \/ i = 2 /\ u.writer[1] = EventNote(n.lane, NoBody)
<1>1. ASSUME IInv, EInv, NEW i \in DOMAIN u.writer
      PROVE  Current(i)
  <2> DEFINE n == u.writer[i]
             l == n.lane
  <2> SUFFICES ASSUME WriteReturns, n.type = "Synced", l \notin SupplyLanes
               PROVE  /\ \A k \in KeysOf(l) : view'[l][k] >= n.due[k]
                      /\ l \in emptied' => l \in left \/ (i = 2 /\ u.writer[1] = EventNote(l, NoBody))
    OBVIOUS
  <2>1. l \in AllLanes
    BY <1>1 DEF IInv, StructOK, OfLanes
  <2>2. SyncedInTime(u, l, view[l])
    BY <1>1, <2>1, LaneFacts DEF Good
  <2>3. view'[l] = After(u, view[l], l)
    BY <1>1, <2>1, WriteReturnsKeeps
  <2>4. \A k \in KeysOf(l) : view'[l][k] >= n.due[k]
    BY <2>2, <2>3 DEF SyncedInTime
  <2>5. ASSUME l \in emptied', l \notin left
        PROVE  i = 2 /\ u.writer[1] = EventNote(l, NoBody)
    <3>1. EInv'
      BY <1>1, EmptySteps DEF UplinksNext
    <3>2. left' = left /\ Emptied(emptied, u.writer, l)
      BY <2>1, <2>5 DEF WriteReturns
    <3>3. l \in ValueLanes
      BY <3>1, <3>2, <2>1, <2>5 DEF EInv
    <3>4. SyncKnown(u, emptied, l)
      BY <3>3, <2>1, <2>5, <1>1 DEF EInv, EmptyOK
    <3> QED
      BY <3>2, <3>4 DEF SyncKnown
  <2> QED
    BY <2>4, <2>5
<1>2. UplinksSpec => [](IInv /\ EInv)
  BY Begins, Steps, EmptyBegins, EmptySteps, PTL DEF UplinksSpec
<1>3. IInv /\ EInv => \A i \in DOMAIN u.writer : Current(i)
  BY <1>1
<1> QED
  BY <1>2, <1>3, PTL DEF SyncedIsCurrent

\* Within a link the versions of a key only grow, and those of a supply lane by one at
\* a time, through overwriting, conflation by key, clears and the queue of a supply
\* lane (the backpressure strategies behind Uplinks::push).
THEOREM InOrderAlways == UplinksSpec => DeliveredInOrder
<1> DEFINE Ordered(l) == (view[l] # NotLinked /\ view'[l] # NotLinked) =>
             \A k \in KeysOf(l) :
               /\ view'[l][k] >= view[l][k]
               /\ (l \in SupplyLanes /\ view[l][k] > 0) => view'[l][k] <= view[l][k] + 1
<1>1. ASSUME IInv, [UplinksNext]_uplinkVars, NEW l \in AllLanes
      PROVE  Ordered(l)
  <2>1. view[l] # NotLinked => \A k \in KeysOf(l) : view[l][k] \in Nat
    BY <1>1, LaneFacts DEF Versions
  <2>2. CASE WriteReturns
    <3>1. InOrder(u, l, view[l])
      BY <1>1, LaneFacts DEF Good
    <3>2. view'[l] = After(u, view[l], l)
      BY <1>1, <2>2, WriteReturnsKeeps
    <3>3. IInv'
      BY <1>1, Steps
    <3>4. view'[l] # NotLinked => \A k \in KeysOf(l) : view'[l][k] \in Nat
      BY <3>3 DEF IInv, LanesOK, Versions
    <3> QED
      BY <3>1, <3>2, <3>4, <2>1 DEF InOrder
  <2>3. CASE view' = view
    BY <2>1, <2>3
  <2>4. WriteReturns \/ view' = view
    BY <1>1 DEF UplinksNext, uplinkVars, LinkLane, UnlinkLane, StartSync, SyncDone, BadLaneEvent,
                LaneEvent, SyncEvent, UnknownLane
  <2> QED
    BY <2>2, <2>3, <2>4
<1>2. UplinksSpec => []IInv
  BY Begins, Steps, PTL DEF UplinksSpec
<1>3. IInv /\ [UplinksNext]_uplinkVars => \A l \in AllLanes : Ordered(l)
  BY <1>1
<1> QED
  BY <1>2, <1>3, PTL DEF UplinksSpec, DeliveredInOrder

=============================================================================
