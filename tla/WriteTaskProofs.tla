-------------------------- MODULE WriteTaskProofs ---------------------------
(***************************************************************************)
(* For any finite sets of remotes and lanes: the registries of the write   *)
(* task agree, and a remote that is attached once is told of its links.    *)
(***************************************************************************)
EXTENDS WriteTask, FiniteSetTheorems, TLAPS

\* A finite set as a sequence: it has all elements and no others.
LEMMA SetToSeqHasAll ==
  ASSUME NEW S, IsFiniteSet(S)
  PROVE /\ SetToSeq(S) \in Seq(S) /\ Len(SetToSeq(S)) = Cardinality(S)
        /\ DOMAIN SetToSeq(S) = 1..Cardinality(S)
        /\ \A x \in S : \E i \in 1..Cardinality(S) : SetToSeq(S)[i] = x
<1> DEFINE n == Cardinality(S)
<1>1. n \in Nat /\ ExistsBijection(1..n, S)
  BY FS_CardinalityType
<1>2. PICK g \in Bijection(1..n, S) : TRUE
  BY <1>1 DEF ExistsBijection
<1>3. g \in [1..n -> S] /\ IsInjective(g)
  BY <1>2 DEF Bijection, Injection
<1> DEFINE f == SetToSeq(S)
<1>4. f \in [1..n -> S] /\ IsInjective(f)
  BY <1>3 DEF SetToSeq
<1>5. f \in Injection(1..n, S)
  BY <1>4 DEF Injection
<1>6. IsFiniteSet(1..n) /\ Cardinality(1..n) = n
  BY <1>1, FS_Interval
<1>7. f \in Surjection(1..n, S)
  BY <1>5, <1>6, FS_Injection
<1>8. \A x \in S : \E i \in 1..n : f[i] = x
  BY <1>7 DEF Surjection
<1> HIDE DEF f
<1>9. f \in Seq(S) /\ Len(f) = n /\ DOMAIN f = 1..n
  BY <1>1, <1>4
<1> QED BY <1>8, <1>9 DEF f

-----------------------------------------------------------------------------
(* The relation that Links keeps.                                           *)

Pairs(f) == {p \in Lanes \X Ids : p[2] \in f[p[1]]}

LEMMA PairsFinite == ASSUME NEW f PROVE IsFiniteSet(Pairs(f)) /\ Cardinality(Pairs(f)) \in Nat
<1>1. IsFiniteSet(Lanes \X Ids)
  BY FiniteAssumption, FS_Product
<1>2. Pairs(f) \in SUBSET (Lanes \X Ids)
  BY DEF Pairs
<1>3. IsFiniteSet(Pairs(f))
  BY <1>1, <1>2, FS_Subset
<1> QED BY <1>3, FS_CardinalityType

LEMMA FiniteParts ==
  /\ \A S \in SUBSET Ids : IsFiniteSet(S) /\ Cardinality(S) \in Nat
  /\ \A S \in SUBSET Lanes : IsFiniteSet(S) /\ Cardinality(S) \in Nat
<1>1. ASSUME NEW S \in SUBSET Ids PROVE IsFiniteSet(S) /\ Cardinality(S) \in Nat
  BY FiniteAssumption, FS_Subset, FS_CardinalityType
<1>2. ASSUME NEW S \in SUBSET Lanes PROVE IsFiniteSet(S) /\ Cardinality(S) \in Nat
  BY FiniteAssumption, FS_Subset, FS_CardinalityType
<1> QED BY <1>1, <1>2

\* The links, in types.
LinksTypeOK ==
  /\ forward \in [Lanes -> SUBSET Ids] /\ backwards \in [Ids -> SUBSET Lanes]
  /\ total_count \in Nat /\ reporters \subseteq Lanes /\ link_count \in [Lanes -> Nat]

\* What a lane reports is a number.
LEMMA RelinkType ==
  ASSUME LinksTypeOK, NEW f \in [Lanes -> SUBSET Ids], Relink(f)
  PROVE forward' = f /\ link_count' \in [Lanes -> Nat]
BY FiniteParts DEF LinksTypeOK, Relink

\* One pair more.
LEMMA InsertKeepsLinks ==
  ASSUME LinksTypeOK, LinksAgree, NEW l \in Lanes, NEW r \in Ids, InsertLink(l, r)
  PROVE /\ LinksTypeOK' /\ LinksAgree'
        /\ backwards' = [backwards EXCEPT ![r] = @ \cup {l}]
<1> DEFINE f == [forward EXCEPT ![l] = @ \cup {r}]
<1>1. f \in [Lanes -> SUBSET Ids]
  BY DEF LinksTypeOK
<1>2. forward' = f /\ link_count' \in [Lanes -> Nat]
  BY <1>1, RelinkType DEF InsertLink
<1>3. Pairs(f) = Pairs(forward) \cup {<<l, r>>}
  BY DEF Pairs, LinksTypeOK
<1>4. <<l, r>> \in Pairs(forward) <=> r \in forward[l]
  BY DEF Pairs
<1>5. total_count' = Cardinality(Pairs(f)) /\ total_count' \in Nat
  <2>1. Cardinality(Pairs(f)) = IF <<l, r>> \in Pairs(forward) THEN Cardinality(Pairs(forward))
                                                           ELSE Cardinality(Pairs(forward)) + 1
    BY <1>3, PairsFinite, FS_AddElement
  <2>2. total_count = Cardinality(Pairs(forward))
    BY DEF LinksAgree, Pairs
  <2> QED BY <1>4, <2>1, <2>2, PairsFinite DEF InsertLink
<1>6. LinksTypeOK'
  BY <1>1, <1>2, <1>5 DEF InsertLink, LinksTypeOK
<1>7. \A k \in Lanes, q \in Ids : q \in forward'[k] <=> k \in backwards'[q]
  BY <1>2 DEF InsertLink, LinksTypeOK, LinksAgree
<1>8. LinksAgree'
  BY <1>2, <1>5, <1>7 DEF LinksAgree, Pairs
<1> QED BY <1>6, <1>8 DEF InsertLink

\* One pair less.
LEMMA RemoveKeepsLinks ==
  ASSUME LinksTypeOK, LinksAgree, NEW l \in Lanes, NEW r \in Ids, RemoveLink(l, r)
  PROVE /\ LinksTypeOK' /\ LinksAgree'
        /\ backwards' = [backwards EXCEPT ![r] = @ \ {l}]
<1> DEFINE f == [forward EXCEPT ![l] = @ \ {r}]
<1>1. f \in [Lanes -> SUBSET Ids]
  BY DEF LinksTypeOK
<1>2. forward' = f /\ link_count' \in [Lanes -> Nat]
  BY <1>1, RelinkType DEF RemoveLink
<1>3. Pairs(f) = Pairs(forward) \ {<<l, r>>}
  BY DEF Pairs, LinksTypeOK
<1>4. <<l, r>> \in Pairs(forward) <=> r \in forward[l]
  BY DEF Pairs
<1>5. total_count' = Cardinality(Pairs(f))
  <2>1. Cardinality(Pairs(f)) = IF <<l, r>> \in Pairs(forward) THEN Cardinality(Pairs(forward)) - 1
                                                           ELSE Cardinality(Pairs(forward))
    BY <1>3, PairsFinite, FS_RemoveElement
  <2>2. total_count = Cardinality(Pairs(forward))
    BY DEF LinksAgree, Pairs
  <2> QED BY <1>4, <2>1, <2>2 DEF RemoveLink
<1>6. LinksTypeOK'
  BY <1>1, <1>2, <1>5, PairsFinite DEF RemoveLink, LinksTypeOK
<1>7. \A k \in Lanes, q \in Ids : q \in forward'[k] <=> k \in backwards'[q]
  BY <1>2 DEF RemoveLink, LinksTypeOK, LinksAgree
<1>8. LinksAgree'
  BY <1>2, <1>5, <1>7 DEF LinksAgree, Pairs
<1> QED BY <1>6, <1>8 DEF RemoveLink

\* All pairs of a lane less.
LEMMA FailureKeepsLinks ==
  ASSUME LinksTypeOK, LinksAgree, NEW l \in Lanes, LaneFailed(l)
  PROVE /\ LinksTypeOK' /\ LinksAgree'
        /\ backwards' = [r \in Ids |-> backwards[r] \ {l}]
<1> DEFINE f == [forward EXCEPT ![l] = {}]
           gone == {l} \X forward[l]
<1>1. f \in [Lanes -> SUBSET Ids] /\ forward[l] \in SUBSET Ids
  BY DEF LinksTypeOK
<1>2. forward' = f /\ link_count' \in [Lanes -> Nat]
  BY <1>1, RelinkType DEF LaneFailed
<1>3. Pairs(f) = Pairs(forward) \ gone /\ Pairs(forward) \cap gone = gone
  BY <1>1 DEF Pairs, LinksTypeOK
<1>4. Cardinality(gone) = Cardinality(forward[l]) /\ IsFiniteSet(gone)
  <2>1. IsFiniteSet({l}) /\ Cardinality({l}) = 1
    BY FS_Singleton
  <2>2. IsFiniteSet(forward[l]) /\ Cardinality(forward[l]) \in Nat
    BY <1>1, FiniteParts
  <2>3. IsFiniteSet(gone) /\ Cardinality(gone) = 1 * Cardinality(forward[l])
    BY <2>1, <2>2, FS_Product
  <2> QED BY <2>2, <2>3
<1>5. total_count' = Cardinality(Pairs(f))
  <2>1. Cardinality(Pairs(f)) = Cardinality(Pairs(forward)) - Cardinality(gone)
    BY <1>3, PairsFinite, FS_Difference, ZenonT(40)
  <2>2. total_count = Cardinality(Pairs(forward))
    BY DEF LinksAgree, Pairs
  <2> QED BY <1>4, <2>1, <2>2 DEF LaneFailed
<1>6. LinksTypeOK'
  BY <1>1, <1>2, <1>5, PairsFinite DEF LaneFailed, LinksTypeOK
<1>7. \A k \in Lanes, q \in Ids : q \in forward'[k] <=> k \in backwards'[q]
  BY <1>2 DEF LaneFailed, LinksTypeOK, LinksAgree
<1>8. LinksAgree'
  BY <1>2, <1>5, <1>7 DEF LinksAgree, Pairs
<1> QED BY <1>6, <1>8 DEF LaneFailed

\* All pairs of a remote less.
LEMMA RemoteKeepsLinks ==
  ASSUME LinksTypeOK, LinksAgree, NEW r \in Ids, NEW why, RemoveRemote(r, why)
  PROVE /\ LinksTypeOK' /\ LinksAgree'
        /\ backwards' = [backwards EXCEPT ![r] = {}]
<1> DEFINE f == RemovedFrom(r)
           gone == backwards[r] \X {r}
<1>1. f \in [Lanes -> SUBSET Ids] /\ backwards[r] \in SUBSET Lanes
  BY DEF LinksTypeOK, RemovedFrom
<1>2. forward' = f /\ link_count' \in [Lanes -> Nat]
  BY <1>1, RelinkType DEF RemoveRemote
<1>3. /\ \A l \in Lanes : f[l] = forward[l] \ {r}
      /\ {l \in backwards[r] : r \in forward[l]} = backwards[r]
  BY <1>1 DEF RemovedFrom, LinksAgree
<1>4. Pairs(f) = Pairs(forward) \ gone /\ Pairs(forward) \cap gone = gone
  <2>1. \A p \in Lanes \X Ids : p \in gone <=> p[2] = r /\ p[2] \in forward[p[1]]
    BY <1>1 DEF LinksAgree
  <2>2. gone \subseteq Lanes \X Ids
    BY <1>1
  <2> QED BY <1>3, <2>1, <2>2 DEF Pairs
<1>5. Cardinality(gone) = Cardinality(backwards[r]) /\ IsFiniteSet(gone)
  <2>1. IsFiniteSet({r}) /\ Cardinality({r}) = 1
    BY FS_Singleton
  <2>2. IsFiniteSet(backwards[r]) /\ Cardinality(backwards[r]) \in Nat
    BY <1>1, FiniteParts
  <2>3. IsFiniteSet(gone) /\ Cardinality(gone) = Cardinality(backwards[r]) * 1
    BY <2>1, <2>2, FS_Product
  <2> QED BY <2>2, <2>3
<1>6. total_count' = Cardinality(Pairs(f))
  <2>1. Cardinality(Pairs(f)) = Cardinality(Pairs(forward)) - Cardinality(gone)
    BY <1>4, PairsFinite, FS_Difference, ZenonT(40)
  <2>2. total_count = Cardinality(Pairs(forward))
    BY DEF LinksAgree, Pairs
  <2> QED BY <1>3, <1>5, <2>1, <2>2 DEF RemoveRemote
<1>7. LinksTypeOK'
  BY <1>1, <1>2, <1>6, PairsFinite DEF RemoveRemote, LinksTypeOK
<1>8. \A k \in Lanes, q \in Ids : q \in forward'[k] <=> k \in backwards'[q]
  BY <1>2, <1>3 DEF RemoveRemote, LinksTypeOK, LinksAgree
<1>9. LinksAgree'
  BY <1>2, <1>6, <1>8 DEF LinksAgree, Pairs
<1> QED BY <1>7, <1>9 DEF RemoveRemote

\* No pairs at all.
LEMMA StopKeepsLinks ==
  ASSUME LinksTypeOK, Stop
  PROVE LinksTypeOK' /\ LinksAgree' /\ backwards' = [r \in Ids |-> {}]
<1> DEFINE f == [l \in Lanes |-> {}]
<1>1. forward' = f /\ link_count' \in [Lanes -> Nat]
  BY RelinkType DEF Stop
<1>2. Pairs(f) = {}
  BY DEF Pairs
<1> QED BY <1>1, <1>2, FS_EmptySet DEF Stop, LinksTypeOK, LinksAgree, Pairs
-----------------------------------------------------------------------------
(* What is pushed, and the timers.                                          *)

\* What the handlers push has the right form.
LEMMA MessageTypes ==
  /\ NoMessages \in [Ids -> Seq(LinkNotes)] /\ NoEvents \in [Ids -> SUBSET Lanes]
  /\ \A l \in Lanes : \A rs : /\ EventsTo(rs, l) \in [Ids -> SUBSET Lanes]
                          /\ To(rs, Linked(l)) \in [Ids -> Seq(LinkNotes)]
                          /\ To(rs, Unlinked(l)) \in [Ids -> Seq(LinkNotes)]
<1>1. NoMessages \in [Ids -> Seq(LinkNotes)] /\ NoEvents \in [Ids -> SUBSET Lanes]
  BY DEF NoMessages, NoEvents
<1>2. ASSUME NEW l \in Lanes, NEW rs
      PROVE /\ EventsTo(rs, l) \in [Ids -> SUBSET Lanes]
            /\ To(rs, Linked(l)) \in [Ids -> Seq(LinkNotes)]
            /\ To(rs, Unlinked(l)) \in [Ids -> Seq(LinkNotes)]
  <2>1. EventsTo(rs, l) \in [Ids -> SUBSET Lanes]
    BY DEF EventsTo
  <2>2. Linked(l) \in LinkNotes /\ Unlinked(l) \in LinkNotes
    BY DEF Linked, Unlinked, LinkNotes
  <2>3. ASSUME NEW m \in LinkNotes PROVE To(rs, m) \in [Ids -> Seq(LinkNotes)]
    <3>1. <<m>> \in Seq(LinkNotes) /\ <<>> \in Seq(LinkNotes)
      OBVIOUS
    <3> QED BY <3>1 DEF To
  <2> QED BY <2>1, <2>2, <2>3
<1> QED BY <1>1, <1>2

\* What waits after a push, and what is written.
Waits(up, q) == IF up.home # NoConn /\ q # <<>> THEN Tail(q) ELSE q

LEMMA PushType ==
  ASSUME NEW up \in RemoteUplinks, NEW q \in Seq(LinkNotes), NEW e \in SUBSET Lanes
  PROVE /\ Push(up, q, e) \in RemoteUplinks
        /\ Push(up, q, e).conn = up.conn
        /\ Push(up, q, e).home = NoConn
        /\ Push(up, q, e).specials = up.specials \o Waits(up, q)
        /\ Waits(up, q) \in Seq(LinkNotes)
<1>1. Waits(up, q) \in Seq(LinkNotes)
  BY DEF Waits
<1>2. up.specials \o Waits(up, q) \in Seq(LinkNotes)
  BY <1>1 DEF RemoteUplinks
<1> QED BY <1>1, <1>2 DEF Push, Waits, RemoteUplinks

LEMMA FirstType ==
  ASSUME NEW q \in Seq(LinkNotes), NEW e \in SUBSET Lanes, q # <<>> \/ e # {}
  PROVE /\ First(q, e) \in [type : {"Linked", "Unlinked", "Event"}, lane : Lanes]
        /\ q = <<>> => First(q, e).type = "Event"
<1>1. CASE q # <<>>
  <2>1. Head(q) \in LinkNotes
    BY <1>1
  <2> QED BY <1>1, <2>1 DEF First, LinkNotes
<1>2. CASE q = <<>>
  <2>1. (CHOOSE l \in e : TRUE) \in Lanes
    BY <1>2
  <2> QED BY <1>2, <2>1 DEF First, Event
<1> QED BY <1>1, <1>2

\* A push keeps the remotes registered with the connections they have.
LEMMA PushTypes ==
  ASSUME RegistriesTypeOK, NEW ls \in [Ids -> Seq(LinkNotes)], NEW es \in [Ids -> SUBSET Lanes],
         PushAll(ls, es)
  PROVE /\ remotes' \in [Ids -> RemoteUplinks \cup {NoConn}]
        /\ writes' \subseteq Writes
        /\ \A r \in Ids : remotes'[r] = NoConn <=> remotes[r] = NoConn
        /\ \A r \in Ids : Registered(r) => remotes'[r].conn = remotes[r].conn
<1> DEFINE targets == {r \in Ids : Registered(r) /\ (ls[r] # <<>> \/ es[r] # {})}
<1>1. /\ remotes' = [r \in Ids |-> IF r \in targets THEN Push(remotes[r], ls[r], es[r]) ELSE remotes[r]]
      /\ writes' = writes \cup
           {[id |-> r, conn |-> remotes[r].home, note |-> First(ls[r], es[r])] :
              r \in {q \in targets : remotes[q].home # NoConn}}
  BY DEF PushAll
<1>2. ASSUME NEW r \in Ids, Registered(r)
      PROVE /\ remotes[r] \in RemoteUplinks /\ ls[r] \in Seq(LinkNotes) /\ es[r] \in SUBSET Lanes
            /\ Push(remotes[r], ls[r], es[r]) \in RemoteUplinks
            /\ Push(remotes[r], ls[r], es[r]).conn = remotes[r].conn
  <2>1. remotes[r] \in RemoteUplinks
    BY <1>2 DEF RegistriesTypeOK, Registered
  <2>2. ls[r] \in Seq(LinkNotes) /\ es[r] \in SUBSET Lanes
    OBVIOUS
  <2> QED BY <2>1, <2>2, PushType
<1>3. /\ remotes' \in [Ids -> RemoteUplinks \cup {NoConn}]
      /\ \A r \in Ids : remotes'[r] = NoConn <=> remotes[r] = NoConn
      /\ \A r \in Ids : Registered(r) => remotes'[r].conn = remotes[r].conn
  <2>1. ASSUME NEW r \in Ids
        PROVE /\ remotes'[r] \in RemoteUplinks \cup {NoConn}
              /\ remotes'[r] = NoConn <=> remotes[r] = NoConn
              /\ Registered(r) => remotes'[r].conn = remotes[r].conn
    <3>1. CASE r \in targets
      BY <1>1, <1>2, <3>1, NoConnAssumption DEF Registered
    <3>2. CASE r \notin targets
      BY <1>1, <3>2 DEF RegistriesTypeOK
    <3> QED BY <3>1, <3>2
  <2>2. remotes' = [r \in Ids |-> remotes'[r]]
    BY <1>1
  <2> QED BY <2>1, <2>2
<1>4. ASSUME NEW r \in {q \in targets : remotes[q].home # NoConn}
      PROVE [id |-> r, conn |-> remotes[r].home, note |-> First(ls[r], es[r])]
              \in Writes
  <2>1. remotes[r].home \in Conns
    BY <1>2, <1>4 DEF RemoteUplinks
  <2>2. First(ls[r], es[r]) \in [type : {"Linked", "Unlinked", "Event"}, lane : Lanes]
    BY <1>2, <1>4, FirstType
  <2> QED BY <1>4, <2>1, <2>2 DEF Writes
<1> QED BY <1>1, <1>3, <1>4 DEF RegistriesTypeOK

\* The timers that are started are those of rs, after the ones there are.
LEMMA ScheduleAll ==
  ASSUME RegistriesTypeOK, NEW rs \in SUBSET Ids, Schedule(rs)
  PROVE /\ timers' \in Seq([id : Ids, left : Nat])
        /\ \A i \in DOMAIN timers : i \in DOMAIN timers' /\ timers'[i] = timers[i]
        /\ \A r \in rs : \E i \in DOMAIN timers' : timers'[i].id = r
<1> DEFINE n == Cardinality(rs)
           q == SetToSeq(rs)
           new == [i \in 1..n |-> [id |-> q[i], left |-> Delay]]
<1>1. /\ n \in Nat /\ IsFiniteSet(rs) /\ timers \in Seq([id : Ids, left : Nat])
      /\ timers' = timers \o new
  BY FiniteParts DEF RegistriesTypeOK, Schedule
<1>2. q \in Seq(rs) /\ DOMAIN q = 1..n /\ Len(q) = n /\ \A r \in rs : \E i \in 1..n : q[i] = r
  BY <1>1, SetToSeqHasAll
<1> HIDE DEF q, n
<1>3. new \in Seq([id : Ids, left : Nat]) /\ Len(new) = n /\ \A i \in 1..n : new[i].id = q[i]
  BY <1>1, <1>2, DelayAssumption
<1> HIDE DEF new
<1>4. /\ timers' \in Seq([id : Ids, left : Nat])
      /\ \A i \in DOMAIN timers : i \in DOMAIN timers' /\ timers'[i] = timers[i]
      /\ \A i \in 1..n : Len(timers) + i \in DOMAIN timers' /\ timers'[Len(timers) + i] = new[i]
  BY <1>1, <1>3
<1> QED BY <1>2, <1>3, <1>4, ZenonT(40)

-----------------------------------------------------------------------------
(* The registries, whoever is attached under which id.                      *)

LEMMA IndexInit == Init => IndexInv
<1> SUFFICES ASSUME Init PROVE IndexInv
  OBVIOUS
<1>1. PICK s \in Setups :
        /\ registry = s.lanes
        /\ lanes = s.lanes
        /\ conn = [c \in Conns |-> [status |-> IF c \in s.conns THEN "unused" ELSE "absent",
                                   open |-> TRUE, told |-> {}]]
  BY DEF Init
<1>2. s.lanes \subseteq Lanes
  BY SetupsAssumption
<1>3. Pairs(forward) = {}
  BY DEF Pairs, Init
<1>4. LinksAgree
  BY <1>3, FS_EmptySet DEF LinksAgree, Pairs, Init
<1>5. IdleHasTimer
  BY DEF IdleHasTimer, Registered, Init
<1>6. RegistriesTypeOK
  <2>1. conn \in [Conns -> FarSides]
    BY <1>1 DEF FarSides
  <2> QED BY <1>1, <1>2, <2>1 DEF RegistriesTypeOK, Init
<1> QED BY <1>4, <1>5, <1>6 DEF IndexInv

\* Timers are kept, and one is started for a remote that becomes idle.
LEMMA TimersSuffice ==
  ASSUME IdleHasTimer,
         \A i \in DOMAIN timers : \E j \in DOMAIN timers' : timers'[j].id = timers[i].id,
         \A r \in Ids : (remotes'[r] # NoConn /\ backwards'[r] = {}) =>
            \/ remotes[r] # NoConn /\ backwards[r] = {}
            \/ \E j \in DOMAIN timers' : timers'[j].id = r,
         phase' = phase
  PROVE IdleHasTimer'
<1> SUFFICES ASSUME NEW r \in Ids, phase = "running", remotes'[r] # NoConn, backwards'[r] = {}
             PROVE \E j \in DOMAIN timers' : timers'[j].id = r
  BY DEF IdleHasTimer, Registered
<1>1. CASE remotes[r] # NoConn /\ backwards[r] = {}
  <2>1. PICK i \in DOMAIN timers : timers[i].id = r
    BY <1>1 DEF IdleHasTimer, Registered
  <2> QED BY <2>1
<1> QED BY <1>1

LEMMA AttachKeepsIndex ==
  ASSUME IndexInv, NEW c \in Conns, Attach(c)
  PROVE IndexInv'
<1> DEFINE r == IdOf[c]
           up == [conn |-> c, home |-> c, specials |-> <<>>, events |-> {}]
<1>1. r \in Ids /\ up \in RemoteUplinks /\ RegistriesTypeOK
  BY IdOfAssumption DEF RemoteUplinks, IndexInv
<1>2. /\ remotes' = [remotes EXCEPT ![r] = up] /\ Schedule({r})
      /\ UNCHANGED <<writes, forward, backwards, total_count, reporters, link_count, registry, lanes,
                     phase, reason>>
  BY DEF Attach, links
<1>3. /\ timers' \in Seq([id : Ids, left : Nat])
      /\ \A i \in DOMAIN timers : i \in DOMAIN timers' /\ timers'[i] = timers[i]
      /\ \E i \in DOMAIN timers' : timers'[i].id = r
  BY <1>1, <1>2, ScheduleAll
<1>4. conn' \in [Conns -> FarSides]
  <2>1. \A d \in Conns : conn'[d] \in FarSides
    BY <1>1, ZenonT(40) DEF Attach, RegistriesTypeOK, FarSides
  <2>2. conn' = [d \in Conns |-> conn'[d]]
    BY DEF Attach
  <2> QED BY <2>1, <2>2
<1>5. remotes' \in [Ids -> RemoteUplinks \cup {NoConn}]
  BY <1>1, <1>2 DEF RegistriesTypeOK
<1>6. RegistriesTypeOK'
  BY <1>1, <1>2, <1>3, <1>4, <1>5 DEF RegistriesTypeOK
<1>7. LinksAgree'
  BY <1>2 DEF LinksAgree, IndexInv
<1>8. IdleHasTimer'
  <2>1. \A q \in Ids : q # r => remotes'[q] = remotes[q]
    BY <1>1, <1>2 DEF RegistriesTypeOK
  <2> QED BY <1>2, <1>3, <2>1, TimersSuffice DEF IndexInv
<1> QED BY <1>6, <1>7, <1>8 DEF IndexInv

\* The handlers that push and keep the timers or start some: what is left to show is
\* that the links fit and that the remotes which become idle have a timer.
LEMMA PushKeepsIndex ==
  ASSUME IndexInv, NEW ls \in [Ids -> Seq(LinkNotes)], NEW es \in [Ids -> SUBSET Lanes],
         PushAll(ls, es), LinksTypeOK', LinksAgree',
         NEW rs \in SUBSET Ids, Schedule(rs) \/ (rs = {} /\ timers' = timers),
         \A r \in Ids \ rs : backwards'[r] = {} => backwards[r] = {},
         lanes' \subseteq lanes, UNCHANGED <<registry, phase, reason, conn>>
  PROVE IndexInv'
<1>1. RegistriesTypeOK
  BY DEF IndexInv
<1>2. /\ timers' \in Seq([id : Ids, left : Nat])
      /\ \A i \in DOMAIN timers : i \in DOMAIN timers' /\ timers'[i] = timers[i]
      /\ \A r \in rs : \E i \in DOMAIN timers' : timers'[i].id = r
  <2>1. CASE Schedule(rs)
    BY <1>1, <2>1, ScheduleAll
  <2>2. CASE rs = {} /\ timers' = timers
    BY <1>1, <2>2 DEF RegistriesTypeOK
  <2> QED BY <2>1, <2>2
<1>3. /\ remotes' \in [Ids -> RemoteUplinks \cup {NoConn}]
      /\ writes' \subseteq Writes
      /\ \A r \in Ids : remotes'[r] = NoConn <=> remotes[r] = NoConn
  BY <1>1, PushTypes
<1>4. RegistriesTypeOK'
  BY <1>1, <1>2, <1>3 DEF RegistriesTypeOK, LinksTypeOK
<1>5. IdleHasTimer'
  BY <1>2, <1>3, TimersSuffice DEF IndexInv
<1> QED BY <1>4, <1>5 DEF IndexInv

LEMMA IndexParts == IndexInv => RegistriesTypeOK /\ LinksTypeOK /\ LinksAgree /\ IdleHasTimer
BY DEF IndexInv, RegistriesTypeOK, LinksTypeOK

LEMMA LinkKeepsIndex ==
  ASSUME IndexInv, NEW r \in Ids, NEW l \in Lanes, Link(r, l)
  PROVE IndexInv'
<1>1. InsertLink(l, r) /\ PushAll(To({r}, Linked(l)), NoEvents)
      /\ UNCHANGED <<timers, registry, lanes, phase, reason, conn>>
  BY DEF Link
<1>2. LinksTypeOK' /\ LinksAgree' /\ backwards' = [backwards EXCEPT ![r] = @ \cup {l}]
  BY <1>1, IndexParts, InsertKeepsLinks
<1>3. To({r}, Linked(l)) \in [Ids -> Seq(LinkNotes)] /\ NoEvents \in [Ids -> SUBSET Lanes]
  BY MessageTypes
<1>4. \A q \in Ids \ {} : backwards'[q] = {} => backwards[q] = {}
  BY <1>2, IndexParts DEF LinksTypeOK
<1> HIDE DEF LinksTypeOK
<1> QED BY <1>1, <1>2, <1>3, <1>4, PushKeepsIndex

LEMMA RespondKeepsIndex ==
  ASSUME IndexInv, NEW r \in Ids, NEW l \in Lanes, Respond(r, l)
  PROVE IndexInv'
<1>1. InsertLink(l, r) /\ PushAll(To({r} \ forward[l], Linked(l)), EventsTo({r}, l))
      /\ UNCHANGED <<timers, registry, lanes, phase, reason, conn>>
  BY DEF Respond
<1>2. LinksTypeOK' /\ LinksAgree' /\ backwards' = [backwards EXCEPT ![r] = @ \cup {l}]
  BY <1>1, IndexParts, InsertKeepsLinks
<1>3. /\ To({r} \ forward[l], Linked(l)) \in [Ids -> Seq(LinkNotes)]
      /\ EventsTo({r}, l) \in [Ids -> SUBSET Lanes]
  BY MessageTypes
<1>4. \A q \in Ids \ {} : backwards'[q] = {} => backwards[q] = {}
  BY <1>2, IndexParts DEF LinksTypeOK
<1> QED BY <1>1, <1>2, <1>3, <1>4, PushKeepsIndex

LEMMA BroadcastKeepsIndex ==
  ASSUME IndexInv, NEW l \in Lanes, Broadcast(l)
  PROVE IndexInv'
<1>1. /\ PushAll(NoMessages, EventsTo(forward[l], l))
      /\ UNCHANGED <<links, timers, registry, lanes, phase, reason, conn>>
  BY DEF Broadcast
<1>2. LinksTypeOK' /\ LinksAgree' /\ backwards' = backwards
  BY <1>1, IndexParts DEF links, LinksTypeOK, LinksAgree
<1>3. NoMessages \in [Ids -> Seq(LinkNotes)] /\ EventsTo(forward[l], l) \in [Ids -> SUBSET Lanes]
  BY MessageTypes
<1>4. /\ \A q \in Ids \ {} : backwards'[q] = {} => backwards[q] = {}
      /\ lanes' \subseteq lanes /\ timers' = timers /\ UNCHANGED <<registry, phase, reason, conn>>
  BY <1>1, <1>2
<1> QED BY <1>1, <1>2, <1>3, <1>4, PushKeepsIndex

LEMMA UnlinkKeepsIndex ==
  ASSUME IndexInv, NEW r \in Ids, NEW l \in Lanes, Unlink(r, l)
  PROVE IndexInv'
<1> DEFINE rs == IF backwards[r] = {l} THEN {r} ELSE {}
<1>1. RemoveLink(l, r) /\ Schedule(rs) /\ PushAll(To({r}, Unlinked(l)), NoEvents)
      /\ UNCHANGED <<registry, lanes, phase, reason, conn>> /\ r \in forward[l]
  BY DEF Unlink
<1>2. LinksTypeOK' /\ LinksAgree' /\ backwards' = [backwards EXCEPT ![r] = @ \ {l}]
  BY <1>1, IndexParts, RemoveKeepsLinks
<1>3. To({r}, Unlinked(l)) \in [Ids -> Seq(LinkNotes)] /\ NoEvents \in [Ids -> SUBSET Lanes]
  BY MessageTypes
<1>4. rs \in SUBSET Ids /\ \A q \in Ids \ rs : backwards'[q] = {} => backwards[q] = {}
  BY <1>2, IndexParts DEF LinksTypeOK
<1> HIDE DEF rs
<1> QED BY <1>1, <1>2, <1>3, <1>4, PushKeepsIndex

LEMMA LaneFailedKeepsIndex ==
  ASSUME IndexInv, NEW l \in Lanes, LaneFailed(l)
  PROVE IndexInv'
<1>1. /\ Schedule(Prunes(l)) /\ PushAll(To(forward[l], Unlinked(l)), NoEvents)
      /\ UNCHANGED <<registry, phase, reason, conn>> /\ lanes' \subseteq lanes
  BY DEF LaneFailed
<1>2. LinksTypeOK' /\ LinksAgree' /\ backwards' = [r \in Ids |-> backwards[r] \ {l}]
  BY IndexParts, FailureKeepsLinks
<1>3. To(forward[l], Unlinked(l)) \in [Ids -> Seq(LinkNotes)] /\ NoEvents \in [Ids -> SUBSET Lanes]
  BY MessageTypes
<1>4. /\ Prunes(l) \in SUBSET Ids
      /\ \A q \in Ids \ Prunes(l) : backwards'[q] = {} => backwards[q] = {}
  <2>1. Prunes(l) \in SUBSET Ids
    BY IndexParts DEF Prunes, LinksTypeOK
  <2>2. ASSUME NEW q \in Ids \ Prunes(l), backwards'[q] = {} PROVE backwards[q] = {}
    <3>1. backwards[q] \subseteq {l}
      BY <1>2, <2>2
    <3>2. l \in backwards[q] => q \in Prunes(l)
      BY <3>1, IndexParts DEF LinksAgree, Prunes
    <3> QED BY <2>2, <3>1, <3>2
  <2> QED BY <2>1, <2>2
<1> QED BY <1>1, <1>2, <1>3, <1>4, PushKeepsIndex

\* A far side learns the cause, or reads a message, or goes; it stays a far side.
LEMMA FarSideType ==
  ASSUME NEW f \in FarSides
  PROVE /\ \A x \in {"RemoteTimedOut", "ChannelClosed", "AgentStoppedExternally", "AgentTimedOut"} :
             [f EXCEPT !.status = x] \in FarSides
        /\ [f EXCEPT !.open = FALSE] \in FarSides
        /\ \A t \in SUBSET Lanes : [f EXCEPT !.told = t] \in FarSides
BY DEF FarSides

\* A remote goes with its links; no other becomes idle.
LEMMA RemovalKeepsIndex ==
  ASSUME IndexInv, NEW r \in Ids, NEW why \in {"RemoteTimedOut", "ChannelClosed"},
         RemoveRemote(r, why), writes' \subseteq writes,
         timers' \in Seq([id : Ids, left : Nat]),
         \A i \in DOMAIN timers : timers[i].id # r =>
            \E j \in DOMAIN timers' : timers'[j].id = timers[i].id,
         UNCHANGED <<registry, lanes, phase, reason>>
  PROVE IndexInv'
<1>1. LinksTypeOK' /\ LinksAgree' /\ backwards' = [backwards EXCEPT ![r] = {}]
  BY IndexParts, RemoteKeepsLinks
<1>2. RegistriesTypeOK
  BY IndexParts
<1>3. remotes' = [remotes EXCEPT ![r] = NoConn]
  BY DEF RemoveRemote
<1>4. conn' \in [Conns -> FarSides]
  <2>1. CASE Registered(r)
    <3>1. remotes[r].conn \in Conns
      BY <1>2, <2>1 DEF RegistriesTypeOK, Registered, RemoteUplinks
    <3>2. conn' = [conn EXCEPT ![remotes[r].conn].status = why]
      BY <2>1 DEF RemoveRemote
    <3> QED BY <1>2, <3>1, <3>2, FarSideType DEF RegistriesTypeOK
  <2>2. CASE ~Registered(r)
    BY <1>2, <2>2 DEF RemoveRemote, RegistriesTypeOK
  <2> QED BY <2>1, <2>2
<1>5. RegistriesTypeOK'
  BY <1>1, <1>2, <1>3, <1>4 DEF RegistriesTypeOK, LinksTypeOK
<1>6. IdleHasTimer'
  <2> SUFFICES ASSUME NEW q \in Ids, phase = "running", remotes'[q] # NoConn, backwards'[q] = {}
               PROVE \E j \in DOMAIN timers' : timers'[j].id = q
    BY DEF IdleHasTimer, Registered
  <2>1. q # r
    BY <1>2, <1>3 DEF RegistriesTypeOK
  <2>2. remotes[q] # NoConn /\ backwards[q] = {}
    BY <1>1, <1>2, <1>3, <2>1 DEF RegistriesTypeOK
  <2>3. PICK i \in DOMAIN timers : timers[i].id = q
    BY <2>2, IndexParts DEF IdleHasTimer, Registered
  <2> QED BY <2>1, <2>3
<1> QED BY <1>1, <1>5, <1>6 DEF IndexInv

\* The timer at the head is spent on a remote that has links, or goes with the remote.
LEMMA PruneKeepsIndex ==
  ASSUME IndexInv, Prune
  PROVE IndexInv'
<1> DEFINE h == Head(timers)
           r == h.id
<1>1. /\ timers # <<>> /\ timers \in Seq([id : Ids, left : Nat]) /\ timers' = Tail(timers)
      /\ UNCHANGED <<writes, registry, lanes, phase, reason>> /\ RegistriesTypeOK
  BY IndexParts DEF Prune, RegistriesTypeOK
<1>2. h \in [id : Ids, left : Nat] /\ h = timers[1] /\ timers' \in Seq([id : Ids, left : Nat])
  <2>1. ASSUME NEW S, NEW q \in Seq(S), q # <<>> PROVE Head(q) \in S /\ Head(q) = q[1] /\ Tail(q) \in Seq(S)
    BY <2>1
  <2> QED BY <1>1, <2>1
<1>3. ASSUME NEW i \in DOMAIN timers, timers[i].id # r
      PROVE \E j \in DOMAIN timers' : timers'[j].id = timers[i].id
  <2>1. i # 1 /\ i \in 1..Len(timers)
    BY <1>1, <1>2, <1>3
  <2>2. i - 1 \in DOMAIN timers' /\ timers'[i - 1] = timers[i]
    BY <1>1, <2>1
  <2> QED BY <2>2
<1> HIDE DEF h
<1>4. CASE Prunable(r)
  <2>1. RemoveRemote(r, "RemoteTimedOut")
    BY <1>4 DEF Prune, h
  <2> QED BY <1>1, <1>2, <1>3, <2>1, RemovalKeepsIndex
<1>5. CASE ~Prunable(r)
  <2>1. UNCHANGED <<remotes, links, conn>>
    BY <1>5 DEF Prune, h
  <2>2. RegistriesTypeOK' /\ LinksAgree'
    BY <1>1, <1>2, <2>1, IndexParts DEF RegistriesTypeOK, LinksAgree, links
  <2>3. IdleHasTimer'
    <3> SUFFICES ASSUME NEW q \in Ids, phase = "running", remotes'[q] # NoConn, backwards'[q] = {}
                 PROVE \E j \in DOMAIN timers' : timers'[j].id = q
      BY <1>1 DEF IdleHasTimer, Registered
    <3>1. remotes[q] # NoConn /\ backwards[q] = {}
      BY <2>1 DEF links
    <3>2. PICK i \in DOMAIN timers : timers[i].id = q
      BY <3>1, IndexParts DEF IdleHasTimer, Registered
    <3>3. q # r
      BY <1>5, <3>1 DEF Prunable
    <3> QED BY <1>3, <3>2, <3>3
  <2> QED BY <2>2, <2>3 DEF IndexInv
<1> QED BY <1>4, <1>5

LEMMA TickKeepsIndex ==
  ASSUME IndexInv, Tick
  PROVE IndexInv'
<1>1. /\ timers \in Seq([id : Ids, left : Nat]) /\ RegistriesTypeOK
      /\ timers' = [i \in DOMAIN timers |-> [timers[i] EXCEPT !.left = IF @ = 0 THEN 0 ELSE @ - 1]]
      /\ UNCHANGED <<remotes, writes, links, registry, lanes, phase, reason, conn>>
  BY IndexParts DEF Tick, RegistriesTypeOK
<1>2. ASSUME NEW i \in DOMAIN timers
      PROVE timers'[i] \in [id : Ids, left : Nat] /\ timers'[i].id = timers[i].id
  <2>1. ASSUME NEW S, NEW q \in Seq(S), NEW j \in DOMAIN q PROVE q[j] \in S
    OBVIOUS
  <2>2. timers[i] \in [id : Ids, left : Nat]
    BY <1>1, <2>1
  <2> QED BY <1>1, <2>2
<1>3. timers' \in Seq([id : Ids, left : Nat]) /\ DOMAIN timers' = DOMAIN timers
  <2>1. DOMAIN timers = 1..Len(timers) /\ Len(timers) \in Nat
    BY <1>1
  <2>2. timers' = [i \in 1..Len(timers) |-> timers'[i]]
    BY <1>1, <2>1
  <2>3. timers' \in [1..Len(timers) -> [id : Ids, left : Nat]]
    BY <1>2, <2>1, <2>2
  <2>4. ASSUME NEW S, NEW n \in Nat, NEW q \in [1..n -> S] PROVE q \in Seq(S) /\ DOMAIN q = 1..n
    OBVIOUS
  <2> QED BY <2>1, <2>3, <2>4
<1>4. RegistriesTypeOK' /\ LinksAgree'
  BY <1>1, <1>3, IndexParts DEF RegistriesTypeOK, LinksAgree, links
<1>5. IdleHasTimer'
  BY <1>1, <1>2, <1>3, IndexParts, TimersSuffice DEF links
<1> QED BY <1>4, <1>5 DEF IndexInv

\* A sender that comes back keeps the remotes registered.
LEMMA ReplaceTypes ==
  ASSUME RegistriesTypeOK, NEW w \in writes, Replace(w)
  PROVE /\ remotes' \in [Ids -> RemoteUplinks \cup {NoConn}]
        /\ writes' \subseteq Writes
        /\ \A r \in Ids : remotes'[r] = NoConn <=> remotes[r] = NoConn
<1> DEFINE up == remotes[w.id]
           next(n) == (writes \ {w}) \cup {[id |-> w.id, conn |-> w.conn, note |-> n]}
<1>1. w \in Writes /\ w.id \in Ids /\ w.conn \in Conns /\ writes \ {w} \subseteq Writes
  BY DEF RegistriesTypeOK, Writes
<1>2. up # NoConn => up \in RemoteUplinks
  BY <1>1 DEF RegistriesTypeOK
<1>3. ASSUME NEW x \in RemoteUplinks, remotes' = [remotes EXCEPT ![w.id] = x], up # NoConn
      PROVE /\ remotes' \in [Ids -> RemoteUplinks \cup {NoConn}]
            /\ \A r \in Ids : remotes'[r] = NoConn <=> remotes[r] = NoConn
  BY <1>1, <1>3, NoConnAssumption DEF RegistriesTypeOK
<1>4. ASSUME NEW n \in [type : {"Linked", "Unlinked", "Event"}, lane : Lanes] PROVE next(n) \subseteq Writes
  BY <1>1 DEF Writes
<1>5. CASE up = NoConn /\ writes' = writes \ {w} /\ UNCHANGED remotes
  BY <1>1, <1>5 DEF RegistriesTypeOK
<1>6. CASE /\ up # NoConn /\ up.specials # <<>> /\ writes' = next(Head(up.specials))
           /\ remotes' = [remotes EXCEPT ![w.id].specials = Tail(@)]
  <2>1. up.specials \in Seq(LinkNotes)
    BY <1>2, <1>6 DEF RemoteUplinks
  <2>2. Head(up.specials) \in LinkNotes /\ Tail(up.specials) \in Seq(LinkNotes)
    BY <1>6, <2>1
  <2> DEFINE x == [up EXCEPT !.specials = Tail(up.specials)]
  <2>3. x \in RemoteUplinks
    BY <1>2, <1>6, <2>2 DEF RemoteUplinks
  <2>4. remotes' = [remotes EXCEPT ![w.id] = x]
    BY <1>6
  <2>5. Head(up.specials) \in [type : {"Linked", "Unlinked", "Event"}, lane : Lanes]
    BY <2>2 DEF LinkNotes
  <2> QED BY <1>3, <1>4, <1>6, <2>3, <2>4, <2>5
<1>7. CASE /\ up # NoConn /\ up.specials = <<>>
           /\ \E l \in up.events : /\ writes' = next(Event(l))
                                   /\ remotes' = [remotes EXCEPT ![w.id].events = @ \ {l}]
  <2>1. PICK l \in up.events : /\ writes' = next(Event(l))
                               /\ remotes' = [remotes EXCEPT ![w.id].events = @ \ {l}]
    BY <1>7
  <2> DEFINE x == [up EXCEPT !.events = @ \ {l}]
  <2>2. x \in RemoteUplinks /\ l \in Lanes
    BY <1>2, <1>7, <2>1 DEF RemoteUplinks
  <2>3. remotes' = [remotes EXCEPT ![w.id] = x]
    BY <2>1
  <2>4. Event(l) \in [type : {"Linked", "Unlinked", "Event"}, lane : Lanes]
    BY <2>2 DEF Event
  <2> QED BY <1>3, <1>4, <1>7, <2>1, <2>2, <2>3, <2>4
<1>8. CASE /\ up # NoConn /\ up.specials = <<>> /\ up.events = {} /\ writes' = writes \ {w}
           /\ remotes' = [remotes EXCEPT ![w.id].home = w.conn]
  <2> DEFINE x == [up EXCEPT !.home = w.conn]
  <2>1. x \in RemoteUplinks
    BY <1>1, <1>2, <1>8 DEF RemoteUplinks
  <2>2. remotes' = [remotes EXCEPT ![w.id] = x]
    BY <1>8
  <2> QED BY <1>1, <1>3, <1>8, <2>1, <2>2
<1> QED BY <1>5, <1>6, <1>7, <1>8 DEF Replace

\* What changes no index, starts no timer and removes none.
LEMMA OthersKeepIndex ==
  ASSUME IndexInv, UNCHANGED <<links, timers, registry, lanes>>,
         remotes' \in [Ids -> RemoteUplinks \cup {NoConn}], writes' \subseteq Writes,
         \A r \in Ids : remotes'[r] = NoConn <=> remotes[r] = NoConn,
         phase' = phase \/ phase' \in {"cleanup", "stopped", "timed_out", "failed"},
         reason' \in {"AgentStoppedExternally", "AgentTimedOut"}, conn' \in [Conns -> FarSides]
  PROVE IndexInv'
<1>1. RegistriesTypeOK' /\ LinksAgree'
  BY IndexParts DEF RegistriesTypeOK, LinksAgree, links
<1>2. IdleHasTimer'
  BY IndexParts DEF IdleHasTimer, Registered, links
<1> QED BY <1>1, <1>2 DEF IndexInv

LEMMA WriteDoneKeepsIndex ==
  ASSUME IndexInv, NEW w \in writes, WriteDone(w)
  PROVE IndexInv'
<1>1. /\ conn' = Told(w) /\ Replace(w) /\ UNCHANGED <<links, timers, registry, lanes, phase, reason>>
      /\ RegistriesTypeOK
  BY IndexParts DEF WriteDone
<1>2. w.conn \in Conns /\ w.note.lane \in Lanes /\ conn[w.conn] \in FarSides
  <2>1. w \in Writes /\ conn \in [Conns -> FarSides]
    BY <1>1 DEF RegistriesTypeOK
  <2>2. w.conn \in Conns /\ w.note \in [type : {"Linked", "Unlinked", "Event"}, lane : Lanes]
    BY <2>1 DEF Writes
  <2> QED BY <2>1, <2>2
<1> DEFINE t == CASE w.note.type = "Linked" -> conn[w.conn].told \cup {w.note.lane}
                  [] w.note.type = "Unlinked" -> conn[w.conn].told \ {w.note.lane}
                  [] OTHER -> conn[w.conn].told
<1>3. t \in SUBSET Lanes
  BY <1>2 DEF FarSides
<1>4. conn' = [conn EXCEPT ![w.conn] = [conn[w.conn] EXCEPT !.told = t]]
  BY <1>1, <1>2 DEF Told, RegistriesTypeOK
<1> HIDE DEF t
<1>5. conn' \in [Conns -> FarSides]
  <2>1. [conn[w.conn] EXCEPT !.told = t] \in FarSides
    BY <1>2, <1>3, FarSideType
  <2>2. conn \in [Conns -> FarSides]
    BY <1>1 DEF RegistriesTypeOK
  <2> QED BY <1>2, <1>4, <2>1, <2>2
<1>6. reason \in {"AgentStoppedExternally", "AgentTimedOut"}
  BY <1>1 DEF RegistriesTypeOK
<1> QED BY <1>1, <1>5, <1>6, ReplaceTypes, OthersKeepIndex

LEMMA WriteFailedKeepsIndex ==
  ASSUME IndexInv, NEW w \in writes, WriteFailed(w)
  PROVE IndexInv'
<1>1. /\ writes' = writes \ {w} /\ UNCHANGED <<timers, registry, lanes, phase, reason>>
      /\ RegistriesTypeOK /\ w.id \in Ids
  BY IndexParts DEF WriteFailed, RegistriesTypeOK, Writes
<1>2. CASE RemoveRemote(w.id, "ChannelClosed")
  <2>1. timers' \in Seq([id : Ids, left : Nat]) /\ writes' \subseteq writes
    BY <1>1 DEF RegistriesTypeOK
  <2> QED BY <1>1, <1>2, <2>1, RemovalKeepsIndex
<1>3. CASE UNCHANGED <<remotes, links, conn>>
  <2>1. /\ remotes' \in [Ids -> RemoteUplinks \cup {NoConn}] /\ writes' \subseteq Writes
        /\ reason' \in {"AgentStoppedExternally", "AgentTimedOut"} /\ conn' \in [Conns -> FarSides]
    BY <1>1, <1>3 DEF RegistriesTypeOK
  <2>2. UNCHANGED <<links, timers, registry, lanes>> /\ remotes' = remotes /\ phase' = phase
    BY <1>1, <1>3
  <2> QED BY <2>1, <2>2, OthersKeepIndex
<1> QED BY <1>2, <1>3 DEF WriteFailed

\* The loop ends, or what follows it.
LEMMA EndKeepsIndex ==
  ASSUME IndexInv, (\E c \in Conns : Disconnect(c)) \/ Dispose \/ CleanupTimeout \/ StoreFails
  PROVE IndexInv'
<1>1. RegistriesTypeOK
  BY IndexParts
<1>2. /\ remotes' = remotes /\ writes' = writes /\ reason' = reason
      /\ UNCHANGED <<links, timers, registry, lanes>>
      /\ phase' = phase \/ phase' \in {"cleanup", "stopped", "timed_out", "failed"}
  BY DEF Disconnect, Dispose, CleanupTimeout, StoreFails
<1>3. conn' \in [Conns -> FarSides]
  <2>1. ASSUME NEW c \in Conns, Disconnect(c) PROVE conn' \in [Conns -> FarSides]
    BY <1>1, <2>1, FarSideType DEF Disconnect, RegistriesTypeOK
  <2>2. CASE Dispose
    <3>1. \A c \in Conns : conn'[c] \in FarSides
      BY <1>1, <2>2, FarSideType DEF Dispose, RegistriesTypeOK
    <3>2. conn' = [c \in Conns |-> conn'[c]]
      BY <2>2 DEF Dispose
    <3> QED BY <3>1, <3>2
  <2>3. CASE CleanupTimeout \/ StoreFails
    BY <1>1, <2>3 DEF CleanupTimeout, StoreFails, RegistriesTypeOK
  <2> QED BY <2>1, <2>2, <2>3
<1>4. /\ remotes' \in [Ids -> RemoteUplinks \cup {NoConn}] /\ writes' \subseteq Writes
      /\ reason' \in {"AgentStoppedExternally", "AgentTimedOut"}
  BY <1>1, <1>2 DEF RegistriesTypeOK
<1> QED BY <1>2, <1>3, <1>4, OthersKeepIndex

\* What unlink_all sends to a remote: an Unlinked for each of its links and no others.
Closing(r) == {Unlinked(l) : l \in {k \in Lanes : r \in forward[k]}}

LEMMA ClosingHasAll ==
  ASSUME NEW r \in Ids
  PROVE /\ SetToSeq(Closing(r)) \in Seq(Closing(r)) /\ Closing(r) \subseteq LinkNotes
        /\ SetToSeq(Closing(r)) \in Seq(LinkNotes)
        /\ \A l \in Lanes : r \in forward[l] =>
             \E i \in DOMAIN SetToSeq(Closing(r)) : SetToSeq(Closing(r))[i] = Unlinked(l)
<1> DEFINE K == {k \in Lanes : r \in forward[k]}
           f == [l \in K |-> Unlinked(l)]
<1>1. K \in SUBSET Lanes
  OBVIOUS
<1>2. IsFiniteSet(K)
  BY <1>1, FiniteParts
<1>3. f \in Surjection(K, Closing(r))
  BY DEF Surjection, Closing
<1>4. IsFiniteSet(Closing(r))
  BY <1>2, <1>3, FS_Surjection
<1>5. Closing(r) \subseteq LinkNotes
  BY DEF Closing, Unlinked, LinkNotes
<1>6. \A l \in Lanes : r \in forward[l] => Unlinked(l) \in Closing(r)
  BY DEF Closing
<1>7. /\ SetToSeq(Closing(r)) \in Seq(Closing(r))
      /\ \A x \in Closing(r) : \E i \in DOMAIN SetToSeq(Closing(r)) : SetToSeq(Closing(r))[i] = x
  BY <1>4, SetToSeqHasAll
<1>8. ASSUME NEW q \in Seq(Closing(r)) PROVE q \in Seq(LinkNotes)
  BY <1>5
<1> QED BY <1>5, <1>6, <1>7, <1>8

LEMMA StopKeepsIndex ==
  ASSUME IndexInv, Stop
  PROVE IndexInv'
<1> DEFINE ls == [r \in Ids |-> SetToSeq(Closing(r))]
<1>1. /\ PushAll(ls, NoEvents) /\ phase' = "cleanup" /\ lanes' = {} /\ timers' = <<>>
      /\ reason' \in {"AgentStoppedExternally", "AgentTimedOut"} /\ UNCHANGED <<registry, conn>>
  BY DEF Stop, Closing
<1>2. LinksTypeOK' /\ LinksAgree'
  BY IndexParts, StopKeepsLinks
<1>3. ls \in [Ids -> Seq(LinkNotes)] /\ NoEvents \in [Ids -> SUBSET Lanes]
  BY ClosingHasAll, MessageTypes
<1> HIDE DEF ls
<1>4. remotes' \in [Ids -> RemoteUplinks \cup {NoConn}] /\ writes' \subseteq Writes
  BY <1>1, <1>3, IndexParts, PushTypes
<1>5. RegistriesTypeOK'
  BY <1>1, <1>2, <1>4, IndexParts DEF RegistriesTypeOK, LinksTypeOK
<1>6. IdleHasTimer'
  BY <1>1 DEF IdleHasTimer
<1> QED BY <1>2, <1>5, <1>6 DEF IndexInv

LEMMA NextKeepsIndex == IndexInv /\ [Next]_vars => IndexInv'
<1> SUFFICES ASSUME IndexInv, [Next]_vars PROVE IndexInv'
  OBVIOUS
<1>1. ASSUME NEW c \in Conns, Attach(c) PROVE IndexInv'
  BY <1>1, AttachKeepsIndex
<1>2. ASSUME NEW r \in Ids, NEW l \in Lanes, Link(r, l) \/ Unlink(r, l) \/ Respond(r, l) PROVE IndexInv'
  BY <1>2, LinkKeepsIndex, UnlinkKeepsIndex, RespondKeepsIndex
<1>3. ASSUME NEW l \in Lanes, Broadcast(l) \/ LaneFailed(l) PROVE IndexInv'
  BY <1>3, BroadcastKeepsIndex, LaneFailedKeepsIndex
<1>4. CASE Prune \/ Tick \/ Stop
  BY <1>4, PruneKeepsIndex, TickKeepsIndex, StopKeepsIndex
<1>5. ASSUME NEW w \in writes, WriteDone(w) \/ WriteFailed(w) PROVE IndexInv'
  BY <1>5, WriteDoneKeepsIndex, WriteFailedKeepsIndex
<1>6. CASE (\E c \in Conns : Disconnect(c)) \/ Dispose \/ CleanupTimeout \/ StoreFails
  BY <1>6, EndKeepsIndex
<1>7. CASE UNCHANGED vars
  <2>1. RegistriesTypeOK'
    BY <1>7, IndexParts DEF vars, links, RegistriesTypeOK
  <2>2. LinksAgree' /\ IdleHasTimer'
    BY <1>7, IndexParts DEF vars, links, LinksAgree, IdleHasTimer, Registered
  <2> QED BY <2>1, <2>2 DEF IndexInv
<1> QED BY <1>1, <1>2, <1>3, <1>4, <1>5, <1>6, <1>7 DEF Next

(***************************************************************************)
(* Whoever is attached, under whichever ids: the two indexes of Links and  *)
(* its count describe one relation, and a remote that is registered with   *)
(* no link has a timer that will prune it (Links::insert, remove,          *)
(* remove_lane, remove_remote; schedule_prune).                            *)
(***************************************************************************)
THEOREM IndexInvariant == Spec => []IndexInv
<1>1. Init => IndexInv
  BY IndexInit
<1>2. IndexInv /\ [Next]_vars => IndexInv'
  BY NextKeepsIndex
<1> QED BY <1>1, <1>2, PTL DEF Spec

\* The timer never takes a remote that has a link (remove_remote_if_idle).
THEOREM LinkedRemotesStay == Spec => LinkedNotPruned
<1>1. IndexInv /\ [Next]_vars =>
        [\A r \in Ids : (Registered(r) /\ backwards[r] # {} /\ Prune) => Registered(r)']_vars
  <2> SUFFICES ASSUME IndexInv, NEW r \in Ids, Registered(r), backwards[r] # {}, Prune
               PROVE Registered(r)'
    OBVIOUS
  <2>1. CASE Prunable(Head(timers).id)
    <3>1. r # Head(timers).id
      BY <2>1 DEF Prunable
    <3>2. remotes' = [remotes EXCEPT ![Head(timers).id] = NoConn] /\ remotes \in [Ids -> RemoteUplinks \cup {NoConn}]
      BY <2>1, IndexParts DEF Prune, RemoveRemote, RegistriesTypeOK
    <3>3. remotes'[r] = remotes[r]
      BY <3>1, <3>2
    <3> QED BY <3>3 DEF Registered
  <2>2. CASE ~Prunable(Head(timers).id)
    BY <2>2 DEF Prune, Registered
  <2> QED BY <2>1, <2>2
<1> QED BY <1>1, IndexInvariant, PTL DEF Spec, LinkedNotPruned

-----------------------------------------------------------------------------
(* What a remote will have been told.                                       *)

LEMMA NoteKinds ==
  /\ \A l \in Lanes : Linked(l).lane = l /\ Unlinked(l).lane = l /\ Linked(l) # Unlinked(l)
  /\ \A l \in Lanes : Linked(l).type = "Linked" /\ Unlinked(l).type = "Unlinked"
  /\ \A m \in LinkNotes, l \in Lanes : m.lane = l => m = Linked(l) \/ m = Unlinked(l)
BY DEF Linked, Unlinked, LinkNotes

\* The last word on a lane, in one message, in a queue without its head and in two
\* queues one after the other.
LEMMA LastWordOfNone == \A l : ~Mentions(<<>>, l)
BY DEF Mentions

LEMMA LastWordOfOne ==
  ASSUME NEW m \in LinkNotes, NEW l \in Lanes
  PROVE (Mentions(<<m>>, l) <=> m.lane = l) /\ (LastLinked(<<m>>, l) <=> m = Linked(l))
<1> DEFINE q == <<m>>
<1>1. DOMAIN q = {1} /\ q[1] = m
  OBVIOUS
<1> HIDE DEF q
<1>2. Mentions(q, l) <=> m.lane = l
  BY <1>1 DEF Mentions
<1>3. LastLinked(q, l) <=> m = Linked(l)
  <2>1. \A i, j \in DOMAIN q : ~(j > i)
    BY <1>1
  <2> QED BY <1>1, <2>1 DEF LastLinked
<1> QED BY <1>2, <1>3 DEF q

LEMMA LastWordOfTail ==
  ASSUME NEW q \in Seq(LinkNotes), q # <<>>, NEW l \in Lanes
  PROVE /\ Mentions(q, l) <=> Head(q).lane = l \/ Mentions(Tail(q), l)
        /\ Mentions(Tail(q), l) => (LastLinked(q, l) <=> LastLinked(Tail(q), l))
        /\ ~Mentions(Tail(q), l) => (LastLinked(q, l) <=> Head(q) = Linked(l))
<1> DEFINE t == Tail(q)
<1>1. /\ Len(q) \in Nat \ {0} /\ DOMAIN q = 1..Len(q) /\ Head(q) = q[1]
      /\ DOMAIN t = 1..(Len(q) - 1) /\ \A i \in 1..(Len(q) - 1) : t[i] = q[i + 1]
  OBVIOUS
<1> HIDE DEF t
<1>2. Mentions(q, l) <=> q[1].lane = l \/ Mentions(t, l)
  <2>1. ASSUME NEW i \in DOMAIN q, q[i].lane = l, i # 1 PROVE Mentions(t, l)
    <3>1. i - 1 \in DOMAIN t /\ t[i - 1] = q[i]
      BY <1>1, <2>1
    <3> QED BY <2>1, <3>1 DEF Mentions
  <2>2. ASSUME NEW i \in DOMAIN t, t[i].lane = l PROVE Mentions(q, l)
    <3>1. i + 1 \in DOMAIN q /\ q[i + 1] = t[i]
      BY <1>1
    <3> QED BY <2>2, <3>1 DEF Mentions
  <2>3. 1 \in DOMAIN q
    BY <1>1
  <2> QED BY <2>1, <2>2, <2>3 DEF Mentions
<1>3. ASSUME Mentions(t, l), LastLinked(q, l) PROVE LastLinked(t, l)
  <2>1. PICK i \in DOMAIN q : q[i] = Linked(l) /\ \A j \in DOMAIN q : j > i => q[j].lane # l
    BY <1>3 DEF LastLinked
  <2>2. PICK k \in DOMAIN t : t[k].lane = l
    BY <1>3 DEF Mentions
  <2>3. k + 1 \in DOMAIN q /\ q[k + 1] = t[k] /\ i # 1
    BY <1>1, <2>1, <2>2
  <2>4. i - 1 \in DOMAIN t /\ t[i - 1] = q[i]
    BY <1>1, <2>3
  <2>5. ASSUME NEW j \in DOMAIN t, j > i - 1 PROVE t[j].lane # l
    <3>1. j + 1 \in DOMAIN q /\ q[j + 1] = t[j] /\ j + 1 > i
      BY <1>1, <2>5
    <3> QED BY <2>1, <3>1
  <2> QED BY <2>1, <2>4, <2>5 DEF LastLinked
<1>4. ASSUME LastLinked(t, l) PROVE LastLinked(q, l)
  <2>1. PICK i \in DOMAIN t : t[i] = Linked(l) /\ \A j \in DOMAIN t : j > i => t[j].lane # l
    BY <1>4 DEF LastLinked
  <2>2. i + 1 \in DOMAIN q /\ q[i + 1] = Linked(l)
    BY <1>1, <2>1
  <2>3. ASSUME NEW j \in DOMAIN q, j > i + 1 PROVE q[j].lane # l
    <3>1. j - 1 \in DOMAIN t /\ t[j - 1] = q[j] /\ j - 1 > i
      BY <1>1, <2>3
    <3> QED BY <2>1, <3>1
  <2> QED BY <2>2, <2>3 DEF LastLinked
<1>5. ASSUME ~Mentions(t, l) PROVE LastLinked(q, l) <=> q[1] = Linked(l)
  <2>1. ASSUME NEW j \in DOMAIN q, j # 1 PROVE q[j].lane # l
    <3>1. j - 1 \in DOMAIN t /\ t[j - 1] = q[j]
      BY <1>1, <2>1
    <3> QED BY <1>5, <3>1 DEF Mentions
  <2>2. 1 \in DOMAIN q /\ \A j \in DOMAIN q : j > 1 => j # 1
    BY <1>1
  <2>3. \A i \in DOMAIN q : q[i] = Linked(l) => i = 1
    BY <2>1, NoteKinds
  <2> QED BY <2>1, <2>2, <2>3 DEF LastLinked
<1> QED BY <1>1, <1>2, <1>3, <1>4, <1>5 DEF t

LEMMA LastWordOfBoth ==
  ASSUME NEW p \in Seq(LinkNotes), NEW q \in Seq(LinkNotes), NEW l \in Lanes
  PROVE /\ Mentions(p \o q, l) <=> Mentions(p, l) \/ Mentions(q, l)
        /\ Mentions(q, l) => (LastLinked(p \o q, l) <=> LastLinked(q, l))
        /\ ~Mentions(q, l) => (LastLinked(p \o q, l) <=> LastLinked(p, l))
<1> DEFINE b == p \o q
           n == Len(p)
           m == Len(q)
<1>1. /\ n \in Nat /\ m \in Nat /\ DOMAIN p = 1..n /\ DOMAIN q = 1..m /\ DOMAIN b = 1..(n + m)
      /\ \A i \in 1..n : b[i] = p[i]
      /\ \A i \in 1..m : b[n + i] = q[i]
  OBVIOUS
<1> HIDE DEF b, n, m
<1>2. \A i \in DOMAIN p : i \in DOMAIN b /\ b[i] = p[i]
  BY <1>1
<1>3. \A i \in DOMAIN q : n + i \in DOMAIN b /\ b[n + i] = q[i]
  BY <1>1
<1>4. \A i \in DOMAIN b : i \in DOMAIN p \/ (i - n \in DOMAIN q /\ b[i] = q[i - n] /\ i > n)
  BY <1>1
<1>5. Mentions(b, l) <=> Mentions(p, l) \/ Mentions(q, l)
  BY <1>2, <1>3, <1>4 DEF Mentions
<1>6. ASSUME Mentions(q, l), LastLinked(b, l) PROVE LastLinked(q, l)
  <2>1. PICK i \in DOMAIN b : b[i] = Linked(l) /\ \A j \in DOMAIN b : j > i => b[j].lane # l
    BY <1>6 DEF LastLinked
  <2>2. PICK k \in DOMAIN q : q[k].lane = l
    BY <1>6 DEF Mentions
  <2>3. i > n /\ i - n \in DOMAIN q /\ q[i - n] = Linked(l)
    BY <1>1, <1>3, <1>4, <2>1, <2>2
  <2>4. ASSUME NEW j \in DOMAIN q, j > i - n PROVE q[j].lane # l
    <3>1. n + j \in DOMAIN b /\ b[n + j] = q[j] /\ n + j > i
      BY <1>1, <1>3, <2>1, <2>4
    <3> QED BY <2>1, <3>1
  <2> QED BY <2>3, <2>4 DEF LastLinked
<1>7. ASSUME LastLinked(q, l) PROVE LastLinked(b, l)
  <2>1. PICK i \in DOMAIN q : q[i] = Linked(l) /\ \A j \in DOMAIN q : j > i => q[j].lane # l
    BY <1>7 DEF LastLinked
  <2>2. n + i \in DOMAIN b /\ b[n + i] = Linked(l)
    BY <1>3, <2>1
  <2>3. ASSUME NEW j \in DOMAIN b, j > n + i PROVE b[j].lane # l
    <3>1. j - n \in DOMAIN q /\ q[j - n] = b[j] /\ j - n > i
      BY <1>1, <1>4, <2>1, <2>3
    <3> QED BY <2>1, <3>1
  <2> QED BY <2>2, <2>3 DEF LastLinked
<1>8. ASSUME ~Mentions(q, l) PROVE LastLinked(b, l) <=> LastLinked(p, l)
  <2>1. \A j \in DOMAIN b : j \notin DOMAIN p => b[j].lane # l
    BY <1>4, <1>8 DEF Mentions
  <2>2. \A i \in DOMAIN b : b[i] = Linked(l) => i \in DOMAIN p
    BY <2>1, NoteKinds
  <2> QED BY <1>2, <2>1, <2>2 DEF LastLinked
<1> QED BY <1>5, <1>6, <1>7, <1>8 DEF b

\* The writes to a remote.
Of(r) == {w \in writes : w.id = r}

\* What a push does to one remote.
PushedTo(r, ls, es) ==
  /\ ~Registered(r) \/ (ls[r] = <<>> /\ es[r] = {}) =>
       remotes'[r] = remotes[r] /\ Of(r)' = Of(r)
  /\ Registered(r) /\ (ls[r] # <<>> \/ es[r] # {}) =>
       /\ remotes'[r].conn = remotes[r].conn /\ remotes'[r].home = NoConn
       /\ remotes'[r].specials = remotes[r].specials \o Waits(remotes[r], ls[r])
       /\ Of(r)' = Of(r) \cup
            (IF remotes[r].home = NoConn THEN {}
             ELSE {[id |-> r, conn |-> remotes[r].home, note |-> First(ls[r], es[r])]})

LEMMA PushToOne ==
  ASSUME RegistriesTypeOK, NEW ls \in [Ids -> Seq(LinkNotes)], NEW es \in [Ids -> SUBSET Lanes],
         PushAll(ls, es), NEW r \in Ids
  PROVE PushedTo(r, ls, es)
<1> DEFINE targets == {q \in Ids : Registered(q) /\ (ls[q] # <<>> \/ es[q] # {})}
           new(q) == [id |-> q, conn |-> remotes[q].home, note |-> First(ls[q], es[q])]
<1>1. /\ remotes' = [q \in Ids |-> IF q \in targets THEN Push(remotes[q], ls[q], es[q]) ELSE remotes[q]]
      /\ writes' = writes \cup {new(q) : q \in {p \in targets : remotes[p].home # NoConn}}
  BY DEF PushAll
<1>2. Of(r)' = Of(r) \cup {x \in {new(r)} : r \in targets /\ remotes[r].home # NoConn}
  <2>1. \A q \in Ids : new(q).id = q
    OBVIOUS
  <2> HIDE DEF new
  <2> QED BY <1>1, <2>1 DEF Of
<1>3. CASE r \notin targets
  BY <1>1, <1>2, <1>3 DEF PushedTo
<1>4. CASE r \in targets
  <2>1. remotes[r] \in RemoteUplinks /\ ls[r] \in Seq(LinkNotes) /\ es[r] \in SUBSET Lanes
    BY <1>4 DEF RegistriesTypeOK, Registered
  <2>2. remotes'[r] = Push(remotes[r], ls[r], es[r])
    BY <1>1, <1>4
  <2> HIDE DEF new
  <2>3. Of(r)' = Of(r) \cup (IF remotes[r].home = NoConn THEN {} ELSE {new(r)})
    BY <1>2, <1>4
  <2>4. /\ remotes'[r].conn = remotes[r].conn /\ remotes'[r].home = NoConn
        /\ remotes'[r].specials = remotes[r].specials \o Waits(remotes[r], ls[r])
    <3> DEFINE x == Push(remotes[r], ls[r], es[r])
    <3>1. /\ x.conn = remotes[r].conn /\ x.home = NoConn
          /\ x.specials = remotes[r].specials \o Waits(remotes[r], ls[r])
      BY <2>1, PushType
    <3> HIDE DEF x
    <3> QED BY <2>2, <3>1 DEF x
  <2>5. Registered(r) /\ (ls[r] # <<>> \/ es[r] # {})
    BY <1>4
  <2> HIDE DEF targets
  <2> QED BY <2>3, <2>4, <2>5 DEF new, PushedTo
<1> QED BY <1>3, <1>4

\* What a remote will have been told once messages have been pushed to it.
LEMMA PushIsHeard ==
  ASSUME RegistriesTypeOK, NEW ls \in [Ids -> Seq(LinkNotes)], NEW es \in [Ids -> SUBSET Lanes],
         PushAll(ls, es), conn' = conn,
         NEW r \in Ids, Registered(r), HomeAgrees(r), NEW l \in Lanes
  PROVE WillBeLinked(r, l)' <=> IF Mentions(ls[r], l) THEN LastLinked(ls[r], l) ELSE WillBeLinked(r, l)
<1> DEFINE up == remotes[r]
           q == ls[r]
           told == l \in conn[up.conn].told
<1>1. up \in RemoteUplinks /\ q \in Seq(LinkNotes) /\ es[r] \in SUBSET Lanes /\ up.specials \in Seq(LinkNotes)
  BY DEF RegistriesTypeOK, Registered, RemoteUplinks
<1>2. CASE q = <<>> /\ es[r] = {}
  <2>1. remotes'[r] = up /\ Of(r)' = Of(r)
    BY <1>2, PushToOne DEF PushedTo
  <2> QED BY <1>2, <2>1, LastWordOfNone DEF WillBeLinked, Of
<1>3. CASE (q # <<>> \/ es[r] # {}) /\ up.home = NoConn
  <2>1. /\ remotes'[r].conn = up.conn /\ remotes'[r].specials = up.specials \o q
        /\ Of(r)' = Of(r)
    <3>1. Waits(up, q) = q
      BY <1>3 DEF Waits
    <3> QED BY <1>3, <3>1, PushToOne DEF PushedTo
  <2>2. /\ Mentions(up.specials \o q, l) <=> Mentions(up.specials, l) \/ Mentions(q, l)
        /\ Mentions(q, l) => (LastLinked(up.specials \o q, l) <=> LastLinked(q, l))
        /\ ~Mentions(q, l) => (LastLinked(up.specials \o q, l) <=> LastLinked(up.specials, l))
    BY <1>1, LastWordOfBoth
  <2> QED BY <2>1, <2>2 DEF WillBeLinked, Of
<1>4. CASE (q # <<>> \/ es[r] # {}) /\ up.home # NoConn
  <2> DEFINE note == First(q, es[r])
  <2>1. up.specials = <<>> /\ Of(r) = {}
    BY <1>4 DEF HomeAgrees, Of
  <2>2. /\ remotes'[r].conn = up.conn /\ remotes'[r].specials = up.specials \o Waits(up, q)
        /\ Of(r)' = Of(r) \cup {[id |-> r, conn |-> up.home, note |-> note]}
    BY <1>4, PushToOne, ZenonT(40) DEF PushedTo
  <2>3. remotes'[r].specials = Waits(up, q)
    <3>1. Waits(up, q) \in Seq(LinkNotes)
      BY <1>1, PushType
    <3> QED BY <2>1, <2>2, <3>1
  <2>4. \A n : (\E w \in writes' : w.id = r /\ w.note = n) <=> n = note
    <3> DEFINE v == [id |-> r, conn |-> up.home, note |-> note]
    <3>1. Of(r)' = {v}
      BY <2>1, <2>2
    <3>2. v.note = note
      OBVIOUS
    <3> HIDE DEF note, v
    <3>3. \A w : w \in writes' /\ w.id = r <=> w = v
      BY <3>1 DEF Of
    <3> QED BY <3>2, <3>3
  <2>5. WillBeLinked(r, l)' <=> IF Mentions(Waits(up, q), l) THEN LastLinked(Waits(up, q), l)
                                ELSE note = Linked(l) \/ (told /\ note # Unlinked(l))
    BY <2>2, <2>3, <2>4 DEF WillBeLinked
  <2>6. WillBeLinked(r, l) <=> told
    BY <2>1, LastWordOfNone DEF WillBeLinked, Of
  <2>7. CASE q = <<>>
    <3>1. Waits(up, q) = <<>> /\ note.type = "Event"
      BY <1>1, <1>4, <2>7, FirstType DEF Waits
    <3>2. note # Linked(l) /\ note # Unlinked(l)
      BY <3>1, NoteKinds
    <3> QED BY <2>5, <2>6, <2>7, <3>1, <3>2, LastWordOfNone
  <2>8. CASE q # <<>>
    <3>1. Waits(up, q) = Tail(q) /\ note = Head(q) /\ Head(q) \in LinkNotes
      BY <1>1, <1>4, <2>8 DEF Waits, First
    <3>2. /\ Mentions(q, l) <=> note.lane = l \/ Mentions(Tail(q), l)
          /\ Mentions(Tail(q), l) => (LastLinked(q, l) <=> LastLinked(Tail(q), l))
          /\ ~Mentions(Tail(q), l) => (LastLinked(q, l) <=> note = Linked(l))
      BY <1>1, <2>8, <3>1, LastWordOfTail
    <3>3. note.lane = l <=> note = Linked(l) \/ note = Unlinked(l)
      BY <3>1, NoteKinds
    <3>4. Linked(l) # Unlinked(l)
      BY NoteKinds
    <3> QED BY <2>5, <2>6, <3>1, <3>2, <3>3, <3>4
  <2> QED BY <2>7, <2>8
<1> QED BY <1>2, <1>3, <1>4

\* The links change as the last word on each says.
ChangeAsSaid(ls) ==
  \A r \in Ids, l \in Lanes : Registered(r) =>
    (l \in backwards'[r] <=> IF Mentions(ls[r], l) THEN LastLinked(ls[r], l) ELSE l \in backwards[r])

\* The handlers that push: what is left to show is that what they push is what they
\* do to the links.
LEMMA PushKeepsTold ==
  ASSUME RegistriesTypeOK, ToldInv,
         NEW ls \in [Ids -> Seq(LinkNotes)], NEW es \in [Ids -> SUBSET Lanes], PushAll(ls, es),
         conn' = conn, phase = "running", phase' \in {"running", "cleanup"},
         \A c \in Conns : conn[c].status \in {"unused", "absent"} => backwards'[IdOf[c]] = {},
         phase' = "cleanup" => \A r \in Ids : backwards'[r] = {},
         ChangeAsSaid(ls)
  PROVE ToldInv'
<1>1. WritersAgree /\ AttachedAgree /\ KnowsItsLinks /\ Serving /\ Serving'
      /\ \A r \in Ids : Registered(r) => HomeAgrees(r)
  BY DEF ToldInv, SendersAgree, Serving
<1>2. /\ \A r \in Ids : remotes'[r] = NoConn <=> remotes[r] = NoConn
      /\ \A r \in Ids : Registered(r) => remotes'[r].conn = remotes[r].conn
      /\ writes' \subseteq Writes
  BY PushTypes
<1>3. ASSUME NEW r \in Ids, Registered(r)
      PROVE /\ HomeAgrees(r)'
            /\ \A w, v \in Of(r)' : w = v
            /\ \A w \in Of(r)' : w \in writes \/ (IdOf[w.conn] = r /\ conn[w.conn].status = "attached")
  <2> DEFINE up == remotes[r]
  <2>0. PushedTo(r, ls, es)
    BY PushToOne
  <2>1. /\ \A w, v \in Of(r) : w = v
        /\ HomeAgrees(r) /\ IdOf[up.conn] = r /\ conn[up.conn].status = "attached"
    BY <1>1, <1>3 DEF WritersAgree, AttachedAgree, Of
  <2>2. CASE ls[r] = <<>> /\ es[r] = {}
    <3>1. remotes'[r] = remotes[r] /\ Of(r)' = Of(r)
      BY <2>0, <2>2 DEF PushedTo
    <3> QED BY <1>1, <2>1, <3>1 DEF HomeAgrees, Of
  <2>3. CASE (ls[r] # <<>> \/ es[r] # {}) /\ up.home = NoConn
    <3>1. remotes'[r].conn = up.conn /\ remotes'[r].home = NoConn /\ Of(r)' = Of(r)
      BY <1>3, <2>0, <2>3 DEF PushedTo
    <3> QED BY <1>1, <2>1, <2>3, <3>1 DEF HomeAgrees, Of
  <2>4. CASE (ls[r] # <<>> \/ es[r] # {}) /\ up.home # NoConn
    <3> DEFINE v == [id |-> r, conn |-> up.home, note |-> First(ls[r], es[r])]
    <3>1. remotes'[r].home = NoConn /\ Of(r)' = Of(r) \cup {v}
      BY <1>3, <2>0, <2>4 DEF PushedTo
    <3>2. v.conn = up.home
      OBVIOUS
    <3> HIDE DEF v
    <3>3. Of(r) = {} /\ up.home = up.conn
      BY <2>1, <2>4 DEF HomeAgrees, Of
    <3>4. v \in writes' /\ v.id = r
      BY <3>1 DEF Of
    <3> QED BY <2>1, <3>1, <3>2, <3>3, <3>4 DEF HomeAgrees, Of
  <2> QED BY <2>2, <2>3, <2>4
<1>4. \A r \in Ids : ~Registered(r) => Of(r)' = Of(r)
  BY PushToOne DEF PushedTo
<1>5. WritersAgree'
  <2>1. \A w \in writes' : w.id \in Ids /\ w \in Of(w.id)'
    BY <1>2 DEF Of, Writes
  <2>2. ASSUME NEW w \in writes'
        PROVE IdOf[w.conn] = w.id /\ conn'[w.conn].status \notin {"unused", "absent"}
    <3>1. w \in writes \/ (IdOf[w.conn] = w.id /\ conn[w.conn].status = "attached")
      BY <1>3, <1>4, <2>1, SMTT(30) DEF Of
    <3> QED BY <1>1, <3>1 DEF WritersAgree
  <2>3. ASSUME NEW w \in writes', NEW v \in writes', w.id = v.id PROVE w = v
    <3>1. w.id \in Ids /\ w \in Of(w.id)' /\ v \in Of(w.id)'
      BY <2>1, <2>3 DEF Of
    <3>2. CASE Registered(w.id)
      BY <1>3, <3>1, <3>2
    <3>3. CASE ~Registered(w.id)
      BY <1>1, <1>4, <3>1, <3>3 DEF Of, WritersAgree
    <3> QED BY <3>2, <3>3
  <2> QED BY <2>2, <2>3 DEF WritersAgree
<1>6. AttachedAgree'
  BY <1>1, <1>2, IdOfAssumption DEF AttachedAgree, Registered
<1>7. KnowsItsLinks'
  <2> SUFFICES ASSUME NEW r \in Ids, Registered(r)', conn'[remotes'[r].conn].open, NEW l \in Lanes
               PROVE l \in backwards'[r] <=> WillBeLinked(r, l)'
    BY DEF KnowsItsLinks
  <2>1. Registered(r) /\ conn[remotes[r].conn].open
    BY <1>2 DEF Registered
  <2>2. WillBeLinked(r, l)' <=> IF Mentions(ls[r], l) THEN LastLinked(ls[r], l) ELSE WillBeLinked(r, l)
    BY <1>1, <2>1, PushIsHeard
  <2>3. l \in backwards[r] <=> WillBeLinked(r, l)
    BY <1>1, <2>1 DEF KnowsItsLinks
  <2> QED BY <2>1, <2>2, <2>3 DEF ChangeAsSaid
<1>8. SendersAgree'
  BY <1>2, <1>3, <1>5, <1>6 DEF SendersAgree, Registered
<1> QED BY <1>7, <1>8 DEF ToldInv, StopUnlinksAll

LEMMA LastWordTo ==
  ASSUME NEW m \in LinkNotes, NEW rs, NEW r \in Ids, NEW l \in Lanes
  PROVE /\ Mentions(To(rs, m)[r], l) <=> r \in rs /\ m.lane = l
        /\ r \in rs => (LastLinked(To(rs, m)[r], l) <=> m = Linked(l))
<1>1. To(rs, m)[r] = IF r \in rs THEN <<m>> ELSE <<>>
  BY DEF To
<1>2. CASE r \in rs
  <2>1. To(rs, m)[r] = <<m>>
    BY <1>1, <1>2
  <2> QED BY <1>2, <2>1, LastWordOfOne
<1>3. CASE r \notin rs
  <2>1. To(rs, m)[r] = <<>>
    BY <1>1, <1>3
  <2> QED BY <1>3, <2>1, LastWordOfNone
<1> QED BY <1>2, <1>3

\* Linked to those who are linked, Unlinked to those who are not any more.
LEMMA LinkedAsSaid ==
  ASSUME LinksTypeOK, NEW rs \in SUBSET Ids, NEW l \in Lanes,
         \A r \in Ids : Registered(r) =>
            backwards'[r] = IF r \in rs THEN backwards[r] \cup {l} ELSE backwards[r]
  PROVE ChangeAsSaid(To(rs, Linked(l)))
<1>1. ASSUME NEW r \in Ids, NEW k \in Lanes, Registered(r)
      PROVE k \in backwards'[r] <=> IF Mentions(To(rs, Linked(l))[r], k) THEN LastLinked(To(rs, Linked(l))[r], k)
                                                                     ELSE k \in backwards[r]
  <2>1. Linked(l) \in LinkNotes /\ Linked(l).lane = l
    BY DEF Linked, LinkNotes
  <2>2. /\ Mentions(To(rs, Linked(l))[r], k) <=> r \in rs /\ l = k
        /\ r \in rs => (LastLinked(To(rs, Linked(l))[r], k) <=> Linked(l) = Linked(k))
    BY <2>1, LastWordTo
  <2> QED BY <1>1, <2>2
<1> QED BY <1>1 DEF ChangeAsSaid

LEMMA UnlinkedAsSaid ==
  ASSUME LinksTypeOK, NEW rs \in SUBSET Ids, NEW l \in Lanes,
         \A r \in Ids : Registered(r) =>
            backwards'[r] = IF r \in rs THEN backwards[r] \ {l} ELSE backwards[r]
  PROVE ChangeAsSaid(To(rs, Unlinked(l)))
<1>1. ASSUME NEW r \in Ids, NEW k \in Lanes, Registered(r)
      PROVE k \in backwards'[r] <=> IF Mentions(To(rs, Unlinked(l))[r], k) THEN LastLinked(To(rs, Unlinked(l))[r], k)
                                                                       ELSE k \in backwards[r]
  <2>1. Unlinked(l) \in LinkNotes /\ Unlinked(l).lane = l
    BY DEF Unlinked, LinkNotes
  <2>2. Unlinked(l) # Linked(k)
    BY DEF Unlinked, Linked
  <2>3. /\ Mentions(To(rs, Unlinked(l))[r], k) <=> r \in rs /\ l = k
        /\ r \in rs => ~LastLinked(To(rs, Unlinked(l))[r], k)
    BY <2>1, <2>2, LastWordTo
  <2> QED BY <1>1, <2>3
<1> QED BY <1>1 DEF ChangeAsSaid

\* No two attachments are made for one id.
AttachedOnce == \A c, d \in Conns : IdOf[c] = IdOf[d] => c = d

LEMMA LinkKeepsTold ==
  ASSUME IndexInv, ToldInv, NEW r \in Ids, NEW l \in Lanes, Link(r, l)
  PROVE ToldInv'
<1>1. /\ PushAll(To({r}, Linked(l)), NoEvents) /\ Registered(r)
      /\ conn' = conn /\ phase = "running" /\ phase' = "running" /\ RegistriesTypeOK
  BY IndexParts DEF Link
<1>2. backwards' = [backwards EXCEPT ![r] = @ \cup {l}] /\ backwards \in [Ids -> SUBSET Lanes]
  BY IndexParts DEF Link, InsertLink, LinksTypeOK
<1>3. \A c \in Conns : conn[c].status \in {"unused", "absent"} => backwards'[IdOf[c]] = {}
  <2>1. \A c \in Conns : conn[c].status \in {"unused", "absent"} =>
           IdOf[c] # r /\ backwards[IdOf[c]] = {} /\ IdOf[c] \in Ids
    BY <1>1, IdOfAssumption DEF ToldInv, SendersAgree, AttachedAgree
  <2> QED BY <1>2, <2>1
<1>4. ChangeAsSaid(To({r}, Linked(l)))
  BY <1>2, IndexParts, LinkedAsSaid
<1>5. To({r}, Linked(l)) \in [Ids -> Seq(LinkNotes)] /\ NoEvents \in [Ids -> SUBSET Lanes]
  BY MessageTypes
<1> QED BY <1>1, <1>3, <1>4, <1>5, PushKeepsTold

\* The one step that links a remote that may have gone.
LEMMA RespondKeepsTold ==
  ASSUME AttachedOnce, IndexInv, ToldInv, NEW r \in Ids, NEW l \in Lanes, Respond(r, l)
  PROVE ToldInv'
<1> DEFINE rs == {r} \ forward[l]
<1>1. /\ PushAll(To(rs, Linked(l)), EventsTo({r}, l))
      /\ conn' = conn /\ phase = "running" /\ phase' = "running" /\ RegistriesTypeOK
  BY IndexParts DEF Respond
<1>2. backwards' = [backwards EXCEPT ![r] = @ \cup {l}] /\ backwards \in [Ids -> SUBSET Lanes]
  BY IndexParts DEF Respond, InsertLink, LinksTypeOK
<1>3. \A c \in Conns : conn[c].status \in {"unused", "absent"} => backwards'[IdOf[c]] = {}
  <2>1. PICK d \in Conns : IdOf[d] = r /\ conn[d].status \notin {"unused", "absent"}
    BY DEF Respond
  <2>2. \A c \in Conns : conn[c].status \in {"unused", "absent"} =>
           IdOf[c] # r /\ backwards[IdOf[c]] = {} /\ IdOf[c] \in Ids
    BY <2>1, IdOfAssumption DEF ToldInv, SendersAgree, AttachedAgree, AttachedOnce
  <2> QED BY <1>2, <2>2
<1>4. ChangeAsSaid(To(rs, Linked(l)))
  <2>1. rs \in SUBSET Ids /\ (r \notin rs => l \in backwards[r])
    BY IndexParts DEF LinksAgree
  <2>2. \A q \in Ids : backwards'[q] = IF q \in rs THEN backwards[q] \cup {l} ELSE backwards[q]
    BY <1>2, <2>1
  <2> HIDE DEF rs
  <2> QED BY <2>1, <2>2, IndexParts, LinkedAsSaid
<1>5. To(rs, Linked(l)) \in [Ids -> Seq(LinkNotes)] /\ EventsTo({r}, l) \in [Ids -> SUBSET Lanes]
  BY MessageTypes
<1> HIDE DEF rs
<1> QED BY <1>1, <1>3, <1>4, <1>5, PushKeepsTold

LEMMA UnlinkKeepsTold ==
  ASSUME IndexInv, ToldInv, NEW r \in Ids, NEW l \in Lanes, Unlink(r, l)
  PROVE ToldInv'
<1>1. /\ PushAll(To({r}, Unlinked(l)), NoEvents)
      /\ conn' = conn /\ phase = "running" /\ phase' = "running" /\ RegistriesTypeOK
  BY IndexParts DEF Unlink
<1>2. backwards' = [backwards EXCEPT ![r] = @ \ {l}] /\ backwards \in [Ids -> SUBSET Lanes]
  BY IndexParts DEF Unlink, RemoveLink, LinksTypeOK
<1>3. \A c \in Conns : conn[c].status \in {"unused", "absent"} => backwards'[IdOf[c]] = {}
  BY <1>2, IdOfAssumption DEF ToldInv, SendersAgree, AttachedAgree
<1>4. ChangeAsSaid(To({r}, Unlinked(l)))
  BY <1>2, IndexParts, UnlinkedAsSaid
<1>5. To({r}, Unlinked(l)) \in [Ids -> Seq(LinkNotes)] /\ NoEvents \in [Ids -> SUBSET Lanes]
  BY MessageTypes
<1> QED BY <1>1, <1>3, <1>4, <1>5, PushKeepsTold

LEMMA LaneFailedKeepsTold ==
  ASSUME IndexInv, ToldInv, NEW l \in Lanes, LaneFailed(l)
  PROVE ToldInv'
<1>1. /\ PushAll(To(forward[l], Unlinked(l)), NoEvents)
      /\ conn' = conn /\ phase = "running" /\ phase' = "running" /\ RegistriesTypeOK
  BY IndexParts DEF LaneFailed
<1>2. backwards' = [r \in Ids |-> backwards[r] \ {l}] /\ backwards \in [Ids -> SUBSET Lanes]
  BY IndexParts DEF LaneFailed, LinksTypeOK
<1>3. \A c \in Conns : conn[c].status \in {"unused", "absent"} => backwards'[IdOf[c]] = {}
  BY <1>2, IdOfAssumption DEF ToldInv, SendersAgree, AttachedAgree
<1>4. ChangeAsSaid(To(forward[l], Unlinked(l)))
  <2>1. forward[l] \in SUBSET Ids
    BY IndexParts DEF LinksTypeOK
  <2>2. \A q \in Ids : backwards'[q] = IF q \in forward[l] THEN backwards[q] \ {l} ELSE backwards[q]
    <3>1. \A q \in Ids : q \notin forward[l] => l \notin backwards[q]
      BY IndexParts DEF LinksAgree
    <3> QED BY <1>2, <3>1
  <2> QED BY <2>1, <2>2, IndexParts, UnlinkedAsSaid
<1>5. To(forward[l], Unlinked(l)) \in [Ids -> Seq(LinkNotes)] /\ NoEvents \in [Ids -> SUBSET Lanes]
  BY MessageTypes
<1> QED BY <1>1, <1>3, <1>4, <1>5, PushKeepsTold

LEMMA BroadcastKeepsTold ==
  ASSUME IndexInv, ToldInv, NEW l \in Lanes, Broadcast(l)
  PROVE ToldInv'
<1>1. /\ PushAll(NoMessages, EventsTo(forward[l], l)) /\ backwards' = backwards
      /\ conn' = conn /\ phase = "running" /\ phase' = "running" /\ RegistriesTypeOK
  BY IndexParts DEF Broadcast, links
<1>2. \A c \in Conns : conn[c].status \in {"unused", "absent"} => backwards'[IdOf[c]] = {}
  BY <1>1 DEF ToldInv, SendersAgree, AttachedAgree
<1>3. ChangeAsSaid(NoMessages)
  <2>1. \A r \in Ids : NoMessages[r] = <<>>
    BY DEF NoMessages
  <2> QED BY <1>1, <2>1, LastWordOfNone DEF ChangeAsSaid
<1>4. NoMessages \in [Ids -> Seq(LinkNotes)] /\ EventsTo(forward[l], l) \in [Ids -> SUBSET Lanes]
  BY MessageTypes
<1> QED BY <1>1, <1>2, <1>3, <1>4, PushKeepsTold

LEMMA StopKeepsTold ==
  ASSUME IndexInv, ToldInv, Stop
  PROVE ToldInv'
<1> DEFINE ls == [r \in Ids |-> SetToSeq(Closing(r))]
<1>1. /\ PushAll(ls, NoEvents) /\ backwards' = [r \in Ids |-> {}]
      /\ conn' = conn /\ phase = "running" /\ phase' = "cleanup" /\ RegistriesTypeOK
  BY IndexParts DEF Stop, Closing
<1>2. \A r \in Ids : backwards'[r] = {}
  BY <1>1
<1>3. \A c \in Conns : conn[c].status \in {"unused", "absent"} => backwards'[IdOf[c]] = {}
  BY <1>2, IdOfAssumption
<1>4. ChangeAsSaid(ls)
  <2>1. ASSUME NEW r \in Ids, NEW l \in Lanes
        PROVE (l \in backwards[r] => Mentions(ls[r], l)) /\ ~LastLinked(ls[r], l)
    <3> DEFINE q == SetToSeq(Closing(r))
    <3>1. /\ q \in Seq(Closing(r))
          /\ r \in forward[l] => \E i \in DOMAIN q : q[i] = Unlinked(l)
      BY ClosingHasAll
    <3>2. ls[r] = q
      OBVIOUS
    <3> HIDE DEF q, ls
    <3>3. l \in backwards[r] => Mentions(q, l)
      BY <3>1, IndexParts, NoteKinds DEF LinksAgree, Mentions
    <3>4. \A i \in DOMAIN q : q[i] \in Closing(r)
      BY <3>1
    <3>5. \A x \in Closing(r) : x # Linked(l)
      BY DEF Closing, Unlinked, Linked
    <3>6. ~LastLinked(q, l)
      BY <3>4, <3>5 DEF LastLinked
    <3> QED BY <3>2, <3>3, <3>6
  <2> HIDE DEF ls
  <2> QED BY <1>2, <2>1 DEF ChangeAsSaid
<1>5. ls \in [Ids -> Seq(LinkNotes)] /\ NoEvents \in [Ids -> SUBSET Lanes]
  BY ClosingHasAll, MessageTypes
<1> HIDE DEF ls
<1> QED BY <1>1, <1>2, <1>3, <1>4, <1>5, PushKeepsTold

\* What concerns another remote does not concern this one.
LEMMA UntouchedRemote ==
  ASSUME NEW r \in Ids, remotes'[r] = remotes[r], Of(r)' = Of(r), Serving' => Serving,
         conn'[remotes[r].conn].told = conn[remotes[r].conn].told,
         conn'[remotes[r].conn].open => conn[remotes[r].conn].open
  PROVE /\ HomeAgrees(r) => HomeAgrees(r)'
        /\ \A l \in Lanes : WillBeLinked(r, l)' <=> WillBeLinked(r, l)
<1>1. HomeAgrees(r) => HomeAgrees(r)'
  BY DEF HomeAgrees, Of
<1>2. \A n : (\E w \in writes' : w.id = r /\ w.note = n) <=> (\E w \in writes : w.id = r /\ w.note = n)
  BY DEF Of
<1>3. ASSUME NEW l \in Lanes PROVE WillBeLinked(r, l)' <=> WillBeLinked(r, l)
  BY <1>2 DEF WillBeLinked
<1> QED BY <1>1, <1>3

\* A remote is removed, with or without a write in progress.
LEMMA RemovalKeepsTold ==
  ASSUME AttachedOnce, RegistriesTypeOK, ToldInv, NEW r \in Ids,
         NEW why \in {"RemoteTimedOut", "ChannelClosed"}, RemoveRemote(r, why),
         writes' \subseteq writes, \A w \in writes : w.id # r => w \in writes',
         phase = "running", phase' = "running"
  PROVE ToldInv'
<1>1. WritersAgree /\ AttachedAgree /\ KnowsItsLinks /\ Serving /\ Serving'
      /\ \A q \in Ids : Registered(q) => HomeAgrees(q)
  BY DEF ToldInv, SendersAgree, Serving
<1>2. /\ remotes' = [remotes EXCEPT ![r] = NoConn] /\ backwards' = [backwards EXCEPT ![r] = {}]
      /\ remotes \in [Ids -> RemoteUplinks \cup {NoConn}] /\ backwards \in [Ids -> SUBSET Lanes]
  BY DEF RemoveRemote, RegistriesTypeOK
<1>3. /\ \A q \in Ids : q # r => remotes'[q] = remotes[q] /\ backwards'[q] = backwards[q]
      /\ remotes'[r] = NoConn /\ backwards'[r] = {}
  BY <1>2
<1>4. \A q \in Ids : Registered(q) => remotes[q].conn \in Conns /\ IdOf[remotes[q].conn] = q
  <2>1. \A q \in Ids : Registered(q) => remotes[q] \in RemoteUplinks
    BY <1>2 DEF Registered
  <2>2. \A x \in RemoteUplinks : x.conn \in Conns
    BY DEF RemoteUplinks
  <2> QED BY <1>1, <2>1, <2>2 DEF AttachedAgree
<1>5. \A c \in Conns :
        /\ conn'[c].open = conn[c].open /\ conn'[c].told = conn[c].told
        /\ conn'[c].status = IF Registered(r) /\ IdOf[c] = r THEN why ELSE conn[c].status
  <2>1. conn \in [Conns -> FarSides]
    BY DEF RegistriesTypeOK
  <2>2. CASE Registered(r)
    <3> DEFINE d == remotes[r].conn
    <3>1. d \in Conns /\ conn' = [conn EXCEPT ![d].status = why] /\ \A c \in Conns : IdOf[c] = r <=> c = d
      BY <1>4, <2>2 DEF RemoveRemote, AttachedOnce
    <3> HIDE DEF d
    <3>2. conn[d] \in FarSides
      BY <2>1, <3>1
    <3>3. conn' = [conn EXCEPT ![d] = [conn[d] EXCEPT !.status = why]]
      BY <3>1
    <3>4. /\ [conn[d] EXCEPT !.status = why].status = why
          /\ [conn[d] EXCEPT !.status = why].open = conn[d].open
          /\ [conn[d] EXCEPT !.status = why].told = conn[d].told
      BY <3>2 DEF FarSides
    <3> QED BY <2>1, <2>2, <3>1, <3>3, <3>4
  <2>3. CASE ~Registered(r)
    BY <2>3 DEF RemoveRemote
  <2> QED BY <2>2, <2>3
<1>6. WritersAgree'
  <2>1. \A w \in writes : w.conn \in Conns
    BY DEF RegistriesTypeOK, Writes
  <2> QED BY <1>1, <1>5, <2>1 DEF WritersAgree
<1>7. AttachedAgree'
  <2>1. \A c \in Conns : conn'[c].status \in {"unused", "absent"} =>
          ~Registered(IdOf[c])' /\ backwards'[IdOf[c]] = {} /\ conn'[c].told = {}
    BY <1>1, <1>3, <1>5, IdOfAssumption DEF AttachedAgree, Registered
  <2>2. \A c \in Conns :
          /\ conn'[c].status \notin {"AgentStoppedExternally", "AgentTimedOut"}
          /\ conn'[c].status = "attached" => Registered(IdOf[c])'
    BY <1>1, <1>3, <1>5, IdOfAssumption DEF AttachedAgree, Registered
  <2>3. \A q \in Ids : Registered(q)' =>
          IdOf[remotes'[q].conn] = q /\ conn'[remotes'[q].conn].status = "attached"
    BY <1>1, <1>3, <1>4, <1>5 DEF AttachedAgree, Registered
  <2> QED BY <2>1, <2>2, <2>3 DEF AttachedAgree
<1>8. ASSUME NEW q \in Ids, Registered(q)'
      PROVE /\ Registered(q) /\ q # r /\ remotes'[q] = remotes[q]
            /\ HomeAgrees(q)' /\ \A l \in Lanes : WillBeLinked(q, l)' <=> WillBeLinked(q, l)
  <2>1. q # r /\ remotes'[q] = remotes[q] /\ Registered(q)
    BY <1>3, <1>8 DEF Registered
  <2>2. Of(q)' = Of(q)
    BY <2>1 DEF Of
  <2>3. remotes[q].conn \in Conns
    BY <1>4, <2>1
  <2> QED BY <1>1, <1>5, <2>1, <2>2, <2>3, UntouchedRemote
<1>9. KnowsItsLinks'
  <2> SUFFICES ASSUME NEW q \in Ids, Registered(q)', conn'[remotes'[q].conn].open, NEW l \in Lanes
               PROVE l \in backwards'[q] <=> WillBeLinked(q, l)'
    BY DEF KnowsItsLinks
  <2>1. /\ Registered(q) /\ backwards'[q] = backwards[q] /\ conn[remotes[q].conn].open
        /\ WillBeLinked(q, l)' <=> WillBeLinked(q, l)
    BY <1>3, <1>4, <1>5, <1>8
  <2> QED BY <1>1, <2>1 DEF KnowsItsLinks
<1> QED BY <1>6, <1>7, <1>8, <1>9 DEF ToldInv, SendersAgree, StopUnlinksAll

LEMMA PruneKeepsTold ==
  ASSUME AttachedOnce, IndexInv, ToldInv, Prune
  PROVE ToldInv'
<1> DEFINE r == Head(timers).id
<1>1. /\ phase = "running" /\ phase' = "running" /\ writes' = writes /\ RegistriesTypeOK
  BY IndexParts DEF Prune
<1>2. r \in Ids
  <2>1. timers \in Seq([id : Ids, left : Nat]) /\ timers # <<>>
    BY <1>1 DEF Prune, RegistriesTypeOK
  <2>2. ASSUME NEW S, NEW q \in Seq(S), q # <<>> PROVE Head(q) \in S
    BY <2>2
  <2>3. Head(timers) \in [id : Ids, left : Nat]
    BY <2>1, <2>2
  <2> QED BY <2>3
<1> HIDE DEF r
<1>3. CASE RemoveRemote(r, "RemoteTimedOut")
  BY <1>1, <1>2, <1>3, RemovalKeepsTold
<1>4. CASE UNCHANGED <<remotes, links, conn>>
  BY <1>1, <1>4 DEF ToldInv, SendersAgree, WritersAgree, AttachedAgree, HomeAgrees, KnowsItsLinks,
                    WillBeLinked, StopUnlinksAll, Serving, Registered, links
<1> QED BY <1>3, <1>4 DEF Prune, r

LEMMA WriteFailedKeepsTold ==
  ASSUME AttachedOnce, IndexInv, ToldInv, NEW w \in writes, WriteFailed(w)
  PROVE ToldInv'
<1>1. /\ writes' = writes \ {w} /\ phase' = phase /\ ~conn[w.conn].open
      /\ RegistriesTypeOK /\ w.id \in Ids /\ w.conn \in Conns
  BY IndexParts DEF WriteFailed, RegistriesTypeOK, Writes
<1>2. CASE phase = "running" /\ RemoveRemote(w.id, "ChannelClosed")
  BY <1>1, <1>2, RemovalKeepsTold
<1>3. CASE phase = "cleanup" /\ UNCHANGED <<remotes, links, conn>>
  <2>1. WritersAgree' /\ AttachedAgree'
    BY <1>1, <1>3 DEF ToldInv, SendersAgree, WritersAgree, AttachedAgree, Registered, Serving, links
  <2>2. ASSUME NEW r \in Ids, Registered(r)
        PROVE /\ HomeAgrees(r)'
              /\ conn[remotes[r].conn].open =>
                   \A l \in Lanes : WillBeLinked(r, l)' <=> WillBeLinked(r, l)
    <3>1. CASE r # w.id
      <4>1. Of(r)' = Of(r)
        BY <1>1, <3>1 DEF Of
      <4> QED BY <1>1, <1>3, <2>2, <4>1, UntouchedRemote DEF ToldInv, SendersAgree, Serving
    <3>2. CASE r = w.id
      <4>1. remotes[r].conn \in Conns
        BY <1>1, <2>2 DEF RegistriesTypeOK, Registered, RemoteUplinks
      <4>2. remotes[r].conn = w.conn
        BY <1>1, <2>2, <3>2, <4>1 DEF ToldInv, SendersAgree, WritersAgree, AttachedAgree, AttachedOnce
      <4>3. HomeAgrees(r)'
        BY <1>1, <1>3, <2>2, <3>2, <4>2 DEF HomeAgrees, ToldInv, SendersAgree
      <4> QED BY <1>1, <4>2, <4>3
    <3> QED BY <3>1, <3>2
  <2>3. KnowsItsLinks'
    BY <1>1, <1>3, <2>2 DEF ToldInv, KnowsItsLinks, Serving, Registered, links
  <2> QED BY <1>1, <1>3, <2>1, <2>2, <2>3 DEF ToldInv, SendersAgree, StopUnlinksAll, Registered
<1> QED BY <1>2, <1>3 DEF WriteFailed

LEMMA AttachKeepsTold ==
  ASSUME AttachedOnce, IndexInv, ToldInv, NEW c \in Conns, Attach(c)
  PROVE ToldInv'
<1> DEFINE r == IdOf[c]
           up == [conn |-> c, home |-> c, specials |-> <<>>, events |-> {}]
<1>1. WritersAgree /\ AttachedAgree /\ KnowsItsLinks /\ Serving /\ Serving' /\ RegistriesTypeOK
      /\ \A q \in Ids : Registered(q) => HomeAgrees(q)
  BY IndexParts DEF ToldInv, SendersAgree, Serving, Attach
<1>2. /\ conn[c].status = "unused" /\ remotes' = [remotes EXCEPT ![r] = up] /\ r \in Ids
      /\ writes' = writes /\ backwards' = backwards /\ phase = "running" /\ phase' = "running"
  BY IdOfAssumption DEF Attach, links
<1>3. ~Registered(r) /\ backwards[r] = {} /\ conn[c].told = {} /\ Of(r) = {}
  <2>1. \A w \in writes : w.conn \in Conns
    BY <1>1 DEF RegistriesTypeOK, Writes
  <2> QED BY <1>1, <1>2, <2>1 DEF AttachedAgree, WritersAgree, AttachedOnce, Of
<1>4. \A d \in Conns :
        /\ conn'[d].open = conn[d].open /\ conn'[d].told = conn[d].told
        /\ conn'[d].status = IF d = c THEN "attached" ELSE conn[d].status
  <2>1. conn \in [Conns -> FarSides]
    BY <1>1 DEF RegistriesTypeOK
  <2>2. conn' = [d \in Conns |-> IF d = c THEN [conn[c] EXCEPT !.status = "attached"] ELSE conn[d]]
    BY <1>3 DEF Attach
  <2>3. /\ [conn[c] EXCEPT !.status = "attached"].status = "attached"
        /\ [conn[c] EXCEPT !.status = "attached"].open = conn[c].open
        /\ [conn[c] EXCEPT !.status = "attached"].told = conn[c].told
    BY <2>1 DEF FarSides
  <2> QED BY <2>2, <2>3
<1>5. remotes'[r] = up /\ \A q \in Ids : q # r => remotes'[q] = remotes[q]
  BY <1>1, <1>2 DEF RegistriesTypeOK
<1>6. up.conn = c /\ up.home = c /\ up.specials = <<>> /\ up.events = {} /\ up # NoConn /\ c # NoConn
  <2>1. up \in RemoteUplinks
    BY DEF RemoteUplinks
  <2> QED BY <2>1, NoConnAssumption
<1> HIDE DEF up
<1>7. \A q \in Ids : Registered(q) => remotes[q].conn \in Conns /\ IdOf[remotes[q].conn] = q
  <2>1. \A q \in Ids : Registered(q) => remotes[q] \in RemoteUplinks
    BY <1>1 DEF Registered, RegistriesTypeOK
  <2>2. \A x \in RemoteUplinks : x.conn \in Conns
    BY DEF RemoteUplinks
  <2> QED BY <1>1, <2>1, <2>2 DEF AttachedAgree
<1>8. WritersAgree'
  <2>1. \A w \in writes : w.conn \in Conns
    BY <1>1 DEF RegistriesTypeOK, Writes
  <2> QED BY <1>1, <1>2, <1>4, <2>1 DEF WritersAgree
<1>9. AttachedAgree'
  <2>1. \A d \in Conns : conn'[d].status \in {"unused", "absent"} =>
          ~Registered(IdOf[d])' /\ backwards'[IdOf[d]] = {} /\ conn'[d].told = {}
    BY <1>1, <1>2, <1>4, <1>5, IdOfAssumption DEF AttachedAgree, Registered, AttachedOnce
  <2>2. \A d \in Conns :
          /\ conn'[d].status \notin {"AgentStoppedExternally", "AgentTimedOut"}
          /\ conn'[d].status = "attached" => Registered(IdOf[d])'
    BY <1>1, <1>4, <1>5, <1>6, IdOfAssumption DEF AttachedAgree, Registered
  <2>3. \A q \in Ids : Registered(q)' =>
          IdOf[remotes'[q].conn] = q /\ conn'[remotes'[q].conn].status = "attached"
    BY <1>1, <1>4, <1>5, <1>6, <1>7 DEF AttachedAgree, Registered
  <2> QED BY <1>2, <2>1, <2>2, <2>3 DEF AttachedAgree
<1>10. ASSUME NEW q \in Ids, Registered(q)'
      PROVE /\ HomeAgrees(q)'
            /\ conn'[remotes'[q].conn].open =>
                 \A l \in Lanes : l \in backwards'[q] <=> WillBeLinked(q, l)'
  <2>1. CASE q = r
    <3>1. remotes'[q] = up /\ conn'[up.conn].told = {} /\ \A w \in writes' : w.id # q
      BY <1>2, <1>3, <1>4, <1>5, <1>6, <2>1 DEF Of
    <3>2. HomeAgrees(q)'
      BY <1>6, <3>1 DEF HomeAgrees
    <3>3. \A l \in Lanes : ~WillBeLinked(q, l)'
      BY <1>6, <3>1, LastWordOfNone DEF WillBeLinked
    <3> QED BY <1>2, <1>3, <2>1, <3>2, <3>3
  <2>2. CASE q # r
    <3>1. remotes'[q] = remotes[q] /\ Registered(q) /\ Of(q)' = Of(q)
      BY <1>2, <1>5, <1>10, <2>2 DEF Registered, Of
    <3>2. /\ remotes[q].conn \in Conns /\ conn'[remotes[q].conn].told = conn[remotes[q].conn].told
          /\ conn'[remotes[q].conn].open = conn[remotes[q].conn].open
      BY <1>4, <1>7, <3>1
    <3>3. HomeAgrees(q)' /\ \A l \in Lanes : WillBeLinked(q, l)' <=> WillBeLinked(q, l)
      BY <1>1, <3>1, <3>2, UntouchedRemote
    <3> QED BY <1>1, <1>2, <3>1, <3>2, <3>3 DEF KnowsItsLinks
  <2> QED BY <2>1, <2>2
<1> QED BY <1>2, <1>8, <1>9, <1>10 DEF ToldInv, SendersAgree, KnowsItsLinks, StopUnlinksAll

\* What becomes of the uplinks of a registered remote when its sender comes back.
Replaced(w) ==
  LET up == remotes[w.id]
      up_ == remotes'[w.id]
      rest == Of(w.id) \ {w}
  IN  /\ up_.conn = up.conn
      /\ \/ /\ up.specials # <<>> /\ up_.specials = Tail(up.specials) /\ up_.home = up.home
            /\ Of(w.id)' = rest \cup {[id |-> w.id, conn |-> w.conn, note |-> Head(up.specials)]}
         \/ /\ up.specials = <<>> /\ up_.specials = <<>> /\ up_.home = up.home
            /\ \E l \in Lanes : Of(w.id)' = rest \cup {[id |-> w.id, conn |-> w.conn, note |-> Event(l)]}
         \/ /\ up.specials = <<>> /\ up_.specials = <<>> /\ up_.events = {} /\ up_.home = w.conn
            /\ Of(w.id)' = rest

LEMMA ReplaceOne ==
  ASSUME RegistriesTypeOK, NEW w \in writes, Replace(w)
  PROVE /\ \A q \in Ids : q # w.id => remotes'[q] = remotes[q] /\ Of(q)' = Of(q)
        /\ ~Registered(w.id) => ~Registered(w.id)'
        /\ Registered(w.id) => Registered(w.id)' /\ Replaced(w)
        /\ \A v \in writes' : v \in writes \/ (v.id = w.id /\ v.conn = w.conn)
<1> DEFINE r == w.id
           up == remotes[r]
           new(n) == [id |-> r, conn |-> w.conn, note |-> n]
           next(n) == (writes \ {w}) \cup {new(n)}
<1>1. r \in Ids /\ remotes \in [Ids -> RemoteUplinks \cup {NoConn}] /\ (up # NoConn => up \in RemoteUplinks)
  BY DEF RegistriesTypeOK, Writes
<1>2. Registered(r) <=> Registered(r)'
  BY <1>1, ReplaceTypes DEF Registered
<1>3. \A n : new(n).id = r /\ new(n).conn = w.conn
  OBVIOUS
<1>4. ASSUME NEW n, writes' = next(n)
      PROVE /\ \A q \in Ids : q # r => Of(q)' = Of(q)
            /\ Of(r)' = (Of(r) \ {w}) \cup {new(n)}
            /\ \A v \in writes' : v \in writes \/ (v.id = r /\ v.conn = w.conn)
  <2> HIDE DEF new
  <2> QED BY <1>3, <1>4 DEF Of
<1>5. ASSUME writes' = writes \ {w}
      PROVE (\A q \in Ids : q # r => Of(q)' = Of(q)) /\ Of(r)' = Of(r) \ {w}
  BY <1>5 DEF Of
<1>6. ASSUME NEW x, remotes' = [remotes EXCEPT ![r] = x]
      PROVE remotes'[r] = x /\ \A q \in Ids : q # r => remotes'[q] = remotes[q]
  BY <1>1, <1>6
<1>7. CASE up = NoConn /\ writes' = writes \ {w} /\ UNCHANGED remotes
  BY <1>2, <1>5, <1>7 DEF Registered
<1>8. CASE /\ up # NoConn /\ up.specials # <<>> /\ writes' = next(Head(up.specials))
           /\ remotes' = [remotes EXCEPT ![r].specials = Tail(@)]
  <2> DEFINE x == [up EXCEPT !.specials = Tail(up.specials)]
  <2>1. x.conn = up.conn /\ x.home = up.home /\ x.specials = Tail(up.specials)
    BY <1>1, <1>8 DEF RemoteUplinks
  <2>2. remotes' = [remotes EXCEPT ![r] = x]
    BY <1>8
  <2> HIDE DEF x
  <2>3. remotes'[r] = x /\ \A q \in Ids : q # r => remotes'[q] = remotes[q]
    BY <1>6, <2>2
  <2>4. /\ \A q \in Ids : q # r => Of(q)' = Of(q)
        /\ Of(r)' = (Of(r) \ {w}) \cup {new(Head(up.specials))}
        /\ \A v \in writes' : v \in writes \/ (v.id = r /\ v.conn = w.conn)
    BY <1>4, <1>8
  <2>5. Replaced(w)
    BY <1>8, <2>1, <2>3, <2>4 DEF Replaced
  <2> QED BY <1>2, <2>3, <2>4, <2>5
<1>9. CASE /\ up # NoConn /\ up.specials = <<>>
           /\ \E l \in up.events : /\ writes' = next(Event(l))
                                   /\ remotes' = [remotes EXCEPT ![r].events = @ \ {l}]
  <2>1. PICK l \in up.events : /\ writes' = next(Event(l))
                               /\ remotes' = [remotes EXCEPT ![r].events = @ \ {l}]
    BY <1>9
  <2> DEFINE x == [up EXCEPT !.events = @ \ {l}]
  <2>2. x.conn = up.conn /\ x.home = up.home /\ x.specials = <<>> /\ l \in Lanes
    BY <1>1, <1>9 DEF RemoteUplinks
  <2>3. remotes' = [remotes EXCEPT ![r] = x]
    BY <2>1
  <2> HIDE DEF x
  <2>4. remotes'[r] = x /\ \A q \in Ids : q # r => remotes'[q] = remotes[q]
    BY <1>6, <2>3
  <2>5. /\ \A q \in Ids : q # r => Of(q)' = Of(q)
        /\ Of(r)' = (Of(r) \ {w}) \cup {new(Event(l))}
        /\ \A v \in writes' : v \in writes \/ (v.id = r /\ v.conn = w.conn)
    BY <1>4, <2>1
  <2>6. Replaced(w)
    BY <1>9, <2>2, <2>4, <2>5 DEF Replaced
  <2> QED BY <1>2, <2>4, <2>5, <2>6
<1>10. CASE /\ up # NoConn /\ up.specials = <<>> /\ up.events = {} /\ writes' = writes \ {w}
            /\ remotes' = [remotes EXCEPT ![r].home = w.conn]
  <2> DEFINE x == [up EXCEPT !.home = w.conn]
  <2>1. x.conn = up.conn /\ x.home = w.conn /\ x.specials = <<>> /\ x.events = {}
    BY <1>1, <1>10 DEF RemoteUplinks
  <2>2. remotes' = [remotes EXCEPT ![r] = x]
    BY <1>10
  <2> HIDE DEF x
  <2>3. remotes'[r] = x /\ \A q \in Ids : q # r => remotes'[q] = remotes[q]
    BY <1>6, <2>2
  <2>4. Replaced(w)
    BY <1>5, <1>10, <2>1, <2>3 DEF Replaced
  <2> QED BY <1>2, <1>5, <1>10, <2>3, <2>4
<1> QED BY <1>7, <1>8, <1>9, <1>10 DEF Replace

\* A message that has been written has been said.
LEMMA ToldIsSaid ==
  ASSUME RegistriesTypeOK, NEW w \in writes, conn' = Told(w)
  PROVE /\ w.conn \in Conns /\ w.id \in Ids
        /\ \A c \in Conns : conn'[c].status = conn[c].status /\ conn'[c].open = conn[c].open
        /\ \A c \in Conns : c # w.conn => conn'[c].told = conn[c].told
        /\ \A l \in Lanes : l \in conn'[w.conn].told <=>
             w.note = Linked(l) \/ (l \in conn[w.conn].told /\ w.note # Unlinked(l))
<1> DEFINE f == conn[w.conn]
           t == CASE w.note.type = "Linked" -> f.told \cup {w.note.lane}
                  [] w.note.type = "Unlinked" -> f.told \ {w.note.lane}
                  [] OTHER -> f.told
<1>1. w \in Writes /\ conn \in [Conns -> FarSides]
  BY DEF RegistriesTypeOK
<1>2. /\ w.conn \in Conns /\ w.id \in Ids
      /\ w.note \in [type : {"Linked", "Unlinked", "Event"}, lane : Lanes]
  BY <1>1 DEF Writes
<1>3. f \in FarSides
  BY <1>1, <1>2
<1>4. conn' = [conn EXCEPT ![w.conn] = [f EXCEPT !.told = t]]
  BY <1>1, <1>2 DEF Told
<1>5. ASSUME NEW l \in Lanes PROVE l \in t <=> w.note = Linked(l) \/ (l \in f.told /\ w.note # Unlinked(l))
  <2>1. w.note = Linked(l) <=> w.note.type = "Linked" /\ w.note.lane = l
    BY <1>2 DEF Linked
  <2>2. w.note = Unlinked(l) <=> w.note.type = "Unlinked" /\ w.note.lane = l
    BY <1>2 DEF Unlinked
  <2> QED BY <1>2, <2>1, <2>2
<1> HIDE DEF t
<1>6. [f EXCEPT !.told = t].told = t /\ [f EXCEPT !.told = t].status = f.status
      /\ [f EXCEPT !.told = t].open = f.open
  BY <1>3 DEF FarSides
<1> QED BY <1>1, <1>2, <1>4, <1>5, <1>6

\* The remote that was written to: what was being written has been said, and what waited
\* first is being written.
LEMMA ReplaceIsHeard ==
  ASSUME RegistriesTypeOK, NEW w \in writes, Replace(w), conn' = Told(w), Registered(w.id),
         HomeAgrees(w.id), Of(w.id) = {w}, remotes[w.id].conn = w.conn
  PROVE HomeAgrees(w.id)' /\ \A l \in Lanes : WillBeLinked(w.id, l)' <=> WillBeLinked(w.id, l)
<1> DEFINE r == w.id
           up == remotes[r]
           p == up.specials
<1>1. Replaced(w) /\ r \in Ids
  BY ReplaceOne, ToldIsSaid
<1>2. up \in RemoteUplinks /\ p \in Seq(LinkNotes) /\ w.conn # NoConn
  <2>1. up \in RemoteUplinks
    BY <1>1 DEF RegistriesTypeOK, Registered
  <2> QED BY <2>1, ToldIsSaid, NoConnAssumption DEF RemoteUplinks
<1>3. up.home = NoConn /\ remotes'[r].conn = w.conn
  BY <1>1 DEF HomeAgrees, Of, Replaced
<1>4. ASSUME NEW l \in Lanes
      PROVE WillBeLinked(r, l) <=> IF Mentions(p, l) THEN LastLinked(p, l) ELSE l \in conn'[w.conn].told
  <2>1. \A n : (\E v \in writes : v.id = r /\ v.note = n) <=> n = w.note
    BY DEF Of
  <2>2. l \in conn'[w.conn].told <=> w.note = Linked(l) \/ (l \in conn[w.conn].told /\ w.note # Unlinked(l))
    BY ToldIsSaid
  <2> QED BY <2>1, <2>2 DEF WillBeLinked
<1>5. CASE /\ p # <<>> /\ remotes'[r].specials = Tail(p) /\ remotes'[r].home = up.home
           /\ Of(r)' = {[id |-> r, conn |-> w.conn, note |-> Head(p)]}
  <2> DEFINE v == [id |-> r, conn |-> w.conn, note |-> Head(p)]
  <2>1. v.id = r /\ v.note = Head(p)
    OBVIOUS
  <2>2. Of(r)' = {v}
    BY <1>5
  <2> HIDE DEF v
  <2>3. v \in writes' /\ \A u \in writes' : u.id = r => u = v
    BY <2>2 DEF Of
  <2>4. HomeAgrees(r)'
    BY <1>3, <1>5, <2>1, <2>3 DEF HomeAgrees
  <2>5. ASSUME NEW l \in Lanes PROVE WillBeLinked(r, l)' <=> WillBeLinked(r, l)
    <3>1. \A n : (\E u \in writes' : u.id = r /\ u.note = n) <=> n = Head(p)
      BY <2>1, <2>3
    <3>2. WillBeLinked(r, l)' <=> IF Mentions(Tail(p), l) THEN LastLinked(Tail(p), l)
                  ELSE Head(p) = Linked(l) \/ (l \in conn'[w.conn].told /\ Head(p) # Unlinked(l))
      BY <1>3, <1>5, <3>1 DEF WillBeLinked
    <3>3. /\ Mentions(p, l) <=> Head(p).lane = l \/ Mentions(Tail(p), l)
          /\ Mentions(Tail(p), l) => (LastLinked(p, l) <=> LastLinked(Tail(p), l))
          /\ ~Mentions(Tail(p), l) => (LastLinked(p, l) <=> Head(p) = Linked(l))
      BY <1>2, <1>5, LastWordOfTail
    <3>4. Head(p).lane = l <=> Head(p) = Linked(l) \/ Head(p) = Unlinked(l)
      <4>1. Head(p) \in LinkNotes
        BY <1>2, <1>5
      <4> QED BY <4>1, NoteKinds
    <3>5. Linked(l) # Unlinked(l)
      BY NoteKinds
    <3> QED BY <1>4, <3>2, <3>3, <3>4, <3>5
  <2> QED BY <2>4, <2>5
<1>6. CASE /\ p = <<>> /\ remotes'[r].specials = <<>> /\ remotes'[r].home = up.home
           /\ \E l \in Lanes : Of(r)' = {[id |-> r, conn |-> w.conn, note |-> Event(l)]}
  <2>1. PICK k \in Lanes : Of(r)' = {[id |-> r, conn |-> w.conn, note |-> Event(k)]}
    BY <1>6
  <2> DEFINE v == [id |-> r, conn |-> w.conn, note |-> Event(k)]
  <2>2. v.id = r /\ v.note = Event(k)
    OBVIOUS
  <2>3. Of(r)' = {v}
    BY <2>1
  <2> HIDE DEF v
  <2>4. v \in writes' /\ \A u \in writes' : u.id = r => u = v
    BY <2>3 DEF Of
  <2>5. HomeAgrees(r)'
    BY <1>3, <1>6, <2>2, <2>4 DEF HomeAgrees
  <2>6. ASSUME NEW l \in Lanes PROVE WillBeLinked(r, l)' <=> WillBeLinked(r, l)
    <3>1. Event(k) # Linked(l) /\ Event(k) # Unlinked(l)
      BY DEF Event, Linked, Unlinked
    <3>2. \A n : (\E u \in writes' : u.id = r /\ u.note = n) <=> n = Event(k)
      BY <2>2, <2>4
    <3>3. WillBeLinked(r, l)' <=> l \in conn'[w.conn].told
      BY <1>3, <1>6, <3>1, <3>2, LastWordOfNone DEF WillBeLinked
    <3> QED BY <1>4, <1>6, <3>3, LastWordOfNone
  <2> QED BY <2>5, <2>6
<1>7. CASE /\ p = <<>> /\ remotes'[r].specials = <<>> /\ remotes'[r].events = {}
           /\ remotes'[r].home = w.conn /\ Of(r)' = {}
  <2>1. \A u \in writes' : u.id # r
    BY <1>7 DEF Of
  <2>2. HomeAgrees(r)'
    BY <1>2, <1>3, <1>7, <2>1 DEF HomeAgrees
  <2>3. ASSUME NEW l \in Lanes PROVE WillBeLinked(r, l)' <=> WillBeLinked(r, l)
    <3>1. WillBeLinked(r, l)' <=> l \in conn'[w.conn].told
      BY <1>3, <1>7, <2>1, LastWordOfNone DEF WillBeLinked
    <3> QED BY <1>4, <1>7, <3>1, LastWordOfNone
  <2> QED BY <2>2, <2>3
<1> QED BY <1>1, <1>5, <1>6, <1>7 DEF Replaced

LEMMA WriteDoneKeepsTold ==
  ASSUME AttachedOnce, IndexInv, ToldInv, NEW w \in writes, WriteDone(w)
  PROVE ToldInv'
<1> DEFINE r == w.id
<1>1. WritersAgree /\ AttachedAgree /\ KnowsItsLinks /\ Serving /\ Serving' /\ RegistriesTypeOK
      /\ \A q \in Ids : Registered(q) => HomeAgrees(q)
  BY IndexParts DEF ToldInv, SendersAgree, Serving, WriteDone
<1>2. conn' = Told(w) /\ Replace(w) /\ backwards' = backwards /\ phase' = phase /\ phase # "stopped"
  BY DEF WriteDone, links
<1>3. /\ w.conn \in Conns /\ r \in Ids
      /\ \A c \in Conns : conn'[c].status = conn[c].status /\ conn'[c].open = conn[c].open
      /\ \A c \in Conns : c # w.conn => conn'[c].told = conn[c].told
  BY <1>1, <1>2, ToldIsSaid
<1>4. /\ \A q \in Ids : q # r => remotes'[q] = remotes[q] /\ Of(q)' = Of(q)
      /\ ~Registered(r) => ~Registered(r)'
      /\ Registered(r) => Registered(r)' /\ Replaced(w)
      /\ \A v \in writes' : v \in writes \/ (v.id = r /\ v.conn = w.conn)
  BY <1>1, <1>2, ReplaceOne
<1>5. /\ \A q \in Ids : Registered(q) <=> Registered(q)'
      /\ \A q \in Ids : Registered(q) => remotes'[q].conn = remotes[q].conn
  BY <1>4 DEF Registered, Replaced
<1>6. \A q \in Ids : Registered(q) => remotes[q].conn \in Conns /\ IdOf[remotes[q].conn] = q
  <2>1. \A q \in Ids : Registered(q) => remotes[q] \in RemoteUplinks
    BY <1>1 DEF Registered, RegistriesTypeOK
  <2>2. \A x \in RemoteUplinks : x.conn \in Conns
    BY DEF RemoteUplinks
  <2> QED BY <1>1, <2>1, <2>2 DEF AttachedAgree
<1>7. Of(r) = {w} /\ IdOf[w.conn] = r /\ (Registered(r) => remotes[r].conn = w.conn)
  BY <1>1, <1>3, <1>6 DEF WritersAgree, Of, AttachedOnce
<1>8. WritersAgree'
  <2>1. \A v \in writes : v.conn \in Conns /\ v.id \in Ids
    BY <1>1 DEF RegistriesTypeOK, Writes
  <2>2. \A v \in writes' : IdOf[v.conn] = v.id /\ conn'[v.conn].status \notin {"unused", "absent"}
    BY <1>1, <1>3, <1>4, <2>1 DEF WritersAgree
  <2>3. ASSUME NEW u \in writes', NEW v \in writes', u.id = v.id PROVE u = v
    <3>1. u.id \in Ids
      BY <1>3, <1>4, <2>1
    <3>2. CASE u.id # r
      BY <1>1, <1>4, <2>3, <3>1, <3>2 DEF WritersAgree, Of
    <3>3. CASE u.id = r
      <4>1. \A x \in Of(r)', y \in Of(r)' : x = y
        <5>1. CASE Registered(r)
          BY <1>4, <1>7, <5>1 DEF Replaced
        <5>2. CASE ~Registered(r)
          BY <1>2, <1>7, <5>2 DEF Replace, Registered, Of
        <5> QED BY <5>1, <5>2
      <4> QED BY <2>3, <3>3, <4>1 DEF Of
    <3> QED BY <3>2, <3>3
  <2> QED BY <2>2, <2>3 DEF WritersAgree
<1>9. AttachedAgree'
  <2>1. \A c \in Conns : conn'[c].status \in {"unused", "absent"} =>
          ~Registered(IdOf[c])' /\ backwards'[IdOf[c]] = {} /\ conn'[c].told = {}
    <3>1. conn[w.conn].status \notin {"unused", "absent"}
      BY <1>1 DEF WritersAgree
    <3> QED BY <1>1, <1>2, <1>3, <1>5, <3>1, IdOfAssumption DEF AttachedAgree
  <2>2. \A c \in Conns :
          /\ conn'[c].status \notin {"AgentStoppedExternally", "AgentTimedOut"}
          /\ conn'[c].status = "attached" => Registered(IdOf[c])'
    BY <1>1, <1>3, <1>5, IdOfAssumption DEF AttachedAgree
  <2>3. \A q \in Ids : Registered(q)' =>
          IdOf[remotes'[q].conn] = q /\ conn'[remotes'[q].conn].status = "attached"
    BY <1>1, <1>3, <1>5, <1>6 DEF AttachedAgree
  <2>4. phase' = "cleanup" => \A q \in Ids : backwards'[q] = {}
    BY <1>1, <1>2 DEF AttachedAgree
  <2> QED BY <2>1, <2>2, <2>3, <2>4 DEF AttachedAgree
<1>10. ASSUME NEW q \in Ids, Registered(q)
       PROVE HomeAgrees(q)' /\ \A l \in Lanes : WillBeLinked(q, l)' <=> WillBeLinked(q, l)
  <2>1. CASE q = r
    BY <1>1, <1>2, <1>7, <1>10, <2>1, ReplaceIsHeard
  <2>2. CASE q # r
    <3>1. remotes[q].conn \in Conns /\ remotes[q].conn # w.conn
      BY <1>6, <1>7, <1>10, <2>2
    <3> QED BY <1>1, <1>3, <1>4, <1>10, <2>2, <3>1, UntouchedRemote
  <2> QED BY <2>1, <2>2
<1>11. KnowsItsLinks'
  <2> SUFFICES ASSUME NEW q \in Ids, Registered(q)', conn'[remotes'[q].conn].open, NEW l \in Lanes
               PROVE l \in backwards'[q] <=> WillBeLinked(q, l)'
    BY DEF KnowsItsLinks
  <2>1. Registered(q) /\ conn[remotes[q].conn].open
    BY <1>3, <1>5, <1>6
  <2> QED BY <1>1, <1>2, <1>10, <2>1 DEF KnowsItsLinks
<1>12. SendersAgree'
  BY <1>5, <1>8, <1>9, <1>10 DEF SendersAgree
<1> QED BY <1>2, <1>11, <1>12 DEF ToldInv, StopUnlinksAll

LEMMA DisconnectKeepsTold ==
  ASSUME IndexInv, ToldInv, NEW c \in Conns, Disconnect(c)
  PROVE ToldInv'
<1>1. /\ conn' = [conn EXCEPT ![c].open = FALSE] /\ conn \in [Conns -> FarSides]
      /\ remotes' = remotes /\ writes' = writes /\ backwards' = backwards /\ phase' = phase
      /\ phase # "stopped" /\ RegistriesTypeOK
  BY IndexParts DEF Disconnect, links, RegistriesTypeOK
<1>2. \A d \in Conns : /\ conn'[d].status = conn[d].status /\ conn'[d].told = conn[d].told
                       /\ conn'[d].open => conn[d].open
  <2>1. conn[c] \in FarSides
    BY <1>1
  <2>2. [conn[c] EXCEPT !.open = FALSE].status = conn[c].status
        /\ [conn[c] EXCEPT !.open = FALSE].told = conn[c].told
        /\ [conn[c] EXCEPT !.open = FALSE].open = FALSE
    BY <2>1 DEF FarSides
  <2> QED BY <1>1, <2>2
<1>3. (\A w \in writes : w.conn \in Conns) /\ \A r \in Ids : Registered(r) => remotes[r].conn \in Conns
  BY <1>1 DEF RegistriesTypeOK, Writes, Registered, RemoteUplinks
<1>4. WritersAgree'
  BY <1>1, <1>2, <1>3 DEF ToldInv, SendersAgree, WritersAgree
<1>5. AttachedAgree'
  BY <1>1, <1>2, <1>3 DEF ToldInv, SendersAgree, AttachedAgree, Registered, Serving
<1>6. ASSUME NEW r \in Ids, Registered(r)
      PROVE HomeAgrees(r)' /\ \A l \in Lanes : WillBeLinked(r, l)' <=> WillBeLinked(r, l)
  <2>1. HomeAgrees(r) /\ Of(r)' = Of(r) /\ remotes[r].conn \in Conns /\ (Serving' => Serving)
    BY <1>1, <1>3, <1>6 DEF ToldInv, SendersAgree, Of, Serving
  <2> QED BY <1>1, <1>2, <2>1, UntouchedRemote
<1>7. KnowsItsLinks'
  <2> SUFFICES ASSUME Serving', NEW r \in Ids, Registered(r)', conn'[remotes'[r].conn].open, NEW l \in Lanes
               PROVE l \in backwards'[r] <=> WillBeLinked(r, l)'
    BY DEF KnowsItsLinks
  <2>1. Serving /\ Registered(r) /\ conn[remotes[r].conn].open
    BY <1>1, <1>2, <1>3 DEF Serving, Registered
  <2> QED BY <1>1, <1>6, <2>1 DEF KnowsItsLinks, ToldInv
<1> QED BY <1>1, <1>4, <1>5, <1>6, <1>7 DEF ToldInv, SendersAgree, StopUnlinksAll, Registered

\* Nothing is being written, so that every sender is home but those of remotes that
\* have gone, and what a remote was told is what it will be told: that it has no links.
LEMMA DisposeKeepsTold ==
  ASSUME AttachedOnce, IndexInv, ToldInv, Dispose
  PROVE ToldInv'
<1>1. /\ phase = "cleanup" /\ phase' = "stopped" /\ writes = {} /\ writes' = {}
      /\ remotes' = remotes /\ backwards' = backwards /\ reason' = reason
      /\ RegistriesTypeOK /\ conn \in [Conns -> FarSides]
      /\ reason \in {"AgentStoppedExternally", "AgentTimedOut"}
  BY IndexParts DEF Dispose, links, RegistriesTypeOK
<1>2. AttachedAgree /\ KnowsItsLinks /\ Serving /\ ~Serving'
      /\ \A r \in Ids : Registered(r) => HomeAgrees(r)
  BY <1>1 DEF ToldInv, SendersAgree, Serving
<1>3. \A r \in Ids : Registered(r) => remotes[r].conn \in Conns /\ IdOf[remotes[r].conn] = r
  <2>1. \A r \in Ids : Registered(r) => remotes[r] \in RemoteUplinks
    BY <1>1 DEF Registered, RegistriesTypeOK
  <2>2. \A x \in RemoteUplinks : x.conn \in Conns
    BY DEF RemoteUplinks
  <2> QED BY <1>2, <2>1, <2>2 DEF AttachedAgree
<1>4. \A c \in Conns :
        /\ conn'[c].open = conn[c].open /\ conn'[c].told = conn[c].told
        /\ conn'[c].status = IF Registered(IdOf[c]) THEN reason ELSE conn[c].status
  <2>1. \A c \in Conns : (\E r \in Ids : Registered(r) /\ remotes[r].conn = c) <=> Registered(IdOf[c])
    BY <1>3, IdOfAssumption DEF AttachedOnce
  <2>2. conn' = [c \in Conns |-> IF Registered(IdOf[c]) THEN [conn[c] EXCEPT !.status = reason] ELSE conn[c]]
    BY <2>1 DEF Dispose
  <2>3. ASSUME NEW f \in FarSides
        PROVE /\ [f EXCEPT !.status = reason].status = reason /\ [f EXCEPT !.status = reason].open = f.open
              /\ [f EXCEPT !.status = reason].told = f.told
    BY DEF FarSides
  <2>4. ASSUME NEW c \in Conns
        PROVE /\ conn'[c].open = conn[c].open /\ conn'[c].told = conn[c].told
              /\ conn'[c].status = IF Registered(IdOf[c]) THEN reason ELSE conn[c].status
    <3>1. conn[c] \in FarSides
      BY <1>1
    <3>2. conn'[c] = IF Registered(IdOf[c]) THEN [conn[c] EXCEPT !.status = reason] ELSE conn[c]
      BY <2>2
    <3> QED BY <2>3, <3>1, <3>2
  <2> QED BY <2>4
<1>5. AttachedAgree'
  <2>1. \A c \in Conns : conn'[c].status \in {"unused", "absent"} =>
          ~Registered(IdOf[c]) /\ backwards[IdOf[c]] = {} /\ conn'[c].told = {}
    BY <1>1, <1>2, <1>4 DEF AttachedAgree
  <2> QED BY <1>1, <1>2, <1>3, <2>1 DEF AttachedAgree, Registered
<1>6. \A r \in Ids : Registered(r)' => HomeAgrees(r)'
  BY <1>1, <1>2 DEF HomeAgrees, Registered
<1>7. StopUnlinksAll'
  <2> SUFFICES ASSUME NEW c \in Conns
               PROVE /\ conn'[c].status # "attached"
                     /\ (conn'[c].status = reason' /\ conn'[c].open) => conn'[c].told = {}
    BY DEF StopUnlinksAll
  <2>1. conn'[c].status # "attached"
    BY <1>1, <1>2, <1>4 DEF AttachedAgree
  <2>2. ASSUME conn'[c].status = reason', conn'[c].open PROVE conn'[c].told = {}
    <3> DEFINE r == IdOf[c]
    <3>1. r \in Ids /\ Registered(r) /\ conn[c].open
      BY <1>1, <1>2, <1>4, <2>2, IdOfAssumption DEF AttachedAgree
    <3>2. remotes[r].conn = c
      BY <1>3, <3>1 DEF AttachedOnce
    <3>3. remotes[r].specials = <<>>
      BY <1>1, <1>2, <3>1, <3>2 DEF HomeAgrees
    <3>4. \A l \in Lanes : WillBeLinked(r, l) <=> l \in conn[c].told
      BY <1>1, <3>2, <3>3, LastWordOfNone DEF WillBeLinked
    <3>5. \A l \in Lanes : ~WillBeLinked(r, l)
      BY <1>1, <1>2, <3>1, <3>2 DEF KnowsItsLinks, AttachedAgree
    <3>6. conn[c].told \subseteq Lanes
      BY <1>1 DEF FarSides
    <3> QED BY <1>4, <3>4, <3>5, <3>6
  <2> QED BY <2>1, <2>2
<1>8. WritersAgree'
  BY <1>1 DEF WritersAgree
<1> QED BY <1>2, <1>5, <1>6, <1>7, <1>8 DEF ToldInv, SendersAgree, KnowsItsLinks

\* The task gives up, or a tick, or nothing.
LEMMA RestKeepsTold ==
  ASSUME ToldInv, CleanupTimeout \/ StoreFails \/ Tick \/ UNCHANGED vars
  PROVE ToldInv'
<1>1. remotes' = remotes /\ writes' = writes /\ backwards' = backwards /\ conn' = conn /\ reason' = reason
  BY DEF CleanupTimeout, StoreFails, Tick, vars, links
<1>2. phase' = phase \/ phase' \in {"timed_out", "failed"}
  BY DEF CleanupTimeout, StoreFails, Tick, vars
<1>3. (Serving' => Serving) /\ (phase' = "stopped" => phase = "stopped") /\ (phase' = "cleanup" => phase = "cleanup")
  BY <1>2 DEF Serving
<1>4. WritersAgree' /\ AttachedAgree'
  BY <1>1, <1>3 DEF ToldInv, SendersAgree, WritersAgree, AttachedAgree, Registered
<1>5. \A r \in Ids : Registered(r)' => HomeAgrees(r)'
  BY <1>1, <1>3 DEF ToldInv, SendersAgree, HomeAgrees, Registered
<1>6. KnowsItsLinks'
  BY <1>1, <1>3 DEF ToldInv, KnowsItsLinks, WillBeLinked, Registered
<1>7. StopUnlinksAll'
  BY <1>1, <1>3 DEF ToldInv, StopUnlinksAll
<1> QED BY <1>4, <1>5, <1>6, <1>7 DEF ToldInv, SendersAgree

LEMMA ToldInit == Init => ToldInv
<1> SUFFICES ASSUME Init PROVE ToldInv
  OBVIOUS
<1>1. PICK s \in Setups :
        conn = [c \in Conns |-> [status |-> IF c \in s.conns THEN "unused" ELSE "absent",
                                open |-> TRUE, told |-> {}]]
  BY DEF Init
<1>2. \A c \in Conns : conn[c].status \in {"unused", "absent"} /\ conn[c].told = {}
  BY <1>1
<1>3. \A r \in Ids : ~Registered(r) /\ backwards[r] = {}
  BY DEF Init, Registered
<1>4. AttachedAgree
  BY <1>2, <1>3, IdOfAssumption DEF AttachedAgree, Init
<1> QED BY <1>3, <1>4 DEF ToldInv, SendersAgree, WritersAgree, KnowsItsLinks, StopUnlinksAll, Init

LEMMA NextKeepsTold ==
  ASSUME AttachedOnce
  PROVE IndexInv /\ ToldInv /\ [Next]_vars => ToldInv'
<1> SUFFICES ASSUME IndexInv, ToldInv, [Next]_vars PROVE ToldInv'
  OBVIOUS
<1>1. ASSUME NEW c \in Conns, Attach(c) \/ Disconnect(c) PROVE ToldInv'
  BY <1>1, AttachKeepsTold, DisconnectKeepsTold
<1>2. ASSUME NEW r \in Ids, NEW l \in Lanes, Link(r, l) \/ Unlink(r, l) \/ Respond(r, l) PROVE ToldInv'
  BY <1>2, LinkKeepsTold, UnlinkKeepsTold, RespondKeepsTold
<1>3. ASSUME NEW l \in Lanes, Broadcast(l) \/ LaneFailed(l) PROVE ToldInv'
  BY <1>3, BroadcastKeepsTold, LaneFailedKeepsTold
<1>4. CASE Prune \/ Stop \/ Dispose
  BY <1>4, PruneKeepsTold, StopKeepsTold, DisposeKeepsTold
<1>5. ASSUME NEW w \in writes, WriteDone(w) \/ WriteFailed(w) PROVE ToldInv'
  BY <1>5, WriteDoneKeepsTold, WriteFailedKeepsTold
<1>6. CASE CleanupTimeout \/ StoreFails \/ Tick \/ UNCHANGED vars
  BY <1>6, RestKeepsTold
<1> QED BY <1>1, <1>2, <1>3, <1>4, <1>5, <1>6 DEF Next

(***************************************************************************)
(* When no id is attached twice: besides the registries, each remote is    *)
(* told of its links as they come and go, whatever waits for its writer,   *)
(* and when the task has stopped in time each has been told that its links *)
(* are closed (push_special, replace_and_pop, unlink_all,                  *)
(* dispose_of_remotes).                                                    *)
(***************************************************************************)
THEOREM RegistriesInvariant ==
  ASSUME \A c, d \in Conns : IdOf[c] = IdOf[d] => c = d
  PROVE Spec => []RegistriesInv
<1>1. Init => RegistriesInv
  BY IndexInit, ToldInit DEF RegistriesInv
<1>2. RegistriesInv /\ [Next]_vars => RegistriesInv'
  BY NextKeepsIndex, NextKeepsTold DEF RegistriesInv, AttachedOnce
<1> QED BY <1>1, <1>2, PTL DEF Spec

=============================================================================
