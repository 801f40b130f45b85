-------------------------- MODULE LifecycleProofs -------------------------
(***************************************************************************)
(* Proofs about TimeoutCoord, for any finite set of two or more voters: a  *)
(* unanimous vote is final, and the atomics implement VoteSpec. Proofs about*)
(* AgentStore, for any items, cells and starts: the state of an agent is   *)
(* never lost, what is restored is what was saved, and no remote is told of*)
(* a change before it is saved.                                            *)
(***************************************************************************)
EXTENDS TimeoutCoord, AgentStore, FiniteSetTheorems, TLAPS

-----------------------------------------------------------------------------
(* The vote by which an agent or a downlink stops.                         *)

\* Two voters: the flag of one and any other flag are all the flags.
LEMMA TwoVotersAreAll ==
  ASSUME TwoVoters, NEW v \in Voters, NEW S \in SUBSET Voters, v \in S, S # {v}
  PROVE  S = Voters
<1>1. IsFiniteSet(Voters) /\ Cardinality(Voters) = 2
  BY VotersAssumption DEF TwoVoters
<1>2. PICK w \in S : w # v
  OBVIOUS
<1>3. IsFiniteSet(Voters \ {v}) /\ Cardinality(Voters \ {v}) = 1
  <2>1. IsFiniteSet(Voters \ {v}) /\ Cardinality(Voters \ {v}) = Cardinality(Voters) - 1
    BY <1>1, FS_RemoveElement
  <2> QED BY <2>1, <1>1
<1>4. PICK x : Voters \ {v} = {x}
  BY <1>3, FS_Singleton
<1> QED BY <1>2, <1>4

\* With two or more voters a single flag is never unanimity.
LEMMA OneIsNotAll ==
  ASSUME NEW v \in Voters
  PROVE  {v} # Voters
BY VotersAssumption, FS_Singleton

\* The invariant holds initially.
LEMMA InitIInv == Init => IInv
<1> SUFFICES ASSUME Init PROVE IInv
  OBVIOUS
<1>1. Voters # {}
  BY VotersAssumption, FS_EmptySet
<1> QED
  BY <1>1 DEF Init, IInv, TypeOK, StandingAgrees, ReadyIsUnanimous, NoLostWake,
     ToldUnanimousIsTrue, Results

\* Every step of a voter or of the receiver preserves the invariant.
LEMMA NextIInv == IInv /\ [Next]_vars => IInv'
<1> SUFFICES ASSUME IInv, [Next]_vars PROVE IInv'
  OBVIOUS
<1> USE DEF IInv, TypeOK, StandingAgrees, ReadyIsUnanimous, NoLostWake,
        ToldUnanimousIsTrue, Results, voterVars, receiverVars
<1>1. ASSUME NEW v \in Voters, Vote(v) PROVE IInv'
  <2>1. CASE Decides(v)
    <3>1. flags' = Voters
      BY <1>1, <2>1 DEF Vote, Decides
    <3>2. TypeOK' /\ StandingAgrees' /\ ReadyIsUnanimous'
      BY <1>1, <2>1, <3>1 DEF Vote, Decides
    <3> QED BY <1>1, <2>1, <3>1, <3>2 DEF Vote
  <2>2. CASE ~Decides(v)
    <3>1. flags' = Voters => flags = Voters
      <4>1. flags' = flags \cup {v} /\ flags \subseteq Voters /\ flags # Voters \ {v}
        BY <1>1, <2>2 DEF Vote, Decides
      <4> QED BY <4>1
    <3>2. TypeOK'
      BY <1>1, <2>2 DEF Vote, Return, AfterCall
    <3>3. StandingAgrees' /\ ReadyIsUnanimous' /\ NoLostWake'
      BY <1>1, <2>2, <3>1 DEF Vote, Return, AfterCall
    <3> QED BY <1>1, <2>2, <3>1, <3>2, <3>3 DEF Vote, Return, AfterCall
  <2> QED BY <2>1, <2>2
<1>2. ASSUME NEW v \in Voters, Wake(v) PROVE IInv'
  BY <1>2 DEF Wake, Return, AfterCall
<1>3. ASSUME NEW v \in Voters, RescindNoVote(v) PROVE IInv'
  BY <1>3 DEF RescindNoVote, MayRescind, Return, AfterCall
<1>4. ASSUME NEW v \in Voters, RescindTwo(v) PROVE IInv'
  <2>1. CASE OnlyMine(v)
    <3>1. flags # Voters /\ flags' # Voters
      BY <1>4, <2>1, OneIsNotAll DEF RescindTwo, OnlyMine
    <3>2. TypeOK' /\ StandingAgrees' /\ ReadyIsUnanimous' /\ NoLostWake'
      BY ZenonT(60), <1>4, <2>1, <3>1 DEF RescindTwo, MayRescind, OnlyMine, Return, AfterCall
    <3> QED
      BY <1>4, <2>1, <3>1, <3>2 DEF RescindTwo, MayRescind, OnlyMine, Return, AfterCall
  <2>2. CASE ~OnlyMine(v)
    <3>1. (TracksOwnVote \/ ~TwoVoters) => flags = Voters
      BY <1>4, <2>2, TwoVotersAreAll DEF RescindTwo, MayRescind, OnlyMine
    <3> QED
      BY <1>4, <2>2, <3>1 DEF RescindTwo, MayRescind, Return, AfterCall, TwoVoters
  <2> QED BY <2>1, <2>2
<1>5. ASSUME NEW v \in Voters, RescindLoad(v) PROVE IInv'
  BY <1>5 DEF RescindLoad, MayRescind, Return, AfterCall, TwoVoters
<1>6. ASSUME NEW v \in Voters, RescindExchange(v) PROVE IInv'
  <2>1. CASE Unraced(v)
    <3>1. flags # Voters /\ flags' # Voters
      <4>1. flags # Voters /\ flags' = flags \ {v} /\ v \in Voters
        BY <1>6, <2>1 DEF RescindExchange, Unraced
      <4> QED BY <4>1
    <3>2. TypeOK'
      BY ZenonT(60), <1>6, <2>1 DEF RescindExchange, Return, AfterCall
    <3>3. StandingAgrees'
      BY <1>6, <2>1 DEF RescindExchange, Unraced
    <3>4. ReadyIsUnanimous' /\ NoLostWake'
      BY <1>6, <2>1, <3>1 DEF RescindExchange
    <3> QED
      BY <1>6, <2>1, <3>1, <3>2, <3>3, <3>4 DEF RescindExchange, Unraced, Return, AfterCall
  <2>2. CASE ~Unraced(v)
    BY <1>6, <2>2 DEF RescindExchange
  <2> QED BY <2>1, <2>2
<1>7. ASSUME NEW v \in Voters, Drop(v) PROVE IInv'
  BY <1>7 DEF Drop
<1>8. CASE PollFirst
  BY <1>8 DEF PollFirst
<1>9. CASE PollRegister
  BY <1>9 DEF PollRegister, RegistersWaker
<1>10. CASE PollSecond
  BY <1>10 DEF PollSecond, SecondLook
<1>11. CASE UNCHANGED vars
  BY <1>11 DEF vars
<1> QED
  BY <1>1, <1>2, <1>3, <1>4, <1>5, <1>6, <1>7, <1>8, <1>9, <1>10, <1>11 DEF Next

\* The inductive invariant holds in every run, for any number of voters.
THEOREM VoteInvariant == Spec => []IInv
BY InitIInv, NextIInv, PTL DEF Spec

\* Where a task only rescinds a vote it has standing, or there are more than
\* two parties, "Unanimous" is never a false answer.
THEOREM ToldTheTruth ==
  ASSUME TracksOwnVote \/ ~TwoVoters
  PROVE  Spec => []ToldUnanimousIsTrue
<1>1. IInv => ToldUnanimousIsTrue
  BY DEF IInv
<1> QED BY <1>1, VoteInvariant, PTL

\* A receiver that sleeps on a unanimous vote has been or is being woken.
THEOREM WakeNeverLost == Spec => []NoLostWake
<1>1. IInv => NoLostWake
  BY DEF IInv
<1> QED BY <1>1, VoteInvariant, PTL

\* What a step does to the flags: once all are set it leaves them alone.
LEMMA FinalStep == IInv /\ [Next]_vars => (flags = Voters => flags' = Voters)
<1> SUFFICES ASSUME IInv, [Next]_vars, flags = Voters PROVE flags' = Voters
  OBVIOUS
<1> USE DEF IInv, TypeOK, voterVars, receiverVars
<1>1. ASSUME NEW v \in Voters, Vote(v) PROVE flags' = Voters
  BY <1>1 DEF Vote
<1>2. ASSUME NEW v \in Voters, RescindTwo(v) PROVE flags' = Voters
  BY <1>2, OneIsNotAll DEF RescindTwo, OnlyMine
<1>3. ASSUME NEW v \in Voters, RescindExchange(v) PROVE flags' = Voters
  BY <1>3 DEF RescindExchange, Unraced
<1>4. ASSUME NEW v \in Voters,
             Wake(v) \/ RescindNoVote(v) \/ RescindLoad(v) \/ Drop(v)
      PROVE  flags' = Voters
  BY <1>4 DEF Wake, RescindNoVote, RescindLoad, Drop
<1>5. ASSUME PollFirst \/ PollRegister \/ PollSecond PROVE flags' = Voters
  BY <1>5 DEF PollFirst, PollRegister, PollSecond
<1>6. CASE UNCHANGED vars
  BY <1>6 DEF vars
<1> QED BY <1>1, <1>2, <1>3, <1>4, <1>5, <1>6 DEF Next

\* "Once unanimity has been reached, no calls will have any effect."
THEOREM Finality == Spec => UnanimityIsFinal
<1>1. IInv /\ [Next]_vars => [flags = Voters => flags' = Voters]_vars
  BY FinalStep
<1> QED BY <1>1, VoteInvariant, PTL DEF Spec, UnanimityIsFinal

\* The atomic steps of voters and receiver implement the abstract vote.
THEOREM Refinement == Spec => ImplementsVoteSpec
<1>1. Init => Abstract!Init
  BY DEF Init, Abstract!Init
<1>2. IInv /\ IInv' /\ [Next]_vars => [Abstract!Next]_(Abstract!vars)
  <2> SUFFICES ASSUME IInv, IInv', [Next]_vars
               PROVE  [Abstract!Next]_(Abstract!vars)
    OBVIOUS
  <2> USE DEF Abstract!Next, Abstract!vars, voterVars, receiverVars
  <2>1. ASSUME NEW v \in Voters, Vote(v) PROVE Abstract!Next
    BY <2>1 DEF Vote, Abstract!Vote
  <2>2. ASSUME NEW v \in Voters, RescindTwo(v) PROVE [Abstract!Next]_(Abstract!vars)
    BY <2>2, OneIsNotAll DEF RescindTwo, OnlyMine, Abstract!Rescind
  <2>3. ASSUME NEW v \in Voters, RescindExchange(v)
        PROVE  [Abstract!Next]_(Abstract!vars)
    BY <2>3 DEF RescindExchange, Unraced, Abstract!Rescind, IInv
  <2>4. ASSUME NEW v \in Voters,
               Wake(v) \/ RescindNoVote(v) \/ RescindLoad(v) \/ Drop(v)
        PROVE  UNCHANGED Abstract!vars
    BY <2>4 DEF Wake, RescindNoVote, RescindLoad, Drop
  <2>5. CASE PollFirst
    BY <2>5 DEF PollFirst, Abstract!Complete
  <2>6. CASE PollRegister
    BY <2>6 DEF PollRegister
  <2>7. CASE PollSecond
    BY <2>7 DEF PollSecond, SecondLook, Abstract!Complete
  <2>8. CASE UNCHANGED vars
    BY <2>8 DEF vars
  <2> QED BY <2>1, <2>2, <2>3, <2>4, <2>5, <2>6, <2>7, <2>8 DEF Next
<1> QED
  BY <1>1, <1>2, VoteInvariant, PTL DEF Spec, ImplementsVoteSpec, Abstract!Spec

-----------------------------------------------------------------------------
(* The state of an agent and its store.                                    *)

\* What is written to the store, what is read from it, and how far an item has come
\* with its initialisation.
OpRecord == [cell : Cells \cup {Clear}, to : 0..MaxWrites]
FrameRecord == [cell : Cells \cup {"none"}, to : 0..MaxWrites]
ItemRecord ==
  [at : {"none", "sending", "sent", "ready"}, todo : Seq(Cells), frames : Seq(FrameRecord), got : Contents,
   acked : BOOLEAN]

\* The variables of the instances are of their types.
AgentTypeOK ==
  /\ item \in [Starts -> [Items -> ItemRecord]]
  /\ started \in [Starts -> BOOLEAN]
  /\ queue \in [Starts -> [Items -> Seq(Cells \cup {Clear})]]
  /\ dirty \in [Starts -> SUBSET Items]
  /\ out \in [Starts -> [Items -> Seq(OpRecord)]]

\* An instance that is live has the state of the agent.
Live == {"init", "running", "ending"}

\* The state of the agent is with the instance that is live, or with the plane.
Whereabouts ==
  /\ \A i \in Starts : held[i] # NoState <=> inst[i] \in Live
  /\ \A i, j \in Starts : inst[i] \in Live /\ inst[j] \in Live => i = j
  /\ entry.at = "inUse" <=> \E i \in Starts : inst[i] \in Live
  /\ entry.at = "absent" => \A i \in Starts : inst[i] = "none"
  /\ entry.at = "idle" => entry.state \in Contents
  /\ channel # 0 => inst[channel] # "none"

\* An instance that has not got the state, or has given it away, has nothing under way.
NotLive(i) ==
  inst[i] \notin Live =>
    /\ ~started[i] /\ dirty[i] = {}
    /\ \A x \in Items : item[i][x] = NotAdded /\ queue[i][x] = <<>> /\ out[i][x] = <<>>

\* A queue has one operation at most for each cell, and a clear is the first.
QueueFormed(q, x) ==
  /\ \A n \in DOMAIN q : q[n] \in CellsOf[x] \cup {Clear} /\ (q[n] = Clear => n = 1)
  /\ \A n, m \in DOMAIN q : q[n] = q[m] => n = m

\* The channel of an item has operations of the item alone.
OutFormed(o, x) == \A n \in DOMAIN o : o[n].cell \in CellsOf[x] \cup {Clear}

\* The queues of an instance and its channels are well formed.
Formed(i) ==
  \A x \in Items :
    /\ QueueFormed(queue[i][x], x) /\ OutFormed(out[i][x], x)
    /\ x \in dirty[i] => queue[i][x] # <<>>

\* What is still to be restored of an item: what it has not got is on its way.
Restores(t, x, s) ==
  /\ t.at \in {"none", "sending", "sent"}
  /\ t.at # "sending" => t.todo = <<>>
  /\ t.at = "none" => t = NotAdded
  /\ \A n \in DOMAIN t.todo : t.todo[n] \in CellsOf[x] /\ s[t.todo[n]] # Absent
  /\ \A n \in DOMAIN t.frames :
       \/ t.frames[n] = InitComplete /\ t.at = "sent" /\ n = Len(t.frames)
       \/ /\ t.frames[n].cell \in CellsOf[x] /\ t.frames[n].to = s[t.frames[n].cell]
          /\ t.frames[n].to # Absent
  /\ t.at # "none" =>
       \A c \in CellsOf[x] :
         \/ t.got[c] = s[c]
         \/ \E n \in DOMAIN t.todo : t.todo[n] = c
         \/ \E n \in DOMAIN t.frames : t.frames[n].cell = c

\* An item that is being initialised: it is ready only with all that was stored.
ItemOK(t, x, s) ==
  /\ t.acked => t.frames = <<>> /\ t.todo = <<>> /\ t.at \in {"sent", "ready"}
  /\ t.at = "ready" => t.acked
  /\ x \in Transient => t.at \in {"none", "ready"} /\ t.frames = <<>>
  /\ x \in Persistent /\ ~t.acked => Restores(t, x, s)

\* An instance writes nothing before it has been initialised.
Initialising(i) ==
  inst[i] = "init" =>
    /\ started[i] => \A x \in Items : item[i][x].acked
    /\ dirty[i] = {}
    /\ \A x \in Items :
         /\ out[i][x] = <<>>
         /\ ~started[i] => queue[i][x] = <<>>
         /\ ItemOK(item[i][x], x, held[i])

\* What the item has of a cell is queued, or else what its channel or the store has.
Has(q, o, s, c, v) ==
  \/ \E n \in DOMAIN q : q[n] = c
  \/ v = Absent /\ \E n \in DOMAIN q : q[n] = Clear
  \/ (\A n \in DOMAIN q : q[n] \notin {c, Clear}) /\ Accounted(o, s, c, v)

\* Nothing that an item has is unknown to the store or not on its way to it.
AllThere(i) ==
  \A x \in Persistent : inst[i] = "running" \/ (inst[i] = "init" /\ item[i][x].acked) =>
    \A c \in CellsOf[x] : Has(queue[i][x], out[i][x], held[i], c, memory[i][c])

\* What holds of one instance.
InstOK(i) == NotLive(i) /\ Formed(i) /\ Initialising(i) /\ AllThere(i)

\* What a remote has been told is with the instance that is live, or in the store.
ToldIsSaved ==
  \A c \in Public : /\ \A i \in Starts : inst[i] \in Live => held[i][c] = told[c]
                    /\ entry.at # "inUse" => Stored[c] = told[c]

\* The inductive invariant of the store.
StoreIInv ==
  StoreTypeOK /\ AgentTypeOK /\ Whereabouts /\ ToldIsSaved /\ \A i \in Starts : InstOK(i)

\* An instance that a step leaves alone.
LEMMA InstSame ==
  ASSUME NEW i \in Starts, InstOK(i), inst'[i] = inst[i], held'[i] = held[i], item'[i] = item[i], memory'[i] = memory[i],
         started'[i] = started[i], queue'[i] = queue[i], dirty'[i] = dirty[i], out'[i] = out[i]
  PROVE  InstOK(i)'
<1>1. NotLive(i)'
  BY DEF InstOK, NotLive
<1>2. Formed(i)'
  BY DEF InstOK, Formed
<1>3. Initialising(i)'
  BY DEF InstOK, Initialising
<1>4. AllThere(i)'
  BY DEF InstOK, AllThere
<1> QED BY <1>1, <1>2, <1>3, <1>4 DEF InstOK

\* The invariant holds at first.
LEMMA StoreInitOK == StoreInit => StoreIInv
<1> SUFFICES ASSUME StoreInit PROVE StoreIInv
  OBVIOUS
<1>1. Nothing \in Contents /\ NotAdded \in ItemRecord
  BY ItemsAssumption DEF Nothing, Contents, NotAdded, ItemRecord, Absent
<1>2. StoreTypeOK
  BY <1>1, ItemsAssumption DEF StoreInit, StoreTypeOK, Dead, Starts
<1>3. AgentTypeOK
  BY <1>1 DEF StoreInit, AgentTypeOK
<1>4. Whereabouts
  BY DEF StoreInit, Whereabouts, Live
<1>5. ToldIsSaved
  BY DEF StoreInit, ToldIsSaved, Live, Stored
<1>6. ASSUME NEW i \in Starts PROVE InstOK(i)
  BY DEF StoreInit, InstOK, NotLive, Formed, QueueFormed, OutFormed, Initialising, AllThere, Live
<1> QED BY <1>2, <1>3, <1>4, <1>5, <1>6 DEF StoreIInv

\* One item of an instance goes on with its initialisation.
LEMMA ItemOnly ==
  ASSUME StoreIInv, NEW i \in Starts, NEW x \in Items, NEW t \in ItemRecord, inst[i] = "init", ToItem(i, x, t),
         ItemOK(t, x, held[i]), item[i][x].acked => t.acked, x \in Persistent /\ t.acked => item[i][x].acked,
         UNCHANGED <<overlap, plane, inst, held, memory, started, queue, dirty, out, told, made>>
  PROVE  StoreIInv'
<1>1. /\ item' \in [Starts -> [Items -> ItemRecord]]
      /\ item'[i][x] = t
      /\ \A y \in Items : y # x => item'[i][y] = item[i][y]
      /\ \A j \in Starts : j # i => item'[j] = item[j]
  BY DEF ToItem, StoreIInv, AgentTypeOK
<1>2. StoreTypeOK' /\ AgentTypeOK' /\ Whereabouts' /\ ToldIsSaved'
  BY <1>1 DEF StoreIInv, StoreTypeOK, AgentTypeOK, Whereabouts, ToldIsSaved, Stored, plane
<1>3. InstOK(i)'
  <2>1. NotLive(i)'
    BY DEF NotLive, Live
  <2>2. Formed(i)'
    BY DEF StoreIInv, InstOK, Formed
  <2>3. \A y \in Items : /\ item[i][y].acked => item'[i][y].acked
                        /\ y \in Persistent /\ item'[i][y].acked => item[i][y].acked
    BY <1>1
  <2>4. Initialising(i)'
    BY <1>1, <2>3 DEF StoreIInv, InstOK, Initialising
  <2>5. AllThere(i)'
    BY <2>3 DEF StoreIInv, InstOK, AllThere, Persistent
  <2> QED BY <2>1, <2>2, <2>4, <2>5 DEF InstOK
<1>4. \A j \in Starts : j # i => InstOK(j)'
  BY <1>1, InstSame DEF StoreIInv
<1> QED BY <1>2, <1>3, <1>4 DEF StoreIInv

\* A sequence of a finite set has all of it, and nothing else.
LEMMA SetToSeqHas ==
  ASSUME NEW S, IsFiniteSet(S)
  PROVE  /\ SetToSeq(S) \in Seq(S)
         /\ \A c \in S : \E n \in DOMAIN SetToSeq(S) : SetToSeq(S)[n] = c
<1> DEFINE n == Cardinality(S)
<1>1. n \in Nat /\ ExistsBijection(1..n, S)
  BY FS_CardinalityType
<1>2. PICK g \in Bijection(1..n, S) : TRUE
  BY <1>1 DEF ExistsBijection
<1>3. g \in [1..n -> S] /\ IsInjective(g)
  BY <1>2 DEF Bijection, Injection
<1> DEFINE f == SetToSeq(S)
<1>4. f \in [1..n -> S] /\ IsInjective(f)
  BY <1>3 DEF SetToSeq
<1>5. f \in Injection(1..n, S)
  BY <1>4 DEF Injection
<1>6. IsFiniteSet(1..n) /\ Cardinality(1..n) = n
  BY <1>1, FS_Interval
<1>7. f \in Surjection(1..n, S)
  BY <1>5, <1>6, FS_Injection
<1>8. \A c \in S : \E k \in 1..n : f[k] = c
  BY <1>7 DEF Surjection
<1> HIDE DEF f
<1>9. f \in Seq(S) /\ DOMAIN f = 1..n
  BY <1>1, <1>4
<1> QED BY <1>8, <1>9 DEF f

\* An item that has not been added is of its type.
LEMMA NotAddedOK == NotAdded \in ItemRecord
BY ItemsAssumption DEF NotAdded, ItemRecord, Nothing, Contents, Absent

\* An item is added, in the order of the specification of the agent.
LEMMA AddItemOK ==
  ASSUME StoreIInv, NEW i \in Starts, NEW x \in Items, AddItem(i, x)
  PROVE  StoreIInv'
<1> DEFINE S == {c \in CellsOf[x] : held[i][c] # Absent}
           t == IF x \in Transient THEN [NotAdded EXCEPT !.at = "ready", !.acked = TRUE]
                                   ELSE [NotAdded EXCEPT !.at = "sending", !.todo = SetToSeq(S)]
<1>1. ToItem(i, x, t) /\ inst[i] = "init" /\ item[i][x].at = "none"
  BY DEF AddItem
<1>2. ItemOK(item[i][x], x, held[i])
  BY <1>1 DEF StoreIInv, InstOK, Initialising
<1>3. IsFiniteSet(S) /\ S \subseteq Cells
  BY CellsAssumption, FS_Subset DEF Cells
<1>4. SetToSeq(S) \in Seq(S) /\ \A c \in S : \E n \in DOMAIN SetToSeq(S) : SetToSeq(S)[n] = c
  BY <1>3, SetToSeqHas
<1>5. t \in ItemRecord
  <2> DEFINE todo == SetToSeq(S)
  <2>1. todo \in Seq(Cells)
    BY <1>3, <1>4
  <2> HIDE DEF todo
  <2>2. [NotAdded EXCEPT !.at = "sending", !.todo = todo] \in ItemRecord
    BY <2>1, NotAddedOK DEF ItemRecord
  <2>3. [NotAdded EXCEPT !.at = "ready", !.acked = TRUE] \in ItemRecord
    BY NotAddedOK DEF ItemRecord
  <2> QED BY <2>2, <2>3 DEF todo
<1>6. held[i] \in Contents
  BY <1>1 DEF StoreIInv, Whereabouts, StoreTypeOK, Live
<1>7. CASE x \in Transient
  <2>1. ItemOK(t, x, held[i])
    BY <1>7 DEF ItemOK, NotAdded, Persistent
  <2> QED BY <1>1, <1>2, <1>5, <1>7, <2>1, ItemOnly DEF AddItem, Persistent, NotAdded, ItemOK
<1>8. CASE x \notin Transient
  <2>1. /\ t.at = "sending" /\ t.todo = SetToSeq(S) /\ t.frames = <<>> /\ t.acked = FALSE
        /\ t.got = Nothing
    BY <1>8 DEF NotAdded
  <2>3. \A c \in CellsOf[x] : t.got[c] = held[i][c] \/ \E n \in DOMAIN t.todo : t.todo[n] = c
    <3> TAKE c \in CellsOf[x]
    <3>1. c \in Cells
      BY DEF Cells
    <3>2. t.got[c] = Absent
      BY <2>1, <3>1 DEF Nothing
    <3> QED BY <1>4, <2>1, <3>2
  <2>4. Restores(t, x, held[i])
    <3> DEFINE todo == SetToSeq(S)
    <3>1. todo \in Seq(S) /\ t.todo = todo
      BY <1>4, <2>1
    <3> HIDE DEF t, todo
    <3>2. \A n \in DOMAIN t.todo : t.todo[n] \in CellsOf[x] /\ held[i][t.todo[n]] # Absent
      BY <3>1
    <3>3. DOMAIN t.frames = {}
      BY <2>1
    <3> QED BY <2>1, <2>3, <3>2, <3>3 DEF Restores
  <2>5. ItemOK(t, x, held[i])
    BY <1>8, <2>1, <2>4 DEF ItemOK
  <2> QED BY <1>1, <1>2, <1>5, <2>1, <2>5, ItemOnly DEF AddItem, ItemOK
<1> QED BY <1>7, <1>8

\* What is left of a run without the first.
LEMMA TailFacts ==
  ASSUME NEW T, NEW q \in Seq(T), q # <<>>
  PROVE  /\ Tail(q) \in Seq(T) /\ Head(q) \in T /\ Head(q) = q[1] /\ 1 \in DOMAIN q
         /\ Len(Tail(q)) = Len(q) - 1 /\ Len(q) \in Nat
         /\ \A n \in DOMAIN Tail(q) : n \in Nat /\ n + 1 \in DOMAIN q /\ Tail(q)[n] = q[n + 1]
         /\ \A n \in DOMAIN q : n \in Nat /\ (n = 1 \/ (n - 1 \in DOMAIN Tail(q) /\ Tail(q)[n - 1] = q[n]))
OBVIOUS

\* What is in a run with one more.
LEMMA AppendFacts ==
  ASSUME NEW T, NEW q \in Seq(T), NEW e \in T
  PROVE  /\ Append(q, e) \in Seq(T) /\ Len(Append(q, e)) = Len(q) + 1 /\ Len(q) \in Nat
         /\ Len(q) + 1 \in DOMAIN Append(q, e) /\ Append(q, e)[Len(q) + 1] = e
         /\ \A n \in DOMAIN q : n \in DOMAIN Append(q, e) /\ Append(q, e)[n] = q[n]
         /\ \A n \in DOMAIN Append(q, e) : n = Len(q) + 1 \/ n \in DOMAIN q
OBVIOUS

\* A frame that is sent carries the cell that was still to be sent.
LEMMA SendKeeps ==
  ASSUME NEW x \in Items, NEW s \in Contents, NEW t \in ItemRecord, NEW u \in ItemRecord, Restores(t, x, s),
         t.at = "sending", t.todo # <<>>, u.at = t.at, u.got = t.got, u.todo = Tail(t.todo),
         u.frames = Append(t.frames, [cell |-> Head(t.todo), to |-> s[Head(t.todo)]])
  PROVE  Restores(u, x, s)
<1> DEFINE f == [cell |-> Head(t.todo), to |-> s[Head(t.todo)]]
<1>1. t.todo \in Seq(Cells) /\ t.frames \in Seq(FrameRecord)
  BY DEF ItemRecord
<1>2. Head(t.todo) \in CellsOf[x] /\ s[Head(t.todo)] # Absent
  BY <1>1, TailFacts DEF Restores
<1>3. f \in FrameRecord
  BY <1>1, TailFacts DEF FrameRecord, Contents
<1>4. \A n \in DOMAIN u.todo : u.todo[n] \in CellsOf[x] /\ s[u.todo[n]] # Absent
  BY <1>1, TailFacts DEF Restores
<1>5. \A n \in DOMAIN u.frames :
        /\ u.frames[n].cell \in CellsOf[x] /\ u.frames[n].to = s[u.frames[n].cell]
        /\ u.frames[n].to # Absent
  <2> TAKE n \in DOMAIN u.frames
  <2>1. CASE n \in DOMAIN t.frames
    <3>1. u.frames[n] = t.frames[n]
      BY <1>1, <1>3, <2>1, AppendFacts
    <3> QED BY <2>1, <3>1 DEF Restores
  <2>2. CASE n = Len(t.frames) + 1
    <3>1. u.frames[n] = f
      BY <1>1, <1>3, <2>2, AppendFacts
    <3> QED BY <1>2, <3>1
  <2> QED BY <1>1, <1>3, <2>1, <2>2, AppendFacts
<1>6. ASSUME NEW c \in CellsOf[x]
      PROVE  \/ u.got[c] = s[c]
             \/ \E n \in DOMAIN u.todo : u.todo[n] = c
             \/ \E n \in DOMAIN u.frames : u.frames[n].cell = c
  <2>1. CASE \E n \in DOMAIN t.todo : t.todo[n] = c
    <3>1. PICK n \in DOMAIN t.todo : t.todo[n] = c
      BY <2>1
    <3>2. CASE n = 1
      <4>1. f.cell = c
        BY <1>1, <3>1, <3>2, TailFacts
      <4>2. Len(t.frames) + 1 \in DOMAIN u.frames /\ u.frames[Len(t.frames) + 1] = f
        BY <1>1, <1>3, AppendFacts
      <4> QED BY <4>1, <4>2
    <3>3. CASE n # 1
      <4>1. n - 1 \in DOMAIN u.todo /\ u.todo[n - 1] = c
        BY <1>1, <3>1, <3>3, TailFacts
      <4> QED BY <4>1
    <3> QED BY <3>2, <3>3
  <2>2. CASE \E n \in DOMAIN t.frames : t.frames[n].cell = c
    BY <1>1, <1>3, <2>2, AppendFacts
  <2> QED BY <2>1, <2>2 DEF Restores
<1> QED BY <1>4, <1>5, <1>6 DEF Restores

\* The last frame says that there is no other.
LEMMA SendLastKeeps ==
  ASSUME NEW x \in Items, NEW s \in Contents, NEW t \in ItemRecord, NEW u \in ItemRecord, Restores(t, x, s),
         t.at = "sending", t.todo = <<>>, u.at = "sent", u.got = t.got, u.todo = t.todo,
         u.frames = Append(t.frames, InitComplete)
  PROVE  Restores(u, x, s)
<1>1. t.frames \in Seq(FrameRecord) /\ InitComplete \in FrameRecord
  BY ItemsAssumption DEF ItemRecord, FrameRecord, InitComplete, Absent
<1>2. ASSUME NEW n \in DOMAIN u.frames
      PROVE  \/ u.frames[n] = InitComplete /\ u.at = "sent" /\ n = Len(u.frames)
             \/ /\ u.frames[n].cell \in CellsOf[x] /\ u.frames[n].to = s[u.frames[n].cell]
                /\ u.frames[n].to # Absent
  <2>1. CASE n \in DOMAIN t.frames
    <3>1. u.frames[n] = t.frames[n]
      BY <1>1, <2>1, AppendFacts
    <3> QED BY <2>1, <3>1 DEF Restores
  <2>2. CASE n = Len(t.frames) + 1
    BY <1>1, <2>2, AppendFacts
  <2> QED BY <1>1, <2>1, <2>2, AppendFacts
<1>3. ASSUME NEW c \in CellsOf[x]
      PROVE  u.got[c] = s[c] \/ \E n \in DOMAIN u.frames : u.frames[n].cell = c
  BY <1>1, AppendFacts DEF Restores
<1> QED BY <1>2, <1>3 DEF Restores

\* A frame that is read is what the item has got.
LEMMA ReadKeeps ==
  ASSUME NEW x \in Items, NEW s \in Contents, NEW t \in ItemRecord, NEW u \in ItemRecord, Restores(t, x, s),
         t.at # "none", t.frames # <<>>, Head(t.frames) # InitComplete, u.at = t.at,
         u.got = [t.got EXCEPT ![Head(t.frames).cell] = Head(t.frames).to], u.todo = t.todo,
         u.frames = Tail(t.frames)
  PROVE  Restores(u, x, s)
<1> DEFINE f == Head(t.frames)
<1>1. t.frames \in Seq(FrameRecord) /\ t.got \in Contents
  BY DEF ItemRecord
<1>2. f.cell \in CellsOf[x] /\ f.to = s[f.cell]
  BY <1>1, TailFacts DEF Restores
<1>3. \A c \in CellsOf[x] : u.got[c] = IF c = f.cell THEN f.to ELSE t.got[c]
  BY <1>1 DEF Contents, Cells
<1>4. ASSUME NEW n \in DOMAIN u.frames
      PROVE  \/ u.frames[n] = InitComplete /\ u.at = "sent" /\ n = Len(u.frames)
             \/ /\ u.frames[n].cell \in CellsOf[x] /\ u.frames[n].to = s[u.frames[n].cell]
                /\ u.frames[n].to # Absent
  <2>1. n \in Nat /\ n + 1 \in DOMAIN t.frames /\ u.frames[n] = t.frames[n + 1]
    BY <1>1, TailFacts
  <2>2. n + 1 = Len(t.frames) => n = Len(u.frames)
    BY <1>1, <2>1, TailFacts
  <2> QED BY <2>1, <2>2 DEF Restores
<1>5. ASSUME NEW c \in CellsOf[x]
      PROVE  \/ u.got[c] = s[c]
             \/ \E n \in DOMAIN u.todo : u.todo[n] = c
             \/ \E n \in DOMAIN u.frames : u.frames[n].cell = c
  <2>1. CASE c = f.cell
    BY <1>2, <1>3, <2>1
  <2>2. CASE c # f.cell
    <3>1. ASSUME NEW n \in DOMAIN t.frames, t.frames[n].cell = c
          PROVE  \E m \in DOMAIN u.frames : u.frames[m].cell = c
      <4>1. n # 1
        BY <1>1, <2>2, <3>1, TailFacts
      <4>2. n - 1 \in DOMAIN u.frames /\ u.frames[n - 1] = t.frames[n]
        BY <1>1, <3>1, <4>1, TailFacts
      <4> QED BY <3>1, <4>2
    <3> QED BY <1>3, <2>2, <3>1 DEF Restores
  <2> QED BY <2>1, <2>2
<1> QED BY <1>4, <1>5 DEF Restores

\* What an instance that is being initialised knows of an item.
LEMMA ItemFacts ==
  ASSUME StoreIInv, NEW i \in Starts, NEW x \in Items, inst[i] = "init"
  PROVE  ItemOK(item[i][x], x, held[i]) /\ item[i][x] \in ItemRecord /\ held[i] \in Contents
BY DEF StoreIInv, InstOK, Initialising, AgentTypeOK, Whereabouts, StoreTypeOK, Live

\* The store sends the next of what it has of an item.
LEMMA SendFrameOK ==
  ASSUME StoreIInv, NEW i \in Starts, NEW x \in Items, SendFrame(i, x)
  PROVE  StoreIInv'
<1> DEFINE t == item[i][x]
           s == held[i]
<1>1. inst[i] = "init" /\ t.at = "sending"
  BY DEF SendFrame
<1>2. ItemOK(t, x, s) /\ t \in ItemRecord /\ s \in Contents
  BY <1>1, ItemFacts
<1>3. x \in Persistent /\ ~t.acked /\ Restores(t, x, s)
  BY <1>1, <1>2 DEF ItemOK, Persistent
<1>4. t.todo \in Seq(Cells) /\ t.frames \in Seq(FrameRecord)
  BY <1>2 DEF ItemRecord
<1>5. ASSUME NEW u \in ItemRecord, ToItem(i, x, u), Restores(u, x, s), u.acked = t.acked, u.at \in {"sending", "sent"}
      PROVE  StoreIInv'
  <2>1. ItemOK(u, x, s)
    BY <1>3, <1>5 DEF ItemOK, Persistent
  <2> QED BY <1>1, <1>3, <1>5, <2>1, ItemOnly DEF SendFrame
<1>6. CASE t.todo # <<>>
  <2> DEFINE f == [cell |-> Head(t.todo), to |-> s[Head(t.todo)]]
             u == [t EXCEPT !.todo = Tail(@), !.frames = Append(@, f)]
  <2>1. f \in FrameRecord
    BY <1>2, <1>4, <1>6, TailFacts DEF FrameRecord, Contents
  <2>2. Tail(t.todo) \in Seq(Cells) /\ Append(t.frames, f) \in Seq(FrameRecord)
    BY <1>4, <1>6, <2>1, TailFacts, AppendFacts
  <2>3. u \in ItemRecord
    BY <1>2, <2>2 DEF ItemRecord
  <2>4. u.at = t.at /\ u.got = t.got /\ u.todo = Tail(t.todo) /\ u.frames = Append(t.frames, f) /\ u.acked = t.acked
    BY <1>2 DEF ItemRecord
  <2>5. Restores(u, x, s)
    BY <1>1, <1>2, <1>3, <1>6, <2>3, <2>4, SendKeeps
  <2> QED BY <1>1, <1>5, <1>6, <2>3, <2>4, <2>5 DEF SendFrame
<1>7. CASE t.todo = <<>>
  <2> DEFINE u == [t EXCEPT !.at = "sent", !.frames = Append(@, InitComplete)]
  <2>1. InitComplete \in FrameRecord
    BY ItemsAssumption DEF FrameRecord, InitComplete, Absent
  <2>2. Append(t.frames, InitComplete) \in Seq(FrameRecord)
    BY <1>4, <2>1, AppendFacts
  <2>3. u \in ItemRecord
    BY <1>2, <2>2 DEF ItemRecord
  <2>4. u.at = "sent" /\ u.got = t.got /\ u.todo = t.todo /\ u.frames = Append(t.frames, InitComplete) /\ u.acked = t.acked
    BY <1>2 DEF ItemRecord
  <2>5. Restores(u, x, s)
    BY <1>1, <1>2, <1>3, <1>7, <2>3, <2>4, SendLastKeeps
  <2> QED BY <1>5, <1>7, <2>3, <2>4, <2>5 DEF SendFrame
<1> QED BY <1>6, <1>7

\* Only an item that is not ready has anything to read.
LEMMA ReadingItem ==
  ASSUME StoreIInv, NEW i \in Starts, NEW x \in Items, inst[i] = "init", AllAdded(i), item[i][x].frames # <<>>
  PROVE  /\ x \in Persistent /\ ~item[i][x].acked /\ Restores(item[i][x], x, held[i])
         /\ item[i][x].at \in {"sending", "sent"}
BY ItemFacts DEF ItemOK, Persistent, Restores, AllAdded

\* The item reads it.
LEMMA ReadFrameOK ==
  ASSUME StoreIInv, NEW i \in Starts, NEW x \in Items, ReadFrame(i, x)
  PROVE  StoreIInv'
<1> DEFINE t == item[i][x]
           s == held[i]
           f == Head(t.frames)
           u == [t EXCEPT !.frames = Tail(@), !.got[f.cell] = f.to]
<1>1. inst[i] = "init" /\ AllAdded(i) /\ t.frames # <<>> /\ f # InitComplete /\ ToItem(i, x, u)
  BY DEF ReadFrame
<1>2. t \in ItemRecord /\ s \in Contents
  BY <1>1, ItemFacts
<1>3. x \in Persistent /\ ~t.acked /\ Restores(t, x, s) /\ t.at \in {"sending", "sent"}
  BY <1>1, ReadingItem
<1>4. t.frames \in Seq(FrameRecord) /\ t.got \in Contents
  BY <1>2 DEF ItemRecord
<1>5. f \in FrameRecord /\ Tail(t.frames) \in Seq(FrameRecord)
  BY <1>1, <1>4, TailFacts
<1>6. [t.got EXCEPT ![f.cell] = f.to] \in Contents
  BY <1>4, <1>5 DEF Contents, FrameRecord
<1>7. /\ u.at = t.at /\ u.got = [t.got EXCEPT ![f.cell] = f.to] /\ u.todo = t.todo
      /\ u.frames = Tail(t.frames) /\ u.acked = t.acked
  BY <1>2 DEF ItemRecord
<1>8. u \in ItemRecord
  BY <1>2, <1>5, <1>6 DEF ItemRecord
<1>9. Restores(u, x, s)
  BY <1>1, <1>2, <1>3, <1>7, <1>8, ReadKeeps
<1> HIDE DEF u
<1>10. ItemOK(u, x, s)
  BY <1>3, <1>7, <1>9 DEF ItemOK, Persistent
<1> QED BY <1>1, <1>3, <1>7, <1>8, <1>10, ItemOnly DEF ReadFrame

\* An item without a store is ready at once.
LEMMA ItemReadyOK ==
  ASSUME StoreIInv, NEW i \in Starts, NEW x \in Items, ItemReady(i, x)
  PROVE  StoreIInv'
<1> DEFINE t == item[i][x]
           u == [t EXCEPT !.at = "ready"]
<1>1. inst[i] = "init" /\ t.at = "sent" /\ t.acked /\ ToItem(i, x, u)
  BY DEF ItemReady
<1>2. ItemOK(t, x, held[i]) /\ t \in ItemRecord
  BY <1>1, ItemFacts
<1>3. u \in ItemRecord /\ u.at = "ready" /\ u.frames = t.frames /\ u.todo = t.todo /\ u.acked = t.acked
  BY <1>2 DEF ItemRecord
<1>4. ItemOK(u, x, held[i])
  BY <1>1, <1>2, <1>3 DEF ItemOK
<1> QED BY <1>1, <1>3, <1>4, ItemOnly DEF ItemReady

\* An operation that is written is the last; one that is saved was the first.
LEMMA SaysAppend ==
  ASSUME NEW ops \in Seq(OpRecord), NEW op \in OpRecord, NEW s, NEW c, NEW v,
         IF Touches(op, c) THEN op.to = v ELSE Accounted(ops, s, c, v)
  PROVE  Accounted(Append(ops, op), s, c, v)
<1> DEFINE l == Len(ops) + 1
           more == Append(ops, op)
<1>1. /\ l \in DOMAIN more /\ more[l] = op /\ Len(ops) \in Nat
      /\ \A n \in DOMAIN ops : n \in DOMAIN more /\ more[n] = ops[n] /\ n \in Nat /\ n < l
      /\ \A n \in DOMAIN more : n \in Nat /\ n <= l /\ (n = l \/ (n \in DOMAIN ops /\ more[n] = ops[n]))
  OBVIOUS
<1> HIDE DEF l, more
<1>2. CASE Touches(op, c)
  <2>1. Touches(more[l], c) /\ more[l].to = v /\ \A m \in DOMAIN more : m > l => ~Touches(more[m], c)
    BY <1>1, <1>2 DEF l
  <2> QED BY <1>1, <2>1 DEF Accounted, more
<1>3. CASE ~Touches(op, c)
  <2>1. CASE s[c] = v /\ \A n \in DOMAIN ops : ~Touches(ops[n], c)
    <3>1. \A n \in DOMAIN more : ~Touches(more[n], c)
      BY <1>1, <1>3, <2>1
    <3> QED BY <2>1, <3>1 DEF Accounted, more
  <2>2. CASE \E n \in DOMAIN ops : Touches(ops[n], c) /\ ops[n].to = v /\ \A m \in DOMAIN ops : m > n => ~Touches(ops[m], c)
    <3>1. PICK n \in DOMAIN ops : Touches(ops[n], c) /\ ops[n].to = v /\ \A m \in DOMAIN ops : m > n => ~Touches(ops[m], c)
      BY <2>2
    <3>2. n \in DOMAIN more /\ Touches(more[n], c) /\ more[n].to = v /\ \A m \in DOMAIN more : m > n => ~Touches(more[m], c)
      BY <1>1, <1>3, <3>1
    <3> QED BY <3>2 DEF Accounted, more
  <2> QED BY <1>3, <2>1, <2>2 DEF Accounted
<1> QED BY <1>2, <1>3

\* The first operation of a channel is applied: the rest still accounts for the cell.
LEMMA SaysTail ==
  ASSUME NEW ops \in Seq(OpRecord), ops # <<>>, NEW s, NEW z, NEW c, NEW v, Accounted(ops, s, c, v),
         z[c] = IF Touches(Head(ops), c) THEN Head(ops).to ELSE s[c]
  PROVE  Accounted(Tail(ops), z, c, v)
<1> DEFINE rest == Tail(ops)
<1>1. /\ Head(ops) = ops[1] /\ 1 \in DOMAIN ops
      /\ \A n \in DOMAIN rest : n \in Nat /\ n + 1 \in DOMAIN ops /\ rest[n] = ops[n + 1] /\ n + 1 > 1
      /\ \A n \in DOMAIN ops : n \in Nat /\ (n = 1 \/ (n - 1 \in DOMAIN rest /\ rest[n - 1] = ops[n]))
  OBVIOUS
<1> HIDE DEF rest
<1>2. CASE s[c] = v /\ \A n \in DOMAIN ops : ~Touches(ops[n], c)
  <2>1. z[c] = v /\ \A n \in DOMAIN rest : ~Touches(rest[n], c)
    BY <1>1, <1>2
  <2> QED BY <2>1 DEF Accounted, rest
<1>3. CASE \E n \in DOMAIN ops : Touches(ops[n], c) /\ ops[n].to = v /\ \A m \in DOMAIN ops : m > n => ~Touches(ops[m], c)
  <2>1. PICK n \in DOMAIN ops : Touches(ops[n], c) /\ ops[n].to = v /\ \A m \in DOMAIN ops : m > n => ~Touches(ops[m], c)
    BY <1>3
  <2>2. CASE n = 1
    <3>1. z[c] = v /\ \A m \in DOMAIN rest : ~Touches(rest[m], c)
      BY <1>1, <2>1, <2>2
    <3> QED BY <3>1 DEF Accounted, rest
  <2>3. CASE n # 1
    <3>1. n - 1 \in DOMAIN rest /\ Touches(rest[n - 1], c) /\ rest[n - 1].to = v
      BY <1>1, <2>1, <2>3
    <3>2. ASSUME NEW m \in DOMAIN rest, m > n - 1 PROVE ~Touches(rest[m], c)
      <4>1. m + 1 \in DOMAIN ops /\ m + 1 > n /\ rest[m] = ops[m + 1]
        BY <1>1, <2>1, <3>2
      <4> QED BY <2>1, <4>1
    <3> QED BY <3>1, <3>2 DEF Accounted, rest
  <2> QED BY <2>2, <2>3
<1> QED BY <1>2, <1>3 DEF Accounted

\* What is queued comes after what is in the channel.
LEMMA SaysConcat ==
  ASSUME NEW ops \in Seq(OpRecord), NEW more \in Seq(OpRecord), NEW s, NEW c, NEW v,
         \/ \E n \in DOMAIN more :
              Touches(more[n], c) /\ more[n].to = v /\ \A m \in DOMAIN more : m > n => ~Touches(more[m], c)
         \/ Accounted(ops, s, c, v) /\ \A n \in DOMAIN more : ~Touches(more[n], c)
  PROVE  Accounted(ops \o more, s, c, v)
<1> DEFINE all == ops \o more
           l == Len(ops)
<1>1. /\ l \in Nat
      /\ \A n \in DOMAIN ops : n \in DOMAIN all /\ all[n] = ops[n] /\ n \in Nat /\ n <= l
      /\ \A n \in DOMAIN more : n \in Nat /\ n > 0 /\ l + n \in DOMAIN all /\ all[l + n] = more[n]
      /\ \A n \in DOMAIN all : /\ n \in Nat
                             /\ \/ n \in DOMAIN ops /\ all[n] = ops[n]
                                \/ n > l /\ n - l \in DOMAIN more /\ all[n] = more[n - l]
  <2>1. /\ l \in Nat /\ Len(more) \in Nat /\ DOMAIN ops = 1..l /\ DOMAIN more = 1..Len(more)
        /\ DOMAIN all = 1..l + Len(more)
    OBVIOUS
  <2>2. \A n \in 1..l + Len(more) : all[n] = IF n <= l THEN ops[n] ELSE more[n - l]
    OBVIOUS
  <2> HIDE DEF all, l
  <2>3. \A n \in DOMAIN ops : n \in DOMAIN all /\ all[n] = ops[n] /\ n \in Nat /\ n <= l
    BY <2>1, <2>2
  <2>4. ASSUME NEW n \in DOMAIN more PROVE n \in Nat /\ n > 0 /\ l + n \in DOMAIN all /\ all[l + n] = more[n]
    <3>1. n \in Nat /\ n > 0 /\ l + n \in DOMAIN all /\ ~(l + n <= l) /\ (l + n) - l = n
      BY <2>1
    <3> QED BY <2>1, <2>2, <3>1
  <2>5. ASSUME NEW n \in DOMAIN all
        PROVE  /\ n \in Nat
               /\ \/ n \in DOMAIN ops /\ all[n] = ops[n]
                  \/ n > l /\ n - l \in DOMAIN more /\ all[n] = more[n - l]
    <3>1. n \in 1..l + Len(more) /\ n \in Nat
      BY <2>1
    <3>2. CASE n <= l
      BY <2>1, <2>2, <3>1, <3>2
    <3>3. CASE ~(n <= l)
      <4>1. n > l /\ n - l \in 1..Len(more)
        BY <2>1, <3>1, <3>3
      <4> QED BY <2>1, <2>2, <3>1, <3>3, <4>1
    <3> QED BY <3>2, <3>3
  <2> QED BY <2>1, <2>3, <2>4, <2>5
<1> HIDE DEF all, l
<1>2. CASE \E n \in DOMAIN more :
             Touches(more[n], c) /\ more[n].to = v /\ \A m \in DOMAIN more : m > n => ~Touches(more[m], c)
  <2>1. PICK n \in DOMAIN more :
          Touches(more[n], c) /\ more[n].to = v /\ \A m \in DOMAIN more : m > n => ~Touches(more[m], c)
    BY <1>2
  <2>2. l + n \in DOMAIN all /\ Touches(all[l + n], c) /\ all[l + n].to = v
    BY <1>1, <2>1
  <2>3. ASSUME NEW m \in DOMAIN all, m > l + n PROVE ~Touches(all[m], c)
    <3>1. m \notin DOMAIN ops
      BY <1>1, <2>1, <2>3
    <3>2. m - l \in DOMAIN more /\ all[m] = more[m - l] /\ m \in Nat
      BY <1>1, <2>3, <3>1, Zenon
    <3>3. m - l > n
      BY <1>1, <2>1, <2>3, <3>2
    <3> QED BY <2>1, <3>2, <3>3
  <2> QED BY <2>2, <2>3 DEF Accounted, all
<1>3. CASE Accounted(ops, s, c, v) /\ \A n \in DOMAIN more : ~Touches(more[n], c)
  <2>1. CASE s[c] = v /\ \A n \in DOMAIN ops : ~Touches(ops[n], c)
    <3>1. \A n \in DOMAIN all : ~Touches(all[n], c)
      BY <1>1, <1>3, <2>1
    <3> QED BY <2>1, <3>1 DEF Accounted, all
  <2>2. CASE \E n \in DOMAIN ops : Touches(ops[n], c) /\ ops[n].to = v /\ \A m \in DOMAIN ops : m > n => ~Touches(ops[m], c)
    <3>1. PICK n \in DOMAIN ops : Touches(ops[n], c) /\ ops[n].to = v /\ \A m \in DOMAIN ops : m > n => ~Touches(ops[m], c)
      BY <2>2
    <3>2. n \in DOMAIN all /\ Touches(all[n], c) /\ all[n].to = v /\ \A m \in DOMAIN all : m > n => ~Touches(all[m], c)
      BY <1>1, <1>3, <3>1
    <3> QED BY <3>2 DEF Accounted, all
  <2> QED BY <1>3, <2>1, <2>2 DEF Accounted
<1> QED BY <1>2, <1>3

\* A change of a cell is queued if it was not.
LEMMA EnqueueForms ==
  ASSUME NEW x \in Items, NEW q \in Seq(Cells \cup {Clear}), QueueFormed(q, x), NEW c \in CellsOf[x]
  PROVE  LET p == Enqueue(q, c)
         IN  /\ p \in Seq(Cells \cup {Clear}) /\ QueueFormed(p, x) /\ p # <<>>
             /\ \E n \in DOMAIN p : p[n] = c
             /\ \A n \in DOMAIN q : n \in DOMAIN p /\ p[n] = q[n]
             /\ \A n \in DOMAIN p : p[n] = c \/ (n \in DOMAIN q /\ p[n] = q[n])
<1> DEFINE p == Enqueue(q, c)
<1>1. c \in Cells /\ c # Clear
  BY CellsAssumption DEF Cells
<1>2. CASE c \in ToSet(q)
  <2>1. p = q /\ \E n \in DOMAIN q : q[n] = c
    BY <1>2 DEF Enqueue, ToSet
  <2>2. q # <<>>
    BY <2>1
  <2> QED BY <2>1, <2>2
<1>3. CASE c \notin ToSet(q)
  <2> DEFINE l == Len(q) + 1
  <2>1. p = Append(q, c) /\ \A n \in DOMAIN q : q[n] # c
    BY <1>3 DEF Enqueue, ToSet
  <2>2. /\ p \in Seq(Cells \cup {Clear}) /\ l \in DOMAIN p /\ p[l] = c
        /\ \A n \in DOMAIN q : n \in DOMAIN p /\ p[n] = q[n]
        /\ \A n \in DOMAIN p : n = l \/ n \in DOMAIN q
    <3>1. c \in Cells \cup {Clear}
      BY <1>1
    <3> QED BY <2>1, <3>1, AppendFacts
  <2> HIDE DEF p, l
  <2>3. QueueFormed(p, x)
    <3>1. \A n \in DOMAIN p : p[n] \in CellsOf[x] \cup {Clear} /\ (p[n] = Clear => n = 1)
      BY <1>1, <2>2 DEF QueueFormed
    <3>2. \A n, m \in DOMAIN p : p[n] = p[m] => n = m
      BY <2>1, <2>2 DEF QueueFormed
    <3> QED BY <3>1, <3>2 DEF QueueFormed
  <2>4. p # <<>>
    BY <2>2
  <2> QED BY <2>2, <2>3, <2>4 DEF p
<1> QED BY <1>2, <1>3

\* What was there of another cell still is.
LEMMA EnqueueHas ==
  ASSUME NEW x \in Items, NEW q \in Seq(Cells \cup {Clear}), QueueFormed(q, x), NEW c \in CellsOf[x],
         NEW o, NEW s, NEW d, d # c, NEW v, Has(q, o, s, d, v)
  PROVE  Has(Enqueue(q, c), o, s, d, v)
<1> DEFINE p == Enqueue(q, c)
<1>1. /\ \A n \in DOMAIN q : n \in DOMAIN p /\ p[n] = q[n]
      /\ \A n \in DOMAIN p : p[n] = c \/ (n \in DOMAIN q /\ p[n] = q[n])
  BY EnqueueForms
<1> HIDE DEF p
<1>2. c # Clear
  BY CellsAssumption DEF Cells
<1>3. CASE \E n \in DOMAIN q : q[n] = d
  BY <1>1, <1>3 DEF Has, p
<1>4. CASE v = Absent /\ \E n \in DOMAIN q : q[n] = Clear
  BY <1>1, <1>4 DEF Has, p
<1>5. CASE (\A n \in DOMAIN q : q[n] \notin {d, Clear}) /\ Accounted(o, s, d, v)
  <2>1. \A n \in DOMAIN p : p[n] \notin {d, Clear}
    BY <1>1, <1>2, <1>5
  <2> QED BY <1>5, <2>1 DEF Has, p
<1> QED BY <1>3, <1>4, <1>5 DEF Has

\* The first of the queue is written.
LEMMA WriteForms ==
  ASSUME NEW x \in Items, NEW q \in Seq(Cells \cup {Clear}), QueueFormed(q, x), q # <<>>
  PROVE  Tail(q) \in Seq(Cells \cup {Clear}) /\ QueueFormed(Tail(q), x)
<1> DEFINE p == Tail(q)
<1>1. p \in Seq(Cells \cup {Clear}) /\ \A n \in DOMAIN p : n \in Nat /\ n + 1 \in DOMAIN q /\ p[n] = q[n + 1]
  BY TailFacts
<1>2. \A n \in DOMAIN p : n > 0
  BY <1>1
<1> HIDE DEF p
<1>3. ASSUME NEW n \in DOMAIN p PROVE p[n] \in CellsOf[x] \cup {Clear} /\ (p[n] = Clear => n = 1)
  <2>1. n + 1 # 1
    BY <1>1, <1>2
  <2> QED BY <1>1, <2>1 DEF QueueFormed
<1>4. ASSUME NEW n \in DOMAIN p, NEW m \in DOMAIN p, p[n] = p[m] PROVE n = m
  <2>1. n + 1 = m + 1
    BY <1>1, <1>4 DEF QueueFormed
  <2> QED BY <1>1, <2>1
<1> QED BY <1>1, <1>3, <1>4 DEF QueueFormed, p

\* The first operation of a queue is written: the cell is accounted for as it was.
LEMMA WriteHas ==
  ASSUME NEW x \in Items, NEW q \in Seq(Cells \cup {Clear}), QueueFormed(q, x), q # <<>>, NEW c \in CellsOf[x],
         NEW o \in Seq(OpRecord), NEW s, NEW v, NEW op \in OpRecord, op.cell = Head(q),
         op.cell = c => op.to = v, op.cell = Clear => op.to = Absent, Has(q, o, s, c, v)
  PROVE  Has(Tail(q), Append(o, op), s, c, v)
<1> DEFINE p == Tail(q)
<1>1. /\ Head(q) = q[1] /\ 1 \in DOMAIN q
      /\ \A n \in DOMAIN p : n \in Nat /\ n + 1 \in DOMAIN q /\ p[n] = q[n + 1] /\ n + 1 # 1
      /\ \A n \in DOMAIN q : n = 1 \/ (n - 1 \in DOMAIN p /\ p[n - 1] = q[n])
  BY TailFacts
<1> HIDE DEF p
<1>2. CASE \E n \in DOMAIN p : p[n] = c
  BY <1>2 DEF Has, p
<1>3. CASE \A n \in DOMAIN p : p[n] # c
  <2>1. \A n \in DOMAIN p : p[n] # Clear
    BY <1>1 DEF QueueFormed
  <2>2. IF Touches(op, c) THEN op.to = v ELSE Accounted(o, s, c, v)
    <3>1. CASE \E n \in DOMAIN q : q[n] = c
      <4>1. op.cell = c
        BY <1>1, <1>3, <3>1
      <4> QED BY <4>1 DEF Touches
    <3>2. CASE v = Absent /\ \E n \in DOMAIN q : q[n] = Clear
      <4>1. op.cell = Clear
        BY <1>1, <3>2 DEF QueueFormed
      <4> QED BY <3>2, <4>1 DEF Touches
    <3>3. CASE (\A n \in DOMAIN q : q[n] \notin {c, Clear}) /\ Accounted(o, s, c, v)
      BY <1>1, <3>3 DEF Touches
    <3> QED BY <3>1, <3>2, <3>3 DEF Has
  <2>3. Accounted(Append(o, op), s, c, v)
    BY <2>2, SaysAppend
  <2> QED BY <1>3, <2>1, <2>3 DEF Has, p
<1> QED BY <1>2, <1>3

\* What an item has is what the operations on their way make of the saved state.
LEMMA HasAccounted ==
  ASSUME NEW x \in Items, NEW q \in Seq(Cells \cup {Clear}), QueueFormed(q, x), NEW c \in CellsOf[x],
         NEW o \in Seq(OpRecord), NEW s, NEW v, Has(q, o, s, c, v),
         NEW ops \in Seq(OpRecord), DOMAIN ops = DOMAIN q,
         \A n \in DOMAIN q : /\ ops[n].cell = q[n] /\ (q[n] = c => ops[n].to = v)
                             /\ q[n] = Clear => ops[n].to = Absent
  PROVE  Accounted(o \o ops, s, c, v)
<1>1. \A n \in DOMAIN q : n \in Nat /\ n >= 1
  OBVIOUS
<1>2. CASE \E n \in DOMAIN q : q[n] = c
  <2>1. PICK n \in DOMAIN q : q[n] = c
    BY <1>2
  <2>2. \A m \in DOMAIN ops : m > n => ~Touches(ops[m], c)
    BY <1>1, <2>1 DEF Touches, QueueFormed
  <2>3. Touches(ops[n], c) /\ ops[n].to = v
    BY <2>1 DEF Touches
  <2> QED BY <2>2, <2>3, SaysConcat
<1>3. CASE (v = Absent /\ \E n \in DOMAIN q : q[n] = Clear) /\ ~\E n \in DOMAIN q : q[n] = c
  <2>1. PICK n \in DOMAIN q : q[n] = Clear
    BY <1>3
  <2>2. \A m \in DOMAIN ops : m > n => ~Touches(ops[m], c)
    BY <1>1, <1>3, <2>1 DEF Touches, QueueFormed
  <2>3. Touches(ops[n], c) /\ ops[n].to = v
    BY <1>3, <2>1 DEF Touches
  <2> QED BY <2>2, <2>3, SaysConcat
<1>4. CASE (\A n \in DOMAIN q : q[n] \notin {c, Clear}) /\ Accounted(o, s, c, v)
  <2>1. \A n \in DOMAIN ops : ~Touches(ops[n], c)
    BY <1>4 DEF Touches
  <2> QED BY <1>4, <2>1, SaysConcat
<1> QED BY <1>2, <1>3, <1>4 DEF Has

\* Everything of the other instances is as it was.
OthersSame(i) ==
  \A j \in Starts : j # i =>
    /\ inst'[j] = inst[j] /\ held'[j] = held[j] /\ item'[j] = item[j] /\ memory'[j] = memory[j]
    /\ started'[j] = started[j] /\ queue'[j] = queue[j] /\ dirty'[j] = dirty[j] /\ out'[j] = out[j]

\* A live instance goes on, and neither what is saved nor what was told changes.
LEMMA InstStep ==
  ASSUME StoreIInv, NEW i \in Starts, inst[i] \in Live, inst'[i] \in Live, UNCHANGED <<plane, held, told>>,
         StoreTypeOK', AgentTypeOK', OthersSame(i), InstOK(i)'
  PROVE  StoreIInv'
<1>1. \A j \in Starts : inst'[j] \in Live <=> inst[j] \in Live
  BY DEF OthersSame
<1>2. Whereabouts'
  <2>1. \A j \in Starts : held'[j] # NoState <=> inst'[j] \in Live
    BY <1>1 DEF StoreIInv, Whereabouts
  <2>2. \A j, k \in Starts : inst'[j] \in Live /\ inst'[k] \in Live => j = k
    BY <1>1 DEF StoreIInv, Whereabouts
  <2>3. entry'.at = "inUse" <=> \E j \in Starts : inst'[j] \in Live
    BY <1>1 DEF StoreIInv, Whereabouts, plane
  <2>4. entry'.at # "absent"
    BY <1>1 DEF StoreIInv, Whereabouts, plane
  <2>5. entry'.at = "idle" => entry'.state \in Contents
    BY DEF StoreIInv, Whereabouts, plane
  <2>6. channel' # 0 => inst'[channel'] # "none"
    <3>1. channel' # 0 => channel' \in Starts /\ inst[channel'] # "none"
      BY DEF StoreIInv, Whereabouts, plane, StoreTypeOK, Starts
    <3> QED BY <3>1 DEF OthersSame, Live
  <2> QED BY <2>1, <2>2, <2>3, <2>4, <2>5, <2>6 DEF Whereabouts
<1>3. ToldIsSaved'
  BY <1>1 DEF StoreIInv, ToldIsSaved, Stored, plane
<1>4. \A j \in Starts : j # i => InstOK(j)'
  BY InstSame DEF StoreIInv, OthersSame
<1> QED BY <1>2, <1>3, <1>4 DEF StoreIInv

\* No two items share a cell.
LEMMA ItemsApart ==
  ASSUME NEW x \in Items, NEW y \in Items, x # y, NEW c \in CellsOf[y]
  PROVE  c \notin CellsOf[x] /\ c \in Cells
BY ItemsAssumption DEF Cells

\* When the last frame is read the item has got what is saved of it.
LEMMA GotAll ==
  ASSUME NEW x \in Items, NEW s \in Contents, NEW t \in ItemRecord, Restores(t, x, s), t.at # "none",
         t.frames # <<>>, Head(t.frames) = InitComplete
  PROVE  t.at = "sent" /\ t.todo = <<>> /\ \A c \in CellsOf[x] : t.got[c] = s[c]
<1>1. t.frames \in Seq(FrameRecord)
  BY DEF ItemRecord
<1>2. 1 \in DOMAIN t.frames /\ t.frames[1] = InitComplete /\ Len(t.frames) \in Nat
  BY <1>1, TailFacts
<1>3. t.at = "sent" /\ 1 = Len(t.frames)
  <2>1. t.frames[1].to = Absent
    BY <1>2 DEF InitComplete
  <2> QED BY <1>2, <2>1 DEF Restores
<1>4. t.todo = <<>>
  BY <1>3 DEF Restores
<1>5. \A n \in DOMAIN t.frames : n = 1
  BY <1>1, <1>3
<1>6. ASSUME NEW c \in CellsOf[x] PROVE t.got[c] = s[c]
  <2>1. c # "none"
    BY CellsAssumption DEF Cells
  <2>2. \A n \in DOMAIN t.frames : t.frames[n].cell # c
    BY <1>2, <1>5, <2>1 DEF InitComplete
  <2> QED BY <1>3, <1>4, <2>2 DEF Restores
<1> QED BY <1>3, <1>4, <1>6

\* The item has read everything.
LEMMA ReadCompleteOK ==
  ASSUME StoreIInv, NEW i \in Starts, NEW x \in Items, ReadComplete(i, x)
  PROVE  StoreIInv'
<1> DEFINE t == item[i][x]
           s == held[i]
           u == [t EXCEPT !.frames = <<>>, !.got = Nothing, !.acked = TRUE]
           m == [c \in Cells |-> IF c \in CellsOf[x] THEN t.got[c] ELSE memory[i][c]]
<1>1. inst[i] = "init" /\ AllAdded(i) /\ t.frames # <<>> /\ Head(t.frames) = InitComplete /\ ToItem(i, x, u)
  BY DEF ReadComplete
<1>2. t \in ItemRecord /\ s \in Contents
  BY <1>1, ItemFacts
<1>3. x \in Persistent /\ ~t.acked /\ Restores(t, x, s) /\ t.at \in {"sending", "sent"}
  BY <1>1, ReadingItem
<1>4. t.at = "sent" /\ t.todo = <<>> /\ \A c \in CellsOf[x] : t.got[c] = s[c]
  BY <1>1, <1>2, <1>3, GotAll
<1>5. u \in ItemRecord
  BY <1>2, NotAddedOK DEF ItemRecord, NotAdded
<1>6. m \in Contents
  BY <1>2 DEF ItemRecord, Contents, StoreIInv, StoreTypeOK
<1>7. u.at = "sent" /\ u.acked = TRUE /\ u.frames = <<>> /\ u.todo = <<>>
  BY <1>2, <1>4 DEF ItemRecord
<1> HIDE DEF u, m
<1>8. /\ item' \in [Starts -> [Items -> ItemRecord]] /\ item'[i][x] = u
      /\ \A y \in Items : y # x => item'[i][y] = item[i][y]
      /\ \A j \in Starts : j # i => item'[j] = item[j]
  BY <1>1, <1>5 DEF ToItem, StoreIInv, AgentTypeOK
<1>9. memory' \in [Starts -> Contents] /\ memory'[i] = m /\ \A j \in Starts : j # i => memory'[j] = memory[j]
  <2>1. memory' = [memory EXCEPT ![i] = m]
    BY DEF ReadComplete, m
  <2> QED BY <1>6, <2>1 DEF StoreIInv, StoreTypeOK
<1>10. UNCHANGED <<overlap, plane, inst, held, started, queue, dirty, out, told, made>>
  BY DEF ReadComplete
<1>11. ~started[i] /\ out[i][x] = <<>> /\ queue[i][x] = <<>>
  BY <1>1, <1>3 DEF StoreIInv, InstOK, Initialising
<1>12. StoreTypeOK' /\ AgentTypeOK' /\ OthersSame(i)
  BY <1>8, <1>9, <1>10 DEF StoreIInv, StoreTypeOK, AgentTypeOK, OthersSame, plane
<1>13. NotLive(i)' /\ Formed(i)'
  BY <1>1, <1>10 DEF StoreIInv, InstOK, NotLive, Formed, Live
<1>14. ItemOK(u, x, s)
  BY <1>3, <1>7 DEF ItemOK, Persistent
<1>15. Initialising(i)'
  <2>1. \A y \in Items : ItemOK(item'[i][y], y, held'[i])
    BY <1>1, <1>8, <1>10, <1>14 DEF StoreIInv, InstOK, Initialising
  <2> QED BY <1>1, <1>10, <1>11, <2>1 DEF StoreIInv, InstOK, Initialising
<1>16. AllThere(i)'
  <2>1. SUFFICES ASSUME NEW y \in Persistent, item'[i][y].acked, NEW c \in CellsOf[y]
                 PROVE  Has(queue[i][y], out[i][y], s, c, m[c])
    BY <1>1, <1>9, <1>10 DEF AllThere
  <2>2. CASE y = x
    <3>1. m[c] = s[c]
      BY <1>4, <2>2 DEF m, Cells, Persistent
    <3> QED BY <1>11, <2>2, <3>1 DEF Has, Accounted
  <2>3. CASE y # x
    <3>1. m[c] = memory[i][c]
      BY <2>3, ItemsApart DEF m, Persistent
    <3> QED BY <1>1, <1>8, <2>1, <2>3, <3>1 DEF StoreIInv, InstOK, AllThere, Persistent
  <2> QED BY <2>2, <2>3
<1> QED BY <1>1, <1>10, <1>12, <1>13, <1>15, <1>16, InstStep DEF InstOK, Live

\* A cell of an item is assigned.
LEMMA AssignOK ==
  ASSUME StoreIInv, NEW i \in Starts, NEW x \in Items, NEW c \in CellsOf[x], NEW to \in 0..MaxWrites,
         Assign(i, x, c, to), inst[i] \in {"init", "running"}, UNCHANGED <<inst, held, item, out>>,
         \A y \in Items : y \in dirty'[i] => y \in dirty[i] \/ y = x
  PROVE  /\ memory' \in [Starts -> Contents] /\ queue' \in [Starts -> [Items -> Seq(Cells \cup {Clear})]]
         /\ made' \in 0..MaxWrites
         /\ \A j \in Starts : j # i => memory'[j] = memory[j] /\ queue'[j] = queue[j]
         /\ Formed(i)' /\ AllThere(i)'
<1> DEFINE p == Enqueue(queue[i][x], c)
<1>1. queue[i][x] \in Seq(Cells \cup {Clear}) /\ QueueFormed(queue[i][x], x)
  BY DEF StoreIInv, AgentTypeOK, InstOK, Formed
<1>2. p \in Seq(Cells \cup {Clear}) /\ QueueFormed(p, x) /\ p # <<>> /\ \E n \in DOMAIN p : p[n] = c
  BY <1>1, EnqueueForms
<1> HIDE DEF p
<1>3. /\ queue' \in [Starts -> [Items -> Seq(Cells \cup {Clear})]] /\ queue'[i][x] = p
      /\ \A y \in Items : y # x => queue'[i][y] = queue[i][y]
      /\ \A j \in Starts : j # i => queue'[j] = queue[j]
  <2>1. queue' = [queue EXCEPT ![i][x] = p]
    BY DEF Assign, p
  <2> QED BY <1>2, <2>1 DEF StoreIInv, AgentTypeOK
<1>4. /\ memory' \in [Starts -> Contents]
      /\ \A d \in Cells : d # c => memory'[i][d] = memory[i][d]
      /\ \A j \in Starts : j # i => memory'[j] = memory[j]
  BY DEF Assign, StoreIInv, StoreTypeOK, Contents
<1>5. made' \in 0..MaxWrites
  BY ItemsAssumption DEF Assign, StoreIInv, StoreTypeOK
<1>6. Formed(i)'
  BY <1>2, <1>3 DEF StoreIInv, InstOK, Formed
<1>7. AllThere(i)'
  <2>1. SUFFICES ASSUME NEW y \in Persistent, inst[i] = "running" \/ (inst[i] = "init" /\ item[i][y].acked),
                        NEW d \in CellsOf[y]
                 PROVE  Has(queue'[i][y], out[i][y], held[i], d, memory'[i][d])
    BY DEF AllThere
  <2>2. Has(queue[i][y], out[i][y], held[i], d, memory[i][d]) /\ y \in Items /\ d \in Cells
    BY <2>1 DEF StoreIInv, InstOK, AllThere, Persistent, Cells
  <2>3. CASE y = x /\ d = c
    BY <1>2, <1>3, <2>3 DEF Has
  <2>4. CASE y = x /\ d # c
    <3>1. Has(p, out[i][x], held[i], d, memory[i][d])
      BY <1>1, <2>2, <2>4, EnqueueHas DEF p
    <3> QED BY <1>3, <1>4, <2>2, <2>4, <3>1
  <2>5. CASE y # x
    <3>1. d # c
      BY <2>2, <2>5, ItemsApart
    <3> QED BY <1>3, <1>4, <2>2, <2>5, <3>1
  <2> QED BY <2>3, <2>4, <2>5
<1> QED BY <1>3, <1>4, <1>5, <1>6, <1>7

\* The agent starts and may change its items.
LEMMA OnStartOK ==
  ASSUME StoreIInv, NEW i \in Starts, OnStart(i)
  PROVE  StoreIInv'
<1>1. inst[i] = "init" /\ AllRead(i) /\ ~started[i] /\ started' = [started EXCEPT ![i] = TRUE]
  BY DEF OnStart
<1>2. UNCHANGED <<overlap, plane, inst, held, item, dirty, out, told>>
  BY DEF OnStart
<1>3. /\ memory' \in [Starts -> Contents] /\ queue' \in [Starts -> [Items -> Seq(Cells \cup {Clear})]]
      /\ made' \in 0..MaxWrites
      /\ \A j \in Starts : j # i => memory'[j] = memory[j] /\ queue'[j] = queue[j]
      /\ Formed(i)' /\ AllThere(i)'
  <2>1. CASE UNCHANGED <<memory, queue, made>>
    <3>1. Formed(i)' /\ AllThere(i)'
      BY <1>2, <2>1 DEF StoreIInv, InstOK, Formed, AllThere
    <3> QED BY <2>1, <3>1 DEF StoreIInv, StoreTypeOK, AgentTypeOK
  <2>2. CASE \E x \in Items : \E c \in CellsOf[x] : Assign(i, x, c, made + 1)
    <3>1. PICK x \in Items : \E c \in CellsOf[x] : Assign(i, x, c, made + 1)
      BY <2>2
    <3>2. PICK c \in CellsOf[x] : Assign(i, x, c, made + 1)
      BY <3>1
    <3>3. made + 1 \in 0..MaxWrites
      BY <3>2, ItemsAssumption DEF Assign, StoreIInv, StoreTypeOK
    <3> QED BY <1>1, <1>2, <3>2, <3>3, AssignOK
  <2> QED BY <2>1, <2>2 DEF OnStart
<1>4. started' \in [Starts -> BOOLEAN] /\ started'[i] = TRUE /\ \A j \in Starts : j # i => started'[j] = started[j]
  BY <1>1 DEF StoreIInv, AgentTypeOK
<1>5. StoreTypeOK' /\ AgentTypeOK' /\ OthersSame(i)
  BY <1>2, <1>3, <1>4 DEF StoreIInv, StoreTypeOK, AgentTypeOK, OthersSame, plane
<1>6. NotLive(i)'
  BY <1>1, <1>2 DEF NotLive, Live
<1>7. Initialising(i)'
  BY <1>1, <1>2, <1>4 DEF StoreIInv, InstOK, Initialising, AllRead
<1> QED BY <1>1, <1>2, <1>3, <1>5, <1>6, <1>7, InstStep DEF InstOK, Live

\* The write task begins.
LEMMA BeginOK ==
  ASSUME StoreIInv, NEW i \in Starts, Begin(i)
  PROVE  StoreIInv'
<1>1. /\ inst[i] = "init" /\ inst' = [inst EXCEPT ![i] = "running"] /\ AllReady(i)
      /\ item' = [item EXCEPT ![i] = [x \in Items |-> NotAdded]]
      /\ UNCHANGED <<overlap, plane, held, memory, started, queue, dirty, out, told, made>>
  BY DEF Begin
<1>2. /\ inst'[i] = "running" /\ \A j \in Starts : j # i => inst'[j] = inst[j]
      /\ inst' \in [Starts -> {"none", "waiting", "init", "running", "ending", "gone"}]
  BY <1>1 DEF StoreIInv, StoreTypeOK
<1>3. item' \in [Starts -> [Items -> ItemRecord]] /\ \A j \in Starts : j # i => item'[j] = item[j]
  BY <1>1, NotAddedOK DEF StoreIInv, AgentTypeOK
<1>4. StoreTypeOK' /\ AgentTypeOK' /\ OthersSame(i)
  BY <1>1, <1>2, <1>3 DEF StoreIInv, StoreTypeOK, AgentTypeOK, OthersSame, plane
<1>5. \A x \in Items : item[i][x].acked
  BY <1>1, ItemFacts DEF AllReady, ItemOK
<1>6. AllThere(i)'
  BY <1>1, <1>5 DEF StoreIInv, InstOK, AllThere, Persistent
<1>7. NotLive(i)' /\ Formed(i)' /\ Initialising(i)'
  BY <1>1, <1>2 DEF StoreIInv, InstOK, NotLive, Formed, Initialising, Live
<1> QED BY <1>1, <1>2, <1>4, <1>6, <1>7, InstStep DEF InstOK, Live

\* A live instance ends.
LEMMA EndingOK ==
  ASSUME StoreIInv, NEW i \in Starts, inst[i] \in Live, inst' = [inst EXCEPT ![i] = "ending"],
         UNCHANGED <<overlap, plane, held, agentVars, told, made>>
  PROVE  StoreIInv'
<1>1. /\ inst'[i] = "ending" /\ \A j \in Starts : j # i => inst'[j] = inst[j]
      /\ inst' \in [Starts -> {"none", "waiting", "init", "running", "ending", "gone"}]
  BY DEF StoreIInv, StoreTypeOK
<1>2. StoreTypeOK' /\ AgentTypeOK' /\ OthersSame(i)
  BY <1>1 DEF StoreIInv, StoreTypeOK, AgentTypeOK, OthersSame, plane, agentVars
<1>3. NotLive(i)' /\ Formed(i)' /\ Initialising(i)' /\ AllThere(i)'
  BY <1>1 DEF StoreIInv, InstOK, NotLive, Formed, Initialising, AllThere, Live, agentVars
<1> QED BY <1>1, <1>2, <1>3, InstStep DEF InstOK, Live

\* A queue that has nothing but a clear is well formed.
LEMMA ClearQueue ==
  ASSUME NEW x \in Items
  PROVE  <<Clear>> \in Seq(Cells \cup {Clear}) /\ QueueFormed(<<Clear>>, x) /\ <<Clear>>[1] = Clear
         /\ 1 \in DOMAIN <<Clear>> /\ <<Clear>> # <<>>
BY DEF QueueFormed

\* A handler changes an item.
LEMMA ChangeOK ==
  ASSUME StoreIInv, NEW i \in Starts, NEW x \in Items, Change(i, x)
  PROVE  StoreIInv'
<1> DEFINE Changed ==
             /\ memory' \in [Starts -> Contents] /\ queue' \in [Starts -> [Items -> Seq(Cells \cup {Clear})]]
             /\ made' \in 0..MaxWrites
             /\ \A j \in Starts : j # i => memory'[j] = memory[j] /\ queue'[j] = queue[j]
             /\ Formed(i)' /\ AllThere(i)'
<1>1. inst[i] = "running" /\ dirty' = [dirty EXCEPT ![i] = @ \cup {x}]
  BY DEF Change
<1>2. UNCHANGED <<overlap, plane, inst, held, item, started, out, told>>
  BY DEF Change
<1>3. /\ dirty' \in [Starts -> SUBSET Items] /\ \A j \in Starts : j # i => dirty'[j] = dirty[j]
      /\ \A y \in Items : y \in dirty'[i] => y \in dirty[i] \/ y = x
  BY <1>1 DEF StoreIInv, AgentTypeOK
<1>4. Changed
  <2>1. ASSUME NEW c \in CellsOf[x], NEW to, to \in {made + 1, Absent}, Assign(i, x, c, to) PROVE Changed
    <3>1. to \in 0..MaxWrites
      BY <2>1, ItemsAssumption DEF Assign, StoreIInv, StoreTypeOK, Absent
    <3> QED BY <1>1, <1>2, <1>3, <2>1, <3>1, AssignOK
  <2>2. CASE /\ made < MaxWrites
             /\ made' = made + 1
             /\ memory' = [memory EXCEPT ![i] = [c \in Cells |-> IF c \in CellsOf[x] THEN Absent ELSE @[c]]]
             /\ queue' = [queue EXCEPT ![i][x] = <<Clear>>]
    <3> DEFINE m == [c \in Cells |-> IF c \in CellsOf[x] THEN Absent ELSE memory[i][c]]
    <3>1. m \in Contents
      BY ItemsAssumption DEF StoreIInv, StoreTypeOK, Contents, Absent
    <3> HIDE DEF m
    <3>2. memory' = [memory EXCEPT ![i] = m]
      BY <2>2 DEF m
    <3>3. memory' \in [Starts -> Contents] /\ memory'[i] = m /\ \A j \in Starts : j # i => memory'[j] = memory[j]
      BY <3>1, <3>2 DEF StoreIInv, StoreTypeOK
    <3>4. /\ queue' \in [Starts -> [Items -> Seq(Cells \cup {Clear})]] /\ queue'[i][x] = <<Clear>>
          /\ \A y \in Items : y # x => queue'[i][y] = queue[i][y]
          /\ \A j \in Starts : j # i => queue'[j] = queue[j]
      <4> DEFINE p == <<Clear>>
      <4>1. p \in Seq(Cells \cup {Clear})
        BY ClearQueue
      <4>2. queue' = [queue EXCEPT ![i][x] = p]
        BY <2>2
      <4> HIDE DEF p
      <4>3. /\ queue' \in [Starts -> [Items -> Seq(Cells \cup {Clear})]] /\ queue'[i][x] = p
            /\ \A y \in Items : y # x => queue'[i][y] = queue[i][y]
            /\ \A j \in Starts : j # i => queue'[j] = queue[j]
        BY <4>1, <4>2 DEF StoreIInv, AgentTypeOK
      <4> QED BY <4>3 DEF p
    <3>5. made' \in 0..MaxWrites
      BY <2>2, ItemsAssumption DEF StoreIInv, StoreTypeOK
    <3>6. Formed(i)'
      <4> SUFFICES ASSUME NEW y \in Items
                   PROVE  /\ QueueFormed(queue'[i][y], y) /\ OutFormed(out'[i][y], y)
                          /\ y \in dirty'[i] => queue'[i][y] # <<>>
        BY DEF Formed
      <4>1. CASE y = x
        BY <1>2, <3>4, <4>1, ClearQueue DEF StoreIInv, InstOK, Formed
      <4>2. CASE y # x
        BY <1>2, <1>3, <3>4, <4>2 DEF StoreIInv, InstOK, Formed
      <4> QED BY <4>1, <4>2
    <3>7. AllThere(i)'
      <4> SUFFICES ASSUME NEW y \in Persistent, NEW c \in CellsOf[y]
                   PROVE  Has(queue'[i][y], out[i][y], held[i], c, m[c])
        BY <1>1, <1>2, <3>3 DEF AllThere
      <4>1. y \in Items /\ c \in Cells
        BY DEF Persistent, Cells
      <4>2. CASE y = x
        <5>1. m[c] = Absent
          BY <4>1, <4>2 DEF m
        <5> QED BY <3>4, <4>2, <5>1, ClearQueue DEF Has
      <4>3. CASE y # x
        <5>1. m[c] = memory[i][c]
          BY <4>1, <4>3, ItemsApart DEF m
        <5> QED BY <1>1, <3>4, <4>1, <4>3, <5>1 DEF StoreIInv, InstOK, AllThere
      <4> QED BY <4>2, <4>3
    <3> QED BY <3>3, <3>4, <3>5, <3>6, <3>7
  <2> QED BY <2>1, <2>2 DEF Change
<1>5. StoreTypeOK' /\ AgentTypeOK' /\ OthersSame(i)
  BY <1>2, <1>3, <1>4 DEF StoreIInv, StoreTypeOK, AgentTypeOK, OthersSame, plane
<1>6. NotLive(i)' /\ Initialising(i)'
  BY <1>1, <1>2 DEF NotLive, Initialising, Live
<1> QED BY <1>1, <1>2, <1>4, <1>5, <1>6, InstStep DEF InstOK, Live

\* An operation says what the item has.
LEMMA OperationFacts ==
  ASSUME StoreIInv, NEW i \in Starts, NEW x \in Items, NEW op \in Cells \cup {Clear}
  PROVE  /\ Operation(i, op) \in OpRecord /\ Operation(i, op).cell = op
         /\ op = Clear => Operation(i, op).to = Absent
         /\ op # Clear => Operation(i, op).to = memory[i][op]
<1>1. op # Clear => memory[i][op] \in 0..MaxWrites
  BY DEF StoreIInv, StoreTypeOK, Contents
<1>2. Absent \in 0..MaxWrites
  BY ItemsAssumption DEF Absent
<1> QED BY <1>1, <1>2 DEF Operation, OpRecord

\* An operation is written to the channel.
LEMMA WriteOutOK ==
  ASSUME StoreIInv, NEW i \in Starts, NEW x \in Items, WriteOut(i, x)
  PROVE  StoreIInv'
<1> DEFINE q == queue[i][x]
           op == Operation(i, Head(q))
           o == Append(out[i][x], op)
<1>1. inst[i] = "running" /\ x \in dirty[i]
  BY DEF WriteOut
<1>2. UNCHANGED <<overlap, plane, inst, held, item, memory, started, told, made>>
  BY DEF WriteOut
<1>3. q \in Seq(Cells \cup {Clear}) /\ QueueFormed(q, x) /\ q # <<>>
  BY <1>1 DEF StoreIInv, AgentTypeOK, InstOK, Formed
<1>4. Head(q) \in Cells \cup {Clear} /\ Head(q) \in CellsOf[x] \cup {Clear} /\ Len(q) \in Nat
  BY <1>3, TailFacts DEF QueueFormed
<1>5. /\ op \in OpRecord /\ op.cell = Head(q) /\ (op.cell = Clear => op.to = Absent)
      /\ op.cell # Clear => op.to = memory[i][op.cell]
  BY <1>4, OperationFacts
<1>6. out[i][x] \in Seq(OpRecord) /\ OutFormed(out[i][x], x)
  BY DEF StoreIInv, AgentTypeOK, InstOK, Formed
<1> HIDE DEF op
<1>7. o \in Seq(OpRecord) /\ OutFormed(o, x)
  <2>1. \A n \in DOMAIN o : o[n] = op \/ (n \in DOMAIN out[i][x] /\ o[n] = out[i][x][n])
    BY <1>5, <1>6, AppendFacts
  <2>2. o \in Seq(OpRecord)
    BY <1>5, <1>6, AppendFacts
  <2> HIDE DEF o
  <2> QED BY <1>4, <1>5, <1>6, <2>1, <2>2 DEF OutFormed
<1>8. Tail(q) \in Seq(Cells \cup {Clear}) /\ QueueFormed(Tail(q), x)
  BY <1>3, WriteForms
<1> HIDE DEF o
<1>9. /\ out' \in [Starts -> [Items -> Seq(OpRecord)]] /\ out'[i][x] = o
      /\ \A y \in Items : y # x => out'[i][y] = out[i][y]
      /\ \A j \in Starts : j # i => out'[j] = out[j]
  <2>1. out' = [out EXCEPT ![i][x] = o]
    BY DEF WriteOut, o, op
  <2> QED BY <1>7, <2>1 DEF StoreIInv, AgentTypeOK
<1>10. /\ queue' \in [Starts -> [Items -> Seq(Cells \cup {Clear})]] /\ queue'[i][x] = Tail(q)
       /\ \A y \in Items : y # x => queue'[i][y] = queue[i][y]
       /\ \A j \in Starts : j # i => queue'[j] = queue[j]
  <2> DEFINE p == Tail(q)
  <2>1. queue' = [queue EXCEPT ![i][x] = p]
    BY DEF WriteOut
  <2>2. p \in Seq(Cells \cup {Clear})
    BY <1>8
  <2> HIDE DEF p
  <2>3. /\ queue' \in [Starts -> [Items -> Seq(Cells \cup {Clear})]] /\ queue'[i][x] = p
        /\ \A y \in Items : y # x => queue'[i][y] = queue[i][y]
        /\ \A j \in Starts : j # i => queue'[j] = queue[j]
    BY <2>1, <2>2 DEF StoreIInv, AgentTypeOK
  <2> QED BY <2>3 DEF p
<1>11. /\ dirty' \in [Starts -> SUBSET Items] /\ \A j \in Starts : j # i => dirty'[j] = dirty[j]
       /\ \A y \in Items : y \in dirty'[i] => y \in dirty[i]
       /\ x \in dirty'[i] => MoreToWrite(i, x)
  BY DEF WriteOut, StoreIInv, AgentTypeOK
<1>12. x \in dirty'[i] => Tail(q) # <<>>
  BY <1>3, <1>11, TailFacts DEF MoreToWrite
<1>13. StoreTypeOK' /\ AgentTypeOK' /\ OthersSame(i)
  BY <1>2, <1>9, <1>10, <1>11 DEF StoreIInv, StoreTypeOK, AgentTypeOK, OthersSame, plane
<1>14. Formed(i)'
  BY <1>7, <1>8, <1>9, <1>10, <1>11, <1>12 DEF StoreIInv, InstOK, Formed
<1>15. AllThere(i)'
  <2> SUFFICES ASSUME NEW y \in Persistent, NEW c \in CellsOf[y]
               PROVE  Has(queue'[i][y], out'[i][y], held[i], c, memory[i][c])
    BY <1>1, <1>2 DEF AllThere
  <2>1. Has(queue[i][y], out[i][y], held[i], c, memory[i][c]) /\ y \in Items /\ c \in Cells
    BY <1>1 DEF StoreIInv, InstOK, AllThere, Persistent, Cells
  <2>2. CASE y = x
    <3>1. op.cell = c => op.to = memory[i][c]
      BY <1>5, <2>1, CellsAssumption
    <3> QED BY <1>3, <1>5, <1>6, <1>9, <1>10, <2>1, <2>2, <3>1, WriteHas DEF o
  <2>3. CASE y # x
    BY <1>9, <1>10, <2>1, <2>3
  <2> QED BY <2>2, <2>3
<1>16. NotLive(i)' /\ Initialising(i)'
  BY <1>1, <1>2 DEF NotLive, Initialising, Live
<1> QED BY <1>1, <1>2, <1>13, <1>14, <1>15, <1>16, InstStep DEF InstOK, Live

\* What an operation does to the store.
LEMMA AppliedFacts ==
  ASSUME NEW x \in Items, NEW op \in OpRecord, op.cell \in CellsOf[x] \cup {Clear}, NEW s \in Contents
  PROVE  /\ Applied(s, x, op) \in Contents
         /\ \A c \in CellsOf[x] : Applied(s, x, op)[c] = IF Touches(op, c) THEN op.to ELSE s[c]
         /\ \A y \in Items : \A c \in CellsOf[y] : y # x => Applied(s, x, op)[c] = s[c]
<1>1. Applied(s, x, op) \in Contents
  BY DEF Applied, Contents, OpRecord
<1>2. ASSUME NEW c \in CellsOf[x] PROVE Applied(s, x, op)[c] = IF Touches(op, c) THEN op.to ELSE s[c]
  BY DEF Applied, Cells, Touches
<1>3. ASSUME NEW y \in Items, NEW c \in CellsOf[y], y # x PROVE Applied(s, x, op)[c] = s[c]
  <2>1. c \notin CellsOf[x] /\ c \in Cells
    BY <1>3, ItemsApart
  <2>2. c # op.cell
    BY <2>1, CellsAssumption
  <2> QED BY <2>1, <2>2 DEF Applied
<1> QED BY <1>1, <1>2, <1>3

\* The write task takes an operation, saves it, and then tells the remotes.
LEMMA HandleEventOK ==
  ASSUME StoreIInv, NEW i \in Starts, NEW x \in Items, HandleEvent(i, x)
  PROVE  StoreIInv'
<1> DEFINE op == Head(out[i][x])
<1>1. inst[i] = "running" /\ out[i][x] # <<>>
  BY DEF HandleEvent
<1>2. UNCHANGED <<overlap, plane, inst, item, memory, started, queue, dirty, made>>
  BY DEF HandleEvent
<1>3. out[i][x] \in Seq(OpRecord) /\ OutFormed(out[i][x], x) /\ held[i] \in Contents /\ told \in Contents
  BY <1>1 DEF StoreIInv, AgentTypeOK, InstOK, Formed, StoreTypeOK, Whereabouts, Live
<1>4. op \in OpRecord /\ op.cell \in CellsOf[x] \cup {Clear} /\ Tail(out[i][x]) \in Seq(OpRecord)
  BY <1>1, <1>3, TailFacts DEF OutFormed
<1>5. OutFormed(Tail(out[i][x]), x)
  <2> DEFINE p == Tail(out[i][x])
  <2>1. \A n \in DOMAIN p : n + 1 \in DOMAIN out[i][x] /\ p[n] = out[i][x][n + 1]
    BY <1>1, <1>3, TailFacts
  <2> HIDE DEF p
  <2>2. OutFormed(p, x)
    BY <1>3, <2>1 DEF OutFormed
  <2> QED BY <2>2 DEF p
<1> HIDE DEF op
<1>6. /\ out' \in [Starts -> [Items -> Seq(OpRecord)]] /\ out'[i][x] = Tail(out[i][x])
      /\ \A y \in Items : y # x => out'[i][y] = out[i][y]
      /\ \A j \in Starts : j # i => out'[j] = out[j]
  <2> DEFINE p == Tail(out[i][x])
  <2>1. out' = [out EXCEPT ![i][x] = p]
    BY DEF HandleEvent
  <2>2. p \in Seq(OpRecord)
    BY <1>4
  <2> HIDE DEF p
  <2>3. /\ out' \in [Starts -> [Items -> Seq(OpRecord)]] /\ out'[i][x] = p
        /\ \A y \in Items : y # x => out'[i][y] = out[i][y]
        /\ \A j \in Starts : j # i => out'[j] = out[j]
    BY <2>1, <2>2 DEF StoreIInv, AgentTypeOK
  <2> QED BY <2>3 DEF p
<1>7. Applied(held[i], x, op) \in Contents /\ Applied(told, x, op) \in Contents
  BY <1>3, <1>4, AppliedFacts
<1>8. /\ held' \in [Starts -> Contents \cup {NoState}] /\ held'[i] \in Contents
      /\ held'[i] = IF x \in Persistent THEN Applied(held[i], x, op) ELSE held[i]
      /\ \A j \in Starts : j # i => held'[j] = held[j]
  <2>1. held' = IF x \in Persistent THEN [held EXCEPT ![i] = Applied(held[i], x, op)] ELSE held
    BY DEF HandleEvent, op
  <2> QED BY <1>3, <1>7, <2>1 DEF StoreIInv, StoreTypeOK
<1>9. /\ told' = IF x \in Persistent \ Private THEN Applied(told, x, op) ELSE told
      /\ told' \in Contents
  BY <1>3, <1>7 DEF HandleEvent, Relay, op
<1>10. StoreTypeOK' /\ AgentTypeOK' /\ OthersSame(i)
  BY <1>2, <1>6, <1>8, <1>9 DEF StoreIInv, StoreTypeOK, AgentTypeOK, OthersSame, plane
<1>11. Whereabouts'
  <2>1. held[i] # NoState
    BY <1>1 DEF StoreIInv, Whereabouts, Live
  <2>2. held'[i] # NoState
    BY <1>8, CellsAssumption DEF Contents, NoState
  <2>3. \A j \in Starts : held'[j] # NoState <=> held[j] # NoState
    BY <1>8, <2>1, <2>2
  <2> QED BY <1>2, <2>3 DEF StoreIInv, Whereabouts, plane
<1>12. ToldIsSaved'
  <2>1. ASSUME NEW c \in Public PROVE held'[i][c] = told'[c]
    <3>1. PICK y \in Persistent \ Private : c \in CellsOf[y]
      BY DEF Public
    <3>2. held[i][c] = told[c]
      BY <1>1 DEF StoreIInv, ToldIsSaved, Live
    <3>3. y \in Items
      BY DEF Persistent
    <3>4. CASE y = x
      BY <1>3, <1>4, <1>8, <1>9, <3>1, <3>2, <3>4, AppliedFacts
    <3>5. CASE y # x
      <4>1. Applied(held[i], x, op)[c] = held[i][c] /\ Applied(told, x, op)[c] = told[c]
        BY <1>3, <1>4, <3>1, <3>3, <3>5, AppliedFacts
      <4> QED BY <1>8, <1>9, <3>2, <4>1
    <3> QED BY <3>4, <3>5
  <2>2. \A j \in Starts : inst'[j] \in Live => j = i
    BY <1>1, <1>2 DEF StoreIInv, Whereabouts, Live
  <2>3. entry'.at = "inUse"
    BY <1>1, <1>2 DEF StoreIInv, Whereabouts, Live, plane
  <2> QED BY <2>1, <2>2, <2>3 DEF ToldIsSaved
<1>13. Formed(i)'
  BY <1>2, <1>5, <1>6 DEF StoreIInv, InstOK, Formed
<1>14. AllThere(i)'
  <2> SUFFICES ASSUME NEW y \in Persistent, NEW c \in CellsOf[y]
               PROVE  Has(queue[i][y], out'[i][y], held'[i], c, memory[i][c])
    BY <1>1, <1>2 DEF AllThere
  <2>1. Has(queue[i][y], out[i][y], held[i], c, memory[i][c]) /\ y \in Items
    BY <1>1 DEF StoreIInv, InstOK, AllThere, Persistent
  <2>2. Accounted(out[i][y], held[i], c, memory[i][c]) => Accounted(out'[i][y], held'[i], c, memory[i][c])
    <3>1. CASE y = x
      <4>1. held'[i][c] = IF Touches(op, c) THEN op.to ELSE held[i][c]
        BY <1>3, <1>4, <1>8, <3>1, AppliedFacts
      <4> QED BY <1>1, <1>3, <1>6, <3>1, <4>1, SaysTail DEF op
    <3>2. CASE y # x
      <4>1. held'[i][c] = held[i][c]
        BY <1>3, <1>4, <1>8, <2>1, <3>2, AppliedFacts
      <4> QED BY <1>6, <2>1, <3>2, <4>1 DEF Accounted
    <3> QED BY <3>1, <3>2
  <2> QED BY <2>1, <2>2 DEF Has
<1>15. NotLive(i)' /\ Initialising(i)'
  BY <1>1, <1>2 DEF NotLive, Initialising, Live
<1>16. InstOK(i)'
  BY <1>13, <1>14, <1>15 DEF InstOK
<1>17. \A j \in Starts : j # i => InstOK(j)'
  BY <1>10, InstSame DEF StoreIInv, OthersSame
<1> QED BY <1>10, <1>11, <1>12, <1>16, <1>17 DEF StoreIInv

\* An instance that has nothing under way.
LEMMA BareOK ==
  ASSUME NEW j \in Starts, inst'[j] # "running", started'[j] = FALSE, dirty'[j] = {},
         \A x \in Items : item'[j][x] = NotAdded /\ queue'[j][x] = <<>> /\ out'[j][x] = <<>>
  PROVE  InstOK(j)'
<1>1. NotLive(j)'
  BY DEF NotLive
<1>2. Formed(j)'
  BY DEF Formed, QueueFormed, OutFormed
<1>3. \A x \in Items : ItemOK(NotAdded, x, held'[j])
  <2> TAKE x \in Items
  <2>1. /\ NotAdded.at = "none" /\ NotAdded.todo = <<>> /\ NotAdded.frames = <<>> /\ NotAdded.acked = FALSE
        /\ DOMAIN NotAdded.todo = {} /\ DOMAIN NotAdded.frames = {}
    BY DEF NotAdded
  <2>2. Restores(NotAdded, x, held'[j])
    BY <2>1 DEF Restores
  <2> QED BY <2>1, <2>2 DEF ItemOK
<1>4. Initialising(j)'
  BY <1>3 DEF Initialising
<1>5. AllThere(j)'
  <2>1. NotAdded.acked = FALSE
    BY DEF NotAdded
  <2> QED BY <2>1 DEF AllThere, Persistent
<1> QED BY <1>1, <1>2, <1>4, <1>5 DEF InstOK

\* An instance that is not live is not disturbed.
LEMMA StillBare ==
  ASSUME StoreIInv, NEW j \in Starts, inst[j] \notin Live, inst'[j] # "running", UNCHANGED agentVars
  PROVE  InstOK(j)'
BY BareOK DEF StoreIInv, InstOK, NotLive, agentVars, AgentTypeOK

\* The plane starts an instance and gives it the state.
LEMMA StartAgentOK ==
  ASSUME StoreIInv, NEW i \in Starts, StartAgent(i)
  PROVE  StoreIInv'
<1>1. inst[i] = "none" /\ channel' = i /\ NodeStore(i) /\ UNCHANGED <<overlap, agentVars, told, made>>
  BY DEF StartAgent
<1>2. i \in 0..MaxStarts /\ i \in 0..Dead /\ 0 \in 0..Dead /\ i # 0
  BY ItemsAssumption DEF Starts, Dead
<1>3. CASE entry.at = "inUse"
  <2>1. /\ entry'.at = "inUse" /\ entry'.state = NoState /\ entry'.waiter = i /\ UNCHANGED held
        /\ inst' = [inst EXCEPT ![i] = "waiting"]
    BY <1>1, <1>3 DEF NodeStore, InUse
  <2>2. /\ inst'[i] = "waiting" /\ \A j \in Starts : j # i => inst'[j] = inst[j]
        /\ inst' \in [Starts -> {"none", "waiting", "init", "running", "ending", "gone"}]
    BY <2>1 DEF StoreIInv, StoreTypeOK
  <2>3. StoreTypeOK' /\ AgentTypeOK'
    BY <1>1, <1>2, <2>1, <2>2 DEF StoreIInv, StoreTypeOK, AgentTypeOK, agentVars
  <2>4. \A j \in Starts : inst'[j] \in Live <=> inst[j] \in Live
    BY <1>1, <2>2 DEF Live
  <2>5. Whereabouts'
    <3>1. (\A j \in Starts : held'[j] # NoState <=> inst'[j] \in Live)
          /\ \A j, k \in Starts : inst'[j] \in Live /\ inst'[k] \in Live => j = k
      BY <2>1, <2>4 DEF StoreIInv, Whereabouts
    <3>2. \E j \in Starts : inst'[j] \in Live
      BY <1>3, <2>4 DEF StoreIInv, Whereabouts
    <3> QED BY <1>1, <2>1, <2>2, <3>1, <3>2 DEF Whereabouts
  <2>6. ToldIsSaved'
    BY <1>1, <2>1, <2>4 DEF StoreIInv, ToldIsSaved
  <2>7. InstOK(i)'
    BY <1>1, <2>2, StillBare DEF Live
  <2>8. \A j \in Starts : j # i => InstOK(j)'
    BY <1>1, <2>1, <2>2, InstSame DEF StoreIInv, agentVars
  <2> QED BY <2>3, <2>5, <2>6, <2>7, <2>8 DEF StoreIInv
<1>4. CASE entry.at # "inUse"
  <2>1. /\ entry'.at = "inUse" /\ entry'.state = NoState /\ entry'.waiter = 0
        /\ inst' = [inst EXCEPT ![i] = "init"] /\ held' = [held EXCEPT ![i] = Stored]
    BY <1>1, <1>4 DEF NodeStore, InUse
  <2>2. Stored \in Contents /\ Stored # NoState
    <3>1. Nothing \in Contents
      BY ItemsAssumption DEF Nothing, Contents, Absent
    <3>2. NoState \notin Contents
      BY CellsAssumption DEF NoState, Contents
    <3> QED BY <3>1, <3>2 DEF Stored, StoreIInv, Whereabouts
  <2>3. /\ inst'[i] = "init" /\ \A j \in Starts : j # i => inst'[j] = inst[j]
        /\ inst' \in [Starts -> {"none", "waiting", "init", "running", "ending", "gone"}]
        /\ held'[i] = Stored /\ \A j \in Starts : j # i => held'[j] = held[j]
        /\ held' \in [Starts -> Contents \cup {NoState}]
    BY <2>1, <2>2 DEF StoreIInv, StoreTypeOK
  <2>4. StoreTypeOK' /\ AgentTypeOK'
    BY <1>1, <1>2, <2>1, <2>3 DEF StoreIInv, StoreTypeOK, AgentTypeOK, agentVars
  <2>5. \A j \in Starts : inst[j] \notin Live
    BY <1>4 DEF StoreIInv, Whereabouts
  <2>6. \A j \in Starts : inst'[j] \in Live <=> j = i
    BY <2>3, <2>5 DEF Live
  <2>7. Whereabouts'
    <3>1. \A j \in Starts : held'[j] # NoState <=> inst'[j] \in Live
      BY <2>2, <2>3, <2>5, <2>6 DEF StoreIInv, Whereabouts
    <3> QED BY <1>1, <2>1, <2>3, <2>6, <3>1 DEF Whereabouts
  <2>8. ToldIsSaved'
    BY <1>1, <1>4, <2>1, <2>3, <2>6 DEF StoreIInv, ToldIsSaved
  <2>9. InstOK(i)'
    BY <1>1, <2>3, <2>5, StillBare
  <2>10. \A j \in Starts : j # i => InstOK(j)'
    BY <1>1, <2>3, InstSame DEF StoreIInv, agentVars
  <2> QED BY <2>4, <2>7, <2>8, <2>9, <2>10 DEF StoreIInv
<1> QED BY <1>3, <1>4

\* A request finds the agent running.
LEMMA FindRunningOK == ASSUME StoreIInv, FindRunning PROVE StoreIInv'
<1>1. channel # 0 /\ UNCHANGED <<overlap, channel, inst, held, agentVars, told, made>>
  BY DEF FindRunning
<1>2. channel \in Starts /\ inst[channel] # "none" /\ entry.at # "absent"
  BY <1>1 DEF StoreIInv, StoreTypeOK, Whereabouts, Starts
<1>3. Dead \in 0..Dead /\ 0 \in 0..Dead
  BY ItemsAssumption DEF Dead
<1>4. /\ entry'.at = entry.at /\ entry'.state \in Contents \cup {NoState} /\ entry'.waiter \in 0..Dead
      /\ entry.at = "idle" => entry'.state = entry.state
  BY <1>2, <1>3 DEF FindRunning, InUse, IdleEntry, Stored, StoreIInv, StoreTypeOK
<1>5. StoreTypeOK' /\ AgentTypeOK'
  BY <1>1, <1>4 DEF StoreIInv, StoreTypeOK, AgentTypeOK, agentVars
<1>6. Whereabouts'
  BY <1>1, <1>4 DEF StoreIInv, Whereabouts
<1>7. ToldIsSaved'
  BY <1>1, <1>2, <1>4 DEF StoreIInv, ToldIsSaved, Stored, StoreTypeOK
<1>8. \A j \in Starts : InstOK(j)'
  BY <1>1, InstSame DEF StoreIInv, agentVars
<1> QED BY <1>5, <1>6, <1>7, <1>8 DEF StoreIInv

\* An instance ends before it has been initialised.
LEMMA WaitFailsOK == ASSUME StoreIInv, NEW i \in Starts, WaitFails(i) PROVE StoreIInv'
<1>1. /\ inst[i] = "waiting" /\ inst' = [inst EXCEPT ![i] = "gone"]
      /\ UNCHANGED <<overlap, plane, held, agentVars, told, made>>
  BY DEF WaitFails
<1>2. /\ inst'[i] = "gone" /\ \A j \in Starts : j # i => inst'[j] = inst[j]
      /\ inst' \in [Starts -> {"none", "waiting", "init", "running", "ending", "gone"}]
  BY <1>1 DEF StoreIInv, StoreTypeOK
<1>3. StoreTypeOK' /\ AgentTypeOK'
  BY <1>1, <1>2 DEF StoreIInv, StoreTypeOK, AgentTypeOK, agentVars, plane
<1>4. \A j \in Starts : /\ inst'[j] \in Live <=> inst[j] \in Live
                        /\ inst'[j] = "none" <=> inst[j] = "none"
  BY <1>1, <1>2 DEF Live
<1>5. channel # 0 => channel \in Starts
  BY DEF StoreIInv, StoreTypeOK, Starts
<1>6. Whereabouts'
  BY <1>1, <1>4, <1>5 DEF StoreIInv, Whereabouts, plane
<1>7. ToldIsSaved'
  BY <1>1, <1>4 DEF StoreIInv, ToldIsSaved, Stored, plane
<1>8. InstOK(i)'
  BY <1>1, <1>2, StillBare DEF Live
<1>9. \A j \in Starts : j # i => InstOK(j)'
  BY <1>1, <1>2, InstSame DEF StoreIInv, agentVars
<1> QED BY <1>3, <1>6, <1>7, <1>8, <1>9 DEF StoreIInv

\* An instance has stopped and gives the state back.
LEMMA AgentStoppedOK == ASSUME StoreIInv, NEW i \in Starts, AgentStopped(i) PROVE StoreIInv'
<1>1. channel' = 0 /\ UNCHANGED <<overlap, entry, inst, held, agentVars, told, made>>
  BY DEF AgentStopped
<1>2. StoreTypeOK' /\ AgentTypeOK' /\ Whereabouts' /\ ToldIsSaved'
  BY <1>1, ItemsAssumption
  DEF StoreIInv, StoreTypeOK, AgentTypeOK, Whereabouts, ToldIsSaved, Stored, agentVars
<1>3. \A j \in Starts : InstOK(j)'
  BY <1>1, InstSame DEF StoreIInv, agentVars
<1> QED BY <1>2, <1>3 DEF StoreIInv

\* The state goes to the instance that waits for it, or back to the plane.
LEMMA DestroyOK == ASSUME StoreIInv, NEW i \in Starts, Destroy(i) PROVE StoreIInv'
<1> DEFINE bare == [x \in Items |-> NotAdded]
           empty == [x \in Items |-> <<>>]
<1>1. inst[i] = "ending" /\ ReturnState(i) /\ UNCHANGED <<overlap, channel, memory, told, made>>
  BY DEF Destroy
<1>2. /\ item' \in [Starts -> [Items -> ItemRecord]] /\ item'[i] = bare
      /\ \A j \in Starts : j # i => item'[j] = item[j]
  BY NotAddedOK DEF Destroy, StoreIInv, AgentTypeOK
<1>3. /\ started' \in [Starts -> BOOLEAN] /\ started'[i] = FALSE
      /\ \A j \in Starts : j # i => started'[j] = started[j]
  BY DEF Destroy, StoreIInv, AgentTypeOK
<1>4. /\ dirty' \in [Starts -> SUBSET Items] /\ dirty'[i] = {}
      /\ \A j \in Starts : j # i => dirty'[j] = dirty[j]
  BY DEF Destroy, StoreIInv, AgentTypeOK
<1>5. /\ queue' \in [Starts -> [Items -> Seq(Cells \cup {Clear})]] /\ queue'[i] = empty
      /\ out' \in [Starts -> [Items -> Seq(OpRecord)]] /\ out'[i] = empty
      /\ \A j \in Starts : j # i => queue'[j] = queue[j] /\ out'[j] = out[j]
  <2>1. empty \in [Items -> Seq(Cells \cup {Clear})] /\ empty \in [Items -> Seq(OpRecord)]
    OBVIOUS
  <2>2. queue' = [queue EXCEPT ![i] = empty] /\ out' = [out EXCEPT ![i] = empty]
    BY DEF Destroy
  <2> HIDE DEF empty
  <2> QED BY <2>1, <2>2 DEF StoreIInv, AgentTypeOK
<1>6. AgentTypeOK'
  BY <1>2, <1>3, <1>4, <1>5 DEF AgentTypeOK
<1>7. /\ held[i] \in Contents /\ held[i] # NoState /\ entry.at = "inUse"
      /\ \A j \in Starts : inst[j] \in Live => j = i
  BY <1>1, CellsAssumption DEF StoreIInv, Whereabouts, StoreTypeOK, Live
<1>8. 0 \in 0..Dead
  BY ItemsAssumption DEF Dead
<1>9. inst'[i] = "gone" => InstOK(i)'
  BY <1>2, <1>3, <1>4, <1>5, BareOK
<1>10. channel # 0 => channel \in Starts /\ inst[channel] # "none"
  BY DEF StoreIInv, StoreTypeOK, Starts, Whereabouts
<1>11. CASE entry.at = "inUse" /\ entry.waiter \in Starts /\ inst[entry.waiter] = "waiting"
  <2>0. PICK w \in Starts : w = entry.waiter
    BY <1>11
  <2>1. /\ w \in Starts /\ w # i /\ entry'.at = "inUse" /\ entry'.state = NoState /\ entry'.waiter = 0
        /\ held' = [held EXCEPT ![i] = NoState, ![w] = held[i]]
        /\ inst' = [inst EXCEPT ![i] = "gone", ![w] = "init"]
    BY <1>1, <1>11, <2>0 DEF ReturnState, InUse
  <2>2. /\ inst' \in [Starts -> {"none", "waiting", "init", "running", "ending", "gone"}]
        /\ inst'[i] = "gone" /\ inst'[w] = "init" /\ \A j \in Starts : j # i /\ j # w => inst'[j] = inst[j]
        /\ held' \in [Starts -> Contents \cup {NoState}] /\ held'[w] = held[i] /\ held'[i] = NoState
        /\ \A j \in Starts : j # i /\ j # w => held'[j] = held[j]
    BY <1>7, <2>1 DEF StoreIInv, StoreTypeOK
  <2>3. StoreTypeOK'
    BY <1>1, <1>8, <2>1, <2>2 DEF StoreIInv, StoreTypeOK
  <2>4. \A j \in Starts : inst'[j] \in Live <=> j = w
    BY <1>7, <2>1, <2>2 DEF Live
  <2>5. Whereabouts'
    <3>1. \A j \in Starts : held'[j] # NoState <=> inst'[j] \in Live
      BY <1>7, <2>1, <2>2, <2>4 DEF StoreIInv, Whereabouts
    <3>2. channel # 0 => inst'[channel] # "none"
      BY <1>10, <2>2
    <3> QED BY <1>1, <2>1, <2>4, <3>1, <3>2 DEF Whereabouts
  <2>6. ToldIsSaved'
    <3>1. \A c \in Public : held[i][c] = told[c]
      BY <1>1 DEF StoreIInv, ToldIsSaved, Live
    <3> QED BY <1>1, <2>1, <2>2, <2>4, <3>1 DEF ToldIsSaved
  <2>7. InstOK(w)'
    <3>1. inst[w] = "waiting"
      BY <1>11, <2>0
    <3>2. NotLive(w)
      BY <2>1 DEF StoreIInv, InstOK
    <3>3. started[w] = FALSE /\ dirty[w] = {}
          /\ \A x \in Items : item[w][x] = NotAdded /\ queue[w][x] = <<>> /\ out[w][x] = <<>>
      BY <2>1, <3>1, <3>2 DEF NotLive, Live, StoreIInv, AgentTypeOK
    <3>4. inst'[w] # "running" /\ started'[w] = FALSE /\ dirty'[w] = {}
      BY <1>3, <1>4, <2>1, <2>2, <3>3
    <3>5. \A x \in Items : item'[w][x] = NotAdded /\ queue'[w][x] = <<>> /\ out'[w][x] = <<>>
      BY <1>2, <1>5, <2>1, <3>3
    <3> QED BY <2>1, <3>4, <3>5, BareOK
  <2>8. \A j \in Starts : j # i /\ j # w => InstOK(j)'
    BY <1>1, <1>2, <1>3, <1>4, <1>5, <2>2, InstSame DEF StoreIInv
  <2>9. \A j \in Starts : InstOK(j)'
    BY <1>9, <2>2, <2>7, <2>8
  <2> QED BY <1>6, <2>3, <2>5, <2>6, <2>9 DEF StoreIInv
<1>12. CASE ~(entry.at = "inUse" /\ entry.waiter \in Starts /\ inst[entry.waiter] = "waiting")
  <2>1. /\ entry'.at = "idle" /\ entry'.state = held[i] /\ entry'.waiter = 0
        /\ held' = [held EXCEPT ![i] = NoState] /\ inst' = [inst EXCEPT ![i] = "gone"]
    BY <1>1, <1>12 DEF ReturnState, IdleEntry
  <2>2. /\ inst' \in [Starts -> {"none", "waiting", "init", "running", "ending", "gone"}]
        /\ inst'[i] = "gone" /\ \A j \in Starts : j # i => inst'[j] = inst[j]
        /\ held' \in [Starts -> Contents \cup {NoState}] /\ held'[i] = NoState
        /\ \A j \in Starts : j # i => held'[j] = held[j]
    BY <2>1 DEF StoreIInv, StoreTypeOK
  <2>3. StoreTypeOK'
    BY <1>1, <1>7, <1>8, <2>1, <2>2 DEF StoreIInv, StoreTypeOK
  <2>4. \A j \in Starts : inst'[j] \notin Live
    BY <1>7, <2>2 DEF Live
  <2>5. Whereabouts'
    <3>1. \A j \in Starts : held'[j] # NoState <=> inst'[j] \in Live
      BY <1>7, <2>2, <2>4 DEF StoreIInv, Whereabouts
    <3>2. channel # 0 => inst'[channel] # "none"
      BY <1>10, <2>2
    <3> QED BY <1>1, <1>7, <2>1, <2>4, <3>1, <3>2 DEF Whereabouts
  <2>6. ToldIsSaved'
    <3>1. \A c \in Public : held[i][c] = told[c]
      BY <1>1 DEF StoreIInv, ToldIsSaved, Live
    <3> QED BY <1>1, <2>1, <2>4, <3>1 DEF ToldIsSaved, Stored
  <2>7. \A j \in Starts : j # i => InstOK(j)'
    BY <1>1, <1>2, <1>3, <1>4, <1>5, <2>2, InstSame DEF StoreIInv
  <2> QED BY <1>6, <1>9, <2>2, <2>3, <2>5, <2>6, <2>7 DEF StoreIInv
<1> QED BY <1>11, <1>12

\* Every step keeps the invariant.
LEMMA StoreNextOK == ASSUME StoreIInv, StoreNext PROVE StoreIInv'
<1>1. CASE FindRunning
  BY <1>1, FindRunningOK
<1>2. ASSUME NEW i \in Starts, StartAgent(i) \/ WaitFails(i) \/ Destroy(i) \/ AgentStopped(i)
      PROVE  StoreIInv'
  BY <1>2, StartAgentOK, WaitFailsOK, DestroyOK, AgentStoppedOK
<1>3. ASSUME NEW i \in Starts, InitStep(i)
      PROVE  StoreIInv'
  BY <1>3, AddItemOK, SendFrameOK, ReadFrameOK, ReadCompleteOK, ItemReadyOK, OnStartOK, BeginOK DEF InitStep
<1>4. ASSUME NEW i \in Starts, InitFails(i) \/ StopAgent(i)
      PROVE  StoreIInv'
  BY <1>4, EndingOK DEF InitFails, StopAgent, Live
<1>5. ASSUME NEW i \in Starts, NEW x \in Items, Change(i, x) \/ SaveStep(i, x)
      PROVE  StoreIInv'
  BY <1>5, ChangeOK, WriteOutOK, HandleEventOK DEF SaveStep
<1>6. ASSUME NEW i \in Starts, NEW x \in Items, SaveFails(i, x)
      PROVE  StoreIInv'
  BY <1>6, EndingOK DEF SaveFails, Live
<1> QED BY <1>1, <1>2, <1>3, <1>4, <1>5, <1>6 DEF StoreNext

\* ... and so does a step that changes nothing.
LEMMA StoreStutters == ASSUME StoreIInv, UNCHANGED storeVars PROVE StoreIInv'
<1>1. StoreTypeOK' /\ AgentTypeOK' /\ Whereabouts' /\ ToldIsSaved'
  BY DEF StoreIInv, StoreTypeOK, AgentTypeOK, Whereabouts, ToldIsSaved, Stored, storeVars, plane, agentVars
<1>2. \A j \in Starts : InstOK(j)'
  BY InstSame DEF StoreIInv, storeVars, plane, agentVars
<1> QED BY <1>1, <1>2 DEF StoreIInv

\* The state is with one instance, or with the plane.
LEMMA TheHolder == ASSUME StoreIInv PROVE /\ Holders = {i \in Starts : inst[i] \in Live}
                                          /\ entry.at = "inUse" <=> Holders # {}
                                          /\ Cardinality(Holders) = 1 <=> Holders # {}
<1>1. Holders = {i \in Starts : inst[i] \in Live}
  BY DEF StoreIInv, Whereabouts, Holders
<1>2. entry.at = "inUse" <=> Holders # {}
  BY <1>1 DEF StoreIInv, Whereabouts
<1>3. ASSUME Holders # {} PROVE Cardinality(Holders) = 1
  <2>1. PICK i \in Starts : i \in Holders
    BY <1>3 DEF Holders
  <2>2. Holders = {i}
    BY <1>1, <2>1 DEF StoreIInv, Whereabouts
  <2> QED BY <2>2, FS_Singleton
<1>4. Holders = {} => Cardinality(Holders) = 0
  BY FS_EmptySet
<1> QED BY <1>1, <1>2, <1>3, <1>4

\* The invariant implies that no state is lost.
LEMMA StoreImplies == ASSUME StoreIInv PROVE StoreInv
<1>1. OneState
  <2>1. entry.at \in {"absent", "idle", "inUse"}
    BY DEF StoreIInv, StoreTypeOK
  <2>2. CASE entry.at = "absent"
    BY <2>2, TheHolder DEF OneState, StoreIInv, Whereabouts
  <2>3. CASE entry.at = "idle"
    <3>1. entry.state # NoState
      BY <2>3, CellsAssumption DEF StoreIInv, Whereabouts, Contents, NoState
    <3> QED BY <2>3, <3>1, TheHolder DEF OneState
  <2>4. CASE entry.at = "inUse"
    BY <2>4, TheHolder DEF OneState, Live
  <2> QED BY <2>1, <2>2, <2>3, <2>4
<1>2. ToldIsKept
  <2>1. CASE Holders # {}
    <3> DEFINE h == CHOOSE i \in Holders : TRUE
    <3>1. h \in Holders
      BY <2>1
    <3> HIDE DEF h
    <3>2. h \in Starts /\ inst[h] \in Live
      BY <3>1, TheHolder
    <3>3. SavedState = held[h]
      BY <2>1 DEF SavedState, h
    <3> QED BY <3>2, <3>3 DEF ToldIsKept, StoreIInv, ToldIsSaved
  <2>2. CASE Holders = {}
    BY <2>2, TheHolder DEF ToldIsKept, SavedState, StoreIInv, ToldIsSaved
  <2> QED BY <2>1, <2>2
<1>3. NothingForgotten
  <2> SUFFICES ASSUME NEW i \in Starts, inst[i] = "running", NEW x \in Persistent, NEW c \in CellsOf[x]
               PROVE  Accounted(OnItsWay(i, x), held[i], c, memory[i][c])
    BY DEF NothingForgotten
  <2> DEFINE q == queue[i][x]
             ops == [n \in DOMAIN q |-> Operation(i, q[n])]
  <2>1. x \in Items /\ c \in Cells /\ c # Clear
    BY CellsAssumption DEF Persistent, Cells
  <2>2. /\ q \in Seq(Cells \cup {Clear}) /\ QueueFormed(q, x) /\ out[i][x] \in Seq(OpRecord)
        /\ Has(q, out[i][x], held[i], c, memory[i][c])
    BY <2>1 DEF StoreIInv, AgentTypeOK, InstOK, Formed, AllThere
  <2>3. \A n \in DOMAIN q : q[n] \in Cells \cup {Clear}
    BY <2>2
  <2>4. \A n \in DOMAIN q : /\ ops[n] \in OpRecord /\ ops[n].cell = q[n]
                            /\ q[n] = c => ops[n].to = memory[i][c]
                            /\ q[n] = Clear => ops[n].to = Absent
    BY <2>1, <2>3, OperationFacts
  <2>5. ops \in Seq(OpRecord)
    <3>1. DOMAIN q = 1..Len(q) /\ Len(q) \in Nat
      BY <2>2
    <3>2. ops \in [1..Len(q) -> OpRecord]
      BY <2>4, <3>1
    <3> QED BY <3>1, <3>2
  <2>6. DOMAIN ops = DOMAIN q /\ OnItsWay(i, x) = out[i][x] \o ops
    BY DEF OnItsWay
  <2> HIDE DEF q, ops
  <2>7. \A n \in DOMAIN q : /\ ops[n].cell = q[n] /\ (q[n] = c => ops[n].to = memory[i][c])
                            /\ q[n] = Clear => ops[n].to = Absent
    BY <2>4
  <2>8. Accounted(out[i][x] \o ops, held[i], c, memory[i][c])
    BY <2>1, <2>2, <2>5, <2>6, <2>7, HasAccounted
  <2> QED BY <2>6, <2>8
<1> QED BY <1>1, <1>2, <1>3 DEF StoreInv, StoreIInv

\* The state of an agent is in one place: with the plane or with the one instance that is
\* live.  It holds what remotes were told, and what the items of a running instance have is
\* what the operations that they have not saved make of it (in_memory_store/mod.rs,
\* init/mod.rs, persist_response).
THEOREM StateKept == StoreSpec => []StoreInv
<1>1. StoreInit => StoreIInv
  BY StoreInitOK
<1>2. StoreIInv /\ [StoreNext]_storeVars => StoreIInv'
  BY StoreNextOK, StoreStutters
<1>3. StoreIInv => StoreInv
  BY StoreImplies
<1> QED BY <1>1, <1>2, <1>3, PTL DEF StoreSpec

=============================================================================
