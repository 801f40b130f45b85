---------------------------- MODULE TimeoutCoord ----------------------------
(***************************************************************************)
(* The stop vote shared by the tasks of an agent or downlink runtime       *)
(* (runtime/swimos_runtime/src/timeout_coord/mod.rs): N voters share an    *)
(* AtomicU8 of flags and an AtomicWaker; a receiver future completes when  *)
(* every flag is set.                                                      *)
(*                                                                         *)
(* The byte of flags is the set of voters whose bit is set, so that        *)
(* fetch_or is union, "& !flag" is set difference, `inverse` is the other  *)
(* voters and `unanimity` is Voters.  Every atomic operation is a step of  *)
(* its own; so are the two loads of Receiver::poll, the registration of    *)
(* the waker between them, and the wake that follows the decisive vote.    *)
(***************************************************************************)
EXTENDS Naturals, FiniteSets

CONSTANTS
  Voters,          \* the parties: two in a downlink runtime, three in an agent
  TracksOwnVote    \* TRUE: a party only rescinds a vote it has standing, as the
                   \* runtime tasks do with their local `voted` flag; FALSE:
                   \* any sequence of vote and rescind calls

ASSUME VotersAssumption == IsFiniteSet(Voters) /\ Cardinality(Voters) > 1
ASSUME TracksAssumption == TracksOwnVote \in BOOLEAN

VARIABLES
  flags,      \* Inner::flags
  voted,      \* Voter::voted, a Cell<bool> per voter
  standing,   \* the `voted` local of the task that owns the voter
  pc,         \* where each voter is: between calls or inside one
  seen,       \* `current` of the compare-exchange loop in rescind, {} outside it
  dropping,   \* the call in progress is the one made by Drop
  result,     \* what the last call of each voter returned
  waker,      \* Inner::waker holds the receiver's waker
  notified,   \* the receiver has been woken since it was last polled
  receiver    \* where the receiver is in poll

voterVars == <<flags, voted, standing, pc, seen, dropping, result>>
receiverVars == <<waker, notified, receiver>>
vars == <<voterVars, receiverVars>>

Results == {"None", "Unanimous", "UnanimityPending"}

Init ==
  /\ flags = {}
  /\ voted = [v \in Voters |-> FALSE]
  /\ standing = [v \in Voters |-> FALSE]
  /\ pc = [v \in Voters |-> "idle"]
  /\ seen = [v \in Voters |-> {}]
  /\ dropping = [v \in Voters |-> FALSE]
  /\ result = [v \in Voters |-> "None"]
  /\ waker = FALSE
  /\ notified = FALSE
  /\ receiver = "start"

\* `before == inverse`: this vote is the one that makes the set complete.
Decides(v) == flags = Voters \ {v}

\* Where a voter goes when the call it is in returns: the Voter no longer
\* exists if that call was the one made by Drop.
AfterCall(v) == IF dropping[v] THEN "dropped" ELSE "idle"

\* A call of rescind (or a vote that did not decide) returns r.
Return(v, r) ==
  /\ result' = [result EXCEPT ![v] = r]
  /\ pc' = [pc EXCEPT ![v] = AfterCall(v)]

\* vote(): fetch_or, then the Cell; the voter that finds all the others set
\* goes on to wake the receiver.
Vote(v) ==
  /\ pc[v] \in {"idle", "drop_vote"}
  /\ flags' = flags \cup {v}
  /\ voted' = [voted EXCEPT ![v] = TRUE]
  /\ standing' = [standing EXCEPT ![v] = TRUE]
  /\ IF Decides(v)
       THEN pc' = [pc EXCEPT ![v] = "wake"] /\ UNCHANGED result
       ELSE Return(v, "UnanimityPending")
  /\ UNCHANGED <<seen, dropping, receiverVars>>

\* waker.wake(): takes the registered waker, if there is one, and wakes it.
Wake(v) ==
  /\ pc[v] = "wake"
  /\ waker' = FALSE
  /\ notified' = (notified \/ waker)
  /\ Return(v, "Unanimous")
  /\ UNCHANGED <<flags, voted, standing, seen, dropping, receiver>>

MayRescind(v) == pc[v] = "idle" /\ (TracksOwnVote => standing[v])

\* rescind() of a voter that has never voted returns at once.
RescindNoVote(v) ==
  /\ MayRescind(v)
  /\ ~voted[v]
  /\ Return(v, "UnanimityPending")
  /\ UNCHANGED <<flags, voted, standing, seen, dropping, receiverVars>>

\* `inverse < TWO_VOTERS_LIM` holds exactly when there are two parties.
TwoVoters == Cardinality(Voters) = 2

\* Mutant of OnlyMine: the flags are not compared before they are exchanged.
OnlyMineBlind(v) == v \in flags

\* The comparison of the two-party compare-exchange.
OnlyMine(v) == flags = {v}

\* With two parties rescind() is one compare-exchange of "only my flag is
\* set" with "no flag is set".
RescindTwo(v) ==
  /\ MayRescind(v)
  /\ voted[v]
  /\ TwoVoters
  /\ IF OnlyMine(v)
       THEN /\ flags' = flags \ {v}
            /\ standing' = [standing EXCEPT ![v] = FALSE]
            /\ Return(v, "UnanimityPending")
       ELSE /\ Return(v, "Unanimous")
            /\ UNCHANGED <<flags, standing>>
  /\ UNCHANGED <<voted, seen, dropping, receiverVars>>

\* With more parties: load the flags ...
RescindLoad(v) ==
  /\ \/ MayRescind(v)
     \/ pc[v] = "reload"
  /\ voted[v]
  /\ ~TwoVoters
  /\ IF flags = Voters
       THEN Return(v, "Unanimous") /\ UNCHANGED seen
       ELSE /\ seen' = [seen EXCEPT ![v] = flags]
            /\ pc' = [pc EXCEPT ![v] = "exchange"]
            /\ UNCHANGED result
  /\ UNCHANGED <<flags, voted, standing, dropping, receiverVars>>

\* Mutant of Unraced: a store in place of the compare-exchange.
UnracedBlind(v) == TRUE

\* The comparison of the many-party compare-exchange.
Unraced(v) == flags = seen[v]

\* ... and compare-exchange, going round the loop when another voter was first.
RescindExchange(v) ==
  /\ pc[v] = "exchange"
  /\ IF Unraced(v)
       THEN /\ flags' = seen[v] \ {v}
            /\ standing' = [standing EXCEPT ![v] = FALSE]
            /\ Return(v, "UnanimityPending")
       ELSE /\ pc' = [pc EXCEPT ![v] = "reload"]
            /\ UNCHANGED <<flags, standing, result>>
  /\ seen' = [seen EXCEPT ![v] = {}]
  /\ UNCHANGED <<voted, dropping, receiverVars>>

\* Drop for Voter: a voter whose Cell was never set votes on its way out.
Drop(v) ==
  /\ pc[v] = "idle"
  /\ dropping' = [dropping EXCEPT ![v] = TRUE]
  /\ pc' = [pc EXCEPT ![v] = IF voted[v] THEN "dropped" ELSE "drop_vote"]
  /\ UNCHANGED <<flags, voted, standing, seen, result, receiverVars>>

\* Receiver::poll, the first load; polled at the start and when woken.
PollFirst ==
  /\ receiver = "start" \/ (receiver = "pending" /\ notified)
  /\ notified' = FALSE
  /\ receiver' = IF flags = Voters THEN "ready" ELSE "register"
  /\ UNCHANGED <<voterVars, waker>>

\* Mutant of RegistersWaker: poll returns Pending without leaving its waker.
RegistersNothing == waker

\* waker.register(cx.waker())
RegistersWaker == TRUE

PollRegister ==
  /\ receiver = "register"
  /\ waker' = RegistersWaker
  /\ receiver' = "second"
  /\ UNCHANGED <<voterVars, notified>>

\* The second load, which closes the window between the first and register.
SecondLook == flags = Voters

PollSecond ==
  /\ receiver = "second"
  /\ receiver' = IF SecondLook THEN "ready" ELSE "pending"
  /\ UNCHANGED <<voterVars, waker, notified>>

Poll == PollFirst \/ PollRegister \/ PollSecond

\* The steps inside a call that has been made.
InCall(v) ==
  \/ pc[v] = "drop_vote" /\ Vote(v)
  \/ Wake(v)
  \/ pc[v] = "reload" /\ RescindLoad(v)
  \/ RescindExchange(v)

Next ==
  \/ \E v \in Voters :
       \/ Vote(v)
       \/ Wake(v)
       \/ RescindNoVote(v)
       \/ RescindTwo(v)
       \/ RescindLoad(v)
       \/ RescindExchange(v)
       \/ Drop(v)
  \/ PollFirst
  \/ PollRegister
  \/ PollSecond

Spec == Init /\ [][Next]_vars

\* The executor keeps polling a woken receiver, and a call that was made runs
\* to its end; no party is obliged to make a call.
Fairness ==
  /\ WF_vars(Poll)
  /\ \A v \in Voters : WF_vars(InCall(v))

FairSpec == Spec /\ Fairness

\* In addition every party goes away at some time, as it does when the tasks of
\* the runtime stop.
DropSpec == FairSpec /\ \A v \in Voters : SF_vars(Drop(v))
-----------------------------------------------------------------------------
TypeOK ==
  /\ flags \subseteq Voters
  /\ voted \in [Voters -> BOOLEAN]
  /\ standing \in [Voters -> BOOLEAN]
  /\ pc \in [Voters -> {"idle", "wake", "reload", "exchange", "drop_vote", "dropped"}]
  /\ seen \in [Voters -> SUBSET Voters]
  /\ dropping \in [Voters -> BOOLEAN]
  /\ result \in [Voters -> Results]
  /\ waker \in BOOLEAN
  /\ notified \in BOOLEAN
  /\ receiver \in {"start", "register", "second", "pending", "ready"}

\* "Once unanimity has been reached, no calls will have any effect": no step of
\* any party, a rescind caught between its load and its compare-exchange
\* included, takes a vote back.
UnanimityIsFinal == [][flags = Voters => flags' = Voters]_vars

\* A party told that the vote is unanimous can rely on it: the tasks break out
\* of their loops on that answer, so it must not be given while a party can
\* still withdraw.
ToldUnanimousIsTrue ==
  \A v \in Voters : result[v] = "Unanimous" => flags = Voters

\* A task's own idea of whether it has a vote standing agrees with the shared
\* flags, whatever the other parties did between its load and its exchange: a
\* vote it believes withdrawn is counted by nobody, one it believes standing is.
StandingAgrees ==
  \A v \in Voters : standing[v] <=> v \in flags

\* The receiver completes only on a unanimous vote.
ReadyIsUnanimous == receiver = "ready" => flags = Voters

\* No wake-up is lost: when the vote is unanimous and the receiver sleeps, it
\* has been notified or a party is still on its way to notify it.
NoLostWake ==
  (flags = Voters /\ receiver = "pending") =>
    notified \/ (waker /\ \E v \in Voters : pc[v] = "wake")

\* The conjunction that is inductive: beside the properties above, where the
\* calls in progress stand.  A voter between its decisive vote and its wake has
\* seen unanimity, one between load and exchange has not, a flag that is set was
\* set by its owner, and a receiver past its registration has left a waker or
\* has been woken.
IInv ==
  /\ TypeOK
  /\ StandingAgrees
  /\ ReadyIsUnanimous
  /\ NoLostWake
  /\ (TracksOwnVote \/ ~TwoVoters) => ToldUnanimousIsTrue
  /\ \A v \in Voters : pc[v] = "wake" => flags = Voters
  /\ \A v \in Voters : pc[v] = "exchange" => seen[v] # Voters
  /\ \A v \in flags : voted[v]
  /\ receiver \in {"second", "pending"} => waker \/ notified

\* A unanimous vote completes the receiver.
UnanimousCompletes == (flags = Voters) ~> (receiver = "ready")

\* "If a sender is dropped before voting, vote to ensure the receiver can't
\* deadlock": once every party is gone the receiver completes.
DropNeverDeadlocks ==
  (\A v \in Voters : pc[v] = "dropped") ~> (receiver = "ready")

Abstract == INSTANCE VoteSpec WITH votes <- flags, done <- (receiver = "ready")

\* The atomics implement the vote as VoteSpec states it.
ImplementsVoteSpec == Abstract!Spec
=============================================================================
