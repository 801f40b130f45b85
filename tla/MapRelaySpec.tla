---------------------------- MODULE MapRelaySpec ----------------------------
(***************************************************************************)
(* What the backpressure queue of a map uplink or downlink (MapQueue)      *)
(* promises: the far side may fall behind the source, but each key it is   *)
(* sent carries the newest state of that key, and a pending clear goes     *)
(* before everything that came after it.                                   *)
(***************************************************************************)
CONSTANTS Keys, Values, NoValue

VARIABLES source,   \* the map as the producer has it
          replica,  \* the map as the far side has it
          behind,   \* the keys with an operation still to be sent
          wiped     \* a clear is still to be sent

vars == <<source, replica, behind, wiped>>

Empty == [k \in Keys |-> NoValue]

Init ==
  /\ source = Empty
  /\ replica = Empty
  /\ behind = {}
  /\ wiped = FALSE

\* v = NoValue is the removal of k.
Change(k, v) ==
  /\ source' = [source EXCEPT ![k] = v]
  /\ behind' = behind \cup {k}
  /\ UNCHANGED <<replica, wiped>>

Clear ==
  /\ source' = Empty
  /\ behind' = {}
  /\ wiped' = TRUE
  /\ UNCHANGED replica

RelayClear ==
  /\ wiped
  /\ replica' = Empty
  /\ wiped' = FALSE
  /\ UNCHANGED <<source, behind>>

\* What is sent is the state the source has now, not the one it had when the
\* key was first queued.
Relay(k) ==
  /\ ~wiped
  /\ k \in behind
  /\ replica' = [replica EXCEPT ![k] = source[k]]
  /\ behind' = behind \ {k}
  /\ UNCHANGED <<source, wiped>>

Next ==
  \/ \E k \in Keys, v \in Values \cup {NoValue} : Change(k, v)
  \/ Clear
  \/ RelayClear
  \/ \E k \in Keys : Relay(k)

Spec == Init /\ [][Next]_vars
=============================================================================
