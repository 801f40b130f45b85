--------------------------- MODULE MCAgentRuntime ---------------------------
(***************************************************************************)
(* Instances of AgentRuntime for TLC.  Each setup is an agent with its own *)
(* inputs, so that their state graphs add up and do not multiply.          *)
(***************************************************************************)
EXTENDS AgentRuntime

CONSTANTS r1, r2, l1, l2, s1

MCTwoWays == {r1}
MCOneWays == {r2}
MCInitialLanes == {l1}
MCNewLanes == {l2}
MCNewStores == {s1}

Setup(n, asked, envelopes, events, drops, requested) ==
  [size |-> n, requests |-> asked,
   left |-> [envelopes |-> envelopes, events |-> events, drops |-> drops,
             http |-> requested, httpLanes |-> requested]]

From(c, op, l) == [from |-> c, op |-> op, lane |-> l]

\* A lane is added while remotes attach and send; the votes of an agent that is
\* used in every way; a lane and a store that the agent drops.
MCSetups ==
  {Setup(1, {r1, r2, l2}, <<From(r1, "Link", l1), From(r1, "Link", l2)>>, 0, 0, 0),
   Setup(1, {r1}, <<From(r1, "Link", l1)>>, 1, 0, 1),
   Setup(1, {r1}, <<From(r1, "Link", NoLane), From(r1, "Command", NoLane)>>, 0, 0, 0),
   Setup(1, {r2, s1}, <<From(r2, "Command", l1), From(r2, "Sync", l1)>>, 1, 1, 0)}
=============================================================================
