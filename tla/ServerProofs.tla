---------------------------- MODULE ServerProofs ----------------------------
(***************************************************************************)
(* For any numbers of nodes, envelopes, hosts, lanes and requests: what    *)
(* the task of a connection sends to the agents arrives in order and is    *)
(* heard, and the connector for downlinks knows of the runtimes there are  *)
(* and outlives them when the server stops.                                *)
(***************************************************************************)
EXTENDS Connector, RemoteTask, TLAPS

\* The elements of a sequence.
LEMMA ElementOf == ASSUME NEW S, NEW s \in Seq(S), NEW i \in DOMAIN s PROVE s[i] \in S
OBVIOUS

-----------------------------------------------------------------------------
(* The task of one connection.                                             *)

\* The variables of the task are of their types.
RemoteTypeOK ==
  /\ incoming \in [stage : {"idle", "forward", "find", "connected", "ended"}, id : Nat,
                   node : Nodes \cup Unrouted \cup {Nobody}, to : Nat]
  /\ number \in Nat
  /\ routes \in [Nodes -> Nat]
  /\ find \in [stage : {"none", "sent", "attach", "connected", "notFound", "dropped"}, to : Nat]
  /\ agent \in [Nodes -> [no : Nat, stage : {"none", "up", "closed"}]]
  /\ known \in [Nodes -> Nat]
  /\ inbox \in [Nodes -> Seq(Nat)]
  /\ got \in [Nodes -> Seq([id : Nat, by : Nat])]

\* The server looks for an agent exactly while the incoming task waits for it, and
\* what it attaches is an instance of the node that the task asked for.
FindIsAwaited ==
  /\ incoming.stage # "find" => find.stage = "none"
  /\ find.stage \in {"attach", "connected"} => incoming.node \in Nodes

\* Whatever the incoming task sends to, and whatever it remembers a route to, is heard.
RoutesHeard ==
  /\ \A n \in Nodes : routes[n] # 0 => <<n, routes[n]>> \in heard
  /\ incoming.stage \in {"forward", "connected"} =>
       incoming.node \in Nodes /\ <<incoming.node, incoming.to>> \in heard
  /\ \A n \in Nodes : inbox[n] # <<>> => <<n, agent[n].no>> \in heard

\* The envelope in hand is the last that came.
InHand == incoming.stage \in {"forward", "find", "connected"}

\* What is on the way to an instance comes after what the node has received, and the
\* envelope in hand after both.
Ordered ==
  /\ InHand => incoming.id = number
  /\ \A n \in Nodes :
       /\ \A k \in DOMAIN inbox[n] : inbox[n][k] <= number /\ (InHand => inbox[n][k] < number)
       /\ \A j, k \in DOMAIN inbox[n] : j < k => inbox[n][j] < inbox[n][k]
       /\ \A j \in DOMAIN got[n] :
            /\ got[n][j].id <= number /\ (InHand => got[n][j].id < number)
            /\ got[n][j].by <= agent[n].no
            /\ \A k \in DOMAIN inbox[n] : got[n][j].id < inbox[n][k]

\* The inductive invariant of the task of a connection.
RemoteIInv == RemoteTypeOK /\ FindIsAwaited /\ RoutesHeard /\ Ordered /\ InOrderAndHeard

\* The invariant holds when the connection is new.
LEMMA RemoteInitOK == RemoteInit => RemoteIInv
BY DEF RemoteInit, RemoteIInv, RemoteTypeOK, FindIsAwaited, RoutesHeard, Ordered, InHand,
       InOrderAndHeard, Idle, Finding

\* An envelope comes from the socket.
LEMMA EnvelopeKeeps ==
  ASSUME RemoteIInv, NEW n \in Nodes \cup Unrouted, Envelope(n) PROVE RemoteIInv'
<1>1. RemoteTypeOK'
  BY DEF Envelope, RemoteIInv, RemoteTypeOK, Finding, agentVars
<1>2. FindIsAwaited' /\ RoutesHeard'
  BY DEF Envelope, RemoteIInv, RemoteTypeOK, FindIsAwaited, RoutesHeard, Finding, agentVars, Idle
<1>3. Ordered'
  <2>1. /\ incoming'.id = number' /\ number' = number + 1 /\ number \in Nat
        /\ UNCHANGED <<inbox, got, agent>>
    BY DEF Envelope, agentVars, RemoteIInv, RemoteTypeOK
  <2>2. \A m \in Nodes :
          /\ \A k \in DOMAIN inbox[m] : inbox[m][k] \in Nat
          /\ \A k \in DOMAIN got[m] : got[m][k].id \in Nat
    <3> SUFFICES ASSUME NEW m \in Nodes
                 PROVE  /\ \A k \in DOMAIN inbox[m] : inbox[m][k] \in Nat
                        /\ \A k \in DOMAIN got[m] : got[m][k].id \in Nat
      OBVIOUS
    <3>1. inbox[m] \in Seq(Nat) /\ got[m] \in Seq([id : Nat, by : Nat])
      BY DEF RemoteIInv, RemoteTypeOK
    <3>2. \A k \in DOMAIN got[m] : got[m][k] \in [id : Nat, by : Nat]
      BY <3>1, ElementOf
    <3> QED BY <3>1, <3>2
  <2>3. \A x \in Nat : x <= number => x <= number + 1 /\ x < number + 1
    BY <2>1
  <2> QED BY <2>1, <2>2, <2>3 DEF RemoteIInv, Ordered
<1>4. InOrderAndHeard'
  BY DEF Envelope, RemoteIInv, InOrderAndHeard, agentVars
<1> QED BY <1>1, <1>2, <1>3, <1>4 DEF RemoteIInv

\* The envelope in hand is appended to what is on the way to an instance that runs.
LEMMA ForwardedKeeps ==
  ASSUME RemoteIInv, InHand, NEW n \in Nodes, n = incoming.node,
         <<n, incoming.to>> \in heard, Up(n, incoming.to), Forwarded(n),
         routes' \in [Nodes -> Nat],
         \A m \in Nodes : routes'[m] # 0 => <<m, routes'[m]>> \in heard,
         find' = find, find.stage = "none",
         UNCHANGED <<number, agent, known, got, heard>>
  PROVE  RemoteIInv'
<1>1. /\ inbox \in [Nodes -> Seq(Nat)] /\ incoming.id \in Nat
      /\ inbox' = [inbox EXCEPT ![n] = Append(@, incoming.id)]
      /\ incoming' = Idle /\ incoming.id = number /\ number \in Nat
  BY DEF RemoteIInv, RemoteTypeOK, Forwarded, Ordered
<1>2. /\ Len(inbox'[n]) = Len(inbox[n]) + 1 /\ Len(inbox[n]) \in Nat
      /\ DOMAIN inbox'[n] = 1..(Len(inbox[n]) + 1) /\ DOMAIN inbox[n] = 1..Len(inbox[n])
      /\ \A k \in DOMAIN inbox[n] : inbox'[n][k] = inbox[n][k]
      /\ inbox'[n][Len(inbox[n]) + 1] = number
      /\ \A k \in DOMAIN inbox'[n] : k \in DOMAIN inbox[n] \/ k = Len(inbox[n]) + 1
  BY <1>1
<1>3. \A m \in Nodes : m # n => inbox'[m] = inbox[m]
  BY <1>1
<1>4. RemoteTypeOK'
  BY <1>1 DEF RemoteIInv, RemoteTypeOK, Idle
<1>5. FindIsAwaited' /\ ~InHand'
  BY <1>1 DEF FindIsAwaited, Idle, InHand
<1>6. RoutesHeard'
  <2>1. agent[n].no = incoming.to
    BY DEF Up
  <2> QED BY <1>1, <1>3, <2>1 DEF RemoteIInv, RoutesHeard, Idle
<1>7. Ordered'
  <2>1. \A m \in Nodes : \A k \in DOMAIN inbox'[m] : inbox'[m][k] <= number
    BY <1>1, <1>2, <1>3 DEF RemoteIInv, Ordered
  <2>2. \A m \in Nodes : \A j, k \in DOMAIN inbox'[m] : j < k => inbox'[m][j] < inbox'[m][k]
    BY <1>1, <1>2, <1>3 DEF RemoteIInv, Ordered
  <2>3. \A m \in Nodes : \A j \in DOMAIN got[m] : \A k \in DOMAIN inbox'[m] : got[m][j].id < inbox'[m][k]
    BY <1>1, <1>2, <1>3 DEF RemoteIInv, Ordered
  <2> QED BY <1>5, <2>1, <2>2, <2>3 DEF RemoteIInv, Ordered
<1>8. InOrderAndHeard'
  BY DEF RemoteIInv, InOrderAndHeard
<1> QED BY <1>4, <1>5, <1>6, <1>7, <1>8 DEF RemoteIInv

\* The envelope goes to a route that there is.
LEMMA ForwardKeeps == ASSUME RemoteIInv, Forward PROVE RemoteIInv'
<1> DEFINE n == incoming.node
<1>1. n \in Nodes /\ <<n, incoming.to>> \in heard /\ InHand /\ find.stage = "none"
  BY DEF Forward, RemoteIInv, RoutesHeard, FindIsAwaited, InHand
<1>2. CASE Up(n, incoming.to) /\ Forwarded(n) /\ UNCHANGED <<routes, find>>
  BY <1>1, <1>2, ForwardedKeeps DEF Forward, RemoteIInv, RoutesHeard, RemoteTypeOK
<1>3. CASE routes' = [routes EXCEPT ![n] = 0] /\ Retry /\ UNCHANGED <<inbox, fate>>
  <2>1. RemoteTypeOK'
    BY <1>1, <1>3 DEF Forward, Retry, RemoteIInv, RemoteTypeOK, Finding
  <2>2. FindIsAwaited' /\ RoutesHeard'
    BY <1>1, <1>3 DEF Forward, Retry, RemoteIInv, RemoteTypeOK, FindIsAwaited, RoutesHeard, Finding
  <2>3. Ordered'
    BY <1>1, <1>3 DEF Forward, Retry, RemoteIInv, RemoteTypeOK, Ordered, InHand
  <2>4. InOrderAndHeard'
    BY <1>3 DEF Forward, RemoteIInv, InOrderAndHeard
  <2> QED BY <2>1, <2>2, <2>3, <2>4 DEF RemoteIInv
<1> QED BY <1>2, <1>3 DEF Forward

\* The task asks for a route.
LEMMA DispatchKeeps == ASSUME RemoteIInv, Dispatch PROVE RemoteIInv'
<1> DEFINE n == incoming.node
<1>1. n \in Nodes /\ <<n, incoming.to>> \in heard /\ InHand /\ find.stage = "none" /\ incoming.to \in Nat
  BY DEF Dispatch, RemoteIInv, RoutesHeard, FindIsAwaited, InHand, RemoteTypeOK
<1>2. CASE Up(n, incoming.to) /\ routes' = [routes EXCEPT ![n] = incoming.to] /\ Forwarded(n)
  <2>1. routes' \in [Nodes -> Nat] /\ \A m \in Nodes : routes'[m] # 0 => <<m, routes'[m]>> \in heard
    BY <1>1, <1>2 DEF RemoteIInv, RemoteTypeOK, RoutesHeard
  <2> QED BY <1>1, <1>2, <2>1, ForwardedKeeps DEF Dispatch
<1>3. CASE incoming' = Idle /\ UNCHANGED <<routes, inbox>>
  <2>1. RemoteTypeOK' /\ FindIsAwaited' /\ RoutesHeard'
    BY <1>1, <1>3 DEF Dispatch, RemoteIInv, RemoteTypeOK, FindIsAwaited, RoutesHeard, Idle
  <2>2. Ordered' /\ InOrderAndHeard'
    BY <1>1, <1>3 DEF Dispatch, RemoteIInv, RemoteTypeOK, Ordered, InHand, InOrderAndHeard, Idle
  <2> QED BY <2>1, <2>2 DEF RemoteIInv
<1> QED BY <1>2, <1>3 DEF Dispatch

\* The route is there, and the envelope goes with it.
LEMMA ConnectKeeps == ASSUME RemoteIInv, Connect PROVE RemoteIInv'
<1> DEFINE n == incoming.node
<1>1. /\ find' = [stage |-> "none", to |-> 0]
      /\ UNCHANGED <<number, routes, agent, known, inbox, got>>
      /\ incoming.stage = "find"
      /\ \/ /\ find.stage = "connected" /\ heard' = heard \cup {<<n, find.to>>}
            /\ incoming' = [incoming EXCEPT !.stage = "connected", !.to = find.to]
         \/ heard' = heard /\ incoming' \in {Idle, Ended}
  BY DEF Connect, Finding, Register, EndIncoming, agentVars
<1>2. CASE /\ find.stage = "connected" /\ heard' = heard \cup {<<n, find.to>>}
           /\ incoming' = [incoming EXCEPT !.stage = "connected", !.to = find.to]
  <2>1. n \in Nodes /\ find.to \in Nat /\ incoming'.node = n /\ incoming'.to = find.to
        /\ incoming'.id = incoming.id /\ incoming'.stage = "connected" /\ InHand
    BY <1>1, <1>2 DEF RemoteIInv, FindIsAwaited, RemoteTypeOK, InHand
  <2>2. RemoteTypeOK'
    BY <1>1, <1>2, <2>1 DEF RemoteIInv, RemoteTypeOK
  <2>3. FindIsAwaited' /\ RoutesHeard'
    BY <1>1, <1>2, <2>1 DEF RemoteIInv, FindIsAwaited, RoutesHeard
  <2>4. Ordered' /\ InOrderAndHeard'
    BY <1>1, <1>2, <2>1 DEF RemoteIInv, Ordered, InHand, InOrderAndHeard
  <2> QED BY <2>2, <2>3, <2>4 DEF RemoteIInv
<1>3. CASE heard' = heard /\ incoming' \in {Idle, Ended}
  <2>1. RemoteTypeOK'
    BY <1>1, <1>3 DEF RemoteIInv, RemoteTypeOK, Idle, Ended
  <2>2. FindIsAwaited' /\ RoutesHeard' /\ ~InHand'
    BY <1>1, <1>3 DEF RemoteIInv, FindIsAwaited, RoutesHeard, InHand, Idle, Ended
  <2>3. Ordered' /\ InOrderAndHeard'
    BY <1>1, <1>3, <2>2 DEF RemoteIInv, Ordered, InOrderAndHeard
  <2> QED BY <2>1, <2>2, <2>3 DEF RemoteIInv
<1> QED BY <1>1, <1>2, <1>3

\* An instance is started: nothing is on its way to it.
LEMMA StartKeeps ==
  ASSUME RemoteIInv, NEW n \in Nodes, StartAgent(n),
         find' = find \/ (find.stage = "sent" /\ find' = Finding("attach", known'[n]) /\ n = incoming.node),
         UNCHANGED <<incoming, number, routes, got, heard>>
  PROVE  RemoteIInv'
<1>0. /\ agent' \in [Nodes -> [no : Nat, stage : {"none", "up", "closed"}]]
      /\ known' \in [Nodes -> Nat] /\ inbox' \in [Nodes -> Seq(Nat)]
      /\ \A m \in Nodes : m # n => agent'[m] = agent[m] /\ inbox'[m] = inbox[m]
      /\ inbox'[n] = <<>> /\ agent'[n].no = agent[n].no + 1
  BY DEF StartAgent, RemoteIInv, RemoteTypeOK
<1>1. RemoteTypeOK'
  <2>1. find' \in [stage : {"none", "sent", "attach", "connected", "notFound", "dropped"}, to : Nat]
    BY <1>0 DEF RemoteIInv, RemoteTypeOK, Finding
  <2> QED BY <1>0, <2>1 DEF RemoteIInv, RemoteTypeOK
<1>2. FindIsAwaited'
  BY DEF RemoteIInv, FindIsAwaited, Finding
<1>3. RoutesHeard'
  BY DEF StartAgent, RemoteIInv, RemoteTypeOK, RoutesHeard
<1>4. Ordered'
  <2>1. \A m \in Nodes : agent[m].no <= agent'[m].no /\ agent[m].no \in Nat /\ agent'[m].no \in Nat
    <3> SUFFICES ASSUME NEW m \in Nodes
                 PROVE  agent[m].no <= agent'[m].no /\ agent[m].no \in Nat /\ agent'[m].no \in Nat
      OBVIOUS
    <3>1. agent[m] \in [no : Nat, stage : {"none", "up", "closed"}]
      BY DEF RemoteIInv, RemoteTypeOK
    <3>2. agent[m].no \in Nat
      BY <3>1
    <3>3. agent'[m].no = agent[m].no \/ agent'[m].no = agent[m].no + 1
      BY <1>0
    <3> QED BY <3>2, <3>3
  <2>2. \A m \in Nodes : inbox'[m] = inbox[m] \/ inbox'[m] = <<>>
    BY <1>0
  <2>3. \A m \in Nodes : \A j \in DOMAIN got[m] : got[m][j].by \in Nat
    <3> SUFFICES ASSUME NEW m \in Nodes, NEW j \in DOMAIN got[m] PROVE got[m][j].by \in Nat
      OBVIOUS
    <3>1. got[m] \in Seq([id : Nat, by : Nat])
      BY DEF RemoteIInv, RemoteTypeOK
    <3>2. got[m][j] \in [id : Nat, by : Nat]
      BY <3>1, ElementOf
    <3> QED BY <3>2
  <2> QED BY <2>1, <2>2, <2>3 DEF RemoteIInv, Ordered, InHand
<1>5. InOrderAndHeard'
  BY DEF RemoteIInv, InOrderAndHeard
<1> QED BY <1>1, <1>2, <1>3, <1>4, <1>5 DEF RemoteIInv

\* The server looks for the agent.
LEMMA FindRouteKeeps == ASSUME RemoteIInv, FindRoute PROVE RemoteIInv'
<1> DEFINE n == incoming.node
<1>1. CASE n \in Nodes /\ known[n] = 0
  BY <1>1, StartKeeps, NodesAssumption DEF FindRoute
<1>2. CASE UNCHANGED <<agent, known, inbox>>
  <2>1. /\ find.stage = "sent"
        /\ find' = Finding("notFound", 0) \/ (n \in Nodes /\ find' = Finding("attach", known[n]))
        /\ UNCHANGED <<incoming, number, routes, agent, known, inbox, got, heard>>
    BY <1>2 DEF FindRoute
  <2>2. RemoteTypeOK'
    BY <2>1 DEF RemoteIInv, RemoteTypeOK, Finding
  <2>3. FindIsAwaited'
    BY <2>1 DEF RemoteIInv, FindIsAwaited, Finding
  <2> QED BY <2>1, <2>2, <2>3 DEF RemoteIInv, RoutesHeard, Ordered, InHand, InOrderAndHeard
<1> QED BY <1>1, <1>2 DEF FindRoute

\* An agent is started for another connection.
LEMMA StartForOtherKeeps == ASSUME RemoteIInv, NEW n \in Nodes, StartForOther(n) PROVE RemoteIInv'
BY StartKeeps DEF StartForOther

\* An agent reads.
LEMMA AgentReadsKeeps == ASSUME RemoteIInv, NEW n \in Nodes, AgentReads(n) PROVE RemoteIInv'
<1> DEFINE m == [id |-> Head(inbox[n]), by |-> agent[n].no]
           g == Len(got[n])
           b == Len(inbox[n])
<1>0. /\ inbox[n] \in Seq(Nat) /\ inbox[n] # <<>> /\ got[n] \in Seq([id : Nat, by : Nat])
      /\ agent[n].no \in Nat
      /\ got' = [got EXCEPT ![n] = Append(@, m)]
      /\ inbox' = [inbox EXCEPT ![n] = Tail(@)]
  BY DEF AgentReads, RemoteIInv, RemoteTypeOK
<1>1. /\ inbox[n] \in Seq(Nat) /\ inbox[n] # <<>> /\ got[n] \in Seq([id : Nat, by : Nat])
      /\ agent[n].no \in Nat /\ m \in [id : Nat, by : Nat]
      /\ got' = [got EXCEPT ![n] = Append(@, m)]
      /\ inbox' = [inbox EXCEPT ![n] = Tail(@)]
      /\ m.id = inbox[n][1] /\ m.by = agent[n].no
  BY <1>0
<1>2. /\ got'[n] = Append(got[n], m) /\ inbox'[n] = Tail(inbox[n])
      /\ \A x \in Nodes : x # n => got'[x] = got[x] /\ inbox'[x] = inbox[x]
  BY <1>1 DEF RemoteIInv, RemoteTypeOK
<1>3. /\ g \in Nat /\ DOMAIN got[n] = 1..g /\ DOMAIN got'[n] = 1..(g + 1)
      /\ \A k \in 1..g : got'[n][k] = got[n][k]
      /\ got'[n][g + 1] = m
  BY <1>1, <1>2
<1>4. /\ b \in Nat \ {0} /\ DOMAIN inbox[n] = 1..b /\ DOMAIN inbox'[n] = 1..(b - 1)
      /\ \A k \in 1..(b - 1) : inbox'[n][k] = inbox[n][k + 1]
  <2>1. Len(inbox[n]) \in Nat \ {0} /\ Len(Tail(inbox[n])) = Len(inbox[n]) - 1
        /\ Tail(inbox[n]) \in Seq(Nat) /\ DOMAIN inbox[n] = 1..Len(inbox[n])
        /\ DOMAIN Tail(inbox[n]) = 1..(Len(inbox[n]) - 1)
    BY <1>1
  <2>2. \A k \in 1..(Len(inbox[n]) - 1) : Tail(inbox[n])[k] = inbox[n][k + 1]
    BY <1>1
  <2> QED BY <1>2, <2>1, <2>2
<1>5. RemoteTypeOK'
  <2>1. Tail(inbox[n]) \in Seq(Nat) /\ Append(got[n], m) \in Seq([id : Nat, by : Nat])
    BY <1>1
  <2> DEFINE T == Tail(inbox[n])
             G == Append(got[n], m)
  <2>2. inbox' = [inbox EXCEPT ![n] = T] /\ got' = [got EXCEPT ![n] = G]
    BY <1>1
  <2> HIDE DEF T, G, m
  <2>3. T \in Seq(Nat) /\ G \in Seq([id : Nat, by : Nat])
    BY <2>1 DEF T, G
  <2>4. inbox' \in [Nodes -> Seq(Nat)] /\ got' \in [Nodes -> Seq([id : Nat, by : Nat])]
    BY <2>2, <2>3 DEF RemoteIInv, RemoteTypeOK
  <2> QED BY <2>4 DEF AgentReads, RemoteIInv, RemoteTypeOK
<1>6. FindIsAwaited' /\ RoutesHeard' /\ <<n, agent[n].no>> \in heard
  BY <1>1, <1>2 DEF AgentReads, RemoteIInv, FindIsAwaited, RoutesHeard
<1> HIDE DEF m, g, b
<1>7. Ordered'
  <2>0. UNCHANGED <<number, agent, incoming>> /\ number \in Nat /\ (InHand' <=> InHand)
    BY DEF AgentReads, InHand, RemoteIInv, RemoteTypeOK
  <2>1. \A k \in 1..(b - 1) :
          /\ inbox'[n][k] <= number /\ (InHand => inbox'[n][k] < number)
          /\ m.id < inbox'[n][k]
    <3> SUFFICES ASSUME NEW k \in 1..(b - 1)
                 PROVE  /\ inbox'[n][k] <= number /\ (InHand => inbox'[n][k] < number)
                        /\ m.id < inbox'[n][k]
      OBVIOUS
    <3>1. k + 1 \in 1..b /\ 1 \in 1..b /\ 1 < k + 1 /\ inbox'[n][k] = inbox[n][k + 1]
      BY <1>4
    <3> QED BY <3>1, <1>1, <1>4 DEF RemoteIInv, Ordered
  <2>2. \A j, k \in 1..(b - 1) : j < k => inbox'[n][j] < inbox'[n][k]
    <3> SUFFICES ASSUME NEW j \in 1..(b - 1), NEW k \in 1..(b - 1), j < k
                 PROVE  inbox'[n][j] < inbox'[n][k]
      OBVIOUS
    <3>1. k + 1 \in 1..b /\ j + 1 \in 1..b /\ j + 1 < k + 1
      BY <1>4
    <3> QED BY <3>1, <1>4 DEF RemoteIInv, Ordered
  <2>3. \A j \in 1..g : \A k \in 1..(b - 1) : got[n][j].id < inbox'[n][k]
    <3> SUFFICES ASSUME NEW j \in 1..g, NEW k \in 1..(b - 1) PROVE got[n][j].id < inbox'[n][k]
      OBVIOUS
    <3>1. k + 1 \in 1..b
      BY <1>4
    <3> QED BY <3>1, <1>3, <1>4 DEF RemoteIInv, Ordered
  <2>4. m.id <= number /\ (InHand => m.id < number) /\ m.by <= agent[n].no
    BY <1>1, <1>4 DEF RemoteIInv, Ordered
  <2>5. \A j \in 1..(g + 1) : j \in 1..g \/ j = g + 1
    BY <1>3
  <2>6. \A j \in DOMAIN got'[n] :
            /\ got'[n][j].id <= number /\ (InHand => got'[n][j].id < number)
            /\ got'[n][j].by <= agent[n].no
            /\ \A k \in DOMAIN inbox'[n] : got'[n][j].id < inbox'[n][k]
    <3>1. \A j \in 1..g : /\ got'[n][j].id <= number /\ (InHand => got'[n][j].id < number)
                          /\ got'[n][j].by <= agent[n].no
      BY <1>3 DEF RemoteIInv, Ordered
    <3>2. \A j \in 1..g : \A k \in 1..(b - 1) : got'[n][j].id < inbox'[n][k]
      BY <1>3, <2>3
    <3>3. \A k \in 1..(b - 1) : m.id < inbox'[n][k]
      BY <2>1
    <3> QED BY <1>3, <1>4, <2>4, <2>5, <3>1, <3>2, <3>3
  <2> QED BY <1>2, <1>4, <2>0, <2>1, <2>2, <2>6 DEF RemoteIInv, Ordered
<1>8. InOrderAndHeard'
  <2>1. \A j \in 1..g : got[n][j].id < m.id /\ got[n][j].by <= m.by
    <3>1. 1 \in DOMAIN inbox[n]
      BY <1>4
    <3> QED BY <1>1, <1>3, <3>1 DEF RemoteIInv, Ordered
  <2>2. \A k \in 1..(g + 1) :
          /\ k > 1 => got'[n][k - 1].id < got'[n][k].id /\ got'[n][k - 1].by <= got'[n][k].by
          /\ <<n, got'[n][k].by>> \in heard
    <3> SUFFICES ASSUME NEW k \in 1..(g + 1)
                 PROVE /\ k > 1 => got'[n][k - 1].id < got'[n][k].id /\ got'[n][k - 1].by <= got'[n][k].by
                       /\ <<n, got'[n][k].by>> \in heard
      OBVIOUS
    <3>1. CASE k = g + 1
      <4>1. k > 1 => k - 1 \in 1..g
        BY <3>1, <1>3
      <4> QED BY <3>1, <4>1, <2>1, <1>1, <1>3, <1>6
    <3>2. CASE k \in 1..g
      <4>1. k > 1 => k - 1 \in 1..g
        BY <3>2, <1>3
      <4> QED BY <3>2, <4>1, <1>3 DEF RemoteIInv, InOrderAndHeard
    <3> QED BY <3>1, <3>2, <1>3
  <2>3. heard' = heard
    BY DEF AgentReads
  <2> QED BY <2>2, <2>3, <1>2, <1>3 DEF RemoteIInv, InOrderAndHeard
<1> QED BY <1>5, <1>6, <1>7, <1>8 DEF RemoteIInv

\* The steps that leave alone what is on its way and what was received; an agent
\* that stops loses what was on its way to it.
LEMMA OthersKeep ==
  ASSUME RemoteIInv,
         \/ InputEnds \/ AttachAgent \/ FailRoute \/ StopPlane
         \/ \E n \in Nodes : AgentStops(n) \/ AgentStopped(n)
         \/ \E d \in Downlinks : AttachDownlink(d) \/ RegisterIncoming(d) \/ RegisterOutgoing(d) \/ Track(d)
         \/ OutputEnds \/ Kill \/ RegistrarEnds \/ UNCHANGED remoteVars
  PROVE  RemoteIInv'
<1>1. CASE InputEnds
  BY <1>1 DEF InputEnds, EndIncoming, RemoteIInv, RemoteTypeOK, FindIsAwaited, RoutesHeard, Ordered, InHand,
              InOrderAndHeard, Ended, Idle, agentVars
<1>2. CASE AttachAgent \/ FailRoute
  <2>1. /\ find.stage \in {"attach", "sent"}
        /\ \/ find.stage = "attach" /\ find' = [find EXCEPT !.stage = "connected"]
           \/ find' = [find EXCEPT !.stage = "dropped"]
           \/ find' = [find EXCEPT !.stage = "notFound"]
        /\ UNCHANGED <<incoming, number, routes, agent, known, inbox, got, heard>>
    BY <1>2 DEF AttachAgent, FailRoute, agentVars
  <2>2. RemoteTypeOK' /\ FindIsAwaited'
    BY <2>1 DEF RemoteIInv, RemoteTypeOK, FindIsAwaited
  <2> QED BY <2>1, <2>2 DEF RemoteIInv, RoutesHeard, Ordered, InHand, InOrderAndHeard
<1>3. ASSUME NEW n \in Nodes, AgentStops(n) PROVE RemoteIInv'
  <2>2. \A m \in Nodes : agent'[m].no = agent[m].no /\ (inbox'[m] = inbox[m] \/ inbox'[m] = <<>>)
    BY <1>3 DEF AgentStops, RemoteIInv, RemoteTypeOK
  <2>4. RemoteTypeOK'
    <3>1. agent' = [agent EXCEPT ![n].stage = "closed"] /\ inbox' = [inbox EXCEPT ![n] = <<>>]
      BY <1>3 DEF AgentStops
    <3>2. agent' \in [Nodes -> [no : Nat, stage : {"none", "up", "closed"}]]
      BY <3>1 DEF RemoteIInv, RemoteTypeOK
    <3>3. inbox' \in [Nodes -> Seq(Nat)]
      BY <3>1 DEF RemoteIInv, RemoteTypeOK
    <3> QED BY <1>3, <3>2, <3>3 DEF AgentStops, RemoteIInv, RemoteTypeOK
  <2>1. RemoteTypeOK' /\ FindIsAwaited' /\ RoutesHeard'
    BY <1>3, <2>2, <2>4 DEF AgentStops, RemoteIInv, FindIsAwaited, RoutesHeard
  <2>3. Ordered' /\ InOrderAndHeard'
    BY <1>3, <2>2 DEF AgentStops, RemoteIInv, Ordered, InHand, InOrderAndHeard
  <2> QED BY <2>1, <2>3 DEF RemoteIInv
<1>4. ASSUME NEW n \in Nodes, AgentStopped(n) PROVE RemoteIInv'
  <2>1. RemoteTypeOK' /\ FindIsAwaited' /\ RoutesHeard'
    BY <1>4 DEF AgentStopped, RemoteIInv, RemoteTypeOK, FindIsAwaited, RoutesHeard
  <2>2. \A m \in Nodes : agent'[m].no = agent[m].no
    BY <1>4 DEF AgentStopped, RemoteIInv, RemoteTypeOK
  <2>3. Ordered' /\ InOrderAndHeard'
    BY <1>4, <2>2 DEF AgentStopped, RemoteIInv, Ordered, InHand, InOrderAndHeard
  <2> QED BY <2>1, <2>3 DEF RemoteIInv
<1>5. ASSUME UNCHANGED <<incoming, number, routes, find, agent, known, inbox, got, heard>> PROVE RemoteIInv'
  BY <1>5 DEF RemoteIInv, RemoteTypeOK, FindIsAwaited, RoutesHeard, Ordered, InHand, InOrderAndHeard
<1> QED BY <1>1, <1>2, <1>3, <1>4, <1>5
        DEF StopPlane, AttachDownlink, RegisterIncoming, RegisterOutgoing, Track, OutputEnds, Kill,
            RegistrarEnds, remoteVars, agentVars

\* Every step keeps the invariant.
LEMMA NextKeepsRemote == RemoteIInv /\ [RemoteNext]_remoteVars => RemoteIInv'
BY EnvelopeKeeps, ForwardKeeps, ConnectKeeps, DispatchKeeps, FindRouteKeeps, StartForOtherKeeps,
   AgentReadsKeeps, OthersKeep DEF RemoteNext

(***************************************************************************)
(* The instances of a node receive the envelopes for it in the order they  *)
(* came in and each at most once, and nothing is sent to an instance whose *)
(* responses are not read (IncomingTask::run, connect_agent_route).        *)
(***************************************************************************)
THEOREM EnvelopesInOrder == RemoteSpec => []InOrderAndHeard
<1>1. RemoteIInv => InOrderAndHeard
  BY DEF RemoteIInv
<1> QED BY RemoteInitOK, NextKeepsRemote, <1>1, PTL DEF RemoteSpec

-----------------------------------------------------------------------------
(* The connector for downlinks.                                            *)

\* Where a request waits, what a runtime is, and how far a new connection has come.
Places == {"host", "socket", "local", "attach", "cmd", "cmdLocal"}
Waiting == [in : Places, on : Runtimes \cup Sockets \cup {None}, for : Forms]
AtRest == Settled \cup {Unused}
DlMap == [Lanes -> Runtimes \cup {None}]
RunRecord ==
  [stage : {"asking", "accepted", "refused", "up", "ended"}, addr : Addrs \cup {Local}, lane : Lanes,
   tx : Sockets \cup {None}]
FlowRecord ==
  [in : {"none", "resolve", "register", "opening", "ready", "refused"}, on : Sockets \cup {None}]

\* The variables of the connector are of their types.
ConnTypeOK ==
  /\ at \in [Requests -> Waiting \cup AtRest]
  /\ flow \in [Hosts -> FlowRecord]
  /\ clients \in [Addrs -> [tx : Sockets \cup {None}, dls : DlMap]]
  /\ locals \in DlMap
  /\ run \in [Runtimes -> RunRecord \cup {Free}]
  /\ channels \in [Addrs -> Sockets \cup {None}]
  /\ socket \in [Sockets -> [stage : {"free", "up", "ended", "gone"}, addr : Addrs \cup {None}]]
  /\ task \in {"loop", "draining", "stopped"}

\* The loop of the task leaves nothing but its futures, and the end of the task not even
\* these; the server goes on only then.
EndsInOrder ==
  /\ task # "loop" =>
       /\ clients = [a \in Addrs |-> NoClient] /\ locals = NoDls
       /\ \A r \in Requests : at[r].in \notin {"host", "socket", "local"}
  /\ task = "stopped" =>
       /\ \A i \in Runtimes : run[i] = Free
       /\ \A r \in Requests : at[r] \in AtRest
  /\ server \in {"stoppingAgents", "stoppingRemotes", "stopped"} => task = "stopped"

\* What waits for a connection to start its runtime is a request for a downlink.
ForDownlinks == \A r \in Requests : at[r].in = "socket" => at[r].for.type = "downlink"

\* The inductive invariant of the connector.
ConnIInv == ConnTypeOK /\ HandlesCurrent /\ EndsInOrder /\ ForDownlinks

\* What is in a record that waits, and in one that does not.
LEMMA WaitingRecord == \A x \in Waiting : x.in \in Places /\ x.for \in Forms
BY DEF Waiting

\* ... and in one that does not wait any more.
LEMMA RestRecord == \A x \in AtRest : x.in \in {"answered", "dropped", "unused"}
BY DEF AtRest, Settled, Answered, Dropped, Unused

\* What a request asks for.
LEMMA FormRecord ==
  \A f \in Forms : /\ f.host \in Hosts \cup {Local}
                   /\ f.type \in {"downlink", "commander"}
                   /\ f.type = "downlink" => f.lane \in Lanes
BY DEF Forms

\* A number that is free is of no runtime.
LEMMA FreeOrNot == Free.stage = "free" /\ \A x \in RunRecord : x.stage # "free" /\ x # Free
<1>1. Free.stage = "free"
  BY DEF Free
<1>2. \A x \in RunRecord : x.stage # "free"
  BY DEF RunRecord
<1> QED BY <1>1, <1>2

\* A request that waits at one of the places is a record with a place.
LEMMA AtPlace ==
  ASSUME ConnTypeOK, NEW r \in Requests, at[r].in \in Places
  PROVE  at[r] \in Waiting
BY WaitingRecord, RestRecord, FormRecord DEF ConnTypeOK, Places

\* The invariant holds when the server starts.
LEMMA ConnInitOK == ConnInit => ConnIInv
<1> SUFFICES ASSUME ConnInit PROVE ConnIInv
  OBVIOUS
<1>1. NoDls \in DlMap /\ \A l \in Lanes : NoDls[l] = None
  BY DEF NoDls, DlMap
<1>2. ConnTypeOK
  BY <1>1 DEF ConnInit, ConnTypeOK, AtRest, FlowRecord, In, NoClient
<1>3. HandlesCurrent
  BY <1>1 DEF ConnInit, HandlesCurrent, Handle, NoClient
<1> QED BY <1>2, <1>3 DEF ConnIInv, EndsInOrder, ForDownlinks, ConnInit, Unused

\* Runtimes that are started had no stage: those that there are stay as they are.
LEMMA StartKeepsRuntimes ==
  ASSUME ConnTypeOK, NEW a \in Addrs \cup {Local}, NEW ls \in SUBSET Lanes, NEW s \in Sockets \cup {None},
         Start(a, ls, s)
  PROVE  /\ run' \in [Runtimes -> RunRecord \cup {Free}]
         /\ \A i \in Runtimes : run[i] # Free => run'[i] = run[i]
<1> DEFINE Distinct(f) == \A l, k \in ls : f[l] = f[k] => l = k
           ids == {f \in [ls -> FreeIds] : Distinct(f)}
           id == CHOOSE f \in ids : TRUE
           new(i) == [stage |-> "asking", addr |-> a, lane |-> CHOOSE l \in ls : id[l] = i, tx |-> s]
<1>1. ids # {} /\ run' = [i \in Runtimes |-> IF \E l \in ls : id[l] = i THEN new(i) ELSE run[i]]
  BY Zenon DEF Start
<1>2. id \in [ls -> FreeIds]
  BY <1>1
<1> HIDE DEF id
<1>3. \A i \in Runtimes : (\E l \in ls : id[l] = i) => run[i] = Free /\ new(i) \in RunRecord
  <2> SUFFICES ASSUME NEW i \in Runtimes, \E l \in ls : id[l] = i
               PROVE  run[i] = Free /\ new(i) \in RunRecord
    OBVIOUS
  <2>1. (CHOOSE l \in ls : id[l] = i) \in Lanes
    OBVIOUS
  <2>2. i \in FreeIds
    BY <1>2
  <2> QED BY <2>1, <2>2 DEF FreeIds, RunRecord
<1> HIDE DEF new
<1>4. \A i \in Runtimes : run'[i] = IF \E l \in ls : id[l] = i THEN new(i) ELSE run[i]
  BY <1>1
<1>5. \A i \in Runtimes : run'[i] \in RunRecord \cup {Free} /\ (run[i] # Free => run'[i] = run[i])
  BY <1>3, <1>4 DEF ConnTypeOK
<1>6. run' \in [Runtimes -> RunRecord \cup {Free}]
  BY <1>1, <1>5, Zenon
<1> QED BY <1>5, <1>6

\* Handles stay current as long as no runtime in one is freed, and entries only go.
LEMMA HandlesKept ==
  ASSUME ConnTypeOK, HandlesCurrent,
         \A i \in Runtimes : run[i].stage \in {"up", "ended"} =>
           run'[i].stage \in {"up", "ended"} /\ run'[i].addr = run[i].addr /\ run'[i].lane = run[i].lane,
         \A a \in Addrs, l \in Lanes : clients'[a].dls[l] \in {clients[a].dls[l], None},
         \A l \in Lanes : locals'[l] \in {locals[l], None}
  PROVE  HandlesCurrent'
<1> SUFFICES ASSUME NEW a \in Addrs \cup {Local}, NEW l \in Lanes, Handle(a)[l]' # None
             PROVE  LET i == Handle(a)[l]'
                    IN  run'[i].stage \in {"up", "ended"} /\ run'[i].addr = a /\ run'[i].lane = l
  BY DEF HandlesCurrent
<1>1. Handle(a)[l]' = Handle(a)[l]
  BY DEF Handle
<1>2. Handle(a)[l] \in Runtimes
  <2>1. locals[l] \in Runtimes \cup {None} /\ (a # Local => clients[a].dls[l] \in Runtimes \cup {None})
    BY DEF ConnTypeOK, DlMap
  <2> QED BY <1>1, <2>1 DEF Handle
<1> QED BY <1>1, <1>2 DEF HandlesCurrent

\* A step of the loop disturbs nothing of the order in which things end.
LEMMA LoopKeeps ==
  ASSUME ConnIInv, task = "loop", UNCHANGED <<channels, socket, task, server>>,
         at' \in [Requests -> Waiting \cup AtRest], flow' \in [Hosts -> FlowRecord],
         clients' \in [Addrs -> [tx : Sockets \cup {None}, dls : DlMap]], locals' \in DlMap,
         run' \in [Runtimes -> RunRecord \cup {Free}], HandlesCurrent', ForDownlinks'
  PROVE  ConnIInv'
BY DEF ConnIInv, ConnTypeOK, EndsInOrder

\* One that starts runtimes at most, and may begin the handle of an address again.
LEMMA LoopStarts ==
  ASSUME ConnIInv, task = "loop", UNCHANGED <<channels, socket, task, server, locals>>,
         at' \in [Requests -> Waiting \cup AtRest], flow' \in [Hosts -> FlowRecord],
         \/ clients' = clients
         \/ \E a \in Addrs, s \in Sockets \cup {None} : clients' = [clients EXCEPT ![a] = [tx |-> s, dls |-> NoDls]],
         run' \in [Runtimes -> RunRecord \cup {Free}],
         \A i \in Runtimes : run[i] # Free => run'[i] = run[i], ForDownlinks'
  PROVE  ConnIInv'
<1>1. NoDls \in DlMap /\ \A l \in Lanes : NoDls[l] = None
  BY DEF NoDls, DlMap
<1>2. clients' \in [Addrs -> [tx : Sockets \cup {None}, dls : DlMap]]
  BY <1>1 DEF ConnIInv, ConnTypeOK
<1>3. \A a \in Addrs, l \in Lanes : clients'[a].dls[l] \in {clients[a].dls[l], None}
  BY <1>1 DEF ConnIInv, ConnTypeOK
<1>4. \A i \in Runtimes : run[i].stage \in {"up", "ended"} => run'[i] = run[i]
  BY FreeOrNot
<1>5. HandlesCurrent'
  BY <1>3, <1>4, HandlesKept DEF ConnIInv
<1> QED BY <1>2, <1>5, LoopKeeps DEF ConnIInv, ConnTypeOK

\* A request comes in.
LEMMA RequestKeeps ==
  ASSUME ConnIInv, NEW r \in Requests, NEW f \in Forms, Request(r, f) PROVE ConnIInv'
<1>1. f.host \in Hosts \cup {Local} /\ (f.type = "downlink" => f.lane \in Lanes)
  BY WaitingRecord, RestRecord, FormRecord
<1>2. task = "loop" /\ UNCHANGED <<clients, locals, channels, socket, task, server>>
  BY DEF Request
<1>3. ASSUME NEW p \in Places, NEW o \in Runtimes \cup Sockets \cup {None},
             at' = [at EXCEPT ![r] = [in |-> p, on |-> o, for |-> f]]
      PROVE  at' \in [Requests -> Waiting \cup AtRest] /\ (p # "socket" => ForDownlinks')
  BY <1>3 DEF ConnIInv, ConnTypeOK, Waiting, ForDownlinks
<1>4. CASE RequestRemote(r, f)
  <2>1. at' \in [Requests -> Waiting \cup AtRest] /\ ForDownlinks'
    BY <1>3, <1>4 DEF RequestRemote, Places
  <2>2. flow' \in [Hosts -> FlowRecord]
    BY <1>4 DEF RequestRemote, In, FlowRecord, ConnIInv, ConnTypeOK
  <2> QED BY <1>2, <1>4, <2>1, <2>2, LoopStarts DEF RequestRemote, ConnIInv, ConnTypeOK
<1>5. CASE RequestLocal(r, f)
  <2>0. f.lane \in Lanes /\ locals[f.lane] \in Runtimes \cup {None} /\ flow' \in [Hosts -> FlowRecord]
    BY <1>1, <1>5 DEF RequestLocal, ConnIInv, ConnTypeOK, DlMap
  <2>1. at' \in [Requests -> Waiting \cup AtRest] /\ ForDownlinks'
    BY <1>3, <1>5, <2>0 DEF RequestLocal, Places
  <2>2. /\ run' \in [Runtimes -> RunRecord \cup {Free}]
        /\ \A i \in Runtimes : run[i] # Free => run'[i] = run[i]
    <3>1. CASE Start(Local, {f.lane}, None)
      BY <2>0, <3>1, StartKeepsRuntimes DEF ConnIInv
    <3>2. CASE UNCHANGED run
      BY <3>2 DEF ConnIInv, ConnTypeOK
    <3> QED BY <3>1, <3>2, <1>5 DEF RequestLocal
  <2> QED BY <1>2, <2>0, <2>1, <2>2, LoopStarts
<1>6. CASE RequestCommander(r, f)
  <2>1. at' \in [Requests -> Waiting \cup AtRest] /\ ForDownlinks'
    BY <1>3, <1>6 DEF RequestCommander, Places
  <2> QED BY <1>2, <1>6, <2>1, LoopStarts DEF RequestCommander, ConnIInv, ConnTypeOK
<1> QED BY <1>4, <1>5, <1>6 DEF Request

\* A host cannot be resolved.
LEMMA HostFailsKeeps == ASSUME ConnIInv, NEW h \in Hosts, HostFails(h) PROVE ConnIInv'
<1>1. at' \in [Requests -> Waiting \cup AtRest] /\ ForDownlinks'
  BY DEF HostFails, ConnIInv, ConnTypeOK, AtRest, Settled, ForDownlinks, Answered
<1>2. flow' \in [Hosts -> FlowRecord]
  BY DEF HostFails, In, FlowRecord, ConnIInv, ConnTypeOK
<1> QED BY <1>1, <1>2, LoopStarts DEF HostFails, ConnIInv, ConnTypeOK

\* The requests for a host wait for something of that host.
LEMMA ForHostWaits ==
  ASSUME ConnTypeOK, NEW h
  PROVE  /\ \A r \in ForHost(h) : r \in Requests /\ at[r] \in Waiting
         /\ \A r \in ForHost(h) : at[r].for.type = "downlink" => at[r].for.lane \in Lanes
<1>1. \A r \in ForHost(h) : r \in Requests /\ at[r] \in Waiting
  BY AtPlace DEF ForHost, Places
<1> QED BY <1>1, WaitingRecord, RestRecord, FormRecord

\* A request that waits may go on to another place.
LEMMA MovedWaits ==
  ASSUME NEW r \in Requests, at[r] \in Waiting, NEW p \in Places, NEW o \in Runtimes \cup Sockets \cup {None}
  PROVE  Moved(r, p, o) \in Waiting /\ Moved(r, p, o).in = p /\ Moved(r, p, o).for = at[r].for
BY DEF Moved, Waiting

\* A host is resolved, and there is a connection to it.
LEMMA ResolvedOpenKeeps == ASSUME ConnIInv, NEW h \in Hosts, ResolvedOpen(h) PROVE ConnIInv'
<1> DEFINE a == Resolve[h]
           c == clients[a]
           new == {at[r].for.lane : r \in {q \in ForHost(h) : at[q].for.type = "downlink" /\ c.dls[at[q].for.lane] = None}}
<1>1. a \in Addrs /\ c.tx \in Sockets \cup {None} /\ c.dls \in DlMap
  BY ResolveAssumption DEF ConnIInv, ConnTypeOK
<1>2. new \in SUBSET Lanes
  BY ForHostWaits DEF ConnIInv
<1>3. at' = [r \in Requests |->
                  IF r \notin ForHost(h) THEN at[r]
                  ELSE IF at[r].for.type = "commander" THEN Moved(r, "cmd", c.tx)
                  ELSE IF at[r].for.lane \in new THEN Moved(r, "socket", None)
                  ELSE Moved(r, "attach", c.dls[at[r].for.lane])]
      /\ Start(a, new, c.tx)
  BY DEF ResolvedOpen
<1> HIDE DEF new, a, c
<1>4. \A r \in Requests : at'[r] \in Waiting \cup AtRest /\ (at'[r].in = "socket" => at'[r].for.type = "downlink")
  <2> SUFFICES ASSUME NEW r \in Requests
               PROVE at'[r] \in Waiting \cup AtRest /\ (at'[r].in = "socket" => at'[r].for.type = "downlink")
    OBVIOUS
  <2>1. CASE r \notin ForHost(h)
    BY <1>3, <2>1 DEF ConnIInv, ConnTypeOK, ForDownlinks
  <2>2. CASE r \in ForHost(h)
    <3>1. at[r] \in Waiting /\ at[r].for \in Forms
      BY <2>2, ForHostWaits, WaitingRecord, RestRecord, FormRecord DEF ConnIInv
    <3>2. at[r].for.type # "commander" => c.dls[at[r].for.lane] \in Runtimes \cup {None}
      BY <3>1, <1>1, WaitingRecord, RestRecord, FormRecord DEF DlMap
    <3>3. \/ at[r].for.type # "commander" /\ at'[r] = Moved(r, "socket", None)
          \/ at'[r] = Moved(r, "cmd", c.tx)
          \/ at[r].for.type # "commander" /\ at'[r] = Moved(r, "attach", c.dls[at[r].for.lane])
      BY <1>3, <2>2
    <3>4. at[r].for.type \in {"downlink", "commander"}
      BY <3>1, WaitingRecord, RestRecord, FormRecord
    <3> QED BY <3>1, <3>2, <3>3, <3>4, <1>1, MovedWaits DEF Places
  <2> QED BY <2>1, <2>2
<1>5. at' \in [Requests -> Waiting \cup AtRest] /\ ForDownlinks'
  BY <1>3, <1>4 DEF ForDownlinks
<1>6. /\ run' \in [Runtimes -> RunRecord \cup {Free}]
      /\ \A i \in Runtimes : run[i] # Free => run'[i] = run[i]
  BY <1>1, <1>2, <1>3, StartKeepsRuntimes DEF ConnIInv
<1>7. flow' \in [Hosts -> FlowRecord]
  BY DEF ResolvedOpen, In, FlowRecord, ConnIInv, ConnTypeOK
<1> QED BY <1>5, <1>6, <1>7, LoopStarts DEF ResolvedOpen

\* A connection has been made.
LEMMA NewClientKeeps == ASSUME ConnIInv, NEW h \in Hosts, NewClient(h) PROVE ConnIInv'
<1> DEFINE a == Resolve[h]
           s == flow[h].on
           ls == {at[r].for.lane : r \in {q \in Requests :
                    \/ q \in ForHost(h) /\ at[q].for.type = "downlink"
                    \/ at[q].in = "socket" /\ Resolve[at[q].for.host] = a}}
<1>1. a \in Addrs /\ s \in Sockets \cup {None}
  BY ResolveAssumption DEF ConnIInv, ConnTypeOK, FlowRecord
<1>2. ls \in SUBSET Lanes
  <2>1. ASSUME NEW q \in Requests, at[q].in = "socket" PROVE at[q].for.lane \in Lanes
    <3>1. at[q] \in Waiting /\ at[q].for.type = "downlink"
      BY <2>1, AtPlace DEF Places, ConnIInv, ForDownlinks
    <3> QED BY <3>1, WaitingRecord, RestRecord, FormRecord
  <2> QED BY <2>1, ForHostWaits DEF ConnIInv
<1>3. /\ at' = [r \in Requests |->
                  IF r \in Replaced(h) THEN Dropped
                  ELSE IF r \notin ForHost(h) THEN at[r]
                  ELSE IF at[r].for.type = "commander" THEN Moved(r, "cmd", s) ELSE Moved(r, "socket", None)]
      /\ Start(a, ls, s)
      /\ clients' = [clients EXCEPT ![a] = [tx |-> s, dls |-> NoDls]]
  BY DEF NewClient
<1> HIDE DEF ls, a, s
<1>4. \A r \in Requests : at'[r] \in Waiting \cup AtRest /\ (at'[r].in = "socket" => at'[r].for.type = "downlink")
  <2> SUFFICES ASSUME NEW r \in Requests
               PROVE at'[r] \in Waiting \cup AtRest /\ (at'[r].in = "socket" => at'[r].for.type = "downlink")
    OBVIOUS
  <2>1. CASE r \in Replaced(h)
    BY <1>3, <2>1 DEF AtRest, Settled, Dropped
  <2>2. CASE r \notin Replaced(h) /\ r \notin ForHost(h)
    BY <1>3, <2>2 DEF ConnIInv, ConnTypeOK, ForDownlinks
  <2>3. CASE r \notin Replaced(h) /\ r \in ForHost(h)
    <3>1. at[r] \in Waiting /\ at[r].for \in Forms
      BY <2>3, ForHostWaits, WaitingRecord, RestRecord, FormRecord DEF ConnIInv
    <3>2. at[r].for.type \in {"downlink", "commander"}
      BY <3>1, WaitingRecord, RestRecord, FormRecord
    <3>3. \/ at[r].for.type # "commander" /\ at'[r] = Moved(r, "socket", None)
          \/ at'[r] = Moved(r, "cmd", s)
      BY <1>3, <2>3
    <3> QED BY <3>1, <3>2, <3>3, <1>1, MovedWaits DEF Places
  <2> QED BY <2>1, <2>2, <2>3
<1>5. at' \in [Requests -> Waiting \cup AtRest] /\ ForDownlinks'
  BY <1>3, <1>4 DEF ForDownlinks
<1>6. /\ run' \in [Runtimes -> RunRecord \cup {Free}]
      /\ \A i \in Runtimes : run[i] # Free => run'[i] = run[i]
  BY <1>1, <1>2, <1>3, StartKeepsRuntimes DEF ConnIInv
<1>7. flow' \in [Hosts -> FlowRecord] /\ task = "loop" /\ UNCHANGED <<locals, channels, socket, task, server>>
  BY DEF NewClient, In, FlowRecord, ConnIInv, ConnTypeOK
<1> QED BY <1>1, <1>3, <1>5, <1>6, <1>7, LoopStarts

\* A request that is answered, or dropped, leaves its place.
LEMMA AnsweredKeeps ==
  ASSUME ConnIInv, NEW r \in Requests, NEW x \in Settled, at' = [at EXCEPT ![r] = x]
  PROVE  at' \in [Requests -> Waiting \cup AtRest] /\ ForDownlinks'
BY DEF ConnIInv, ConnTypeOK, AtRest, Settled, Answered, Dropped, ForDownlinks

\* A request is answered.
LEMMA AnswersKeep ==
  ASSUME ConnIInv, NEW r \in Requests, Attached(r) \/ CommanderAttached(r) \/ LocalAttached(r)
  PROVE  ConnIInv'
<1>1. at' \in [Requests -> Waiting \cup AtRest] /\ ForDownlinks'
  BY AnsweredKeeps DEF Attached, CommanderAttached, LocalAttached, Settled
<1>2. task = "loop" /\ UNCHANGED <<flow, clients, locals, run, channels, socket, task, server>>
  BY DEF Attached, CommanderAttached, LocalAttached
<1> QED BY <1>1, <1>2, LoopStarts DEF ConnIInv, ConnTypeOK

\* The answer comes too late for the client.
LEMMA ClientStoppedKeeps == ASSUME ConnIInv, NEW r \in Requests, ClientStopped(r) PROVE ConnIInv'
<1>1. task = "loop" /\ UNCHANGED <<locals, run, channels, socket, task, server>>
  BY DEF ClientStopped
<1>2. at[r] \in Waiting /\ at[r].for \in Forms
  BY AtPlace, WaitingRecord, RestRecord, FormRecord DEF ClientStopped, Places, ConnIInv
<1>3. at' \in [Requests -> Waiting \cup AtRest] /\ ForDownlinks'
  <2>1. Moved(r, "host", None) \in Waiting /\ Moved(r, "host", None).in = "host"
    BY <1>2, MovedWaits DEF Places
  <2> HIDE DEF Moved
  <2> QED BY <2>1 DEF ClientStopped, ConnIInv, ConnTypeOK, ForDownlinks
<1> DEFINE a == Resolve[at[r].for.host]
<1>4. clients' = [clients EXCEPT ![a] = [tx |-> None, dls |-> NoDls]]
  BY DEF ClientStopped, NoClient
<1>5. flow' \in [Hosts -> FlowRecord]
  BY DEF ClientStopped, AskAgain, In, FlowRecord, ConnIInv, ConnTypeOK
<1>6. a \in Addrs \/ clients' = clients
  BY <1>4 DEF ConnIInv, ConnTypeOK
<1> QED BY <1>1, <1>3, <1>4, <1>5, <1>6, LoopStarts DEF ConnIInv, ConnTypeOK

\* A host is resolved, and there is no connection to it.
LEMMA ResolvedNewKeeps == ASSUME ConnIInv, NEW h \in Hosts, ResolvedNew(h) PROVE ConnIInv'
<1>1. flow' \in [Hosts -> FlowRecord]
  BY DEF ResolvedNew, In, FlowRecord, ConnIInv, ConnTypeOK
<1> QED BY <1>1, LoopStarts DEF ResolvedNew, ConnIInv, ConnTypeOK, ForDownlinks

\* The stage of a runtime changes without the task having a part in it.
LEMMA StagesKeep ==
  ASSUME ConnIInv, NEW i \in Runtimes, StartAccepted(i) \/ StartRefused(i) \/ RuntimeEnds(i)
  PROVE  ConnIInv'
<1>1. PICK g \in {"accepted", "refused", "ended"} :
        /\ run' = [run EXCEPT ![i].stage = g]
        /\ run[i].stage \in {"asking", "up"} /\ (run[i].stage = "up" => g = "ended")
  BY DEF StartAccepted, StartRefused, RuntimeEnds
<1>2. UNCHANGED <<at, flow, clients, locals, channels, socket, task, server>>
  BY DEF StartAccepted, StartRefused, RuntimeEnds
<1>3. run[i] \in RunRecord
  BY <1>1, FreeOrNot DEF ConnIInv, ConnTypeOK
<1>4. run' \in [Runtimes -> RunRecord \cup {Free}]
  BY <1>1, <1>3 DEF ConnIInv, ConnTypeOK, RunRecord
<1>5. task # "stopped"
  BY <1>1, FreeOrNot DEF ConnIInv, EndsInOrder
<1>6. HandlesCurrent'
  <2>1. \A j \in Runtimes : run[j].stage \in {"up", "ended"} =>
           run'[j].stage \in {"up", "ended"} /\ run'[j].addr = run[j].addr /\ run'[j].lane = run[j].lane
    BY <1>1, <1>3 DEF ConnIInv, ConnTypeOK, RunRecord
  <2> QED BY <2>1, <1>2, HandlesKept DEF ConnIInv
<1> QED BY <1>2, <1>4, <1>5, <1>6 DEF ConnIInv, ConnTypeOK, EndsInOrder, ForDownlinks

\* What is in a handle is a runtime that runs, for that lane.
LEMMA InHandle ==
  ASSUME ConnIInv, NEW b \in Addrs \cup {Local}, NEW k \in Lanes, Handle(b)[k] # None
  PROVE  /\ Handle(b)[k] \in Runtimes /\ run[Handle(b)[k]].stage \in {"up", "ended"}
         /\ run[Handle(b)[k]].addr = b /\ run[Handle(b)[k]].lane = k
<1>1. Handle(b)[k] \in Runtimes
  <2>1. locals[k] \in Runtimes \cup {None} /\ (b # Local => clients[b].dls[k] \in Runtimes \cup {None})
    BY DEF ConnIInv, ConnTypeOK, DlMap
  <2> QED BY <2>1 DEF Handle
<1> QED BY <1>1 DEF ConnIInv, HandlesCurrent

\* What waits for a runtime is a request.
LEMMA ReadyAttached ==
  ASSUME ConnIInv, NEW i \in Runtimes, NEW r \in DlReady(i)
  PROVE  /\ Moved(r, "attach", i) \in Waiting /\ Moved(r, "attach", i).in = "attach"
<1>1. r \in Requests /\ at[r].in \in Places
  BY DEF DlReady, ForDl, Places
<1> QED BY <1>1, AtPlace, MovedWaits DEF ConnIInv, Places

\* A connection takes a runtime.
LEMMA RuntimeStartsKeeps == ASSUME ConnIInv, NEW i \in Runtimes, RuntimeStarts(i) PROVE ConnIInv'
<1> DEFINE a == run[i].addr
           l == run[i].lane
<1>1. /\ task = "loop" /\ run[i].stage = "accepted"
      /\ at' = [r \in Requests |-> IF r \in DlReady(i) THEN Moved(r, "attach", i) ELSE at[r]]
      /\ run' = [run EXCEPT ![i].stage = "up"]
      /\ clients' = IF a = Local THEN clients ELSE [clients EXCEPT ![a].dls[l] = i]
      /\ locals' = IF a = Local THEN [locals EXCEPT ![l] = i] ELSE locals
      /\ UNCHANGED <<flow, channels, socket, task, server>>
  BY DEF RuntimeStarts
<1>2. run[i] \in RunRecord
  BY <1>1, FreeOrNot DEF ConnIInv, ConnTypeOK
<1>3. a \in Addrs \cup {Local} /\ l \in Lanes
  BY <1>2 DEF RunRecord
<1>4. run' \in [Runtimes -> RunRecord \cup {Free}] /\ run'[i].stage = "up" /\ run'[i].addr = a /\ run'[i].lane = l
  BY <1>1, <1>2 DEF ConnIInv, ConnTypeOK, RunRecord
<1>5. at' \in [Requests -> Waiting \cup AtRest] /\ ForDownlinks'
  BY <1>1, ReadyAttached DEF ConnIInv, ConnTypeOK, ForDownlinks
<1>6. clients' \in [Addrs -> [tx : Sockets \cup {None}, dls : DlMap]] /\ locals' \in DlMap
  BY <1>1, <1>3 DEF ConnIInv, ConnTypeOK, DlMap
<1>7. HandlesCurrent'
  <2> SUFFICES ASSUME NEW b \in Addrs \cup {Local}, NEW k \in Lanes, Handle(b)[k]' # None
               PROVE  LET j == Handle(b)[k]'
                      IN  run'[j].stage \in {"up", "ended"} /\ run'[j].addr = b /\ run'[j].lane = k
    BY DEF HandlesCurrent
  <2>1. CASE b = a /\ k = l
    <3>1. Handle(b)[k]' = i
      BY <1>1, <1>3, <2>1, LocalAssumption DEF Handle, ConnIInv, ConnTypeOK, DlMap
    <3> QED BY <3>1, <2>1, <1>4
  <2>2. CASE ~(b = a /\ k = l)
    <3>1. Handle(b)[k]' = Handle(b)[k]
      BY <1>1, <1>3, <2>2 DEF Handle, ConnIInv, ConnTypeOK, DlMap
    <3>2. Handle(b)[k] \in Runtimes /\ run[Handle(b)[k]].stage \in {"up", "ended"}
      BY <3>1, InHandle
    <3>3. run'[Handle(b)[k]] = run[Handle(b)[k]]
      BY <3>2, <1>1
    <3> QED BY <3>1, <3>2, <3>3 DEF ConnIInv, HandlesCurrent
  <2> QED BY <2>1, <2>2
<1> QED BY <1>1, <1>4, <1>5, <1>6, <1>7, LoopKeeps DEF ConnIInv, ConnTypeOK

\* ... or refuses it.
LEMMA RuntimeFailsKeeps == ASSUME ConnIInv, NEW i \in Runtimes, RuntimeFails(i) PROVE ConnIInv'
<1>1. at' \in [Requests -> Waiting \cup AtRest] /\ ForDownlinks'
  BY DEF RuntimeFails, ConnIInv, ConnTypeOK, AtRest, Settled, ForDownlinks, Answered
<1>2. /\ task = "loop" /\ run[i].stage \in {"accepted", "refused"} /\ run' = [run EXCEPT ![i] = Free]
      /\ UNCHANGED <<flow, clients, locals, channels, socket, task, server>>
  BY DEF RuntimeFails
<1>3. run' \in [Runtimes -> RunRecord \cup {Free}]
  BY <1>2 DEF ConnIInv, ConnTypeOK
<1>4. HandlesCurrent'
  <2>1. \A j \in Runtimes : run[j].stage \in {"up", "ended"} => run'[j] = run[j]
    BY <1>2
  <2> QED BY <2>1, <1>2, HandlesKept DEF ConnIInv
<1> QED BY <1>1, <1>2, <1>3, <1>4, LoopKeeps DEF ConnIInv, ConnTypeOK

\* What is removed with a runtime is its own entry, and the handle at most.
LEMMA RuntimeTerminatedKeeps == ASSUME ConnIInv, NEW i \in Runtimes, RuntimeTerminated(i) PROVE ConnIInv'
<1> DEFINE a == run[i].addr
           l == run[i].lane
<1>1. /\ task = "loop" /\ run[i].stage = "ended"
      /\ run' = [run EXCEPT ![i] = Free]
      /\ clients' = IF a = Local THEN clients ELSE [clients EXCEPT ![a] = Deregistered(clients[a], l)]
      /\ locals' = IF a = Local THEN [locals EXCEPT ![l] = None] ELSE locals
      /\ UNCHANGED <<at, flow, channels, socket, task, server>>
  BY DEF RuntimeTerminated
<1>2. a \in Addrs \cup {Local} /\ l \in Lanes
  BY <1>1, FreeOrNot DEF ConnIInv, ConnTypeOK, RunRecord
<1>3. run' \in [Runtimes -> RunRecord \cup {Free}]
  BY <1>1 DEF ConnIInv, ConnTypeOK
<1>4. ASSUME a # Local
      PROVE  LET d == Deregistered(clients[a], l)
             IN  /\ d \in [tx : Sockets \cup {None}, dls : DlMap]
                 /\ d.dls[l] = None
                 /\ \A k \in Lanes : d.dls[k] \in {clients[a].dls[k], None}
  <2>1. clients[a] \in [tx : Sockets \cup {None}, dls : DlMap]
    BY <1>2, <1>4 DEF ConnIInv, ConnTypeOK
  <2>2. NoClient \in [tx : Sockets \cup {None}, dls : DlMap] /\ \A k \in Lanes : NoClient.dls[k] = None
    BY DEF NoClient, NoDls, DlMap
  <2> DEFINE d == [clients[a] EXCEPT !.dls[l] = None]
  <2>3. /\ d \in [tx : Sockets \cup {None}, dls : DlMap] /\ d.dls[l] = None
        /\ \A k \in Lanes : d.dls[k] \in {clients[a].dls[k], None}
    BY <2>1, <1>2 DEF DlMap
  <2>4. Deregistered(clients[a], l) \in {d, NoClient}
    BY DEF Deregistered
  <2> HIDE DEF d
  <2> QED BY <2>2, <2>3, <2>4, <1>2
<1>5. clients' \in [Addrs -> [tx : Sockets \cup {None}, dls : DlMap]] /\ locals' \in DlMap
  BY <1>1, <1>2, <1>4 DEF ConnIInv, ConnTypeOK, DlMap
<1>6. HandlesCurrent'
  <2> SUFFICES ASSUME NEW b \in Addrs \cup {Local}, NEW k \in Lanes, Handle(b)[k]' # None
               PROVE  LET j == Handle(b)[k]'
                      IN  run'[j].stage \in {"up", "ended"} /\ run'[j].addr = b /\ run'[j].lane = k
    BY DEF HandlesCurrent
  <2>1. Handle(b)[k]' = Handle(b)[k] /\ ~(b = a /\ k = l)
    BY <1>1, <1>2, <1>4 DEF Handle, ConnIInv, ConnTypeOK, DlMap
  <2>2. /\ Handle(b)[k] \in Runtimes /\ run[Handle(b)[k]].stage \in {"up", "ended"}
        /\ run[Handle(b)[k]].addr = b /\ run[Handle(b)[k]].lane = k
    BY <2>1, InHandle
  <2>3. Handle(b)[k] # i
    BY <2>1, <2>2
  <2>4. run'[Handle(b)[k]] = run[Handle(b)[k]]
    BY <2>2, <2>3, <1>1
  <2> QED BY <2>1, <2>2, <2>4
<1> QED BY <1>1, <1>3, <1>5, <1>6, LoopKeeps DEF ConnIInv, ConnTypeOK, ForDownlinks

\* The loop ends.
LEMMA EndLoopKeeps == ASSUME ConnIInv, NEW failed, task = "loop", EndLoop(failed) PROVE ConnIInv'
<1>1. NoDls \in DlMap /\ \A l \in Lanes : NoDls[l] = None
  BY DEF NoDls, DlMap
<1>2. \A r \in Requests :
         /\ at'[r] \in Waiting \cup AtRest
         /\ at'[r].in \notin {"host", "socket", "local"}
  <2> SUFFICES ASSUME NEW r \in Requests
               PROVE  at'[r] \in Waiting \cup AtRest /\ at'[r].in \notin {"host", "socket", "local"}
    OBVIOUS
  <2>1. at'[r] \in {Answered, Dropped} \/ (at'[r] = at[r] /\ at[r].in \notin {"host", "socket", "local"})
    BY DEF EndLoop
  <2> QED BY <2>1 DEF ConnIInv, ConnTypeOK, AtRest, Settled, Answered, Dropped
<1>3. at' \in [Requests -> Waiting \cup AtRest] /\ ForDownlinks'
  BY <1>2 DEF EndLoop, ForDownlinks
<1>4. clients' = [a \in Addrs |-> NoClient] /\ locals' = NoDls /\ task' = "draining"
      /\ UNCHANGED <<flow, run, channels, socket, server>>
  BY DEF EndLoop
<1>5. ConnTypeOK'
  BY <1>1, <1>3, <1>4 DEF ConnIInv, ConnTypeOK, NoClient
<1>6. HandlesCurrent'
  BY <1>1, <1>4 DEF HandlesCurrent, Handle, NoClient
<1>7. EndsInOrder'
  BY <1>2, <1>4 DEF ConnIInv, EndsInOrder
<1> QED BY <1>3, <1>5, <1>6, <1>7 DEF ConnIInv

\* A state in which the handles are empty holds no runtime to account for.
LEMMA EmptyHandles ==
  ASSUME clients = [a \in Addrs |-> NoClient], locals = NoDls, UNCHANGED <<clients, locals>>
  PROVE  HandlesCurrent'
BY DEF HandlesCurrent, Handle, NoClient, NoDls

\* The loop ends, and its futures are drained.
LEMMA DrainKeeps == ASSUME ConnIInv, Drain PROVE ConnIInv'
<1>1. /\ task = "draining" /\ UNCHANGED <<clients, locals, channels, socket, task, server>>
  BY DEF Drain
<1>2. HandlesCurrent'
  BY <1>1, EmptyHandles DEF ConnIInv, EndsInOrder
<1>3. ConnTypeOK' /\ ForDownlinks' /\ \A r \in Requests : at'[r].in \notin {"host", "socket", "local"}
  <2>1. ASSUME NEW r \in Requests, at' = [at EXCEPT ![r] = Dropped], UNCHANGED <<flow, run>>
        PROVE  ConnTypeOK' /\ ForDownlinks' /\ \A q \in Requests : at'[q].in \notin {"host", "socket", "local"}
    <3>1. at' \in [Requests -> Waiting \cup AtRest] /\ ForDownlinks'
      BY <2>1, AnsweredKeeps DEF Settled
    <3>2. \A q \in Requests : at'[q].in \notin {"host", "socket", "local"}
      BY <1>1, <2>1 DEF ConnIInv, ConnTypeOK, EndsInOrder, Dropped
    <3> QED BY <3>1, <3>2, <1>1, <2>1 DEF ConnIInv, ConnTypeOK
  <2>2. ASSUME NEW h \in Hosts, flow' = [flow EXCEPT ![h] = In("none")], UNCHANGED <<at, run>>
        PROVE  ConnTypeOK' /\ ForDownlinks' /\ \A q \in Requests : at'[q].in \notin {"host", "socket", "local"}
    <3>1. flow' \in [Hosts -> FlowRecord]
      BY <2>2 DEF In, FlowRecord, ConnIInv, ConnTypeOK
    <3> QED BY <3>1, <1>1, <2>2 DEF ConnIInv, ConnTypeOK, EndsInOrder, ForDownlinks
  <2>3. ASSUME NEW i \in Runtimes, run' = [run EXCEPT ![i] = Free], UNCHANGED <<at, flow>>
        PROVE  ConnTypeOK' /\ ForDownlinks' /\ \A q \in Requests : at'[q].in \notin {"host", "socket", "local"}
    <3>1. run' \in [Runtimes -> RunRecord \cup {Free}]
      BY <2>3 DEF ConnIInv, ConnTypeOK
    <3> QED BY <3>1, <1>1, <2>3 DEF ConnIInv, ConnTypeOK, EndsInOrder, ForDownlinks
  <2> QED BY <2>1, <2>2, <2>3 DEF Drain
<1> QED BY <1>1, <1>2, <1>3 DEF ConnIInv, EndsInOrder

\* The task stops when no request is left to its futures, and no runtime.
LEMMA StoppedKeeps == ASSUME ConnIInv, Stopped PROVE ConnIInv'
<1>1. /\ task = "draining" /\ task' = "stopped" /\ \A i \in Runtimes : run[i] = Free
      /\ UNCHANGED <<at, flow, clients, locals, run, channels, socket, server>>
  BY DEF Stopped
<1>2. ASSUME NEW r \in Requests PROVE at[r] \in AtRest
  <2>1. at[r].in \notin {"attach", "cmd", "cmdLocal"} /\ at[r].in \notin {"host", "socket", "local"}
    BY DEF Stopped, ConnIInv, EndsInOrder
  <2>2. at[r] \notin Waiting
    BY <2>1, WaitingRecord DEF Places
  <2> QED BY <2>2 DEF ConnIInv, ConnTypeOK
<1>3. HandlesCurrent'
  BY <1>1, EmptyHandles DEF ConnIInv, EndsInOrder
<1> QED BY <1>1, <1>2, <1>3 DEF ConnIInv, ConnTypeOK, EndsInOrder, ForDownlinks

\* The steps of the server and of the connections.
LEMMA ServerKeeps ==
  ASSUME ConnIInv,
         \/ \E h \in Hosts : RegisterClient(h) \/ OpenClient(h)
         \/ \E s \in Sockets : SocketEnds(s) \/ RemoteStopped(s)
         \/ StopServer \/ StopAgents \/ StopRemotes \/ StoppedServer \/ UNCHANGED connVars
  PROVE  ConnIInv'
<1>1. /\ UNCHANGED <<at, clients, locals, run, task>>
      /\ server' \in {"stoppingAgents", "stoppingRemotes", "stopped"} => task = "stopped"
  BY DEF RegisterClient, OpenClient, SocketEnds, RemoteStopped, StopServer, StopAgents, AwaitsDownlinks,
         StopRemotes, StoppedServer, connVars, ConnIInv, EndsInOrder
<1> DEFINE Sound == /\ flow \in [Hosts -> FlowRecord]
                     /\ channels \in [Addrs -> Sockets \cup {None}]
                     /\ socket \in [Sockets -> [stage : {"free", "up", "ended", "gone"}, addr : Addrs \cup {None}]]
<1>2. Sound'
  <2>1. ASSUME NEW h \in Hosts, RegisterClient(h) PROVE Sound'
    <3>1. Resolve[h] \in Addrs
      BY ResolveAssumption
    <3> QED BY <2>1, <3>1 DEF RegisterClient, In, On, FlowRecord, ConnIInv, ConnTypeOK
  <2>2. ASSUME NEW h \in Hosts, OpenClient(h) PROVE Sound'
    <3>1. Resolve[h] \in Addrs
      BY ResolveAssumption
    <3>2. CASE flow' = [flow EXCEPT ![h] = In("refused")] /\ UNCHANGED <<socket, channels>>
      BY <3>2 DEF In, FlowRecord, ConnIInv, ConnTypeOK
    <3>3. ASSUME NEW s \in Sockets, socket' = [socket EXCEPT ![s] = [stage |-> "up", addr |-> Resolve[h]]],
                 channels' = [channels EXCEPT ![Resolve[h]] = s], flow' = [flow EXCEPT ![h] = On("ready", s)]
          PROVE  Sound'
      <4>1. flow' \in [Hosts -> FlowRecord]
        BY <3>3 DEF On, FlowRecord, ConnIInv, ConnTypeOK
      <4>2. socket' \in [Sockets -> [stage : {"free", "up", "ended", "gone"}, addr : Addrs \cup {None}]]
        BY <3>1, <3>3 DEF ConnIInv, ConnTypeOK
      <4>3. channels' \in [Addrs -> Sockets \cup {None}]
        BY <3>3 DEF ConnIInv, ConnTypeOK
      <4> QED BY <4>1, <4>2, <4>3
    <3> QED BY <2>2, <3>2, <3>3 DEF OpenClient
  <2>3. ASSUME NEW s \in Sockets, SocketEnds(s) \/ RemoteStopped(s) PROVE Sound'
    <3>1. PICK g \in {"ended", "gone"} : socket' = [socket EXCEPT ![s].stage = g]
      BY <2>3 DEF SocketEnds, RemoteStopped
    <3>2. socket' \in [Sockets -> [stage : {"free", "up", "ended", "gone"}, addr : Addrs \cup {None}]]
      BY <3>1 DEF ConnIInv, ConnTypeOK
    <3>3. flow' = flow /\ channels' \in [Addrs -> Sockets \cup {None}]
      BY <2>3 DEF SocketEnds, RemoteStopped, ConnIInv, ConnTypeOK
    <3> QED BY <3>2, <3>3 DEF ConnIInv, ConnTypeOK
  <2>4. ASSUME UNCHANGED <<flow, channels, socket>> PROVE Sound'
    BY <2>4 DEF ConnIInv, ConnTypeOK
  <2> QED BY <2>1, <2>2, <2>3, <2>4 DEF StopServer, StopAgents, StopRemotes, StoppedServer, connVars
<1>3. HandlesCurrent'
  BY <1>1 DEF ConnIInv, HandlesCurrent, Handle
<1> QED BY <1>1, <1>2, <1>3 DEF ConnIInv, ConnTypeOK, EndsInOrder, ForDownlinks

\* Every step keeps the invariant.
LEMMA NextKeepsConn == ConnIInv /\ [ConnNext]_connVars => ConnIInv'
<1> SUFFICES ASSUME ConnIInv, [ConnNext]_connVars PROVE ConnIInv'
  OBVIOUS
<1>1. CASE StopLoop
  BY <1>1, EndLoopKeeps DEF StopLoop
<1>2. ASSUME NEW r \in Requests, LocalAttachFailed(r) PROVE ConnIInv'
  BY <1>2, EndLoopKeeps DEF LocalAttachFailed
<1> QED BY <1>1, <1>2, RequestKeeps, HostFailsKeeps, ResolvedOpenKeeps, NewClientKeeps, AnswersKeep,
           ClientStoppedKeeps, ResolvedNewKeeps, StagesKeep, RuntimeStartsKeeps, RuntimeFailsKeeps,
           RuntimeTerminatedKeeps, DrainKeeps, StoppedKeeps, ServerKeeps DEF ConnNext

(***************************************************************************)
(* What the connector has in a handle is a runtime that runs, or whose end *)
(* it has not seen, under the address and the lane it is for; and a server *)
(* goes on to stop its agents only when no runtime of a downlink is left   *)
(* and no request waits (DownlinkConnectionTask::run, remove, the stop of  *)
(* the loop of the server).                                                *)
(***************************************************************************)
THEOREM ConnectorOutlives == ConnSpec => []ConnectorInv
<1>1. ConnIInv => ConnectorInv
  BY DEF ConnIInv, ConnectorInv, StopsInOrder, EndsInOrder, AtRest
<1> QED BY ConnInitOK, NextKeepsConn, <1>1, PTL DEF ConnSpec

=============================================================================
