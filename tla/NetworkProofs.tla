--------------------------- MODULE NetworkProofs ---------------------------
(***************************************************************************)
(* Proofs about a node's part in the network of its channel.  RelayClient, *)
(* for any hosts, addresses and queue length: no host is retried at once   *)
(* and the callback is served.  BcstRouting, for any number of nodes, any  *)
(* arrangement and queues of any length: the node table can always be      *)
(* cleared, and in a tree no report reaches a node twice.                  *)
(***************************************************************************)
EXTENDS RelayClient, BcstRouting, TLAPS

-----------------------------------------------------------------------------
(* The relay client *)

Attempt == {"dial", "handshake", "setup", "hosts", "body", "quit", "unhook", "wait", "release", "decide"}
Serving == {"body", "quit", "unhook", "wait"}

(* What has been tried is ignored, or is the host of the present attempt; the  *)
(* one that is about to be dialled was selected because it is not ignored.     *)
TriedIgnored ==
  /\ tried \subseteq ignored \cup (IF pc \in Attempt \cup {"exited"} THEN {target} ELSE {})
  /\ pc = "connect" => target \notin ignored

(* The sender lives from Setup to WaitSender, is told to stop only after the   *)
(* callback is gone, and ends before that only with the connection.            *)
SenderServes ==
  /\ sender \in {"none", "first", "loop", "own", "queued", "ended"}
  /\ sender # "none" <=> pc \in Serving
  /\ upstreamBcst => pc \in Serving \ {"wait"}
  /\ bcstStop => pc = "wait"
  /\ sender = "ended" /\ ~bcstStop => conn = "closed"
  /\ receiving => pc \in Serving

RInv == TriedIgnored /\ SenderServes

-----------------------------------------------------------------------------
(* Every step keeps TriedIgnored: Decide adds a failed host to the ignored.    *)
LEMMA TriedStep == TriedIgnored /\ [RelayNext]_relayVars => TriedIgnored'
<1> SUFFICES ASSUME TriedIgnored, [RelayNext]_relayVars PROVE TriedIgnored'
  OBVIOUS
<1> USE DEF TriedIgnored, Attempt, loopVars, ctxVars, hostVars, senderVars
<1>1. CASE Return \/ Select
  BY <1>1 DEF Return, Select, Selectable, Scored
<1>2. CASE Connect
  BY <1>2 DEF Connect
<1>3. CASE Dial \/ Handshake \/ Setup
  BY <1>3 DEF Dial, Handshake, Setup, Fail
<1>4. CASE WriteQuit \/ Unhook \/ WaitSender \/ Release
  BY <1>4 DEF WriteQuit, Unhook, WaitSender, Release
<1>5. CASE Decide
  BY <1>5 DEF Decide, Outcome, Bumped, TryNext, TrackerFailed, Ignore
<1>6. CASE Watch \/ ReceiveHost \/ ReceivePacket \/ EndReceive
  BY <1>6 DEF Watch, ReceiveHost, ReceivePacket, EndReceive
<1>7. CASE Sender
  BY <1>7 DEF Sender, SendOwn, SendQueued, Sent, SendFails, SenderStops
<1>8. CASE Stop \/ Reconnect \/ ReadUpstream \/ CallUpstream
  BY <1>8 DEF Stop, Reconnect, ReadUpstream, CallUpstream
<1>9. CASE ExpireIgnored \/ ExpireNode
  BY <1>9 DEF ExpireIgnored, ExpireNode
<1>10. CASE UNCHANGED relayVars
  BY <1>10 DEF relayVars
<1> QED
  BY <1>1, <1>2, <1>3, <1>4, <1>5, <1>6, <1>7, <1>8, <1>9, <1>10 DEF RelayNext, Run, Exited

(* Every step keeps SenderServes: a failed write closes the connection. *)
LEMMA SenderStep == SenderServes /\ [RelayNext]_relayVars => SenderServes'
<1> SUFFICES ASSUME SenderServes, [RelayNext]_relayVars PROVE SenderServes'
  OBVIOUS
<1> USE DEF SenderServes, Serving, loopVars, ctxVars, hostVars, senderVars
<1>1. CASE Return \/ Select
  BY <1>1 DEF Return, Select
<1>2. CASE Connect
  BY <1>2 DEF Connect
<1>3. CASE Dial \/ Handshake \/ Setup
  BY <1>3 DEF Dial, Handshake, Setup, Fail
<1>4. CASE WriteQuit \/ Unhook \/ WaitSender \/ Release
  BY <1>4 DEF WriteQuit, Unhook, WaitSender, Release
<1>5. CASE Decide
  BY <1>5 DEF Decide, Outcome, Bumped, TryNext, TrackerFailed, Ignore
<1>6. CASE Watch \/ ReceiveHost \/ ReceivePacket \/ EndReceive
  BY <1>6 DEF Watch, ReceiveHost, ReceivePacket, EndReceive
<1>7. CASE Sender
  BY <1>7 DEF Sender, SendOwn, SendQueued, Sent, SendFails, SenderStops
<1>8. CASE Stop \/ Reconnect \/ ReadUpstream \/ CallUpstream
  BY <1>8 DEF Stop, Reconnect, ReadUpstream, CallUpstream
<1>9. CASE ExpireIgnored \/ ExpireNode
  BY <1>9 DEF ExpireIgnored, ExpireNode
<1>10. CASE UNCHANGED relayVars
  BY <1>10 DEF relayVars
<1> QED
  BY <1>1, <1>2, <1>3, <1>4, <1>5, <1>6, <1>7, <1>8, <1>9, <1>10 DEF RelayNext, Run, Exited

(* The inductive invariant holds in every reachable state. *)
THEOREM RelayClientInvariant == RelaySpec => []RInv
<1>1. RelayInit => RInv
  BY DEF RelayInit, RInv, TriedIgnored, SenderServes, Attempt, Serving
<1>2. RInv /\ [RelayNext]_relayVars => RInv'
  BY TriedStep, SenderStep DEF RInv
<1> QED
  BY <1>1, <1>2, PTL DEF RelaySpec

(* A host that failed is not dialled again before its time among the ignored   *)
(* is over, whatever HOST atoms arrive (client.go, Run; select.go).            *)
THEOREM NoHotRetryHolds == RelaySpec => []NoHotRetry
<1>1. RInv => NoHotRetry
  BY DEF RInv, TriedIgnored, NoHotRetry, Attempt
<1> QED
  BY <1>1, RelayClientInvariant, PTL

(* The callback of the channel always has a sender behind it or a closed       *)
(* connection, and neither outlives its attempt (client.go, connectTo).        *)
THEOREM UpstreamIsServed == RelaySpec => []UpstreamServed
<1>1. RInv => UpstreamServed
  BY DEF RInv, SenderServes, UpstreamServed, Serving
<1> QED
  BY <1>1, RelayClientInvariant, PTL

-----------------------------------------------------------------------------
(* Broadcasts *)

Groups == SUBSET {"trackers", "relays"}
Msgs == [kind : {"host", "info", "chan"}, from : Nodes, group : Groups,
         dest : Nodes \cup {None}, ttl : Int, hops : Int, v : Int]

(* Messages come from nodes, wherever they are. *)
Queued ==
  /\ toUp \in [Nodes -> Seq(Msgs)]
  /\ bcstCh \in [Nodes -> Seq(Msgs)]
  /\ toDown \in [Nodes -> Seq(Msgs)]
  /\ info \in [Nodes -> Int] /\ reports \in Int

(* A reader has a message of a connection that is not replaced before it is    *)
(* done with it: Close waits for readLoop.                                     *)
Reading ==
  /\ up \in [Nodes -> Nodes \cup {None}]
  /\ reader \in [Nodes -> [at : {"read", "stats", "owner", "forward"}, msg : Msgs \cup {None}]]
  /\ \A c \in Nodes : reader[c].at # "read" => up[c] \in Nodes /\ reader[c].msg \in Msgs
  /\ \A c \in infoToken : up[c] \in Nodes

Tabled ==
  /\ stats \in [Nodes -> SUBSET Nodes]
  /\ owners \in [Nodes -> [Nodes -> Nodes \cup {None}]]
  /\ CountedIsOwned

BInv == Queued /\ Reading /\ Tabled

-----------------------------------------------------------------------------
(* A message that a node makes is a message. *)
LEMMA MessageType ==
  ASSUME NEW n \in Nodes, NEW kind \in {"host", "info", "chan"}, NEW group \in Groups,
         NEW dest \in Nodes \cup {None}, NEW v \in Int
  PROVE  Message(n, kind, group, dest, v) \in Msgs
<1>1. InitialTTL \in Int
  BY RoutingAssumption
<1> QED
  BY <1>1 DEF Message, Msgs

(* So is one that is forwarded, with its TTL and hops changed. *)
LEMMA ForwardedType == \A m \in Msgs : Forwarded(m) \in Msgs
<1> TAKE m \in Msgs
<1>1. m.ttl - 1 \in Int /\ m.hops + 1 \in Int
  BY DEF Msgs
<1>2. \A x, y \in Int : [m EXCEPT !.ttl = x, !.hops = y] \in Msgs
  BY DEF Msgs
<1> QED
  BY <1>1, <1>2 DEF Forwarded

(* A broadcast puts the message at the end of queues. *)
LEMMA ForwardQueues ==
  ASSUME Queued, NEW n \in Nodes, NEW c, NEW m \in Msgs, Forward(n, c, m)
  PROVE  toUp' \in [Nodes -> Seq(Msgs)] /\ bcstCh' \in [Nodes -> Seq(Msgs)]
<1>1. CASE Forwards(m, n)
  <2>1. Forwarded(m) \in Msgs
    BY ForwardedType
  <2>2. toUp' = [toUp EXCEPT ![n] = IF GoesUp(n, c, Forwarded(m)) /\ ~Full(n, c, Forwarded(m))
                                    THEN Append(@, Forwarded(m)) ELSE @]
    BY <1>1 DEF Forward, Broadcast
  <2>3. bcstCh' = [d \in Nodes |-> IF d \in GoesDown(n, c, Forwarded(m)) \ Drops(n, c, Forwarded(m))
                                   THEN Append(bcstCh[d], Forwarded(m)) ELSE bcstCh[d]]
    BY <1>1 DEF Forward, Broadcast
  <2> QED
    BY <2>1, <2>2, <2>3 DEF Queued
<1>2. CASE ~Forwards(m, n)
  BY <1>2 DEF Forward, Queued
<1> QED
  BY <1>1, <1>2

(* What is taken from a queue, and what is left of it. *)
LEMMA HeadTail ==
  ASSUME NEW q \in Seq(Msgs), q # <<>>
  PROVE  Head(q) \in Msgs /\ Tail(q) \in Seq(Msgs)
  OBVIOUS

(* Messages are made of nodes, queued, forwarded and taken. *)
LEMMA QueuedStep ==
  ASSUME Queued, Reading, Next
  PROVE  Queued'
<1>1. ASSUME NEW n \in Nodes, NEW group \in Groups, NEW dest \in Nodes \cup {None},
             Originate(n, group, dest)
      PROVE  Queued'
  <2>1. reports + 1 \in Int /\ reports' = reports + 1
    BY <1>1 DEF Originate, Queued
  <2>2. Message(n, "host", group, dest, reports') \in Msgs
    BY <2>1, MessageType
  <2> QED
    BY <1>1, <2>1, <2>2 DEF Originate, Queued
<1>2. CASE UpdateInfo
  BY <1>2, RoutingAssumption DEF UpdateInfo, SetInfo, Queued, queues, budget
<1>3. ASSUME NEW c \in Below, ReadUp(c) PROVE Queued'
  BY <1>3, HeadTail DEF ReadUp, Queued, Below, budget
<1>4. ASSUME NEW c \in Below, Observe(c) PROVE Queued'
  BY <1>4 DEF Observe, Queued, queues, budget
<1>5. ASSUME NEW c \in Below, ForwardUp(c) PROVE Queued'
  <2>1. up[c] \in Nodes /\ reader[c].msg \in Msgs
    BY <1>5 DEF ForwardUp, Reading, Below
  <2>2. toUp' \in [Nodes -> Seq(Msgs)] /\ bcstCh' \in [Nodes -> Seq(Msgs)]
    BY <1>5, <2>1, ForwardQueues DEF ForwardUp
  <2> QED
    BY <1>5, <2>2 DEF ForwardUp, Queued, budget
<1>6. ASSUME NEW c \in Below, SendBcstAtom(c) PROVE Queued'
  BY <1>6, HeadTail DEF SendBcstAtom, Queued, Below, budget
<1>7. ASSUME NEW c \in Below, SendInfoUpdate(c) PROVE Queued'
  <2>0. up[c] \in Nodes
    BY <1>7 DEF SendInfoUpdate, Reading
  <2>1. info[up[c]] \in Int
    BY <2>0 DEF Queued
  <2>2. Message(up[c], IF up[c] = Tracker THEN "info" ELSE "chan", {"relays"}, None, info[up[c]]) \in Msgs
    BY <2>0, <2>1, MessageType DEF Groups
  <2> QED
    BY <1>7, <2>2 DEF SendInfoUpdate, Queued, Below, budget
<1>8. ASSUME NEW c \in Below, ReadDown(c) PROVE Queued'
  <2>1. c \in Nodes /\ Head(toDown[c]) \in Msgs /\ Tail(toDown[c]) \in Seq(Msgs)
    BY <1>8, HeadTail DEF ReadDown, Queued, Below
  <2>2. toUp' \in [Nodes -> Seq(Msgs)] /\ bcstCh' \in [Nodes -> Seq(Msgs)]
    BY <1>8, <2>1, ForwardQueues DEF ReadDown, Queued
  <2>3. Head(toDown[c]).v \in Int
    BY <2>1 DEF Msgs
  <2> QED
    BY <1>8, <2>1, <2>2, <2>3 DEF ReadDown, SetInfo, Queued, budget
<1>9. ASSUME NEW c \in Below, Forget(c) PROVE Queued'
  BY <1>9 DEF Forget, Queued, queues
<1>10. ASSUME NEW c \in Below, Close(c) PROVE Queued'
  <2>1. PICK u \in (Nodes \cup {None}) \ {c} :
          toDown' = [toDown EXCEPT ![c] =
                       IF u = None THEN <<>> ELSE <<Message(u, "chan", {}, None, info[u])>>]
    BY <1>10 DEF Close
  <2>2. u # None => Message(u, "chan", {}, None, info[u]) \in Msgs
    <3> SUFFICES ASSUME u # None PROVE Message(u, "chan", {}, None, info[u]) \in Msgs
      OBVIOUS
    <3>1. u \in Nodes /\ info[u] \in Int
      BY DEF Queued
    <3> QED
      BY <3>1, MessageType DEF Groups
  <2>3. toDown' \in [Nodes -> Seq(Msgs)]
    <3>1. PICK q \in Seq(Msgs) : toDown' = [toDown EXCEPT ![c] = q]
      <4>1. CASE u = None
        <5>1. <<>> \in Seq(Msgs) /\ toDown' = [toDown EXCEPT ![c] = <<>>]
          BY <2>1, <4>1
        <5> QED
          BY <5>1
      <4>2. CASE u # None
        <5> DEFINE m == Message(u, "chan", {}, None, info[u])
        <5>1. m \in Msgs /\ toDown' = [toDown EXCEPT ![c] = <<m>>]
          BY <2>1, <2>2, <4>2
        <5> HIDE DEF m
        <5>2. <<m>> \in Seq(Msgs)
          BY <5>1
        <5> QED
          BY <5>1, <5>2
      <4> QED
        BY <4>1, <4>2
    <3> QED
      BY <3>1 DEF Queued
  <2> QED
    BY <1>10, <2>3 DEF Close, Queued, budget
<1>11. ASSUME NEW n \in Nodes, NEW s \in Nodes, Expire(n, s) PROVE Queued'
  BY <1>11 DEF Expire, Queued, queues, budget
<1> QED
  BY <1>1, <1>2, <1>3, <1>4, <1>5, <1>6, <1>7, <1>8, <1>9, <1>10, <1>11
  DEF Next, Report, ReportToRelays, ReadLoop, StreamLoop, Groups

(* Readers and tokens belong to connections. *)
LEMMA ReadingStep ==
  ASSUME Queued, Reading, Next
  PROVE  Reading'
<1>1. ASSUME NEW n \in Nodes, NEW group \in Groups, NEW dest \in Nodes \cup {None},
             Originate(n, group, dest)
      PROVE  Reading'
  BY <1>1 DEF Originate, Reading
<1>2. CASE UpdateInfo
  BY <1>2, RoutingAssumption DEF UpdateInfo, SetInfo, Children, Reading
<1>3. ASSUME NEW c \in Below, ReadUp(c) PROVE Reading'
  <2>1. c \in Nodes /\ Head(toUp[c]) \in Msgs /\ up[c] \in Nodes
    BY <1>3, HeadTail DEF ReadUp, Queued, Reading, Below
  <2>2. PICK at \in {"stats", "forward"} :
          reader' = [reader EXCEPT ![c] = [at |-> at, msg |-> Head(toUp[c])]]
    BY <1>3 DEF ReadUp
  <2>3. UNCHANGED <<up, infoToken>>
    BY <1>3 DEF ReadUp
  <2> QED
    BY <2>1, <2>2, <2>3 DEF Reading
<1>4. ASSUME NEW c \in Below, Observe(c) PROVE Reading'
  BY <1>4 DEF Observe, Reading, Below
<1>5. ASSUME NEW c \in Below, ForwardUp(c) PROVE Reading'
  BY <1>5 DEF ForwardUp, Reading, Idle, Below
<1>6. ASSUME NEW c \in Below, SendBcstAtom(c) \/ SendInfoUpdate(c) \/ Forget(c) PROVE Reading'
  BY <1>6 DEF SendBcstAtom, SendInfoUpdate, Forget, Reading
<1>7. ASSUME NEW c \in Below, ReadDown(c) PROVE Reading'
  BY <1>7 DEF ReadDown, SetInfo, Children, Below, Reading
<1>8. ASSUME NEW c \in Below, Close(c) PROVE Reading'
  BY <1>8 DEF Close, Reading, Idle, Below
<1>9. ASSUME NEW n \in Nodes, NEW s \in Nodes, Expire(n, s) PROVE Reading'
  BY <1>9 DEF Expire, Reading
<1> QED
  BY <1>1, <1>2, <1>3, <1>4, <1>5, <1>6, <1>7, <1>8, <1>9
  DEF Next, Report, ReportToRelays, ReadLoop, StreamLoop, Groups

(* The table: a reader that is between its two sections stays there, and the   *)
(* connection with it, until the owner is set.                                 *)
LEMMA TabledStep ==
  ASSUME Reading, Tabled, Next
  PROVE  Tabled'
<1> USE DEF Tabled, CountedIsOwned, Below
<1>1. ASSUME NEW n \in Nodes, NEW group \in Groups, NEW dest \in Nodes \cup {None},
             Originate(n, group, dest)
      PROVE  Tabled'
  BY <1>1 DEF Originate, table
<1>2. CASE UpdateInfo
  BY <1>2 DEF UpdateInfo, table
<1>3. ASSUME NEW c \in Below, ReadUp(c) PROVE Tabled'
  BY <1>3 DEF ReadUp, table, Reading, Idle
<1>4. ASSUME NEW c \in Below, Observe(c) PROVE Tabled'
  <2>1. c \in Nodes /\ up[c] \in Nodes /\ reader[c].msg.from \in Nodes
    BY <1>4 DEF Observe, Reading, Msgs
  <2>2. CASE reader[c].at = "stats"
    <3>1. /\ reader'[c].at = "owner" /\ reader'[c].msg = reader[c].msg
          /\ \A d \in Nodes \ {c} : reader'[d] = reader[d]
      BY <1>4, <2>1, <2>2 DEF Observe, Reading
    <3>2. stats' = [stats EXCEPT ![up[c]] = @ \cup {reader[c].msg.from}] /\ UNCHANGED <<up, owners>>
      BY <1>4, <2>2 DEF Observe, updateStats
    <3>3. CountedIsOwned'
      <4> SUFFICES ASSUME NEW n \in Nodes, NEW s \in stats'[n], owners[n][s] = None
                   PROVE  \E d \in Below : up[d] = n /\ reader'[d].at = "owner" /\ reader'[d].msg.from = s
        BY <3>2
      <4>1. CASE n = up[c] /\ s = reader[c].msg.from
        BY <4>1, <3>1
      <4>2. CASE ~(n = up[c] /\ s = reader[c].msg.from)
        <5>1. s \in stats[n]
          BY <4>2, <3>2
        <5>2. PICK d \in Below : up[d] = n /\ reader[d].at = "owner" /\ reader[d].msg.from = s
          BY <5>1
        <5> QED
          BY <5>2, <3>1, <2>2
      <4> QED
        BY <4>1, <4>2
    <3>4. stats' \in [Nodes -> SUBSET Nodes] /\ owners' \in [Nodes -> [Nodes -> Nodes \cup {None}]]
      BY <2>1, <3>2
    <3> QED
      BY <3>3, <3>4
  <2>3. CASE reader[c].at = "owner"
    <3>1. \A d \in Nodes \ {c} : reader'[d] = reader[d]
      BY <1>4, <2>1, <2>3 DEF Observe, Reading
    <3>2. owners' = [owners EXCEPT ![up[c]][reader[c].msg.from] = c] /\ UNCHANGED <<up, stats>>
      BY <1>4, <2>3 DEF Observe, setOwner
    <3>3. /\ owners' \in [Nodes -> [Nodes -> Nodes \cup {None}]]
          /\ owners'[up[c]][reader[c].msg.from] = c /\ c # None
          /\ \A n, s \in Nodes : <<n, s>> # <<up[c], reader[c].msg.from>> => owners'[n][s] = owners[n][s]
      BY <2>1, <3>2, RoutingAssumption
    <3>4. CountedIsOwned'
      <4> SUFFICES ASSUME NEW n \in Nodes, NEW s \in stats[n], owners'[n][s] = None
                   PROVE  \E d \in Below : up[d] = n /\ reader'[d].at = "owner" /\ reader'[d].msg.from = s
        BY <3>2
      <4>1. s \in Nodes /\ <<n, s>> # <<up[c], reader[c].msg.from>>
        BY <3>3
      <4>2. PICK d \in Below : up[d] = n /\ reader[d].at = "owner" /\ reader[d].msg.from = s
        BY <4>1, <3>3
      <4> QED
        BY <4>1, <4>2, <3>1
    <3> QED
      BY <3>2, <3>3, <3>4
  <2> QED
    BY <1>4, <2>2, <2>3 DEF Observe
<1>5. ASSUME NEW c \in Below, ForwardUp(c) PROVE Tabled'
  BY <1>5 DEF ForwardUp, Reading, table
<1>6. ASSUME NEW c \in Below, SendBcstAtom(c) \/ SendInfoUpdate(c) PROVE Tabled'
  BY <1>6 DEF SendBcstAtom, SendInfoUpdate, table
<1>7. ASSUME NEW c \in Below, ReadDown(c) PROVE Tabled'
  BY <1>7 DEF ReadDown, table
<1>8. ASSUME NEW c \in Below, Forget(c) PROVE Tabled'
  BY <1>8 DEF Forget, removeStats, Owned, Reading
<1>9. ASSUME NEW c \in Below, Close(c) PROVE Tabled'
  BY <1>9 DEF Close, table, Reading, Idle
<1>10. ASSUME NEW n \in Nodes, NEW s \in Nodes, Expire(n, s) PROVE Tabled'
  BY <1>10 DEF Expire
<1> QED
  BY <1>1, <1>2, <1>3, <1>4, <1>5, <1>6, <1>7, <1>8, <1>9, <1>10
  DEF Next, Report, ReportToRelays, ReadLoop, StreamLoop, Groups

-----------------------------------------------------------------------------
(* At first nothing is queued and nothing is counted. *)
LEMMA RoutingInit == Init => BInv
<1> SUFFICES ASSUME Init PROVE BInv
  OBVIOUS
<1>1. Queued
  BY DEF Init, Queued
<1>2. Reading
  BY RoutingAssumption DEF Init, Reading, Idle
<1>3. Tabled
  BY DEF Init, Tabled, CountedIsOwned
<1> QED
  BY <1>1, <1>2, <1>3 DEF BInv

(* What the node table counts can always be removed with the peer that         *)
(* reported it, in any network (nodes.go, removeStats; observed_hosts.go).     *)
THEOREM CountedHasOwner == Spec => []CountedIsOwned
<1>1. Init => BInv
  BY RoutingInit
<1>2. BInv /\ [Next]_vars => BInv'
  <2> SUFFICES ASSUME BInv, [Next]_vars PROVE BInv'
    OBVIOUS
  <2>1. CASE Next
    BY <2>1, QueuedStep, ReadingStep, TabledStep DEF BInv
  <2>2. CASE UNCHANGED vars
    BY <2>2 DEF BInv, Queued, Reading, Tabled, CountedIsOwned, vars, queues, table, budget
  <2> QED
    BY <2>1, <2>2
<1>3. BInv => CountedIsOwned
  BY DEF BInv, Tabled
<1> QED
  BY <1>1, <1>2, <1>3, PTL DEF Spec
-----------------------------------------------------------------------------
(* Node n is d or above it: every group of nodes that d is in and that nobody  *)
(* leaves by going up contains n.                                              *)
Under(d, n) ==
  \A S \in SUBSET Nodes : d \in S /\ (\A e \in S : up[e] \in S \cup {None}) => n \in S

Sub(n) == {d \in Nodes : Under(d, n)}

(* A copy of a report is at one of these places, *)
Places == {"up", "read", "ch", "down"} \X Nodes

In(q, r) == \E i \in DOMAIN q : q[i].kind = "host" /\ q[i].v = r

Has(p, r) ==
  \/ p[1] = "up" /\ In(toUp[p[2]], r)
  \/ p[1] = "read" /\ reader[p[2]].at # "read" /\ reader[p[2]].msg.v = r
  \/ p[1] = "ch" /\ In(bcstCh[p[2]], r)
  \/ p[1] = "down" /\ In(toDown[p[2]], r)

Holders(r) == {p \in Places : Has(p, r)}

(* from where it may get to these nodes and to no other. *)
Region(p) ==
  IF p[1] = "up" THEN Nodes \ Sub(p[2])
  ELSE IF p[1] = "read" THEN Nodes \ (Sub(p[2]) \cup {up[p[2]]})
  ELSE Sub(p[2])

(* No two copies can get to the same node, and none to one that took it. *)
Flood(H, h) ==
  /\ \A p, q \in H : p # q => Region(p) \cap Region(q) = {}
  /\ \A p \in H : \A i \in DOMAIN h : h[i] \notin Region(p)
  /\ IsInjective(h)

(* A report is in a queue at most once. *)
Once(q) ==
  \A i, j \in DOMAIN q :
    q[i].kind = "host" /\ q[j].kind = "host" /\ q[i].v = q[j].v => i = j

Flooded ==
  /\ \A n \in Nodes : Once(toUp[n]) /\ Once(bcstCh[n]) /\ Once(toDown[n])
  /\ \A r \in 1 .. MaxReports : Flood(Holders(r), handled[r])

(* As long as nothing is lost no connection has ended, only reports go up, and *)
(* a new report is not yet anywhere.                                           *)
AnyMsgs == {m \in Msgs : m.kind = "host" => m.v \in 1 .. reports}
HostMsgs == {m \in AnyMsgs : m.kind = "host"}

Still ==
  /\ link = [n \in Nodes |-> "up"]
  /\ reports \in 0 .. MaxReports
  /\ toUp \in [Nodes -> Seq(HostMsgs)]
  /\ bcstCh \in [Nodes -> Seq(AnyMsgs)]
  /\ toDown \in [Nodes -> Seq(AnyMsgs)]
  /\ \A c \in Nodes : reader[c].at # "read" => reader[c].msg \in HostMsgs
  /\ handled \in [1 .. MaxReports -> Seq(Nodes)]
  /\ \A r \in 1 .. MaxReports : r > reports => handled[r] = <<>>

TInv == lost \/ (Still /\ (InTree => Flooded))

(* The order of the nodes: above a node are itself, its upstream node and what *)
(* is above that.                                                              *)
LEMMA UnderSelf == \A n \in Nodes : Under(n, n)
  BY DEF Under

(* The upstream node is above a node. *)
LEMMA UnderUp == \A n \in Nodes : up[n] \in Nodes => Under(n, up[n])
  BY RoutingAssumption DEF Under

(* The order is transitive. *)
LEMMA UnderTrans ==
  \A d, n, m \in Nodes : Under(d, n) /\ Under(n, m) => Under(d, m)
  BY DEF Under

(* What is above a node, and is not the node, is above its upstream node.      *)
LEMMA UnderStep ==
  ASSUME Reading, NEW d \in Nodes, NEW n \in Nodes, Under(d, n), d # n
  PROVE  up[d] \in Nodes /\ Under(up[d], n)
<1>1. up[d] # None
  <2> SUFFICES ASSUME up[d] = None PROVE FALSE
    OBVIOUS
  <2>1. {d} \in SUBSET Nodes /\ d \in {d} /\ \A e \in {d} : up[e] \in {d} \cup {None}
    OBVIOUS
  <2>2. n \in {d}
    BY <2>1 DEF Under
  <2> QED
    BY <2>2
<1>2. ASSUME NEW S \in SUBSET Nodes, up[d] \in S, \A e \in S : up[e] \in S \cup {None}
      PROVE  n \in S
  <2>1. S \cup {d} \in SUBSET Nodes /\ d \in S \cup {d}
    OBVIOUS
  <2>2. \A e \in S \cup {d} : up[e] \in (S \cup {d}) \cup {None}
    BY <1>2
  <2>3. n \in S \cup {d}
    BY <2>1, <2>2 DEF Under
  <2> QED
    BY <2>3
<1>3. up[d] \in Nodes
  BY <1>1 DEF Reading
<1> QED
  BY <1>2, <1>3 DEF Under

(* In a tree two nodes are not above each other: those that are above d and    *)
(* below n would be a circle.                                                  *)
LEMMA UnderAntisym ==
  ASSUME Reading, InTree, NEW d \in Nodes, NEW n \in Nodes, Under(d, n), Under(n, d)
  PROVE  d = n
<1> SUFFICES ASSUME d # n PROVE FALSE
  OBVIOUS
<1> DEFINE S == {e \in Nodes : Under(d, e) /\ Under(e, d)}
<1>1. d \in S /\ n \in S
  BY UnderSelf
<1>2. ASSUME NEW e \in S PROVE up[e] \in S
  <2>0. e \in Nodes /\ Under(d, e) /\ Under(e, d)
    OBVIOUS
  <2>1. PICK o \in {d, n} : o # e
    OBVIOUS
  <2>2. o \in Nodes /\ Under(o, d)
    BY <2>1, UnderSelf
  <2>3. Under(e, o)
    <3>1. Under(d, o)
      BY <2>1, UnderSelf
    <3> QED
      BY <2>0, <2>2, <3>1, UnderTrans
  <2>4. up[e] \in Nodes /\ Under(up[e], o)
    BY <2>0, <2>1, <2>2, <2>3, UnderStep
  <2>5. Under(d, up[e])
    BY <2>0, <2>4, UnderUp, UnderTrans
  <2>6. Under(up[e], d)
    BY <2>2, <2>4, UnderTrans
  <2> QED
    BY <2>4, <2>5, <2>6
<1>3. S \in SUBSET Nodes /\ S # {}
  BY <1>1
<1> QED
  BY <1>2, <1>3 DEF InTree

(* In a tree a node is not below itself, *)
LEMMA NotAboveUp ==
  ASSUME Reading, InTree, NEW c \in Nodes, up[c] \in Nodes
  PROVE  ~Under(up[c], c) /\ up[c] # c
<1>1. up[c] # c
  <2>1. {c} \in SUBSET Nodes /\ {c} # {}
    OBVIOUS
  <2>2. \E n \in {c} : up[n] \notin {c}
    BY <2>1 DEF InTree
  <2> QED
    BY <2>2
<1> QED
  BY <1>1, UnderUp, UnderAntisym

(* and nothing is below two nodes with the same upstream node.                 *)
LEMMA KidsDisjoint ==
  ASSUME Reading, InTree, NEW c \in Nodes, NEW d \in Nodes, c # d, up[c] \in Nodes, up[d] = up[c]
  PROVE  Sub(c) \cap Sub(d) = {}
<1>1. ASSUME NEW x \in Nodes, NEW y \in Nodes, x # y, up[x] \in Nodes, up[y] = up[x], Under(x, y)
      PROVE  FALSE
  <2>1. Under(up[x], y)
    BY <1>1, UnderStep
  <2> QED
    BY <1>1, <2>1, NotAboveUp
<1> SUFFICES ASSUME NEW e \in Nodes, Under(e, c), Under(e, d) PROVE FALSE
  BY DEF Sub
<1> DEFINE S == {x \in Nodes : Under(x, c) /\ Under(x, d)}
(* Upwards from e one stays below c and d.                                     *)
<1>2. ASSUME NEW x \in S PROVE up[x] \in S
  <2>0. x \in Nodes /\ Under(x, c) /\ Under(x, d)
    OBVIOUS
  <2>1. x # c /\ x # d
    BY <2>0, <1>1
  <2> QED
    BY <2>0, <2>1, UnderStep
<1>3. S \in SUBSET Nodes /\ S # {}
  OBVIOUS
<1> QED
  BY <1>2, <1>3 DEF InTree

(* A reader's copy may get wherever the queue's could, except to the node that *)
(* takes it now.                                                               *)
LEMMA RegionOfReadUp ==
  ASSUME Reading, InTree, NEW c \in Nodes, up[c] \in Nodes
  PROVE  /\ up[c] \in Region(<<"up", c>>)
         /\ Region(<<"read", c>>) \subseteq Region(<<"up", c>>)
         /\ up[c] \notin Region(<<"read", c>>)
<1>1. up[c] \notin Sub(c)
  BY NotAboveUp DEF Sub
<1> QED
  BY <1>1 DEF Region

(* The copies a reader makes are for the rest of the tree above, and for the   *)
(* other connections of its node.                                              *)
LEMMA RegionOfForwardUp ==
  ASSUME Reading, InTree, NEW c \in Nodes, NEW n \in Nodes, up[c] = n
  PROVE  /\ Region(<<"up", n>>) \subseteq Region(<<"read", c>>)
         /\ \A d \in Nodes : up[d] = n /\ d # c =>
              /\ Region(<<"ch", d>>) \subseteq Region(<<"read", c>>)
              /\ Region(<<"ch", d>>) \cap Region(<<"up", n>>) = {}
<1>1. Sub(c) \subseteq Sub(n) /\ n \in Sub(n)
  BY UnderSelf, UnderUp, UnderTrans DEF Sub
<1>2. ASSUME NEW d \in Nodes, up[d] = n, d # c
      PROVE  Sub(d) \cap Sub(c) = {} /\ n \notin Sub(d) /\ Sub(d) \subseteq Sub(n)
  <2>1. Sub(d) \cap Sub(c) = {}
    BY <1>2, KidsDisjoint
  <2>2. ~Under(n, d)
    BY <1>2, NotAboveUp
  <2>3. Sub(d) \subseteq Sub(n)
    BY <1>2, UnderUp, UnderTrans DEF Sub
  <2> QED
    BY <2>1, <2>2, <2>3 DEF Sub
<1>3. \A d \in Nodes : Sub(d) \subseteq Nodes
  BY DEF Sub
<1> QED
  BY <1>1, <1>2, <1>3 DEF Region

(* The copies for two connections of a node are for different nodes.           *)
LEMMA RegionOfKids ==
  ASSUME Reading, InTree, NEW d \in Nodes, NEW e \in Nodes, d # e, up[d] \in Nodes, up[e] = up[d]
  PROVE  Region(<<"ch", d>>) \cap Region(<<"ch", e>>) = {}
  BY KidsDisjoint DEF Region

(* What a node passes down is for the nodes below it.                          *)
LEMMA RegionOfReadDown ==
  ASSUME Reading, InTree, NEW c \in Nodes
  PROVE  /\ c \in Region(<<"down", c>>)
         /\ \A d \in Nodes : up[d] = c =>
              Region(<<"ch", d>>) \subseteq Region(<<"down", c>>) /\ c \notin Region(<<"ch", d>>)
<1>1. c \in Sub(c)
  BY UnderSelf DEF Sub
<1>2. ASSUME NEW d \in Nodes, up[d] = c
      PROVE  Sub(d) \subseteq Sub(c) /\ c \notin Sub(d)
  <2>1. Sub(d) \subseteq Sub(c)
    BY <1>2, UnderUp, UnderTrans DEF Sub
  <2>2. ~Under(c, d)
    BY <1>2, NotAboveUp
  <2> QED
    BY <2>1, <2>2 DEF Sub
<1> QED
  BY <1>1, <1>2 DEF Region

-----------------------------------------------------------------------------
(* The places N share the region of p. *)
Splits(N, p) ==
  /\ \A q \in N : Region(q) \subseteq Region(p)
  /\ \A q, s \in N : q # s => Region(q) \cap Region(s) = {}

(* A copy is replaced by copies that share its region, *)
LEMMA FloodSpreads ==
  ASSUME NEW H, NEW h, NEW p \in H, NEW N, NEW K,
         Flood(H, h), Splits(N, p), K \subseteq (H \ {p}) \cup N
  PROVE  Flood(K, h)
<1> USE DEF Flood, Splits
<1>1. ASSUME NEW q \in K, NEW s \in K, q # s PROVE Region(q) \cap Region(s) = {}
  <2>1. \A x \in H \ {p} : Region(x) \cap Region(p) = {}
    OBVIOUS
  <2>2. CASE q \in N /\ s \in N
    BY <2>2, <1>1
  <2>3. CASE q \in N /\ s \in H \ {p}
    BY <2>3, <2>1
  <2>4. CASE q \in H \ {p} /\ s \in N
    BY <2>4, <2>1
  <2>5. CASE q \in H \ {p} /\ s \in H \ {p}
    BY <2>5, <1>1
  <2> QED
    BY <2>2, <2>3, <2>4, <2>5
<1>2. ASSUME NEW q \in K, NEW i \in DOMAIN h PROVE h[i] \notin Region(q)
  <2>1. CASE q \in N
    BY <2>1
  <2>2. CASE q \in H
    BY <2>2
  <2> QED
    BY <2>1, <2>2
<1> QED
  BY <1>1, <1>2

(* and fewer copies get nowhere else. *)
LEMMA FloodShrinks ==
  ASSUME NEW H, NEW h, NEW K, Flood(H, h), K \subseteq H
  PROVE  Flood(K, h)
  BY DEF Flood

(* A node takes the report that no remaining copy can bring it again.          *)
LEMMA FloodTakes ==
  ASSUME NEW H, NEW h \in Seq(Nodes), NEW p \in H, NEW N, NEW K, NEW n \in Nodes,
         Flood(H, h), Splits(N, p), K \subseteq (H \ {p}) \cup N,
         n \in Region(p), \A q \in N : n \notin Region(q)
  PROVE  Flood(K, Append(h, n))
<1>1. Flood(K, h)
  BY FloodSpreads
<1>2. \A q \in K : n \notin Region(q)
  <2>1. \A x \in H \ {p} : Region(x) \cap Region(p) = {}
    BY DEF Flood
  <2> QED
    BY <2>1
<1>3. \A i \in DOMAIN h : h[i] # n
  BY DEF Flood
<1>4. /\ DOMAIN Append(h, n) = 1 .. Len(h) + 1 /\ DOMAIN h = 1 .. Len(h) /\ Len(h) \in Nat
      /\ \A i \in 1 .. Len(h) : Append(h, n)[i] = h[i]
      /\ Append(h, n)[Len(h) + 1] = n
  OBVIOUS
<1>5. ASSUME NEW i \in DOMAIN Append(h, n)
      PROVE  i \in DOMAIN h \/ i = Len(h) + 1
  BY <1>4
<1>6. ASSUME NEW q \in K, NEW i \in DOMAIN Append(h, n) PROVE Append(h, n)[i] \notin Region(q)
  <2>1. CASE i \in DOMAIN h
    BY <1>1, <1>4, <2>1 DEF Flood
  <2>2. CASE i = Len(h) + 1
    BY <1>2, <1>4, <2>2
  <2> QED
    BY <1>5, <2>1, <2>2
<1>7. IsInjective(Append(h, n))
  <2> SUFFICES ASSUME NEW i \in DOMAIN Append(h, n), NEW j \in DOMAIN Append(h, n),
                      Append(h, n)[i] = Append(h, n)[j]
               PROVE  i = j
    BY DEF IsInjective
  <2>1. CASE i \in DOMAIN h /\ j \in DOMAIN h
    BY <1>1, <1>4, <2>1 DEF Flood, IsInjective
  <2>2. CASE i = Len(h) + 1 \/ j = Len(h) + 1
    BY <1>3, <1>4, <1>5, <2>2
  <2> QED
    BY <1>5, <2>1, <2>2
<1> QED
  BY <1>1, <1>6, <1>7 DEF Flood

-----------------------------------------------------------------------------
(* Taking the first message of a queue removes its only copy there, *)
LEMMA OnceTail ==
  ASSUME NEW S, NEW q \in Seq(S), q # <<>>, Once(q)
  PROVE  /\ Head(q) \in S /\ Tail(q) \in Seq(S)
         /\ Once(Tail(q))
         /\ \A r : In(Tail(q), r) => In(q, r)
         /\ Head(q).kind = "host" => In(q, Head(q).v) /\ ~In(Tail(q), Head(q).v)
<1>1. /\ Head(q) \in S /\ Tail(q) \in Seq(S) /\ Head(q) = q[1] /\ 1 \in DOMAIN q
      /\ \A i \in DOMAIN Tail(q) : i \in Nat /\ i + 1 \in DOMAIN q /\ i + 1 # 1 /\ Tail(q)[i] = q[i + 1]
  OBVIOUS
<1>2. Once(Tail(q))
  <2> SUFFICES ASSUME NEW i \in DOMAIN Tail(q), NEW j \in DOMAIN Tail(q),
                      Tail(q)[i].kind = "host", Tail(q)[j].kind = "host", Tail(q)[i].v = Tail(q)[j].v
               PROVE  i = j
    BY DEF Once
  <2>1. i + 1 = j + 1
    BY <1>1 DEF Once
  <2> QED
    BY <1>1, <2>1
<1>3. \A r : In(Tail(q), r) => In(q, r)
  BY <1>1 DEF In
<1>4. Head(q).kind = "host" => In(q, Head(q).v) /\ ~In(Tail(q), Head(q).v)
  BY <1>1 DEF In, Once
<1> QED
  BY <1>1, <1>2, <1>3, <1>4

(* and appending a message adds one. *)
LEMMA OnceAppend ==
  ASSUME NEW S, NEW q \in Seq(S), NEW m \in S, Once(q), m.kind = "host" => ~In(q, m.v)
  PROVE  /\ Append(q, m) \in Seq(S)
         /\ Once(Append(q, m))
         /\ \A r : In(Append(q, m), r) => In(q, r) \/ (m.kind = "host" /\ m.v = r)
<1>1. /\ Append(q, m) \in Seq(S)
      /\ \A i \in DOMAIN Append(q, m) : (i \in DOMAIN q /\ Append(q, m)[i] = q[i])
                                        \/ (i = Len(q) + 1 /\ Append(q, m)[i] = m)
  OBVIOUS
<1>2. Once(Append(q, m))
  <2> SUFFICES ASSUME NEW i \in DOMAIN Append(q, m), NEW j \in DOMAIN Append(q, m),
                      Append(q, m)[i].kind = "host", Append(q, m)[j].kind = "host",
                      Append(q, m)[i].v = Append(q, m)[j].v
               PROVE  i = j
    BY DEF Once
  <2> HIDE DEF Once
  <2>1. CASE i \in DOMAIN q /\ j \in DOMAIN q /\ Append(q, m)[i] = q[i] /\ Append(q, m)[j] = q[j]
    BY <2>1 DEF Once
  <2>2. CASE i \in DOMAIN q /\ Append(q, m)[i] = q[i] /\ Append(q, m)[j] = m
    BY <2>2 DEF In
  <2>3. CASE j \in DOMAIN q /\ Append(q, m)[j] = q[j] /\ Append(q, m)[i] = m
    BY <2>3 DEF In
  <2> QED
    BY <1>1, <2>1, <2>2, <2>3
<1>3. \A r : In(Append(q, m), r) => In(q, r) \/ (m.kind = "host" /\ m.v = r)
  BY <1>1 DEF In
<1> QED
  BY <1>1, <1>2, <1>3

-----------------------------------------------------------------------------
(* A place that gets a copy had none. *)
LEMMA FreshPlace ==
  ASSUME NEW H, NEW h, NEW p \in H, NEW N, NEW q \in N,
         Flood(H, h), Splits(N, p), q # p, Region(q) # {}
  PROVE  q \notin H
  BY DEF Flood, Splits

(* What forwarding f adds while nothing is lost: copies for the upstream node  *)
(* and for other connections D of the node.                                    *)
Adds(n, c, f) ==
  /\ toUp' = toUp \/ (/\ c # None /\ up[n] \in Nodes
                      /\ toUp' = [toUp EXCEPT ![n] = Append(@, f)])
  /\ \E D \in SUBSET {d \in Nodes : up[d] = n /\ d # c} :
       bcstCh' = [d \in Nodes |-> IF d \in D THEN Append(bcstCh[d], f) ELSE bcstCh[d]]

(* Forwarding adds them. *)
LEMMA ForwardAdds ==
  ASSUME Queued, Reading, Still, NEW n \in Nodes, NEW c, NEW m \in Msgs, Forward(n, c, m), ~lost'
  PROVE  /\ ~lost /\ link' = link
         /\ Forwarded(m) \in Msgs /\ Forwarded(m).kind = m.kind /\ Forwarded(m).v = m.v
         /\ Adds(n, c, Forwarded(m))
<1> DEFINE f == Forwarded(m)
<1>1. f \in Msgs /\ f.kind = m.kind /\ f.v = m.v
  <2>1. f \in Msgs
    BY ForwardedType
  <2> QED
    BY <2>1 DEF Forwarded, Msgs
<1> HIDE DEF f
<1>2. CASE ~Forwards(m, n)
  <2>1. UNCHANGED <<toUp, bcstCh, link, lost>>
    BY <1>2 DEF Forward
  <2>2. bcstCh' = [d \in Nodes |-> IF d \in {} THEN Append(bcstCh[d], f) ELSE bcstCh[d]]
    BY <2>1 DEF Queued
  <2>3. \E D \in SUBSET {d \in Nodes : up[d] = n /\ d # c} :
          bcstCh' = [d \in Nodes |-> IF d \in D THEN Append(bcstCh[d], f) ELSE bcstCh[d]]
    <3>1. {} \in SUBSET {d \in Nodes : up[d] = n /\ d # c}
      OBVIOUS
    <3> WITNESS {} \in SUBSET {d \in Nodes : up[d] = n /\ d # c}
    <3> QED
      BY <2>2
  <2> QED
    BY <1>1, <2>1, <2>3 DEF f, Adds
<1>3. CASE Forwards(m, n)
  <2>1. Broadcast(n, c, f)
    BY <1>3 DEF Forward, f
  <2>2. ~lost /\ ~Full(n, c, f) /\ Drops(n, c, f) = {}
    BY <2>1 DEF Broadcast
  <2>3. link' = [link EXCEPT ![n] = @]
    BY <2>1, <2>2 DEF Broadcast
  <2>4. link' = link
    BY <2>3 DEF Still
  <2>5. GoesDown(n, c, f) \subseteq {d \in Nodes : up[d] = n /\ d # c}
    BY DEF GoesDown, Children, Below
  <2>6. bcstCh' = [d \in Nodes |-> IF d \in GoesDown(n, c, f) THEN Append(bcstCh[d], f) ELSE bcstCh[d]]
    BY <2>1, <2>2 DEF Broadcast
  <2>7. CASE GoesUp(n, c, f)
    <3>1. c # None /\ up[n] \in Nodes
      BY <2>7 DEF GoesUp, Reading
    <3>2. toUp' = [toUp EXCEPT ![n] = Append(@, f)]
      BY <2>1, <2>2, <2>7 DEF Broadcast
    <3> QED
      BY <1>1, <2>2, <2>4, <2>5, <2>6, <3>1, <3>2 DEF f, Adds
  <2>8. CASE ~GoesUp(n, c, f)
    <3>1. toUp' = [toUp EXCEPT ![n] = @]
      BY <2>1, <2>8 DEF Broadcast
    <3>2. toUp' = toUp
      BY <3>1 DEF Queued
    <3> QED
      BY <1>1, <2>2, <2>4, <2>5, <2>6, <3>2 DEF f, Adds
  <2> QED
    BY <2>7, <2>8
<1> QED
  BY <1>2, <1>3

(* The messages that count have numbers. *)
LEMMA Numbers ==
  ASSUME Still
  PROVE  /\ \A m \in HostMsgs : m \in AnyMsgs /\ m.kind = "host"
         /\ \A m \in AnyMsgs : m \in Msgs
         /\ \A m \in AnyMsgs : m.kind = "host" =>
              m \in HostMsgs /\ m.v \in 1 .. MaxReports /\ m.v \in 1 .. reports
<1>1. MaxReports \in Nat /\ reports \in 0 .. MaxReports
  BY RoutingAssumption DEF Still
<1>2. 1 .. reports \subseteq 1 .. MaxReports
  BY <1>1
<1> QED
  BY <1>2 DEF HostMsgs, AnyMsgs

(* A queue gets longer. *)
LEMMA SeqAppend ==
  ASSUME NEW S, NEW Q \in [Nodes -> Seq(S)], NEW n \in Nodes, NEW m \in S
  PROVE  [Q EXCEPT ![n] = Append(@, m)] \in [Nodes -> Seq(S)]
  OBVIOUS

(* Queues of messages of one sort are queues of messages of a wider one. *)
LEMMA SeqWider ==
  ASSUME NEW S, NEW T, S \subseteq T, NEW Q \in [Nodes -> Seq(S)]
  PROVE  Q \in [Nodes -> Seq(T)]
<1>1. \A n \in Nodes : Q[n] \in Seq(T)
  OBVIOUS
<1> QED
  BY <1>1

-----------------------------------------------------------------------------
(* While nothing is lost no connection moves and reports are numbered.         *)
LEMMA StillStep ==
  ASSUME Queued, Reading, Still, Next, ~lost'
  PROVE  Still' /\ up' = up /\ ~lost
<1>0. (reports' = reports /\ MaxReports' = MaxReports) => HostMsgs' = HostMsgs /\ AnyMsgs' = AnyMsgs
  BY DEF HostMsgs, AnyMsgs, Msgs, Groups
<1>1. ASSUME NEW n \in Nodes, NEW group \in Groups, NEW dest \in Nodes \cup {None},
             Originate(n, group, dest)
      PROVE  Still' /\ up' = up /\ ~lost
  <2> DEFINE m == Message(n, "host", group, dest, reports')
  <2>1. reports' = reports + 1 /\ reports' \in 0 .. MaxReports /\ reports \in Nat
    BY <1>1, RoutingAssumption DEF Originate, Still
  <2>2. m \in Msgs /\ m.kind = "host" /\ m.v = reports'
    <3>1. m \in Msgs
      BY <2>1, MessageType
    <3> QED
      BY <3>1 DEF Message
  <2> HIDE DEF m
  <2>3. m \in HostMsgs' /\ HostMsgs \subseteq HostMsgs' /\ AnyMsgs \subseteq AnyMsgs'
    BY <2>1, <2>2 DEF HostMsgs, AnyMsgs, Msgs, Groups
  <2>4. toUp \in [Nodes -> Seq(HostMsgs')] /\ bcstCh \in [Nodes -> Seq(AnyMsgs')]
        /\ toDown \in [Nodes -> Seq(AnyMsgs')]
    BY <2>3, SeqWider DEF Still
  <2>5. toUp' = [toUp EXCEPT ![n] = Append(@, m)] /\ UNCHANGED <<up, link, bcstCh, toDown, reader, handled, lost>>
    BY <1>1 DEF Originate, m
  <2>6. toUp' \in [Nodes -> Seq(HostMsgs')]
    BY <2>3, <2>4, <2>5, SeqAppend
  <2> QED
    BY <2>1, <2>3, <2>4, <2>5, <2>6 DEF Still
<1>2. CASE UpdateInfo
  BY <1>0, <1>2 DEF UpdateInfo, Still, queues, budget
<1>3. ASSUME NEW c \in Below, ReadUp(c) PROVE Still' /\ up' = up /\ ~lost
  <2>1. c \in Nodes /\ up[c] \in Nodes /\ Head(toUp[c]) \in HostMsgs /\ Tail(toUp[c]) \in Seq(HostMsgs)
    <3>1. c \in Nodes /\ up[c] \in Nodes /\ toUp[c] \in Seq(HostMsgs) /\ toUp[c] # <<>>
      BY <1>3 DEF ReadUp, Below, Reading, Still
    <3> QED
      BY <3>1
  <2>2. Head(toUp[c]).v \in 1 .. MaxReports
    BY <2>1, Numbers
  <2>3. toUp' \in [Nodes -> Seq(HostMsgs)]
    BY <1>3, <2>1 DEF ReadUp, Still
  <2>4. handled' \in [1 .. MaxReports -> Seq(Nodes)]
        /\ \A r \in 1 .. MaxReports : r > reports => handled'[r] = <<>>
    BY <1>3, <2>1, <2>2 DEF ReadUp, Still, HostMsgs, AnyMsgs
  <2>5. \A d \in Nodes : reader'[d].at # "read" => reader'[d].msg \in HostMsgs
    BY <1>3, <2>1 DEF ReadUp, Still, Reading
  <2> QED
    BY <1>0, <1>3, <2>3, <2>4, <2>5 DEF ReadUp, Still, budget
<1>4. ASSUME NEW c \in Below, Observe(c) PROVE Still' /\ up' = up /\ ~lost
  <2>0. c \in Nodes /\ reader[c].at # "read"
    BY <1>4 DEF Observe, Below
  <2>1. \A d \in Nodes : reader'[d].at # "read" => reader'[d].msg \in HostMsgs
    <3>1. PICK at : reader' = [reader EXCEPT ![c].at = at]
      BY <1>4 DEF Observe
    <3>2. \A d \in Nodes : reader'[d].msg = reader[d].msg /\ (d # c => reader'[d].at = reader[d].at)
      BY <3>1 DEF Reading
    <3> QED
      BY <2>0, <3>2 DEF Still
  <2> QED
    BY <1>0, <1>4, <2>1 DEF Observe, Still, queues, budget
<1>5. ASSUME NEW c \in Below, ForwardUp(c) PROVE Still' /\ up' = up /\ ~lost
  <2> DEFINE m == reader[c].msg
  <2>1. c \in Nodes /\ up[c] \in Nodes /\ m \in HostMsgs /\ m \in Msgs
    BY <1>5 DEF ForwardUp, Below, Reading, Still
  <2>2. Forward(up[c], c, m)
    BY <1>5 DEF ForwardUp
  <2>3. /\ ~lost /\ link' = link
        /\ Forwarded(m) \in Msgs /\ Forwarded(m).kind = m.kind /\ Forwarded(m).v = m.v
        /\ Adds(up[c], c, Forwarded(m))
    <3> HIDE DEF m
    <3> QED
      BY <2>1, <2>2, ForwardAdds
  <2>4. Forwarded(m) \in HostMsgs /\ Forwarded(m) \in AnyMsgs
    BY <2>1, <2>3 DEF HostMsgs, AnyMsgs
  <2> HIDE DEF m
  <2>5. toUp' \in [Nodes -> Seq(HostMsgs)]
    <3> DEFINE f == Forwarded(m)
    <3>1. f \in HostMsgs
      BY <2>4
    <3>2. toUp' = toUp \/ toUp' = [toUp EXCEPT ![up[c]] = Append(@, f)]
      BY <2>3 DEF Adds
    <3> HIDE DEF f
    <3>3. toUp \in [Nodes -> Seq(HostMsgs)] /\ up[c] \in Nodes
      BY <2>1 DEF Still
    <3>4. [toUp EXCEPT ![up[c]] = Append(@, f)] \in [Nodes -> Seq(HostMsgs)]
      BY <3>1, <3>3, SeqAppend
    <3> QED
      BY <3>2, <3>3, <3>4
  <2>6. bcstCh' \in [Nodes -> Seq(AnyMsgs)]
    BY <2>3, <2>4 DEF Still, Adds
  <2>7. \A d \in Nodes : reader'[d].at # "read" => reader'[d].msg \in HostMsgs
    BY <1>5 DEF ForwardUp, Still, Reading, Idle
  <2> QED
    BY <1>0, <1>5, <2>3, <2>5, <2>6, <2>7 DEF ForwardUp, Still, budget
<1>6. ASSUME NEW c \in Below, SendBcstAtom(c) PROVE Still' /\ up' = up /\ ~lost
  <2>1. c \in Nodes /\ bcstCh[c] \in Seq(AnyMsgs) /\ bcstCh[c] # <<>>
    BY <1>6 DEF SendBcstAtom, Below, Still
  <2>2. Head(bcstCh[c]) \in AnyMsgs /\ Tail(bcstCh[c]) \in Seq(AnyMsgs)
    BY <2>1
  <2>3. bcstCh' = [bcstCh EXCEPT ![c] = Tail(@)] /\ toDown' = [toDown EXCEPT ![c] = Append(@, Head(bcstCh[c]))]
    BY <1>6 DEF SendBcstAtom
  <2>4. toDown' \in [Nodes -> Seq(AnyMsgs)]
    BY <2>1, <2>2, <2>3, SeqAppend DEF Still
  <2>5. bcstCh' \in [Nodes -> Seq(AnyMsgs)]
    BY <2>1, <2>2, <2>3 DEF Still
  <2> QED
    BY <1>0, <1>6, <2>4, <2>5 DEF SendBcstAtom, Still, budget
<1>7. ASSUME NEW c \in Below, SendInfoUpdate(c) PROVE Still' /\ up' = up /\ ~lost
  <2> DEFINE m == Message(up[c], IF up[c] = Tracker THEN "info" ELSE "chan", {"relays"}, None, info[up[c]])
  <2>1. c \in Nodes /\ up[c] \in Nodes
    BY <1>7 DEF SendInfoUpdate, Below, Reading
  <2>2. m \in AnyMsgs
    <3>1. info[up[c]] \in Int
      BY <2>1 DEF Queued
    <3>2. m \in Msgs
      BY <2>1, <3>1, MessageType DEF Groups
    <3>3. m.kind # "host"
      BY DEF Message
    <3> QED
      BY <3>2, <3>3 DEF AnyMsgs
  <2>3. toDown' = [toDown EXCEPT ![c] = Append(@, m)]
    BY <1>7 DEF SendInfoUpdate
  <2> HIDE DEF m
  <2>4. toDown' \in [Nodes -> Seq(AnyMsgs)]
    BY <2>1, <2>2, <2>3, SeqAppend DEF Still
  <2> QED
    BY <1>0, <1>7, <2>4 DEF SendInfoUpdate, Still, budget
<1>8. ASSUME NEW c \in Below, ReadDown(c) PROVE Still' /\ up' = up /\ ~lost
  <2> DEFINE m == Head(toDown[c])
  <2>1. c \in Nodes /\ toDown[c] \in Seq(AnyMsgs) /\ toDown[c] # <<>>
    BY <1>8 DEF ReadDown, Below, Still
  <2>2. m \in AnyMsgs /\ m \in Msgs /\ Tail(toDown[c]) \in Seq(AnyMsgs)
    BY <2>1 DEF AnyMsgs
  <2>3. /\ ~lost /\ link' = link /\ toUp' = toUp
        /\ bcstCh' \in [Nodes -> Seq(AnyMsgs)]
    <3>1. CASE m.kind = "chan"
      BY <1>8, <3>1 DEF ReadDown, Still
    <3>2. CASE m.kind # "chan"
      <4>1. Forward(c, None, m)
        BY <1>8, <3>2 DEF ReadDown
      <4> HIDE DEF m
      <4>2. /\ ~lost /\ link' = link
            /\ Forwarded(m) \in Msgs /\ Forwarded(m).kind = m.kind /\ Forwarded(m).v = m.v
            /\ Adds(c, None, Forwarded(m))
        BY <2>1, <2>2, <4>1, ForwardAdds
      <4>3. Forwarded(m) \in AnyMsgs
        BY <2>2, <4>2 DEF AnyMsgs
      <4> QED
        BY <4>2, <4>3 DEF Still, Adds
    <3> QED
      BY <3>1, <3>2
  <2>4. toDown' \in [Nodes -> Seq(AnyMsgs)]
    BY <1>8, <2>1, <2>2 DEF ReadDown, Still
  <2>5. handled' \in [1 .. MaxReports -> Seq(Nodes)]
        /\ \A r \in 1 .. MaxReports : r > reports => handled'[r] = <<>>
    <3>1. CASE m.kind = "host"
      <4>1. m.v \in 1 .. MaxReports /\ ~(m.v > reports)
        <5>1. m.v \in 1 .. MaxReports /\ m.v \in 1 .. reports
          BY <2>2, <3>1, Numbers
        <5>2. MaxReports \in Int /\ reports \in Int
          BY RoutingAssumption DEF Still
        <5> QED
          BY <5>1, <5>2
      <4>2. handled' = handled \/ handled' = [handled EXCEPT ![m.v] = Append(@, c)]
        BY <1>8 DEF ReadDown
      <4> HIDE DEF m
      <4>3. handled \in [1 .. MaxReports -> Seq(Nodes)] /\ Append(handled[m.v], c) \in Seq(Nodes)
        BY <2>1, <4>1 DEF Still
      <4>4. \A r \in 1 .. MaxReports : r > reports => r # m.v /\ handled[r] = <<>>
        BY <4>1 DEF Still
      <4> QED
        BY <4>1, <4>2, <4>3, <4>4
    <3>2. CASE m.kind # "host"
      BY <1>8, <3>2 DEF ReadDown, Still
    <3> QED
      BY <3>1, <3>2
  <2> QED
    BY <1>0, <1>8, <2>3, <2>4, <2>5 DEF ReadDown, Still, budget
<1>9. ASSUME NEW c \in Below, Forget(c) \/ Close(c) PROVE Still' /\ up' = up /\ ~lost
  BY <1>9 DEF Forget, Close, Still, Below
<1>10. ASSUME NEW n \in Nodes, NEW s \in Nodes, Expire(n, s) PROVE Still' /\ up' = up /\ ~lost
  BY <1>0, <1>10 DEF Expire, Still, queues, budget
<1> QED
  BY <1>1, <1>2, <1>3, <1>4, <1>5, <1>6, <1>7, <1>8, <1>9, <1>10
  DEF Next, Report, ReportToRelays, ReadLoop, StreamLoop, Groups

-----------------------------------------------------------------------------
(* Who holds a report, place by place, *)
LEMMA Held ==
  \A r : \A n \in Nodes :
    /\ <<"up", n>> \in Holders(r) <=> In(toUp[n], r)
    /\ <<"read", n>> \in Holders(r) <=> reader[n].at # "read" /\ reader[n].msg.v = r
    /\ <<"ch", n>> \in Holders(r) <=> In(bcstCh[n], r)
    /\ <<"down", n>> \in Holders(r) <=> In(toDown[n], r)
  BY DEF Holders, Has, Places

(* and after a step. *)
LEMMA HeldNext ==
  ASSUME NEW r, NEW T,
         \A n \in Nodes :
           /\ In(toUp'[n], r) => <<"up", n>> \in T
           /\ reader'[n].at # "read" /\ reader'[n].msg.v = r => <<"read", n>> \in T
           /\ In(bcstCh'[n], r) => <<"ch", n>> \in T
           /\ In(toDown'[n], r) => <<"down", n>> \in T
  PROVE  Holders(r)' \subseteq T
<1> SUFFICES ASSUME NEW p \in Places, Has(p, r)' PROVE p \in T
  BY DEF Holders
<1>1. p[2] \in Nodes /\ p = <<p[1], p[2]>>
  BY DEF Places
<1> QED
  BY <1>1 DEF Has

(* The flood after a step in which the connections stay. *)
LEMMA FloodedNext ==
  ASSUME up' = up,
         \A n \in Nodes : Once(toUp'[n]) /\ Once(bcstCh'[n]) /\ Once(toDown'[n]),
         \A r \in 1 .. MaxReports : Flood(Holders(r)', handled'[r])
  PROVE  Flooded'
<1>1. \A p : Region(p)' = Region(p)
  BY DEF Region, Sub, Under
<1>2. ASSUME NEW r \in 1 .. MaxReports PROVE Flood(Holders(r), handled[r])'
  <2>1. Flood(Holders(r)', handled'[r])
    OBVIOUS
  <2> QED
    BY <1>1, <2>1 DEF Flood
<1> QED
  BY <1>2 DEF Flooded

(* A queue that gets a copy had none. *)
LEMMA FreshQueue ==
  ASSUME NEW H, NEW h, NEW p \in H, NEW N, Flood(H, h), Splits(N, p), NEW c \in Nodes
  PROVE  /\ <<"ch", c>> \in N /\ <<"ch", c>> # p => <<"ch", c>> \notin H
         /\ <<"down", c>> \in N /\ <<"down", c>> # p => <<"down", c>> \notin H
<1>1. c \in Region(<<"ch", c>>) /\ c \in Region(<<"down", c>>)
  BY UnderSelf DEF Region, Sub
<1>2. Region(<<"ch", c>>) # {} /\ Region(<<"down", c>>) # {}
  BY <1>1
<1> QED
  BY <1>2, FreshPlace

-----------------------------------------------------------------------------
(* A new report is nowhere yet. *)
LEMMA OriginateFloods ==
  ASSUME Queued, Reading, Still, Flooded,
         NEW n \in Nodes, NEW group \in Groups, NEW dest \in Nodes \cup {None},
         Originate(n, group, dest)
  PROVE  Flooded'
<1> DEFINE m == Message(n, "host", group, dest, reports')
<1>1. reports' = reports + 1 /\ reports \in Nat /\ reports' \in 1 .. MaxReports
  BY RoutingAssumption DEF Originate, Still
<1>2. m \in Msgs /\ m.kind = "host" /\ m.v = reports'
  <2>1. m \in Msgs
    BY <1>1, MessageType
  <2> QED
    BY <2>1 DEF Message
<1>3. toUp' = [toUp EXCEPT ![n] = Append(@, m)] /\ UNCHANGED <<up, bcstCh, toDown, reader, handled>>
  BY DEF Originate
<1> HIDE DEF m
<1>4. \A d \in Nodes : /\ ~In(toUp[d], reports') /\ ~In(bcstCh[d], reports') /\ ~In(toDown[d], reports')
                       /\ ~(reader[d].at # "read" /\ reader[d].msg.v = reports')
  <2>1. \A x \in AnyMsgs : x.kind = "host" => x.v # reports'
    BY <1>1 DEF AnyMsgs
  <2>2. \A x \in HostMsgs : x.v # reports'
    BY <2>1 DEF HostMsgs
  <2>3. ASSUME NEW d \in Nodes PROVE ~In(toUp[d], reports')
    <3>1. toUp[d] \in Seq(HostMsgs)
      BY DEF Still
    <3>2. \A i \in DOMAIN toUp[d] : toUp[d][i] \in HostMsgs
      BY <3>1
    <3> QED
      BY <2>2, <3>2 DEF In
  <2>4. ASSUME NEW d \in Nodes PROVE ~In(bcstCh[d], reports') /\ ~In(toDown[d], reports')
    <3>1. bcstCh[d] \in Seq(AnyMsgs) /\ toDown[d] \in Seq(AnyMsgs)
      BY DEF Still
    <3>2. /\ \A i \in DOMAIN bcstCh[d] : bcstCh[d][i] \in AnyMsgs
          /\ \A i \in DOMAIN toDown[d] : toDown[d][i] \in AnyMsgs
      BY <3>1
    <3> QED
      BY <2>1, <3>2 DEF In
  <2> QED
    BY <2>2, <2>3, <2>4 DEF Still
<1>5. /\ Once(Append(toUp[n], m))
      /\ \A r : In(Append(toUp[n], m), r) => In(toUp[n], r) \/ r = reports'
  <2>1. toUp[n] \in Seq(Msgs) /\ Once(toUp[n]) /\ ~In(toUp[n], m.v)
    BY <1>2, <1>4 DEF Queued, Flooded
  <2> QED
    BY <1>2, <2>1, OnceAppend
<1>6. toUp'[n] = Append(toUp[n], m) /\ \A d \in Nodes \ {n} : toUp'[d] = toUp[d]
  BY <1>3 DEF Queued
<1>7. \A d \in Nodes : Once(toUp'[d]) /\ Once(bcstCh'[d]) /\ Once(toDown'[d])
  BY <1>3, <1>5, <1>6 DEF Flooded
<1>8. ASSUME NEW r \in 1 .. MaxReports PROVE Flood(Holders(r)', handled'[r])
  <2>1. CASE r = reports'
    <3>1. Holders(r)' \subseteq {<<"up", n>>}
      <4>1. \A d \in Nodes :
              /\ In(toUp'[d], r) => <<"up", d>> \in {<<"up", n>>}
              /\ ~(reader'[d].at # "read" /\ reader'[d].msg.v = r)
              /\ ~In(bcstCh'[d], r) /\ ~In(toDown'[d], r)
        BY <1>3, <1>4, <1>6, <2>1
      <4> QED
        BY <4>1, HeldNext
    <3>2. handled'[r] = <<>>
      BY <1>1, <1>3, <2>1 DEF Still
    <3> QED
      BY <3>1, <3>2 DEF Flood, IsInjective
  <2>2. CASE r # reports'
    <3>1. Holders(r)' \subseteq Holders(r)
      <4>1. \A d \in Nodes : In(toUp'[d], r) => In(toUp[d], r)
        BY <1>5, <1>6, <2>2
      <4> QED
        BY <1>3, <4>1, Held, HeldNext
    <3> QED
      BY <1>3, <3>1, FloodShrinks DEF Flooded
  <2> QED
    BY <2>1, <2>2
<1> QED
  BY <1>3, <1>7, <1>8, FloodedNext

(* The reader of a connection takes a copy from its queue. *)
LEMMA ReadUpFloods ==
  ASSUME Queued, Reading, Still, InTree, Flooded, NEW c \in Below, ReadUp(c)
  PROVE  Flooded'
<1> DEFINE n == up[c]
           m == Head(toUp[c])
           p == <<"up", c>>
           N == {<<"read", c>>}
<1>1. c \in Nodes /\ n \in Nodes /\ toUp[c] \in Seq(HostMsgs) /\ toUp[c] # <<>> /\ Once(toUp[c])
  BY DEF ReadUp, Below, Reading, Still, Flooded
<1>2. /\ m \in HostMsgs /\ Once(Tail(toUp[c]))
      /\ \A r : In(Tail(toUp[c]), r) => In(toUp[c], r)
      /\ In(toUp[c], m.v) /\ ~In(Tail(toUp[c]), m.v)
  <2>1. /\ m \in HostMsgs /\ Once(Tail(toUp[c]))
        /\ \A r : In(Tail(toUp[c]), r) => In(toUp[c], r)
        /\ m.kind = "host" => In(toUp[c], m.v) /\ ~In(Tail(toUp[c]), m.v)
    BY <1>1, OnceTail
  <2> QED
    BY <2>1, Numbers
<1>3. m.v \in 1 .. MaxReports
  BY <1>2, Numbers
<1>4. /\ UNCHANGED <<up, bcstCh, toDown>>
      /\ toUp'[c] = Tail(toUp[c]) /\ \A d \in Nodes \ {c} : toUp'[d] = toUp[d]
      /\ reader'[c].msg = m /\ \A d \in Nodes \ {c} : reader'[d] = reader[d]
  BY <1>1 DEF ReadUp, Queued, Reading
<1>5. handled' = handled \/ handled' = [handled EXCEPT ![m.v] = Append(@, n)]
  BY DEF ReadUp
<1>6. /\ n \in Region(p) /\ Splits(N, p)
      /\ \A q \in N : n \notin Region(q)
  BY <1>1, RegionOfReadUp DEF Splits
<1> HIDE DEF m, n, p, N
<1>7. \A d \in Nodes : Once(toUp'[d]) /\ Once(bcstCh'[d]) /\ Once(toDown'[d])
  BY <1>2, <1>4 DEF Flooded
<1>8. ASSUME NEW r \in 1 .. MaxReports PROVE Flood(Holders(r)', handled'[r])
  <2>0. Flood(Holders(r), handled[r]) /\ handled[r] \in Seq(Nodes)
    BY DEF Flooded, Still
  <2>1. CASE r = m.v
    <3>1. p \in Holders(r)
      BY <1>1, <1>2, <2>1, Held DEF p
    <3>2. Holders(r)' \subseteq (Holders(r) \ {p}) \cup N
      <4>1. \A d \in Nodes : In(toUp'[d], r) => In(toUp[d], r) /\ d # c
        BY <1>2, <1>4, <2>1
      <4>2. \A d \in Nodes : reader'[d].at # "read" /\ reader'[d].msg.v = r =>
                               d = c \/ (reader[d].at # "read" /\ reader[d].msg.v = r)
        BY <1>4
      <4>3. \A d \in Nodes :
              /\ In(toUp'[d], r) => <<"up", d>> \in (Holders(r) \ {p}) \cup N
              /\ reader'[d].at # "read" /\ reader'[d].msg.v = r => <<"read", d>> \in (Holders(r) \ {p}) \cup N
              /\ In(bcstCh'[d], r) => <<"ch", d>> \in (Holders(r) \ {p}) \cup N
              /\ In(toDown'[d], r) => <<"down", d>> \in (Holders(r) \ {p}) \cup N
        BY <1>4, <4>1, <4>2, Held DEF p, N
      <4> QED
        BY <4>3, HeldNext
    <3>3. handled'[r] = handled[r] \/ handled'[r] = Append(handled[r], n)
      BY <1>5, <2>1 DEF Still
    <3>4. Flood(Holders(r)', handled[r])
      BY <1>6, <2>0, <3>1, <3>2, FloodSpreads
    <3>5. Flood(Holders(r)', Append(handled[r], n))
      BY <1>1, <1>6, <2>0, <3>1, <3>2, FloodTakes DEF n
    <3> QED
      BY <3>3, <3>4, <3>5
  <2>2. CASE r # m.v
    <3>1. Holders(r)' \subseteq Holders(r)
      <4>1. \A d \in Nodes :
              /\ In(toUp'[d], r) => In(toUp[d], r)
              /\ reader'[d].at # "read" /\ reader'[d].msg.v = r => reader[d].at # "read" /\ reader[d].msg.v = r
        BY <1>2, <1>4, <2>2
      <4> QED
        BY <1>4, <4>1, Held, HeldNext
    <3>2. handled'[r] = handled[r]
      BY <1>5, <2>2 DEF Still
    <3> QED
      BY <2>0, <3>1, <3>2, FloodShrinks
  <2> QED
    BY <2>1, <2>2
<1> QED
  BY <1>4, <1>7, <1>8, FloodedNext

(* It passes copies on. *)
LEMMA ForwardUpFloods ==
  ASSUME Queued, Reading, Still, InTree, Flooded, NEW c \in Below, ForwardUp(c), ~lost'
  PROVE  Flooded'
<1> DEFINE n == up[c]
           m == reader[c].msg
           f == Forwarded(m)
           p == <<"read", c>>
<1>1. c \in Nodes /\ n \in Nodes /\ m \in HostMsgs /\ m \in Msgs /\ reader[c].at # "read"
  BY Numbers DEF ForwardUp, Below, Reading, Still
<1>2. f \in Msgs /\ f.kind = "host" /\ f.v = m.v /\ Adds(n, c, f)
  <2>1. Forward(n, c, m)
    BY DEF ForwardUp
  <2>2. m.kind = "host"
    BY <1>1, Numbers
  <2> HIDE DEF m, n
  <2> QED
    BY <1>1, <2>1, <2>2, ForwardAdds
<1>3. m.v \in 1 .. MaxReports
  BY <1>1, Numbers
<1>4. /\ UNCHANGED <<up, toDown, handled>>
      /\ reader'[c].at = "read" /\ \A d \in Nodes \ {c} : reader'[d] = reader[d]
  BY <1>1 DEF ForwardUp, Reading, Idle
<1> HIDE DEF f, m
<1>5. PICK D \in SUBSET {d \in Nodes : up[d] = n /\ d # c} :
        bcstCh' = [d \in Nodes |-> IF d \in D THEN Append(bcstCh[d], f) ELSE bcstCh[d]]
  BY <1>2 DEF Adds
<1> DEFINE N == {<<"ch", d>> : d \in D} \cup (IF up[n] \in Nodes THEN {<<"up", n>>} ELSE {})
<1>6. Splits(N, p)
  <2>1. /\ Region(<<"up", n>>) \subseteq Region(p)
        /\ \A d \in D : /\ Region(<<"ch", d>>) \subseteq Region(p)
                        /\ Region(<<"ch", d>>) \cap Region(<<"up", n>>) = {}
    BY <1>1, RegionOfForwardUp
  <2>2. \A d, e \in D : d # e => Region(<<"ch", d>>) \cap Region(<<"ch", e>>) = {}
    BY <1>1, RegionOfKids
  <2>3. \A q \in N : q = <<"up", n>> \/ \E d \in D : q = <<"ch", d>>
    OBVIOUS
  <2> HIDE DEF N, n, p
  <2> QED
    BY <2>1, <2>2, <2>3 DEF Splits
<1>7. Flood(Holders(m.v), handled[m.v]) /\ p \in Holders(m.v)
  BY <1>1, <1>3, Held DEF Flooded, m
<1>8. \A d \in D : ~In(bcstCh[d], m.v)
  <2>1. \A d \in D : d \in Nodes /\ <<"ch", d>> \in N /\ <<"ch", d>> # p
    OBVIOUS
  <2> HIDE DEF N, p
  <2>2. \A d \in D : <<"ch", d>> \notin Holders(m.v)
    BY <1>6, <1>7, <2>1, FreshQueue
  <2> QED
    BY <2>1, <2>2, Held
<1>9. up[n] \in Nodes => ~In(toUp[n], m.v)
  <2> SUFFICES ASSUME up[n] \in Nodes PROVE ~In(toUp[n], m.v)
    OBVIOUS
  <2>1. Region(<<"up", n>>) # {}
    BY <1>1, RegionOfReadUp
  <2>2. <<"up", n>> \in N /\ <<"up", n>> # p
    OBVIOUS
  <2> HIDE DEF N, p
  <2>3. <<"up", n>> \notin Holders(m.v)
    BY <1>6, <1>7, <2>1, <2>2, FreshPlace
  <2> QED
    BY <1>1, <2>3, Held
<1>10. \A d \in Nodes : /\ Once(bcstCh'[d])
                        /\ \A r : In(bcstCh'[d], r) => In(bcstCh[d], r) \/ (r = m.v /\ d \in D)
  <2> SUFFICES ASSUME NEW d \in Nodes
               PROVE  /\ Once(bcstCh'[d])
                      /\ \A r : In(bcstCh'[d], r) => In(bcstCh[d], r) \/ (r = m.v /\ d \in D)
    OBVIOUS
  <2>1. bcstCh[d] \in Seq(Msgs) /\ Once(bcstCh[d])
    BY DEF Queued, Flooded
  <2>2. CASE d \in D
    <3>1. bcstCh'[d] = Append(bcstCh[d], f)
      BY <1>5, <2>2
    <3> QED
      BY <1>2, <1>8, <2>1, <2>2, <3>1, OnceAppend
  <2>3. CASE d \notin D
    <3>1. bcstCh'[d] = bcstCh[d]
      BY <1>5, <2>3
    <3> QED
      BY <2>1, <3>1
  <2> QED
    BY <2>2, <2>3
<1>11. \A d \in Nodes : /\ Once(toUp'[d])
                        /\ \A r : In(toUp'[d], r) => In(toUp[d], r) \/ (r = m.v /\ d = n /\ up[n] \in Nodes)
  <2> SUFFICES ASSUME NEW d \in Nodes
               PROVE  /\ Once(toUp'[d])
                      /\ \A r : In(toUp'[d], r) => In(toUp[d], r) \/ (r = m.v /\ d = n /\ up[n] \in Nodes)
    OBVIOUS
  <2>1. toUp[d] \in Seq(Msgs) /\ Once(toUp[d])
    BY DEF Queued, Flooded
  <2>2. CASE toUp'[d] = toUp[d]
    BY <2>1, <2>2
  <2>3. CASE toUp'[d] # toUp[d]
    <3>1. d = n /\ up[n] \in Nodes /\ toUp'[d] = Append(toUp[d], f)
      BY <1>1, <1>2, <2>3 DEF Adds, Queued
    <3> QED
      BY <1>2, <1>9, <2>1, <3>1, OnceAppend
  <2> QED
    BY <2>2, <2>3
<1>12. \A d \in Nodes : Once(toUp'[d]) /\ Once(bcstCh'[d]) /\ Once(toDown'[d])
  BY <1>4, <1>10, <1>11 DEF Flooded
<1>13. ASSUME NEW r \in 1 .. MaxReports PROVE Flood(Holders(r)', handled'[r])
  <2>1. CASE r = m.v
    <3> DEFINE T == (Holders(r) \ {p}) \cup N
    <3>1. \A d \in Nodes :
            /\ In(toUp'[d], r) => <<"up", d>> \in T
            /\ reader'[d].at # "read" /\ reader'[d].msg.v = r => <<"read", d>> \in T
            /\ In(bcstCh'[d], r) => <<"ch", d>> \in T
            /\ In(toDown'[d], r) => <<"down", d>> \in T
      BY <1>4, <1>10, <1>11, Held
    <3> HIDE DEF T
    <3>2. Holders(r)' \subseteq T
      BY <3>1, HeldNext
    <3> HIDE DEF N, p
    <3> QED
      BY <1>4, <1>6, <1>7, <2>1, <3>2, FloodSpreads DEF T
  <2>2. CASE r # m.v
    <3>1. \A d \in Nodes :
            /\ In(toUp'[d], r) => <<"up", d>> \in Holders(r)
            /\ reader'[d].at # "read" /\ reader'[d].msg.v = r => <<"read", d>> \in Holders(r)
            /\ In(bcstCh'[d], r) => <<"ch", d>> \in Holders(r)
            /\ In(toDown'[d], r) => <<"down", d>> \in Holders(r)
      BY <1>4, <1>10, <1>11, <2>2, Held
    <3>2. Holders(r)' \subseteq Holders(r)
      BY <3>1, HeldNext
    <3> QED
      BY <1>4, <3>2, FloodShrinks DEF Flooded
  <2> QED
    BY <2>1, <2>2
<1> QED
  BY <1>4, <1>12, <1>13, FloodedNext

(* streamLoop moves a copy to the wire. *)
LEMMA SendBcstAtomFloods ==
  ASSUME Queued, Reading, Still, InTree, Flooded, NEW c \in Below, SendBcstAtom(c)
  PROVE  Flooded'
<1> DEFINE m == Head(bcstCh[c])
           p == <<"ch", c>>
           N == {<<"down", c>>}
<1>1. c \in Nodes /\ bcstCh[c] \in Seq(AnyMsgs) /\ bcstCh[c] # <<>> /\ Once(bcstCh[c])
      /\ toDown[c] \in Seq(AnyMsgs) /\ Once(toDown[c])
  BY DEF SendBcstAtom, Below, Still, Flooded
<1>2. /\ m \in AnyMsgs /\ Once(Tail(bcstCh[c]))
      /\ \A r : In(Tail(bcstCh[c]), r) => In(bcstCh[c], r)
      /\ m.kind = "host" => In(bcstCh[c], m.v) /\ ~In(Tail(bcstCh[c]), m.v)
  BY <1>1, OnceTail
<1>3. m.kind = "host" => m.v \in 1 .. MaxReports
  BY <1>2, Numbers
<1>4. /\ UNCHANGED <<up, toUp, reader, handled>>
      /\ bcstCh'[c] = Tail(bcstCh[c]) /\ \A d \in Nodes \ {c} : bcstCh'[d] = bcstCh[d]
      /\ toDown'[c] = Append(toDown[c], m) /\ \A d \in Nodes \ {c} : toDown'[d] = toDown[d]
  BY <1>1 DEF SendBcstAtom, Queued
<1> HIDE DEF m
<1>5. Splits(N, p)
  BY DEF Splits, Region
<1>6. m.kind = "host" => ~In(toDown[c], m.v)
  <2> SUFFICES ASSUME m.kind = "host" PROVE ~In(toDown[c], m.v)
    OBVIOUS
  <2>1. Flood(Holders(m.v), handled[m.v]) /\ p \in Holders(m.v)
    BY <1>1, <1>2, <1>3, Held DEF Flooded
  <2>2. <<"down", c>> \in N /\ <<"down", c>> # p
    OBVIOUS
  <2> HIDE DEF N, p
  <2>3. <<"down", c>> \notin Holders(m.v)
    BY <1>1, <1>5, <2>1, <2>2, FreshQueue
  <2> QED
    BY <1>1, <2>3, Held
<1>7. /\ Once(Append(toDown[c], m))
      /\ \A r : In(Append(toDown[c], m), r) => In(toDown[c], r) \/ (m.kind = "host" /\ m.v = r)
  BY <1>1, <1>2, <1>6, OnceAppend
<1>8. \A d \in Nodes : Once(toUp'[d]) /\ Once(bcstCh'[d]) /\ Once(toDown'[d])
  BY <1>2, <1>4, <1>7 DEF Flooded
<1>9. ASSUME NEW r \in 1 .. MaxReports PROVE Flood(Holders(r)', handled'[r])
  <2>1. \A d \in Nodes :
          /\ In(bcstCh'[d], r) => In(bcstCh[d], r)
          /\ In(toDown'[d], r) => In(toDown[d], r) \/ (d = c /\ m.kind = "host" /\ m.v = r)
    BY <1>2, <1>4, <1>7
  <2>2. CASE m.kind = "host" /\ r = m.v
    <3> DEFINE T == (Holders(r) \ {p}) \cup N
    <3>1. p \in Holders(r)
      BY <1>1, <1>2, <2>2, Held
    <3>2. \A d \in Nodes : In(bcstCh'[d], r) => d # c
      BY <1>2, <1>4, <2>2
    <3>3. \A d \in Nodes :
            /\ In(toUp'[d], r) => <<"up", d>> \in T
            /\ reader'[d].at # "read" /\ reader'[d].msg.v = r => <<"read", d>> \in T
            /\ In(bcstCh'[d], r) => <<"ch", d>> \in T
            /\ In(toDown'[d], r) => <<"down", d>> \in T
      BY <1>4, <2>1, <3>2, Held
    <3> HIDE DEF T
    <3>4. Holders(r)' \subseteq T
      BY <3>3, HeldNext
    <3>5. Flood(Holders(r), handled[r])
      BY DEF Flooded
    <3> HIDE DEF N, p
    <3> QED
      BY <1>4, <1>5, <3>1, <3>4, <3>5, FloodSpreads DEF T
  <2>3. CASE ~(m.kind = "host" /\ r = m.v)
    <3>1. Holders(r)' \subseteq Holders(r)
      BY <1>4, <2>1, <2>3, Held, HeldNext
    <3> QED
      BY <1>4, <3>1, FloodShrinks DEF Flooded
  <2> QED
    BY <2>2, <2>3
<1> QED
  BY <1>4, <1>8, <1>9, FloodedNext

(* A node takes a copy from above and passes copies on. *)
LEMMA ReadDownFloods ==
  ASSUME Queued, Reading, Still, InTree, Flooded, NEW c \in Below, ReadDown(c), ~lost'
  PROVE  Flooded'
<1> DEFINE m == Head(toDown[c])
           f == Forwarded(m)
           p == <<"down", c>>
<1>1. c \in Nodes /\ toDown[c] \in Seq(AnyMsgs) /\ toDown[c] # <<>> /\ Once(toDown[c])
  BY DEF ReadDown, Below, Still, Flooded
<1>2. /\ m \in AnyMsgs /\ Once(Tail(toDown[c]))
      /\ \A r : In(Tail(toDown[c]), r) => In(toDown[c], r)
      /\ m.kind = "host" => In(toDown[c], m.v) /\ ~In(Tail(toDown[c]), m.v)
  BY <1>1, OnceTail
<1>3. m \in Msgs /\ (m.kind = "host" => m.v \in 1 .. MaxReports)
  BY <1>2, Numbers
<1>4. /\ UNCHANGED <<up, reader>>
      /\ toDown'[c] = Tail(toDown[c]) /\ \A d \in Nodes \ {c} : toDown'[d] = toDown[d]
  BY <1>1 DEF ReadDown, Queued
<1>5. /\ handled' = handled \/ (m.kind = "host" /\ handled' = [handled EXCEPT ![m.v] = Append(@, c)])
  BY DEF ReadDown
<1>6. /\ f \in Msgs /\ f.kind = m.kind /\ f.v = m.v /\ toUp' = toUp
      /\ \E D \in SUBSET {d \in Nodes : up[d] = c} :
           bcstCh' = [d \in Nodes |-> IF d \in D THEN Append(bcstCh[d], f) ELSE bcstCh[d]]
  <2>1. CASE m.kind = "chan"
    <3>1. f \in Msgs /\ f.kind = m.kind /\ f.v = m.v
      <4>1. f \in Msgs
        BY <1>3, ForwardedType
      <4> HIDE DEF m
      <4> QED
        BY <1>3, <4>1 DEF Forwarded, Msgs
    <3>2. UNCHANGED <<toUp, bcstCh>>
      BY <2>1 DEF ReadDown
    <3>3. bcstCh' = [d \in Nodes |-> IF d \in {} THEN Append(bcstCh[d], f) ELSE bcstCh[d]]
      BY <3>2 DEF Queued
    <3>4. {} \in SUBSET {d \in Nodes : up[d] = c}
      OBVIOUS
    <3> HIDE DEF f
    <3> QED
      BY <3>1, <3>2, <3>3, <3>4
  <2>2. CASE m.kind # "chan"
    <3>1. Forward(c, None, m)
      BY <2>2 DEF ReadDown
    <3> HIDE DEF m
    <3>2. f \in Msgs /\ f.kind = m.kind /\ f.v = m.v /\ Adds(c, None, f)
      BY <1>1, <1>3, <3>1, ForwardAdds
    <3> HIDE DEF f
    <3> QED
      BY <3>2 DEF Adds
  <2> QED
    BY <2>1, <2>2
<1> HIDE DEF f, m
<1>7. PICK D \in SUBSET {d \in Nodes : up[d] = c} :
        bcstCh' = [d \in Nodes |-> IF d \in D THEN Append(bcstCh[d], f) ELSE bcstCh[d]]
  BY <1>6
<1> DEFINE N == {<<"ch", d>> : d \in D}
<1>8. Splits(N, p) /\ c \in Region(p) /\ \A q \in N : c \notin Region(q)
  <2>1. /\ c \in Region(p)
        /\ \A d \in D : Region(<<"ch", d>>) \subseteq Region(p) /\ c \notin Region(<<"ch", d>>)
    BY <1>1, RegionOfReadDown
  <2>2. \A d, e \in D : d # e => Region(<<"ch", d>>) \cap Region(<<"ch", e>>) = {}
    BY <1>1, RegionOfKids
  <2>3. \A q \in N : \E d \in D : q = <<"ch", d>>
    OBVIOUS
  <2> HIDE DEF N, p
  <2> QED
    BY <2>1, <2>2, <2>3 DEF Splits
<1>9. m.kind = "host" => p \in Holders(m.v) /\ Flood(Holders(m.v), handled[m.v])
  BY <1>1, <1>2, <1>3, Held DEF Flooded
<1>10. m.kind = "host" => \A d \in D : ~In(bcstCh[d], m.v)
  <2>1. \A d \in D : d \in Nodes /\ <<"ch", d>> \in N /\ <<"ch", d>> # p
    OBVIOUS
  <2> HIDE DEF N, p
  <2>2. m.kind = "host" => \A d \in D : <<"ch", d>> \notin Holders(m.v)
    BY <1>8, <1>9, <2>1, FreshQueue
  <2> QED
    BY <2>1, <2>2, Held
<1>11. \A d \in Nodes : /\ Once(bcstCh'[d])
                        /\ \A r : In(bcstCh'[d], r) =>
                             In(bcstCh[d], r) \/ (m.kind = "host" /\ r = m.v /\ d \in D)
  <2> SUFFICES ASSUME NEW d \in Nodes
               PROVE  /\ Once(bcstCh'[d])
                      /\ \A r : In(bcstCh'[d], r) =>
                           In(bcstCh[d], r) \/ (m.kind = "host" /\ r = m.v /\ d \in D)
    OBVIOUS
  <2>1. bcstCh[d] \in Seq(Msgs) /\ Once(bcstCh[d])
    BY DEF Queued, Flooded
  <2>2. CASE d \in D
    <3>1. bcstCh'[d] = Append(bcstCh[d], f)
      BY <1>7, <2>2
    <3> QED
      BY <1>6, <1>10, <2>1, <2>2, <3>1, OnceAppend
  <2>3. CASE d \notin D
    <3>1. bcstCh'[d] = bcstCh[d]
      BY <1>7, <2>3
    <3> QED
      BY <2>1, <3>1
  <2> QED
    BY <2>2, <2>3
<1>12. \A d \in Nodes : Once(toUp'[d]) /\ Once(bcstCh'[d]) /\ Once(toDown'[d])
  BY <1>2, <1>4, <1>6, <1>11 DEF Flooded
<1>13. ASSUME NEW r \in 1 .. MaxReports PROVE Flood(Holders(r)', handled'[r])
  <2>0. Flood(Holders(r), handled[r]) /\ handled[r] \in Seq(Nodes)
    BY DEF Flooded, Still
  <2>1. \A d \in Nodes : In(toDown'[d], r) => In(toDown[d], r)
    BY <1>2, <1>4
  <2>2. CASE m.kind = "host" /\ r = m.v
    <3> DEFINE T == (Holders(r) \ {p}) \cup N
    <3>1. \A d \in Nodes : In(toDown'[d], r) => d # c
      BY <1>2, <1>4, <2>2
    <3>2. \A d \in Nodes :
            /\ In(toUp'[d], r) => <<"up", d>> \in T
            /\ reader'[d].at # "read" /\ reader'[d].msg.v = r => <<"read", d>> \in T
            /\ In(bcstCh'[d], r) => <<"ch", d>> \in T
            /\ In(toDown'[d], r) => <<"down", d>> \in T
      BY <1>4, <1>6, <1>11, <2>1, <3>1, Held
    <3> HIDE DEF T
    <3>3. Holders(r)' \subseteq T
      BY <3>2, HeldNext
    <3>4. handled'[r] = handled[r] \/ handled'[r] = Append(handled[r], c)
      BY <1>3, <1>5, <2>2 DEF Still
    <3> HIDE DEF N, p
    <3>5. Flood(Holders(r)', handled[r])
      BY <1>8, <1>9, <2>0, <2>2, <3>3, FloodSpreads DEF T
    <3>6. Flood(Holders(r)', Append(handled[r], c))
      BY <1>1, <1>8, <1>9, <2>0, <2>2, <3>3, FloodTakes DEF T
    <3> QED
      BY <3>4, <3>5, <3>6
  <2>3. CASE ~(m.kind = "host" /\ r = m.v)
    <3>1. \A d \in Nodes : In(bcstCh'[d], r) => In(bcstCh[d], r)
      BY <1>11, <2>3
    <3>2. Holders(r)' \subseteq Holders(r)
      BY <1>4, <1>6, <2>1, <3>1, Held, HeldNext
    <3>3. handled'[r] = handled[r]
      BY <1>3, <1>5, <2>3 DEF Still
    <3> QED
      BY <2>0, <3>2, <3>3, FloodShrinks
  <2> QED
    BY <2>2, <2>3
<1> QED
  BY <1>4, <1>12, <1>13, FloodedNext

(* Nothing else that happens moves a report. *)
LEMMA OthersFlood ==
  ASSUME Queued, Reading, Still, Flooded,
         \/ UpdateInfo
         \/ \E c \in Below : Observe(c) \/ SendInfoUpdate(c)
         \/ \E n, s \in Nodes : Expire(n, s)
  PROVE  Flooded'
<1>1. /\ UNCHANGED <<up, toUp, bcstCh, handled>>
      /\ \A d \in Nodes : reader'[d].at # "read" =>
           reader[d].at # "read" /\ reader'[d].msg = reader[d].msg
      /\ \A d \in Nodes : Once(toDown'[d]) /\ \A r : In(toDown'[d], r) => In(toDown[d], r)
  <2>1. CASE UpdateInfo \/ \E n, s \in Nodes : Expire(n, s)
    BY <2>1 DEF UpdateInfo, Expire, queues, Flooded
  <2>2. ASSUME NEW c \in Below, Observe(c)
        PROVE  /\ UNCHANGED <<up, queues, handled>>
               /\ \A d \in Nodes : reader'[d].at # "read" =>
                    reader[d].at # "read" /\ reader'[d].msg = reader[d].msg
    <3>1. PICK at : reader' = [reader EXCEPT ![c].at = at]
      BY <2>2 DEF Observe
    <3>2. \A d \in Nodes : reader'[d].msg = reader[d].msg /\ (d # c => reader'[d].at = reader[d].at)
      BY <3>1 DEF Reading
    <3> QED
      BY <2>2, <3>2 DEF Observe
  <2>3. ASSUME NEW c \in Below, SendInfoUpdate(c)
        PROVE  /\ UNCHANGED <<up, toUp, bcstCh, handled, reader>>
               /\ \A d \in Nodes : Once(toDown'[d]) /\ \A r : In(toDown'[d], r) => In(toDown[d], r)
    <3> DEFINE m == Message(up[c], IF up[c] = Tracker THEN "info" ELSE "chan", {"relays"}, None, info[up[c]])
    <3>1. c \in Nodes /\ up[c] \in Nodes /\ info[up[c]] \in Int
      BY <2>3 DEF SendInfoUpdate, Below, Reading, Queued
    <3>2. m \in Msgs /\ m.kind # "host"
      <4>1. m \in Msgs
        BY <3>1, MessageType DEF Groups
      <4> QED
        BY <4>1 DEF Message
    <3>3. toDown' = [toDown EXCEPT ![c] = Append(@, m)] /\ UNCHANGED <<up, toUp, bcstCh, handled, reader>>
      BY <2>3 DEF SendInfoUpdate
    <3> HIDE DEF m
    <3>4. toDown[c] \in Seq(Msgs) /\ Once(toDown[c])
      BY <3>1 DEF Queued, Flooded
    <3>5. Once(Append(toDown[c], m)) /\ \A r : In(Append(toDown[c], m), r) => In(toDown[c], r)
      BY <3>2, <3>4, OnceAppend
    <3> QED
      BY <3>1, <3>3, <3>5 DEF Queued, Flooded
  <2>4. CASE \E c \in Below : Observe(c)
    BY <2>2, <2>4 DEF queues, Flooded
  <2>5. CASE \E c \in Below : SendInfoUpdate(c)
    BY <2>3, <2>5
  <2> QED
    BY <2>1, <2>4, <2>5
<1>2. \A d \in Nodes : Once(toUp'[d]) /\ Once(bcstCh'[d]) /\ Once(toDown'[d])
  BY <1>1 DEF Flooded
<1>3. ASSUME NEW r \in 1 .. MaxReports PROVE Flood(Holders(r)', handled'[r])
  <2>1. Holders(r)' \subseteq Holders(r)
    BY <1>1, Held, HeldNext
  <2> QED
    BY <1>1, <2>1, FloodShrinks DEF Flooded
<1> QED
  BY <1>1, <1>2, <1>3, FloodedNext

(* So in a tree reports keep spreading to different nodes, until one is lost.  *)
LEMMA TInvStep ==
  ASSUME Queued, Reading, TInv, Next
  PROVE  TInv' /\ (lost' \/ up' = up)
<1> SUFFICES ASSUME ~lost' PROVE TInv' /\ up' = up
  BY DEF TInv
<1>1. ~lost
  BY DEF Next, Report, ReportToRelays, Originate, UpdateInfo, ReadLoop, ReadUp, Observe, ForwardUp, StreamLoop,
         SendBcstAtom, SendInfoUpdate, ReadDown, Forward, Broadcast, Forget, Close, Expire
<1>2. Still
  BY <1>1 DEF TInv
<1>3. Still' /\ up' = up
  BY <1>2, StillStep
<1>4. ASSUME InTree PROVE Flooded'
  <2>1. Flooded
    BY <1>1, <1>4 DEF TInv
  <2>2. ASSUME NEW c \in Below, Forget(c) \/ Close(c) PROVE FALSE
    BY <1>2, <2>2 DEF Forget, Close, Still, Below
  <2> QED
    BY <1>2, <1>4, <2>1, <2>2, OriginateFloods, ReadUpFloods, ForwardUpFloods, SendBcstAtomFloods, ReadDownFloods,
       OthersFlood DEF Next, Report, ReportToRelays, ReadLoop, StreamLoop, Groups
<1>5. InTree' <=> InTree
  BY <1>3 DEF InTree
<1> QED
  BY <1>3, <1>4, <1>5 DEF TInv

(* In a tree of any shape and size, with queues of any length and any TTL, no  *)
(* node takes a report twice as long as no queue was full and no connection    *)
(* has ended: Broadcast returns it to nobody who had it (channel.go,           *)
(* Broadcast; bcst.go, RouteBcst).                                             *)
THEOREM NoReportIsTakenTwice == Spec => TakenOnce
<1>1. Init => Queued /\ Reading /\ TInv
  <2> SUFFICES ASSUME Init PROVE Queued /\ Reading /\ TInv
    OBVIOUS
  <2>1. Queued /\ Reading
    BY RoutingInit DEF BInv
  <2>2. Still
    BY RoutingAssumption DEF Init, Still, Idle
  <2>3. Flooded
    <3>1. \A n \in Nodes : Once(toUp[n]) /\ Once(bcstCh[n]) /\ Once(toDown[n])
      BY DEF Init, Once
    <3>2. \A r : Holders(r) = {}
      BY DEF Init, Holders, Places, Has, In, Idle
    <3>3. \A r \in 1 .. MaxReports : handled[r] = <<>>
      BY DEF Init
    <3> QED
      BY <3>1, <3>2, <3>3 DEF Flooded, Flood, IsInjective
  <2> QED
    BY <2>1, <2>2, <2>3 DEF TInv
<1>2. Queued /\ Reading /\ TInv /\ [Next]_vars => Queued' /\ Reading' /\ TInv'
  <2> SUFFICES ASSUME Queued, Reading, TInv, [Next]_vars PROVE Queued' /\ Reading' /\ TInv'
    OBVIOUS
  <2>1. CASE Next
    BY <2>1, QueuedStep, ReadingStep, TInvStep
  <2>2. CASE UNCHANGED vars
    <3> USE <2>2 DEF vars, queues, budget
    <3>1. Queued' /\ Reading'
      BY DEF Queued, Reading
    <3>2. Still <=> Still'
      BY DEF Still, HostMsgs, AnyMsgs
    <3>3. InTree <=> InTree'
      BY DEF InTree
    <3>4. Flooded <=> Flooded'
      BY DEF Flooded, Flood, Holders, Has, Region, Sub, Under
    <3> QED
      BY <3>1, <3>2, <3>3, <3>4 DEF TInv
  <2> QED
    BY <2>1, <2>2
<1>3. Queued /\ Reading /\ TInv /\ [Next]_vars =>
        [\A r \in 1 .. MaxReports : handled'[r] # handled[r] =>
           lost' \/ ~InTree \/ IsInjective(handled'[r])]_vars
  <2> SUFFICES ASSUME Queued, Reading, TInv, Next, ~lost', InTree, NEW r \in 1 .. MaxReports
               PROVE  IsInjective(handled'[r])
    OBVIOUS
  <2>1. TInv' /\ up' = up
    BY TInvStep
  <2>2. InTree'
    BY <2>1 DEF InTree
  <2>3. Flooded'
    BY <2>1, <2>2 DEF TInv
  <2> QED
    BY <2>3 DEF Flooded, Flood
<1> QED
  BY <1>1, <1>2, <1>3, PTL DEF Spec, TakenOnce
=============================================================================
