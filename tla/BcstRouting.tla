---------------------------- MODULE BcstRouting ----------------------------
(***************************************************************************)
(* Broadcasts (BCST atoms) in the tree of nodes that relay one channel:    *)
(* RouteBcst of internal/pcputil/bcst.go, its callers at both ends of a    *)
(* connection, Channel.Broadcast, and the counts and owners of the node    *)
(* table that HOST reports fill (internal/channel/nodes.go,                *)
(* observed_hosts.go); its cache of HOST atoms is left out.                *)
(*                                                                         *)
(* A connection is named by its lower node.  toUp is what its sender has   *)
(* queued or written, bcstCh what is queued for it at the upper node and   *)
(* toDown what is written to it.  Every node but the tracker has one       *)
(* upstream node, and nothing keeps nodes from relaying from each other in *)
(* a circle.                                                               *)
(***************************************************************************)
EXTENDS Integers, Sequences, FiniteSets, SequencesExt

CONSTANTS
  Nodes, Tracker,
  InitialTTL,     \* 11 in the code
  MaxHops,        \* 255
  UpCap, DownCap, \* capacities of the queues: 32 and 8
  WireCap,        \* bound: what is written to a peer and not yet read
  MaxInfo,        \* bound: updates of the channel info
  MaxReports,     \* bound: broadcasts that are not info updates
  MaxLeaves,      \* bound: connections that end
  MaxEvents,      \* bound: of these together
  Arrangements,   \* who relays from whom at first
  None

ASSUME RoutingAssumption ==
  /\ Tracker \in Nodes /\ None \notin Nodes
  /\ {InitialTTL, MaxHops, UpCap, DownCap, WireCap} \subseteq Nat \ {0}
  /\ {MaxInfo, MaxReports, MaxLeaves, MaxEvents} \subseteq Nat
  /\ \A f \in Arrangements :
       /\ f \in [Nodes -> Nodes \cup {None}] /\ f[Tracker] = None
       /\ \A n \in Nodes : f[n] # n

VARIABLES
  up,          \* the upstream node of each node; None if not connected
  link,        \* "up", or how far the upper node has come in ending the connection
  toUp, bcstCh, toDown,
  infoToken,   \* outputs whose infoCh holds a token
  info,        \* version of the channel info at each node
  reader,      \* the broadcast readLoop works on, and how far it has come
  stats, owners,    \* the node table: sessions that count, and who reported them
  reports, leaves,  \* how many there have been
  handled,     \* history: the nodes that took each report, in order
  lost         \* history: a queue was full or a connection ended

queues == <<toUp, bcstCh, toDown>>
table == <<stats, owners>>
budget == <<reports, leaves>>
vars == <<up, link, queues, infoToken, info, reader, table, budget, handled, lost>>

(* Something may still happen. *)
More == info[Tracker] + reports + leaves < MaxEvents

Below == Nodes \ {Tracker}
Children(n) == {c \in Below : up[c] = n}

Idle == [at |-> "read", msg |-> None]

Init ==
  /\ up \in Arrangements
  /\ link = [n \in Nodes |-> "up"]
  /\ toUp = [n \in Nodes |-> <<>>] /\ bcstCh = toUp /\ toDown = toUp
  /\ infoToken = {}
  /\ info = [n \in Nodes |-> 0]
  /\ reader = [n \in Nodes |-> Idle]
  /\ stats = [n \in Nodes |-> {}]
  /\ owners = [n \in Nodes |-> [m \in Nodes |-> None]]
  /\ reports = 0 /\ leaves = 0
  /\ handled = [r \in 1 .. MaxReports |-> <<>>]
  /\ lost = FALSE

-----------------------------------------------------------------------------
(* RouteBcst *)

Local_LastHop(m, self) == m.from # self /\ m.dest \in {None, self} /\ m.ttl <= 1

Local(m, self) == m.from # self /\ m.dest \in {None, self}

Forwards(m, self) ==
  /\ m.from # self /\ m.dest # self
  /\ m.ttl > 1 /\ m.hops < MaxHops

Forwarded_Original(m) == m

Forwarded(m) == [m EXCEPT !.ttl = @ - 1, !.hops = @ + 1]

(* Channel.Broadcast at node n for a message from connection c, or from the   *)
(* upstream node if c is None: up, except what came from there, and, for the  *)
(* group of relays, down to all outputs but the sender.                       *)
GoesUp(n, c, m) == c # None /\ up[n] # None /\ link[n] = "up" /\ m.group # {}

GoesDown_All(n, c, m) == IF "relays" \in m.group THEN {d \in Children(n) : link[d] = "up"} ELSE {}
GoesDown(n, c, m) == IF "relays" \in m.group THEN {d \in Children(n) : link[d] = "up"} \ {c} ELSE {}

(* SendBcst: a full queue to a peer drops the message; a full queue to the    *)
(* upstream node cancels the connection, whose other end then sees it end.    *)
Full(n, c, m) == GoesUp(n, c, m) /\ Len(toUp[n]) >= UpCap
Drops(n, c, m) == {d \in GoesDown(n, c, m) : Len(bcstCh[d]) >= DownCap}

Broadcast(n, c, m) ==
  /\ toUp' = [toUp EXCEPT ![n] = IF GoesUp(n, c, m) /\ ~Full(n, c, m) THEN Append(@, m) ELSE @]
  /\ bcstCh' = [d \in Nodes |-> IF d \in GoesDown(n, c, m) \ Drops(n, c, m)
                                THEN Append(bcstCh[d], m) ELSE bcstCh[d]]
  /\ link' = [link EXCEPT ![n] = IF Full(n, c, m) THEN "cut" ELSE @]
  /\ lost' = (lost \/ Full(n, c, m) \/ Drops(n, c, m) # {})

Forward(n, c, m) ==
  IF Forwards(m, n) THEN Broadcast(n, c, Forwarded(m)) ELSE UNCHANGED <<toUp, bcstCh, link, lost>>

-----------------------------------------------------------------------------
(* Broadcasts start *)

Message(n, kind, group, dest, v) ==
  [kind |-> kind, from |-> n, group |-> group, dest |-> dest, ttl |-> InitialTTL, hops |-> 0, v |-> v]

(* A node sends a report, the serial number of which is for the properties. *)
Originate(n, group, dest) ==
  /\ reports < MaxReports /\ More
  /\ up[n] # None /\ link[n] = "up" /\ Len(toUp[n]) < UpCap
  /\ reports' = reports + 1
  /\ toUp' = [toUp EXCEPT ![n] = Append(@, Message(n, "host", group, dest, reports'))]
  /\ UNCHANGED <<up, link, bcstCh, toDown, infoToken, info, reader, table, leaves, handled, lost>>

(* bcstHostLoop sends the node's own HOST atom towards the tracker. *)
Report(n) == Originate(n, {"trackers"}, None)

(* Other software also reports to everybody, or to one node. *)
ReportToRelays(n, dest) == Originate(n, {"trackers", "relays"}, dest)

(* SetInfo: every output of the node gets a token. *)
SetInfo(n, v) ==
  /\ info' = [info EXCEPT ![n] = v]
  /\ infoToken' = infoToken \cup {c \in Children(n) : link[c] = "up"}

(* The tracker's info changes. *)
UpdateInfo ==
  /\ info[Tracker] < MaxInfo /\ More
  /\ SetInfo(Tracker, info[Tracker] + 1)
  /\ UNCHANGED <<up, link, queues, reader, table, budget, handled, lost>>

(* sendInfoUpdate: the current info is written to the peer; the tracker wraps *)
(* it in a broadcast, other nodes do not.                                     *)
SendInfoUpdate(c) ==
  LET u == up[c]
      kind == IF u = Tracker THEN "info" ELSE "chan"
  IN /\ c \in infoToken /\ link[c] = "up" /\ Len(toDown[c]) < WireCap
     /\ infoToken' = infoToken \ {c}
     /\ toDown' = [toDown EXCEPT ![c] = Append(@, Message(u, kind, {"relays"}, None, info[u]))]
     /\ UNCHANGED <<up, link, toUp, bcstCh, info, reader, table, budget, handled, lost>>

(* streamLoop takes a queued broadcast; select may take the token before it. *)
SendBcstAtom(c) ==
  /\ bcstCh[c] # <<>> /\ link[c] = "up" /\ Len(toDown[c]) < WireCap
  /\ toDown' = [toDown EXCEPT ![c] = Append(@, Head(bcstCh[c]))]
  /\ bcstCh' = [bcstCh EXCEPT ![c] = Tail(@)]
  /\ UNCHANGED <<up, link, toUp, infoToken, info, reader, table, budget, handled, lost>>

-----------------------------------------------------------------------------
(* The node table.  Each definition is one section of nodeTable.mu. *)

updateStats(n, s) == stats' = [stats EXCEPT ![n] = @ \cup {s}]

setOwner(n, s, via) == owners' = [owners EXCEPT ![n][s] = via]

(* removeStats: the peer and all it has reported. *)
Owned(n, s) == {m \in Nodes : owners[n][m] = s}

removeStats_OwnersFirst(n, s) ==
  /\ stats' = [stats EXCEPT ![n] = @ \ {s}]
  /\ owners' = [owners EXCEPT ![n] = [m \in Nodes |-> IF m = s \/ @[m] = s THEN None ELSE @[m]]]

removeStats(n, s) ==
  LET gone == {s} \cup Owned(n, s)
  IN /\ stats' = [stats EXCEPT ![n] = @ \ gone]
     /\ owners' = [owners EXCEPT ![n] = [m \in Nodes |-> IF m \in gone THEN None ELSE @[m]]]

(* Three minutes pass, and updateStats of another report drops the entry. *)
Expire(n, s) ==
  /\ s \in stats[n]
  /\ stats' = [stats EXCEPT ![n] = @ \ {s}]
  /\ owners' = [owners EXCEPT ![n][s] = None]
  /\ UNCHANGED <<up, link, queues, infoToken, info, reader, budget, handled, lost>>

-----------------------------------------------------------------------------
(* readLoop of connection c at its upper node takes a broadcast.  If it is    *)
(* for this node, forwardBcst first calls ObserveHost, in separate sections,  *)
ReadUp(c) ==
  LET n == up[c]
      m == Head(toUp[c])
  IN /\ n # None /\ link[c] \in {"up", "forgotten"} /\ toUp[c] # <<>> /\ reader[c] = Idle
     /\ reader' = [reader EXCEPT ![c] = [at |-> IF Local(m, n) THEN "stats" ELSE "forward", msg |-> m]]
     /\ toUp' = [toUp EXCEPT ![c] = Tail(@)]
     /\ handled' = IF Local(m, n) THEN [handled EXCEPT ![m.v] = Append(@, n)] ELSE handled
     /\ UNCHANGED <<up, link, bcstCh, toDown, infoToken, info, table, budget, lost>>

Observe(c) ==
  LET n == up[c]
      s == reader[c].msg.from
  IN /\ \/ /\ reader[c].at = "stats"
           /\ updateStats(n, s)
           /\ reader' = [reader EXCEPT ![c].at = "owner"]
           /\ UNCHANGED owners
        \/ /\ reader[c].at = "owner"
           /\ setOwner(n, s, c)
           /\ reader' = [reader EXCEPT ![c].at = "forward"]
           /\ UNCHANGED stats
     /\ UNCHANGED <<up, link, queues, infoToken, info, budget, handled, lost>>

(* and then forwards it. *)
ForwardUp(c) ==
  /\ reader[c].at = "forward"
  /\ Forward(up[c], c, reader[c].msg)
  /\ reader' = [reader EXCEPT ![c] = Idle]
  /\ UNCHANGED <<up, toDown, infoToken, info, table, budget, handled>>

(* processBody of node c: handleBcst forwards first, then takes the info.  A  *)
(* chan atom that is not wrapped is only taken.                               *)
ReadDown(c) ==
  LET m == Head(toDown[c])
      takes == m.kind = "chan" \/ Local(m, c)
  IN /\ link[c] = "up" /\ toDown[c] # <<>>
     /\ toDown' = [toDown EXCEPT ![c] = Tail(@)]
     /\ IF m.kind = "chan" THEN UNCHANGED <<toUp, bcstCh, link, lost>> ELSE Forward(c, None, m)
     /\ IF takes /\ m.kind # "host" THEN SetInfo(c, m.v) ELSE UNCHANGED <<info, infoToken>>
     /\ handled' = IF takes /\ m.kind = "host" THEN [handled EXCEPT ![m.v] = Append(@, c)] ELSE handled
     /\ UNCHANGED <<up, reader, table, budget>>

-----------------------------------------------------------------------------
(* A connection ends: runStreaming forgets the peer first, *)
Forget(c) ==
  /\ up[c] # None
  /\ \/ link[c] = "cut" /\ UNCHANGED leaves
     \/ link[c] = "up" /\ leaves < MaxLeaves /\ More /\ leaves' = leaves + 1
  /\ removeStats(up[c], c)
  /\ link' = [link EXCEPT ![c] = "forgotten"]
  /\ lost' = TRUE
  /\ UNCHANGED <<up, queues, infoToken, info, reader, reports, handled>>

(* and closes the connection then, which ends readLoop at its next read.  The *)
(* node may connect to another one, whose sendInitial writes its info.        *)
Close(c) ==
  /\ link[c] = "forgotten" /\ reader[c] = Idle
  /\ \E u \in (Nodes \cup {None}) \ {c} :
       /\ up' = [up EXCEPT ![c] = u]
       /\ toDown' = [toDown EXCEPT ![c] =
                       IF u = None THEN <<>> ELSE <<Message(u, "chan", {}, None, info[u])>>]
  /\ link' = [link EXCEPT ![c] = "up"]
  /\ toUp' = [toUp EXCEPT ![c] = <<>>]
  /\ bcstCh' = [bcstCh EXCEPT ![c] = <<>>]
  /\ infoToken' = infoToken \ {c}
  /\ UNCHANGED <<info, reader, table, budget, handled, lost>>

(* The goroutines of connection c at the upper node. *)
StreamLoop(c) == SendBcstAtom(c) \/ SendInfoUpdate(c)
ReadLoop(c) == ReadUp(c) \/ Observe(c) \/ ForwardUp(c)
Ends(c) == link[c] # "up" /\ (Forget(c) \/ Close(c))

Next ==
  \/ \E n \in Nodes : Report(n) \/ \E d \in Nodes \cup {None} : ReportToRelays(n, d)
  \/ UpdateInfo
  \/ \E c \in Below :
       ReadLoop(c) \/ StreamLoop(c) \/ ReadDown(c) \/ Forget(c) \/ Close(c)
  \/ \E n, s \in Nodes : Expire(n, s)

Spec == Init /\ [][Next]_vars

(* The goroutines run; a select does not pass over the same case for ever. *)
FairSpec ==
  /\ Spec
  /\ \A c \in Below :
       /\ WF_vars(ReadLoop(c)) /\ WF_vars(ReadDown(c)) /\ WF_vars(Ends(c))
       /\ WF_vars(StreamLoop(c)) /\ SF_vars(SendBcstAtom(c))

-----------------------------------------------------------------------------
(* No broadcast is queued, written or being read. *)
Quiet ==
  \A n \in Nodes :
    /\ toUp[n] = <<>> /\ bcstCh[n] = <<>> /\ reader[n] = Idle
    /\ \A m \in ToSet(toDown[n]) : m.kind = "chan"

(* No nodes relay from each other in a circle: in every group of nodes one    *)
(* has its upstream node outside of the group, or has none.                   *)
InTree == \A S \in SUBSET Nodes : S # {} => \E n \in S : up[n] \notin S

(* A broadcast dies out, also when the nodes relay from each other in a       *)
(* circle that its origin is not part of.  (A chan atom that is not wrapped   *)
(* has no TTL and goes round such a circle for ever.)                         *)
Quiesces == []<>Quiet

(* In a tree in which nothing has moved no node takes a report twice, whether *)
(* it goes up, down or both: Broadcast must return it to nobody who had it.   *)
TakenOnce ==
  [][\A r \in 1 .. MaxReports : handled'[r] # handled[r] =>
       lost' \/ ~InTree \/ IsInjective(handled'[r])]_vars

(* Every node of the tree ends up with the tracker's info.  It comes by the   *)
(* broadcast and by the updates of the nodes in between, which overtake each  *)
(* other; as long as nothing is lost, no old one undoes a newer one.          *)
InfoConverges == []<>(lost \/ ~InTree \/ \A n \in Nodes : info[n] = info[Tracker])

(* What is counted in the totals has an owner, with whom removeStats removes  *)
(* it, or is about to get one, although ObserveHost takes the lock more       *)
(* than once and peers leave and reports expire in between.                   *)
CountedIsOwned ==
  \A n \in Nodes : \A s \in stats[n] :
    \/ owners[n][s] # None
    \/ \E c \in Below : up[c] = n /\ reader[c].at = "owner" /\ reader[c].msg.from = s
=============================================================================
