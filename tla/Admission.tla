----------------------------- MODULE Admission -----------------------------
(***************************************************************************)
(* Admission of relays and viewers: the connection handlers of             *)
(* internal/servent/listener.go and the output registry of                 *)
(* internal/channel/channel.go.                                            *)
(*                                                                         *)
(* A PCP connection is checked (canAdmitRelay, which may evict registered  *)
(* relays), does its handshake and is then added (tryAdmit); a viewer is   *)
(* only added.  Both calls hold the listener's admitMu, so additions are   *)
(* serialised; removals (a stream that ends, CloseAll) are not.  The       *)
(* steps are the critical sections of Channel.mu: an eviction picks its    *)
(* victim in one and removes it in another, and TotalRelays is computed    *)
(* before the section that uses it.                                        *)
(*                                                                         *)
(* Bandwidth, what BCST HOST atoms told about a peer and the passing of    *)
(* time are inputs.                                                        *)
(***************************************************************************)
EXTENDS Integers, FiniteSets

CONSTANTS
  Conns,            \* accepted connections
  Channels,         \* channel instances
  Addrs,            \* remote IP addresses
  None,
  ConnType,         \* [Conns -> {"pcp", "http"}]
  ConnChannel,      \* [Conns -> Channels]: the channel the connection asks for
  ConnAddr,         \* [Conns -> Addrs]
  PrivateAddrs,     \* loopback, private and link-local addresses
  MaxRelays,        \* per channel, 0 = unlimited
  MaxListeners,     \* per channel, 0 = unlimited
  MaxRelaysTotal,   \* all channels, 0 = unlimited
  MaxUpstreamKbps   \* 0 = unlimited

ASSUME AdmissionAssumption ==
  /\ IsFiniteSet(Conns) /\ IsFiniteSet(Channels)
  /\ None \notin Conns
  /\ ConnType \in [Conns -> {"pcp", "http"}]
  /\ ConnChannel \in [Conns -> Channels]
  /\ ConnAddr \in [Conns -> Addrs]
  /\ PrivateAddrs \subseteq Addrs
  /\ MaxRelays \in Nat /\ MaxListeners \in Nat
  /\ MaxRelaysTotal \in Nat /\ MaxUpstreamKbps \in Nat

VARIABLES
  pc,            \* where each connection's handler is
  outputs,       \* Channel.outputs, as a set
  older,         \* the outputs that precede each output in Channel.outputs
  numRelays,     \* Channel.numRelays
  numListeners,  \* Channel.numListeners
  banList,       \* Channel.banList: the unexpired entries
  firewalled,    \* outputs whose peer has no open port
  closed,        \* outputBase.closed
  live,          \* channels that Manager.List returns
  ended,         \* channels whose CloseAll is done
  admitMu,       \* the connection that holds Listener.admitMu
  victim,        \* the output makeRelayable picked
  total,         \* the value TotalRelays returned to the holder of admitMu
  bounced        \* history: relays that arrived while their address was banned

vars == <<pc, outputs, older, numRelays, numListeners, banList, firewalled, closed,
          live, ended, admitMu, victim, total, bounced>>

registry == <<outputs, older, numRelays, numListeners>>

PcValues ==
  {"new", "check", "scan", "scanned", "evictTotal", "slot", "evictSlot", "handshake",
   "admit", "adding", "add", "streaming", "leaving"}

Init ==
  /\ pc = [c \in Conns |-> "new"]
  /\ outputs = [ch \in Channels |-> {}]
  /\ older = [c \in Conns |-> {}]
  /\ numRelays = [ch \in Channels |-> 0]
  /\ numListeners = [ch \in Channels |-> 0]
  /\ banList = [ch \in Channels |-> {}]
  /\ firewalled = {}
  /\ closed = {}
  /\ live = Channels
  /\ ended = {}
  /\ admitMu = None
  /\ victim = None
  /\ total = 0
  /\ bounced = {}

-----------------------------------------------------------------------------
IsRelay(c) == ConnType[c] = "pcp"
Ch(c) == ConnChannel[c]
RelaysOf(ch) == {c \in outputs[ch] : IsRelay(c)}
ListenersOf(ch) == {c \in outputs[ch] : ~IsRelay(c)}

Goto(c, label) == pc' = [pc EXCEPT ![c] = label]

(* The handler returns and the connection is closed.  Its slot in Conns then   *)
(* stands for the next connection from that address, with a new output object. *)
Finish(c) ==
  /\ Goto(c, "new")
  /\ firewalled' = firewalled \ {c}
  /\ closed' = closed \ {c}
  /\ bounced' = bounced \ {c}

(* Manager.TotalRelays: the sum of numRelays, as the size of a disjoint union. *)
RelaySlots == UNION {{ch} \X (1 .. numRelays[ch]) : ch \in live}
TotalRelays == Cardinality(RelaySlots)

(* isUpstreamFull: the rate of the registered outputs is an input. *)
UpstreamFull ==
  IF MaxUpstreamKbps = 0 \/ \A ch \in live : outputs[ch] = {} THEN {FALSE} ELSE BOOLEAN

IsTotalFull == MaxRelaysTotal > 0 /\ total >= MaxRelaysTotal

(* Channel.RemoveOutput: an output that is no longer registered changes nothing. *)
RemoveOutput(o) ==
  LET ch == Ch(o)
      found == o \in outputs[ch]
  IN
  /\ outputs' = [outputs EXCEPT ![ch] = @ \ {o}]
  /\ older' = [p \in Conns |-> IF p = o THEN {} ELSE older[p] \ {o}]
  /\ numRelays' = [numRelays EXCEPT ![ch] = IF found /\ IsRelay(o) THEN @ - 1 ELSE @]
  /\ numListeners' = [numListeners EXCEPT ![ch] = IF found /\ ~IsRelay(o) THEN @ - 1 ELSE @]

(* A connection is accepted and its channel found by GetByID; a channel that *)
(* is not registered or not receiving is answered with 404.                  *)
Lookup(c) ==
  /\ pc[c] = "new" /\ Ch(c) \in live
  /\ Goto(c, IF IsRelay(c) THEN "check" ELSE "admit")
  /\ bounced' = IF IsRelay(c) /\ ConnAddr[c] \in banList[Ch(c)] THEN bounced \cup {c} ELSE bounced
  /\ UNCHANGED <<registry, banList, firewalled, closed, live, ended, admitMu, victim, total>>

-----------------------------------------------------------------------------
(* canAdmitRelay *)

(* canAdmitRelay takes admitMu; a banned address is refused outright. *)
CanAdmitRelay(c) ==
  /\ pc[c] = "check" /\ admitMu = None
  /\ IF ConnAddr[c] \in banList[Ch(c)]
     THEN Finish(c) /\ UNCHANGED admitMu
     ELSE Goto(c, "scan") /\ admitMu' = c /\ UNCHANGED <<firewalled, closed, bounced>>
  /\ UNCHANGED <<registry, banList, live, ended, victim, total>>

(* The loop condition calls TotalRelays. *)
ReadTotal(c) ==
  /\ pc[c] \in {"scan", "adding"}
  /\ total' = TotalRelays
  /\ Goto(c, IF pc[c] = "scan" THEN "scanned" ELSE "add")
  /\ UNCHANGED <<registry, banList, firewalled, closed, live, ended, admitMu, victim, bounced>>

(* admitMu is released; the total read under it is forgotten. *)
Unlock == admitMu' = None /\ total' = 0

(***************************************************************************)
(* The scan of makeRelayable: the first output in join order that is a     *)
(* relay with a public address and is firewalled or unproductive.  The     *)
(* set of unproductive peers is an input.  Its address is banned and the   *)
(* stream told to close; RemoveVictim unregisters it.                      *)
(***************************************************************************)
Evictable(ch, unproductive) ==
  {o \in RelaysOf(ch) : ConnAddr[o] \notin PrivateAddrs /\ (o \in firewalled \/ o \in unproductive)}

PickVictim(c, label) ==
  \E unproductive \in SUBSET RelaysOf(Ch(c)) :
    LET candidates == Evictable(Ch(c), unproductive) IN
    \E v \in candidates :
      /\ candidates \cap older[v] = {}
      /\ victim' = v
      /\ banList' = [banList EXCEPT ![Ch(c)] = @ \cup {ConnAddr[v]}]
      /\ closed' = closed \cup {v}
      /\ Goto(c, label)
      /\ UNCHANGED <<registry, firewalled, live, ended, admitMu, total, bounced>>

(* The loop body: EvictRelay while the total or the bandwidth is used up. *)
EvictRelay(c) ==
  /\ pc[c] = "scanned"
  /\ IsTotalFull \/ TRUE \in UpstreamFull
  /\ PickVictim(c, "evictTotal")

(* MakeRelayable evicts when the channel has no free slot. *)
MakeRelayable(c) ==
  /\ pc[c] = "slot"
  /\ MaxRelays > 0 /\ numRelays[Ch(c)] >= MaxRelays
  /\ PickVictim(c, "evictSlot")

(* canAdmitRelay returns false when nobody can be evicted: 503, alternative *)
(* hosts and QUIT, close.                                                   *)
CannotAdmit(c) ==
  /\ \/ pc[c] = "scanned" /\ (IsTotalFull \/ TRUE \in UpstreamFull)
     \/ pc[c] = "slot" /\ MaxRelays > 0 /\ numRelays[Ch(c)] >= MaxRelays
  /\ Evictable(Ch(c), {}) = {}
  /\ Finish(c) /\ Unlock
  /\ UNCHANGED <<registry, banList, live, ended, victim>>

(* The loop ends. *)
ScanDone(c) ==
  /\ pc[c] = "scanned"
  /\ ~IsTotalFull /\ FALSE \in UpstreamFull
  /\ Goto(c, "slot")
  /\ UNCHANGED <<registry, banList, firewalled, closed, live, ended, admitMu, victim, total, bounced>>

(* canAdmitRelay returns true without an eviction. *)
SlotFree(c) ==
  /\ pc[c] = "slot"
  /\ MaxRelays = 0 \/ numRelays[Ch(c)] < MaxRelays
  /\ Goto(c, "handshake") /\ Unlock
  /\ UNCHANGED <<registry, banList, firewalled, closed, live, ended, victim, bounced>>

(* Forgetting RemoveOutput: the slot is only freed when the stream ends. *)
RemoveVictim_LeaveRegistered(c) ==
  /\ pc[c] \in {"evictTotal", "evictSlot"}
  /\ victim' = None
  /\ IF pc[c] = "evictTotal" THEN Goto(c, "scan") /\ UNCHANGED <<admitMu, total>>
                             ELSE Goto(c, "handshake") /\ Unlock
  /\ UNCHANGED <<registry, banList, firewalled, closed, live, ended, bounced>>

(* makeRelayable unregisters the victim: the loop goes on, or canAdmitRelay *)
(* returns true.                                                            *)
RemoveVictim(c) ==
  /\ pc[c] \in {"evictTotal", "evictSlot"}
  /\ RemoveOutput(victim)
  /\ victim' = None
  /\ IF pc[c] = "evictTotal" THEN Goto(c, "scan") /\ UNCHANGED <<admitMu, total>>
                             ELSE Goto(c, "handshake") /\ Unlock
  /\ UNCHANGED <<banList, firewalled, closed, live, ended, bounced>>

(* The PCP handshake tells whether the peer's port is open. *)
Handshake(c) ==
  /\ pc[c] = "handshake"
  /\ Goto(c, "admit")
  /\ firewalled' \in {firewalled, firewalled \cup {c}}
  /\ UNCHANGED <<registry, banList, closed, live, ended, admitMu, victim, total, bounced>>

(* A bad helo, a loopback or an I/O error: the connection is closed. *)
HandshakeFails(c) ==
  /\ pc[c] = "handshake"
  /\ Finish(c)
  /\ UNCHANGED <<registry, banList, live, ended, admitMu, victim, total>>

-----------------------------------------------------------------------------
(* tryAdmit takes admitMu; only a relay counts against the total. *)
TryAdmit_NoLock(c) ==
  /\ pc[c] = "admit"
  /\ Goto(c, "adding") /\ UNCHANGED admitMu
  /\ UNCHANGED <<registry, banList, firewalled, closed, live, ended, victim, total, bounced>>

TryAdmit(c) ==
  /\ pc[c] = "admit" /\ admitMu = None
  /\ admitMu' = c /\ Goto(c, "adding")
  /\ UNCHANGED <<registry, banList, firewalled, closed, live, ended, victim, total, bounced>>

(* append at the end of Channel.outputs *)
AppendOutput(c) ==
  /\ outputs' = [outputs EXCEPT ![Ch(c)] = @ \cup {c}]
  /\ older' = [older EXCEPT ![c] = outputs[Ch(c)]]

HasSlot_OffByOne(c) ==
  IF IsRelay(c) THEN MaxRelays = 0 \/ numRelays[Ch(c)] <= MaxRelays
                ELSE MaxListeners = 0 \/ numListeners[Ch(c)] < MaxListeners

(* The limit test of TryAddOutput. *)
HasSlot(c) ==
  IF IsRelay(c) THEN MaxRelays = 0 \/ numRelays[Ch(c)] < MaxRelays
                ELSE MaxListeners = 0 \/ numListeners[Ch(c)] < MaxListeners

(* The rest of tryAdmit: the total, the bandwidth, then TryAddOutput. *)
TryAddOutput(c) ==
  /\ pc[c] = "add"
  /\ ~(IsRelay(c) /\ IsTotalFull) /\ FALSE \in UpstreamFull
  /\ HasSlot(c)
  /\ AppendOutput(c)
  /\ numRelays' = [numRelays EXCEPT ![Ch(c)] = IF IsRelay(c) THEN @ + 1 ELSE @]
  /\ numListeners' = [numListeners EXCEPT ![Ch(c)] = IF IsRelay(c) THEN @ ELSE @ + 1]
  /\ Goto(c, "streaming") /\ Unlock
  /\ UNCHANGED <<banList, firewalled, closed, live, ended, victim, bounced>>

(* tryAdmit fails: 503 or QUIT, close. *)
TryAdmitFails(c) ==
  /\ pc[c] = "add"
  /\ (IsRelay(c) /\ IsTotalFull) \/ TRUE \in UpstreamFull \/ ~HasSlot(c)
  /\ Finish(c) /\ Unlock
  /\ UNCHANGED <<registry, banList, live, ended, victim>>

-----------------------------------------------------------------------------
(* CloseConnection, or readLoop on a lost peer: the stream is told to close. *)
CloseConnection(c) ==
  /\ pc[c] = "streaming" /\ c \notin closed
  /\ closed' = closed \cup {c}
  /\ UNCHANGED <<pc, registry, banList, firewalled, live, ended, admitMu, victim, total, bounced>>

(* runStreaming or run returns: closed, a write error or an overflow. *)
StreamEnds(c) ==
  /\ pc[c] = "streaming"
  /\ Goto(c, "leaving")
  /\ UNCHANGED <<registry, banList, firewalled, closed, live, ended, admitMu, victim, total, bounced>>

(* An early return that skips the removal. *)
Leave_Forgets(c) ==
  /\ pc[c] = "leaving"
  /\ Finish(c)
  /\ UNCHANGED <<registry, banList, live, ended, admitMu, victim, total>>

(* The handler's last statement, RemoveOutput. *)
Leave(c) ==
  /\ pc[c] = "leaving"
  /\ RemoveOutput(c)
  /\ Finish(c)
  /\ UNCHANGED <<banList, live, ended, admitMu, victim, total>>

(* stopInstance removes the channel from the manager's maps. *)
Deregister(ch) ==
  /\ ch \in live
  /\ live' = live \ {ch}
  /\ UNCHANGED <<pc, registry, banList, firewalled, closed, ended, admitMu, victim, total, bounced>>

CloseAll_KeepCounters(ch) ==
  /\ ch \notin ended
  /\ outputs' = [outputs EXCEPT ![ch] = {}]
  /\ older' = [c \in Conns |-> IF Ch(c) = ch THEN {} ELSE older[c]]
  /\ closed' = closed \cup outputs[ch]
  /\ ended' = IF ch \in live THEN ended ELSE ended \cup {ch}
  /\ UNCHANGED <<pc, numRelays, numListeners, banList, firewalled, live, admitMu, victim, total, bounced>>

(* CloseAll, called by stopInstance after the maps are updated, and by the    *)
(* relay client when it gives up, while the channel is still registered.      *)
CloseAll(ch) ==
  /\ ch \notin ended
  /\ outputs' = [outputs EXCEPT ![ch] = {}]
  /\ older' = [c \in Conns |-> IF Ch(c) = ch THEN {} ELSE older[c]]
  /\ numRelays' = [numRelays EXCEPT ![ch] = 0]
  /\ numListeners' = [numListeners EXCEPT ![ch] = 0]
  /\ closed' = closed \cup outputs[ch]
  /\ ended' = IF ch \in live THEN ended ELSE ended \cup {ch}
  /\ UNCHANGED <<pc, banList, firewalled, live, admitMu, victim, total, bounced>>

(* The manager registers a new channel.  It takes the place in Channels of an *)
(* instance that no handler refers to any more.                               *)
Register(ch) ==
  /\ ch \in ended
  /\ \A c \in Conns : Ch(c) = ch => pc[c] = "new"
  /\ live' = live \cup {ch}
  /\ ended' = ended \ {ch}
  /\ banList' = [banList EXCEPT ![ch] = {}]
  /\ UNCHANGED <<pc, registry, firewalled, closed, admitMu, victim, total, bounced>>

(* relayBanDuration is over. *)
BanExpires(ch, addr) ==
  /\ addr \in banList[ch]
  /\ banList' = [banList EXCEPT ![ch] = @ \ {addr}]
  /\ bounced' = {c \in bounced : Ch(c) # ch \/ ConnAddr[c] # addr}
  /\ UNCHANGED <<pc, registry, firewalled, closed, live, ended, admitMu, victim, total>>

(* What the goroutine of connection c does while it holds admitMu. *)
Locked(c) ==
  \/ ReadTotal(c) \/ EvictRelay(c) \/ ScanDone(c) \/ MakeRelayable(c) \/ SlotFree(c)
  \/ CannotAdmit(c) \/ RemoveVictim(c) \/ TryAddOutput(c) \/ TryAdmitFails(c)

Handler(c) ==
  \/ Lookup(c) \/ CanAdmitRelay(c) \/ Locked(c)
  \/ Handshake(c) \/ HandshakeFails(c) \/ TryAdmit(c) \/ StreamEnds(c) \/ Leave(c)

Next ==
  \/ \E c \in Conns : Handler(c) \/ CloseConnection(c)
  \/ \E ch \in Channels : Deregister(ch) \/ CloseAll(ch) \/ Register(ch)
  \/ \E ch \in Channels, addr \in Addrs : BanExpires(ch, addr)

Spec == Init /\ [][Next]_vars

(* The holder of admitMu, the only connection that can take a Locked step, *)
(* does not block: the lock's sections do no I/O.                          *)
Fairness == WF_vars(\E c \in Conns : Locked(c))

FairSpec == Spec /\ Fairness

-----------------------------------------------------------------------------
(* Every variable of the registry and of the handlers has its type. *)
TypeOK ==
  /\ pc \in [Conns -> PcValues]
  /\ outputs \in [Channels -> SUBSET Conns]
  /\ older \in [Conns -> SUBSET Conns]
  /\ numRelays \in [Channels -> Nat]
  /\ numListeners \in [Channels -> Nat]
  /\ banList \in [Channels -> SUBSET Addrs]
  /\ firewalled \subseteq Conns
  /\ closed \subseteq Conns
  /\ live \subseteq Channels
  /\ ended \subseteq Channels
  /\ admitMu \in Conns \cup {None}
  /\ victim \in Conns \cup {None}
  /\ total \in Nat
  /\ bounced \subseteq Conns

(* numRelays and numListeners count the registered outputs, although an      *)
(* evicted stream is removed by the evictor, by CloseAll and by its own      *)
(* handler, in any order.                                                    *)
CountersExact ==
  \A ch \in Channels :
    /\ numRelays[ch] = Cardinality(RelaysOf(ch))
    /\ numListeners[ch] = Cardinality(ListenersOf(ch))

(* No channel ever has more outputs registered than maxRelays and            *)
(* maxListeners allow, whatever connections are admitted concurrently.       *)
ChannelLimits ==
  \A ch \in Channels :
    /\ MaxRelays > 0 => Cardinality(RelaysOf(ch)) <= MaxRelays
    /\ MaxListeners > 0 => Cardinality(ListenersOf(ch)) <= MaxListeners

(* The channels of the manager never have more than maxRelaysTotal relays    *)
(* together, although the total is computed before the section that adds.    *)
LiveRelays == UNION {RelaysOf(ch) : ch \in live}
TotalLimit == MaxRelaysTotal > 0 => Cardinality(LiveRelays) <= MaxRelaysTotal

(* A registered output has a handler that will remove it: no slot is lost.   *)
NoSlotLeak ==
  \A ch \in Channels : \A c \in outputs[ch] : Ch(c) = ch /\ pc[c] \in {"streaming", "leaving"}

(* A node that comes back while its address is banned is not admitted before *)
(* the ban ends, so it cannot evict someone else in turn (channel.go,        *)
(* banList: "so that it cannot bounce straight back and evict someone else").*)
NoBounce == \A c \in bounced : c \notin outputs[Ch(c)]

(* canAdmitRelay's eviction loop ends and admitMu is released, whatever the  *)
(* bandwidth and whatever streams end meanwhile.                             *)
AdmitMuReleased == []<>(admitMu = None)
=============================================================================
