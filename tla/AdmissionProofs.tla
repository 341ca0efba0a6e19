-------------------------- MODULE AdmissionProofs --------------------------
(***************************************************************************)
(* Invariance proofs for Admission.  The inductive invariant adds to the   *)
(* checked invariants that the labels inside a critical section belong to  *)
(* the holder of admitMu, that an eviction in progress has a victim, that  *)
(* a bounced relay is still waiting for its check, and that the total      *)
(* read before an addition is not below the relays registered now:         *)
(* everything that happens in between removes relays.                      *)
(***************************************************************************)
EXTENDS Admission, FiniteSetTheorems, FunctionTheorems, TLAPS

LockedLabels == {"scan", "scanned", "evictTotal", "slot", "evictSlot", "adding", "add"}

(* The labels of a critical section belong to the holder of admitMu. *)
LockInv == \A c \in Conns : pc[c] \in LockedLabels <=> admitMu = c

(* An eviction in progress has picked its victim. *)
VictimInv == \A c \in Conns : pc[c] \in {"evictTotal", "evictSlot"} => victim \in Conns

(* A bounced relay has not got past its check. *)
BounceInv ==
  \A c \in bounced : pc[c] = "check" /\ IsRelay(c) /\ ConnAddr[c] \in banList[Ch(c)]

(* The total read under admitMu bounds the relays registered since. *)
TotalInv == \A c \in Conns : pc[c] = "add" => Cardinality(LiveRelays) <= total

(* The control part of the inductive invariant. *)
Control == TypeOK /\ LockInv /\ VictimInv /\ BounceInv /\ NoSlotLeak

(* The inductive invariant. *)
IInv == Control /\ CountersExact /\ ChannelLimits /\ TotalInv /\ TotalLimit

-----------------------------------------------------------------------------
(* Registered outputs are finite sets of connections. *)
LEMMA FiniteOutputs ==
  ASSUME TypeOK, NEW ch \in Channels
  PROVE  /\ IsFiniteSet(RelaysOf(ch)) /\ Cardinality(RelaysOf(ch)) \in Nat
         /\ IsFiniteSet(ListenersOf(ch)) /\ Cardinality(ListenersOf(ch)) \in Nat
<1>1. RelaysOf(ch) \subseteq Conns /\ ListenersOf(ch) \subseteq Conns
  BY DEF TypeOK, RelaysOf, ListenersOf
<1> QED BY <1>1, AdmissionAssumption, FS_Subset, FS_CardinalityType

(* The relays of the registered channels are finitely many. *)
LEMMA FiniteLive ==
  ASSUME TypeOK PROVE IsFiniteSet(LiveRelays) /\ Cardinality(LiveRelays) \in Nat
<1>1. LiveRelays \subseteq Conns
  BY DEF TypeOK, LiveRelays, RelaysOf
<1> QED BY <1>1, AdmissionAssumption, FS_Subset, FS_CardinalityType

(* The sum of the counters is the number of relays: no relay is registered  *)
(* on two channels, and each counter is exact.                              *)
LEMMA TotalIsExact ==
  ASSUME TypeOK, CountersExact, NoSlotLeak
  PROVE  TotalRelays = Cardinality(LiveRelays)
<1> DEFINE f == [ch \in live |-> CHOOSE b : b \in Bijection(1 .. numRelays[ch], RelaysOf(ch))]
           h == [s \in RelaySlots |-> f[s[1]][s[2]]]
<1>1. ASSUME NEW ch \in live PROVE f[ch] \in Bijection(1 .. numRelays[ch], RelaysOf(ch))
  <2>1. ch \in Channels BY DEF TypeOK
  <2>2. ExistsBijection(1 .. Cardinality(RelaysOf(ch)), RelaysOf(ch))
    BY <2>1, FiniteOutputs, FS_CardinalityType
  <2>3. \E b : b \in Bijection(1 .. numRelays[ch], RelaysOf(ch))
    BY <2>1, <2>2 DEF CountersExact, ExistsBijection
  <2> QED BY <2>3
<1>2. \A s \in RelaySlots : s[1] \in live /\ s[2] \in 1 .. numRelays[s[1]] /\ s = <<s[1], s[2]>>
  BY DEF RelaySlots
<1>3. \A ch \in live : \A i \in 1 .. numRelays[ch] : <<ch, i>> \in RelaySlots
  BY DEF RelaySlots
<1>4. \A ch \in live : \A i \in 1 .. numRelays[ch] :
        f[ch][i] \in RelaysOf(ch) /\ Ch(f[ch][i]) = ch
  <2> SUFFICES ASSUME NEW ch \in live, NEW i \in 1 .. numRelays[ch]
               PROVE f[ch][i] \in RelaysOf(ch) /\ Ch(f[ch][i]) = ch
    OBVIOUS
  <2>1. f[ch] \in [1 .. numRelays[ch] -> RelaysOf(ch)]
    BY <1>1 DEF Bijection, Injection, IsInjective
  <2>2. f[ch][i] \in RelaysOf(ch) BY <2>1
  <2> QED BY <2>2 DEF NoSlotLeak, RelaysOf, TypeOK
<1>j. \A ch \in live : \A i, j \in 1 .. numRelays[ch] : f[ch][i] = f[ch][j] => i = j
  BY <1>1 DEF Bijection, Injection, IsInjective
<1> HIDE DEF f
<1>5. h \in [RelaySlots -> LiveRelays]
  BY <1>2, <1>4 DEF LiveRelays
<1>6. \A s, t \in RelaySlots : h[s] = h[t] => s = t
  <2> SUFFICES ASSUME NEW s \in RelaySlots, NEW t \in RelaySlots, h[s] = h[t] PROVE s = t
    OBVIOUS
  <2>1. f[s[1]][s[2]] = f[t[1]][t[2]] OBVIOUS
  <2>2. s[1] = t[1] BY <2>1, <1>2, <1>4
  <2>3. s[2] = t[2] BY <2>1, <2>2, <1>j, <1>2
  <2> QED BY <2>2, <2>3, <1>2
<1>7. \A c \in LiveRelays : \E s \in RelaySlots : h[s] = c
  <2> SUFFICES ASSUME NEW c \in LiveRelays PROVE \E s \in RelaySlots : h[s] = c
    OBVIOUS
  <2>1. PICK ch \in live : c \in RelaysOf(ch) BY DEF LiveRelays
  <2>2. PICK i \in 1 .. numRelays[ch] : f[ch][i] = c
    BY <2>1, <1>1 DEF Bijection, Surjection
  <2>3. <<ch, i>> \in RelaySlots /\ h[<<ch, i>>] = c BY <2>2, <1>3
  <2> QED BY <2>3
<1>8. h \in Bijection(RelaySlots, LiveRelays)
  BY <1>5, <1>6, <1>7 DEF Bijection, Injection, IsInjective, Surjection
<1>9. ExistsBijection(LiveRelays, RelaySlots)
  BY <1>8, Fun_ExistsBijSymmetric DEF ExistsBijection
<1> QED BY <1>9, FiniteLive, FS_Bijection DEF TotalRelays

(* RemoveOutput keeps the counters exact, whether or not it finds the output. *)
LEMMA RemoveOutputExact ==
  ASSUME TypeOK, CountersExact, NEW o \in Conns, RemoveOutput(o)
  PROVE  /\ outputs' \in [Channels -> SUBSET Conns]
         /\ older' \in [Conns -> SUBSET Conns]
         /\ numRelays' \in [Channels -> Nat] /\ numListeners' \in [Channels -> Nat]
         /\ \A ch \in Channels : outputs'[ch] \subseteq outputs[ch]
         /\ CountersExact'
<1> DEFINE c == Ch(o)
<1>1. c \in Channels BY AdmissionAssumption DEF Ch
<1>2. outputs' = [outputs EXCEPT ![c] = @ \ {o}] /\ outputs' \in [Channels -> SUBSET Conns]
      /\ older' \in [Conns -> SUBSET Conns]
  BY <1>1 DEF RemoveOutput, TypeOK
<1>3. \A ch \in Channels : outputs'[ch] \subseteq outputs[ch]
  BY <1>1, <1>2 DEF TypeOK
<1>4. ASSUME NEW ch \in Channels
      PROVE /\ numRelays'[ch] = Cardinality(RelaysOf(ch)')
            /\ numListeners'[ch] = Cardinality(ListenersOf(ch)')
            /\ numRelays'[ch] \in Nat /\ numListeners'[ch] \in Nat
  <2>1. CASE ch # c
    <3>1. RelaysOf(ch)' = RelaysOf(ch) /\ ListenersOf(ch)' = ListenersOf(ch)
      BY <2>1, <1>2 DEF RelaysOf, ListenersOf, TypeOK
    <3>2. numRelays'[ch] = numRelays[ch] /\ numListeners'[ch] = numListeners[ch]
      BY <2>1 DEF RemoveOutput, TypeOK
    <3> QED BY <3>1, <3>2 DEF CountersExact, TypeOK
  <2>2. CASE ch = c
    <3>1. /\ RelaysOf(c)' = IF IsRelay(o) THEN RelaysOf(c) \ {o} ELSE RelaysOf(c)
          /\ ListenersOf(c)' = IF IsRelay(o) THEN ListenersOf(c) ELSE ListenersOf(c) \ {o}
      BY <1>1, <1>2 DEF RelaysOf, ListenersOf, TypeOK
    <3>2. /\ numRelays'[c] = IF o \in outputs[c] /\ IsRelay(o) THEN numRelays[c] - 1 ELSE numRelays[c]
          /\ numListeners'[c] = IF o \in outputs[c] /\ ~IsRelay(o) THEN numListeners[c] - 1 ELSE numListeners[c]
      BY <1>1 DEF RemoveOutput, TypeOK
    <3>3. numRelays[c] = Cardinality(RelaysOf(c)) /\ numListeners[c] = Cardinality(ListenersOf(c))
      BY <1>1 DEF CountersExact
    <3>4. /\ Cardinality(RelaysOf(c) \ {o}) = IF o \in RelaysOf(c) THEN Cardinality(RelaysOf(c)) - 1
                                              ELSE Cardinality(RelaysOf(c))
          /\ Cardinality(ListenersOf(c) \ {o}) = IF o \in ListenersOf(c) THEN Cardinality(ListenersOf(c)) - 1
                                                 ELSE Cardinality(ListenersOf(c))
      BY <1>1, FiniteOutputs, FS_RemoveElement
    <3>5. /\ Cardinality(RelaysOf(c) \ {o}) \in Nat /\ Cardinality(ListenersOf(c) \ {o}) \in Nat
          /\ Cardinality(RelaysOf(c)) \in Nat /\ Cardinality(ListenersOf(c)) \in Nat
      BY <1>1, FiniteOutputs, FS_RemoveElement, FS_CardinalityType
    <3>6. (o \in RelaysOf(c) <=> o \in outputs[c] /\ IsRelay(o))
          /\ (o \in ListenersOf(c) <=> o \in outputs[c] /\ ~IsRelay(o))
      BY DEF RelaysOf, ListenersOf
    <3> QED BY <2>2, <3>1, <3>2, <3>3, <3>4, <3>5, <3>6
  <2> QED BY <2>1, <2>2
<1>5. numRelays' \in [Channels -> Nat] /\ numListeners' \in [Channels -> Nat]
  <2>1. /\ numRelays' = [ch \in Channels |-> numRelays'[ch]]
        /\ numListeners' = [ch \in Channels |-> numListeners'[ch]]
    BY DEF RemoveOutput, TypeOK
  <2> QED BY <2>1, <1>4
<1>6. CountersExact' BY <1>4 DEF CountersExact
<1> QED BY <1>2, <1>3, <1>5, <1>6

(* A step that only removes outputs or channels keeps every limit. *)
LEMMA Shrink ==
  ASSUME TypeOK, TypeOK', ChannelLimits, live' \subseteq live,
         \A ch \in Channels : outputs'[ch] \subseteq outputs[ch]
  PROVE  /\ ChannelLimits'
         /\ Cardinality(LiveRelays') <= Cardinality(LiveRelays) /\ Cardinality(LiveRelays') \in Nat
<1>1. ASSUME NEW ch \in Channels
      PROVE /\ Cardinality(RelaysOf(ch)') <= Cardinality(RelaysOf(ch))
            /\ Cardinality(ListenersOf(ch)') <= Cardinality(ListenersOf(ch))
            /\ Cardinality(RelaysOf(ch)') \in Nat /\ Cardinality(ListenersOf(ch)') \in Nat
  <2>1. RelaysOf(ch)' \in SUBSET RelaysOf(ch) /\ ListenersOf(ch)' \in SUBSET ListenersOf(ch)
    BY DEF RelaysOf, ListenersOf
  <2> QED BY <2>1, FiniteOutputs, FS_Subset, FS_CardinalityType
<1>2. ChannelLimits'
  BY <1>1, FiniteOutputs, AdmissionAssumption DEF ChannelLimits
<1>3. LiveRelays' \in SUBSET LiveRelays
  BY DEF LiveRelays, RelaysOf, TypeOK
<1> QED BY <1>2, <1>3, FiniteLive, FS_Subset, FS_CardinalityType

-----------------------------------------------------------------------------
(* Every step keeps the control part of the invariant. *)
LEMMA NextControl == Control /\ CountersExact /\ [Next]_vars => Control'
<1> SUFFICES ASSUME Control, CountersExact, [Next]_vars PROVE Control'
  OBVIOUS
<1> USE AdmissionAssumption DEF Control, TypeOK, LockInv, VictimInv, BounceInv, NoSlotLeak, LockedLabels, PcValues, Goto, Ch, IsRelay
<1>c. ASSUME NEW c \in Conns, Handler(c) \/ CloseConnection(c) PROVE Control'
  <2>1. CASE Lookup(c)
    BY <2>1 DEF Lookup, registry
  <2>2. CASE CanAdmitRelay(c)
    BY <2>2 DEF CanAdmitRelay, Finish, registry
  <2>3. CASE EvictRelay(c)
    BY <2>3 DEF EvictRelay, PickVictim, Evictable, RelaysOf, registry
  <2>4. CASE ScanDone(c)
    BY <2>4 DEF ScanDone, registry
  <2>5. CASE MakeRelayable(c)
    BY <2>5 DEF MakeRelayable, PickVictim, Evictable, RelaysOf, registry
  <2>6. CASE SlotFree(c)
    BY <2>6 DEF SlotFree, Unlock, registry
  <2>7. CASE CannotAdmit(c)
    <3>1. /\ pc[c] \in {"scanned", "slot"} /\ Finish(c) /\ Unlock
          /\ UNCHANGED <<registry, banList, live, ended, victim>>
      BY <2>7 DEF CannotAdmit
    <3> QED BY <3>1 DEF Finish, Unlock, registry
  <2>8. CASE TryAdmitFails(c)
    BY <2>8 DEF TryAdmitFails, Finish, Unlock, registry
  <2>9. CASE Handshake(c)
    BY <2>9 DEF Handshake, registry
  <2>10. CASE HandshakeFails(c)
    BY <2>10 DEF HandshakeFails, Finish, registry
  <2>11. CASE TryAdmit(c)
    BY <2>11 DEF TryAdmit, registry
  <2>12. CASE StreamEnds(c)
    BY <2>12 DEF StreamEnds, registry
  <2>13. CASE CloseConnection(c)
    BY <2>13 DEF CloseConnection, registry
  <2>r. CASE ReadTotal(c)
    <3>1. TotalRelays \in Nat BY TotalIsExact, FiniteLive
    <3> QED BY <2>r, <3>1 DEF ReadTotal, registry
  <2>v. CASE RemoveVictim(c)
    <3>1. victim \in Conns /\ RemoveOutput(victim) BY <2>v DEF RemoveVictim, VictimInv
    <3>2. /\ outputs' \in [Channels -> SUBSET Conns] /\ older' \in [Conns -> SUBSET Conns]
          /\ numRelays' \in [Channels -> Nat] /\ numListeners' \in [Channels -> Nat]
          /\ \A ch \in Channels : outputs'[ch] \subseteq outputs[ch]
      BY <3>1, RemoveOutputExact
    <3>3. TypeOK'
      <4>1. pc' \in [Conns -> PcValues] BY <2>v DEF RemoveVictim
      <4>2. /\ admitMu' \in Conns \cup {None} /\ total' \in Nat /\ victim' = None
            /\ UNCHANGED <<banList, firewalled, closed, live, ended, bounced>>
        BY <2>v DEF RemoveVictim, Unlock
      <4> QED BY <3>2, <4>1, <4>2
    <3>4. LockInv' /\ VictimInv' BY <2>v DEF RemoveVictim, Unlock
    <3>5. BounceInv' BY <2>v DEF RemoveVictim
    <3>6. NoSlotLeak' BY <2>v, <3>2 DEF RemoveVictim
    <3> QED BY <3>3, <3>4, <3>5, <3>6
  <2>l. CASE Leave(c)
    <3>1. RemoveOutput(c) BY <2>l DEF Leave
    <3>2. /\ outputs' \in [Channels -> SUBSET Conns] /\ older' \in [Conns -> SUBSET Conns]
          /\ numRelays' \in [Channels -> Nat] /\ numListeners' \in [Channels -> Nat]
          /\ \A ch \in Channels : outputs'[ch] \subseteq outputs[ch]
      BY <3>1, RemoveOutputExact
    <3>3. \A ch \in Channels : c \notin outputs'[ch]
      BY <3>1 DEF RemoveOutput, NoSlotLeak, TypeOK, Ch
    <3>4. TypeOK' BY <2>l, <3>2 DEF Leave, Finish
    <3>5. LockInv' /\ VictimInv' BY <2>l DEF Leave, Finish
    <3>6. BounceInv' BY <2>l DEF Leave, Finish
    <3>7. NoSlotLeak' BY <2>l, <3>2, <3>3 DEF Leave, Finish
    <3> QED BY <3>4, <3>5, <3>6, <3>7
  <2>a. CASE TryAddOutput(c)
    BY <2>a DEF TryAddOutput, AppendOutput, Unlock
  <2> QED BY <1>c, <2>1, <2>2, <2>3, <2>4, <2>5, <2>6, <2>7, <2>8, <2>9, <2>10, <2>11, <2>12, <2>13, <2>r, <2>v, <2>l, <2>a DEF Handler, Locked
<1>d. ASSUME NEW ch \in Channels, Deregister(ch) \/ CloseAll(ch) \/ Register(ch) PROVE Control'
  <2>1. CASE Deregister(ch)
    BY <2>1 DEF Deregister, registry
  <2>2. CASE CloseAll(ch)
    BY <2>2 DEF CloseAll
  <2>3. CASE Register(ch)
    BY <2>3 DEF Register, registry
  <2> QED BY <1>d, <2>1, <2>2, <2>3
<1>e. ASSUME NEW ch \in Channels, NEW addr \in Addrs, BanExpires(ch, addr) PROVE Control'
  BY <1>e DEF BanExpires, registry
<1>u. ASSUME UNCHANGED vars PROVE Control'
  BY <1>u DEF vars
<1> QED BY <1>c, <1>d, <1>e, <1>u DEF Next

(* A step adds an output, registers a channel, or only removes. *)
Removing ==
  /\ live' \subseteq live
  /\ \A ch \in Channels : outputs'[ch] \subseteq outputs[ch]
  /\ \A c \in Conns : pc'[c] = "add" => \/ pc[c] = "add" /\ total' = total
                                        \/ total' = TotalRelays

(* TryAddOutput and Register are the only steps that are not removing, and  *)
(* every removing step keeps the counters exact.                            *)
LEMMA RemovingSteps ==
  ASSUME Control, CountersExact, [Next]_vars,
         ~ \E c \in Conns : TryAddOutput(c), ~ \E ch \in Channels : Register(ch)
  PROVE  Removing /\ CountersExact'
<1> USE AdmissionAssumption DEF Control
<1>0. ASSUME UNCHANGED registry PROVE CountersExact'
  BY <1>0 DEF registry, CountersExact, RelaysOf, ListenersOf
<1>c. ASSUME NEW c \in Conns, Handler(c) \/ CloseConnection(c) PROVE Removing /\ CountersExact'
  <2>1. CASE RemoveVictim(c)
    <3>1. victim \in Conns /\ RemoveOutput(victim) BY <2>1 DEF RemoveVictim, VictimInv
    <3>2. CountersExact' /\ \A ch \in Channels : outputs'[ch] \subseteq outputs[ch]
      BY <3>1, RemoveOutputExact
    <3>3. /\ pc' = [pc EXCEPT ![c] = "scan"] \/ pc' = [pc EXCEPT ![c] = "handshake"]
          /\ pc[c] \in LockedLabels \ {"add"} /\ live' = live
      BY <2>1 DEF RemoveVictim, Goto, LockedLabels
    <3>4. \A d \in Conns : pc'[d] # "add"
      BY <3>3 DEF LockInv, LockedLabels, TypeOK
    <3> QED BY <3>2, <3>3, <3>4 DEF Removing
  <2>2. CASE Leave(c)
    <3>1. CountersExact' /\ \A ch \in Channels : outputs'[ch] \subseteq outputs[ch]
      BY <2>2, RemoveOutputExact DEF Leave
    <3> QED BY <2>2, <3>1 DEF Leave, Finish, Goto, Removing, TypeOK
  <2>3. CASE ReadTotal(c)
    BY <2>3, <1>0 DEF ReadTotal, Goto, registry, Removing, TypeOK, LockInv, LockedLabels
  <2>4. CASE EvictRelay(c) \/ MakeRelayable(c)
    <3>1. /\ UNCHANGED <<registry, live, total>>
          /\ pc' = [pc EXCEPT ![c] = "evictTotal"] \/ pc' = [pc EXCEPT ![c] = "evictSlot"]
      BY <2>4 DEF EvictRelay, MakeRelayable, PickVictim, Goto
    <3> QED BY <3>1, <1>0 DEF registry, Removing, TypeOK
  <2>5. CASE ScanDone(c) \/ Lookup(c) \/ CanAdmitRelay(c) \/ Handshake(c) \/ HandshakeFails(c)
             \/ TryAdmit(c) \/ StreamEnds(c) \/ CloseConnection(c)
    <3>1. UNCHANGED <<registry, live, total>> /\ \A d \in Conns : pc'[d] = "add" => pc[d] = "add"
      BY <2>5 DEF ScanDone, Lookup, CanAdmitRelay, Handshake, HandshakeFails, TryAdmit, StreamEnds,
                  CloseConnection, Finish, Goto, registry, TypeOK
    <3> QED BY <3>1, <1>0 DEF registry, Removing
  <2>6. CASE SlotFree(c) \/ CannotAdmit(c) \/ TryAdmitFails(c)
    <3>1. /\ UNCHANGED <<registry, live>> /\ pc[c] \in LockedLabels
          /\ pc' = [pc EXCEPT ![c] = "handshake"] \/ pc' = [pc EXCEPT ![c] = "new"]
      BY <2>6 DEF SlotFree, CannotAdmit, TryAdmitFails, Finish, Goto, registry, LockedLabels
    <3>2. \A d \in Conns : pc'[d] # "add"
      BY <3>1 DEF LockInv, LockedLabels, TypeOK
    <3> QED BY <3>1, <3>2, <1>0 DEF registry, Removing
  <2> QED BY <1>c, <2>1, <2>2, <2>3, <2>4, <2>5, <2>6 DEF Handler, Locked
<1>d. ASSUME NEW ch \in Channels, Deregister(ch) PROVE Removing /\ CountersExact'
  BY <1>d, <1>0 DEF Deregister, registry, Removing
<1>e. ASSUME NEW ch \in Channels, CloseAll(ch) PROVE Removing /\ CountersExact'
  <2>1. Removing BY <1>e DEF CloseAll, Removing, TypeOK
  <2>2. /\ RelaysOf(ch)' = {} /\ ListenersOf(ch)' = {}
        /\ numRelays'[ch] = 0 /\ numListeners'[ch] = 0
    BY <1>e DEF CloseAll, RelaysOf, ListenersOf, TypeOK
  <2>3. \A x \in Channels \ {ch} :
          /\ RelaysOf(x)' = RelaysOf(x) /\ ListenersOf(x)' = ListenersOf(x)
          /\ numRelays'[x] = numRelays[x] /\ numListeners'[x] = numListeners[x]
    BY <1>e DEF CloseAll, RelaysOf, ListenersOf, TypeOK
  <2>4. CountersExact'
    BY <2>2, <2>3, FS_EmptySet DEF CountersExact
  <2> QED BY <2>1, <2>4
<1>f. ASSUME NEW ch \in Channels, NEW addr \in Addrs, BanExpires(ch, addr) PROVE Removing /\ CountersExact'
  BY <1>f, <1>0 DEF BanExpires, registry, Removing
<1>u. ASSUME UNCHANGED vars PROVE Removing /\ CountersExact'
  BY <1>u, <1>0 DEF vars, registry, Removing
<1> QED BY <1>c, <1>d, <1>e, <1>f, <1>u DEF Next

(* TryAddOutput registers one new output, within every limit. *)
LEMMA AddingStep ==
  ASSUME IInv, NEW c \in Conns, TryAddOutput(c)
  PROVE  CountersExact' /\ ChannelLimits' /\ TotalInv' /\ TotalLimit'
<1> DEFINE k == Ch(c)
<1> USE AdmissionAssumption
<1>0. TypeOK /\ LockInv /\ NoSlotLeak /\ CountersExact /\ ChannelLimits /\ TotalInv /\ TotalLimit
  BY DEF IInv, Control
<1>1. k \in Channels /\ c \notin outputs[k] /\ (\A ch \in Channels : c \notin outputs[ch])
  BY <1>0 DEF TryAddOutput, NoSlotLeak, Ch, TypeOK
<1>2. outputs' = [outputs EXCEPT ![k] = @ \cup {c}]
  BY DEF TryAddOutput, AppendOutput
<1>3. \A x \in Channels \ {k} :
        /\ RelaysOf(x)' = RelaysOf(x) /\ ListenersOf(x)' = ListenersOf(x)
        /\ numRelays'[x] = numRelays[x] /\ numListeners'[x] = numListeners[x]
  BY <1>0, <1>1, <1>2 DEF TryAddOutput, RelaysOf, ListenersOf, TypeOK
<1>4. /\ RelaysOf(k)' = IF IsRelay(c) THEN RelaysOf(k) \cup {c} ELSE RelaysOf(k)
      /\ ListenersOf(k)' = IF IsRelay(c) THEN ListenersOf(k) ELSE ListenersOf(k) \cup {c}
  BY <1>0, <1>1, <1>2 DEF RelaysOf, ListenersOf, TypeOK
<1>5. /\ numRelays'[k] = IF IsRelay(c) THEN numRelays[k] + 1 ELSE numRelays[k]
      /\ numListeners'[k] = IF IsRelay(c) THEN numListeners[k] ELSE numListeners[k] + 1
  BY <1>0, <1>1 DEF TryAddOutput, TypeOK
<1>6. /\ Cardinality(RelaysOf(k) \cup {c}) = Cardinality(RelaysOf(k)) + 1
      /\ Cardinality(ListenersOf(k) \cup {c}) = Cardinality(ListenersOf(k)) + 1
  <2>1. c \notin RelaysOf(k) /\ c \notin ListenersOf(k) BY <1>1 DEF RelaysOf, ListenersOf
  <2> QED BY <2>1, <1>0, <1>1, FiniteOutputs, FS_AddElement
<1>7. numRelays[k] = Cardinality(RelaysOf(k)) /\ numListeners[k] = Cardinality(ListenersOf(k))
  BY <1>0, <1>1 DEF CountersExact
<1>8. CountersExact'
  <2>1. numRelays'[k] = Cardinality(RelaysOf(k)') /\ numListeners'[k] = Cardinality(ListenersOf(k)')
    BY <1>4, <1>5, <1>6, <1>7
  <2> QED BY <2>1, <1>3, <1>0 DEF CountersExact
<1>9. ChannelLimits'
  <2>1. /\ MaxRelays > 0 => Cardinality(RelaysOf(k)') <= MaxRelays
        /\ MaxListeners > 0 => Cardinality(ListenersOf(k)') <= MaxListeners
    <3>1. Cardinality(RelaysOf(k)) \in Nat /\ Cardinality(ListenersOf(k)) \in Nat
      BY <1>0, <1>1, FiniteOutputs
    <3>2. /\ MaxRelays > 0 => Cardinality(RelaysOf(k)) <= MaxRelays
          /\ MaxListeners > 0 => Cardinality(ListenersOf(k)) <= MaxListeners
      BY <1>0, <1>1 DEF ChannelLimits
    <3>3. IF IsRelay(c) THEN MaxRelays = 0 \/ numRelays[k] < MaxRelays
                        ELSE MaxListeners = 0 \/ numListeners[k] < MaxListeners
      BY DEF TryAddOutput, HasSlot
    <3> QED BY <1>4, <1>6, <1>7, <3>1, <3>2, <3>3
  <2> QED BY <2>1, <1>3, <1>0 DEF ChannelLimits
<1>10. TotalInv'
  <2>1. \A d \in Conns : pc'[d] # "add"
    BY <1>0 DEF TryAddOutput, Goto, LockInv, LockedLabels, TypeOK
  <2> QED BY <2>1 DEF TotalInv
<1>11. TotalLimit'
  <2>1. Cardinality(LiveRelays) <= total /\ Cardinality(LiveRelays) \in Nat /\ total \in Nat
    BY <1>0, FiniteLive DEF TryAddOutput, TotalInv, TypeOK
  <2>2. CASE IsRelay(c)
    <3>1. LiveRelays' \in SUBSET (LiveRelays \cup {c})
      BY <1>0, <1>3, <1>4, <1>1 DEF LiveRelays, TryAddOutput, TypeOK
    <3>2. /\ IsFiniteSet(LiveRelays \cup {c})
          /\ Cardinality(LiveRelays \cup {c}) \in {Cardinality(LiveRelays), Cardinality(LiveRelays) + 1}
      <4>1. IsFiniteSet(LiveRelays) BY <1>0, FiniteLive
      <4> QED BY <4>1, FS_AddElement
    <3>3. Cardinality(LiveRelays') <= Cardinality(LiveRelays \cup {c}) /\ Cardinality(LiveRelays') \in Nat
      BY <3>1, <3>2, FS_Subset, FS_CardinalityType
    <3>4. MaxRelaysTotal > 0 => total < MaxRelaysTotal
      BY <2>1, <2>2 DEF TryAddOutput, IsTotalFull
    <3> QED BY <2>1, <3>2, <3>3, <3>4 DEF TotalLimit
  <2>3. CASE ~IsRelay(c)
    <3>1. LiveRelays' = LiveRelays
      BY <2>3, <1>0, <1>3, <1>4 DEF LiveRelays, TryAddOutput, TypeOK
    <3> QED BY <3>1, <1>0 DEF TotalLimit
  <2> QED BY <2>2, <2>3
<1> QED BY <1>8, <1>9, <1>10, <1>11

(* A new channel has no relays yet. *)
LEMMA RegisterStep ==
  ASSUME IInv, NEW ch \in Channels, Register(ch)
  PROVE  CountersExact' /\ ChannelLimits' /\ TotalInv' /\ TotalLimit'
<1>0. TypeOK /\ NoSlotLeak /\ CountersExact /\ ChannelLimits /\ TotalInv /\ TotalLimit
  BY DEF IInv, Control
<1>1. UNCHANGED <<outputs, numRelays, numListeners, pc, total>> /\ live' = live \cup {ch}
  BY DEF Register, registry
<1>2. outputs[ch] = {}
  BY <1>0 DEF Register, NoSlotLeak, TypeOK
<1>3. LiveRelays' = LiveRelays
  BY <1>1, <1>2 DEF LiveRelays, RelaysOf
<1> QED BY <1>0, <1>1, <1>3
      DEF CountersExact, ChannelLimits, TotalInv, TotalLimit, RelaysOf, ListenersOf

(* The empty registry satisfies the invariant. *)
LEMMA InitIInv == Init => IInv
<1> SUFFICES ASSUME Init PROVE IInv
  OBVIOUS
<1> USE AdmissionAssumption
<1>1. Control
  BY DEF Init, Control, TypeOK, LockInv, VictimInv, BounceInv, NoSlotLeak, LockedLabels, PcValues
<1>2. \A ch \in Channels : RelaysOf(ch) = {} /\ ListenersOf(ch) = {}
  BY DEF Init, RelaysOf, ListenersOf
<1>3. LiveRelays = {} BY <1>2 DEF Init, LiveRelays
<1>4. CountersExact /\ ChannelLimits
  <2>1. \A ch \in Channels : Cardinality(RelaysOf(ch)) = 0 /\ Cardinality(ListenersOf(ch)) = 0
    BY <1>2, FS_EmptySet
  <2>2. \A ch \in Channels : numRelays[ch] = 0 /\ numListeners[ch] = 0
    BY DEF Init
  <2> QED BY <2>1, <2>2 DEF CountersExact, ChannelLimits
<1>5. TotalInv /\ TotalLimit
  BY <1>3, FS_EmptySet DEF Init, TotalInv, TotalLimit
<1> QED BY <1>1, <1>4, <1>5 DEF IInv

(* Every step keeps the inductive invariant. *)
LEMMA NextIInv == IInv /\ [Next]_vars => IInv'
<1> SUFFICES ASSUME IInv, [Next]_vars PROVE IInv'
  OBVIOUS
<1>1. Control' BY NextControl DEF IInv
<1>2. CASE \E c \in Conns : TryAddOutput(c)
  BY <1>1, <1>2, AddingStep DEF IInv
<1>3. CASE \E ch \in Channels : Register(ch)
  BY <1>1, <1>3, RegisterStep DEF IInv
<1>4. CASE ~(\E c \in Conns : TryAddOutput(c)) /\ ~(\E ch \in Channels : Register(ch))
  <2>0. TypeOK /\ TypeOK' /\ CountersExact /\ ChannelLimits /\ NoSlotLeak /\ TotalInv /\ TotalLimit
    BY <1>1 DEF IInv, Control
  <2>1. Removing /\ CountersExact' BY <1>4, RemovingSteps DEF IInv
  <2>2. /\ ChannelLimits'
        /\ Cardinality(LiveRelays') <= Cardinality(LiveRelays) /\ Cardinality(LiveRelays') \in Nat
    BY <2>0, <2>1, Shrink DEF Removing
  <2>3. Cardinality(LiveRelays) \in Nat BY <2>0, FiniteLive
  <2>4. TotalLimit'
    BY <2>0, <2>2, <2>3, AdmissionAssumption DEF TotalLimit
  <2>5. TotalInv'
    <3>1. TotalRelays = Cardinality(LiveRelays) BY <2>0, TotalIsExact
    <3> QED BY <2>0, <2>1, <2>2, <2>3, <3>1 DEF TotalInv, Removing, TypeOK
  <2> QED BY <1>1, <2>1, <2>2, <2>4, <2>5 DEF IInv
<1> QED BY <1>2, <1>3, <1>4

(* The registry is type correct: no counter is ever decremented below zero. *)
THEOREM TypeCorrect == Spec => []TypeOK
<1>1. IInv => TypeOK BY DEF IInv, Control
<1> QED BY InitIInv, NextIInv, <1>1, PTL DEF Spec

(* The counters always equal the number of registered outputs. *)
THEOREM CountersAreExact == Spec => []CountersExact
<1>1. IInv => CountersExact BY DEF IInv
<1> QED BY InitIInv, NextIInv, <1>1, PTL DEF Spec

(* The per-channel limits hold for any number of connections and channels. *)
THEOREM ChannelLimitsHold == Spec => []ChannelLimits
<1>1. IInv => ChannelLimits BY DEF IInv
<1> QED BY InitIInv, NextIInv, <1>1, PTL DEF Spec

(* The limit on all relays together holds, although the total is read early. *)
THEOREM TotalLimitHolds == Spec => []TotalLimit
<1>1. IInv => TotalLimit BY DEF IInv
<1> QED BY InitIInv, NextIInv, <1>1, PTL DEF Spec

(* Every registered output has a handler that will remove it. *)
THEOREM NoSlotIsLost == Spec => []NoSlotLeak
<1>1. IInv => NoSlotLeak BY DEF IInv, Control
<1> QED BY InitIInv, NextIInv, <1>1, PTL DEF Spec

(* A relay that comes back during its ban is not admitted. *)
THEOREM NoBounceHolds == Spec => []NoBounce
<1>1. IInv => NoBounce
  BY AdmissionAssumption DEF IInv, Control, BounceInv, NoSlotLeak, NoBounce, TypeOK, Ch
<1> QED BY InitIInv, NextIInv, <1>1, PTL DEF Spec
=============================================================================
