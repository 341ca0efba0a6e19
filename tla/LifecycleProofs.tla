-------------------------- MODULE LifecycleProofs --------------------------
(***************************************************************************)
(* Proofs about ChannelLifecycle, for any number of channels, stream keys  *)
(* and goroutines, and that the system with the idle channel cleaner       *)
(* (Cleaner) behaves as ChannelLifecycle allows.                           *)
(***************************************************************************)
EXTENDS Cleaner, TLAPS

(* Whoever is in use has an ID, and only a relay in use runs. *)
Used ==
  \A i \in Instances : IF kind[i] = "free" THEN run[i] = "none" ELSE idOf[i] \in Ids

(* A registered channel is in use under the ID it is registered for, *)
Registered ==
  \A id \in Ids : byID[id] # None => idOf[byID[id]] = id /\ kind[byID[id]] # "free"

(* and the channel of a key has one of the IDs of that key. *)
KeyIds ==
  \A k \in Keys :
    byStreamKey[k] # None => idOf[byStreamKey[k]] \in IdsOfKey[k] /\ kind[byStreamKey[k]] # "free"

(* An ID has a relay only while it has a channel. *)
RelaysRegistered == \A id \in Ids : relays[id] # None => byID[id] # None

(* A relay's own goroutine stops channels only in its callback. *)
OwnThread == \A i \in Instances : thread[i] # Resting => run[i] = "stopping"

(* NoLostRelay without the channels that a goroutine still has to close: they  *)
(* leave its hands without anything being done to their relays.                *)
Held ==
  \A i \in Instances :
    run[i] = "running" => relays[idOf[i]] = i \/ i \in cancelled \/ \E t \in Threads : i \in thread[t].relays

LInv == TypeOK /\ Used /\ Registered /\ KeyIds /\ RelaysRegistered /\ OwnThread /\ KeyMapsAgree /\ Held

-----------------------------------------------------------------------------
(* The invariant holds of an empty manager. *)
LEMMA InitLInv == Init => LInv
<1> SUFFICES ASSUME Init PROVE LInv
  OBVIOUS
<1>1. TypeOK
  BY LifecycleAssumption DEF Init, TypeOK, OptInstance, Resting
<1>2. Used /\ Registered /\ KeyIds /\ RelaysRegistered /\ OwnThread /\ KeyMapsAgree /\ Held
  BY LifecycleAssumption
  DEF Init, Used, Registered, KeyIds, RelaysRegistered, OwnThread, KeyMapsAgree, Held, Threads
<1> QED
  BY <1>1, <1>2 DEF LInv

(* Starting a broadcast, also over a relay with the same ID. *)
LEMMA BroadcastLInv ==
  ASSUME LInv, NEW i \in Instances, NEW k \in Keys, NEW id \in Ids, Broadcast(i, k, id)
  PROVE  LInv'
<1> USE LifecycleAssumption DEF LInv, Broadcast
<1>1. TypeOK'
  BY DEF TypeOK, OptInstance
<1>2. Used' /\ RelaysRegistered' /\ OwnThread'
  BY DEF TypeOK, OptInstance, Used, RelaysRegistered, OwnThread
<1>3. Registered'
  BY DEF TypeOK, OptInstance, Registered
<1>4. KeyIds'
  BY DEF TypeOK, OptInstance, KeyIds
<1>5. KeyMapsAgree'
  <2>1. \A l \in Keys : l # k /\ byStreamKey[l] # None =>
          idOf[byStreamKey[l]] # id /\ byStreamKey[l] # i
    BY DEF TypeOK, OptInstance, KeyIds
  <2>2. \A l \in Keys : l # k => streamKeyByID[id] # l
    BY <2>1 DEF TypeOK, OptInstance, KeyMapsAgree, Registered
  <2>3. \A j \in Ids : streamKeyByID[j] # k
    BY DEF TypeOK, OptInstance, KeyMapsAgree
  <2> QED
    BY <2>1, <2>2, <2>3 DEF TypeOK, OptInstance, KeyMapsAgree
<1>6. Held'
  BY DEF TypeOK, OptInstance, Used, Held
<1> QED
  BY <1>1, <1>2, <1>3, <1>4, <1>5, <1>6

(* Starting a relay: its ID has no channel, hence no relay that could be lost. *)
LEMMA StartRelayLInv ==
  ASSUME LInv, NEW i \in Instances, NEW id \in Ids, StartRelay(i, id)
  PROVE  LInv'
<1> USE LifecycleAssumption DEF LInv, StartRelay
<1>1. TypeOK'
  BY DEF TypeOK, OptInstance
<1>2. Used' /\ RelaysRegistered' /\ OwnThread'
  BY DEF TypeOK, OptInstance, Used, RelaysRegistered, OwnThread
<1>3. Registered'
  BY DEF TypeOK, OptInstance, Registered
<1>4. KeyIds'
  BY DEF TypeOK, OptInstance, KeyIds
<1>5. KeyMapsAgree'
  BY DEF TypeOK, OptInstance, KeyMapsAgree, KeyIds
<1>6. Held'
  BY DEF TypeOK, OptInstance, Used, RelaysRegistered, Held
<1> QED
  BY <1>1, <1>2, <1>3, <1>4, <1>5, <1>6

-----------------------------------------------------------------------------
(* stopInstance's critical section, by whichever goroutine: its key and its    *)
(* relay leave the maps together with the channel, and the relay is in hand.   *)
LEMMA RemoveMaps ==
  ASSUME LInv, NEW t \in Threads, NEW id \in Ids, byID[id] # None, thread[t] = Resting, Remove(t, id),
         UNCHANGED <<kind, idOf, cancelled>>
  PROVE  /\ byID' \in [Ids -> OptInstance] /\ byStreamKey' \in [Keys -> OptInstance]
         /\ streamKeyByID' \in [Ids -> Keys \cup {None}] /\ relays' \in [Ids -> OptInstance]
         /\ thread' \in [Threads -> [relays : SUBSET Instances, waitFor : OptInstance,
                                     chans : SUBSET Instances]]
         /\ Registered' /\ KeyIds' /\ RelaysRegistered' /\ KeyMapsAgree'
         /\ \A i \in Instances :
              run[i] = "running" =>
                relays'[idOf[i]] = i \/ i \in cancelled \/ \E u \in Threads : i \in thread'[u].relays
<1> USE LifecycleAssumption DEF LInv, Remove
<1>1. /\ byID' \in [Ids -> OptInstance] /\ byStreamKey' \in [Keys -> OptInstance]
      /\ streamKeyByID' \in [Ids -> Keys \cup {None}] /\ relays' \in [Ids -> OptInstance]
  BY DEF TypeOK, OptInstance
<1>2. thread' \in [Threads -> [relays : SUBSET Instances, waitFor : OptInstance, chans : SUBSET Instances]]
  <2>1. [relays |-> {relays[id]} \ {None}, waitFor |-> None, chans |-> {byID[id]}]
          \in [relays : SUBSET Instances, waitFor : OptInstance, chans : SUBSET Instances]
    BY DEF TypeOK, OptInstance
  <2> QED
    BY <2>1 DEF TypeOK
<1>3. Registered' /\ RelaysRegistered'
  BY DEF TypeOK, OptInstance, Registered, RelaysRegistered
<1>4. KeyIds'
  BY DEF TypeOK, OptInstance, KeyIds
<1>5. KeyMapsAgree'
  <2>1. \A l \in Keys : l # streamKeyByID[id] /\ byStreamKey[l] # None => idOf[byStreamKey[l]] # id
    BY DEF TypeOK, OptInstance, KeyMapsAgree
  <2>2. \A j \in Ids : j # id /\ streamKeyByID[j] # None => streamKeyByID[j] # streamKeyByID[id]
    BY DEF TypeOK, OptInstance, KeyMapsAgree, Registered
  <2> QED
    BY <2>1, <2>2 DEF TypeOK, OptInstance, KeyMapsAgree
<1>6. \A i \in Instances :
        run[i] = "running" =>
          relays'[idOf[i]] = i \/ i \in cancelled \/ \E u \in Threads : i \in thread'[u].relays
  <2> SUFFICES ASSUME NEW i \in Instances, run[i] = "running", i \notin cancelled
               PROVE  relays'[idOf[i]] = i \/ \E u \in Threads : i \in thread'[u].relays
    OBVIOUS
  <2>1. idOf[i] \in Ids
    BY DEF TypeOK, Used
  <2>2. CASE relays[idOf[i]] = i /\ idOf[i] = id
    <3>1. i \in thread'[t].relays
      BY <2>2 DEF TypeOK
    <3> QED
      BY <3>1
  <2>3. CASE relays[idOf[i]] = i /\ idOf[i] # id
    BY <2>1, <2>3 DEF TypeOK
  <2>4. CASE \E u \in Threads : i \in thread[u].relays
    <3>1. PICK u \in Threads : i \in thread[u].relays
      BY <2>4
    <3>2. u # t
      BY <3>1 DEF Resting
    <3>3. i \in thread'[u].relays
      BY <3>1, <3>2 DEF TypeOK
    <3> QED
      BY <3>3
  <2> QED
    BY <2>2, <2>3, <2>4 DEF Held
<1> QED
  BY <1>1, <1>2, <1>3, <1>4, <1>5, <1>6

(* Manager.Stop and StopInstance. *)
LEMMA StopLInv ==
  ASSUME LInv, NEW t \in Callers, NEW id \in Ids, Stop(t, id)
  PROVE  LInv'
<1>1. /\ t \in Threads /\ t \notin Instances /\ byID[id] # None /\ thread[t] = Resting /\ Remove(t, id)
      /\ UNCHANGED <<kind, idOf, run, cancelled>>
  BY LifecycleAssumption DEF Stop, Threads
<1>2. \A i \in Instances : thread'[i] = thread[i]
  BY <1>1 DEF LInv, TypeOK, Remove, Threads
<1>3. OwnThread' /\ Used'
  BY <1>1, <1>2 DEF LInv, OwnThread, Used
<1>4. Held'
  BY <1>1, RemoveMaps DEF Held
<1>5. TypeOK'
  BY <1>1, RemoveMaps DEF LInv, TypeOK
<1> QED
  BY <1>1, <1>3, <1>4, <1>5, RemoveMaps DEF LInv

(* The callback of a relay that has ended. *)
LEMMA OnStoppedLInv ==
  ASSUME LInv, NEW i \in Instances, OnStopped(i)
  PROVE  LInv'
<1>1. /\ run[i] = "done" /\ kind[i] # "free" /\ idOf[i] \in Ids /\ i \in Threads
      /\ thread[i] = Resting /\ UNCHANGED <<kind, idOf, cancelled>>
  BY DEF LInv, OnStopped, Used, OwnThread, Threads
<1>2. CASE byID[idOf[i]] = None
  <2>1. run' = [run EXCEPT ![i] = "stopped"] /\ UNCHANGED <<maps, thread>>
    BY <1>2 DEF OnStopped
  <2> QED
    BY <1>1, <2>1 DEF LInv, TypeOK, Used, Registered, KeyIds, RelaysRegistered, OwnThread, KeyMapsAgree,
                      Held, maps
<1>3. CASE byID[idOf[i]] # None
  <2>1. run' = [run EXCEPT ![i] = "stopping"] /\ Remove(i, idOf[i])
    BY <1>3 DEF OnStopped
  <2>2. \A j \in Instances : j # i => thread'[j] = thread[j]
    BY <2>1 DEF LInv, TypeOK, Remove, Threads
  <2>3. OwnThread' /\ Used'
    BY <1>1, <2>1, <2>2 DEF LInv, TypeOK, OwnThread, Used
  <2>4. \A j \in Instances : run'[j] = "running" => run[j] = "running"
    BY <2>1 DEF LInv, TypeOK
  <2>5. Held'
    BY <1>1, <1>3, <2>1, <2>4, RemoveMaps DEF Held
  <2>6. TypeOK'
    BY <1>1, <1>3, <2>1, RemoveMaps DEF LInv, TypeOK
  <2> QED
    BY <1>1, <1>3, <2>1, <2>3, <2>5, <2>6, RemoveMaps DEF LInv
<1> QED
  BY <1>2, <1>3

(* Every relay of the maps is in the hands of the goroutine that empties them. *)
LEMMA StopAllLInv ==
  ASSUME LInv, NEW t \in Callers, StopAll(t)
  PROVE  LInv'
<1> USE LifecycleAssumption DEF LInv, StopAll
<1>1. t \in Threads /\ t \notin Instances
  BY DEF Threads
<1>2. TypeOK'
  <2>1. {relays[id] : id \in Ids} \ {None} \subseteq Instances /\ {byID[id] : id \in Ids} \ {None} \subseteq Instances
    BY DEF TypeOK, OptInstance
  <2>2. thread' \in [Threads -> [relays : SUBSET Instances, waitFor : OptInstance, chans : SUBSET Instances]]
    BY <1>1, <2>1 DEF TypeOK, OptInstance
  <2> QED
    BY <2>2 DEF TypeOK, OptInstance
<1>3. Used' /\ Registered' /\ KeyIds' /\ RelaysRegistered' /\ KeyMapsAgree'
  BY DEF Used, Registered, KeyIds, RelaysRegistered, KeyMapsAgree
<1>4. OwnThread'
  BY <1>1 DEF TypeOK, OwnThread, Threads
<1>5. Held'
  <2> SUFFICES ASSUME NEW i \in Instances, run[i] = "running", i \notin cancelled
               PROVE  \E u \in Threads : i \in thread'[u].relays
    BY DEF Held
  <2>1. idOf[i] \in Ids
    BY DEF TypeOK, Used
  <2>2. CASE relays[idOf[i]] = i
    <3>1. i \in thread'[t].relays
      BY <1>1, <2>1, <2>2 DEF TypeOK
    <3> QED
      BY <1>1, <3>1
  <2>3. CASE \E u \in Threads : i \in thread[u].relays
    <3>1. PICK u \in Threads : i \in thread[u].relays
      BY <2>3
    <3>2. u # t
      BY <3>1 DEF Resting
    <3>3. i \in thread'[u].relays
      BY <3>1, <3>2 DEF TypeOK
    <3> QED
      BY <3>3
  <2> QED
    BY <2>2, <2>3 DEF Held
<1> QED
  BY <1>2, <1>3, <1>4, <1>5

-----------------------------------------------------------------------------
(* relay.Stop and CloseAll: a relay that leaves a goroutine's hands has been   *)
(* cancelled.                                                                  *)
LEMMA StoppingLInv ==
  ASSUME LInv, NEW t \in Threads, Stopping(t)
  PROVE  LInv'
<1> USE LifecycleAssumption DEF LInv, maps
<1>1. CASE Cancel(t)
  <2>1. PICK r \in thread[t].relays :
          /\ cancelled' = cancelled \cup {r}
          /\ thread' = [thread EXCEPT ![t].relays = @ \ {r}, ![t].waitFor = r]
    BY <1>1 DEF Cancel
  <2>2. TypeOK'
    BY <1>1, <2>1 DEF Cancel, TypeOK, OptInstance
  <2>3. OwnThread'
    BY <1>1, <2>1 DEF Cancel, TypeOK, OwnThread, Resting
  <2>4. Held'
    <3> SUFFICES ASSUME NEW i \in Instances, run[i] = "running", i \notin cancelled, i # r
                 PROVE  relays[idOf[i]] = i \/ \E u \in Threads : i \in thread'[u].relays
      BY <1>1, <2>1 DEF Cancel, Held
    <3>1. ASSUME NEW u \in Threads, i \in thread[u].relays PROVE i \in thread'[u].relays
      BY <2>1, <3>1 DEF TypeOK
    <3> QED
      BY <3>1 DEF Held
  <2> QED
    BY <1>1, <2>2, <2>3, <2>4 DEF Cancel, Used, Registered, KeyIds, RelaysRegistered, KeyMapsAgree
<1>2. CASE Done(t)
  <2>1. TypeOK'
    BY <1>2 DEF Done, TypeOK, OptInstance
  <2>2. OwnThread'
    BY <1>2 DEF Done, TypeOK, OwnThread, Resting
  <2>3. \A u \in Threads : thread'[u].relays = thread[u].relays
    BY <1>2 DEF Done, TypeOK
  <2>4. Held'
    BY <1>2, <2>3 DEF Done, Held
  <2> QED
    BY <1>2, <2>1, <2>2, <2>4 DEF Done, Used, Registered, KeyIds, RelaysRegistered, KeyMapsAgree
<1>3. CASE CloseAll(t)
  <2>1. TypeOK'
    BY <1>3 DEF CloseAll, TypeOK, OptInstance, Resting
  <2>2. OwnThread'
    BY <1>3 DEF CloseAll, TypeOK, OwnThread
  <2>3. \A u \in Threads : thread'[u].relays = thread[u].relays
    BY <1>3 DEF CloseAll, TypeOK, Resting
  <2>4. Held'
    BY <1>3, <2>3 DEF CloseAll, Held
  <2> QED
    BY <1>3, <2>1, <2>2, <2>4 DEF CloseAll, Used, Registered, KeyIds, RelaysRegistered, KeyMapsAgree
<1> QED
  BY <1>1, <1>2, <1>3 DEF Stopping

(* The end of Run; OnStopped has a lemma of its own. *)
LEMMA RunExitLInv ==
  ASSUME LInv, NEW i \in Instances, RunExit(i)
  PROVE  LInv'
<1> USE DEF LInv, maps, TypeOK, Used, Registered, KeyIds, RelaysRegistered, OwnThread, KeyMapsAgree, Held
<1>1. CASE RunEnds(i)
  BY <1>1 DEF RunEnds
<1>2. CASE CloseDoneCh(i)
  BY <1>2 DEF CloseDoneCh
<1>3. CASE RunReturns(i)
  BY <1>3 DEF RunReturns
<1>4. CASE OnStopped(i)
  BY <1>4, OnStoppedLInv
<1> QED
  BY <1>1, <1>2, <1>3, <1>4 DEF RunExit

(* What is collected is in no map. *)
LEMMA CollectLInv ==
  ASSUME LInv, NEW i \in Instances, Collect(i)
  PROVE  LInv'
<1> USE LifecycleAssumption DEF LInv, Collect, maps
<1>1. TypeOK'
  BY DEF TypeOK, OptInstance
<1>2. Used' /\ RelaysRegistered' /\ OwnThread'
  BY DEF TypeOK, Used, RelaysRegistered, OwnThread, Resting
<1>3. Registered'
  BY DEF TypeOK, OptInstance, Registered, InMaps
<1>4. \A k \in Keys : byStreamKey[k] # i
  BY DEF KeyMapsAgree, InMaps
<1>5. KeyIds' /\ KeyMapsAgree'
  BY <1>4 DEF TypeOK, OptInstance, KeyIds, KeyMapsAgree
<1>6. Held'
  BY DEF TypeOK, Held
<1> QED
  BY <1>1, <1>2, <1>3, <1>5, <1>6

(* Every step keeps the invariant. *)
LEMMA NextLInv == LInv /\ [Next]_vars => LInv'
<1> SUFFICES ASSUME LInv, [Next]_vars PROVE LInv'
  OBVIOUS
<1>1. CASE Starts
  BY <1>1, BroadcastLInv, StartRelayLInv DEF Starts
<1>2. ASSUME NEW t \in Callers, StopAll(t) PROVE LInv'
  BY <1>2, StopAllLInv
<1>3. ASSUME NEW t \in Callers, NEW id \in Ids, Stop(t, id) PROVE LInv'
  BY <1>3, StopLInv
<1>4. ASSUME NEW t \in Threads, Stopping(t) PROVE LInv'
  BY <1>4, StoppingLInv
<1>5. ASSUME NEW i \in Instances, RunExit(i) PROVE LInv'
  BY <1>5, RunExitLInv
<1>6. ASSUME NEW i \in Instances, Collect(i) PROVE LInv'
  BY <1>6, CollectLInv
<1>7. CASE UNCHANGED vars
  BY <1>7 DEF vars, maps, LInv, TypeOK, Used, Registered, KeyIds, RelaysRegistered, OwnThread, KeyMapsAgree, Held
<1> QED
  BY <1>1, <1>2, <1>3, <1>4, <1>5, <1>6, <1>7 DEF Next

(* The inductive invariant of the manager holds in every reachable state. *)
THEOREM LifecycleInvariant == Spec => []LInv
<1>1. Init => LInv
  BY InitLInv
<1>2. LInv /\ [Next]_vars => LInv'
  BY NextLInv
<1> QED
  BY <1>1, <1>2, PTL DEF Spec

(* The maps of manager.go agree in every reachable state: a stream key finds   *)
(* exactly the registered channel, through stops, replaced relays and exits.   *)
THEOREM KeysFindChannels == Spec => []KeyMapsAgree
<1>1. LInv => KeyMapsAgree
  BY DEF LInv
<1> QED
  BY <1>1, LifecycleInvariant, PTL

(* No relay goroutine is lost, whatever takes its ID and however many stop at  *)
(* once (manager.go, stopInstance and StopAll).                                *)
THEOREM NoRelayIsLost == Spec => []NoLostRelay
<1>1. LInv => NoLostRelay
  BY DEF LInv, Held, NoLostRelay, InHand
<1> QED
  BY <1>1, LifecycleInvariant, PTL

-----------------------------------------------------------------------------
(* The channels that the cleaner has listed and not yet visited, and the one   *)
(* it is visiting, are not collected: the cleaner holds them.                  *)
Listed ==
  /\ todo \subseteq Instances /\ \A i \in todo : kind[i] # "free"
  /\ at # None => at \in Instances /\ kind[at] # "free"
  /\ pc \in {"relays", "stop", "stopping"} => at # None

(* The steps of the cleaner, of outputs and of the rest are steps of the       *)
(* lifecycle, or leave it alone: the cleaner stops channels as any goroutine.  *)
LEMMA CleanerStep == LInv /\ Listed /\ [CleanerNext]_allVars => [Next]_vars
<1> SUFFICES ASSUME LInv, Listed, [CleanerNext]_allVars PROVE [Next]_vars
  OBVIOUS
<1>1. CASE Lifecycle
  BY <1>1 DEF Lifecycle, Next
<1>2. ASSUME NEW i \in Instances, NEW k \in Kinds, Join(i, k) \/ Leave(i, k) PROVE UNCHANGED vars
  BY <1>2 DEF Join, Leave
<1>3. CASE StopIdle
  <2>1. idOf[at] \in Ids
    BY <1>3 DEF StopIdle, Listed, LInv, Used
  <2>2. CASE byID[idOf[at]] = None
    BY <1>3, <2>2 DEF StopIdle
  <2>3. CASE byID[idOf[at]] # None
    BY <1>3, <2>1, <2>3, CleanerAssumption DEF StopIdle, Next
  <2> QED
    BY <2>2, <2>3
<1>4. CASE Begin \/ Visit \/ CheckRelays \/ Stopped \/ Visited \/ Prune \/ Pruned
  BY <1>4 DEF Begin, Visit, CheckRelays, Stopped, Visited, Prune, Pruned
<1>5. CASE UNCHANGED allVars
  BY <1>5 DEF allVars
<1> QED
  BY <1>1, <1>2, <1>3, <1>4, <1>5 DEF CleanerNext, Cleanup

(* What other goroutines do collects nothing the cleaner holds. *)
LEMMA LifecycleListed == ASSUME LInv, Listed, Lifecycle PROVE Listed'
<1> USE DEF LInv, Listed, Lifecycle, Follow, cleanerVars
<1> SUFFICES \A i \in Instances : kind[i] # "free" /\ i \in todo \cup {at} => kind'[i] # "free"
  OBVIOUS
<1>1. CASE Starts
  BY ZenonT(60), <1>1 DEF Starts, Broadcast, StartRelay, TypeOK
<1>2. CASE \E t \in Callers : StopAll(t) \/ \E id \in Ids : Stop(t, id)
  BY <1>2 DEF StopAll, Stop
<1>3. CASE \E t \in Threads : Stopping(t)
  BY <1>3 DEF Stopping, Cancel, Done, CloseAll
<1>4. CASE \E i \in Instances : RunExit(i)
  BY <1>4 DEF RunExit, RunEnds, CloseDoneCh, OnStopped, RunReturns
<1>5. CASE \E i \in Instances : Collect(i) /\ i \notin todo \cup {at}
  BY <1>5 DEF Collect, TypeOK
<1> QED
  BY <1>1, <1>2, <1>3, <1>4, <1>5

(* Every step keeps the channels that the cleaner holds. *)
LEMMA NextListed == LInv /\ Listed /\ [CleanerNext]_allVars => Listed'
<1> SUFFICES ASSUME LInv, Listed, [CleanerNext]_allVars PROVE Listed'
  OBVIOUS
<1>1. CASE Lifecycle
  BY <1>1, LifecycleListed
<1>2. ASSUME NEW i \in Instances, NEW k \in Kinds, Join(i, k) \/ Leave(i, k) PROVE Listed'
  BY <1>2 DEF Join, Leave, Listed, vars, cleanerVars
<1>3. CASE Begin
  BY <1>3 DEF Begin, Listed, LInv, TypeOK, OptInstance, Registered, vars
<1>4. CASE Visit
  BY <1>4, LifecycleAssumption DEF Visit, Listed, vars
<1>5. CASE CheckRelays
  <2>1. /\ pc' \in {"stop", "visit"} /\ at' = (IF pc' = "stop" THEN at ELSE None)
        /\ pc = "relays" /\ UNCHANGED <<kind, todo>>
    BY <1>5 DEF CheckRelays, vars
  <2> QED
    BY <2>1 DEF Listed
<1>6. CASE StopIdle
  BY <1>6 DEF StopIdle, Stop, Listed, vars
<1>7. CASE Stopped \/ Visited \/ Prune \/ Pruned
  BY <1>7 DEF Stopped, Visited, Prune, Pruned, Listed, vars
<1>8. CASE UNCHANGED allVars
  BY <1>8 DEF allVars, Listed, vars, cleanerVars
<1> QED
  BY <1>1, <1>2, <1>3, <1>4, <1>5, <1>6, <1>7, <1>8 DEF CleanerNext, Cleanup

(* With the cleaner the manager behaves as ChannelLifecycle allows. *)
THEOREM CleanerImplementsLifecycle == CleanerSpec => Spec
<1>1. CleanerInit => Init /\ LInv /\ Listed
  BY InitLInv DEF CleanerInit, Listed
<1>2. LInv /\ Listed /\ [CleanerNext]_allVars => [Next]_vars /\ LInv' /\ Listed'
  BY CleanerStep, NextLInv, NextListed
<1> QED
  BY <1>1, <1>2, PTL DEF CleanerSpec, Spec

(* Hence, with the cleaner too, a stream key finds its channel and no relay    *)
(* is lost (manager.go, stopInstance; cleaner.go, cleanup).                    *)
THEOREM CleanerKeepsMaps == CleanerSpec => [](KeyMapsAgree /\ NoLostRelay)
BY CleanerImplementsLifecycle, KeysFindChannels, NoRelayIsLost, PTL

-----------------------------------------------------------------------------
(* A channel with outputs, or with one that came since the cleanup began, is a *)
(* relay channel in use: a channel object starts without outputs.              *)
FreshIsEmpty ==
  /\ outputs \in [Instances -> SUBSET Kinds] /\ joined \subseteq Instances
  /\ \A i \in Instances : outputs[i] # {} => kind[i] # "free"

(* The cleaner holds a channel only while it visits it, and none between cleanups. *)
Holds ==
  /\ pc \in {"idle", "prune"} => todo = {}
  /\ pc \in {"idle", "visit", "prune"} => at = None

(* Nobody, or only who came during this cleanup, watches or relays the channel. *)
Unwatched(i) == outputs[i] = {} \/ i \in joined

(* Whatever is registered under the ID of a channel that the cleaner holds, and *)
(* is another channel, was started during this cleanup.                         *)
Newer ==
  \A i \in (todo \cup {at}) \ {None} :
    byID[idOf[i]] # None /\ byID[idOf[i]] # i => Unwatched(byID[idOf[i]])

(* What has been seen of the visited channel stays true but for who came since. *)
Seen ==
  /\ pc = "relays" => "listener" \notin outputs[at] \/ at \in joined
  /\ pc = "stop" => Unwatched(at)

WInv == FreshIsEmpty /\ Holds /\ Newer /\ Seen

(* Outputs that come during a cleanup are remembered; those that go only help. *)
LEMMA OutputsWInv ==
  ASSUME LInv, Listed, WInv, NEW i \in Instances, NEW k \in Kinds, Join(i, k) \/ Leave(i, k)
  PROVE  WInv'
<1> USE DEF WInv
<1>1. UNCHANGED <<vars, cleanerVars>>
  BY DEF Join, Leave
<1>2. FreshIsEmpty'
  BY <1>1 DEF FreshIsEmpty, Join, Leave, vars
<1>3. Holds'
  BY <1>1 DEF Holds, cleanerVars
<1>4. ASSUME NEW j \in Instances, Unwatched(j), pc # "idle" PROVE Unwatched(j)'
  BY <1>4 DEF Unwatched, Join, Leave, FreshIsEmpty
<1>5. Newer'
  <2>1. CASE pc = "idle"
    BY <1>1, <2>1 DEF Holds, Newer, cleanerVars
  <2>2. CASE pc # "idle"
    <3> SUFFICES ASSUME NEW h \in (todo \cup {at}) \ {None}, byID[idOf[h]] # None, byID[idOf[h]] # h
                 PROVE  Unwatched(byID[idOf[h]])'
      BY <1>1 DEF Newer, cleanerVars, vars, maps
    <3>1. byID[idOf[h]] \in Instances
      BY DEF LInv, TypeOK, Used, Listed, OptInstance
    <3>2. Unwatched(byID[idOf[h]])
      BY DEF Newer
    <3> DEFINE b == byID[idOf[h]]
    <3>3. b' = b
      BY <1>1 DEF vars, maps
    <3> QED
      BY <1>4, <2>2, <3>1, <3>2, <3>3 DEF Unwatched
  <2> QED
    BY <2>1, <2>2
<1>6. Seen'
  BY <1>1, <1>4 DEF Seen, Listed, Unwatched, Join, Leave, FreshIsEmpty, cleanerVars
<1> QED
  BY <1>2, <1>3, <1>5, <1>6

(* The other goroutines take outputs away and register only new channels.  *)
LEMMA LifecycleWInv ==
  ASSUME LInv, LInv', Listed, Listed', WInv, Lifecycle
  PROVE  WInv'
<1> USE DEF WInv
<1>1. UNCHANGED cleanerVars /\ Follow
  BY DEF Lifecycle, Follow
<1>2. /\ outputs' \in [Instances -> SUBSET Kinds] /\ \A i \in Instances : outputs'[i] \subseteq outputs[i]
      /\ joined' = {i \in joined : kind'[i] # "free"}
  BY <1>1 DEF Follow, FreshIsEmpty
<1>3. ASSUME NEW i \in Instances, kind'[i] = "free" PROVE kind[i] = "free" \/ outputs[i] = {}
  <2>1. CASE \E j \in Instances : Collect(j) /\ outputs[j] = {}
    BY <1>3, <2>1 DEF Collect, LInv, TypeOK
  <2>2. CASE Starts
    BY ZenonT(60), <1>3, <2>2 DEF Starts, Broadcast, StartRelay, LInv, TypeOK
  <2>3. CASE \/ \E t \in Callers : StopAll(t) \/ \E id \in Ids : Stop(t, id)
             \/ \E t \in Threads : Stopping(t)
             \/ \E j \in Instances : RunExit(j)
    BY <1>3, <2>3 DEF StopAll, Stop, Stopping, Cancel, Done, CloseAll, RunExit, RunEnds, CloseDoneCh,
                      OnStopped, RunReturns
  <2> QED
    BY <2>1, <2>2, <2>3 DEF Lifecycle
<1>4. FreshIsEmpty'
  BY <1>2, <1>3 DEF FreshIsEmpty
<1>5. Holds'
  BY <1>1 DEF Holds, cleanerVars
<1>6. ASSUME NEW i \in Instances, Unwatched(i), kind'[i] # "free" PROVE Unwatched(i)'
  BY <1>2, <1>6 DEF Unwatched
<1>7. \A id \in Ids : byID'[id] # None /\ byID'[id] # byID[id] => outputs[byID'[id]] = {}
  <2>1. CASE Starts
    BY ZenonT(60), <2>1 DEF Starts, Broadcast, StartRelay, LInv, TypeOK, FreshIsEmpty
  <2>2. CASE \E t \in Threads, id \in Ids : Remove(t, id)
    BY <2>2 DEF Remove, LInv, TypeOK
  <2>3. CASE \E t \in Callers : StopAll(t)
    BY <2>3 DEF StopAll
  <2>4. CASE UNCHANGED byID
    BY <2>4
  <2>5. ASSUME NEW j \in Instances, OnStopped(j), byID[idOf[j]] # None
        PROVE  \E t \in Threads, id \in Ids : Remove(t, id)
    BY <2>5 DEF OnStopped, LInv, Used, Threads
  <2>6. ASSUME NEW j \in Instances, RunExit(j)
        PROVE  (\E t \in Threads, id \in Ids : Remove(t, id)) \/ UNCHANGED byID
    BY <2>5, <2>6 DEF RunExit, RunEnds, CloseDoneCh, OnStopped, RunReturns, maps
  <2>7. ASSUME NEW t \in Callers, NEW id \in Ids, Stop(t, id)
        PROVE  \E u \in Threads, jd \in Ids : Remove(u, jd)
    BY <2>7 DEF Stop, Threads
  <2>8. ASSUME NEW t \in Threads, Stopping(t) PROVE UNCHANGED byID
    BY <2>8 DEF Stopping, Cancel, Done, CloseAll, maps
  <2>9. ASSUME NEW j \in Instances, Collect(j) PROVE UNCHANGED byID
    BY <2>9 DEF Collect, maps
  <2> QED
    BY <2>1, <2>2, <2>3, <2>4, <2>6, <2>7, <2>8, <2>9 DEF Lifecycle
<1>8. ASSUME NEW i \in Instances, kind[i] # "free", i \in todo \cup {at} PROVE idOf'[i] = idOf[i]
  <2>1. CASE Starts
    <3>1. \E j \in Instances, id \in Ids : kind[j] = "free" /\ idOf' = [idOf EXCEPT ![j] = id]
      BY <2>1 DEF Starts, Broadcast, StartRelay
    <3> QED
      BY <1>8, <3>1 DEF LInv, TypeOK
  <2>2. CASE \E j \in Instances : Collect(j) /\ j \notin todo \cup {at}
    BY <1>8, <2>2 DEF Collect, LInv, TypeOK
  <2>3. CASE \/ \E t \in Callers : StopAll(t) \/ \E id \in Ids : Stop(t, id)
             \/ \E t \in Threads : Stopping(t)
             \/ \E j \in Instances : RunExit(j)
    BY <2>3 DEF StopAll, Stop, Stopping, Cancel, Done, CloseAll, RunExit, RunEnds, CloseDoneCh,
                OnStopped, RunReturns
  <2> QED
    BY <2>1, <2>2, <2>3 DEF Lifecycle
<1>9. Newer'
  <2> SUFFICES ASSUME NEW h \in (todo \cup {at}) \ {None}, byID'[idOf'[h]] # None, byID'[idOf'[h]] # h
               PROVE  Unwatched(byID[idOf[h]])'
    BY <1>1 DEF Newer, cleanerVars
  <2>1. h \in Instances /\ idOf'[h] = idOf[h] /\ idOf[h] \in Ids
    BY <1>8 DEF Listed, LInv, Used
  <2> DEFINE b == byID'[idOf[h]]
  <2>2. b \in Instances /\ kind'[b] # "free"
    BY <2>1 DEF LInv, TypeOK, OptInstance, Registered
  <2>3. Unwatched(b)
    <3>1. CASE b = byID[idOf[h]]
      BY <2>1, <3>1 DEF Newer
    <3>2. CASE b # byID[idOf[h]]
      BY <1>7, <2>1, <3>2 DEF Unwatched
    <3> QED
      BY <3>1, <3>2
  <2>4. outputs'[b] = {} \/ b \in joined'
    BY <1>2, <2>2, <2>3 DEF Unwatched
  <2> QED
    BY <2>1, <2>4 DEF Unwatched
<1>10. Seen'
  BY <1>1, <1>2, <1>6 DEF Seen, Listed, Unwatched, cleanerVars
<1> QED
  BY <1>4, <1>5, <1>9, <1>10

(* The cleaner's own steps: a list names what is registered; what is idle has  *)
(* neither listeners nor relays.                                               *)
LEMMA CleanupWInv ==
  ASSUME LInv, Listed, WInv, Begin \/ Cleanup
  PROVE  WInv'
<1> USE DEF WInv
<1>1. CASE Begin
  <2>1. UNCHANGED <<vars, outputs, joined, at>> /\ at = None /\ pc' = "visit"
    BY <1>1 DEF Begin, Holds
  <2>2. \A i \in todo' : byID[idOf[i]] = i
    BY <1>1 DEF Begin, LInv, Registered
  <2> QED
    BY <2>1, <2>2 DEF FreshIsEmpty, Holds, Newer, Seen, vars, maps
<1>2. CASE Visit
  <2>1. PICK i \in todo :
          /\ todo' = todo \ {i}
          /\ \/ pc' = "relays" /\ at' = i /\ "listener" \notin outputs[i]
             \/ UNCHANGED <<pc, at>>
    BY <1>2 DEF Visit
  <2>2. UNCHANGED <<vars, outputs, joined>> /\ pc = "visit"
    BY <1>2 DEF Visit
  <2>3. FreshIsEmpty' /\ Holds' /\ Seen'
    BY <2>1, <2>2 DEF FreshIsEmpty, Holds, Seen, vars
  <2>4. (todo' \cup {at'}) \ {None} \subseteq (todo \cup {at}) \ {None}
    BY <2>1
  <2>5. Newer'
    BY <2>2, <2>4 DEF Newer, Unwatched, vars, maps
  <2> QED
    BY <2>3, <2>5
<1>3. CASE CheckRelays
  <2>1. /\ UNCHANGED <<vars, outputs, todo, joined>> /\ pc = "relays" /\ pc' \in {"stop", "visit"}
        /\ pc' = "stop" => Idle
        /\ at' = IF pc' = "stop" THEN at ELSE None
    BY <1>3 DEF CheckRelays
  <2>2. FreshIsEmpty' /\ Holds'
    BY <2>1 DEF FreshIsEmpty, Holds, vars
  <2>3. Seen'
    <3>1. at \in Instances /\ outputs[at] \subseteq {"listener", "relay"}
      BY <2>1, CleanerAssumption DEF Listed, FreshIsEmpty
    <3> QED
      BY <2>1, <3>1 DEF Seen, Idle, Unwatched
  <2>4. (todo' \cup {at'}) \ {None} \subseteq (todo \cup {at}) \ {None}
    BY <2>1
  <2>5. Newer'
    BY <2>1, <2>4 DEF Newer, Unwatched, vars, maps
  <2> QED
    BY <2>2, <2>3, <2>5
<1>4. CASE StopIdle
  <2>1. UNCHANGED <<kind, idOf, outputs, todo, at, joined>> /\ pc = "stop" /\ pc' = "stopping"
    BY <1>4 DEF StopIdle, Stop, vars
  <2>2. \A id \in Ids : byID'[id] = None \/ byID'[id] = byID[id]
    BY <1>4 DEF StopIdle, Stop, Remove, vars, maps, LInv, TypeOK
  <2>3. \A h \in (todo \cup {at}) \ {None} : idOf[h] \in Ids
    BY DEF Listed, LInv, Used
  <2>4. Newer'
    BY <2>1, <2>2, <2>3 DEF Newer, Unwatched
  <2> QED
    BY <2>1, <2>4 DEF FreshIsEmpty, Holds, Seen
<1>5. CASE Stopped \/ Visited \/ Prune
  BY <1>5 DEF Stopped, Visited, Prune, FreshIsEmpty, Holds, Newer, Seen, Unwatched, vars, maps
<1>6. CASE Pruned
  BY <1>6 DEF Pruned, FreshIsEmpty, Holds, Newer, Seen, vars, maps
<1> QED
  BY <1>1, <1>2, <1>3, <1>4, <1>5, <1>6 DEF Cleanup

(* Every step keeps all three invariants. *)
LEMMA NextWInv == LInv /\ Listed /\ WInv /\ [CleanerNext]_allVars => LInv' /\ Listed' /\ WInv'
<1> SUFFICES ASSUME LInv, Listed, WInv, [CleanerNext]_allVars PROVE LInv' /\ Listed' /\ WInv'
  OBVIOUS
<1>1. LInv' /\ Listed'
  BY CleanerStep, NextLInv, NextListed
<1>2. ASSUME UNCHANGED allVars PROVE WInv'
  BY <1>2 DEF allVars, vars, maps, cleanerVars, WInv, FreshIsEmpty, Holds, Newer, Seen, Unwatched
<1>3. CASE Lifecycle
  BY <1>1, <1>3, LifecycleWInv
<1>4. ASSUME NEW i \in Instances, NEW k \in Kinds, Join(i, k) \/ Leave(i, k) PROVE WInv'
  BY <1>4, OutputsWInv
<1>5. CASE Begin \/ Cleanup
  BY <1>1, <1>5, CleanupWInv
<1> QED
  BY <1>1, <1>2, <1>3, <1>4, <1>5 DEF CleanerNext

(* The cleaner removes no channel that somebody watches or relays since before *)
(* the cleanup began, although it looks at listeners, at relays and at the ID  *)
(* in three separate sections (cleaner.go, cleanup; manager.go, Stop).         *)
THEOREM WatchedIsKept == CleanerSpec => WatchedChannelKept
<1>1. CleanerInit => LInv /\ Listed /\ WInv
  BY InitLInv DEF CleanerInit, Listed, WInv, FreshIsEmpty, Holds, Newer, Seen
<1>2. LInv /\ Listed /\ WInv => [Removes => outputs[Removed] = {} \/ Removed \in joined]_allVars
  <2> SUFFICES ASSUME LInv, Listed, WInv, Removes PROVE Unwatched(Removed)
    BY DEF Unwatched
  <2> QED
    BY DEF Removes, Removed, WInv, Newer, Seen, Listed
<1> QED
  BY <1>1, <1>2, NextWInv, PTL DEF CleanerSpec, WatchedChannelKept
=============================================================================
