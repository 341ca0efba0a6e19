-------------------------- MODULE ChannelLifecycle --------------------------
(***************************************************************************)
(* Starting and stopping channels: the maps of internal/channel/manager.go *)
(* and the exit of the relay client's Run (internal/relay/client.go).      *)
(*                                                                         *)
(* Manager.mu protects the maps only.  A stop removes the channel under    *)
(* the lock, then cancels the relay and waits for its doneCh, then closes  *)
(* the outputs; a relay that gives up closes its outputs, closes doneCh    *)
(* and then calls Manager.Stop with its channel ID.                        *)
(*                                                                         *)
(* A channel object and its relay client are one instance; an instance     *)
(* that nothing refers to any more is used again.                          *)
(***************************************************************************)
EXTENDS Integers, FiniteSets

CONSTANTS
  Instances,         \* channel objects
  Ids,               \* channel IDs
  Keys,              \* issued stream keys
  Callers,           \* goroutines that stop channels: API, RTMP sessions, main
  IdsOfKey,          \* [Keys -> SUBSET Ids]: channelIDForBroadcast for the key
  MaxRelayChannels,  \* 0 = unlimited
  None

ASSUME LifecycleAssumption ==
  /\ None \notin Instances \cup Keys \cup Ids
  /\ Callers \cap Instances = {}
  /\ IdsOfKey \in [Keys -> SUBSET Ids]
  /\ \A k, l \in Keys : k # l => IdsOfKey[k] \cap IdsOfKey[l] = {}
  /\ MaxRelayChannels \in Nat

VARIABLES
  byID, byStreamKey, streamKeyByID,
  relays,      \* Manager.relays
  kind,        \* what an instance is
  idOf,        \* Channel.ID
  run,         \* where the relay's Run is
  cancelled,   \* relays whose context is cancelled
  thread       \* what each goroutine has taken out of the maps and still has to stop

maps == <<byID, byStreamKey, streamKeyByID, relays>>
vars == <<maps, kind, idOf, run, cancelled, thread>>

Threads == Callers \cup Instances
Resting == [relays |-> {}, waitFor |-> None, chans |-> {}]

Init ==
  /\ byID = [id \in Ids |-> None]
  /\ byStreamKey = [k \in Keys |-> None]
  /\ streamKeyByID = [id \in Ids |-> None]
  /\ relays = [id \in Ids |-> None]
  /\ kind = [i \in Instances |-> "free"]
  /\ idOf = [i \in Instances |-> None]
  /\ run = [i \in Instances |-> "none"]
  /\ cancelled = {}
  /\ thread = [t \in Threads |-> Resting]

(* BroadcastWithAudit: refused only if the key has an active channel. *)
Broadcast(i, k, id) ==
  /\ kind[i] = "free" /\ id \in IdsOfKey[k]
  /\ byStreamKey[k] = None
  /\ kind' = [kind EXCEPT ![i] = "broadcast"]
  /\ idOf' = [idOf EXCEPT ![i] = id]
  /\ byID' = [byID EXCEPT ![id] = i]
  /\ byStreamKey' = [byStreamKey EXCEPT ![k] = i]
  /\ streamKeyByID' = [streamKeyByID EXCEPT ![id] = k]
  /\ UNCHANGED <<relays, run, cancelled, thread>>

(* StartRelay: an active channel with the ID is used as it is. *)
StartRelay(i, id) ==
  /\ kind[i] = "free" /\ byID[id] = None
  /\ MaxRelayChannels = 0 \/ Cardinality({j \in Ids : relays[j] # None}) < MaxRelayChannels
  /\ kind' = [kind EXCEPT ![i] = "relay"]
  /\ idOf' = [idOf EXCEPT ![i] = id]
  /\ byID' = [byID EXCEPT ![id] = i]
  /\ relays' = [relays EXCEPT ![id] = i]
  /\ run' = [run EXCEPT ![i] = "running"]
  /\ UNCHANGED <<byStreamKey, streamKeyByID, cancelled, thread>>

-----------------------------------------------------------------------------
(* The section of stopInstance that removes the channel with the given ID from *)
(* every map; the goroutine t keeps the channel and the relay.                 *)
Remove_KeepRelay(t, id) ==
  LET key == streamKeyByID[id] IN
  /\ byStreamKey' = [k \in Keys |-> IF k = key THEN None ELSE byStreamKey[k]]
  /\ byID' = [byID EXCEPT ![id] = None]
  /\ streamKeyByID' = [streamKeyByID EXCEPT ![id] = None]
  /\ relays' = [relays EXCEPT ![id] = None]
  /\ thread' = [thread EXCEPT ![t] = [relays |-> {}, waitFor |-> None, chans |-> {byID[id]}]]

Remove_KeepKey(t, id) ==
  /\ byID' = [byID EXCEPT ![id] = None]
  /\ streamKeyByID' = [streamKeyByID EXCEPT ![id] = None]
  /\ relays' = [relays EXCEPT ![id] = None]
  /\ thread' = [thread EXCEPT ![t] = [relays |-> {relays[id]} \ {None}, waitFor |-> None,
                                      chans |-> {byID[id]}]]
  /\ UNCHANGED byStreamKey

Remove(t, id) ==
  LET key == streamKeyByID[id] IN
  /\ byStreamKey' = [k \in Keys |-> IF k = key THEN None ELSE byStreamKey[k]]
  /\ byID' = [byID EXCEPT ![id] = None]
  /\ streamKeyByID' = [streamKeyByID EXCEPT ![id] = None]
  /\ relays' = [relays EXCEPT ![id] = None]
  /\ thread' = [thread EXCEPT ![t] = [relays |-> {relays[id]} \ {None}, waitFor |-> None,
                                      chans |-> {byID[id]}]]

(* Stop; and StopInstance for the channel that is registered, since for any   *)
(* other it does nothing.                                                     *)
Stop(t, id) ==
  /\ thread[t] = Resting /\ byID[id] # None
  /\ Remove(t, id)
  /\ UNCHANGED <<kind, idOf, run, cancelled>>

(* StopAll empties the maps. *)
StopAll(t) ==
  /\ thread[t] = Resting /\ \E id \in Ids : byID[id] # None
  /\ thread' = [thread EXCEPT ![t] = [relays |-> {relays[id] : id \in Ids} \ {None}, waitFor |-> None,
                                      chans |-> {byID[id] : id \in Ids} \ {None}]]
  /\ byID' = [id \in Ids |-> None]
  /\ byStreamKey' = [k \in Keys |-> None]
  /\ streamKeyByID' = [id \in Ids |-> None]
  /\ relays' = [id \in Ids |-> None]
  /\ UNCHANGED <<kind, idOf, run, cancelled>>

(* relay.Stop cancels the context, *)
Cancel(t) ==
  /\ thread[t].waitFor = None
  /\ \E r \in thread[t].relays :
       /\ cancelled' = cancelled \cup {r}
       /\ thread' = [thread EXCEPT ![t].relays = @ \ {r}, ![t].waitFor = r]
  /\ UNCHANGED <<maps, kind, idOf, run>>

(* and waits for doneCh. *)
Done(t) ==
  /\ thread[t].waitFor # None
  /\ run[thread[t].waitFor] \in {"done", "stopping", "stopped"}
  /\ thread' = [thread EXCEPT ![t].waitFor = None]
  /\ UNCHANGED <<maps, kind, idOf, run, cancelled>>

(* CloseAll of the channels, and the call returns. *)
CloseAll(t) ==
  /\ thread[t].chans # {} /\ thread[t].relays = {} /\ thread[t].waitFor = None
  /\ thread' = [thread EXCEPT ![t] = Resting]
  /\ UNCHANGED <<maps, kind, idOf, run, cancelled>>

-----------------------------------------------------------------------------
(* Run leaves its loop (cancelled, no host left, off air) and its deferred   *)
(* functions run: CloseAll,                                                  *)
RunEnds(i) ==
  /\ run[i] = "running"
  /\ run' = [run EXCEPT ![i] = "closed"]
  /\ UNCHANGED <<maps, kind, idOf, cancelled, thread>>

(* close(doneCh), *)
CloseDoneCh(i) ==
  /\ run[i] = "closed" /\ thread[i] = Resting
  /\ run' = [run EXCEPT ![i] = "done"]
  /\ UNCHANGED <<maps, kind, idOf, cancelled, thread>>

OnStopped_BeforeDone(i) ==
  /\ run[i] = "closed" /\ thread[i] = Resting
  /\ IF byID[idOf[i]] = None
     THEN run' = [run EXCEPT ![i] = "stopped"] /\ UNCHANGED <<maps, thread>>
     ELSE /\ Remove(i, idOf[i])
          /\ run' = run
  /\ UNCHANGED <<kind, idOf, cancelled>>

OnStopped_Unset(i) ==
  /\ run[i] = "done"
  /\ run' = [run EXCEPT ![i] = "stopped"]
  /\ UNCHANGED <<maps, thread, kind, idOf, cancelled>>

(* and onStopped: Manager.Stop for whatever channel has the ID now. *)
OnStopped(i) ==
  /\ run[i] = "done"
  /\ IF byID[idOf[i]] = None
     THEN run' = [run EXCEPT ![i] = "stopped"] /\ UNCHANGED <<maps, thread>>
     ELSE /\ Remove(i, idOf[i])
          /\ run' = [run EXCEPT ![i] = "stopping"]
  /\ UNCHANGED <<kind, idOf, cancelled>>

(* The relay's goroutine ends when its Stop has returned. *)
RunReturns(i) ==
  /\ run[i] = "stopping" /\ thread[i] = Resting
  /\ run' = [run EXCEPT ![i] = "stopped"]
  /\ UNCHANGED <<maps, kind, idOf, cancelled, thread>>

(* Something still refers to instance i. *)
InHand(i) == \E t \in Threads : i \in thread[t].chans \cup thread[t].relays \cup {thread[t].waitFor}
InMaps(i) == byID[idOf[i]] = i \/ relays[idOf[i]] = i

(* The garbage collector takes an instance nothing refers to. *)
Collect(i) ==
  /\ kind[i] # "free" /\ ~InMaps(i) /\ ~InHand(i)
  /\ run[i] \in {"none", "stopped"}
  /\ kind' = [kind EXCEPT ![i] = "free"]
  /\ idOf' = [idOf EXCEPT ![i] = None]
  /\ run' = [run EXCEPT ![i] = "none"]
  /\ cancelled' = cancelled \ {i}
  /\ UNCHANGED <<maps, thread>>

Stopping(t) == Cancel(t) \/ Done(t) \/ CloseAll(t)
RunExit(i) == RunEnds(i) \/ CloseDoneCh(i) \/ OnStopped(i) \/ RunReturns(i)

Starts ==
  \/ \E i \in Instances, k \in Keys, id \in Ids : Broadcast(i, k, id)
  \/ \E i \in Instances, id \in Ids : StartRelay(i, id)

Next ==
  \/ Starts
  \/ \E t \in Callers : StopAll(t) \/ \E id \in Ids : Stop(t, id)
  \/ \E t \in Threads : Stopping(t)
  \/ \E i \in Instances : RunExit(i) \/ Collect(i)

Spec == Init /\ [][Next]_vars

-----------------------------------------------------------------------------
OptInstance == Instances \cup {None}

(* Every variable of the manager and of its goroutines has its type. *)
TypeOK ==
  /\ byID \in [Ids -> OptInstance]
  /\ byStreamKey \in [Keys -> OptInstance]
  /\ streamKeyByID \in [Ids -> Keys \cup {None}]
  /\ relays \in [Ids -> OptInstance]
  /\ kind \in [Instances -> {"free", "broadcast", "relay"}]
  /\ idOf \in [Instances -> Ids \cup {None}]
  /\ run \in [Instances -> {"none", "running", "closed", "done", "stopping", "stopped"}]
  /\ cancelled \subseteq Instances
  /\ thread \in [Threads -> [relays : SUBSET Instances, waitFor : OptInstance,
                             chans : SUBSET Instances]]

(* A stream key leads to a channel exactly if that channel is registered      *)
(* under its ID with that key: an encoder never feeds a channel that has been *)
(* removed, and no channel is listed that its key cannot find.                *)
KeyMapsAgree ==
  \A k \in Keys :
    /\ byStreamKey[k] # None =>
         LET id == idOf[byStreamKey[k]] IN byID[id] = byStreamKey[k] /\ streamKeyByID[id] = k
    /\ \A id \in Ids : streamKeyByID[id] = k => byID[id] # None /\ byStreamKey[k] = byID[id]

(* No goroutine is lost: a relay that runs is in the maps or is being         *)
(* stopped, even when a broadcast has taken its ID, so that stopping all      *)
(* channels ends it.                                                          *)
NoLostRelay ==
  \A i \in Instances : run[i] = "running" => relays[idOf[i]] = i \/ i \in cancelled \/ InHand(i)

(* Every call of Stop returns, also the one that the relay makes itself       *)
(* ("onStopped must run LAST (after doneCh is closed) so that a callback      *)
(* calling back into Manager.Stop does not deadlock", client.go), and         *)
(* whatever two callers stop at the same time.                                *)
StopReturns == \A t \in Threads : []<>(thread[t] = Resting)

(* When a relay has ended its channel does not stay registered, so the next   *)
(* viewer starts a fresh relay.                                               *)
DeadChannelRemoved ==
  \A i \in Instances : []<>~(run[i] \notin {"none", "running"} /\ byID[idOf[i]] = i)
=============================================================================
