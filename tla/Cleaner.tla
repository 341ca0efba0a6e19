------------------------------ MODULE Cleaner ------------------------------
(***************************************************************************)
(* The periodic cleanup of internal/channel/cleaner.go, interleaved with   *)
(* everything that starts and stops channels (ChannelLifecycle) and with   *)
(* outputs that come and go.                                               *)
(*                                                                         *)
(* Time is counted in cleanup intervals and sampled when a cleanup begins, *)
(* as the variable now of cleanup is.  An entry of inactive is the time    *)
(* since it was made.                                                      *)
(***************************************************************************)
EXTENDS ChannelLifecycle

CONSTANTS
  CleanerThread,  \* the cleaner's goroutine, one of Callers
  Kinds,          \* the kinds of outputs that come and go
  InactiveLimit   \* in intervals

ASSUME CleanerAssumption ==
  /\ CleanerThread \in Callers
  /\ Kinds \subseteq {"listener", "relay"}
  /\ InactiveLimit \in Nat \ {0}

VARIABLES
  outputs,   \* which kinds of outputs each channel has
  pc,        \* where cleanup is
  todo,      \* channels of List that are still to be visited
  at,        \* the channel that is visited
  prune,     \* IDs that are still to be looked up after the visits
  inactive,  \* Cleaner.inactive; Untracked if there is no entry
  joined     \* history: channels that got an output since the cleanup began

cleanerVars == <<pc, todo, at, prune, inactive>>
allVars == <<vars, outputs, cleanerVars, joined>>

Untracked == -1
Cap == InactiveLimit + 1          \* longer is the same
Later(n) == IF n < Cap THEN n + 1 ELSE n

CleanerInit ==
  /\ Init
  /\ outputs = [i \in Instances |-> {}]
  /\ pc = "idle" /\ todo = {} /\ at = None /\ prune = {}
  /\ inactive = [id \in Ids |-> Untracked]
  /\ joined = {}

-----------------------------------------------------------------------------
(* An output is added to a registered channel.  Those of broadcasts are left   *)
(* out, as the cleaner looks at relays only.                                   *)
Join(i, k) ==
  /\ kind[i] = "relay" /\ byID[idOf[i]] = i /\ k \notin outputs[i]
  /\ outputs' = [outputs EXCEPT ![i] = @ \cup {k}]
  /\ joined' = IF pc = "idle" THEN {} ELSE joined \cup {i}
  /\ UNCHANGED <<vars, cleanerVars>>

Leave(i, k) ==
  /\ k \in outputs[i]
  /\ outputs' = [outputs EXCEPT ![i] = @ \ {k}]
  /\ UNCHANGED <<vars, cleanerVars, joined>>

(* CloseAll, which RunEnds and the last step of a stop call, removes the      *)
(* outputs.  joined is kept in step with the channel objects.                 *)
Follow ==
  /\ outputs' = [i \in Instances |->
                   IF \/ run[i] = "running" /\ run'[i] = "closed"
                      \/ \E t \in Threads : i \in thread[t].chans \ thread'[t].chans
                   THEN {} ELSE outputs[i]]
  /\ joined' = {i \in joined : kind'[i] # "free"}
  /\ UNCHANGED cleanerVars

(* What other goroutines do with the channels.  A channel that the cleaner    *)
(* has listed or that has outputs is kept alive.                              *)
Lifecycle ==
  /\ \/ Starts
     \/ \E t \in Callers \ {CleanerThread} : StopAll(t) \/ \E id \in Ids : Stop(t, id)
     \/ \E t \in Threads : Stopping(t)
     \/ \E i \in Instances : RunExit(i) \/ (Collect(i) /\ i \notin todo \cup {at} /\ outputs[i] = {})
  /\ Follow

-----------------------------------------------------------------------------
(* The ticker fires: now is read and the channels are listed. *)
Begin ==
  /\ pc = "idle"
  /\ pc' = "visit"
  /\ todo' = {byID[id] : id \in Ids} \ {None}
  /\ inactive' = [id \in Ids |-> IF inactive[id] = Untracked THEN Untracked ELSE Later(inactive[id])]
  /\ UNCHANGED <<vars, outputs, at, prune, joined>>

(* The entry of the ID is deleted, or made for the channel that is visited. *)
Delete(id) == inactive' = [inactive EXCEPT ![id] = Untracked]
Track(id) == inactive' = [inactive EXCEPT ![id] = 0]

(* The next channel: a broadcast is passed over, one with listeners is not idle. *)
Visit ==
  /\ pc = "visit"
  /\ \E i \in todo :
       /\ todo' = todo \ {i}
       /\ IF kind[i] = "relay" /\ "listener" \notin outputs[i]
          THEN pc' = "relays" /\ at' = i /\ UNCHANGED inactive
          ELSE /\ IF kind[i] = "relay" THEN Delete(idOf[i]) ELSE UNCHANGED inactive
               /\ UNCHANGED <<pc, at>>
  /\ UNCHANGED <<vars, outputs, prune, joined>>

(* NumRelays() = 0 *)
Idle_Listeners == "listener" \notin outputs[at]
Idle == "relay" \notin outputs[at]

UpdateEntry_Retrack(id) == IF Idle THEN Track(id) ELSE Delete(id)

UpdateEntry(id) ==
  IF ~Idle THEN Delete(id)
  ELSE IF inactive[id] = Untracked THEN Track(id) ELSE UNCHANGED inactive

(* An idle channel gets an entry, or is removed if its entry is old enough. *)
CheckRelays ==
  /\ pc = "relays"
  /\ UpdateEntry(idOf[at])
  /\ pc' = IF Idle /\ inactive[idOf[at]] > InactiveLimit THEN "stop" ELSE "visit"
  /\ at' = IF pc' = "stop" THEN at ELSE None
  /\ UNCHANGED <<vars, outputs, todo, prune, joined>>

(* Manager.Stop for the ID, *)
StopIdle ==
  /\ pc = "stop" /\ thread[CleanerThread] = Resting
  /\ pc' = "stopping"
  /\ IF byID[idOf[at]] = None THEN UNCHANGED vars ELSE Stop(CleanerThread, idOf[at])
  /\ UNCHANGED <<outputs, todo, at, prune, inactive, joined>>

(* and, when it has returned, the entry is deleted. *)
Stopped ==
  /\ pc = "stopping" /\ thread[CleanerThread] = Resting
  /\ Delete(idOf[at])
  /\ at' = None
  /\ pc' = "visit"
  /\ UNCHANGED <<vars, outputs, todo, prune, joined>>

(* Entries of channels that no longer exist are removed, one by one. *)
Visited ==
  /\ pc = "visit" /\ todo = {}
  /\ prune' = {id \in Ids : inactive[id] # Untracked}
  /\ pc' = "prune"
  /\ UNCHANGED <<vars, outputs, todo, at, inactive, joined>>

Prune ==
  /\ pc = "prune"
  /\ \E id \in prune :
       /\ prune' = prune \ {id}
       /\ IF byID[id] = None THEN Delete(id) ELSE UNCHANGED inactive
  /\ UNCHANGED <<vars, outputs, pc, todo, at, joined>>

Pruned ==
  /\ pc = "prune" /\ prune = {}
  /\ pc' = "idle"
  /\ joined' = {}
  /\ UNCHANGED <<vars, outputs, todo, at, prune, inactive>>

Cleanup == Visit \/ CheckRelays \/ StopIdle \/ Stopped \/ Visited \/ Prune \/ Pruned

CleanerNext ==
  \/ Lifecycle
  \/ \E i \in Instances, k \in Kinds : Join(i, k) \/ Leave(i, k)
  \/ Begin \/ Cleanup

CleanerSpec == CleanerInit /\ [][CleanerNext]_allVars

(* Goroutines run; a cancelled relay leaves its loop, because its connection   *)
(* is closed, but one that is not cancelled may stay connected for ever.  The  *)
(* ticker fires, and the cleaner runs.                                         *)
CleanerFairness ==
  /\ \A t \in Threads : WF_allVars(Stopping(t) /\ Follow)
  /\ \A i \in Instances :
       /\ WF_allVars(i \in cancelled /\ RunEnds(i) /\ Follow)
       /\ WF_allVars((CloseDoneCh(i) \/ OnStopped(i) \/ RunReturns(i)) /\ Follow)
  /\ WF_allVars(Begin) /\ WF_allVars(Cleanup)

FairCleanerSpec == CleanerSpec /\ CleanerFairness

-----------------------------------------------------------------------------
(* Every variable of the manager and of the cleaner has its type. *)
CleanerTypeOK ==
  /\ TypeOK
  /\ outputs \in [Instances -> SUBSET Kinds]
  /\ pc \in {"idle", "visit", "relays", "stop", "stopping", "prune"}
  /\ todo \subseteq Instances
  /\ at \in Instances \cup {None}
  /\ prune \subseteq Ids
  /\ inactive \in [Ids -> {Untracked} \cup 0 .. Cap]
  /\ joined \subseteq Instances

(* The step in which the cleaner removes a channel, and that channel. *)
Removes == pc = "stop" /\ pc' = "stopping" /\ byID[idOf[at]] # None
Removed == byID[idOf[at]]

(* A channel that somebody watches or relays since before the cleanup began   *)
(* is not removed, whatever is stopped and started under its ID meanwhile.    *)
WatchedChannelKept == [][Removes => outputs[Removed] = {} \/ Removed \in joined]_allVars

(* A relay channel that stays idle does not stay for ever. *)
IdleRemoved ==
  \A i \in Instances : []<>~(kind[i] = "relay" /\ byID[idOf[i]] = i /\ outputs[i] = {})
=============================================================================
