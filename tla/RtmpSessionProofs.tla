------------------------- MODULE RtmpSessionProofs -------------------------
(***************************************************************************)
(* Proofs about RtmpSession, for any number of encoders and channels.      *)
(***************************************************************************)
EXTENDS RtmpSession, TLAPS

Places == {"connected", "idle", "rebuild", "head", "find", "header",
           "deferred", "write", "stop", "stopping", "closed"}
Run == [committed : BOOLEAN, closed : BOOLEAN, inputs : SUBSET Sessions, late : BOOLEAN]
Writing == {"header", "deferred", "write"}

(* The types that the arguments below need: channels are numbered in order,    *)
(* so that no number is used twice.                                            *)
Typed ==
  /\ channels \in 0 .. MaxChannels
  /\ current \in (1 .. channels) \cup {None}
  /\ setup \in (1 .. channels) \cup {None}
  /\ ending \in SUBSET (1 .. channels)
  /\ pc \in [Sessions -> Places]
  /\ target \in [Sessions -> (1 .. channels) \cup {None}]
  /\ inputChannel \in [Sessions -> (1 .. channels) \cup {None}]
  /\ metaFor \in [Sessions -> (1 .. channels) \cup {None}]
  /\ runs \in [Channels -> Run]

(* A handler with an open input knows its channel; between Find and Write it   *)
(* has none but in the channel that it writes to.                              *)
Inputs ==
  /\ \A s \in Sessions : pc[s] \in Writing =>
       target[s] # None /\ inputChannel[s] \in {None, target[s]}
  /\ \A c \in Channels, s \in Sessions : s \in runs[c].inputs =>
       inputChannel[s] = c /\ pc[s] \notin {"stop", "stopping", "closed"}
  /\ \A c \in Channels : ~runs[c].late /\ (runs[c].closed => runs[c].inputs = {})

(* A handler that stops a channel stops the one it fed last, if it fed any.    *)
Stopped ==
  \A s \in Sessions :
    /\ pc[s] = "connected" => inputChannel[s] = None
    /\ pc[s] = "stopping" => target[s] # None /\ inputChannel[s] \in {None, target[s]}
    /\ pc[s] = "closed" /\ inputChannel[s] # None => current # inputChannel[s]

SInv == Typed /\ Inputs /\ Stopped

-----------------------------------------------------------------------------
(* What a run must be at any time, and what a call may make of it. *)
Sound(r) == r \in Run /\ ~r.late /\ (r.closed => r.inputs = {})
ClosesTo(r, q) == Sound(q) /\ q.inputs \subseteq r.inputs

(* The calls keep a run sound, and only Media opens an input. *)
LEMMA RunOps ==
  ASSUME NEW r, Sound(r)
  PROVE  ClosesTo(r, Commit(r)) /\ ClosesTo(r, Metadata(r)) /\ ClosesTo(r, EndRun(r))
  BY DEF Run, Commit, Metadata, EndRun, Sent, Sound, ClosesTo

(* Media opens at most the input of its handler, EndInput closes it. *)
LEMMA InputOps ==
  ASSUME NEW r, Sound(r), NEW s \in Sessions
  PROVE  /\ Sound(Media(r, s)) /\ Media(r, s).inputs \subseteq r.inputs \cup {s}
         /\ ClosesTo(r, EndInput(r, s)) /\ s \notin EndInput(r, s).inputs
  BY DEF Run, Media, EndInput, Sent, Sound, ClosesTo

(* No input is opened, no ended run speaks. *)
RunsClose ==
  /\ runs' \in [Channels -> Run]
  /\ \A c \in Channels :
       /\ runs'[c].inputs \subseteq runs[c].inputs /\ ~runs'[c].late
       /\ runs'[c].closed => runs'[c].inputs = {}

(* A step that leaves the runs alone closes nothing and opens nothing. *)
LEMMA UnchangedRuns == Typed /\ Inputs /\ UNCHANGED runs => RunsClose
  BY DEF Typed, Inputs, RunsClose

(* Every run is sound. *)
LEMMA SoundRuns == Typed /\ Inputs => \A c \in Channels : Sound(runs[c])
  BY DEF Typed, Inputs, Sound

(* One run is replaced by what a call makes of it. *)
LEMMA UpdatedRun ==
  ASSUME Typed, Inputs, NEW c \in Channels, NEW q, ClosesTo(runs[c], q),
         runs' = [runs EXCEPT ![c] = q]
  PROVE  RunsClose
  BY DEF Typed, Inputs, RunsClose, ClosesTo, Sound

(* applyMetaInfo finds the current channel or none, *)
LEMMA MetaFound ==
  ASSUME Typed, NEW s \in Sessions, NEW meta, applyMetaInfo(s, meta)
  PROVE  metaFor' \in [Sessions -> (1 .. channels) \cup {None}]
  BY DEF Typed, applyMetaInfo

(* and SetInfo opens no input. *)
LEMMA SetInfoStep ==
  ASSUME SInv, NEW s \in Sessions, SetInfo(s)
  PROVE  SInv'
<1>1. metaFor[s] \in Channels
  BY SessionAssumption DEF SInv, Typed, SetInfo, Channels
<1>2. RunsClose
  <2>1. ClosesTo(runs[metaFor[s]], Metadata(runs[metaFor[s]]))
    BY <1>1, SoundRuns, RunOps DEF SInv
  <2> QED
    BY <1>1, <2>1, UpdatedRun DEF SInv, SetInfo
<1>3. Typed'
  BY <1>2 DEF SInv, Typed, RunsClose, SetInfo, manager
<1>4. Inputs' /\ Stopped'
  BY <1>2 DEF SInv, Inputs, Stopped, RunsClose, SetInfo, manager
<1> QED
  BY <1>3, <1>4 DEF SInv

(* A handler ends its input. *)
LEMMA EndedInput ==
  ASSUME Typed, Inputs, NEW c \in Channels, NEW s \in Sessions,
         runs' = [runs EXCEPT ![c] = EndInput(@, s)]
  PROVE  RunsClose /\ s \notin runs'[c].inputs
<1>1. ClosesTo(runs[c], EndInput(runs[c], s)) /\ s \notin EndInput(runs[c], s).inputs
  BY SoundRuns, InputOps
<1>2. RunsClose
  BY <1>1, UpdatedRun
<1> QED
  BY <1>1, <1>2 DEF Typed

(* A handler's step that neither opens an input nor moves between channels. *)
LEMMA QuietStep ==
  ASSUME SInv, RunsClose, NEW s \in Sessions, NEW at \in Places,
         pc' = [pc EXCEPT ![s] = at], pc[s] \notin {"stopping", "closed", "stop"},
         at \in {"idle", "rebuild", "head", "find"} \/ (at \in Writing /\ pc[s] \in Writing),
         UNCHANGED <<manager, target, inputChannel>>,
         metaFor' \in [Sessions -> (1 .. channels) \cup {None}]
  PROVE  SInv'
<1>1. Typed'
  BY DEF SInv, Typed, RunsClose, manager
<1>2. Inputs'
  BY DEF SInv, Typed, Inputs, RunsClose, manager, Writing
<1>3. Stopped'
  BY DEF SInv, Typed, Stopped, manager, Writing
<1> QED
  BY <1>1, <1>2, <1>3 DEF SInv

-----------------------------------------------------------------------------
(* The steps of the manager and of those who stop channels. *)
LEMMA ManagerStep ==
  ASSUME SInv,
         \/ \E b \in BOOLEAN : Broadcast(b) \/ SetupDone(b)
         \/ Stop
         \/ \E c \in Channels : End(c)
  PROVE  SInv'
<1>1. ASSUME NEW b \in BOOLEAN, Broadcast(b) PROVE SInv'
  <2>1. /\ channels + 1 \in Channels /\ channels' = channels + 1 /\ channels' \in 0 .. MaxChannels
        /\ 1 .. channels \subseteq 1 .. channels'
    BY <1>1, SessionAssumption DEF Broadcast, SInv, Typed, Channels
  <2>2. RunsClose
    <3>1. CASE b
      BY <1>1, <3>1, UnchangedRuns DEF Broadcast, SInv
    <3>2. CASE ~b
      <4>1. ClosesTo(runs[channels + 1], Commit(runs[channels + 1]))
        BY <2>1, SoundRuns, RunOps DEF SInv
      <4> QED
        BY <1>1, <3>2, <2>1, <4>1, UpdatedRun DEF Broadcast, SInv
    <3> QED
      BY <3>1, <3>2
  <2>3. current' = channels + 1 /\ setup' \in {channels + 1, None}
    BY <1>1 DEF Broadcast
  <2>4. Typed'
    BY <1>1, <2>1, <2>2, <2>3 DEF Broadcast, SInv, Typed, RunsClose, applied
  <2>5. Inputs'
    BY <1>1, <2>2 DEF Broadcast, SInv, Inputs, RunsClose, applied
  <2>6. Stopped'
    BY <1>1, <2>1, <2>3, SessionAssumption DEF Broadcast, SInv, Typed, Stopped, applied
  <2> QED
    BY <2>4, <2>5, <2>6 DEF SInv
<1>2. ASSUME NEW b \in BOOLEAN, SetupDone(b) PROVE SInv'
  <2>1. setup \in Channels
    BY <1>2, SessionAssumption DEF SetupDone, SInv, Typed, Channels
  <2>2. RunsClose
    <3>1. CASE b
      <4>1. ClosesTo(runs[setup], Commit(runs[setup]))
        BY <2>1, SoundRuns, RunOps DEF SInv
      <4> QED
        BY <1>2, <3>1, <2>1, <4>1, UpdatedRun DEF SetupDone, SInv
    <3>2. CASE ~b
      BY <1>2, <3>2, UnchangedRuns DEF SetupDone, SInv
    <3> QED
      BY <3>1, <3>2
  <2>3. current' \in {current, None} /\ ending' \in SUBSET (1 .. channels)
    BY <1>2 DEF SetupDone, Unmap, SInv, Typed
  <2>4. Typed'
    BY <1>2, <2>2, <2>3 DEF SetupDone, SInv, Typed, RunsClose, applied
  <2>5. Inputs'
    BY <1>2, <2>2 DEF SetupDone, SInv, Inputs, RunsClose, applied
  <2>6. Stopped'
    BY <1>2, <2>3 DEF SetupDone, SInv, Stopped, applied
  <2> QED
    BY <2>4, <2>5, <2>6 DEF SInv
<1>3. CASE Stop
  <2>1. Typed'
    BY <1>3 DEF Stop, Unmap, SInv, Typed, applied
  <2>2. Inputs' /\ Stopped'
    BY <1>3 DEF Stop, Unmap, SInv, Inputs, Stopped, applied
  <2> QED
    BY <2>1, <2>2 DEF SInv
<1>4. ASSUME NEW c \in Channels, End(c) PROVE SInv'
  <2>1. RunsClose
    <3>1. ClosesTo(runs[c], EndRun(runs[c]))
      BY SoundRuns, RunOps DEF SInv
    <3> QED
      BY <1>4, <3>1, UpdatedRun DEF End, SInv
  <2>2. Typed'
    BY <1>4, <2>1 DEF End, SInv, Typed, RunsClose, applied
  <2>3. Inputs' /\ Stopped'
    BY <1>4, <2>1 DEF End, SInv, Inputs, Stopped, RunsClose, applied
  <2> QED
    BY <2>2, <2>3 DEF SInv
<1> QED
  BY <1>1, <1>2, <1>3, <1>4

-----------------------------------------------------------------------------
(* The steps of a handler. *)
LEMMA HandlerStep ==
  ASSUME SInv, NEW s \in Sessions, Callback(s)
  PROVE  SInv'
<1> USE DEF Goto
<1>t. Typed /\ Inputs /\ Stopped
  BY DEF SInv
<1>f. metaFor \in [Sessions -> (1 .. channels) \cup {None}]
  BY <1>t DEF Typed
<1>n. None \notin Channels
  BY SessionAssumption DEF Channels
<1>1. CASE OnPublish(s)
  <2>1. RunsClose
    BY <1>1, <1>t, UnchangedRuns DEF OnPublish
  <2> QED
    BY <1>1, <1>f, <2>1, QuietStep DEF OnPublish, Places, applied
<1>2. CASE OnSetDataFrame(s)
  <2>1. RunsClose
    BY <1>2, <1>t, UnchangedRuns DEF OnSetDataFrame
  <2>2. metaFor' \in [Sessions -> (1 .. channels) \cup {None}]
    BY <1>2, <1>t, MetaFound DEF OnSetDataFrame
  <2> QED
    BY <1>2, <2>1, <2>2, QuietStep DEF OnSetDataFrame, Places
<1>3. CASE OnSequenceHeader(s)
  <2>1. RunsClose
    BY <1>3, <1>t, UnchangedRuns DEF OnSequenceHeader
  <2> QED
    BY <1>3, <1>f, <2>1, QuietStep DEF OnSequenceHeader, Places, applied
<1>4. CASE OnFrame(s)
  <2>1. RunsClose
    BY <1>4, <1>t, UnchangedRuns DEF OnFrame
  <2>2. metaFor' \in [Sessions -> (1 .. channels) \cup {None}]
    BY <1>4, <1>t, MetaFound DEF OnFrame
  <2> QED
    BY <1>4, <2>1, <2>2, QuietStep DEF OnFrame, Places
<1>5. CASE RebuildMeta(s)
  <2>1. RunsClose
    BY <1>5, <1>t, UnchangedRuns DEF RebuildMeta
  <2>2. metaFor' \in [Sessions -> (1 .. channels) \cup {None}]
    BY <1>5, <1>t, MetaFound DEF RebuildMeta
  <2> QED
    BY <1>5, <2>1, <2>2, QuietStep DEF RebuildMeta, Places
<1>6. CASE Rebuild(s)
  <2>1. RunsClose
    BY <1>6, <1>t, UnchangedRuns DEF Rebuild
  <2> QED
    BY <1>6, <1>f, <2>1, QuietStep DEF Rebuild, Places, Writing
<1>7. CASE WriteHeader(s)
  <2>1. RunsClose
    BY <1>7, <1>t, UnchangedRuns DEF WriteHeader
  <2>2. metaFor' \in [Sessions -> (1 .. channels) \cup {None}]
    BY <1>7, <1>t, <1>f, MetaFound DEF WriteHeader
  <2> QED
    BY <1>7, <2>1, <2>2, QuietStep DEF WriteHeader, Places, Writing
<1>8. CASE Find(s)
  <2>1. inputChannel[s] # None => inputChannel[s] \in Channels
    BY <1>t, SessionAssumption DEF Typed, Channels
  <2>2. RunsClose
    <3>1. CASE inputChannel[s] \in {None, current}
      BY <1>8, <3>1, <1>t, UnchangedRuns DEF Find
    <3>2. CASE inputChannel[s] \notin {None, current}
      BY <1>8, <3>2, <2>1, <1>t, EndedInput DEF Find
    <3> QED
      BY <3>1, <3>2
  <2>3. inputChannel[s] \notin {None, current} => s \notin runs'[inputChannel[s]].inputs
    BY <1>8, <2>1, <1>t, EndedInput DEF Find
  <2>4. Typed'
    BY <1>8, <2>2, <1>t DEF Find, Typed, RunsClose, manager, Places
  <2>5. Inputs'
    BY <1>8, <2>2, <2>3, <1>t DEF Find, Typed, Inputs, RunsClose, Writing, manager
  <2>6. Stopped'
    BY <1>8, <1>t DEF Find, Typed, Stopped, manager
  <2> QED
    BY <2>4, <2>5, <2>6 DEF SInv
<1>9. CASE Write(s)
  <2>1. target[s] \in Channels /\ inputChannel[s] \in {None, target[s]}
    BY <1>9, <1>t, SessionAssumption DEF Write, Typed, Inputs, Writing, Channels
  <2>2. /\ runs' \in [Channels -> Run]
        /\ \A c \in Channels :
             /\ runs'[c].inputs \subseteq runs[c].inputs \cup (IF c = target[s] THEN {s} ELSE {})
             /\ ~runs'[c].late /\ (runs'[c].closed => runs'[c].inputs = {})
    <3>1. CASE UNCHANGED runs
      BY <3>1, <1>t DEF Typed, Inputs
    <3>2. CASE runs' = [runs EXCEPT ![target[s]] = Media(@, s)]
      <4>1. /\ Sound(Media(runs[target[s]], s))
            /\ Media(runs[target[s]], s).inputs \subseteq runs[target[s]].inputs \cup {s}
        BY <2>1, <1>t, SoundRuns, InputOps
      <4> QED
        BY <3>2, <4>1, <2>1, <1>t DEF Typed, Inputs, Sound
    <3> QED
      BY <1>9, <3>1, <3>2 DEF Write
  <2>3. Typed'
    BY <1>9, <2>1, <2>2, <1>t DEF Write, Typed, manager, Places
  <2>4. Inputs'
    BY <1>9, <2>1, <2>2, <1>t, <1>n DEF Write, Typed, Inputs, Writing, manager
  <2>5. Stopped'
    BY <1>9, <1>t DEF Write, Typed, Stopped, manager
  <2> QED
    BY <2>3, <2>4, <2>5 DEF SInv
<1>10. CASE OnClose(s)
  <2>1. inputChannel[s] # None => inputChannel[s] \in Channels
    BY <1>t, SessionAssumption DEF Typed, Channels
  <2>2. RunsClose
    <3>1. CASE inputChannel[s] = None
      BY <1>10, <3>1, <1>t, UnchangedRuns DEF OnClose
    <3>2. CASE inputChannel[s] # None
      BY <1>10, <3>2, <2>1, <1>t, EndedInput DEF OnClose
    <3> QED
      BY <3>1, <3>2
  <2>3. \A c \in Channels : s \notin runs'[c].inputs
    <3> SUFFICES ASSUME NEW c \in Channels, s \in runs'[c].inputs PROVE FALSE
      OBVIOUS
    <3>1. inputChannel[s] = c
      BY <2>2, <1>t DEF Inputs, RunsClose
    <3> QED
      BY <1>10, <3>1, <1>n, <1>t, EndedInput DEF OnClose
  <2>4. Typed'
    BY <1>10, <2>2, <1>t DEF OnClose, Typed, RunsClose, manager, Places, applied
  <2>5. Inputs'
    BY <1>10, <2>2, <2>3, <1>t DEF OnClose, Typed, Inputs, RunsClose, Writing, manager, applied
  <2>6. Stopped'
    BY <1>10, <1>t DEF OnClose, Typed, Stopped, manager, applied
  <2> QED
    BY <2>4, <2>5, <2>6 DEF SInv
<1>11. CASE CloseLookup(s)
  <2>1. Typed'
    BY <1>11, <1>t DEF CloseLookup, Typed, manager, Places, applied
  <2>2. Inputs'
    BY <1>11, <1>t DEF CloseLookup, Typed, Inputs, Writing, manager, applied
  <2>3. Stopped'
    BY <1>11, <1>t DEF CloseLookup, Stops, Typed, Stopped, manager, applied
  <2> QED
    BY <2>1, <2>2, <2>3 DEF SInv
<1>12. CASE StopInstance(s)
  <2>1. Typed'
    BY <1>12, <1>t DEF StopInstance, Unmap, Typed, Stopped, manager, Places, applied
  <2>2. Inputs'
    BY <1>12, <1>t DEF StopInstance, Unmap, Typed, Inputs, Writing, manager, applied
  <2>3. Stopped'
    BY <1>12, <1>t DEF StopInstance, Unmap, Typed, Stopped, manager, applied
  <2> QED
    BY <2>1, <2>2, <2>3 DEF SInv
<1> QED
  BY <1>1, <1>2, <1>3, <1>4, <1>5, <1>6, <1>7, <1>8, <1>9, <1>10, <1>11, <1>12 DEF Callback

-----------------------------------------------------------------------------
(* The inductive invariant holds in every reachable state. *)
THEOREM SessionInvariant == Spec => []SInv
<1>1. Init => SInv
  <2> SUFFICES ASSUME Init PROVE SInv
    OBVIOUS
  <2>1. Typed
    BY SessionAssumption DEF Init, Typed, Places, Run, Channels
  <2>2. Inputs /\ Stopped
    BY DEF Init, Inputs, Stopped, Writing
  <2> QED
    BY <2>1, <2>2 DEF SInv
<1>2. SInv /\ [Next]_vars => SInv'
  <2> SUFFICES ASSUME SInv, [Next]_vars PROVE SInv'
    OBVIOUS
  <2>1. CASE UNCHANGED vars
    BY <2>1 DEF SInv, Typed, Inputs, Stopped, vars, manager, applied
  <2> QED
    BY <2>1, ManagerStep, HandlerStep, SetInfoStep DEF Next, Handler
<1> QED
  BY <1>1, <1>2, PTL DEF Spec

(* The records close: whichever encoders publish with the key and however the  *)
(* channel is stopped and created meanwhile, no input outlives its connection  *)
(* and an ended run is silent (server.go, OnClose and writeData; run.go).      *)
THEOREM InputsAreClosed == Spec => []InputsClosed
<1>1. SInv => InputsClosed
  BY DEF SInv, Inputs, InputsClosed
<1> QED
  BY <1>1, SessionInvariant, PTL

(* When an encoder has gone the channel it fed last is not on the air          *)
(* (server.go, OnClose).                                                       *)
THEOREM FedChannelIsStopped == Spec => []FedChannelStopped
<1>1. SInv => FedChannelStopped
  BY DEF SInv, Stopped, FedChannelStopped
<1> QED
  BY <1>1, SessionInvariant, PTL

-----------------------------------------------------------------------------
(* What DeferredApplied needs: the types of the tags, *)
Tagged ==
  /\ headerAppliedTo \in [Sessions -> (1 .. channels) \cup {None}]
  /\ infoAppliedTo \in [Sessions -> (1 .. channels) \cup {None}]
  /\ metaTag \in [Sessions -> Nat] /\ seqTag \in [Sessions -> Nat]
  /\ \A s \in Sessions : pc[s] \in {"rebuild", "head", "deferred"} => seqTag[s] # 0
  /\ \A s \in Sessions : metaFor[s] # None /\ pc[s] = "idle" => seqTag[s] = 0

(* that a head packet is the one of its handler's tags, but for a handler that *)
(* is about to rebuild it, and that a handler feeds no channel to which it has *)
(* not applied a head packet;                                                  *)
Headed ==
  current # None =>
    \A s \in Sessions :
      /\ headerAppliedTo[s] = current => header.by # None
      /\ header.by = s => seqTag[s] # 0
      /\ header.by = s /\ pc[s] \notin {"rebuild", "head"} => header = HeadPacket(s)
      /\ s \in fed /\ seqTag[s] # 0 /\ pc[s] \notin {"rebuild", "head"} => headerAppliedTo[s] = current
      /\ pc[s] = "write" /\ target[s] = current /\ seqTag[s] # 0 => headerAppliedTo[s] = current

(* and the same of the metadata, which is applied when a frame arrives and     *)
(* again when a head packet is made up for, and may miss a channel that is     *)
(* created between the two steps of rebuildHeader.  SetInfo may be still to    *)
(* come.                                                                       *)
Informed ==
  current # None =>
    \A s \in Sessions :
      /\ infoAppliedTo[s] = current => s \in info /\ metaFor[s] = None
      /\ metaTag[s] # 0 /\ \/ s \in fed /\ seqTag[s] # 0 /\ pc[s] # "rebuild"
                           \/ pc[s] \in {"find", "header"} /\ headerAppliedTo[s] = current
                           \/ pc[s] \in {"deferred", "write"} /\ target[s] = current /\ seqTag[s] # 0
           => current \in {infoAppliedTo[s], metaFor[s]}

AInv == Tagged /\ Headed /\ Informed

(* applyMetaInfo finds the current channel, if it was not applied there yet. *)
LEMMA MetaApplied ==
  ASSUME Typed, NEW s \in Sessions, NEW meta, metaFor[s] = None, applyMetaInfo(s, meta)
  PROVE  /\ metaFor' \in [Sessions -> (1 .. channels) \cup {None}]
         /\ \A t \in Sessions \ {s} : metaFor'[t] = metaFor[t]
         /\ current # None /\ infoAppliedTo[s] = current => metaFor'[s] = None
         /\ current # None /\ meta # 0 => current \in {infoAppliedTo[s], metaFor'[s]}
  BY DEF Typed, applyMetaInfo

(* SetInfo applies the metadata to the channel that was found. *)
LEMMA SetInfoApplied ==
  ASSUME SInv, AInv, NEW s \in Sessions, SetInfo(s)
  PROVE  AInv'
<1>1. Typed /\ Tagged /\ Headed /\ Informed
  BY DEF SInv, AInv
<1>2. /\ metaFor[s] \in 1 .. channels /\ metaFor' = [metaFor EXCEPT ![s] = None]
      /\ info' = IF metaFor[s] = current THEN info \cup {s} ELSE info
      /\ infoAppliedTo' = [infoAppliedTo EXCEPT ![s] = metaFor[s]]
      /\ UNCHANGED <<channels, current, pc, target, tags, headerAppliedTo, header, fed>>
  BY <1>1 DEF SetInfo, Typed, manager
<1>3. Tagged'
  BY <1>1, <1>2 DEF Typed, Tagged, tags
<1>4. Headed'
  BY <1>1, <1>2 DEF Headed, HeadPacket, tags
<1>5. Informed'
  <2> SUFFICES ASSUME current # None, NEW t \in Sessions
               PROVE  /\ infoAppliedTo'[t] = current => t \in info' /\ metaFor'[t] = None
                      /\ \/ infoAppliedTo[t] = current
                         \/ metaFor[t] = current
                         => current \in {infoAppliedTo'[t], metaFor'[t]}
    BY <1>1, <1>2 DEF Informed, tags
  <2>1. CASE t # s
    <3>1. infoAppliedTo'[t] = infoAppliedTo[t] /\ metaFor'[t] = metaFor[t] /\ info \subseteq info'
      BY <1>1, <1>2, <2>1 DEF Tagged, Typed
    <3> QED
      BY <1>1, <3>1 DEF Informed
  <2>2. CASE t = s
    <3>1. infoAppliedTo'[t] = metaFor[s] /\ metaFor'[t] = None
      BY <1>1, <1>2, <2>2 DEF Tagged, Typed
    <3>2. infoAppliedTo[s] # current
      BY <1>1, <1>2, SessionAssumption DEF Informed, Typed
    <3> QED
      BY <1>2, <2>2, <3>1, <3>2
  <2> QED
    BY <2>1, <2>2
<1> QED
  BY <1>3, <1>4, <1>5 DEF AInv

(* The steps of the manager: a channel that is created is nobody's yet. *)
LEMMA ManagerApplied ==
  ASSUME SInv, AInv,
         \/ \E b \in BOOLEAN : Broadcast(b) \/ SetupDone(b)
         \/ Stop
         \/ \E c \in Channels : End(c)
  PROVE  AInv'
<1> USE DEF AInv, SInv, tags, applied, content, HeadPacket
<1>1. ASSUME NEW b \in BOOLEAN, Broadcast(b) PROVE AInv'
  <2>1. /\ channels \in Nat /\ channels' = channels + 1 /\ current' = channels + 1
        /\ header' = NoHead /\ info' = {} /\ fed' = {}
        /\ UNCHANGED <<pc, target, tags, applied>>
    BY <1>1, SessionAssumption DEF Broadcast, Typed
  <2>2. /\ Tagged'
        /\ \A s \in Sessions : headerAppliedTo[s] # channels + 1 /\ infoAppliedTo[s] # channels + 1
                               /\ target[s] # channels + 1
    <3>1. channels + 1 # None
      BY <1>1, SessionAssumption DEF Broadcast, Typed
    <3> QED
      BY <2>1, <3>1 DEF Tagged, Typed
  <2>3. Headed'
    BY <2>1, <2>2, SessionAssumption DEF Headed, NoHead
  <2>4. Informed'
    BY <2>1, <2>2 DEF Informed
  <2> QED
    BY <2>2, <2>3, <2>4
<1>2. ASSUME /\ current' \in {current, None}
             /\ UNCHANGED <<channels, pc, target, tags, applied, content>>
      PROVE  AInv'
  <2>1. Tagged'
    BY <1>2 DEF Tagged
  <2>2. Headed'
    BY <1>2 DEF Headed
  <2>3. Informed'
    BY <1>2 DEF Informed
  <2> QED
    BY <2>1, <2>2, <2>3
<1>3. ASSUME NEW b \in BOOLEAN, SetupDone(b) PROVE AInv'
  BY <1>2, <1>3 DEF SetupDone, Unmap
<1>4. CASE Stop
  BY <1>2, <1>4 DEF Stop, Unmap
<1>5. ASSUME NEW c \in Channels, End(c) PROVE AInv'
  BY <1>2, <1>5 DEF End
<1> QED
  BY <1>1, <1>3, <1>4, <1>5

(* The steps of a handler. *)
LEMMA HandlerApplied ==
  ASSUME SInv, AInv, NEW s \in Sessions, metaFor[s] = None, Callback(s)
  PROVE  AInv'
<1> USE DEF Goto, HeadPacket
<1>t. Typed /\ Inputs /\ Tagged /\ Headed /\ Informed
  BY DEF SInv, AInv
<1>p. /\ metaFor \in [Sessions -> (1 .. channels) \cup {None}] /\ metaFor[s] = None
      /\ pc \in [Sessions -> Places] /\ target \in [Sessions -> (1 .. channels) \cup {None}]
  BY <1>t DEF Typed
<1>m. metaTag[s] \in Nat /\ seqTag[s] \in Nat
  BY <1>t DEF Tagged
<1>1. CASE OnPublish(s) \/ OnClose(s) \/ CloseLookup(s) \/ StopInstance(s)
  <2>1. /\ UNCHANGED <<channels, tags, headerAppliedTo, infoAppliedTo, metaFor, content>>
        /\ current' \in {current, None}
        /\ \E at \in {"idle", "stop", "stopping", "closed"} : pc' = [pc EXCEPT ![s] = at]
        /\ \A t \in Sessions \ {s} : target'[t] = target[t]
    BY <1>1, <1>p DEF OnPublish, OnClose, CloseLookup, StopInstance, Unmap, manager, applied
  <2>2. pc[s] \notin {"rebuild", "head"}
    BY <1>1 DEF OnPublish, OnClose, CloseLookup, StopInstance
  <2>3. PICK at \in {"idle", "stop", "stopping", "closed"} : pc' = [pc EXCEPT ![s] = at]
    BY <2>1
  <2>4. Tagged'
    BY <2>1, <2>3, <1>t, <1>p DEF Tagged, tags
  <2>5. Headed'
    BY <2>1, <2>2, <2>3, <1>t, <1>p DEF Headed, tags, content
  <2>6. Informed'
    BY <2>1, <2>2, <2>3, <1>t, <1>p DEF Informed, tags, content
  <2> QED
    BY <2>4, <2>5, <2>6 DEF AInv
<1>2. CASE OnSetDataFrame(s)
  <2>1. /\ metaTag' = [metaTag EXCEPT ![s] = metaTag[s] + 1] /\ metaTag'[s] \in Nat \ {0}
        /\ applyMetaInfo(s, metaTag'[s])
        /\ pc[s] = "idle" /\ pc' = [pc EXCEPT ![s] = IF seqTag[s] = 0 THEN "idle" ELSE "rebuild"]
        /\ UNCHANGED <<channels, current, target, seqTag, headerAppliedTo, infoAppliedTo, header, info, fed>>
    BY <1>2, <1>t DEF OnSetDataFrame, manager, content, Tagged
  <2>2. /\ metaFor' \in [Sessions -> (1 .. channels) \cup {None}]
        /\ \A t \in Sessions \ {s} : metaFor'[t] = metaFor[t]
        /\ current # None /\ infoAppliedTo[s] = current => metaFor'[s] = None
        /\ current # None => current \in {infoAppliedTo[s], metaFor'[s]}
    BY <2>1, <1>t, <1>p, MetaApplied
  <2>3. Tagged'
    BY <2>1, <2>2, <1>t, <1>p DEF Tagged
  <2>4. Headed'
    BY <2>1, <1>t, <1>p DEF Headed, Tagged
  <2>5. Informed'
    BY <2>1, <2>2, <1>t, <1>p DEF Informed, Tagged
  <2> QED
    BY <2>3, <2>4, <2>5 DEF AInv
<1>3. CASE OnSequenceHeader(s)
  <2>0. PICK v \in {seqTag[s], seqTag[s] + 1} \ {0} : seqTag' = [seqTag EXCEPT ![s] = v]
    BY <1>3 DEF OnSequenceHeader
  <2>1. v \in Nat \ {0} /\ seqTag' = [seqTag EXCEPT ![s] = v]
    BY <2>0, <1>m
  <2>2. /\ pc[s] = "idle" /\ pc' = [pc EXCEPT ![s] = "rebuild"]
        /\ UNCHANGED <<channels, current, target, metaTag, headerAppliedTo, infoAppliedTo, metaFor, header, info, fed>>
    BY <1>3 DEF OnSequenceHeader, manager, applied, content
  <2>3. Tagged'
    BY <2>1, <2>2, <1>t, <1>p DEF Tagged
  <2>4. Headed'
    BY <2>1, <2>2, <1>t, <1>p DEF Headed, Tagged
  <2>5. Informed'
    BY <2>1, <2>2, <1>t, <1>p DEF Informed, Tagged
  <2> QED
    BY <2>3, <2>4, <2>5 DEF AInv
<1>4. CASE OnFrame(s) \/ RebuildMeta(s)
  <2>1. /\ applyMetaInfo(s, metaTag[s])
        /\ \/ pc[s] = "idle" /\ pc' = [pc EXCEPT ![s] = "find"]
           \/ pc[s] = "rebuild" /\ pc' = [pc EXCEPT ![s] = "head"]
        /\ UNCHANGED <<channels, current, target, tags, headerAppliedTo, infoAppliedTo, header, info, fed>>
    BY <1>4 DEF OnFrame, RebuildMeta, manager, content
  <2>2. /\ metaFor' \in [Sessions -> (1 .. channels) \cup {None}]
        /\ \A t \in Sessions \ {s} : metaFor'[t] = metaFor[t]
        /\ current # None /\ infoAppliedTo[s] = current => metaFor'[s] = None
        /\ current # None /\ metaTag[s] # 0 => current \in {infoAppliedTo[s], metaFor'[s]}
    BY <2>1, <1>t, <1>p, MetaApplied
  <2>3. Tagged'
    BY <2>1, <2>2, <1>t, <1>p DEF Tagged, tags
  <2>4. Headed'
    BY <2>1, <1>t, <1>p DEF Headed, tags
  <2>5. Informed'
    BY <2>1, <2>2, <1>t, <1>p DEF Informed, tags
  <2> QED
    BY <2>3, <2>4, <2>5 DEF AInv
<1>5. CASE Rebuild(s)
  <2>1. /\ pc[s] \in {"head", "deferred"} /\ seqTag[s] # 0
        /\ pc' = [pc EXCEPT ![s] = IF pc[s] = "head" THEN "idle" ELSE "write"]
        /\ UNCHANGED <<channels, current, target, tags, infoAppliedTo, metaFor, info, fed>>
    BY <1>5, <1>t DEF Rebuild, manager, Tagged
  <2>2. CASE current = None
    <3>1. UNCHANGED <<header, headerAppliedTo>>
      BY <1>5, <2>2 DEF Rebuild, rebuildHeader
    <3> QED
      BY <2>1, <2>2, <3>1, <1>t, <1>p DEF AInv, Tagged, Headed, Informed, tags
  <2>3. CASE current # None
    <3>1. current \in 1 .. channels
      BY <2>3, <1>t DEF Typed
    <3>2. header' = HeadPacket(s) /\ headerAppliedTo' = [headerAppliedTo EXCEPT ![s] = current]
      BY <1>5, <2>1, <2>3, <1>t DEF Rebuild, rebuildHeader, Tagged
    <3>3. Tagged'
      BY <2>1, <3>1, <3>2, <1>t, <1>p DEF Tagged, tags
    <3>4. Headed'
      BY <2>1, <2>3, <3>2, <1>t, <1>p, SessionAssumption DEF Headed, Tagged, tags
    <3>5. Informed'
      BY <2>1, <2>3, <3>2, <1>t, <1>p DEF Informed, Tagged, tags
    <3> QED
      BY <3>3, <3>4, <3>5 DEF AInv
  <2> QED
    BY <2>2, <2>3
<1>6. CASE Find(s)
  <2>1. /\ pc[s] = "find" /\ pc' = [pc EXCEPT ![s] = IF current = None THEN "idle" ELSE "header"]
        /\ target' = [target EXCEPT ![s] = current]
        /\ UNCHANGED <<channels, current, tags, headerAppliedTo, infoAppliedTo, metaFor, content>>
    BY <1>6 DEF Find, manager
  <2>2. Tagged'
    BY <2>1, <1>t, <1>p DEF Tagged, tags
  <2>3. Headed'
    BY <2>1, <1>t, <1>p DEF Headed, tags, content
  <2>4. Informed'
    BY <2>1, <1>t, <1>p DEF Informed, tags, content
  <2> QED
    BY <2>2, <2>3, <2>4 DEF AInv
<1>7. CASE WriteHeader(s)
  <2>1. /\ pc[s] = "header"
        /\ UNCHANGED <<channels, current, target, tags, headerAppliedTo, infoAppliedTo, header, info, fed>>
    BY <1>7 DEF WriteHeader, manager, content
  <2>2. CASE headerAppliedTo[s] # target[s] /\ seqTag[s] # 0
    <3>1. applyMetaInfo(s, metaTag[s]) /\ pc' = [pc EXCEPT ![s] = "deferred"]
      BY <1>7, <2>2 DEF WriteHeader, DeferredHeader
    <3>2. /\ metaFor' \in [Sessions -> (1 .. channels) \cup {None}]
          /\ \A t \in Sessions \ {s} : metaFor'[t] = metaFor[t]
          /\ current # None /\ infoAppliedTo[s] = current => metaFor'[s] = None
          /\ current # None /\ metaTag[s] # 0 => current \in {infoAppliedTo[s], metaFor'[s]}
      BY <2>1, <3>1, <1>t, <1>p, MetaApplied
    <3>3. Tagged'
      BY <2>1, <2>2, <3>1, <3>2, <1>t, <1>p DEF Tagged, tags
    <3>4. Headed'
      BY <2>1, <3>1, <1>t, <1>p DEF Headed, tags
    <3>5. Informed'
      BY <2>1, <3>1, <3>2, <1>t, <1>p DEF Informed, tags
    <3> QED
      BY <3>3, <3>4, <3>5 DEF AInv
  <2>3. CASE ~(headerAppliedTo[s] # target[s] /\ seqTag[s] # 0)
    <3>1. UNCHANGED metaFor /\ pc' = [pc EXCEPT ![s] = "write"]
      BY <1>7, <2>3 DEF WriteHeader, DeferredHeader
    <3>2. Tagged'
      BY <2>1, <3>1, <1>t, <1>p DEF Tagged, tags
    <3>3. Headed'
      BY <2>1, <2>3, <3>1, <1>t, <1>p DEF Headed, tags
    <3>4. Informed'
      BY <2>1, <2>3, <3>1, <1>t, <1>p DEF Informed, tags
    <3> QED
      BY <3>2, <3>3, <3>4 DEF AInv
  <2> QED
    BY <2>2, <2>3
<1>8. CASE Write(s)
  <2>1. /\ pc[s] = "write" /\ pc' = [pc EXCEPT ![s] = "idle"]
        /\ target' = [target EXCEPT ![s] = None]
        /\ fed' = IF target[s] = current THEN fed \cup {s} ELSE fed
        /\ UNCHANGED <<channels, current, tags, headerAppliedTo, infoAppliedTo, metaFor, header, info>>
    BY <1>8 DEF Write, manager
  <2>2. Tagged'
    BY <2>1, <1>t, <1>p DEF Tagged, tags
  <2>3. Headed'
    BY <2>1, <1>t, <1>p DEF Headed, tags
  <2>4. Informed'
    BY <2>1, <1>t, <1>p DEF Informed, tags
  <2> QED
    BY <2>2, <2>3, <2>4 DEF AInv
<1> QED
  BY <1>1, <1>2, <1>3, <1>4, <1>5, <1>6, <1>7, <1>8 DEF Callback

(* The invariant of the head packets holds in every reachable state. *)
THEOREM AppliedInvariant == Spec => []AInv
<1>1. Init => AInv
  <2> SUFFICES ASSUME Init PROVE AInv
    OBVIOUS
  <2>1. Tagged
    BY DEF Init, Tagged
  <2>2. Headed /\ Informed
    BY DEF Init, Headed, Informed
  <2> QED
    BY <2>1, <2>2 DEF AInv
<1>2. SInv /\ AInv /\ [Next]_vars => AInv'
  <2> SUFFICES ASSUME SInv, AInv, [Next]_vars PROVE AInv'
    OBVIOUS
  <2>1. CASE UNCHANGED vars
    BY <2>1 DEF AInv, Tagged, Headed, Informed, HeadPacket, vars, manager, tags, applied, content
  <2>2. ASSUME NEW s \in Sessions, Handler(s) PROVE AInv'
    BY <2>2, HandlerApplied, SetInfoApplied DEF Handler
  <2> QED
    BY <2>1, <2>2, ManagerApplied DEF Next
<1> QED
  BY <1>1, <1>2, SessionInvariant, PTL DEF Spec

(* The first data of an encoder in a channel comes under the head packet of    *)
(* the tags it sent last and with its own metadata, however channels are       *)
(* stopped and created between its lookups (server.go, writeData,              *)
(* applyMetaInfo and rebuildHeader).                                           *)
THEOREM DeferredIsApplied == Spec => []DeferredApplied
<1>1. AInv => DeferredApplied
  BY DEF AInv, Tagged, Headed, Informed, DeferredApplied, Alone
<1> QED
  BY <1>1, AppliedInvariant, PTL
=============================================================================
