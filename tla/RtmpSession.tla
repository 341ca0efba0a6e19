---------------------------- MODULE RtmpSession ----------------------------
(***************************************************************************)
(* Encoder connections that publish with one stream key                    *)
(* (internal/rtmp/server.go), the channel that the key has at the moment,  *)
(* and the audit run of each channel (internal/audit/run.go).              *)
(*                                                                         *)
(* A handler looks the channel up whenever it needs it.  Channels are      *)
(* stopped and created meanwhile, and other handlers publish with the same *)
(* key.  A channel is the number of its instance; stopInstance first takes *)
(* it out of the manager's maps and then ends its run.  What is in a       *)
(* stopped channel is not modelled: nobody gets it any more.               *)
(***************************************************************************)
EXTENDS Integers, FiniteSets

CONSTANTS
  Sessions,
  MetaSessions,  \* bound: those that send onMetaData
  MaxChannels,   \* bound: channels that are created with the key
  MaxTags,       \* bound: versions of each tag an encoder sends
  None

ASSUME SessionAssumption ==
  /\ None \notin Sessions /\ MetaSessions \subseteq Sessions
  /\ {MaxChannels, MaxTags} \subseteq Nat \ {0} /\ None \notin 0 .. MaxChannels

Channels == 1 .. MaxChannels

VARIABLES
  channels,      \* how many have been created
  current,       \* byStreamKey
  setup,         \* the channel that the site is setting up
  ending,        \* channels out of the maps whose run has not ended
  pc, target,    \* where each handler is, and the channel it works on
  metaTag, seqTag,                       \* the tags it has kept; 0 is none
  headerAppliedTo, infoAppliedTo, inputChannel,
  metaFor,       \* the channel that applyMetaInfo has found
  header,        \* head of the current channel: tags and the handler they are from
  info,          \* history: the handlers whose metadata went into its info
  fed,           \* history: the handlers that wrote to it
  runs           \* the audit run of each channel; late: it sent an event after its end

manager == <<channels, current, setup, ending>>
tags == <<metaTag, seqTag>>
applied == <<headerAppliedTo, infoAppliedTo, inputChannel, metaFor>>
content == <<header, info, fed>>
vars == <<manager, pc, target, tags, applied, content, runs>>

(* The tags of different encoders are different bytes. *)
NoHead == [by |-> None, meta |-> 0, seq |-> 0]
HeadPacket(s) == [by |-> s, meta |-> metaTag[s], seq |-> seqTag[s]]

Init ==
  /\ channels = 0 /\ current = None /\ setup = None /\ ending = {}
  /\ pc = [s \in Sessions |-> "connected"]
  /\ target = [s \in Sessions |-> None]
  /\ metaTag = [s \in Sessions |-> 0] /\ seqTag = metaTag
  /\ headerAppliedTo = target /\ infoAppliedTo = target /\ inputChannel = target /\ metaFor = target
  /\ header = NoHead /\ info = {} /\ fed = {}
  /\ runs = [c \in Channels |-> [committed |-> FALSE, closed |-> FALSE, inputs |-> {}, late |-> FALSE]]

-----------------------------------------------------------------------------
(* The audit run.  Each operator maps a run to the one after the call; Sent    *)
(* is Run.event.  Reports of progress are left out.                            *)

Sent(r) == [r EXCEPT !.late = @ \/ r.closed]

Commit(r) == IF r.committed \/ r.closed THEN r ELSE Sent([r EXCEPT !.committed = TRUE])

Metadata(r) == IF r.closed THEN r ELSE Sent(r)

Media(r, s) ==
  IF r.closed \/ s \in r.inputs THEN r ELSE Sent([r EXCEPT !.inputs = @ \cup {s}])

EndInput(r, s) == IF s \in r.inputs THEN Sent([r EXCEPT !.inputs = @ \ {s}]) ELSE r

(* The open inputs end with the run, after closed has been set. *)
EndRun(r) == IF r.closed THEN r ELSE [r EXCEPT !.closed = TRUE, !.inputs = {}]

-----------------------------------------------------------------------------
(* The manager: BroadcastWithAudit, by the administrator, or by the site,     *)
(* which commits the run when the settings are saved, or stops the channel.   *)
Broadcast(bySite) ==
  /\ current = None /\ channels < MaxChannels /\ setup = None
  /\ channels' = channels + 1
  /\ current' = channels'
  /\ setup' = IF bySite THEN channels' ELSE None
  /\ runs' = IF bySite THEN runs ELSE [runs EXCEPT ![channels'] = Commit(@)]
  /\ header' = NoHead /\ info' = {} /\ fed' = {}
  /\ UNCHANGED <<ending, pc, target, tags, applied>>

Unmap(c) == /\ current' = IF current = c THEN None ELSE current
            /\ ending' = IF current = c THEN ending \cup {c} ELSE ending

SetupDone(saved) ==
  /\ setup # None
  /\ setup' = None
  /\ IF saved
     THEN runs' = [runs EXCEPT ![setup] = Commit(@)] /\ UNCHANGED <<current, ending>>
     ELSE Unmap(setup) /\ UNCHANGED runs
  /\ UNCHANGED <<channels, pc, target, tags, applied, content>>

(* Somebody stops the channel. *)
Stop ==
  /\ current # None
  /\ Unmap(current)
  /\ UNCHANGED <<channels, setup, pc, target, tags, applied, content, runs>>

(* Whoever stopped it then ends its run. *)
End(c) ==
  /\ c \in ending
  /\ ending' = ending \ {c}
  /\ runs' = [runs EXCEPT ![c] = EndRun(@)]
  /\ UNCHANGED <<channels, current, setup, pc, target, tags, applied, content>>

-----------------------------------------------------------------------------
(* The handler of an encoder.  Its callbacks do not run at the same time. *)

Goto(s, at) == pc' = [pc EXCEPT ![s] = at]

OnPublish(s) ==
  /\ pc[s] = "connected"
  /\ Goto(s, "idle")
  /\ UNCHANGED <<manager, target, tags, applied, content, runs>>

(* applyMetaInfo: once for each channel, so that later metadata is ignored.   *)
(* It finds the channel,                                                      *)
applyMetaInfo(s, meta) ==
  metaFor' = IF meta # 0 /\ current # None /\ infoAppliedTo[s] # current
             THEN [metaFor EXCEPT ![s] = current] ELSE metaFor

(* and SetInfo changes it and tells its run, before the handler goes on.      *)
SetInfo(s) ==
  LET c == metaFor[s]
  IN /\ c # None
     /\ info' = IF c = current THEN info \cup {s} ELSE info
     /\ runs' = [runs EXCEPT ![c] = Metadata(@)]
     /\ infoAppliedTo' = [infoAppliedTo EXCEPT ![s] = c]
     /\ metaFor' = [metaFor EXCEPT ![s] = None]
     /\ UNCHANGED <<manager, pc, target, tags, headerAppliedTo, inputChannel, header, fed>>

OnSetDataFrame(s) ==
  /\ pc[s] = "idle" /\ s \in MetaSessions /\ metaTag[s] < MaxTags
  /\ metaTag' = [metaTag EXCEPT ![s] = @ + 1]
  /\ applyMetaInfo(s, metaTag'[s])
  /\ Goto(s, IF seqTag[s] = 0 THEN "idle" ELSE "rebuild")
  /\ UNCHANGED <<manager, target, seqTag, headerAppliedTo, infoAppliedTo, inputChannel, content, runs>>

(* A sequence header, for video or audio, new or sent again. *)
OnSequenceHeader(s) ==
  /\ pc[s] = "idle"
  /\ \E v \in {seqTag[s], seqTag[s] + 1} \ {0} :
       v <= MaxTags /\ seqTag' = [seqTag EXCEPT ![s] = v]
  /\ Goto(s, "rebuild")
  /\ UNCHANGED <<manager, target, metaTag, applied, content, runs>>

(* A frame: writeData starts with the metadata. *)
OnFrame(s) ==
  /\ pc[s] = "idle"
  /\ applyMetaInfo(s, metaTag[s])
  /\ Goto(s, "find")
  /\ UNCHANGED <<manager, target, tags, headerAppliedTo, infoAppliedTo, inputChannel, content, runs>>

(* rebuildHeader, with a lookup of its own: the first header of this handler  *)
(* on a channel is always applied, later only a different one.                *)
rebuildHeader(s) ==
  IF seqTag[s] # 0 /\ current # None /\ (headerAppliedTo[s] # current \/ header # HeadPacket(s))
  THEN /\ header' = HeadPacket(s)
       /\ headerAppliedTo' = [headerAppliedTo EXCEPT ![s] = current]
  ELSE UNCHANGED <<header, headerAppliedTo>>

RebuildMeta(s) ==
  /\ pc[s] = "rebuild"
  /\ applyMetaInfo(s, metaTag[s])
  /\ Goto(s, "head")
  /\ UNCHANGED <<manager, target, tags, headerAppliedTo, infoAppliedTo, inputChannel, content, runs>>

Rebuild(s) ==
  /\ pc[s] \in {"head", "deferred"}
  /\ rebuildHeader(s)
  /\ Goto(s, IF pc[s] = "head" THEN "idle" ELSE "write")
  /\ UNCHANGED <<manager, target, tags, infoAppliedTo, inputChannel, metaFor, info, runs, fed>>

(* The channel to write to, and the end of the input for another one; *)
Find(s) ==
  LET changed == inputChannel[s] \notin {None, current}
  IN /\ pc[s] = "find"
     /\ target' = [target EXCEPT ![s] = current]
     /\ runs' = IF changed THEN [runs EXCEPT ![inputChannel[s]] = EndInput(@, s)] ELSE runs
     /\ inputChannel' = IF changed THEN [inputChannel EXCEPT ![s] = None] ELSE inputChannel
     /\ Goto(s, IF current = None THEN "idle" ELSE "header")
     /\ UNCHANGED <<manager, tags, headerAppliedTo, infoAppliedTo, metaFor, content>>

(* a header if this channel has none from here, *)
DeferredHeader_Never(s) == FALSE
DeferredHeader(s) == headerAppliedTo[s] # target[s]

WriteHeader(s) ==
  /\ pc[s] = "header"
  /\ IF DeferredHeader(s) /\ seqTag[s] # 0
     THEN applyMetaInfo(s, metaTag[s]) /\ Goto(s, "deferred")
     ELSE UNCHANGED metaFor /\ Goto(s, "write")
  /\ UNCHANGED <<manager, target, tags, headerAppliedTo, infoAppliedTo, inputChannel, content, runs>>

(* the data, and the run if it is media. *)
Write(s) ==
  /\ pc[s] = "write"
  /\ fed' = IF target[s] = current THEN fed \cup {s} ELSE fed
  /\ inputChannel' = [inputChannel EXCEPT ![s] = target[s]]
  /\ \E media \in BOOLEAN :
       runs' = IF media THEN [runs EXCEPT ![target[s]] = Media(@, s)] ELSE runs
  /\ Goto(s, "idle")
  /\ target' = [target EXCEPT ![s] = None]
  /\ UNCHANGED <<manager, tags, headerAppliedTo, infoAppliedTo, metaFor, header, info>>

(* OnClose: the input ends; then the channel of the key is looked up, and     *)
(* stopped unless this handler feeds another one.                             *)
OnClose_KeepInput(s) ==
  /\ pc[s] \in {"connected", "idle"}
  /\ Goto(s, IF pc[s] = "connected" THEN "closed" ELSE "stop")
  /\ UNCHANGED <<manager, target, tags, applied, content, runs>>

OnClose(s) ==
  /\ pc[s] \in {"connected", "idle"}
  /\ runs' = IF inputChannel[s] = None THEN runs
             ELSE [runs EXCEPT ![inputChannel[s]] = EndInput(@, s)]
  /\ Goto(s, IF pc[s] = "connected" THEN "closed" ELSE "stop")
  /\ UNCHANGED <<manager, target, tags, applied, content>>

Stops_Silent(s) == inputChannel[s] = None
Stops(s) == inputChannel[s] \in {None, current}

CloseLookup(s) ==
  /\ pc[s] = "stop"
  /\ IF current # None /\ Stops(s)
     THEN target' = [target EXCEPT ![s] = current] /\ Goto(s, "stopping")
     ELSE Goto(s, "closed") /\ UNCHANGED target
  /\ UNCHANGED <<manager, tags, applied, content, runs>>

StopInstance(s) ==
  /\ pc[s] = "stopping"
  /\ Unmap(target[s])
  /\ Goto(s, "closed")
  /\ target' = [target EXCEPT ![s] = None]
  /\ UNCHANGED <<channels, setup, tags, applied, content, runs>>

Callback(s) ==
  \/ OnPublish(s) \/ OnSetDataFrame(s) \/ OnSequenceHeader(s) \/ OnFrame(s)
  \/ RebuildMeta(s) \/ Rebuild(s) \/ Find(s) \/ WriteHeader(s) \/ Write(s)
  \/ OnClose(s) \/ CloseLookup(s) \/ StopInstance(s)

Handler(s) == SetInfo(s) \/ (metaFor[s] = None /\ Callback(s))

Next ==
  \/ \E b \in BOOLEAN : Broadcast(b) \/ SetupDone(b)
  \/ Stop
  \/ \E c \in Channels : End(c)
  \/ \E s \in Sessions : Handler(s)

Spec == Init /\ [][Next]_vars

-----------------------------------------------------------------------------
TypeOK ==
  /\ channels \in 0 .. MaxChannels
  /\ {current, setup} \subseteq Channels \cup {None} /\ ending \subseteq Channels
  /\ pc \in [Sessions -> {"connected", "idle", "rebuild", "head", "find", "header",
                          "deferred", "write", "stop", "stopping", "closed"}]
  /\ {target, headerAppliedTo, infoAppliedTo, inputChannel, metaFor} \subseteq [Sessions -> Channels \cup {None}]
  /\ {metaTag, seqTag} \subseteq [Sessions -> 0 .. MaxTags]
  /\ header \in [by : Sessions \cup {None}, meta : 0 .. MaxTags, seq : 0 .. MaxTags]
  /\ info \subseteq Sessions /\ fed \subseteq Sessions
  /\ runs \in [Channels -> [committed : BOOLEAN, closed : BOOLEAN, inputs : SUBSET Sessions, late : BOOLEAN]]

(* Only this handler has touched the current channel. *)
Alone(s) == current # None /\ fed = {s} /\ header.by \in {s, None}

(* The first data of an encoder in a channel comes under the head packet made *)
(* of the tags it sent last, and with its own metadata, however it was        *)
(* stopped and created again between the lookups of one callback and whether  *)
(* the tags came before the channel or after it.                              *)
DeferredApplied ==
  \A s \in Sessions :
    pc[s] = "idle" /\ seqTag[s] # 0 /\ Alone(s) =>
      /\ header = HeadPacket(s)
      /\ metaTag[s] # 0 => s \in info

(* The records close: no input stays open when its connection is closed, in   *)
(* the run of whatever channel, and a run that has ended is silent, since no  *)
(* handler, site or manager that still holds the channel adds an event to it  *)
(* or leaves an input open in it.                                             *)
InputsClosed ==
  \A c \in Channels :
    /\ \A s \in Sessions : pc[s] = "closed" => s \notin runs[c].inputs
    /\ ~runs[c].late /\ (runs[c].closed => runs[c].inputs = {})

(* When an encoder has gone the channel that it fed last is not on the air.   *)
FedChannelStopped ==
  \A s \in Sessions : pc[s] = "closed" /\ inputChannel[s] # None => current # inputChannel[s]
=============================================================================
