---------------------------- MODULE HTTPDelivery ----------------------------
(***************************************************************************)
(* A viewer's output of internal/servent/http.go: HTTPOutputStream.run,    *)
(* from its registration to its removal, against a concurrent source       *)
(* (StreamSource).  Info version 0 is a relay that has no info yet.        *)
(*                                                                         *)
(* Every read of the channel is a step of its own.  The connection is      *)
(* modelled by what was last written to it.  After Leave the same          *)
(* variables stand for the next viewer that connects.                      *)
(***************************************************************************)
EXTENDS StreamSource

ASSUME ViewerAssumption == "info" \in Metas

VARIABLES
  pc,
  ref,         \* the variable sent of run: the last packet written or skipped
  keyWait,     \* waitingForKeyframe
  batch,       \* the packets that run is going through
  closed,      \* closeCh is closed
  sentHeader,  \* history: generation of the last header written to the viewer
  sent,        \* history: the last packet written after that header
  newest       \* history: the timestamp of the newest packet written to the viewer

outVars == <<pc, ref, keyWait, batch, closed>>
wire == <<sentHeader, sent, newest>>
vars == <<srcVars, outVars, wire>>

Init ==
  /\ SourceInit
  /\ pc = "out"
  /\ ref = NoPacket
  /\ keyWait = TRUE
  /\ batch = <<>>
  /\ closed = FALSE
  /\ sentHeader = 0
  /\ sent = NoPacket
  /\ newest = 0

Goto(label) == pc' = label
Local == <<ref, keyWait, batch, closed>>

(* tryAdmit has succeeded and run begins. *)
AddOutput ==
  /\ pc = "out"
  /\ registered' = TRUE
  /\ Goto("info")
  /\ UNCHANGED <<header, window, src, serial, version, due, pending, signalled, Local, wire>>

(* The info is read; without a content type run waits for a notification. *)
ReadInfo ==
  /\ pc = "info"
  /\ Goto(IF version["info"] = 0 THEN "waitInfo" ELSE "respond")
  /\ UNCHANGED <<srcVars, Local, wire>>

InfoArrives ==
  /\ pc = "waitInfo" /\ "info" \in pending
  /\ pending' = pending \ {"info"}
  /\ Goto("info")
  /\ UNCHANGED <<header, window, src, serial, version, due, registered, signalled, Local, wire>>

(* infoWaitTimeout: 504; firstDataTimeout: the connection is closed. *)
Timeout ==
  /\ pc \in {"waitInfo", "firstWait"}
  /\ Goto("leaving")
  /\ UNCHANGED <<srcVars, Local, wire>>

(* The response headers are written. *)
Respond ==
  /\ pc = "respond"
  /\ Goto("hasData")
  /\ UNCHANGED <<srcVars, Local, wire>>

(* HasData, and only then Signal. *)
HasData ==
  /\ pc = "hasData"
  /\ Goto(IF window = <<>> THEN "firstSignal" ELSE "drop")
  /\ UNCHANGED <<srcVars, Local, wire>>

FirstSignal ==
  /\ pc = "firstSignal"
  /\ signalled' = FALSE
  /\ Goto("firstWait")
  /\ UNCHANGED <<header, window, src, serial, version, due, registered, pending, Local, wire>>

FirstData ==
  /\ pc = "firstWait" /\ signalled
  /\ Goto("drop")
  /\ UNCHANGED <<srcVars, Local, wire>>

(* A header notification queued so far is dropped, *)
DropNotice ==
  /\ pc = "drop"
  /\ pending' = pending \ {"header"}
  /\ Goto("first")
  /\ UNCHANGED <<header, window, src, serial, version, due, registered, signalled, Local, wire>>

(* The header is written, if there is one. *)
WriteHeader ==
  /\ sentHeader' = IF header.gen > 0 THEN header.gen ELSE sentHeader
  /\ sent' = IF header.gen > 0 THEN NoPacket ELSE sent

(* and the stream header is sent. *)
SendHeader ==
  /\ pc = "first"
  /\ WriteHeader
  /\ Goto("top")
  /\ UNCHANGED <<srcVars, Local, newest>>

-----------------------------------------------------------------------------
(* The top of the loop and the select look for a header notification. *)
TakeHeader ==
  /\ pc \in {"top", "wait"} /\ "header" \in pending
  /\ pending' = pending \ {"header"}
  /\ Goto(IF pc = "top" THEN "update" ELSE "updateTop")
  /\ UNCHANGED <<header, window, src, serial, version, due, registered, signalled, Local, wire>>

(* writeHeaderUpdate; sent becomes the zero Content and keyframes are awaited. *)
WriteHeaderUpdate ==
  /\ pc \in {"update", "updateTop"}
  /\ WriteHeader
  /\ IF header.gen > 0 THEN ref' = NoPacket /\ keyWait' = TRUE ELSE UNCHANGED <<ref, keyWait>>
  /\ Goto(IF pc = "update" THEN "signal" ELSE "top")
  /\ UNCHANGED <<srcVars, batch, closed, newest>>

NoHeaderNotice ==
  /\ pc = "top" /\ "header" \notin pending
  /\ Goto("signal")
  /\ UNCHANGED <<srcVars, Local, wire>>

Signal ==
  /\ pc = "signal"
  /\ signalled' = FALSE
  /\ Goto("after")
  /\ UNCHANGED <<header, window, src, serial, version, due, registered, pending, Local, wire>>

PacketsAfter ==
  /\ pc = "after"
  /\ batch' = W!PacketsAfter(window, ref)
  /\ Goto(IF batch' = <<>> THEN "wait" ELSE "send")
  /\ UNCHANGED <<srcVars, ref, keyWait, closed, wire>>

WakeUp ==
  /\ pc = "wait" /\ signalled
  /\ Goto("top")
  /\ UNCHANGED <<srcVars, Local, wire>>

SendData_ForgetSent ==
  LET p == Head(batch)
      skip == keyWait /\ ~p.key
  IN
  /\ pc = "send"
  /\ keyWait' = skip
  /\ sent' = IF skip THEN sent ELSE p
  /\ newest' = IF skip \/ p.ts <= newest THEN newest ELSE p.ts
  /\ batch' = Tail(batch)
  /\ Goto(IF batch' = <<>> THEN "top" ELSE "send")
  /\ UNCHANGED <<srcVars, ref, closed, sentHeader>>

(* One packet of the batch is written, or skipped before the first keyframe. *)
SendData ==
  LET p == Head(batch)
      skip == keyWait /\ ~p.key
  IN
  /\ pc = "send"
  /\ ref' = p
  /\ keyWait' = skip
  /\ sent' = IF skip THEN sent ELSE p
  /\ newest' = IF skip \/ p.ts <= newest THEN newest ELSE p.ts
  /\ batch' = Tail(batch)
  /\ Goto(IF batch' = <<>> THEN "top" ELSE "send")
  /\ UNCHANGED <<srcVars, closed, sentHeader>>

(* closeCh is watched wherever run waits. *)
CloseSeen ==
  /\ pc \in {"waitInfo", "firstWait", "wait"} /\ closed
  /\ Goto("leaving")
  /\ UNCHANGED <<srcVars, Local, wire>>

WriteFails ==
  /\ pc \in {"respond", "first", "update", "updateTop", "send"}
  /\ Goto("leaving")
  /\ UNCHANGED <<srcVars, Local, wire>>

(* handleHTTPStream calls RemoveOutput and returns; notifications that are     *)
(* still under way reach an output nobody reads.                               *)
Leave ==
  /\ pc = "leaving"
  /\ registered' = FALSE
  /\ pending' = {}
  /\ signalled' = FALSE
  /\ due' = [k \in Metas |-> 0]
  /\ src' = IF src = "notify" THEN "idle" ELSE src
  /\ Goto("out")
  /\ ref' = NoPacket /\ keyWait' = TRUE /\ batch' = <<>> /\ closed' = FALSE
  /\ sentHeader' = 0 /\ sent' = NoPacket /\ newest' = 0
  /\ UNCHANGED <<header, window, serial, version>>

(* CloseConnection, or the reading goroutine when the viewer disconnects. *)
Close ==
  /\ pc # "out" /\ ~closed
  /\ closed' = TRUE
  /\ UNCHANGED <<srcVars, pc, ref, keyWait, batch, wire>>

Output ==
  \/ ReadInfo \/ InfoArrives \/ Timeout \/ Respond \/ HasData \/ FirstSignal \/ FirstData
  \/ DropNotice \/ SendHeader \/ TakeHeader \/ WriteHeaderUpdate \/ NoHeaderNotice
  \/ Signal \/ PacketsAfter \/ WakeUp \/ SendData \/ CloseSeen \/ Leave

Source == SourceNext /\ UNCHANGED <<outVars, wire>>

Next == Source \/ AddOutput \/ Output \/ WriteFails \/ Close

Spec == Init /\ [][Next]_vars

(* The scheduler runs every goroutine, and timers fire. *)
Fairness ==
  /\ WF_vars(Output)
  /\ WF_vars(Notifications /\ UNCHANGED <<outVars, wire>>)

FairSpec == Spec /\ Fairness

-----------------------------------------------------------------------------
(* Every variable of the output and of the source has its type. *)
TypeOK ==
  /\ SourceTypeOK
  /\ pc \in {"out", "info", "waitInfo", "respond", "hasData", "firstSignal", "firstWait", "drop",
             "first", "top", "update", "updateTop", "signal", "after", "wait", "send", "leaving"}
  /\ ref \in StreamPackets \cup {NoPacket}
  /\ keyWait \in BOOLEAN
  /\ batch \in Seq(StreamPackets)
  /\ closed \in BOOLEAN
  /\ sentHeader \in Generations
  /\ sent \in StreamPackets \cup {NoPacket}
  /\ newest \in 0 .. MaxPackets

(* The step writes a data packet, which is then sent'. *)
Sends == pc = "send" /\ batch' = Tail(batch) /\ ~keyWait'

(* After each header that is written the first packet is a keyframe, and      *)
(* until the next one is written a packet is followed by the next one, not    *)
(* skipped unless it was overwritten first (http.go, sent).                   *)
GoesOn ==
  IF sent = NoPacket THEN sent'.key
  ELSE /\ sent'.ts > sent.ts
       /\ \A i \in DOMAIN window : ~(sent.ts < window[i].ts /\ window[i].ts < sent'.ts)

(* writeHeaderUpdate forgets what was sent, so packets can be sent again: that *)
(* were sent ahead of their header, or behind one for which the notification   *)
(* was still under way.  Whatever is sent again goes behind its own header,    *)
(* where the viewer's decoder starts over.                                     *)
RepeatsOwnStream == sent'.ts > newest \/ sent'.gen = sentHeader

(* Between two headers that are written the packets are contiguous, and only a *)
(* header that is written late has packets sent twice, its own.                *)
Contiguous == [][Sends => GoesOn /\ RepeatsOwnStream]_vars

(* Every header reaches a connected viewer, or the viewer is disconnected.    *)
HeaderDelivered ==
  \A g \in 1 .. MaxHeaders :
    (pc # "out" /\ header.gen = g) ~> (pc = "out" \/ sentHeader >= g)

(* "a concurrent SetHeader+Write sequence cannot leak new body bytes ahead of *)
(* the new header" (http.go).  It can: the header may change between the      *)
(* check at the top of the loop and PacketsAfter.                             *)
NoEarlyBody == [][Sends => sent'.gen <= sentHeader]_vars
=============================================================================
