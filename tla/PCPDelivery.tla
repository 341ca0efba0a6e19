---------------------------- MODULE PCPDelivery ----------------------------
(***************************************************************************)
(* A relay output of internal/servent/pcp.go, from its registration to its *)
(* removal: sendInitial, startCursor and streamLoop against a concurrent   *)
(* source (StreamSource), with eviction and closing by other goroutines.   *)
(*                                                                         *)
(* Every read of the channel is a step of its own.  The connection is      *)
(* modelled by what was last written to it.  After Leave the same          *)
(* variables stand for the next relay that connects.                       *)
(***************************************************************************)
EXTENDS StreamSource

CONSTANTS
  ReqPositions,  \* values of x-peercast-pos; 0 is "not given"
  Forwarding     \* whether other nodes broadcast on the channel

ASSUME DeliveryAssumption ==
  /\ ReqPositions \subseteq 0 .. PosMod - 1
  /\ Forwarding \in BOOLEAN

VARIABLES
  pc,
  req,         \* the requested start position
  cur,         \* streamCursor: the next position, and waitingForKeyframe
  oldest,      \* the oldest position startCursor has read
  batch,       \* the packets sendDataPackets is going through
  closed,      \* closeCh is closed
  evicting,    \* makeRelayable has called Evict and not yet RemoveOutput
  sentHeader,  \* history: generation of the last header written to the peer
  sent,        \* history: the last packet written after that header
  metaSent     \* history: the info and track versions last written

outVars == <<pc, req, cur, oldest, batch, closed, evicting>>
wire == <<sentHeader, sent, metaSent>>
vars == <<srcVars, outVars, wire>>

Notices == Metas \cup {"header", "bcst"}

Init ==
  /\ SourceInit
  /\ pc = "out"
  /\ req = 0
  /\ cur = [pos |-> 0, wait |-> TRUE]
  /\ oldest = 0
  /\ batch = <<>>
  /\ closed = FALSE
  /\ evicting = FALSE
  /\ sentHeader = 0
  /\ sent = NoPacket
  /\ metaSent = [k \in Metas |-> 0]

(* tryAdmit has succeeded and runStreaming begins. *)
AddOutput ==
  /\ pc = "out"
  /\ registered' = TRUE
  /\ req' \in ReqPositions
  /\ pc' = "initial"
  /\ UNCHANGED <<header, window, src, serial, version, due, pending, signalled>>
  /\ UNCHANGED <<cur, oldest, batch, closed, evicting, wire>>

(* sendInitial reads the info and the track, *)
ReadMeta ==
  /\ pc = "initial"
  /\ metaSent' = version
  /\ pc' = "initialHeader"
  /\ UNCHANGED <<srcVars, req, cur, oldest, batch, closed, evicting, sentHeader, sent>>

(* A header is written: the packets after it belong to it. *)
WriteHeader ==
  /\ sentHeader' = header.gen
  /\ sent' = NoPacket
  /\ UNCHANGED metaSent

(* then the header, and writes the chan and host atoms. *)
SendInitial ==
  /\ pc = "initialHeader"
  /\ WriteHeader
  /\ pc' = "cursor"
  /\ UNCHANGED <<srcVars, req, cur, oldest, batch, closed, evicting>>

-----------------------------------------------------------------------------
(* startCursor: the header position if nothing is buffered, *)
CursorHeader ==
  /\ pc = "cursor"
  /\ cur' = [pos |-> header.pos, wait |-> TRUE]
  /\ pc' = "hasData"
  /\ UNCHANGED <<srcVars, req, oldest, batch, closed, evicting, wire>>

HasData ==
  /\ pc = "hasData"
  /\ pc' = IF window = <<>> THEN "drain" ELSE "oldest"
  /\ UNCHANGED <<srcVars, req, cur, oldest, batch, closed, evicting, wire>>

OldestPos ==
  /\ pc = "oldest"
  /\ oldest' = IF window = <<>> THEN 0 ELSE window[1].pos
  /\ pc' = "clamp"
  /\ UNCHANGED <<srcVars, req, cur, batch, closed, evicting, wire>>

StartPos_Unclamped(r, old, new) == IF r = 0 THEN old ELSE r

(* otherwise the request, clamped to what is buffered. *)
StartPos(r, old, new) ==
  IF r = 0 \/ W!PosBefore(r, old) THEN old
  ELSE IF W!PosBefore(new, r) THEN new ELSE r

Clamp ==
  /\ pc = "clamp"
  /\ cur' = [cur EXCEPT !.pos = StartPos(req, oldest, W!ContentPosition(header, window))]
  /\ oldest' = 0
  /\ pc' = "drain"
  /\ UNCHANGED <<srcVars, req, batch, closed, evicting, wire>>

-----------------------------------------------------------------------------
(* A token is taken from a notification channel: in drainNotifications, in the *)
(* select of streamLoop, or, for the header, before packets are sent.          *)
TakeNotice(k) ==
  /\ k \in pending
  /\ pc \in {"drain", "wait"} \/ (pc = "check" /\ k = "header")
  /\ pending' = pending \ {k}
  /\ pc' = k
  /\ batch' = <<>>
  /\ UNCHANGED <<header, window, src, serial, version, due, registered, signalled>>
  /\ UNCHANGED <<req, cur, oldest, closed, evicting, wire>>

(* sendHeaderUpdate restarts the cursor from the header it sends. *)
SendHeaderUpdate ==
  /\ pc = "header"
  /\ WriteHeader
  /\ cur' = [pos |-> header.pos, wait |-> TRUE]
  /\ pc' = "drain"
  /\ UNCHANGED <<srcVars, req, oldest, batch, closed, evicting>>

(* sendInfoUpdate and sendTrackUpdate send the current value. *)
SendMetaUpdate ==
  /\ pc \in Metas
  /\ metaSent' = [metaSent EXCEPT ![pc] = version[pc]]
  /\ pc' = "drain"
  /\ UNCHANGED <<srcVars, req, cur, oldest, batch, closed, evicting, sentHeader, sent>>

SendBcstAtom ==
  /\ pc = "bcst"
  /\ pc' = "drain"
  /\ UNCHANGED <<srcVars, req, cur, oldest, batch, closed, evicting, wire>>

(* drainNotifications returns when every channel is empty; Signal follows. *)
Signal ==
  /\ pc = "drain" /\ pending = {}
  /\ signalled' = FALSE
  /\ pc' = "since"
  /\ UNCHANGED <<header, window, src, serial, version, due, registered, pending>>
  /\ UNCHANGED <<req, cur, oldest, batch, closed, evicting, wire>>

Since_NoRecheck ==
  /\ pc = "since"
  /\ batch' = W!Since(window, cur.pos)
  /\ pc' = IF batch' = <<>> THEN "wait" ELSE "send"
  /\ UNCHANGED <<srcVars, req, cur, oldest, closed, evicting, wire>>

Since ==
  /\ pc = "since"
  /\ batch' = W!Since(window, cur.pos)
  /\ pc' = IF batch' = <<>> THEN "wait" ELSE "check"
  /\ UNCHANGED <<srcVars, req, cur, oldest, closed, evicting, wire>>

(* No header change was notified meanwhile: sendDataPackets. *)
NoNewHeader ==
  /\ pc = "check" /\ "header" \notin pending
  /\ pc' = "send"
  /\ UNCHANGED <<srcVars, req, cur, oldest, batch, closed, evicting, wire>>

SendData_CursorAtStart ==
  LET p == Head(batch)
      skip == cur.wait /\ ~p.key
  IN
  /\ pc = "send"
  /\ cur' = [pos |-> p.pos, wait |-> skip]
  /\ sent' = IF skip THEN sent ELSE p
  /\ batch' = Tail(batch)
  /\ pc' = IF batch' = <<>> THEN "drain" ELSE "send"
  /\ UNCHANGED <<srcVars, req, oldest, closed, evicting, sentHeader, metaSent>>

(* One packet of sendDataPackets; the chunks of a large one are one write. *)
SendData ==
  LET p == Head(batch)
      skip == cur.wait /\ ~p.key
  IN
  /\ pc = "send"
  /\ cur' = [pos |-> W!End(p), wait |-> skip]
  /\ sent' = IF skip THEN sent ELSE p
  /\ batch' = Tail(batch)
  /\ pc' = IF batch' = <<>> THEN "drain" ELSE "send"
  /\ UNCHANGED <<srcVars, req, oldest, closed, evicting, sentHeader, metaSent>>

(* The select wakes up because of new data, *)
WakeUp ==
  /\ pc = "wait" /\ signalled
  /\ pc' = "drain"
  /\ UNCHANGED <<srcVars, req, cur, oldest, batch, closed, evicting, wire>>

(* or because the stream is closed: hosts and QUIT are sent. *)
CloseSeen ==
  /\ pc = "wait" /\ closed
  /\ pc' = "leaving"
  /\ UNCHANGED <<srcVars, req, cur, oldest, batch, closed, evicting, wire>>

(* A write fails, or the queue is older than outputQueueTimeout. *)
WriteFails ==
  /\ pc \in Notices \cup {"initialHeader", "send"}
  /\ pc' = "leaving"
  /\ UNCHANGED <<srcVars, req, cur, oldest, batch, closed, evicting, wire>>

(* handlePCPRelay calls RemoveOutput and returns; notifications that are still *)
(* under way reach an output nobody reads.                                     *)
Leave ==
  /\ pc = "leaving" /\ ~evicting
  /\ registered' = FALSE
  /\ pending' = {}
  /\ signalled' = FALSE
  /\ due' = [k \in Metas |-> 0]
  /\ src' = IF src = "notify" THEN "idle" ELSE src
  /\ pc' = "out"
  /\ req' = 0
  /\ cur' = [pos |-> 0, wait |-> TRUE]
  /\ batch' = <<>>
  /\ closed' = FALSE
  /\ sentHeader' = 0 /\ sent' = NoPacket
  /\ metaSent' = [k \in Metas |-> 0]
  /\ UNCHANGED <<header, window, serial, version, oldest, evicting>>

-----------------------------------------------------------------------------
(* CloseConnection, or readLoop after an error or a QUIT of the peer. *)
Close ==
  /\ pc # "out" /\ ~closed
  /\ closed' = TRUE
  /\ UNCHANGED <<srcVars, pc, req, cur, oldest, batch, evicting, wire>>

(* makeRelayable evicts the stream, *)
Evict ==
  /\ registered /\ ~evicting
  /\ closed' = TRUE
  /\ evicting' = TRUE
  /\ UNCHANGED <<srcVars, pc, req, cur, oldest, batch, wire>>

(* and unregisters it. *)
RemoveOutput ==
  /\ evicting
  /\ registered' = FALSE
  /\ evicting' = FALSE
  /\ UNCHANGED <<header, window, src, serial, version, due, pending, signalled>>
  /\ UNCHANGED <<pc, req, cur, oldest, batch, closed, wire>>

(* SendBcst: a broadcast of another node is forwarded; a full queue drops it. *)
SendBcst ==
  /\ Forwarding /\ registered
  /\ pending' = pending \cup {"bcst"}
  /\ UNCHANGED <<header, window, src, serial, version, due, registered, signalled>>
  /\ UNCHANGED <<outVars, wire>>

(* The goroutine of the output. *)
Output ==
  \/ ReadMeta \/ SendInitial \/ CursorHeader \/ HasData \/ OldestPos \/ Clamp
  \/ \E k \in Notices : TakeNotice(k)
  \/ SendHeaderUpdate \/ SendMetaUpdate \/ SendBcstAtom
  \/ Signal \/ Since \/ NoNewHeader \/ SendData \/ WakeUp \/ CloseSeen \/ Leave

Source == SourceNext /\ UNCHANGED <<outVars, wire>>

Next ==
  \/ Source \/ AddOutput \/ Output \/ WriteFails
  \/ Close \/ Evict \/ RemoveOutput \/ SendBcst

Spec == Init /\ [][Next]_vars

-----------------------------------------------------------------------------
(* Every variable of the output and of the source has its type. *)
TypeOK ==
  /\ SourceTypeOK
  /\ pc \in Notices \cup {"out", "initial", "initialHeader", "cursor", "hasData", "oldest", "clamp",
                          "drain", "since", "check", "send", "wait", "leaving"}
  /\ req \in ReqPositions \cup {0}
  /\ cur \in [pos : W!Positions, wait : BOOLEAN]
  /\ oldest \in W!Positions
  /\ batch \in Seq(StreamPackets)
  /\ closed \in BOOLEAN /\ evicting \in BOOLEAN
  /\ sentHeader \in Generations
  /\ sent \in StreamPackets \cup {NoPacket}
  /\ metaSent \in [Metas -> 0 .. MaxVersions]

(* The step writes a data packet, which is then sent'. *)
Sends == pc = "send" /\ batch' = Tail(batch) /\ ~cur'.wait

(* Data goes out only after the header it was written for: a header change    *)
(* between any two of the output's reads is noticed before new data is sent   *)
(* (pcp.go: "rather than leaking new data behind the old header"), as long as *)
(* the output is registered.                                                  *)
DataUnderOwnHeader == [][Sends /\ registered => sent'.gen = sentHeader]_vars

(* After a header the first packet is a keyframe; after a packet comes the    *)
(* next one, neither repeated nor out of order nor skipped, unless it was     *)
(* overwritten before it could be read.                                       *)
NoGap ==
  [][Sends /\ registered =>
              IF sent = NoPacket THEN sent'.key
              ELSE /\ sent'.ts > sent.ts
                   /\ \A i \in DOMAIN window :
                        ~(sent.ts < window[i].ts /\ window[i].ts < sent'.ts)]_vars

(* An output that waits has sent everything, or something under way will wake *)
(* it: no wake-up is lost between Signal, Since and the select, and the one   *)
(* token of each notification channel is enough for the last info and track.  *)
NoLostWakeup ==
  pc = "wait" /\ registered =>
    /\ \/ W!Since(window, cur.pos) = <<>>
       \/ signalled \/ "header" \in pending \/ src \in {"written", "snapshot", "notify"}
    /\ \A k \in Metas : metaSent[k] = version[k] \/ k \in pending \/ due[k] > 0

(* A relay that asks for a position inside the buffer starts there, and one   *)
(* outside is given what is buffered or nothing, never a position that no     *)
(* later packet can reach.                                                    *)
CursorInReach ==
  pc \in {"drain", "since", "wait"} /\ pending = {} /\ src = "idle" /\ registered /\ header.gen > 0 =>
    ~W!PosBefore(W!ContentPosition(header, window), cur.pos)
=============================================================================
