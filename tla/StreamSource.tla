---------------------------- MODULE StreamSource ----------------------------
(***************************************************************************)
(* The sending half of a channel, as one output sees it: the source        *)
(* goroutine (RTMP handler or relay client) that calls Channel.SetHeader   *)
(* and Channel.Write, and the callers of SetInfo and SetTrack.             *)
(*                                                                         *)
(* Each call takes several steps: the buffer changes first, then the list  *)
(* of outputs is copied, then each of them is notified; Write changes the  *)
(* buffer and then closes the signal channel.  The notification channels   *)
(* hold one token each.  The buffer is the window that ContentBuffer is    *)
(* shown to implement.                                                     *)
(*                                                                         *)
(* A packet has, besides what PacketWindow needs, the generation of the    *)
(* header it was written after, a serial number and a keyframe flag; the   *)
(* serial number is its timestamp.  Packets and headers are one byte long. *)
(***************************************************************************)
EXTENDS Integers, Sequences, FiniteSets

CONSTANTS
  BufSize, PosMod,
  UpstreamPos,  \* the header position of an upstream that starts over
  Metas,        \* what SetInfo and SetTrack set: a subset of {"info", "track"}
  MaxHeaders,   \* bound on header changes
  MaxPackets,   \* bound on packets
  MaxVersions   \* bound on the changes of each of Metas

ASSUME SourceAssumption ==
  /\ BufSize \in Nat \ {0} /\ PosMod \in Nat \ {0, 1} /\ UpstreamPos \in 0 .. PosMod - 1
  /\ Metas \subseteq {"info", "track"}
  /\ MaxHeaders \in Nat /\ MaxPackets \in Nat /\ MaxVersions \in Nat

(* The output is never behind by half of the position space: 2^31 bytes. *)
ASSUME WrapAssumption == MaxPackets + 1 < PosMod \div 2

VARIABLES
  header,      \* buffer.header: its generation, 0 before the first, and its position
  window,      \* the packets in the buffer
  src,         \* what the source goroutine does next
  serial,      \* packets written so far
  version,     \* Channel.info and Channel.track
  due,         \* callers of SetInfo and SetTrack that are still to notify the output
  registered,  \* the output is in Channel.outputs
  pending,     \* tokens in the output's notification channels
  signalled    \* the signal channel the output holds has been closed

srcVars == <<header, window, src, serial, version, due, registered, pending, signalled>>

W == INSTANCE PacketWindow
       WITH Headers <- {1}, PacketLens <- {1}, Times <- 1 .. MaxPackets

Generations == 0 .. MaxHeaders
StreamPackets ==
  [pos : W!Positions, len : {1}, ts : 1 .. MaxPackets, gen : Generations, key : BOOLEAN]
NoPacket == [pos |-> 0, len |-> 0, ts |-> 0, gen |-> 0, key |-> FALSE]

SourceInit ==
  /\ header = [gen |-> 0, len |-> 0, pos |-> 0]
  /\ window = <<>>
  /\ src = "idle"
  /\ serial = 0
  /\ version = [k \in Metas |-> 0]
  /\ due = [k \in Metas |-> 0]
  /\ registered = FALSE
  /\ pending = {}
  /\ signalled = FALSE

(* Channel.SetHeader with a new header: the buffer is emptied.  An encoder    *)
(* continues the channel's positions, an upstream may start over.             *)
SetHeader ==
  /\ src = "idle" /\ header.gen < MaxHeaders
  /\ \E pos \in {W!ContentPosition(header, window), UpstreamPos} :
       header' = [gen |-> header.gen + 1, len |-> 1, pos |-> pos]
  /\ window' = <<>>
  /\ src' = "snapshot"
  /\ UNCHANGED <<serial, version, due, registered, pending, signalled>>

(* The outputs are copied under Channel.mu, *)
Snapshot ==
  /\ src = "snapshot"
  /\ src' = IF registered THEN "notify" ELSE "idle"
  /\ UNCHANGED <<header, window, serial, version, due, registered, pending, signalled>>

(* and notified one by one. *)
NotifyHeader_Lost ==
  /\ src = "notify"
  /\ src' = "idle"
  /\ UNCHANGED <<header, window, serial, version, due, registered, pending, signalled>>

NotifyHeader ==
  /\ src = "notify"
  /\ pending' = pending \cup {"header"}
  /\ src' = "idle"
  /\ UNCHANGED <<header, window, serial, version, due, registered, signalled>>

(* Channel.Write: the packet enters the buffer, *)
Write ==
  /\ src = "idle" /\ header.gen > 0 /\ serial < MaxPackets
  /\ \E key \in BOOLEAN :
       window' = W!LastOf(Append(window, [pos |-> W!ContentPosition(header, window), len |-> 1,
                                          ts |-> serial + 1, gen |-> header.gen, key |-> key]),
                          BufSize)
  /\ serial' = serial + 1
  /\ src' = "written"
  /\ UNCHANGED <<header, version, due, registered, pending, signalled>>

(* and notifyWrite closes the signal channel. *)
NotifyWrite ==
  /\ src = "written"
  /\ signalled' = TRUE
  /\ src' = "idle"
  /\ UNCHANGED <<header, window, serial, version, due, registered, pending>>

(* SetInfo or SetTrack, which copies the outputs in the section that sets it. *)
SetMeta(k) ==
  /\ version[k] < MaxVersions
  /\ version' = [version EXCEPT ![k] = @ + 1]
  /\ due' = [due EXCEPT ![k] = IF registered THEN @ + 1 ELSE @]
  /\ UNCHANGED <<header, window, src, serial, registered, pending, signalled>>

NotifyMeta_SharedToken(k) ==
  /\ due[k] > 0
  /\ due' = [due EXCEPT ![k] = @ - 1]
  /\ pending' = IF pending = {} THEN {k} ELSE pending
  /\ UNCHANGED <<header, window, src, serial, version, registered, signalled>>

NotifyMeta(k) ==
  /\ due[k] > 0
  /\ due' = [due EXCEPT ![k] = @ - 1]
  /\ pending' = pending \cup {k}
  /\ UNCHANGED <<header, window, src, serial, version, registered, signalled>>

Notifications == Snapshot \/ NotifyHeader \/ NotifyWrite \/ \E k \in Metas : NotifyMeta(k)

SourceNext == SetHeader \/ Write \/ Notifications \/ \E k \in Metas : SetMeta(k)

SourceTypeOK ==
  /\ header \in [gen : Generations, len : {0, 1}, pos : W!Positions]
  /\ window \in Seq(StreamPackets)
  /\ src \in {"idle", "snapshot", "notify", "written"}
  /\ serial \in 0 .. MaxPackets
  /\ version \in [Metas -> 0 .. MaxVersions]
  /\ due \in [Metas -> 0 .. MaxVersions]
  /\ registered \in BOOLEAN
  /\ pending \subseteq Metas \cup {"header", "bcst"}
  /\ signalled \in BOOLEAN
=============================================================================
