--------------------------- MODULE ContentBuffer ---------------------------
(***************************************************************************)
(* The ring buffer of internal/channel/content.go with the two sources     *)
(* that fill it: the RTMP handler, which counts positions itself and       *)
(* continues the channel's positions when an encoder reconnects            *)
(* (internal/rtmp/server.go), and the relay client, which takes over the   *)
(* positions of its upstream (internal/relay/client.go).                   *)
(*                                                                         *)
(* The operators of PacketWindow are applied to the packets in ring order. *)
(***************************************************************************)
EXTENDS Integers, Sequences

CONSTANTS BufSize, PosMod, Headers, PacketLens, Times,
  UpstreamPos,  \* header positions an upstream starts with
  Stride,       \* bound on the bytes of a header or packet with those skipped before it
  MaxSteps      \* bound on the headers and packets of a behaviour

ASSUME BufferAssumption ==
  /\ BufSize \in Nat \ {0}
  /\ PosMod \in Nat /\ PosMod >= 2
  /\ Headers \subseteq Nat \ {0}
  /\ PacketLens \subseteq Nat \ {0}
  /\ Times \subseteq Nat \ {0}
  /\ UpstreamPos \subseteq 0 .. PosMod - 1
  /\ MaxSteps \in Nat

(* Half of the position space "is far more than a buffer ever holds". *)
ASSUME StrideAssumption ==
  /\ Stride \in Nat
  /\ \A len \in Headers \cup PacketLens : len < Stride
  /\ BufSize * Stride < PosMod \div 2

VARIABLES
  header,     \* header and headerPos
  packets,    \* the ring; slots keep what was written before the last header
  count,      \* packets written since the header
  streamPos,  \* the source's position: handler.streamPos, or the upstream's
  steps,      \* number of headers and packets so far
  log         \* history: all packets since the header, oldest first

vars == <<header, packets, count, streamPos, steps, log>>

NoPacket == [pos |-> 0, len |-> 0, ts |-> 0]

(* The ring indices of the buffered packets, from start to end - 1. *)
Start(n) == IF n > BufSize THEN n - BufSize ELSE 0
Window == [i \in 1 .. count - Start(count) |-> packets[(Start(count) + i - 1) % BufSize]]

W == INSTANCE PacketWindow WITH window <- Window

(* OldestPos and NewestPos, as they index the ring. *)
OldestPos_FirstSlot == IF count = 0 THEN 0 ELSE packets[0].pos

OldestPos ==
  IF count = 0 THEN 0
  ELSE IF count <= BufSize THEN packets[0].pos ELSE packets[count % BufSize].pos

NewestPos == IF count = 0 THEN 0 ELSE packets[(count - 1) % BufSize].pos

Init ==
  /\ header = W!NoHeader
  /\ packets = [i \in 0 .. BufSize - 1 |-> NoPacket]
  /\ count = 0
  /\ streamPos = 0
  /\ steps = 0
  /\ log = <<>>

SetHeader_KeepCount(len, pos) ==
  /\ header' = [len |-> len, pos |-> pos]
  /\ log' = <<>>
  /\ steps < MaxSteps /\ steps' = steps + 1
  /\ UNCHANGED <<packets, count>>

(* SetHeader with a header that differs in bytes or position. *)
SetHeader(len, pos) ==
  /\ [len |-> len, pos |-> pos] # header
  /\ header' = [len |-> len, pos |-> pos]
  /\ count' = 0
  /\ log' = <<>>
  /\ steps < MaxSteps /\ steps' = steps + 1
  /\ UNCHANGED packets

(* Write at the given position; the clock may not have moved since the last. *)
Write(len, pos, ts) ==
  LET p == [pos |-> pos, len |-> len, ts |-> ts] IN
  /\ log # <<>> => ts >= log[Len(log)].ts
  /\ packets' = [packets EXCEPT ![count % BufSize] = p]
  /\ count' = count + 1
  /\ steps < MaxSteps /\ steps' = steps + 1
  /\ log' = Append(log, p)
  /\ UNCHANGED header

-----------------------------------------------------------------------------
(* rebuildHeader of a new RTMP session: the position space is continued. *)
EncoderStarts(len) ==
  LET pos == W!ContentPosition(header, Window) IN
  /\ SetHeader(len, pos)
  /\ streamPos' = W!Advance(pos, len)

(* rebuildHeader in the middle of a session; the same header again is ignored. *)
EncoderHeader(len) ==
  /\ header.len \notin {0, len}
  /\ SetHeader(len, streamPos)
  /\ streamPos' = W!Advance(streamPos, len)

(* writeData: data follows the header and the previous data without a gap. *)
WriteData(len, ts) ==
  /\ header.len > 0
  /\ Write(len, streamPos, ts)
  /\ streamPos' = W!Advance(streamPos, len)

(* handlePkt of the relay client: a head packet at any position of the upstream. *)
UpstreamHead(len, pos) ==
  /\ SetHeader(len, pos)
  /\ streamPos' = W!Advance(pos, len)

(* A data packet of the upstream, after bytes it skipped.  handlePkt takes the *)
(* position as it comes; an upstream that goes back under one header is not    *)
(* modelled.                                                                   *)
UpstreamData(len, skipped, ts) ==
  /\ header.len > 0
  /\ Write(len, W!Advance(streamPos, skipped), ts)
  /\ streamPos' = W!Advance(streamPos, skipped + len)

Next ==
  \/ \E len \in Headers : EncoderStarts(len) \/ EncoderHeader(len)
  \/ \E len \in PacketLens, ts \in Times : WriteData(len, ts) \/ UpstreamData(len, 1, ts)
  \/ \E len \in Headers, pos \in UpstreamPos : UpstreamHead(len, pos)

Spec == Init /\ [][Next]_vars

-----------------------------------------------------------------------------
(* Every variable of the buffer has its type. *)
TypeOK ==
  /\ header \in [len : Headers \cup {0}, pos : W!Positions]
  /\ packets \in [0 .. BufSize - 1 -> W!Packets \cup {NoPacket}]
  /\ count \in Nat
  /\ streamPos \in W!Positions
  /\ steps \in 0 .. MaxSteps
  /\ log \in Seq(W!Packets)

(* The ring implements the abstract window: a header empties it, a write adds *)
(* at the end and drops the oldest, and slots left over from before the last  *)
(* header are never seen.                                                     *)
RefinesWindow == W!Spec

(* A reader that has sent the k-th packet since the header, and asks for what *)
(* follows it, gets exactly the later packets that are still buffered,        *)
(* whatever wrapped, was skipped or was overwritten: by position from its end *)
(* (content.go, Since; pcp.go, streamCursor), and by timestamp and position,  *)
(* also between packets of the same timestamp (content.go, PacketsAfter:      *)
(* "guarantee monotonic delivery").  One that has sent nothing gets all.  A   *)
(* reader may be behind by any number of packets that is in reach: PosBefore  *)
(* orders positions that are less than half of the space apart.               *)
After(k) == W!LastOf(SubSeq(log, k + 1, Len(log)), BufSize)
InReach(k) == (Len(log) - k + 1) * Stride < PosMod \div 2
ReadersExact ==
  /\ header.len > 0 /\ InReach(0) => W!Since(Window, header.pos) = After(0)
  /\ W!PacketsAfter(Window, NoPacket) = After(0)
  /\ \A k \in 1 .. Len(log) :
       InReach(k) => /\ W!Since(Window, W!End(log[k])) = After(k)
                     /\ W!PacketsAfter(Window, log[k]) = After(k)

(* The positions announced to other nodes (OldPos, NewPos) are those of the   *)
(* oldest and newest packets that are still buffered, and ContentPosition,    *)
(* from which a relay resumes and a reconnecting encoder continues, is the    *)
(* position the source has reached, on either side of a wrap.                 *)
PositionsExact ==
  /\ count > 0 => /\ OldestPos = After(0)[1].pos
                  /\ NewestPos = log[Len(log)].pos
  /\ header.len > 0 => W!ContentPosition(header, Window) = streamPos
=============================================================================
