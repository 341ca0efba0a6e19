---------------------------- MODULE PacketWindow ----------------------------
(***************************************************************************)
(* What internal/channel/content.go promises to its readers: a stream      *)
(* header and the window of the last BufSize packets written after it, in  *)
(* order.  Readers only see the operators of this module; ContentBuffer    *)
(* shows that the ring implements it.                                      *)
(*                                                                         *)
(* A packet is its position, its length and its timestamp.  Positions are  *)
(* byte offsets of 32 bits in the code and wrap at PosMod here.            *)
(***************************************************************************)
EXTENDS Integers, Sequences, SequencesExt

CONSTANTS
  BufSize,     \* packets the buffer holds
  PosMod,      \* positions are taken modulo PosMod (2^32 in the code)
  Headers,     \* lengths of the stream headers; a header stands for its bytes
  PacketLens,  \* lengths of data packets
  Times        \* timestamps of packets

VARIABLES
  header,   \* ContentBuffer.header and headerPos; length 0 before the first one
  window    \* the buffered packets, oldest first

Positions == 0 .. PosMod - 1
Packets == [pos : Positions, len : PacketLens, ts : Times]
NoHeader == [len |-> 0, pos |-> 0]

(* int32(a - b) < 0 *)
PosBefore(a, b) == (a - b) % PosMod >= PosMod - PosMod \div 2

(* uint32 addition *)
Advance(pos, n) == (pos + n) % PosMod
End(p) == Advance(p.pos, p.len)

(* The packets of w from the first of the given indices. *)
From(w, wanted) == IF wanted = {} THEN <<>> ELSE SubSeq(w, Min(wanted), Len(w))

(* Since and PacketsAfter on the packets in the order they were written.  A *)
(* zero ref.ts is the zero time: everything is newer.                       *)
Since(w, pos) == From(w, {i \in DOMAIN w : ~PosBefore(w[i].pos, pos)})

PacketsAfter_NoTie(w, ref) == From(w, {i \in DOMAIN w : w[i].ts > ref.ts})

PacketsAfter(w, ref) ==
  From(w, {i \in DOMAIN w : \/ ref.ts = 0
                            \/ w[i].ts > ref.ts
                            \/ w[i].ts = ref.ts /\ PosBefore(ref.pos, w[i].pos)})

(* The position just past the newest content; 0 without a header. *)
ContentPosition(h, w) ==
  IF h.len = 0 THEN 0 ELSE IF w = <<>> THEN Advance(h.pos, h.len) ELSE End(Last(w))

(* The last n elements of w. *)
LastOf(w, n) == IF Len(w) <= n THEN w ELSE SubSeq(w, Len(w) - n + 1, Len(w))

Init == header = NoHeader /\ window = <<>>

(* A new header empties the window; the current one again is ignored. *)
SetHeader(h) ==
  /\ h # header
  /\ header' = h
  /\ window' = <<>>

(* The oldest packet gives way when the buffer is full. *)
Write(p) ==
  /\ window' = LastOf(Append(window, p), BufSize)
  /\ UNCHANGED header

Next ==
  \/ \E h \in [len : Headers, pos : Positions] : SetHeader(h)
  \/ \E p \in Packets : Write(p)

Spec == Init /\ [][Next]_<<header, window>>
=============================================================================
