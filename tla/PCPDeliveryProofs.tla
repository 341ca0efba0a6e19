-------------------------- MODULE PCPDeliveryProofs --------------------------
(***************************************************************************)
(* Proofs about PCPDelivery, for every buffer size, position space, number *)
(* of headers, packets and metadata changes, and every requested position. *)
(***************************************************************************)
EXTENDS PCPDelivery, TLAPS, WellFoundedInduction, SequenceTheorems

-----------------------------------------------------------------------------
(* Positions.  How far b is ahead of a, going around at PosMod. *)
Distance(a, b) == (b - a) % PosMod

(* The distance of two positions is their difference, once around if needed. *)
LEMMA DistanceIs ==
  ASSUME NEW a \in W!Positions, NEW b \in W!Positions
  PROVE  /\ Distance(a, b) = IF a <= b THEN b - a ELSE b - a + PosMod
         /\ Distance(a, b) \in 0 .. PosMod - 1
<1>0. PosMod \in Nat \ {0} /\ a \in 0 .. PosMod - 1 /\ b \in 0 .. PosMod - 1
  BY SourceAssumption DEF W!Positions
<1>1. CASE a <= b
  <2>1. \A m \in Nat \ {0} : \A x \in 0 .. m - 1 : x % m = x
    OBVIOUS
  <2> QED
    BY <1>0, <1>1, <2>1 DEF Distance
<1>2. CASE b < a
  <2>1. \A m \in Nat \ {0} : \A x \in Int : -m <= x /\ x < 0 => x % m = x + m
    OBVIOUS
  <2> QED
    BY <1>0, <1>2, <2>1 DEF Distance
<1> QED
  BY <1>0, <1>1, <1>2

(* Moving on by one, which wraps at the last position. *)
LEMMA AdvanceIs ==
  ASSUME NEW a \in W!Positions
  PROVE  /\ W!Advance(a, 1) = IF a = PosMod - 1 THEN 0 ELSE a + 1
         /\ W!Advance(a, 1) \in W!Positions
<1>0. PosMod \in Nat \ {0} /\ a \in 0 .. PosMod - 1
  BY SourceAssumption DEF W!Positions
<1>1. \A m \in Nat \ {0} : (\A x \in 0 .. m - 1 : x % m = x) /\ m % m = 0
  OBVIOUS
<1> QED
  BY <1>0, <1>1 DEF W!Advance, W!Positions

(* A position that moves on by one is one further from what is behind it, *)
LEMMA DistanceGrows ==
  ASSUME NEW a \in W!Positions, NEW b \in W!Positions, Distance(a, b) + 1 < PosMod
  PROVE  Distance(a, W!Advance(b, 1)) = Distance(a, b) + 1
<1> DEFINE e == W!Advance(b, 1)
<1>1. e \in W!Positions /\ e = IF b = PosMod - 1 THEN 0 ELSE b + 1
  BY AdvanceIs
<1> HIDE DEF e
<1>2. /\ Distance(a, e) = IF a <= e THEN e - a ELSE e - a + PosMod
      /\ Distance(a, b) = IF a <= b THEN b - a ELSE b - a + PosMod
  BY <1>1, DistanceIs
<1>3. Distance(a, e) = Distance(a, b) + 1
  BY <1>1, <1>2, SourceAssumption DEF W!Positions
<1> QED
  BY <1>3 DEF e

(* and one nearer to what is ahead. *)
LEMMA DistanceShrinks ==
  ASSUME NEW a \in W!Positions, NEW b \in W!Positions, Distance(a, b) > 0
  PROVE  Distance(W!Advance(a, 1), b) = Distance(a, b) - 1
<1> DEFINE e == W!Advance(a, 1)
<1>1. e \in W!Positions /\ e = IF a = PosMod - 1 THEN 0 ELSE a + 1
  BY AdvanceIs
<1> HIDE DEF e
<1>2. /\ Distance(e, b) = IF e <= b THEN b - e ELSE b - e + PosMod
      /\ Distance(a, b) = IF a <= b THEN b - a ELSE b - a + PosMod
  BY <1>1, DistanceIs
<1>3. Distance(e, b) = Distance(a, b) - 1
  BY <1>1, <1>2, SourceAssumption DEF W!Positions
<1> QED
  BY <1>3 DEF e

(* posBefore orders two positions that are less than half of the space behind *)
(* a third one by their distances from it.                                    *)
LEMMA BeforeIsFurther ==
  ASSUME NEW a \in W!Positions, NEW b \in W!Positions, NEW c \in W!Positions,
         Distance(a, c) < PosMod \div 2, Distance(b, c) < PosMod \div 2
  PROVE  W!PosBefore(a, b) <=> Distance(b, c) < Distance(a, c)
<1>1. W!PosBefore(a, b) <=> Distance(b, a) >= PosMod - PosMod \div 2
  BY DEF W!PosBefore, Distance
<1>2. /\ Distance(b, a) = IF b <= a THEN a - b ELSE a - b + PosMod
      /\ Distance(a, c) = IF a <= c THEN c - a ELSE c - a + PosMod
      /\ Distance(b, c) = IF b <= c THEN c - b ELSE c - b + PosMod
  BY DistanceIs
<1>3. PosMod \in Nat \ {0} /\ a \in 0 .. PosMod - 1 /\ b \in 0 .. PosMod - 1 /\ c \in 0 .. PosMod - 1
  BY SourceAssumption DEF W!Positions
<1>4. Distance(b, c) < Distance(a, c) <=> Distance(b, a) >= PosMod - PosMod \div 2
  BY <1>2, <1>3
<1> QED
  BY <1>1, <1>4

(* The start position is as near to the tip as the oldest packet. *)
LEMMA StartInReach ==
  ASSUME NEW r \in W!Positions, NEW old \in W!Positions, NEW new \in W!Positions,
         Distance(old, new) < PosMod \div 2
  PROVE  /\ StartPos(r, old, new) \in W!Positions
         /\ Distance(StartPos(r, old, new), new) <= Distance(old, new)
<1>1. /\ W!PosBefore(r, old) <=> Distance(old, r) >= PosMod - PosMod \div 2
      /\ W!PosBefore(new, r) <=> Distance(r, new) >= PosMod - PosMod \div 2
  BY DEF W!PosBefore, Distance
<1>2. /\ Distance(old, r) = IF old <= r THEN r - old ELSE r - old + PosMod
      /\ Distance(r, new) = IF r <= new THEN new - r ELSE new - r + PosMod
      /\ Distance(old, new) = IF old <= new THEN new - old ELSE new - old + PosMod
      /\ Distance(new, new) = 0
  BY DistanceIs DEF W!Positions
<1>3. /\ PosMod \in Nat \ {0} /\ r \in 0 .. PosMod - 1 /\ old \in 0 .. PosMod - 1 /\ new \in 0 .. PosMod - 1
  BY SourceAssumption DEF W!Positions
<1>4. CASE r = 0 \/ W!PosBefore(r, old)
  BY <1>2, <1>3, <1>4 DEF StartPos
<1>5. CASE ~(r = 0 \/ W!PosBefore(r, old)) /\ W!PosBefore(new, r)
  BY <1>2, <1>3, <1>5 DEF StartPos
<1>6. CASE ~(r = 0 \/ W!PosBefore(r, old)) /\ ~W!PosBefore(new, r)
  <2>1. StartPos(r, old, new) = r
    BY <1>6 DEF StartPos
  <2>2. Distance(r, new) <= Distance(old, new)
    BY <1>1, <1>2, <1>3, <1>6
  <2> QED
    BY <2>1, <2>2
<1> QED
  BY <1>4, <1>5, <1>6

-----------------------------------------------------------------------------
(* Windows.  A set of indices has a smallest one. *)
LEMMA MinIs ==
  ASSUME NEW n \in Nat, NEW S \in SUBSET (1 .. n), S # {}
  PROVE  W!Min(S) \in S /\ \A y \in S : W!Min(S) <= y
<1> DEFINE R == {ss \in Nat \X Nat : ss[1] < ss[2]}
<1>1. IsWellFoundedOn(R, Nat)
  BY NatLessThanWellFounded DEF OpToRel
<1>2. \A x, y \in Nat : x < y <=> <<x, y>> \in R
  OBVIOUS
<1>3. S \subseteq Nat
  OBVIOUS
<1> HIDE DEF R
<1>4. PICK x \in S : \A y \in S : ~(<<y, x>> \in R)
  BY <1>1, <1>3, WFMin
<1>5. ASSUME NEW y \in S PROVE x <= y
  <2>1. ~(y < x)
    BY <1>2, <1>3, <1>4, Zenon
  <2> QED
    BY <1>3, <2>1
<1> QED
  BY <1>5 DEF W!Min

(* Since returns a suffix of the window: from the first packet that is not    *)
(* before the position, or nothing if there is none.                          *)
LEMMA SinceIs ==
  ASSUME NEW S, NEW w \in Seq(S), NEW pos
  PROVE  /\ W!Since(w, pos) \in Seq(S)
         /\ W!Since(w, pos) = <<>> => \A i \in 1 .. Len(w) : W!PosBefore(w[i].pos, pos)
         /\ W!Since(w, pos) # <<>> =>
              \E m \in 1 .. Len(w) :
                /\ ~W!PosBefore(w[m].pos, pos)
                /\ \A i \in 1 .. m - 1 : W!PosBefore(w[i].pos, pos)
                /\ Len(W!Since(w, pos)) = Len(w) - m + 1
                /\ \A i \in 1 .. Len(w) - m + 1 : W!Since(w, pos)[i] = w[m + i - 1]
<1> DEFINE wanted == {i \in DOMAIN w : ~W!PosBefore(w[i].pos, pos)}
<1>1. Len(w) \in Nat /\ DOMAIN w = 1 .. Len(w) /\ \A i \in 1 .. Len(w) : w[i] \in S
  OBVIOUS
<1>2. CASE wanted = {}
  <2>1. W!Since(w, pos) = <<>>
    BY <1>2 DEF W!Since, W!From
  <2> QED
    BY <1>1, <1>2, <2>1
<1>3. CASE wanted # {}
  <2> DEFINE m == W!Min(wanted)
  <2>1. m \in wanted /\ \A y \in wanted : m <= y
    <3> HIDE DEF wanted
    <3>1. wanted \in SUBSET (1 .. Len(w))
      BY <1>1 DEF wanted
    <3> QED
      BY <1>1, <1>3, <3>1, MinIs
  <2>2. W!Since(w, pos) = SubSeq(w, m, Len(w))
    BY <1>3 DEF W!Since, W!From
  <2>3. m \in 1 .. Len(w) /\ ~W!PosBefore(w[m].pos, pos)
    BY <1>1, <2>1
  <2> HIDE DEF m
  <2>4. ASSUME NEW i \in 1 .. m - 1 PROVE W!PosBefore(w[i].pos, pos)
    <3>1. i \in DOMAIN w /\ i < m
      BY <1>1, <2>3
    <3>2. i \notin wanted
      BY <1>1, <2>1, <2>3, <3>1
    <3> QED
      BY <3>1, <3>2
  <2> HIDE DEF wanted
  <2>5. /\ SubSeq(w, m, Len(w)) \in Seq(S)
        /\ Len(SubSeq(w, m, Len(w))) = Len(w) - m + 1
        /\ \A i \in 1 .. Len(w) - m + 1 : SubSeq(w, m, Len(w))[i] = w[m + i - 1]
    BY <1>1, <2>3, SubSeqProperties
  <2>6. SubSeq(w, m, Len(w)) # <<>>
    <3>1. Len(SubSeq(w, m, Len(w))) # 0
      BY <1>1, <2>3, <2>5
    <3> QED
      BY <3>1, EmptySeq
  <2>7. /\ m \in 1 .. Len(w) /\ ~W!PosBefore(w[m].pos, pos)
        /\ \A i \in 1 .. m - 1 : W!PosBefore(w[i].pos, pos)
        /\ Len(W!Since(w, pos)) = Len(w) - m + 1
        /\ \A i \in 1 .. Len(w) - m + 1 : W!Since(w, pos)[i] = w[m + i - 1]
    BY <2>2, <2>3, <2>4, <2>5
  <2> QED
    BY <2>2, <2>5, <2>6, <2>7
<1> QED
  BY <1>2, <1>3

(* Nothing is found in an empty window. *)
LEMMA SinceEmpty == \A pos : W!Since(<<>>, pos) = <<>>
  BY DEF W!Since, W!From

(* A write puts its packet at the end and moves the others to the front: v    *)
(* is w with p at its end, less some packets at its beginning.                *)
Follows(w, p, v) ==
  /\ v # <<>> /\ W!Last(v) = p
  /\ \E k \in 1 .. Len(w) + 1 : /\ Len(v) = k /\ v[k] = p
                                /\ \A i \in 1 .. k - 1 : v[i] = w[Len(w) + 1 - k + i]

(* That is what the code's write does. *)
LEMMA WriteIs ==
  ASSUME NEW S, NEW w \in Seq(S), NEW p \in S, NEW n \in Nat \ {0}
  PROVE  W!LastOf(Append(w, p), n) \in Seq(S) /\ Follows(w, p, W!LastOf(Append(w, p), n))
<1> DEFINE a == Append(w, p)
           v == W!LastOf(a, n)
           k == IF Len(a) <= n THEN Len(a) ELSE n
<1>1. /\ Len(w) \in Nat /\ a \in Seq(S) /\ Len(a) = Len(w) + 1 /\ a[Len(w) + 1] = p
      /\ \A i \in 1 .. Len(w) : a[i] = w[i]
      /\ \A i \in 1 .. Len(a) : a[i] \in S
  BY AppendProperties
<1>2. k \in 1 .. Len(w) + 1
  BY <1>1
<1>3. v \in Seq(S) /\ Len(v) = k /\ \A i \in 1 .. k : v[i] = a[Len(a) - k + i]
  <2>0. a \in Seq(S) /\ Len(a) \in Nat /\ \A i \in 1 .. Len(a) : a[i] \in S
    BY <1>1
  <2> HIDE DEF a
  <2>1. CASE Len(a) <= n
    <3>1. v = a /\ k = Len(a)
      BY <2>1 DEF W!LastOf
    <3> HIDE DEF v, k
    <3>2. ASSUME NEW i \in 1 .. k PROVE v[i] = a[Len(a) - k + i]
      <4>1. Len(a) - k + i = i
        BY <2>0, <3>1
      <4> QED
        BY <3>1, <4>1
    <3> QED
      BY <2>0, <3>1, <3>2
  <2>2. CASE n < Len(a)
    <3>1. v = SubSeq(a, Len(a) - n + 1, Len(a)) /\ k = n
      <4>1. ~(Len(a) <= n)
        BY <2>0, <2>2
      <4> QED
        BY <4>1 DEF W!LastOf
    <3>2. Len(a) - n + 1 \in 1 .. Len(a)
      BY <2>0, <2>2
    <3> HIDE DEF v, k
    <3>3. /\ v \in Seq(S) /\ Len(v) = n
          /\ \A i \in 1 .. n : v[i] = a[Len(a) - n + 1 + i - 1]
      <4>1. \A i \in Len(a) - n + 1 .. Len(a) : a[i] \in S
        BY <2>0, <3>2
      <4> QED
        BY <2>0, <3>1, <3>2, <4>1, SubSeqProperties
    <3>4. \A i \in 1 .. n : Len(a) - n + 1 + i - 1 = Len(a) - n + i
      BY <2>0, <3>2
    <3> QED
      BY <3>1, <3>3, <3>4
  <2>3. Len(a) <= n \/ n < Len(a)
    BY <2>0
  <2> QED
    BY <2>1, <2>2, <2>3
<1>4. v # <<>> /\ W!Last(v) = v[k]
  BY <1>2, <1>3 DEF W!Last
<1>5. v[k] = p /\ \A i \in 1 .. k - 1 : v[i] = w[Len(w) + 1 - k + i]
  <2> HIDE DEF a, v, k
  <2>1. v[k] = p
    <3>1. k \in 1 .. k /\ Len(a) - k + k = Len(w) + 1
      BY <1>1, <1>2
    <3> QED
      BY <1>1, <1>3, <3>1
  <2>2. ASSUME NEW i \in 1 .. k - 1 PROVE v[i] = w[Len(w) + 1 - k + i]
    <3> DEFINE m == Len(w) + 1 - k + i
    <3>1. i \in 1 .. k /\ Len(a) - k + i = m /\ m \in 1 .. Len(w)
      BY <1>1, <1>2
    <3> HIDE DEF m
    <3>2. v[i] = a[m] /\ a[m] = w[m]
      BY <1>1, <1>3, <3>1
    <3> QED
      BY <3>2 DEF m
  <2> QED
    BY <2>1, <2>2
<1>6. Follows(w, p, v)
  <2> HIDE DEF a, v, k
  <2> QED
    BY <1>2, <1>3, <1>4, <1>5 DEF Follows
<1> QED
  BY <1>3, <1>6

-----------------------------------------------------------------------------
(* The inductive invariant.  The position just past the newest packet: *)
Tip == W!ContentPosition(header, window)

(* a header change that the output has still to see, *)
Behind == "header" \in pending \/ src \in {"snapshot", "notify"} \/ pc = "header"

(* where the output is, *)
Starting == {"cursor", "hasData", "oldest", "clamp"}
Streaming == Notices \cup {"drain", "since", "check", "send", "wait"}
Placed == Streaming \cup (Starting \ {"cursor"})

(* and that nothing keeps it from sending its batch. *)
Committed == registered /\ (pc = "send" \/ (pc = "check" /\ "header" \notin pending))

(* The types, and what is not there before the first header or registration. *)
Typed ==
  /\ TypeOK
  /\ header.len = 0 <=> header.gen = 0
  /\ header.gen = 0 => window = <<>>
  /\ \A k \in Metas : due[k] <= version[k]
  /\ registered => pc # "out"

(* A relay that waits has nothing to read, or will be woken up; what it was   *)
(* not told of the metadata is under way.                                     *)
Woken ==
  /\ pc = "wait" => W!Since(window, cur.pos) = <<>> \/ signalled \/ src = "written"
  /\ registered /\ pc \in {"initialHeader"} \cup Starting \cup Streaming =>
       \A k \in Metas : metaSent[k] = version[k] \/ k \in pending \/ due[k] > 0 \/ pc = k

(* The window holds the last packets of the current header without a gap. *)
Shaped ==
  /\ src \in {"snapshot", "notify"} => window = <<>>
  /\ Len(window) <= serial
  /\ \A i \in 1 .. Len(window) : /\ window[i].gen = header.gen
                                 /\ window[i].ts = serial - Len(window) + i
                                 /\ Distance(window[i].pos, Tip) = Len(window) - i + 1
  /\ Distance(header.pos, Tip) <= serial + 1

(* So does a batch, also after the window has moved on; *)
Batched ==
  /\ pc \in {"check", "send"} => batch # <<>>
  /\ \A i \in 1 .. Len(batch) :
       /\ batch[i].gen <= header.gen /\ batch[i].ts = batch[1].ts + i - 1 /\ batch[i].ts <= serial
       /\ batch[i].gen = header.gen => Distance(batch[i].pos, Tip) = serial - batch[i].ts + 1

(* it belongs to the header that was sent, which is the current one unless    *)
(* the output is behind.                                                      *)
Headed ==
  /\ registered /\ ~Behind /\ pc \in Starting \cup Streaming => sentHeader = header.gen
  /\ Committed => \A i \in 1 .. Len(batch) : batch[i].gen = sentHeader

(* The cursor is not past the tip, nor too far behind it. *)
Reaching ==
  registered /\ ~Behind =>
    /\ pc = "oldest" => window # <<>>
    /\ pc = "clamp" => Distance(oldest, Tip) <= serial + 1
    /\ pc \in Placed => Distance(cur.pos, Tip) <= serial + 1

(* The cursor is at the end of the last packet sent, and the next one to be   *)
(* sent is the first after it that is still in the window.                    *)
Ordered ==
  /\ pc \in Starting => sent = NoPacket
  /\ pc \in Placed => (cur.wait <=> sent = NoPacket)
  /\ sent.ts <= serial
  /\ registered /\ ~Behind /\ pc \in Streaming /\ sent # NoPacket =>
       Distance(cur.pos, Tip) = serial - sent.ts
  /\ Committed /\ sent # NoPacket =>
       /\ sent.ts < batch[1].ts
       /\ \A i \in 1 .. Len(window) : ~(sent.ts < window[i].ts /\ window[i].ts < batch[1].ts)

-----------------------------------------------------------------------------
(* The tip is a position. *)
LEMMA TipType ==
  ASSUME Typed
  PROVE  Tip \in W!Positions
<1>0. /\ header \in [gen : Generations, len : {0, 1}, pos : W!Positions] /\ window \in Seq(StreamPackets)
      /\ 0 \in W!Positions
  BY SourceAssumption DEF Typed, TypeOK, SourceTypeOK, W!Positions
<1>1. CASE header.len = 0
  BY <1>0, <1>1 DEF Tip, W!ContentPosition
<1>2. CASE header.len = 1 /\ window = <<>>
  BY <1>0, <1>2, AdvanceIs DEF Tip, W!ContentPosition
<1>3. CASE header.len = 1 /\ window # <<>>
  <2>1. Len(window) \in 1 .. Len(window) /\ W!Last(window) = window[Len(window)]
    BY <1>0, <1>3 DEF W!Last
  <2>2. window[Len(window)] \in StreamPackets
    BY <1>0, <2>1
  <2>3. Tip = W!Advance(window[Len(window)].pos, 1) /\ window[Len(window)].pos \in W!Positions
    BY <1>3, <2>1, <2>2 DEF Tip, W!ContentPosition, W!End, StreamPackets
  <2> QED
    BY <2>3, AdvanceIs
<1> QED
  BY <1>0, <1>1, <1>2, <1>3

(* What a write does to the window and the tip. *)
LEMMA WriteStep ==
  ASSUME Typed, Write
  PROVE  /\ Tip' = W!Advance(Tip, 1)
         /\ window' \in Seq(StreamPackets)
         /\ \E p \in StreamPackets : /\ p.pos = Tip /\ p.ts = serial + 1 /\ p.gen = header.gen
                                     /\ Follows(window, p, window')
<1>0. /\ header \in [gen : Generations, len : {0, 1}, pos : W!Positions] /\ window \in Seq(StreamPackets)
      /\ serial \in 0 .. MaxPackets
  BY DEF Typed, TypeOK, SourceTypeOK
<1>1. PICK key \in BOOLEAN :
        window' = W!LastOf(Append(window, [pos |-> Tip, len |-> 1, ts |-> serial + 1,
                                           gen |-> header.gen, key |-> key]), BufSize)
  BY DEF Write, Tip
<1> DEFINE p == [pos |-> Tip, len |-> 1, ts |-> serial + 1, gen |-> header.gen, key |-> key]
<1>2. p \in StreamPackets /\ p.pos = Tip /\ p.len = 1 /\ p.ts = serial + 1 /\ p.gen = header.gen
  <2>1. Tip \in W!Positions /\ serial + 1 \in 1 .. MaxPackets /\ header.gen \in Generations
    BY <1>0, TipType, SourceAssumption DEF Write
  <2> QED
    BY <2>1 DEF StreamPackets
<1>3. window' = W!LastOf(Append(window, p), BufSize)
  BY <1>1
<1> HIDE DEF p
<1>4. window' \in Seq(StreamPackets) /\ Follows(window, p, window')
  BY <1>0, <1>2, <1>3, WriteIs, SourceAssumption, Zenon
<1>5. Tip' = W!Advance(Tip, 1)
  <2>1. header' = header /\ header.len = 1
    BY <1>0 DEF Write, Typed
  <2> QED
    BY <2>1, <1>2, <1>4 DEF Tip, W!ContentPosition, W!End, Follows
<1> QED
  BY <1>2, <1>4, <1>5

(* What a new header does. *)
LEMMA HeaderStep ==
  ASSUME Typed, SetHeader
  PROVE  /\ header' \in [gen : Generations, len : {0, 1}, pos : W!Positions]
         /\ header'.gen = header.gen + 1 /\ header'.len = 1 /\ window' = <<>>
         /\ Tip' \in W!Positions /\ Distance(header'.pos, Tip') = 1
<1>0. header \in [gen : Generations, len : {0, 1}, pos : W!Positions] /\ UpstreamPos \in W!Positions
  BY SourceAssumption DEF Typed, TypeOK, SourceTypeOK, W!Positions
<1>1. PICK pos \in {Tip, UpstreamPos} : header' = [gen |-> header.gen + 1, len |-> 1, pos |-> pos]
  BY DEF SetHeader, Tip
<1>2. /\ pos \in W!Positions /\ header.gen + 1 \in Generations /\ window' = <<>>
  BY <1>0, TipType, SourceAssumption DEF SetHeader, Generations
<1>3. header'.pos = pos /\ header'.gen = header.gen + 1 /\ header'.len = 1
  BY <1>1
<1>4. Tip' = W!Advance(pos, 1)
  BY <1>2, <1>3 DEF Tip, W!ContentPosition
<1>5. Distance(pos, pos) = 0 /\ 0 + 1 < PosMod
  BY <1>2, DistanceIs, SourceAssumption DEF W!Positions
<1>6. Distance(pos, W!Advance(pos, 1)) = 1
  BY <1>2, <1>5, DistanceGrows
<1> QED
  BY <1>1, <1>2, <1>3, <1>4, <1>6, AdvanceIs

-----------------------------------------------------------------------------
(* The source keeps the types. *)
LEMMA SourceTyped ==
  ASSUME Typed, Source
  PROVE  Typed'
<1>0. /\ SourceTypeOK /\ TypeOK
  BY DEF Typed, TypeOK
<1>1. UNCHANGED <<pc, req, cur, oldest, batch, closed, evicting, sentHeader, sent, metaSent>>
  BY DEF Source, outVars, wire
<1>2. ASSUME SourceTypeOK', header'.len = 0 <=> header'.gen = 0, header'.gen = 0 => window' = <<>>,
             \A k \in Metas : due'[k] <= version'[k], registered' = registered
      PROVE  Typed'
  BY <1>0, <1>1, <1>2 DEF Typed, TypeOK
<1>3. CASE SetHeader
  <2>1. UNCHANGED <<serial, version, due, registered, pending, signalled>> /\ src' = "snapshot"
    BY <1>3 DEF SetHeader
  <2>2. /\ header' \in [gen : Generations, len : {0, 1}, pos : W!Positions]
        /\ header'.gen = header.gen + 1 /\ header'.len = 1 /\ window' = <<>> /\ header.gen \in Nat
    BY <1>0, <1>3, HeaderStep, SourceAssumption DEF SourceTypeOK, Generations
  <2>3. SourceTypeOK'
    BY <1>0, <2>1, <2>2 DEF SourceTypeOK
  <2> QED
    BY <1>2, <2>1, <2>2, <2>3 DEF Typed
<1>4. CASE Write
  <2>1. /\ UNCHANGED <<header, version, due, registered, pending, signalled>> /\ src' = "written"
        /\ serial' = serial + 1 /\ serial < MaxPackets /\ header.gen > 0
    BY <1>4 DEF Write
  <2>2. window' \in Seq(StreamPackets)
    BY <1>4, WriteStep
  <2>3. SourceTypeOK'
    BY <1>0, <2>1, <2>2, SourceAssumption DEF SourceTypeOK
  <2> QED
    BY <1>0, <1>2, <2>1, <2>3 DEF Typed
<1>5. CASE Snapshot \/ NotifyHeader \/ NotifyWrite
  <2>1. /\ UNCHANGED <<header, window, serial, version, due, registered>>
        /\ src' \in {"idle", "notify"}
    BY <1>5 DEF Snapshot, NotifyHeader, NotifyWrite
  <2>2. pending' \subseteq Metas \cup {"header", "bcst"} /\ signalled' \in BOOLEAN
    BY <1>0, <1>5 DEF Snapshot, NotifyHeader, NotifyWrite, SourceTypeOK
  <2>3. SourceTypeOK'
    BY <1>0, <2>1, <2>2 DEF SourceTypeOK
  <2> QED
    BY <1>2, <2>1, <2>3 DEF Typed
<1>6. ASSUME NEW k \in Metas, NotifyMeta(k) PROVE Typed'
  <2>1. /\ UNCHANGED <<header, window, src, serial, version, registered, signalled>>
        /\ due[k] > 0 /\ due' = [due EXCEPT ![k] = @ - 1] /\ pending' = pending \cup {k}
    BY <1>6 DEF NotifyMeta
  <2>2. /\ due' \in [Metas -> 0 .. MaxVersions] /\ \A l \in Metas : due'[l] <= version'[l]
    BY <1>0, <2>1, SourceAssumption DEF SourceTypeOK, Typed
  <2>3. SourceTypeOK'
    BY <1>0, <2>1, <2>2 DEF SourceTypeOK
  <2> QED
    BY <1>2, <2>1, <2>2, <2>3 DEF Typed
<1>7. ASSUME NEW k \in Metas, SetMeta(k) PROVE Typed'
  <2>1. /\ UNCHANGED <<header, window, src, serial, pending, registered, signalled>>
        /\ version[k] < MaxVersions /\ version' = [version EXCEPT ![k] = @ + 1]
    BY <1>7 DEF SetMeta
  <2>2. due' = [due EXCEPT ![k] = due[k] + 1] \/ due' = [due EXCEPT ![k] = due[k]]
    BY <1>7 DEF SetMeta
  <2>3. /\ version' \in [Metas -> 0 .. MaxVersions] /\ due' \in [Metas -> 0 .. MaxVersions]
        /\ \A l \in Metas : due'[l] <= version'[l]
    BY <1>0, <2>1, <2>2, SourceAssumption DEF SourceTypeOK, Typed
  <2>4. SourceTypeOK'
    BY <1>0, <2>1, <2>3 DEF SourceTypeOK
  <2> QED
    BY <1>2, <2>1, <2>3, <2>4 DEF Typed
<1> QED
  BY <1>3, <1>4, <1>5, <1>6, <1>7 DEF Source, SourceNext, Notifications

(* The output and those who close it keep the types. *)
LEMMA OutputTyped ==
  ASSUME Typed, pc = "send" => batch # <<>>,
         AddOutput \/ Output \/ WriteFails \/ Close \/ Evict \/ RemoveOutput \/ SendBcst
  PROVE  Typed'
<1>0. /\ TypeOK /\ SourceTypeOK
  BY DEF Typed, TypeOK
<1> DEFINE Pcs == Notices \cup {"out", "initial", "initialHeader", "cursor", "hasData", "oldest", "clamp",
                                "drain", "since", "check", "send", "wait", "leaving"}
<1>p. /\ pc \in Pcs /\ 0 \in W!Positions /\ ReqPositions \subseteq W!Positions /\ Tip \in W!Positions
  BY <1>0, TipType, SourceAssumption, DeliveryAssumption DEF TypeOK, W!Positions
<1>1. CASE AddOutput
  BY <1>0, <1>1 DEF AddOutput, Typed, TypeOK, SourceTypeOK, wire
<1>2. CASE RemoveOutput \/ SendBcst \/ Evict \/ Close
  BY ZenonT(60), <1>0, <1>2 DEF RemoveOutput, SendBcst, Evict, Close, Typed, TypeOK, SourceTypeOK, srcVars, outVars, wire
<1>3. CASE Leave
  <2>1. /\ [k \in Metas |-> 0] \in [Metas -> 0 .. MaxVersions]
        /\ [pos |-> 0, wait |-> TRUE] \in [pos : W!Positions, wait : BOOLEAN]
        /\ 0 \in Generations /\ 0 \in 0 .. MaxVersions
    BY <1>p, SourceAssumption DEF Generations
  <2>2. /\ src' \in {"idle", "snapshot", "notify", "written"}
        /\ \A k \in Metas : due'[k] = 0 /\ version[k] \in 0 .. MaxVersions /\ version' = version
    BY <1>0, <1>3 DEF Leave, SourceTypeOK
  <2>3. SourceTypeOK'
    BY <1>0, <1>3, <2>1, <2>2 DEF Leave, SourceTypeOK
  <2>4. TypeOK'
    <3>1. batch' \in Seq(StreamPackets)
      BY <1>3, EmptySeq DEF Leave
    <3> QED
      BY <1>0, <1>3, <2>1, <2>3, <3>1 DEF Leave, TypeOK
  <2>5. \A k \in Metas : due'[k] <= version'[k]
    BY <2>2
  <2> QED
    BY <1>3, <2>4, <2>5 DEF Leave, Typed
<1>4. CASE Signal \/ \E k \in Notices : TakeNotice(k)
  <2>1. /\ UNCHANGED <<header, window, src, serial, version, due, registered, req, cur, oldest, closed, evicting, wire>>
        /\ pc' \in Pcs \ {"out"} /\ pending' \subseteq pending
        /\ batch' = batch \/ batch' = <<>>
    BY <1>4, SourceAssumption DEF Signal, TakeNotice, Notices
  <2>2. batch' \in Seq(StreamPackets)
    BY <1>0, <2>1, EmptySeq DEF TypeOK
  <2>3. signalled' \in BOOLEAN
    BY <1>0, <1>4 DEF Signal, TakeNotice, SourceTypeOK
  <2>4. SourceTypeOK'
    BY <1>0, <2>1, <2>3 DEF SourceTypeOK
  <2>5. TypeOK'
    BY <1>0, <2>1, <2>2, <2>4 DEF TypeOK, wire
  <2> QED
    BY <2>1, <2>5 DEF Typed
<1>5. ASSUME UNCHANGED srcVars, UNCHANGED <<req, closed, evicting>>, pc' \in Pcs \ {"out"},
             cur' \in [pos : W!Positions, wait : BOOLEAN], oldest' \in W!Positions,
             batch' \in Seq(StreamPackets), sentHeader' \in Generations,
             sent' \in StreamPackets \cup {NoPacket}, metaSent' \in [Metas -> 0 .. MaxVersions]
      PROVE  Typed'
  BY <1>0, <1>5 DEF Typed, TypeOK, SourceTypeOK, srcVars
<1>w. /\ sentHeader \in Generations /\ sent \in StreamPackets \cup {NoPacket}
      /\ metaSent \in [Metas -> 0 .. MaxVersions] /\ version \in [Metas -> 0 .. MaxVersions]
      /\ header.gen \in Generations /\ header.pos \in W!Positions
      /\ cur \in [pos : W!Positions, wait : BOOLEAN] /\ oldest \in W!Positions /\ batch \in Seq(StreamPackets)
  BY <1>0 DEF TypeOK, SourceTypeOK
<1>6. CASE ReadMeta \/ SendInitial \/ HasData \/ SendMetaUpdate \/ SendBcstAtom
           \/ NoNewHeader \/ WakeUp \/ CloseSeen \/ WriteFails
  <2>1. /\ UNCHANGED srcVars /\ UNCHANGED <<req, closed, evicting, cur, oldest, batch>> /\ pc' \in Pcs \ {"out"}
        /\ sentHeader' \in {sentHeader, header.gen} /\ sent' \in {sent, NoPacket}
    BY <1>6 DEF ReadMeta, SendInitial, HasData, SendMetaUpdate, SendBcstAtom,
                NoNewHeader, WakeUp, CloseSeen, WriteFails, WriteHeader, wire
  <2>2. \/ metaSent' \in {metaSent, version}
        \/ pc \in Metas /\ metaSent' = [metaSent EXCEPT ![pc] = version[pc]]
    BY <1>6 DEF ReadMeta, SendInitial, HasData, SendMetaUpdate, SendBcstAtom,
                NoNewHeader, WakeUp, CloseSeen, WriteFails, WriteHeader, wire
  <2>3. metaSent' \in [Metas -> 0 .. MaxVersions]
    BY <1>w, <2>2
  <2> QED
    BY <1>5, <1>w, <2>1, <2>3
<1>7. CASE CursorHeader \/ SendHeaderUpdate
  <2>1. [pos |-> header.pos, wait |-> TRUE] \in [pos : W!Positions, wait : BOOLEAN]
    BY <1>w
  <2> QED
    BY <1>5, <1>7, <1>w, <2>1 DEF CursorHeader, SendHeaderUpdate, WriteHeader, wire
<1>8. CASE OldestPos
  <2>1. oldest' \in W!Positions
    <3>1. window # <<>> => window[1] \in StreamPackets
      BY <1>0 DEF SourceTypeOK
    <3> QED
      BY <1>8, <1>p, <3>1 DEF OldestPos, StreamPackets
  <2> QED
    BY <1>5, <1>8, <1>w, <2>1 DEF OldestPos, wire
<1>9. CASE Clamp
  <2>1. req \in W!Positions
    BY <1>0, <1>p DEF TypeOK
  <2>2. StartPos(req, oldest, Tip) \in W!Positions
    BY <1>p, <1>w, <2>1 DEF StartPos
  <2>3. cur' = [cur EXCEPT !.pos = StartPos(req, oldest, Tip)]
    BY <1>9 DEF Clamp, Tip
  <2>4. cur' \in [pos : W!Positions, wait : BOOLEAN]
    BY <1>w, <2>2, <2>3
  <2> QED
    BY <1>5, <1>9, <1>p, <1>w, <2>4 DEF Clamp, wire
<1>10. CASE Since
  <2>1. batch' \in Seq(StreamPackets)
    BY <1>0, <1>10, SinceIs DEF Since, SourceTypeOK
  <2> QED
    BY <1>5, <1>10, <1>w, <2>1 DEF Since, wire
<1>11. ASSUME SendData, batch # <<>> PROVE Typed'
  <2>1. Head(batch) \in StreamPackets /\ Tail(batch) \in Seq(StreamPackets)
    BY <1>w, <1>11, HeadTailProperties
  <2>2. W!End(Head(batch)) \in W!Positions
    BY <2>1, AdvanceIs DEF StreamPackets, W!End
  <2>3. cur' \in [pos : W!Positions, wait : BOOLEAN]
    <3>1. cur.wait \in BOOLEAN /\ Head(batch).key \in BOOLEAN
      BY <1>w, <2>1 DEF StreamPackets
    <3> QED
      BY <1>11, <2>2, <3>1 DEF SendData
  <2> QED
    BY <1>5, <1>11, <1>w, <2>1, <2>3 DEF SendData
<1> QED
  BY <1>1, <1>2, <1>3, <1>4, <1>6, <1>7, <1>8, <1>9, <1>10, <1>11 DEF Output, SendData

-----------------------------------------------------------------------------
(* The invariant as a whole. *)
DInv == Typed /\ Woken /\ Shaped /\ Batched /\ Headed /\ Reaching /\ Ordered

(* Nobody but the source touches the buffer. *)
Others == AddOutput \/ Output \/ WriteFails \/ Close \/ Evict \/ RemoveOutput \/ SendBcst

(* They leave it alone; one that leaves is not notified any more. *)
LEMMA OthersKeepBuffer ==
  ASSUME Others
  PROVE  /\ UNCHANGED <<header, window, serial>> /\ Tip' = Tip
         /\ src' = src \/ (src = "notify" /\ src' = "idle" /\ ~registered')
<1>1. UNCHANGED <<header, window, serial>> /\ (src' = src \/ (src = "notify" /\ src' = "idle" /\ ~registered'))
  <2>1. CASE AddOutput \/ WriteFails \/ Close \/ Evict \/ RemoveOutput \/ SendBcst
    BY <2>1 DEF AddOutput, WriteFails, Close, Evict, RemoveOutput, SendBcst, srcVars
  <2>2. CASE Leave
    BY <2>2 DEF Leave
  <2>3. CASE Signal \/ \E k \in Notices : TakeNotice(k)
    BY <2>3 DEF Signal, TakeNotice
  <2>4. CASE ReadMeta \/ SendInitial \/ CursorHeader \/ HasData \/ OldestPos \/ Clamp
    BY <2>4 DEF ReadMeta, SendInitial, CursorHeader, HasData, OldestPos, Clamp, srcVars
  <2>5. CASE SendHeaderUpdate \/ SendMetaUpdate \/ SendBcstAtom \/ Since \/ NoNewHeader \/ SendData
             \/ WakeUp \/ CloseSeen
    BY <2>5 DEF SendHeaderUpdate, SendMetaUpdate, SendBcstAtom, Since, NoNewHeader, SendData, WakeUp,
                CloseSeen, srcVars
  <2> QED
    BY <2>1, <2>2, <2>3, <2>4, <2>5 DEF Others, Output
<1> QED
  BY <1>1 DEF Tip

(* What the types say of the packets, the cursor and the rest. *)
LEMMA TypedParts ==
  ASSUME Typed
  PROVE  /\ serial \in 0 .. MaxPackets /\ serial \in Nat /\ header.pos \in W!Positions /\ header.gen \in Nat
         /\ Tip \in W!Positions /\ cur.pos \in W!Positions /\ oldest \in W!Positions /\ req \in W!Positions
         /\ window \in Seq(StreamPackets) /\ batch \in Seq(StreamPackets)
         /\ Len(window) \in Nat /\ Len(batch) \in Nat
         /\ \A i \in 1 .. Len(window) : window[i].pos \in W!Positions /\ window[i].ts \in Nat \ {0}
         /\ \A i \in 1 .. Len(batch) :
              /\ batch[i] \in StreamPackets /\ batch[i].pos \in W!Positions /\ batch[i].ts \in Nat \ {0}
              /\ batch[i].gen \in Nat
         /\ sent.ts \in Nat /\ sentHeader \in Nat
<1>1. \A p \in StreamPackets : p.pos \in W!Positions /\ p.ts \in Nat \ {0} /\ p.gen \in Nat
  BY SourceAssumption DEF StreamPackets, Generations
<1>2. /\ window \in Seq(StreamPackets) /\ batch \in Seq(StreamPackets)
      /\ sent \in StreamPackets \cup {NoPacket} /\ sentHeader \in Generations
      /\ header \in [gen : Generations, len : {0, 1}, pos : W!Positions] /\ serial \in 0 .. MaxPackets
      /\ cur \in [pos : W!Positions, wait : BOOLEAN] /\ oldest \in W!Positions
      /\ req \in ReqPositions \cup {0}
  BY DEF Typed, TypeOK, SourceTypeOK
<1>3. /\ \A i \in 1 .. Len(window) : window[i] \in StreamPackets
      /\ \A i \in 1 .. Len(batch) : batch[i] \in StreamPackets
      /\ Len(window) \in Nat /\ Len(batch) \in Nat
  BY <1>2
<1>4. sent.ts \in Nat /\ sentHeader \in Nat /\ header.gen \in Nat /\ header.pos \in W!Positions
  BY <1>1, <1>2, SourceAssumption DEF NoPacket, Generations
<1>5. cur.pos \in W!Positions /\ req \in W!Positions /\ serial \in Nat
  BY <1>2, SourceAssumption, DeliveryAssumption DEF W!Positions
<1> QED
  BY <1>1, <1>2, <1>3, <1>4, <1>5, TipType

(* A position that is near to the tip is one further from it after a write. *)
LEMMA TipMoves ==
  ASSUME Typed, Write, NEW a \in W!Positions, Distance(a, Tip) <= serial + 1
  PROVE  Distance(a, Tip') = Distance(a, Tip) + 1
<1>1. /\ Tip \in W!Positions /\ Tip' = W!Advance(Tip, 1) /\ serial \in 0 .. MaxPackets /\ serial < MaxPackets
      /\ Distance(a, Tip) \in 0 .. PosMod - 1
  BY TypedParts, WriteStep, DistanceIs DEF Write
<1>2. Distance(a, Tip) + 1 < PosMod
  BY <1>1, WrapAssumption, SourceAssumption
<1> QED
  BY <1>1, <1>2, DistanceGrows

(* The source keeps the shape of the window. *)
LEMMA ShapedStep ==
  ASSUME Typed, Shaped, Source \/ Others
  PROVE  Shaped'
<1>0. /\ serial \in 0 .. MaxPackets /\ header.pos \in W!Positions
      /\ Len(window) \in Nat /\ \A i \in 1 .. Len(window) : window[i].pos \in W!Positions
  BY TypedParts
<1>1. CASE SetHeader
  <2>1. /\ header'.gen = header.gen + 1 /\ window' = <<>> /\ serial' = serial
        /\ Distance(header'.pos, Tip') = 1
    BY <1>1, HeaderStep DEF SetHeader
  <2> QED
    BY <1>0, <2>1 DEF Shaped
<1>2. CASE Write
  <2>1. header' = header /\ serial' = serial + 1 /\ src' = "written" /\ serial < MaxPackets
    BY <1>2 DEF Write
  <2>2. PICK p \in StreamPackets : /\ p.pos = Tip /\ p.ts = serial + 1 /\ p.gen = header.gen
                                   /\ Follows(window, p, window')
    BY <1>2, WriteStep
  <2>3. PICK k \in 1 .. Len(window) + 1 :
          /\ Len(window') = k /\ window'[k] = p
          /\ \A i \in 1 .. k - 1 : window'[i] = window[Len(window) + 1 - k + i]
    BY <2>2 DEF Follows
  <2>4. Tip \in W!Positions /\ Distance(Tip, Tip) = 0
    BY TipType, DistanceIs, SourceAssumption DEF W!Positions
  <2>5. Distance(Tip, Tip') = 1
    BY <1>0, <1>2, <2>4, TipMoves
  <2>6. ASSUME NEW i \in 1 .. k
        PROVE  /\ window'[i].gen = header.gen /\ window'[i].ts = serial + 1 - k + i
               /\ Distance(window'[i].pos, Tip') = k - i + 1
    <3>1. CASE i = k
      BY <1>0, <2>2, <2>3, <2>5, <3>1
    <3>2. CASE i < k
      <4> DEFINE j == Len(window) + 1 - k + i
      <4>1. j \in 1 .. Len(window) /\ window'[i] = window[j] /\ Len(window) - j + 1 = k - i
        BY <1>0, <2>3, <3>2
      <4> HIDE DEF j
      <4>2. /\ window[j].gen = header.gen /\ window[j].ts = serial - Len(window) + j
            /\ Distance(window[j].pos, Tip) = k - i
        BY <4>1 DEF Shaped
      <4>3. Distance(window[j].pos, Tip') = k - i + 1
        <5>1. k - i <= serial + 1
          BY <1>0, <2>3, <3>2 DEF Shaped
        <5> QED
          BY <1>0, <1>2, <4>1, <4>2, <5>1, TipMoves
      <4>4. window[j].ts = serial + 1 - k + i
        BY <1>0, <2>3, <4>2 DEF j
      <4> QED
        BY <4>1, <4>2, <4>3, <4>4
    <3> QED
      BY <3>1, <3>2
  <2>7. Distance(header.pos, Tip') <= serial + 2
    <3>1. Distance(header.pos, Tip') = Distance(header.pos, Tip) + 1 /\ Distance(header.pos, Tip) \in Nat
      BY <1>0, <1>2, <2>4, TipMoves, DistanceIs DEF Shaped
    <3> QED
      BY <1>0, <3>1 DEF Shaped
  <2>8. k <= serial + 1
    BY <1>0, <2>3 DEF Shaped
  <2> QED
    BY <1>0, <2>1, <2>3, <2>6, <2>7, <2>8 DEF Shaped
<1>3. CASE /\ UNCHANGED <<header, window, serial>>
           /\ src' = src \/ src' = "idle" \/ src = "snapshot"
  BY <1>3 DEF Shaped, Tip
<1>4. CASE Source /\ ~SetHeader /\ ~Write
  BY <1>3, <1>4 DEF Source, SourceNext, Notifications, Snapshot, NotifyHeader, NotifyWrite, NotifyMeta, SetMeta
<1> QED
  BY <1>1, <1>2, <1>3, <1>4, OthersKeepBuffer DEF Source

(* What the output reads with Since: a run of packets up to the newest. *)
LEMMA SinceStep ==
  ASSUME Typed, Shaped, W!Since(window, cur.pos) # <<>>
  PROVE  \E m \in 1 .. Len(window) :
           /\ ~W!PosBefore(window[m].pos, cur.pos)
           /\ \A i \in 1 .. m - 1 : W!PosBefore(window[i].pos, cur.pos)
           /\ Len(W!Since(window, cur.pos)) = Len(window) - m + 1
           /\ \A i \in 1 .. Len(window) - m + 1 :
                /\ W!Since(window, cur.pos)[i] = window[m + i - 1]
                /\ W!Since(window, cur.pos)[i].gen = header.gen
                /\ W!Since(window, cur.pos)[i].ts = serial - Len(window) + m + i - 1
                /\ Distance(W!Since(window, cur.pos)[i].pos, Tip) = Len(window) - m - i + 2
<1> DEFINE b == W!Since(window, cur.pos)
<1>0. window \in Seq(StreamPackets) /\ Len(window) \in Nat /\ serial \in Nat
  BY TypedParts
<1>1. PICK m \in 1 .. Len(window) :
        /\ ~W!PosBefore(window[m].pos, cur.pos)
        /\ \A i \in 1 .. m - 1 : W!PosBefore(window[i].pos, cur.pos)
        /\ Len(b) = Len(window) - m + 1
        /\ \A i \in 1 .. Len(window) - m + 1 : b[i] = window[m + i - 1]
  BY <1>0, SinceIs, Zenon
<1> HIDE DEF b
<1>2. ASSUME NEW i \in 1 .. Len(window) - m + 1
      PROVE  /\ b[i].gen = header.gen /\ b[i].ts = serial - Len(window) + m + i - 1
             /\ Distance(b[i].pos, Tip) = Len(window) - m - i + 2
  <2> DEFINE j == m + i - 1
  <2>1. j \in 1 .. Len(window) /\ b[i] = window[j]
    BY <1>0, <1>1
  <2>2. serial - Len(window) + j = serial - Len(window) + m + i - 1 /\ Len(window) - j + 1 = Len(window) - m - i + 2
    BY <1>0
  <2> HIDE DEF j
  <2>3. /\ window[j].gen = header.gen /\ window[j].ts = serial - Len(window) + j
        /\ Distance(window[j].pos, Tip) = Len(window) - j + 1
    BY <2>1 DEF Shaped
  <2> QED
    BY <2>1, <2>2, <2>3
<1> QED
  BY <1>1, <1>2 DEF b

(* Batches: they are filled by Since and emptied packet by packet. *)
LEMMA BatchedStep ==
  ASSUME Typed, Shaped, Batched, Source \/ Others
  PROVE  Batched'
<1>0. /\ serial \in Nat /\ header.gen \in Nat /\ Len(batch) \in Nat /\ batch \in Seq(StreamPackets)
      /\ \A i \in 1 .. Len(batch) : /\ batch[i].pos \in W!Positions /\ batch[i].ts \in Nat \ {0}
                                    /\ batch[i].gen \in Nat
  BY TypedParts
<1>1. CASE Source /\ SetHeader
  <2>1. header'.gen = header.gen + 1 /\ serial' = serial /\ UNCHANGED <<pc, batch>>
    BY <1>1, HeaderStep DEF Source, SetHeader, outVars
  <2> QED
    BY <1>0, <2>1 DEF Batched
<1>2. CASE Source /\ Write
  <2>1. header' = header /\ serial' = serial + 1 /\ UNCHANGED <<pc, batch>>
    BY <1>2 DEF Source, Write, outVars
  <2>2. ASSUME NEW i \in 1 .. Len(batch), batch[i].gen = header.gen
        PROVE  Distance(batch[i].pos, Tip') = serial + 1 - batch[i].ts + 1
    <3>1. Distance(batch[i].pos, Tip) = serial - batch[i].ts + 1 /\ Distance(batch[i].pos, Tip) <= serial + 1
      BY <1>0, <2>2 DEF Batched
    <3>2. Distance(batch[i].pos, Tip') = Distance(batch[i].pos, Tip) + 1
      BY <1>0, <1>2, <3>1, TipMoves
    <3> QED
      BY <1>0, <3>1, <3>2
  <2>3. ASSUME NEW i \in 1 .. Len(batch)
        PROVE  batch[i].gen <= header.gen /\ batch[i].ts = batch[1].ts + i - 1 /\ batch[i].ts <= serial + 1
    BY <1>0 DEF Batched
  <2>4. pc' \in {"check", "send"} => batch' # <<>>
    BY <2>1 DEF Batched
  <2>5. ASSUME NEW i \in 1 .. Len(batch')
        PROVE  /\ batch'[i].gen <= header'.gen /\ batch'[i].ts = batch'[1].ts + i - 1 /\ batch'[i].ts <= serial'
               /\ batch'[i].gen = header'.gen => Distance(batch'[i].pos, Tip') = serial' - batch'[i].ts + 1
    <3>1. batch' = batch /\ i \in 1 .. Len(batch)
      BY <2>1
    <3>2. batch[i].gen = header.gen => Distance(batch[i].pos, Tip') = serial + 1 - batch[i].ts + 1
      BY <2>2, <3>1
    <3>3. batch[i].gen <= header.gen /\ batch[i].ts = batch[1].ts + i - 1 /\ batch[i].ts <= serial + 1
      BY <2>3, <3>1
    <3>4. header' = header /\ serial' = serial + 1
      BY <2>1
    <3> QED
      BY <1>0, <3>1, <3>2, <3>3, <3>4
  <2> QED
    BY <2>4, <2>5 DEF Batched
<1>3. ASSUME UNCHANGED <<header, window, serial, batch>>, pc' \in {"check", "send"} => pc \in {"check", "send"}
      PROVE  Batched'
  BY <1>3 DEF Batched, Tip
<1>4. ASSUME batch' = <<>>, pc' \notin {"check", "send"}
      PROVE  Batched'
  BY <1>4 DEF Batched
<1>5. CASE Source /\ ~SetHeader /\ ~Write
  BY <1>3, <1>5 DEF Source, SourceNext, Notifications, Snapshot, NotifyHeader, NotifyWrite, NotifyMeta, SetMeta,
                    outVars
<1>6. CASE Since
  <2>1. /\ pc' = IF batch' = <<>> THEN "wait" ELSE "check"
        /\ batch' = W!Since(window, cur.pos) /\ UNCHANGED <<header, serial>> /\ Tip' = Tip
    BY <1>6, OthersKeepBuffer DEF Since, Others, Output, srcVars
  <2>2. CASE batch' = <<>>
    BY <1>4, <2>1, <2>2
  <2>3. CASE batch' # <<>>
    <3>1. PICK m \in 1 .. Len(window) :
            /\ Len(batch') = Len(window) - m + 1
            /\ \A i \in 1 .. Len(window) - m + 1 :
                 /\ batch'[i].gen = header.gen
                 /\ batch'[i].ts = serial - Len(window) + m + i - 1
                 /\ Distance(batch'[i].pos, Tip) = Len(window) - m - i + 2
      BY <2>1, <2>3, SinceStep
    <3>2. Len(window) \in Nat
      BY TypedParts
    <3>3. 1 \in 1 .. Len(window) - m + 1 /\ batch'[1].ts = serial - Len(window) + m
      BY <1>0, <3>1, <3>2
    <3> QED
      BY <1>0, <2>1, <2>3, <3>1, <3>2, <3>3 DEF Batched
  <2> QED
    BY <2>2, <2>3
<1>7. CASE SendData
  <2>1. /\ pc = "send" /\ batch' = Tail(batch) /\ pc' = IF batch' = <<>> THEN "drain" ELSE "send"
        /\ UNCHANGED <<header, serial>> /\ Tip' = Tip
    BY <1>7, OthersKeepBuffer DEF SendData, Others, Output, srcVars
  <2>2. batch # <<>>
    BY <2>1 DEF Batched
  <2>3. Len(batch') = Len(batch) - 1 /\ \A i \in 1 .. Len(batch) - 1 : batch'[i] = batch[i + 1]
    BY <1>0, <2>1, <2>2, HeadTailProperties
  <2>4. ASSUME NEW i \in 1 .. Len(batch')
        PROVE  /\ batch'[i].gen <= header.gen /\ batch'[i].ts = batch'[1].ts + i - 1 /\ batch'[i].ts <= serial
               /\ batch'[i].gen = header.gen => Distance(batch'[i].pos, Tip) = serial - batch'[i].ts + 1
    <3>1. i + 1 \in 1 .. Len(batch) /\ batch'[i] = batch[i + 1] /\ 2 \in 1 .. Len(batch) /\ batch'[1] = batch[2]
          /\ 1 \in 1 .. Len(batch)
      BY <1>0, <2>3
    <3>2. batch[i + 1].ts = batch[1].ts + (i + 1) - 1 /\ batch[2].ts = batch[1].ts + 2 - 1
      BY <3>1 DEF Batched
    <3>3. batch[i + 1].ts = batch[2].ts + i - 1
      <4>1. batch[1].ts \in Nat /\ i \in Int
        BY <1>0, <2>3, <3>1
      <4> QED
        BY <3>2, <4>1
    <3>4. /\ batch[i + 1].gen <= header.gen /\ batch[i + 1].ts <= serial
          /\ batch[i + 1].gen = header.gen => Distance(batch[i + 1].pos, Tip) = serial - batch[i + 1].ts + 1
      BY <3>1 DEF Batched
    <3> QED
      BY <3>1, <3>3, <3>4
  <2> QED
    BY <2>1, <2>4 DEF Batched
<1>8. CASE Leave
  BY <1>4, <1>8 DEF Leave
<1>9. CASE \E k \in Notices : TakeNotice(k)
  BY <1>4, <1>9, SourceAssumption DEF TakeNotice, Notices
<1>10. CASE AddOutput \/ WriteFails \/ Close \/ Evict \/ RemoveOutput \/ SendBcst
  BY <1>3, <1>10 DEF AddOutput, WriteFails, Close, Evict, RemoveOutput, SendBcst, srcVars, outVars
<1>11. CASE ReadMeta \/ SendInitial \/ CursorHeader \/ HasData \/ OldestPos \/ Clamp
  BY <1>3, <1>11 DEF ReadMeta, SendInitial, CursorHeader, HasData, OldestPos, Clamp, srcVars
<1>12. CASE SendHeaderUpdate \/ SendMetaUpdate \/ SendBcstAtom \/ Signal \/ NoNewHeader \/ WakeUp \/ CloseSeen
  BY <1>3, <1>12 DEF SendHeaderUpdate, SendMetaUpdate, SendBcstAtom, Signal, NoNewHeader, WakeUp, CloseSeen, srcVars
<1> QED
  BY <1>1, <1>2, <1>5, <1>6, <1>7, <1>8, <1>9, <1>10, <1>11, <1>12 DEF Others, Output

(* What the source does to what the output can see. *)
LEMMA SourceStep ==
  ASSUME Typed, Source
  PROVE  /\ UNCHANGED <<pc, req, cur, oldest, batch, closed, evicting, sentHeader, sent, metaSent, registered>>
         /\ pending \subseteq pending'
         /\ \/ registered => Behind'
            \/ Write /\ header' = header /\ Behind' = Behind
            \/ UNCHANGED <<header, window, serial>> /\ Tip' = Tip /\ Behind' = Behind
<1>1. UNCHANGED <<pc, req, cur, oldest, batch, closed, evicting, sentHeader, sent, metaSent>>
  BY DEF Source, outVars, wire
<1>2. CASE SetHeader \/ Snapshot \/ NotifyHeader
  BY <1>1, <1>2 DEF SetHeader, Snapshot, NotifyHeader, Behind
<1>3. CASE Write
  BY <1>1, <1>3 DEF Write, Behind
<1>4. CASE NotifyWrite \/ \E k \in Metas : NotifyMeta(k) \/ SetMeta(k)
  <2>1. UNCHANGED <<header, window, serial, registered>> /\ Tip' = Tip /\ pending \subseteq pending'
    BY <1>4 DEF NotifyWrite, NotifyMeta, SetMeta, Tip
  <2>2. Behind' = Behind
    <3>1. ("header" \in pending') = ("header" \in pending)
      BY <1>4, SourceAssumption DEF NotifyWrite, NotifyMeta, SetMeta
    <3>2. src' = src \/ (src = "written" /\ src' = "idle")
      BY <1>4 DEF NotifyWrite, NotifyMeta, SetMeta
    <3> QED
      BY <1>1, <3>1, <3>2 DEF Behind
  <2> QED
    BY <1>1, <2>1, <2>2
<1> QED
  BY <1>2, <1>3, <1>4 DEF Source, SourceNext, Notifications

(* One packet of the batch is taken. *)
LEMMA SendStep ==
  ASSUME Typed, Batched, Headed, SendData
  PROVE  /\ 1 \in 1 .. Len(batch) /\ Head(batch) = batch[1]
         /\ Len(batch') = Len(batch) - 1 /\ \A i \in 1 .. Len(batch) - 1 : batch'[i] = batch[i + 1]
         /\ cur'.pos = W!Advance(batch[1].pos, 1)
         /\ registered /\ ~Behind => Distance(cur'.pos, Tip) = serial - batch[1].ts
<1>0. /\ batch \in Seq(StreamPackets) /\ pc = "send" /\ batch # <<>> /\ Len(batch) \in Nat /\ serial \in Nat
  BY TypedParts DEF SendData, Batched
<1>1. /\ 1 \in 1 .. Len(batch) /\ Head(batch) = batch[1] /\ batch[1] \in StreamPackets
      /\ batch[1].pos \in W!Positions /\ batch[1].ts \in Nat /\ Tip \in W!Positions
  BY <1>0, TypedParts
<1>2. Len(batch') = Len(batch) - 1 /\ \A i \in 1 .. Len(batch) - 1 : batch'[i] = batch[i + 1]
  BY <1>0, HeadTailProperties DEF SendData
<1>3. cur'.pos = W!Advance(batch[1].pos, 1)
  <2>1. batch[1].len = 1
    BY <1>1 DEF StreamPackets
  <2>2. cur'.pos = W!End(batch[1])
    BY <1>1 DEF SendData
  <2> QED
    BY <2>1, <2>2 DEF W!End
<1>4. ASSUME registered, ~Behind PROVE Distance(cur'.pos, Tip) = serial - batch[1].ts
  <2>1. batch[1].gen = header.gen
    BY <1>0, <1>1, <1>4 DEF Headed, Committed, Streaming
  <2>2. Distance(batch[1].pos, Tip) = serial - batch[1].ts + 1 /\ batch[1].ts <= serial
    BY <1>1, <2>1 DEF Batched
  <2>3. Distance(batch[1].pos, Tip) > 0
    BY <1>0, <1>1, <2>2
  <2>4. Distance(cur'.pos, Tip) = Distance(batch[1].pos, Tip) - 1
    BY <1>1, <1>3, <2>3, DistanceShrinks
  <2> QED
    BY <1>0, <1>1, <2>2, <2>4
<1> QED
  BY <1>1, <1>2, <1>3, <1>4

(* The header of a batch that will be sent is the one that was sent. *)
LEMMA HeadedStep ==
  ASSUME Typed, Shaped, Batched, Headed, Source \/ Others
  PROVE  Headed'
<1> USE DEF Starting, Streaming, Notices, Committed
<1>m. "header" \notin Metas /\ "send" \notin Metas /\ "check" \notin Metas
  BY SourceAssumption
<1>0. ASSUME UNCHANGED header, UNCHANGED <<registered, batch, sentHeader>>, Behind' = Behind,
             "header" \in pending => "header" \in pending',
             pc' \in Starting \cup Streaming => pc \in Starting \cup Streaming,
             pc' = "send" => pc = "send" \/ (pc = "check" /\ "header" \notin pending),
             pc' = "check" => pc = "check"
      PROVE  Headed'
  BY <1>0 DEF Headed
<1>1. CASE Source
  <2>1. CASE registered => Behind'
    BY <1>1, <2>1, SourceStep DEF Headed
  <2>2. CASE ~(registered => Behind')
    BY <1>0, <1>1, <2>2, SourceStep
  <2> QED
    BY <2>1, <2>2
<1>2. CASE ~registered' \/ pc' \in {"out", "initial", "initialHeader", "leaving"}
  BY <1>2, SourceAssumption DEF Headed
<1>3. CASE AddOutput \/ RemoveOutput \/ ReadMeta \/ Leave \/ WriteFails \/ CloseSeen
  BY <1>2, <1>3 DEF AddOutput, RemoveOutput, ReadMeta, Leave, WriteFails, CloseSeen
<1>4. CASE Close \/ Evict \/ SendBcst
  <2>1. /\ UNCHANGED <<header, registered, batch, sentHeader, pc, src>>
        /\ ("header" \in pending') = ("header" \in pending)
    BY <1>4 DEF Close, Evict, SendBcst, srcVars, outVars, wire
  <2> QED
    BY <1>0, <2>1 DEF Behind
<1>5. CASE SendInitial \/ SendHeaderUpdate
  <2>1. header' = header /\ sentHeader' = header.gen /\ pc' \in {"cursor", "drain"}
    BY <1>5 DEF SendInitial, SendHeaderUpdate, WriteHeader, srcVars
  <2> QED
    BY <2>1, <1>m DEF Headed
<1>6. CASE CursorHeader \/ HasData \/ OldestPos \/ Clamp \/ SendMetaUpdate \/ SendBcstAtom \/ Signal
           \/ NoNewHeader \/ WakeUp
  <2>1. /\ UNCHANGED <<header, registered, batch, sentHeader, src, pending>>
        /\ pc \in Starting \cup Streaming /\ pc # "header" /\ pc' # "header"
        /\ pc' = "send" => pc = "check" /\ "header" \notin pending
        /\ pc' # "check"
    BY <1>6, <1>m DEF CursorHeader, HasData, OldestPos, Clamp, SendMetaUpdate, SendBcstAtom, Signal,
                      NoNewHeader, WakeUp, srcVars, wire
  <2> QED
    BY <1>0, <2>1 DEF Behind
<1>7. ASSUME NEW k \in Notices, TakeNotice(k) PROVE Headed'
  <2>1. /\ UNCHANGED <<header, registered, sentHeader, src>> /\ pc' = k /\ pending' = pending \ {k} /\ k \in pending
        /\ pc # "header" /\ pc \in Streaming
    BY <1>7, <1>m DEF TakeNotice, wire
  <2>2. CASE k = "header"
    BY <2>1, <2>2 DEF Behind, Headed
  <2>3. CASE k # "header"
    <3>1. Behind' = Behind /\ pc' # "check" /\ pc' # "send"
      BY <2>1, <2>3, <1>m DEF Behind
    <3> QED
      BY <2>1, <3>1 DEF Headed
  <2> QED
    BY <2>2, <2>3
<1>8. CASE Since
  <2>1. /\ UNCHANGED <<header, window, registered, sentHeader, src, pending>> /\ pc = "since"
        /\ batch' = W!Since(window, cur.pos) /\ pc' = IF batch' = <<>> THEN "wait" ELSE "check"
    BY <1>8 DEF Since, srcVars, wire
  <2>2. Behind' = Behind
    BY <2>1 DEF Behind
  <2>3. CASE batch' = <<>>
    BY <2>1, <2>2, <2>3 DEF Headed
  <2>4. CASE batch' # <<>>
    <3>1. \A i \in 1 .. Len(batch') : batch'[i].gen = header.gen
      BY <2>1, <2>4, SinceStep
    <3>2. src \notin {"snapshot", "notify"}
      BY <2>1, <2>4, SinceEmpty DEF Shaped
    <3>3. Committed' => ~Behind /\ registered
      BY <2>1, <2>4, <3>2 DEF Behind
    <3>4. Committed' => sentHeader = header.gen
      BY <2>1, <3>3 DEF Headed
    <3> QED
      BY <2>1, <2>2, <3>1, <3>4 DEF Headed
  <2> QED
    BY <2>3, <2>4
<1>9. CASE SendData
  <2>1. /\ UNCHANGED <<header, registered, sentHeader, src, pending>> /\ pc = "send"
        /\ pc' = IF batch' = <<>> THEN "drain" ELSE "send"
    BY <1>9 DEF SendData, srcVars
  <2>2. Behind' = Behind
    BY <2>1 DEF Behind
  <2>3. Committed' => \A i \in 1 .. Len(batch') : batch'[i].gen = sentHeader
    <3>1. registered => \A i \in 1 .. Len(batch) : batch[i].gen = sentHeader
      BY <2>1 DEF Headed
    <3>2. Len(batch) \in Nat /\ Len(batch') = Len(batch) - 1 /\ \A i \in 1 .. Len(batch) - 1 : batch'[i] = batch[i + 1]
      BY <1>9, SendStep, TypedParts
    <3>3. \A i \in 1 .. Len(batch') : i + 1 \in 1 .. Len(batch) /\ batch'[i] = batch[i + 1]
      BY <3>2
    <3> QED
      BY <2>1, <3>1, <3>3
  <2> QED
    BY <2>1, <2>2, <2>3 DEF Headed
<1> QED
  BY <1>1, <1>3, <1>4, <1>5, <1>6, <1>7, <1>8, <1>9 DEF Others, Output

(* The cursor of an output that is not behind stays in reach of the tip. *)
LEMMA ReachingStep ==
  ASSUME Typed, Shaped, Batched, Headed, Reaching, Source \/ Others
  PROVE  Reaching'
<1> USE DEF Starting, Streaming, Placed, Notices
<1>m. "header" \notin Metas /\ Metas \cap {"oldest", "clamp", "hasData"} = {}
  BY SourceAssumption
<1>t. /\ serial \in Nat /\ Tip \in W!Positions /\ cur.pos \in W!Positions /\ oldest \in W!Positions
      /\ header.pos \in W!Positions /\ req \in W!Positions
  BY TypedParts
<1>0. ASSUME UNCHANGED <<window, serial, registered, cur, oldest>>, Tip' = Tip, Behind' = Behind,
             pc' \in Placed => pc \in Placed, pc' = "oldest" => pc = "oldest", pc' = "clamp" => pc = "clamp"
      PROVE  Reaching'
  BY <1>0 DEF Reaching
<1>1. CASE Source
  <2>1. CASE registered => Behind'
    BY <1>1, <2>1, SourceStep DEF Reaching
  <2>2. CASE ~(registered => Behind') /\ Write
    <3>1. /\ UNCHANGED <<pc, cur, oldest, registered>> /\ Behind' = Behind /\ serial' = serial + 1
          /\ registered /\ ~Behind
      BY <1>1, <2>2, SourceStep DEF Write, Behind
    <3>2. window' # <<>>
      BY <2>2, WriteStep DEF Follows
    <3>3. pc = "clamp" => Distance(oldest, Tip') <= serial + 2
      <4>1. ASSUME pc = "clamp" PROVE Distance(oldest, Tip') = Distance(oldest, Tip) + 1
                                     /\ Distance(oldest, Tip) <= serial + 1 /\ Distance(oldest, Tip) \in Nat
        BY <1>t, <2>2, <3>1, <4>1, TipMoves, DistanceIs DEF Reaching
      <4> QED
        BY <1>t, <4>1
    <3>4. pc \in Placed => Distance(cur.pos, Tip') <= serial + 2
      <4>1. ASSUME pc \in Placed PROVE Distance(cur.pos, Tip') = Distance(cur.pos, Tip) + 1
                                     /\ Distance(cur.pos, Tip) <= serial + 1 /\ Distance(cur.pos, Tip) \in Nat
        BY SMTT(30), <1>t, <2>2, <3>1, <4>1, TipMoves, DistanceIs DEF Reaching
      <4> QED
        BY <1>t, <4>1
    <3> QED
      BY <1>t, <3>1, <3>2, <3>3, <3>4 DEF Reaching
  <2>3. CASE ~(registered => Behind') /\ ~Write
    BY <1>0, <1>1, <2>3, SourceStep
  <2> QED
    BY <2>1, <2>2, <2>3
<1>k. Others => UNCHANGED <<header, window, serial>> /\ Tip' = Tip
  BY OthersKeepBuffer
<1>2. CASE ~registered' \/ pc' \in {"out", "initial", "initialHeader", "cursor", "leaving"}
  BY <1>2, SourceAssumption DEF Reaching
<1>3. CASE AddOutput \/ RemoveOutput \/ ReadMeta \/ SendInitial \/ Leave \/ WriteFails \/ CloseSeen
  BY <1>2, <1>3 DEF AddOutput, RemoveOutput, ReadMeta, SendInitial, Leave, WriteFails, CloseSeen
<1>4. CASE Close \/ Evict \/ SendBcst
  <2>1. /\ UNCHANGED <<registered, cur, oldest, pc, src>>
        /\ ("header" \in pending') = ("header" \in pending)
    BY <1>4 DEF Close, Evict, SendBcst, srcVars, outVars, wire
  <2> QED
    BY <1>0, <1>4, <1>k, <2>1 DEF Behind, Others
<1>5. CASE CursorHeader \/ SendHeaderUpdate
  <2>1. serial' = serial /\ Tip' = Tip /\ cur'.pos = header.pos /\ pc' \in {"hasData", "drain"}
    BY <1>5, <1>k DEF CursorHeader, SendHeaderUpdate, Others, Output
  <2> QED
    BY <2>1 DEF Reaching, Shaped
<1>6. CASE HasData
  <2>1. /\ UNCHANGED <<window, serial, registered, cur, oldest, src, pending>> /\ Tip' = Tip /\ pc = "hasData"
        /\ pc' = IF window = <<>> THEN "drain" ELSE "oldest"
    BY <1>6, <1>k DEF HasData, srcVars, Others, Output
  <2> QED
    BY <2>1 DEF Reaching, Behind
<1>7. CASE OldestPos
  <2>1. /\ UNCHANGED <<window, serial, registered, cur, src, pending>> /\ Tip' = Tip /\ pc = "oldest" /\ pc' = "clamp"
        /\ window # <<>> => oldest' = window[1].pos
    BY <1>7, <1>k DEF OldestPos, srcVars, Others, Output
  <2>2. Behind' = Behind
    BY <2>1 DEF Behind
  <2>3. window # <<>> => Distance(window[1].pos, Tip) <= serial + 1
    <3>1. window # <<>> => 1 \in 1 .. Len(window) /\ Len(window) \in Nat
      BY TypedParts
    <3>2. window # <<>> => Distance(window[1].pos, Tip) = Len(window) - 1 + 1 /\ Len(window) <= serial
      BY <3>1 DEF Shaped
    <3> QED
      BY <1>t, <3>1, <3>2
  <2> QED
    BY <2>1, <2>2, <2>3 DEF Reaching
<1>8. CASE Clamp
  <2>1. /\ UNCHANGED <<window, serial, registered, src, pending>> /\ Tip' = Tip /\ pc = "clamp" /\ pc' = "drain"
        /\ cur'.pos = StartPos(req, oldest, Tip)
    <3>1. cur \in [pos : W!Positions, wait : BOOLEAN]
      BY DEF Typed, TypeOK
    <3> QED
      BY <1>8, <1>k, <3>1 DEF Clamp, srcVars, Others, Output, Tip
  <2>2. Behind' = Behind
    BY <2>1 DEF Behind
  <2>3. ASSUME registered, ~Behind PROVE Distance(cur'.pos, Tip) <= serial + 1
    <3>1. Distance(oldest, Tip) <= serial + 1 /\ serial \in 0 .. MaxPackets /\ Distance(oldest, Tip) \in Nat
      BY <1>t, <2>1, <2>3, TypedParts, DistanceIs DEF Reaching
    <3>2. Distance(oldest, Tip) < PosMod \div 2
      BY <3>1, WrapAssumption, SourceAssumption
    <3>3. StartPos(req, oldest, Tip) \in W!Positions
          /\ Distance(StartPos(req, oldest, Tip), Tip) <= Distance(oldest, Tip)
      BY <1>t, <3>2, StartInReach
    <3>4. Distance(StartPos(req, oldest, Tip), Tip) \in Nat
      BY <1>t, <3>3, DistanceIs
    <3> QED
      BY <1>t, <2>1, <3>1, <3>3, <3>4
  <2> QED
    BY <2>1, <2>2, <2>3 DEF Reaching
<1>9. CASE SendMetaUpdate \/ SendBcstAtom \/ Signal \/ Since \/ NoNewHeader \/ WakeUp
  <2>1. /\ UNCHANGED <<registered, cur, oldest, src, pending>> /\ UNCHANGED <<window, serial>> /\ Tip' = Tip
        /\ pc \in Placed /\ pc # "header" /\ pc' # "header" /\ pc' \notin {"oldest", "clamp"}
    BY <1>9, <1>k, <1>m DEF SendMetaUpdate, SendBcstAtom, Signal, Since, NoNewHeader, WakeUp, srcVars, Others, Output
  <2> QED
    BY <1>0, <2>1 DEF Behind
<1>10. ASSUME NEW k \in Notices, TakeNotice(k) PROVE Reaching'
  <2>1. /\ UNCHANGED <<registered, cur, oldest, src>> /\ UNCHANGED <<window, serial>> /\ Tip' = Tip
        /\ pc' = k /\ pending' = pending \ {k} /\ pc # "header" /\ pc \in Placed
    BY <1>10, <1>k, <1>m DEF TakeNotice, Others, Output
  <2>2. CASE k = "header"
    BY <2>1, <2>2 DEF Behind, Reaching
  <2>3. CASE k # "header"
    <3>1. Behind' = Behind /\ pc' \notin {"oldest", "clamp"}
      BY <2>1, <2>3, <1>m DEF Behind
    <3> QED
      BY <1>0, <2>1, <3>1
  <2> QED
    BY <2>2, <2>3
<1>11. CASE SendData
  <2>1. /\ UNCHANGED <<registered, src, pending, serial>> /\ Tip' = Tip /\ pc = "send" /\ pc' \in {"drain", "send"}
    BY <1>11, <1>k DEF SendData, srcVars, Others, Output
  <2>2. Behind' = Behind
    BY <2>1 DEF Behind
  <2>3. registered /\ ~Behind => Distance(cur'.pos, Tip) <= serial + 1
    <3>1. registered /\ ~Behind => Distance(cur'.pos, Tip) = serial - batch[1].ts
      BY <1>11, SendStep
    <3>2. batch[1].ts \in Nat
      BY <1>11, SendStep, TypedParts
    <3> QED
      BY <1>t, <3>1, <3>2
  <2> QED
    BY <2>1, <2>2, <2>3 DEF Reaching
<1> QED
  BY <1>1, <1>3, <1>4, <1>5, <1>6, <1>7, <1>8, <1>9, <1>10, <1>11 DEF Others, Output

(* Between the last packet sent and the next one lies nothing in the window:  *)
(* Since leaves out exactly what is not newer.                                *)
LEMMA SinceFollows ==
  ASSUME Typed, Shaped, W!Since(window, cur.pos) # <<>>, Distance(cur.pos, Tip) = serial - sent.ts
  PROVE  /\ sent.ts < W!Since(window, cur.pos)[1].ts
         /\ \A i \in 1 .. Len(window) :
              ~(sent.ts < window[i].ts /\ window[i].ts < W!Since(window, cur.pos)[1].ts)
<1>0. /\ serial \in 0 .. MaxPackets /\ serial \in Nat /\ sent.ts \in Nat /\ Tip \in W!Positions
      /\ cur.pos \in W!Positions /\ Len(window) \in Nat
      /\ \A i \in 1 .. Len(window) : window[i].pos \in W!Positions /\ window[i].ts \in Nat
  BY TypedParts
<1>1. ASSUME NEW i \in 1 .. Len(window)
      PROVE  /\ window[i].ts = serial - Len(window) + i
             /\ W!PosBefore(window[i].pos, cur.pos) <=> window[i].ts <= sent.ts
  <2>1. /\ window[i].ts = serial - Len(window) + i /\ Distance(window[i].pos, Tip) = Len(window) - i + 1
        /\ Len(window) <= serial
    BY DEF Shaped
  <2>2. /\ Distance(window[i].pos, Tip) < PosMod \div 2 /\ Distance(cur.pos, Tip) < PosMod \div 2
    BY <1>0, <2>1, WrapAssumption, SourceAssumption
  <2>3. W!PosBefore(window[i].pos, cur.pos) <=> Distance(cur.pos, Tip) < Distance(window[i].pos, Tip)
    BY <1>0, <2>2, BeforeIsFurther
  <2> QED
    BY <1>0, <2>1, <2>3
<1>2. PICK m \in 1 .. Len(window) :
        /\ ~W!PosBefore(window[m].pos, cur.pos)
        /\ \A i \in 1 .. m - 1 : W!PosBefore(window[i].pos, cur.pos)
        /\ \A i \in 1 .. Len(window) - m + 1 : W!Since(window, cur.pos)[i] = window[m + i - 1]
  BY SinceStep
<1>3. W!Since(window, cur.pos)[1] = window[m]
  <2>1. 1 \in 1 .. Len(window) - m + 1 /\ m + 1 - 1 = m
    BY <1>0
  <2> QED
    BY <1>2, <2>1
<1>4. sent.ts < window[m].ts
  BY <1>0, <1>1, <1>2
<1>5. ASSUME NEW i \in 1 .. Len(window), sent.ts < window[i].ts PROVE ~(window[i].ts < window[m].ts)
  <2>1. ~(i < m)
    <3>1. i < m => i \in 1 .. m - 1
      BY <1>0
    <3> QED
      BY <1>0, <1>1, <1>2, <1>5, <3>1
  <2>2. window[i].ts = serial - Len(window) + i /\ window[m].ts = serial - Len(window) + m
    BY <1>1
  <2> QED
    BY <1>0, <2>1, <2>2
<1> QED
  BY <1>3, <1>4, <1>5

(* The order of the packets sent. *)
LEMMA OrderedStep ==
  ASSUME Typed, Shaped, Batched, Headed, Reaching, Ordered, Source \/ Others
  PROVE  Ordered'
<1> USE DEF Starting, Streaming, Placed, Notices, Committed
<1>m. Metas \cap {"header", "cursor", "hasData", "oldest", "clamp", "check", "send"} = {}
  BY SourceAssumption
<1>t. /\ serial \in Nat /\ Tip \in W!Positions /\ cur.pos \in W!Positions /\ sent.ts \in Nat
      /\ Len(window) \in Nat /\ Len(batch) \in Nat
      /\ \A i \in 1 .. Len(window) : window[i].ts \in Nat
      /\ \A i \in 1 .. Len(batch) : batch[i].ts \in Nat /\ batch[i] \in StreamPackets
  BY TypedParts
<1>n. NoPacket.ts = 0
  BY DEF NoPacket
<1>0. ASSUME UNCHANGED <<window, serial, registered, cur, sent, batch>>, Tip' = Tip, Behind' = Behind,
             "header" \in pending => "header" \in pending',
             pc' \in Placed => pc \in Placed, pc' \in Starting => pc \in Starting,
             pc' \in Streaming => pc \in Streaming \/ pc \in Starting,
             pc' = "send" => pc = "send" \/ (pc = "check" /\ "header" \notin pending),
             pc' = "check" => pc = "check"
      PROVE  Ordered'
  <2>1. /\ pc' \in Starting => sent' = NoPacket
        /\ pc' \in Placed => (cur'.wait <=> sent' = NoPacket)
        /\ sent'.ts <= serial'
    BY <1>0 DEF Ordered
  <2>2. registered' /\ ~Behind' /\ pc' \in Streaming /\ sent' # NoPacket =>
          Distance(cur'.pos, Tip') = serial' - sent'.ts
    BY <1>0 DEF Ordered
  <2>3. Committed' /\ sent' # NoPacket =>
          /\ sent'.ts < batch'[1].ts
          /\ \A i \in 1 .. Len(window') : ~(sent'.ts < window'[i].ts /\ window'[i].ts < batch'[1].ts)
    BY <1>0 DEF Ordered
  <2> QED
    BY <2>1, <2>2, <2>3 DEF Ordered
<1>1. CASE Source
  <2>1. /\ UNCHANGED <<pc, cur, batch, sent, registered>> /\ pending \subseteq pending'
    BY <1>1, SourceStep
  <2>2. \/ window' = <<>> /\ serial' = serial
        \/ Write
        \/ UNCHANGED <<window, serial>>
    BY <1>1 DEF Source, SourceNext, SetHeader, Notifications, Snapshot, NotifyHeader, NotifyWrite, NotifyMeta, SetMeta
  <2>3. /\ pc' \in Starting => sent' = NoPacket
        /\ pc' \in Placed => (cur'.wait <=> sent' = NoPacket)
    BY <2>1 DEF Ordered
  <2>4. sent'.ts <= serial'
    BY <1>t, <2>1, <2>2 DEF Ordered, Write
  <2>5. registered' /\ ~Behind' /\ pc' \in Streaming /\ sent' # NoPacket =>
          Distance(cur'.pos, Tip') = serial' - sent'.ts
    <3>1. CASE registered => Behind'
      BY <2>1, <3>1
    <3>2. CASE Write /\ Behind' = Behind
      <4>2. serial' = serial + 1
        BY <3>2 DEF Write
      <4>3. ASSUME registered', ~Behind', pc' \in Streaming, sent' # NoPacket
            PROVE  Distance(cur'.pos, Tip') = serial' - sent'.ts
        <5>1. registered /\ ~Behind /\ pc \in Streaming /\ sent # NoPacket
          BY <2>1, <3>2, <4>3
        <5>2. cur' = cur /\ sent' = sent
          BY <2>1
        <5>3. Distance(cur.pos, Tip) = serial - sent.ts
          BY <5>1 DEF Ordered
        <5>4. Distance(cur.pos, Tip) <= serial + 1
          BY <1>t, <5>3
        <5>5. Distance(cur.pos, Tip') = Distance(cur.pos, Tip) + 1
          BY <1>t, <3>2, <5>4, TipMoves
        <5>6. Distance(cur.pos, Tip') = (serial + 1) - sent.ts
          <6>1. serial \in Nat /\ sent.ts \in Nat
            BY <1>t
          <6>2. \A d \in Int : d = serial - sent.ts => d + 1 = (serial + 1) - sent.ts
            BY <6>1
          <6>3. Distance(cur.pos, Tip) \in Int
            BY <5>3, <6>1
          <6> QED
            BY <5>3, <5>5, <6>2, <6>3, Zenon
        <5>7. cur'.pos = cur.pos /\ sent'.ts = sent.ts
          BY <5>2
        <5>8. serial' - sent'.ts = (serial + 1) - sent.ts
          BY <4>2, <5>7, Zenon
        <5> QED
          BY <5>6, <5>7, <5>8
      <4> QED
        BY <4>3
    <3>3. CASE UNCHANGED serial /\ Tip' = Tip /\ Behind' = Behind
      BY <2>1, <3>3 DEF Ordered
    <3> QED
      BY <1>1, <3>1, <3>2, <3>3, SourceStep
  <2>6. ASSUME Committed', sent' # NoPacket
        PROVE  /\ sent'.ts < batch'[1].ts
               /\ \A i \in 1 .. Len(window') : ~(sent'.ts < window'[i].ts /\ window'[i].ts < batch'[1].ts)
    <3>1. /\ sent.ts < batch[1].ts
          /\ \A i \in 1 .. Len(window) : ~(sent.ts < window[i].ts /\ window[i].ts < batch[1].ts)
      BY <2>1, <2>6 DEF Ordered
    <3>2. \A i \in 1 .. Len(window') : ~(sent.ts < window'[i].ts /\ window'[i].ts < batch[1].ts)
      <4>1. CASE window' = <<>> \/ UNCHANGED window
        BY <3>1, <4>1
      <4>2. CASE Write
        <5>1. PICK p \in StreamPackets : p.ts = serial + 1 /\ Follows(window, p, window')
          BY <4>2, WriteStep
        <5>2. PICK k \in 1 .. Len(window) + 1 :
                /\ Len(window') = k /\ window'[k] = p
                /\ \A i \in 1 .. k - 1 : window'[i] = window[Len(window) + 1 - k + i]
          BY <5>1 DEF Follows
        <5>3. batch[1].ts <= serial /\ batch[1].ts \in Nat
          <6>1. batch # <<>> /\ batch \in Seq(StreamPackets)
            BY <2>1, <2>6, TypedParts DEF Batched
          <6>2. 1 \in 1 .. Len(batch)
            BY <1>t, <6>1
          <6> QED
            BY <1>t, <6>2 DEF Batched
        <5>4. ASSUME NEW i \in 1 .. k PROVE ~(sent.ts < window'[i].ts /\ window'[i].ts < batch[1].ts)
          <6>1. CASE i = k
            BY <1>t, <5>1, <5>2, <5>3, <6>1
          <6>2. CASE i < k
            <7>1. Len(window) + 1 - k + i \in 1 .. Len(window) /\ i \in 1 .. k - 1
              BY <1>t, <6>2
            <7> QED
              BY <3>1, <5>2, <7>1
          <6> QED
            BY <6>1, <6>2
        <5> QED
          BY <5>2, <5>4
      <4> QED
        BY <2>2, <4>1, <4>2
    <3> QED
      BY <2>1, <3>1, <3>2
  <2> QED
    BY <2>3, <2>4, <2>5, <2>6 DEF Ordered
<1>k. Others => UNCHANGED <<header, window, serial>> /\ Tip' = Tip
  BY OthersKeepBuffer
<1>2. ASSUME UNCHANGED <<serial, sent>> \/ (serial' = serial /\ sent' = NoPacket),
             pc' \in {"out", "initial", "initialHeader", "leaving"}
      PROVE  Ordered'
  <2>1. pc' \notin Placed /\ pc' \notin Starting /\ pc' \notin {"send", "check"} /\ pc' \notin Streaming
    BY <1>2, SourceAssumption
  <2>2. sent'.ts <= serial'
    BY <1>2, <1>t, <1>n DEF Ordered
  <2> QED
    BY <2>1, <2>2 DEF Ordered
<1>3. CASE AddOutput \/ ReadMeta \/ Leave \/ WriteFails \/ CloseSeen
  <2>1. serial' = serial /\ (sent' = sent \/ sent' = NoPacket) /\ pc' \in {"out", "initial", "initialHeader", "leaving"}
    BY <1>3, <1>k DEF AddOutput, ReadMeta, Leave, WriteFails, CloseSeen, Others, Output, wire
  <2> QED
    BY <1>2, <2>1
<1>4. CASE RemoveOutput
  <2>1. /\ UNCHANGED <<serial, pc, cur, sent>> /\ registered' = FALSE
    BY <1>4 DEF RemoveOutput, wire
  <2> QED
    BY <2>1 DEF Ordered
<1>5. CASE Close \/ Evict \/ SendBcst
  <2>1. /\ UNCHANGED <<registered, cur, batch, sent, pc, src>>
        /\ ("header" \in pending') = ("header" \in pending)
    BY <1>5 DEF Close, Evict, SendBcst, srcVars, outVars, wire
  <2> QED
    BY <1>0, <1>5, <1>k, <2>1 DEF Behind, Others
<1>6. CASE SendInitial \/ SendHeaderUpdate
  <2>1. /\ serial' = serial /\ sent' = NoPacket
        /\ pc' = "cursor" \/ (pc' = "drain" /\ cur'.wait = TRUE)
    BY <1>6, <1>k DEF SendInitial, SendHeaderUpdate, WriteHeader, Others, Output
  <2> QED
    BY <1>t, <1>n, <1>m, <2>1 DEF Ordered
<1>7. CASE CursorHeader
  <2>1. /\ serial' = serial /\ sent' = sent /\ pc = "cursor" /\ pc' = "hasData" /\ cur'.wait = TRUE
    BY <1>7, <1>k DEF CursorHeader, Others, Output, wire
  <2> QED
    BY <1>t, <1>m, <2>1 DEF Ordered
<1>8. CASE Clamp
  <2>1. /\ serial' = serial /\ sent' = sent /\ pc = "clamp" /\ pc' = "drain" /\ cur'.wait = cur.wait
    <3>1. cur \in [pos : W!Positions, wait : BOOLEAN]
      BY DEF Typed, TypeOK
    <3> QED
      BY <1>8, <1>k, <3>1 DEF Clamp, Others, Output, wire
  <2> QED
    BY <1>t, <1>m, <2>1 DEF Ordered
<1>9. CASE HasData \/ OldestPos
  <2>1. /\ UNCHANGED <<window, serial, registered, cur, sent, batch, src, pending>> /\ Tip' = Tip
        /\ pc \in {"hasData", "oldest"} /\ pc' \in {"drain", "oldest", "clamp"}
    BY <1>9, <1>k DEF HasData, OldestPos, srcVars, wire, Others, Output
  <2>2. Behind' = Behind
    BY <2>1 DEF Behind
  <2> QED
    BY <1>0, <1>m, <2>1, <2>2
<1>10. CASE SendMetaUpdate \/ SendBcstAtom \/ Signal \/ NoNewHeader \/ WakeUp
  <2>1. /\ UNCHANGED <<registered, cur, sent, batch, src, pending>> /\ UNCHANGED <<window, serial>> /\ Tip' = Tip
        /\ pc \in Streaming /\ pc # "header" /\ pc' \in {"drain", "since", "send"}
        /\ pc' = "send" => pc = "check" /\ "header" \notin pending
    BY <1>10, <1>k, <1>m DEF SendMetaUpdate, SendBcstAtom, Signal, NoNewHeader, WakeUp, srcVars, wire, Others, Output
  <2>2. Behind' = Behind
    BY <2>1 DEF Behind
  <2> QED
    BY <1>0, <1>m, <2>1, <2>2
<1>11. ASSUME NEW k \in Notices, TakeNotice(k) PROVE Ordered'
  <2>1. /\ UNCHANGED <<registered, cur, sent, src>> /\ UNCHANGED <<window, serial>> /\ Tip' = Tip
        /\ pc' = k /\ pending' = pending \ {k} /\ pc # "header" /\ pc \in Streaming
    BY <1>11, <1>k, <1>m DEF TakeNotice, wire, Others, Output
  <2>2. pc' \notin Starting /\ pc' \in Streaming /\ pc' \notin {"check", "send"} /\ pc \in Placed
    BY <2>1, <1>m
  <2>3. Behind' \/ Behind' = Behind
    BY <2>1, <1>m DEF Behind
  <2> QED
    BY <2>1, <2>2, <2>3 DEF Ordered
<1>12. CASE Since
  <2>1. /\ UNCHANGED <<registered, cur, sent, src, pending>> /\ UNCHANGED <<window, serial>> /\ Tip' = Tip
        /\ pc = "since" /\ batch' = W!Since(window, cur.pos) /\ pc' = IF batch' = <<>> THEN "wait" ELSE "check"
    BY <1>12, <1>k DEF Since, srcVars, wire, Others, Output
  <2>2. Behind' = Behind
    BY <2>1 DEF Behind
  <2>3. ASSUME Committed', sent # NoPacket
        PROVE  /\ sent.ts < batch'[1].ts
               /\ \A i \in 1 .. Len(window) : ~(sent.ts < window[i].ts /\ window[i].ts < batch'[1].ts)
    <3>1. batch' # <<>> /\ registered /\ "header" \notin pending
      BY <2>1, <2>3
    <3>2. src \notin {"snapshot", "notify"}
      BY <2>1, <3>1, SinceEmpty DEF Shaped
    <3>3. ~Behind
      BY <2>1, <3>1, <3>2 DEF Behind
    <3>4. Distance(cur.pos, Tip) = serial - sent.ts
      BY <2>1, <2>3, <3>1, <3>3 DEF Ordered
    <3> QED
      BY <2>1, <3>1, <3>4, SinceFollows
  <2> QED
    BY <2>1, <2>2, <2>3 DEF Ordered
<1>13. CASE SendData
  <2> DEFINE skip == cur.wait /\ ~batch[1].key
  <2>1. /\ UNCHANGED <<registered, src, pending>> /\ UNCHANGED <<window, serial>> /\ Tip' = Tip /\ pc = "send"
        /\ pc' = IF batch' = <<>> THEN "drain" ELSE "send"
    BY <1>13, <1>k DEF SendData, srcVars, Others, Output
  <2>2. /\ 1 \in 1 .. Len(batch) /\ Head(batch) = batch[1]
        /\ Len(batch') = Len(batch) - 1 /\ \A i \in 1 .. Len(batch) - 1 : batch'[i] = batch[i + 1]
        /\ registered /\ ~Behind => Distance(cur'.pos, Tip) = serial - batch[1].ts
    BY <1>13, SendStep
  <2>3. cur'.wait = skip /\ sent' = IF skip THEN sent ELSE batch[1]
    BY <1>13, <2>2 DEF SendData
  <2>4. batch[1].ts \in Nat /\ batch[1].ts <= serial /\ batch[1] # NoPacket
    <3>1. batch[1].len = 1 /\ NoPacket.len = 0
      BY <1>t, <2>2 DEF StreamPackets, NoPacket
    <3> QED
      BY <1>t, <2>2, <3>1 DEF Batched
  <2>5. skip => sent = NoPacket
    BY <2>1 DEF Ordered
  <2> HIDE DEF skip
  <2>6. Behind' = Behind
    BY <2>1 DEF Behind
  <2>7. cur'.wait <=> sent' = NoPacket
    BY <2>3, <2>4, <2>5
  <2>8. sent' # NoPacket => sent' = batch[1]
    BY <2>3, <2>5
  <2>9. sent'.ts <= serial
    BY <1>t, <1>n, <2>4, <2>8
  <2>10. ASSUME pc' = "send", sent' # NoPacket
         PROVE  /\ sent'.ts < batch'[1].ts
                /\ \A i \in 1 .. Len(window) : ~(sent'.ts < window[i].ts /\ window[i].ts < batch'[1].ts)
    <3>1. batch' # <<>> /\ batch \in Seq(StreamPackets) /\ batch' = Tail(batch)
      BY <1>13, <2>1, <2>10, TypedParts DEF SendData
    <3>2. Len(batch') # 0
      BY <3>1, EmptySeq, HeadTailProperties, <2>2, <1>t
    <3>3. 1 \in 1 .. Len(batch) - 1 /\ 2 \in 1 .. Len(batch)
      BY <1>t, <2>2, <3>2
    <3>4. batch'[1] = batch[2]
      BY <2>2, <3>3
    <3>5. batch[2].ts = batch[1].ts + 2 - 1
      BY <3>3 DEF Batched
    <3> QED
      BY <1>t, <2>4, <2>8, <2>10, <3>4, <3>5
  <2> QED
    BY <1>m, <2>1, <2>2, <2>6, <2>7, <2>8, <2>9, <2>10 DEF Ordered
<1> QED
  BY <1>1, <1>3, <1>4, <1>5, <1>6, <1>7, <1>8, <1>9, <1>10, <1>11, <1>12, <1>13 DEF Others, Output

(* What an output was not told is under way to it. *)
LEMMA WokenStep ==
  ASSUME Typed, Woken, Source \/ Others
  PROVE  Woken'
<1> DEFINE Told == {"initialHeader"} \cup Starting \cup Streaming
           Known(k) == metaSent[k] = version[k] \/ k \in pending \/ due[k] > 0 \/ pc = k
           Fresh == pc = "wait" => W!Since(window, cur.pos) = <<>> \/ signalled \/ src = "written"
<1>m. /\ Metas \cap {"header", "bcst", "out", "initial", "initialHeader", "cursor", "hasData", "oldest", "clamp",
                     "drain", "since", "check", "send", "wait", "leaving"} = {}
  BY SourceAssumption
<1>t. /\ version \in [Metas -> 0 .. MaxVersions] /\ due \in [Metas -> 0 .. MaxVersions]
      /\ metaSent \in [Metas -> 0 .. MaxVersions] /\ MaxVersions \in Nat
      /\ src \in {"idle", "snapshot", "notify", "written"}
  BY SourceAssumption DEF Typed, TypeOK, SourceTypeOK
<1>w. Fresh /\ (registered /\ pc \in Told => \A k \in Metas : Known(k))
  BY DEF Woken
<1>g. ASSUME Fresh', registered' /\ pc' \in Told => \A k \in Metas : Known(k)'
      PROVE  Woken'
  BY <1>g DEF Woken
<1>0. ASSUME UNCHANGED <<version, due, pending, metaSent, registered>>, pc' \in Told => pc \in Told,
             pc \notin Metas \/ pc' = pc
      PROVE  registered' /\ pc' \in Told => \A k \in Metas : Known(k)'
  BY <1>0, <1>w
<1>1. ASSUME UNCHANGED <<window, src, signalled>>, (pc' = pc /\ cur' = cur) \/ pc' # "wait" PROVE Fresh'
  BY <1>1, <1>w
<1> HIDE DEF Fresh
<1>2. CASE Source
  <2>0. UNCHANGED <<pc, cur, metaSent, registered>> /\ pending \subseteq pending'
    BY <1>2, SourceStep
  <2>1. CASE SetHeader
    BY <1>0, <1>g, <2>0, <2>1, SinceEmpty DEF SetHeader, Fresh
  <2>2. CASE Write \/ NotifyWrite
    BY <1>0, <1>g, <2>0, <2>2 DEF Write, NotifyWrite, Fresh
  <2>3. CASE Snapshot \/ NotifyHeader
    <3>1. /\ UNCHANGED <<window, signalled, version, due>> /\ src # "written"
      BY <2>3 DEF Snapshot, NotifyHeader
    <3>2. Fresh'
      BY <1>w, <2>0, <3>1 DEF Fresh
    <3>3. registered' /\ pc' \in Told => \A k \in Metas : Known(k)'
      BY <1>w, <2>0, <3>1
    <3> QED
      BY <1>g, <3>2, <3>3
  <2>4. ASSUME NEW k \in Metas, NotifyMeta(k) PROVE Woken'
    <3>1. /\ UNCHANGED <<window, src, signalled, version>> /\ pending' = pending \cup {k}
          /\ due' = [due EXCEPT ![k] = @ - 1]
      BY <2>4 DEF NotifyMeta
    <3>2. registered' /\ pc' \in Told => \A l \in Metas : Known(l)'
      <4>1. \A l \in Metas : l # k => due'[l] = due[l]
        BY <1>t, <3>1
      <4> QED
        BY <1>w, <2>0, <3>1, <4>1
    <3> QED
      BY <1>1, <1>g, <2>0, <3>1, <3>2
  <2>5. ASSUME NEW k \in Metas, SetMeta(k) PROVE Woken'
    <3>1. /\ UNCHANGED <<window, src, signalled, pending>>
          /\ version' = [version EXCEPT ![k] = @ + 1]
          /\ due' = [due EXCEPT ![k] = IF registered THEN @ + 1 ELSE @]
      BY <2>5 DEF SetMeta
    <3>2. registered' /\ pc' \in Told => \A l \in Metas : Known(l)'
      <4>1. /\ \A l \in Metas : l # k => due'[l] = due[l] /\ version'[l] = version[l]
            /\ registered => due'[k] > 0
        BY <1>t, <3>1
      <4> QED
        BY <1>w, <2>0, <3>1, <4>1
    <3> QED
      BY <1>1, <1>g, <2>0, <3>1, <3>2
  <2> QED
    BY <1>2, <2>1, <2>2, <2>3, <2>4, <2>5 DEF Source, SourceNext, Notifications
<1> USE DEF Starting, Streaming, Notices
<1>3. CASE AddOutput \/ Leave \/ WriteFails \/ CloseSeen
  <2>1. pc' \notin Told /\ pc' # "wait"
    BY <1>3, SourceAssumption DEF AddOutput, Leave, WriteFails, CloseSeen
  <2> QED
    BY <1>g, <2>1 DEF Fresh
<1>4. CASE RemoveOutput
  BY <1>1, <1>4, <1>g DEF RemoveOutput
<1>5. CASE Close \/ Evict
  BY <1>0, <1>1, <1>5, <1>g DEF Close, Evict, srcVars, wire
<1>6. CASE SendBcst
  <2>1. /\ UNCHANGED <<window, src, signalled, pc, cur, version, due, metaSent, registered>> /\ pending \subseteq pending'
    BY <1>6 DEF SendBcst, outVars, wire
  <2>2. registered' /\ pc' \in Told => \A k \in Metas : Known(k)'
    BY <1>w, <2>1
  <2> QED
    BY <1>1, <1>g, <2>1, <2>2
<1>7. CASE ReadMeta
  <2>1. UNCHANGED <<window, src, signalled, version>> /\ metaSent' = version /\ pc' = "initialHeader"
    BY <1>7 DEF ReadMeta, srcVars
  <2> QED
    BY <1>1, <1>g, <2>1
<1>8. CASE SendInitial \/ CursorHeader \/ HasData \/ OldestPos \/ Clamp \/ SendHeaderUpdate \/ SendBcstAtom
           \/ NoNewHeader \/ SendData \/ WakeUp
  <2>1. /\ UNCHANGED <<window, src, signalled, version, due, pending, metaSent, registered>>
        /\ pc \in Told /\ pc \notin Metas /\ pc' # "wait"
    BY <1>8, <1>m DEF SendInitial, CursorHeader, HasData, OldestPos, Clamp, SendHeaderUpdate, SendBcstAtom,
                      NoNewHeader, SendData, WakeUp, WriteHeader, srcVars, wire
  <2> QED
    BY <1>0, <1>1, <1>g, <2>1
<1>9. CASE Signal
  <2>1. /\ UNCHANGED <<version, due, pending, metaSent, registered>> /\ pc = "drain" /\ pc' = "since"
    BY <1>9 DEF Signal, wire
  <2>2. Fresh'
    BY <2>1 DEF Fresh
  <2> QED
    BY <1>0, <1>g, <1>m, <2>1, <2>2
<1>10. CASE Since
  <2>1. /\ UNCHANGED <<window, cur, version, due, pending, metaSent, registered>> /\ pc = "since"
        /\ batch' = W!Since(window, cur.pos) /\ pc' = IF batch' = <<>> THEN "wait" ELSE "check"
    BY <1>10 DEF Since, srcVars, wire
  <2>2. Fresh'
    BY <2>1 DEF Fresh
  <2> QED
    BY <1>0, <1>g, <1>m, <2>1, <2>2
<1>11. CASE SendMetaUpdate
  <2>1. /\ UNCHANGED <<window, src, signalled, version, due, pending, registered>>
        /\ pc \in Metas /\ pc' = "drain" /\ metaSent' = [metaSent EXCEPT ![pc] = version[pc]]
    BY <1>11 DEF SendMetaUpdate, srcVars
  <2>2. registered' /\ pc' \in Told => \A k \in Metas : Known(k)'
    BY <1>t, <1>w, <2>1
  <2> QED
    BY <1>1, <1>g, <2>1, <2>2
<1>12. ASSUME NEW k \in Notices, TakeNotice(k) PROVE Woken'
  <2>1. /\ UNCHANGED <<window, src, signalled, version, due, metaSent, registered>>
        /\ pc \in {"drain", "wait", "check"} /\ pc' = k /\ pending' = pending \ {k}
    BY <1>12 DEF TakeNotice, wire
  <2>2. pc' # "wait" /\ pc \notin Metas /\ pc \in Told
    BY <1>m, <2>1
  <2>3. registered' /\ pc' \in Told => \A l \in Metas : Known(l)'
    BY <1>w, <2>1, <2>2
  <2> QED
    BY <1>1, <1>g, <2>1, <2>2, <2>3
<1> QED
  BY <1>2, <1>3, <1>4, <1>5, <1>6, <1>7, <1>8, <1>9, <1>10, <1>11, <1>12 DEF Others, Output

-----------------------------------------------------------------------------
(* The whole invariant holds at the start, *)
LEMMA DInvInit ==
  ASSUME Init
  PROVE  DInv
<1> USE DEF Init, SourceInit
<1>1. Typed
  <2>1. /\ [k \in Metas |-> 0] \in [Metas -> 0 .. MaxVersions] /\ 0 \in Generations /\ 0 \in W!Positions
        /\ 0 \in 0 .. MaxPackets
    BY SourceAssumption DEF Generations, W!Positions
  <2>2. SourceTypeOK
    BY <2>1, EmptySeq DEF SourceTypeOK
  <2>3. TypeOK
    BY <2>1, <2>2, EmptySeq DEF TypeOK
  <2> QED
    BY <2>3 DEF Typed
<1>2. Woken
  BY SourceAssumption DEF Woken
<1>3. Shaped
  <2>1. Tip = 0
    BY DEF Tip, W!ContentPosition
  <2>2. Distance(0, 0) = 0
    BY DistanceIs, SourceAssumption DEF W!Positions
  <2> QED
    BY <2>1, <2>2 DEF Shaped
<1>4. Batched /\ Headed /\ Reaching
  BY DEF Batched, Headed, Committed, Reaching
<1>5. Ordered
  <2>1. pc \notin Starting /\ pc \notin Placed /\ ~registered /\ sent.ts = 0 /\ serial = 0
    BY SourceAssumption DEF Starting, Streaming, Placed, Notices, NoPacket
  <2> QED
    BY <2>1 DEF Ordered, Committed
<1> QED
  BY <1>1, <1>2, <1>3, <1>4, <1>5 DEF DInv

(* and every step keeps it. *)
LEMMA DInvNext ==
  ASSUME DInv, [Next]_vars
  PROVE  DInv'
<1>1. CASE Source \/ Others
  <2>1. Typed'
    BY <1>1, SourceTyped, OutputTyped DEF DInv, Others, Batched
  <2>2. Shaped' /\ Batched' /\ Headed' /\ Woken'
    BY <1>1, ShapedStep, BatchedStep, HeadedStep, WokenStep DEF DInv
  <2>3. Reaching' /\ Ordered'
    BY <1>1, ReachingStep, OrderedStep DEF DInv
  <2> QED
    BY <2>1, <2>2, <2>3 DEF DInv
<1>2. CASE UNCHANGED vars
  <2>1. /\ UNCHANGED <<header, window, src, serial, version, due, registered, pending, signalled>>
        /\ UNCHANGED <<pc, req, cur, oldest, batch, closed, evicting, sentHeader, sent, metaSent>>
    BY <1>2 DEF vars, srcVars, outVars, wire
  <2>2. Tip' = Tip /\ Behind' = Behind /\ Committed' = Committed
    BY <2>1 DEF Tip, Behind, Committed
  <2>3. Typed' /\ Woken'
    BY <2>1 DEF DInv, Typed, Woken, TypeOK, SourceTypeOK
  <2>4. Shaped' /\ Batched'
    BY <2>1, <2>2 DEF DInv, Shaped, Batched
  <2>5. Headed' /\ Reaching' /\ Ordered'
    BY <2>1, <2>2 DEF DInv, Headed, Reaching, Ordered
  <2> QED
    BY <2>3, <2>4, <2>5 DEF DInv
<1> QED
  BY <1>1, <1>2 DEF Next, Others

-----------------------------------------------------------------------------
(* For every size of the buffer and of the position space, whatever the       *)
(* source and the other goroutines do: the whole invariant always holds.      *)
THEOREM DeliveryInvariant == Spec => []DInv
<1>1. Init => DInv
  BY DInvInit
<1>2. DInv /\ [Next]_vars => DInv'
  BY DInvNext
<1> QED
  BY <1>1, <1>2, PTL DEF Spec

(* The variables of the output and of the source keep their types. *)
THEOREM DeliveryTypeCorrect == Spec => []TypeOK
<1>1. DInv => TypeOK
  BY DEF DInv, Typed
<1> QED
  BY <1>1, DeliveryInvariant, PTL

(* An output waits in its select only when all is sent, or when the signal,   *)
(* a notification or a call that is still under way will wake it up.          *)
THEOREM NoWakeupIsLost == Spec => []NoLostWakeup
<1>1. DInv => NoLostWakeup
  <2> SUFFICES ASSUME DInv, pc = "wait", registered
               PROVE  /\ \/ W!Since(window, cur.pos) = <<>>
                         \/ signalled \/ "header" \in pending \/ src \in {"written", "snapshot", "notify"}
                      /\ \A k \in Metas : metaSent[k] = version[k] \/ k \in pending \/ due[k] > 0
    BY DEF NoLostWakeup
  <2>1. W!Since(window, cur.pos) = <<>> \/ signalled \/ src = "written"
    BY DEF DInv, Woken
  <2>2. \A k \in Metas : metaSent[k] = version[k] \/ k \in pending \/ due[k] > 0
    BY SourceAssumption DEF DInv, Woken, Streaming
  <2> QED
    BY <2>1, <2>2
<1> QED
  BY <1>1, DeliveryInvariant, PTL

(* The cursor that startCursor or sendHeaderUpdate chose, and every one after *)
(* it, is a position that the stream still reaches.                           *)
THEOREM CursorStaysInReach == Spec => []CursorInReach
<1>1. DInv => CursorInReach
  <2> SUFFICES ASSUME DInv, pc \in {"drain", "since", "wait"}, pending = {}, src = "idle", registered
               PROVE  ~W!PosBefore(Tip, cur.pos)
    BY DEF CursorInReach, Tip
  <2>1. ~Behind /\ pc \in Placed
    BY DEF Behind, Placed, Streaming
  <2>2. /\ Distance(cur.pos, Tip) <= serial + 1 /\ serial \in 0 .. MaxPackets
        /\ cur.pos \in W!Positions /\ Tip \in W!Positions
    BY <2>1, TypedParts DEF DInv, Reaching
  <2>3. Distance(cur.pos, Tip) < PosMod \div 2 /\ Distance(cur.pos, Tip) \in Nat
    BY <2>2, DistanceIs, WrapAssumption, SourceAssumption
  <2>4. Distance(cur.pos, Tip) < PosMod - PosMod \div 2
    BY <2>3, SourceAssumption
  <2> QED
    BY <2>3, <2>4, SourceAssumption DEF W!PosBefore, Distance
<1> QED
  BY <1>1, DeliveryInvariant, PTL

(* Only sendDataPackets writes a packet. *)
LEMMA SendsIsSendData ==
  ASSUME DInv, Next, Sends
  PROVE  SendData
<1>1. batch \in Seq(StreamPackets) /\ batch # <<>> /\ pc = "send"
  BY TypedParts DEF DInv, Batched, Sends
<1>2. batch' # batch
  <2>1. Len(Tail(batch)) = Len(batch) - 1 /\ Len(batch) \in Nat
    BY <1>1, HeadTailProperties
  <2>2. Len(Tail(batch)) # Len(batch)
    BY <2>1
  <2> QED
    BY <2>2 DEF Sends
<1>3. ~Source /\ ~Close /\ ~Evict /\ ~RemoveOutput /\ ~SendBcst /\ ~WriteFails /\ ~AddOutput
  BY <1>1, <1>2 DEF Source, Close, Evict, RemoveOutput, SendBcst, WriteFails, AddOutput, outVars
<1>4. ~(ReadMeta \/ SendInitial \/ CursorHeader \/ HasData \/ OldestPos \/ Clamp \/ SendHeaderUpdate
        \/ SendMetaUpdate \/ SendBcstAtom \/ Signal \/ Since \/ NoNewHeader \/ WakeUp \/ CloseSeen \/ Leave)
  BY <1>1, SourceAssumption
     DEF ReadMeta, SendInitial, CursorHeader, HasData, OldestPos, Clamp, SendHeaderUpdate,
         SendMetaUpdate, SendBcstAtom, Signal, Since, NoNewHeader, WakeUp, CloseSeen, Leave
<1>5. \A k \in Notices : ~TakeNotice(k)
  BY <1>1 DEF TakeNotice
<1> QED
  BY <1>3, <1>4, <1>5 DEF Next, Output

(* A packet that a registered output writes was written to the channel under  *)
(* the header that the output has sent last.                                  *)
THEOREM DataFollowsItsHeader == Spec => DataUnderOwnHeader
<1>1. DInv /\ [Next]_vars => [Sends /\ registered => sent'.gen = sentHeader]_vars
  <2> SUFFICES ASSUME DInv, Next, Sends, registered
               PROVE  sent'.gen = sentHeader
    OBVIOUS
  <2>1. SendData /\ Typed /\ Batched /\ Headed /\ Ordered
    BY SendsIsSendData DEF DInv
  <2>2. 1 \in 1 .. Len(batch) /\ Head(batch) = batch[1]
    BY <2>1, SendStep
  <2>3. batch[1].gen = sentHeader
    BY <2>1, <2>2 DEF Headed, Committed, Sends
  <2>4. sent' = batch[1]
    BY <2>1, <2>2 DEF SendData, Sends
  <2> QED
    BY <2>3, <2>4
<1> QED
  BY <1>1, DeliveryInvariant, PTL DEF Spec, DataUnderOwnHeader

(* After a header the packets of a registered output start with a keyframe;   *)
(* each next one is newer and skips nothing that was still buffered.          *)
THEOREM NothingIsSkipped == Spec => NoGap
<1> DEFINE A == Sends /\ registered =>
                  IF sent = NoPacket THEN sent'.key
                  ELSE /\ sent'.ts > sent.ts
                       /\ \A i \in DOMAIN window :
                            ~(sent.ts < window[i].ts /\ window[i].ts < sent'.ts)
<1>1. DInv /\ [Next]_vars => [A]_vars
  <2> SUFFICES ASSUME DInv, Next, Sends, registered
               PROVE  IF sent = NoPacket THEN sent'.key
                      ELSE /\ sent'.ts > sent.ts
                           /\ \A i \in DOMAIN window :
                                ~(sent.ts < window[i].ts /\ window[i].ts < sent'.ts)
    OBVIOUS
  <2>1. SendData /\ Typed /\ Batched /\ Headed /\ Ordered /\ pc = "send"
    BY SendsIsSendData DEF DInv, Sends
  <2>2. /\ 1 \in 1 .. Len(batch) /\ Head(batch) = batch[1] /\ sent.ts \in Nat /\ batch[1].ts \in Nat
        /\ window \in Seq(StreamPackets)
    BY <2>1, SendStep, TypedParts
  <2>3. sent' = batch[1] /\ (~cur.wait \/ batch[1].key)
    BY <2>1, <2>2 DEF SendData, Sends
  <2>4. CASE sent = NoPacket
    <3>1. cur.wait
      BY <2>1, <2>4 DEF Ordered, Placed, Streaming
    <3> QED
      BY <2>3, <2>4, <3>1
  <2>5. CASE sent # NoPacket
    <3>1. /\ sent.ts < batch[1].ts
          /\ \A i \in 1 .. Len(window) : ~(sent.ts < window[i].ts /\ window[i].ts < batch[1].ts)
      BY <2>1, <2>5 DEF Ordered, Committed
    <3>2. DOMAIN window = 1 .. Len(window)
      BY <2>2
    <3> QED
      BY <2>2, <2>3, <2>5, <3>1, <3>2
  <2> QED
    BY <2>4, <2>5
<1> QED
  BY <1>1, DeliveryInvariant, PTL DEF Spec, NoGap
====
