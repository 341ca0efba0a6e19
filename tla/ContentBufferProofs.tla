------------------------ MODULE ContentBufferProofs ------------------------
(***************************************************************************)
(* Proofs about ContentBuffer, for every ring size, position space, header *)
(* and packet length, and for streams of any length: a reader only has to  *)
(* be in reach, and the ring itself has to span less than half of the      *)
(* position space (StrideAssumption).                                      *)
(***************************************************************************)
EXTENDS ContentBuffer, TLAPS, WellFoundedInduction, SequenceTheorems

-----------------------------------------------------------------------------
(* Positions.  How far b is ahead of a, going around at PosMod. *)
Distance(a, b) == (b - a) % PosMod

(* The distance is the difference of the positions, once around if needed. *)
LEMMA DistanceIs ==
  ASSUME NEW a \in W!Positions, NEW b \in W!Positions
  PROVE  /\ Distance(a, b) = IF a <= b THEN b - a ELSE b - a + PosMod
         /\ Distance(a, b) \in 0 .. PosMod - 1
<1>0. PosMod \in Nat \ {0} /\ a \in 0 .. PosMod - 1 /\ b \in 0 .. PosMod - 1
  BY BufferAssumption DEF W!Positions
<1>1. CASE a <= b
  <2>1. \A m \in Nat \ {0} : \A x \in 0 .. m - 1 : x % m = x
    OBVIOUS
  <2> QED
    BY <1>0, <1>1, <2>1 DEF Distance
<1>2. CASE b < a
  <2>1. \A m \in Nat \ {0} : \A x \in Int : -m <= x /\ x < 0 => x % m = x + m
    OBVIOUS
  <2> QED
    BY <1>0, <1>2, <2>1 DEF Distance
<1> QED
  BY <1>0, <1>1, <1>2

(* Moving on by less than the position space. *)
LEMMA AdvanceIs ==
  ASSUME NEW a \in W!Positions, NEW n \in Nat, n < PosMod
  PROVE  /\ W!Advance(a, n) = IF a + n < PosMod THEN a + n ELSE a + n - PosMod
         /\ W!Advance(a, n) \in W!Positions
<1>0. PosMod \in Nat \ {0} /\ a \in 0 .. PosMod - 1 /\ a + n \in 0 .. PosMod + PosMod - 1
  BY BufferAssumption DEF W!Positions
<1>1. CASE a + n < PosMod
  <2>1. \A m \in Nat \ {0} : \A x \in 0 .. m - 1 : x % m = x
    OBVIOUS
  <2>2. (a + n) % PosMod = a + n
    BY <1>0, <1>1, <2>1
  <2> QED
    BY <1>0, <1>1, <2>2 DEF W!Advance, W!Positions
<1>2. CASE PosMod <= a + n
  <2>1. \A m \in Nat \ {0} : \A x \in m .. m + m - 1 : x % m = x - m
    OBVIOUS
  <2>2. (a + n) % PosMod = (a + n) - PosMod
    <3> DEFINE x == a + n
    <3>1. x \in PosMod .. PosMod + PosMod - 1
      BY <1>0, <1>2
    <3> HIDE DEF x
    <3>2. x % PosMod = x - PosMod
      BY <1>0, <2>1, <3>1
    <3> QED
      BY <3>2 DEF x
  <2>3. (a + n) - PosMod = a + n - PosMod /\ (a + n) - PosMod \in 0 .. PosMod - 1
    BY <1>0, <1>2
  <2> QED
    BY <1>0, <1>2, <2>2, <2>3 DEF W!Advance, W!Positions
<1> QED
  BY <1>0, <1>1, <1>2

(* Two moves are one. *)
LEMMA AdvanceTwice ==
  ASSUME NEW a \in W!Positions, NEW m \in Nat, NEW n \in Nat, m + n < PosMod
  PROVE  W!Advance(W!Advance(a, m), n) = W!Advance(a, m + n)
<1> DEFINE e == W!Advance(a, m)
<1>0. PosMod \in Nat \ {0} /\ a \in 0 .. PosMod - 1
  BY BufferAssumption DEF W!Positions
<1>1. e = (IF a + m < PosMod THEN a + m ELSE a + m - PosMod) /\ e \in W!Positions
  BY <1>0, AdvanceIs
<1> HIDE DEF e
<1>2. W!Advance(e, n) = IF e + n < PosMod THEN e + n ELSE e + n - PosMod
  BY <1>0, <1>1, AdvanceIs
<1>3. W!Advance(a, m + n) = IF a + (m + n) < PosMod THEN a + (m + n) ELSE a + (m + n) - PosMod
  BY <1>0, AdvanceIs
<1>4. W!Advance(e, n) = W!Advance(a, m + n)
  BY <1>0, <1>1, <1>2, <1>3
<1> QED
  BY <1>4 DEF e

(* A position that moves on is further from what is behind it. *)
LEMMA DistanceGrows ==
  ASSUME NEW a \in W!Positions, NEW b \in W!Positions, NEW n \in Nat, Distance(a, b) + n < PosMod
  PROVE  Distance(a, W!Advance(b, n)) = Distance(a, b) + n
<1> DEFINE e == W!Advance(b, n)
<1>0. PosMod \in Nat \ {0} /\ a \in 0 .. PosMod - 1 /\ b \in 0 .. PosMod - 1 /\ Distance(a, b) \in Nat
  BY BufferAssumption, DistanceIs DEF W!Positions
<1>1. e = (IF b + n < PosMod THEN b + n ELSE b + n - PosMod) /\ e \in W!Positions
  BY <1>0, AdvanceIs
<1> HIDE DEF e
<1>2. /\ Distance(a, e) = IF a <= e THEN e - a ELSE e - a + PosMod
      /\ Distance(a, b) = IF a <= b THEN b - a ELSE b - a + PosMod
  BY <1>1, DistanceIs
<1>3. e \in 0 .. PosMod - 1
  BY <1>1 DEF W!Positions
<1>4. Distance(a, e) = Distance(a, b) + n
  BY <1>0, <1>1, <1>2, <1>3
<1> QED
  BY <1>4 DEF e

(* Positions that are less than half of the space behind a third one are      *)
(* ordered by posBefore as by their distances from it.                        *)
LEMMA BeforeIsFurther ==
  ASSUME NEW a \in W!Positions, NEW b \in W!Positions, NEW c \in W!Positions,
         Distance(a, c) < PosMod \div 2, Distance(b, c) < PosMod \div 2
  PROVE  W!PosBefore(a, b) <=> Distance(b, c) < Distance(a, c)
<1>1. W!PosBefore(a, b) <=> Distance(b, a) >= PosMod - PosMod \div 2
  BY DEF W!PosBefore, Distance
<1>2. /\ Distance(b, a) = IF b <= a THEN a - b ELSE a - b + PosMod
      /\ Distance(a, c) = IF a <= c THEN c - a ELSE c - a + PosMod
      /\ Distance(b, c) = IF b <= c THEN c - b ELSE c - b + PosMod
  BY DistanceIs
<1>3. PosMod \in Nat \ {0} /\ a \in 0 .. PosMod - 1 /\ b \in 0 .. PosMod - 1 /\ c \in 0 .. PosMod - 1
  BY BufferAssumption DEF W!Positions
<1>4. Distance(b, c) < Distance(a, c) <=> Distance(b, a) >= PosMod - PosMod \div 2
  BY <1>2, <1>3
<1> QED
  BY <1>1, <1>4

(* The bytes of n strides grow with n. *)
LEMMA StridesGrow ==
  /\ \A n \in Int : n * Stride \in Int /\ (n + 1) * Stride = n * Stride + Stride
  /\ \A m, n \in Int : m <= n => m * Stride <= n * Stride
<1>0. Stride \in Nat
  BY StrideAssumption
<1>1. ASSUME NEW m \in Int, NEW n \in Int, m <= n PROVE m * Stride <= n * Stride
  <2>1. n - m \in Nat /\ \A x, y \in Nat : x * y \in Nat
    BY <1>1
  <2>2. (n - m) * Stride \in Nat
    BY <1>0, <2>1
  <2>3. \A x, y, z \in Int : (x - y) * z = x * z - y * z
    OBVIOUS
  <2>4. (n - m) * Stride = n * Stride - m * Stride
    BY <1>0, <2>3
  <2>5. n * Stride \in Int /\ m * Stride \in Int
    BY <1>0
  <2> QED
    BY <2>2, <2>4, <2>5
<1>2. ASSUME NEW n \in Int PROVE n * Stride \in Int /\ (n + 1) * Stride = n * Stride + Stride
  BY <1>0
<1> QED
  BY <1>1, <1>2

(* Fewer than m numbers in a row have different remainders, *)
LEMMA SlotsDiffer ==
  ASSUME NEW m \in Nat \ {0}, NEW x \in Nat, NEW y \in Nat, x < y, y - x < m
  PROVE  x % m # y % m
<1> SUFFICES ASSUME x % m = y % m PROVE FALSE
  OBVIOUS
<1> DEFINE a == x \div m
           b == y \div m
<1>1. x = m * a + (x % m) /\ y = m * b + (y % m)
  OBVIOUS
<1>2. a \in Int /\ b \in Int /\ x % m \in Int
  OBVIOUS
<1> HIDE DEF a, b
<1>3. y - x = m * b - m * a
  BY <1>1, <1>2
<1>4. y - x = m * (b - a) /\ b - a \in Int
  BY <1>2, <1>3
<1>5. \A d \in Int : m * d < m => d <= 0
  OBVIOUS
<1>6. \A d \in Int : d <= 0 => m * d <= 0
  OBVIOUS
<1> QED
  BY <1>4, <1>5, <1>6

(* and the next one comes round to the first. *)
LEMMA SlotsRepeat ==
  ASSUME NEW m \in Nat \ {0}, NEW x \in Nat, m <= x
  PROVE  (x - m) % m = x % m
<1> DEFINE a == x \div m
           b == (x - m) \div m
           r == x % m
           s == (x - m) % m
<1>1. x = m * a + r /\ x - m = m * b + s
  OBVIOUS
<1>2. a \in Int /\ b \in Int /\ r \in 0 .. m - 1 /\ s \in 0 .. m - 1
  OBVIOUS
<1> HIDE DEF a, b, r, s
<1>3. r - s = m * (b + 1 - a) /\ b + 1 - a \in Int /\ r - s < m /\ -m < r - s
  BY <1>1, <1>2
<1>4. \A d \in Int : m * d < m /\ -m < m * d => d = 0
  <2>1. \A d \in Int : d >= 1 => m * d >= m
    OBVIOUS
  <2>2. \A d \in Int : d <= -1 => m * d <= -m
    OBVIOUS
  <2> QED
    BY <2>1, <2>2
<1>5. b + 1 - a = 0
  BY <1>3, <1>4
<1>6. r = s
  BY <1>2, <1>3, <1>5
<1> QED
  BY <1>6 DEF r, s

-----------------------------------------------------------------------------
(* Windows.  A set of indices has a smallest one. *)
LEMMA MinIs ==
  ASSUME NEW n \in Nat, NEW S \in SUBSET (1 .. n), S # {}
  PROVE  W!Min(S) \in S /\ \A y \in S : W!Min(S) <= y
<1> DEFINE R == {ss \in Nat \X Nat : ss[1] < ss[2]}
<1>1. IsWellFoundedOn(R, Nat)
  BY NatLessThanWellFounded DEF OpToRel
<1>2. \A x, y \in Nat : x < y <=> <<x, y>> \in R
  OBVIOUS
<1>3. S \subseteq Nat
  OBVIOUS
<1> HIDE DEF R
<1>4. PICK x \in S : \A y \in S : ~(<<y, x>> \in R)
  BY <1>1, <1>3, WFMin
<1>5. ASSUME NEW y \in S PROVE x <= y
  <2>1. ~(y < x)
    BY <1>2, <1>3, <1>4, Zenon
  <2> QED
    BY <1>3, <2>1
<1> QED
  BY <1>5 DEF W!Min

(* v is the last k elements of w. *)
Tails(w, k, v) == Len(v) = k /\ \A i \in 1 .. k : v[i] = w[Len(w) - k + i]
Least(m, n) == IF m <= n THEN m ELSE n

(* Two such sequences are the same. *)
LEMMA TailsUnique ==
  ASSUME NEW S, NEW w, NEW k, NEW u \in Seq(S), NEW v \in Seq(S), Tails(w, k, u), Tails(w, k, v)
  PROVE  u = v
BY SeqEqual DEF Tails

(* LastOf takes them, *)
LEMMA LastOfIs ==
  ASSUME NEW S, NEW w \in Seq(S), NEW n \in Nat
  PROVE  W!LastOf(w, n) \in Seq(S) /\ Tails(w, Least(Len(w), n), W!LastOf(w, n))
<1>1. Len(w) \in Nat /\ \A i \in 1 .. Len(w) : w[i] \in S
  OBVIOUS
<1>2. CASE Len(w) <= n
  <2>1. W!LastOf(w, n) = w /\ Least(Len(w), n) = Len(w)
    BY <1>2 DEF W!LastOf, Least
  <2>2. \A i \in 1 .. Len(w) : Len(w) - Len(w) + i = i
    BY <1>1
  <2> QED
    BY <2>1, <2>2 DEF Tails
<1>3. CASE n < Len(w)
  <2>1. W!LastOf(w, n) = SubSeq(w, Len(w) - n + 1, Len(w)) /\ Least(Len(w), n) = n
    BY <1>1, <1>3 DEF W!LastOf, Least
  <2>2. Len(w) - n + 1 \in Int /\ \A i \in Len(w) - n + 1 .. Len(w) : w[i] \in S
    BY <1>1, <1>3
  <2>3. /\ SubSeq(w, Len(w) - n + 1, Len(w)) \in Seq(S)
        /\ Len(SubSeq(w, Len(w) - n + 1, Len(w))) =
             IF Len(w) - n + 1 <= Len(w) THEN Len(w) - (Len(w) - n + 1) + 1 ELSE 0
        /\ \A i \in 1 .. Len(w) - (Len(w) - n + 1) + 1 :
             SubSeq(w, Len(w) - n + 1, Len(w))[i] = w[Len(w) - n + 1 + i - 1]
    BY <1>1, <2>2, SubSeqProperties
  <2>4. /\ Len(SubSeq(w, Len(w) - n + 1, Len(w))) = n
        /\ \A i \in 1 .. n : SubSeq(w, Len(w) - n + 1, Len(w))[i] = w[Len(w) - n + i]
    <3>1. Len(w) - (Len(w) - n + 1) + 1 = n /\ (Len(w) - n + 1 <= Len(w) <=> n > 0)
      BY <1>1
    <3>2. \A i \in 1 .. n : Len(w) - n + 1 + i - 1 = Len(w) - n + i
      BY <1>1
    <3> QED
      BY SMTT(30), <2>3, <3>1, <3>2
  <2> QED
    BY <2>1, <2>3, <2>4 DEF Tails
<1> QED
  BY <1>1, <1>2, <1>3

(* and From too, if what is wanted is all above an index. *)
LEMMA FromIs ==
  ASSUME NEW S, NEW w \in Seq(S), NEW c \in 0 .. Len(w), NEW wanted \in SUBSET DOMAIN w,
         \A i \in DOMAIN w : i \in wanted <=> i > c
  PROVE  W!From(w, wanted) \in Seq(S) /\ Tails(w, Len(w) - c, W!From(w, wanted))
<1>1. Len(w) \in Nat /\ DOMAIN w = 1 .. Len(w) /\ \A i \in 1 .. Len(w) : w[i] \in S
  OBVIOUS
<1>2. CASE c = Len(w)
  <2>1. wanted = {}
    BY <1>1, <1>2
  <2>2. W!From(w, wanted) = <<>>
    BY <2>1 DEF W!From
  <2>3. Len(w) - c = 0 /\ Len(<<>>) = 0
    BY <1>1, <1>2, EmptySeq
  <2>4. <<>> \in Seq(S)
    BY EmptySeq
  <2>5. Tails(w, Len(w) - c, <<>>)
    BY <2>3 DEF Tails
  <2> QED
    BY <2>2, <2>4, <2>5
<1>3. CASE c < Len(w)
  <2>1. c + 1 \in wanted
    BY <1>1, <1>3
  <2>2. W!Min(wanted) \in wanted /\ W!Min(wanted) <= c + 1
    BY <1>1, <2>1, MinIs
  <2>3. W!Min(wanted) = c + 1
    BY <1>1, <2>2
  <2>4. W!From(w, wanted) = SubSeq(w, c + 1, Len(w))
    BY <2>1, <2>3 DEF W!From
  <2>5. \A i \in c + 1 .. Len(w) : w[i] \in S
    BY <1>1
  <2>6. /\ SubSeq(w, c + 1, Len(w)) \in Seq(S)
        /\ Len(SubSeq(w, c + 1, Len(w))) = IF c + 1 <= Len(w) THEN Len(w) - (c + 1) + 1 ELSE 0
        /\ \A i \in 1 .. Len(w) - (c + 1) + 1 : SubSeq(w, c + 1, Len(w))[i] = w[c + 1 + i - 1]
    BY <1>1, <2>5, SubSeqProperties
  <2>7. /\ Len(SubSeq(w, c + 1, Len(w))) = Len(w) - c
        /\ \A i \in 1 .. Len(w) - c : SubSeq(w, c + 1, Len(w))[i] = w[Len(w) - (Len(w) - c) + i]
    <3>1. Len(w) - (c + 1) + 1 = Len(w) - c /\ c + 1 <= Len(w)
      BY <1>1, <1>3
    <3>2. \A i \in 1 .. Len(w) - c : c + 1 + i - 1 = Len(w) - (Len(w) - c) + i
      BY <1>1
    <3> QED
      BY <2>6, <3>1, <3>2
  <2> QED
    BY <2>4, <2>6, <2>7 DEF Tails
<1>4. c = Len(w) \/ c < Len(w)
  <2>1. Len(w) \in Nat /\ c \in 0 .. Len(w)
    OBVIOUS
  <2>2. \A n \in Nat : \A x \in 0 .. n : x = n \/ x < n
    OBVIOUS
  <2> QED
    BY <2>1, <2>2, Zenon
<1> QED
  BY <1>2, <1>3, <1>4

-----------------------------------------------------------------------------
(* The inductive invariant.  How far a position is behind the source: *)
Behind(a) == Distance(a, streamPos)

(* The ring holds the last packets of the log in their slots. *)
Ringed ==
  /\ count = Len(log)
  /\ header.len = 0 => log = <<>>
  /\ \A i \in 1 .. Len(log) : i > Len(log) - BufSize => packets[(i - 1) % BufSize] = log[i]

(* The clock does not go back. *)
Timed == \A i, j \in 1 .. Len(log) : i <= j => log[i].ts <= log[j].ts

(* The source is at the end of what it has written. *)
Reached ==
  streamPos = IF header.len = 0 THEN 0
              ELSE IF log = <<>> THEN W!Advance(header.pos, header.len) ELSE W!End(log[Len(log)])

(* What is in reach lies behind the source in the order it was written. *)
HeaderFirst ==
  header.len > 0 /\ InReach(0) =>
    /\ Behind(header.pos) <= (Len(log) + 1) * Stride
    /\ \A j \in 1 .. Len(log) : Behind(log[j].pos) <= Behind(header.pos)

Spaced ==
  \A k \in 1 .. Len(log) : InReach(k) =>
    /\ Behind(log[k].pos) <= (Len(log) - k + 1) * Stride
    /\ Behind(W!End(log[k])) < Behind(log[k].pos)
    /\ \A j \in k + 1 .. Len(log) : Behind(log[j].pos) <= Behind(W!End(log[k]))

CInv == TypeOK /\ Ringed /\ Timed /\ Reached /\ HeaderFirst /\ Spaced

-----------------------------------------------------------------------------
(* A stride is short. *)
LEMMA StrideIs ==
  /\ Stride \in Nat /\ Stride < PosMod \div 2 /\ Stride < PosMod
  /\ PosMod \in Nat /\ BufSize \in Nat \ {0} /\ BufSize * Stride < PosMod \div 2
  /\ \A len \in Headers \cup PacketLens : len \in Nat \ {0} /\ len < Stride
<1>0. /\ Stride \in Nat /\ BufSize \in Nat \ {0} /\ PosMod \in Nat /\ PosMod >= 2
      /\ BufSize * Stride < PosMod \div 2
      /\ \A len \in Headers \cup PacketLens : len \in Nat \ {0} /\ len < Stride
  BY BufferAssumption, StrideAssumption
<1>1. 1 * Stride <= BufSize * Stride /\ 1 * Stride = Stride /\ BufSize * Stride \in Int
  <2>1. 1 <= BufSize /\ 1 \in Int /\ BufSize \in Int
    BY <1>0
  <2>2. \A x \in Nat : 1 * x = x
    OBVIOUS
  <2> QED
    BY <1>0, <2>1, <2>2, StridesGrow
<1> QED
  BY <1>0, <1>1

(* What the types say of the packets. *)
LEMMA PacketIs ==
  ASSUME NEW p \in W!Packets
  PROVE  /\ p.pos \in W!Positions /\ p.len \in PacketLens /\ p.len \in Nat \ {0} /\ p.len < Stride
         /\ p.ts \in Nat \ {0} /\ W!End(p) \in W!Positions
<1>1. /\ p.pos \in W!Positions /\ p.len \in PacketLens /\ p.ts \in Times
      /\ p.len \in Nat \ {0} /\ p.len < Stride
  BY StrideIs DEF W!Packets
<1>2. p.len < PosMod
  BY <1>1, StrideIs
<1>3. W!Advance(p.pos, p.len) \in W!Positions
  BY <1>1, <1>2, AdvanceIs
<1> QED
  BY <1>1, <1>3, BufferAssumption DEF W!End

(* and of the variables. *)
LEMMA TypedParts ==
  ASSUME TypeOK
  PROVE  /\ streamPos \in W!Positions /\ header.pos \in W!Positions /\ header.len \in Headers \cup {0}
         /\ log \in Seq(W!Packets) /\ Len(log) \in Nat /\ count \in Nat
         /\ \A i \in 1 .. Len(log) :
              /\ log[i] \in W!Packets /\ log[i].pos \in W!Positions /\ W!End(log[i]) \in W!Positions
              /\ log[i].len \in Nat \ {0} /\ log[i].len < Stride /\ log[i].ts \in Nat \ {0}
<1>1. /\ streamPos \in W!Positions /\ header.pos \in W!Positions /\ header.len \in Headers \cup {0}
      /\ log \in Seq(W!Packets) /\ Len(log) \in Nat /\ count \in Nat
  BY DEF TypeOK
<1>2. \A i \in 1 .. Len(log) : log[i] \in W!Packets
  BY <1>1
<1> QED
  BY <1>1, <1>2, PacketIs

(* The window is the last packets of the log. *)
LEMMA WindowIs ==
  ASSUME TypeOK, Ringed
  PROVE  Window \in Seq(W!Packets) /\ Tails(log, Least(Len(log), BufSize), Window)
<1>0. /\ log \in Seq(W!Packets) /\ Len(log) \in Nat /\ count = Len(log) /\ BufSize \in Nat \ {0}
      /\ \A i \in 1 .. Len(log) : log[i] \in W!Packets
  BY TypedParts, StrideIs DEF Ringed
<1> DEFINE n == Least(Len(log), BufSize)
<1>1. n \in Nat /\ count - Start(count) = n /\ Start(count) = Len(log) - n /\ n <= BufSize /\ n <= Len(log)
  <2>1. CASE Len(log) <= BufSize
    <3>1. n = Len(log) /\ Start(count) = 0
      BY <1>0, <2>1 DEF Least, Start
    <3> HIDE DEF n
    <3> QED
      BY <1>0, <2>1, <3>1
  <2>2. CASE BufSize < Len(log)
    <3>1. n = BufSize /\ Start(count) = Len(log) - BufSize
      BY <1>0, <2>2 DEF Least, Start
    <3> HIDE DEF n
    <3> QED
      BY <1>0, <2>2, <3>1
  <2> QED
    BY <1>0, <2>1, <2>2
<1>2. Window = [i \in 1 .. n |-> packets[(Start(count) + i - 1) % BufSize]]
  BY <1>1 DEF Window
<1> HIDE DEF n
<1>3. ASSUME NEW i \in 1 .. n
      PROVE  packets[(Start(count) + i - 1) % BufSize] = log[Len(log) - n + i]
  <2> DEFINE j == Len(log) - n + i
  <2>1. j \in 1 .. Len(log) /\ j > Len(log) - BufSize /\ j - 1 = Start(count) + i - 1
    BY <1>0, <1>1
  <2> HIDE DEF j
  <2>2. packets[(j - 1) % BufSize] = log[j]
    BY <2>1 DEF Ringed
  <2> QED
    BY <2>1, <2>2 DEF j
<1>4. \A i \in 1 .. n : Len(log) - n + i \in 1 .. Len(log)
  BY <1>0, <1>1
<1>5. Window \in [1 .. n -> W!Packets] /\ \A i \in 1 .. n : Window[i] = log[Len(log) - n + i]
  BY <1>0, <1>2, <1>3, <1>4
<1>6. Window \in Seq(W!Packets)
  BY <1>1, <1>5, SeqDef
<1>7. Len(Window) = n
  <2>1. DOMAIN Window = 1 .. n /\ DOMAIN Window = 1 .. Len(Window) /\ Len(Window) \in Nat
    BY <1>5, <1>6
  <2> QED
    BY <1>1, <2>1
<1> QED
  BY <1>5, <1>6, <1>7 DEF Tails, n

(* The announced content position is where the source is. *)
LEMMA TipIs ==
  ASSUME CInv
  PROVE  W!ContentPosition(header, Window) = streamPos
<1>0. /\ log \in Seq(W!Packets) /\ Len(log) \in Nat /\ BufSize \in Nat \ {0}
      /\ header.len \in Headers \cup {0} /\ Window \in Seq(W!Packets)
      /\ Tails(log, Least(Len(log), BufSize), Window) /\ Len(Window) \in Nat
  BY TypedParts, StrideIs, WindowIs DEF CInv
<1>1. CASE header.len = 0
  BY <1>1 DEF CInv, Reached, W!ContentPosition
<1>2. CASE header.len # 0 /\ log = <<>>
  <2>1. Len(Window) = 0
    BY <1>0, <1>2 DEF Tails, Least
  <2>2. Window = <<>>
    BY <1>0, <2>1, EmptySeq
  <2> QED
    BY <1>2, <2>2 DEF CInv, Reached, W!ContentPosition
<1>3. CASE header.len # 0 /\ log # <<>>
  <2>1. Len(log) # 0
    BY <1>0, <1>3, EmptySeq
  <2>2. /\ Len(Window) \in 1 .. Len(Window) /\ Window # <<>>
        /\ Len(log) - Len(Window) + Len(Window) = Len(log)
    BY <1>0, <2>1 DEF Tails, Least
  <2>3. Window[Len(Window)] = log[Len(log)]
    BY <1>0, <2>2 DEF Tails
  <2> QED
    BY <1>3, <2>2, <2>3 DEF CInv, Reached, W!ContentPosition, W!Last
<1> QED
  BY <1>1, <1>2, <1>3

-----------------------------------------------------------------------------
(* The two things that can happen: a packet is written, after some bytes that *)
(* are skipped; n counts both;                                                *)
Wrote(p, n) ==
  /\ p.len <= n /\ n <= Stride
  /\ p.pos = W!Advance(streamPos, n - p.len)
  /\ header.len > 0 /\ header' = header
  /\ log # <<>> => p.ts >= log[Len(log)].ts
  /\ packets' = [packets EXCEPT ![count % BufSize] = p]
  /\ count' = count + 1
  /\ log' = Append(log, p)
  /\ streamPos' = W!Advance(streamPos, n)

(* or a new header starts over. *)
Restarted(h) ==
  /\ h # header /\ header' = h
  /\ count' = 0 /\ log' = <<>> /\ packets' = packets
  /\ streamPos' = W!Advance(h.pos, h.len)

NewHeaders == [len : Headers, pos : W!Positions]

(* Every step of the two sources is one of them. *)
LEMMA StepIs ==
  ASSUME CInv, Next
  PROVE  /\ steps' \in 0 .. MaxSteps
         /\ \/ \E p \in W!Packets, n \in Nat : Wrote(p, n)
            \/ \E h \in NewHeaders : Restarted(h)
<1>0. /\ streamPos \in W!Positions /\ steps \in 0 .. MaxSteps /\ MaxSteps \in Nat
      /\ header.len \in Headers \cup {0} /\ PosMod \in Nat /\ UpstreamPos \subseteq W!Positions
  BY TypedParts, StrideIs, BufferAssumption DEF CInv, TypeOK, W!Positions
<1>1. ASSUME NEW len \in PacketLens, NEW ts \in Times, NEW skipped \in {0, 1},
             header.len > 0, Write(len, W!Advance(streamPos, skipped), ts),
             streamPos' = W!Advance(streamPos, skipped + len)
      PROVE  steps' \in 0 .. MaxSteps /\ \E p \in W!Packets, n \in Nat : Wrote(p, n)
  <2> DEFINE p == [pos |-> W!Advance(streamPos, skipped), len |-> len, ts |-> ts]
  <2>1. len \in Nat \ {0} /\ len < Stride /\ skipped < PosMod
    BY StrideIs, BufferAssumption
  <2>2. W!Advance(streamPos, skipped) \in W!Positions
    BY <1>0, <2>1, AdvanceIs
  <2>3. /\ p \in W!Packets /\ p.len = len /\ p.ts = ts /\ p.pos = W!Advance(streamPos, skipped)
    BY <2>2 DEF W!Packets
  <2>4. /\ packets' = [packets EXCEPT ![count % BufSize] = p] /\ log' = Append(log, p)
        /\ count' = count + 1 /\ header' = header /\ (log # <<>> => ts >= log[Len(log)].ts)
        /\ steps < MaxSteps /\ steps' = steps + 1
    BY <1>1 DEF Write
  <2> HIDE DEF p
  <2>5. skipped + len \in Nat /\ len <= skipped + len /\ skipped + len <= Stride /\ (skipped + len) - len = skipped
    BY <2>1, StrideIs
  <2>6. Wrote(p, skipped + len)
    BY <1>1, <2>3, <2>4, <2>5 DEF Wrote
  <2> QED
    BY <1>0, <2>3, <2>4, <2>5, <2>6
<1>2. ASSUME NEW len \in Headers, NEW pos \in W!Positions, SetHeader(len, pos), streamPos' = W!Advance(pos, len)
      PROVE  steps' \in 0 .. MaxSteps /\ \E h \in NewHeaders : Restarted(h)
  <2> DEFINE h == [len |-> len, pos |-> pos]
  <2>1. h \in NewHeaders /\ h.len = len /\ h.pos = pos
    BY DEF NewHeaders
  <2>2. h # header /\ header' = h /\ count' = 0 /\ log' = <<>> /\ packets' = packets
        /\ steps < MaxSteps /\ steps' = steps + 1
    BY <1>2 DEF SetHeader
  <2> HIDE DEF h
  <2>3. Restarted(h)
    BY <1>2, <2>1, <2>2 DEF Restarted
  <2> QED
    BY <1>0, <2>1, <2>2, <2>3
<1>3. ASSUME NEW len \in PacketLens, NEW ts \in Times, WriteData(len, ts)
      PROVE  steps' \in 0 .. MaxSteps /\ \E p \in W!Packets, n \in Nat : Wrote(p, n)
  <2>1. len \in Nat /\ 0 \in Nat /\ 0 + len = len /\ 0 < PosMod
    BY StrideIs, BufferAssumption
  <2>2. W!Advance(streamPos, 0) = streamPos
    BY <1>0, <2>1, AdvanceIs DEF W!Positions
  <2> QED
    BY <1>1, <1>3, <2>1, <2>2 DEF WriteData
<1>4. ASSUME NEW len \in PacketLens, NEW ts \in Times, UpstreamData(len, 1, ts)
      PROVE  steps' \in 0 .. MaxSteps /\ \E p \in W!Packets, n \in Nat : Wrote(p, n)
  BY <1>1, <1>4 DEF UpstreamData
<1>5. ASSUME NEW len \in Headers, EncoderStarts(len) \/ EncoderHeader(len)
      PROVE  steps' \in 0 .. MaxSteps /\ \E h \in NewHeaders : Restarted(h)
  BY <1>0, <1>2, <1>5, TipIs DEF EncoderStarts, EncoderHeader
<1>6. ASSUME NEW len \in Headers, NEW pos \in UpstreamPos, UpstreamHead(len, pos)
      PROVE  steps' \in 0 .. MaxSteps /\ \E h \in NewHeaders : Restarted(h)
  BY <1>0, <1>2, <1>6 DEF UpstreamHead
<1> QED
  BY <1>3, <1>4, <1>5, <1>6 DEF Next

-----------------------------------------------------------------------------
(* A new header keeps the invariant. *)
LEMMA RestartedKeeps ==
  ASSUME CInv, NEW h \in NewHeaders, Restarted(h), steps' \in 0 .. MaxSteps
  PROVE  CInv'
<1>0. /\ h.len \in Headers /\ h.pos \in W!Positions /\ h.len \in Nat \ {0} /\ h.len < Stride /\ h.len < PosMod
      /\ header' = h /\ h \in [len : Headers \cup {0}, pos : W!Positions]
  BY StrideIs DEF NewHeaders, Restarted
<1>1. streamPos' = W!Advance(h.pos, h.len) /\ streamPos' \in W!Positions
  BY <1>0, AdvanceIs DEF Restarted
<1>2. count' = 0 /\ log' = <<>> /\ packets' = packets /\ Len(<<>>) = 0
  BY EmptySeq DEF Restarted
<1>3. TypeOK'
  <2>1. <<>> \in Seq(W!Packets)
    BY EmptySeq
  <2> QED
    BY <1>0, <1>1, <1>2, <2>1 DEF CInv, TypeOK
<1>4. Ringed' /\ Timed' /\ Spaced'
  BY <1>2 DEF Ringed, Timed, Spaced
<1>5. Reached'
  BY <1>0, <1>1, <1>2 DEF Reached
<1>6. HeaderFirst'
  <2>1. Distance(h.pos, h.pos) = 0
    BY <1>0, DistanceIs DEF W!Positions
  <2>2. Distance(h.pos, streamPos') = 0 + h.len
    <3>1. 0 + h.len < PosMod /\ h.len \in Nat
      BY <1>0
    <3> QED
      BY <1>0, <1>1, <2>1, <3>1, DistanceGrows
  <2>3. (0 + 1) * Stride = Stride
    BY StrideIs
  <2>4. Distance(h.pos, streamPos') <= (0 + 1) * Stride
    BY <1>0, <2>2, <2>3, StrideIs
  <2> QED
    BY <1>0, <1>2, <2>4 DEF HeaderFirst, Behind
<1> QED
  BY <1>3, <1>4, <1>5, <1>6 DEF CInv

(* So does a packet.  What is in reach after it was in reach before, and is   *)
(* now n bytes further behind.                                                *)
LEMMA WrittenMoves ==
  ASSUME TypeOK, NEW p \in W!Packets, NEW n \in Nat, Wrote(p, n)
  PROVE  /\ Len(log') = Len(log) + 1 /\ log'[Len(log) + 1] = p /\ \A i \in 1 .. Len(log) : log'[i] = log[i]
         /\ streamPos' \in W!Positions /\ W!End(p) = streamPos'
         /\ Distance(streamPos', streamPos') = 0 /\ Distance(p.pos, streamPos') = p.len
         /\ \A a \in W!Positions : Behind(a) < PosMod \div 2 => Behind(a)' = Behind(a) + n
<1>0. /\ streamPos \in W!Positions /\ log \in Seq(W!Packets) /\ Len(log) \in Nat
      /\ p.pos \in W!Positions /\ p.len \in Nat \ {0} /\ p.len < PosMod
      /\ PosMod \in Nat /\ n < PosMod \div 2 /\ n < PosMod /\ p.len <= n
  <2>1. streamPos \in W!Positions /\ log \in Seq(W!Packets) /\ Len(log) \in Nat
    BY TypedParts
  <2>2. p.pos \in W!Positions /\ p.len \in Nat \ {0} /\ p.len < Stride
    BY PacketIs
  <2>3. PosMod \in Nat /\ Stride \in Nat /\ Stride < PosMod \div 2 /\ Stride < PosMod
    BY StrideIs
  <2>4. n <= Stride /\ p.len <= n
    BY DEF Wrote
  <2>5. n < PosMod \div 2 /\ n < PosMod /\ p.len < PosMod /\ PosMod \div 2 \in Int
    BY <2>2, <2>3, <2>4
  <2> QED
    BY <2>1, <2>2, <2>3, <2>4, <2>5
<1>1. Len(log') = Len(log) + 1 /\ log'[Len(log) + 1] = p /\ \A i \in 1 .. Len(log) : log'[i] = log[i]
  BY <1>0, AppendProperties DEF Wrote
<1>2. streamPos' = W!Advance(streamPos, n) /\ streamPos' \in W!Positions
  BY <1>0, AdvanceIs DEF Wrote
<1>3. W!End(p) = streamPos'
  <2>1. n - p.len \in Nat /\ (n - p.len) + p.len = n
    BY <1>0
  <2> QED
    BY <1>0, <1>2, <2>1, AdvanceTwice DEF Wrote, W!End
<1>4. \A a \in W!Positions : Distance(a, a) = 0
  BY DistanceIs DEF W!Positions
<1>5. Distance(p.pos, streamPos') = p.len
  <2>1. Distance(p.pos, p.pos) + p.len < PosMod /\ Distance(p.pos, p.pos) + p.len = p.len
    BY <1>0, <1>4
  <2>2. Distance(p.pos, W!Advance(p.pos, p.len)) = Distance(p.pos, p.pos) + p.len
    BY <1>0, <2>1, DistanceGrows
  <2> QED
    BY <1>3, <2>1, <2>2 DEF W!End
<1>6. ASSUME NEW a \in W!Positions, Behind(a) < PosMod \div 2 PROVE Behind(a)' = Behind(a) + n
  <2>1. Distance(a, streamPos) + n < PosMod
    BY <1>0, <1>6, DistanceIs DEF Behind
  <2>2. Distance(a, W!Advance(streamPos, n)) = Distance(a, streamPos) + n
    BY <1>0, <2>1, DistanceGrows
  <2> QED
    BY <1>2, <2>2 DEF Behind
<1> QED
  BY <1>1, <1>2, <1>3, <1>4, <1>5, <1>6

(* What is in reach is near, and so is all that was written later. *)
LEMMA ReachIs ==
  ASSUME TypeOK, NEW k \in 0 .. Len(log), InReach(k)
  PROVE  /\ (Len(log) - k + 1) * Stride < PosMod \div 2
         /\ \A j \in k .. Len(log) : InReach(j)
<1>0. Len(log) \in Nat
  BY TypedParts
<1>1. ASSUME NEW j \in k .. Len(log) PROVE InReach(j)
  <2>1. Len(log) - j + 1 <= Len(log) - k + 1 /\ Len(log) - j + 1 \in Int /\ Len(log) - k + 1 \in Int
    BY <1>0
  <2>2. /\ (Len(log) - j + 1) * Stride <= (Len(log) - k + 1) * Stride
        /\ (Len(log) - j + 1) * Stride \in Int /\ (Len(log) - k + 1) * Stride \in Int
    BY <2>1, StridesGrow
  <2> QED
    BY <2>2, StrideIs DEF InReach
<1> QED
  BY <1>1 DEF InReach

(* What is in reach after a write was in reach before it. *)
LEMMA ReachShrinks ==
  ASSUME TypeOK, NEW p \in W!Packets, NEW n \in Nat, Wrote(p, n), NEW k \in 0 .. Len(log), InReach(k)'
  PROVE  InReach(k)
<1>0. Len(log) \in Nat /\ Len(log') = Len(log) + 1
  BY TypedParts, WrittenMoves
<1>1. Len(log) - k + 1 <= Len(log) + 1 - k + 1 /\ Len(log) - k + 1 \in Int /\ Len(log) + 1 - k + 1 \in Int
  BY <1>0
<1>2. /\ (Len(log) - k + 1) * Stride <= (Len(log) + 1 - k + 1) * Stride
      /\ (Len(log) - k + 1) * Stride \in Int /\ (Len(log) + 1 - k + 1) * Stride \in Int
  BY <1>1, StridesGrow
<1>3. (Len(log) + 1 - k + 1) * Stride < PosMod \div 2
  BY <1>0 DEF InReach
<1> QED
  BY <1>2, <1>3, StrideIs DEF InReach

(* A packet keeps the types, the ring and the order of the clock, *)
LEMMA WrittenRing ==
  ASSUME CInv, NEW p \in W!Packets, NEW n \in Nat, Wrote(p, n), steps' \in 0 .. MaxSteps
  PROVE  TypeOK' /\ Ringed' /\ Timed' /\ Reached'
<1> DEFINE L == Len(log)
<1>0. /\ L \in Nat /\ count = L /\ count \in Nat /\ BufSize \in Nat \ {0} /\ log \in Seq(W!Packets)
      /\ TypeOK /\ packets \in [0 .. BufSize - 1 -> W!Packets \cup {NoPacket}]
      /\ p.ts \in Nat /\ \A i \in 1 .. L : log[i].ts \in Nat
  BY TypedParts, PacketIs, StrideIs DEF CInv, Ringed, TypeOK
<1>1. /\ Len(log') = L + 1 /\ log'[L + 1] = p /\ \A i \in 1 .. L : log'[i] = log[i]
      /\ streamPos' \in W!Positions /\ W!End(p) = streamPos'
  BY <1>0, WrittenMoves
<1>2. log' \in Seq(W!Packets) /\ log' # <<>>
  <2>1. log' \in Seq(W!Packets)
    BY <1>0, AppendProperties DEF Wrote
  <2>2. Len(log') # 0
    BY <1>0, <1>1
  <2> QED
    BY <2>1, <2>2, EmptySeq
<1>3. \A x \in Nat : x % BufSize \in 0 .. BufSize - 1
  BY <1>0
<1>4. TypeOK'
  <2>1. packets' \in [0 .. BufSize - 1 -> W!Packets \cup {NoPacket}]
    BY <1>0, <1>3 DEF Wrote
  <2>2. header' = header /\ count' \in Nat
    BY <1>0 DEF Wrote
  <2> QED
    BY <1>0, <1>1, <1>2, <2>1, <2>2 DEF TypeOK
<1>5. Ringed'
  <2>1. count' = L + 1 /\ ~(header'.len = 0)
    <3>1. header.len \in Headers \cup {0} /\ header.len > 0 /\ header' = header
      BY <1>0, TypedParts DEF Wrote
    <3> QED
      BY <1>0, <3>1 DEF Wrote
  <2>2. ASSUME NEW i \in 1 .. L + 1, i > (L + 1) - BufSize PROVE packets'[(i - 1) % BufSize] = log'[i]
    <3>1. L \in Nat /\ L % BufSize \in 0 .. BufSize - 1 /\ (i - 1) % BufSize \in 0 .. BufSize - 1
      <4>1. L \in Nat /\ i - 1 \in Nat
        BY <1>0
      <4> QED
        BY <1>3, <4>1
    <3>2. CASE i = L + 1
      <4>1. i - 1 = L
        BY <1>0, <3>2
      <4>2. packets'[L % BufSize] = p
        BY <1>0, <3>1 DEF Wrote
      <4> QED
        BY <1>1, <3>2, <4>1, <4>2
    <3>3. CASE i < L + 1
      <4>1. i \in 1 .. L /\ i > L - BufSize /\ i - 1 \in Nat /\ i - 1 < L /\ L - (i - 1) < BufSize
        BY <1>0, <2>2, <3>3
      <4>2. (i - 1) % BufSize # L % BufSize
        BY <1>0, <4>1, SlotsDiffer
      <4>3. packets'[(i - 1) % BufSize] = packets[(i - 1) % BufSize]
        BY <1>0, <3>1, <4>2 DEF Wrote
      <4>4. packets[(i - 1) % BufSize] = log[i]
        BY <4>1 DEF CInv, Ringed
      <4> QED
        BY <1>1, <4>1, <4>3, <4>4
    <3> QED
      BY <1>0, <3>2, <3>3
  <2> QED
    BY <1>1, <2>1, <2>2 DEF Ringed
<1>6. Timed'
  <2>1. ASSUME NEW i \in 1 .. L PROVE log[i].ts <= p.ts
    <3>1. L \in 1 .. L /\ i <= L /\ L # 0
      BY <1>0
    <3>2. log # <<>>
      BY <3>1, EmptySeq
    <3>3. log[i].ts <= log[L].ts /\ log[L].ts <= p.ts
      BY <3>1, <3>2, <1>0 DEF CInv, Timed, Wrote
    <3> QED
      BY <1>0, <3>1, <3>3
  <2>2. ASSUME NEW i \in 1 .. L + 1, NEW j \in 1 .. L + 1, i <= j PROVE log'[i].ts <= log'[j].ts
    <3>1. CASE j < L + 1
      <4>1. i \in 1 .. L /\ j \in 1 .. L
        BY <1>0, <2>2, <3>1
      <4>2. log[i].ts <= log[j].ts
        BY <2>2, <4>1 DEF CInv, Timed
      <4> QED
        BY <1>1, <4>1, <4>2
    <3>2. CASE j = L + 1 /\ i < L + 1
      <4>1. i \in 1 .. L
        BY <1>0, <3>2
      <4> QED
        BY <1>1, <2>1, <3>2, <4>1
    <3>3. CASE j = L + 1 /\ i = L + 1
      BY <1>0, <1>1, <3>3
    <3> QED
      BY <1>0, <2>2, <3>1, <3>2, <3>3
  <2> QED
    BY <1>1, <2>2 DEF Timed
<1>7. Reached'
  <2>1. header'.len # 0
    <3>1. header.len \in Headers \cup {0} /\ header.len > 0 /\ header' = header
      BY <1>0, TypedParts DEF Wrote
    <3> QED
      BY <3>1
  <2>2. log'[Len(log')] = p
    BY <1>1
  <2> QED
    BY <1>1, <1>2, <2>1, <2>2 DEF Reached
<1> QED
  BY <1>4, <1>5, <1>6, <1>7

(* and the distances to the source. *)
LEMMA WrittenSpaced ==
  ASSUME CInv, NEW p \in W!Packets, NEW n \in Nat, Wrote(p, n)
  PROVE  HeaderFirst' /\ Spaced'
<1> DEFINE L == Len(log)
<1>0. /\ TypeOK /\ L \in Nat /\ p.len \in Nat \ {0} /\ p.len <= n /\ n <= Stride /\ Stride \in Nat
      /\ header.pos \in W!Positions /\ header' = header
      /\ \A i \in 1 .. L : log[i].pos \in W!Positions /\ W!End(log[i]) \in W!Positions
  BY TypedParts, PacketIs, StrideIs DEF CInv, Wrote
<1>1. /\ Len(log') = L + 1 /\ log'[L + 1] = p /\ \A i \in 1 .. L : log'[i] = log[i]
      /\ W!End(p) = streamPos'
      /\ Distance(streamPos', streamPos') = 0 /\ Distance(p.pos, streamPos') = p.len
      /\ \A a \in W!Positions : Behind(a) < PosMod \div 2 => Behind(a)' = Behind(a) + n
  BY <1>0, WrittenMoves
<1>2. \A a \in W!Positions : Behind(a) \in Nat /\ PosMod \div 2 \in Int
  BY <1>0, DistanceIs, TypedParts, StrideIs DEF Behind
<1>s. /\ \A k \in 0 .. L : /\ (L - k + 1) * Stride \in Int
                           /\ (L + 1 - k + 1) * Stride = (L - k + 1) * Stride + Stride
      /\ 1 * Stride = Stride
  <2>1. ASSUME NEW k \in 0 .. L
        PROVE  (L - k + 1) * Stride \in Int /\ (L + 1 - k + 1) * Stride = (L - k + 1) * Stride + Stride
    <3>1. L - k + 1 \in Int /\ L + 1 - k + 1 = (L - k + 1) + 1
      BY <1>0
    <3> QED
      BY <3>1, StridesGrow
  <2> QED
    BY <1>0, <2>1
<1>3. HeaderFirst'
  <2> SUFFICES ASSUME header'.len > 0, InReach(0)'
               PROVE  /\ Behind(header.pos)' <= (L + 1 + 1) * Stride
                      /\ \A j \in 1 .. L + 1 : Distance(log'[j].pos, streamPos') <= Behind(header.pos)'
    BY <1>0, <1>1 DEF HeaderFirst, Behind
  <2>1. InReach(0) /\ 0 \in 0 .. L
    BY <1>0, ReachShrinks
  <2>2. /\ Behind(header.pos) <= (L + 1) * Stride /\ (L + 1) * Stride < PosMod \div 2
        /\ (L + 1) * Stride \in Int /\ (L + 1 + 1) * Stride = (L + 1) * Stride + Stride
        /\ \A j \in 1 .. L : Behind(log[j].pos) <= Behind(header.pos)
    <3>1. L - 0 + 1 = L + 1 /\ L + 1 - 0 + 1 = L + 1 + 1
      BY <1>0
    <3>2. (L - 0 + 1) * Stride < PosMod \div 2
      BY <2>1 DEF InReach
    <3>3. /\ Behind(header.pos) <= (L + 1) * Stride
          /\ \A j \in 1 .. L : Behind(log[j].pos) <= Behind(header.pos)
      BY <1>0, <2>1 DEF CInv, HeaderFirst
    <3> QED
      BY <1>s, <2>1, <3>1, <3>2, <3>3
  <2>3. Behind(header.pos) < PosMod \div 2 /\ Behind(header.pos) \in Nat
    BY <1>0, <1>2, <2>2
  <2>4. Behind(header.pos)' = Behind(header.pos) + n
    BY <1>0, <1>1, <2>3 DEF Behind
  <2>5. ASSUME NEW j \in 1 .. L + 1 PROVE Distance(log'[j].pos, streamPos') <= Behind(header.pos)'
    <3>1. CASE j = L + 1
      <4>1. Distance(log'[j].pos, streamPos') = p.len
        BY <1>1, <3>1 DEF Behind
      <4> QED
        BY <1>0, <2>3, <2>4, <4>1
    <3>2. CASE j < L + 1
      <4>1. j \in 1 .. L /\ log'[j] = log[j]
        BY <1>0, <1>1, <3>2
      <4>2. Behind(log[j].pos) <= Behind(header.pos) /\ log[j].pos \in W!Positions /\ Behind(log[j].pos) \in Nat
        BY <1>0, <1>2, <2>2, <4>1
      <4>3. Behind(log[j].pos) < PosMod \div 2
        BY <1>0, <1>2, <2>3, <4>2
      <4>4. Distance(log[j].pos, streamPos') = Behind(log[j].pos) + n
        BY <1>1, <4>2, <4>3 DEF Behind
      <4>5. Distance(log'[j].pos, streamPos') = Behind(log[j].pos) + n
        BY <4>1, <4>4 DEF Behind
      <4> QED
        BY <1>0, <2>3, <2>4, <4>2, <4>5
    <3> QED
      BY <1>0, <3>1, <3>2
  <2> QED
    BY <1>0, <2>2, <2>3, <2>4, <2>5
<1>4. Spaced'
  <2> SUFFICES ASSUME NEW k \in 1 .. L + 1, InReach(k)'
               PROVE  /\ Distance(log'[k].pos, streamPos') <= (L + 1 - k + 1) * Stride
                      /\ Distance(W!End(log'[k]), streamPos') < Distance(log'[k].pos, streamPos')
                      /\ \A j \in k + 1 .. L + 1 : Distance(log'[j].pos, streamPos') <= Distance(W!End(log'[k]), streamPos')
    BY <1>0, <1>1 DEF Spaced, Behind
  <2>1. CASE k = L + 1
    <3>1. Distance(log'[k].pos, streamPos') = p.len /\ Distance(W!End(log'[k]), streamPos') = 0
      BY <1>1, <2>1 DEF Behind
    <3>2. L + 1 - k + 1 = 1 /\ \A j \in k + 1 .. L + 1 : FALSE
      BY <1>0, <2>1
    <3>3. (L + 1 - k + 1) * Stride = Stride
      BY <1>s, <3>2
    <3>4. p.len <= Stride /\ 0 < p.len
      BY <1>0
    <3> HIDE DEF L
    <3> QED
      BY <3>1, <3>2, <3>3, <3>4
  <2>2. CASE k < L + 1
    <3>1. k \in 1 .. L /\ k \in 0 .. L /\ log'[k] = log[k]
      BY <1>0, <1>1, <2>2
    <3>2. InReach(k)
      BY <1>0, <3>1, ReachShrinks
    <3> DEFINE a == log[k].pos
               e == W!End(log[k])
    <3>3. /\ Behind(a) <= (L - k + 1) * Stride /\ Behind(e) < Behind(a)
          /\ \A j \in k + 1 .. L : Behind(log[j].pos) <= Behind(e)
          /\ (L - k + 1) * Stride < PosMod \div 2 /\ (L - k + 1) * Stride \in Int
      BY <3>1, <3>2, <1>s DEF CInv, Spaced, InReach
    <3>4. a \in W!Positions /\ e \in W!Positions /\ Behind(a) \in Nat /\ Behind(e) \in Nat
      BY <1>0, <1>2, <3>1
    <3>5. Behind(a) < PosMod \div 2 /\ Behind(e) < PosMod \div 2
      BY <1>2, <3>3, <3>4
    <3>6. Distance(a, streamPos') = Behind(a) + n /\ Distance(e, streamPos') = Behind(e) + n
      BY <1>1, <3>4, <3>5 DEF Behind
    <3>7. Distance(log'[k].pos, streamPos') = Behind(a) + n /\ Distance(W!End(log'[k]), streamPos') = Behind(e) + n
      BY <3>1, <3>6 DEF Behind
    <3> HIDE DEF a, e
    <3>8. ASSUME NEW j \in k + 1 .. L + 1 PROVE Distance(log'[j].pos, streamPos') <= Behind(e) + n
      <4>1. CASE j = L + 1
        <5>1. Distance(log'[j].pos, streamPos') = p.len
          BY <1>1, <4>1 DEF Behind
        <5> QED
          BY <1>0, <3>4, <5>1
      <4>2. CASE j < L + 1
        <5>1. j \in 1 .. L /\ j \in k + 1 .. L /\ log'[j] = log[j]
          BY <1>0, <1>1, <3>1, <4>2
        <5>2. Behind(log[j].pos) <= Behind(e) /\ log[j].pos \in W!Positions /\ Behind(log[j].pos) \in Nat
          BY <1>0, <1>2, <3>3, <5>1
        <5>3. Behind(log[j].pos) < PosMod \div 2
          BY <1>2, <3>4, <3>5, <5>2
        <5>4. Distance(log[j].pos, streamPos') = Behind(log[j].pos) + n
          BY <1>1, <5>2, <5>3 DEF Behind
        <5>5. Distance(log'[j].pos, streamPos') = Behind(log[j].pos) + n
          BY <5>1, <5>4 DEF Behind
        <5> QED
          BY <1>0, <3>4, <5>2, <5>5
      <4> QED
        BY <1>0, <3>1, <4>1, <4>2
    <3>9. Behind(a) + n <= (L + 1 - k + 1) * Stride
      BY <1>0, <1>s, <3>1, <3>3, <3>4
    <3> QED
      BY <1>0, <3>3, <3>4, <3>7, <3>8, <3>9
  <2> QED
    BY <1>0, <2>1, <2>2
<1> QED
  BY <1>3, <1>4

-----------------------------------------------------------------------------
(* The invariant holds of an empty buffer. *)
LEMMA CInvInit == Init => CInv
<1> SUFFICES ASSUME Init PROVE CInv
  OBVIOUS
<1> USE DEF Init, W!NoHeader
<1>0. /\ 0 \in W!Positions /\ 0 \in 0 .. MaxSteps /\ <<>> \in Seq(W!Packets) /\ Len(<<>>) = 0
  BY BufferAssumption, EmptySeq DEF W!Positions
<1>1. TypeOK
  BY <1>0 DEF TypeOK
<1>2. Ringed /\ Timed /\ Reached /\ HeaderFirst /\ Spaced
  BY <1>0 DEF Ringed, Timed, Reached, HeaderFirst, Spaced
<1> QED
  BY <1>1, <1>2 DEF CInv

(* Every step keeps it. *)
LEMMA CInvNext == CInv /\ [Next]_vars => CInv'
<1> SUFFICES ASSUME CInv, [Next]_vars PROVE CInv'
  OBVIOUS
<1>1. CASE Next
  <2>1. steps' \in 0 .. MaxSteps
    BY <1>1, StepIs
  <2>2. ASSUME NEW p \in W!Packets, NEW n \in Nat, Wrote(p, n) PROVE CInv'
    BY <2>1, <2>2, WrittenRing, WrittenSpaced DEF CInv
  <2>3. ASSUME NEW h \in NewHeaders, Restarted(h) PROVE CInv'
    BY <2>1, <2>3, RestartedKeeps
  <2> QED
    BY <1>1, <2>2, <2>3, StepIs
<1>2. CASE UNCHANGED vars
  <2>1. UNCHANGED <<header, packets, count, streamPos, steps, log>>
    BY <1>2 DEF vars
  <2> QED
    BY <2>1 DEF CInv, TypeOK, Ringed, Timed, Reached, HeaderFirst, Spaced, InReach, Behind
<1> QED
  BY <1>1, <1>2

(* For any stream: the types, the ring, the clock and the positions. *)
THEOREM BufferInvariant == Spec => []CInv
<1> QED
  BY CInvInit, CInvNext, PTL DEF Spec

(* Every variable of the buffer keeps its type. *)
THEOREM BufferTypeCorrect == Spec => []TypeOK
<1>1. CInv => TypeOK
  BY DEF CInv
<1> QED
  BY <1>1, BufferInvariant, PTL

-----------------------------------------------------------------------------
(* The last elements of the last elements. *)
LEMMA TailsOfTails ==
  ASSUME NEW w, Len(w) \in Nat, NEW u, NEW v, NEW m \in 0 .. Len(w), NEW n \in 0 .. m,
         Tails(w, m, u), Tails(u, n, v)
  PROVE  Tails(w, n, v)
<1>1. ASSUME NEW i \in 1 .. n PROVE v[i] = w[Len(w) - n + i]
  <2>1. v[i] = u[m - n + i]
    BY DEF Tails
  <2>2. m - n + i \in 1 .. m /\ Len(w) - m + (m - n + i) = Len(w) - n + i
    OBVIOUS
  <2>3. u[m - n + i] = w[Len(w) - m + (m - n + i)]
    <3> DEFINE j == m - n + i
    <3>1. j \in 1 .. m
      BY <2>2
    <3> HIDE DEF j
    <3>2. u[j] = w[Len(w) - m + j]
      BY <3>1 DEF Tails
    <3> QED
      BY <3>2 DEF j
  <2> QED
    BY <2>1, <2>2, <2>3
<1> QED
  BY <1>1 DEF Tails

(* What a reader of the k-th packet should get. *)
LEMMA AfterIs ==
  ASSUME TypeOK, NEW k \in 0 .. Len(log)
  PROVE  After(k) \in Seq(W!Packets) /\ Tails(log, Least(Len(log) - k, BufSize), After(k))
<1>0. log \in Seq(W!Packets) /\ Len(log) \in Nat /\ BufSize \in Nat /\ \A i \in 1 .. Len(log) : log[i] \in W!Packets
  BY TypedParts, StrideIs
<1> DEFINE t == SubSeq(log, k + 1, Len(log))
<1>1. t \in Seq(W!Packets) /\ Tails(log, Len(log) - k, t)
  <2>1. \A i \in k + 1 .. Len(log) : log[i] \in W!Packets
    BY <1>0
  <2>2. /\ t \in Seq(W!Packets)
        /\ Len(t) = IF k + 1 <= Len(log) THEN Len(log) - (k + 1) + 1 ELSE 0
        /\ \A i \in 1 .. Len(log) - (k + 1) + 1 : t[i] = log[k + 1 + i - 1]
    BY <1>0, <2>1, SubSeqProperties
  <2> HIDE DEF t
  <2>3. Len(t) = Len(log) - k
    BY <1>0, <2>2
  <2>4. ASSUME NEW i \in 1 .. Len(log) - k PROVE t[i] = log[Len(log) - (Len(log) - k) + i]
    <3>1. i \in 1 .. Len(log) - (k + 1) + 1 /\ k + 1 + i - 1 = Len(log) - (Len(log) - k) + i
      BY <1>0
    <3> QED
      BY <2>2, <3>1
  <2> QED
    BY <2>2, <2>3, <2>4 DEF Tails
<1> HIDE DEF t
<1>2. After(k) \in Seq(W!Packets) /\ Tails(t, Least(Len(t), BufSize), After(k))
  BY <1>0, <1>1, LastOfIs DEF After, t
<1>3. /\ Len(t) = Len(log) - k /\ Len(log) - k \in 0 .. Len(log)
      /\ Least(Len(log) - k, BufSize) \in 0 .. Len(log) - k
  BY <1>0, <1>1 DEF Tails, Least
<1> QED
  BY <1>0, <1>1, <1>2, <1>3, TailsOfTails

(* It is what From takes out of the window, if that is all that was written   *)
(* after the k-th packet.                                                     *)
LEMMA SuffixIs ==
  ASSUME TypeOK, Ringed, NEW k \in 0 .. Len(log), NEW wanted \in SUBSET DOMAIN Window,
         \A i \in 1 .. Len(Window) : i \in wanted <=> Len(log) - Len(Window) + i > k
  PROVE  W!From(Window, wanted) = After(k)
<1> DEFINE L == Len(log)
           n == Len(Window)
           c == IF k < L - n THEN 0 ELSE k - (L - n)
<1>0. /\ L \in Nat /\ BufSize \in Nat /\ Window \in Seq(W!Packets) /\ Tails(log, n, Window)
      /\ n = Least(L, BufSize) /\ n \in Nat /\ DOMAIN Window = 1 .. n
  BY TypedParts, StrideIs, WindowIs DEF Tails
<1>1. n <= L /\ n <= BufSize /\ (n = L \/ n = BufSize)
  BY <1>0 DEF Least
<1>2. c \in 0 .. n /\ \A i \in 1 .. n : L - n + i > k <=> i > c
  BY <1>0, <1>1
<1>3. n - c = Least(L - k, BufSize) /\ n - c \in 0 .. n /\ n \in 0 .. L
  <2> HIDE DEF n
  <2>1. CASE k < L - n
    <3>1. n = BufSize /\ BufSize <= L - k /\ c = 0
      BY <1>0, <1>1, <2>1
    <3>2. Least(L - k, BufSize) = BufSize
      BY <1>0, <3>1 DEF Least
    <3> HIDE DEF c
    <3> QED
      BY <1>0, <1>1, <3>1, <3>2
  <2>2. CASE ~(k < L - n)
    <3>1. L - k <= BufSize /\ n - c = L - k
      BY <1>0, <1>1, <2>2
    <3>2. Least(L - k, BufSize) = L - k
      BY <3>1 DEF Least
    <3> QED
      BY <1>0, <1>1, <1>2, <3>1, <3>2
  <2> QED
    BY <2>1, <2>2
<1> HIDE DEF c
<1>4. \A i \in DOMAIN Window : i \in wanted <=> i > c
  BY <1>0, <1>2
<1>5. W!From(Window, wanted) \in Seq(W!Packets) /\ Tails(Window, n - c, W!From(Window, wanted))
  BY <1>0, <1>2, <1>4, FromIs
<1>6. Tails(log, n - c, W!From(Window, wanted))
  BY <1>0, <1>3, <1>5, TailsOfTails
<1> QED
  BY <1>3, <1>5, <1>6, AfterIs, TailsUnique

-----------------------------------------------------------------------------
(* The order of two packets in reach, and of their ends, is that of their     *)
(* distances from the source.                                                 *)
LEMMA OrderIs ==
  ASSUME CInv, NEW k \in 1 .. Len(log), InReach(k), NEW j \in 1 .. Len(log), InReach(j)
  PROVE  /\ W!PosBefore(log[j].pos, W!End(log[k])) <=> j <= k
         /\ W!PosBefore(log[k].pos, log[j].pos) <=> k < j
<1>0. /\ streamPos \in W!Positions /\ Len(log) \in Nat
      /\ \A i \in 1 .. Len(log) : log[i].pos \in W!Positions /\ W!End(log[i]) \in W!Positions
  BY TypedParts DEF CInv
<1>1. \A a \in W!Positions : Behind(a) \in Nat
  BY <1>0, DistanceIs DEF Behind
<1>2. ASSUME NEW i \in 1 .. Len(log), InReach(i)
      PROVE  /\ Behind(log[i].pos) < PosMod \div 2 /\ Behind(W!End(log[i])) < PosMod \div 2
             /\ Behind(W!End(log[i])) < Behind(log[i].pos)
             /\ \A l \in i + 1 .. Len(log) : Behind(log[l].pos) <= Behind(W!End(log[i]))
  <2>1. /\ Behind(log[i].pos) <= (Len(log) - i + 1) * Stride
        /\ Behind(W!End(log[i])) < Behind(log[i].pos)
        /\ \A l \in i + 1 .. Len(log) : Behind(log[l].pos) <= Behind(W!End(log[i]))
        /\ (Len(log) - i + 1) * Stride < PosMod \div 2
    BY <1>2 DEF CInv, Spaced, InReach
  <2>2. (Len(log) - i + 1) * Stride \in Int
    <3>1. Len(log) - i + 1 \in Int
      BY <1>0
    <3> QED
      BY <3>1, StridesGrow
  <2>3. Behind(log[i].pos) \in Nat /\ Behind(W!End(log[i])) \in Nat /\ PosMod \in Nat
    BY <1>0, <1>1, StrideIs
  <2> QED
    BY <2>1, <2>2, <2>3
<1>3. /\ W!PosBefore(log[j].pos, W!End(log[k])) <=> Behind(W!End(log[k])) < Behind(log[j].pos)
      /\ W!PosBefore(log[k].pos, log[j].pos) <=> Behind(log[j].pos) < Behind(log[k].pos)
  BY <1>0, <1>2, BeforeIsFurther DEF Behind
<1>4. /\ Behind(log[j].pos) \in Nat /\ Behind(log[k].pos) \in Nat
      /\ Behind(W!End(log[j])) \in Nat /\ Behind(W!End(log[k])) \in Nat
  BY <1>0, <1>1
<1>5. CASE k < j
  <2>1. j \in k + 1 .. Len(log)
    BY <1>0, <1>5
  <2>2. Behind(log[j].pos) <= Behind(W!End(log[k])) /\ Behind(W!End(log[k])) < Behind(log[k].pos)
    BY <1>2, <2>1
  <2>3. ~(j <= k)
    BY <1>0, <1>5
  <2> QED
    BY <1>3, <1>4, <1>5, <2>2, <2>3
<1>6. CASE k = j
  BY <1>0, <1>2, <1>3, <1>4, <1>6
<1>7. CASE j < k
  <2>1. k \in j + 1 .. Len(log)
    BY <1>0, <1>7
  <2>2. /\ Behind(log[k].pos) <= Behind(W!End(log[j])) /\ Behind(W!End(log[j])) < Behind(log[j].pos)
        /\ Behind(W!End(log[k])) < Behind(log[k].pos)
    BY <1>2, <2>1
  <2>3. j <= k /\ ~(k < j)
    BY <1>0, <1>7
  <2> QED
    BY <1>3, <1>4, <2>2, <2>3
<1> QED
  BY <1>0, <1>5, <1>6, <1>7

(* The window is in reach. *)
LEMMA WindowInReach ==
  ASSUME CInv, NEW i \in 1 .. Len(Window)
  PROVE  /\ Len(log) - Len(Window) + i \in 1 .. Len(log)
         /\ Window[i] = log[Len(log) - Len(Window) + i]
         /\ InReach(Len(log) - Len(Window) + i)
<1> DEFINE j == Len(log) - Len(Window) + i
<1>0. /\ Len(log) \in Nat /\ Len(Window) \in Nat /\ Len(Window) <= Len(log) /\ Len(Window) <= BufSize
      /\ Tails(log, Len(Window), Window)
      /\ BufSize \in Nat /\ BufSize * Stride < PosMod \div 2 /\ PosMod \in Nat
  <2>1. Len(log) \in Nat /\ BufSize \in Nat /\ BufSize * Stride < PosMod \div 2 /\ PosMod \in Nat
    BY TypedParts, StrideIs DEF CInv
  <2>2. Tails(log, Least(Len(log), BufSize), Window)
    BY WindowIs DEF CInv
  <2>3. Len(Window) = Least(Len(log), BufSize) /\ Tails(log, Len(Window), Window)
    BY <2>2 DEF Tails
  <2>4. Least(Len(log), BufSize) \in Nat /\ Least(Len(log), BufSize) <= Len(log) /\ Least(Len(log), BufSize) <= BufSize
    BY <2>1 DEF Least
  <2> QED
    BY <2>1, <2>3, <2>4
<1>1. j \in 1 .. Len(log) /\ Window[i] = log[j]
  BY <1>0 DEF Tails
<1>2. Len(log) - j + 1 <= BufSize /\ Len(log) - j + 1 \in Int /\ BufSize \in Int
  BY <1>0
<1> HIDE DEF j
<1>3. /\ (Len(log) - j + 1) * Stride <= BufSize * Stride
      /\ (Len(log) - j + 1) * Stride \in Int /\ BufSize * Stride \in Int
  BY <1>2, StridesGrow
<1>4. InReach(j)
  BY <1>0, <1>3 DEF InReach
<1> QED
  BY <1>1, <1>4 DEF j

(* Since returns what follows the end of a packet, *)
LEMMA SinceExact ==
  ASSUME CInv, NEW k \in 1 .. Len(log), InReach(k)
  PROVE  W!Since(Window, W!End(log[k])) = After(k)
<1> DEFINE wanted == {i \in DOMAIN Window : ~W!PosBefore(Window[i].pos, W!End(log[k]))}
<1>0. DOMAIN Window = 1 .. Len(Window) /\ Len(log) \in Nat /\ k \in 0 .. Len(log)
  BY WindowIs, TypedParts DEF CInv
<1>1. ASSUME NEW i \in 1 .. Len(Window) PROVE i \in wanted <=> Len(log) - Len(Window) + i > k
  <2> DEFINE j == Len(log) - Len(Window) + i
  <2>1. j \in 1 .. Len(log) /\ Window[i] = log[j] /\ InReach(j)
    BY WindowInReach
  <2> HIDE DEF j
  <2>2. W!PosBefore(log[j].pos, W!End(log[k])) <=> j <= k
    BY <2>1, OrderIs
  <2>3. ~(j <= k) <=> j > k
    BY <1>0, <2>1
  <2> QED
    BY <1>0, <2>1, <2>2, <2>3 DEF j
<1> HIDE DEF wanted
<1>2. wanted \in SUBSET DOMAIN Window
  BY DEF wanted
<1>3. W!From(Window, wanted) = After(k)
  BY <1>0, <1>1, <1>2, SuffixIs DEF CInv
<1> QED
  BY <1>3 DEF W!Since, wanted

(* PacketsAfter what follows a packet, also one of the same time; *)
LEMMA PacketsAfterExact ==
  ASSUME CInv, NEW k \in 1 .. Len(log), InReach(k)
  PROVE  W!PacketsAfter(Window, log[k]) = After(k)
<1> DEFINE wanted == {i \in DOMAIN Window : \/ log[k].ts = 0
                                            \/ Window[i].ts > log[k].ts
                                            \/ Window[i].ts = log[k].ts /\ W!PosBefore(log[k].pos, Window[i].pos)}
<1>0. /\ DOMAIN Window = 1 .. Len(Window) /\ Len(log) \in Nat /\ k \in 0 .. Len(log)
      /\ \A i \in 1 .. Len(log) : log[i].ts \in Nat \ {0}
  BY WindowIs, TypedParts DEF CInv
<1>1. ASSUME NEW i \in 1 .. Len(Window) PROVE i \in wanted <=> Len(log) - Len(Window) + i > k
  <2> DEFINE j == Len(log) - Len(Window) + i
  <2>1. j \in 1 .. Len(log) /\ Window[i] = log[j] /\ InReach(j)
    BY WindowInReach
  <2> HIDE DEF j
  <2>2. W!PosBefore(log[k].pos, log[j].pos) <=> k < j
    BY <2>1, OrderIs
  <2>3. (k <= j => log[k].ts <= log[j].ts) /\ (j <= k => log[j].ts <= log[k].ts)
    BY <2>1 DEF CInv, Timed
  <2>4. log[k].ts \in Nat \ {0} /\ log[j].ts \in Nat \ {0}
    BY <1>0, <2>1
  <2>5. (log[j].ts > log[k].ts \/ (log[j].ts = log[k].ts /\ W!PosBefore(log[k].pos, log[j].pos))) <=> j > k
    BY <1>0, <2>1, <2>2, <2>3, <2>4
  <2> QED
    BY <1>0, <2>1, <2>4, <2>5 DEF j
<1> HIDE DEF wanted
<1>2. wanted \in SUBSET DOMAIN Window
  BY DEF wanted
<1>3. W!From(Window, wanted) = After(k)
  BY <1>0, <1>1, <1>2, SuffixIs DEF CInv
<1> QED
  BY <1>3 DEF W!PacketsAfter, wanted

(* both return everything to one that starts. *)
LEMMA StartExact ==
  ASSUME CInv
  PROVE  /\ W!PacketsAfter(Window, NoPacket) = After(0)
         /\ header.len > 0 /\ InReach(0) => W!Since(Window, header.pos) = After(0)
<1>0. /\ DOMAIN Window = 1 .. Len(Window) /\ Len(log) \in Nat /\ 0 \in 0 .. Len(log)
      /\ streamPos \in W!Positions /\ header.pos \in W!Positions /\ TypeOK /\ Ringed
  BY WindowIs, TypedParts DEF CInv
<1>1. \A i \in 1 .. Len(Window) : Len(log) - Len(Window) + i > 0
  BY WindowInReach
<1>2. W!PacketsAfter(Window, NoPacket) = After(0)
  <2>1. W!PacketsAfter(Window, NoPacket) = W!From(Window, DOMAIN Window)
    BY DEF W!PacketsAfter, NoPacket
  <2> QED
    BY <1>0, <1>1, <2>1, SuffixIs
<1>3. ASSUME header.len > 0, InReach(0) PROVE W!Since(Window, header.pos) = After(0)
  <2> DEFINE wanted == {i \in DOMAIN Window : ~W!PosBefore(Window[i].pos, header.pos)}
  <2>1. /\ Behind(header.pos) <= (Len(log) + 1) * Stride /\ (Len(log) + 1) * Stride < PosMod \div 2
        /\ \A j \in 1 .. Len(log) : Behind(log[j].pos) <= Behind(header.pos)
    <3>1. Len(log) - 0 + 1 = Len(log) + 1
      BY <1>0
    <3>2. (Len(log) - 0 + 1) * Stride < PosMod \div 2
      BY <1>3 DEF InReach
    <3> QED
      BY <1>3, <3>1, <3>2 DEF CInv, HeaderFirst
  <2>2. Behind(header.pos) \in Nat /\ (Len(log) + 1) * Stride \in Int /\ PosMod \in Nat
    <3>1. Len(log) + 1 \in Int
      BY <1>0
    <3> QED
      BY <1>0, <3>1, StridesGrow, DistanceIs, StrideIs DEF Behind
  <2>3. Behind(header.pos) < PosMod \div 2
    BY <2>1, <2>2
  <2>4. ASSUME NEW i \in 1 .. Len(Window) PROVE i \in wanted
    <3> DEFINE j == Len(log) - Len(Window) + i
    <3>1. j \in 1 .. Len(log) /\ Window[i] = log[j]
      BY WindowInReach
    <3> HIDE DEF j
    <3>2. log[j].pos \in W!Positions /\ Behind(log[j].pos) <= Behind(header.pos) /\ Behind(log[j].pos) \in Nat
      BY SMTT(30), <1>0, <2>1, <3>1, TypedParts, DistanceIs DEF Behind
    <3>3. Behind(log[j].pos) < PosMod \div 2
      BY <2>2, <2>3, <3>2
    <3>4. W!PosBefore(log[j].pos, header.pos) <=> Behind(header.pos) < Behind(log[j].pos)
      BY <1>0, <2>3, <3>2, <3>3, BeforeIsFurther DEF Behind
    <3> QED
      BY <1>0, <2>2, <3>1, <3>2, <3>4
  <2>5. W!Since(Window, header.pos) = W!From(Window, wanted)
    BY DEF W!Since
  <2> HIDE DEF wanted
  <2>6. wanted \in SUBSET DOMAIN Window
    BY DEF wanted
  <2>7. W!From(Window, wanted) = After(0)
    BY <1>0, <1>1, <2>4, <2>6, SuffixIs
  <2> QED
    BY <2>5, <2>7
<1> QED
  BY <1>2, <1>3

(* Whatever wrapped, was skipped or was overwritten, a reader in reach gets   *)
(* exactly the later packets that are still buffered, by position as by       *)
(* timestamp, and one that starts gets all of them.                           *)
THEOREM ReadersAreExact == Spec => []ReadersExact
<1>1. CInv => ReadersExact
  BY SinceExact, PacketsAfterExact, StartExact DEF ReadersExact
<1> QED
  BY <1>1, BufferInvariant, PTL

-----------------------------------------------------------------------------
(* The announced positions are those of the oldest and the newest packet that *)
(* are buffered, and the content position is where the source is.             *)
THEOREM PositionsAreExact == Spec => []PositionsExact
<1>1. CInv => PositionsExact
  <2> SUFFICES ASSUME CInv PROVE PositionsExact
    OBVIOUS
  <2>0. Len(log) \in Nat /\ count = Len(log) /\ BufSize \in Nat \ {0} /\ TypeOK
    BY TypedParts, StrideIs DEF CInv, Ringed
  <2>1. ASSUME NEW i \in 1 .. Len(log), i > Len(log) - BufSize PROVE packets[(i - 1) % BufSize] = log[i]
    BY <2>1 DEF CInv, Ringed
  <2>2. ASSUME count > 0 PROVE NewestPos = log[Len(log)].pos
    <3>1. Len(log) \in 1 .. Len(log) /\ Len(log) > Len(log) - BufSize
      BY <2>0, <2>2
    <3>2. packets[(Len(log) - 1) % BufSize] = log[Len(log)]
      BY <2>1, <3>1
    <3> QED
      BY <2>0, <2>2, <3>2 DEF NewestPos
  <2>3. ASSUME count > 0 PROVE OldestPos = After(0)[1].pos
    <3> DEFINE n == Least(Len(log), BufSize)
               o == Len(log) - n + 1
    <3>1. n \in Nat \ {0} /\ n <= Len(log) /\ n <= BufSize
      BY <2>0, <2>3 DEF Least
    <3>2. After(0)[1] = log[o]
      <4>1. Len(log) - 0 = Len(log) /\ 0 \in 0 .. Len(log)
        BY <2>0
      <4>2. Tails(log, Least(Len(log) - 0, BufSize), After(0))
        BY <2>0, <4>1, AfterIs
      <4>3. Tails(log, n, After(0)) /\ 1 \in 1 .. n
        BY <3>1, <4>1, <4>2
      <4> QED
        BY <4>3 DEF Tails
    <3>3. CASE Len(log) <= BufSize
      <4>1. o = 1
        BY <2>0, <3>3 DEF Least
      <4>2. 1 \in 1 .. Len(log) /\ 1 > Len(log) - BufSize /\ 0 \in 0 .. BufSize - 1
        BY <2>0, <2>3, <3>3
      <4>3. (1 - 1) % BufSize = 0
        BY <2>0, <4>2
      <4>4. packets[0] = log[1]
        BY <2>1, <4>2, <4>3
      <4> QED
        BY <2>0, <2>3, <3>2, <3>3, <4>1, <4>4 DEF OldestPos
    <3>4. CASE BufSize < Len(log)
      <4> DEFINE i == Len(log) - BufSize + 1
      <4>1. o = i
        <5>1. n = BufSize
          BY <2>0, <3>4 DEF Least
        <5> HIDE DEF n
        <5> QED
          BY <5>1
      <4>2. i \in 1 .. Len(log) /\ i > Len(log) - BufSize /\ i - 1 = Len(log) - BufSize
        BY <2>0, <3>4
      <4> HIDE DEF i, o
      <4>3. (Len(log) - BufSize) % BufSize = Len(log) % BufSize
        BY <2>0, <3>4, SlotsRepeat
      <4>4. packets[Len(log) % BufSize] = log[i]
        BY <2>1, <4>2, <4>3
      <4>5. OldestPos = packets[Len(log) % BufSize].pos
        BY <2>0, <2>3, <3>4 DEF OldestPos
      <4> QED
        BY <3>2, <4>1, <4>4, <4>5
    <3> QED
      BY <2>0, <3>3, <3>4
  <2> QED
    BY <2>2, <2>3, TipIs DEF PositionsExact
<1> QED
  BY <1>1, BufferInvariant, PTL

-----------------------------------------------------------------------------
(* A write to the ring is a write to the window, *)
LEMMA WriteRefines ==
  ASSUME CInv, CInv', NEW p \in W!Packets, NEW n \in Nat, Wrote(p, n)
  PROVE  W!Write(p)
<1> DEFINE a == Append(Window, p)
           L == Len(log)
           m == Least(L, BufSize)
           v == W!LastOf(a, BufSize)
<1>0. /\ Window \in Seq(W!Packets) /\ Tails(log, m, Window) /\ L \in Nat /\ BufSize \in Nat \ {0}
      /\ Len(log') = L + 1 /\ log'[L + 1] = p
      /\ \A i \in 1 .. L : log'[i] = log[i]
  BY WindowIs, TypedParts, StrideIs, WrittenMoves DEF CInv
<1>1. Window' \in Seq(W!Packets) /\ Tails(log', Least(L + 1, BufSize), Window')
  <2>1. (TypeOK /\ Ringed)' =>
          (Window \in Seq(W!Packets) /\ Tails(log, Least(Len(log), BufSize), Window))'
    BY WindowIs, PTL
  <2> QED
    BY <1>0, <2>1 DEF CInv
<1>2. m \in 0 .. L /\ m <= BufSize /\ Len(Window) = m
  BY <1>0 DEF Tails, Least
<1> HIDE DEF m, a, v
<1>3. /\ a \in Seq(W!Packets) /\ Len(a) = m + 1 /\ a[m + 1] = p
      /\ \A i \in 1 .. m : a[i] = Window[i]
  BY <1>0, <1>2, AppendProperties DEF a
<1>4. Tails(log', m + 1, a)
  <2>1. ASSUME NEW i \in 1 .. m + 1 PROVE a[i] = log'[(L + 1) - (m + 1) + i]
    <3>1. CASE i = m + 1
      <4>1. (L + 1) - (m + 1) + i = L + 1
        BY <1>0, <1>2, <3>1
      <4> QED
        BY <1>0, <1>3, <3>1, <4>1
    <3>2. CASE i < m + 1
      <4>1. i \in 1 .. m /\ (L + 1) - (m + 1) + i = L - m + i /\ L - m + i \in 1 .. L
        BY <1>0, <1>2, <3>2
      <4>2. Window[i] = log[L - m + i]
        BY <1>0, <4>1 DEF Tails
      <4> QED
        BY <1>0, <1>3, <4>1, <4>2
    <3> QED
      BY <1>2, <3>1, <3>2
  <2> QED
    BY <1>0, <1>3, <2>1 DEF Tails
<1>5. v \in Seq(W!Packets) /\ Tails(a, Least(Len(a), BufSize), v)
  BY <1>0, <1>3, LastOfIs DEF v
<1>6. /\ Least(m + 1, BufSize) = Least(L + 1, BufSize)
      /\ Least(m + 1, BufSize) \in 0 .. m + 1 /\ m + 1 \in 0 .. L + 1
  BY <1>0, <1>2 DEF Least, m
<1>7. Tails(log', Least(L + 1, BufSize), v)
  BY <1>0, <1>3, <1>4, <1>5, <1>6, TailsOfTails
<1>8. Window' = v
  BY <1>1, <1>5, <1>7, TailsUnique
<1> QED
  BY <1>8 DEF W!Write, Wrote, v, a

(* a new header one that empties it, *)
LEMMA RestartRefines ==
  ASSUME CInv', NEW h \in NewHeaders, Restarted(h)
  PROVE  W!SetHeader(h)
<1>1. Window' = <<>>
  <2>1. (TypeOK /\ Ringed)' => (Window \in Seq(W!Packets) /\ Tails(log, Least(Len(log), BufSize), Window))'
    BY WindowIs, PTL
  <2>2. Window' \in Seq(W!Packets) /\ Len(Window') = Least(Len(log'), BufSize)
    BY <2>1 DEF CInv, Tails, Least
  <2>3. log' = <<>> /\ Len(<<>>) = 0 /\ BufSize \in Nat
    BY EmptySeq, StrideIs DEF Restarted
  <2>4. Len(Window') = 0
    BY <2>2, <2>3 DEF Least
  <2> QED
    BY <2>2, <2>4, EmptySeq
<1> QED
  BY <1>1 DEF W!SetHeader, Restarted

(* and nothing else changes what readers see: the ring with its two sources   *)
(* implements the abstract window of the last packets.                        *)
THEOREM RingImplementsWindow == Spec => RefinesWindow
<1>1. Init => W!Init
  <2> SUFFICES ASSUME Init PROVE W!Init
    OBVIOUS
  <2>1. CInv /\ count = 0 /\ Len(<<>>) = 0 /\ log = <<>>
    BY CInvInit, EmptySeq DEF Init
  <2>2. Window \in Seq(W!Packets) /\ Len(Window) = Least(Len(log), BufSize) /\ BufSize \in Nat
    BY <2>1, WindowIs, StrideIs DEF CInv, Tails
  <2>3. Window = <<>>
    <3>1. Len(Window) = 0
      BY <2>1, <2>2 DEF Least
    <3> QED
      BY <2>2, <3>1, EmptySeq
  <2> QED
    BY <2>3 DEF Init, W!Init
<1>2. CInv /\ CInv' /\ [Next]_vars => [W!Next]_<<header, Window>>
  <2> SUFFICES ASSUME CInv, CInv', [Next]_vars PROVE [W!Next]_<<header, Window>>
    OBVIOUS
  <2>1. CASE UNCHANGED vars
    <3>1. UNCHANGED <<header, packets, count>>
      BY <2>1 DEF vars
    <3> QED
      BY <3>1 DEF Window, Start
  <2>2. CASE Next
    <3>1. ASSUME NEW p \in W!Packets, NEW n \in Nat, Wrote(p, n) PROVE W!Next
      BY <3>1, WriteRefines DEF W!Next
    <3>2. ASSUME NEW h \in NewHeaders, Restarted(h) PROVE W!Next
      BY <3>2, RestartRefines DEF W!Next, NewHeaders
    <3> QED
      BY <2>2, <3>1, <3>2, StepIs
  <2> QED
    BY <2>1, <2>2
<1> QED
  BY <1>1, <1>2, BufferInvariant, PTL DEF Spec, RefinesWindow, W!Spec
====
