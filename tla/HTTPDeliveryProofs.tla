------------------------- MODULE HTTPDeliveryProofs -------------------------
(***************************************************************************)
(* Proofs about HTTPDelivery, for every buffer size, position space, and   *)
(* number of headers, packets and metadata changes: behind each header a   *)
(* viewer gets the packets in order and without an avoidable gap, and what *)
(* it gets twice follows its own header.                                   *)
(***************************************************************************)
EXTENDS HTTPDelivery, TLAPS, WellFoundedInduction, SequenceTheorems

(* The types, and no more notifications under way than there were changes. *)
Typed ==
  /\ TypeOK
  /\ \A k \in Metas : due[k] <= version[k]

(* Packets have consecutive timestamps, in the window and in the batch; what   *)
(* has the same timestamp is the same packet, as far as its position goes.     *)
Numbered ==
  /\ Len(window) <= serial
  /\ \A i \in 1 .. Len(window) : window[i].ts = serial - Len(window) + i
  /\ \A i \in 1 .. Len(batch) : batch[i].ts = batch[1].ts + i - 1 /\ batch[i].ts <= serial
  /\ ref.ts <= serial
  /\ \A i \in 1 .. Len(window) :
       /\ window[i].ts = ref.ts => window[i].pos = ref.pos
       /\ \A j \in 1 .. Len(batch) : window[i].ts = batch[j].ts => window[i].pos = batch[j].pos

(* Before the first header. *)
Opening == {"out", "info", "waitInfo", "respond", "hasData", "firstSignal", "firstWait", "drop", "first"}

(* The variable sent of run is the last packet written after the header, once  *)
(* there is one; until then a keyframe is awaited.                             *)
Remembered ==
  /\ sent = NoPacket <=> keyWait
  /\ sent # NoPacket => ref = sent
  /\ pc \in Opening => sent = NoPacket

(* The batch goes on where the last packet ended. *)
Follows(r, b) == r.ts < b.ts /\ \A i \in 1 .. Len(window) : ~(r.ts < window[i].ts /\ window[i].ts < b.ts)

Continued ==
  pc = "send" => batch # <<>> /\ Follows(ref, batch[1])

(* The buffered packets are those of the present header.  Where run has gone   *)
(* back behind the newest packet it has written, the viewer has their header.  *)
Tagged ==
  /\ \A i \in 1 .. Len(window) : window[i].gen = header.gen
  /\ newest <= serial
  /\ pc \in Opening => newest = 0
  /\ ref.ts < newest => \A i \in 1 .. Len(window) : window[i].ts <= newest => window[i].gen = sentHeader
  /\ pc = "send" => \A i \in 1 .. Len(batch) : batch[i].ts <= newest => batch[i].gen = sentHeader

VInv == Typed /\ Numbered /\ Remembered /\ Continued /\ Tagged

-----------------------------------------------------------------------------
(* A set of indices has a smallest one. *)
LEMMA MinIs ==
  ASSUME NEW n \in Nat, NEW S \in SUBSET (1 .. n), S # {}
  PROVE  W!Min(S) \in S /\ \A y \in S : W!Min(S) <= y
<1> DEFINE Less == {ss \in Nat \X Nat : ss[1] < ss[2]}
<1>1. IsWellFoundedOn(Less, Nat)
  BY NatLessThanWellFounded DEF OpToRel
<1>2. \A x, y \in Nat : x < y <=> <<x, y>> \in Less
  OBVIOUS
<1>3. S \subseteq Nat
  OBVIOUS
<1> HIDE DEF Less
<1>4. PICK x \in S : \A y \in S : ~(<<y, x>> \in Less)
  BY <1>1, <1>3, WFMin
<1>5. ASSUME NEW y \in S PROVE x <= y
  <2>1. ~(y < x)
    BY <1>2, <1>3, <1>4, Zenon
  <2> QED
    BY <1>3, <2>1
<1> QED
  BY <1>5 DEF W!Min

(* A packet is not before itself. *)
LEMMA NotBefore == \A p \in W!Positions : ~W!PosBefore(p, p)
<1> TAKE p \in W!Positions
<1>1. PosMod \in Nat \ {0, 1} /\ p - p = 0
  BY SourceAssumption DEF W!Positions
<1>2. \A m \in Nat \ {0, 1} : 0 % m = 0 /\ m - m \div 2 > 0
  OBVIOUS
<1> QED
  BY <1>1, <1>2 DEF W!PosBefore

(* PacketsAfter returns the window from the first packet that is newer than    *)
(* the reference, or nothing if there is none.                                 *)
LEMMA AfterIs ==
  ASSUME Typed, Numbered, W!PacketsAfter(window, ref) # <<>>
  PROVE  \E m \in 1 .. Len(window) :
           /\ window[m].ts > ref.ts
           /\ \A i \in 1 .. m - 1 : window[i].ts <= ref.ts
           /\ W!PacketsAfter(window, ref) \in Seq(StreamPackets)
           /\ Len(W!PacketsAfter(window, ref)) = Len(window) - m + 1
           /\ \A i \in 1 .. Len(window) - m + 1 : W!PacketsAfter(window, ref)[i] = window[m + i - 1]
<1> DEFINE newer(i) == \/ ref.ts = 0
                       \/ window[i].ts > ref.ts
                       \/ window[i].ts = ref.ts /\ W!PosBefore(ref.pos, window[i].pos)
           wanted == {i \in DOMAIN window : newer(i)}
<1>1. /\ window \in Seq(StreamPackets) /\ Len(window) \in Nat /\ DOMAIN window = 1 .. Len(window)
      /\ ref \in StreamPackets \cup {NoPacket} /\ ref.ts \in Nat /\ ref.pos \in W!Positions
      /\ \A i \in 1 .. Len(window) : window[i] \in StreamPackets /\ window[i].ts \in Nat \ {0}
  <2>1. window \in Seq(StreamPackets) /\ ref \in StreamPackets \cup {NoPacket}
    BY DEF Typed, TypeOK, SourceTypeOK
  <2>2. \A p \in StreamPackets : p.ts \in Nat \ {0} /\ p.pos \in W!Positions
    BY SourceAssumption DEF StreamPackets
  <2>3. NoPacket.ts \in Nat /\ NoPacket.pos \in W!Positions
    BY SourceAssumption DEF NoPacket, W!Positions
  <2>4. Len(window) \in Nat /\ DOMAIN window = 1 .. Len(window)
        /\ \A i \in 1 .. Len(window) : window[i] \in StreamPackets
    BY <2>1
  <2> QED
    BY <2>1, <2>2, <2>3, <2>4
<1>2. \A i \in 1 .. Len(window) : newer(i) <=> window[i].ts > ref.ts
  <2> TAKE i \in 1 .. Len(window)
  <2>1. window[i].ts = ref.ts => ~W!PosBefore(ref.pos, window[i].pos)
    BY <1>1, NotBefore DEF Numbered
  <2>2. window[i].ts > 0
    BY <1>1
  <2> QED
    BY <1>1, <2>1, <2>2
<1>3. wanted # {} /\ W!PacketsAfter(window, ref) = SubSeq(window, W!Min(wanted), Len(window))
  BY DEF W!PacketsAfter, W!From
<1> DEFINE m == W!Min(wanted)
<1>4. m \in wanted /\ \A y \in wanted : m <= y
  <2> HIDE DEF wanted
  <2>1. wanted \in SUBSET (1 .. Len(window))
    BY <1>1 DEF wanted
  <2> QED
    BY <1>1, <1>3, <2>1, MinIs
<1> HIDE DEF m, newer
<1>5. m \in 1 .. Len(window) /\ window[m].ts > ref.ts
  BY <1>1, <1>2, <1>4
<1>6. ASSUME NEW i \in 1 .. m - 1 PROVE window[i].ts <= ref.ts
  <2>1. i \in 1 .. Len(window) /\ i < m
    BY <1>1, <1>5
  <2>2. ~newer(i)
    BY <1>1, <1>4, <1>5, <2>1
  <2> QED
    BY <1>1, <1>2, <2>1, <2>2
<1> HIDE DEF wanted
<1>7. /\ SubSeq(window, m, Len(window)) \in Seq(StreamPackets)
      /\ Len(SubSeq(window, m, Len(window))) = Len(window) - m + 1
      /\ \A i \in 1 .. Len(window) - m + 1 : SubSeq(window, m, Len(window))[i] = window[m + i - 1]
  BY <1>1, <1>5, SubSeqProperties
<1>8. W!PacketsAfter(window, ref) = SubSeq(window, m, Len(window))
  BY <1>3 DEF m
<1> QED
  BY <1>5, <1>6, <1>7, <1>8

(* So does the next batch. *)
LEMMA AfterBatch ==
  ASSUME Typed, Numbered, batch' = W!PacketsAfter(window, ref), batch' # <<>>
  PROVE  \E m \in 1 .. Len(window) :
           /\ window[m].ts > ref.ts
           /\ \A i \in 1 .. m - 1 : window[i].ts <= ref.ts
           /\ Len(batch') = Len(window) - m + 1
           /\ \A i \in 1 .. Len(window) - m + 1 : batch'[i] = window[m + i - 1]
<1> DEFINE b == W!PacketsAfter(window, ref)
<1>1. b # <<>>
  OBVIOUS
<1>2. PICK m \in 1 .. Len(window) :
        /\ window[m].ts > ref.ts
        /\ \A i \in 1 .. m - 1 : window[i].ts <= ref.ts
        /\ b \in Seq(StreamPackets)
        /\ Len(b) = Len(window) - m + 1
        /\ \A i \in 1 .. Len(window) - m + 1 : b[i] = window[m + i - 1]
  BY <1>1, AfterIs, Zenon
<1>3. batch' = b
  OBVIOUS
<1> HIDE DEF b
<1> QED
  BY <1>2, <1>3

(* The position just past the newest packet is a position. *)
LEMMA TipType ==
  ASSUME Typed
  PROVE  W!ContentPosition(header, window) \in W!Positions
<1>1. /\ header \in [gen : Generations, len : {0, 1}, pos : W!Positions] /\ window \in Seq(StreamPackets)
      /\ 0 \in W!Positions
  BY SourceAssumption DEF Typed, TypeOK, SourceTypeOK, W!Positions
<1>2. \A p \in W!Positions : W!Advance(p, 1) \in W!Positions
  <2>1. PosMod \in Nat \ {0} /\ \A p \in W!Positions : p + 1 \in Int
    BY SourceAssumption DEF W!Positions
  <2>2. \A m \in Nat \ {0} : \A x \in Int : x % m \in 0 .. m - 1
    OBVIOUS
  <2> QED
    BY <2>1, <2>2 DEF W!Advance, W!Positions
<1>3. window # <<>> => W!End(W!Last(window)) = W!Advance(W!Last(window).pos, 1) /\ W!Last(window).pos \in W!Positions
  <2> SUFFICES ASSUME window # <<>>
               PROVE  /\ W!End(W!Last(window)) = W!Advance(W!Last(window).pos, 1)
                      /\ W!Last(window).pos \in W!Positions
    OBVIOUS
  <2>1. W!Last(window) = window[Len(window)] /\ Len(window) \in 1 .. Len(window)
    BY <1>1 DEF W!Last
  <2>2. W!Last(window) \in StreamPackets
    BY <1>1, <2>1
  <2> QED
    BY <2>2 DEF W!End, StreamPackets
<1> QED
  BY <1>1, <1>2, <1>3 DEF W!ContentPosition

(* A write puts a packet with the next number at the end of the window, and    *)
(* what else is there was there before.                                        *)
LEMMA WriteIs ==
  ASSUME Typed, Numbered, Write
  PROVE  /\ window' \in Seq(StreamPackets)
         /\ Len(window') <= serial + 1
         /\ \A i \in 1 .. Len(window') : window'[i].ts = serial + 1 - Len(window') + i
         /\ \A i \in 1 .. Len(window') :
              \/ window'[i].ts = serial + 1 /\ window'[i].gen = header.gen
              \/ \E j \in 1 .. Len(window) : window'[i] = window[j]
<1>1. /\ window \in Seq(StreamPackets) /\ Len(window) \in Nat /\ serial \in Nat /\ serial < MaxPackets
      /\ BufSize \in Nat \ {0} /\ MaxPackets \in Nat
      /\ \A i \in 1 .. Len(window) : window[i] \in StreamPackets /\ window[i].ts = serial - Len(window) + i
      /\ Len(window) <= serial
  BY SourceAssumption DEF Typed, TypeOK, SourceTypeOK, Numbered, Write
<1>2. PICK p : p.ts = serial + 1 /\ p.gen = header.gen /\ p \in StreamPackets /\ window' = W!LastOf(Append(window, p), BufSize)
  <2>1. PICK key \in BOOLEAN :
          window' = W!LastOf(Append(window, [pos |-> W!ContentPosition(header, window), len |-> 1,
                                             ts |-> serial + 1, gen |-> header.gen, key |-> key]), BufSize)
    BY DEF Write
  <2>2. W!ContentPosition(header, window) \in W!Positions
    BY TipType
  <2>3. header.gen \in Generations /\ serial + 1 \in 1 .. MaxPackets
    BY <1>1 DEF Typed, TypeOK, SourceTypeOK
  <2> QED
    BY <2>1, <2>2, <2>3 DEF StreamPackets
<1> DEFINE a == Append(window, p)
           k == IF Len(a) <= BufSize THEN Len(a) ELSE BufSize
<1>3. /\ a \in Seq(StreamPackets) /\ Len(a) = Len(window) + 1 /\ a[Len(window) + 1] = p
      /\ \A i \in 1 .. Len(window) : a[i] = window[i]
  BY <1>1, <1>2
<1>4. \A i \in 1 .. Len(a) : a[i] \in StreamPackets /\ a[i].ts = serial + 1 - Len(a) + i
  <2> HIDE DEF a
  <2> TAKE i \in 1 .. Len(a)
  <2>1. CASE i = Len(window) + 1
    BY <1>1, <1>2, <1>3, <2>1
  <2>2. CASE i \in 1 .. Len(window)
    BY <1>1, <1>3, <2>2
  <2> QED
    BY <1>1, <1>3, <2>1, <2>2
<1> HIDE DEF a
<1>5. window' \in Seq(StreamPackets) /\ k \in 1 .. Len(a) /\ Len(window') = k
      /\ \A i \in 1 .. k : window'[i] = a[Len(a) - k + i]
  <2>1. CASE Len(a) <= BufSize
    <3>1. window' = a /\ k = Len(a)
      BY <1>2, <2>1 DEF W!LastOf, a
    <3>2. Len(a) \in Nat /\ Len(a) >= 1
      BY <1>1, <1>3
    <3> HIDE DEF k
    <3>3. \A i \in 1 .. k : Len(a) - k + i = i
      BY <3>1, <3>2
    <3> QED
      BY <1>3, <3>1, <3>2, <3>3
  <2>2. CASE ~(Len(a) <= BufSize)
    <3>1. window' = SubSeq(a, Len(a) - BufSize + 1, Len(a)) /\ k = BufSize
      BY <1>2, <2>2 DEF W!LastOf, a
    <3>2. Len(a) \in Nat /\ Len(a) - BufSize + 1 \in 1 .. Len(a) /\ BufSize \in 1 .. Len(a)
      BY <1>1, <1>3, <2>2
    <3> HIDE DEF k
    <3>3. /\ window' \in Seq(StreamPackets) /\ Len(window') = BufSize
          /\ \A i \in 1 .. BufSize : window'[i] = a[Len(a) - BufSize + 1 + i - 1]
      <4>1. \A i \in Len(a) - BufSize + 1 .. Len(a) : a[i] \in StreamPackets
        BY <1>4, <3>2
      <4> QED
        BY <1>3, <3>1, <3>2, <4>1, SubSeqProperties
    <3>4. \A i \in 1 .. BufSize : Len(a) - BufSize + 1 + i - 1 = Len(a) - BufSize + i
      BY <3>2
    <3> QED
      BY <3>1, <3>2, <3>3, <3>4
  <2> QED
    BY <2>1, <2>2
<1> HIDE DEF k
<1>6. \A i \in 1 .. k : Len(a) - k + i \in 1 .. Len(a)
  BY <1>1, <1>3, <1>5
<1>7. ASSUME NEW i \in 1 .. Len(window')
      PROVE  \/ window'[i].ts = serial + 1 /\ window'[i].gen = header.gen
             \/ \E j \in 1 .. Len(window) : window'[i] = window[j]
  <2> DEFINE j == Len(a) - k + i
  <2>1. j \in 1 .. Len(a) /\ window'[i] = a[j]
    BY <1>5, <1>6
  <2> HIDE DEF j
  <2>2. CASE j = Len(window) + 1
    BY <1>2, <1>3, <2>1, <2>2
  <2>3. CASE j \in 1 .. Len(window)
    BY <1>3, <2>1, <2>3
  <2> QED
    BY <1>1, <1>3, <2>1, <2>2, <2>3
<1>8. ASSUME NEW i \in 1 .. Len(window') PROVE window'[i].ts = serial + 1 - Len(window') + i
  <2> DEFINE j == Len(a) - k + i
  <2>1. j \in 1 .. Len(a) /\ window'[i] = a[j] /\ serial + 1 - Len(a) + j = serial + 1 - k + i
    BY <1>1, <1>3, <1>5, <1>6
  <2> HIDE DEF j
  <2> QED
    BY <1>4, <1>5, <2>1
<1> QED
  BY <1>1, <1>3, <1>5, <1>7, <1>8

-----------------------------------------------------------------------------
(* The actions that change neither the stream nor what the output remembers of *)
(* it: they only take tokens, move on, close or give up.                       *)
Quiet ==
  /\ UNCHANGED <<header, window, serial, ref, keyWait, batch, sentHeader, sent, newest>>
  /\ pc' = "send" => pc = "send"
  /\ pc' \in Opening => pc \in Opening

(* They are all but seven. *)
LEMMA QuietSteps ==
  ASSUME [Next]_vars
  PROVE  \/ Quiet
         \/ (SetHeader \/ Write) /\ UNCHANGED <<outVars, wire>>
         \/ SendHeader \/ WriteHeaderUpdate \/ PacketsAfter \/ SendData \/ Leave
<1> USE DEF Quiet, Opening, srcVars, outVars, wire, Local, Goto
<1>1. ASSUME Notifications \/ \E k \in Metas : SetMeta(k), UNCHANGED <<outVars, wire>> PROVE Quiet
  BY <1>1 DEF Notifications, Snapshot, NotifyHeader, NotifyWrite, SetMeta, NotifyMeta
<1>2. CASE AddOutput \/ ReadInfo \/ InfoArrives \/ Timeout \/ Respond
  BY <1>2 DEF AddOutput, ReadInfo, InfoArrives, Timeout, Respond
<1>3. CASE HasData \/ FirstSignal \/ FirstData \/ DropNotice
  BY <1>3 DEF HasData, FirstSignal, FirstData, DropNotice
<1>4. CASE TakeHeader \/ NoHeaderNotice \/ Signal \/ WakeUp
  BY <1>4 DEF TakeHeader, NoHeaderNotice, Signal, WakeUp
<1>5. CASE CloseSeen \/ WriteFails \/ Close
  BY <1>5 DEF CloseSeen, WriteFails, Close
<1>6. CASE UNCHANGED vars
  BY <1>6 DEF vars
<1> QED
  BY <1>1, <1>2, <1>3, <1>4, <1>5, <1>6 DEF Next, Source, SourceNext, Output

(* Every variable keeps its type. *)
LEMMA TypedSource ==
  ASSUME VInv, Source
  PROVE  Typed'
<1> USE DEF VInv, Typed, TypeOK
<1>0. UNCHANGED <<pc, ref, keyWait, batch, closed, sentHeader, sent, newest>>
  BY DEF Source, outVars, wire
<1>1. CASE SetHeader
  <2>1. W!ContentPosition(header, window) \in W!Positions /\ UpstreamPos \in W!Positions
    BY TipType, SourceAssumption DEF W!Positions
  <2>2. header.gen + 1 \in Generations
    BY <1>1, SourceAssumption DEF SetHeader, SourceTypeOK, Generations
  <2>3. header' \in [gen : Generations, len : {0, 1}, pos : W!Positions] /\ window' \in Seq(StreamPackets)
    BY <1>1, <2>1, <2>2 DEF SetHeader
  <2> QED
    BY <1>0, <1>1, <2>3 DEF SetHeader, SourceTypeOK
<1>2. CASE Write
  <2>1. window' \in Seq(StreamPackets)
    BY <1>2, WriteIs
  <2>2. serial' \in 0 .. MaxPackets
    BY <1>2, SourceAssumption DEF Write, SourceTypeOK
  <2> QED
    BY <1>0, <1>2, <2>1, <2>2 DEF Write, SourceTypeOK
<1>3. CASE Snapshot \/ NotifyHeader \/ NotifyWrite
  <2>1. UNCHANGED <<header, window, serial, version, due, registered>>
    BY <1>3 DEF Snapshot, NotifyHeader, NotifyWrite
  <2>2. src' \in {"idle", "snapshot", "notify", "written"}
    BY <1>3 DEF Snapshot, NotifyHeader, NotifyWrite
  <2>3. pending' \subseteq Metas \cup {"header", "bcst"} /\ signalled' \in BOOLEAN
    <3>1. pending \subseteq Metas \cup {"header", "bcst"} /\ signalled \in BOOLEAN
      BY DEF SourceTypeOK
    <3> HIDE DEF VInv
    <3> QED
      BY <1>3, <3>1, Zenon DEF Snapshot, NotifyHeader, NotifyWrite
  <2>4. SourceTypeOK'
    BY <2>1, <2>2, <2>3 DEF SourceTypeOK
  <2> QED
    BY <1>0, <2>1, <2>4
<1>4. ASSUME NEW k \in Metas, SetMeta(k) PROVE Typed'
  <2>1. version \in [Metas -> 0 .. MaxVersions] /\ due \in [Metas -> 0 .. MaxVersions] /\ MaxVersions \in Nat
    BY SourceAssumption DEF SourceTypeOK
  <2>2. version' \in [Metas -> 0 .. MaxVersions] /\ due' \in [Metas -> 0 .. MaxVersions]
        /\ \A j \in Metas : due'[j] <= version'[j]
    BY <1>4, <2>1 DEF SetMeta
  <2> QED
    BY <1>0, <1>4, <2>2 DEF SetMeta, SourceTypeOK
<1>5. ASSUME NEW k \in Metas, NotifyMeta(k) PROVE Typed'
  <2>1. version \in [Metas -> 0 .. MaxVersions] /\ due \in [Metas -> 0 .. MaxVersions] /\ MaxVersions \in Nat
    BY SourceAssumption DEF SourceTypeOK
  <2>2. due' \in [Metas -> 0 .. MaxVersions] /\ \A j \in Metas : due'[j] <= version[j]
    BY <1>5, <2>1 DEF NotifyMeta
  <2> QED
    BY <1>0, <1>5, <2>2 DEF NotifyMeta, SourceTypeOK
<1> QED
  BY <1>1, <1>2, <1>3, <1>4, <1>5 DEF Source, SourceNext, Notifications

(* The output keeps the types, too. *)
LEMMA TypedOutput ==
  ASSUME VInv, AddOutput \/ Output \/ WriteFails \/ Close
  PROVE  Typed'
<1> USE DEF VInv, Typed, TypeOK, SourceTypeOK, srcVars, wire, Local, Goto
<1>0. CASE AddOutput
  BY <1>0, Zenon DEF AddOutput
<1>1. CASE ReadInfo \/ Timeout \/ Respond
  BY <1>1 DEF ReadInfo, Timeout, Respond
<1>2. CASE HasData \/ FirstData \/ NoHeaderNotice \/ WakeUp
  BY <1>2 DEF HasData, FirstData, NoHeaderNotice, WakeUp
<1>3. CASE CloseSeen \/ WriteFails
  BY <1>3 DEF CloseSeen, WriteFails
<1>4. CASE Close
  BY <1>4 DEF Close
<1>5. CASE FirstSignal
  BY <1>5 DEF FirstSignal
<1>6. CASE Signal
  BY <1>6 DEF Signal
<1>7. CASE InfoArrives
  BY <1>7 DEF InfoArrives
<1>8. CASE DropNotice
  BY <1>8 DEF DropNotice
<1>9. CASE TakeHeader
  BY <1>9 DEF TakeHeader
<1>10. CASE SendHeader \/ WriteHeaderUpdate
  <2>1. sentHeader' \in Generations /\ sent' \in StreamPackets \cup {NoPacket}
    BY <1>10 DEF SendHeader, WriteHeaderUpdate, WriteHeader
  <2>2. ref' \in StreamPackets \cup {NoPacket} /\ UNCHANGED <<srcVars, batch, closed, newest>>
    BY <1>10 DEF SendHeader, WriteHeaderUpdate
  <2>3. keyWait' \in BOOLEAN
    BY <1>10 DEF SendHeader, WriteHeaderUpdate
  <2>4. pc' \in {"top", "signal"}
    BY <1>10 DEF SendHeader, WriteHeaderUpdate
  <2> QED
    BY <2>1, <2>2, <2>3, <2>4
<1>11. CASE PacketsAfter
  <2>1. batch' \in Seq(StreamPackets)
    <3>1. CASE W!PacketsAfter(window, ref) = <<>>
      BY <1>11, <3>1 DEF PacketsAfter
    <3>2. CASE W!PacketsAfter(window, ref) # <<>>
      <4>1. W!PacketsAfter(window, ref) \in Seq(StreamPackets)
        BY <3>2, AfterIs
      <4> QED
        BY <1>11, <4>1 DEF PacketsAfter
    <3> QED
      BY <3>1, <3>2
  <2> QED
    BY <1>11, <2>1 DEF PacketsAfter
<1>12. CASE SendData
  <2>1. batch # <<>>
    BY <1>12 DEF SendData, Continued
  <2>2. Head(batch) \in StreamPackets /\ Tail(batch) \in Seq(StreamPackets)
    BY <2>1
  <2>3. keyWait' \in BOOLEAN
    BY <1>12 DEF SendData
  <2>4. newest' \in 0 .. MaxPackets
    <3>1. Head(batch).ts \in 0 .. MaxPackets
      BY <2>2, SourceAssumption DEF StreamPackets
    <3> QED
      BY <1>12, <3>1 DEF SendData
  <2> QED
    BY <1>12, <2>2, <2>3, <2>4 DEF SendData
<1>13. CASE Leave
  <2>1. due' \in [Metas -> 0 .. MaxVersions] /\ \A k \in Metas : due'[k] <= version'[k]
    BY <1>13, SourceAssumption DEF Leave
  <2>2. 0 \in Generations /\ NoPacket \in StreamPackets \cup {NoPacket} /\ 0 \in 0 .. MaxPackets
    BY SourceAssumption DEF Generations
  <2>3. src' \in {"idle", "snapshot", "notify", "written"} /\ pending' \subseteq Metas \cup {"header", "bcst"}
    BY <1>13 DEF Leave
  <2>4. batch' \in Seq(StreamPackets)
    BY <1>13 DEF Leave
  <2> QED
    BY <1>13, <2>1, <2>2, <2>3, <2>4 DEF Leave
<1> QED
  BY <1>0, <1>1, <1>2, <1>3, <1>4, <1>5, <1>6, <1>7, <1>8, <1>9, <1>10, <1>11, <1>12, <1>13 DEF Output

-----------------------------------------------------------------------------
(* What the parts of the invariant say about numbers. *)
LEMMA Numbers ==
  ASSUME Typed
  PROVE  /\ serial \in Nat /\ Len(window) \in Nat /\ Len(batch) \in Nat
         /\ ref.ts \in Nat /\ newest \in Nat /\ NoPacket.ts = 0
         /\ \A i \in 1 .. Len(window) : window[i].ts \in Nat \ {0}
         /\ \A i \in 1 .. Len(batch) : batch[i] \in StreamPackets /\ batch[i].ts \in Nat \ {0} /\ batch[i] # NoPacket
<1>1. /\ window \in Seq(StreamPackets) /\ batch \in Seq(StreamPackets) /\ ref \in StreamPackets \cup {NoPacket}
      /\ serial \in Nat /\ newest \in Nat
  BY SourceAssumption DEF Typed, TypeOK, SourceTypeOK
<1>2. \A p \in StreamPackets : p.ts \in Nat \ {0}
  BY SourceAssumption DEF StreamPackets
<1>3. NoPacket.ts = 0
  BY DEF NoPacket
<1>4. /\ Len(window) \in Nat /\ \A i \in 1 .. Len(window) : window[i] \in StreamPackets
      /\ Len(batch) \in Nat /\ \A i \in 1 .. Len(batch) : batch[i] \in StreamPackets
  BY <1>1
<1> QED
  BY <1>1, <1>2, <1>3, <1>4

(* The packets stay numbered. *)
LEMMA NumberedStep ==
  ASSUME VInv, [Next]_vars
  PROVE  Numbered'
<1> USE DEF VInv, Numbered
<1>0. Typed
  OBVIOUS
<1>1. CASE Quiet
  BY <1>1 DEF Quiet
<1>2. CASE SetHeader /\ UNCHANGED <<outVars, wire>>
  BY <1>0, <1>2, Numbers DEF SetHeader, outVars
<1>3. CASE Write /\ UNCHANGED <<outVars, wire>>
  <2>0. serial' = serial + 1 /\ UNCHANGED <<ref, batch>> /\ serial \in Nat
    BY <1>0, <1>3, Numbers DEF Write, outVars
  <2>1. /\ Len(window') <= serial'
        /\ \A i \in 1 .. Len(window') : window'[i].ts = serial' - Len(window') + i
    <3>1. Numbered
      OBVIOUS
    <3> HIDE DEF VInv, Numbered
    <3>2. /\ Len(window') <= serial + 1
          /\ \A i \in 1 .. Len(window') : window'[i].ts = serial + 1 - Len(window') + i
      BY <1>0, <1>3, <3>1, WriteIs
    <3> QED
      BY <2>0, <3>2
  <2>2. \A i \in 1 .. Len(window') :
          window'[i].ts = serial + 1 \/ \E j \in 1 .. Len(window) : window'[i] = window[j]
    <3>1. Numbered
      OBVIOUS
    <3> HIDE DEF VInv, Numbered
    <3> QED
      BY <1>0, <1>3, <3>1, WriteIs
  <2>3. ASSUME NEW i \in 1 .. Len(window')
        PROVE  /\ window'[i].ts = ref.ts => window'[i].pos = ref.pos
               /\ \A j \in 1 .. Len(batch) : window'[i].ts = batch[j].ts => window'[i].pos = batch[j].pos
    <3>1. CASE window'[i].ts = serial + 1
      BY <1>0, <2>0, <3>1, Numbers
    <3>2. CASE \E j \in 1 .. Len(window) : window'[i] = window[j]
      BY <2>0, <3>2
    <3> QED
      BY <2>2, <3>1, <3>2
  <2>4. ref.ts <= serial' /\ \A i \in 1 .. Len(batch) : batch[i].ts = batch[1].ts + i - 1 /\ batch[i].ts <= serial'
    BY <1>0, <2>0, Numbers
  <2> QED
    BY <2>0, <2>1, <2>3, <2>4
<1>4. CASE SendHeader
  BY <1>4 DEF SendHeader, srcVars, Local
<1>5. CASE WriteHeaderUpdate
  <2>1. UNCHANGED <<window, serial, batch>> /\ (ref' = ref \/ ref' = NoPacket)
    BY <1>5 DEF WriteHeaderUpdate, srcVars
  <2>2. ref'.ts <= serial' /\ \A i \in 1 .. Len(window) : window[i].ts = ref'.ts => window[i].pos = ref'.pos
    <3>1. CASE ref' = ref
      BY <2>1, <3>1
    <3>2. CASE ref' = NoPacket
      <4>1. ref'.ts = 0 /\ serial \in Nat /\ \A i \in 1 .. Len(window) : window[i].ts # 0
        BY <1>0, <3>2, Numbers
      <4> QED
        BY <2>1, <4>1
    <3> QED
      BY <2>1, <3>1, <3>2
  <2> QED
    BY <2>1, <2>2
<1>6. CASE PacketsAfter
  <2>1. UNCHANGED <<window, serial, ref>> /\ batch' = W!PacketsAfter(window, ref)
    BY <1>6 DEF PacketsAfter, srcVars
  <2>2. CASE batch' = <<>>
    BY <2>1, <2>2
  <2>3. CASE batch' # <<>>
    <3>1. PICK m \in 1 .. Len(window) :
            /\ Len(batch') = Len(window) - m + 1
            /\ \A i \in 1 .. Len(window) - m + 1 : batch'[i] = window[m + i - 1]
      BY <1>0, <2>1, <2>3, AfterIs
    <3>2. \A i \in 1 .. Len(window) - m + 1 : m + i - 1 \in 1 .. Len(window)
      BY <1>0, Numbers
    <3>3. ASSUME NEW i \in 1 .. Len(batch')
          PROVE  batch'[i].ts = serial - Len(window) + (m + i - 1) /\ batch'[i].ts <= serial
      <4>1. serial \in Nat /\ Len(window) \in Nat /\ m \in Nat /\ i \in Nat
        BY <1>0, <3>1, Numbers
      <4>2. m + i - 1 \in 1 .. Len(window) /\ batch'[i] = window[m + i - 1]
        BY <3>1, <3>2
      <4> DEFINE n == m + i - 1
      <4>3. n \in 1 .. Len(window) /\ batch'[i] = window[n]
        BY <4>2
      <4> HIDE DEF n
      <4>4. batch'[i].ts = serial - Len(window) + n /\ batch'[i].ts <= serial
        BY <4>1, <4>3
      <4> QED
        BY <4>4 DEF n
    <3>4. 1 \in 1 .. Len(batch')
      BY <1>0, <3>1, Numbers
    <3>5. \A i \in 1 .. Len(batch') : batch'[i].ts = batch'[1].ts + i - 1
      BY <1>0, <3>3, <3>4, Numbers
    <3>6. ASSUME NEW i \in 1 .. Len(window), NEW j \in 1 .. Len(batch'), window[i].ts = batch'[j].ts
          PROVE  window[i].pos = batch'[j].pos
      <4>1. serial \in Nat /\ Len(window) \in Nat /\ m \in Nat /\ j \in Nat /\ i \in Nat
        BY <1>0, <3>1, Numbers
      <4>2. window[i].ts = serial - Len(window) + i /\ batch'[j].ts = serial - Len(window) + (m + j - 1)
        BY <3>3
      <4>3. i = m + j - 1
        <5> HIDE DEF VInv, Numbered
        <5>1. serial - Len(window) + i = serial - Len(window) + (m + j - 1)
          BY <3>6, <4>2, Zenon
        <5>2. \A a, b, x, y \in Nat : a - b + x = a - b + (m + y - 1) => x = m + y - 1
          BY <4>1
        <5> QED
          BY <4>1, <5>1, <5>2
      <4> QED
        BY <3>1, <3>6, <4>3
    <3> QED
      BY <2>1, <3>3, <3>5, <3>6
  <2> QED
    BY <2>2, <2>3
<1>7. CASE SendData
  <2>1. batch # <<>> /\ UNCHANGED <<window, serial>> /\ ref' = Head(batch) /\ batch' = Tail(batch)
    BY <1>7 DEF SendData, Continued, srcVars
  <2>2. /\ ref' = batch[1] /\ 1 \in 1 .. Len(batch) /\ Len(batch') = Len(batch) - 1
        /\ \A i \in 1 .. Len(batch') : i + 1 \in 1 .. Len(batch) /\ batch'[i] = batch[i + 1]
    <3>1. batch \in Seq(StreamPackets)
      BY DEF Typed, TypeOK
    <3> QED
      BY <2>1, <3>1
  <2>3. ref'.ts <= serial /\ \A i \in 1 .. Len(batch') : batch'[i].ts = batch'[1].ts + i - 1 /\ batch'[i].ts <= serial
    <3>1. ASSUME NEW i \in 1 .. Len(batch')
          PROVE  batch'[i].ts = batch[1].ts + i /\ batch'[i].ts <= serial
      <4> DEFINE j == i + 1
      <4>1. j \in 1 .. Len(batch) /\ batch'[i] = batch[j] /\ j - 1 = i /\ batch[1].ts \in Nat
        BY <1>0, <2>2, Numbers
      <4> HIDE DEF j
      <4> QED
        BY <4>1
    <3>2. batch[1].ts \in Nat /\ batch[1].ts <= serial /\ Len(batch') \in Nat
      BY <1>0, <2>2, Numbers
    <3> HIDE DEF VInv, Numbered
    <3>3. ASSUME NEW i \in 1 .. Len(batch') PROVE batch'[i].ts = batch'[1].ts + i - 1
      <4>1. 1 \in 1 .. Len(batch')
        BY <3>2
      <4>2. batch'[1].ts = batch[1].ts + 1 /\ batch'[i].ts = batch[1].ts + i
        BY <3>1, <4>1
      <4> QED
        BY <3>2, <4>2
    <3> QED
      BY <2>2, <3>1, <3>2, <3>3
  <2>4. \A i \in 1 .. Len(window) :
          /\ window[i].ts = ref'.ts => window[i].pos = ref'.pos
          /\ \A j \in 1 .. Len(batch') : window[i].ts = batch'[j].ts => window[i].pos = batch'[j].pos
    <3>1. \A i \in 1 .. Len(window) :
            /\ window[i].ts = ref'.ts => window[i].pos = ref'.pos
            /\ \A j \in 1 .. Len(batch) : window[i].ts = batch[j].ts => window[i].pos = batch[j].pos
      BY <2>2
    <3>2. \A i \in 1 .. Len(batch') : \E j \in 1 .. Len(batch) : batch'[i] = batch[j]
      BY <2>2
    <3> HIDE DEF VInv, Numbered
    <3>3. ASSUME NEW i \in 1 .. Len(window), NEW j \in 1 .. Len(batch'), window[i].ts = batch'[j].ts
          PROVE  window[i].pos = batch'[j].pos
      <4>1. PICK n \in 1 .. Len(batch) : batch'[j] = batch[n]
        BY <3>2
      <4>2. window[i].ts = batch[n].ts
        BY <3>3, <4>1
      <4>3. window[i].pos = batch[n].pos
        BY <3>1, <4>2
      <4> QED
        BY <4>1, <4>3
    <3> QED
      BY <3>1, <3>3
  <2>5. Len(window) <= serial /\ \A i \in 1 .. Len(window) : window[i].ts = serial - Len(window) + i
    OBVIOUS
  <2> HIDE DEF VInv
  <2> QED
    BY <2>1, <2>3, <2>4, <2>5
<1>8. CASE Leave
  BY <1>0, <1>8, Numbers DEF Leave
<1> QED
  BY <1>1, <1>2, <1>3, <1>4, <1>5, <1>6, <1>7, <1>8, QuietSteps

(* run remembers the last packet. *)
LEMMA RememberedStep ==
  ASSUME VInv, [Next]_vars
  PROVE  Remembered'
<1> USE DEF VInv, Remembered
<1>1. CASE Quiet \/ ((SetHeader \/ Write) /\ UNCHANGED <<outVars, wire>>)
  BY <1>1 DEF Quiet, outVars, wire
<1>2. CASE SendHeader
  <2>1. sent = NoPacket /\ pc = "first" /\ UNCHANGED <<ref, keyWait>> /\ (sent' = NoPacket \/ sent' = sent)
    BY <1>2 DEF SendHeader, WriteHeader, Local, Opening
  <2> QED
    BY <2>1
<1>3. CASE WriteHeaderUpdate
  <2>1. pc' \notin Opening
    BY <1>3 DEF WriteHeaderUpdate, Goto, Opening
  <2>2. \/ UNCHANGED <<ref, keyWait, sent>>
        \/ sent' = NoPacket /\ keyWait' = TRUE
    BY <1>3 DEF WriteHeaderUpdate, WriteHeader
  <2> QED
    BY <2>1, <2>2
<1>4. CASE PacketsAfter
  BY <1>4 DEF PacketsAfter, wire, Goto, Opening
<1>5. CASE SendData
  <2>1. Head(batch) # NoPacket
    <3>1. batch # <<>> /\ Typed
      BY <1>5 DEF SendData, Continued
    <3>2. Head(batch) = batch[1] /\ 1 \in 1 .. Len(batch)
      BY <3>1 DEF Typed, TypeOK
    <3> QED
      BY <3>1, <3>2, Numbers
  <2> QED
    BY <1>5, <2>1 DEF SendData, Goto, Opening
<1>6. CASE Leave
  BY <1>6 DEF Leave
<1> QED
  BY <1>1, <1>2, <1>3, <1>4, <1>5, <1>6, QuietSteps

(* The next packet stays the next one while the window moves on. *)
LEMMA ContinuedStep ==
  ASSUME VInv, [Next]_vars
  PROVE  Continued'
<1> USE DEF VInv, Continued, Follows
<1>0. Typed /\ Numbered
  OBVIOUS
<1>1. CASE Quiet
  BY <1>1 DEF Quiet
<1>2. CASE SetHeader /\ UNCHANGED <<outVars, wire>>
  BY <1>2 DEF SetHeader, outVars
<1>3. CASE Write /\ UNCHANGED <<outVars, wire>>
  <2> SUFFICES ASSUME pc = "send"
               PROVE  \A i \in 1 .. Len(window') : ~(ref.ts < window'[i].ts /\ window'[i].ts < batch[1].ts)
    BY <1>3 DEF outVars
  <2>1. \A i \in 1 .. Len(window') :
          window'[i].ts = serial + 1 \/ \E j \in 1 .. Len(window) : window'[i] = window[j]
    <3> HIDE DEF VInv, Continued
    <3> QED
      BY <1>0, <1>3, WriteIs
  <2>2. batch[1].ts <= serial /\ batch[1].ts \in Nat /\ serial \in Nat
    <3>1. 1 \in 1 .. Len(batch)
      BY <1>0 DEF Typed, TypeOK
    <3> QED
      BY <1>0, <3>1, Numbers DEF Numbered
  <2>3. \A i \in 1 .. Len(window) : ~(ref.ts < window[i].ts /\ window[i].ts < batch[1].ts)
    OBVIOUS
  <2> HIDE DEF VInv, Continued, Follows
  <2>4. ASSUME NEW i \in 1 .. Len(window') PROVE ~(ref.ts < window'[i].ts /\ window'[i].ts < batch[1].ts)
    <3>1. CASE window'[i].ts = serial + 1
      BY <2>2, <3>1
    <3>2. ASSUME NEW j \in 1 .. Len(window), window'[i] = window[j]
          PROVE  ~(ref.ts < window'[i].ts /\ window'[i].ts < batch[1].ts)
      BY <2>3, <3>2
    <3> QED
      BY <2>1, <3>1, <3>2
  <2> QED
    BY <2>4
<1>4. CASE SendHeader \/ WriteHeaderUpdate \/ Leave
  BY <1>4 DEF SendHeader, WriteHeaderUpdate, Leave, Goto
<1>5. CASE PacketsAfter
  <2> SUFFICES ASSUME batch' # <<>> PROVE Follows(ref, batch'[1])
    BY <1>5 DEF PacketsAfter, srcVars, Goto
  <2>1. PICK m \in 1 .. Len(window) :
          /\ window[m].ts > ref.ts
          /\ \A i \in 1 .. m - 1 : window[i].ts <= ref.ts
          /\ Len(batch') = Len(window) - m + 1
          /\ \A i \in 1 .. Len(window) - m + 1 : batch'[i] = window[m + i - 1]
    <3>1. batch' = W!PacketsAfter(window, ref)
      BY <1>5 DEF PacketsAfter
    <3> QED
      BY <1>0, <3>1, AfterBatch
  <2>2. batch'[1] = window[m]
    <3>1. Len(window) \in Nat /\ 1 \in 1 .. Len(window) - m + 1 /\ m + 1 - 1 = m
      BY <1>0, Numbers
    <3> QED
      BY <2>1, <3>1
  <2>3. \A i \in 1 .. Len(window) : i \in 1 .. m - 1 \/ window[i].ts >= window[m].ts
    <3>1. \A i \in 1 .. Len(window) : window[i].ts = serial - Len(window) + i
      BY <1>0 DEF Numbered
    <3>2. serial \in Nat /\ Len(window) \in Nat
      BY <1>0, Numbers
    <3> HIDE DEF VInv, Continued, Follows
    <3> QED
      BY <3>1, <3>2
  <2>4. ref.ts \in Nat /\ \A i \in 1 .. Len(window) : window[i].ts \in Nat
    BY <1>0, Numbers
  <2> HIDE DEF VInv, Continued
  <2> QED
    BY <2>1, <2>2, <2>3, <2>4
<1>6. CASE SendData
  <2>0. batch # <<>> /\ UNCHANGED window /\ ref' = Head(batch) /\ batch' = Tail(batch)
        /\ (pc' = "send" => batch' # <<>>)
    BY <1>6 DEF SendData, srcVars, Goto
  <2> SUFFICES ASSUME batch' # <<>>
               PROVE  /\ ref'.ts < batch'[1].ts
                      /\ \A i \in 1 .. Len(window) : ~(ref'.ts < window[i].ts /\ window[i].ts < batch'[1].ts)
    BY <2>0
  <2>1. batch \in Seq(StreamPackets)
    BY <1>0 DEF Typed, TypeOK
  <2>2. ref' = batch[1] /\ batch'[1] = batch[2] /\ 1 \in 1 .. Len(batch) /\ 2 \in 1 .. Len(batch)
    BY <2>0, <2>1
  <2>3. batch[2].ts = batch[1].ts + 1 /\ batch[1].ts \in Nat
    BY <1>0, <2>2, Numbers DEF Numbered
  <2>4. ref'.ts < batch'[1].ts
    BY <2>2, <2>3
  <2>5. \A i \in 1 .. Len(window) : window[i].ts \in Nat
    BY <1>0, Numbers
  <2> HIDE DEF VInv
  <2> QED
    BY <2>2, <2>3, <2>4, <2>5
<1> QED
  BY <1>1, <1>2, <1>3, <1>4, <1>5, <1>6, QuietSteps

(* What is buffered belongs to the present header, and what is sent again to   *)
(* the one the viewer has.                                                     *)
LEMMA TaggedStep ==
  ASSUME VInv, [Next]_vars
  PROVE  Tagged'
<1>0. /\ Typed /\ Numbered /\ Tagged /\ Continued
      /\ serial \in Nat /\ newest \in Nat /\ ref.ts \in Nat
      /\ \A i \in 1 .. Len(window) : window[i].ts \in Nat \ {0}
      /\ \A i \in 1 .. Len(batch) : batch[i].ts \in Nat \ {0}
  BY Numbers DEF VInv
<1>1. CASE Quiet
  BY <1>0, <1>1 DEF Quiet, Tagged
<1>2. CASE SetHeader /\ UNCHANGED <<outVars, wire>>
  <2>1. window' = <<>> /\ UNCHANGED <<serial, pc, ref, batch, sentHeader, newest>>
    BY <1>2 DEF SetHeader, outVars, wire
  <2> QED
    BY <1>0, <2>1 DEF Tagged
<1>3. CASE Write /\ UNCHANGED <<outVars, wire>>
  <2>1. serial' = serial + 1 /\ UNCHANGED <<header, pc, ref, batch, sentHeader, newest>>
    BY <1>3 DEF Write, outVars, wire
  <2>2. \A i \in 1 .. Len(window') : \/ window'[i].ts = serial + 1 /\ window'[i].gen = header.gen
                                    \/ \E j \in 1 .. Len(window) : window'[i] = window[j]
    BY <1>0, <1>3, WriteIs
  <2>3. ASSUME NEW i \in 1 .. Len(window')
        PROVE  /\ window'[i].gen = header.gen
               /\ ref.ts < newest /\ window'[i].ts <= newest => window'[i].gen = sentHeader
    <3>1. CASE window'[i].ts = serial + 1 /\ window'[i].gen = header.gen
      BY <1>0, <3>1 DEF Tagged
    <3>2. CASE \E j \in 1 .. Len(window) : window'[i] = window[j]
      BY <1>0, <3>2 DEF Tagged
    <3> QED
      BY <2>2, <3>1, <3>2
  <2> QED
    BY <1>0, <2>1, <2>3 DEF Tagged
<1>4. CASE SendHeader
  <2>1. pc = "first" /\ pc' = "top" /\ UNCHANGED <<header, window, serial, ref, newest>>
    BY <1>4 DEF SendHeader, srcVars, Local, Goto
  <2>2. newest = 0
    BY <1>0, <2>1 DEF Tagged, Opening
  <2> QED
    BY <1>0, <2>1, <2>2 DEF Tagged, Opening
<1>5. CASE WriteHeaderUpdate
  <2>1. pc' \in {"signal", "top"} /\ UNCHANGED <<header, window, serial, newest>>
        /\ (sentHeader' = header.gen \/ UNCHANGED <<sentHeader, ref>>)
    BY <1>5 DEF WriteHeaderUpdate, WriteHeader, srcVars, Goto
  <2> QED
    BY <1>0, <2>1 DEF Tagged, Opening
<1>6. CASE PacketsAfter
  <2>1. pc' \notin Opening /\ UNCHANGED <<header, window, serial, ref, newest, sentHeader>>
        /\ batch' = W!PacketsAfter(window, ref)
    BY <1>6 DEF PacketsAfter, srcVars, wire, Goto, Opening
  <2>2. ASSUME NEW i \in 1 .. Len(batch'), batch'[i].ts <= newest PROVE batch'[i].gen = sentHeader
    <3>1. batch' # <<>>
      BY <2>2
    <3>2. PICK m \in 1 .. Len(window) :
            /\ window[m].ts > ref.ts
            /\ Len(batch') = Len(window) - m + 1
            /\ \A j \in 1 .. Len(window) - m + 1 : batch'[j] = window[m + j - 1]
      BY <1>0, <2>1, <3>1, AfterBatch
    <3> DEFINE n == m + i - 1
    <3>3. Len(window) \in Nat /\ n \in 1 .. Len(window) /\ batch'[i] = window[n] /\ m <= n
      <4>1. Len(window) \in Nat
        BY <1>0, Numbers
      <4>2. i \in 1 .. Len(window) - m + 1
        BY <3>2
      <4> QED
        BY <3>2, <4>1, <4>2
    <3> HIDE DEF n
    <3>4. window[n].ts > ref.ts
      <4>1. window[n].ts = serial - Len(window) + n /\ window[m].ts = serial - Len(window) + m
        BY <1>0, <3>3 DEF Numbered
      <4>2. /\ serial \in Nat /\ ref.ts \in Nat /\ Len(window) \in Nat /\ n \in Nat /\ m \in Nat
            /\ window[m].ts > ref.ts /\ m <= n
        BY <1>0, <3>2, <3>3
      <4> QED
        BY <4>1, <4>2
    <3> QED
      BY <1>0, <2>2, <3>3, <3>4 DEF Tagged
  <2> QED
    BY <1>0, <2>1, <2>2 DEF Tagged
<1>7. CASE SendData
  <2>1. /\ pc = "send" /\ pc' \notin Opening /\ UNCHANGED <<header, window, serial, sentHeader>>
        /\ batch # <<>> /\ ref' = Head(batch) /\ batch' = Tail(batch)
        /\ \/ newest' = newest
           \/ newest' = Head(batch).ts /\ ~(Head(batch).ts <= newest)
    BY <1>0, <1>7 DEF SendData, Continued, srcVars, Goto, Opening
  <2>2. /\ 1 \in 1 .. Len(batch) /\ Head(batch) = batch[1]
        /\ \A i \in 1 .. Len(batch') : i + 1 \in 1 .. Len(batch) /\ batch'[i] = batch[i + 1]
    <3>1. batch \in Seq(StreamPackets)
      BY <1>0 DEF Typed, TypeOK
    <3> QED
      BY <2>1, <3>1
  <2>3. batch[1].ts <= serial /\ ref.ts < batch[1].ts /\ batch[1].ts \in Nat
    BY <1>0, <2>1, <2>2 DEF Numbered, Continued, Follows
  <2>4. ASSUME NEW i \in 1 .. Len(batch') PROVE batch'[i].ts > batch[1].ts
    <3> DEFINE j == i + 1
    <3>1. j \in 1 .. Len(batch) /\ batch'[i] = batch[j] /\ j > 1 /\ j \in Nat
      BY <2>2
    <3> HIDE DEF j
    <3>2. batch[j].ts = batch[1].ts + j - 1
      BY <1>0, <3>1 DEF Numbered
    <3> QED
      BY <2>3, <3>1, <3>2
  <2>5. CASE newest' = newest
    <3>1. \A i \in 1 .. Len(batch') : batch'[i].ts <= newest => batch'[i].gen = sentHeader
      BY <1>0, <2>1, <2>2 DEF Tagged
    <3>2. ref'.ts < newest => ref.ts < newest
      BY <1>0, <2>1, <2>2, <2>3
    <3> QED
      BY <1>0, <2>1, <2>5, <3>1, <3>2 DEF Tagged
  <2>6. CASE newest' = batch[1].ts
    <3>1. ~(ref'.ts < newest') /\ \A i \in 1 .. Len(batch') : ~(batch'[i].ts <= newest')
      <4>1. \A i \in 1 .. Len(batch') : batch'[i].ts \in Nat
        BY <1>0, <2>2
      <4> QED
        BY <2>1, <2>2, <2>3, <2>4, <2>6, <4>1
    <3> QED
      BY <1>0, <2>1, <2>3, <2>6, <3>1 DEF Tagged
  <2> QED
    BY <2>1, <2>2, <2>5, <2>6
<1>8. CASE Leave
  <2>1. pc' = "out" /\ newest' = 0 /\ ref' = NoPacket /\ UNCHANGED <<header, window, serial>>
    BY <1>8 DEF Leave, Goto
  <2>2. NoPacket.ts = 0
    BY DEF NoPacket
  <2> QED
    BY <1>0, <2>1, <2>2 DEF Tagged
<1> QED
  BY <1>1, <1>2, <1>3, <1>4, <1>5, <1>6, <1>7, <1>8, QuietSteps

-----------------------------------------------------------------------------
(* The inductive invariant holds in every reachable state. *)
LEMMA ViewerInvariant == Spec => []VInv
<1>1. Init => VInv
  <2> SUFFICES ASSUME Init PROVE VInv
    OBVIOUS
  <2>1. Typed
    <3>1. version \in [Metas -> 0 .. MaxVersions] /\ due \in [Metas -> 0 .. MaxVersions]
          /\ \A k \in Metas : due[k] <= version[k]
      BY SourceAssumption DEF Init, SourceInit
    <3>2. 0 \in Generations /\ 0 \in W!Positions /\ 0 \in 0 .. MaxPackets
      BY SourceAssumption DEF Generations, W!Positions
    <3>3. header \in [gen : Generations, len : {0, 1}, pos : W!Positions]
      BY <3>2 DEF Init, SourceInit
    <3>4. registered \in BOOLEAN /\ signalled \in BOOLEAN /\ keyWait \in BOOLEAN /\ closed \in BOOLEAN
      BY Zenon DEF Init, SourceInit
    <3>5. window \in Seq(StreamPackets) /\ batch \in Seq(StreamPackets)
      BY DEF Init, SourceInit
    <3>6. serial \in 0 .. MaxPackets /\ pending \subseteq Metas \cup {"header", "bcst"}
      BY <3>2 DEF Init, SourceInit
    <3>7. src \in {"idle", "snapshot", "notify", "written"}
      BY DEF Init, SourceInit
    <3>8. SourceTypeOK
      BY <3>1, <3>3, <3>4, <3>5, <3>6, <3>7 DEF SourceTypeOK
    <3> QED
      BY <3>1, <3>2, <3>4, <3>5, <3>8 DEF Init, Typed, TypeOK
  <2>2. Len(window) = 0 /\ Len(batch) = 0 /\ serial = 0 /\ ref.ts = 0
    BY DEF Init, SourceInit, NoPacket
  <2> QED
    BY <2>1, <2>2 DEF Init, VInv, Numbered, Remembered, Continued, Tagged
<1>2. VInv /\ [Next]_vars => VInv'
  <2> SUFFICES ASSUME VInv, [Next]_vars PROVE VInv'
    OBVIOUS
  <2>1. Typed'
    <3>1. CASE UNCHANGED vars
      BY <3>1 DEF VInv, Typed, TypeOK, SourceTypeOK, vars, srcVars, outVars, wire
    <3> QED
      BY <3>1, TypedSource, TypedOutput DEF Next
  <2> QED
    BY <2>1, NumberedStep, RememberedStep, ContinuedStep, TaggedStep DEF VInv
<1> QED
  BY <1>1, <1>2, PTL DEF Spec

(* Every variable of the viewer's output and of the source keeps its type. *)
THEOREM ViewerTypeCorrect == Spec => []TypeOK
<1>1. VInv => TypeOK
  BY DEF VInv, Typed
<1> QED
  BY <1>1, ViewerInvariant, PTL

(* A packet is written by SendData only, and it is the first of the batch. *)
LEMMA SendsIs ==
  ASSUME VInv, Next, Sends
  PROVE  /\ SendData /\ pc = "send" /\ batch # <<>> /\ 1 \in 1 .. Len(batch)
         /\ batch \in Seq(StreamPackets) /\ window \in Seq(StreamPackets)
         /\ sent' = batch[1] /\ (keyWait => batch[1].key)
<1>1. pc = "send" /\ batch # <<>> /\ batch' = Tail(batch) /\ ~keyWait' /\ batch \in Seq(StreamPackets)
      /\ window \in Seq(StreamPackets)
  BY DEF Sends, VInv, Continued, Typed, TypeOK, SourceTypeOK
<1>2. batch' # batch
  BY <1>1
<1>3. SendData
  <2>1. ~Quiet /\ ~UNCHANGED <<outVars, wire>> /\ ~SendHeader /\ ~WriteHeaderUpdate /\ ~PacketsAfter /\ ~Leave
    BY <1>1, <1>2 DEF Quiet, outVars, SendHeader, WriteHeaderUpdate, PacketsAfter, Leave
  <2> QED
    BY <2>1, QuietSteps
<1>4. Head(batch) = batch[1] /\ 1 \in 1 .. Len(batch)
  BY <1>1
<1> QED
  BY <1>1, <1>3, <1>4 DEF SendData

(* Behind each header it is sent, a viewer gets a keyframe first and then,     *)
(* until the next header it is sent, the oldest packet that is newer than the  *)
(* last one and still buffered (http.go, run; content.go, PacketsAfter).       *)
LEMMA SendsGoOn == VInv /\ Next /\ Sends => GoesOn
<1> SUFFICES ASSUME VInv, Next, Sends PROVE GoesOn
  OBVIOUS
<1>1. /\ pc = "send" /\ batch # <<>> /\ batch \in Seq(StreamPackets) /\ window \in Seq(StreamPackets)
      /\ sent' = batch[1] /\ (keyWait => batch[1].key)
  BY SendsIs
<1>2. CASE sent = NoPacket
  BY <1>1, <1>2 DEF VInv, Remembered, GoesOn
<1>3. CASE sent # NoPacket
  <2>1. ref = sent /\ Follows(ref, batch[1])
    BY <1>1, <1>3 DEF VInv, Remembered, Continued
  <2>2. DOMAIN window = 1 .. Len(window)
    BY <1>1
  <2>3. batch[1].ts > ref.ts
    <3>1. ref.ts \in Nat /\ batch[1].ts \in Nat
      <4>1. 1 \in 1 .. Len(batch)
        BY <1>1
      <4> QED
        BY <4>1, Numbers DEF VInv
    <3> QED
      BY <2>1, <3>1 DEF Follows
  <2> QED
    BY <1>1, <1>3, <2>1, <2>2, <2>3 DEF Follows, GoesOn
<1> QED
  BY <1>2, <1>3

(* A packet that is not newer than one the viewer has got belongs to the       *)
(* header that was sent last: a header update makes run start over             *)
(* (http.go, run, sent), and never with packets of another header.             *)
LEMMA SendsAgain == VInv /\ Next /\ Sends => RepeatsOwnStream
<1> SUFFICES ASSUME VInv, Next, Sends PROVE RepeatsOwnStream
  OBVIOUS
<1>1. sent' = batch[1] /\ 1 \in 1 .. Len(batch) /\ pc = "send"
  BY SendsIs
<1>2. batch[1].ts \in Nat /\ newest \in Nat
  BY <1>1, Numbers DEF VInv
<1> QED
  BY <1>1, <1>2 DEF VInv, Tagged, RepeatsOwnStream

(* For any buffer and stream, and whenever the window moves on or the header   *)
(* changes between the reads of run: the packets behind each header that is    *)
(* sent are contiguous, and those that are sent again belong to the header     *)
(* that was sent last.                                                         *)
THEOREM ViewerGoesOn == Spec => Contiguous
<1>1. VInv /\ [Next]_vars => [Sends => GoesOn /\ RepeatsOwnStream]_vars
  BY SendsGoOn, SendsAgain
<1> QED
  BY <1>1, ViewerInvariant, PTL DEF Spec, Contiguous
=============================================================================
