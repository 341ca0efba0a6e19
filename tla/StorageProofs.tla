--------------------------- MODULE StorageProofs ---------------------------
(***************************************************************************)
(* Proofs about what the process keeps across crashes and restarts: the    *)
(* file of stream keys (StreamKeyStore) and the spool of audit events with *)
(* its database (AuditSpool).  The two share no state.                     *)
(*                                                                         *)
(* The invariant of the key store adds to the checked invariants what the  *)
(* maps, the file and the operation in progress have to do with each       *)
(* other: the maps agree with the file on every account with a definite    *)
(* key that no operation is touching, and an operation's old and new keys  *)
(* are where it left them.  The invariant of the spool has two parts: AInv *)
(* says where an event comes from, wherever it is, and what a row follows, *)
(* and NInv in which order events are kept and that every event that is    *)
(* not kept is told of, now or later, or belongs to a broadcast without an *)
(* end that is complete.                                                   *)
(***************************************************************************)
EXTENDS StreamKeyStore, AuditSpool, FiniteSetTheorems, TLAPS

Pending(a) == op # Idle /\ op.account = a

(* While the process is down there is no operation and the maps are empty. *)
DownIsEmpty ==
  ~up => /\ op = Idle
         /\ \A a \in Accounts : accounts[a] = None
         /\ \A k \in Keys : streamKeys[k] = None

(* The operation in progress: its new key is in the maps, its old key is   *)
(* free to be restored, and both keys are among the promised ones.         *)
OpConsistent ==
  op # Idle =>
    /\ accounts[op.account] = op.key
    /\ op.kind = "issue" => op.key # None
    /\ op.kind = "revoke" => op.key = None
    /\ op.old # None /\ op.old # op.key => streamKeys[op.old] = None
    /\ op.saved => disk = accounts
    /\ op.key \in promised[op.account]

(* The cache file keeps the key of every account that was issued one. *)
IssuedKeyOnDisk ==
  \A a \in Accounts : None \notin promised[a] => disk[a] \in promised[a]

(* A key in memory is the key in the file, and so is the key an unsaved     *)
(* operation would restore.                                                *)
MemoryMatchesDisk ==
  up => \A a \in Accounts :
          IF Pending(a) THEN op.saved \/ op.old = None \/ disk[a] = op.old
                        ELSE accounts[a] = None \/ accounts[a] = disk[a]

(* An account with a definite key has one in memory, before and after an   *)
(* operation.                                                              *)
DefiniteKeyInMemory ==
  up => \A a \in Accounts :
          None \notin promised[a] =>
            IF Pending(a) THEN op.old # None /\ op.key # None ELSE accounts[a] # None

(* The inductive invariant. *)
IInv ==
  /\ TypeOK
  /\ InverseMaps
  /\ DiskInjective
  /\ DownIsEmpty
  /\ OpConsistent

(* The part that needs a load failure to be fatal. *)
SInv == site => IssuedKeyOnDisk /\ MemoryMatchesDisk /\ DefiniteKeyInMemory

-----------------------------------------------------------------------------
(* The maps and the file start empty and the invariant holds of them. *)
LEMMA InitIInv == Init => IInv
  BY KeyStoreAssumption
     DEF Init, IInv, TypeOK, InverseMaps, DiskInjective, DownIsEmpty, OpConsistent,
         AccountMap, Operations, Idle

(* Every operation, failed save, crash and restart preserves it. *)
LEMMA NextIInv == IInv /\ [Next]_vars => IInv'
<1> SUFFICES ASSUME IInv, [Next]_vars PROVE IInv'
  OBVIOUS
<1> USE KeyStoreAssumption
<1>t. TypeOK /\ InverseMaps /\ DiskInjective /\ DownIsEmpty /\ OpConsistent
  BY DEF IInv
<1>1. ASSUME NEW a \in Accounts, NEW k \in Keys, IssueStreamKey(a, k) PROVE IInv'
  <2>1. TypeOK'
    BY <1>1, <1>t DEF IssueStreamKey, Begin, Reassign, TypeOK, AccountMap, Operations
  <2>2. InverseMaps'
    BY <1>1, <1>t DEF IssueStreamKey, Reassign, TypeOK, AccountMap, InverseMaps
  <2>3. DiskInjective' /\ DownIsEmpty'
    BY <1>1, <1>t DEF IssueStreamKey, DiskInjective, DownIsEmpty
  <2>4. OpConsistent'
    BY <1>1, <1>t DEF IssueStreamKey, Begin, Reassign, TypeOK, AccountMap, OpConsistent, InverseMaps
  <2> QED BY <2>1, <2>2, <2>3, <2>4 DEF IInv
<1>2. ASSUME NEW a \in Accounts, RevokeStreamKey(a) PROVE IInv'
  <2>1. TypeOK'
    BY <1>2, <1>t DEF RevokeStreamKey, Begin, TypeOK, AccountMap, Operations
  <2>2. InverseMaps'
    BY <1>2, <1>t DEF RevokeStreamKey, TypeOK, AccountMap, InverseMaps
  <2>3. DiskInjective' /\ DownIsEmpty'
    BY <1>2, <1>t DEF RevokeStreamKey, DiskInjective, DownIsEmpty
  <2>4. OpConsistent'
    BY <1>2, <1>t DEF RevokeStreamKey, Begin, TypeOK, AccountMap, OpConsistent
  <2> QED BY <2>1, <2>2, <2>3, <2>4 DEF IInv
<1>3. ASSUME Rename PROVE IInv'
  <2>1. TypeOK'
    BY <1>3, <1>t DEF Rename, TypeOK, AccountMap, Operations, Idle
  <2>2. InverseMaps' /\ DownIsEmpty'
    BY <1>3, <1>t DEF Rename, InverseMaps, DownIsEmpty
  <2>3. DiskInjective'
    BY <1>3, <1>t DEF Rename, DiskInjective, InverseMaps, TypeOK, AccountMap
  <2>4. OpConsistent'
    BY <1>3, <1>t DEF Rename, TypeOK, AccountMap, Operations, Idle, OpConsistent
  <2> QED BY <2>1, <2>2, <2>3, <2>4 DEF IInv
<1>4. ASSUME SaveOk PROVE IInv'
  BY <1>4, <1>t DEF SaveOk, Return, IInv, TypeOK, AccountMap, Operations, Idle,
        InverseMaps, DiskInjective, DownIsEmpty, OpConsistent
<1>5. ASSUME IssueSaveFails PROVE IInv'
  <2>0. op \in Operations \ {Idle} /\ op.account \in Accounts /\ op.key \in Keys
        /\ op.old \in Keys \cup {None}
    BY <1>5, <1>t DEF IssueSaveFails, TypeOK, Operations, Idle, OpConsistent
  <2>1. TypeOK'
    BY <1>5, <1>t, <2>0 DEF IssueSaveFails, Return, TypeOK, AccountMap, Operations
  <2>2. InverseMaps'
    BY <1>5, <1>t, <2>0 DEF IssueSaveFails, TypeOK, AccountMap, InverseMaps, OpConsistent
  <2>3. DiskInjective' /\ DownIsEmpty' /\ OpConsistent'
    BY <1>5, <1>t DEF IssueSaveFails, Return, DiskInjective, DownIsEmpty, OpConsistent
  <2> QED BY <2>1, <2>2, <2>3 DEF IInv
<1>6. ASSUME RevokeSaveFails PROVE IInv'
  BY <1>6, <1>t DEF RevokeSaveFails, Return, IInv, TypeOK, AccountMap, Operations, Idle,
        InverseMaps, DiskInjective, DownIsEmpty, OpConsistent
<1>7. ASSUME Crash PROVE IInv'
  <2>1. TypeOK'
    BY <1>7, <1>t DEF Crash, TypeOK, AccountMap, Operations
  <2>2. InverseMaps'
    BY <1>7 DEF Crash, InverseMaps
  <2>3. DiskInjective' /\ DownIsEmpty' /\ OpConsistent'
    BY <1>7, <1>t DEF Crash, DiskInjective, DownIsEmpty, OpConsistent
  <2> QED BY <2>1, <2>2, <2>3 DEF IInv
<1>8. ASSUME LoadCache PROVE IInv'
  <2>0. \A a \in Accounts, k \in Keys : disk[a] = k <=> LoadedKeys(disk)[k] = a
    BY <1>t DEF LoadedKeys, DiskInjective, TypeOK, AccountMap
  <2>1. LoadedKeys(disk) \in [Keys -> Accounts \cup {None}]
    BY DEF LoadedKeys
  <2> QED BY <1>8, <1>t, <2>0, <2>1 DEF LoadCache, IInv, TypeOK, InverseMaps,
        DiskInjective, DownIsEmpty, OpConsistent
<1>9. ASSUME LoadCacheFails PROVE IInv'
  BY <1>9, <1>t DEF LoadCacheFails, IInv, TypeOK, InverseMaps, DiskInjective, DownIsEmpty, OpConsistent
<1>10. ASSUME UNCHANGED vars PROVE IInv'
  BY <1>10, <1>t DEF vars, IInv, TypeOK, InverseMaps, DiskInjective, DownIsEmpty, OpConsistent
<1> QED
  BY <1>1, <1>2, <1>3, <1>4, <1>5, <1>6, <1>7, <1>8, <1>9, <1>10 DEF Next

(* The store is type correct, whatever the accounts and the keys. *)
THEOREM TypeCorrect == Spec => []TypeOK
<1>1. IInv => TypeOK BY DEF IInv
<1> QED BY InitIInv, NextIInv, <1>1, PTL DEF Spec

(* accounts and streamKeys are inverse maps in every reachable state. *)
THEOREM MapsAreInverse == Spec => []InverseMaps
<1>1. IInv => InverseMaps BY DEF IInv
<1> QED BY InitIInv, NextIInv, <1>1, PTL DEF Spec

(* No two accounts ever share a key in the cache file. *)
THEOREM FileIsInjective == Spec => []DiskInjective
<1>1. IInv => DiskInjective BY DEF IInv
<1> QED BY InitIInv, NextIInv, <1>1, PTL DEF Spec

-----------------------------------------------------------------------------
(* The initial state promises no key to anyone. *)
LEMMA InitSInv == Init => SInv
  BY DEF Init, SInv, IssuedKeyOnDisk, MemoryMatchesDisk, DefiniteKeyInMemory, Pending, Idle

(* With a fatal load failure, no step loses a promised key. *)
LEMMA NextSInv == IInv /\ SInv /\ [Next]_vars => SInv'
<1> SUFFICES ASSUME IInv, SInv, [Next]_vars, site PROVE SInv'
  <2>1. ASSUME [Next]_vars PROVE site' = site
    BY <2>1 DEF Next, vars, IssueStreamKey, RevokeStreamKey, Rename, SaveOk,
       IssueSaveFails, RevokeSaveFails, Crash, LoadCache, LoadCacheFails
  <2> QED BY <2>1 DEF SInv
<1> USE KeyStoreAssumption
<1>t. TypeOK /\ OpConsistent /\ DownIsEmpty /\ IssuedKeyOnDisk /\ MemoryMatchesDisk /\ DefiniteKeyInMemory
  BY DEF IInv, SInv
<1>0. op # Idle => op.account \in Accounts
  BY <1>t DEF TypeOK, Operations
<1> USE DEF SInv, IssuedKeyOnDisk, MemoryMatchesDisk, DefiniteKeyInMemory, Pending, Idle, TypeOK, AccountMap
<1>1. ASSUME NEW a \in Accounts, NEW k \in Keys, IssueStreamKey(a, k) PROVE SInv'
  BY <1>1, <1>t DEF IssueStreamKey, Begin
<1>2. ASSUME NEW a \in Accounts, RevokeStreamKey(a) PROVE SInv'
  BY <1>2, <1>t DEF RevokeStreamKey, Begin
<1>3. ASSUME Rename PROVE SInv'
  BY <1>3, <1>t, <1>0 DEF Rename, OpConsistent, Operations
<1>4. ASSUME SaveOk PROVE SInv'
  BY <1>4, <1>t, <1>0 DEF SaveOk, Return, OpConsistent
<1>5. ASSUME IssueSaveFails PROVE SInv'
  BY <1>5, <1>t, <1>0 DEF IssueSaveFails, Return, OpConsistent
<1>6. ASSUME RevokeSaveFails PROVE SInv'
  BY <1>6, <1>t, <1>0 DEF RevokeSaveFails, Return, OpConsistent
<1>7. ASSUME Crash PROVE SInv'
  BY <1>7, <1>t DEF Crash
<1>8. ASSUME LoadCache PROVE SInv'
  BY <1>8, <1>t DEF LoadCache, DownIsEmpty
<1>9. ASSUME LoadCacheFails PROVE SInv'
  BY <1>9 DEF LoadCacheFails
<1>10. ASSUME UNCHANGED vars PROVE SInv'
  BY <1>10, <1>t DEF vars
<1> QED
  BY <1>1, <1>2, <1>3, <1>4, <1>5, <1>6, <1>7, <1>8, <1>9, <1>10 DEF Next

(* With the site enabled, an issued key survives failed saves and restarts. *)
THEOREM IssuedKeysSurvive == Spec => []IssuedKeySurvives
<1>1. IInv /\ SInv => IssuedKeySurvives
  BY DEF IInv, SInv, TypeOK, IssuedKeySurvives, IssuedKeyOnDisk, MemoryMatchesDisk,
         DefiniteKeyInMemory, Pending
<1> QED BY InitIInv, NextIInv, InitSInv, NextSInv, <1>1, PTL DEF Spec

-----------------------------------------------------------------------------
(* Rows of the database. *)
Row == [status : {"absent", "live", "ended", "interrupted"}, rev : Nat, incomplete : BOOLEAN]

(* What has its type, and in which part of the loop there is which file: a     *)
(* temporary file belongs to the batch that is being written, or to a process  *)
(* that has not yet acquired the directory.                                    *)
Shape ==
  /\ boot \in Boots /\ sent \in [Boots -> Nat] /\ over \subseteq Boots
  /\ queue \in Seq(Event) /\ batch \in Seq(Event) /\ dropped \in BOOLEAN
  /\ spool \in Seq(Seq(Event)) /\ tmp \in Seq(Event) \cup {NoFile}
  /\ offset \in Nat /\ locked \in BOOLEAN
  /\ db \subseteq Event /\ rows \in [Boots -> Row]
  /\ pc \in {"tick", "acquire", "drain", "write", "rename", "sync", "deliver", "exit"}
  /\ pc = "rename" => tmp = batch
  /\ pc = "sync" => spool # <<>>
  /\ pc \in {"drain", "write", "rename", "sync", "deliver"} => locked
  /\ locked => tmp = NoFile \/ pc = "rename"

(* The events in memory, and those in files. *)
InMemory == ToSet(queue) \cup ToSet(batch)
OnDisk == Lines \cup (IF tmp = NoFile THEN {} ELSE ToSet(tmp))

(* An event of a broadcast has one of its revisions, and the end has the last. *)
OfRun(e) ==
  /\ e.rev \in 1 .. sent[e.boot]
  /\ e.kind = "end" => e.boot \in over /\ e.rev = sent[e.boot]
  /\ e.kind # "end" /\ e.boot \in over => e.rev # sent[e.boot]

(* In memory is what this process emitted; in files and in the database what   *)
(* it or earlier ones emitted.                                                 *)
Origin ==
  /\ \A e \in InMemory : e.boot = boot /\ e.kind \in RunKinds \cup {"gap"}
  /\ \A e \in OnDisk \cup db : e.kind # "torn" => e.boot \in 1 .. boot
  /\ \A e \in OnDisk : e.kind = "torn" => ~e.sound
  /\ \A e \in InMemory \cup OnDisk \cup db : e.kind \in RunKinds => OfRun(e)

(* Nothing of a broadcast that is interrupted, or is going to be, was its end. *)
Closing(b) ==
  \/ rows[b].status = "interrupted"
  \/ \E e \in OnDisk \cup db : e.kind = "interrupted" /\ e.boot = b

Interruptions == \A b \in Boots : Closing(b) => b < boot /\ Ends(b) = {}

(* A row has the status that the event with its revision gave it, and a later  *)
(* process has none.                                                           *)
RowsFollow ==
  /\ \A b \in Boots : b > boot => rows[b].status = "absent"
  /\ \A b \in Boots : rows[b].rev # 0 =>
       \E e \in db : e.boot = b /\ e.rev = rows[b].rev /\ e.kind \in RunKinds \cup {"interrupted"}
  /\ \A e \in db : e.kind = "end" => rows[e.boot].status = "ended" /\ rows[e.boot].rev = sent[e.boot]

AInv == Shape /\ Origin /\ Interruptions /\ RowsFollow

-----------------------------------------------------------------------------
(* The lines of a sequence of files. *)
LinesOf(s) == UNION {ToSet(s[i]) : i \in DOMAIN s}

(* A file is added at the end. *)
LEMMA LastFile ==
  ASSUME NEW s \in Seq(Seq(Event)), NEW f \in Seq(Event)
  PROVE  LET a == Append(s, f)
         IN /\ a \in Seq(Seq(Event)) /\ a # <<>> /\ DOMAIN a = 1 .. Len(s) + 1 /\ DOMAIN s = 1 .. Len(s)
            /\ Len(s) \in Nat /\ Len(a) = Len(s) + 1 /\ \A i \in 1 .. Len(s) : a[i] = s[i]
            /\ a[Len(s) + 1] = f
            /\ Front(a) = s /\ Last(a) = f /\ LinesOf(a) = LinesOf(s) \cup ToSet(f)
<1> DEFINE a == Append(s, f)
<1>1. /\ a \in Seq(Seq(Event)) /\ a # <<>> /\ DOMAIN a = 1 .. Len(s) + 1 /\ DOMAIN s = 1 .. Len(s)
      /\ Len(s) \in Nat /\ Len(a) = Len(s) + 1 /\ \A i \in 1 .. Len(s) : a[i] = s[i]
      /\ a[Len(s) + 1] = f
  <2>1. /\ a \in Seq(Seq(Event)) /\ DOMAIN a = 1 .. Len(s) + 1 /\ DOMAIN s = 1 .. Len(s)
        /\ Len(s) \in Nat /\ Len(a) = Len(s) + 1
    OBVIOUS
  <2>2. (\A i \in 1 .. Len(s) : a[i] = s[i]) /\ a[Len(s) + 1] = f
    OBVIOUS
  <2>3. a # <<>>
    <3> HIDE DEF a
    <3>1. Len(a) # 0
      BY <2>1
    <3> QED
      BY <3>1
  <2> QED
    BY <2>1, <2>2, <2>3
<1>2. Front(a) = s
  <2>1. Front(a) = SubSeq(a, 1, Len(s))
    BY <1>1 DEF Front
  <2>2. SubSeq(Append(s, f), 1, Len(s)) = s
    OBVIOUS
  <2> QED
    BY <2>1, <2>2
<1>3. Last(a) = f
  BY <1>1 DEF Last
<1> HIDE DEF a
<1>4. LinesOf(a) = LinesOf(s) \cup ToSet(f)
  <2>1. \A i \in 1 .. Len(s) + 1 : i \in 1 .. Len(s) \/ i = Len(s) + 1
    BY <1>1
  <2>2. 1 .. Len(s) \subseteq 1 .. Len(s) + 1 /\ Len(s) + 1 \in 1 .. Len(s) + 1
    BY <1>1
  <2> QED
    BY <1>1, <2>1, <2>2 DEF LinesOf
<1> QED
  BY <1>1, <1>2, <1>3, <1>4 DEF a

(* A file is put first. *)
LEMMA FirstFile ==
  ASSUME NEW s \in Seq(Seq(Event)), NEW f \in Seq(Event)
  PROVE  LET a == <<f>> \o s
         IN /\ a \in Seq(Seq(Event)) /\ a # <<>> /\ DOMAIN a = 1 .. Len(s) + 1 /\ DOMAIN s = 1 .. Len(s)
            /\ Len(s) \in Nat /\ \A i \in 1 .. Len(s) : a[i + 1] = s[i]
            /\ a[1] = f /\ Head(a) = f /\ LinesOf(a) = LinesOf(s) \cup ToSet(f)
<1> DEFINE a == <<f>> \o s
<1>1. /\ a \in Seq(Seq(Event)) /\ a # <<>> /\ DOMAIN a = 1 .. Len(s) + 1 /\ DOMAIN s = 1 .. Len(s)
      /\ Len(s) \in Nat /\ \A i \in 1 .. Len(s) : a[i + 1] = s[i]
      /\ a[1] = f /\ Head(a) = f
  OBVIOUS
<1> HIDE DEF a
<1>2. \A i \in 1 .. Len(s) + 1 : i = 1 \/ (i - 1 \in 1 .. Len(s) /\ a[i] = s[i - 1])
  <2> SUFFICES ASSUME NEW i \in 1 .. Len(s) + 1, i # 1 PROVE i - 1 \in 1 .. Len(s) /\ a[i] = s[i - 1]
    OBVIOUS
  <2>1. i - 1 \in 1 .. Len(s) /\ (i - 1) + 1 = i
    BY <1>1
  <2> QED
    BY <1>1, <2>1
<1>3. \A i \in 1 .. Len(s) : i + 1 \in 1 .. Len(s) + 1
  BY <1>1
<1>4. 1 \in 1 .. Len(s) + 1
  BY <1>1
<1>5. LinesOf(a) = LinesOf(s) \cup ToSet(f)
  <2>1. ASSUME NEW x \in LinesOf(a) PROVE x \in LinesOf(s) \cup ToSet(f)
    BY ZenonT(60), <1>1, <1>2 DEF LinesOf
  <2>2. ASSUME NEW x \in LinesOf(s) PROVE x \in LinesOf(a)
    BY <1>1, <1>3 DEF LinesOf
  <2>3. ASSUME NEW x \in ToSet(f) PROVE x \in LinesOf(a)
    BY <1>1, <1>4 DEF LinesOf
  <2> QED
    BY <2>1, <2>2, <2>3
<1> QED
  BY <1>1, <1>5 DEF a

(* The first or the last of the files is taken away. *)
LEMMA FileEnds ==
  ASSUME NEW s \in Seq(Seq(Event)), s # <<>>
  PROVE  /\ DOMAIN s = 1 .. Len(s) /\ Len(s) \in Nat \ {0} /\ Head(s) = s[1] /\ Last(s) = s[Len(s)]
         /\ s[1] \in Seq(Event) /\ s[Len(s)] \in Seq(Event)
         /\ DOMAIN Tail(s) = 1 .. Len(s) - 1 /\ \A i \in 1 .. Len(s) - 1 : Tail(s)[i] = s[i + 1]
         /\ DOMAIN Front(s) = 1 .. Len(s) - 1 /\ \A i \in 1 .. Len(s) - 1 : Front(s)[i] = s[i]
         /\ LinesOf(s) = LinesOf(Tail(s)) \cup ToSet(Head(s))
         /\ LinesOf(s) = LinesOf(Front(s)) \cup ToSet(Last(s))
<1>1. /\ DOMAIN s = 1 .. Len(s) /\ Len(s) \in Nat \ {0} /\ Head(s) = s[1]
      /\ s[1] \in Seq(Event) /\ s[Len(s)] \in Seq(Event)
      /\ DOMAIN Tail(s) = 1 .. Len(s) - 1 /\ \A i \in 1 .. Len(s) - 1 : Tail(s)[i] = s[i + 1]
  OBVIOUS
<1>2. Last(s) = s[Len(s)] /\ DOMAIN Front(s) = 1 .. Len(s) - 1 /\ \A i \in 1 .. Len(s) - 1 : Front(s)[i] = s[i]
  BY <1>1 DEF Last, Front
<1>3. LinesOf(s) = LinesOf(Tail(s)) \cup ToSet(Head(s))
  <2>1. \A i \in 1 .. Len(s) : i = 1 \/ (i - 1 \in 1 .. Len(s) - 1 /\ (i - 1) + 1 = i)
    BY <1>1
  <2>2. \A i \in 1 .. Len(s) : i = 1 \/ (i - 1 \in 1 .. Len(s) - 1 /\ Tail(s)[i - 1] = s[i])
    BY <1>1, <2>1
  <2>3. 1 \in 1 .. Len(s) /\ \A i \in 1 .. Len(s) - 1 : i + 1 \in 1 .. Len(s)
    BY <1>1
  <2>4. ASSUME NEW x \in LinesOf(s) PROVE x \in LinesOf(Tail(s)) \cup ToSet(Head(s))
    BY ZenonT(60), <1>1, <2>2 DEF LinesOf
  <2>5. ASSUME NEW x \in LinesOf(Tail(s)) PROVE x \in LinesOf(s)
    BY <1>1, <2>3 DEF LinesOf
  <2>6. ASSUME NEW x \in ToSet(Head(s)) PROVE x \in LinesOf(s)
    BY <1>1, <2>3 DEF LinesOf
  <2> QED
    BY <2>4, <2>5, <2>6
<1>4. LinesOf(s) = LinesOf(Front(s)) \cup ToSet(Last(s))
  <2>0. Len(s) \in Nat \ {0}
    BY <1>1
  <2>1. \A i \in 1 .. Len(s) : i = Len(s) \/ i \in 1 .. Len(s) - 1
    BY <2>0
  <2>2. Len(s) \in 1 .. Len(s) /\ \A i \in 1 .. Len(s) - 1 : i \in 1 .. Len(s)
    BY <2>0
  <2>3. ASSUME NEW x \in LinesOf(s) PROVE x \in LinesOf(Front(s)) \cup ToSet(Last(s))
    BY <1>1, <1>2, <2>1 DEF LinesOf
  <2>4. ASSUME NEW x \in LinesOf(Front(s)) PROVE x \in LinesOf(s)
    BY <1>1, <1>2, <2>2 DEF LinesOf
  <2>5. ASSUME NEW x \in ToSet(Last(s)) PROVE x \in LinesOf(s)
    BY <1>1, <1>2, <2>2 DEF LinesOf
  <2> QED
    BY <2>3, <2>4, <2>5
<1> QED
  BY <1>1, <1>2, <1>3, <1>4

(* A sequence of events is cut in two. *)
LEMMA Cut ==
  ASSUME NEW s \in Seq(Event), NEW n \in 0 .. Len(s)
  PROVE  LET a == SubSeq(s, 1, n)
             b == SubSeq(s, n + 1, Len(s))
         IN /\ DOMAIN a = 1 .. n /\ \A i \in 1 .. n : a[i] = s[i]
            /\ DOMAIN b = 1 .. Len(s) - n /\ \A i \in 1 .. Len(s) - n : b[i] = s[n + i]
            /\ ToSet(s) = ToSet(a) \cup ToSet(b) /\ DOMAIN s = 1 .. Len(s) /\ Len(s) \in Nat
<1> DEFINE a == SubSeq(s, 1, n)
           b == SubSeq(s, n + 1, Len(s))
<1>1. /\ DOMAIN a = 1 .. n /\ \A i \in 1 .. n : a[i] = s[i]
      /\ DOMAIN s = 1 .. Len(s) /\ Len(s) \in Nat
  OBVIOUS
<1>2. DOMAIN b = 1 .. Len(s) - n /\ \A i \in 1 .. Len(s) - n : b[i] = s[n + i]
  OBVIOUS
<1> HIDE DEF a, b
<1>3. \A i \in 1 .. Len(s) : i \in 1 .. n \/ (i - n \in 1 .. Len(s) - n /\ n + (i - n) = i)
  BY <1>1
<1>4. \A i \in 1 .. Len(s) : i \in 1 .. n \/ (i - n \in 1 .. Len(s) - n /\ b[i - n] = s[i])
  BY <1>2, <1>3
<1>5. (\A i \in 1 .. n : i \in 1 .. Len(s)) /\ \A i \in 1 .. Len(s) - n : n + i \in 1 .. Len(s)
  BY <1>1
<1>6. ASSUME NEW x \in ToSet(s) PROVE x \in ToSet(a) \cup ToSet(b)
  BY <1>1, <1>2, <1>4 DEF ToSet
<1>7. ASSUME NEW x \in ToSet(a) \cup ToSet(b) PROVE x \in ToSet(s)
  BY <1>1, <1>2, <1>5 DEF ToSet
<1> QED
  BY <1>1, <1>2, <1>6, <1>7 DEF a, b

(* An event is added to a sequence. *)
LEMMA OneMore ==
  ASSUME NEW s \in Seq(Event), NEW e \in Event
  PROVE  LET a == Append(s, e)
         IN /\ DOMAIN a = 1 .. Len(s) + 1 /\ DOMAIN s = 1 .. Len(s) /\ Len(s) \in Nat
            /\ \A i \in 1 .. Len(s) : a[i] = s[i] /\ s[i] \in ToSet(s)
            /\ a[Len(s) + 1] = e /\ ToSet(a) = ToSet(s) \cup {e}
<1> DEFINE a == Append(s, e)
<1>1. /\ DOMAIN a = 1 .. Len(s) + 1 /\ DOMAIN s = 1 .. Len(s) /\ Len(s) \in Nat
      /\ \A i \in 1 .. Len(s) : a[i] = s[i] 
      /\ a[Len(s) + 1] = e
  OBVIOUS
<1> HIDE DEF a
<1>2. \A i \in 1 .. Len(s) : s[i] \in ToSet(s)
  BY <1>1 DEF ToSet
<1>3. ToSet(a) = ToSet(s) \cup {e}
  <2>1. \A i \in 1 .. Len(s) + 1 : i \in 1 .. Len(s) \/ i = Len(s) + 1
    BY <1>1
  <2>2. 1 .. Len(s) \subseteq 1 .. Len(s) + 1 /\ Len(s) + 1 \in 1 .. Len(s) + 1
    BY <1>1
  <2> QED
    BY <1>1, <2>1, <2>2 DEF ToSet
<1> QED
  BY <1>1, <1>2, <1>3 DEF a

(* A file at either end adds its lines. *)
LEMMA AddFile ==
  ASSUME NEW s \in Seq(Seq(Event)), NEW f \in Seq(Event)
  PROVE  /\ Append(s, f) \in Seq(Seq(Event)) /\ LinesOf(Append(s, f)) \subseteq LinesOf(s) \cup ToSet(f)
         /\ <<f>> \o s \in Seq(Seq(Event)) /\ LinesOf(<<f>> \o s) \subseteq LinesOf(s) \cup ToSet(f)
  BY LastFile, FirstFile

(* What is taken from the first file, or when a file is removed from either end. *)
LEMMA TakeFile ==
  ASSUME NEW s \in Seq(Seq(Event)), s # <<>>
  PROVE  /\ Head(s) \in Seq(Event) /\ \A k \in 1 .. Len(Head(s)) : Head(s)[k] \in LinesOf(s) /\ Head(s)[k] \in Event
         /\ Tail(s) \in Seq(Seq(Event)) /\ LinesOf(Tail(s)) \subseteq LinesOf(s)
         /\ Front(s) \in Seq(Seq(Event)) /\ LinesOf(Front(s)) \subseteq LinesOf(s)
         /\ Last(s) \in Seq(Event) /\ ToSet(Last(s)) \subseteq LinesOf(s)
<1>1. /\ Head(s) = s[1] /\ Last(s) = s[Len(s)] /\ s[1] \in Seq(Event) /\ s[Len(s)] \in Seq(Event)
      /\ LinesOf(s) = LinesOf(Tail(s)) \cup ToSet(Head(s))
      /\ LinesOf(s) = LinesOf(Front(s)) \cup ToSet(Last(s))
  BY FileEnds
<1>2. Tail(s) \in Seq(Seq(Event))
  OBVIOUS
<1>3. Front(s) \in Seq(Seq(Event))
  BY DEF Front
<1>4. \A k \in 1 .. Len(Head(s)) : Head(s)[k] \in ToSet(Head(s)) /\ Head(s)[k] \in Event
  BY <1>1 DEF ToSet
<1> QED
  BY <1>1, <1>2, <1>3, <1>4

(* Parts of a sequence of events. *)
LEMMA Part ==
  ASSUME NEW s \in Seq(Event), NEW i \in 1 .. Len(s) + 1, NEW j \in 0 .. Len(s)
  PROVE  SubSeq(s, i, j) \in Seq(Event) /\ ToSet(SubSeq(s, i, j)) \subseteq ToSet(s)
<1>1. SubSeq(s, i, j) \in Seq(Event)
  OBVIOUS
<1>2. \A k \in DOMAIN SubSeq(s, i, j) : SubSeq(s, i, j)[k] = s[(i + k) - 1] /\ (i + k) - 1 \in DOMAIN s
  OBVIOUS
<1> QED
  BY <1>1, <1>2 DEF ToSet

(* An event at the end of a sequence, and the empty sequence. *)
LEMMA AddEvent ==
  ASSUME NEW s \in Seq(Event), NEW e \in Event
  PROVE  /\ Append(s, e) \in Seq(Event) /\ ToSet(Append(s, e)) \subseteq ToSet(s) \cup {e}
         /\ s \o <<e>> \in Seq(Event) /\ ToSet(s \o <<e>>) \subseteq ToSet(s) \cup {e}
         /\ s \o <<>> = s /\ ToSet(<<>>) = {}
<1>1. /\ Append(s, e) \in Seq(Event) /\ DOMAIN Append(s, e) = 1 .. Len(s) + 1 /\ DOMAIN s = 1 .. Len(s)
      /\ \A k \in 1 .. Len(s) : Append(s, e)[k] = s[k]
      /\ Append(s, e)[Len(s) + 1] = e
  OBVIOUS
<1>2. s \o <<e>> = Append(s, e) /\ s \o <<>> = s
  OBVIOUS
<1>3. \A k \in 1 .. Len(s) + 1 : k \in 1 .. Len(s) \/ k = Len(s) + 1
  OBVIOUS
<1>4. ToSet(Append(s, e)) \subseteq ToSet(s) \cup {e} /\ ToSet(<<>>) = {}
  BY <1>1, <1>3 DEF ToSet
<1> QED
  BY <1>1, <1>2, <1>4

(* The events of a finite set, in some order. *)
LEMMA InOrder ==
  ASSUME NEW S, S \subseteq Event, IsFiniteSet(S)
  PROVE  SetToSeq(S) \in Seq(Event) /\ ToSet(SetToSeq(S)) \subseteq S
<1> DEFINE n == Cardinality(S)
<1>1. n \in Nat /\ \E f : ExistsBijection(1 .. n, S)
  BY FS_CardinalityType DEF ExistsBijection
<1>2. \E f \in [1 .. n -> S] : IsInjective(f)
  BY FS_CardinalityType DEF ExistsBijection, Bijection, Injection, Surjection, IsInjective
<1>3. SetToSeq(S) \in [1 .. n -> S]
  BY <1>2 DEF SetToSeq
<1> HIDE DEF n
<1>4. SetToSeq(S) \in Seq(Event) /\ DOMAIN SetToSeq(S) = 1 .. n
  BY <1>1, <1>3
<1> QED
  BY <1>3, <1>4 DEF ToSet

-----------------------------------------------------------------------------
(* The end of a broadcast is looked for where events are kept. *)
LEMMA EndsAre == \A b \in Boots : Ends(b) = {e \in OnDisk \cup db : e.boot = b /\ e.kind = "end"}
  BY DEF Ends, OnDisk

(* The starts so far are among those that are bounded. *)
LEMMA SoFar == Shape => boot \in Nat /\ 1 .. boot \subseteq Boots /\ \A b \in Boots : b \in Nat
  BY SpoolAssumption DEF Shape, Boots

(* Events go from memory to files and no further; a gap event is added. *)
LEMMA MovesAInv ==
  ASSUME AInv, Shape', UNCHANGED <<boot, sent, over, db, rows>>,
         InMemory' \subseteq InMemory \cup {Gap(boot)}, OnDisk' \subseteq OnDisk \cup InMemory
  PROVE  AInv'
<1> USE DEF AInv
<1>1. Origin'
  <2>1. \A e \in InMemory' : e.boot = boot' /\ e.kind \in RunKinds \cup {"gap"}
    BY DEF Origin, Gap
  <2>2. \A e \in (OnDisk \cup db)' : e.kind # "torn" => e.boot \in 1 .. boot'
    BY SMTT(30) DEF Origin, Shape, Boots
  <2>3. \A e \in (InMemory \cup OnDisk \cup db)' : e.kind \in RunKinds => OfRun(e)'
    BY DEF Origin, OfRun, Gap, RunKinds
  <2>4. \A e \in OnDisk' : e.kind = "torn" => ~e.sound
    BY DEF Origin, RunKinds
  <2> QED
    BY <2>1, <2>2, <2>3, <2>4 DEF Origin
<1>2. Interruptions'
  <2> SUFFICES ASSUME NEW b \in Boots, Closing(b)' PROVE b < boot /\ Ends(b)' = {}
    BY DEF Interruptions
  <2>1. Closing(b)
    BY DEF Closing, Origin, RunKinds
  <2>2. b < boot /\ Ends(b) = {}
    BY <2>1 DEF Interruptions
  <2>3. \A e \in InMemory : e.boot # b
    BY SMTT(30), <2>2 DEF Origin, Shape, Boots
  <2>4. Ends(b)' = {e \in (OnDisk \cup db)' : e.boot = b /\ e.kind = "end"}
    BY DEF Ends, OnDisk
  <2> QED
    BY <2>2, <2>3, <2>4, EndsAre
<1>3. RowsFollow'
  BY DEF RowsFollow
<1> QED
  BY <1>1, <1>2, <1>3

(* A broadcast that is not over emits its next event. *)
LEMMA EmitsAInv ==
  ASSUME AInv, Shape', UNCHANGED <<boot, db, rows>>, boot \notin over,
         sent' = [sent EXCEPT ![boot] = @ + 1],
         NEW e \in Event, e.boot = boot, e.kind \in RunKinds, e.rev = sent[boot] + 1,
         over' = IF e.kind = "end" THEN over \cup {boot} ELSE over,
         InMemory' \subseteq InMemory \cup {e}, OnDisk' = OnDisk
  PROVE  AInv'
<1> USE DEF AInv
<1>1. /\ sent[boot] \in Nat /\ sent'[boot] = sent[boot] + 1
      /\ \A b \in Boots : b # boot => sent'[b] = sent[b] /\ (b \in over' <=> b \in over)
  BY DEF Shape
<1>2. OfRun(e)'
  BY <1>1 DEF OfRun
<1>3. ASSUME NEW d \in InMemory \cup OnDisk \cup db, d.kind \in RunKinds PROVE OfRun(d)'
  <2>1. OfRun(d) /\ d.boot \in 1 .. boot
    BY SMTT(30), <1>3 DEF Origin, Shape, Boots, RunKinds
  <2>4. d.boot \in Boots /\ sent[d.boot] \in Nat
    BY <2>1, SoFar DEF Shape
  <2>2. CASE d.boot = boot
    BY <1>1, <2>1, <2>2, <2>4 DEF OfRun
  <2>3. CASE d.boot # boot
    BY <1>1, <2>1, <2>3, <2>4 DEF OfRun
  <2> QED
    BY <2>2, <2>3
<1>4. Origin'
  BY <1>2, <1>3 DEF Origin
<1>5. Interruptions'
  <2>1. \A b \in Boots : Ends(b)' = Ends(b)
    BY DEF Ends, OnDisk
  <2>2. \A b \in Boots : Closing(b)' => Closing(b)
    BY DEF Closing
  <2> QED
    BY <2>1, <2>2 DEF Interruptions
<1>6. RowsFollow'
  <2>1. \A d \in db : d.kind = "end" => d.boot \in over /\ d.boot \in Boots
    BY DEF Origin, OfRun, RunKinds, Shape
  <2>2. \A d \in db : d.kind = "end" => sent'[d.boot] = sent[d.boot]
    BY <1>1, <2>1
  <2> QED
    BY <2>2 DEF RowsFollow
<1> QED
  BY <1>4, <1>5, <1>6

(* The process ends: of what it had in memory at most a file is left. *)
LEMMA RestartsAInv ==
  ASSUME AInv, Shape', UNCHANGED <<sent, over, db, rows>>, boot' = boot + 1,
         InMemory' = {}, OnDisk' \subseteq OnDisk \cup InMemory \cup {Torn}
  PROVE  AInv'
<1> USE DEF AInv
<1>1. boot \in Nat /\ 1 .. boot \subseteq 1 .. boot' /\ boot \in 1 .. boot'
  BY DEF Shape, Boots
<1>2. Origin'
  <2>1. \A e \in (OnDisk \cup db)' : e.kind # "torn" => e.boot \in 1 .. boot'
    BY <1>1 DEF Origin, Torn
  <2>2. \A e \in (InMemory \cup OnDisk \cup db)' : e.kind \in RunKinds => OfRun(e)'
    BY DEF Origin, OfRun, Torn, RunKinds
  <2>3. \A e \in OnDisk' : e.kind = "torn" => ~e.sound
    <3>1. \A e \in OnDisk \cup InMemory : e.kind = "torn" => ~e.sound
      BY DEF Origin, RunKinds
    <3>2. ~Torn.sound
      BY DEF Torn
    <3> QED
      BY <3>1, <3>2
  <2> QED
    BY <2>1, <2>2, <2>3 DEF Origin
<1>3. Interruptions'
  <2> SUFFICES ASSUME NEW b \in Boots, Closing(b)' PROVE b < boot' /\ Ends(b)' = {}
    BY DEF Interruptions
  <2>1. Closing(b)
    BY DEF Closing, Origin, RunKinds, Torn
  <2>2. b < boot /\ Ends(b) = {}
    BY <2>1 DEF Interruptions
  <2>3. \A e \in InMemory : e.boot # b
    BY SMTT(30), <2>2 DEF Origin, Shape, Boots
  <2>4. Ends(b)' = {e \in (OnDisk \cup db)' : e.boot = b /\ e.kind = "end"}
    BY DEF Ends, OnDisk
  <2>5. Ends(b)' = {}
    BY <2>2, <2>3, <2>4, EndsAre DEF Torn
  <2> QED
    BY <1>1, <2>2, <2>5 DEF Boots
<1>4. RowsFollow'
  BY <1>1 DEF RowsFollow, Boots
<1> QED
  BY <1>2, <1>3, <1>4

(* Recover finds open broadcasts of other processes when no file is left. *)
LEMMA RecoversAInv ==
  ASSUME AInv, Shape', UNCHANGED <<boot, sent, over, db, rows>>, OnDisk = {}, InMemory' = InMemory,
         OnDisk' \subseteq {Interruption(b) : b \in Interrupted}
  PROVE  AInv'
<1> USE DEF AInv
<1>1. \A e \in OnDisk' : e.kind = "interrupted" /\ e.boot \in Interrupted
  BY DEF Interruption
<1>2. \A b \in Interrupted : b \in Boots /\ b < boot /\ b \in 1 .. boot /\ rows[b].status = "live"
  BY DEF Interrupted, RowsFollow, Shape, Boots
<1>3. Origin'
  <2>1. \A e \in (OnDisk \cup db)' : e.kind # "torn" => e.boot \in 1 .. boot'
    BY <1>1, <1>2 DEF Origin
  <2>2. \A e \in (InMemory \cup OnDisk \cup db)' : e.kind \in RunKinds => OfRun(e)'
    BY <1>1 DEF Origin, OfRun, RunKinds
  <2>3. \A e \in OnDisk' : e.kind # "torn"
    BY <1>1
  <2> QED
    BY <2>1, <2>2, <2>3 DEF Origin
<1>4. Interruptions'
  <2> SUFFICES ASSUME NEW b \in Boots, Closing(b)' PROVE b < boot /\ Ends(b)' = {}
    BY DEF Interruptions
  <2>1. Ends(b)' = {e \in (OnDisk \cup db)' : e.boot = b /\ e.kind = "end"}
    BY DEF Ends, OnDisk
  <2>2. Ends(b)' = Ends(b)
    BY <1>1, <2>1, EndsAre
  <2>3. CASE Closing(b)
    BY <2>2, <2>3 DEF Interruptions
  <2>4. CASE b \in Interrupted
    BY <1>2, <2>2, <2>4, EndsAre DEF RowsFollow
  <2> QED
    BY <1>1, <2>3, <2>4 DEF Closing
<1>5. RowsFollow'
  BY DEF RowsFollow
<1> QED
  BY <1>3, <1>4, <1>5

(* MySQL.Write of an event from a file: the end is the last revision, so it    *)
(* replaces the row, and nothing replaces it.                                  *)
LEMMA WriteAInv ==
  ASSUME AInv, Shape', NEW e \in Event, e \in OnDisk, Write(e),
         UNCHANGED <<boot, sent, over>>, InMemory' = InMemory, OnDisk' = OnDisk
  PROVE  AInv'
<1> USE DEF AInv
<1>1. CASE ~e.sound
  <2>1. UNCHANGED <<db, rows>>
    BY <1>1 DEF Write, database
  <2> QED
    BY <2>1, MovesAInv
<1>2. e.kind # "torn" => e.boot \in Boots /\ e.boot <= boot
  BY SoFar DEF Origin
<1>6. e.sound => e.kind # "torn"
  BY DEF Origin
<1>3. CASE e.sound /\ e.kind = "gap"
  <2>1. /\ db' = db
        /\ rows' = [rows EXCEPT ![e.boot].incomplete = @ \/ rows[e.boot].status # "absent"]
    BY <1>3 DEF Write
  <2>2. \A b \in Boots : rows'[b].status = rows[b].status /\ rows'[b].rev = rows[b].rev
    <3>1. \A b \in Boots :
            rows'[b] = IF b = e.boot
                       THEN [rows[b] EXCEPT !.incomplete = rows[b].incomplete \/ rows[b].status # "absent"]
                       ELSE rows[b]
      BY <1>2, <1>3, <2>1 DEF Shape
    <3>2. \A r \in Row : \A x \in BOOLEAN :
            [r EXCEPT !.incomplete = x].status = r.status /\ [r EXCEPT !.incomplete = x].rev = r.rev
      BY DEF Row
    <3>3. \A b \in Boots : rows[b] \in Row /\ (rows[b].incomplete \/ rows[b].status # "absent") \in BOOLEAN
      BY DEF Shape
    <3> QED
      BY <3>1, <3>2, <3>3
  <2>3. Origin'
    BY <2>1 DEF Origin, OfRun
  <2>4. Interruptions'
    <3>1. \A b \in Boots : Closing(b)' => Closing(b)
      BY <2>1, <2>2 DEF Closing
    <3>2. \A b \in Boots : Ends(b)' = {d \in (OnDisk \cup db)' : d.boot = b /\ d.kind = "end"}
      BY DEF Ends, OnDisk
    <3>3. \A b \in Boots : Ends(b)' = Ends(b)
      BY <2>1, <3>2, EndsAre
    <3> QED
      BY <3>1, <3>3 DEF Interruptions
  <2>5. RowsFollow'
    <3>1. \A d \in db : d.kind = "end" => d.boot \in Boots
      BY SoFar DEF Origin
    <3> QED
      BY <2>1, <2>2, <3>1 DEF RowsFollow
  <2> QED
    BY <2>3, <2>4, <2>5
<1>4. CASE e.sound /\ e.kind \in RunKinds \cup {"interrupted"} /\ e \in db
  <2>1. rows' = rows /\ db' = db
    BY <1>4 DEF Write, RunKinds
  <2> QED
    BY <2>1, MovesAInv
<1>5. CASE e.sound /\ e.kind \in RunKinds \cup {"interrupted"} /\ e \notin db
  <2> DEFINE b == e.boot
  <2>1. db' = db \cup {e} /\ rows' = [rows EXCEPT ![b] = upsert(@, e)]
    BY <1>5 DEF Write, RunKinds
  <2>2. b \in Boots /\ b <= boot
    BY <1>2, <1>5 DEF RunKinds
  <2>3. /\ rows'[b].status = (IF rows[b].rev < e.rev THEN StatusOf(e) ELSE rows[b].status)
        /\ rows'[b].rev = (IF rows[b].rev < e.rev THEN e.rev ELSE rows[b].rev)
        /\ \A c \in Boots : c # b => rows'[c] = rows[c]
    BY <2>1, <2>2 DEF upsert, Shape
  <2>4. e.rev \in Nat /\ rows[b].rev \in Nat /\ sent[b] \in Nat
    BY <2>2 DEF Shape, Row, Event
  <2>5. Origin'
    BY <2>1 DEF Origin, OfRun
  <2>6. \A c \in Boots : Ends(c)' = Ends(c)
    <3>1. \A c \in Boots : Ends(c)' = {d \in (OnDisk \cup db)' : d.boot = c /\ d.kind = "end"}
      BY DEF Ends, OnDisk
    <3> QED
      BY <2>1, <3>1, EndsAre
  <2>7. Interruptions'
    <3> SUFFICES ASSUME NEW c \in Boots, Closing(c)' PROVE Closing(c)
      BY <2>6 DEF Interruptions
    <3>1. CASE \E d \in OnDisk \cup db \cup {e} : d.kind = "interrupted" /\ d.boot = c
      BY <3>1 DEF Closing
    <3>2. CASE rows'[c].status = "interrupted"
      <4>1. CASE c = b /\ rows[b].rev < e.rev
        <5>1. StatusOf(e) = "interrupted"
          BY <2>3, <3>2, <4>1
        <5>2. e.kind = "interrupted"
          BY <5>1 DEF StatusOf
        <5> QED
          BY <4>1, <5>2 DEF Closing
      <4>2. CASE ~(c = b /\ rows[b].rev < e.rev)
        BY <2>3, <3>2, <4>2 DEF Closing
      <4> QED
        BY <4>1, <4>2
    <3> QED
      BY <2>1, <3>1, <3>2 DEF Closing
  <2>8. \A c \in Boots : c > boot' => rows'[c].status = "absent"
    <3> SUFFICES ASSUME NEW c \in Boots, c > boot PROVE rows'[c].status = "absent"
      OBVIOUS
    <3>1. c # b
      BY <2>2, SoFar
    <3> QED
      BY <2>3, <3>1 DEF RowsFollow
  <2>9. ASSUME NEW c \in Boots, rows'[c].rev # 0
        PROVE  \E d \in db' : d.boot = c /\ d.rev = rows'[c].rev /\ d.kind \in RunKinds \cup {"interrupted"}
    <3>1. CASE c = b /\ rows[b].rev < e.rev
      BY <1>5, <2>1, <2>3, <3>1
    <3>2. CASE ~(c = b /\ rows[b].rev < e.rev)
      BY <2>1, <2>3, <2>9, <3>2 DEF RowsFollow
    <3> QED
      BY <3>1, <3>2
  <2>10. ASSUME NEW d \in db', d.kind = "end"
         PROVE  rows'[d.boot].status = "ended" /\ rows'[d.boot].rev = sent'[d.boot]
    <3>1. CASE d = e
      <4>1. b \in over /\ e.rev = sent[b] /\ e.rev # 0
        BY <2>10, <3>1 DEF Origin, OfRun, RunKinds
      <4>2. ~Closing(b)
        BY <2>2, <2>10, <3>1, EndsAre DEF Interruptions
      <4>3. CASE rows[b].rev < e.rev
        BY <2>3, <2>10, <3>1, <4>1, <4>3 DEF StatusOf
      <4>4. CASE ~(rows[b].rev < e.rev)
        <5>1. PICK f \in db : f.boot = b /\ f.rev = rows[b].rev /\ f.kind \in RunKinds \cup {"interrupted"}
          BY <2>2, <2>4, <4>1, <4>4 DEF RowsFollow
        <5>2. f.kind \in RunKinds
          BY <4>2, <5>1 DEF Closing
        <5>3. OfRun(f)
          BY <5>2 DEF Origin
        <5>4. f.kind = "end"
          BY <2>4, <4>1, <4>4, <5>1, <5>3 DEF OfRun
        <5>5. rows[b].status = "ended" /\ rows[b].rev = sent[b]
          BY <5>1, <5>4 DEF RowsFollow
        <5> QED
          BY <2>3, <3>1, <4>4, <5>5
      <4> QED
        BY <4>3, <4>4
    <3>2. CASE d # e
      <4>1. d \in db /\ OfRun(d) /\ d.boot \in Boots
        BY <2>1, <2>10, <3>2, SoFar DEF Origin, RunKinds
      <4>2. rows[d.boot].status = "ended" /\ rows[d.boot].rev = sent[d.boot]
        BY <2>10, <4>1 DEF RowsFollow
      <4>3. CASE d.boot = b
        <5>1. ~Closing(b)
          BY <2>2, <2>10, <4>1, <4>3, EndsAre DEF Interruptions
        <5>2. e.kind \in RunKinds
          BY <1>5, <5>1 DEF Closing
        <5>3. e.rev <= sent[b]
          BY <2>4, <5>2 DEF Origin, OfRun
        <5> QED
          BY <2>3, <2>4, <4>2, <4>3, <5>3
      <4>4. CASE d.boot # b
        BY <2>3, <4>1, <4>2, <4>4
      <4> QED
        BY <4>3, <4>4
    <3> QED
      BY <3>1, <3>2
  <2>11. RowsFollow'
    BY <2>8, <2>9, <2>10 DEF RowsFollow
  <2> QED
    BY <2>5, <2>7, <2>11
<1> QED
  BY <1>1, <1>3, <1>4, <1>5, <1>6 DEF Event

-----------------------------------------------------------------------------
(* Emit, whether the event is queued or dropped. *)
LEMMA EmitAInv == ASSUME AInv, Emit PROVE AInv'
<1>1. PICK kind \in RunKinds, sound \in BOOLEAN :
        /\ enqueueLocked([boot |-> boot, kind |-> kind, rev |-> sent'[boot], incomplete |-> FALSE,
                          sound |-> sound])
        /\ over' = IF kind = "end" THEN over \cup {boot} ELSE over
  BY DEF Emit, RunKinds
<1> DEFINE e == [boot |-> boot, kind |-> kind, rev |-> sent'[boot], incomplete |-> dropped, sound |-> sound]
<1>2. /\ boot \in Boots /\ boot \in Nat /\ sent[boot] \in Nat /\ sent' = [sent EXCEPT ![boot] = @ + 1]
      /\ sent'[boot] = sent[boot] + 1 /\ sent' \in [Boots -> Nat] /\ boot \notin over
      /\ UNCHANGED <<boot, batch, locked, offset, pc, tmp, spool, db, rows>>
  BY SoFar DEF AInv, Shape, Emit, files, database
<1>3. e \in Event
  BY <1>2 DEF Event, AInv, Shape
<1>4. queue' = Append(queue, e) \/ queue' = queue
  BY <1>1 DEF enqueueLocked
<1>5. queue' \in Seq(Event) /\ ToSet(queue') \subseteq ToSet(queue) \cup {e} /\ dropped' \in BOOLEAN
  <2>1. dropped' \in BOOLEAN /\ queue \in Seq(Event)
    BY <1>1 DEF AInv, Shape, enqueueLocked
  <2> HIDE DEF e
  <2>2. Append(queue, e) \in Seq(Event) /\ ToSet(Append(queue, e)) \subseteq ToSet(queue) \cup {e}
    BY <1>3, <2>1, AddEvent
  <2> QED
    BY <1>4, <2>1, <2>2
<1>6. InMemory' \subseteq InMemory \cup {e} /\ OnDisk' = OnDisk
  BY <1>2, <1>5 DEF InMemory, OnDisk, Lines
<1>7. Shape'
  BY <1>1, <1>2, <1>5 DEF AInv, Shape
<1>8. e.boot = boot /\ e.kind = kind /\ e.rev = sent[boot] + 1
  BY <1>2
<1> HIDE DEF e
<1> QED
  BY <1>1, <1>2, <1>3, <1>6, <1>7, <1>8, EmitsAInv

(* Close, and the steps of loop up to the batch. *)
LEMMA QueueAInv ==
  ASSUME AInv, Close \/ aggregates \/ acquire \/ AcquireFails \/ Drain
  PROVE  AInv'
<1> USE DEF AInv
<1>1. UNCHANGED <<boot, sent, over, db, rows>>
  BY DEF Close, aggregates, acquire, AcquireFails, Drain, database
<1>2. CASE Close
  <2>1. UNCHANGED <<queue, batch, dropped, locked, offset, pc, tmp, spool>>
    BY <1>2 DEF Close, files
  <2>2. Shape' /\ InMemory' = InMemory /\ OnDisk' = OnDisk
    BY <1>1, <2>1 DEF Shape, InMemory, OnDisk, Lines
  <2> QED
    BY <1>1, <2>2, MovesAInv
<1>3. CASE aggregates
  <2>1. /\ UNCHANGED <<batch, dropped, locked, offset, tmp, spool>>
        /\ queue' = queue \/ queue' = Append(queue, Gap(boot))
        /\ pc' = IF locked THEN "drain" ELSE "acquire"
        /\ pc = "tick"
    BY <1>3 DEF aggregates, files
  <2>2. Gap(boot) \in Event
    BY SoFar DEF Gap, Event
  <2>3. queue' \in Seq(Event) /\ ToSet(queue') \subseteq ToSet(queue) \cup {Gap(boot)}
    <3> DEFINE g == Gap(boot)
    <3>1. g \in Event /\ queue \in Seq(Event)
      BY <2>2 DEF Shape
    <3>2. queue' = queue \/ queue' = Append(queue, g)
      BY <2>1
    <3> HIDE DEF g
    <3>3. Append(queue, g) \in Seq(Event) /\ ToSet(Append(queue, g)) \subseteq ToSet(queue) \cup {g}
      BY <3>1, AddEvent
    <3>4. queue' \in Seq(Event) /\ ToSet(queue') \subseteq ToSet(queue) \cup {g}
      BY <3>1, <3>2, <3>3
    <3> QED
      BY <3>4 DEF g
  <2>4. InMemory' \subseteq InMemory \cup {Gap(boot)} /\ OnDisk' = OnDisk
    BY <2>1, <2>3 DEF InMemory, OnDisk, Lines
  <2>5. Shape'
    BY <1>1, <2>1, <2>3 DEF Shape
  <2> QED
    BY <1>1, <2>4, <2>5, MovesAInv
<1>4. CASE acquire
  <2>1. /\ UNCHANGED <<queue, batch, dropped, offset>> /\ locked' = TRUE /\ tmp' = NoFile /\ pc' = "drain"
        /\ spool' = IF tmp = NoFile THEN spool ELSE <<tmp>> \o spool
    BY <1>4 DEF acquire
  <2>2. spool' \in Seq(Seq(Event)) /\ LinesOf(spool') \subseteq OnDisk
    <3>1. CASE tmp = NoFile
      BY <2>1, <3>1 DEF Shape, OnDisk, Lines, LinesOf
    <3>2. CASE tmp # NoFile
      <4>1. tmp \in Seq(Event) /\ spool' = <<tmp>> \o spool
        BY <2>1, <3>2 DEF Shape
      <4> QED
        BY <3>2, <4>1, AddFile DEF Shape, OnDisk, Lines, LinesOf
    <3> QED
      BY <3>1, <3>2
  <2>3. InMemory' = InMemory /\ OnDisk' \subseteq OnDisk
    BY <2>1, <2>2 DEF InMemory, OnDisk, Lines, LinesOf
  <2>4. Shape'
    BY <1>1, <2>1, <2>2 DEF Shape
  <2> QED
    BY <1>1, <2>3, <2>4, MovesAInv
<1>5. CASE AcquireFails
  <2>1. /\ UNCHANGED <<batch, locked, offset, tmp, spool>> /\ queue' = <<>> /\ pc' \in {"exit", "tick"}
        /\ dropped' \in BOOLEAN /\ pc = "acquire"
    BY <1>5 DEF AcquireFails, Dropping
  <2>2. ToSet(queue') = {} /\ queue' \in Seq(Event)
    BY <2>1 DEF ToSet
  <2>3. InMemory' \subseteq InMemory /\ OnDisk' = OnDisk
    BY <2>1, <2>2 DEF InMemory, OnDisk, Lines
  <2>4. Shape'
    BY <1>1, <2>1, <2>2 DEF Shape
  <2> QED
    BY <1>1, <2>3, <2>4, MovesAInv
<1>6. CASE Drain
  <2> DEFINE n == IF Len(queue) < BatchSize THEN Len(queue) ELSE BatchSize
  <2>1. /\ UNCHANGED <<dropped, locked, offset, tmp, spool>> /\ pc = "drain"
        /\ batch' = SubSeq(queue, 1, n) /\ queue' = SubSeq(queue, n + 1, Len(queue))
        /\ pc' = "write" \/ pc' = Spooled(<<>>)
    BY <1>6 DEF Drain, files
  <2>2. n \in 0 .. Len(queue) /\ Len(queue) \in Nat
    BY SpoolAssumption DEF Shape
  <2>3. pc' \in {"write", "deliver", "tick", "exit"}
    BY <2>1 DEF Spooled
  <2>4. batch' \in Seq(Event) /\ ToSet(batch') \subseteq ToSet(queue)
    <3>1. 1 \in 1 .. Len(queue) + 1
      BY <2>2
    <3> QED
      BY <2>1, <2>2, <3>1, Part DEF Shape
  <2>5. queue' \in Seq(Event) /\ ToSet(queue') \subseteq ToSet(queue)
    <3>1. n + 1 \in 1 .. Len(queue) + 1 /\ Len(queue) \in 0 .. Len(queue)
      BY <2>2
    <3> QED
      BY <2>1, <3>1, Part DEF Shape
  <2>6. InMemory' \subseteq InMemory /\ OnDisk' = OnDisk
    BY <2>1, <2>4, <2>5 DEF InMemory, OnDisk, Lines
  <2>7. Shape'
    BY <1>1, <2>1, <2>3, <2>4, <2>5 DEF Shape
  <2> QED
    BY <1>1, <2>6, <2>7, MovesAInv
<1> QED
  BY <1>2, <1>3, <1>4, <1>5, <1>6

(* appendBatch, however far it comes. *)
LEMMA AppendAInv ==
  ASSUME AInv, WriteBatch \/ RenameBatch \/ Appended \/ AppendFails
  PROVE  AInv'
<1> USE DEF AInv
<1>1. UNCHANGED <<boot, sent, over, queue, db, rows, locked, offset>>
  BY DEF WriteBatch, RenameBatch, Appended, AppendFails, memory, database
<1>2. CASE WriteBatch
  <2>1. UNCHANGED <<batch, dropped, spool>> /\ tmp' = batch /\ pc = "write" /\ pc' = "rename"
    BY <1>2 DEF WriteBatch, memory
  <2>2. Shape' /\ InMemory' = InMemory /\ OnDisk' \subseteq OnDisk \cup InMemory
    BY <1>1, <2>1 DEF Shape, InMemory, OnDisk, Lines
  <2> QED
    BY <1>1, <2>2, MovesAInv
<1>3. CASE RenameBatch
  <2>1. UNCHANGED <<batch, dropped>> /\ spool' = Append(spool, batch) /\ tmp' = NoFile /\ pc = "rename" /\ pc' = "sync"
    BY <1>3 DEF RenameBatch, memory, Shape
  <2>2. /\ spool' \in Seq(Seq(Event)) /\ spool' # <<>>
        /\ LinesOf(spool') \subseteq LinesOf(spool) \cup ToSet(batch)
    <3>1. spool \in Seq(Seq(Event)) /\ batch \in Seq(Event)
      BY DEF Shape
    <3>2. Append(spool, batch) # <<>>
      BY <3>1
    <3> QED
      BY <2>1, <3>1, <3>2, AddFile
  <2>3. Shape' /\ InMemory' = InMemory
    BY <1>1, <2>1, <2>2 DEF Shape, InMemory
  <2>4. OnDisk' \subseteq OnDisk \cup InMemory
    BY <2>1, <2>2 DEF OnDisk, InMemory, Lines, LinesOf
  <2> QED
    BY <1>1, <2>3, <2>4, MovesAInv
<1>4. CASE Appended \/ AppendFails
  <2>1. /\ spool' = spool /\ batch' = <<>> /\ pc' = Spooled(queue) /\ dropped' \in BOOLEAN
        /\ pc \in {"write", "rename", "sync"} /\ (tmp' = NoFile \/ (pc = "sync" /\ tmp' = tmp))
    BY <1>4 DEF Appended, AppendFails, Dropping, files, Shape
  <2>2. pc' \in {"deliver", "tick", "exit"}
    BY <2>1 DEF Spooled
  <2>3. ToSet(batch') = {} /\ batch' \in Seq(Event) /\ tmp' = NoFile
    BY <2>1 DEF ToSet, Shape
  <2>4. Shape' /\ InMemory' \subseteq InMemory
    BY <1>1, <2>1, <2>2, <2>3 DEF Shape, InMemory
  <2>5. OnDisk' \subseteq OnDisk
    BY <2>1, <2>3 DEF OnDisk, Lines
  <2> QED
    BY <1>1, <2>4, <2>5, MovesAInv
<1> QED
  BY <1>2, <1>3, <1>4

(* deliver, whether the answer of the database comes or not. *)
LEMMA DeliverAInv ==
  ASSUME AInv, DeliverLine \/ DeliverFails \/ Delivered
  PROVE  AInv'
<1> USE DEF AInv
<1>1. UNCHANGED <<boot, sent, over, queue, batch, locked, tmp>> /\ pc = "deliver" /\ pc' \in {"deliver", "tick"}
  BY DEF DeliverLine, DeliverFails, Delivered, memory, files
<1>2. InMemory' = InMemory
  BY <1>1 DEF InMemory
<1>3. ASSUME NEW k, k = offset + 1, spool # <<>>, offset < Len(Head(spool)), Write(Head(spool)[k]),
             UNCHANGED <<spool, dropped>>, offset' \in Nat
      PROVE  AInv'
  <2>1. Head(spool)[k] \in LinesOf(spool) /\ Head(spool)[k] \in Event
    <3>1. Head(spool) \in Seq(Event)
      BY <1>3, TakeFile DEF Shape
    <3>2. k \in 1 .. Len(Head(spool))
      BY <1>3, <3>1 DEF Shape
    <3> QED
      BY <1>3, <3>2, TakeFile DEF Shape
  <2> DEFINE e == Head(spool)[k]
  <2>2. e \in OnDisk /\ OnDisk' = OnDisk
    BY <1>1, <1>3, <2>1 DEF OnDisk, Lines, LinesOf
  <2>3. db' \subseteq Event /\ rows' \in [Boots -> Row]
    <3>1. e.kind # "torn" => e.boot \in Boots
      BY <2>2, SoFar DEF Origin
    <3>2. e \in Event /\ Write(e)
      BY <1>3, <2>1
    <3>6. e.sound => e.kind # "torn"
      BY <2>2 DEF Origin
    <3> HIDE DEF e
    <3>3. CASE ~e.sound
      BY <3>2, <3>3 DEF Write, database, Shape
    <3>4. CASE e.sound /\ e.kind = "gap"
      <4>1. /\ db' = db /\ rows' = [rows EXCEPT ![e.boot].incomplete = @ \/ rows[e.boot].status # "absent"]
        BY <3>2, <3>4 DEF Write
      <4>2. e.boot \in Boots /\ rows[e.boot] \in Row
        BY <3>1, <3>4 DEF Shape
      <4>3. \A x \in BOOLEAN : [rows[e.boot] EXCEPT !.incomplete = x] \in Row
        BY <4>2 DEF Row
      <4>4. (rows[e.boot].incomplete \/ rows[e.boot].status # "absent") \in BOOLEAN
        OBVIOUS
      <4> QED
        BY <4>1, <4>2, <4>3, <4>4 DEF Shape
    <3>5. CASE e.sound /\ e.kind \notin {"torn", "gap"}
      <4>1. db' = db \cup {e} /\ (rows' = rows \/ rows' = [rows EXCEPT ![e.boot] = upsert(rows[e.boot], e)])
        BY <3>2, <3>5 DEF Write
      <4>2. e.boot \in Boots /\ rows[e.boot] \in Row
        BY <3>1, <3>5 DEF Shape
      <4>3. upsert(rows[e.boot], e) \in Row
        <5>1. StatusOf(e) \in {"live", "ended", "interrupted"}
          BY DEF StatusOf
        <5>2. /\ rows[e.boot].status \in {"absent", "live", "ended", "interrupted"} /\ rows[e.boot].rev \in Nat
              /\ e.rev \in Nat
          BY <3>2, <4>2 DEF Row, Event
        <5>3. (\/ rows[e.boot].incomplete \/ e.incomplete
               \/ e.kind # "create" /\ rows[e.boot].status = "absent") \in BOOLEAN
          OBVIOUS
        <5> QED
          BY <5>1, <5>2, <5>3 DEF upsert, Row
      <4> QED
        BY <3>2, <4>1, <4>2, <4>3 DEF Shape
    <3> QED
      BY <3>3, <3>4, <3>5, <3>6
  <2>4. Shape'
    BY <1>1, <1>3, <2>3 DEF Shape
  <2> QED
    BY <1>1, <1>2, <1>3, <2>1, <2>2, <2>4, WriteAInv
<1>4. CASE DeliverLine
  BY <1>3, <1>4 DEF DeliverLine, files, Shape
<1>5. CASE DeliverFails
  <2>1. UNCHANGED <<spool, dropped, offset>>
    BY <1>5 DEF DeliverFails, memory, files
  <2>2. CASE UNCHANGED database
    <3>1. UNCHANGED <<db, rows>>
      BY <2>2 DEF database
    <3>2. Shape' /\ OnDisk' = OnDisk
      BY <1>1, <2>1, <3>1 DEF Shape, OnDisk, Lines
    <3> QED
      BY <1>1, <1>2, <3>1, <3>2, MovesAInv
  <2>3. CASE spool # <<>> /\ offset < Len(Head(spool)) /\ Write(Head(spool)[offset + 1])
    BY <1>3, <2>1, <2>3 DEF Shape
  <2> QED
    BY <1>5, <2>2, <2>3 DEF DeliverFails
<1>6. CASE Delivered
  <2>1. /\ UNCHANGED <<db, rows>> /\ spool # <<>> /\ spool' = Tail(spool) /\ offset' = 0
        /\ dropped' \in BOOLEAN /\ pc' = "deliver"
    BY <1>6 DEF Delivered, database
  <2>2. spool' \in Seq(Seq(Event)) /\ LinesOf(spool') \subseteq LinesOf(spool)
    BY <2>1, TakeFile DEF Shape
  <2>3. OnDisk' \subseteq OnDisk
    BY <1>1, <2>2 DEF OnDisk, Lines, LinesOf
  <2>4. Shape'
    BY <1>1, <2>1, <2>2 DEF Shape
  <2> QED
    BY <1>1, <1>2, <2>1, <2>3, <2>4, MovesAInv
<1> QED
  BY <1>4, <1>5, <1>6

(* What Recover appends: an event for each broadcast that is to be interrupted. *)
LEMMA RecoverIs ==
  ASSUME AInv, Recover
  PROVE  /\ UNCHANGED <<boot, sent, over, bad, queue, batch, dropped, gap, locked, offset, tmp, db, rows, gapLost>>
         /\ pc = "deliver" /\ pc' = "tick" /\ spool = <<>> /\ OnDisk = {}
         /\ spool' \in Seq(Seq(Event)) /\ OnDisk' = Lines' /\ Lines' \subseteq {Interruption(b) : b \in Interrupted}
<1> USE DEF AInv
<1> DEFINE S == {Interruption(b) : b \in Interrupted}
           events == SetToSeq(S)
<1>1. /\ UNCHANGED <<boot, sent, over, bad, queue, batch, dropped, gap, locked, offset, tmp, db, rows, gapLost>>
      /\ pc = "deliver" /\ pc' = "tick" /\ spool = <<>>
      /\ spool' = spool \/ spool' = Append(spool, events)
  BY DEF Recover, database
<1>2. OnDisk = {} /\ tmp' = NoFile
  BY <1>1 DEF Shape, OnDisk, Lines
<1>3. S \subseteq Event /\ IsFiniteSet(S)
  <2>1. IsFiniteSet(Boots)
    BY SpoolAssumption, FS_Interval DEF Boots
  <2>2. IsFiniteSet(Interrupted)
    BY <2>1, FS_Subset DEF Interrupted
  <2>3. IsFiniteSet(S)
    <3> DEFINE f == [b \in Interrupted |-> Interruption(b)]
    <3>1. f \in Surjection(Interrupted, S)
      BY DEF Surjection
    <3> QED
      BY <2>2, <3>1, FS_Surjection
  <2>4. ASSUME NEW b \in Interrupted PROVE Interruption(b) \in Event
    <3>1. b \in Nat /\ rows[b].rev \in Nat
      BY SoFar DEF Interrupted, Shape, Row
    <3> QED
      BY <3>1 DEF Interruption, Event
  <2> QED
    BY <2>3, <2>4
<1>4. events \in Seq(Event) /\ ToSet(events) \subseteq S
  BY <1>3, InOrder
<1> HIDE DEF events
<1>5. spool' \in Seq(Seq(Event)) /\ LinesOf(spool') \subseteq S
  <2>1. LinesOf(<<>>) = {}
    BY DEF LinesOf
  <2> QED
    BY <1>1, <1>4, <2>1, AddFile DEF Shape
<1>6. OnDisk' = Lines' /\ Lines' = LinesOf(spool')
  BY <1>2 DEF OnDisk, Lines, LinesOf
<1> QED
  BY <1>1, <1>2, <1>5, <1>6

(* Recover, if anything is to be interrupted and the directory has room. *)
LEMMA RecoverAInv == ASSUME AInv, Recover PROVE AInv'
<1>1. InMemory' = InMemory /\ Shape'
  BY RecoverIs DEF AInv, Shape, InMemory
<1> QED
  BY <1>1, RecoverIs, RecoversAInv

(* The end of the process, and what is then in the directory. *)
LEMMA RestartAInv == ASSUME AInv, Die \/ Exit PROVE AInv'
<1> USE DEF AInv
<1>1. /\ UNCHANGED <<sent, over, db, rows>> /\ boot' = boot + 1 /\ boot < MaxBoots
      /\ queue' = <<>> /\ batch' = <<>> /\ dropped' = FALSE /\ locked' = FALSE /\ offset' = 0 /\ pc' = "tick"
  BY DEF Die, Exit, Restart, database
<1>2. InMemory' = {} /\ queue' \in Seq(Event) /\ batch' \in Seq(Event)
  BY <1>1 DEF InMemory, ToSet
<1>3. boot' \in Boots
  BY SMTT(30), <1>1, SpoolAssumption DEF Shape, Boots
<1>4. /\ spool' \in Seq(Seq(Event)) /\ tmp' \in Seq(Event) \cup {NoFile}
      /\ OnDisk' \subseteq OnDisk \cup InMemory \cup {Torn}
  <2>1. CASE UNCHANGED <<tmp, spool>>
    BY <2>1 DEF Shape, OnDisk, Lines
  <2>2. ASSUME NEW n \in 0 .. Len(batch) - 1, NEW torn \in {<<>>, <<Torn>>},
               tmp' = SubSeq(batch, 1, n) \o torn, UNCHANGED spool
        PROVE  /\ spool' \in Seq(Seq(Event)) /\ tmp' \in Seq(Event) \cup {NoFile}
               /\ OnDisk' \subseteq OnDisk \cup InMemory \cup {Torn}
    <3>1. batch \in Seq(Event) /\ 1 \in 1 .. Len(batch) + 1 /\ n \in 0 .. Len(batch) /\ Torn \in Event
      BY SMTT(30), <2>2 DEF Shape, Torn, Event
    <3>2. SubSeq(batch, 1, n) \in Seq(Event) /\ ToSet(SubSeq(batch, 1, n)) \subseteq ToSet(batch)
      BY <3>1, Part
    <3>3. tmp' \in Seq(Event) /\ ToSet(tmp') \subseteq ToSet(batch) \cup {Torn}
      <4> DEFINE q == SubSeq(batch, 1, n)
      <4>1. q \in Seq(Event) /\ ToSet(q) \subseteq ToSet(batch) /\ (tmp' = q \o <<>> \/ tmp' = q \o <<Torn>>)
        BY <2>2, <3>2
      <4> HIDE DEF q
      <4>2. q \o <<>> = q /\ q \o <<Torn>> \in Seq(Event) /\ ToSet(q \o <<Torn>>) \subseteq ToSet(q) \cup {Torn}
        BY <3>1, <4>1, AddEvent
      <4> QED
        BY <4>1, <4>2
    <3>4. spool' \in Seq(Seq(Event)) /\ Lines' = Lines
      BY <2>2 DEF Shape, Lines
    <3> QED
      BY <3>3, <3>4 DEF OnDisk, InMemory
  <2>3. CASE pc = "sync" /\ spool' = Front(spool) /\ tmp' = Last(spool)
    <3>1. /\ spool' \in Seq(Seq(Event)) /\ LinesOf(spool') \subseteq LinesOf(spool)
          /\ tmp' \in Seq(Event) /\ ToSet(tmp') \subseteq LinesOf(spool)
      BY <2>3, TakeFile DEF Shape
    <3> QED
      BY <3>1 DEF OnDisk, Lines, LinesOf
  <2> QED
    BY <2>1, <2>2, <2>3 DEF Die, Exit, files
<1>5. Shape'
  BY <1>1, <1>2, <1>3, <1>4 DEF Shape
<1> QED
  BY <1>1, <1>2, <1>4, <1>5, RestartsAInv

(* Every step keeps the invariant. *)
LEMMA NextAInv == AInv /\ [SpoolNext]_spoolVars => AInv'
<1> SUFFICES ASSUME AInv, [SpoolNext]_spoolVars PROVE AInv'
  OBVIOUS
<1>1. CASE UNCHANGED spoolVars
  <2>1. UNCHANGED <<boot, sent, over, queue, batch, dropped, locked, offset, pc, tmp, spool, db, rows>>
    BY <1>1 DEF spoolVars, memory, files, database
  <2>2. Shape' /\ InMemory' = InMemory /\ OnDisk' = OnDisk
    BY <2>1 DEF AInv, Shape, InMemory, OnDisk, Lines
  <2> QED
    BY <2>1, <2>2, MovesAInv
<1> QED
  BY <1>1, EmitAInv, QueueAInv, AppendAInv, DeliverAInv, RecoverAInv, RestartAInv DEF SpoolNext, Loop

(* At first there are no events and no files. *)
LEMMA InitAInv == SpoolInit => AInv
<1> SUFFICES ASSUME SpoolInit PROVE AInv
  OBVIOUS
<1>1. Shape /\ InMemory = {} /\ OnDisk = {} /\ db = {}
  <2>1. boot \in Boots /\ NoRow \in Row
    BY SpoolAssumption DEF SpoolInit, Boots, NoRow, Row
  <2>2. Shape
    <3>1. /\ sent \in [Boots -> Nat] /\ rows \in [Boots -> Row] /\ over \subseteq Boots /\ db \subseteq Event
          /\ dropped = FALSE /\ offset = 0 /\ locked = FALSE /\ pc = "tick" /\ tmp = NoFile
      BY <2>1 DEF SpoolInit
    <3>2. queue \in Seq(Event) /\ batch \in Seq(Event) /\ spool \in Seq(Seq(Event))
      BY DEF SpoolInit
    <3> QED
      BY <2>1, <3>1, <3>2 DEF Shape
  <2>3. \A q : q = <<>> => DOMAIN q = {}
    OBVIOUS
  <2> QED
    BY <2>2, <2>3 DEF SpoolInit, InMemory, OnDisk, Lines, ToSet
<1> QED
  BY <1>1 DEF AInv, Origin, Interruptions, Closing, RowsFollow, SpoolInit, NoRow

(* Only a broadcast of an earlier process is called interrupted, and only if   *)
(* its end is lost, for any queue, batches, directory and number of starts     *)
(* (recorder.go, loop and deliver; mysql.go, Recover).                         *)
THEOREM InterruptionsAreJustified == SpoolSpec => []InterruptedJustified
<1>1. AInv => InterruptedJustified
  BY DEF AInv, Interruptions, Closing, InterruptedJustified
<1> QED
  BY <1>1, InitAInv, NextAInv, PTL DEF SpoolSpec

-----------------------------------------------------------------------------
(* What may come behind what: after the end of a broadcast nothing of it, and  *)
(* after its gap event only events that are marked as incomplete.              *)
May(e, f) ==
  f.kind \in RunKinds /\ f.boot = e.boot => e.kind # "end" /\ (e = Gap(e.boot) => f.incomplete)

(* What was in files or in the database before the batch. *)
Settled == db \cup LinesOf(IF pc = "sync" THEN Front(spool) ELSE spool)

(* The events of this process are in the files, the batch and the queue in the *)
(* order in which they were emitted.                                           *)
InTurn ==
  /\ \A i, j \in DOMAIN queue : i < j => May(queue[i], queue[j])
  /\ \A i, j \in DOMAIN batch : i < j => May(batch[i], batch[j])
  /\ \A e \in ToSet(batch), f \in ToSet(queue) : May(e, f)
  /\ \A e \in Settled, f \in InMemory : May(e, f)

(* In the files this holds for what follows a gap event, unless a crash has     *)
(* moved the event to the front.                                                *)
Told ==
  \A i, k \in DOMAIN spool : \A j \in DOMAIN spool[i], l \in DOMAIN spool[k] :
    (i < k \/ (i = k /\ j < l)) /\ spool[i][j] = Gap(spool[i][j].boot) /\ spool[i][j].boot \notin gapLost =>
      May(spool[i][j], spool[k][l])

(* Which files and batch belong together, what was dropped when, and what files *)
(* were put aside.                                                              *)
Steady ==
  /\ pc \notin {"write", "rename", "sync"} => batch = <<>>
  /\ pc = "sync" => Last(spool) = batch
  /\ pc = "acquire" => ~locked
  /\ ~locked \/ spool = <<>> \/ (pc = "sync" /\ Len(spool) = 1) => offset = 0
  /\ ~locked /\ tmp # NoFile =>
       \A e \in ToSet(tmp) : (e.boot = boot => e.kind = "torn") /\ (e = Gap(e.boot) => e.boot \in gapLost)
  /\ gap \/ Gap(boot) \in InMemory \cup Lines => dropped
  /\ \A b \in Boots : b > boot => sent[b] = 0
  /\ bad \in Seq([by : Boots, lines : Seq(Event)])

(* What has been delivered is in the database, and rows know of it.             *)
Written ==
  /\ spool # <<>> =>
       \A j \in DOMAIN Head(spool) :
         j <= offset /\ Head(spool)[j].kind \in RunKinds /\ Head(spool)[j].sound => Head(spool)[j] \in db
  /\ \A e \in db : rows[e.boot].status # "absent" /\ (e.incomplete => rows[e.boot].incomplete)
  /\ \A e \in db : e.kind \in RunKinds \cup {"interrupted"} /\ e.sound
  /\ \A e \in OnDisk : e.kind = "interrupted" => e.rev # 0
  /\ \A b \in Boots : rows[b].status = "ended" => \E e \in db : e.boot = b /\ e.kind = "end"

(* An event is kept, or put aside, *)
Held == InMemory \cup OnDisk \cup db
Kept(b, r) == r \in Aside(b) \/ \E e \in Held : e.boot = b /\ e.kind \in RunKinds /\ e.rev = r

(* its loss will be told by a gap event, *)
Waiting(e) == \E i \in DOMAIN spool : \E j \in DOMAIN spool[i] : (i = 1 => j > offset) /\ spool[i][j] = e
Telling(b) == (b = boot /\ gap) \/ Gap(b) \in InMemory \/ Waiting(Gap(b))

(* or every end of its broadcast that can be recorded is or will be marked. *)
Marked(b) ==
  /\ b <= boot
  /\ b = boot /\ b \notin over => dropped
  /\ \A e \in Held : e.boot = b /\ e.kind = "end" /\ e.sound => e.incomplete

Excused(b) == b \in gapLost \/ rows[b].incomplete \/ Telling(b) \/ Marked(b)

Accounted == \A b \in Boots : \A r \in 1 .. sent[b] : Kept(b, r) \/ Excused(b)

NInv == Steady /\ InTurn /\ Told /\ Written /\ Accounted

-----------------------------------------------------------------------------
(* What a gap event is. *)
LEMMA GapIs == \A b : Gap(b).kind = "gap" /\ Gap(b).boot = b
  BY DEF Gap

(* Nothing of a broadcast is lost that is not told of or put aside. *)
LEMMA KeepsAccounted ==
  ASSUME Shape, Accounted, UNCHANGED <<boot, sent, over, gapLost>>, dropped => dropped',
         \A b \in Boots : Aside(b) \subseteq Aside(b)',
         \A e \in Held : e.kind \in RunKinds =>
           e \in Held' \/ (e.boot = boot /\ gap') \/ e.rev \in Aside(e.boot)',
         \A e \in Held' : e.kind = "end" => e \in Held,
         \A b \in Boots : rows[b].incomplete => rows'[b].incomplete,
         \A b \in Boots : Telling(b) => Excused(b)'
  PROVE  Accounted'
<1> SUFFICES ASSUME NEW b \in Boots, NEW r \in 1 .. sent[b], ~Excused(b)' PROVE Kept(b, r)'
  BY DEF Accounted
<1>1. ~Telling(b) /\ b \notin gapLost /\ ~rows[b].incomplete /\ ~(b = boot /\ gap')
  BY DEF Excused, Telling
<1>2. ~Marked(b)
  <2> SUFFICES ASSUME Marked(b) PROVE Marked(b)'
    BY DEF Excused
  <2> QED
    BY DEF Marked
<1>3. Kept(b, r)
  BY <1>1, <1>2 DEF Accounted, Excused
<1>4. CASE r \in Aside(b)
  BY <1>4 DEF Kept
<1>5. ASSUME NEW e \in Held, e.boot = b, e.kind \in RunKinds, e.rev = r PROVE Kept(b, r)'
  BY <1>1, <1>5 DEF Kept
<1> QED
  BY <1>3, <1>4, <1>5 DEF Kept

(* No file is put aside. *)
LEMMA MovesAccounted ==
  ASSUME Shape, Accounted, UNCHANGED <<boot, sent, over, bad, gapLost>>, dropped => dropped',
         \A e \in Held : e.kind \in RunKinds => e \in Held' \/ (e.boot = boot /\ gap'),
         \A e \in Held' : e.kind = "end" => e \in Held,
         \A b \in Boots : rows[b].incomplete => rows'[b].incomplete,
         \A b \in Boots : Telling(b) => Excused(b)'
  PROVE  Accounted'
<1>1. \A b \in Boots : Aside(b)' = Aside(b)
  BY DEF Aside
<1> QED
  BY <1>1, KeepsAccounted

(* Emit: what is queued comes behind the rest, and what is dropped is told of. *)
LEMMA EmitNInv == ASSUME AInv, NInv, Emit PROVE NInv'
<1> USE DEF AInv, NInv
<1>1. PICK kind \in RunKinds, sound \in BOOLEAN :
        /\ enqueueLocked([boot |-> boot, kind |-> kind, rev |-> sent'[boot], incomplete |-> FALSE,
                          sound |-> sound])
        /\ over' = IF kind = "end" THEN over \cup {boot} ELSE over
  BY DEF Emit, RunKinds
<1> DEFINE e == [boot |-> boot, kind |-> kind, rev |-> sent'[boot], incomplete |-> dropped, sound |-> sound]
<1>2. /\ boot \in Boots /\ boot \in Nat /\ sent[boot] \in Nat /\ sent' = [sent EXCEPT ![boot] = @ + 1]
      /\ sent'[boot] = sent[boot] + 1 /\ \A b \in Boots : b # boot => sent'[b] = sent[b]
      /\ boot \notin over /\ over' \subseteq over \cup {boot} /\ over \subseteq over'
      /\ UNCHANGED <<boot, batch, locked, offset, pc, tmp, spool, bad, db, rows, gapLost>>
  BY <1>1, SoFar DEF Shape, Emit, files, database
<1>3. e \in Event /\ e.boot = boot /\ e.kind = kind /\ e.rev = sent[boot] + 1 /\ e.incomplete = dropped
  BY <1>2 DEF Event, Shape
<1>4. \/ queue' = Append(queue, e) /\ UNCHANGED <<dropped, gap>>
      \/ queue' = queue /\ dropped' = TRUE /\ gap' = TRUE
  BY <1>1 DEF enqueueLocked
<1> HIDE DEF e
<1>5. /\ queue \in Seq(Event) /\ ToSet(queue) \subseteq InMemory
      /\ queue' = Append(queue, e) =>
           /\ DOMAIN queue' = 1 .. Len(queue) + 1 /\ DOMAIN queue = 1 .. Len(queue) /\ Len(queue) \in Nat
           /\ \A i \in 1 .. Len(queue) : queue'[i] = queue[i] /\ queue[i] \in ToSet(queue)
           /\ queue'[Len(queue) + 1] = e /\ ToSet(queue') = ToSet(queue) \cup {e}
  <2>1. queue \in Seq(Event) /\ ToSet(queue) \subseteq InMemory
    BY DEF Shape, InMemory
  <2>2. LET a == Append(queue, e)
        IN /\ DOMAIN a = 1 .. Len(queue) + 1 /\ DOMAIN queue = 1 .. Len(queue) /\ Len(queue) \in Nat
           /\ \A i \in 1 .. Len(queue) : a[i] = queue[i] /\ queue[i] \in ToSet(queue)
           /\ a[Len(queue) + 1] = e /\ ToSet(a) = ToSet(queue) \cup {e}
    BY <1>3, <2>1, OneMore
  <2> QED
    BY <2>1, <2>2, Zenon
<1>6. /\ InMemory \subseteq InMemory' /\ InMemory' \subseteq InMemory \cup {e}
      /\ queue' = Append(queue, e) => e \in InMemory'
      /\ OnDisk' = OnDisk /\ Settled' = Settled /\ Lines' = Lines
  <2>1. OnDisk' = OnDisk /\ Settled' = Settled /\ Lines' = Lines
    BY <1>2 DEF OnDisk, Settled, Lines
  <2>2. ToSet(queue') = ToSet(queue) \/ ToSet(queue') = ToSet(queue) \cup {e}
    BY <1>4, <1>5
  <2>3. ToSet(batch') = ToSet(batch)
    BY <1>2
  <2>4. queue' = Append(queue, e) => ToSet(queue') = ToSet(queue) \cup {e}
    BY <1>5
  <2> QED
    BY <2>1, <2>2, <2>3, <2>4 DEF InMemory
<1>7. Settled \subseteq db \cup Lines /\ Lines \subseteq OnDisk
  <2>1. pc = "sync" => LinesOf(Front(spool)) \subseteq LinesOf(spool)
    BY TakeFile DEF Shape
  <2> QED
    BY <2>1 DEF Settled, Lines, LinesOf, OnDisk
<1>8. \A x \in InMemory \cup Settled : May(x, e)
  <2> SUFFICES ASSUME NEW x \in InMemory \cup Settled, x.boot = boot
               PROVE  x.kind # "end" /\ (x = Gap(boot) => e.incomplete)
    BY <1>3 DEF May
  <2>1. x.kind # "end"
    BY <1>2, <1>7 DEF Origin, OfRun, RunKinds
  <2>2. x = Gap(boot) => x \notin db
    BY GapIs DEF Written, RunKinds
  <2>3. x = Gap(boot) => dropped
    BY <1>7, <2>2 DEF Steady
  <2> QED
    BY <1>3, <2>1, <2>3
<1>9. Steady'
  <2>1. \A b \in Boots : b > boot' => sent'[b] = 0
    BY <1>2 DEF Steady, Shape, Boots
  <2>2. Gap(boot) \in InMemory' => Gap(boot) \in InMemory
    BY <1>1, <1>3, <1>6, GapIs DEF RunKinds
  <2>3. gap' \/ Gap(boot') \in InMemory' \cup Lines' => dropped'
    <3>1. gap' => dropped'
      <4>1. gap => dropped
        BY DEF Steady
      <4>2. CASE UNCHANGED <<dropped, gap>>
        BY <4>1, <4>2, Zenon
      <4>3. CASE dropped' = TRUE
        BY <4>3
      <4> QED
        BY <1>4, <4>2, <4>3
    <3>2. Gap(boot) \in InMemory' \cup Lines' => dropped
      BY <1>6, <2>2 DEF Steady
    <3>3. dropped => dropped'
      BY <1>4
    <3> QED
      BY <1>2, <3>1, <3>2, <3>3
  <2> QED
    BY <1>2, <2>1, <2>3 DEF Steady
<1>10. InTurn'
  <2>1. \A i, j \in DOMAIN queue' : i < j => May(queue'[i], queue'[j])
    <3>1. CASE queue' = queue
      BY <3>1 DEF InTurn
    <3>2. CASE queue' = Append(queue, e)
      <4> SUFFICES ASSUME NEW i \in DOMAIN queue', NEW j \in DOMAIN queue', i < j
                   PROVE  May(queue'[i], queue'[j])
        OBVIOUS
      <4>1. i \in 1 .. Len(queue) /\ (j \in 1 .. Len(queue) \/ j = Len(queue) + 1)
        BY <1>5, <3>2
      <4>2. CASE j \in 1 .. Len(queue)
        BY <1>5, <3>2, <4>1, <4>2 DEF InTurn
      <4>3. CASE j = Len(queue) + 1
        BY <1>5, <1>8, <3>2, <4>1, <4>3
      <4> QED
        BY <4>1, <4>2, <4>3
    <3> QED
      BY <1>4, <3>1, <3>2
  <2>2. ToSet(batch) \subseteq InMemory
    BY DEF InMemory
  <2>3. \A x \in ToSet(batch), f \in ToSet(queue') : May(x, f)
    <3>1. \A f \in ToSet(queue') : f \in ToSet(queue) \/ f = e
      BY <1>4, <1>5
    <3> QED
      BY <1>8, <2>2, <3>1 DEF InTurn
  <2>4. \A x \in Settled, f \in InMemory' : May(x, f)
    BY <1>6, <1>8 DEF InTurn
  <2> QED
    BY <1>2, <1>6, <2>1, <2>3, <2>4 DEF InTurn
<1>11. Told'
  BY <1>2 DEF Told
<1>12. Written'
  BY <1>2, <1>6 DEF Written
<1>13. Accounted'
  <2> SUFFICES ASSUME NEW b \in Boots, NEW r \in 1 .. sent'[b], ~Excused(b)' PROVE Kept(b, r)'
    BY DEF Accounted
  <2>1. Held \subseteq Held' /\ Held' \subseteq Held \cup {e}
    BY <1>2, <1>6 DEF Held
  <2>2. CASE b = boot /\ r = sent[boot] + 1
    <3>1. e \in Held'
      BY <1>2, <1>4, <1>6, <2>2 DEF Excused, Telling, Held
    <3> QED
      BY <1>1, <1>3, <2>2, <3>1 DEF Kept
  <2>3. CASE ~(b = boot /\ r = sent[boot] + 1)
    <3>1. r \in 1 .. sent[b]
      BY <1>2, <2>3
    <3>2. ~Telling(b)
      BY <1>2, <1>4, <1>6 DEF Excused, Telling, Waiting
    <3>3. ~Marked(b)
      <4> SUFFICES ASSUME Marked(b) PROVE Marked(b)'
        BY DEF Excused
      <4>1. b = boot => dropped
        BY <1>2 DEF Marked
      <4>2. dropped => dropped'
        BY <1>4
      <4>3. \A x \in Held' : x.boot = b /\ x.kind = "end" /\ x.sound => x.incomplete
        BY <1>3, <2>1, <4>1 DEF Marked
      <4> QED
        BY <1>2, <4>1, <4>2, <4>3 DEF Marked
    <3>4. Kept(b, r)
      BY <1>2, <3>1, <3>2, <3>3 DEF Accounted, Excused
    <3>5. r \in Aside(b) => r \in Aside(b)'
      BY <1>2, <3>1 DEF Aside
    <3> QED
      BY <2>1, <3>4, <3>5 DEF Kept
  <2> QED
    BY <2>2, <2>3
<1> QED
  BY <1>9, <1>10, <1>11, <1>12, <1>13

(* What was in files or in the database before the batch, and all that is. *)
LEMMA SettledIs ==
  ASSUME Shape
  PROVE  /\ Settled \subseteq db \cup Lines /\ Lines \subseteq OnDisk
         /\ pc # "sync" => Settled = db \cup Lines
         /\ pc = "sync" => db \cup Lines = Settled \cup ToSet(Last(spool))
<1>1. pc = "sync" => LinesOf(spool) = LinesOf(Front(spool)) \cup ToSet(Last(spool))
  BY FileEnds DEF Shape
<1>2. Lines = LinesOf(spool) /\ Lines \subseteq OnDisk
  BY DEF Lines, LinesOf, OnDisk
<1> QED
  BY <1>1, <1>2 DEF Settled

(* The gap event is queued behind everything else. *)
LEMMA AggregatesNInv == ASSUME AInv, NInv, aggregates PROVE NInv'
<1> USE DEF AInv, NInv
<1>1. /\ UNCHANGED <<boot, sent, over, bad, batch, dropped, locked, offset, tmp, spool, db, rows, gapLost>>
      /\ pc = "tick" /\ pc' = IF locked THEN "drain" ELSE "acquire"
  BY DEF aggregates, files, database
<1> DEFINE g == Gap(boot)
<1>2. (queue' = queue /\ gap' = gap) \/ (queue' = Append(queue, g) /\ gap)
  BY DEF aggregates
<1>3. g \in Event /\ g.kind = "gap" /\ g.boot = boot
  BY SoFar, GapIs DEF Gap, Event
<1>4. /\ queue \in Seq(Event)
      /\ queue' = Append(queue, g) =>
           /\ DOMAIN queue' = 1 .. Len(queue) + 1 /\ DOMAIN queue = 1 .. Len(queue) /\ Len(queue) \in Nat
           /\ \A i \in 1 .. Len(queue) : queue'[i] = queue[i] /\ queue[i] \in ToSet(queue)
           /\ queue'[Len(queue) + 1] = g /\ ToSet(queue') = ToSet(queue) \cup {g}
  <2>1. queue \in Seq(Event)
    BY DEF Shape
  <2> HIDE DEF g
  <2>2. LET a == Append(queue, g)
        IN /\ DOMAIN a = 1 .. Len(queue) + 1 /\ DOMAIN queue = 1 .. Len(queue) /\ Len(queue) \in Nat
           /\ \A i \in 1 .. Len(queue) : a[i] = queue[i] /\ queue[i] \in ToSet(queue)
           /\ a[Len(queue) + 1] = g /\ ToSet(a) = ToSet(queue) \cup {g}
    BY <1>3, <2>1, OneMore
  <2> QED
    BY <2>1, <2>2, Zenon
<1> HIDE DEF g
<1>5. /\ ToSet(queue') \subseteq ToSet(queue) \cup {g} /\ ToSet(queue) \subseteq ToSet(queue')
      /\ g \in ToSet(queue') => g \in ToSet(queue) \/ gap
      /\ queue' = Append(queue, g) => g \in ToSet(queue')
  BY <1>2, <1>4
<1>6. OnDisk' = OnDisk /\ Settled' = Settled /\ Lines' = Lines /\ batch = <<>> /\ ToSet(batch') = ToSet(batch)
  BY <1>1 DEF OnDisk, Settled, Lines, Steady
<1>7. /\ InMemory \subseteq InMemory' /\ InMemory' \subseteq InMemory \cup {g}
      /\ g \in InMemory' => g \in InMemory \/ gap
      /\ queue' = Append(queue, g) => g \in InMemory'
  BY <1>5, <1>6 DEF InMemory
<1>8. \A x : May(x, g)
  BY <1>3 DEF May, RunKinds
<1>9. Steady'
  <2>1. gap' => gap
    BY <1>2, Zenon
  <2>2. gap' \/ Gap(boot') \in InMemory' \cup Lines' => dropped'
    BY <1>1, <1>6, <1>7, <2>1 DEF Steady, g
  <2> QED
    BY <1>1, <2>2 DEF Steady
<1>10. InTurn'
  <2>1. \A i, j \in DOMAIN queue' : i < j => May(queue'[i], queue'[j])
    <3>1. CASE queue' = queue
      BY <3>1 DEF InTurn
    <3>2. CASE queue' = Append(queue, g)
      <4> SUFFICES ASSUME NEW i \in DOMAIN queue', NEW j \in DOMAIN queue', i < j
                   PROVE  May(queue'[i], queue'[j])
        OBVIOUS
      <4>1. i \in 1 .. Len(queue) /\ (j \in 1 .. Len(queue) \/ j = Len(queue) + 1)
        BY <1>4, <3>2
      <4>2. CASE j \in 1 .. Len(queue)
        BY <1>4, <3>2, <4>1, <4>2 DEF InTurn
      <4>3. CASE j = Len(queue) + 1
        BY <1>4, <1>8, <3>2, <4>3
      <4> QED
        BY <4>1, <4>2, <4>3
    <3> QED
      BY <1>2, <3>1, <3>2
  <2>2. \A x \in ToSet(batch), f \in ToSet(queue') : May(x, f)
    BY <1>5, <1>8 DEF InTurn
  <2>3. \A x \in Settled, f \in InMemory' : May(x, f)
    BY <1>7, <1>8 DEF InTurn
  <2> QED
    BY <1>1, <1>6, <2>1, <2>2, <2>3 DEF InTurn
<1>11. Told' /\ Written'
  BY <1>1, <1>6 DEF Told, Written
<1>12. Accounted'
  <2>1. Held' \subseteq Held \cup {g} /\ Held \subseteq Held'
    BY <1>1, <1>6, <1>7 DEF Held
  <2>2. \A b \in Boots : Telling(b) => Excused(b)'
    <3> SUFFICES ASSUME NEW b \in Boots, Telling(b) PROVE Telling(b)'
      BY DEF Excused
    <3>1. CASE b = boot /\ gap
      BY <1>1, <1>2, <1>7, <3>1, Zenon DEF Telling, g
    <3>2. CASE Gap(b) \in InMemory \/ Waiting(Gap(b))
      BY <1>1, <1>7, <3>2 DEF Telling, Waiting
    <3> QED
      BY <3>1, <3>2 DEF Telling
  <2> QED
    BY <1>1, <1>3, <2>1, <2>2, MovesAccounted
<1> QED
  BY <1>9, <1>10, <1>11, <1>12

(* The temporary file of an earlier process comes first. *)
LEMMA AcquireNInv == ASSUME AInv, NInv, acquire PROVE NInv'
<1> USE DEF AInv, NInv
<1>1. /\ UNCHANGED <<boot, sent, over, bad, queue, batch, dropped, gap, offset, db, rows, gapLost>>
      /\ pc = "acquire" /\ pc' = "drain" /\ locked' = TRUE /\ tmp' = NoFile
      /\ spool' = IF tmp = NoFile THEN spool ELSE <<tmp>> \o spool
  BY DEF acquire, database
<1>2. ~locked /\ offset = 0
  BY <1>1 DEF Steady
<1>3. InMemory' = InMemory
  BY <1>1 DEF InMemory
<1>4. tmp # NoFile =>
        /\ DOMAIN spool' = 1 .. Len(spool) + 1 /\ DOMAIN spool = 1 .. Len(spool) /\ Len(spool) \in Nat
        /\ \A i \in 1 .. Len(spool) : spool'[i + 1] = spool[i]
        /\ spool'[1] = tmp /\ Head(spool') = tmp /\ LinesOf(spool') = LinesOf(spool) \cup ToSet(tmp)
        /\ tmp \in Seq(Event)
  <2> SUFFICES ASSUME tmp # NoFile
               PROVE  LET a == <<tmp>> \o spool
                      IN /\ DOMAIN a = 1 .. Len(spool) + 1 /\ DOMAIN spool = 1 .. Len(spool) /\ Len(spool) \in Nat
                         /\ \A i \in 1 .. Len(spool) : a[i + 1] = spool[i]
                         /\ a[1] = tmp /\ Head(a) = tmp /\ LinesOf(a) = LinesOf(spool) \cup ToSet(tmp)
                         /\ tmp \in Seq(Event)
    BY <1>1
  <2>1. tmp \in Seq(Event) /\ spool \in Seq(Seq(Event))
    BY DEF Shape
  <2> QED
    BY <2>1, FirstFile
<1>5. /\ Lines' = IF tmp = NoFile THEN Lines ELSE Lines \cup ToSet(tmp)
      /\ OnDisk' = OnDisk /\ Settled = db \cup Lines /\ Settled' = db \cup Lines'
  <2>1. Lines = LinesOf(spool) /\ Lines' = LinesOf(spool')
    BY DEF Lines, LinesOf
  <2>2. Lines' = IF tmp = NoFile THEN Lines ELSE Lines \cup ToSet(tmp)
    BY <1>1, <1>4, <2>1
  <2>3. OnDisk' = OnDisk
    BY <1>1, <2>2 DEF OnDisk
  <2>4. Settled = db \cup Lines /\ Settled' = db \cup Lines'
    BY <1>1, <2>1 DEF Settled
  <2> QED
    BY <2>2, <2>3, <2>4
<1>6. \A e \in Lines' : e \notin Lines => (e.boot = boot => e.kind = "torn") /\ (e = Gap(e.boot) => e.boot \in gapLost)
  BY <1>2, <1>5 DEF Steady
<1>7. Steady'
  <2>1. Gap(boot) \in Lines' => Gap(boot) \in Lines
    BY <1>6, GapIs
  <2>2. gap' \/ Gap(boot') \in InMemory' \cup Lines' => dropped'
    BY <1>1, <1>3, <2>1 DEF Steady
  <2> QED
    BY <1>1, <1>2, <2>2 DEF Steady
<1>8. InTurn'
  <2>1. \A e \in Settled', f \in InMemory' : May(e, f)
    <3> SUFFICES ASSUME NEW e \in Settled', NEW f \in InMemory PROVE May(e, f)
      BY <1>3
    <3>1. f.boot = boot
      BY DEF Origin
    <3>2. CASE e \in db \cup Lines
      BY <1>3, <1>5, <3>2 DEF InTurn
    <3>3. CASE e \in Lines' /\ e \notin Lines
      BY <1>6, <3>1, <3>3, GapIs DEF May
    <3> QED
      BY <1>5, <3>2, <3>3
  <2> QED
    BY <1>1, <2>1 DEF InTurn
<1>9. Told'
  <2>1. CASE tmp = NoFile
    BY <1>1, <2>1 DEF Told
  <2>2. CASE tmp # NoFile
    <3> SUFFICES ASSUME NEW i \in DOMAIN spool', NEW k \in DOMAIN spool',
                        NEW j \in DOMAIN spool'[i], NEW l \in DOMAIN spool'[k],
                        i < k \/ (i = k /\ j < l),
                        spool'[i][j] = Gap(spool'[i][j].boot), spool'[i][j].boot \notin gapLost
                 PROVE  May(spool'[i][j], spool'[k][l])
      BY SMTT(30), <1>1 DEF Told
    <3>1. i # 1
      <4> SUFFICES ASSUME i = 1 PROVE FALSE
        OBVIOUS
      <4>1. spool'[i][j] \in ToSet(tmp)
        BY <1>4, <2>2 DEF ToSet
      <4> QED
        BY <1>2, <2>2, <4>1 DEF Steady
    <3> DEFINE a == i - 1
               c == k - 1
    <3>2. a \in 1 .. Len(spool) /\ c \in 1 .. Len(spool) /\ a + 1 = i /\ c + 1 = k
      BY <1>4, <2>2, <3>1
    <3>3. spool'[i] = spool[a] /\ spool'[k] = spool[c] /\ (a < c \/ (a = c /\ j < l))
      BY <1>4, <2>2, <3>2
    <3> HIDE DEF a, c
    <3> QED
      BY SMTT(30), <1>4, <2>2, <3>2, <3>3 DEF Told
  <2> QED
    BY <2>1, <2>2
<1>10. Written'
  <2>1. CASE tmp = NoFile
    BY <1>1, <1>5, <2>1 DEF Written
  <2>2. CASE tmp # NoFile
    <3>1. \A j \in DOMAIN Head(spool') : ~(j <= offset')
      BY <1>1, <1>2, <1>4, <2>2
    <3> QED
      BY <1>1, <1>5, <3>1 DEF Written
  <2> QED
    BY <2>1, <2>2
<1>11. Accounted'
  <2>1. Held' = Held
    BY <1>1, <1>3, <1>5 DEF Held
  <2>2. ASSUME NEW b \in Boots, Waiting(Gap(b)) PROVE Waiting(Gap(b))'
    <3>1. CASE tmp = NoFile
      BY <1>1, <2>2, <3>1 DEF Waiting
    <3>2. CASE tmp # NoFile
      <4>1. PICK i \in DOMAIN spool : \E j \in DOMAIN spool[i] : spool[i][j] = Gap(b)
        BY <2>2 DEF Waiting
      <4>2. i + 1 \in DOMAIN spool' /\ i + 1 # 1 /\ spool'[i + 1] = spool[i]
        BY <1>4, <3>2
      <4>3. Gap(b)' = Gap(b)
        BY DEF Gap
      <4> QED
        BY <4>1, <4>2, <4>3 DEF Waiting
    <3> QED
      BY <3>1, <3>2
  <2>3. \A b \in Boots : Telling(b) => Excused(b)'
    BY <1>1, <1>3, <2>2 DEF Telling, Excused
  <2> QED
    BY <1>1, <2>1, <2>3, MovesAccounted
<1> QED
  BY <1>7, <1>8, <1>9, <1>10, <1>11

(* The queue is discarded when the directory cannot be had. *)
LEMMA AcquireFailsNInv == ASSUME AInv, NInv, AcquireFails PROVE NInv'
<1> USE DEF AInv, NInv
<1>1. /\ UNCHANGED <<boot, sent, over, bad, batch, locked, offset, tmp, spool, db, rows, gapLost>>
      /\ pc = "acquire" /\ pc' \in {"exit", "tick"} /\ queue' = <<>>
      /\ dropped' = (dropped \/ queue # <<>>) /\ gap' = (gap \/ queue # <<>>)
  BY DEF AcquireFails, Dropping, database
<1>2. batch = <<>> /\ DOMAIN queue' = {} /\ ToSet(queue') = {}
  BY <1>1 DEF Steady, ToSet
<1>3. /\ InMemory' = ToSet(batch) /\ ToSet(batch) = {} /\ OnDisk' = OnDisk /\ Settled' = Settled
      /\ Lines' = Lines /\ InMemory = ToSet(queue)
  BY <1>1, <1>2 DEF InMemory, OnDisk, Settled, Lines, ToSet
<1>4. \A e \in InMemory : gap' /\ e.boot = boot
  <2>1. InMemory # {} => queue # <<>>
    BY <1>3 DEF ToSet
  <2> QED
    BY <1>1, <2>1 DEF Origin
<1>5. (dropped => dropped') /\ (gap => gap') /\ (gap' => dropped')
  BY <1>1 DEF Steady
<1>6. Steady'
  BY <1>1, <1>2, <1>3, <1>5 DEF Steady
<1>7. InTurn'
  BY <1>1, <1>2, <1>3 DEF InTurn
<1>8. Told' /\ Written'
  BY <1>1, <1>3 DEF Told, Written
<1>9. Accounted'
  <2>1. \A e \in Held : e \in Held' \/ (e.boot = boot /\ gap')
    BY <1>1, <1>3, <1>4 DEF Held
  <2>2. Held' \subseteq Held
    BY <1>1, <1>3 DEF Held
  <2>3. \A b \in Boots : Telling(b) => Telling(b)'
    <3>1. \A b \in Boots : Gap(b) \in InMemory => b = boot /\ gap'
      BY <1>4, GapIs
    <3> QED
      BY <1>1, <1>5, <3>1 DEF Telling, Waiting
  <2> QED
    BY <1>1, <1>5, <2>1, <2>2, <2>3, MovesAccounted DEF Excused
<1> QED
  BY <1>6, <1>7, <1>8, <1>9

(* The first events of the queue become the batch. *)
LEMMA DrainNInv == ASSUME AInv, NInv, Drain PROVE NInv'
<1> USE DEF AInv, NInv
<1> DEFINE n == IF Len(queue) < BatchSize THEN Len(queue) ELSE BatchSize
<1>1. /\ UNCHANGED <<boot, sent, over, bad, dropped, gap, locked, offset, tmp, spool, db, rows, gapLost>>
      /\ pc = "drain" /\ pc' \in {"write", "deliver", "tick", "exit"}
      /\ batch' = SubSeq(queue, 1, n) /\ queue' = SubSeq(queue, n + 1, Len(queue))
      /\ pc' # "write" => n = 0
  BY DEF Drain, Spooled, files, database
<1>2. n \in 0 .. Len(queue) /\ queue \in Seq(Event)
  BY SMTT(30), SpoolAssumption DEF Shape
<1> HIDE DEF n
<1>3. /\ DOMAIN batch' = 1 .. n /\ \A i \in 1 .. n : batch'[i] = queue[i]
      /\ DOMAIN queue' = 1 .. Len(queue) - n /\ \A i \in 1 .. Len(queue) - n : queue'[i] = queue[n + i]
      /\ ToSet(queue) = ToSet(batch') \cup ToSet(queue') /\ DOMAIN queue = 1 .. Len(queue) /\ Len(queue) \in Nat
  BY <1>1, <1>2, Cut
<1>4. batch = <<>> /\ locked
  BY <1>1 DEF Steady, Shape
<1>5. InMemory' = InMemory /\ OnDisk' = OnDisk /\ Settled' = Settled /\ Lines' = Lines
  <2>1. ToSet(batch) = {}
    BY <1>4 DEF ToSet
  <2> QED
    BY <1>1, <1>3, <2>1 DEF InMemory, OnDisk, Settled, Lines
<1>6. Steady'
  <2>1. pc' # "write" => batch' = <<>>
    BY <1>1, <1>2
  <2> QED
    BY <1>1, <1>4, <1>5, <2>1 DEF Steady
<1>7. InTurn'
  <2>1. \A i, j \in DOMAIN queue : i < j => May(queue[i], queue[j])
    BY DEF InTurn
  <2>2. \A i, j \in DOMAIN batch' : i < j => May(batch'[i], batch'[j])
    <3>1. \A i \in 1 .. n : i \in 1 .. Len(queue)
      BY <1>2, <1>3
    <3> QED
      BY <1>3, <2>1, <3>1
  <2>3. \A i, j \in DOMAIN queue' : i < j => May(queue'[i], queue'[j])
    <3> SUFFICES ASSUME NEW i \in DOMAIN queue', NEW j \in DOMAIN queue', i < j PROVE May(queue'[i], queue'[j])
      OBVIOUS
    <3> DEFINE a == n + i
               c == n + j
    <3>1. a \in 1 .. Len(queue) /\ c \in 1 .. Len(queue) /\ a < c
      BY <1>2, <1>3
    <3>2. queue'[i] = queue[a] /\ queue'[j] = queue[c]
      BY <1>3
    <3> HIDE DEF a, c
    <3> QED
      BY <1>3, <2>1, <3>1, <3>2
  <2>4. \A e \in ToSet(batch'), f \in ToSet(queue') : May(e, f)
    <3> SUFFICES ASSUME NEW i \in DOMAIN batch', NEW j \in DOMAIN queue' PROVE May(batch'[i], queue'[j])
      BY DEF ToSet
    <3> DEFINE c == n + j
    <3>1. i \in 1 .. Len(queue) /\ c \in 1 .. Len(queue) /\ i < c
      BY <1>2, <1>3
    <3>2. batch'[i] = queue[i] /\ queue'[j] = queue[c]
      BY <1>3
    <3> HIDE DEF c
    <3> QED
      BY <1>3, <2>1, <3>1, <3>2
  <2> QED
    BY <1>5, <2>2, <2>3, <2>4 DEF InTurn
<1>8. Told' /\ Written'
  BY <1>1, <1>5 DEF Told, Written
<1>9. Accounted'
  <2>1. Held' = Held
    BY <1>1, <1>5 DEF Held
  <2>2. \A b \in Boots : Telling(b) => Telling(b)'
    BY <1>1, <1>5 DEF Telling, Waiting
  <2> QED
    BY <1>1, <2>1, <2>2, MovesAccounted DEF Excused
<1> QED
  BY <1>6, <1>7, <1>8, <1>9

(* Close and stuttering steps change nothing of all this. *)
LEMMA IdleNInv ==
  ASSUME NInv, Shape, UNCHANGED <<boot, sent, over, bad, queue, batch, dropped, gap, locked, offset, pc, tmp, spool,
                                  db, rows, gapLost>>
  PROVE  NInv'
<1> USE DEF NInv
<1>1. InMemory' = InMemory /\ OnDisk' = OnDisk /\ Settled' = Settled /\ Lines' = Lines
  BY DEF InMemory, OnDisk, Settled, Lines
<1>2. Steady' /\ InTurn' /\ Told' /\ Written'
  BY <1>1 DEF Steady, InTurn, Told, Written
<1>3. Accounted'
  <2>1. Held' = Held
    BY <1>1 DEF Held
  <2>2. \A b \in Boots : Telling(b) => Telling(b)'
    BY <1>1 DEF Telling, Waiting
  <2> QED
    BY <2>1, <2>2, MovesAccounted DEF Excused
<1> QED
  BY <1>2, <1>3

(* The batch is written to a temporary file, *)
LEMMA WriteBatchNInv == ASSUME AInv, NInv, WriteBatch PROVE NInv'
<1> USE DEF AInv, NInv
<1>1. /\ UNCHANGED <<boot, sent, over, bad, queue, batch, dropped, gap, locked, offset, spool, db, rows, gapLost>>
      /\ pc = "write" /\ pc' = "rename" /\ tmp' = batch /\ tmp = NoFile /\ locked
  BY DEF WriteBatch, memory, database, Shape
<1>2. /\ InMemory' = InMemory /\ Settled' = Settled /\ Lines' = Lines
      /\ OnDisk = Lines /\ OnDisk' \subseteq OnDisk \cup InMemory /\ OnDisk \subseteq OnDisk'
  BY <1>1 DEF InMemory, OnDisk, Settled, Lines
<1>3. Steady' /\ InTurn' /\ Told'
  BY <1>1, <1>2 DEF Steady, InTurn, Told
<1>4. Written'
  <2>1. \A e \in OnDisk' : e.kind = "interrupted" => e.rev # 0
    BY <1>2 DEF Written, Origin, RunKinds
  <2> QED
    BY <1>1, <2>1 DEF Written
<1>5. Accounted'
  <2>1. Held' = Held
    BY <1>1, <1>2 DEF Held
  <2>2. \A b \in Boots : Telling(b) => Telling(b)'
    BY <1>1, <1>2 DEF Telling, Waiting
  <2> QED
    BY <1>1, <2>1, <2>2, MovesAccounted DEF Excused
<1> QED
  BY <1>3, <1>4, <1>5

(* which becomes the last one, *)
LEMMA RenameBatchNInv == ASSUME AInv, NInv, RenameBatch PROVE NInv'
<1> USE DEF AInv, NInv
<1>1. /\ UNCHANGED <<boot, sent, over, bad, queue, batch, dropped, gap, locked, offset, db, rows, gapLost>>
      /\ pc = "rename" /\ pc' = "sync" /\ spool' = Append(spool, batch) /\ tmp' = NoFile /\ locked
  BY DEF RenameBatch, memory, database, Shape
<1>2. spool \in Seq(Seq(Event)) /\ batch \in Seq(Event)
  BY DEF Shape
<1>3. /\ spool' # <<>> /\ DOMAIN spool' = 1 .. Len(spool) + 1 /\ DOMAIN spool = 1 .. Len(spool)
      /\ Len(spool) \in Nat /\ Len(spool') = Len(spool) + 1 /\ \A i \in 1 .. Len(spool) : spool'[i] = spool[i]
      /\ spool'[Len(spool) + 1] = batch
      /\ Front(spool') = spool /\ Last(spool') = batch /\ LinesOf(spool') = LinesOf(spool) \cup ToSet(batch)
  BY <1>1, <1>2, LastFile
<1>4. /\ InMemory' = InMemory /\ Settled' = Settled /\ Lines' = Lines \cup ToSet(batch)
      /\ Lines \subseteq OnDisk /\ OnDisk' \subseteq OnDisk \cup InMemory /\ OnDisk \subseteq OnDisk' \cup InMemory
      /\ ToSet(batch) \subseteq InMemory
  <2>1. Lines = LinesOf(spool) /\ Lines' = LinesOf(spool')
    BY DEF Lines, LinesOf
  <2>2. OnDisk \subseteq Lines \cup ToSet(batch) /\ OnDisk' = Lines' /\ Lines \subseteq OnDisk
    BY <1>1 DEF OnDisk, Shape
  <2>3. Settled' = Settled
    BY <1>1, <1>3 DEF Settled
  <2> QED
    BY <1>1, <1>3, <2>1, <2>2, <2>3 DEF InMemory
<1>5. offset = 0 \/ spool # <<>>
  BY DEF Steady
<1>6. Steady'
  <2>1. Len(spool') = 1 => spool = <<>>
    <3>1. Len(spool') = 1 => Len(spool) = 0
      BY <1>3
    <3>2. Len(spool) = 0 => spool = <<>>
      BY <1>2
    <3> QED
      BY <3>1, <3>2
  <2>2. gap' \/ Gap(boot') \in InMemory' \cup Lines' => dropped'
    BY <1>1, <1>4 DEF Steady
  <2> QED
    BY <1>1, <1>3, <1>5, <2>1, <2>2 DEF Steady
<1>7. InTurn'
  BY <1>1, <1>4 DEF InTurn
<1>8. Told'
  <2> SUFFICES ASSUME NEW i \in DOMAIN spool', NEW k \in DOMAIN spool',
                      NEW j \in DOMAIN spool'[i], NEW l \in DOMAIN spool'[k],
                      i < k \/ (i = k /\ j < l),
                      spool'[i][j] = Gap(spool'[i][j].boot), spool'[i][j].boot \notin gapLost
               PROVE  May(spool'[i][j], spool'[k][l])
    BY <1>1 DEF Told
  <2>1. (i \in 1 .. Len(spool) \/ i = Len(spool) + 1) /\ (k \in 1 .. Len(spool) \/ k = Len(spool) + 1)
    BY <1>3
  <2>2. CASE k \in 1 .. Len(spool)
    <3>1. i \in 1 .. Len(spool)
      BY <1>3, <2>1, <2>2
    <3> QED
      BY <1>3, <2>2, <3>1 DEF Told
  <2>3. CASE k = Len(spool) + 1 /\ i = Len(spool) + 1
    <3>1. j < l
      BY <1>3, <2>3
    <3> QED
      BY <1>3, <2>3, <3>1 DEF InTurn
  <2>4. CASE k = Len(spool) + 1 /\ i \in 1 .. Len(spool)
    <3>1. spool'[i][j] \in LinesOf(spool)
      BY <1>3, <2>4 DEF LinesOf, ToSet
    <3>2. spool'[i][j] \in Settled
      BY <1>1, <3>1 DEF Settled
    <3>3. spool'[k][l] \in ToSet(batch)
      BY <1>3, <2>4 DEF ToSet
    <3> QED
      BY <1>4, <3>2, <3>3 DEF InTurn
  <2> QED
    BY <2>1, <2>2, <2>3, <2>4
<1>9. Written'
  <2>1. \A e \in OnDisk' : e.kind = "interrupted" => e.rev # 0
    BY <1>4 DEF Written, Origin, RunKinds
  <2>2. \A j \in DOMAIN Head(spool') :
          j <= offset /\ Head(spool')[j].kind \in RunKinds /\ Head(spool')[j].sound => Head(spool')[j] \in db
    <3>1. CASE spool = <<>>
      <4>1. \A j \in DOMAIN Head(spool') : ~(j <= offset)
        <5>1. Head(spool') = batch
          BY <1>2, <1>3, <3>1
        <5> QED
          BY <1>2, <3>1, <5>1 DEF Steady
      <4> QED
        BY <4>1
    <3>2. CASE spool # <<>>
      <4>1. Head(spool') = Head(spool)
        BY <1>1, <1>2, <3>2
      <4> QED
        BY <3>2, <4>1 DEF Written
    <3> QED
      BY <3>1, <3>2
  <2> QED
    BY <1>1, <2>1, <2>2 DEF Written
<1>10. Accounted'
  <2>1. Held' = Held
    BY <1>1, <1>4 DEF Held
  <2>2. ASSUME NEW b \in Boots, Waiting(Gap(b)) PROVE Waiting(Gap(b))'
    <3>1. PICK i \in DOMAIN spool : \E j \in DOMAIN spool[i] : (i = 1 => j > offset) /\ spool[i][j] = Gap(b)
      BY <2>2 DEF Waiting
    <3>2. i \in DOMAIN spool' /\ spool'[i] = spool[i] /\ Gap(b)' = Gap(b)
      BY <1>3 DEF Gap
    <3> QED
      BY <1>1, <3>1, <3>2 DEF Waiting
  <2>3. \A b \in Boots : Telling(b) => Telling(b)'
    BY <1>1, <1>4, <2>2 DEF Telling
  <2> QED
    BY <1>1, <2>1, <2>3, MovesAccounted DEF Excused
<1> QED
  BY <1>6, <1>7, <1>8, <1>9, <1>10

(* and is done with, *)
LEMMA AppendedNInv == ASSUME AInv, NInv, Appended PROVE NInv'
<1> USE DEF AInv, NInv
<1>1. /\ UNCHANGED <<boot, sent, over, bad, queue, dropped, gap, locked, offset, tmp, spool, db, rows, gapLost>>
      /\ pc = "sync" /\ pc' \in {"deliver", "tick", "exit"} /\ batch' = <<>>
      /\ spool # <<>> /\ Last(spool) = batch /\ locked /\ spool \in Seq(Seq(Event))
  BY DEF Appended, Spooled, files, database, Shape, Steady
<1>2. DOMAIN batch' = {} /\ ToSet(batch') = {}
  BY <1>1 DEF ToSet
<1>3. /\ InMemory' = ToSet(queue) /\ InMemory = ToSet(queue) \cup ToSet(batch) /\ OnDisk' = OnDisk
      /\ Lines' = Lines /\ Settled' = Settled \cup ToSet(batch) /\ ToSet(batch) \subseteq Lines /\ Lines \subseteq OnDisk
  <2>1. InMemory' = ToSet(queue) /\ InMemory = ToSet(queue) \cup ToSet(batch)
    BY <1>1, <1>2 DEF InMemory
  <2>2. OnDisk' = OnDisk /\ Lines' = Lines /\ Lines \subseteq OnDisk
    BY <1>1 DEF OnDisk, Lines
  <2>3. Settled' = db \cup Lines
    BY <1>1 DEF Settled, Lines, LinesOf
  <2>4. db \cup Lines = Settled \cup ToSet(batch)
    BY <1>1, SettledIs
  <2>5. ToSet(batch) \subseteq Lines
    BY <1>1, FileEnds DEF Lines, LinesOf
  <2> QED
    BY <2>1, <2>2, <2>3, <2>4, <2>5
<1>4. Steady'
  BY <1>1, <1>3 DEF Steady
<1>5. InTurn'
  BY <1>1, <1>2, <1>3 DEF InTurn
<1>6. Told' /\ Written'
  BY <1>1, <1>3 DEF Told, Written
<1>7. Accounted'
  <2>1. Held' = Held
    BY <1>1, <1>3 DEF Held
  <2>2. ASSUME NEW b \in Boots, Gap(b) \in ToSet(batch) PROVE Waiting(Gap(b))'
    <3>1. DOMAIN spool = 1 .. Len(spool) /\ Len(spool) \in Nat \ {0} /\ spool[Len(spool)] = batch
      BY <1>1, FileEnds
    <3>2. PICK j \in DOMAIN batch : batch[j] = Gap(b)
      BY <2>2 DEF ToSet
    <3>3. Len(spool) = 1 => j > offset
      <4>1. batch \in Seq(Event)
        BY DEF Shape
      <4> QED
        BY <1>1, <4>1 DEF Steady
    <3>4. Len(spool) \in DOMAIN spool /\ Gap(b)' = Gap(b)
      BY <3>1 DEF Gap
    <3> QED
      BY <1>1, <3>1, <3>2, <3>3, <3>4 DEF Waiting
  <2>3. \A b \in Boots : Telling(b) => Telling(b)'
    BY <1>1, <1>3, <2>2 DEF Telling, Waiting
  <2> QED
    BY <1>1, <2>1, <2>3, MovesAccounted DEF Excused
<1> QED
  BY <1>4, <1>5, <1>6, <1>7

(* or it is dropped, and that will be told. *)
LEMMA AppendFailsNInv == ASSUME AInv, NInv, AppendFails PROVE NInv'
<1> USE DEF AInv, NInv
<1>1. /\ UNCHANGED <<boot, sent, over, bad, queue, locked, offset, spool, db, rows, gapLost>>
      /\ pc \in {"write", "rename", "sync"} /\ pc' \in {"deliver", "tick", "exit"}
      /\ batch' = <<>> /\ tmp' = NoFile /\ locked
      /\ dropped' = (dropped \/ batch # <<>>) /\ gap' = (gap \/ batch # <<>>)
      /\ tmp = NoFile \/ tmp = batch
  BY DEF AppendFails, Dropping, Spooled, database, Shape
<1>2. DOMAIN batch' = {} /\ ToSet(batch') = {}
  BY <1>1 DEF ToSet
<1>3. /\ InMemory' = ToSet(queue) /\ InMemory = ToSet(queue) \cup ToSet(batch)
      /\ OnDisk' \subseteq OnDisk /\ OnDisk \subseteq OnDisk' \cup ToSet(batch)
      /\ Lines' = Lines /\ Settled' \subseteq Settled \cup ToSet(batch) /\ Lines \subseteq OnDisk'
  <2>1. InMemory' = ToSet(queue) /\ InMemory = ToSet(queue) \cup ToSet(batch)
    BY <1>1, <1>2 DEF InMemory
  <2>2. Lines' = Lines /\ OnDisk' = Lines /\ Lines \subseteq OnDisk /\ OnDisk \subseteq Lines \cup ToSet(batch)
    BY <1>1 DEF OnDisk, Lines
  <2>3. Settled' = db \cup Lines
    BY <1>1 DEF Settled, Lines, LinesOf
  <2>4. db \cup Lines \subseteq Settled \cup ToSet(batch)
    BY <1>1, SettledIs DEF Steady
  <2> QED
    BY <2>1, <2>2, <2>3, <2>4
<1>4. \A e \in ToSet(batch) : gap' /\ e.boot = boot
  <2>1. ToSet(batch) # {} => batch # <<>>
    BY DEF ToSet
  <2> QED
    BY <1>1, <1>3, <2>1 DEF Origin
<1>5. (dropped => dropped') /\ (gap => gap') /\ (gap' => dropped')
  BY <1>1 DEF Steady
<1>6. Steady'
  BY <1>1, <1>3, <1>5 DEF Steady
<1>7. InTurn'
  BY <1>1, <1>2, <1>3 DEF InTurn
<1>8. Told' /\ Written'
  BY <1>1, <1>3 DEF Told, Written
<1>9. Accounted'
  <2>1. \A e \in Held : e \in Held' \/ (e.boot = boot /\ gap')
    BY <1>1, <1>3, <1>4 DEF Held
  <2>2. Held' \subseteq Held
    BY <1>1, <1>3 DEF Held
  <2>3. \A b \in Boots : Telling(b) => Telling(b)'
    <3>1. \A b \in Boots : Gap(b) \in ToSet(batch) => b = boot /\ gap'
      BY <1>4, GapIs
    <3> QED
      BY <1>1, <1>3, <1>5, <3>1 DEF Telling, Waiting
  <2> QED
    BY <1>1, <1>5, <2>1, <2>2, <2>3, MovesAccounted DEF Excused
<1> QED
  BY <1>6, <1>7, <1>8, <1>9

(* A line reaches the database, and perhaps its answer is lost.  A gap event    *)
(* marks the row, if there is one; without it no event of the broadcast came    *)
(* before, and those behind are marked themselves.                              *)
LEMMA WriteNInv ==
  ASSUME AInv, NInv, NEW e, pc = "deliver", spool # <<>>, offset < Len(Head(spool)), e = Head(spool)[offset + 1],
         Write(e), offset' \in {offset, offset + 1}, pc' \in {"deliver", "tick"},
         UNCHANGED <<boot, sent, over, bad, queue, batch, dropped, gap, locked, tmp, spool, gapLost>>
  PROVE  NInv'
<1> USE DEF AInv, NInv
<1>1. /\ spool \in Seq(Seq(Event)) /\ offset \in Nat /\ locked /\ tmp = NoFile /\ batch = <<>>
      /\ db \subseteq Event /\ rows \in [Boots -> Row]
  BY DEF Shape, Steady
<1>2. /\ DOMAIN spool = 1 .. Len(spool) /\ Len(spool) \in Nat \ {0} /\ Head(spool) = spool[1]
      /\ spool[1] \in Seq(Event) /\ DOMAIN spool[1] = 1 .. Len(spool[1]) /\ Len(spool[1]) \in Nat
  BY <1>1, FileEnds
<1>3. 1 \in DOMAIN spool /\ offset + 1 \in DOMAIN spool[1] /\ e = spool[1][offset + 1] /\ e \in Event
  BY <1>1, <1>2
<1>4. e \in Lines /\ OnDisk = Lines
  BY <1>1, <1>3 DEF Lines, ToSet, OnDisk
<1>5. InMemory' = InMemory /\ Lines' = Lines /\ OnDisk' = OnDisk
  BY DEF InMemory, Lines, OnDisk
<1>6. /\ e.kind \in RunKinds \cup {"gap", "interrupted", "torn"} /\ e.rev \in Nat
      /\ e.kind # "torn" => e.boot \in 1 .. boot /\ e.boot \in Boots
  BY <1>3, <1>4, SoFar DEF Event, Origin
<1>7. \/ ~e.sound /\ UNCHANGED <<db, rows>>
      \/ e.sound /\ e.kind = "gap" /\ db' = db
         /\ rows' = [rows EXCEPT ![e.boot].incomplete = @ \/ rows[e.boot].status # "absent"]
      \/ e.sound /\ e.kind \in RunKinds \cup {"interrupted"} /\ db' = db \cup {e} /\ e \in db /\ rows' = rows
      \/ e.sound /\ e.kind \in RunKinds \cup {"interrupted"} /\ db' = db \cup {e} /\ e \notin db
         /\ rows' = [rows EXCEPT ![e.boot] = upsert(@, e)]
  <2>1. e.sound => e.kind # "torn"
    BY <1>4 DEF Origin
  <2>2. ~e.sound => UNCHANGED <<db, rows>>
    BY DEF Write, database
  <2>3. e.sound /\ e.kind = "gap" =>
          db' = db /\ rows' = [rows EXCEPT ![e.boot].incomplete = @ \/ rows[e.boot].status # "absent"]
    BY DEF Write
  <2>4. e.sound /\ e.kind # "gap" =>
          db' = db \cup {e} /\ rows' = IF e \in db THEN rows ELSE [rows EXCEPT ![e.boot] = upsert(@, e)]
    BY DEF Write
  <2> HIDE DEF AInv, NInv
  <2> QED
    BY <1>6, <2>1, <2>2, <2>3, <2>4
<1>8. /\ db \subseteq db' /\ db' \subseteq db \cup {e}
      /\ e.kind \in RunKinds /\ e.sound => e \in db'
      /\ e \in db' => e \in db \/ (e.kind \in RunKinds \cup {"interrupted"} /\ e.sound)
  BY <1>6, <1>7 DEF RunKinds
<1>9. \A b \in Boots : /\ rows[b].status # "absent" => rows'[b].status # "absent"
                       /\ rows[b].incomplete => rows'[b].incomplete
  <2>1. CASE rows' = rows
    BY <2>1
  <2>2. CASE /\ e.kind = "gap"
             /\ rows' = [rows EXCEPT ![e.boot].incomplete = @ \/ rows[e.boot].status # "absent"]
    <3> SUFFICES ASSUME NEW b \in Boots
                 PROVE  /\ rows[b].status # "absent" => rows'[b].status # "absent"
                        /\ rows[b].incomplete => rows'[b].incomplete
      OBVIOUS
    <3>1. CASE b # e.boot
      BY <1>1, <2>2, <3>1
    <3>2. CASE b = e.boot
      <4>1. rows'[b] = [rows[b] EXCEPT !.incomplete = rows[b].incomplete \/ rows[b].status # "absent"]
        BY <1>1, <2>2, <3>2
      <4>2. rows[b] \in Row
        BY <1>1
      <4> QED
        BY <4>1, <4>2 DEF Row
    <3> QED
      BY <3>1, <3>2
  <2>3. CASE e.kind \in RunKinds \cup {"interrupted"} /\ rows' = [rows EXCEPT ![e.boot] = upsert(@, e)]
    <3> SUFFICES ASSUME NEW b \in Boots
                 PROVE  /\ rows[b].status # "absent" => rows'[b].status # "absent"
                        /\ rows[b].incomplete => rows'[b].incomplete
      OBVIOUS
    <3>1. CASE b # e.boot
      BY <1>1, <2>3, <3>1
    <3>2. CASE b = e.boot
      <4>1. rows'[b] = upsert(rows[b], e)
        BY <1>1, <2>3, <3>2
      <4>2. rows[b] \in Row /\ StatusOf(e) # "absent"
        BY <1>1 DEF StatusOf
      <4>3. /\ rows'[b].status = IF rows[b].rev < e.rev THEN StatusOf(e) ELSE rows[b].status
            /\ rows'[b].incomplete = (rows[b].incomplete \/ e.incomplete
                                      \/ (e.kind # "create" /\ rows[b].status = "absent"))
        BY <4>1 DEF upsert
      <4>4. rows[b].incomplete => rows'[b].incomplete
        BY Zenon, <4>3
      <4> QED
        BY <4>2, <4>3, <4>4
    <3> QED
      BY <3>1, <3>2
  <2> QED
    BY <1>7, <2>1, <2>2, <2>3
<1>10. e \in db' => rows'[e.boot].status # "absent" /\ (e.incomplete => rows'[e.boot].incomplete)
  <2>1. CASE e \in db
    <3>1. rows[e.boot].status # "absent" /\ (e.incomplete => rows[e.boot].incomplete)
      BY <2>1 DEF Written
    <3>2. e.boot \in Boots
      BY <1>6, <2>1 DEF Written, RunKinds
    <3> QED
      BY <1>9, <3>1, <3>2
  <2>2. CASE e \notin db /\ e \in db'
    <3>1. e.kind \in RunKinds \cup {"interrupted"} /\ rows' = [rows EXCEPT ![e.boot] = upsert(@, e)]
      BY <1>7, <2>2
    <3>2. e.boot \in Boots
      BY <1>6, <3>1 DEF RunKinds
    <3>3. rows'[e.boot] = upsert(rows[e.boot], e)
      BY <1>1, <3>1, <3>2
    <3>4. e.rev # 0
      <4>1. e.kind \in RunKinds => e.rev \in 1 .. sent[e.boot]
        BY <1>4 DEF Origin, OfRun
      <4>2. sent[e.boot] \in Nat
        BY <3>2 DEF Shape
      <4>3. e.kind = "interrupted" => e.rev # 0
        BY <1>4 DEF Written
      <4> QED
        BY <3>1, <4>1, <4>2, <4>3
    <3>5. rows[e.boot].status = "absent" => rows[e.boot].rev = 0
      BY <3>2 DEF RowsFollow, Written
    <3>6. rows[e.boot].status = "absent" => rows[e.boot].rev < e.rev
      BY <1>6, <3>4, <3>5
    <3>7. /\ rows'[e.boot].status = IF rows[e.boot].rev < e.rev THEN StatusOf(e) ELSE rows[e.boot].status
          /\ rows'[e.boot].incomplete = (rows[e.boot].incomplete \/ e.incomplete
                                         \/ (e.kind # "create" /\ rows[e.boot].status = "absent"))
      BY <3>3 DEF upsert
    <3>8. e.incomplete => rows'[e.boot].incomplete
      BY Zenon, <3>7
    <3>9. StatusOf(e) # "absent"
      BY DEF StatusOf
    <3> QED
      BY <3>6, <3>7, <3>8, <3>9
  <2> QED
    BY <2>1, <2>2
<1>11. Steady'
  BY <1>1, <1>5 DEF Steady
<1>12. InTurn'
  <2>1. Settled = db \cup Lines
    BY SettledIs
  <2>2. Settled' = db' \cup Lines'
    BY DEF Settled, Lines, LinesOf
  <2>3. Settled' = Settled
    BY <1>4, <1>5, <1>8, <2>1, <2>2
  <2> QED
    BY <1>5, <2>3 DEF InTurn
<1>13. Told'
  BY DEF Told
<1>14. Written'
  <2>1. ASSUME NEW j \in DOMAIN spool[1], j <= offset', spool[1][j].kind \in RunKinds, spool[1][j].sound
        PROVE  spool[1][j] \in db'
    <3>1. j <= offset \/ j = offset + 1
      BY <1>1, <1>2, <2>1
    <3>2. CASE j <= offset
      BY <1>2, <1>8, <2>1, <3>2 DEF Written
    <3>3. CASE j = offset + 1
      BY <1>3, <1>8, <2>1, <3>3
    <3> QED
      BY <3>1, <3>2, <3>3
  <2>2. \A d \in db' : d.kind \in RunKinds \cup {"interrupted"} /\ d.sound
    BY <1>8 DEF Written
  <2>3. \A d \in db' : rows'[d.boot].status # "absent" /\ (d.incomplete => rows'[d.boot].incomplete)
    <3> SUFFICES ASSUME NEW d \in db', d # e
                 PROVE  rows'[d.boot].status # "absent" /\ (d.incomplete => rows'[d.boot].incomplete)
      BY <1>10
    <3>1. d \in db
      BY <1>8
    <3>2. d.boot \in Boots
      BY <3>1, SoFar DEF Origin, Written, RunKinds
    <3> QED
      BY <1>9, <3>1, <3>2 DEF Written
  <2>4. ASSUME NEW b \in Boots, rows'[b].status = "ended" PROVE \E d \in db' : d.boot = b /\ d.kind = "end"
    <3>1. CASE rows[b].status = "ended"
      BY <1>8, <3>1 DEF Written
    <3>2. CASE rows[b].status # "ended"
      <4>1. rows'[b].status # rows[b].status
        BY SMTT(30), <2>4, <3>2
      <4>2. b = e.boot /\ e.kind \in RunKinds \cup {"interrupted"} /\ rows' = [rows EXCEPT ![e.boot] = upsert(@, e)]
            /\ db' = db \cup {e}
        <5>1. CASE e.kind = "gap" /\ rows' = [rows EXCEPT ![e.boot].incomplete = @ \/ rows[e.boot].status # "absent"]
          <6>1. CASE b # e.boot
            BY <1>1, <4>1, <5>1, <6>1
          <6>2. CASE b = e.boot
            <7>1. rows'[b] = [rows[b] EXCEPT !.incomplete = rows[b].incomplete \/ rows[b].status # "absent"]
              BY <1>1, <5>1, <6>2
            <7>2. rows[b] \in Row
              BY <1>1
            <7> QED
              BY <4>1, <7>1, <7>2 DEF Row
          <6> QED
            BY <6>1, <6>2
        <5>2. CASE rows' = rows
          BY <4>1, <5>2
        <5>3. CASE e.kind \in RunKinds \cup {"interrupted"} /\ db' = db \cup {e}
                   /\ rows' = [rows EXCEPT ![e.boot] = upsert(@, e)]
          <6>1. b # e.boot => rows'[b] = rows[b]
            BY <1>1, <5>3
          <6> QED
            BY <4>1, <5>3, <6>1
        <5> QED
          BY <1>7, <5>1, <5>2, <5>3
      <4>3. rows'[b] = upsert(rows[b], e)
        BY <1>1, <4>2
      <4>4. e.kind = "end"
        BY <2>4, <3>2, <4>3 DEF upsert, StatusOf
      <4> QED
        BY <4>2, <4>4
    <3> QED
      BY <3>1, <3>2
  <2> QED
    BY <1>2, <1>5, <2>1, <2>2, <2>3, <2>4 DEF Written
<1>15. Accounted'
  <2>1. Held' = Held
    BY <1>4, <1>5, <1>8 DEF Held
  <2>2. ASSUME NEW b \in Boots, e = Gap(b) PROVE Excused(b)'
    <3>1. e.kind = "gap" /\ e.boot = b
      BY <2>2, GapIs
    <3>2. CASE rows[b].status # "absent"
      <4>0. e.sound
        BY <2>2 DEF Gap
      <4>1. rows' = [rows EXCEPT ![b].incomplete = @ \/ rows[b].status # "absent"]
        BY <1>7, <3>1, <4>0 DEF RunKinds
      <4>2. rows'[b].incomplete = (rows[b].incomplete \/ rows[b].status # "absent")
        <5>1. rows[b] \in Row
          BY <1>1
        <5>2. rows'[b] = [rows[b] EXCEPT !.incomplete = rows[b].incomplete \/ rows[b].status # "absent"]
          BY <1>1, <4>1
        <5> QED
          BY <5>1, <5>2 DEF Row
      <4> QED
        BY <3>2, <4>2 DEF Excused
    <3>3. CASE rows[b].status = "absent" /\ b \notin gapLost
      <4>1. b <= boot
        BY <1>6, <3>1, SoFar DEF Shape
      <4>2. b = boot => dropped
        BY <1>4, <2>2 DEF Steady
      <4>3. ASSUME NEW x \in Held, x.boot = b, x.kind = "end", x.sound PROVE x.incomplete
        <5>1. x \notin db
          BY <3>3, <4>3 DEF Written
        <5>2. May(e, x) => x.incomplete
          BY <2>2, <3>1, <4>3 DEF May, RunKinds
        <5>3. CASE x \in InMemory
          <6>1. e \in Settled
            BY <1>4, SettledIs
          <6> QED
            BY <5>2, <5>3, <6>1 DEF InTurn
        <5>4. CASE x \in Lines
          <6>1. PICK k \in DOMAIN spool : \E l \in DOMAIN spool[k] : x = spool[k][l]
            BY <5>4 DEF Lines, ToSet
          <6>2. PICK l \in DOMAIN spool[k] : x = spool[k][l]
            BY <6>1
          <6>3. k \in 1 .. Len(spool) /\ spool[k] \in Seq(Event)
            BY <1>1, <1>2
          <6>4. l \in Nat
            BY <6>3
          <6>5. ~(k = 1 /\ l <= offset)
            BY <1>2, <4>3, <5>1, <6>2 DEF Written, RunKinds
          <6>6. ~(k = 1 /\ l = offset + 1)
            BY <1>3, <3>1, <4>3, <6>2
          <6>7. 1 < k \/ (1 = k /\ offset + 1 < l)
            BY <1>1, <6>3, <6>4, <6>5, <6>6
          <6>8. May(e, x)
            BY <1>3, <2>2, <3>1, <3>3, <6>2, <6>7 DEF Told
          <6> QED
            BY <5>2, <6>8
        <5> QED
          BY <1>4, <4>3, <5>1, <5>3, <5>4 DEF Held
      <4>4. Marked(b)'
        BY <2>1, <4>1, <4>2, <4>3 DEF Marked
      <4> QED
        BY <4>4 DEF Excused
    <3> QED
      BY <3>2, <3>3 DEF Excused
  <2>3. ASSUME NEW b \in Boots, Waiting(Gap(b)), e # Gap(b) PROVE Waiting(Gap(b))'
    <3>1. PICK i \in DOMAIN spool : \E j \in DOMAIN spool[i] : (i = 1 => j > offset) /\ spool[i][j] = Gap(b)
      BY <2>3 DEF Waiting
    <3>2. PICK j \in DOMAIN spool[i] : (i = 1 => j > offset) /\ spool[i][j] = Gap(b)
      BY <3>1
    <3>3. i = 1 => j > offset'
      <4> SUFFICES ASSUME i = 1 PROVE j > offset'
        OBVIOUS
      <4>1. j \in Nat /\ j > offset /\ j # offset + 1
        BY <1>2, <1>3, <2>3, <3>2
      <4> QED
        BY <1>1, <4>1
    <3>4. Gap(b)' = Gap(b)
      BY DEF Gap
    <3> QED
      BY <3>2, <3>3, <3>4 DEF Waiting
  <2>4. \A b \in Boots : Telling(b) => Excused(b)'
    BY <1>5, <2>2, <2>3 DEF Telling, Excused
  <2> QED
    BY <1>9, <2>1, <2>4, MovesAccounted
<1> QED
  BY <1>11, <1>12, <1>13, <1>14, <1>15

(* deliver. *)
LEMMA DeliverNInv == ASSUME AInv, NInv, DeliverLine \/ DeliverFails PROVE NInv'
<1>1. CASE DeliverLine
  BY <1>1, WriteNInv DEF DeliverLine, files
<1>2. CASE DeliverFails
  <2>1. /\ UNCHANGED <<boot, sent, over, bad, queue, batch, dropped, gap, locked, offset, tmp, spool, gapLost>>
        /\ pc = "deliver" /\ pc' = "tick"
    BY <1>2 DEF DeliverFails, memory, files
  <2>2. CASE UNCHANGED database
    <3>1. UNCHANGED <<db, rows>>
      BY <2>2 DEF database
    <3> USE DEF AInv, NInv
    <3>2. InMemory' = InMemory /\ OnDisk' = OnDisk /\ Settled' = Settled /\ Lines' = Lines
      BY <2>1, <3>1 DEF InMemory, OnDisk, Settled, Lines
    <3>3. Steady' /\ InTurn' /\ Told' /\ Written'
      BY <2>1, <3>1, <3>2 DEF Steady, InTurn, Told, Written, Shape
    <3>4. Accounted'
      <4>1. Held' = Held
        BY <3>1, <3>2 DEF Held
      <4>2. \A b \in Boots : Telling(b) => Telling(b)'
        BY <2>1, <3>2 DEF Telling, Waiting
      <4> QED
        BY <2>1, <3>1, <4>1, <4>2, MovesAccounted DEF Excused
    <3> QED
      BY <3>3, <3>4
  <2>3. CASE spool # <<>> /\ offset < Len(Head(spool)) /\ Write(Head(spool)[offset + 1])
    BY <2>1, <2>3, WriteNInv
  <2> QED
    BY <1>2, <2>2, <2>3 DEF DeliverFails
<1> QED
  BY <1>1, <1>2

(* A file is put aside beside the others. *)
LEMMA QuarantineGrows ==
  ASSUME NEW F, NEW s \in Seq(F), NEW f \in F, NEW t, t = Append(s, f) \/ t = s
  PROVE  t \in Seq(F) /\ ToSet(s) \subseteq ToSet(t) /\ (t = Append(s, f) => f \in ToSet(t))
<1>1. /\ DOMAIN s = 1 .. Len(s) /\ DOMAIN Append(s, f) = 1 .. Len(s) + 1 /\ Len(s) \in Nat
      /\ \A i \in 1 .. Len(s) : Append(s, f)[i] = s[i]
      /\ Append(s, f)[Len(s) + 1] = f
  OBVIOUS
<1>2. ToSet(s) \subseteq ToSet(Append(s, f)) /\ f \in ToSet(Append(s, f))
  BY <1>1 DEF ToSet
<1>3. Append(s, f) \in Seq(F)
  OBVIOUS
<1> QED
  BY <1>2, <1>3

(* A file that has been delivered is removed, or put aside. *)
LEMMA DeliveredNInv == ASSUME AInv, NInv, Delivered PROVE NInv'
<1> USE DEF AInv, NInv
<1> DEFINE spoilt == \E i \in DOMAIN Head(spool) : ~Head(spool)[i].sound
<1>1. /\ UNCHANGED <<boot, sent, over, queue, batch, locked, pc, tmp, db, rows, gapLost>>
      /\ pc = "deliver" /\ spool # <<>> /\ offset = Len(Head(spool)) /\ spool' = Tail(spool) /\ offset' = 0
      /\ dropped' = (dropped \/ spoilt) /\ gap' = (gap \/ spoilt)
      /\ bad' = IF spoilt THEN Append(bad, [by |-> boot, lines |-> Head(spool)]) ELSE bad
      /\ spool \in Seq(Seq(Event)) /\ locked /\ tmp = NoFile
  BY DEF Delivered, database, Shape
<1> HIDE DEF spoilt
<1>2. /\ DOMAIN spool = 1 .. Len(spool) /\ Len(spool) \in Nat \ {0} /\ Head(spool) = spool[1]
      /\ DOMAIN spool' = 1 .. Len(spool) - 1 /\ \A i \in 1 .. Len(spool) - 1 : spool'[i] = spool[i + 1]
      /\ LinesOf(spool) = LinesOf(spool') \cup ToSet(spool[1])
      /\ \A i \in DOMAIN spool : DOMAIN spool[i] = 1 .. Len(spool[i]) /\ Len(spool[i]) \in Nat
  <2>1. \A i \in DOMAIN spool : DOMAIN spool[i] = 1 .. Len(spool[i]) /\ Len(spool[i]) \in Nat
    BY <1>1
  <2> QED
    BY <1>1, <2>1, FileEnds
<1>3. Lines = LinesOf(spool) /\ Lines' = LinesOf(spool') /\ OnDisk = Lines /\ OnDisk' = Lines' /\ InMemory' = InMemory
  BY <1>1 DEF Lines, LinesOf, OnDisk, InMemory
<1>4. Lines' \subseteq Lines /\ Settled' \subseteq Settled
  BY <1>1, <1>2, <1>3 DEF Settled
<1>5. \A e \in Lines : e.kind \in RunKinds /\ e.sound => e \in Lines' \cup db
  <2> SUFFICES ASSUME NEW e \in ToSet(spool[1]), e.kind \in RunKinds, e.sound PROVE e \in db
    BY <1>2, <1>3
  <2>1. PICK j \in DOMAIN spool[1] : e = spool[1][j]
    BY DEF ToSet
  <2>2. j <= offset
    BY <1>1, <1>2
  <2> QED
    BY <1>1, <1>2, <2>1, <2>2 DEF Written
<1>6. (dropped => dropped') /\ (gap => gap') /\ (gap' => dropped')
  BY <1>1 DEF Steady
<1>12. bad \in Seq([by : Boots, lines : Seq(Event)]) /\ spool[1] \in Seq(Event) /\ boot \in Boots
  BY <1>1, <1>2, FileEnds DEF Shape, Steady
<1> DEFINE aside == [by |-> boot, lines |-> Head(spool)]
<1>15. (spoilt => bad' = Append(bad, aside)) /\ (~spoilt => bad' = bad)
  BY <1>1
<1>16. aside \in [by : Boots, lines : Seq(Event)] /\ aside.by = boot /\ aside.lines = spool[1]
  BY <1>2, <1>12
<1> HIDE DEF aside
<1>17. /\ bad' \in Seq([by : Boots, lines : Seq(Event)])
       /\ ToSet(bad) \subseteq ToSet(bad') /\ (spoilt => aside \in ToSet(bad'))
  <2> DEFINE F == [by : Boots, lines : Seq(Event)]
  <2>1. bad \in Seq(F) /\ aside \in F
    BY <1>12, <1>16
  <2> HIDE DEF F
  <2>2. bad' \in Seq(F) /\ ToSet(bad) \subseteq ToSet(bad') /\ (spoilt => aside \in ToSet(bad'))
    BY <1>15, <2>1, QuarantineGrows
  <2> QED
    BY <2>2 DEF F
<1>7. Steady'
  BY <1>1, <1>3, <1>4, <1>6, <1>17 DEF Steady
<1>8. InTurn'
  BY <1>1, <1>3, <1>4 DEF InTurn
<1>9. Told'
  <2> SUFFICES ASSUME NEW i \in DOMAIN spool', NEW k \in DOMAIN spool',
                      NEW j \in DOMAIN spool'[i], NEW l \in DOMAIN spool'[k],
                      i < k \/ (i = k /\ j < l),
                      spool'[i][j] = Gap(spool'[i][j].boot), spool'[i][j].boot \notin gapLost
               PROVE  May(spool'[i][j], spool'[k][l])
    BY SMTT(30), <1>1 DEF Told
  <2> DEFINE a == i + 1
             c == k + 1
  <2>1. a \in DOMAIN spool /\ c \in DOMAIN spool /\ (a < c \/ (a = c /\ j < l))
    BY <1>2
  <2>2. spool'[i] = spool[a] /\ spool'[k] = spool[c]
    BY <1>2
  <2> HIDE DEF a, c
  <2> QED
    BY <2>1, <2>2 DEF Told
<1>10. Written'
  <2>1. spool' # <<>> => \A j \in DOMAIN Head(spool') : ~(j <= offset')
    <3> SUFFICES ASSUME spool' # <<>>, NEW j \in DOMAIN Head(spool') PROVE ~(j <= 0)
      BY <1>1
    <3>1. spool' \in Seq(Seq(Event))
      BY <1>1
    <3>2. Head(spool') \in Seq(Event)
      BY <3>1, FileEnds
    <3> QED
      BY <3>2
  <2> QED
    BY <1>1, <1>3, <1>4, <2>1 DEF Written
<1>13. \A b \in Boots : Aside(b) \subseteq Aside(b)'
  BY <1>1, <1>17 DEF Aside
<1>14. ASSUME NEW e \in ToSet(spool[1]), e.kind \in RunKinds, ~e.sound
       PROVE  gap' /\ (e.boot # boot => e.rev \in Aside(e.boot)')
  <2>1. e \in Lines /\ e \in OnDisk
    BY <1>2, <1>3
  <2>2. e.rev \in 1 .. sent'[e.boot]
    BY <1>1, <1>14, <2>1 DEF Origin, OfRun
  <2>3. spoilt
    <3>1. PICK j \in DOMAIN spool[1] : e = spool[1][j]
      BY DEF ToSet
    <3> QED
      BY <1>2, <1>14, <3>1 DEF spoilt
  <2> QED
    BY <1>1, <1>14, <1>16, <1>17, <2>2, <2>3 DEF Aside
<1>11. Accounted'
  <2>1. \A e \in Held : e.kind \in RunKinds => e \in Held' \/ (e.boot = boot /\ gap') \/ e.rev \in Aside(e.boot)'
    <3> SUFFICES ASSUME NEW e \in Lines, e.kind \in RunKinds, e \notin Lines', e \notin db
                 PROVE  (e.boot = boot /\ gap') \/ e.rev \in Aside(e.boot)'
      BY <1>1, <1>3 DEF Held
    <3>1. e \in ToSet(spool[1]) /\ ~e.sound
      BY <1>2, <1>3, <1>5
    <3> QED
      BY <1>14, <3>1
  <2>2. Held' \subseteq Held
    BY <1>1, <1>3, <1>4 DEF Held
  <2>3. ASSUME NEW b \in Boots, Waiting(Gap(b)) PROVE Waiting(Gap(b))'
    <3>1. PICK i \in DOMAIN spool : \E j \in DOMAIN spool[i] : (i = 1 => j > offset) /\ spool[i][j] = Gap(b)
      BY <2>3 DEF Waiting
    <3>2. PICK j \in DOMAIN spool[i] : (i = 1 => j > offset) /\ spool[i][j] = Gap(b)
      BY <3>1
    <3>3. i # 1
      BY <1>1, <1>2, <3>2
    <3> DEFINE a == i - 1
    <3>4. a \in DOMAIN spool' /\ spool'[a] = spool[i]
      BY <1>2, <3>3
    <3>5. j > offset' /\ Gap(b)' = Gap(b)
      BY <1>1, <1>2 DEF Gap
    <3> HIDE DEF a
    <3> QED
      BY <3>2, <3>4, <3>5 DEF Waiting
  <2>4. \A b \in Boots : Telling(b) => Telling(b)'
    BY <1>1, <1>3, <1>6, <2>3 DEF Telling
  <2> QED
    BY <1>1, <1>6, <1>13, <2>1, <2>2, <2>4, KeepsAccounted DEF Excused
<1> QED
  BY <1>7, <1>8, <1>9, <1>10, <1>11

(* Recover. *)
LEMMA RecoverNInv == ASSUME AInv, NInv, Recover PROVE NInv'
<1> USE DEF AInv, NInv
<1>1. /\ UNCHANGED <<boot, sent, over, bad, queue, batch, dropped, gap, locked, offset, tmp, db, rows, gapLost>>
      /\ pc = "deliver" /\ pc' = "tick" /\ spool = <<>> /\ OnDisk = {}
      /\ spool' \in Seq(Seq(Event)) /\ OnDisk' = Lines' /\ Lines' \subseteq {Interruption(b) : b \in Interrupted}
  BY RecoverIs
<1>2. \A e \in Lines' : e.kind = "interrupted" /\ e.rev # 0
  <2>1. \A b \in Interrupted : rows[b].rev \in Nat
    BY DEF Interrupted, Shape, Row
  <2> QED
    BY <1>1, <2>1 DEF Interruption
<1>3. batch = <<>> /\ offset = 0 /\ locked /\ tmp = NoFile
  BY <1>1 DEF Steady, Shape
<1>4. InMemory' = InMemory /\ Settled' = db \cup Lines' /\ Settled = db /\ Lines = {}
  BY <1>1 DEF InMemory, Settled, Lines, LinesOf
<1>5. Steady'
  <2>1. \A b : Gap(b) \notin Lines'
    BY <1>2, GapIs
  <2> QED
    BY <1>1, <1>3, <1>4, <2>1 DEF Steady, Gap
<1>6. InTurn'
  <2>1. \A e \in Lines' : \A f \in InMemory : May(e, f)
    BY <1>2, GapIs DEF May
  <2> QED
    BY <1>1, <1>4, <2>1 DEF InTurn
<1>7. Told'
  <2>1. \A i \in DOMAIN spool' : \A j \in DOMAIN spool'[i] : spool'[i][j] \in Lines'
    BY DEF Lines, ToSet
  <2>2. \A e \in Lines' : e # Gap(e.boot)
    BY <1>2, GapIs
  <2> QED
    BY <2>1, <2>2 DEF Told, Gap
<1>8. Written'
  <2>1. spool' # <<>> => \A j \in DOMAIN Head(spool') : ~(j <= 0)
    <3> SUFFICES ASSUME spool' # <<>> PROVE \A j \in DOMAIN Head(spool') : ~(j <= 0)
      OBVIOUS
    <3>1. Head(spool') \in Seq(Event)
      BY <1>1, FileEnds
    <3> QED
      BY <3>1
  <2> QED
    BY <1>1, <1>2, <1>3, <2>1 DEF Written
<1>9. Accounted'
  <2>1. Held \subseteq Held' /\ \A e \in Held' : e \in Held \/ e.kind = "interrupted"
    BY <1>1, <1>2, <1>4 DEF Held
  <2>2. \A b \in Boots : ~Waiting(Gap(b))
    BY <1>1 DEF Waiting
  <2>3. \A b \in Boots : Telling(b) => Telling(b)'
    BY <1>1, <1>4, <2>2 DEF Telling, Gap
  <2> QED
    BY <1>1, <2>1, <2>3, MovesAccounted DEF Excused
<1> QED
  BY <1>5, <1>6, <1>7, <1>8, <1>9

(* A sequence and what follows it. *)
LEMMA Joined ==
  ASSUME NEW s \in Seq(Event), NEW t \in Seq(Event)
  PROVE  ToSet(s) \cup ToSet(t) \subseteq ToSet(s \o t)
<1>1. /\ DOMAIN (s \o t) = 1 .. Len(s) + Len(t) /\ DOMAIN s = 1 .. Len(s) /\ DOMAIN t = 1 .. Len(t)
      /\ Len(s) \in Nat /\ Len(t) \in Nat
      /\ \A i \in 1 .. Len(s) : (s \o t)[i] = s[i]
      /\ \A i \in 1 .. Len(t) : (s \o t)[Len(s) + i] = t[i]
  OBVIOUS
<1> DEFINE a == s \o t
<1> HIDE DEF a
<1>2. \A i \in DOMAIN s : i \in DOMAIN a /\ a[i] = s[i]
  BY <1>1 DEF a
<1>3. \A i \in DOMAIN t : Len(s) + i \in DOMAIN a /\ a[Len(s) + i] = t[i]
  BY <1>1 DEF a
<1>4. ToSet(s) \subseteq ToSet(a)
  BY <1>2 DEF ToSet
<1>5. ToSet(t) \subseteq ToSet(a)
  BY <1>3 DEF ToSet
<1> QED
  BY <1>4, <1>5 DEF a

(* What a process leaves behind: every file, and perhaps the beginning of the   *)
(* batch.  What is lost of memory was emitted after all that is left of it.     *)
LEMMA LeftBehind ==
  ASSUME AInv, NInv, Die \/ Exit
  PROVE  /\ OnDisk \subseteq OnDisk' /\ OnDisk' \subseteq OnDisk \cup InMemory \cup {Torn}
         /\ spool' \in Seq(Seq(Event)) /\ DOMAIN spool' \subseteq DOMAIN spool
         /\ \A i \in DOMAIN spool' : spool'[i] = spool[i]
         /\ tmp' # NoFile => (tmp' = tmp /\ ~locked) \/ ToSet(tmp') \subseteq InMemory \cup {Torn}
         /\ \A d \in OnDisk' : \A e \in InMemory \ OnDisk' :
              d \in Settled \/ d.kind = "torn" \/ d.boot # boot \/ May(d, e)
         /\ \A e : Waiting(e) => Waiting(e)' \/ e \in InMemory
<1> USE DEF AInv, NInv
<1>1. /\ batch \in Seq(Event) /\ DOMAIN batch = 1 .. Len(batch) /\ Len(batch) \in Nat
      /\ spool \in Seq(Seq(Event)) /\ offset \in Nat /\ offset' = 0
      /\ InMemory = ToSet(queue) \cup ToSet(batch)
  BY DEF Shape, Die, Exit, Restart, InMemory
<1>2. \A d \in OnDisk : d \in Settled \/ (tmp # NoFile /\ ~locked /\ d \in ToSet(tmp))
                        \/ (d \in ToSet(batch) /\ ToSet(batch) \subseteq OnDisk)
  <2>1. CASE pc = "sync"
    <3>1. spool # <<>> /\ Last(spool) = batch /\ locked /\ tmp = NoFile
      BY <2>1 DEF Shape, Steady
    <3>2. Lines = LinesOf(Front(spool)) \cup ToSet(batch)
      BY <1>1, <3>1, FileEnds DEF Lines, LinesOf
    <3>3. Settled = db \cup LinesOf(Front(spool)) /\ OnDisk = Lines
      BY <2>1, <3>1 DEF Settled, OnDisk
    <3> QED
      BY <3>2, <3>3
  <2>2. CASE pc # "sync"
    <3>1. \A d \in Lines : d \in Settled
      BY <2>2, SettledIs
    <3>2. tmp # NoFile /\ locked => tmp = batch
      BY DEF Shape
    <3> QED
      BY <3>1, <3>2 DEF OnDisk
  <2> QED
    BY <2>1, <2>2
<1>3. ASSUME OnDisk \subseteq OnDisk', NEW d \in OnDisk, NEW e \in InMemory \ OnDisk'
      PROVE  d \in Settled \/ d.kind = "torn" \/ d.boot # boot \/ May(d, e)
  <2>1. CASE tmp # NoFile /\ ~locked /\ d \in ToSet(tmp)
    BY <2>1 DEF Steady
  <2>2. CASE d \in ToSet(batch) /\ ToSet(batch) \subseteq OnDisk
    <3>1. e \in ToSet(queue)
      BY <1>1, <1>3, <2>2
    <3> QED
      BY <2>2, <3>1 DEF InTurn
  <2> QED
    BY <1>2, <2>1, <2>2
<1>4. ASSUME spool' = spool PROVE \A e : Waiting(e) => Waiting(e)'
  <2> SUFFICES ASSUME NEW e, NEW i \in DOMAIN spool, NEW j \in DOMAIN spool[i],
                      i = 1 => j > offset, spool[i][j] = e
               PROVE  i = 1 => j > offset'
    BY <1>4 DEF Waiting
  <2>1. i = 1 => j \in Nat /\ j > 0
    BY <1>1
  <2> QED
    BY <1>1, <2>1
<1>5. CASE UNCHANGED <<tmp, spool>>
  <2>1. OnDisk' = OnDisk
    BY <1>5 DEF OnDisk, Lines
  <2>2. tmp # NoFile /\ locked => ToSet(tmp) \subseteq InMemory
    BY <1>1 DEF Shape
  <2> QED
    BY <1>1, <1>3, <1>4, <1>5, <2>1, <2>2
<1>6. CASE pc = "write" /\ UNCHANGED spool /\ \E n \in 0 .. Len(batch) - 1 : \E torn \in {<<>>, <<Torn>>} :
                                                 tmp' = SubSeq(batch, 1, n) \o torn
  <2>1. PICK n \in 0 .. Len(batch) - 1, torn \in {<<>>, <<Torn>>} : tmp' = SubSeq(batch, 1, n) \o torn
    BY <1>6
  <2> DEFINE q == SubSeq(batch, 1, n)
  <2>2. n \in 0 .. Len(batch) /\ 1 \in 1 .. Len(batch) + 1 /\ Torn \in Event
    BY SMTT(30), <1>1 DEF Torn, Event
  <2>3. q \in Seq(Event) /\ DOMAIN q = 1 .. n /\ \A i \in 1 .. n : q[i] = batch[i]
    BY <1>1, <2>2, Part, Cut
  <2>4. tmp' = q \o torn
    BY <2>1
  <2> HIDE DEF q
  <2>5. /\ ToSet(q) \subseteq ToSet(tmp') /\ ToSet(tmp') \subseteq ToSet(q) \cup {Torn}
    <3>1. CASE torn = <<>>
      BY <2>2, <2>3, <2>4, <3>1, AddEvent
    <3>2. CASE torn = <<Torn>>
      <4>1. <<Torn>> \in Seq(Event)
        BY <2>2
      <4> QED
        BY <2>2, <2>3, <2>4, <3>2, <4>1, Joined, AddEvent
    <3> QED
      BY <3>1, <3>2
  <2>6. ToSet(q) \subseteq ToSet(batch)
    BY <1>1, <2>2, <2>3 DEF ToSet
  <2>7. tmp = NoFile /\ Lines' = Lines /\ OnDisk = Lines
    BY <1>6 DEF Shape, Lines, OnDisk
  <2>8. OnDisk \subseteq OnDisk' /\ OnDisk' \subseteq OnDisk \cup ToSet(tmp')
    BY <2>7 DEF OnDisk
  <2>9. ASSUME NEW d \in ToSet(q), NEW e \in InMemory, e \notin ToSet(q) PROVE May(d, e)
    <3>1. PICK i \in 1 .. n : d = batch[i]
      BY <2>3 DEF ToSet
    <3>2. d \in ToSet(batch)
      BY <2>6
    <3>3. CASE e \in ToSet(queue)
      BY <3>2, <3>3 DEF InTurn
    <3>4. CASE e \in ToSet(batch)
      <4>1. PICK j \in 1 .. Len(batch) : e = batch[j]
        BY <1>1, <3>4 DEF ToSet
      <4>2. ~(j \in 1 .. n)
        BY <2>3, <2>9, <4>1 DEF ToSet
      <4>3. i < j /\ i \in DOMAIN batch /\ j \in DOMAIN batch
        BY <1>1, <2>2, <4>2
      <4> QED
        BY <3>1, <4>1, <4>3 DEF InTurn
    <3> QED
      BY <1>1, <3>3, <3>4
  <2>10. tmp' # NoFile
    <3>1. <<>> \in Seq(Event) /\ <<Torn>> \in Seq(Event)
      BY <2>2
    <3>2. tmp' = q \o <<>> \/ tmp' = q \o <<Torn>>
      BY <2>4
    <3>3. q \o <<>> \in Seq(Event) /\ q \o <<Torn>> \in Seq(Event)
      BY <2>3, <3>1
    <3> QED
      BY <3>2, <3>3, NoFileAssumption
  <2>11. ToSet(tmp') \subseteq OnDisk'
    BY <2>10 DEF OnDisk
  <2>12. \A d \in OnDisk' : \A e \in InMemory \ OnDisk' :
           d \in Settled \/ d.kind = "torn" \/ d.boot # boot \/ May(d, e)
    <3> SUFFICES ASSUME NEW d \in OnDisk', NEW e \in InMemory \ OnDisk', d \notin OnDisk
                 PROVE  d.kind = "torn" \/ May(d, e)
      BY <1>3, <2>8
    <3>1. d \in ToSet(q) \/ d = Torn
      BY <2>5, <2>8
    <3>2. e \notin ToSet(q)
      BY <2>5, <2>11
    <3> QED
      BY <2>9, <3>1, <3>2 DEF Torn
  <2> QED
    BY <1>1, <1>4, <1>6, <2>5, <2>6, <2>8, <2>12
<1>7. CASE pc = "sync" /\ spool' = Front(spool) /\ tmp' = Last(spool)
  <2>1. /\ spool # <<>> /\ Last(spool) = batch /\ DOMAIN spool = 1 .. Len(spool) /\ Len(spool) \in Nat \ {0}
        /\ Last(spool) = spool[Len(spool)]
        /\ DOMAIN spool' = 1 .. Len(spool) - 1 /\ \A i \in 1 .. Len(spool) - 1 : spool'[i] = spool[i]
        /\ LinesOf(spool) = LinesOf(spool') \cup ToSet(batch) /\ spool' \in Seq(Seq(Event))
    BY <1>1, <1>7, FileEnds, TakeFile DEF Shape, Steady
  <2>2. OnDisk = LinesOf(spool) /\ ToSet(batch) \subseteq InMemory
    BY <1>1, <1>7 DEF Shape, OnDisk, Lines, LinesOf
  <2>3. OnDisk \subseteq OnDisk' /\ OnDisk' \subseteq OnDisk
    <3>1. OnDisk' = LinesOf(spool') \cup (IF batch = NoFile THEN {} ELSE ToSet(batch))
      BY <1>7, <2>1 DEF OnDisk, Lines, LinesOf
    <3>2. batch # NoFile
      BY <1>1, NoFileAssumption
    <3> QED
      BY <2>1, <2>2, <3>1, <3>2
  <2>4. ASSUME NEW e, Waiting(e) PROVE Waiting(e)' \/ e \in InMemory
    <3>1. PICK i \in DOMAIN spool : \E j \in DOMAIN spool[i] : (i = 1 => j > offset) /\ spool[i][j] = e
      BY <2>4 DEF Waiting
    <3>2. PICK j \in DOMAIN spool[i] : (i = 1 => j > offset) /\ spool[i][j] = e
      BY <3>1
    <3>3. CASE i = Len(spool)
      BY <2>1, <2>2, <3>2, <3>3 DEF ToSet
    <3>4. CASE i # Len(spool)
      <4>1. i \in DOMAIN spool' /\ spool'[i] = spool[i]
        BY <2>1, <3>4
      <4>2. i = 1 => j > offset'
        BY <1>1, <3>2
      <4> QED
        BY <3>2, <4>1, <4>2 DEF Waiting
    <3> QED
      BY <3>3, <3>4
  <2> QED
    BY <1>3, <1>7, <2>1, <2>2, <2>3, <2>4
<1> QED
  BY <1>5, <1>6, <1>7 DEF Die, Exit, files

(* The process ends: what it had in memory and not in a file is lost.  Either   *)
(* it was a gap event, or the broadcast has no end.                             *)
LEMMA RestartNInv == ASSUME AInv, NInv, Die \/ Exit PROVE NInv'
<1> USE DEF AInv, NInv
<1>1. /\ UNCHANGED <<sent, over, bad, db, rows>> /\ boot' = boot + 1
      /\ queue' = <<>> /\ batch' = <<>> /\ dropped' = FALSE /\ gap' = FALSE /\ locked' = FALSE
      /\ offset' = 0 /\ pc' = "tick"
      /\ gapLost' = IF GapInMemory THEN gapLost \cup {boot} ELSE gapLost
  BY DEF Die, Exit, Restart, files, database
<1>2. /\ OnDisk \subseteq OnDisk' /\ OnDisk' \subseteq OnDisk \cup InMemory \cup {Torn}
      /\ spool' \in Seq(Seq(Event)) /\ DOMAIN spool' \subseteq DOMAIN spool
      /\ \A i \in DOMAIN spool' : spool'[i] = spool[i]
      /\ tmp' # NoFile => (tmp' = tmp /\ ~locked) \/ ToSet(tmp') \subseteq InMemory \cup {Torn}
  BY LeftBehind
<1>3. /\ \A d \in OnDisk' : \A e \in InMemory \ OnDisk' :
           d \in Settled \/ d.kind = "torn" \/ d.boot # boot \/ May(d, e)
      /\ \A e : Waiting(e) => Waiting(e)' \/ e \in InMemory
  BY LeftBehind
<1>4. DOMAIN queue' = {} /\ DOMAIN batch' = {} /\ InMemory' = {} /\ ToSet(batch') = {}
  BY <1>1 DEF InMemory, ToSet
<1>5. boot \in Nat /\ Torn.kind = "torn" /\ Lines' \subseteq OnDisk'
  BY SoFar DEF Torn, OnDisk
<1>6. gap \/ Gap(boot) \in InMemory => boot \in gapLost'
  <2>1. InMemory \subseteq ToSet(queue \o batch)
    BY Joined DEF InMemory, Shape
  <2> QED
    BY <1>1, <2>1 DEF GapInMemory
<1>7. Steady'
  <2>1. \A e \in OnDisk' : e.kind # "torn" => e.boot \in 1 .. boot
    <3>1. boot \in 1 .. boot
      BY <1>5 DEF Shape, Boots
    <3> QED
      BY <1>2, <1>5, <3>1 DEF Origin
  <2>2. Gap(boot') \notin Lines'
    BY <1>1, <1>5, <2>1, GapIs
  <2>3. ASSUME tmp' # NoFile, NEW e \in ToSet(tmp')
        PROVE  (e.boot = boot' => e.kind = "torn") /\ (e = Gap(e.boot) => e.boot \in gapLost')
    <3>1. e \in OnDisk'
      BY <2>3 DEF OnDisk
    <3>2. e.boot = boot' => e.kind = "torn"
      BY <1>1, <1>5, <2>1, <3>1
    <3>3. CASE tmp' = tmp /\ ~locked
      BY <1>1, <2>3, <3>2, <3>3 DEF Steady
    <3>4. CASE e \in InMemory
      BY <1>6, <3>2, <3>4 DEF Origin
    <3>5. CASE e = Torn
      BY <1>5, <3>2, <3>5, GapIs
    <3> QED
      BY <1>2, <2>3, <3>3, <3>4, <3>5
  <2>4. \A b \in Boots : b > boot' => sent'[b] = 0
    <3>1. \A b \in Boots : b > boot + 1 => b > boot
      BY <1>5 DEF Boots
    <3> QED
      BY <1>1, <3>1 DEF Steady
  <2>5. Gap(boot)' = Gap(boot')
    BY DEF Gap
  <2> QED
    BY <1>1, <1>4, <2>2, <2>3, <2>4, <2>5 DEF Steady, Gap
<1>8. InTurn'
  BY <1>4 DEF InTurn
<1>9. Told'
  <2> SUFFICES ASSUME NEW i \in DOMAIN spool', NEW k \in DOMAIN spool',
                      NEW j \in DOMAIN spool'[i], NEW l \in DOMAIN spool'[k],
                      i < k \/ (i = k /\ j < l),
                      spool'[i][j] = Gap(spool'[i][j].boot), spool'[i][j].boot \notin gapLost'
               PROVE  May(spool'[i][j], spool'[k][l])
    BY DEF Told, Gap, May
  <2>1. i \in DOMAIN spool /\ k \in DOMAIN spool /\ spool'[i] = spool[i] /\ spool'[k] = spool[k]
    BY <1>2
  <2>2. gapLost \subseteq gapLost'
    BY <1>1
  <2> QED
    BY <2>1, <2>2 DEF Told
<1>10. Written'
  <2>1. spool' # <<>> => \A j \in DOMAIN Head(spool') : ~(j <= 0)
    <3> SUFFICES ASSUME spool' # <<>> PROVE \A j \in DOMAIN Head(spool') : ~(j <= 0)
      OBVIOUS
    <3>1. Head(spool') \in Seq(Event)
      BY <1>2, FileEnds
    <3> QED
      BY <3>1
  <2>2. \A e \in OnDisk' : e.kind = "interrupted" => e.rev # 0
    BY <1>2, <1>5 DEF Origin, Written, RunKinds
  <2> QED
    BY <1>1, <2>1, <2>2 DEF Written
<1>11. Accounted'
  <2>1. Held' = OnDisk' \cup db /\ Held' \subseteq Held \cup {Torn}
    BY <1>1, <1>2, <1>4 DEF Held
  <2>2. ASSUME NEW b \in Boots, Excused(b) PROVE Excused(b)'
    <3>1. CASE b \in gapLost \/ rows[b].incomplete
      BY <1>1, <3>1 DEF Excused
    <3>2. CASE Telling(b)
      <4>1. Gap(b) \in InMemory => b = boot
        BY GapIs DEF Origin
      <4>2. Waiting(Gap(b)) => Waiting(Gap(b))' \/ Gap(b) \in InMemory
        BY <1>3
      <4>3. b \in gapLost' \/ Waiting(Gap(b))'
        BY <1>6, <3>2, <4>1, <4>2 DEF Telling
      <4>4. Gap(b)' = Gap(b)
        BY DEF Gap
      <4> QED
        BY <4>3, <4>4 DEF Excused, Telling
    <3>3. CASE Marked(b)
      <4>1. b <= boot' /\ b # boot'
        BY <1>1, <1>5, <3>3, SoFar DEF Marked, Shape
      <4>2. \A e \in Held' : e.boot = b /\ e.kind = "end" /\ e.sound => e.incomplete
        BY <1>5, <2>1, <3>3 DEF Marked
      <4> QED
        BY <4>1, <4>2 DEF Excused, Marked
    <3> QED
      BY <2>2, <3>1, <3>2, <3>3 DEF Excused
  <2>3. ASSUME NEW b \in Boots, NEW r, Kept(b, r) PROVE Kept(b, r)' \/ Excused(b)'
    <3>4. CASE r \in Aside(b)
      BY <1>1, <3>4 DEF Kept, Aside
    <3> SUFFICES ASSUME r \notin Aside(b) PROVE Kept(b, r)' \/ Excused(b)'
      BY <3>4
    <3>1. PICK e \in Held : e.boot = b /\ e.kind \in RunKinds /\ e.rev = r
      BY <2>3 DEF Kept
    <3>2. CASE e \in Held'
      BY <3>1, <3>2 DEF Kept
    <3>3. CASE e \notin Held'
      <4>1. e \in InMemory \ OnDisk' /\ b = boot
        BY <1>2, <2>1, <3>1, <3>3 DEF Held, Origin
      <4>2. ASSUME NEW d \in Held', d.boot = b, d.kind = "end" PROVE FALSE
        <5>1. CASE d \in Settled
          <6>1. May(d, e)
            BY <4>1, <5>1 DEF InTurn
          <6> QED
            BY <3>1, <4>2, <6>1 DEF May
        <5>2. CASE d \notin Settled
          <6>1. d \in OnDisk'
            BY <2>1, <4>2, <5>2 DEF Settled
          <6>2. May(d, e)
            BY <1>3, <4>1, <4>2, <5>2, <6>1
          <6> QED
            BY <3>1, <4>2, <6>2 DEF May
        <5> QED
          BY <5>1, <5>2
      <4>3. b <= boot' /\ b # boot'
        BY <1>1, <1>5, <4>1
      <4> QED
        BY <4>2, <4>3 DEF Excused, Marked
    <3> QED
      BY <3>2, <3>3
  <2> QED
    BY <1>1, <2>2, <2>3 DEF Accounted
<1> QED
  BY <1>7, <1>8, <1>9, <1>10, <1>11

(* Every step keeps the invariant. *)
LEMMA NextNInv == AInv /\ NInv /\ [SpoolNext]_spoolVars => NInv'
<1> SUFFICES ASSUME AInv, NInv, [SpoolNext]_spoolVars PROVE NInv'
  OBVIOUS
<1>1. CASE Close \/ UNCHANGED spoolVars
  <2>1. UNCHANGED <<boot, sent, over, bad, queue, batch, dropped, gap, locked, offset, pc, tmp, spool, db, rows, gapLost>>
    BY <1>1 DEF Close, spoolVars, memory, files, database
  <2> QED
    BY <2>1, IdleNInv DEF AInv
<1> QED
  BY <1>1, EmitNInv, AggregatesNInv, AcquireNInv, AcquireFailsNInv, DrainNInv, WriteBatchNInv, RenameBatchNInv,
     AppendedNInv, AppendFailsNInv, DeliverNInv, DeliveredNInv, RecoverNInv, RestartNInv DEF SpoolNext, Loop

(* When nothing is left in memory and in files, no loss is still to be told,    *)
(* and the end that a row has seen is in the database.                          *)
LEMMA AccountedAtRest == AInv /\ NInv => NoSilentLoss
<1> SUFFICES ASSUME AInv, NInv, AtRest, NEW b \in Boots,
                    rows[b].status = "ended", ~rows[b].incomplete, b \notin gapLost
             PROVE  Recorded(b) \cup Aside(b) = 1 .. sent[b]
  BY DEF NoSilentLoss
<1> USE DEF AInv, NInv
<1>1. InMemory = {} /\ OnDisk = {} /\ DOMAIN spool = {} /\ ~gap
  BY DEF AtRest, InMemory, OnDisk, Lines, ToSet
<1>2. Held = db
  BY <1>1 DEF Held
<1>3. \E e \in db : e.boot = b /\ e.kind = "end"
  BY DEF Written
<1>4. ~Marked(b)
  BY <1>2, <1>3 DEF Marked, Written
<1>5. ~Telling(b)
  BY <1>1 DEF Telling, Waiting
<1>6. \A r \in 1 .. sent[b] : Kept(b, r)
  BY <1>4, <1>5 DEF Accounted, Excused
<1>7. 1 .. sent[b] \subseteq Recorded(b) \cup Aside(b)
  BY <1>2, <1>6 DEF Kept, Recorded, RunKinds
<1>8. Recorded(b) \subseteq 1 .. sent[b]
  BY DEF Recorded, Origin, OfRun, Written
<1>9. Aside(b) \subseteq 1 .. sent[b]
  BY DEF Aside
<1> QED
  BY <1>7, <1>8, <1>9

(* A broadcast that the database calls ended and complete has lost no event,    *)
(* for any queue, batches, directory, number of starts, errors of the disk and  *)
(* rows that the database refuses (recorder.go, Emit, loop, appendBatch and     *)
(* deliver; mysql.go, Write), except to a gap that died with its process and to *)
(* the file in which a later process put aside what the database refused.       *)
THEOREM NothingIsLostSilently == SpoolSpec => []NoSilentLoss
<1>1. SpoolInit => AInv
  BY InitAInv
<1>2. SpoolInit => NInv
  <2> SUFFICES ASSUME SpoolInit PROVE NInv
    OBVIOUS
  <2>1. Shape /\ InMemory = {} /\ OnDisk = {} /\ Lines = {}
    BY InitAInv DEF SpoolInit, AInv, InMemory, OnDisk, Lines, ToSet
  <2>2. DOMAIN queue = {} /\ DOMAIN batch = {} /\ DOMAIN spool = {} /\ ToSet(batch) = {}
    BY DEF SpoolInit, ToSet
  <2>3. Steady
    BY <2>1 DEF SpoolInit, Steady
  <2>4. InTurn /\ Told
    BY <2>1, <2>2 DEF InTurn, Told
  <2>5. Written
    BY <2>1 DEF SpoolInit, Written, NoRow
  <2>6. Accounted
    BY DEF SpoolInit, Accounted
  <2> QED
    BY <2>3, <2>4, <2>5, <2>6 DEF NInv
<1> QED
  BY <1>1, <1>2, NextAInv, NextNInv, AccountedAtRest, PTL DEF SpoolSpec
=============================================================================
