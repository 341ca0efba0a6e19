----------------------------- MODULE AuditSpool -----------------------------
(***************************************************************************)
(* The audit recorder (internal/audit/recorder.go) and what it does to the *)
(* database (internal/audit/mysql.go), over several starts of the process: *)
(* a bounded queue, batches written to spool files, delivery of the files, *)
(* and the reconciliation of broadcasts that a dead process left open.     *)
(*                                                                         *)
(* Each start ("boot") has at most one broadcast, of which events are      *)
(* emitted; their number in the run is the revision.  An event is sound if *)
(* it can be read back and the database accepts its row.  Other events are *)
(* left out, but for the gap event that stands for dropped ones.  Nothing  *)
(* expires.                                                                *)
(***************************************************************************)
EXTENDS Integers, Sequences, FiniteSets, SequencesExt

CONSTANTS
  QueueSize,    \* 4096 in the code
  BatchSize,    \* 256
  MaxLines,     \* what the directory may hold: 512 MiB
  MaxBoots,     \* bound: starts of the process
  MaxEvents,    \* bound: events of all broadcasts
  MaxFaults,    \* bound: errors of the disk, and rows that the database refuses
  NoFile

ASSUME SpoolAssumption == 
  {QueueSize, BatchSize, MaxLines, MaxBoots, MaxEvents} \subseteq Nat \ {0} /\ MaxFaults \in Nat

Boots == 1 .. MaxBoots

(* Events of a broadcast, the gap event, what Recover adds, and a torn line. *)
RunKinds == {"create", "change", "end"}
Event == [boot : Nat, kind : RunKinds \cup {"gap", "interrupted", "torn"}, rev : Nat, incomplete : BOOLEAN,
          sound : BOOLEAN]

ASSUME NoFileAssumption == NoFile \notin Seq(Event)

VARIABLES
  boot,
  sent, over,     \* how many events each boot's broadcast has emitted; whether the end is one
  queue, batch,   \* events in memory
  dropped, gap,   \* events have been dropped; no gap event has been queued for some
  closed,         \* Close has been called
  locked,         \* the spool directory has been acquired
  stopping,       \* loop has seen it
  pc,             \* where loop is
  offset,         \* lines of the first file that have been delivered
  recovered,
  tmp, spool,     \* on disk: the temporary file, and the files in the order of their names
  bad,            \* on disk: the files that were put aside, and (history) by which boot
  faults,         \* how many faults there have been
  db, rows,       \* the database: events, and the broadcast of each boot
  gapLost         \* history: boots that ended with a gap that nobody will hear of

memory == <<queue, batch, dropped, gap, closed, locked, stopping, offset, recovered>>
files == <<tmp, spool, bad, faults>>
database == <<db, rows>>
spoolVars == <<boot, sent, over, memory, pc, files, database, gapLost>>

Gap(b) == [boot |-> b, kind |-> "gap", rev |-> 0, incomplete |-> FALSE, sound |-> TRUE]
Torn == [boot |-> 0, kind |-> "torn", rev |-> 0, incomplete |-> FALSE, sound |-> FALSE]

NoRow == [status |-> "absent", rev |-> 0, incomplete |-> FALSE]

SpoolInit ==
  /\ boot = 1
  /\ sent = [b \in Boots |-> 0] /\ over = {}
  /\ queue = <<>> /\ batch = <<>> /\ dropped = FALSE /\ gap = FALSE
  /\ closed = FALSE /\ locked = FALSE /\ stopping = FALSE /\ offset = 0 /\ recovered = FALSE
  /\ pc = "tick"
  /\ tmp = NoFile /\ spool = <<>> /\ bad = <<>> /\ faults = 0
  /\ db = {} /\ rows = [b \in Boots |-> NoRow]
  /\ gapLost = {}

-----------------------------------------------------------------------------
(* Emit: the event is queued, marked if anything was dropped before, or       *)
(* dropped if the queue is full.                                              *)
enqueueLocked(e) ==
  IF Len(queue) < QueueSize
  THEN queue' = Append(queue, [e EXCEPT !.incomplete = dropped]) /\ UNCHANGED <<dropped, gap>>
  ELSE dropped' = TRUE /\ gap' = TRUE /\ UNCHANGED queue

Emitted == FoldSeq(+, 0, sent)

Fault == faults < MaxFaults /\ faults' = faults + 1

Emit ==
  /\ ~closed /\ boot \notin over /\ Emitted < MaxEvents
  /\ sent' = [sent EXCEPT ![boot] = @ + 1]
  /\ \E kind \in IF sent[boot] = 0 THEN {"create"} ELSE {"change", "end"}, sound \in BOOLEAN :
       /\ enqueueLocked([boot |-> boot, kind |-> kind, rev |-> sent'[boot], incomplete |-> FALSE,
                         sound |-> sound])
       /\ over' = IF kind = "end" THEN over \cup {boot} ELSE over
       /\ IF sound THEN UNCHANGED faults ELSE Fault
  /\ UNCHANGED <<boot, batch, closed, locked, stopping, offset, recovered, pc, tmp, spool, bad, database, gapLost>>

(* The last process is not told to stop. *)
Close ==
  /\ ~closed /\ boot < MaxBoots
  /\ closed' = TRUE
  /\ UNCHANGED <<boot, sent, over, queue, batch, dropped, gap, locked, stopping, offset, recovered, pc, files,
                 database, gapLost>>

-----------------------------------------------------------------------------
(* loop takes the ticker or sees that it has to stop; aggregates queues the    *)
(* gap event when there is room for it.                                        *)
aggregates ==
  /\ pc = "tick"
  /\ stopping' \in {FALSE, closed}
  /\ IF gap /\ Len(queue) < QueueSize
     THEN queue' = Append(queue, Gap(boot)) /\ gap' = FALSE
     ELSE UNCHANGED <<queue, gap>>
  /\ pc' = IF locked THEN "drain" ELSE "acquire"
  /\ UNCHANGED <<boot, sent, over, batch, dropped, closed, locked, offset, recovered, files,
                 database, gapLost>>

Dropping(events) == /\ dropped' = (dropped \/ events # <<>>)
                    /\ gap' = (gap \/ events # <<>>)

(* The process is over; whatever it had in memory is lost. *)
Restart ==
  /\ boot' = boot + 1
  /\ queue' = <<>> /\ batch' = <<>> /\ dropped' = FALSE /\ gap' = FALSE
  /\ closed' = FALSE /\ locked' = FALSE /\ stopping' = FALSE /\ offset' = 0 /\ recovered' = FALSE
  /\ pc' = "tick"

GapInMemory == gap \/ Gap(boot) \in ToSet(queue \o batch)

(* acquire: the lock on the directory, and a temporary file that an earlier   *)
(* process left becomes the first file.  Without it the queue is discarded.   *)
acquire ==
  /\ pc = "acquire"
  /\ locked' = TRUE
  /\ spool' = IF tmp = NoFile THEN spool ELSE <<tmp>> \o spool
  /\ tmp' = NoFile
  /\ pc' = "drain"
  /\ UNCHANGED <<boot, sent, over, queue, batch, dropped, gap, closed, stopping, offset, recovered, bad, faults,
                 database, gapLost>>

AcquireFails ==
  /\ pc = "acquire" /\ Fault
  /\ Dropping(queue)
  /\ queue' = <<>>
  /\ pc' = IF stopping THEN "exit" ELSE "tick"
  /\ UNCHANGED <<boot, sent, over, batch, closed, locked, stopping, offset, recovered, tmp, spool, bad, database,
                 gapLost>>

(* After the batch: a recorder that stops goes on until the queue is empty,   *)
(* and does not wait for the database.                                        *)
Spooled(rest) == CASE ~stopping -> "deliver" [] stopping /\ rest # <<>> -> "tick" [] OTHER -> "exit"

Drain ==
  LET n == IF Len(queue) < BatchSize THEN Len(queue) ELSE BatchSize
  IN /\ pc = "drain"
     /\ batch' = SubSeq(queue, 1, n)
     /\ queue' = SubSeq(queue, n + 1, Len(queue))
     /\ pc' = IF n = 0 THEN Spooled(<<>>) ELSE "write"
     /\ UNCHANGED <<boot, sent, over, dropped, gap, closed, locked, stopping, offset, recovered, files,
                    database, gapLost>>

(* appendBatch: a temporary file is written and synced, *)
Lines == UNION {ToSet(spool[i]) : i \in DOMAIN spool}
Quarantined == FoldSeq(LAMBDA f, n : n + Len(f.lines), 0, bad)
Size == FoldSeq(LAMBDA file, n : n + Len(file), Quarantined, spool)
Fits == Size + Len(batch) <= MaxLines

WriteBatch ==
  /\ pc = "write" /\ Fits
  /\ tmp' = batch
  /\ pc' = "rename"
  /\ UNCHANGED <<boot, sent, over, memory, spool, bad, faults, database, gapLost>>

(* renamed, *)
RenameBatch ==
  /\ pc = "rename"
  /\ spool' = Append(spool, tmp) /\ tmp' = NoFile
  /\ pc' = "sync"
  /\ UNCHANGED <<boot, sent, over, memory, bad, faults, database, gapLost>>

(* and the directory synced.  If there is no room, and after an error at any  *)
(* point, the batch is dropped, at the last one although the file stays.      *)
Appended ==
  /\ pc = "sync"
  /\ batch' = <<>>
  /\ pc' = Spooled(queue)
  /\ UNCHANGED <<boot, sent, over, queue, dropped, gap, closed, locked, stopping, offset, recovered, files,
                 database, gapLost>>

AppendFails_Silent ==
  /\ \/ pc = "write" /\ ~Fits /\ UNCHANGED faults
     \/ pc \in {"write", "rename", "sync"} /\ Fault
  /\ UNCHANGED <<dropped, gap>>
  /\ batch' = <<>> /\ tmp' = NoFile
  /\ pc' = Spooled(queue)
  /\ UNCHANGED <<boot, sent, over, queue, closed, locked, stopping, offset, recovered, spool, bad,
                 database, gapLost>>

AppendFails ==
  /\ \/ pc = "write" /\ ~Fits /\ UNCHANGED faults
     \/ pc \in {"write", "rename", "sync"} /\ Fault
  /\ Dropping(batch)
  /\ batch' = <<>> /\ tmp' = NoFile
  /\ pc' = Spooled(queue)
  /\ UNCHANGED <<boot, sent, over, queue, closed, locked, stopping, offset, recovered, spool, bad,
                 database, gapLost>>

-----------------------------------------------------------------------------
(* MySQL.Write: an event that is in the database already is skipped (that a   *)
(* gap event is applied again changes nothing), and a row that the database   *)
(* refuses is rolled back.  The row of the broadcast is replaced by a later   *)
(* revision only, and what is incomplete stays so; an event before the        *)
(* creation makes it incomplete.                                              *)
StatusOf(e) == CASE e.kind = "end" -> "ended" [] e.kind = "interrupted" -> "interrupted" [] OTHER -> "live"

upsert_Last(row, e) ==
  [status |-> StatusOf(e), rev |-> e.rev,
   incomplete |-> row.incomplete \/ e.incomplete \/ (e.kind # "create" /\ row.status = "absent")]

upsert(row, e) ==
  [status |-> IF row.rev < e.rev THEN StatusOf(e) ELSE row.status,
   rev |-> IF row.rev < e.rev THEN e.rev ELSE row.rev,
   incomplete |-> row.incomplete \/ e.incomplete \/ (e.kind # "create" /\ row.status = "absent")]

Write(e) ==
  CASE ~e.sound -> UNCHANGED database
    [] e.sound /\ e.kind = "gap" ->
         /\ rows' = [rows EXCEPT ![e.boot].incomplete = @ \/ rows[e.boot].status # "absent"]
         /\ UNCHANGED db
    [] e.sound /\ e.kind # "gap" ->
         /\ db' = db \cup {e}
         /\ rows' = IF e \in db THEN rows ELSE [rows EXCEPT ![e.boot] = upsert(@, e)]

(* deliver: line by line, and a file is removed after its last line.  Lines   *)
(* that cannot be read and rows that the database refuses (invalidRow) are    *)
(* skipped; their file is put aside and counts as dropped by this process.    *)
DeliverLine_NoOffset ==
  /\ pc = "deliver" /\ spool # <<>> /\ offset < Len(Head(spool))
  /\ Write(Head(spool)[offset + 1])
  /\ offset' = Len(Head(spool))
  /\ UNCHANGED <<boot, sent, over, queue, batch, dropped, gap, closed, locked, stopping, recovered, pc, files,
                 gapLost>>

DeliverLine ==
  /\ pc = "deliver" /\ spool # <<>> /\ offset < Len(Head(spool))
  /\ Write(Head(spool)[offset + 1])
  /\ offset' = offset + 1
  /\ UNCHANGED <<boot, sent, over, queue, batch, dropped, gap, closed, locked, stopping, recovered, pc, files,
                 gapLost>>

(* The database is not ready, or the answer to a write does not come.         *)
DeliverFails ==
  /\ pc = "deliver"
  /\ \/ UNCHANGED database
     \/ spool # <<>> /\ offset < Len(Head(spool)) /\ Write(Head(spool)[offset + 1])
  /\ pc' = "tick"
  /\ UNCHANGED <<boot, sent, over, memory, files, gapLost>>

Delivered ==
  LET spoilt == \E i \in DOMAIN Head(spool) : ~Head(spool)[i].sound
  IN /\ pc = "deliver" /\ spool # <<>> /\ offset = Len(Head(spool))
     /\ spool' = Tail(spool) /\ offset' = 0
     /\ bad' = IF spoilt THEN Append(bad, [by |-> boot, lines |-> Head(spool)]) ELSE bad
     /\ dropped' = (dropped \/ spoilt) /\ gap' = (gap \/ spoilt)
     /\ UNCHANGED <<boot, sent, over, queue, batch, closed, locked, stopping, recovered, pc, tmp, faults, database,
                    gapLost>>

(* Recover: broadcasts of other boots that are open are interrupted.  Their   *)
(* events are spooled, and the next round delivers them and looks again.      *)
Interrupted == {b \in Boots : b # boot /\ rows[b].status = "live"}

Interruption_SameRevision(b) ==
  [boot |-> b, kind |-> "interrupted", rev |-> rows[b].rev, incomplete |-> TRUE, sound |-> TRUE]

Interruption(b) ==
  [boot |-> b, kind |-> "interrupted", rev |-> rows[b].rev + 1, incomplete |-> TRUE, sound |-> TRUE]

Recover ==
  LET events == SetToSeq({Interruption(b) : b \in Interrupted})
  IN /\ pc = "deliver" /\ spool = <<>>
     /\ recovered' = (recovered \/ events = <<>>)
     /\ spool' = IF recovered \/ events = <<>> \/ Size + Len(events) > MaxLines
                THEN spool ELSE Append(spool, events)
     /\ pc' = "tick"
     /\ UNCHANGED <<boot, sent, over, queue, batch, dropped, gap, closed, locked, stopping, offset, tmp, bad,
                    faults, database, gapLost>>

-----------------------------------------------------------------------------
(* The process dies.  A temporary file that is being written has some of its  *)
(* lines, the last perhaps torn; a rename may not have reached the disk.      *)
Die ==
  /\ boot < MaxBoots
  /\ \/ UNCHANGED <<tmp, spool>>
     \/ /\ pc = "write"
        /\ \E n \in 0 .. Len(batch) - 1 : \E torn \in {<<>>, <<Torn>>} :
             tmp' = SubSeq(batch, 1, n) \o torn
        /\ UNCHANGED spool
     \/ /\ pc = "sync"
        /\ spool' = Front(spool) /\ tmp' = Last(spool)
  /\ Restart
  /\ gapLost' = IF GapInMemory THEN gapLost \cup {boot} ELSE gapLost
  /\ UNCHANGED <<sent, over, bad, faults, database>>

(* The recorder has stopped, and the process starts again. *)
Exit ==
  /\ pc = "exit" /\ boot < MaxBoots
  /\ Restart
  /\ gapLost' = IF GapInMemory THEN gapLost \cup {boot} ELSE gapLost
  /\ UNCHANGED <<sent, over, files, database>>

Loop ==
  \/ aggregates \/ acquire \/ Drain \/ WriteBatch \/ RenameBatch \/ Appended \/ AppendFails
  \/ DeliverLine \/ Delivered \/ Recover

SpoolNext ==
  \/ Emit \/ Close
  \/ Loop \/ AcquireFails \/ DeliverFails
  \/ Die \/ Exit

SpoolSpec == SpoolInit /\ [][SpoolNext]_spoolVars

(* The loop goes on, and the database works again and again. *)
FairSpoolSpec ==
  /\ SpoolSpec
  /\ WF_spoolVars(Loop \/ Exit)
  /\ SF_spoolVars(DeliverLine \/ Delivered \/ Recover)

-----------------------------------------------------------------------------
(* Revisions of the broadcast of b that the database has, *)
Recorded(b) == {e.rev : e \in {d \in db : d.boot = b /\ d.kind # "interrupted"}}

(* and those that it has refused from a later process, which reports the gap   *)
(* as its own: they are in the files that were put aside, and nowhere else.    *)
Aside(b) ==
  {r \in 1 .. sent[b] :
     \E f \in ToSet(bad) :
       f.by # b /\ \E e \in ToSet(f.lines) : e.boot = b /\ e.kind \in RunKinds /\ e.rev = r /\ ~e.sound}

Ends(b) == {e \in db \cup Lines \cup (IF tmp = NoFile THEN {} ELSE ToSet(tmp)) : e.boot = b /\ e.kind = "end"}

AtRest == queue = <<>> /\ batch = <<>> /\ ~gap /\ tmp = NoFile /\ spool = <<>>

(* A broadcast that the database calls ended and complete has lost no event   *)
(* to the full queue, a full disk, a torn file, a row that the database       *)
(* refused, a database that came back late or a crash.  There are two         *)
(* exceptions: the process ended before it could report a gap, and what only  *)
(* a later process delivered and the database then refused is put aside.      *)
NoSilentLoss ==
  AtRest =>
    \A b \in Boots :
      rows[b].status = "ended" /\ ~rows[b].incomplete /\ b \notin gapLost =>
        Recorded(b) \cup Aside(b) = 1 .. sent[b]

(* Only a broadcast of an earlier process is called interrupted, and only if  *)
(* its end is lost, in memory or to a file that was put aside: whatever is    *)
(* spooled is delivered before Recover looks.                                 *)
InterruptedJustified ==
  \A b \in Boots : rows[b].status = "interrupted" => b < boot /\ Ends(b) = {}

(* The end of a broadcast that has reached a file is recorded, if its row is  *)
(* accepted, across crashes and deliveries that start again, and whatever is  *)
(* refused before and behind it.                                              *)
EndRecorded ==
  \A b \in Boots : (\E e \in Lines : e.boot = b /\ e.kind = "end" /\ e.sound) ~> rows[b].status = "ended"

(* No broadcast of an earlier process stays open in the database, unless the  *)
(* files that were put aside leave no room for what Recover writes.           *)
Reconciled ==
  \A b \in Boots \ {MaxBoots} :
    b < boot ~> rows[b].status # "live" \/ Quarantined + Cardinality(Interrupted) > MaxLines
=============================================================================
