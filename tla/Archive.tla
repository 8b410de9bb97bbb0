------------------------------- MODULE Archive ------------------------------
(***************************************************************************)
(* The archive job, archive.service.ts: old rows of three tables are        *)
(* written to a compressed file per table and run, then deleted.  The run   *)
(* of the schedule on every instance and the one of an administrator        *)
(* interleave at their awaits; a file is named after its table and the      *)
(* second its run began in, so two runs of one second share their files.    *)
(* What is written to the stream reaches the file only when the stream is   *)
(* ended; ids are compared as the code does.                                *)
(***************************************************************************)
EXTENDS Integers, FiniteSets, Sequences

CONSTANTS Archivers,    \* runs of runArchival
          Records,      \* ids of rows, numbers
          RecordTable,  \* [Records -> "LoginHistory", "ActivityLog" or "PropertyView"]
          ArBatchSize,  \* BATCH_SIZE
          MaxRestores,  \* bound on the rows restored
          MaxSeconds    \* bound on the seconds in which runs begin

ASSUME ArchiveAssumption ==
    Records \subseteq Nat /\ IsFiniteSet(Records) /\ MaxRestores \in Nat /\ MaxSeconds \in Nat

VARIABLES
    arDb,       \* rows in the database
    arOld,      \* rows past their retention
    arSecond,   \* the second in which the last run began
    arTask,     \* [Archivers -> where the run is]
    arStream,   \* [Archivers -> rows in the stream that is open]
    arFiles,    \* [1..MaxSeconds -> rows in the files named after that second]
    arBroken,   \* rows in streams that were never ended
    arLost,     \* rows whose file a second run truncated, wrote over or removed
    arDoubled,  \* two runs began in one second
    arBack      \* rows restored so far

arVars == <<arDb, arOld, arSecond, arTask, arStream, arFiles, arBroken, arLost, arDoubled, arBack>>

\* The order of runArchival.
ArchiveOrder == <<"LoginHistory", "ActivityLog", "PropertyView">>

Seconds == 1..MaxSeconds

ArIdle == [job |-> 0, second |-> 0, step |-> "idle", cutoff |-> {}, cursor |-> 0, batch |-> {},
           shared |-> FALSE]

ArTypeOK ==
    /\ arDb \subseteq Records /\ arOld \subseteq Records
    /\ arFiles \in [Seconds -> SUBSET Records] /\ arBroken \subseteq Records
    /\ arLost \subseteq Records /\ arDoubled \in BOOLEAN /\ arSecond \in 0..MaxSeconds
    /\ arStream \in [Archivers -> SUBSET Records]
    /\ arTask \in [Archivers -> [job : 0..3, second : 0..MaxSeconds,
                                 step : {"idle", "open", "fetch", "delete", "end"},
                                 cutoff : SUBSET Records, cursor : Records \cup {0},
                                 batch : SUBSET Records, shared : BOOLEAN]]
    /\ arBack \in 0..MaxRestores

ArInit ==
    /\ arDb = Records /\ arOld = {} /\ arSecond = 0
    /\ arTask = [a \in Archivers |-> ArIdle] /\ arStream = [a \in Archivers |-> {}]
    /\ arFiles = [s \in Seconds |-> {}] /\ arBroken = {}
    /\ arLost = {} /\ arDoubled = FALSE /\ arBack = 0

\* A row passes its retention period.
rowAges(x) ==
    /\ x \in arDb \ arOld
    /\ arOld' = arOld \cup {x}
    /\ UNCHANGED <<arDb, arSecond, arTask, arStream, arFiles, arBroken, arLost, arDoubled, arBack>>

\* A table is read from its first row on.
TableStart(job, second, cutoff) ==
    [job |-> job, second |-> second, step |-> "open", cutoff |-> cutoff, cursor |-> 0, batch |-> {},
     shared |-> FALSE]

\* The cutoff of all three tables and the second in their names are those of the moment the
\* run starts.
runArchival(a) ==
    /\ arTask[a].step = "idle"
    /\ \E second \in Seconds \cap {arSecond, arSecond + 1} :
          /\ arTask' = [arTask EXCEPT ![a] = TableStart(1, second, arOld)]
          /\ arSecond' = second
          /\ arDoubled' = (arDoubled \/ second = arSecond)
    /\ UNCHANGED <<arDb, arOld, arStream, arFiles, arBroken, arLost, arBack>>

\* The next table with a stream of its own, or the end of the run.
NextTable(a) ==
    arTask' = [arTask EXCEPT ![a] =
        IF arTask[a].job = Len(ArchiveOrder) THEN ArIdle
        ELSE TableStart(arTask[a].job + 1, arTask[a].second, arTask[a].cutoff)]

\* The rows in the file of the run's table and second.
FileRows(a) == {x \in arFiles[arTask[a].second] : RecordTable[x] = ArchiveOrder[arTask[a].job]}

\* The run b has the file open that the run a opens.
SameFileOpen(a, b) ==
    /\ b # a /\ arTask[b].step \in {"fetch", "delete", "end"}
    /\ arTask[b].job = arTask[a].job /\ arTask[b].second = arTask[a].second

\* createWriteStream: the file is opened for writing, which truncates one that exists.
openArchive(a) ==
    LET others == {b \in Archivers : SameFileOpen(a, b)} IN
    /\ arTask[a].step = "open"
    /\ arFiles' = [arFiles EXCEPT ![arTask[a].second] = @ \ FileRows(a)]
    /\ arLost' = arLost \cup FileRows(a)
    /\ arTask' = [b \in Archivers |->
          IF b = a THEN [arTask[b] EXCEPT !.step = "fetch", !.shared = others # {}]
          ELSE IF b \in others THEN [arTask[b] EXCEPT !.shared = TRUE] ELSE arTask[b]]
    /\ UNCHANGED <<arDb, arOld, arSecond, arStream, arBroken, arDoubled, arBack>>

\* The first BATCH_SIZE rows by id after the cursor.
FetchBatch(a) ==
    LET due == {x \in arDb \cap arTask[a].cutoff :
                  RecordTable[x] = ArchiveOrder[arTask[a].job] /\ x > arTask[a].cursor}
    IN  {x \in due : Cardinality({y \in due : y < x}) < ArBatchSize}

\* A batch is read and written to the stream; an empty one ends the loop.
archiveBatch(a) ==
    LET batch == FetchBatch(a) IN
    /\ arTask[a].step = "fetch"
    /\ arStream' = [arStream EXCEPT ![a] = @ \cup batch]
    /\ arTask' = [arTask EXCEPT ![a].step = IF batch = {} THEN "end" ELSE "delete", ![a].batch = batch]
    /\ UNCHANGED <<arDb, arOld, arSecond, arFiles, arBroken, arLost, arDoubled, arBack>>

LastId(batch) == CHOOSE x \in batch : \A y \in batch : y <= x

\* The cursor moves on; a batch that is not full was the last one.
AfterDelete(a) ==
    LET batch == arTask[a].batch IN
    arTask' = [arTask EXCEPT ![a].step = IF Cardinality(batch) < ArBatchSize THEN "end" ELSE "fetch",
                             ![a].cursor = LastId(batch),
                             ![a].batch = {}]

\* Mutant of deleteBatch: it deletes by the cutoff, not by the ids of the batch.
deleteBatch_Cutoff(a) ==
    /\ arTask[a].step = "delete"
    /\ arDb' = {x \in arDb : ~(x \in arTask[a].cutoff /\ RecordTable[x] = ArchiveOrder[arTask[a].job])}
    /\ AfterDelete(a)
    /\ UNCHANGED <<arOld, arSecond, arStream, arFiles, arBroken, arLost, arDoubled, arBack>>

deleteBatch(a) ==
    /\ arTask[a].step = "delete"
    /\ arDb' = arDb \ arTask[a].batch
    /\ AfterDelete(a)
    /\ UNCHANGED <<arOld, arSecond, arStream, arFiles, arBroken, arLost, arDoubled, arBack>>

\* What the file of the run holds once its stream is ended: a file without rows is removed,
\* whoever wrote it.  Runs that have one file open write from its start both, and a file
\* that was removed takes what is written to it along: one of them survives, or none.
Endings(a) ==
    IF arStream[a] = {} THEN {{}}
    ELSE IF arTask[a].shared THEN {arStream[a], FileRows(a), {}}
    ELSE {arStream[a]}

\* gzip.end and the finish of the file.
endArchive(a) ==
    /\ arTask[a].step = "end"
    /\ \E rows \in Endings(a) :
          /\ arFiles' = [arFiles EXCEPT ![arTask[a].second] = (@ \ FileRows(a)) \cup rows]
          /\ arLost' = arLost \cup ((FileRows(a) \cup arStream[a]) \ rows)
    /\ arStream' = [arStream EXCEPT ![a] = {}]
    /\ NextTable(a)
    /\ UNCHANGED <<arDb, arOld, arSecond, arBroken, arDoubled, arBack>>

\* The catch of archiveLoginHistory and the others: the read or the deletion of a batch or
\* the last write of the file failed, the stream is left and the run goes on with the next
\* table.
archiveFails(a) ==
    /\ arTask[a].step \in {"fetch", "delete", "end"}
    /\ arBroken' = arBroken \cup arStream[a]
    /\ arStream' = [arStream EXCEPT ![a] = {}]
    /\ NextTable(a)
    /\ UNCHANGED <<arDb, arOld, arSecond, arFiles, arLost, arDoubled, arBack>>

\* The process dies, or an error of the stream ends it.
archiverDies(a) ==
    /\ arTask[a].step # "idle"
    /\ arBroken' = arBroken \cup arStream[a]
    /\ arStream' = [arStream EXCEPT ![a] = {}]
    /\ arTask' = [arTask EXCEPT ![a] = ArIdle]
    /\ UNCHANGED <<arDb, arOld, arSecond, arFiles, arLost, arDoubled, arBack>>

\* restoreFromArchive, one line of a file: an upsert that leaves a row that exists alone;
\* views are an unknown entity to it.
restoreFromArchive(x) ==
    /\ arBack < MaxRestores
    /\ (\E s \in Seconds : x \in arFiles[s]) /\ RecordTable[x] # "PropertyView"
    /\ arDb' = arDb \cup {x}
    /\ arBack' = arBack + 1
    /\ UNCHANGED <<arOld, arSecond, arTask, arStream, arFiles, arBroken, arLost, arDoubled>>

ArNext ==
    \/ \E a \in Archivers :
          \/ runArchival(a) \/ openArchive(a) \/ archiveBatch(a) \/ deleteBatch(a) \/ endArchive(a)
          \/ archiveFails(a) \/ archiverDies(a)
    \/ \E x \in Records : rowAges(x) \/ restoreFromArchive(x)

ArSpec == ArInit /\ [][ArNext]_arVars

-----------------------------------------------------------------------------
(* Properties.                                                               *)

\* A row that is no longer in the database is in a file, in the stream of a run that has
\* not ended, or in the stream of a run that failed: of two batches of a run the first is
\* lost when the second fails, since it was deleted before the stream was ended.  Besides,
\* two runs that begin in one second, as those of the schedule on two instances do, write
\* the same files, and the rows of the one are lost by the other.
RecordsKept ==
    \A x \in Records \ arDb :
        \/ \E s \in Seconds : x \in arFiles[s]
        \/ x \in arBroken \/ \E a \in Archivers : x \in arStream[a]
        \/ x \in arLost /\ arDoubled
=============================================================================
