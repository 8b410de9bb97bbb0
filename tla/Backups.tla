------------------------------ MODULE Backups -------------------------------
(***************************************************************************)
(* Backups and restores, backup.service.ts.  Jobs of several instances      *)
(* interleave at their awaits.  A dump holds the whole database, the table  *)
(* of the backups included: of its content only that table matters here.    *)
(* pg_dump sees the database of the moment it starts; psql runs the file in *)
(* one transaction and exits with 0 when a statement of it failed, since    *)
(* ON_ERROR_STOP is not set.  Backups are numbered in order of creation.    *)
(***************************************************************************)
EXTENDS Integers, FiniteSets

CONSTANTS BkJobs,      \* requests and runs of the schedule
          MaxBackups,  \* bound on the backups created
          Retention,   \* retentionCount of the schedule
          MaxAttempts  \* maxRetries of the scheduled job (3)

\* Retention: @Min(1) of UpdateBackupScheduleDto.
ASSUME BackupsAssumption ==
    MaxBackups \in Nat /\ Retention \in Nat \ {0} /\ MaxAttempts \in Nat \ {0}

BackupIds == 1..MaxBackups

\* Of restoreStatus, whether it is RUNNING: no condition tells the other values apart.
NoBackup == [status |-> "none", restoring |-> FALSE]

VARIABLES
    bkRow,    \* [BackupIds -> row of the table], NoBackup where there is none
    bkFile,   \* [BackupIds -> {} or {the table in the dump}]
    bkWhole,  \* backups whose dump has been written to its end
    bkNext,   \* number of the next backup
    bkTask,   \* [BkJobs -> what the job does next, on which backup, after how many attempts]
    bkAbandoned, \* backups left RUNNING by a job that died or could not store its end
    bkRevived,   \* backups whose row a restore brought back as RUNNING
    bkSpoiled    \* a complete backup was marked as failed, for what came after its dump

bkVars == <<bkRow, bkFile, bkWhole, bkNext, bkTask, bkAbandoned, bkRevived, bkSpoiled>>

BkRows == [status : {"none", "RUNNING", "COMPLETED", "FAILED"}, restoring : BOOLEAN]
BkSteps == {"none", "create", "dump", "complete", "retain", "delete", "fail",
            "unlink", "mark", "psql", "record", "wait"}
Task(step, id, attempt) == [step |-> step, id |-> id, doomed |-> {}, attempt |-> attempt]
NoTask == Task("none", 0, 0)

BkTypeOK ==
    /\ bkRow \in [BackupIds -> BkRows]
    /\ \A i \in BackupIds : Cardinality(bkFile[i]) <= 1 /\ bkFile[i] \subseteq [BackupIds -> BkRows]
    /\ bkWhole \subseteq BackupIds /\ bkAbandoned \subseteq BackupIds
    /\ bkRevived \subseteq BackupIds
    /\ bkNext \in 1..(MaxBackups + 1) /\ bkSpoiled \in BOOLEAN
    /\ bkTask \in [BkJobs -> [step : BkSteps, id : 0..MaxBackups, doomed : SUBSET BackupIds,
                              attempt : 0..MaxAttempts]]

BkInit ==
    /\ bkRow = [i \in BackupIds |-> NoBackup] /\ bkFile = [i \in BackupIds |-> {}]
    /\ bkWhole = {} /\ bkNext = 1 /\ bkAbandoned = {} /\ bkRevived = {} /\ bkSpoiled = FALSE
    /\ bkTask = [j \in BkJobs |-> NoTask]

Exists(i) == bkRow[i].status # "none"
Goto(j, step) == bkTask' = [bkTask EXCEPT ![j].step = step]

\* A job that ends well.
JobDone(j) == bkTask' = [bkTask EXCEPT ![j] = NoTask]

\* The catch of the cron job: the run of the schedule waits and tries again, at most
\* maxRetries times; a manual backup or a restore just fails.
Throws(j, attempt) ==
    bkTask' = [bkTask EXCEPT ![j] =
        IF attempt \in 1..(MaxAttempts - 1) THEN Task("wait", 0, attempt) ELSE NoTask]
JobThrows(j) == Throws(j, bkTask[j].attempt)

\* What ensureNoActiveJobs looks for in a row.
Running(i) == bkRow[i].status = "RUNNING" \/ bkRow[i].restoring

\* What a job leaves behind when it ends without an update of its row.
Abandon(i) == bkAbandoned' = bkAbandoned \cup {k \in BackupIds : k = i /\ Running(k)}

\* The rows that ensureNoActiveJobs counts; a restore leaves its own backup out.
ActiveJobs(excluded) == {i \in BackupIds \ excluded : Running(i)}

-----------------------------------------------------------------------------
(* createBackup.                                                             *)

\* Attempt 0 is a manual backup, the others are those of the schedule.
startBackup(j, attempt) ==
    /\ \/ ActiveJobs({}) = {} /\ bkTask' = [bkTask EXCEPT ![j] = Task("create", 0, attempt)]
       \/ Throws(j, attempt)
    /\ UNCHANGED <<bkRow, bkFile, bkWhole, bkNext, bkAbandoned, bkRevived, bkSpoiled>>

createManualBackup(j) == bkTask[j].step = "none" /\ startBackup(j, 0)
scheduledBackup(j) == bkTask[j].step = "none" /\ startBackup(j, 1)
retryBackup(j) == bkTask[j].step = "wait" /\ startBackup(j, bkTask[j].attempt + 1)

createBackup(j) ==
    /\ bkTask[j].step = "create"
    /\ \/ /\ bkNext <= MaxBackups
          /\ bkRow' = [bkRow EXCEPT ![bkNext] = [status |-> "RUNNING", restoring |-> FALSE]]
          /\ bkTask' = [bkTask EXCEPT ![j] = Task("dump", bkNext, bkTask[j].attempt)]
          /\ bkNext' = bkNext + 1
       \/ JobThrows(j) /\ UNCHANGED <<bkRow, bkNext>>
    /\ UNCHANGED <<bkFile, bkWhole, bkAbandoned, bkRevived, bkSpoiled>>

runBackupCommand(j) ==
    /\ bkTask[j].step = "dump"
    /\ bkFile' = [bkFile EXCEPT ![bkTask[j].id] = {bkRow}]
    /\ Goto(j, "complete")
    /\ UNCHANGED <<bkRow, bkWhole, bkNext, bkAbandoned, bkRevived, bkSpoiled>>

\* pg_dump has ended; size and checksum are stored.
completeBackup(j) ==
    LET i == bkTask[j].id IN
    /\ bkTask[j].step = "complete"
    /\ Exists(i) /\ bkFile[i] # {}
    /\ bkWhole' = bkWhole \cup {i}
    /\ bkRow' = [bkRow EXCEPT ![i].status = "COMPLETED"]
    /\ Goto(j, "retain")
    /\ UNCHANGED <<bkFile, bkNext, bkAbandoned, bkRevived, bkSpoiled>>

\* Mutant of failBackup: the row is left as it is.
failBackup_Unmarked(j) ==
    /\ bkTask[j].step \in {"dump", "complete", "retain", "fail"}
    /\ Goto(j, "unlink")
    /\ UNCHANGED <<bkRow, bkFile, bkWhole, bkNext, bkAbandoned, bkRevived, bkSpoiled>>

\* The catch of createBackup, for whatever its try throws: pg_dump, one of the updates, the
\* queries or the deletes of the retention.  The update of the catch throws too when the
\* row is gone or the database is not reached, and then the file stays as well.
failBackup(j) ==
    LET i == bkTask[j].id IN
    /\ bkTask[j].step \in {"dump", "complete", "retain", "fail"}
    /\ \/ /\ Exists(i)
          /\ bkRow' = [bkRow EXCEPT ![i].status = "FAILED"]
          /\ bkSpoiled' = (bkSpoiled \/ bkRow[i].status = "COMPLETED")
          /\ Goto(j, "unlink") /\ UNCHANGED bkAbandoned
       \/ /\ Abandon(i) /\ JobThrows(j)
          /\ UNCHANGED <<bkRow, bkSpoiled>>
    /\ UNCHANGED <<bkFile, bkWhole, bkNext, bkRevived>>

\* The file that is there is removed; an error of unlink is swallowed.
unlinkFailed(j) ==
    LET i == bkTask[j].id IN
    /\ bkTask[j].step = "unlink"
    /\ \/ bkFile' = [bkFile EXCEPT ![i] = {}] /\ bkWhole' = bkWhole \ {i}
       \/ UNCHANGED <<bkFile, bkWhole>>
    /\ JobThrows(j)
    /\ UNCHANGED <<bkRow, bkNext, bkAbandoned, bkRevived, bkSpoiled>>

\* Mutant of Doomed: the oldest ones are kept.
Doomed_Oldest ==
    LET done == {i \in BackupIds : bkRow[i].status = "COMPLETED"}
    IN  {i \in done : Cardinality({k \in done : k < i}) >= Retention}

\* The completed backups after the newest retentionCount.
Doomed ==
    LET done == {i \in BackupIds : bkRow[i].status = "COMPLETED"}
    IN  {i \in done : Cardinality({k \in done : k > i}) >= Retention}

\* enforceRetentionPolicy: the files go first, but for those whose unlink fails unseen.
enforceRetentionPolicy(j) ==
    /\ bkTask[j].step = "retain"
    /\ \E gone \in SUBSET Doomed :
          /\ bkFile' = [i \in BackupIds |-> IF i \in gone THEN {} ELSE bkFile[i]]
          /\ bkWhole' = bkWhole \ gone
    /\ bkTask' = [bkTask EXCEPT ![j] = [step |-> "delete", id |-> bkTask[j].id, doomed |-> Doomed,
                                        attempt |-> bkTask[j].attempt]]
    /\ UNCHANGED <<bkRow, bkNext, bkAbandoned, bkRevived, bkSpoiled>>

\* Then the rows go.  A row that another job has deleted meanwhile, or a database that is
\* not reached, makes a delete throw and sends the job to its catch, with the others gone
\* or not: the backup that was complete will be marked as failed and lose its file.
deleteDoomed(j) ==
    LET doomed == bkTask[j].doomed
        i == bkTask[j].id
    IN
    /\ bkTask[j].step = "delete"
    /\ \E gone \in SUBSET {k \in doomed : Exists(k)} :
          /\ bkRow' = [k \in BackupIds |-> IF k \in gone THEN NoBackup ELSE bkRow[k]]
          /\ IF gone = doomed
             THEN JobDone(j)
             ELSE bkTask' = [bkTask EXCEPT ![j] = Task("fail", i, bkTask[j].attempt)]
    /\ UNCHANGED <<bkFile, bkWhole, bkNext, bkAbandoned, bkRevived, bkSpoiled>>

-----------------------------------------------------------------------------
(* restoreBackup.                                                            *)

restoreBackup(j, i) ==
    /\ bkTask[j].step = "none"
    /\ Exists(i) /\ bkFile[i] # {}
    /\ ActiveJobs({i}) = {}
    /\ bkTask' = [bkTask EXCEPT ![j] = Task("mark", i, 0)]
    /\ UNCHANGED <<bkRow, bkFile, bkWhole, bkNext, bkAbandoned, bkRevived, bkSpoiled>>

markRestore(j) ==
    LET i == bkTask[j].id IN
    /\ bkTask[j].step = "mark"
    /\ \/ Exists(i) /\ bkRow' = [bkRow EXCEPT ![i].restoring = TRUE] /\ Goto(j, "psql")
       \/ UNCHANGED bkRow /\ JobThrows(j)
    /\ UNCHANGED <<bkFile, bkWhole, bkNext, bkAbandoned, bkRevived, bkSpoiled>>

\* The table of the backups is the one of the dump; a dump that is not complete rolls back.
runRestoreCommand(j) ==
    LET i == bkTask[j].id IN
    /\ bkTask[j].step = "psql"
    /\ bkRow' \in (IF i \in bkWhole THEN bkFile[i] ELSE {bkRow})
    /\ bkRevived' = IF i \in bkWhole THEN bkRevived \cup {k \in BackupIds : Running(k)'}
                                     ELSE bkRevived
    /\ Goto(j, "record")
    /\ UNCHANGED <<bkFile, bkWhole, bkNext, bkAbandoned, bkSpoiled>>

\* psql exited with 0, or could not be run (its file is gone, the server not reached); the
\* row becomes COMPLETED or FAILED.  An update that throws leads to the catch, and when the
\* one there throws too the row stays RUNNING.
recordRestore(j) ==
    LET i == bkTask[j].id IN
    /\ bkTask[j].step \in {"psql", "record"}
    /\ \/ Exists(i) /\ bkRow' = [bkRow EXCEPT ![i].restoring = FALSE] /\ UNCHANGED bkAbandoned
       \/ Abandon(i) /\ UNCHANGED bkRow
    /\ JobDone(j)
    /\ UNCHANGED <<bkFile, bkWhole, bkNext, bkRevived, bkSpoiled>>

\* The process dies; nothing looks at the rows it leaves in state RUNNING.
jobDies(j) ==
    /\ bkTask[j].step # "none"
    /\ Abandon(bkTask[j].id) /\ JobDone(j)
    /\ UNCHANGED <<bkRow, bkFile, bkWhole, bkNext, bkRevived, bkSpoiled>>

BkNext ==
    \E j \in BkJobs :
        \/ createManualBackup(j) \/ scheduledBackup(j) \/ retryBackup(j)
        \/ createBackup(j) \/ runBackupCommand(j) \/ completeBackup(j) \/ failBackup(j) \/ unlinkFailed(j)
        \/ enforceRetentionPolicy(j) \/ deleteDoomed(j)
        \/ \E i \in BackupIds : restoreBackup(j, i)
        \/ markRestore(j) \/ runRestoreCommand(j) \/ recordRestore(j)
        \/ jobDies(j)

BkSpec == BkInit /\ [][BkNext]_bkVars

-----------------------------------------------------------------------------
(* Properties.                                                               *)

\* A row is RUNNING, as a backup or a restore, without a job that works on it, and so
\* blocks every other job, only after that job died or could not store how it ended, or
\* after a restore brought back the row of the dump, which was taken while its own backup
\* was RUNNING.
RunningExplained ==
    \A i \in BackupIds :
        Running(i) =>
            \/ \E j \in BkJobs : bkTask[j].id = i
            \/ i \in bkAbandoned
            \/ i \in bkRevived

\* Retention keeps the newest completed backup: the file of the latest one is there, as
\* long as no restore brought back an older table, and no failure after the dump (a row
\* another job had deleted, a query that threw) marked a complete backup as FAILED and
\* removed its file: what is then the latest may have lost its file before.
LatestBackupKept ==
    bkRevived = {} /\ ~bkSpoiled =>
        \A i \in BackupIds :
            bkRow[i].status = "COMPLETED" /\ (\A k \in BackupIds : bkRow[k].status = "COMPLETED" => k <= i)
                => bkFile[i] # {}

-----------------------------------------------------------------------------
(* The timer of the scheduled backups in one instance, which shares no state *)
(* with the jobs: onModuleInit, updateSchedule and refreshSchedule.          *)


CONSTANTS Updates  \* requests to change the schedule

VARIABLES
    bsEnabled,  \* enabled, in the database
    bsTask,     \* [Updates -> what the request does next]
    bsRead,     \* [Updates -> enabled as the request read it]
    bsTimers,   \* cron jobs that are started
    bsCurrent,  \* the one scheduledJob refers to, {} for none
    bsOverlap,  \* a refresh started while another one was under way
    bsFailed    \* the last refresh to end could not read the schedule

bsVars == <<bsEnabled, bsTask, bsRead, bsTimers, bsCurrent, bsOverlap, bsFailed>>

BsTypeOK ==
    /\ bsEnabled \in BOOLEAN /\ bsOverlap \in BOOLEAN /\ bsFailed \in BOOLEAN
    /\ bsTask \in [Updates -> {"new", "stop", "read", "start", "done"}]
    /\ bsRead \in [Updates -> BOOLEAN]
    /\ bsTimers \subseteq Updates /\ bsCurrent \subseteq bsTimers /\ Cardinality(bsCurrent) <= 1

\* The row of the schedule exists, ensureScheduleConfig creates it disabled.
BsInit ==
    /\ bsEnabled = FALSE
    /\ bsTask = [u \in Updates |-> "new"] /\ bsRead = [u \in Updates |-> FALSE]
    /\ bsTimers = {} /\ bsCurrent = {} /\ bsOverlap = FALSE /\ bsFailed = FALSE

updateSchedule(u, enabled) ==
    /\ bsTask[u] = "new"
    /\ bsEnabled' = enabled
    /\ bsTask' = [bsTask EXCEPT ![u] = "stop"]
    /\ UNCHANGED <<bsRead, bsTimers, bsCurrent, bsOverlap, bsFailed>>

\* Mutant of refreshSchedule: the reference is dropped and the job not stopped.
refreshSchedule_Running(u) ==
    /\ bsTask[u] = "stop"
    /\ bsCurrent' = {}
    /\ bsTask' = [bsTask EXCEPT ![u] = "read"]
    /\ bsOverlap' = (bsOverlap \/ \E v \in Updates : bsTask[v] \in {"read", "start"})
    /\ UNCHANGED <<bsEnabled, bsRead, bsTimers, bsFailed>>

\* The current job is stopped before the first await.
refreshSchedule(u) ==
    /\ bsTask[u] = "stop"
    /\ bsTimers' = bsTimers \ bsCurrent
    /\ bsCurrent' = {}
    /\ bsTask' = [bsTask EXCEPT ![u] = "read"]
    /\ bsOverlap' = (bsOverlap \/ \E v \in Updates : bsTask[v] \in {"read", "start"})
    /\ UNCHANGED <<bsEnabled, bsRead, bsFailed>>

\* A query that throws ends the request: the old job is stopped by then and none replaces it.
getScheduleConfig(u) ==
    /\ bsTask[u] = "read"
    /\ \/ /\ bsRead' = [bsRead EXCEPT ![u] = bsEnabled]
          /\ bsTask' = [bsTask EXCEPT ![u] = "start"]
          /\ UNCHANGED bsFailed
       \/ /\ bsTask' = [bsTask EXCEPT ![u] = "done"]
          /\ bsFailed' = TRUE
          /\ UNCHANGED bsRead
    /\ UNCHANGED <<bsEnabled, bsTimers, bsCurrent, bsOverlap>>

\* A new job takes the reference; a job another request has started meanwhile goes on.
startJob(u) ==
    /\ bsTask[u] = "start"
    /\ IF bsRead[u] THEN bsTimers' = bsTimers \cup {u} /\ bsCurrent' = {u}
                    ELSE UNCHANGED <<bsTimers, bsCurrent>>
    /\ bsTask' = [bsTask EXCEPT ![u] = "done"]
    /\ bsFailed' = FALSE
    /\ UNCHANGED <<bsEnabled, bsRead, bsOverlap>>

BsNext ==
    \E u \in Updates :
        \/ \E enabled \in BOOLEAN : updateSchedule(u, enabled)
        \/ refreshSchedule(u) \/ getScheduleConfig(u) \/ startJob(u)

BsSpec == BsInit /\ [][BsNext]_bsVars

-----------------------------------------------------------------------------
(* Properties.                                                               *)

\* When no change is under way, one timer runs if the schedule is enabled and none if it
\* is not, or if the last refresh stopped the timer and then could not read the schedule,
\* unless two refreshes overlapped: then a timer may run twice, or for good.
TimerMatchesSchedule ==
    (\A u \in Updates : bsTask[u] \in {"new", "done"}) /\ ~bsOverlap =>
        Cardinality(bsTimers) = (IF bsEnabled /\ ~bsFailed THEN 1 ELSE 0)
=============================================================================
