------------------------------ MODULE Exports -------------------------------
(* Personal-data exports: the job row, the archive on disk and the e-mail   *)
(* that announces it, under failures at every step and the daily clean-up.  *)
EXTENDS Integers, FiniteSets

CONSTANTS JobIds,   \* rows of export_jobs
          Cleaners  \* instances that run the daily clean-up

ASSUME ExportsAssumption == IsFiniteSet(JobIds) /\ IsFiniteSet(Cleaners)

VARIABLES jobs,      \* [JobIds -> row: status, fileUrl, and whether it is past retention]
          archives,  \* jobs whose archive is on disk
          work,      \* what each export does next
          sweeps,    \* [Cleaners -> the jobs read, and those whose files are still to go]
          mailed     \* history: jobs announced to the user

exVars == <<jobs, archives, work, sweeps, mailed>>

NoJob == [st |-> "none", url |-> FALSE, old |-> FALSE]
NoSweep == [read |-> {}, files |-> {}]

ExTypeOK ==
    /\ jobs \in [JobIds -> [st : {"none", "PROCESSING", "COMPLETED", "deleted"}, url : BOOLEAN, old : BOOLEAN]]
    /\ archives \subseteq JobIds /\ mailed \subseteq JobIds
    /\ work \in [JobIds -> {"idle", "write", "complete", "mail", "done"}]
    /\ sweeps \in [Cleaners -> [read : SUBSET JobIds, files : SUBSET JobIds]]

ExInit == /\ jobs = [j \in JobIds |-> NoJob] /\ archives = {} /\ work = [j \in JobIds |-> "idle"]
          /\ sweeps = [c \in Cleaners |-> NoSweep] /\ mailed = {}

\* buildPayload, then the row; the user may be unknown, then nothing happens
exportPersonalData(j) ==
    /\ work[j] = "idle" /\ work' = [work EXCEPT ![j] = "write"]
    /\ jobs' = [jobs EXCEPT ![j].st = "PROCESSING"]
    /\ UNCHANGED <<archives, sweeps, mailed>>

\* the JSON and its zip; a failure ends the export, the row stays PROCESSING
writeArchive(j) ==
    /\ work[j] = "write" /\ UNCHANGED <<jobs, sweeps, mailed>>
    /\ \/ archives' = archives \union {j} /\ work' = [work EXCEPT ![j] = "complete"]
       \/ work' = [work EXCEPT ![j] = "done"] /\ (UNCHANGED archives \/ archives' = archives \union {j})

completeJob_MailFirst(j) ==
    /\ work[j] = "complete" /\ UNCHANGED <<archives, sweeps>>
    /\ work' = [work EXCEPT ![j] = "done"] /\ mailed' = mailed \union {j}
    /\ \/ jobs' = [jobs EXCEPT ![j] = IF jobs[j].st = "PROCESSING" THEN [@ EXCEPT !.st = "COMPLETED", !.url = TRUE] ELSE @]
       \/ UNCHANGED jobs

\* the row is completed; if the update fails (the row was cleaned away) or the
\* process dies, the archive stays on disk
completeJob(j) ==
    /\ work[j] = "complete" /\ UNCHANGED <<archives, sweeps, mailed>>
    /\ \/ /\ jobs[j].st = "PROCESSING"
          /\ jobs' = [jobs EXCEPT ![j].st = "COMPLETED", ![j].url = TRUE]
          /\ work' = [work EXCEPT ![j] = "mail"]
       \/ work' = [work EXCEPT ![j] = "done"] /\ UNCHANGED jobs

\* a failed e-mail is only logged
sendCompletionEmail(j) ==
    /\ work[j] = "mail" /\ work' = [work EXCEPT ![j] = "done"]
    /\ (mailed' = mailed \union {j} \/ UNCHANGED mailed)
    /\ UNCHANGED <<jobs, archives, sweeps>>

\* streamExportArchive and resendCompletionEmail ask for this
Available(j) == jobs[j].st = "COMPLETED" /\ jobs[j].url

resendCompletionEmail(j) == /\ Available(j) /\ mailed' = mailed \union {j}
                            /\ UNCHANGED <<jobs, archives, work, sweeps>>

\* a day has passed
JobAges(j) == /\ jobs[j].st \in {"PROCESSING", "COMPLETED"} /\ ~jobs[j].old
              /\ jobs' = [jobs EXCEPT ![j].old = TRUE]
              /\ UNCHANGED <<archives, work, sweeps, mailed>>

\* cleanExportJobs reads the old rows with the fileUrl they have now ...
cleanExportJobs(c) ==
    LET old == {j \in JobIds : jobs[j].old /\ jobs[j].st \in {"PROCESSING", "COMPLETED"}} IN
    /\ sweeps[c] = NoSweep /\ old # {}
    /\ sweeps' = [sweeps EXCEPT ![c] = [read |-> old, files |-> {j \in old : jobs[j].url}]]
    /\ UNCHANGED <<jobs, archives, work, mailed>>

\* ... unlinks the files one by one (a failure is swallowed) ...
unlinkArchive(c) ==
    \E j \in sweeps[c].files :
      /\ sweeps' = [sweeps EXCEPT ![c].files = @ \ {j}]
      /\ (archives' = archives \ {j} \/ UNCHANGED archives)
      /\ UNCHANGED <<jobs, work, mailed>>

\* ... and deletes the rows it read; the archive of one completed in between stays
deleteJobs(c) ==
    /\ sweeps[c].read # {} /\ sweeps[c].files = {}
    /\ jobs' = [j \in JobIds |-> IF j \in sweeps[c].read THEN [jobs[j] EXCEPT !.st = "deleted"] ELSE jobs[j]]
    /\ sweeps' = [sweeps EXCEPT ![c] = NoSweep]
    /\ UNCHANGED <<archives, work, mailed>>

ExNext == \/ \E j \in JobIds : \/ exportPersonalData(j) \/ writeArchive(j) \/ completeJob(j)
                               \/ sendCompletionEmail(j) \/ resendCompletionEmail(j) \/ JobAges(j)
          \/ \E c \in Cleaners : cleanExportJobs(c) \/ unlinkArchive(c) \/ deleteJobs(c)

ExSpec == ExInit /\ [][ExNext]_exVars

-----------------------------------------------------------------------------
(* The user is told of an export only when it can be fetched: an announced  *)
(* job is completed and its archive on disk until it is old enough for the  *)
(* clean-up (data-export.service.ts:206-225, cleanup.service.ts:400-425).   *)
MailedIsAvailable ==
    \A j \in mailed : ~jobs[j].old => Available(j) /\ j \in archives
=============================================================================
