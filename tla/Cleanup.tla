------------------------------ MODULE Cleanup -------------------------------
(* The daily clean-up as two instances of the program run it at the same    *)
(* hour: one task per table, each a loop of "read a batch of ids, delete    *)
(* those ids" that ends with the first batch that was not full.             *)
(* (Export jobs, the ninth task, are in module Exports.)                    *)
EXTENDS Integers, Sequences, FiniteSets

CONSTANTS Runners,    \* instances of the program
          RowIds,     \* rows
          RowTable,   \* [RowIds -> the table each row belongs to]
          BatchSize   \* BATCH_SIZE

ASSUME CleanupAssumption == IsFiniteSet(Runners) /\ IsFiniteSet(RowIds) /\ BatchSize \in Nat \ {0}

VARIABLES rows,    \* [RowIds -> "none", "kept" or "expired" (past its retention)]
          runner,  \* [Runners -> task, ids of the batch read, rows before its cut-offs]
          failed   \* history: a query of a clean-up has failed

clVars == <<rows, runner, failed>>

\* performCleanup, in this order
Tasks == <<"blacklistedToken", "passwordResetToken", "session", "loginHistory",
           "searchAnalytics", "searchHistory", "webhookDeliveryLog", "requestLog">>

Off == [task |-> 0, batch |-> {}, due |-> {}]

ClTypeOK ==
    /\ rows \in [RowIds -> {"none", "kept", "expired"}] /\ failed \in BOOLEAN
    /\ runner \in [Runners -> [task : 0..Len(Tasks), batch : SUBSET RowIds, due : SUBSET RowIds]]

ClInit == /\ rows \in [RowIds -> {"kept", "expired"}]
          /\ runner = [c \in Runners |-> Off] /\ failed = FALSE

\* the row is younger than every cut-off in use
Young(i) == runner' = [c \in Runners |-> [runner[c] EXCEPT !.due = @ \ {i}]]

InsertRow(i) == rows[i] = "none" /\ rows' = [rows EXCEPT ![i] = "kept"] /\ Young(i) /\ UNCHANGED failed
RowExpires(i) == /\ rows[i] = "kept" /\ rows' = [rows EXCEPT ![i] = "expired"] /\ UNCHANGED <<runner, failed>>
\* the upsert of a search that is made again sets lastSearched
RepeatSearch(i) == /\ rows[i] = "expired" /\ RowTable[i] = "searchHistory"
                   /\ rows' = [rows EXCEPT ![i] = "kept"] /\ Young(i) /\ UNCHANGED failed

\* every cut-off is computed from the time the run began
runDailyCleanup(c) ==
    /\ runner[c].task = 0
    /\ runner' = [runner EXCEPT ![c] = [task |-> 1, batch |-> {}, due |-> {i \in RowIds : rows[i] = "expired"}]]
    /\ UNCHANGED <<rows, failed>>

Expired(c, t) == {i \in runner[c].due : RowTable[i] = t /\ rows[i] = "expired"}
Batches(S) == IF Cardinality(S) <= BatchSize THEN {S} ELSE {B \in SUBSET S : Cardinality(B) = BatchSize}

NextTask(c) == runner' = [runner EXCEPT ![c] =
    IF @.task = Len(Tasks) THEN Off ELSE [task |-> @.task + 1, batch |-> {}, due |-> @.due]]

\* findMany without an order: any batch; none left ends the task
ReadBatch(c, t) ==
    /\ runner[c].task # 0 /\ Tasks[runner[c].task] = t /\ runner[c].batch = {}
    /\ IF Expired(c, t) = {} THEN NextTask(c)
       ELSE \E B \in Batches(Expired(c, t)) : runner' = [runner EXCEPT ![c].batch = B]
    /\ UNCHANGED <<rows, failed>>

DeleteBatch_Once(c) ==
    LET gone == {i \in runner[c].batch : rows[i] # "none"} IN
    /\ runner[c].batch # {}
    /\ rows' = [i \in RowIds |-> IF i \in gone THEN "none" ELSE rows[i]]
    /\ NextTask(c) /\ UNCHANGED failed

\* deleteMany counts the rows that were still there
DeleteBatch(c) ==
    LET gone == {i \in runner[c].batch : rows[i] # "none"} IN
    /\ runner[c].batch # {}
    /\ rows' = [i \in RowIds |-> IF i \in gone THEN "none" ELSE rows[i]]
    /\ IF Cardinality(gone) = BatchSize THEN runner' = [runner EXCEPT ![c].batch = {}] ELSE NextTask(c)
    /\ UNCHANGED failed

\* the tasks, table by table
cleanBlacklistedTokens(c) == ReadBatch(c, "blacklistedToken")
cleanResetTokens(c) == ReadBatch(c, "passwordResetToken")
cleanExpiredSessions(c) == ReadBatch(c, "session")
cleanOldLoginHistory(c) == ReadBatch(c, "loginHistory")
cleanOldSearchAnalytics(c) == ReadBatch(c, "searchAnalytics")
cleanOldSearchHistory(c) == ReadBatch(c, "searchHistory")
cleanWebhookDeliveryLogs(c) == ReadBatch(c, "webhookDeliveryLog")
cleanRequestLogs(c) == ReadBatch(c, "requestLog")

\* an error in any task ends the clean-up of the day
CleanupFails(c) == /\ runner[c].task # 0 /\ runner' = [runner EXCEPT ![c] = Off]
                   /\ failed' = TRUE /\ UNCHANGED rows

CleanStep(c) == \/ DeleteBatch(c) \/ cleanBlacklistedTokens(c) \/ cleanResetTokens(c) \/ cleanExpiredSessions(c)
                \/ cleanOldLoginHistory(c) \/ cleanOldSearchAnalytics(c) \/ cleanOldSearchHistory(c)
                \/ cleanWebhookDeliveryLogs(c) \/ cleanRequestLogs(c)

ClNext == \/ \E i \in RowIds : InsertRow(i) \/ RowExpires(i) \/ RepeatSearch(i)
          \/ \E c \in Runners : runDailyCleanup(c) \/ CleanStep(c) \/ CleanupFails(c)

ClSpec == ClInit /\ [][ClNext]_clVars

-----------------------------------------------------------------------------
(* Every expired row is deleted one day: a task ends early when another     *)
(* instance has deleted part of its batch, and may leave a row that the     *)
(* other instance's cut-off does not cover, but not day after day, however  *)
(* many rows are added meanwhile (cleanup.service.ts:118-135 and the seven  *)
(* loops like it).  A failing clean-up may leave rows for ever.             *)
ExpiredRowsGo == []<>failed \/ \A i \in RowIds : []<>(rows[i] # "expired")
=============================================================================
