----------------------------- MODULE MCPlatform -----------------------------
(***************************************************************************)
(* The modules about the parts of the platform that serve all the others - *)
(* routes, seeding, notifications, jobs, back-ups - on small instances.    *)
(* They share no state, so a behaviour is one of one of them: part says    *)
(* which, and the variables of the others keep their initial values.       *)
(***************************************************************************)
EXTENDS Routes, Seed, Presence, Backups, Archive, Notifications, DeadlineReminders,
        Tours, Tickets, Mail

VARIABLE part

\* Two old rows of one archived table; visits around the hours of the jobs.
MCRecordTable == <<"LoginHistory", "LoginHistory">>
MCTourAt == 12 .. 15

rtSd == <<rtVars, sdVars>>
bkBs == <<bkVars, bsVars>>
psNt == <<psVars, ntVars>>
rmTr == <<rmVars, trVars>>
tkMl == <<tkVars, mlVars>>

PlatformInit ==
    /\ part \in {"routes", "seed", "presence", "backups", "schedule", "archive", "notes",
                 "reminders", "tours", "tickets", "mail"}
    /\ RtInit /\ SdInit /\ PsInit /\ BkInit /\ BsInit /\ ArInit /\ NtInit /\ RmInit /\ TrInit
    /\ TkInit /\ MlInit
    /\ part # "seed" => sdRows = {}
    /\ part # "tours" => trTour.at = 12

PlatformNext ==
    /\ UNCHANGED part
    /\ \/ part = "routes" /\ RtNext /\ UNCHANGED <<sdVars, bkBs, psNt, rmTr, tkMl, arVars>>
       \/ part = "seed" /\ SdNext /\ UNCHANGED <<rtVars, bkBs, psNt, rmTr, tkMl, arVars>>
       \/ part = "backups" /\ BkNext /\ UNCHANGED <<rtSd, bsVars, psNt, rmTr, tkMl, arVars>>
       \/ part = "schedule" /\ BsNext /\ UNCHANGED <<rtSd, bkVars, psNt, rmTr, tkMl, arVars>>
       \/ part = "presence" /\ PsNext /\ UNCHANGED <<rtSd, bkBs, ntVars, rmTr, tkMl, arVars>>
       \/ part = "notes" /\ NtNext /\ UNCHANGED <<rtSd, bkBs, psVars, rmTr, tkMl, arVars>>
       \/ part = "reminders" /\ RmNext /\ UNCHANGED <<rtSd, bkBs, psNt, trVars, tkMl, arVars>>
       \/ part = "tours" /\ TrNext /\ UNCHANGED <<rtSd, bkBs, psNt, rmVars, tkMl, arVars>>
       \/ part = "tickets" /\ TkNext /\ UNCHANGED <<rtSd, bkBs, psNt, rmTr, mlVars, arVars>>
       \/ part = "mail" /\ MlNext /\ UNCHANGED <<rtSd, bkBs, psNt, rmTr, tkVars, arVars>>
       \/ part = "archive" /\ ArNext /\ UNCHANGED <<rtSd, bkBs, psNt, rmTr, tkMl>>

PlatformSpec == PlatformInit /\ [][PlatformNext]_<<part, rtSd, bkBs, psNt, rmTr, tkMl, arVars>>

\* Every row, and the progress of every job and request, holds a value of its type.
PlatformTypeOK ==
    /\ RtTypeOK /\ SdTypeOK /\ PsTypeOK /\ BkTypeOK /\ BsTypeOK /\ ArTypeOK
    /\ NtTypeOK /\ RmTypeOK /\ TrTypeOK /\ TkTypeOK /\ MlTypeOK

\* A request reaches the handler it names, and the handler runs only after the guards
\* have identified the caller, checked the role and counted the call to that caller.
RequestsGuarded == OnlyKnownHidden /\ CallerIdentified /\ RoleRoutesGated /\ LimitedPerCaller

\* seed.ts: wherever a run dies, no statement meets a foreign key, no scope is filled
\* twice, and a reset leaves nothing that belongs to a user.
SeedingSafe == [](ForeignKeysKept /\ FixturesOncePerScope) /\ ResetEmpties

\* What is recorded about a recipient is what happened: a socket that Redis names is
\* open, a notification marked DELIVERED arrived, a bounced user gets no mail; the parts
\* name the races and crashes that break it.
DeliveriesExplained == PresenceExplained /\ DeliveredWasSeen /\ NoMailToBouncedUser

\* Back-ups and archives lose nothing and block nobody: the newest back-up is kept, an
\* archived row is in a file, a RUNNING row has its job, the timer follows the schedule,
\* except after the crashes, failures and overlaps that the parts name.
CopiesKept == RunningExplained /\ LatestBackupKept /\ TimerMatchesSchedule /\ RecordsKept

\* Reminders come, and come once; tickets carry the times of their first response and
\* resolution, in whichever order the reads and writes of overlapping calls come.
RemindersSafe ==
    RemindedTwiceExplained /\ TourRemindedDayAhead /\ TourRemindersBounded /\ TicketStamped
=============================================================================
