------------------------- MODULE DeadlineReminders --------------------------
(***************************************************************************)
(* Reminders of the deadlines of a transaction, transaction-reminders.      *)
(* service.ts, started by a request on any instance.  The reminders to the  *)
(* buyer and to the seller of a milestone are sent together.                *)
(***************************************************************************)
EXTENDS Integers, FiniteSets

CONSTANTS RemindReq,    \* requests that run sendDeadlineReminders
          Milestones,   \* milestones that are due
          MaxReminders  \* bound on the reminders of a milestone

ASSUME RemindersAssumption == MaxReminders \in Nat

VARIABLES
    rmTask,     \* [RemindReq -> where the request is]
    rmLock,     \* LOCK_KEY exists
    rmStamped,  \* milestones with reminderSentAt
    rmSent,     \* [Milestones -> reminders sent]
    rmExcuse    \* milestones two requests worked on, or that a failure left without stamp

rmVars == <<rmTask, rmLock, rmStamped, rmSent, rmExcuse>>

RmIdle == [step |-> "idle", todo |-> {}, at |-> {}]

RmTypeOK ==
    /\ rmTask \in [RemindReq -> [step : {"idle", "find", "send", "stamp", "unlock"},
                                 todo : SUBSET Milestones, at : SUBSET Milestones]]
    /\ rmLock \in BOOLEAN
    /\ rmStamped \subseteq Milestones /\ rmExcuse \subseteq Milestones
    /\ rmSent \in [Milestones -> 0..MaxReminders]

RmInit ==
    /\ rmTask = [q \in RemindReq |-> RmIdle] /\ rmLock = FALSE
    /\ rmStamped = {} /\ rmSent = [m \in Milestones |-> 0] /\ rmExcuse = {}

\* setNx answers with an object, which is true whether or not the lock was free.
sendDeadlineReminders(q) ==
    /\ rmTask[q].step = "idle"
    /\ rmLock' = TRUE
    /\ rmTask' = [rmTask EXCEPT ![q] = [RmIdle EXCEPT !.step = "find"]]
    /\ UNCHANGED <<rmStamped, rmSent, rmExcuse>>

\* Mutant of findDue: reminderSentAt is not looked at.
findDue_All(q) ==
    /\ rmTask[q].step = "find"
    /\ rmTask' = [rmTask EXCEPT ![q] = [step |-> "send", todo |-> Milestones, at |-> {}]]
    /\ rmExcuse' = rmExcuse \cup UNION {rmTask[r].todo \cup rmTask[r].at : r \in RemindReq}
    /\ UNCHANGED <<rmLock, rmStamped, rmSent>>

\* The milestones without stamp; those that another request has on its list are excused.
findDue(q) ==
    /\ rmTask[q].step = "find"
    /\ rmTask' = [rmTask EXCEPT ![q] = [step |-> "send", todo |-> Milestones \ rmStamped, at |-> {}]]
    /\ rmExcuse' = rmExcuse \cup UNION {rmTask[r].todo \cup rmTask[r].at : r \in RemindReq}
    /\ UNCHANGED <<rmLock, rmStamped, rmSent>>

\* The notifications of the next milestone; a failure, before or after the first of them
\* is stored, ends the request in its finally.
remind(q, m) ==
    /\ rmTask[q].step = "send" /\ m \in rmTask[q].todo
    /\ rmSent[m] < MaxReminders
    /\ \/ /\ rmSent' = [rmSent EXCEPT ![m] = @ + 1]
          /\ rmTask' = [rmTask EXCEPT ![q] = [step |-> "stamp", todo |-> @.todo \ {m}, at |-> {m}]]
          /\ UNCHANGED rmExcuse
       \/ /\ rmSent' \in {rmSent, [rmSent EXCEPT ![m] = @ + 1]}
          /\ rmExcuse' = rmExcuse \cup {m}
          /\ rmTask' = [rmTask EXCEPT ![q] = [RmIdle EXCEPT !.step = "unlock"]]
    /\ UNCHANGED <<rmLock, rmStamped>>

stampReminder(q) ==
    /\ rmTask[q].step = "stamp"
    /\ rmStamped' = rmStamped \cup rmTask[q].at
    /\ rmTask' = [rmTask EXCEPT ![q].step = "send", ![q].at = {}]
    /\ UNCHANGED <<rmLock, rmSent, rmExcuse>>

\* The finally: the key goes, whoever has written it.
releaseLock(q) ==
    /\ \/ rmTask[q].step = "unlock"
       \/ rmTask[q].step = "send" /\ rmTask[q].todo = {}
    /\ rmLock' = FALSE
    /\ rmTask' = [rmTask EXCEPT ![q] = RmIdle]
    /\ UNCHANGED <<rmStamped, rmSent, rmExcuse>>

\* The process dies: the lock stays until it expires, the stamp is missing.
remindDies(q) ==
    /\ rmTask[q].step # "idle"
    /\ rmExcuse' = rmExcuse \cup rmTask[q].at
    /\ rmTask' = [rmTask EXCEPT ![q] = RmIdle]
    /\ UNCHANGED <<rmLock, rmStamped, rmSent>>

RmNext ==
    \E q \in RemindReq :
        \/ sendDeadlineReminders(q) \/ findDue(q) \/ stampReminder(q) \/ releaseLock(q) \/ remindDies(q)
        \/ \E m \in Milestones : remind(q, m)

RmSpec == RmInit /\ [][RmNext]_rmVars

-----------------------------------------------------------------------------
(* Properties.                                                               *)

\* A milestone is reminded of more than once only if two requests had it on their lists
\* together or one died between the notification and the stamp.
RemindedTwiceExplained == \A m \in Milestones : rmSent[m] > 1 => m \in rmExcuse
=============================================================================
