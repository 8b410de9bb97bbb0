------------------------------- MODULE Tours --------------------------------
(***************************************************************************)
(* A requested tour and its reminders, open-house.service.ts: two hourly    *)
(* jobs on every instance.  Time is counted in quarters of an hour, the     *)
(* jobs run on the hour.                                                    *)
(***************************************************************************)
EXTENDS Integers, FiniteSets

CONSTANTS TourInstances, \* instances that run the jobs
          TourAt,        \* the times for which the tour may be requested
          LastTick,      \* bound on the time
          DayLead        \* 24 hours in quarters, a multiple of 4; two hours are enough

ASSUME ToursAssumption ==
    /\ IsFiniteSet(TourInstances) /\ TourInstances # {}
    /\ TourAt \subseteq Nat /\ LastTick \in Nat
    /\ DayLead \in Nat /\ DayLead % 4 = 0

VARIABLES
    trNow,    \* the time
    trTour,   \* when the tour is, its status, and since when it has it
    trRan,    \* instances whose jobs of this hour have run
    trDay,    \* 24h reminders sent
    trHour    \* 1h reminders sent

trVars == <<trNow, trTour, trRan, trDay, trHour>>

TrTypeOK ==
    /\ trNow \in 0..LastTick
    /\ trTour \in [at : TourAt, status : {"none", "PENDING", "CONFIRMED", "CANCELLED"}, since : 0..LastTick]
    /\ trRan \subseteq TourInstances
    /\ trDay \in Nat /\ trHour \in Nat

TrInit ==
    /\ trNow = 0 /\ trTour \in [at : TourAt, status : {"none"}, since : {0}]
    /\ trRan = {} /\ trDay = 0 /\ trHour = 0

createTourRequest ==
    /\ trTour.status = "none"
    /\ trTour' = [trTour EXCEPT !.status = "PENDING"]
    /\ UNCHANGED <<trNow, trRan, trDay, trHour>>

\* Any status may follow any other.
updateTourStatus(status) ==
    /\ trTour.status # "none"
    /\ trTour' = [trTour EXCEPT !.status = status, !.since = trNow]
    /\ UNCHANGED <<trNow, trRan, trDay, trHour>>

\* Mutant of InWindow: the window ends before its upper bound, and begins after its lower.
InWindow_Open(lead, half) ==
    trTour.status = "CONFIRMED" /\ trTour.at > trNow + lead - half /\ trTour.at < trNow + lead + half

\* Mutant of InWindow: a window of more than an hour.
InWindow_Wide(lead, half) ==
    trTour.status = "CONFIRMED" /\ trTour.at >= trNow + lead - half - 1 /\ trTour.at <= trNow + lead + half

\* The window of the query, with both ends.
InWindow(lead, half) ==
    trTour.status = "CONFIRMED" /\ trTour.at >= trNow + lead - half /\ trTour.at <= trNow + lead + half

\* send24hTourReminders and send1hTourReminders of an instance, at minute 0 of every hour.
sendTourReminders(i) ==
    /\ trNow % 4 = 0 /\ i \notin trRan
    /\ trRan' = trRan \cup {i}
    /\ trDay' = IF InWindow(DayLead, 2) THEN trDay + 1 ELSE trDay
    /\ trHour' = IF InWindow(4, 1) THEN trHour + 1 ELSE trHour
    /\ UNCHANGED <<trNow, trTour>>

\* A quarter of an hour passes; the jobs of a running instance are not late.
quarter ==
    /\ trNow < LastTick
    /\ trNow % 4 = 0 => trRan = TourInstances
    /\ trNow' = trNow + 1 /\ trRan' = {}
    /\ UNCHANGED <<trTour, trDay, trHour>>

TrNext ==
    \/ createTourRequest \/ quarter
    \/ \E status \in {"CONFIRMED", "CANCELLED"} : updateTourStatus(status)
    \/ \E i \in TourInstances : sendTourReminders(i)

TrSpec == TrInit /\ [][TrNext]_trVars

-----------------------------------------------------------------------------
(* Properties.                                                               *)

\* A tour that has been confirmed since before its window is reminded of a day ahead:
\* the windows of successive hours leave no gap.
TourRemindedDayAhead ==
    trTour.status = "CONFIRMED" /\ trNow > trTour.at - DayLead + 2
        /\ trTour.since < trTour.at - DayLead - 2 => trDay > 0

\* An instance sends at most two day-ahead reminders of a tour, and two only if the tour is
\* at half past the hour, where the windows of two hours meet.
TourRemindersBounded ==
    trDay <= Cardinality(TourInstances) * (IF trTour.at % 4 = 2 THEN 2 ELSE 1)
=============================================================================
