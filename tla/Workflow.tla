------------------------------ MODULE Workflow -------------------------------
(* What the components with a status column promise: every change of the     *)
(* status is in a fixed table, or made by a write that did not go through    *)
(* the check of the table on a current read of the row.                      *)
CONSTANTS Stages,  \* values of the status column
          First,   \* statuses a new row may have
          Moves    \* pairs the table allows

VARIABLES stage,  \* the status in the row
          freed   \* the last write bypassed the table, or relied on an outdated read

WfInit == stage \in First /\ freed = FALSE

\* a checked change of status
Move == <<stage, stage'>> \in Moves /\ freed' = FALSE

\* any other write: nothing is promised of this one
Free == stage' \in Stages /\ freed' = TRUE

WfNext == Move \/ Free

WfSpec == WfInit /\ [][WfNext]_<<stage, freed>>
=============================================================================
