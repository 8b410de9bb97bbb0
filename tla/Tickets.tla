------------------------------- MODULE Tickets ------------------------------
(***************************************************************************)
(* One support ticket, support-tickets.service.ts: every operation reads    *)
(* the row, then writes it by its id, and other operations may come in      *)
(* between.  The job that looks for breaches of the deadline runs on every  *)
(* instance.                                                                *)
(***************************************************************************)
EXTENDS Integers, FiniteSets

CONSTANTS TicketReq,    \* requests on the ticket
          SlaInstances  \* instances that run checkSlaBreaches

ASSUME TicketsAssumption == IsFiniteSet(SlaInstances)

VARIABLES
    tkStatus,    \* status, "none" before the ticket is created
    tkAnswered,  \* firstResponseAt is set
    tkResolved,  \* resolvedAt is set
    tkClosed,    \* closedAt is set
    tkAgent,     \* assignedToId is set
    tkLate,      \* the deadline has passed
    tkBreached,  \* slaBreached
    tkTask,      \* [TicketReq -> the operation, with what it decided from the row it has read]
    tkSla,       \* [SlaInstances -> where the job is, and whether the row it found has an agent]
    tkAlerts     \* alerts sent to the agent

tkVars == <<tkStatus, tkAnswered, tkResolved, tkClosed, tkAgent, tkLate, tkBreached, tkTask, tkSla,
            tkAlerts>>

TicketStatuses == {"NEW", "IN_PROGRESS", "WAITING_ON_CUSTOMER", "RESOLVED", "CLOSED"}
OpenTicket == {"NEW", "IN_PROGRESS", "WAITING_ON_CUSTOMER"}

\* VALID_STATUS_TRANSITIONS
NextStatuses ==
    [NEW                 |-> {"IN_PROGRESS", "CLOSED"},
     IN_PROGRESS         |-> {"WAITING_ON_CUSTOMER", "RESOLVED", "CLOSED"},
     WAITING_ON_CUSTOMER |-> {"IN_PROGRESS", "RESOLVED", "CLOSED"},
     RESOLVED            |-> {"CLOSED", "IN_PROGRESS"},
     CLOSED              |-> {"IN_PROGRESS"}]

TkIdle == [op |-> "none", target |-> "NEW", stamp |-> FALSE]
SlaIdle == [at |-> "idle", agent |-> FALSE]

TkTypeOK ==
    /\ tkStatus \in TicketStatuses \cup {"none"}
    /\ {tkAnswered, tkResolved, tkClosed, tkAgent, tkLate, tkBreached} \subseteq BOOLEAN
    /\ tkTask \in [TicketReq -> [op : {"none", "status", "assign", "note"},
                                 target : TicketStatuses, stamp : BOOLEAN]]
    /\ tkSla \in [SlaInstances -> [at : {"idle", "flag", "notify"}, agent : BOOLEAN]]
    /\ tkAlerts \in 0..Cardinality(SlaInstances)

TkInit ==
    /\ tkStatus = "none" /\ tkAnswered = FALSE /\ tkResolved = FALSE /\ tkClosed = FALSE
    /\ tkAgent = FALSE /\ tkLate = FALSE /\ tkBreached = FALSE /\ tkAlerts = 0
    /\ tkTask = [q \in TicketReq |-> TkIdle] /\ tkSla = [i \in SlaInstances |-> SlaIdle]

createTicket ==
    /\ tkStatus = "none"
    /\ tkStatus' = "NEW"
    /\ UNCHANGED <<tkAnswered, tkResolved, tkClosed, tkAgent, tkLate, tkBreached, tkTask, tkSla, tkAlerts>>

\* An operation reads the row and decides on the status that it is going to write, and
\* on whether it writes firstResponseAt.
ReadTicket(q, op, target, stamp) ==
    /\ tkTask[q] = TkIdle /\ tkStatus # "none"
    /\ tkTask' = [tkTask EXCEPT ![q] = [op |-> op, target |-> target, stamp |-> stamp]]
    /\ UNCHANGED <<tkStatus, tkAnswered, tkResolved, tkClosed, tkAgent, tkLate, tkBreached, tkSla, tkAlerts>>

updateTicketStatus(q) ==
    /\ tkStatus # "none"
    /\ \E target \in NextStatuses[tkStatus] :
          ReadTicket(q, "status", target, target = "IN_PROGRESS" /\ ~tkAnswered)

\* assignTicket writes the status it has read, or IN_PROGRESS for a new ticket.
assignTicket(q) ==
    ReadTicket(q, "assign", IF tkStatus = "NEW" THEN "IN_PROGRESS" ELSE tkStatus, tkStatus = "NEW")

addNote(q) == ReadTicket(q, "note", tkStatus, ~tkAnswered)

writeStatus(q) ==
    LET t == tkTask[q] IN
    /\ t.op = "status"
    /\ tkStatus' = t.target
    /\ tkResolved' = (tkResolved \/ t.target = "RESOLVED")
    /\ tkClosed' = (tkClosed \/ t.target = "CLOSED")
    /\ tkAnswered' = (tkAnswered \/ t.stamp)
    /\ tkTask' = [tkTask EXCEPT ![q] = TkIdle]
    /\ UNCHANGED <<tkAgent, tkLate, tkBreached, tkSla, tkAlerts>>

\* Mutant of writeAssignment: the first response is not recorded.
writeAssignment_Silent(q) ==
    /\ tkTask[q].op = "assign"
    /\ tkStatus' = tkTask[q].target
    /\ tkAgent' = TRUE
    /\ tkTask' = [tkTask EXCEPT ![q] = TkIdle]
    /\ UNCHANGED <<tkAnswered, tkResolved, tkClosed, tkLate, tkBreached, tkSla, tkAlerts>>

writeAssignment(q) ==
    LET t == tkTask[q] IN
    /\ t.op = "assign"
    /\ tkStatus' = t.target
    /\ tkAnswered' = (tkAnswered \/ t.stamp)
    /\ tkAgent' = TRUE
    /\ tkTask' = [tkTask EXCEPT ![q] = TkIdle]
    /\ UNCHANGED <<tkResolved, tkClosed, tkLate, tkBreached, tkSla, tkAlerts>>

writeNote(q) ==
    /\ tkTask[q].op = "note"
    /\ tkAnswered' = (tkAnswered \/ tkTask[q].stamp)
    /\ tkTask' = [tkTask EXCEPT ![q] = TkIdle]
    /\ UNCHANGED <<tkStatus, tkResolved, tkClosed, tkAgent, tkLate, tkBreached, tkSla, tkAlerts>>

-----------------------------------------------------------------------------
(* The deadline.                                                             *)

deadlinePasses ==
    /\ tkStatus # "none" /\ ~tkLate
    /\ tkLate' = TRUE
    /\ UNCHANGED <<tkStatus, tkAnswered, tkResolved, tkClosed, tkAgent, tkBreached, tkTask, tkSla, tkAlerts>>

\* Mutant of checkSlaBreaches: a ticket that waits for the customer is not looked at.
checkSlaBreaches_Waiting(i) ==
    /\ tkSla[i] = SlaIdle /\ tkLate /\ ~tkBreached /\ tkStatus \in OpenTicket \ {"WAITING_ON_CUSTOMER"}
    /\ tkSla' = [tkSla EXCEPT ![i] = [at |-> "flag", agent |-> tkAgent]]
    /\ UNCHANGED <<tkStatus, tkAnswered, tkResolved, tkClosed, tkAgent, tkLate, tkBreached, tkTask, tkAlerts>>

checkSlaBreaches(i) ==
    /\ tkSla[i] = SlaIdle /\ tkLate /\ ~tkBreached /\ tkStatus \in OpenTicket
    /\ tkSla' = [tkSla EXCEPT ![i] = [at |-> "flag", agent |-> tkAgent]]
    /\ UNCHANGED <<tkStatus, tkAnswered, tkResolved, tkClosed, tkAgent, tkLate, tkBreached, tkTask, tkAlerts>>

\* updateMany by the ids that were found.
flagBreach(i) ==
    /\ tkSla[i].at = "flag"
    /\ tkBreached' = TRUE
    /\ tkSla' = [tkSla EXCEPT ![i].at = "notify"]
    /\ UNCHANGED <<tkStatus, tkAnswered, tkResolved, tkClosed, tkAgent, tkLate, tkTask, tkAlerts>>

\* The agent is the one of the row that was found.
notifyBreach(i) ==
    /\ tkSla[i].at = "notify"
    /\ tkAlerts' = IF tkSla[i].agent THEN tkAlerts + 1 ELSE tkAlerts
    /\ tkSla' = [tkSla EXCEPT ![i] = SlaIdle]
    /\ UNCHANGED <<tkStatus, tkAnswered, tkResolved, tkClosed, tkAgent, tkLate, tkBreached, tkTask>>

TkNext ==
    \/ createTicket \/ deadlinePasses
    \/ \E q \in TicketReq :
          \/ updateTicketStatus(q) \/ assignTicket(q) \/ addNote(q)
          \/ writeStatus(q) \/ writeAssignment(q) \/ writeNote(q)
    \/ \E i \in SlaInstances : checkSlaBreaches(i) \/ flagBreach(i) \/ notifyBreach(i)

TkSpec == TkInit /\ [][TkNext]_tkVars

-----------------------------------------------------------------------------
(* Properties.                                                               *)

\* A ticket that is or was worked on has a first response, and one that is resolved or
\* closed the date of it, in whichever order the reads and writes of two operations come.
TicketStamped ==
    /\ tkStatus \in {"IN_PROGRESS", "WAITING_ON_CUSTOMER", "RESOLVED"} => tkAnswered
    /\ tkStatus = "RESOLVED" => tkResolved
    /\ tkStatus = "CLOSED" => tkClosed

\* A ticket past its deadline is flagged or is no longer open.
SlaBreachNoticed == []<>(tkLate /\ tkStatus \in OpenTicket => tkBreached)
=============================================================================
