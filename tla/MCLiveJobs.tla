----------------------------- MODULE MCLiveJobs -----------------------------
(***************************************************************************)
(* What the jobs that compete with requests, or for workers, must get done *)
(* in the end: webhook deliveries, the deletion of accounts, the expiry of *)
(* listings.  They share no state: part says whose behaviour it is, and    *)
(* the variables of the others keep their initial values.  Two modules are *)
(* instantiated with their variables renamed, because their names meet.    *)
(***************************************************************************)
EXTENDS Listings

VARIABLES
    part,
    \* Webhooks
    whHook, whStatus, whAttempts, whDue, whEvent, whAdding, whCron, whJob, whTriggered, whTries,
    whPosts, whAcked, whKeys,
    \* AccountDeletion
    adExists, adDeactivated, adHold, adScheduled, adAudit, adSignedIn, adReq, adJob, adAsked,
    adPassed, adKept, adRemoved

whVars == <<whHook, whStatus, whAttempts, whDue, whEvent, whAdding, whCron, whJob, whTriggered, whTries,
            whPosts, whAcked, whKeys>>
adVars == <<adExists, adDeactivated, adHold, adScheduled, adAudit, adSignedIn, adReq, adJob, adAsked,
            adPassed, adKept, adRemoved>>

\* One delivery, which the queue and the cron both carry; the owner leaves the webhook alone.
WH == INSTANCE Webhooks WITH
    Delivery <- {"d1"}, Event <- {"e1"}, Job <- {"j1", "j2"}, MAX_ATTEMPTS <- 3, Queue <- TRUE,
    Workers <- 2, HasId <- TRUE, Ops <- {}, Faults <- FALSE, MaxTries <- 20,
    hook <- whHook, status <- whStatus, attempts <- whAttempts, due <- whDue, event <- whEvent,
    adding <- whAdding, cron <- whCron, job <- whJob, triggered <- whTriggered, tries <- whTries,
    posts <- whPosts, acked <- whAcked, keys <- whKeys

\* All operations of one user, in two overlapping requests, against the daily job; its overlapping
\* runs are in MCAccounts.
AD == INSTANCE AccountDeletion WITH
    User <- {"u1"}, Linked <- {}, DeletionReq <- {"r1", "r2"}, Job <- {"j1"}, MaxRequests <- 2,
    Ops <- {"request", "cancel", "deactivate", "hold", "remove"},
    exists <- adExists, isDeactivated <- adDeactivated, legalHold <- adHold, scheduled <- adScheduled,
    audit <- adAudit, signedIn <- adSignedIn, req <- adReq, job <- adJob, asked <- adAsked,
    passed <- adPassed, kept <- adKept, removed <- adRemoved

JobsInit ==
    /\ part \in {"webhooks", "deletion", "listings"}
    /\ WH!Init /\ AD!Init /\ LsInit
    /\ part # "webhooks" => whHook = "ACTIVE"
    /\ part # "listings" => listing.due = "none"

JobsNext ==
    /\ UNCHANGED part
    /\ \/ part = "webhooks" /\ WH!Next /\ UNCHANGED <<adVars, lsVars>>
       \/ part = "deletion" /\ AD!Next /\ UNCHANGED <<whVars, lsVars>>
       \/ part = "listings" /\ LsNext /\ UNCHANGED <<whVars, adVars>>

-----------------------------------------------------------------------------
(* Fairness: the timers, the jobs and the calls that are awaited.  Strong    *)
(* for what waits for a free worker or slot, and for the job steps that a    *)
(* request can disable for a while; none for clients and faults.             *)

WebhooksFair ==
    /\ WF_whVars(part = "webhooks" /\ WH!CronRead)
    /\ WF_whVars(part = "webhooks" /\ WH!RetryTimePasses("d1"))
    /\ SF_whVars(part = "webhooks" /\ \E j \in {"j1", "j2"} : WH!QueueAdd("d1", j))
    /\ SF_whVars(part = "webhooks" /\ \E j \in {"j1", "j2"} : WH!CronAdd("d1", j))
    /\ \A j \in {"j1", "j2"} : SF_whVars(part = "webhooks" /\ WH!RunJob(j))

DeletionFair ==
    /\ WF_adVars(part = "deletion" /\ AD!RetentionEnds("u1"))
    /\ WF_adVars(part = "deletion" /\ AD!TokenExpires("u1"))
    /\ \A r \in {"r1", "r2"} : WF_adVars(part = "deletion" /\ AD!Handle(r))
    /\ SF_adVars(part = "deletion" /\ AD!RunJob("j1"))

ExpiryFair ==
    /\ WF_lsVars(part = "listings" /\ handlePropertyExpiry)
    /\ SF_lsVars(part = "listings" /\ runExpire)
    /\ WF_lsVars(part = "listings" /\ sendExpiredNotifications)
    /\ WF_lsVars(part = "listings" /\ archiveExpiredPropertiesPastGracePeriod)

JobsSpec ==
    /\ JobsInit /\ [][JobsNext]_<<part, whVars, adVars, lsVars>>
    /\ WebhooksFair /\ DeletionFair /\ ExpiryFair

-----------------------------------------------------------------------------
(* The properties of the instantiated modules.                               *)

\* While the webhook stays active, every stored delivery ends as SUCCESS or
\* FAILED, whichever of the two retry mechanisms carries it there.
Settles == WH!Settles

\* A requested deletion comes to an end: the user is removed, or the date is
\* withdrawn, or a legal hold stands in the way.
DeletionHappens == AD!DeletionHappens
=============================================================================
