------------------------------ MODULE Listings -------------------------------
(* One property listing: its status, soft deletion and expiry.  Owners and   *)
(* administrators change it through requests that read the row and write it  *)
(* later; the daily expiry job runs beside them.                             *)
EXTENDS Integers, FiniteSets

CONSTANTS ListReq   \* requests that may overlap

ASSUME ListingsAssumption == IsFiniteSet(ListReq)

VARIABLES listing,  \* the row: status, deleted, due (expiryDate), old (updatedAt)
          lsReq,    \* what each request has read and is about to write
          expiry,   \* next step of the expiry job
          lsFreed   \* history: the last write bypassed the table or relied on an old read

lsVars == <<listing, lsReq, expiry, lsFreed>>

PropertyStatus == {"DRAFT", "PENDING", "ACTIVE", "UNDER_CONTRACT", "SOLD", "RENTED",
                   "ARCHIVED", "EXPIRED"}

ALLOWED_PROPERTY_STATUS_TRANSITIONS ==
    [s \in PropertyStatus |->
        CASE s = "DRAFT" -> {"PENDING", "ARCHIVED", "EXPIRED"}
          [] s = "PENDING" -> {"ACTIVE", "DRAFT", "ARCHIVED", "EXPIRED"}
          [] s = "ACTIVE" -> {"UNDER_CONTRACT", "RENTED", "ARCHIVED", "EXPIRED"}
          [] s = "UNDER_CONTRACT" -> {"SOLD", "ACTIVE"}
          [] s = "SOLD" -> {"ARCHIVED"}
          [] s = "RENTED" -> {"ACTIVE", "ARCHIVED"}
          [] s = "ARCHIVED" -> {"DRAFT"}
          [] s = "EXPIRED" -> {"ACTIVE", "DRAFT", "ARCHIVED"}]

canTransitionPropertyStatus(from, to) ==
    from = to \/ to \in ALLOWED_PROPERTY_STATUS_TRANSITIONS[from]

LsIdle == [op |-> "idle", to |-> "DRAFT", stale |-> FALSE]

LsTypeOK ==
    /\ listing \in [status : PropertyStatus, deleted : BOOLEAN,
                    due : {"none", "ahead", "past"}, old : BOOLEAN]
    /\ lsReq \in [ListReq -> [op : {"idle", "transition"}, to : PropertyStatus, stale : BOOLEAN]]
    /\ expiry \in {"idle", "expire", "notify", "archive"} /\ lsFreed \in BOOLEAN

\* create: DEFAULT_PROPERTY_STATUS, with or without an expiry date
LsInit == /\ listing \in {[status |-> "PENDING", deleted |-> FALSE, due |-> d, old |-> FALSE] :
                             d \in {"none", "ahead"}}
          /\ lsReq = [r \in ListReq |-> LsIdle] /\ expiry = "idle" /\ lsFreed = FALSE

\* a write sets updatedAt, and makes the reads of the other requests old ones
Written(r, row) ==
    /\ listing' = [row EXCEPT !.old = FALSE]
    /\ lsReq' = [s \in ListReq |-> IF s = r THEN LsIdle
                                   ELSE [lsReq[s] EXCEPT !.stale = lsReq[s].op # "idle"]]

LsRead(r, to) ==
    /\ lsReq[r].op = "idle"
    /\ lsReq' = [lsReq EXCEPT ![r] = [op |-> "transition", to |-> to, stale |-> FALSE]]
    /\ UNCHANGED <<listing, expiry, lsFreed>>

transitionStatus_Unchecked(r) ==
    \E to \in PropertyStatus \ {listing.status} : LsRead(r, to)

\* transitionStatus: read, no-op when unchanged, check of the table ...
transitionStatus(r) ==
    \E to \in PropertyStatus \ {listing.status} :
        canTransitionPropertyStatus(listing.status, to) /\ LsRead(r, to)

\* ... and a write that does not repeat the check
commitTransition(r) ==
    /\ lsReq[r].op = "transition"
    /\ Written(r, [listing EXCEPT !.status = lsReq[r].to])
    /\ lsFreed' = lsReq[r].stale /\ UNCHANGED expiry

\* approveProperty and rejectProperty of the properties service
approveProperty(r) == /\ listing.status # "ACTIVE"
                      /\ canTransitionPropertyStatus(listing.status, "ACTIVE")
                      /\ LsRead(r, "ACTIVE")
rejectProperty(r) == /\ listing.status # "ARCHIVED"
                     /\ canTransitionPropertyStatus(listing.status, "ARCHIVED")
                     /\ LsRead(r, "ARCHIVED")

\* One write of the row by a request that checks the owner or the role only, which do
\* not change: no table guards the status that it writes.
Overwrite(r, row) ==
    /\ lsReq[r].op = "idle" /\ Written(r, row)
    /\ lsFreed' = (row.status # listing.status) /\ UNCHANGED expiry

\* the body of PUT /properties/:id may carry a status and an expiry date
updateListing(r) == \E s \in PropertyStatus, d \in {listing.due, "ahead"} :
    Overwrite(r, [listing EXCEPT !.status = s, !.due = d])

\* soft deletion and its reversal
remove(r) == Overwrite(r, [listing EXCEPT !.deleted = TRUE, !.status = "ARCHIVED"])
restore(r) == Overwrite(r, [listing EXCEPT !.deleted = FALSE, !.status = "DRAFT"])

\* renewProperty looks at the owner only: any listing becomes ACTIVE
renewProperty(r) == Overwrite(r, [listing EXCEPT !.status = "ACTIVE", !.due = "ahead"])

BulkModerationStatus_Flagged == [APPROVE |-> "ACTIVE", REJECT |-> "ARCHIVED", FLAG |-> "FLAGGED"]

\* moderation by an administrator: approve, reject, flag, one listing or many
BulkModerationStatus == [APPROVE |-> "ACTIVE", REJECT |-> "ARCHIVED", FLAG |-> "ARCHIVED"]
bulkModerate(r) == \E a \in DOMAIN BulkModerationStatus :
    Overwrite(r, [listing EXCEPT !.status = BulkModerationStatus[a]])

\* the bulk change of status refuses any other status
BULK_STATUSES == {"DRAFT", "ACTIVE", "ARCHIVED"}
bulkUpdatePropertyStatus(r) == \E s \in BULK_STATUSES : Overwrite(r, [listing EXCEPT !.status = s])

-----------------------------------------------------------------------------
(* The expiry job and time.                                                  *)

KeptStatuses == {"SOLD", "RENTED", "ARCHIVED", "EXPIRED"}

\* a conditional updateMany: row and test are one statement; the table has no move from
\* UNDER_CONTRACT to EXPIRED
Expire(keep) ==
    IF listing.due = "past" /\ listing.status \notin keep
    THEN /\ listing' = [listing EXCEPT !.status = "EXPIRED", !.old = FALSE]
         /\ lsReq' = [s \in ListReq |-> [lsReq[s] EXCEPT !.stale = lsReq[s].op # "idle"]]
         /\ lsFreed' = (listing.status = "UNDER_CONTRACT")
    ELSE UNCHANGED <<listing, lsReq, lsFreed>>

expireProperties_All == Expire({"EXPIRED"})
expireProperties_Active == Expire(PropertyStatus \ {"ACTIVE"})

expireProperties == Expire(KeptStatuses)

\* every day: warnings first; one that cannot be sent ends the whole run
handlePropertyExpiry == /\ expiry = "idle" /\ expiry' = "expire" /\ UNCHANGED <<listing, lsReq, lsFreed>>
warningFails == /\ expiry = "expire" /\ expiry' = "idle" /\ UNCHANGED <<listing, lsReq, lsFreed>>
runExpire == /\ expiry = "expire" /\ expireProperties
             /\ expiry' \in IF listing' # listing THEN {"notify"} ELSE {"notify", "archive"}
sendExpiredNotifications == /\ expiry = "notify" /\ expiry' \in {"archive", "idle"}
                            /\ UNCHANGED <<listing, lsReq, lsFreed>>
archiveExpiredPropertiesPastGracePeriod ==
    /\ expiry = "archive" /\ expiry' = "idle"
    /\ IF listing.status = "EXPIRED" /\ listing.old
       THEN /\ listing' = [listing EXCEPT !.status = "ARCHIVED", !.old = FALSE]
            /\ lsReq' = [s \in ListReq |-> [lsReq[s] EXCEPT !.stale = lsReq[s].op # "idle"]]
            /\ lsFreed' = FALSE
       ELSE UNCHANGED <<listing, lsReq, lsFreed>>

triggerManualExpiry == expireProperties /\ UNCHANGED expiry

\* the expiry date passes; thirty days go by without a write
DatePasses == /\ listing.due = "ahead" /\ listing' = [listing EXCEPT !.due = "past"]
              /\ UNCHANGED <<lsReq, expiry, lsFreed>>
GraceEnds == /\ listing.status = "EXPIRED" /\ ~listing.old /\ listing' = [listing EXCEPT !.old = TRUE]
             /\ UNCHANGED <<lsReq, expiry, lsFreed>>

ExpiryStep == \/ handlePropertyExpiry \/ warningFails \/ runExpire \/ sendExpiredNotifications
              \/ archiveExpiredPropertiesPastGracePeriod
LsStep(r) == \/ transitionStatus(r) \/ commitTransition(r) \/ approveProperty(r) \/ rejectProperty(r)
             \/ updateListing(r) \/ remove(r) \/ restore(r) \/ renewProperty(r)
             \/ bulkModerate(r) \/ bulkUpdatePropertyStatus(r)

LsNext == (\E r \in ListReq : LsStep(r)) \/ ExpiryStep \/ triggerManualExpiry \/ DatePasses \/ GraceEnds

LsSpec == LsInit /\ [][LsNext]_lsVars

-----------------------------------------------------------------------------
\* The documented workflow: the table, and writes that leave the status alone.
ListingMoves == {m \in PropertyStatus \X PropertyStatus : canTransitionPropertyStatus(m[1], m[2])}

ListingWorkflow == INSTANCE Workflow WITH
    Stages <- PropertyStatus, First <- {"PENDING"}, Moves <- ListingMoves,
    stage <- listing.status, freed <- lsFreed

(* Every change of the status is one of the table (property-status.constants *)
(* .ts:17-37), however the requests and the job interleave, except for a     *)
(* transition written after the status it checked has changed, the expiry of *)
(* a property under contract (properties.service.ts:607-622), and the writes *)
(* that never look at the table: PUT /properties/:id (:506), deletion and    *)
(* restoring (:526-592), renewProperty (property-expiry.service.ts:225),     *)
(* bulkUpdatePropertyStatus (properties.service.ts:941) and bulkModerate     *)
(* (admin.service.ts:320).                                                   *)
ListingFollowsWorkflow == ListingWorkflow!WfSpec

(* A listing whose date has passed does not stay on the market: the daily    *)
(* job expires it, unless somebody sells, rents, archives or renews it first *)
(* (property-expiry.service.ts:21-42).                                       *)
OverdueListingsExpire ==
    (listing.due = "past" /\ listing.status \notin KeptStatuses)
        ~> (listing.status \in KeptStatuses \/ listing.due # "past")
=============================================================================
