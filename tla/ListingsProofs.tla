--------------------------- MODULE ListingsProofs ---------------------------
(***************************************************************************)
(* The invariants of the modules about properties and their documents, for *)
(* any requests, images, prices, rows and files: one section for each      *)
(* module, and at the end the properties of their composition in           *)
(* MCListings.                                                             *)
(***************************************************************************)
EXTENDS MCListings, TransactionsProofs, FiniteSetTheorems, FunctionTheorems, SequenceTheorems, TLAPS

-----------------------------------------------------------------------------
(* Listings.                                                               *)

\* A request whose read is still current holds a target that the table allows from
\* the status of the row; every write of the status makes the other reads old.
CurrentReadsAllowed ==
    \A r \in ListReq : lsReq[r].op = "transition" /\ ~lsReq[r].stale
                          => canTransitionPropertyStatus(listing.status, lsReq[r].to)

LsInv == LsTypeOK /\ CurrentReadsAllowed

\* What a step may do to the row as the abstract workflow sees it.
FollowsOrFrees ==
    \/ listing'.status = listing.status /\ lsFreed' = lsFreed
    \/ lsFreed' = TRUE
    \/ <<listing.status, listing'.status>> \in ListingMoves /\ lsFreed' = FALSE

\* A read changes neither row nor history.
LEMMA ReadFollows ==
  ASSUME LsInv, NEW r \in ListReq, NEW to \in PropertyStatus, LsRead(r, to),
         canTransitionPropertyStatus(listing.status, to)
  PROVE  LsInv' /\ FollowsOrFrees
<1>1. LsTypeOK'
  BY DEF LsInv, LsTypeOK, LsRead
<1>2. CurrentReadsAllowed'
  BY DEF LsInv, LsTypeOK, CurrentReadsAllowed, LsRead
<1>3. FollowsOrFrees
  BY DEF LsRead, FollowsOrFrees
<1> QED BY <1>1, <1>2, <1>3 DEF LsInv

\* A write ends the request that makes it and makes the reads of the others old.
LEMMA WriteKeepsInv ==
  ASSUME LsInv, NEW r \in ListReq, lsFreed' \in BOOLEAN, expiry' = expiry,
         NEW row \in [status : PropertyStatus, deleted : BOOLEAN,
                      due : {"none", "ahead", "past"}, old : BOOLEAN],
         Written(r, row)
  PROVE  LsInv' /\ listing'.status = row.status
<1>1. listing' \in [status : PropertyStatus, deleted : BOOLEAN,
                    due : {"none", "ahead", "past"}, old : BOOLEAN]
      /\ listing'.status = row.status
  BY DEF Written
<1>2. lsReq' \in [ListReq -> [op : {"idle", "transition"}, to : PropertyStatus, stale : BOOLEAN]]
  BY DEF LsInv, LsTypeOK, Written, LsIdle, PropertyStatus
<1>3. CurrentReadsAllowed'
  BY DEF LsInv, LsTypeOK, CurrentReadsAllowed, Written, LsIdle
<1> QED BY <1>1, <1>2, <1>3 DEF LsInv, LsTypeOK

\* The steps of a request.
LEMMA RequestFollows ==
  ASSUME LsInv, NEW r \in ListReq, LsStep(r)
  PROVE  LsInv' /\ FollowsOrFrees
<1>1. CASE transitionStatus(r)
  BY <1>1, ReadFollows DEF transitionStatus
<1>2. CASE approveProperty(r)
  BY <1>2, ReadFollows DEF approveProperty, PropertyStatus
<1>3. CASE rejectProperty(r)
  BY <1>3, ReadFollows DEF rejectProperty, PropertyStatus
<1>4. CASE commitTransition(r)
  <2> DEFINE row == [listing EXCEPT !.status = lsReq[r].to]
  <2>1. /\ row \in [status : PropertyStatus, deleted : BOOLEAN,
                    due : {"none", "ahead", "past"}, old : BOOLEAN]
        /\ row.status = lsReq[r].to
    BY DEF LsInv, LsTypeOK
  <2>2. lsFreed' \in BOOLEAN /\ expiry' = expiry /\ Written(r, row)
    BY <1>4 DEF LsInv, LsTypeOK, commitTransition
  <2>3. LsInv' /\ listing'.status = lsReq[r].to
    BY <2>1, <2>2, WriteKeepsInv
  <2>4. CASE lsReq[r].stale
    BY <1>4, <2>3, <2>4 DEF commitTransition, FollowsOrFrees
  <2>5. CASE ~lsReq[r].stale
    <3>1. canTransitionPropertyStatus(listing.status, listing'.status)
      BY <1>4, <2>3, <2>5 DEF LsInv, CurrentReadsAllowed, commitTransition
    <3>2. <<listing.status, listing'.status>> \in ListingMoves
      BY <2>3, <3>1 DEF LsInv, LsTypeOK, ListingMoves
    <3>3. lsFreed' = FALSE
      BY <1>4, <2>5 DEF LsInv, LsTypeOK, commitTransition
    <3> QED BY <2>3, <3>2, <3>3 DEF FollowsOrFrees
  <2> QED BY <2>4, <2>5
<1>5. ASSUME NEW row \in [status : PropertyStatus, deleted : BOOLEAN,
                          due : {"none", "ahead", "past"}, old : BOOLEAN], Overwrite(r, row)
      PROVE  LsInv' /\ FollowsOrFrees
  <2>1. lsFreed' = (row.status # listing.status) /\ expiry' = expiry /\ Written(r, row)
    BY <1>5 DEF Overwrite
  <2>5. lsFreed' \in BOOLEAN
    BY <2>1
  <2>2. LsInv' /\ listing'.status = row.status
    BY <2>1, <2>5, WriteKeepsInv
  <2>3. CASE row.status # listing.status
    <3>1. lsFreed' = TRUE
      BY <2>1, <2>3
    <3> QED BY <2>2, <3>1 DEF FollowsOrFrees
  <2>4. CASE row.status = listing.status
    <3>1. <<listing.status, listing'.status>> \in ListingMoves
      BY <2>2, <2>4 DEF LsInv, LsTypeOK, ListingMoves, canTransitionPropertyStatus
    <3>2. lsFreed' = FALSE
      BY <2>1, <2>4
    <3> QED BY <2>2, <3>1, <3>2 DEF FollowsOrFrees
  <2> QED BY <2>3, <2>4
<1>6. CASE updateListing(r)
  <2>1. PICK s \in PropertyStatus, d \in {listing.due, "ahead"} :
            Overwrite(r, [listing EXCEPT !.status = s, !.due = d])
    BY <1>6 DEF updateListing
  <2>2. [listing EXCEPT !.status = s, !.due = d]
           \in [status : PropertyStatus, deleted : BOOLEAN,
                due : {"none", "ahead", "past"}, old : BOOLEAN]
    BY DEF LsInv, LsTypeOK
  <2> QED BY <1>5, <2>1, <2>2
<1>7. CASE remove(r) \/ restore(r) \/ renewProperty(r)
  BY <1>5, <1>7 DEF remove, restore, renewProperty, PropertyStatus, LsInv, LsTypeOK
<1>8. CASE bulkModerate(r)
  BY <1>5, <1>8 DEF bulkModerate, BulkModerationStatus, PropertyStatus, LsInv, LsTypeOK
<1>9. CASE bulkUpdatePropertyStatus(r)
  BY <1>5, <1>9 DEF bulkUpdatePropertyStatus, BULK_STATUSES, PropertyStatus, LsInv, LsTypeOK
<1> QED BY <1>1, <1>2, <1>3, <1>4, <1>6, <1>7, <1>8, <1>9 DEF LsStep

\* The conditional update of the expiry job tests and writes in one statement, so that
\* it never touches a sale, a lease or the archive, and makes all reads old.
LEMMA ExpireFollows ==
  ASSUME LsInv, Expire(KeptStatuses), expiry' \in {"idle", "expire", "notify", "archive"}
  PROVE  LsInv' /\ FollowsOrFrees
<1>1. CASE listing.due = "past" /\ listing.status \notin KeptStatuses
  <2>1. "EXPIRED" \in PropertyStatus
    BY DEF PropertyStatus
  <2>2. listing' = [listing EXCEPT !.status = "EXPIRED", !.old = FALSE]
    BY <1>1 DEF Expire
  <2>3. lsReq' = [s \in ListReq |-> [lsReq[s] EXCEPT !.stale = lsReq[s].op # "idle"]]
    BY <1>1 DEF Expire
  <2>9. lsFreed' = (listing.status = "UNDER_CONTRACT")
    BY <1>1 DEF Expire
  <2>4. LsTypeOK' /\ listing'.status = "EXPIRED"
    <3>1. lsFreed' \in BOOLEAN
      BY <2>9
    <3>2. /\ listing' \in [status : PropertyStatus, deleted : BOOLEAN,
                           due : {"none", "ahead", "past"}, old : BOOLEAN]
          /\ listing'.status = "EXPIRED"
      BY <2>1, <2>2 DEF LsInv, LsTypeOK
    <3>3. lsReq' \in [ListReq -> [op : {"idle", "transition"}, to : PropertyStatus, stale : BOOLEAN]]
      BY <2>3 DEF LsInv, LsTypeOK
    <3> QED BY <3>1, <3>2, <3>3 DEF LsTypeOK
  <2>5. CurrentReadsAllowed'
    BY <2>3 DEF LsInv, LsTypeOK, CurrentReadsAllowed
  <2>6. listing.status \in {"DRAFT", "PENDING", "ACTIVE", "UNDER_CONTRACT"}
    BY <1>1 DEF LsInv, LsTypeOK, KeptStatuses, PropertyStatus
  <2>7. CASE listing.status = "UNDER_CONTRACT"
    BY <2>4, <2>5, <2>7, <2>9 DEF LsInv, FollowsOrFrees
  <2>8. CASE listing.status # "UNDER_CONTRACT"
    <3>1. <<listing.status, "EXPIRED">> \in ListingMoves
      BY <2>6, <2>8 DEF ListingMoves, canTransitionPropertyStatus,
                        ALLOWED_PROPERTY_STATUS_TRANSITIONS, PropertyStatus
    <3>2. lsFreed' = FALSE
      BY <2>8, <2>9
    <3> QED BY <2>4, <2>5, <3>1, <3>2 DEF LsInv, FollowsOrFrees
  <2> QED BY <2>7, <2>8
<1>2. CASE ~(listing.due = "past" /\ listing.status \notin KeptStatuses)
  BY <1>2 DEF LsInv, LsTypeOK, CurrentReadsAllowed, FollowsOrFrees, Expire
<1> QED BY <1>1, <1>2

\* The steps of the job and of time.
LEMMA JobFollows ==
  ASSUME LsInv, ExpiryStep \/ triggerManualExpiry \/ DatePasses \/ GraceEnds
  PROVE  LsInv' /\ FollowsOrFrees
<1>1. CASE handlePropertyExpiry \/ warningFails \/ sendExpiredNotifications
  BY <1>1 DEF handlePropertyExpiry, warningFails, sendExpiredNotifications, LsInv, LsTypeOK,
              CurrentReadsAllowed, FollowsOrFrees
<1>2. CASE runExpire
  BY <1>2, ExpireFollows DEF runExpire, expireProperties
<1>3. CASE triggerManualExpiry
  BY <1>3, ExpireFollows DEF triggerManualExpiry, expireProperties, LsInv, LsTypeOK
<1>4. CASE archiveExpiredPropertiesPastGracePeriod
  <2> USE DEF archiveExpiredPropertiesPastGracePeriod
  <2>1. LsTypeOK'
    <3>1. "ARCHIVED" \in PropertyStatus
      BY DEF PropertyStatus
    <3>2. CASE listing.status = "EXPIRED" /\ listing.old
      <4>1. listing' = [listing EXCEPT !.status = "ARCHIVED", !.old = FALSE]
        BY <1>4, <3>2
      <4>2. lsReq' = [s \in ListReq |-> [lsReq[s] EXCEPT !.stale = lsReq[s].op # "idle"]]
        BY <1>4, <3>2
      <4>3. expiry' = "idle" /\ lsFreed' = FALSE
        BY <1>4, <3>2
      <4> HIDE DEF archiveExpiredPropertiesPastGracePeriod
      <4> QED BY <3>1, <4>1, <4>2, <4>3 DEF LsInv, LsTypeOK
    <3>3. CASE ~(listing.status = "EXPIRED" /\ listing.old)
      BY <1>4, <3>3 DEF LsInv, LsTypeOK
    <3> QED BY <3>2, <3>3
  <2>2. CurrentReadsAllowed'
    BY <1>4 DEF LsInv, LsTypeOK, CurrentReadsAllowed
  <2>3. \/ listing'.status = listing.status /\ lsFreed' = lsFreed
        \/ <<listing.status, listing'.status>> \in ListingMoves /\ lsFreed' = FALSE
    BY <1>4 DEF LsInv, LsTypeOK, ListingMoves, PropertyStatus, canTransitionPropertyStatus,
                ALLOWED_PROPERTY_STATUS_TRANSITIONS
  <2> QED BY <1>4, <2>1, <2>2, <2>3 DEF LsInv, FollowsOrFrees
<1>5. CASE DatePasses \/ GraceEnds
  <2>1. LsTypeOK' /\ listing'.status = listing.status
    BY <1>5 DEF LsInv, LsTypeOK, DatePasses, GraceEnds
  <2> QED BY <1>5, <2>1 DEF LsInv, CurrentReadsAllowed, FollowsOrFrees, DatePasses, GraceEnds
<1> QED BY <1>1, <1>2, <1>3, <1>4, <1>5 DEF ExpiryStep

\* At first the listing is pending and no request has read it.
LEMMA LsInitInv == LsInit => LsInv /\ ListingWorkflow!WfInit
<1> SUFFICES ASSUME LsInit PROVE LsInv /\ ListingWorkflow!WfInit
  OBVIOUS
<1>1. {"PENDING", "DRAFT"} \subseteq PropertyStatus
  BY DEF PropertyStatus
<1>2. PICK d \in {"none", "ahead"} :
          listing = [status |-> "PENDING", deleted |-> FALSE, due |-> d, old |-> FALSE]
  BY DEF LsInit
<1>3. LsTypeOK
  BY <1>1, <1>2 DEF LsInit, LsTypeOK, LsIdle
<1>4. CurrentReadsAllowed
  BY DEF LsInit, CurrentReadsAllowed, LsIdle
<1>5. ListingWorkflow!WfInit
  BY <1>2 DEF LsInit, ListingWorkflow!WfInit
<1> QED BY <1>3, <1>4, <1>5 DEF LsInv

\* Every step keeps the invariant and is one of the abstract workflow.
LEMMA LsNextInv == LsInv /\ [LsNext]_lsVars
                     => LsInv' /\ [ListingWorkflow!WfNext]_(<<listing.status, lsFreed>>)
<1> SUFFICES ASSUME LsInv, [LsNext]_lsVars
             PROVE  LsInv' /\ [ListingWorkflow!WfNext]_(<<listing.status, lsFreed>>)
  OBVIOUS
<1>1. CASE UNCHANGED lsVars
  BY <1>1 DEF LsInv, LsTypeOK, CurrentReadsAllowed, lsVars
<1>2. CASE LsNext
  <2>1. LsInv' /\ FollowsOrFrees
    BY <1>2, RequestFollows, JobFollows DEF LsNext
  <2>2. listing'.status \in PropertyStatus /\ lsFreed \in BOOLEAN
    BY <2>1 DEF LsInv, LsTypeOK
  <2> QED BY <2>1, <2>2 DEF FollowsOrFrees, ListingWorkflow!WfNext, ListingWorkflow!Move,
                            ListingWorkflow!Free
<1> QED BY <1>1, <1>2

\* The listing implements the abstract workflow (ListingFollowsWorkflow), for any number
\* of overlapping requests: transitionStatus checks on an earlier read, and a change of
\* status outside the table is one of an outdated read, of a writer that never looks at
\* the table, or the expiry of a property under contract.
THEOREM ListingRefinement == LsSpec => ListingFollowsWorkflow
  BY LsInitInv, LsNextInv, PTL DEF LsSpec, ListingFollowsWorkflow, ListingWorkflow!WfSpec

\* property-status.util.ts and the expiry job keep the row and the progress of the
\* requests in their types.
LEMMA ListingTyped == LsSpec => []LsTypeOK
<1>1. LsInv => LsTypeOK
  BY DEF LsInv
<1> QED BY <1>1, LsInitInv, LsNextInv, PTL DEF LsSpec

-----------------------------------------------------------------------------
(* The cache of listings.  The two properties are inductive together: an    *)
(* invalidation that loses sight of a key finds it in the map of another    *)
(* instance, or with a request about to tag it, because a cached key is     *)
(* tagged somewhere or about to be.                                         *)
VwInv == VwTypeOK /\ OutdatedViewsExplained /\ CachedKeysTagged

VwRequests == [op : {"idle", "load", "stored", "snapshot", "tag", "detail", "write", "clear"},
               at : Instances, keys : SUBSET Keys, fresh : BOOLEAN]
VwStates == {"none", "fresh", "outdated"}

\* A request in this state will delete k; will tag it.
Repairs(q, k) == \/ q.op = "snapshot"
                 \/ q.op = "tag" /\ k \in q.keys \union {"detail"}
                 \/ q.op = "detail" /\ k = "detail"
Tags(q, k) == q.op = "stored" /\ k \in q.keys

\* A key that an instance knows, or will know.
Findable(k) == Untagged(k) \/ \E i \in Instances : k \in tagged[i]

\* The types, as the proofs below use them.
LEMMA VwTypes ==
  ASSUME VwInv
  PROVE  /\ entry \in [Keys -> VwStates] /\ tagged \in [Instances -> SUBSET Keys]
         /\ excused \subseteq Keys /\ vwReq \in [ViewReq -> VwRequests]
  BY DEF VwInv, VwTypeOK, VwRequests, VwStates

\* A request that does nothing has its type.
LEMMA VwIdleTyped ==
  /\ VwIdle \in VwRequests /\ VwIdle.op = "idle" /\ VwIdle.keys = {}
  /\ \A op \in {"idle", "snapshot", "detail", "clear"}, i \in Instances :
        VwAt(op, i) \in VwRequests /\ VwAt(op, i).op = op
<1>1. (CHOOSE i \in Instances : TRUE) \in Instances
  BY ListingCacheAssumption
<1> QED BY <1>1 DEF VwIdle, VwAt, VwRequests

\* At first nothing is cached.
LEMMA VwInitInv == VwInit => VwInv
<1> SUFFICES ASSUME VwInit PROVE VwInv
  OBVIOUS
<1>1. \A k \in Keys : entry[k] = "none"
  BY DEF VwInit
<1>2. VwTypeOK
  BY VwIdleTyped DEF VwInit, VwTypeOK, VwRequests
<1> QED BY <1>1, <1>2 DEF VwInv, OutdatedViewsExplained, CachedKeysTagged

\* A state in which every cached key is known, and every outdated one is about to go.
LEMMA VwHolds ==
  ASSUME entry' \in [Keys -> VwStates], tagged' \in [Instances -> SUBSET Keys],
         excused' \subseteq Keys, vwReq' \in [ViewReq -> VwRequests],
         \A k \in Keys : entry'[k] = "outdated" => k \in excused' \/ Repairing(k)',
         \A k \in Keys : entry'[k] # "none" /\ k \notin excused' => Findable(k)'
  PROVE  VwInv'
<1>1. VwTypeOK'
  BY DEF VwTypeOK, VwRequests, VwStates
<1> QED BY <1>1 DEF VwInv, OutdatedViewsExplained, CachedKeysTagged, Findable

\* What one request's progress takes from the keys in the hands of requests.
LEMMA VwOwn ==
  ASSUME VwInv, NEW r \in ViewReq, NEW new \in VwRequests, vwReq' = [vwReq EXCEPT ![r] = new]
  PROVE  /\ vwReq' \in [ViewReq -> VwRequests]
         /\ \A k \in Keys : Repairs(new, k) => Repairing(k)'
         /\ \A k \in Keys : Tags(new, k) => Untagged(k)'
         /\ \A k \in Keys : Repairing(k) /\ ~Repairs(vwReq[r], k) => Repairing(k)'
         /\ \A k \in Keys : Untagged(k) /\ ~Tags(vwReq[r], k) => Untagged(k)'
<1>1. vwReq' \in [ViewReq -> VwRequests] /\ \A s \in ViewReq : vwReq'[s] = IF s = r THEN new ELSE vwReq[s]
  BY VwTypes
<1>2. \A k \in Keys : Repairs(new, k) => Repairing(k)'
  BY <1>1 DEF Repairs, Repairing
<1>3. \A k \in Keys : Tags(new, k) => Untagged(k)'
  BY <1>1 DEF Tags, Untagged
<1>4. ASSUME NEW k \in Keys, Repairing(k), ~Repairs(vwReq[r], k) PROVE Repairing(k)'
  <2>1. PICK s \in ViewReq : Repairs(vwReq[s], k)
    BY <1>4 DEF Repairs, Repairing
  <2>2. Repairs(vwReq'[s], k)
    BY <1>1, <1>4, <2>1
  <2> QED BY <2>2 DEF Repairs, Repairing
<1>5. ASSUME NEW k \in Keys, Untagged(k), ~Tags(vwReq[r], k) PROVE Untagged(k)'
  <2>1. PICK s \in ViewReq : Tags(vwReq[s], k)
    BY <1>5 DEF Tags, Untagged
  <2>2. Tags(vwReq'[s], k)
    BY <1>1, <1>5, <2>1
  <2> QED BY <2>2 DEF Tags, Untagged
<1> QED BY <1>1, <1>2, <1>3, <1>4, <1>5

\* Reading: load, and the set that fails.
LEMMA VwLoadStep ==
  ASSUME VwInv, NEW r \in ViewReq, load(r) \/ setFails(r)
  PROVE  VwInv'
<1> USE VwTypes
<1>1. /\ vwReq[r] \in VwRequests /\ vwReq[r].op \in {"idle", "load"} /\ vwReq[r].keys \subseteq Keys
      /\ \A k \in Keys : ~Repairs(vwReq[r], k) /\ ~Tags(vwReq[r], k)
  BY DEF load, setFails, Repairs, Tags, VwRequests
<1>2. PICK new \in VwRequests : vwReq' = [vwReq EXCEPT ![r] = new]
  <2>1. CASE load(r)
    <3>1. PICK i \in Instances, k \in Keys :
             vwReq' = [vwReq EXCEPT ![r] = [op |-> "load", at |-> i, keys |-> {k}, fresh |-> TRUE]]
      BY <2>1 DEF load
    <3>2. [op |-> "load", at |-> i, keys |-> {k}, fresh |-> TRUE] \in VwRequests
      BY DEF VwRequests
    <3> QED BY <3>1, <3>2
  <2>2. CASE setFails(r)
    BY <2>2, VwIdleTyped DEF setFails, VwDone
  <2> QED BY <2>1, <2>2
<1>3. \A k \in Keys : (Repairing(k) => Repairing(k)') /\ (Untagged(k) => Untagged(k)')
  BY <1>1, <1>2, VwOwn
<1>4. tagged' = tagged /\ vwReq' \in [ViewReq -> VwRequests]
  BY <1>2, VwOwn DEF load, setFails
<1>5. CASE entry' = entry /\ excused' = excused
  <2>1. \A k \in Keys : entry'[k] = "outdated" => k \in excused' \/ Repairing(k)'
    BY <1>3, <1>5 DEF VwInv, OutdatedViewsExplained
  <2>2. \A k \in Keys : entry'[k] # "none" /\ k \notin excused' => Findable(k)'
    BY <1>3, <1>4, <1>5 DEF VwInv, CachedKeysTagged, Findable
  <2> QED BY <1>4, <1>5, <2>1, <2>2, VwHolds
<1>6. CASE Store(r) /\ excused' = excused \union vwReq[r].keys
  <2>1. /\ entry' \in [Keys -> VwStates] /\ excused' \subseteq Keys
        /\ \A k \in Keys \ vwReq[r].keys : entry'[k] = entry[k]
    BY <1>1, <1>6 DEF Store, VwStates
  <2>2. \A k \in Keys : entry'[k] = "outdated" => k \in excused' \/ Repairing(k)'
    BY <1>3, <1>6, <2>1 DEF VwInv, OutdatedViewsExplained
  <2>3. \A k \in Keys : entry'[k] # "none" /\ k \notin excused' => Findable(k)'
    BY <1>3, <1>4, <1>6, <2>1 DEF VwInv, CachedKeysTagged, Findable
  <2> QED BY <1>4, <2>1, <2>2, <2>3, VwHolds
<1> QED BY <1>5, <1>6 DEF load, setFails

\* Storing: the key is not known until it is tagged.
LEMMA VwStoreStep ==
  ASSUME VwInv, NEW r \in ViewReq, set(r) \/ tagKey(r)
  PROVE  VwInv'
<1> USE VwTypes
<1>1. /\ vwReq[r] \in VwRequests /\ vwReq[r].op \in {"load", "stored"} /\ vwReq[r].at \in Instances
      /\ vwReq[r].keys \subseteq Keys
      /\ \A k \in Keys : ~Repairs(vwReq[r], k)
  BY DEF set, tagKey, Repairs, VwRequests
<1>2. CASE set(r)
  <2> DEFINE new == [vwReq[r] EXCEPT !.op = "stored"]
  <2>1. new \in VwRequests /\ new.op = "stored" /\ new.keys = vwReq[r].keys
    BY <1>1 DEF VwRequests
  <2>2. vwReq' = [vwReq EXCEPT ![r] = new] /\ vwReq[r].op = "load" /\ tagged' = tagged
    BY <1>1, <1>2 DEF set
  <2> HIDE DEF new
  <2>3. \A k \in Keys : ~Tags(vwReq[r], k) /\ (k \in vwReq[r].keys => Tags(new, k))
    BY <2>1, <2>2 DEF Tags
  <2>4. /\ vwReq' \in [ViewReq -> VwRequests] /\ \A k \in Keys : Repairing(k) => Repairing(k)'
        /\ \A k \in Keys : Untagged(k) \/ k \in vwReq[r].keys => Untagged(k)'
    BY <1>1, <2>1, <2>2, <2>3, VwOwn
  <2>5. /\ entry' \in [Keys -> VwStates] /\ excused' \subseteq Keys
        /\ \A k \in Keys \ vwReq[r].keys : entry'[k] = entry[k] /\ (k \in excused' <=> k \in excused)
        /\ \A k \in vwReq[r].keys : entry'[k] = "outdated" => k \in excused'
    BY <1>1, <1>2 DEF set, Store, VwStates
  <2>6. \A k \in Keys : entry'[k] = "outdated" => k \in excused' \/ Repairing(k)'
    BY <2>4, <2>5 DEF VwInv, OutdatedViewsExplained
  <2>7. \A k \in Keys : entry'[k] # "none" /\ k \notin excused' => Findable(k)'
    BY <2>2, <2>4, <2>5 DEF VwInv, CachedKeysTagged, Findable
  <2> QED BY <2>2, <2>4, <2>5, <2>6, <2>7, VwHolds
<1>3. CASE tagKey(r)
  <2>1. /\ vwReq' = [vwReq EXCEPT ![r] = VwIdle] /\ entry' = entry /\ excused' = excused
        /\ tagged' = [tagged EXCEPT ![vwReq[r].at] = @ \union vwReq[r].keys]
    BY <1>3 DEF tagKey, VwDone
  <2>2. /\ tagged' \in [Instances -> SUBSET Keys]
        /\ \A i \in Instances : tagged[i] \subseteq tagged'[i]
        /\ vwReq[r].keys \subseteq tagged'[vwReq[r].at]
    BY <1>1, <2>1
  <2>3. /\ vwReq' \in [ViewReq -> VwRequests] /\ \A k \in Keys : Repairing(k) => Repairing(k)'
        /\ \A k \in Keys : Untagged(k) => Untagged(k)' \/ k \in vwReq[r].keys
    BY <1>1, <2>1, VwIdleTyped, VwOwn DEF Tags
  <2>4. \A k \in Keys : entry'[k] = "outdated" => k \in excused' \/ Repairing(k)'
    BY <2>1, <2>3 DEF VwInv, OutdatedViewsExplained
  <2>5. \A k \in Keys : entry'[k] # "none" /\ k \notin excused' => Findable(k)'
    BY <1>1, <2>1, <2>2, <2>3 DEF VwInv, CachedKeysTagged, Findable
  <2> QED BY <2>1, <2>2, <2>3, <2>4, <2>5, VwHolds
<1> QED BY <1>2, <1>3

\* The write of a row: what is cached is outdated, and excused or the writer's to delete.
LEMMA VwCommitStep ==
  ASSUME VwInv, NEW r \in ViewReq, vwReq[r].op \in {"idle", "write"}, NEW at \in Instances,
         NEW next \in {"idle", "snapshot", "detail"}, NEW K \in SUBSET Keys, Commit(r, next, at, K),
         \A k \in K : next = "snapshot" \/ (next = "detail" /\ k = "detail")
  PROVE  VwInv'
<1> USE VwTypes, VwIdleTyped
<1> DEFINE new == VwAt(next, at)
<1>1. new \in VwRequests /\ new.op = next
  OBVIOUS
<1>2. \A s \in ViewReq : vwReq'[s] = IF s = r THEN new ELSE [vwReq[s] EXCEPT !.fresh = @ /\ vwReq[s].op # "load"]
  BY DEF Commit
<1> HIDE DEF new
<1>3. \A s \in ViewReq \ {r} : /\ vwReq'[s] \in VwRequests /\ vwReq'[s].op = vwReq[s].op
                               /\ vwReq'[s].keys = vwReq[s].keys
  <2> SUFFICES ASSUME NEW s \in ViewReq \ {r}
               PROVE  /\ vwReq'[s] \in VwRequests /\ vwReq'[s].op = vwReq[s].op
                      /\ vwReq'[s].keys = vwReq[s].keys
    OBVIOUS
  <2>1. vwReq[s] \in VwRequests /\ vwReq'[s] = [vwReq[s] EXCEPT !.fresh = @ /\ vwReq[s].op # "load"]
    BY <1>2
  <2> QED BY <2>1 DEF VwRequests
<1>4. vwReq' \in [ViewReq -> VwRequests]
  <2>1. vwReq' = [s \in ViewReq |-> vwReq'[s]]
    BY DEF Commit
  <2>2. \A s \in ViewReq : vwReq'[s] \in VwRequests
    BY <1>1, <1>2, <1>3
  <2> QED BY <2>1, <2>2
<1>5. \A k \in Keys : (Repairing(k) => Repairing(k)') /\ (Untagged(k) => Untagged(k)')
  BY <1>3 DEF Repairing, Untagged
<1>6. \A k \in K : Repairing(k)'
  <2>1. vwReq'[r].op = next
    BY <1>1, <1>2
  <2> SUFFICES ASSUME NEW k \in K PROVE Repairing(k)'
    OBVIOUS
  <2>2. next = "snapshot" \/ (next = "detail" /\ k = "detail")
    OBVIOUS
  <2> QED BY ONLY <2>1, <2>2, r \in ViewReq DEF Repairing
<1>7. /\ entry' \in [Keys -> VwStates] /\ excused' \subseteq Keys /\ tagged' = tagged
      /\ \A k \in Keys : entry'[k] = "none" <=> entry[k] = "none"
      /\ \A k \in Keys : entry'[k] # "none" => k \in excused' \/ k \in K
      /\ excused \subseteq excused'
  <2>1. /\ entry' = [k \in Keys |-> IF k \in Present THEN "outdated" ELSE "none"]
        /\ excused' = excused \union (Present \ K) /\ tagged' = tagged
    BY DEF Commit
  <2>2. Present \subseteq Keys /\ \A k \in Keys : k \in Present <=> entry[k] # "none"
    BY DEF Present
  <2>3. \A k \in Keys : entry'[k] = IF k \in Present THEN "outdated" ELSE "none"
    BY <2>1
  <2>4. entry' \in [Keys -> VwStates] /\ \A k \in Keys : entry'[k] = "none" <=> entry[k] = "none"
    BY <2>1, <2>2, <2>3 DEF VwStates
  <2> QED BY <2>1, <2>2, <2>4
<1>8. \A k \in Keys : entry'[k] = "outdated" => k \in excused' \/ Repairing(k)'
  BY <1>6, <1>7
<1>9. \A k \in Keys : entry'[k] # "none" /\ k \notin excused' => Findable(k)'
  BY <1>5, <1>7 DEF VwInv, CachedKeysTagged, Findable
<1> QED BY <1>4, <1>7, <1>8, <1>9, VwHolds

\* Looking up the keys of the tag: those of the map are deleted, the others are known
\* elsewhere or wait for their tag.
LEMMA VwLookupStep ==
  ASSUME VwInv, NEW r \in ViewReq, invalidateByTag(r)
  PROVE  VwInv'
<1> USE VwTypes
<1> DEFINE mine == tagged[vwReq[r].at]
           next == IF mine = {} THEN "detail" ELSE "tag"
           new == [vwReq[r] EXCEPT !.op = next, !.keys = mine]
           missed == {k \in Keys \ mine : \/ Untagged(k)
                                          \/ \E j \in Instances \ {vwReq[r].at} : k \in tagged[j]}
<1>1. vwReq[r] \in VwRequests /\ vwReq[r].at \in Instances /\ vwReq[r].op = "snapshot"
  BY DEF invalidateByTag, VwRequests
<1>2. mine \subseteq Keys /\ next \in {"detail", "tag"} /\ (next = "detail" => mine = {})
  BY <1>1
<1>3. vwReq' = [vwReq EXCEPT ![r] = new] /\ entry' = entry /\ tagged' = tagged /\ excused' = excused \union missed
  BY <1>1 DEF invalidateByTag
<1>4. excused \subseteq excused' /\ excused' \subseteq Keys /\ \A k \in Keys \ mine : Findable(k) => k \in excused'
  BY <1>3 DEF Findable
<1> HIDE DEF mine, next, missed
<1>5. new \in VwRequests /\ new.op = next /\ new.keys = mine
  BY <1>1, <1>2 DEF VwRequests
<1> HIDE DEF new
<1>6. \A k \in mine : Repairs(new, k)
  BY <1>2, <1>5 DEF Repairs
<1>7. /\ vwReq' \in [ViewReq -> VwRequests] /\ \A k \in Keys : Untagged(k) => Untagged(k)'
      /\ \A k \in mine : Repairing(k)'
  BY <1>1, <1>2, <1>3, <1>5, <1>6, VwOwn DEF Tags
<1>8. \A k \in Keys : entry'[k] = "outdated" => k \in excused' \/ Repairing(k)'
  BY <1>3, <1>4, <1>7 DEF VwInv, CachedKeysTagged, Findable
<1>9. \A k \in Keys : entry'[k] # "none" /\ k \notin excused' => Findable(k)'
  BY <1>3, <1>4, <1>7 DEF VwInv, CachedKeysTagged, Findable
<1> QED BY <1>3, <1>4, <1>7, <1>8, <1>9, VwHolds

\* The keys that entry and excused lose or gain when entries are dropped.
LEMMA VwDrop ==
  ASSUME VwInv, NEW K \in SUBSET Keys, Drop(K)
  PROVE  /\ entry' \in [Keys -> VwStates] /\ excused' \subseteq Keys
         /\ \A k \in K : entry'[k] = "none"
         /\ \A k \in Keys \ K : entry'[k] = entry[k] /\ (k \in excused' <=> k \in excused)
  BY VwTypes DEF Drop, VwStates

\* An instance that forgets its tag: what is cached under it is excused.
LEMMA VwForget ==
  ASSUME VwInv, NEW i \in Instances, ForgetTag(i), entry' = entry,
         vwReq' \in [ViewReq -> VwRequests],
         \A k \in Keys : (Untagged(k) => Untagged(k)') /\ (Repairing(k) => Repairing(k)')
  PROVE  VwInv'
<1> USE VwTypes
<1>1. /\ tagged' \in [Instances -> SUBSET Keys]
      /\ \A j \in Instances : tagged'[j] = IF j = i THEN {} ELSE tagged[j]
  BY DEF ForgetTag
<1>2. /\ excused \subseteq excused' /\ excused' \subseteq Keys
      /\ \A k \in tagged[i] : entry[k] # "none" => k \in excused'
  BY DEF ForgetTag, Present
<1>3. \A k \in Keys : entry'[k] = "outdated" => k \in excused' \/ Repairing(k)'
  BY <1>2 DEF VwInv, OutdatedViewsExplained
<1>4. \A k \in Keys : entry'[k] # "none" /\ k \notin excused' => Findable(k)'
  BY <1>1, <1>2 DEF VwInv, CachedKeysTagged, Findable
<1> QED BY <1>1, <1>2, <1>3, <1>4, VwHolds

\* Deleting by tag: one DEL, a DEL that fails, and the tag once they are all answered.
LEMMA VwTagStep ==
  ASSUME VwInv, NEW r \in ViewReq, delMultiple(r) \/ delMultipleFails(r) \/ dropTag(r)
  PROVE  VwInv'
<1> USE VwTypes
<1>1. /\ vwReq[r] \in VwRequests /\ vwReq[r].at \in Instances /\ vwReq[r].keys \subseteq Keys
      /\ vwReq[r].op = "tag" /\ \A k \in Keys : ~Tags(vwReq[r], k)
  BY DEF delMultiple, delMultipleFails, dropTag, Tags, VwRequests
<1>2. CASE delMultiple(r)
  <2>1. PICK k \in vwReq[r].keys : /\ vwReq' = [vwReq EXCEPT ![r].keys = @ \ {k}]
                                   /\ Drop({k}) /\ tagged' = tagged
    BY <1>2 DEF delMultiple
  <2> DEFINE new == [vwReq[r] EXCEPT !.keys = @ \ {k}]
  <2>2. vwReq' = [vwReq EXCEPT ![r] = new] /\ new \in VwRequests /\ new.op = "tag" /\ new.keys = vwReq[r].keys \ {k}
    BY <1>1, <2>1 DEF VwRequests
  <2> HIDE DEF new
  <2>3. \A j \in Keys \ {k} : Repairs(vwReq[r], j) => Repairs(new, j)
    BY <1>1, <2>2 DEF Repairs
  <2>4. /\ vwReq' \in [ViewReq -> VwRequests] /\ \A j \in Keys : Untagged(j) => Untagged(j)'
        /\ \A j \in Keys \ {k} : Repairing(j) => Repairing(j)'
    BY <1>1, <2>2, <2>3, VwOwn
  <2>5. /\ entry' \in [Keys -> VwStates] /\ excused' \subseteq Keys /\ entry'[k] = "none"
        /\ \A j \in Keys \ {k} : entry'[j] = entry[j] /\ (j \in excused' <=> j \in excused)
    <3>1. {k} \in SUBSET Keys
      BY <1>1
    <3> QED BY <2>1, <3>1, VwDrop
  <2>6. \A j \in Keys : entry'[j] = "outdated" => j \in excused' \/ Repairing(j)'
    BY <2>4, <2>5 DEF VwInv, OutdatedViewsExplained
  <2>7. \A j \in Keys : entry'[j] # "none" /\ j \notin excused' => Findable(j)'
    BY <2>1, <2>4, <2>5 DEF VwInv, CachedKeysTagged, Findable
  <2> QED BY <2>1, <2>4, <2>5, <2>6, <2>7, VwHolds
<1>3. CASE delMultipleFails(r)
  <2> DEFINE new == [vwReq[r] EXCEPT !.op = "detail", !.keys = {}]
  <2>1. /\ vwReq' = [vwReq EXCEPT ![r] = new] /\ entry' = entry /\ tagged' = tagged
        /\ excused' = excused \union vwReq[r].keys
    BY <1>1, <1>3 DEF delMultipleFails
  <2>2. new \in VwRequests /\ new.op = "detail"
    BY <1>1 DEF VwRequests
  <2> HIDE DEF new
  <2>3. \A k \in Keys \ vwReq[r].keys : Repairs(vwReq[r], k) => Repairs(new, k)
    BY <1>1, <2>2 DEF Repairs
  <2>4. /\ vwReq' \in [ViewReq -> VwRequests] /\ \A k \in Keys : Untagged(k) => Untagged(k)'
        /\ \A k \in Keys \ vwReq[r].keys : Repairing(k) => Repairing(k)'
    BY <1>1, <2>1, <2>2, <2>3, VwOwn
  <2>5. \A k \in Keys : entry'[k] = "outdated" => k \in excused' \/ Repairing(k)'
    BY <2>1, <2>4 DEF VwInv, OutdatedViewsExplained
  <2>6. \A k \in Keys : entry'[k] # "none" /\ k \notin excused' => Findable(k)'
    BY <2>1, <2>4 DEF VwInv, CachedKeysTagged, Findable
  <2>7. excused' \subseteq Keys
    BY <1>1, <2>1
  <2> QED BY <2>1, <2>4, <2>5, <2>6, <2>7, VwHolds
<1>4. CASE dropTag(r)
  <2> DEFINE new == [vwReq[r] EXCEPT !.op = "detail"]
  <2>1. vwReq' = [vwReq EXCEPT ![r] = new] /\ entry' = entry /\ vwReq[r].keys = {} /\ ForgetTag(vwReq[r].at)
    BY <1>1, <1>4 DEF dropTag
  <2>2. new \in VwRequests /\ new.op = "detail"
    BY <1>1 DEF VwRequests
  <2> HIDE DEF new
  <2>3. \A k \in Keys : Repairs(vwReq[r], k) => Repairs(new, k)
    BY <1>1, <2>1, <2>2 DEF Repairs
  <2>4. /\ vwReq' \in [ViewReq -> VwRequests]
        /\ \A k \in Keys : (Untagged(k) => Untagged(k)') /\ (Repairing(k) => Repairing(k)')
    BY <1>1, <2>1, <2>2, <2>3, VwOwn
  <2> QED BY <1>1, <2>1, <2>4, VwForget
<1> QED BY <1>2, <1>3, <1>4

\* Dropping entries outside of an invalidation by tag: of one key, or of everything.
LEMMA VwDropStep ==
  ASSUME VwInv, NEW K \in SUBSET Keys, \/ Drop(K)
                                       \/ entry' = entry /\ excused' = excused \union K,
         vwReq' \in [ViewReq -> VwRequests], tagged' = tagged,
         \A k \in Keys : Untagged(k) => Untagged(k)',
         \A k \in Keys \ K : Repairing(k) => Repairing(k)'
  PROVE  VwInv'
<1> USE VwTypes
<1>1. /\ entry' \in [Keys -> VwStates] /\ excused' \subseteq Keys
      /\ \A k \in K : entry'[k] = "none" \/ k \in excused'
      /\ \A k \in Keys \ K : entry'[k] = entry[k] /\ (k \in excused' <=> k \in excused)
  BY DEF Drop, VwStates
<1>2. \A k \in Keys : entry'[k] = "outdated" => k \in excused' \/ Repairing(k)'
  BY <1>1 DEF VwInv, OutdatedViewsExplained
<1>3. \A k \in Keys : entry'[k] # "none" /\ k \notin excused' => Findable(k)'
  BY <1>1 DEF VwInv, CachedKeysTagged, Findable
<1> QED BY <1>1, <1>2, <1>3, VwHolds

\* Every step keeps the invariant.
LEMMA VwNextInv == VwInv /\ [VwNext]_vwVars => VwInv'
<1> SUFFICES ASSUME VwInv, [VwNext]_vwVars PROVE VwInv'
  OBVIOUS
<1> USE VwTypes, VwIdleTyped
<1>0. {"detail"} \in SUBSET Keys /\ Keys \in SUBSET Keys /\ VwIdle.at \in Instances
  BY DEF Keys, VwRequests
<1>1. ASSUME NEW r \in ViewReq, VwStep(r) PROVE VwInv'
  <2>0. vwReq[r] \in VwRequests /\ vwReq[r].at \in Instances
    BY DEF VwRequests
  <2>1. CASE load(r) \/ setFails(r) \/ set(r) \/ tagKey(r)
    BY <2>1, VwLoadStep, VwStoreStep
  <2>2. CASE writeAndInvalidate(r)
    BY <2>2, VwCommitStep DEF writeAndInvalidate
  <2>3. CASE transition(r)
    <3>1. PICK i \in Instances : Commit(r, "detail", i, {"detail"}) /\ vwReq[r].op = "idle"
      BY <2>3 DEF transition
    <3> QED BY <1>0, <3>1, VwCommitStep
  <2>4. CASE writeAgent(r) \/ writeOnly(r)
    <3>1. Commit(r, "idle", VwIdle.at, {}) /\ vwReq[r].op \in {"idle", "write"}
      BY <2>4 DEF writeAgent, writeOnly
    <3> QED BY <1>0, <3>1, VwCommitStep
  <2>5. CASE invalidateByTag(r) \/ delMultiple(r) \/ delMultipleFails(r) \/ dropTag(r)
    BY <2>5, VwLookupStep, VwTagStep
  <2>6. CASE invalidateCachedProperty(r)
    <3>1. /\ vwReq' = [vwReq EXCEPT ![r] = VwIdle] /\ tagged' = tagged /\ vwReq[r].op = "detail"
          /\ Drop({"detail"}) \/ (entry' = entry /\ excused' = excused \union {"detail"})
      BY <2>6 DEF invalidateCachedProperty, VwDone
    <3>2. \A k \in Keys : ~Tags(vwReq[r], k) /\ (Repairs(vwReq[r], k) => k = "detail")
      BY <3>1 DEF Tags, Repairs
    <3> QED BY <1>0, <3>1, <3>2, VwOwn, VwDropStep
  <2>7. CASE InvalidateFirst(r)
    <3> DEFINE new == [vwReq[r] EXCEPT !.op = "write"]
    <3>1. /\ vwReq' = [vwReq EXCEPT ![r] = new] /\ tagged' = tagged /\ vwReq[r].op = "idle"
          /\ Drop({"detail"}) \/ (entry' = entry /\ excused' = excused)
      BY <2>0, <2>7 DEF InvalidateFirst
    <3>2. new \in VwRequests /\ \A k \in Keys : ~Tags(vwReq[r], k) /\ ~Repairs(vwReq[r], k)
      BY <2>0, <3>1 DEF VwRequests, Tags, Repairs
    <3> HIDE DEF new
    <3>3. /\ vwReq' \in [ViewReq -> VwRequests]
          /\ \A k \in Keys : (Untagged(k) => Untagged(k)') /\ (Repairing(k) => Repairing(k)')
      BY <3>1, <3>2, VwOwn
    <3>4. CASE Drop({"detail"})
      BY <1>0, <3>1, <3>3, <3>4, VwDropStep
    <3>5. CASE entry' = entry /\ excused' = excused
      <4>1. {} \in SUBSET Keys /\ excused' = excused \union {}
        BY <3>5
      <4> QED BY <3>1, <3>3, <3>5, <4>1, VwDropStep
    <3> QED BY <3>1, <3>4, <3>5
  <2>8. CASE clear(r)
    <3>1. PICK i \in Instances : vwReq' = [vwReq EXCEPT ![r] = VwAt("clear", i)]
      BY <2>8 DEF clear
    <3>2. Drop(Keys) /\ tagged' = tagged /\ vwReq[r].op = "idle"
      BY <2>8 DEF clear
    <3>3. \A k \in Keys : ~Tags(vwReq[r], k) /\ ~Repairs(vwReq[r], k)
      BY <3>2 DEF Tags, Repairs
    <3>4. /\ vwReq' \in [ViewReq -> VwRequests]
          /\ \A k \in Keys : (Untagged(k) => Untagged(k)') /\ (Repairing(k) => Repairing(k)')
      BY <3>1, <3>3, VwOwn
    <3> QED BY <1>0, <3>2, <3>4, VwDropStep
  <2>9. CASE clearTags(r)
    <3>1. /\ vwReq' = [vwReq EXCEPT ![r] = VwIdle] /\ vwReq[r].op = "clear" /\ entry' = entry
          /\ ForgetTag(vwReq[r].at)
      BY <2>9 DEF clearTags, VwDone
    <3>2. \A k \in Keys : ~Tags(vwReq[r], k) /\ ~Repairs(vwReq[r], k)
      BY <3>1 DEF Tags, Repairs
    <3>3. /\ vwReq' \in [ViewReq -> VwRequests]
          /\ \A k \in Keys : (Untagged(k) => Untagged(k)') /\ (Repairing(k) => Repairing(k)')
      BY <3>1, <3>2, VwOwn
    <3> QED BY <2>0, <3>1, <3>3, VwForget
  <2> QED BY <1>1, <2>1, <2>2, <2>3, <2>4, <2>5, <2>6, <2>7, <2>8, <2>9
          DEF VwStep, assignAgent, updateAgentAssignment, removeAgentAssignment, addAmenity,
              updateAmenity, removeAmenity
<1>2. ASSUME NEW k \in Keys, Lapse(k) PROVE VwInv'
  <2>1. Drop({k}) /\ tagged' = tagged /\ vwReq' = vwReq
    BY <1>2 DEF Lapse
  <2>2. \A j \in Keys : (Repairing(j) => Repairing(j)') /\ (Untagged(j) => Untagged(j)')
    BY <2>1 DEF Repairing, Untagged
  <2>3. {k} \in SUBSET Keys
    BY <1>2
  <2> QED BY <2>1, <2>2, <2>3, VwDropStep
<1>3. CASE UNCHANGED vwVars
  BY <1>3 DEF vwVars, VwInv, VwTypeOK, OutdatedViewsExplained, CachedKeysTagged, Repairing, Untagged
<1> QED BY <1>1, <1>2, <1>3 DEF VwNext

\* properties-cache.service.ts, cache.service.ts: an outdated view is about to be deleted
\* or comes from a known gap, and a cached key is tagged, for any requests and instances.
THEOREM CacheExplained == VwSpec => [](VwTypeOK /\ OutdatedViewsExplained /\ CachedKeysTagged)
<1>1. VwInv => VwTypeOK /\ OutdatedViewsExplained /\ CachedKeysTagged
  BY DEF VwInv
<1> QED BY <1>1, VwInitInv, VwNextInv, PTL DEF VwSpec

-----------------------------------------------------------------------------
(* Creating and editing listings.                                           *)

\* The look-up of a request still holds as long as nobody has written since.
LookUpsHold == \A r \in EditReq : ~edReq[r].stale =>
    /\ edReq[r].op = "insert" => ~Taken(edReq[r].to, edReq[r].home)
    /\ edReq[r].op \in {"locate", "ask", "write"} /\ edReq[r].moves => ~Taken(edReq[r].to, edReq[r].home)

EdAsking == {r \in EditReq : edReq[r].op = "ask"}

EdInv == EdTypeOK /\ LookUpsHold /\ AddressesDistinct /\ GeocodeBudgetKept

EdOps == {"idle", "insert", "check", "locate", "ask", "write"}
EdRequests == [op : EdOps, home : Homes, to : Addresses, moves : BOOLEAN, stale : BOOLEAN, coords : BOOLEAN]
EdRows == [at : Addresses \union {"none"}, coords : BOOLEAN]

\* The types, as the proofs below use them.
LEMMA EdTypes ==
  ASSUME EdInv
  PROVE  /\ home \in [Homes -> EdRows] /\ edReq \in [EditReq -> EdRequests]
         /\ edSlip \subseteq Homes /\ calls \in Nat
<1>1. Cardinality(EditReq) \in Nat
  BY ListingEditsAssumption, FS_CardinalityType
<1>2. calls \in Nat
  BY <1>1, ListingEditsAssumption DEF EdInv, EdTypeOK
<1> QED BY <1>2 DEF EdInv, EdTypeOK, EdRequests, EdRows, EdOps

\* A request that does nothing has its type.
LEMMA EdIdleTyped == EdIdle \in EdRequests /\ EdIdle.op = "idle" /\ ~EdIdle.moves /\ ~EdIdle.stale
  BY ListingEditsAssumption DEF EdIdle, EdRequests, EdOps

\* There are no more requests that ask than there are requests.
LEMMA EdAskingCount ==
  ASSUME NEW S \in SUBSET EditReq
  PROVE  /\ IsFiniteSet(S) /\ Cardinality(S) \in Nat /\ Cardinality(EditReq) \in Nat
         /\ Cardinality(S) <= Cardinality(EditReq) /\ Cardinality(EditReq) >= 1
<1>1. IsFiniteSet(S) /\ Cardinality(S) <= Cardinality(EditReq)
  BY ListingEditsAssumption, FS_Subset
<1>2. Cardinality(S) \in Nat /\ Cardinality(EditReq) \in Nat
  BY <1>1, ListingEditsAssumption, FS_CardinalityType
<1>3. Cardinality(EditReq) # 0
  BY ListingEditsAssumption, FS_EmptySet
<1> QED BY <1>1, <1>2, <1>3

\* At first there is no listing, and nobody asks.
LEMMA EdInitInv == EdInit => EdInv
<1> SUFFICES ASSUME EdInit PROVE EdInv
  OBVIOUS
<1>1. \A r \in EditReq : edReq[r] = EdIdle
  BY DEF EdInit
<1>2. EdAsking = {} /\ Cardinality({}) = 0
  BY <1>1, EdIdleTyped, FS_EmptySet DEF EdAsking
<1>3. Cardinality(EditReq) \in Nat /\ Cardinality(EditReq) >= 1
  BY EdAskingCount
<1>4. GeocodeBudgetKept
  <2>1. calls = 0 /\ Cardinality(EdAsking) = 0 /\ GeocodeMax \in Nat
    BY <1>2, ListingEditsAssumption DEF EdInit
  <2>2. calls + Cardinality(EdAsking) < GeocodeMax + Cardinality(EditReq)
    BY <1>3, <2>1
  <2> QED BY <2>2 DEF GeocodeBudgetKept, EdAsking
<1>5. EdTypeOK
  <2>1. \A h \in Homes : home[h] \in EdRows
    BY DEF EdInit, EdRows
  <2>2. home \in [Homes -> EdRows]
    BY <2>1 DEF EdInit
  <2>3. edReq \in [EditReq -> EdRequests]
    BY EdIdleTyped DEF EdInit
  <2>4. calls \in 0 .. GeocodeMax + Cardinality(EditReq)
    BY <1>3, ListingEditsAssumption DEF EdInit
  <2> QED BY <2>2, <2>3, <2>4 DEF EdInit, EdTypeOK, EdRows, EdRequests, EdOps
<1>6. LookUpsHold
  BY <1>1, EdIdleTyped DEF LookUpsHold
<1>7. AddressesDistinct
  BY DEF EdInit, AddressesDistinct, Listed
<1> QED BY <1>4, <1>5, <1>6, <1>7 DEF EdInv

\* A step of one request that writes no row.
LEMMA EdOwnStep ==
  ASSUME EdInv, NEW r \in EditReq, NEW new \in EdRequests, edReq' = [edReq EXCEPT ![r] = new],
         home' = home, edSlip' = edSlip, calls' \in Nat,
         ~new.stale => /\ new.op = "insert" => ~Taken(new.to, new.home)
                       /\ new.op \in {"locate", "ask", "write"} /\ new.moves => ~Taken(new.to, new.home),
         \/ edReq[r].op # "ask" /\ new.op # "ask" /\ calls' = calls
         \/ edReq[r].op # "ask" /\ new.op = "ask" /\ calls' = calls /\ calls < GeocodeMax
         \/ edReq[r].op = "ask" /\ new.op # "ask" /\ calls' = calls + 1
  PROVE  EdInv'
<1> USE EdTypes
<1>1. edReq' \in [EditReq -> EdRequests] /\ \A s \in EditReq : edReq'[s] = IF s = r THEN new ELSE edReq[s]
  OBVIOUS
<1>2. LookUpsHold'
  <2>1. \A s \in EditReq : Taken(edReq[s].to, edReq[s].home)' <=> Taken(edReq'[s].to, edReq'[s].home)
    BY DEF Taken, Listed
  <2> QED BY <1>1, <2>1 DEF EdInv, LookUpsHold
<1>3. AddressesDistinct'
  BY DEF EdInv, AddressesDistinct, Listed
<1>4. /\ IsFiniteSet(EdAsking) /\ Cardinality(EdAsking) \in Nat /\ Cardinality(EditReq) \in Nat
      /\ Cardinality(EdAsking') \in Nat /\ Cardinality(EdAsking') <= Cardinality(EditReq)
  <2>1. EdAsking \in SUBSET EditReq /\ EdAsking' \in SUBSET EditReq
    BY DEF EdAsking
  <2> QED BY <2>1, EdAskingCount
<1>5. GeocodeMax \in Nat /\ calls + Cardinality(EdAsking) < GeocodeMax + Cardinality(EditReq)
  BY ListingEditsAssumption DEF EdInv, GeocodeBudgetKept, EdAsking
<1>6. calls' + Cardinality(EdAsking') < GeocodeMax + Cardinality(EditReq)
  <2>1. CASE edReq[r].op # "ask" /\ new.op # "ask" /\ calls' = calls
    <3>1. EdAsking' = EdAsking
      BY <1>1, <2>1 DEF EdAsking
    <3> QED BY <1>5, <2>1, <3>1
  <2>2. CASE calls' = calls /\ calls < GeocodeMax
    BY <1>4, <1>5, <2>2
  <2>3. CASE edReq[r].op = "ask" /\ new.op # "ask" /\ calls' = calls + 1
    <3>1. EdAsking' = EdAsking \ {r} /\ r \in EdAsking
      BY <1>1, <2>3 DEF EdAsking
    <3>2. Cardinality(EdAsking') = Cardinality(EdAsking) - 1
      BY <1>4, <3>1, FS_RemoveElement
    <3> QED BY <1>4, <1>5, <2>3, <3>2
  <2> QED BY <2>1, <2>2, <2>3
<1>7. GeocodeBudgetKept'
  BY <1>6 DEF GeocodeBudgetKept, EdAsking
<1>8. calls' \in 0 .. GeocodeMax + Cardinality(EditReq)
  BY <1>4, <1>5, <1>6
<1>9. EdTypeOK'
  BY <1>1, <1>8 DEF EdTypeOK, EdRequests, EdRows, EdOps
<1> QED BY <1>2, <1>3, <1>7, <1>9 DEF EdInv

\* The write of a row.  A current look-up says that no other listing has the address.
LEMMA EdWriteStep ==
  ASSUME EdInv, NEW r \in EditReq, NEW h \in Homes, NEW row \in EdRows, EdWrite(r, h, row),
         calls' = calls, edReq[r].op # "ask",
         edReq[r].stale \/ row.at = home[h].at \/ ~Taken(row.at, h)
  PROVE  EdInv'
<1> USE EdTypes, EdIdleTyped
<1>1. home' \in [Homes -> EdRows] /\ \A g \in Homes : home'[g] = IF g = h THEN row ELSE home[g]
  BY DEF EdWrite
<1>2. \A s \in EditReq : edReq'[s] = IF s = r THEN EdIdle
                                   ELSE [edReq[s] EXCEPT !.stale = edReq[s].op = "insert" \/ edReq[s].moves]
  BY DEF EdWrite
<1>3. \A s \in EditReq \ {r} : /\ edReq'[s] \in EdRequests /\ edReq'[s].op = edReq[s].op
                               /\ edReq'[s].moves = edReq[s].moves
                               /\ edReq[s].op = "insert" \/ edReq[s].moves => edReq'[s].stale
  <2> SUFFICES ASSUME NEW s \in EditReq \ {r}
               PROVE  /\ edReq'[s] \in EdRequests /\ edReq'[s].op = edReq[s].op
                      /\ edReq'[s].moves = edReq[s].moves
                      /\ edReq[s].op = "insert" \/ edReq[s].moves => edReq'[s].stale
    OBVIOUS
  <2>1. edReq[s] \in EdRequests /\ edReq'[s] = [edReq[s] EXCEPT !.stale = edReq[s].op = "insert" \/ edReq[s].moves]
    BY <1>2
  <2>2. (edReq[s].op = "insert" \/ edReq[s].moves) \in BOOLEAN
    BY <2>1 DEF EdRequests
  <2> QED BY <2>1, <2>2 DEF EdRequests
<1>4. edReq' \in [EditReq -> EdRequests] /\ edReq'[r] = EdIdle
  <2>1. edReq' = [s \in EditReq |-> edReq'[s]]
    BY DEF EdWrite
  <2>2. \A s \in EditReq : edReq'[s] \in EdRequests
    BY <1>2, <1>3
  <2> QED BY <1>2, <2>1, <2>2
<1>5. edSlip' \subseteq Homes /\ edSlip \subseteq edSlip' /\ (edReq[r].stale => h \in edSlip')
  BY DEF EdWrite
<1>6. EdTypeOK'
  BY <1>1, <1>4, <1>5 DEF EdInv, EdTypeOK, EdRequests, EdRows, EdOps
<1>7. LookUpsHold'
  BY <1>3, <1>4 DEF LookUpsHold
<1>8. AddressesDistinct'
  <2> SUFFICES ASSUME NEW a \in Homes, NEW b \in Homes, a # b, home'[a].at # "none", home'[b].at # "none",
                      home'[a].at = home'[b].at
               PROVE  a \in edSlip' \/ b \in edSlip'
    BY DEF AddressesDistinct, Listed
  <2>1. CASE a # h /\ b # h
    BY <1>1, <1>5, <2>1 DEF EdInv, AddressesDistinct, Listed
  <2>2. CASE a = h
    BY <1>1, <1>5, <2>2 DEF EdInv, AddressesDistinct, Listed, Taken
  <2>3. CASE b = h
    BY <1>1, <1>5, <2>3 DEF EdInv, AddressesDistinct, Listed, Taken
  <2> QED BY <2>1, <2>2, <2>3
<1>9. GeocodeBudgetKept'
  <2>1. EdAsking' = EdAsking
    BY <1>3, <1>4 DEF EdAsking
  <2> QED BY <2>1 DEF EdInv, GeocodeBudgetKept, EdAsking
<1> QED BY <1>6, <1>7, <1>8, <1>9 DEF EdInv

\* Every step of a request keeps the invariant.
LEMMA EdStepInv ==
  ASSUME EdInv, NEW r \in EditReq, EdStep(r)
  PROVE  EdInv'
<1> USE EdTypes, EdIdleTyped
<1> DEFINE q == edReq[r]
<1>0. q \in EdRequests /\ q.home \in Homes /\ q.to \in Addresses
  BY DEF EdRequests
<1>1. CASE create(r)
  <2>1. PICK h \in Homes \ Listed, a \in Addresses, c \in BOOLEAN :
          /\ edReq[r].op = "idle" /\ ~Taken(a, h)
          /\ edReq' = [edReq EXCEPT ![r] = [EdIdle EXCEPT !.op = "insert", !.home = h, !.to = a, !.coords = c]]
    BY <1>1 DEF create
  <2> DEFINE new == [EdIdle EXCEPT !.op = "insert", !.home = h, !.to = a, !.coords = c]
  <2>2. new \in EdRequests /\ new.op = "insert" /\ new.to = a /\ new.home = h
    BY DEF EdRequests, EdOps
  <2>3. home' = home /\ calls' = calls /\ edSlip' = edSlip /\ edReq' = [edReq EXCEPT ![r] = new] /\ edReq[r].op # "ask"
    BY <1>1, <2>1 DEF create
  <2> HIDE DEF new
  <2> QED BY <2>1, <2>2, <2>3, EdOwnStep
<1>2. CASE insert(r)
  <2> DEFINE row == [at |-> q.to, coords |-> q.coords]
  <2>1. row \in EdRows /\ row.at = q.to
    BY <1>0 DEF EdRows, EdRequests
  <2>2. EdWrite(r, q.home, row) /\ calls' = calls /\ q.op = "insert"
    BY <1>2 DEF insert
  <2>3. q.stale \/ ~Taken(q.to, q.home)
    BY <2>2 DEF EdInv, LookUpsHold
  <2> HIDE DEF row
  <2> QED BY <1>0, <2>1, <2>2, <2>3, EdWriteStep
<1>3. CASE updateRead(r)
  <2>1. PICK h \in Listed, a \in Addresses, c \in BOOLEAN :
          edReq' = [edReq EXCEPT ![r] = [op |-> "check", home |-> h, to |-> a, moves |-> a # home[h].at,
                                         stale |-> FALSE, coords |-> c]]
    BY <1>3 DEF updateRead
  <2> DEFINE new == [op |-> "check", home |-> h, to |-> a, moves |-> a # home[h].at, stale |-> FALSE, coords |-> c]
  <2>2. new \in EdRequests /\ new.op = "check"
    BY DEF EdRequests, EdOps, Listed
  <2>3. home' = home /\ calls' = calls /\ edSlip' = edSlip /\ edReq' = [edReq EXCEPT ![r] = new] /\ edReq[r].op # "ask"
    BY <1>3, <2>1 DEF updateRead
  <2> HIDE DEF new
  <2> QED BY <2>2, <2>3, EdOwnStep
<1>4. CASE checkAddress(r)
  <2>0. home' = home /\ calls' = calls /\ edSlip' = edSlip /\ q.op = "check"
    BY <1>4 DEF checkAddress
  <2>1. CASE q.moves /\ Taken(q.to, q.home)
    <3>1. edReq' = [edReq EXCEPT ![r] = EdIdle]
      BY <1>4, <2>1 DEF checkAddress, EdDone
    <3> QED BY <2>0, <3>1, EdOwnStep
  <2>2. CASE ~(q.moves /\ Taken(q.to, q.home))
    <3> DEFINE op == IF q.moves /\ ~q.coords THEN "locate" ELSE "write"
               new == [q EXCEPT !.op = op]
    <3>1. op \in {"locate", "write"}
      OBVIOUS
    <3>2. edReq' = [edReq EXCEPT ![r] = new]
      BY <1>4, <2>2 DEF checkAddress, EdGoto
    <3> HIDE DEF op
    <3>3. new \in EdRequests /\ new.op = op /\ new.moves = q.moves /\ new.to = q.to /\ new.home = q.home
      BY <1>0, <3>1 DEF EdRequests, EdOps
    <3> HIDE DEF new
    <3> QED BY <2>0, <2>2, <3>1, <3>2, <3>3, EdOwnStep
  <2> QED BY <2>1, <2>2
<1>5. CASE attemptGeocode(r)
  <2> DEFINE op == IF ~home[q.home].coords /\ calls < GeocodeMax THEN "ask" ELSE "write"
             new == [q EXCEPT !.coords = home[q.home].coords, !.op = op]
  <2>1. op \in {"ask", "write"} /\ (op = "ask" => calls < GeocodeMax)
    OBVIOUS
  <2>2. home' = home /\ calls' = calls /\ edSlip' = edSlip /\ q.op = "locate"
    BY <1>5 DEF attemptGeocode
  <2>3. edReq' = [edReq EXCEPT ![r] = new]
    BY <1>0, <1>5 DEF attemptGeocode
  <2> HIDE DEF op
  <2>4. home[q.home].coords \in BOOLEAN
    BY <1>0 DEF EdRows
  <2>5. /\ new \in EdRequests /\ new.op = op /\ new.moves = q.moves /\ new.to = q.to
        /\ new.home = q.home /\ new.stale = q.stale
    BY <1>0, <2>1, <2>4 DEF EdRequests, EdOps
  <2>6. q.moves /\ ~q.stale => ~Taken(q.to, q.home)
    BY <2>2 DEF EdInv, LookUpsHold
  <2> HIDE DEF new
  <2> QED BY <2>1, <2>2, <2>3, <2>5, <2>6, EdOwnStep
<1>6. CASE recordGeocodeCall(r)
  <2>1. PICK c \in BOOLEAN : edReq' = [edReq EXCEPT ![r].coords = c, ![r].op = "write"]
    BY <1>6 DEF recordGeocodeCall
  <2> DEFINE new == [q EXCEPT !.coords = c, !.op = "write"]
  <2>2. edReq' = [edReq EXCEPT ![r] = new]
    BY <1>0, <2>1
  <2>3. home' = home /\ calls' = calls + 1 /\ edSlip' = edSlip /\ q.op = "ask" /\ calls' \in Nat
    BY <1>6 DEF recordGeocodeCall
  <2>5. /\ new \in EdRequests /\ new.op = "write" /\ new.moves = q.moves /\ new.to = q.to
        /\ new.home = q.home /\ new.stale = q.stale
    BY <1>0 DEF EdRequests, EdOps
  <2>6. q.moves /\ ~q.stale => ~Taken(q.to, q.home)
    BY <2>3 DEF EdInv, LookUpsHold
  <2> HIDE DEF new
  <2> QED BY <2>2, <2>3, <2>5, <2>6, EdOwnStep
<1>7. CASE commitEdit(r)
  <2> DEFINE at == IF q.moves THEN q.to ELSE home[q.home].at
             row == [at |-> at, coords |-> q.coords \/ home[q.home].coords]
  <2>1. EdWrite(r, q.home, row) /\ calls' = calls /\ q.op = "write"
    BY <1>7 DEF commitEdit
  <2>2. home[q.home] \in EdRows
    BY <1>0
  <2>3. at \in Addresses \union {"none"} /\ (q.coords \/ home[q.home].coords) \in BOOLEAN
    BY <1>0, <2>2 DEF EdRows, EdRequests
  <2>4. q.stale \/ at = home[q.home].at \/ ~Taken(at, q.home)
    BY <2>1 DEF EdInv, LookUpsHold
  <2> HIDE DEF at
  <2>5. row \in EdRows /\ row.at = at
    BY <2>3 DEF EdRows
  <2> HIDE DEF row
  <2> QED BY <1>0, <2>1, <2>4, <2>5, EdWriteStep
<1> QED BY <1>1, <1>2, <1>3, <1>4, <1>5, <1>6, <1>7 DEF EdStep

\* Every step keeps the invariant.
LEMMA EdNextInv == EdInv /\ [EdNext]_edVars => EdInv'
<1> SUFFICES ASSUME EdInv, [EdNext]_edVars PROVE EdInv'
  OBVIOUS
<1>1. ASSUME NEW r \in EditReq, EdStep(r) PROVE EdInv'
  BY <1>1, EdStepInv
<1>2. CASE MinutePasses
  <2>1. home' = home /\ edReq' = edReq /\ edSlip' = edSlip /\ calls' = 0 /\ calls > 0
    BY <1>2 DEF MinutePasses
  <2>2. EdAsking \in SUBSET EditReq /\ EdAsking' = EdAsking
    BY <2>1 DEF EdAsking
  <2>3. /\ Cardinality(EdAsking) \in Nat /\ Cardinality(EditReq) \in Nat /\ calls \in Nat /\ GeocodeMax \in Nat
    BY <2>2, EdAskingCount, EdTypes, ListingEditsAssumption
  <2>4. calls + Cardinality(EdAsking) < GeocodeMax + Cardinality(EditReq)
    BY DEF EdInv, GeocodeBudgetKept, EdAsking
  <2>5. calls' + Cardinality(EdAsking') < GeocodeMax + Cardinality(EditReq)
    BY <2>1, <2>2, <2>3, <2>4
  <2>6. GeocodeBudgetKept'
    BY <2>5 DEF GeocodeBudgetKept, EdAsking
  <2>7. 0 \in 0 .. GeocodeMax + Cardinality(EditReq)
    BY <2>3
  <2>8. EdTypeOK'
    BY <2>1, <2>7 DEF EdInv, EdTypeOK
  <2> QED BY <2>1, <2>6, <2>8 DEF EdInv, LookUpsHold, AddressesDistinct, Listed, Taken
<1>3. CASE UNCHANGED edVars
  BY <1>3 DEF edVars, EdInv, EdTypeOK, LookUpsHold, AddressesDistinct, GeocodeBudgetKept, Listed, Taken
<1> QED BY <1>1, <1>2, <1>3 DEF EdNext

\* properties.service.ts: two listings share an address only after overlapping requests,
\* and the geocoder's budget is kept, for any listings, addresses and requests.
THEOREM EditsSafe == EdSpec => [](EdTypeOK /\ AddressesDistinct /\ GeocodeBudgetKept)
<1>1. EdInv => EdTypeOK /\ AddressesDistinct /\ GeocodeBudgetKept
  BY DEF EdInv
<1> QED BY <1>1, EdInitInv, EdNextInv, PTL DEF EdSpec

-----------------------------------------------------------------------------
(* The price and its history.                                               *)

\* Requests that have added a history row and not yet written the price.
Logged == {r \in PriceReq : phReq[r].op = "write" /\ phReq[r].new # phReq[r].seen}

\* The rows join up, and the last one ends with p.
PricesEnd(p) == /\ prices # <<>> => prices[Len(prices)].newPrice = p
                /\ Len(prices) = 2 => prices[1].newPrice = prices[2].oldPrice

\* With nobody between the row and the price, the history ends at the price; with one,
\* at what it is about to write.  The second of two is out of date when the first has
\* written, and cannot leave without being noticed.
HistoryJoined ==
    /\ Logged = {} => PricesEnd(price)
    /\ \A r \in PriceReq : Logged = {r} /\ ~phReq[r].stale => prices # <<>> /\ PricesEnd(phReq[r].new)
    /\ \A r \in PriceReq : phReq[r].op # "idle" /\ ~phReq[r].stale => phReq[r].seen = price

LogsDiffer == \A r \in PriceReq : phReq[r].op = "log" => phReq[r].new # phReq[r].seen

PhInv == PhTypeOK /\ LogsDiffer /\ (~phSlip => HistoryJoined)

PhRequests == [op : {"idle", "log", "write"}, seen : Prices, new : Prices, stale : BOOLEAN]

\* The types, as the proofs below use them.
LEMMA PhTypes ==
  ASSUME PhInv
  PROVE  price \in Prices /\ phReq \in [PriceReq -> PhRequests] /\ phSlip \in BOOLEAN
  BY DEF PhInv, PhTypeOK, PhRequests

\* A request that does nothing has its type.
LEMMA PhIdleTyped == PhIdle \in PhRequests /\ PhIdle.op = "idle"
  BY PriceHistoryAssumption DEF PhIdle, PhRequests

\* At first there is no history.
LEMMA PhInitInv == PhInit => PhInv
<1> SUFFICES ASSUME PhInit PROVE PhInv
  OBVIOUS
<1>1. \A r \in PriceReq : phReq[r] = PhIdle
  BY DEF PhInit
<1>2. PhTypeOK
  BY PhIdleTyped DEF PhInit, PhTypeOK, PhRequests
<1>3. LogsDiffer /\ Logged = {}
  BY <1>1, PhIdleTyped DEF LogsDiffer, Logged
<1>4. Len(prices) = 0 /\ prices = <<>>
  BY DEF PhInit
<1>5. HistoryJoined
  BY <1>1, <1>3, <1>4, PhIdleTyped DEF HistoryJoined, PricesEnd
<1> QED BY <1>2, <1>3, <1>5 DEF PhInv

\* The row that a request adds: one or two rows are kept, the last one is the new one.
LEMMA PhRowAdded ==
  ASSUME PhTypeOK, NEW row \in PriceRow,
         prices' = IF prices = <<>> THEN <<row>> ELSE <<prices[Len(prices)], row>>
  PROVE  /\ prices' \in {<<>>} \union (PriceRow \X PriceRow) \union {<<x>> : x \in PriceRow}
         /\ prices' # <<>> /\ prices'[Len(prices')] = row
         /\ Len(prices') = 2 => prices # <<>> /\ prices'[1] = prices[Len(prices)] /\ prices'[2] = row
<1>1. prices = <<>> \/ prices[Len(prices)] \in PriceRow
  <2>1. CASE prices \in PriceRow \X PriceRow
    <3>1. PICK x \in PriceRow, y \in PriceRow : prices = <<x, y>>
      BY <2>1
    <3> QED BY <3>1
  <2>2. CASE prices \in {<<x>> : x \in PriceRow}
    <3>1. PICK x \in PriceRow : prices = <<x>>
      BY <2>2
    <3> QED BY <3>1
  <2> QED BY <2>1, <2>2 DEF PhTypeOK
<1>2. CASE prices = <<>>
  <2>1. prices' = <<row>>
    BY <1>2
  <2>2. Len(prices') = 1 /\ prices'[1] = row /\ prices' # <<>>
    BY <2>1
  <2> QED BY <2>1, <2>2
<1>3. CASE prices # <<>>
  <2> DEFINE last == prices[Len(prices)]
  <2>1. prices' = <<last, row>> /\ last \in PriceRow
    BY <1>1, <1>3
  <2> HIDE DEF last
  <2>2. Len(prices') = 2 /\ prices'[1] = last /\ prices'[2] = row /\ prices' # <<>>
    BY <2>1
  <2>3. prices' \in PriceRow \X PriceRow
    BY <2>1
  <2> QED BY <1>3, <2>2, <2>3 DEF last
<1> QED BY <1>2, <1>3

\* The read, the row and the refusal of a request.
LEMMA PhOwnStep ==
  ASSUME PhInv, NEW r \in PriceReq, readPrice(r) \/ recordChange(r) \/ refuse(r)
  PROVE  PhInv'
<1> USE PhTypes, PhIdleTyped
<1>0. phReq[r] \in PhRequests /\ price' = price
  BY DEF readPrice, recordChange, refuse
<1>1. CASE readPrice(r)
  <2>1. PICK p \in Prices : phReq' = [phReq EXCEPT ![r] = [op |-> IF p # price THEN "log" ELSE "write",
                                      seen |-> price, new |-> p, stale |-> FALSE]]
    BY <1>1 DEF readPrice
  <2>2. phReq[r].op = "idle" /\ prices' = prices /\ phSlip' = phSlip
    BY <1>1 DEF readPrice
  <2> DEFINE op == IF p # price THEN "log" ELSE "write"
             new == [op |-> op, seen |-> price, new |-> p, stale |-> FALSE]
  <2>3. op \in {"log", "write"} /\ (op = "log" <=> p # price)
    OBVIOUS
  <2>4. phReq' = [phReq EXCEPT ![r] = new]
    BY <2>1
  <2> HIDE DEF op
  <2>5. new \in PhRequests /\ new.op = op /\ new.seen = price /\ new.new = p
    BY <2>3 DEF PhRequests
  <2> HIDE DEF new
  <2>6. phReq' \in [PriceReq -> PhRequests] /\ \A s \in PriceReq : phReq'[s] = IF s = r THEN new ELSE phReq[s]
    BY <2>4, <2>5
  <2>7. Logged' = Logged
    BY <2>2, <2>3, <2>5, <2>6 DEF Logged
  <2>8. PhTypeOK'
    BY <1>0, <2>2, <2>6 DEF PhInv, PhTypeOK, PhRequests
  <2>9. LogsDiffer'
    BY <2>3, <2>5, <2>6 DEF PhInv, LogsDiffer
  <2>10. ~phSlip' => HistoryJoined'
    <3> SUFFICES ASSUME ~phSlip PROVE HistoryJoined'
      BY <2>2
    <3>1. r \notin Logged
      BY <2>2 DEF Logged
    <3>2. \A s \in PriceReq : Logged' = {s} /\ ~phReq'[s].stale => prices' # <<>> /\ PricesEnd(phReq[s].new)' /\ s # r
      BY <2>2, <2>6, <2>7, <3>1 DEF PhInv, HistoryJoined, PricesEnd
    <3> QED BY <1>0, <2>2, <2>5, <2>6, <2>7, <3>1 DEF PhInv, HistoryJoined, PricesEnd
  <2> QED BY <2>8, <2>9, <2>10 DEF PhInv
<1>2. CASE recordChange(r)
  <2> DEFINE row == [oldPrice |-> phReq[r].seen, newPrice |-> phReq[r].new]
             new == [phReq[r] EXCEPT !.op = "write"]
  <2>1. row \in PriceRow /\ row.oldPrice = phReq[r].seen /\ row.newPrice = phReq[r].new
    BY <1>0 DEF PriceRow, PhRequests
  <2>2. /\ new \in PhRequests /\ new.op = "write" /\ new.seen = phReq[r].seen
        /\ new.new = phReq[r].new /\ new.stale = phReq[r].stale
    BY <1>0 DEF PhRequests
  <2>3. /\ phReq[r].op = "log" /\ phReq' = [phReq EXCEPT ![r] = new]
        /\ prices' = IF prices = <<>> THEN <<row>> ELSE <<prices[Len(prices)], row>>
        /\ phSlip' = (phSlip \/ phReq[r].stale)
    BY <1>2 DEF recordChange
  <2> HIDE DEF row, new
  <2>4. phReq' \in [PriceReq -> PhRequests] /\ \A s \in PriceReq : phReq'[s] = IF s = r THEN new ELSE phReq[s]
    BY <2>2, <2>3
  <2>5. /\ prices' \in {<<>>} \union (PriceRow \X PriceRow) \union {<<x>> : x \in PriceRow}
        /\ prices' # <<>> /\ prices'[Len(prices')] = row
        /\ Len(prices') = 2 => prices # <<>> /\ prices'[1] = prices[Len(prices)] /\ prices'[2] = row
    BY <2>1, <2>3, PhRowAdded DEF PhInv
  <2>6. phReq[r].new # phReq[r].seen
    BY <2>3 DEF PhInv, LogsDiffer
  <2>7. Logged' = Logged \union {r} /\ r \notin Logged
    BY <2>2, <2>3, <2>4, <2>6 DEF Logged
  <2>8. phSlip' \in BOOLEAN
    BY <1>0, <2>3 DEF PhRequests
  <2>9. PhTypeOK'
    BY <1>0, <2>4, <2>5, <2>8 DEF PhInv, PhTypeOK, PhRequests
  <2>10. LogsDiffer'
    BY <2>2, <2>4 DEF PhInv, LogsDiffer
  <2>11. ~phSlip' => HistoryJoined'
    <3> SUFFICES ASSUME ~phSlip, ~phReq[r].stale PROVE HistoryJoined'
      BY <1>0, <2>3 DEF PhRequests
    <3>1. phReq[r].seen = price
      BY <2>3 DEF PhInv, HistoryJoined
    <3>2. Logged = {} => /\ prices'[Len(prices')].newPrice = phReq'[r].new
                         /\ Len(prices') = 2 => prices'[1].newPrice = prices'[2].oldPrice
      BY <2>1, <2>2, <2>4, <2>5, <3>1 DEF PhInv, HistoryJoined, PricesEnd
    <3>3. \A s \in PriceReq : Logged' = {s} => s = r /\ Logged = {}
      BY <2>7
    <3>4. Logged' # {}
      BY <2>7
    <3>5. \A s \in PriceReq : phReq'[s].op # "idle" /\ ~phReq'[s].stale => phReq'[s].seen = price'
      BY <1>0, <2>2, <2>4, <3>1 DEF PhInv, HistoryJoined
    <3>6. \A s \in PriceReq : Logged' = {s} => prices' # <<>> /\ PricesEnd(phReq[s].new)'
      BY <2>5, <3>2, <3>3 DEF PricesEnd
    <3> QED BY <3>4, <3>5, <3>6 DEF HistoryJoined, PricesEnd
  <2> QED BY <2>9, <2>10, <2>11 DEF PhInv
<1>3. CASE refuse(r)
  <2>1. /\ phReq[r].op = "write" /\ phReq' = [phReq EXCEPT ![r] = PhIdle] /\ prices' = prices
        /\ phSlip' = (phSlip \/ phReq[r].new # phReq[r].seen)
    BY <1>3 DEF refuse
  <2>2. phReq' \in [PriceReq -> PhRequests] /\ \A s \in PriceReq : phReq'[s] = IF s = r THEN PhIdle ELSE phReq[s]
    BY <2>1
  <2>3. phSlip' \in BOOLEAN
    BY <2>1
  <2>4. PhTypeOK'
    BY <1>0, <2>1, <2>2, <2>3 DEF PhInv, PhTypeOK, PhRequests
  <2>5. LogsDiffer'
    BY <2>2 DEF PhInv, LogsDiffer
  <2>6. ~phSlip' => HistoryJoined'
    <3> SUFFICES ASSUME ~phSlip, phReq[r].new = phReq[r].seen PROVE HistoryJoined'
      BY <2>1
    <3>1. Logged' = Logged /\ r \notin Logged
      BY <2>2 DEF Logged
    <3> QED BY <1>0, <2>1, <2>2, <3>1 DEF PhInv, HistoryJoined, PricesEnd
  <2> QED BY <2>4, <2>5, <2>6 DEF PhInv
<1> QED BY <1>1, <1>2, <1>3

\* The price: whoever has read the old one is out of date.
LEMMA PhWriteStep ==
  ASSUME PhInv, NEW r \in PriceReq, writePrice(r)
  PROVE  PhInv'
<1> USE PhTypes, PhIdleTyped
<1>0. phReq[r] \in PhRequests
  OBVIOUS
<1>1. /\ phReq[r].op = "write" /\ prices' = prices
      /\ price' = IF phReq[r].new = 0 THEN price ELSE phReq[r].new
      /\ phSlip' = (phSlip \/ phReq[r].stale \/ (phReq[r].new = 0 /\ phReq[r].seen # 0))
  BY DEF writePrice
<1>2. \A s \in PriceReq : phReq'[s] = IF s = r THEN PhIdle ELSE [phReq[s] EXCEPT !.stale = phReq[s].op # "idle"]
  BY DEF writePrice
<1>3. \A s \in PriceReq \ {r} : /\ phReq'[s] \in PhRequests /\ phReq'[s].op = phReq[s].op
                                /\ phReq'[s].new = phReq[s].new /\ phReq'[s].seen = phReq[s].seen
                                /\ phReq[s].op # "idle" => phReq'[s].stale
  <2> SUFFICES ASSUME NEW s \in PriceReq \ {r}
               PROVE  /\ phReq'[s] \in PhRequests /\ phReq'[s].op = phReq[s].op
                      /\ phReq'[s].new = phReq[s].new /\ phReq'[s].seen = phReq[s].seen
                      /\ phReq[s].op # "idle" => phReq'[s].stale
    OBVIOUS
  <2>1. phReq[s] \in PhRequests /\ phReq'[s] = [phReq[s] EXCEPT !.stale = phReq[s].op # "idle"]
    BY <1>2
  <2> QED BY <2>1 DEF PhRequests
<1>4. phReq' \in [PriceReq -> PhRequests] /\ phReq'[r] = PhIdle
  <2>1. phReq' = [s \in PriceReq |-> phReq'[s]]
    BY DEF writePrice
  <2>2. \A s \in PriceReq : phReq'[s] \in PhRequests
    BY <1>2, <1>3
  <2> QED BY <1>2, <2>1, <2>2
<1>5. phSlip' \in BOOLEAN /\ price' \in Prices
  BY <1>0, <1>1 DEF PhRequests
<1>6. PhTypeOK'
  BY <1>1, <1>4, <1>5 DEF PhInv, PhTypeOK, PhRequests
<1>7. LogsDiffer'
  BY <1>3, <1>4 DEF PhInv, LogsDiffer
<1>8. Logged' = Logged \ {r} /\ \A s \in Logged' : phReq'[s].stale
  BY <1>3, <1>4 DEF Logged
<1>9. ~phSlip' => HistoryJoined'
  <2> SUFFICES ASSUME ~phSlip, ~phReq[r].stale, ~(phReq[r].new = 0 /\ phReq[r].seen # 0) PROVE HistoryJoined'
    BY <1>0, <1>1 DEF PhRequests
  <2>1. phReq[r].seen = price
    BY <1>1 DEF PhInv, HistoryJoined
  <2>2. price' = phReq[r].new
    BY <1>1, <2>1
  <2>3. \A s \in PriceReq : phReq'[s].op # "idle" => phReq'[s].stale
    BY <1>3, <1>4
  <2>4. Logged' = {} => /\ prices # <<>> => prices[Len(prices)].newPrice = price'
                        /\ Len(prices) = 2 => prices[1].newPrice = prices[2].oldPrice
    <3>1. CASE r \in Logged
      BY <1>8, <2>2, <3>1 DEF PhInv, HistoryJoined, PricesEnd
    <3>2. CASE r \notin Logged
      <4>1. phReq[r].new = price
        BY <1>1, <2>1, <3>2 DEF Logged
      <4> QED BY <1>8, <2>2, <3>2, <4>1 DEF PhInv, HistoryJoined, PricesEnd
    <3> QED BY <3>1, <3>2
  <2> QED BY <1>1, <1>8, <2>3, <2>4 DEF HistoryJoined, PricesEnd
<1> QED BY <1>6, <1>7, <1>9 DEF PhInv

\* Every step keeps the invariant.
LEMMA PhNextInv == PhInv /\ [PhNext]_phVars => PhInv'
<1> SUFFICES ASSUME PhInv, [PhNext]_phVars PROVE PhInv'
  OBVIOUS
<1>1. CASE PhNext
  BY <1>1, PhOwnStep, PhWriteStep DEF PhNext, PhStep
<1>2. CASE UNCHANGED phVars
  BY <1>2 DEF phVars, PhInv, PhTypeOK, LogsDiffer, HistoryJoined, Logged, PricesEnd
<1> QED BY <1>1, <1>2

\* properties.service.ts: between updates the history ends with the asking price and its
\* rows join up, for any prices and overlapping requests, but for the slips it names.
THEOREM PricesSafe == PhSpec => [](PhTypeOK /\ HistoryEndsAtPrice)
<1>1. PhInv => PhTypeOK /\ HistoryEndsAtPrice
  <2> SUFFICES ASSUME PhInv, ~phSlip, \A r \in PriceReq : phReq[r].op = "idle" PROVE PricesEnd(price)
    BY DEF PhInv, HistoryEndsAtPrice, PricesEnd
  <2>1. Logged = {}
    BY DEF Logged
  <2> QED BY <2>1 DEF PhInv, HistoryJoined
<1> QED BY <1>1, PhInitInv, PhNextInv, PTL DEF PhSpec

-----------------------------------------------------------------------------
(* Pages of lists: sequences that a query may return.                      *)

\* A sequence without repetitions is as long as its set is large.
LEMMA PgOnce ==
  ASSUME NEW S, NEW t \in Seq(S), \A a, b \in 1 .. Len(t) : t[a] = t[b] => a = b
  PROVE  Len(t) \in Nat /\ IsFiniteSet(ToSet(t)) /\ Cardinality(ToSet(t)) = Len(t)
<1>1. Len(t) \in Nat /\ t \in [1 .. Len(t) -> S] /\ DOMAIN t = 1 .. Len(t)
  BY LenProperties
<1>2. t \in [1 .. Len(t) -> ToSet(t)] /\ \A x \in ToSet(t) : \E a \in 1 .. Len(t) : t[a] = x
  BY <1>1 DEF ToSet
<1>3. t \in Injection(1 .. Len(t), ToSet(t))
  BY <1>2, Fun_IsInj
<1>4. t \in Surjection(1 .. Len(t), ToSet(t))
  BY <1>2, Fun_IsSurj
<1>5. 1 \in Int /\ Len(t) \in Int
  BY <1>1
<1>6. IsFiniteSet(1 .. Len(t)) /\ Cardinality(1 .. Len(t)) = IF 1 > Len(t) THEN 0 ELSE Len(t) - 1 + 1
  BY <1>5, FS_Interval
<1>7. Cardinality(1 .. Len(t)) = Len(t)
  BY <1>1, <1>6
<1>8. /\ IsFiniteSet(ToSet(t))
      /\ Cardinality(ToSet(t)) = Cardinality(1 .. Len(t)) <=> t \in Injection(1 .. Len(t), ToSet(t))
  BY <1>4, <1>6, FS_Surjection
<1> QED BY <1>1, <1>3, <1>7, <1>8

\* What the database returns: every row once, in an order the sort key allows.
LEMMA PgSorted ==
  ASSUME NEW e, NEW R, IsFiniteSet(R), NEW s \in Sorted(e, R)
  PROVE  /\ Cardinality(R) \in Nat /\ Len(s) = Cardinality(R) /\ s \in Seq(R) /\ DOMAIN s = 1 .. Len(s)
         /\ \A a \in 1 .. Len(s) : s[a] \in R
         /\ \A a, b \in 1 .. Len(s) : s[a] = s[b] => a = b
         /\ \A i \in R : \E a \in 1 .. Len(s) : s[a] = i
         /\ \A a, b \in 1 .. Len(s) : a < b => Before(e, s[a], s[b])
<1>1. Cardinality(R) \in Nat
  BY FS_CardinalityType
<1>2. /\ s \in [1 .. Cardinality(R) -> R]
      /\ \A a, b \in 1 .. Cardinality(R) : a # b => s[a] # s[b]
      /\ \A a, b \in 1 .. Len(s) : a < b => Before(e, s[a], s[b])
  BY DEF Sorted, SetToSeqs
<1>3. s \in Seq(R) /\ Len(s) = Cardinality(R)
  <2>1. s \in Seq(R)
    BY <1>1, <1>2, SeqDef
  <2>2. DOMAIN s = 1 .. Len(s) /\ Len(s) \in Nat
    BY <2>1, LenProperties
  <2>3. 1 .. Len(s) = 1 .. Cardinality(R)
    BY <1>2, <2>2
  <2>4. Len(s) = Cardinality(R)
    BY <1>1, <2>2, <2>3
  <2> QED BY <2>1, <2>4
<1>4. ToSet(s) \subseteq R /\ Cardinality(ToSet(s)) = Cardinality(R)
  <2>1. \A a, b \in 1 .. Len(s) : s[a] = s[b] => a = b
    BY <1>2, <1>3
  <2> QED BY <1>2, <1>3, <2>1, PgOnce DEF ToSet
<1>5. ToSet(s) = R
  BY <1>4, FS_Subset
<1> QED BY <1>1, <1>2, <1>3, <1>5 DEF ToSet

\* The page after skip rows.
LEMMA PgSlice ==
  ASSUME NEW R, NEW s \in Seq(R), NEW skip \in Nat
  PROVE  /\ Slice(s, skip) \in Seq(R) /\ Len(s) \in Nat
         /\ Len(Slice(s, skip)) = IF skip >= Len(s) THEN 0
                                  ELSE IF skip + PageLimit < Len(s) THEN PageLimit ELSE Len(s) - skip
         /\ \A k \in 1 .. Len(Slice(s, skip)) : skip + k \in 1 .. Len(s) /\ Slice(s, skip)[k] = s[skip + k]
<1> DEFINE m == skip + 1
           n == IF skip + PageLimit < Len(s) THEN skip + PageLimit ELSE Len(s)
<1>1. PageLimit \in Nat /\ PageLimit >= 1
  BY PagingAssumption
<1>2. Len(s) \in Nat /\ \A a \in 1 .. Len(s) : s[a] \in R
  BY LenProperties
<1>3. m \in Int /\ n \in Int /\ m >= 1 /\ n <= Len(s)
  BY <1>1, <1>2
<1>4. \A a \in m .. n : s[a] \in R
  BY <1>2, <1>3
<1>5. Slice(s, skip) = SubSeq(s, m, n)
  BY DEF Slice
<1> HIDE DEF m, n
<1>6. /\ SubSeq(s, m, n) \in Seq(R) /\ Len(SubSeq(s, m, n)) = IF m <= n THEN n - m + 1 ELSE 0
      /\ \A k \in 1 .. n - m + 1 : SubSeq(s, m, n)[k] = s[m + k - 1]
  BY <1>3, <1>4, SubSeqProperties
<1>7. Len(Slice(s, skip)) = IF skip >= Len(s) THEN 0
                            ELSE IF skip + PageLimit < Len(s) THEN PageLimit ELSE Len(s) - skip
  BY <1>1, <1>2, <1>5, <1>6 DEF m, n
<1>8. ASSUME NEW k \in 1 .. Len(Slice(s, skip))
      PROVE  skip + k \in 1 .. Len(s) /\ Slice(s, skip)[k] = s[skip + k]
  <2>1. m <= n /\ k \in 1 .. n - m + 1
    BY <1>3, <1>5, <1>6
  <2>2. m + k - 1 = skip + k /\ skip + k \in 1 .. Len(s)
    BY <1>2, <1>3, <2>1 DEF m
  <2> QED BY <1>5, <1>6, <2>1, <2>2
<1> QED BY <1>2, <1>5, <1>6, <1>7, <1>8

-----------------------------------------------------------------------------
(* Pages of lists: the walk.                                               *)

Places == 1 .. Len(shown)

\* The order of the endpoint is total.
Total == walk.at.tie \/ DistinctStamps

\* Rows that come before i; where the order is total, the place of i in every answer.
Ahead(e, i) == {j \in Rows \ {i} : Before(e, j, i)}

\* A walk by page number has shown the first rows of the order, each at its place.
NumberInv ==
    (~touched /\ ~walk.at.cursor /\ Total) =>
      /\ \A k \in Places : shown[k] \in Rows /\ Cardinality(Ahead(walk.at, shown[k])) = k - 1
      /\ IF walk.over THEN Len(shown) = Cardinality(Rows) ELSE Len(shown) = (walk.page - 1) * PageLimit

\* A walk by cursor has shown rows no older than the cursor, each once, and of the others
\* that are no older it has shown one with the same time stamp.
CursorInv ==
    (walk.at.cursor /\ walk.at.order = "desc") =>
      /\ \A k \in Places : shown[k] \in Rows
      /\ \A a, b \in Places : shown[a] = shown[b] => a = b
      /\ ~walk.over /\ walk.cursor = 0 => Places = {}
      /\ ~walk.over /\ walk.cursor # 0 => \A k \in Places : stamp[shown[k]] >= walk.cursor
      /\ ~touched => \A i \in Rows : \/ ~walk.over /\ (walk.cursor = 0 \/ stamp[i] < walk.cursor)
                                     \/ \E k \in Places : stamp[shown[k]] = stamp[i]

PageInv == ~walk.over /\ ~walk.at.cursor => walk.page <= RowMax + 1

PgInv == PgTypeOK /\ PageInv /\ NumberInv /\ CursorInv

\* The constants and the table.
LEMMA PgTable ==
  ASSUME PgTypeOK
  PROVE  /\ RowMax \in Nat /\ PageLimit \in Nat /\ PageLimit >= 1 /\ StampMax \in Nat
         /\ IsFiniteSet(Rows) /\ Cardinality(Rows) \in Nat /\ Cardinality(Rows) <= RowMax
         /\ Rows \subseteq 1 .. RowMax /\ Rows \subseteq Nat
         /\ \A i \in 1 .. RowMax : stamp[i] \in Nat
         /\ \A i \in Rows : stamp[i] \in Nat /\ stamp[i] > 0
         /\ Len(shown) \in Nat
<1>1. RowMax \in Nat /\ PageLimit \in Nat /\ PageLimit >= 1 /\ StampMax \in Nat
  BY PagingAssumption
<1>2. Rows \subseteq 1 .. RowMax
  BY DEF Rows
<1>3. 1 \in Int /\ RowMax \in Int
  BY <1>1
<1>4. IsFiniteSet(1 .. RowMax) /\ Cardinality(1 .. RowMax) = IF 1 > RowMax THEN 0 ELSE RowMax - 1 + 1
  BY <1>3, FS_Interval
<1>5. Cardinality(1 .. RowMax) = RowMax
  BY <1>1, <1>4
<1>6. IsFiniteSet(Rows) /\ Cardinality(Rows) <= RowMax
  BY <1>2, <1>4, <1>5, FS_Subset
<1>7. Cardinality(Rows) \in Nat
  BY <1>6, FS_CardinalityType
<1>8. \A i \in 1 .. RowMax : stamp[i] \in Nat
  BY <1>1 DEF PgTypeOK
<1>9. \A i \in Rows : stamp[i] \in Nat /\ stamp[i] > 0
  BY <1>2, <1>8 DEF Rows
<1>10. Len(shown) \in Nat
  BY LenProperties DEF PgTypeOK
<1> QED BY <1>1, <1>2, <1>6, <1>7, <1>8, <1>9, <1>10

\* At first nothing has been shown.
LEMMA PgInitInv == PgInit => PgInv
<1> SUFFICES ASSUME PgInit PROVE PgInv
  OBVIOUS
<1>1. RowMax \in Nat /\ StampMax \in Nat
  BY PagingAssumption
<1>2. PgTypeOK
  <2>1. 1 \in 1 .. RowMax + 2 /\ 0 \in 0 .. StampMax
    BY <1>1
  <2>2. shown \in Seq(1 .. RowMax)
    BY DEF PgInit
  <2> QED BY <2>1, <2>2 DEF PgInit, PgTypeOK
<1>3. Len(shown) = 0 /\ Places = {} /\ walk.page = 1 /\ walk.cursor = 0 /\ walk.over = FALSE /\ touched = FALSE
  <2>1. Len(shown) = 0
    BY DEF PgInit
  <2>2. Places = {}
    BY <2>1 DEF Places
  <2> QED BY <2>1, <2>2 DEF PgInit
<1>4. PageInv
  BY <1>1, <1>3 DEF PageInv
<1>5. (walk.page - 1) * PageLimit = 0
  BY <1>3, PagingAssumption
<1>6. NumberInv
  BY <1>3, <1>5 DEF NumberInv
<1>7. CursorInv
  BY <1>3 DEF CursorInv
<1> QED BY <1>2, <1>4, <1>6, <1>7 DEF PgInv

\* Where the order is total, the row at place b of any answer has b - 1 rows before it.
LEMMA PgRank ==
  ASSUME PgTypeOK, Total, NEW s \in Sorted(walk.at, Rows), NEW b \in 1 .. Len(s)
  PROVE  Cardinality(Ahead(walk.at, s[b])) = b - 1
<1>1. IsFiniteSet(Rows)
  BY PgTable
<1>2. /\ Len(s) \in Nat /\ s \in Seq(Rows)
      /\ \A a \in 1 .. Len(s) : s[a] \in Rows
      /\ \A a, c \in 1 .. Len(s) : s[a] = s[c] => a = c
      /\ \A i \in Rows : \E a \in 1 .. Len(s) : s[a] = i
      /\ \A a, c \in 1 .. Len(s) : a < c => Before(walk.at, s[a], s[c])
  BY <1>1, PgSorted
<1>3. \A i, j \in Rows : i # j /\ Before(walk.at, i, j) => ~Before(walk.at, j, i)
  BY PgTable DEF Total, DistinctStamps, Before
<1> DEFINE f == [a \in 1 .. (b - 1) |-> s[a]]
           A == Ahead(walk.at, s[b])
<1>4. \A a \in 1 .. (b - 1) : a \in 1 .. Len(s) /\ a < b
  BY <1>2
<1>5. f \in [1 .. (b - 1) -> A]
  <2> SUFFICES ASSUME NEW a \in 1 .. (b - 1) PROVE s[a] \in A
    OBVIOUS
  <2>1. a \in 1 .. Len(s) /\ a < b /\ a # b
    BY <1>2, <1>4
  <2>2. s[a] \in Rows /\ s[a] # s[b]
    BY <1>2, <2>1
  <2>3. Before(walk.at, s[a], s[b])
    BY <1>2, <2>1
  <2> QED BY <2>2, <2>3 DEF Ahead
<1>6. \A x \in A : \E a \in 1 .. (b - 1) : f[a] = x
  <2> SUFFICES ASSUME NEW x \in A PROVE \E a \in 1 .. (b - 1) : s[a] = x
    OBVIOUS
  <2>1. x \in Rows /\ x # s[b] /\ Before(walk.at, x, s[b])
    BY DEF Ahead
  <2>2. PICK c \in 1 .. Len(s) : s[c] = x
    BY <1>2, <2>1
  <2>3. ~(b < c)
    BY <1>2, <1>3, <2>1, <2>2
  <2>4. c # b
    BY <2>1, <2>2
  <2>5. c \in 1 .. (b - 1)
    BY <1>2, <2>3, <2>4
  <2> QED BY <2>2, <2>5
<1>7. \A a, c \in 1 .. (b - 1) : f[a] = f[c] => a = c
  BY <1>2, <1>4
<1> HIDE DEF f, A
<1>8. f \in Injection(1 .. (b - 1), A) /\ f \in Surjection(1 .. (b - 1), A)
  BY <1>5, <1>6, <1>7, Fun_IsInj, Fun_IsSurj
<1>9. 1 \in Int /\ b - 1 \in Int /\ b - 1 \in Nat
  BY <1>2
<1>10. IsFiniteSet(1 .. (b - 1)) /\ Cardinality(1 .. (b - 1)) = IF 1 > b - 1 THEN 0 ELSE (b - 1) - 1 + 1
  BY <1>9, FS_Interval
<1>11. Cardinality(1 .. (b - 1)) = b - 1
  BY <1>9, <1>10
<1>12. Cardinality(A) = Cardinality(1 .. (b - 1))
  BY <1>8, <1>10, FS_Surjection
<1> QED BY <1>11, <1>12 DEF A

\* What is shown after a page.
LEMMA PgShow ==
  ASSUME PgTypeOK, NEW R \in SUBSET Rows, NEW s \in Sorted(walk.at, R), NEW skip \in Nat,
         shown' = shown \o Slice(s, skip)
  PROVE  /\ shown' \in Seq(1 .. RowMax) /\ Len(shown) \in Nat /\ Len(Slice(s, skip)) \in Nat
         /\ Len(shown') = Len(shown) + Len(Slice(s, skip))
         /\ \A k \in Places : shown'[k] = shown[k] /\ k \in 1 .. Len(shown')
         /\ \A k \in 1 .. Len(Slice(s, skip)) : /\ skip + k \in 1 .. Len(s)
                                                /\ shown'[Len(shown) + k] = s[skip + k]
                                                /\ Len(shown) + k \in 1 .. Len(shown')
         /\ \A k \in 1 .. Len(shown') : k \in Places \/ k - Len(shown) \in 1 .. Len(Slice(s, skip))
<1>1. IsFiniteSet(R) /\ Rows \subseteq 1 .. RowMax
  BY PgTable, FS_Subset
<1>2. s \in Seq(R)
  BY <1>1, PgSorted
<1>3. /\ Slice(s, skip) \in Seq(R)
      /\ \A k \in 1 .. Len(Slice(s, skip)) : skip + k \in 1 .. Len(s) /\ Slice(s, skip)[k] = s[skip + k]
  BY <1>2, PgSlice
<1>4. Slice(s, skip) \in Seq(1 .. RowMax)
  BY <1>1, <1>3, SeqMonotonic
<1> DEFINE t == Slice(s, skip)
<1> HIDE DEF t
<1>5. /\ shown \o t \in Seq(1 .. RowMax) /\ Len(shown \o t) = Len(shown) + Len(t)
      /\ \A i \in 1 .. Len(shown) + Len(t) : (shown \o t)[i] = IF i <= Len(shown) THEN shown[i] ELSE t[i - Len(shown)]
  BY <1>4, ConcatProperties DEF PgTypeOK, t
<1>6. Len(shown) \in Nat /\ Len(t) \in Nat
  BY <1>4, LenProperties, PgTable DEF t
<1>7. \A k \in Places : shown'[k] = shown[k] /\ k \in 1 .. Len(shown')
  BY <1>5, <1>6 DEF Places, t
<1>8. ASSUME NEW k \in 1 .. Len(t)
      PROVE  shown'[Len(shown) + k] = t[k] /\ Len(shown) + k \in 1 .. Len(shown')
  <2>1. Len(shown) + k \in 1 .. Len(shown) + Len(t) /\ ~(Len(shown) + k <= Len(shown))
        /\ Len(shown) + k - Len(shown) = k
    BY <1>6
  <2> QED BY <1>5, <2>1 DEF t
<1>9. \A k \in 1 .. Len(shown') : k \in Places \/ k - Len(shown) \in 1 .. Len(t)
  BY <1>5, <1>6 DEF Places, t
<1> QED BY <1>3, <1>5, <1>6, <1>7, <1>8, <1>9 DEF t

\* The numbers of the pages.
LEMMA PgArith ==
  ASSUME NEW p \in Nat, p >= 1, NEW l \in Nat, l >= 1
  PROVE  p * l = (p - 1) * l + l /\ p <= p * l /\ (p - 1) * l \in Nat /\ p * l \in Nat
<1>1. p * l = (p - 1) * l + l
  OBVIOUS
<1>2. (p - 1) * l \in Nat /\ p * l \in Nat
  OBVIOUS
<1>3. p <= p * l
  <2>1. PICK d \in Nat : l = d + 1
    <3>1. l - 1 \in Nat /\ l = (l - 1) + 1
      OBVIOUS
    <3> QED BY <3>1
  <2>2. p * (d + 1) = p * d + p
    OBVIOUS
  <2>3. p * d \in Nat
    OBVIOUS
  <2> QED BY <2>1, <2>2, <2>3
<1> QED BY <1>1, <1>2, <1>3

\* A page by number.
LEMMA PgByNumber ==
  ASSUME PgInv, pageByNumber
  PROVE  PgInv'
<1>0. PgTypeOK /\ PageInv /\ NumberInv
  BY DEF PgInv
<1> DEFINE skip == (walk.page - 1) * PageLimit
           done == walk.page * PageLimit >= Cardinality(Rows)
<1>1. PICK s \in Sorted(walk.at, Rows) : shown' = shown \o Slice(s, skip)
  BY DEF pageByNumber
<1>2. /\ walk.over = FALSE /\ walk.at.cursor = FALSE /\ stamp' = stamp /\ touched' = touched
      /\ walk' = [walk EXCEPT !.page = walk.page + 1, !.over = done]
  BY <1>0 DEF pageByNumber, PgTypeOK, Endpoints, Endpoint, listUsers, getModerationQueue, monitorTransactions,
     transactionsFindAll, usersFindAll, usersSearch, verificationFindAll, activityFindAll, auditFindByTransaction,
     commissionsFindAll, listTickets, listApiKeys, findAllPaginated, searchByPaging, listFavorites, getViewHistory,
     listAlerts, listingsFindAll
<1>3. /\ walk.page \in Nat /\ walk.page >= 1 /\ walk.page <= RowMax + 1
      /\ RowMax \in Nat /\ PageLimit \in Nat /\ PageLimit >= 1
      /\ IsFiniteSet(Rows) /\ Cardinality(Rows) \in Nat /\ Cardinality(Rows) <= RowMax
  BY <1>0, <1>2, PgTable DEF PageInv, PgTypeOK
<1>4. /\ walk.page * PageLimit = skip + PageLimit /\ walk.page <= walk.page * PageLimit
      /\ skip \in Nat /\ walk.page * PageLimit \in Nat
  BY <1>3, PgArith
<1>5. done \in BOOLEAN
  OBVIOUS
<1>6. /\ walk' \in [at : Endpoints, page : 1 .. RowMax + 2, cursor : 0 .. StampMax, over : BOOLEAN]
      /\ walk'.page = walk.page + 1 /\ walk'.over = done /\ walk'.at = walk.at
  <2>1. walk.page + 1 \in 1 .. RowMax + 2
    BY <1>3
  <2> HIDE DEF done
  <2> QED BY <1>0, <1>2, <1>5, <2>1 DEF PgTypeOK
<1>7. /\ shown' \in Seq(1 .. RowMax) /\ Len(shown) \in Nat /\ Len(Slice(s, skip)) \in Nat
      /\ Len(shown') = Len(shown) + Len(Slice(s, skip))
      /\ \A k \in Places : shown'[k] = shown[k] /\ k \in 1 .. Len(shown')
      /\ \A k \in 1 .. Len(Slice(s, skip)) : /\ skip + k \in 1 .. Len(s)
                                             /\ shown'[Len(shown) + k] = s[skip + k]
      /\ \A k \in 1 .. Len(shown') : k \in Places \/ k - Len(shown) \in 1 .. Len(Slice(s, skip))
  <2>1. Rows \in SUBSET Rows /\ skip \in Nat
    BY <1>4
  <2> HIDE DEF skip
  <2> QED BY <1>0, <1>1, <2>1, PgShow
<1>8. PgTypeOK'
  BY <1>0, <1>2, <1>6, <1>7 DEF PgTypeOK
<1>9. PageInv'
  <2>1. ~done => walk.page + 1 <= RowMax + 1
    BY <1>3, <1>4
  <2> QED BY <1>6, <2>1 DEF PageInv
<1>10. Rows' = Rows
  BY <1>2 DEF Rows
<1>11. CursorInv'
  BY <1>2, <1>6 DEF CursorInv
<1>12. NumberInv'
  <2> SUFFICES ASSUME ~touched, Total'
               PROVE  /\ \A k \in 1 .. Len(shown') : /\ shown'[k] \in Rows
                                                     /\ Cardinality(Ahead(walk.at, shown'[k])) = k - 1
                      /\ IF done THEN Len(shown') = Cardinality(Rows) ELSE Len(shown') = walk.page * PageLimit
    <3>1. walk'.page - 1 = walk.page
      BY <1>3, <1>6
    <3>2. \A i : Ahead(walk.at, i)' = Ahead(walk.at, i)
      BY <1>2, <1>6, <1>10 DEF Ahead, Before
    <3> HIDE DEF done
    <3> QED BY <1>2, <1>6, <1>10, <3>1, <3>2 DEF NumberInv, Places
  <2>1. Total
    BY <1>2, <1>6, <1>10 DEF Total, DistinctStamps
  <2>2. /\ \A k \in Places : shown[k] \in Rows /\ Cardinality(Ahead(walk.at, shown[k])) = k - 1
        /\ Len(shown) = skip
    BY <1>0, <1>2, <2>1 DEF NumberInv
  <2>3. /\ Len(s) = Cardinality(Rows) /\ s \in Seq(Rows)
        /\ \A a \in 1 .. Len(s) : s[a] \in Rows
    BY <1>3, PgSorted
  <2>4. \A a \in 1 .. Len(s) : Cardinality(Ahead(walk.at, s[a])) = a - 1
    BY <1>0, <2>1, PgRank
  <2>5. Len(Slice(s, skip)) = IF skip >= Len(s) THEN 0
                              ELSE IF skip + PageLimit < Len(s) THEN PageLimit ELSE Len(s) - skip
    BY <1>4, <2>3, PgSlice
  <2> HIDE DEF skip
  <2>6. ASSUME NEW k \in 1 .. Len(shown')
        PROVE  shown'[k] \in Rows /\ Cardinality(Ahead(walk.at, shown'[k])) = k - 1
    <3>1. CASE k \in Places
      BY <1>7, <2>2, <3>1
    <3>2. CASE k - Len(shown) \in 1 .. Len(Slice(s, skip))
      <4>1. k = Len(shown) + (k - Len(shown)) /\ skip + (k - Len(shown)) = k
        BY <1>4, <1>7, <2>2
      <4>2. shown'[k] = s[k] /\ k \in 1 .. Len(s)
        BY <1>7, <3>2, <4>1
      <4> QED BY <2>3, <2>4, <4>2
    <3> QED BY <1>7, <3>1, <3>2
  <2>7. Len(shown) <= Cardinality(Rows)
    <3>1. CASE Len(shown) = 0
      BY <1>3, <3>1
    <3>2. CASE Len(shown) # 0
      <4> DEFINE x == shown[Len(shown)]
      <4>1. Len(shown) \in Places
        BY <1>7, <3>2 DEF Places
      <4>2. x \in Rows /\ Cardinality(Ahead(walk.at, x)) = Len(shown) - 1
        BY <2>2, <4>1
      <4> HIDE DEF x
      <4>3. IsFiniteSet(Rows \ {x}) /\ Cardinality(Rows \ {x}) = Cardinality(Rows) - 1
        BY <1>3, <4>2, FS_RemoveElement
      <4>4. Ahead(walk.at, x) \in SUBSET (Rows \ {x})
        BY DEF Ahead
      <4>5. Cardinality(Ahead(walk.at, x)) <= Cardinality(Rows) - 1
        BY <4>3, <4>4, FS_Subset
      <4> QED BY <1>3, <1>7, <4>2, <4>5
    <3> QED BY <3>1, <3>2
  <2>8. IF done THEN Len(shown') = Cardinality(Rows) ELSE Len(shown') = walk.page * PageLimit
    BY <1>3, <1>4, <1>7, <2>2, <2>3, <2>5, <2>7
  <2> QED BY <2>6, <2>8
<1> QED BY <1>8, <1>9, <1>11, <1>12 DEF PgInv

\* A page by cursor: rows older than the cursor, newest first.
LEMMA PgByCursor ==
  ASSUME PgInv, pageByCursor
  PROVE  PgInv'
<1>0. PgTypeOK /\ CursorInv
  BY DEF PgInv
<1> DEFINE R == {i \in Rows : walk.cursor # 0 => stamp[i] < walk.cursor}
<1>1. PICK s \in Sorted(walk.at, R) :
         /\ shown' = shown \o Slice(s, 0)
         /\ walk' = IF Len(Slice(s, 0)) = PageLimit
                    THEN [walk EXCEPT !.page = @ + 1, !.cursor = stamp[Slice(s, 0)[PageLimit]]]
                    ELSE [walk EXCEPT !.over = TRUE]
  BY DEF pageByCursor, cursorPage
<1>2. ~walk.over /\ walk.at.cursor /\ walk.page <= RowMax + 1 /\ stamp' = stamp /\ touched' = touched
  BY DEF pageByCursor, cursorPage
<1>3. /\ walk.page \in Nat /\ walk.page >= 1 /\ walk.cursor \in Nat
      /\ RowMax \in Nat /\ PageLimit \in Nat /\ PageLimit >= 1
      /\ IsFiniteSet(Rows) /\ Rows \subseteq 1 .. RowMax
      /\ \A i \in Rows : stamp[i] \in Nat /\ stamp[i] > 0
  BY <1>0, PgTable DEF PgTypeOK
<1>4. R \in SUBSET Rows /\ IsFiniteSet(R)
  BY <1>3, FS_Subset
<1>5. \A i \in R : i \in Rows /\ (walk.cursor # 0 => stamp[i] < walk.cursor)
  OBVIOUS
<1>6. \A i \in Rows : i \notin R => walk.cursor # 0 /\ stamp[i] >= walk.cursor
  BY <1>3
<1> HIDE DEF R
<1>7. /\ Len(s) \in Nat /\ s \in Seq(R)
      /\ \A a \in 1 .. Len(s) : s[a] \in R
      /\ \A a, b \in 1 .. Len(s) : s[a] = s[b] => a = b
      /\ \A i \in R : \E a \in 1 .. Len(s) : s[a] = i
      /\ \A a, b \in 1 .. Len(s) : a < b => Before(walk.at, s[a], s[b])
  BY <1>4, PgSorted
<1> DEFINE n == Len(Slice(s, 0))
<1>8. /\ n \in Nat /\ n <= Len(s) /\ n <= PageLimit /\ (n # PageLimit => n = Len(s))
      /\ \A k \in 1 .. n : k \in 1 .. Len(s) /\ Slice(s, 0)[k] = s[k]
  <2>1. 0 \in Nat
    OBVIOUS
  <2>2. /\ n = IF 0 >= Len(s) THEN 0 ELSE IF 0 + PageLimit < Len(s) THEN PageLimit ELSE Len(s) - 0
        /\ \A k \in 1 .. n : 0 + k \in 1 .. Len(s) /\ Slice(s, 0)[k] = s[0 + k]
    BY <1>7, <2>1, PgSlice
  <2> HIDE DEF n
  <2>3. n \in Nat
    BY <1>3, <1>7, <2>2
  <2>4. \A k \in 1 .. n : 0 + k = k
    BY <2>3
  <2> QED BY <1>3, <1>7, <2>2, <2>3, <2>4
<1>9. /\ shown' \in Seq(1 .. RowMax) /\ Len(shown) \in Nat
      /\ Len(shown') = Len(shown) + n
      /\ \A k \in Places : shown'[k] = shown[k] /\ k \in 1 .. Len(shown')
      /\ \A k \in 1 .. n : /\ shown'[Len(shown) + k] = s[k]
                           /\ Len(shown) + k \in 1 .. Len(shown')
      /\ \A k \in 1 .. Len(shown') : k \in Places \/ k - Len(shown) \in 1 .. n
  <2>1. 0 \in Nat
    OBVIOUS
  <2>2. /\ shown' \in Seq(1 .. RowMax) /\ Len(shown) \in Nat
        /\ Len(shown') = Len(shown) + n
        /\ \A k \in Places : shown'[k] = shown[k] /\ k \in 1 .. Len(shown')
        /\ \A k \in 1 .. n : /\ 0 + k \in 1 .. Len(s)
                             /\ shown'[Len(shown) + k] = s[0 + k]
                             /\ Len(shown) + k \in 1 .. Len(shown')
        /\ \A k \in 1 .. Len(shown') : k \in Places \/ k - Len(shown) \in 1 .. n
    BY <1>0, <1>1, <1>4, <2>1, PgShow
  <2> HIDE DEF n
  <2>3. \A k \in 1 .. n : 0 + k = k
    BY <1>8
  <2> QED BY <2>2, <2>3
<1>10. walk' = IF n = PageLimit THEN [walk EXCEPT !.page = walk.page + 1, !.cursor = stamp[s[PageLimit]]]
               ELSE [walk EXCEPT !.over = TRUE]
  <2>1. n = PageLimit => Slice(s, 0)[PageLimit] = s[PageLimit]
    BY <1>3, <1>8
  <2> QED BY <1>1, <2>1
<1> HIDE DEF n
<1>11. n = PageLimit => s[PageLimit] \in Rows /\ stamp[s[PageLimit]] \in 0 .. StampMax /\ PageLimit \in 1 .. Len(s)
  <2> SUFFICES ASSUME n = PageLimit PROVE s[PageLimit] \in Rows /\ stamp[s[PageLimit]] \in 0 .. StampMax
                                          /\ PageLimit \in 1 .. Len(s)
    OBVIOUS
  <2>1. PageLimit \in 1 .. Len(s)
    BY <1>3, <1>7, <1>8
  <2>2. s[PageLimit] \in Rows
    BY <1>4, <1>7, <2>1
  <2> QED BY <1>0, <1>3, <2>1, <2>2 DEF PgTypeOK
<1>12. /\ walk' \in [at : Endpoints, page : 1 .. RowMax + 2, cursor : 0 .. StampMax, over : BOOLEAN]
       /\ walk'.at = walk.at
       /\ n = PageLimit => walk'.cursor = stamp[s[PageLimit]] /\ walk'.over = walk.over
       /\ n # PageLimit => walk'.over = TRUE
  <2>1. walk.page + 1 \in 1 .. RowMax + 2
    BY <1>2, <1>3
  <2>2. CASE n = PageLimit
    BY <1>0, <1>10, <1>11, <2>1, <2>2 DEF PgTypeOK
  <2>3. CASE n # PageLimit
    BY <1>0, <1>10, <2>3 DEF PgTypeOK
  <2> QED BY <2>2, <2>3
<1>13. PgTypeOK'
  BY <1>0, <1>2, <1>9, <1>12 DEF PgTypeOK
<1>14. PageInv' /\ NumberInv'
  BY <1>2, <1>12 DEF PageInv, NumberInv
<1>15. Rows' = Rows
  BY <1>2 DEF Rows
<1>16. CursorInv'
  <2> SUFFICES ASSUME walk.at.order = "desc"
               PROVE  /\ \A k \in 1 .. Len(shown') : shown'[k] \in Rows
                      /\ \A a, b \in 1 .. Len(shown') : shown'[a] = shown'[b] => a = b
                      /\ ~walk'.over => walk'.cursor # 0
                      /\ ~walk'.over => \A k \in 1 .. Len(shown') : stamp[shown'[k]] >= walk'.cursor
                      /\ ~touched => \A i \in Rows : \/ ~walk'.over /\ stamp[i] < walk'.cursor
                                                     \/ \E k \in 1 .. Len(shown') : stamp[shown'[k]] = stamp[i]
    BY <1>2, <1>12, <1>15 DEF CursorInv, Places
  <2>1. /\ \A k \in Places : shown[k] \in Rows
        /\ \A a, b \in Places : shown[a] = shown[b] => a = b
        /\ walk.cursor = 0 => Places = {}
        /\ walk.cursor # 0 => \A k \in Places : stamp[shown[k]] >= walk.cursor
        /\ ~touched => \A i \in Rows : \/ walk.cursor = 0 \/ stamp[i] < walk.cursor
                                       \/ \E k \in Places : stamp[shown[k]] = stamp[i]
    BY <1>0, <1>2 DEF CursorInv
  <2>2. \A a, b \in 1 .. Len(s) : a < b => stamp[s[a]] >= stamp[s[b]]
    <3> SUFFICES ASSUME NEW a \in 1 .. Len(s), NEW b \in 1 .. Len(s), a < b PROVE stamp[s[a]] >= stamp[s[b]]
      OBVIOUS
    <3>1. Before(walk.at, s[a], s[b]) /\ stamp[s[a]] \in Nat /\ stamp[s[b]] \in Nat
      BY <1>3, <1>4, <1>7
    <3> QED BY <3>1 DEF Before
  <2>3. \A k \in 1 .. n : s[k] \in R /\ s[k] \in Rows /\ k \in 1 .. Len(s)
    BY <1>4, <1>7, <1>8
  <2>4. ASSUME NEW k \in 1 .. Len(shown')
        PROVE  \/ k \in Places /\ shown'[k] = shown[k]
               \/ k - Len(shown) \in 1 .. n /\ shown'[k] = s[k - Len(shown)]
    <3>1. CASE k \in Places
      BY <1>9, <3>1
    <3>2. CASE k - Len(shown) \in 1 .. n
      <4>1. Len(shown) + (k - Len(shown)) = k
        BY <1>9
      <4> QED BY <1>9, <3>2, <4>1
    <3> QED BY <1>9, <3>1, <3>2
  <2>5. \A k \in 1 .. Len(shown') : shown'[k] \in Rows
    BY <2>1, <2>3, <2>4
  <2>6. \A k \in Places, m \in 1 .. n : shown[k] # s[m]
    <3> SUFFICES ASSUME NEW k \in Places, NEW m \in 1 .. n PROVE shown[k] # s[m]
      OBVIOUS
    <3>1. walk.cursor # 0
      BY <2>1
    <3>2. stamp[shown[k]] >= walk.cursor /\ stamp[s[m]] < walk.cursor
      BY <1>5, <2>1, <2>3, <3>1
    <3>3. stamp[shown[k]] \in Nat /\ stamp[s[m]] \in Nat
      BY <1>3, <2>1, <2>3
    <3> QED BY <1>3, <3>2, <3>3
  <2>7. \A a, b \in 1 .. Len(shown') : shown'[a] = shown'[b] => a = b
    <3> SUFFICES ASSUME NEW a \in 1 .. Len(shown'), NEW b \in 1 .. Len(shown'), shown'[a] = shown'[b] PROVE a = b
      OBVIOUS
    <3>1. CASE a \in Places /\ b \in Places
      BY <1>9, <2>1, <3>1
    <3>2. CASE a - Len(shown) \in 1 .. n /\ b - Len(shown) \in 1 .. n /\ shown'[a] = s[a - Len(shown)]
               /\ shown'[b] = s[b - Len(shown)]
      <4>1. a - Len(shown) = b - Len(shown)
        BY <1>7, <2>3, <3>2
      <4> QED BY <1>9, <4>1
    <3> QED BY <2>4, <2>6, <3>1, <3>2
  <2>8. CASE n = PageLimit
    <3> DEFINE c == stamp[s[PageLimit]]
    <3>1. walk'.cursor = c /\ ~walk'.over /\ PageLimit \in 1 .. Len(s) /\ PageLimit \in 1 .. n
      BY <1>2, <1>3, <1>8, <1>11, <1>12, <2>8
    <3>2. c \in Nat /\ c > 0 /\ (walk.cursor # 0 => c < walk.cursor)
      BY <1>3, <1>4, <1>5, <1>7, <3>1
    <3> HIDE DEF c
    <3>3. \A k \in 1 .. n : stamp[s[k]] \in Nat /\ stamp[s[k]] >= c
      <4> SUFFICES ASSUME NEW k \in 1 .. n PROVE stamp[s[k]] \in Nat /\ stamp[s[k]] >= c
        OBVIOUS
      <4>1. stamp[s[k]] \in Nat
        BY <1>3, <2>3
      <4>2. k = PageLimit \/ k < PageLimit
        BY <1>3, <1>8, <2>8
      <4> QED BY <2>2, <2>3, <3>1, <3>2, <4>1, <4>2 DEF c
    <3>4. \A k \in Places : stamp[shown[k]] \in Nat /\ stamp[shown[k]] >= c
      <4> SUFFICES ASSUME NEW k \in Places PROVE stamp[shown[k]] \in Nat /\ stamp[shown[k]] >= c
        OBVIOUS
      <4>1. walk.cursor # 0
        BY <2>1
      <4>2. stamp[shown[k]] >= walk.cursor /\ stamp[shown[k]] \in Nat
        BY <1>3, <2>1, <4>1
      <4> QED BY <1>3, <3>2, <4>1, <4>2
    <3>5. \A k \in 1 .. Len(shown') : stamp[shown'[k]] >= c
      BY <2>4, <3>3, <3>4
    <3>6. ASSUME ~touched, NEW i \in Rows, ~(stamp[i] < c)
          PROVE  \E k \in 1 .. Len(shown') : stamp[shown'[k]] = stamp[i]
      <4>1. CASE i \notin R
        <5>1. PICK k \in Places : stamp[shown[k]] = stamp[i]
          BY <1>3, <1>6, <2>1, <3>6, <4>1
        <5> QED BY <1>9, <5>1
      <4>2. CASE i \in R
        <5>1. PICK b \in 1 .. Len(s) : s[b] = i
          BY <1>7, <4>2
        <5>2. CASE b <= PageLimit
          <6>1. b \in 1 .. n
            BY <1>7, <2>8, <5>2
          <6> QED BY <1>9, <5>1, <6>1
        <5>3. CASE PageLimit < b
          <6>1. c >= stamp[s[b]]
            BY <2>2, <3>1, <5>3 DEF c
          <6>2. stamp[s[PageLimit]] = stamp[i]
            BY <1>3, <3>2, <3>6, <5>1, <6>1 DEF c
          <6> QED BY <1>9, <3>1, <6>2
        <5> QED BY <1>3, <1>7, <5>2, <5>3
      <4> QED BY <4>1, <4>2
    <3>7. c # 0
      BY <3>2
    <3> QED BY <2>5, <2>7, <3>1, <3>5, <3>6, <3>7
  <2>9. CASE n # PageLimit
    <3>1. walk'.over = TRUE /\ n = Len(s)
      BY <1>8, <1>12, <2>9
    <3>2. ASSUME ~touched, NEW i \in Rows
          PROVE  \E k \in 1 .. Len(shown') : stamp[shown'[k]] = stamp[i]
      <4>1. CASE i \notin R
        <5>1. PICK k \in Places : stamp[shown[k]] = stamp[i]
          BY <1>3, <1>6, <2>1, <3>2, <4>1
        <5> QED BY <1>9, <5>1
      <4>2. CASE i \in R
        <5>1. PICK b \in 1 .. Len(s) : s[b] = i
          BY <1>7, <4>2
        <5> QED BY <1>9, <3>1, <5>1
      <4> QED BY <4>1, <4>2
    <3> QED BY <2>5, <2>7, <3>1, <3>2
  <2> QED BY <2>8, <2>9
<1> QED BY <1>13, <1>14, <1>16 DEF PgInv

\* A row is added: what was shown still exists, and the walk knows the table was touched.
LEMMA PgAdds ==
  ASSUME PgInv, AddRow
  PROVE  PgInv'
<1>0. PgTypeOK /\ PageInv /\ CursorInv
  BY DEF PgInv
<1>1. PICK i \in 1 .. RowMax, t \in 1 .. StampMax : stamp[i] = 0 /\ stamp' = [stamp EXCEPT ![i] = t]
  BY DEF AddRow
<1>2. walk' = walk /\ shown' = shown /\ touched' = TRUE /\ ~walk.over
  BY DEF AddRow
<1>3. stamp' \in [1 .. RowMax -> 0 .. StampMax]
  <2>1. t \in 0 .. StampMax
    BY PagingAssumption
  <2> QED BY <1>0, <1>1, <2>1 DEF PgTypeOK
<1>4. PgTypeOK'
  BY <1>0, <1>2, <1>3 DEF PgTypeOK
<1>5. PageInv' /\ NumberInv'
  BY <1>0, <1>2 DEF PageInv, NumberInv
<1>6. \A j \in Rows : j \in Rows' /\ stamp'[j] = stamp[j]
  BY <1>0, <1>1 DEF Rows, PgTypeOK
<1>7. CursorInv'
  BY <1>0, <1>2, <1>6 DEF CursorInv, Places
<1> QED BY <1>4, <1>5, <1>7 DEF PgInv

\* Every step keeps the invariant.
LEMMA PgNextInv == PgInv /\ [PgNext]_pgVars => PgInv'
<1> SUFFICES ASSUME PgInv, [PgNext]_pgVars PROVE PgInv'
  OBVIOUS
<1>1. CASE PgNext
  BY <1>1, PgByNumber, PgByCursor, PgAdds DEF PgNext
<1>2. CASE UNCHANGED pgVars
  BY <1>2 DEF pgVars, PgInv, PgTypeOK, PageInv, NumberInv, CursorInv, Places, Total, DistinctStamps, Ahead, Before, Rows
<1> QED BY <1>1, <1>2

\* A finished walk by page number has shown every row once.
LEMMA PgComplete == PgInv => PagesComplete
<1> SUFFICES ASSUME PgInv, walk.over, ~touched, ~walk.at.cursor, Total
             PROVE  ShownOnce /\ ToSet(shown) = Rows
  BY DEF PagesComplete, Total
<1>0. PgTypeOK /\ Len(shown) \in Nat /\ IsFiniteSet(Rows)
  BY PgTable DEF PgInv
<1>1. /\ \A k \in Places : shown[k] \in Rows /\ Cardinality(Ahead(walk.at, shown[k])) = k - 1
      /\ Len(shown) = Cardinality(Rows)
  BY DEF PgInv, NumberInv
<1>2. \A a, b \in 1 .. Len(shown) : shown[a] = shown[b] => a = b
  <2> SUFFICES ASSUME NEW a \in 1 .. Len(shown), NEW b \in 1 .. Len(shown), shown[a] = shown[b] PROVE a = b
    OBVIOUS
  <2>1. a - 1 = b - 1
    BY <1>1 DEF Places
  <2> QED BY <2>1
<1>3. shown \in Seq(1 .. RowMax) /\ DOMAIN shown = 1 .. Len(shown)
  BY <1>0, LenProperties DEF PgTypeOK
<1>4. IsFiniteSet(ToSet(shown)) /\ Cardinality(ToSet(shown)) = Len(shown)
  BY <1>2, <1>3, PgOnce
<1>5. ToSet(shown) \in SUBSET Rows
  BY <1>1, <1>3 DEF ToSet, Places
<1>6. ToSet(shown) = Rows
  BY <1>0, <1>1, <1>4, <1>5, FS_Subset
<1> QED BY <1>4, <1>6 DEF ShownOnce

\* A walk by cursor shows no row twice and misses only equal time stamps.
LEMMA PgForward == PgInv => CursorWalksForward
<1> SUFFICES ASSUME PgInv, walk.at.cursor, walk.at.order = "desc"
             PROVE  /\ ShownOnce
                    /\ (walk.over /\ ~touched) =>
                          \A i \in Rows \ ToSet(shown) : \E j \in ToSet(shown) : stamp[i] = stamp[j]
  BY DEF CursorWalksForward
<1>1. /\ \A a, b \in Places : shown[a] = shown[b] => a = b
      /\ (walk.over /\ ~touched) => \A i \in Rows : \E k \in Places : stamp[shown[k]] = stamp[i]
  BY DEF PgInv, CursorInv
<1>2. shown \in Seq(1 .. RowMax) /\ DOMAIN shown = Places
  BY LenProperties DEF PgInv, PgTypeOK, Places
<1>3. ShownOnce
  BY <1>1, <1>2, PgOnce DEF ShownOnce, Places
<1>4. \A k \in Places : shown[k] \in ToSet(shown)
  BY <1>2 DEF ToSet
<1> QED BY <1>1, <1>3, <1>4

\* The list endpoints, for any table, page size and order of the database: a walk by page
\* number over an unchanged table shows every row once where the order is total, a walk
\* by cursor goes forward and misses only rows with the time stamp of one it showed.
THEOREM WalksSafe == PgSpec => [](PgTypeOK /\ PagesComplete /\ CursorWalksForward)
<1>1. PgInv => PgTypeOK
  BY DEF PgInv
<1> QED BY <1>1, PgComplete, PgForward, PgInitInv, PgNextInv, PTL DEF PgSpec

-----------------------------------------------------------------------------
(* Images: types.                                                          *)

ImRequests == [op : {"idle", "place", "cover", "store", "unlink", "delete", "find", "promote", "prime"},
               left : 0 .. MaxBatch, next : Orders, first : BOOLEAN,
               id : ImageIds, prime : BOOLEAN, stale : BOOLEAN]

\* The places of a batch that is being stored are below the bound.
PlacesLeft(q) == /\ q.op \in {"place", "cover", "store"} => q.left >= 1
                 /\ q.op \in {"cover", "store"} => q.next + q.left <= MaxOrder + MaxBatch

ImTyped == ImTypeOK /\ \A r \in ImageReq : PlacesLeft(imReq[r])

\* What a request has read still holds.
StillHolds(q, im, co, ord) ==
    /\ q.op \in {"cover", "store"} => \A i \in im : ord[i] < q.next
    /\ q.op = "store" => (q.first <=> co = {})
    /\ q.op \in {"find", "promote"} => co = {}
    /\ q.op = "promote" => q.id \in im
    /\ q.op \in {"unlink", "delete"} => q.id \in im /\ (q.prime <=> q.id \in co)

\* A request that will make an image the cover, or that will count as a slip.
Promoting(q) == q.op \in {"find", "promote"} \/ (q.op = "store" /\ q.first)

OneAtMost(co) == \A i, j \in co : i = j
PlacesDiffer(im, ord) == \A i, j \in im : ord[i] = ord[j] => i = j

\* As long as nothing slipped: at most one cover, different places, what was read and not
\* overtaken holds, and where the cover is missing a request is about to set it.
CoverInv ==
    ~imSlip => /\ OneAtMost(cover) /\ PlacesDiffer(images, order)
               /\ \A r \in ImageReq : imReq[r].stale \/ StillHolds(imReq[r], images, cover, order)
               /\ images # {} /\ cover = {} => \E r \in ImageReq : Promoting(imReq[r])

ImInv == ImTyped /\ CoverInv /\ RowsHaveFiles

\* The constants.
LEMMA ImNumbers ==
  /\ MaxBatch \in Nat /\ MaxBatch >= 1 /\ MaxOrder \in Nat /\ 0 \in Orders
  /\ ImageIds \subseteq Nat /\ IsFiniteSet(ImageIds)
  /\ Cardinality(ImageIds) \in Nat /\ Cardinality(ImageIds) <= MaxOrder + MaxBatch + 1
<1>1. /\ MaxBatch \in Nat /\ MaxBatch >= 1 /\ MaxOrder \in Nat
      /\ ImageIds \subseteq Nat /\ IsFiniteSet(ImageIds) /\ Cardinality(ImageIds) <= MaxOrder + MaxBatch + 1
  BY PropertyImagesAssumption
<1>2. Cardinality(ImageIds) \in Nat
  BY <1>1, FS_CardinalityType
<1>3. 0 \in Orders
  BY <1>1 DEF Orders
<1> QED BY <1>1, <1>2, <1>3

\* A request that does nothing.
LEMMA ImIdleTyped ==
  /\ ImIdle \in ImRequests /\ PlacesLeft(ImIdle) /\ ImIdle.op = "idle" /\ ~Promoting(ImIdle)
  /\ \A im, co, ord : StillHolds(ImIdle, im, co, ord)
<1>1. (CHOOSE i \in ImageIds : TRUE) \in ImageIds
  BY PropertyImagesAssumption
<1>2. 0 \in 0 .. MaxBatch
  BY ImNumbers
<1> QED BY <1>1, <1>2, ImNumbers DEF ImIdle, ImRequests, PlacesLeft, Promoting, StillHolds

\* At first there is no image.
LEMMA ImInitInv == ImInit => ImInv
<1> SUFFICES ASSUME ImInit PROVE ImInv
  OBVIOUS
<1>1. imReq \in [ImageReq -> ImRequests] /\ \A r \in ImageReq : imReq[r] = ImIdle
  BY ImIdleTyped DEF ImInit
<1>2. ImTypeOK
  BY <1>1, ImNumbers DEF ImInit, ImTypeOK, ImRequests
<1>3. ImTyped
  BY <1>1, <1>2, ImIdleTyped DEF ImTyped
<1>4. CoverInv
  BY <1>1, ImIdleTyped DEF ImInit, CoverInv, OneAtMost, PlacesDiffer
<1>5. RowsHaveFiles
  BY DEF ImInit, RowsHaveFiles
<1> QED BY <1>3, <1>4, <1>5 DEF ImInv

\* The type of the progress of the requests.
LEMMA ImReqType ==
  ASSUME ImTyped
  PROVE  /\ imReq \in [ImageReq -> ImRequests]
         /\ \A r \in ImageReq : imReq[r] \in ImRequests /\ PlacesLeft(imReq[r])
  BY DEF ImTyped, ImTypeOK, ImRequests

\* The three conjuncts after a step of r that gives it the progress new and leaves the rows alone.
LEMMA ImRead ==
  ASSUME ImInv, NEW r \in ImageReq, NEW new \in ImRequests, PlacesLeft(new),
         imReq' = [imReq EXCEPT ![r] = new],
         images' = images, order' = order, cover' = cover, imSlip' \in BOOLEAN,
         imSlip' = imSlip \/ imSlip' = TRUE,
         files' \subseteq ImageIds, cut' \subseteq ImageIds,
         ~imSlip' => new.stale \/ StillHolds(new, images, cover, order),
         ~imSlip' /\ Promoting(imReq[r]) => Promoting(new) \/ images = {}
  PROVE  ImTyped' /\ CoverInv'
<1>1. imReq' \in [ImageReq -> ImRequests] /\ imReq'[r] = new /\ \A s \in ImageReq : s # r => imReq'[s] = imReq[s]
  BY ImReqType DEF ImInv
<1>2. ImTypeOK'
  BY <1>1 DEF ImInv, ImTyped, ImTypeOK, ImRequests
<1>3. \A s \in ImageReq : PlacesLeft(imReq'[s])
  BY <1>1, ImReqType DEF ImInv
<1>4. ImTyped'
  BY <1>2, <1>3 DEF ImTyped, PlacesLeft
<1>5. ASSUME ~imSlip' PROVE /\ OneAtMost(cover) /\ PlacesDiffer(images, order)
                            /\ \A s \in ImageReq : imReq'[s].stale \/ StillHolds(imReq'[s], images, cover, order)
                            /\ images # {} /\ cover = {} => \E s \in ImageReq : Promoting(imReq'[s])
  <2>1. ~imSlip
    BY <1>5
  <2>2. /\ OneAtMost(cover) /\ PlacesDiffer(images, order)
        /\ \A s \in ImageReq : imReq[s].stale \/ StillHolds(imReq[s], images, cover, order)
        /\ images # {} /\ cover = {} => \E s \in ImageReq : Promoting(imReq[s])
    BY <2>1 DEF ImInv, CoverInv
  <2>3. \A s \in ImageReq : imReq'[s].stale \/ StillHolds(imReq'[s], images, cover, order)
    BY <1>1, <1>5, <2>2
  <2>4. images # {} /\ cover = {} => \E s \in ImageReq : Promoting(imReq'[s])
    BY <1>1, <1>5, <2>2
  <2> QED BY <2>2, <2>3, <2>4
<1>6. CoverInv'
  BY <1>5 DEF CoverInv, OneAtMost, PlacesDiffer, StillHolds, Promoting
<1> QED BY <1>4, <1>6

\* What the others hold is old after a step of r that changes the rows.
LEMMA ImWrite ==
  ASSUME ImInv, NEW r \in ImageReq, NEW new \in ImRequests, PlacesLeft(new), Outdate(r, new),
         images' \subseteq ImageIds, cover' \subseteq images', order' \in [ImageIds -> Orders],
         files' \subseteq ImageIds, cut' \subseteq ImageIds, imSlip' \in BOOLEAN,
         ~imSlip' => /\ OneAtMost(cover') /\ PlacesDiffer(images', order')
                     /\ StillHolds(new, images', cover', order')
                     /\ images' # {} /\ cover' = {} =>
                           Promoting(new) \/ \E s \in ImageReq : s # r /\ Promoting(imReq[s])
  PROVE  /\ ImTyped' /\ CoverInv' /\ imReq'[r] = new
         /\ \A s \in ImageReq : s # r => imReq'[s].op = imReq[s].op /\ imReq'[s].id = imReq[s].id
<1>1. ASSUME NEW s \in ImageReq, s # r
      PROVE  /\ imReq'[s] \in ImRequests /\ PlacesLeft(imReq'[s])
             /\ imReq'[s].op = imReq[s].op /\ imReq'[s].id = imReq[s].id /\ imReq'[s].first = imReq[s].first
             /\ imReq'[s].op = "idle" \/ imReq'[s].stale
  <2>1. imReq[s] \in ImRequests /\ PlacesLeft(imReq[s])
    BY ImReqType DEF ImInv
  <2>2. imReq'[s] = [imReq[s] EXCEPT !.stale = imReq[s].op # "idle"]
    BY <1>1 DEF Outdate
  <2> QED BY <2>1, <2>2 DEF ImRequests, PlacesLeft
<1>2. imReq' \in [ImageReq -> ImRequests] /\ imReq'[r] = new
  BY <1>1 DEF Outdate
<1>3. ImTypeOK'
  BY <1>2 DEF ImTypeOK, ImRequests
<1>4. \A s \in ImageReq : PlacesLeft(imReq'[s])
  BY <1>1, <1>2
<1>5. ImTyped'
  BY <1>3, <1>4 DEF ImTyped, PlacesLeft
<1>6. ASSUME ~imSlip' PROVE /\ OneAtMost(cover') /\ PlacesDiffer(images', order')
                            /\ \A s \in ImageReq : imReq'[s].stale \/ StillHolds(imReq'[s], images', cover', order')
                            /\ images' # {} /\ cover' = {} => \E s \in ImageReq : Promoting(imReq'[s])
  <2>1. ASSUME NEW s \in ImageReq PROVE imReq'[s].stale \/ StillHolds(imReq'[s], images', cover', order')
    <3>1. CASE s = r
      BY <1>2, <1>6, <3>1
    <3>2. CASE s # r
      BY <1>1, <3>2 DEF StillHolds
    <3> QED BY <3>1, <3>2
  <2>2. \A s \in ImageReq : s # r /\ Promoting(imReq[s]) => Promoting(imReq'[s])
    BY <1>1 DEF Promoting
  <2> QED BY <1>2, <1>6, <2>1, <2>2
<1>7. CoverInv'
  BY <1>6 DEF CoverInv, OneAtMost, PlacesDiffer, StillHolds, Promoting
<1> QED BY <1>1, <1>2, <1>5, <1>7

\* A row without files has its deletion under way after the step of r, if it had it before.
LEMMA ImFilesKept ==
  ASSUME RowsHaveFiles, NEW r \in ImageReq,
         \A s \in ImageReq : s # r => imReq'[s].op = imReq[s].op /\ imReq'[s].id = imReq[s].id,
         \A i \in images' \ (files' \union cut') :
            \/ i \in images \ (files \union cut) /\ ~(imReq[r].op = "delete" /\ imReq[r].id = i)
            \/ imReq'[r].op = "delete" /\ imReq'[r].id = i
  PROVE  RowsHaveFiles'
<1> SUFFICES ASSUME NEW i \in images' \ (files' \union cut')
             PROVE  \E s \in ImageReq : imReq'[s].op = "delete" /\ imReq'[s].id = i
  BY DEF RowsHaveFiles
<1>1. CASE i \in images \ (files \union cut) /\ ~(imReq[r].op = "delete" /\ imReq[r].id = i)
  <2>1. PICK s \in ImageReq : imReq[s].op = "delete" /\ imReq[s].id = i
    BY <1>1 DEF RowsHaveFiles
  <2>2. s # r
    BY <1>1, <2>1
  <2> QED BY <2>1, <2>2
<1>2. CASE imReq'[r].op = "delete" /\ imReq'[r].id = i
  BY <1>2
<1> QED BY <1>1, <1>2

\* A step of r that only reads the rows, with the files: it is not about to delete a row.
LEMMA ImReadOnly ==
  ASSUME ImInv, NEW r \in ImageReq, NEW new \in ImRequests, PlacesLeft(new),
         imReq' = [imReq EXCEPT ![r] = new], imReq[r].op # "delete",
         images' = images, order' = order, cover' = cover, imSlip' \in BOOLEAN,
         imSlip' = imSlip \/ imSlip' = TRUE, files' = files, cut' = cut,
         ~imSlip' => new.stale \/ StillHolds(new, images, cover, order),
         ~imSlip' /\ Promoting(imReq[r]) => Promoting(new) \/ images = {}
  PROVE  ImInv'
<1>1. files \subseteq ImageIds /\ cut \subseteq ImageIds
  BY DEF ImInv, ImTyped, ImTypeOK
<1>2. ImTyped' /\ CoverInv'
  BY <1>1, ImRead
<1>3. \A s \in ImageReq : s # r => imReq'[s] = imReq[s]
  BY ImReqType DEF ImInv
<1>4. RowsHaveFiles'
  BY <1>3, ImFilesKept DEF ImInv
<1> QED BY <1>2, <1>4 DEF ImInv

\* The requests that begin.
LEMMA ImBegins ==
  ASSUME ImInv, NEW r \in ImageReq, uploadImages(r) \/ deleteImage(r) \/ setPrimaryImage(r)
  PROVE  ImInv'
<1>0. imSlip \in BOOLEAN /\ imReq[r].op = "idle" /\ ~Promoting(imReq[r]) /\ images \subseteq ImageIds
  BY DEF uploadImages, deleteImage, setPrimaryImage, Promoting, ImInv, ImTyped, ImTypeOK
<1>1. CASE uploadImages(r)
  <2>1. PICK k \in 1 .. MaxBatch : imReq' = [imReq EXCEPT ![r] = [ImIdle EXCEPT !.op = "place", !.left = k]]
    BY <1>1 DEF uploadImages
  <2> DEFINE new == [ImIdle EXCEPT !.op = "place", !.left = k]
  <2>2. k \in 0 .. MaxBatch /\ k >= 1
    BY ImNumbers
  <2>3. new \in ImRequests /\ new.op = "place" /\ new.left = k
    BY <2>2, ImIdleTyped DEF ImRequests
  <2>4. PlacesLeft(new) /\ \A im, co, ord : StillHolds(new, im, co, ord)
    BY <2>2, <2>3 DEF PlacesLeft, StillHolds
  <2> HIDE DEF new
  <2> QED BY <1>0, <1>1, <2>1, <2>3, <2>4, ImReadOnly DEF uploadImages, new
<1>2. CASE deleteImage(r)
  <2>1. PICK i \in images : imReq' = [imReq EXCEPT ![r] = [ImIdle EXCEPT !.op = "unlink", !.id = i, !.prime = i \in cover]]
    BY <1>2 DEF deleteImage
  <2> DEFINE new == [ImIdle EXCEPT !.op = "unlink", !.id = i, !.prime = i \in cover]
  <2>2. new \in ImRequests /\ new.op = "unlink" /\ new.id = i /\ (new.prime <=> i \in cover)
    <3>1. CASE i \in cover
      <4>1. new = [ImIdle EXCEPT !.op = "unlink", !.id = i, !.prime = TRUE]
        BY <3>1
      <4> HIDE DEF new
      <4> QED BY <1>0, <3>1, <4>1, ImIdleTyped DEF ImRequests
    <3>2. CASE i \notin cover
      <4>0. (i \in cover) = FALSE
        BY <3>2
      <4>1. new = [ImIdle EXCEPT !.op = "unlink", !.id = i, !.prime = FALSE]
        BY <4>0
      <4> HIDE DEF new
      <4> QED BY <1>0, <3>2, <4>1, ImIdleTyped DEF ImRequests
    <3> QED BY <3>1, <3>2
  <2>3. PlacesLeft(new) /\ StillHolds(new, images, cover, order)
    BY <2>2 DEF PlacesLeft, StillHolds
  <2> HIDE DEF new
  <2> QED BY <1>0, <1>2, <2>1, <2>2, <2>3, ImReadOnly DEF deleteImage, new
<1>3. CASE setPrimaryImage(r)
  <2>1. PICK i \in images : imReq' = [imReq EXCEPT ![r] = [ImIdle EXCEPT !.op = "prime", !.id = i]]
    BY <1>3 DEF setPrimaryImage
  <2> DEFINE new == [ImIdle EXCEPT !.op = "prime", !.id = i]
  <2>2. new \in ImRequests /\ new.op = "prime"
    BY <1>0, ImIdleTyped DEF ImRequests
  <2>3. PlacesLeft(new) /\ StillHolds(new, images, cover, order)
    BY <2>2 DEF PlacesLeft, StillHolds
  <2> HIDE DEF new
  <2> QED BY <1>0, <1>3, <2>1, <2>2, <2>3, ImReadOnly DEF setPrimaryImage, new
<1> QED BY <1>1, <1>2, <1>3

\* The batch reads its places ...
LEMMA ImPlaces ==
  ASSUME ImInv, NEW r \in ImageReq, readPlace(r)
  PROVE  ImInv'
<1>0. /\ imSlip \in BOOLEAN /\ imReq[r].op = "place" /\ ~Promoting(imReq[r])
      /\ order \in [ImageIds -> Orders] /\ images \subseteq ImageIds
  BY DEF readPlace, Promoting, ImInv, ImTyped, ImTypeOK
<1>1. PICK top \in Top :
         /\ top < MaxOrder
         /\ imReq' = [imReq EXCEPT ![r] = [ImIdle EXCEPT !.op = "cover", !.left = imReq[r].left, !.next = top + 1]]
  BY DEF readPlace
<1> DEFINE new == [ImIdle EXCEPT !.op = "cover", !.left = imReq[r].left, !.next = top + 1]
<1>2. top \in Int /\ top >= -1 /\ \A i \in images : order[i] \in Int /\ order[i] <= top
  <2>1. \A i \in images : order[i] \in 0 .. MaxOrder + MaxBatch
    BY <1>0 DEF Orders
  <2>2. \A i \in images : order[i] \in Int /\ order[i] >= 0
    BY <2>1, ImNumbers
  <2>3. CASE images = {}
    BY <2>3 DEF Top
  <2>4. CASE images # {}
    BY <2>2, <2>4 DEF Top
  <2> QED BY <2>3, <2>4
<1>3. imReq[r].left \in 0 .. MaxBatch /\ imReq[r].left >= 1
  BY <1>0, ImReqType DEF ImInv, ImRequests, PlacesLeft
<1>4. top + 1 \in Orders /\ top + 1 + imReq[r].left <= MaxOrder + MaxBatch
  BY <1>1, <1>2, <1>3, ImNumbers DEF Orders
<1>5. /\ new \in ImRequests /\ new.op = "cover" /\ new.left = imReq[r].left /\ new.next = top + 1
  BY <1>3, <1>4, ImIdleTyped DEF ImRequests
<1> HIDE DEF new
<1>6. PlacesLeft(new)
  BY <1>3, <1>4, <1>5 DEF PlacesLeft
<1>7. \A i \in images : order[i] < new.next
  BY <1>2, <1>5
<1>9. StillHolds(new, images, cover, order)
  BY <1>5, <1>7 DEF StillHolds
<1> QED BY <1>0, <1>1, <1>5, <1>6, <1>9, ImReadOnly DEF readPlace, new

\* ... and whether there is a cover.
LEMMA ImCovers ==
  ASSUME ImInv, NEW r \in ImageReq, readCover(r)
  PROVE  ImInv'
<1>0. /\ imSlip \in BOOLEAN /\ imReq[r].op = "cover" /\ ~Promoting(imReq[r])
      /\ imReq \in [ImageReq -> ImRequests] /\ imReq[r] \in ImRequests /\ PlacesLeft(imReq[r])
  BY ImReqType DEF readCover, Promoting, ImInv, ImTyped, ImTypeOK
<1> DEFINE new == [imReq[r] EXCEPT !.op = "store", !.first = cover = {}]
<1>1. imReq' = [imReq EXCEPT ![r] = new]
  BY <1>0 DEF readCover
<1>2. /\ new \in ImRequests /\ new.op = "store" /\ new.left = imReq[r].left /\ new.next = imReq[r].next
      /\ new.stale = imReq[r].stale /\ (new.first <=> cover = {})
  BY <1>0 DEF ImRequests
<1> HIDE DEF new
<1>3. PlacesLeft(new)
  BY <1>0, <1>2 DEF PlacesLeft
<1>4. ~imSlip => new.stale \/ StillHolds(new, images, cover, order)
  BY <1>0, <1>2 DEF ImInv, CoverInv, StillHolds
<1>5. /\ images' = images /\ order' = order /\ cover' = cover /\ imSlip' = imSlip
      /\ files' = files /\ cut' = cut
  BY DEF readCover
<1> QED BY <1>0, <1>1, <1>2, <1>3, <1>4, <1>5, ImReadOnly

\* A file that cannot be processed: the first one of a property without a cover is a slip.
LEMMA ImSkips ==
  ASSUME ImInv, NEW r \in ImageReq, processFails(r)
  PROVE  ImInv'
<1>0. /\ imSlip \in BOOLEAN /\ imReq[r].op = "store" /\ imReq[r] \in ImRequests /\ PlacesLeft(imReq[r])
      /\ imReq[r].first \in BOOLEAN /\ imSlip' = (imSlip \/ imReq[r].first)
  BY ImReqType DEF processFails, ImInv, ImTyped, ImTypeOK, ImRequests
<1> DEFINE new == IF imReq[r].left = 1 THEN ImIdle ELSE [imReq[r] EXCEPT !.left = @ - 1, !.first = FALSE]
<1>1. imReq' = [imReq EXCEPT ![r] = new]
  BY ImReqType DEF processFails, ImInv
<1>2. CASE imReq[r].left = 1
  <2>1. new = ImIdle
    BY <1>2
  <2> HIDE DEF new
  <2>2. ~imSlip' /\ Promoting(imReq[r]) => FALSE
    BY <1>0 DEF Promoting
  <2>3. imSlip' \in BOOLEAN /\ (imSlip' = imSlip \/ imSlip' = TRUE)
    BY <1>0
  <2> QED BY <1>0, <1>1, <2>1, <2>2, <2>3, ImIdleTyped, ImReadOnly DEF processFails
<1>3. CASE imReq[r].left # 1
  <2>1. new = [imReq[r] EXCEPT !.left = imReq[r].left - 1, !.first = FALSE]
    BY <1>3
  <2> HIDE DEF new
  <2>2. imReq[r].left \in 0 .. MaxBatch /\ imReq[r].left >= 1 /\ imReq[r].next \in Orders
        /\ imReq[r].next + imReq[r].left <= MaxOrder + MaxBatch
    BY <1>0 DEF PlacesLeft, ImRequests
  <2>3. /\ imReq[r].left - 1 \in 0 .. MaxBatch /\ imReq[r].left - 1 >= 1
        /\ imReq[r].next + (imReq[r].left - 1) <= MaxOrder + MaxBatch
    BY <1>3, <2>2, ImNumbers DEF Orders
  <2>4. /\ new \in ImRequests /\ new.op = "store" /\ new.left = imReq[r].left - 1 /\ new.first = FALSE
        /\ new.next = imReq[r].next /\ new.stale = imReq[r].stale
    BY <1>0, <2>1, <2>3 DEF ImRequests
  <2>5. PlacesLeft(new)
    BY <2>3, <2>4 DEF PlacesLeft
  <2>6. ASSUME ~imSlip' PROVE (new.stale \/ StillHolds(new, images, cover, order)) /\ ~Promoting(imReq[r])
    <3>1. ~imSlip /\ imReq[r].first = FALSE
      BY <1>0, <2>6
    <3>2. imReq[r].stale \/ StillHolds(imReq[r], images, cover, order)
      BY <3>1 DEF ImInv, CoverInv
    <3> QED BY <1>0, <2>4, <3>1, <3>2 DEF StillHolds, Promoting
  <2>7. imSlip' \in BOOLEAN /\ (imSlip' = imSlip \/ imSlip' = TRUE)
    BY <1>0
  <2> QED BY <1>0, <1>1, <2>4, <2>5, <2>6, <2>7, ImReadOnly DEF processFails
<1> QED BY <1>2, <1>3

\* The search for the next cover.
LEMMA ImFinds ==
  ASSUME ImInv, NEW r \in ImageReq, findNext(r)
  PROVE  ImInv'
<1>0. /\ imSlip \in BOOLEAN /\ imReq[r].op = "find" /\ imReq[r] \in ImRequests /\ images \subseteq ImageIds
  BY ImReqType DEF findNext, ImInv, ImTyped, ImTypeOK
<1>1. CASE images = {}
  <2>1. imReq' = [imReq EXCEPT ![r] = ImIdle]
    BY <1>1 DEF findNext, ImDone
  <2> QED BY <1>0, <1>1, <2>1, ImIdleTyped, ImReadOnly DEF findNext
<1>2. CASE images # {}
  <2>1. PICK i \in images : imReq' = [imReq EXCEPT ![r].op = "promote", ![r].id = i]
    BY <1>2 DEF findNext
  <2> DEFINE new == [imReq[r] EXCEPT !.op = "promote", !.id = i]
  <2>2. imReq' = [imReq EXCEPT ![r] = new]
    BY <2>1, ImReqType DEF ImInv
  <2>3. new \in ImRequests /\ new.op = "promote" /\ new.id = i /\ new.stale = imReq[r].stale
    BY <1>0 DEF ImRequests
  <2> HIDE DEF new
  <2>4. PlacesLeft(new) /\ Promoting(new)
    BY <2>3 DEF PlacesLeft, Promoting
  <2>5. ~imSlip => new.stale \/ StillHolds(new, images, cover, order)
    <3>1. ~imSlip => imReq[r].stale \/ StillHolds(imReq[r], images, cover, order)
      BY DEF ImInv, CoverInv
    <3> QED BY <1>0, <2>3, <3>1 DEF StillHolds
  <2> QED BY <1>0, <2>2, <2>3, <2>4, <2>5, ImReadOnly DEF findNext
<1> QED BY <1>1, <1>2

\* The files of the image go: its row has a deletion under way.
LEMMA ImUnlinks ==
  ASSUME ImInv, NEW r \in ImageReq, removeFilesForImage(r)
  PROVE  ImInv'
<1>0. /\ imSlip \in BOOLEAN /\ imReq[r].op = "unlink" /\ imReq[r] \in ImRequests
      /\ files \subseteq ImageIds /\ cut \subseteq ImageIds
  BY ImReqType DEF removeFilesForImage, ImInv, ImTyped, ImTypeOK
<1> DEFINE new == [imReq[r] EXCEPT !.op = "delete"]
<1>1. imReq' = [imReq EXCEPT ![r] = new]
  BY ImReqType DEF removeFilesForImage, ImInv
<1>2. /\ new \in ImRequests /\ new.op = "delete" /\ new.id = imReq[r].id /\ new.stale = imReq[r].stale
      /\ new.prime = imReq[r].prime
  BY <1>0 DEF ImRequests
<1> HIDE DEF new
<1>3. PlacesLeft(new) /\ ~Promoting(imReq[r])
  BY <1>0, <1>2 DEF PlacesLeft, Promoting
<1>4. ~imSlip => new.stale \/ StillHolds(new, images, cover, order)
  <2>1. ~imSlip => imReq[r].stale \/ StillHolds(imReq[r], images, cover, order)
    BY DEF ImInv, CoverInv
  <2> QED BY <1>0, <1>2, <2>1 DEF StillHolds
<1>5. /\ images' = images /\ order' = order /\ cover' = cover /\ imSlip' = imSlip /\ cut' = cut
      /\ files' = files \ {imReq[r].id}
  BY DEF removeFilesForImage
<1>6. ImTyped' /\ CoverInv'
  BY <1>0, <1>1, <1>2, <1>3, <1>4, <1>5, ImRead
<1>7. imReq'[r] = new /\ \A s \in ImageReq : s # r => imReq'[s] = imReq[s]
  BY <1>1, ImReqType DEF ImInv
<1>8. \A i \in images' \ (files' \union cut') :
        i \in images \ (files \union cut) \/ (imReq'[r].op = "delete" /\ imReq'[r].id = i)
  BY <1>2, <1>5, <1>7
<1>9. RowsHaveFiles'
  BY <1>0, <1>7, <1>8, ImFilesKept DEF ImInv
<1> QED BY <1>6, <1>9 DEF ImInv

\* The deletion of the row fails: the row is remembered as cut off from its files.
LEMMA ImDeleteFails ==
  ASSUME ImInv, NEW r \in ImageReq, deleteFails(r)
  PROVE  ImInv'
<1>0. /\ imSlip \in BOOLEAN /\ imReq[r].op = "delete" /\ imReq[r] \in ImRequests /\ imReq[r].id \in ImageIds
      /\ files \subseteq ImageIds
  BY ImReqType DEF deleteFails, ImInv, ImTyped, ImTypeOK, ImRequests
<1>1. /\ imReq' = [imReq EXCEPT ![r] = ImIdle] /\ images' = images /\ order' = order /\ cover' = cover
      /\ imSlip' = imSlip /\ files' = files /\ cut = {} /\ cut' = {imReq[r].id}
  BY DEF deleteFails, ImDone
<1>2. ~Promoting(imReq[r]) /\ cut' \subseteq ImageIds
  BY <1>0, <1>1 DEF Promoting
<1>3. ImTyped' /\ CoverInv'
  BY <1>0, <1>1, <1>2, ImIdleTyped, ImRead
<1>4. imReq'[r] = ImIdle /\ \A s \in ImageReq : s # r => imReq'[s] = imReq[s]
  BY <1>1, ImReqType DEF ImInv
<1>5. \A i \in images' \ (files' \union cut') : i \in images \ (files \union cut) /\ imReq[r].id # i
  BY <1>1
<1>6. RowsHaveFiles'
  BY <1>4, <1>5, ImFilesKept DEF ImInv
<1> QED BY <1>3, <1>6 DEF ImInv

\* What a step that changes the rows shows about their files.
LEMMA ImWriteFiles ==
  ASSUME ImInv, NEW r \in ImageReq, NEW new \in ImRequests, PlacesLeft(new), Outdate(r, new),
         images' \subseteq ImageIds, cover' \subseteq images', order' \in [ImageIds -> Orders],
         files' \subseteq ImageIds, cut' \subseteq ImageIds, imSlip' \in BOOLEAN,
         ~imSlip' => /\ OneAtMost(cover') /\ PlacesDiffer(images', order')
                     /\ StillHolds(new, images', cover', order')
                     /\ images' # {} /\ cover' = {} =>
                           Promoting(new) \/ \E s \in ImageReq : s # r /\ Promoting(imReq[s]),
         \A i \in images' \ (files' \union cut') :
            i \in images \ (files \union cut) /\ ~(imReq[r].op = "delete" /\ imReq[r].id = i)
  PROVE  ImInv'
<1>1. /\ ImTyped' /\ CoverInv'
      /\ \A s \in ImageReq : s # r => imReq'[s].op = imReq[s].op /\ imReq'[s].id = imReq[s].id
  BY ImWrite
<1>2. RowsHaveFiles'
  BY <1>1, ImFilesKept DEF ImInv
<1> QED BY <1>1, <1>2 DEF ImInv

\* One file of a batch: a row at the next place, the cover when there was none.
LEMMA ImStores ==
  ASSUME ImInv, NEW r \in ImageReq, processAndPersist(r)
  PROVE  ImInv'
<1>0. /\ imSlip \in BOOLEAN /\ imReq[r].op = "store" /\ imReq[r] \in ImRequests /\ PlacesLeft(imReq[r])
      /\ imReq[r].first \in BOOLEAN /\ imReq[r].stale \in BOOLEAN /\ imReq[r].next \in Orders
      /\ images \subseteq ImageIds /\ cover \subseteq images /\ order \in [ImageIds -> Orders]
      /\ files \subseteq ImageIds /\ cut \subseteq ImageIds
  BY ImReqType DEF processAndPersist, ImInv, ImTyped, ImTypeOK, ImRequests
<1>1. PICK i \in Unused :
        /\ images' = images \union {i} /\ files' = files \union {i} /\ cut' = cut
        /\ order' = [order EXCEPT ![i] = imReq[r].next]
        /\ cover' = IF imReq[r].first THEN cover \union {i} ELSE cover
        /\ Outdate(r, Stored(r)) /\ imSlip' = (imSlip \/ imReq[r].stale)
  BY DEF processAndPersist, Rely
<1>2. i \in ImageIds /\ i \notin images
  BY DEF Unused
<1>3. /\ Stored(r) \in ImRequests /\ PlacesLeft(Stored(r))
      /\ Stored(r) = ImIdle \/ /\ Stored(r).op = "store" /\ Stored(r).first = FALSE
                               /\ Stored(r).next = imReq[r].next + 1
  <2>1. CASE imReq[r].left = 1
    BY <2>1, ImIdleTyped DEF Stored
  <2>2. CASE imReq[r].left # 1
    <3>1. Stored(r) = [imReq[r] EXCEPT !.left = imReq[r].left - 1, !.next = imReq[r].next + 1, !.first = FALSE]
      BY <2>2 DEF Stored
    <3>2. /\ imReq[r].left \in 0 .. MaxBatch /\ imReq[r].left >= 1 /\ imReq[r].next \in 0 .. MaxOrder + MaxBatch
          /\ imReq[r].next + imReq[r].left <= MaxOrder + MaxBatch
      BY <1>0 DEF PlacesLeft, ImRequests, Orders
    <3>3. /\ imReq[r].left - 1 \in 0 .. MaxBatch /\ imReq[r].left - 1 >= 1 /\ imReq[r].next + 1 \in Orders
          /\ (imReq[r].next + 1) + (imReq[r].left - 1) <= MaxOrder + MaxBatch
      BY <2>2, <3>2, ImNumbers DEF Orders
    <3>4. /\ Stored(r) \in ImRequests /\ Stored(r).op = "store" /\ Stored(r).left = imReq[r].left - 1
          /\ Stored(r).first = FALSE /\ Stored(r).next = imReq[r].next + 1
      BY <1>0, <3>1, <3>3 DEF ImRequests
    <3> QED BY <3>3, <3>4 DEF PlacesLeft
  <2> QED BY <2>1, <2>2
<1>4. /\ images' \subseteq ImageIds /\ cover' \subseteq images' /\ files' \subseteq ImageIds /\ cut' \subseteq ImageIds
      /\ imSlip' \in BOOLEAN
  BY <1>0, <1>1, <1>2
<1>5. /\ order' \in [ImageIds -> Orders] /\ order'[i] = imReq[r].next
      /\ \A j \in images : order'[j] = order[j]
  BY <1>0, <1>1, <1>2
<1>6. ASSUME ~imSlip'
      PROVE  /\ OneAtMost(cover') /\ PlacesDiffer(images', order')
             /\ StillHolds(Stored(r), images', cover', order') /\ cover' # {}
  <2>1. ~imSlip /\ imReq[r].stale = FALSE
    BY <1>0, <1>1, <1>6
  <2>2. OneAtMost(cover) /\ PlacesDiffer(images, order) /\ StillHolds(imReq[r], images, cover, order)
    BY <2>1 DEF ImInv, CoverInv
  <2>3. (imReq[r].first <=> cover = {}) /\ \A j \in images : order[j] < imReq[r].next
    BY <1>0, <2>2 DEF StillHolds
  <2>4. OneAtMost(cover') /\ cover' # {}
    BY <1>1, <2>2, <2>3 DEF OneAtMost
  <2>5. imReq[r].next \in Int /\ \A j \in images : order[j] \in Int
    BY <1>0, ImNumbers DEF Orders
  <2>6. \A j \in images : order'[j] # order'[i]
    BY <1>5, <2>3, <2>5
  <2>7. PlacesDiffer(images', order')
    BY <1>1, <1>5, <2>2, <2>6 DEF PlacesDiffer
  <2>8. \A j \in images' : order'[j] < imReq[r].next + 1
    BY <1>1, <1>5, <2>3, <2>5
  <2>9. StillHolds(Stored(r), images', cover', order')
    <3>1. CASE Stored(r) = ImIdle
      BY <3>1, ImIdleTyped
    <3>2. CASE Stored(r).op = "store" /\ Stored(r).first = FALSE /\ Stored(r).next = imReq[r].next + 1
      BY <2>4, <2>8, <3>2 DEF StillHolds
    <3> QED BY <1>3, <3>1, <3>2
  <2> QED BY <2>4, <2>7, <2>9
<1>7. \A k \in images' \ (files' \union cut') :
        k \in images \ (files \union cut) /\ ~(imReq[r].op = "delete" /\ imReq[r].id = k)
  BY <1>0, <1>1
<1> QED BY <1>1, <1>3, <1>4, <1>5, <1>6, <1>7, ImWriteFiles

\* The row goes; after the cover, a new one is searched.
LEMMA ImDeletes ==
  ASSUME ImInv, NEW r \in ImageReq, deleteRow(r)
  PROVE  ImInv'
<1> DEFINE i == imReq[r].id
<1>0. /\ imSlip \in BOOLEAN /\ imReq[r].op = "delete" /\ imReq[r] \in ImRequests /\ i \in ImageIds
      /\ imReq[r].prime \in BOOLEAN /\ imReq[r].stale \in BOOLEAN
      /\ images \subseteq ImageIds /\ cover \subseteq images /\ order \in [ImageIds -> Orders]
      /\ files \subseteq ImageIds /\ cut \subseteq ImageIds /\ files' = files
  BY ImReqType DEF deleteRow, ImInv, ImTyped, ImTypeOK, ImRequests
<1>1. CASE i \notin images
  <2>1. /\ imReq' = [imReq EXCEPT ![r] = ImIdle] /\ images' = images /\ order' = order /\ cover' = cover
        /\ imSlip' = imSlip /\ cut' = cut
    BY <1>1 DEF deleteRow, ImDone
  <2>2. ~Promoting(imReq[r])
    BY <1>0 DEF Promoting
  <2>3. ImTyped' /\ CoverInv'
    BY <1>0, <2>1, <2>2, ImIdleTyped, ImRead
  <2>4. imReq'[r] = ImIdle /\ \A s \in ImageReq : s # r => imReq'[s] = imReq[s]
    BY <2>1, ImReqType DEF ImInv
  <2>5. \A k \in images' \ (files' \union cut') : k \in images \ (files \union cut) /\ imReq[r].id # k
    BY <1>0, <1>1, <2>1
  <2>6. RowsHaveFiles'
    BY <2>4, <2>5, ImFilesKept DEF ImInv
  <2> QED BY <2>3, <2>6 DEF ImInv
<1>2. CASE i \in images
  <2> DEFINE new == IF imReq[r].prime THEN [imReq[r] EXCEPT !.op = "find", !.stale = FALSE] ELSE ImIdle
  <2>1. /\ images' = images \ {i} /\ cover' = cover \ {i} /\ order' = [order EXCEPT ![i] = 0]
        /\ Outdate(r, new) /\ imSlip' = (imSlip \/ imReq[r].stale) /\ cut' = cut \ {i}
    BY <1>2 DEF deleteRow, Rely
  <2>2. /\ new \in ImRequests
        /\ imReq[r].prime => new.op = "find"
        /\ ~imReq[r].prime => new = ImIdle
    <3>1. CASE imReq[r].prime
      <4>1. new = [imReq[r] EXCEPT !.op = "find", !.stale = FALSE]
        BY <3>1
      <4> HIDE DEF new
      <4> QED BY <1>0, <3>1, <4>1 DEF ImRequests
    <3>2. CASE ~imReq[r].prime
      BY <3>2, ImIdleTyped
    <3> QED BY <3>1, <3>2
  <2> HIDE DEF new
  <2>4. PlacesLeft(new)
    BY <2>2, ImIdleTyped DEF PlacesLeft
  <2>5. /\ images' \subseteq ImageIds /\ cover' \subseteq images' /\ cut' \subseteq ImageIds
        /\ imSlip' \in BOOLEAN /\ files' \subseteq ImageIds
    BY <1>0, <2>1
  <2>6. order' \in [ImageIds -> Orders] /\ \A j \in images' : order'[j] = order[j]
    BY <1>0, <2>1, ImNumbers
  <2>7. ASSUME ~imSlip'
        PROVE  /\ OneAtMost(cover') /\ PlacesDiffer(images', order') /\ StillHolds(new, images', cover', order')
               /\ images' # {} /\ cover' = {} =>
                     Promoting(new) \/ \E s \in ImageReq : s # r /\ Promoting(imReq[s])
    <3>1. ~imSlip /\ imReq[r].stale = FALSE
      BY <1>0, <2>1, <2>7
    <3>2. /\ OneAtMost(cover) /\ PlacesDiffer(images, order) /\ StillHolds(imReq[r], images, cover, order)
          /\ images # {} /\ cover = {} => \E s \in ImageReq : Promoting(imReq[s])
      BY <3>1 DEF ImInv, CoverInv
    <3>3. imReq[r].prime <=> i \in cover
      BY <1>0, <3>2 DEF StillHolds
    <3>4. OneAtMost(cover') /\ PlacesDiffer(images', order')
      BY <2>1, <2>6, <3>2 DEF OneAtMost, PlacesDiffer
    <3>5. CASE imReq[r].prime
      <4>1. cover' = {}
        BY <2>1, <3>2, <3>3, <3>5 DEF OneAtMost
      <4>2. StillHolds(new, images', cover', order') /\ Promoting(new)
        BY <2>2, <3>5, <4>1 DEF StillHolds, Promoting
      <4> QED BY <3>4, <4>2
    <3>6. CASE ~imReq[r].prime
      <4>1. cover' = cover /\ new = ImIdle
        BY <2>1, <2>2, <3>3, <3>6
      <4>2. images' # {} => images # {}
        BY <2>1
      <4>3. ~Promoting(imReq[r])
        BY <1>0 DEF Promoting
      <4> QED BY <3>2, <3>4, <4>1, <4>2, <4>3, ImIdleTyped
    <3> QED BY <3>5, <3>6
  <2>8. \A k \in images' \ (files' \union cut') :
          k \in images \ (files \union cut) /\ ~(imReq[r].op = "delete" /\ imReq[r].id = k)
    BY <1>0, <2>1
  <2> QED BY <2>1, <2>2, <2>4, <2>5, <2>6, <2>7, <2>8, ImWriteFiles
<1> QED BY <1>1, <1>2

\* The next image becomes the cover.
LEMMA ImPromotes ==
  ASSUME ImInv, NEW r \in ImageReq, promote(r)
  PROVE  ImInv'
<1>0. /\ imSlip \in BOOLEAN /\ imReq[r].op = "promote" /\ imReq[r].stale \in BOOLEAN
      /\ images \subseteq ImageIds /\ cover \subseteq images /\ order \in [ImageIds -> Orders]
      /\ files \subseteq ImageIds /\ cut \subseteq ImageIds
  BY ImReqType DEF promote, ImInv, ImTyped, ImTypeOK, ImRequests
<1>1. /\ images' = images /\ order' = order /\ files' = files /\ cut' = cut
      /\ imSlip' = (imSlip \/ imReq[r].stale) /\ cover' = cover \union ({imReq[r].id} \cap images)
      /\ Outdate(r, ImIdle)
  BY DEF promote, Rely
<1>2. ASSUME ~imSlip' PROVE OneAtMost(cover') /\ PlacesDiffer(images', order') /\ cover' # {}
  <2>1. ~imSlip /\ imReq[r].stale = FALSE
    BY <1>0, <1>1, <1>2
  <2>2. PlacesDiffer(images, order) /\ StillHolds(imReq[r], images, cover, order)
    BY <2>1 DEF ImInv, CoverInv
  <2>3. cover' = {imReq[r].id}
    BY <1>0, <1>1, <2>2 DEF StillHolds
  <2> QED BY <1>1, <2>2, <2>3 DEF OneAtMost
<1>3. cover' \subseteq images' /\ imSlip' \in BOOLEAN
  BY <1>0, <1>1
<1>4. \A k \in images' \ (files' \union cut') :
        k \in images \ (files \union cut) /\ ~(imReq[r].op = "delete" /\ imReq[r].id = k)
  BY <1>0, <1>1
<1> QED BY <1>0, <1>1, <1>2, <1>3, <1>4, ImIdleTyped, ImWriteFiles

\* The images get new places, all different.
LEMMA ImReorders ==
  ASSUME ImInv, NEW r \in ImageReq, reorderImages(r)
  PROVE  ImInv'
<1>0. /\ imSlip \in BOOLEAN /\ imReq[r].op = "idle"
      /\ images \subseteq ImageIds /\ cover \subseteq images /\ order \in [ImageIds -> Orders]
      /\ files \subseteq ImageIds /\ cut \subseteq ImageIds
  BY DEF reorderImages, ImInv, ImTyped, ImTypeOK
<1>1. PICK f \in [images -> 0 .. Cardinality(images) - 1] :
        /\ \A i, j \in images : f[i] = f[j] => i = j
        /\ order' = [i \in ImageIds |-> IF i \in images THEN f[i] ELSE 0]
        /\ Outdate(r, ImIdle) /\ UNCHANGED <<images, cover, files, cut, imSlip>>
  BY DEF reorderImages
<1>2. Cardinality(images) \in Nat /\ Cardinality(images) <= Cardinality(ImageIds)
  BY <1>0, ImNumbers, FS_Subset, FS_CardinalityType
<1>3. \A i \in images : f[i] \in Orders
  BY <1>1, <1>2, ImNumbers DEF Orders
<1>4. order' \in [ImageIds -> Orders] /\ \A i \in images : order'[i] = f[i]
  BY <1>0, <1>1, <1>3, ImNumbers
<1>5. ASSUME ~imSlip'
      PROVE  /\ OneAtMost(cover') /\ PlacesDiffer(images', order')
             /\ images' # {} /\ cover' = {} => \E s \in ImageReq : s # r /\ Promoting(imReq[s])
  <2>1. ~imSlip /\ ~Promoting(imReq[r])
    BY <1>0, <1>1, <1>5 DEF Promoting
  <2>2. OneAtMost(cover) /\ (images # {} /\ cover = {} => \E s \in ImageReq : Promoting(imReq[s]))
    BY <2>1 DEF ImInv, CoverInv
  <2>3. PlacesDiffer(images', order')
    BY <1>1, <1>4 DEF PlacesDiffer
  <2> QED BY <1>1, <2>1, <2>2, <2>3
<1>6. \A k \in images' \ (files' \union cut') :
        k \in images \ (files \union cut) /\ ~(imReq[r].op = "delete" /\ imReq[r].id = k)
  BY <1>0, <1>1
<1> QED BY <1>0, <1>1, <1>4, <1>5, <1>6, ImIdleTyped, ImWriteFiles

\* The owner sets the cover, or the image is gone.
LEMMA ImCommits ==
  ASSUME ImInv, NEW r \in ImageReq, commitPrimary(r)
  PROVE  ImInv'
<1>0. /\ imSlip \in BOOLEAN /\ imReq[r].op = "prime" /\ ~Promoting(imReq[r])
      /\ images \subseteq ImageIds /\ cover \subseteq images /\ order \in [ImageIds -> Orders]
      /\ files \subseteq ImageIds /\ cut \subseteq ImageIds
      /\ images' = images /\ order' = order /\ files' = files /\ cut' = cut /\ imSlip' = imSlip
  BY DEF commitPrimary, Promoting, ImInv, ImTyped, ImTypeOK
<1>1. CASE imReq[r].id \in images
  <2>1. cover' = {imReq[r].id} /\ Outdate(r, ImIdle)
    BY <1>1 DEF commitPrimary
  <2>2. ~imSlip' => OneAtMost(cover') /\ PlacesDiffer(images', order') /\ cover' # {}
    BY <1>0, <2>1 DEF OneAtMost, PlacesDiffer, ImInv, CoverInv
  <2>3. \A k \in images' \ (files' \union cut') :
          k \in images \ (files \union cut) /\ ~(imReq[r].op = "delete" /\ imReq[r].id = k)
    BY <1>0
  <2>4. cover' \subseteq images'
    BY <1>0, <1>1, <2>1
  <2> QED BY <1>0, <2>1, <2>2, <2>3, <2>4, ImIdleTyped, ImWriteFiles
<1>2. CASE imReq[r].id \notin images
  <2>1. cover' = cover /\ imReq' = [imReq EXCEPT ![r] = ImIdle]
    BY <1>2 DEF commitPrimary, ImDone
  <2> QED BY <1>0, <2>1, ImIdleTyped, ImReadOnly
<1> QED BY <1>1, <1>2

\* Every step keeps the invariant.
LEMMA ImNextInv == ImInv /\ [ImNext]_imVars => ImInv'
<1> SUFFICES ASSUME ImInv, [ImNext]_imVars PROVE ImInv'
  OBVIOUS
<1>1. ASSUME NEW r \in ImageReq, ImStep(r) PROVE ImInv'
  BY <1>1, ImBegins, ImPlaces, ImCovers, ImStores, ImSkips, ImUnlinks, ImDeletes, ImDeleteFails, ImFinds, ImPromotes,
     ImReorders, ImCommits DEF ImStep
<1>2. CASE UNCHANGED imVars
  BY <1>2 DEF imVars, ImInv, ImTyped, ImTypeOK, PlacesLeft, CoverInv, OneAtMost, PlacesDiffer, StillHolds, Promoting,
              RowsHaveFiles
<1> QED BY <1>1, <1>2 DEF ImNext

\* Between requests one image is the cover.
LEMMA ImQuietCover == ImInv => OneCover
<1> SUFFICES ASSUME ImInv, ImQuiet, ~imSlip
             PROVE  /\ Cardinality(cover) = IF images = {} THEN 0 ELSE 1
                    /\ \A i, j \in images : order[i] = order[j] => i = j
  BY DEF OneCover
<1>1. /\ OneAtMost(cover) /\ PlacesDiffer(images, order)
      /\ images # {} /\ cover = {} => \E r \in ImageReq : Promoting(imReq[r])
  BY DEF ImInv, CoverInv
<1>2. cover \subseteq images /\ \A r \in ImageReq : ~Promoting(imReq[r])
  BY DEF ImQuiet, Promoting, ImInv, ImTyped, ImTypeOK
<1>3. CASE images = {}
  BY <1>1, <1>2, <1>3, FS_EmptySet DEF PlacesDiffer
<1>4. CASE images # {}
  <2>1. PICK i \in cover : TRUE
    BY <1>1, <1>2, <1>4
  <2>2. cover = {i}
    BY <1>1, <2>1 DEF OneAtMost
  <2>3. Cardinality(cover) = 1
    BY <2>2, FS_Singleton
  <2> QED BY <1>1, <1>4, <2>3 DEF PlacesDiffer
<1> QED BY <1>3, <1>4

\* property-images.service.ts: for any number of overlapping requests, one image is the
\* cover between them and the places differ, unless an old read was used, and a row
\* without files has its deletion under way or was cut off there.
THEOREM ImagesSafe == ImSpec => [](ImTypeOK /\ OneCover /\ RowsHaveFiles)
<1>1. ImInv => ImTypeOK /\ OneCover /\ RowsHaveFiles
  BY ImQuietCover DEF ImInv, ImTyped
<1> QED BY <1>1, ImInitInv, ImNextInv, PTL DEF ImSpec

-----------------------------------------------------------------------------
(* Documents: the signature.                                               *)

\* A request that is about to sign has read a document without a signature, so that its
\* trail is empty, however many others have signed since.
SignersReadNone ==
    /\ DOMAIN dcReq = DocReq
    /\ \A r \in DocReq : dcReq[r].op = "sign" => dcReq[r].trail = <<>>

DocumentFields == {"there", "status", "flagged", "age", "signedBy", "trail", "file"}

SignatureInv == DOMAIN dcDoc = DocumentFields /\ SignersReadNone /\ OneSignature

\* The two ways to begin, and the uploads: no signature is written or about to be.
LEMMA UploadStep ==
  ASSUME SignatureInv, NEW r \in DocReq,
         \/ \E age \in {"none", "ahead"} : createDocument(r, age)
         \/ attach(r) \/ attachVersion(r) \/ attachDies(r) \/ addVersion(r) \/ writeVersion(r)
  PROVE  SignatureInv'
<1> USE DEF SignatureInv, SignersReadNone, OneSignature, DocumentFields
<1>1. ASSUME NEW age \in {"none", "ahead"}, createDocument(r, age) PROVE SignatureInv'
  BY <1>1 DEF createDocument, NewDocument, NoDocument
<1>2. CASE attach(r)
  BY <1>2 DEF attach, NewDocument, NoDocument, Idle
<1>3. CASE attachVersion(r) \/ attachDies(r)
  BY <1>3 DEF attachVersion, attachDies, Finish, Idle
<1>4. CASE addVersion(r)
  BY <1>4 DEF addVersion, Idle
<1>5. CASE writeVersion(r)
  BY <1>5 DEF writeVersion, Finish, Idle
<1> QED BY <1>1, <1>2, <1>3, <1>4, <1>5

\* A signature is written after a trail that was read empty; "none" is no signer.
LEMMA SignStep ==
  ASSUME SignatureInv, NEW r \in DocReq,
         signDocument(r) \/ \E s \in Signers : writeSignature(r, s)
  PROVE  SignatureInv'
<1> USE DEF SignatureInv, SignersReadNone, OneSignature, DocumentFields
<1>1. CASE signDocument(r)
  BY <1>1 DEF signDocument, Idle
<1>2. ASSUME NEW s \in Signers, writeSignature(r, s) PROVE SignatureInv'
  <2>1. dcReq[r].trail = <<>> /\ s # "none"
    BY <1>2, DocumentsAssumption DEF writeSignature
  <2>2. Append(<<>>, s) = <<s>>
    OBVIOUS
  <2> QED BY <1>2, <2>1, <2>2 DEF writeSignature, Finish, Idle
<1> QED BY <1>1, <1>2

\* Owners, the nightly job and time leave signature and trail alone.
LEMMA OtherStep ==
  ASSUME SignatureInv,
         \/ \E age \in Ages, flagged \in BOOLEAN : updateDocument(age, flagged)
         \/ removeDocument \/ removeFromTransaction \/ deleteExpired
         \/ markExpiredDocuments \/ archiveDocuments \/ daysPass
  PROVE  SignatureInv'
<1> USE DEF SignatureInv, SignersReadNone, OneSignature, DocumentFields
<1>1. ASSUME NEW age \in Ages, NEW flagged \in BOOLEAN, updateDocument(age, flagged)
      PROVE  SignatureInv'
  BY <1>1 DEF updateDocument
<1>2. CASE removeDocument \/ removeFromTransaction \/ deleteExpired
  BY <1>2 DEF removeDocument, removeFromTransaction, deleteExpired, Delete
<1>3. CASE markExpiredDocuments
  BY <1>3 DEF markExpiredDocuments
<1>4. CASE archiveDocuments
  BY <1>4 DEF archiveDocuments
<1>5. CASE daysPass
  BY <1>5 DEF daysPass
<1> QED BY <1>1, <1>2, <1>3, <1>4, <1>5

\* Every step keeps the invariant of the signature.
LEMMA SignatureInvariant == DcSpec => []SignatureInv
<1>1. DcInit => SignatureInv
  BY DEF DcInit, NoDocument, Idle, SignatureInv, SignersReadNone, OneSignature, DocumentFields
<1>2. SignatureInv /\ [DcNext]_dcVars => SignatureInv'
  <2> SUFFICES ASSUME SignatureInv, [DcNext]_dcVars PROVE SignatureInv'
    OBVIOUS
  <2>1. CASE UNCHANGED dcVars
    BY <2>1 DEF SignatureInv, SignersReadNone, OneSignature, dcVars
  <2>2. CASE DcNext
    BY <2>2, UploadStep, SignStep, OtherStep DEF DcNext
  <2> QED BY <2>1, <2>2
<1> QED BY <1>1, <1>2, PTL DEF DcSpec

\* signDocument: however many requests sign at once, the trail holds exactly the
\* signature that the document shows (OneSignature).
THEOREM SignatureSafe == DcSpec => []OneSignature
<1>1. SignatureInv => OneSignature
  BY DEF SignatureInv
<1> QED BY <1>1, SignatureInvariant, PTL

-----------------------------------------------------------------------------
(* Documents: the refinement.                                              *)

\* Before the first upload there is no document, and its status is the default one.
StatusInv ==
    /\ DOMAIN dcDoc = DocumentFields /\ dcFiles \in Nat
    /\ dcFiles = 0 => ~dcDoc.there /\ dcDoc.status = "ACTIVE"

\* A step leaves the status alone, or is one of the two statements of the nightly job on
\* the status it tests.
LEMMA StatusStep ==
  ASSUME StatusInv, DcNext
  PROVE  /\ StatusInv'
         /\ dcDoc'.status = dcDoc.status \/ <<dcDoc.status, dcDoc'.status>> \in DocumentMoves
<1> USE DEF StatusInv, DocumentMoves, DocumentFields
<1>1. ASSUME NEW r \in DocReq, NEW age \in {"none", "ahead"}, createDocument(r, age)
      PROVE StatusInv' /\ dcDoc'.status = dcDoc.status
  BY <1>1 DEF createDocument, NewDocument, NoDocument
<1>2. ASSUME NEW r \in DocReq, attach(r) PROVE StatusInv' /\ dcDoc'.status = dcDoc.status
  BY <1>2 DEF attach, NewDocument, NoDocument
<1>3. ASSUME NEW r \in DocReq, attachVersion(r) \/ attachDies(r) \/ addVersion(r) \/ writeVersion(r)
      PROVE StatusInv' /\ dcDoc'.status = dcDoc.status
  BY <1>3 DEF attachVersion, attachDies, addVersion, writeVersion
<1>4. ASSUME NEW r \in DocReq, signDocument(r) \/ \E s \in Signers : writeSignature(r, s)
      PROVE StatusInv' /\ dcDoc'.status = dcDoc.status
  BY <1>4 DEF signDocument, writeSignature
<1>5. ASSUME NEW age \in Ages, NEW flagged \in BOOLEAN, updateDocument(age, flagged)
      PROVE  StatusInv' /\ dcDoc'.status = dcDoc.status
  BY <1>5 DEF updateDocument
<1>6. CASE removeDocument \/ removeFromTransaction \/ deleteExpired
  BY <1>6 DEF removeDocument, removeFromTransaction, deleteExpired, Delete
<1>7. CASE daysPass
  BY <1>7 DEF daysPass
<1>8. CASE markExpiredDocuments
  BY <1>8 DEF markExpiredDocuments
<1>9. CASE archiveDocuments
  BY <1>9 DEF archiveDocuments
<1> QED BY <1>1, <1>2, <1>3, <1>4, <1>5, <1>6, <1>7, <1>8, <1>9 DEF DcNext

\* Documents implement the abstract workflow (DocumentFollowsWorkflow): for any requests
\* and any edits of the date, the status goes from ACTIVE to EXPIRED to ARCHIVED only.
THEOREM DocumentRefinement == DcSpec => DocumentFollowsWorkflow
<1>1. DcInit => StatusInv /\ DocumentWorkflow!WfInit
  BY DEF DcInit, StatusInv, DocumentFields, NoDocument, DocumentWorkflow!WfInit
<1>2. StatusInv /\ [DcNext]_dcVars
        => StatusInv' /\ [DocumentWorkflow!WfNext]_(<<dcDoc.status, FALSE>>)
  <2> SUFFICES ASSUME StatusInv, [DcNext]_dcVars
               PROVE  StatusInv' /\ [DocumentWorkflow!WfNext]_(<<dcDoc.status, FALSE>>)
    OBVIOUS
  <2>1. CASE UNCHANGED dcVars
    BY <2>1 DEF StatusInv, dcVars
  <2>2. CASE DcNext
    BY <2>2, StatusStep DEF DocumentWorkflow!WfNext, DocumentWorkflow!Move
  <2> QED BY <2>1, <2>2
<1> QED BY <1>1, <1>2, PTL DEF DcSpec, DocumentFollowsWorkflow, DocumentWorkflow!WfSpec

-----------------------------------------------------------------------------
(* Documents: the versions.                                                *)

VersionCount == Cardinality(DOMAIN dcVersions)

DcRows == [there : BOOLEAN, status : {"ACTIVE", "EXPIRED", "ARCHIVED"}, flagged : BOOLEAN,
           age : Ages, signedBy : Signers \cup {"none"}, trail : {<<>>} \cup {<<s>> : s \in Signers},
           file : 0..MaxFiles]
DcRequests == [op : {"idle", "attach", "sign", "version"}, number : Nat, trail : {<<>>}, file : Nat]

DcTyped == /\ dcDoc \in DcRows /\ dcReq \in [DocReq -> DcRequests]
           /\ dcJob \in {"idle", "archive"} /\ dcFiles \in 0..MaxFiles

\* The versions are numbered from 1, by files that were uploaded; without one the
\* document shows its first file.
VersionsNumbered ==
    /\ VersionCount \in 0..dcFiles /\ DOMAIN dcVersions = 1..VersionCount
    /\ \A k \in 1..VersionCount : dcVersions[k] \in 1..dcFiles
    /\ ~dcDoc.there => VersionCount = 0
    /\ dcDoc.there => /\ dcFiles > 0
                      /\ dcDoc.file = IF VersionCount = 0 THEN 1 ELSE dcVersions[VersionCount]

\* A number that was read is at most the next one now: a document that is gone does not
\* come back, and versions are only added.
NumbersRead ==
    \A r \in DocReq :
      /\ dcReq[r].op = "version" => /\ dcReq[r].number \in 1..dcFiles /\ dcReq[r].file \in 1..dcFiles
                                    /\ dcDoc.there => dcReq[r].number <= VersionCount + 1
      /\ dcReq[r].op = "attach" => dcReq[r].file = 1 /\ dcFiles > 0

DcInv == DcTyped /\ VersionsNumbered /\ NumbersRead

\* The numbers of the versions.
LEMMA DcInterval ==
  ASSUME NEW n \in Nat
  PROVE  Cardinality(1..n) = n
<1>1. 1 \in Int /\ n \in Int
  OBVIOUS
<1>2. Cardinality(1..n) = IF 1 > n THEN 0 ELSE n - 1 + 1
  BY <1>1, FS_Interval
<1>3. (IF 1 > n THEN 0 ELSE n - 1 + 1) = n
  OBVIOUS
<1> QED BY <1>2, <1>3

\* A request that does nothing has its type.
LEMMA DcIdleTyped == Idle \in DcRequests /\ Idle.op = "idle"
  BY DEF Idle, DcRequests

\* At first there is no document.
LEMMA DcInitInv == DcInit => DcInv
<1> SUFFICES ASSUME DcInit PROVE DcInv
  OBVIOUS
<1>0. MaxFiles \in Nat
  BY DocumentsAssumption
<1>1. NoDocument \in DcRows /\ NoDocument.there = FALSE
  BY <1>0 DEF NoDocument, DcRows, Ages
<1>2. DcTyped
  BY <1>0, <1>1, DcIdleTyped DEF DcInit, DcTyped
<1>3. DOMAIN dcVersions = 1..0 /\ VersionCount = 0
  <2>1. DOMAIN dcVersions = 1..0
    BY DEF DcInit
  <2> QED BY <2>1, DcInterval DEF VersionCount
<1>4. VersionsNumbered
  BY <1>1, <1>3 DEF DcInit, VersionsNumbered
<1>5. NumbersRead
  BY DcIdleTyped DEF DcInit, NumbersRead
<1> QED BY <1>2, <1>4, <1>5 DEF DcInv

\* A step that changes neither versions nor files, nor brings the document back.
LEMMA DcKept ==
  ASSUME DcInv, DcTyped', dcVersions' = dcVersions, dcFiles' = dcFiles,
         dcDoc'.there = dcDoc.there, dcDoc'.file = dcDoc.file,
         \A r \in DocReq : dcReq'[r] = dcReq[r] \/ dcReq'[r].op \in {"idle", "sign"}
  PROVE  DcInv'
<1>1. VersionCount' = VersionCount
  BY DEF VersionCount
<1>2. VersionsNumbered'
  BY <1>1 DEF DcInv, VersionsNumbered
<1>3. NumbersRead'
  BY <1>1 DEF DcInv, NumbersRead
<1> QED BY <1>2, <1>3 DEF DcInv

\* The request ends.
LEMMA DcFinish ==
  ASSUME DcInv, NEW r \in DocReq, Finish(r)
  PROVE  /\ dcReq' \in [DocReq -> DcRequests] /\ dcReq'[r].op = "idle"
         /\ \A s \in DocReq : s # r => dcReq'[s] = dcReq[s]
  BY DcIdleTyped DEF DcInv, DcTyped, Finish

\* Creation: before it there was no file, and no request that had read one.
LEMMA DcCreateStep ==
  ASSUME DcInv, NEW r \in DocReq, (\E age \in {"none", "ahead"} : createDocument(r, age)) \/ attach(r)
  PROVE  DcInv'
<1>0. MaxFiles \in Nat \ {0} /\ 1 \in 0..MaxFiles
  BY DocumentsAssumption
<1>1. dcFiles = 0 /\ dcFiles' = 1 /\ dcVersions' = dcVersions /\ dcJob' = dcJob
  BY DEF createDocument, attach
<1>2. PICK age \in {"none", "ahead"} : dcDoc' = [NoDocument EXCEPT !.there = TRUE, !.age = age, !.file = 1]
  BY <1>1 DEF createDocument, attach, NewDocument
<1>3. dcDoc' \in DcRows /\ dcDoc'.there = TRUE /\ dcDoc'.file = 1
  BY <1>0, <1>2 DEF NoDocument, DcRows, Ages
<1>4. VersionCount = 0 /\ VersionCount' = 0 /\ DOMAIN dcVersions = {}
  BY <1>1 DEF DcInv, VersionsNumbered, VersionCount
<1>5. VersionsNumbered'
  BY <1>1, <1>3, <1>4 DEF DcInv, VersionsNumbered
<1>6. PICK new \in DcRequests : /\ new.op \in {"idle", "attach"} /\ (new.op = "attach" => new.file = 1)
                                /\ dcReq' = [dcReq EXCEPT ![r] = new]
  <2>1. CASE attach(r)
    <3> DEFINE new == [Idle EXCEPT !.op = "attach", !.file = 1]
    <3>1. new \in DcRequests /\ new.op = "attach" /\ new.file = 1
      BY DEF Idle, DcRequests
    <3> QED BY <1>1, <2>1, <3>1 DEF attach
  <2>2. CASE dcReq' = dcReq /\ dcReq[r] = Idle
    <3>1. dcReq' = [dcReq EXCEPT ![r] = Idle]
      BY <2>2 DEF DcInv, DcTyped
    <3> QED BY <3>1, DcIdleTyped
  <2> QED BY <2>1, <2>2 DEF createDocument
<1>7. dcReq' \in [DocReq -> DcRequests] /\ \A s \in DocReq : dcReq'[s] = IF s = r THEN new ELSE dcReq[s]
  BY <1>6 DEF DcInv, DcTyped
<1>8. DcTyped'
  BY <1>0, <1>1, <1>3, <1>7 DEF DcInv, DcTyped
<1>9. NumbersRead'
  <2>1. \A s \in DocReq : dcReq[s].op # "version" /\ dcReq[s].op # "attach"
    BY <1>1 DEF DcInv, NumbersRead
  <2> SUFFICES ASSUME NEW s \in DocReq
               PROVE  dcReq'[s].op # "version" /\ (dcReq'[s].op = "attach" => dcReq'[s].file = 1)
    BY <1>1 DEF NumbersRead
  <2>2. CASE s = r
    BY <1>6, <1>7, <2>2
  <2>3. CASE s # r
    BY <1>7, <2>1, <2>3
  <2> QED BY <2>2, <2>3
<1> QED BY <1>5, <1>8, <1>9 DEF DcInv

\* A new version takes the next number, whatever number the request has read.
LEMMA DcInsert ==
  ASSUME DcInv, NEW r \in DocReq, NEW n \in 1..dcFiles, NEW f \in 1..dcFiles, MayInsert(n), n <= VersionCount + 1,
         dcVersions' = WithVersion(n, f), dcDoc' \in DcRows, dcDoc'.there = TRUE, dcDoc'.file = f,
         dcFiles' = dcFiles, dcJob' = dcJob, Finish(r)
  PROVE  DcInv'
<1>1. VersionCount \in Nat /\ DOMAIN dcVersions = 1..VersionCount /\ n \notin 1..VersionCount /\ dcFiles \in Nat
  BY DocumentsAssumption DEF DcInv, DcTyped, VersionsNumbered, MayInsert
<1>2. n = VersionCount + 1 /\ n \in Nat
  BY <1>1
<1>3. DOMAIN dcVersions' = 1..n /\ dcVersions'[n] = f /\ \A k \in 1..VersionCount : dcVersions'[k] = dcVersions[k]
  BY <1>1, <1>2 DEF WithVersion
<1>4. VersionCount' = n
  BY <1>2, <1>3, DcInterval DEF VersionCount
<1>5. \A k \in 1..n : dcVersions'[k] \in 1..dcFiles
  BY <1>1, <1>2, <1>3 DEF DcInv, VersionsNumbered
<1>6. VersionsNumbered'
  <2>1. n \in 0..dcFiles /\ dcFiles > 0 /\ n # 0
    BY <1>1
  <2> QED BY <1>3, <1>4, <1>5, <2>1 DEF VersionsNumbered
<1>7. /\ dcReq' \in [DocReq -> DcRequests] /\ dcReq'[r].op = "idle"
      /\ \A s \in DocReq : s # r => dcReq'[s] = dcReq[s]
  BY DcFinish
<1>8. DcTyped'
  BY <1>7 DEF DcInv, DcTyped
<1>9. NumbersRead'
  <2> SUFFICES ASSUME NEW s \in DocReq, s # r
               PROVE  /\ dcReq[s].op = "version" => /\ dcReq[s].number \in 1..dcFiles /\ dcReq[s].file \in 1..dcFiles
                                                    /\ dcReq[s].number <= n + 1
                      /\ dcReq[s].op = "attach" => dcReq[s].file = 1 /\ dcFiles > 0
    BY <1>4, <1>7 DEF NumbersRead
  <2>1. dcDoc.there
    BY DEF MayInsert
  <2> QED BY <1>1, <1>2, <2>1 DEF DcInv, NumbersRead
<1> QED BY <1>6, <1>8, <1>9 DEF DcInv

\* The uploads of versions.
LEMMA DcVersionStep ==
  ASSUME DcInv, NEW r \in DocReq, attachVersion(r) \/ attachDies(r) \/ addVersion(r) \/ writeVersion(r)
  PROVE  DcInv'
<1>0. dcReq[r] \in DcRequests /\ dcDoc \in DcRows /\ MaxFiles \in Nat /\ dcFiles \in 0..MaxFiles
  BY DocumentsAssumption DEF DcInv, DcTyped
<1>1. CASE /\ Finish(r) /\ dcVersions' = dcVersions /\ dcDoc' = dcDoc /\ dcJob' = dcJob /\ dcFiles' = dcFiles
  BY <1>1, DcFinish, DcKept DEF DcInv, DcTyped
<1>2. CASE attachVersion(r) /\ MayInsert(1)
  <2>1. dcVersions' = WithVersion(1, dcReq[r].file) /\ Finish(r) /\ dcDoc' = dcDoc /\ dcJob' = dcJob /\ dcFiles' = dcFiles
    BY <1>2 DEF attachVersion
  <2>2. dcReq[r].file = 1 /\ 1 \in 1..dcFiles
    BY <1>0, <1>2 DEF attachVersion, DcInv, NumbersRead
  <2>3. dcDoc.there /\ 1 \notin DOMAIN dcVersions
    BY <1>2 DEF MayInsert
  <2>4. VersionCount = 0
    BY <2>3 DEF DcInv, VersionsNumbered
  <2>5. dcDoc'.file = 1 /\ dcDoc'.there = TRUE /\ dcDoc' \in DcRows
    BY <1>0, <2>1, <2>3, <2>4 DEF DcInv, VersionsNumbered, DcRows
  <2>6. 1 <= VersionCount + 1
    BY <2>4
  <2>7. dcVersions' = WithVersion(1, 1)
    BY <2>1, <2>2
  <2> QED BY <1>2, <2>1, <2>2, <2>5, <2>6, <2>7, DcInsert
<1>3. CASE writeVersion(r) /\ MayInsert(dcReq[r].number)
  <2>1. /\ dcVersions' = WithVersion(dcReq[r].number, dcReq[r].file) /\ Finish(r) /\ dcJob' = dcJob
        /\ dcFiles' = dcFiles /\ dcDoc' = [dcDoc EXCEPT !.file = dcReq[r].file]
    BY <1>3 DEF writeVersion
  <2>2. dcDoc.there /\ dcReq[r].op = "version"
    BY <1>3 DEF MayInsert, writeVersion
  <2>3. /\ dcReq[r].number \in 1..dcFiles /\ dcReq[r].file \in 1..dcFiles
        /\ dcReq[r].number <= VersionCount + 1
    BY <2>2 DEF DcInv, NumbersRead
  <2>4. dcReq[r].file \in 0..MaxFiles
    BY <1>0, <2>3
  <2>5. dcDoc' \in DcRows /\ dcDoc'.there = TRUE /\ dcDoc'.file = dcReq[r].file
    BY <1>0, <2>1, <2>2, <2>4 DEF DcRows
  <2> QED BY <1>3, <2>1, <2>3, <2>5, DcInsert
<1>4. CASE addVersion(r)
  <2> DEFINE new == [op |-> "version", number |-> VersionCount + 1, trail |-> <<>>, file |-> dcFiles + 1]
  <2>1. /\ dcReq' = [dcReq EXCEPT ![r] = new] /\ dcFiles' = dcFiles + 1 /\ dcDoc' = dcDoc
        /\ dcVersions' = dcVersions /\ dcJob' = dcJob /\ dcFiles < MaxFiles /\ dcDoc.there
    BY <1>4 DEF addVersion, VersionCount
  <2>2. VersionCount \in 0..dcFiles /\ VersionCount' = VersionCount
    BY <2>1 DEF DcInv, VersionsNumbered, VersionCount
  <2>3. VersionCount + 1 \in 1..(dcFiles + 1) /\ dcFiles + 1 \in 1..(dcFiles + 1) /\ dcFiles + 1 \in 0..MaxFiles
    BY <1>0, <2>1, <2>2
  <2>4. new \in DcRequests /\ new.op = "version" /\ new.file = dcFiles + 1 /\ new.number = VersionCount + 1
    <3>1. VersionCount + 1 \in Nat /\ dcFiles + 1 \in Nat
      BY <1>0, <2>2
    <3> QED BY <3>1 DEF DcRequests
  <2> HIDE DEF new
  <2>5. dcReq' \in [DocReq -> DcRequests] /\ \A s \in DocReq : dcReq'[s] = IF s = r THEN new ELSE dcReq[s]
    BY <2>1, <2>4 DEF DcInv, DcTyped
  <2>6. DcTyped'
    BY <2>1, <2>3, <2>5 DEF DcInv, DcTyped
  <2>7. 0..dcFiles \subseteq 0..(dcFiles + 1) /\ 1..dcFiles \subseteq 1..(dcFiles + 1) /\ dcFiles + 1 > 0
    BY <1>0
  <2>8. VersionsNumbered'
    BY <2>1, <2>2, <2>7 DEF DcInv, VersionsNumbered
  <2>9. NumbersRead'
    <3>1. \A s \in DocReq : s # r => /\ dcReq[s].op = "version" => /\ dcReq[s].number \in 1..(dcFiles + 1)
                                                                   /\ dcReq[s].file \in 1..(dcFiles + 1)
                                                                   /\ dcReq[s].number <= VersionCount + 1
                                     /\ dcReq[s].op = "attach" => dcReq[s].file = 1
      BY <2>1, <2>7 DEF DcInv, NumbersRead
    <3>2. VersionCount + 1 <= VersionCount + 1
      BY <1>0, <2>2
    <3> QED BY <2>1, <2>2, <2>3, <2>4, <2>5, <2>7, <3>1, <3>2 DEF NumbersRead
  <2> QED BY <2>6, <2>8, <2>9 DEF DcInv
<1> QED BY <1>1, <1>2, <1>3, <1>4 DEF attachVersion, attachDies, writeVersion

\* The signature.
LEMMA DcSignStep ==
  ASSUME DcInv, NEW r \in DocReq, SignatureInv, signDocument(r) \/ \E s \in Signers : writeSignature(r, s)
  PROVE  DcInv'
<1>0. dcReq[r] \in DcRequests /\ dcDoc \in DcRows
  BY DEF DcInv, DcTyped
<1>1. CASE signDocument(r)
  <2> DEFINE new == [Idle EXCEPT !.op = "sign", !.trail = dcDoc.trail]
  <2>1. dcDoc.trail = <<>>
    BY <1>1 DEF signDocument, SignatureInv, OneSignature
  <2>2. new \in DcRequests /\ new.op = "sign"
    BY <2>1 DEF Idle, DcRequests
  <2>3. /\ dcReq' = [dcReq EXCEPT ![r] = new] /\ dcDoc' = dcDoc /\ dcVersions' = dcVersions
        /\ dcJob' = dcJob /\ dcFiles' = dcFiles
    BY <1>1 DEF signDocument
  <2> HIDE DEF new
  <2>4. dcReq' \in [DocReq -> DcRequests] /\ \A s \in DocReq : dcReq'[s] = IF s = r THEN new ELSE dcReq[s]
    BY <2>2, <2>3 DEF DcInv, DcTyped
  <2>5. DcTyped'
    BY <2>3, <2>4 DEF DcInv, DcTyped
  <2> QED BY <2>2, <2>3, <2>4, <2>5, DcKept
<1>2. ASSUME NEW s \in Signers, writeSignature(r, s) PROVE DcInv'
  <2>1. Append(dcReq[r].trail, s) = <<s>>
    <3>1. dcReq[r].trail = <<>>
      BY <1>0 DEF DcRequests
    <3> QED BY <3>1
  <2>2. /\ Finish(r) /\ dcVersions' = dcVersions /\ dcJob' = dcJob /\ dcFiles' = dcFiles
        /\ dcDoc' = dcDoc \/ dcDoc' = [dcDoc EXCEPT !.signedBy = s, !.trail = <<s>>]
    BY <1>2, <2>1 DEF writeSignature
  <2>3. dcDoc' \in DcRows /\ dcDoc'.there = dcDoc.there /\ dcDoc'.file = dcDoc.file
    <3>1. CASE dcDoc' = dcDoc
      BY <1>0, <3>1
    <3>2. CASE dcDoc' = [dcDoc EXCEPT !.signedBy = s, !.trail = <<s>>]
      <4>1. s \in Signers \cup {"none"} /\ <<s>> \in {<<>>} \cup {<<x>> : x \in Signers}
        OBVIOUS
      <4> QED BY <1>0, <3>2, <4>1 DEF DcRows
    <3> QED BY <2>2, <3>1, <3>2
  <2>4. DcTyped'
    BY <2>2, <2>3, DcFinish DEF DcInv, DcTyped
  <2> QED BY <2>2, <2>3, <2>4, DcFinish, DcKept
<1> QED BY <1>1, <1>2

\* Owners, the nightly job and time.
LEMMA DcOtherStep ==
  ASSUME DcInv,
         \/ \E age \in Ages, flagged \in BOOLEAN : updateDocument(age, flagged)
         \/ removeDocument \/ removeFromTransaction \/ deleteExpired
         \/ markExpiredDocuments \/ archiveDocuments \/ daysPass
  PROVE  DcInv'
<1>0. dcDoc \in DcRows
  BY DEF DcInv, DcTyped
<1>1. dcReq' = dcReq /\ dcFiles' = dcFiles /\ dcJob' \in {"idle", "archive"}
  BY DEF updateDocument, removeDocument, removeFromTransaction, deleteExpired, Delete, markExpiredDocuments,
         archiveDocuments, daysPass, DcInv, DcTyped
<1>2. CASE Delete
  <2>1. dcDoc' \in DcRows /\ dcDoc'.there = FALSE
    BY <1>0, <1>2 DEF Delete, DcRows
  <2>2. DOMAIN dcVersions' = 1..0 /\ VersionCount' = 0
    <3>1. DOMAIN dcVersions' = 1..0
      BY <1>2 DEF Delete
    <3> QED BY <3>1, DcInterval DEF VersionCount
  <2>3. 0 \in 0..dcFiles
    BY DocumentsAssumption DEF DcInv, DcTyped
  <2>4. VersionsNumbered'
    BY <1>1, <2>1, <2>2, <2>3 DEF VersionsNumbered
  <2>5. NumbersRead'
    BY <1>1, <2>1 DEF DcInv, NumbersRead
  <2>6. DcTyped'
    BY <1>1, <2>1 DEF DcInv, DcTyped
  <2> QED BY <2>4, <2>5, <2>6 DEF DcInv
<1>3. CASE /\ dcVersions' = dcVersions
           /\ dcDoc' \in DcRows /\ dcDoc'.there = dcDoc.there /\ dcDoc'.file = dcDoc.file
  <2>1. DcTyped'
    BY <1>1, <1>3 DEF DcInv, DcTyped
  <2> QED BY <1>1, <1>3, <2>1, DcKept
<1>4. ASSUME NEW age \in Ages, NEW flagged \in BOOLEAN, updateDocument(age, flagged) PROVE DcInv'
  <2>1. dcDoc' \in DcRows /\ dcDoc'.there = dcDoc.there /\ dcDoc'.file = dcDoc.file /\ dcVersions' = dcVersions
    BY <1>0, <1>4 DEF updateDocument, DcRows
  <2> QED BY <1>3, <2>1
<1>5. CASE markExpiredDocuments
  <2>1. dcDoc' \in DcRows /\ dcDoc'.there = dcDoc.there /\ dcDoc'.file = dcDoc.file /\ dcVersions' = dcVersions
    BY <1>0, <1>5 DEF markExpiredDocuments, DcRows
  <2> QED BY <1>3, <2>1
<1>6. CASE archiveDocuments
  <2>1. dcDoc' \in DcRows /\ dcDoc'.there = dcDoc.there /\ dcDoc'.file = dcDoc.file /\ dcVersions' = dcVersions
    BY <1>0, <1>6 DEF archiveDocuments, DcRows
  <2> QED BY <1>3, <2>1
<1>7. CASE daysPass
  <2>1. dcDoc' \in DcRows /\ dcDoc'.there = dcDoc.there /\ dcDoc'.file = dcDoc.file /\ dcVersions' = dcVersions
    BY <1>0, <1>7 DEF daysPass, DcRows, Ages
  <2> QED BY <1>3, <2>1
<1> QED BY <1>2, <1>4, <1>5, <1>6, <1>7 DEF removeDocument, removeFromTransaction, deleteExpired

\* Every step keeps the invariant, given that of the signature.
LEMMA DcNextInv == DcInv /\ SignatureInv /\ [DcNext]_dcVars => DcInv'
<1> SUFFICES ASSUME DcInv, SignatureInv, [DcNext]_dcVars PROVE DcInv'
  OBVIOUS
<1>1. CASE DcNext
  BY <1>1, DcCreateStep, DcVersionStep, DcSignStep, DcOtherStep DEF DcNext
<1>2. CASE UNCHANGED dcVars
  BY <1>2 DEF dcVars, DcInv, DcTyped, VersionsNumbered, NumbersRead, VersionCount
<1> QED BY <1>1, <1>2

\* A signed trail is one signer long, which is no longer than the requests are many.
LEMMA DcTypesHold ==
  ASSUME DcInv
  PROVE  DcTypeOK
<1> DEFINE Trails == UNION {[1..n -> Signers] : n \in 0..Cardinality(DocReq)}
<1>1. Cardinality(DocReq) \in Nat /\ Cardinality(DocReq) # 0
  BY DocumentsAssumption, FS_CardinalityType, FS_EmptySet
<1>2. 0 \in 0..Cardinality(DocReq) /\ 1 \in 0..Cardinality(DocReq)
  BY <1>1
<1>3. <<>> \in Trails
  <2>1. <<>> \in [1..0 -> Signers]
    OBVIOUS
  <2> QED BY <1>2, <2>1
<1>4. ASSUME NEW s \in Signers PROVE <<s>> \in Trails
  <2>1. <<s>> \in [1..1 -> Signers]
    OBVIOUS
  <2> QED BY <1>2, <2>1
<1>5. dcDoc.trail \in Trails
  BY <1>3, <1>4 DEF DcInv, DcTyped, DcRows
<1> HIDE DEF Trails
<1>6. dcDoc \in [there : BOOLEAN, status : {"ACTIVE", "EXPIRED", "ARCHIVED"}, flagged : BOOLEAN,
                 age : Ages, signedBy : Signers \cup {"none"}, trail : Trails, file : 0..MaxFiles]
  BY <1>5 DEF DcInv, DcTyped, DcRows
<1>7. dcFiles \in 0..MaxFiles /\ MaxFiles \in Nat
  BY DocumentsAssumption DEF DcInv, DcTyped
<1>8. VersionCount \in 0..dcFiles /\ DOMAIN dcVersions = 1..VersionCount
  BY DEF DcInv, VersionsNumbered
<1>9. DOMAIN dcVersions \subseteq 1..MaxFiles /\ 1..dcFiles \subseteq 1..MaxFiles
  BY <1>7, <1>8
<1>10. \A n \in DOMAIN dcVersions : dcVersions[n] \in 1..MaxFiles
  BY <1>8, <1>9 DEF DcInv, VersionsNumbered
<1>11. \A r \in DocReq : dcReq[r].op \in {"idle", "attach", "sign", "version"}
  BY DEF DcInv, DcTyped, DcRequests
<1> QED BY <1>6, <1>9, <1>10, <1>11 DEF DcTypeOK, DcInv, DcTyped, Trails

\* transaction-documents.service.ts: the versions are numbered without a gap and the
\* document shows the last one, for any number of overlapping uploads.
THEOREM VersionsSafe == DcSpec => [](DcTypeOK /\ LatestVersionShown)
<1>1. DcInv => LatestVersionShown
  <2> SUFFICES ASSUME DcInv, dcDoc.there, VersionCount > 0
               PROVE  DOMAIN dcVersions = 1..VersionCount /\ dcDoc.file = dcVersions[VersionCount]
    BY DEF LatestVersionShown, VersionCount
  <2>1. VersionCount # 0
    BY DEF DcInv, VersionsNumbered
  <2> QED BY <2>1 DEF DcInv, VersionsNumbered
<1> QED BY <1>1, DcTypesHold, SignatureInvariant, DcInitInv, DcNextInv, PTL DEF DcSpec

-----------------------------------------------------------------------------
(* The composition.  Every step of a listing's behaviour is a step of one   *)
(* module and leaves the variables of the others alone, so what each module *)
(* promises by itself it promises beside the others.                        *)
allVars == <<part, vars, lsVw, edPh, pgIm, dcVars>>

\* A behaviour of the composition is one of LsSpec.
LEMMA ListingsPart == ListingsSpec => LsSpec
<1>1. ListingsInit => LsInit
  BY DEF ListingsInit
<1>2. [ListingsNext]_allVars => [LsNext]_lsVars
  BY DEF ListingsNext, allVars, lsVw, edPh, pgIm
<1> QED BY <1>1, <1>2, PTL DEF ListingsSpec, LsSpec, allVars

\* A behaviour of the composition is one of VwSpec.
LEMMA CachePart == ListingsSpec => VwSpec
<1>1. ListingsInit => VwInit
  BY DEF ListingsInit
<1>2. [ListingsNext]_allVars => [VwNext]_vwVars
  BY DEF ListingsNext, allVars, lsVw, edPh, pgIm
<1> QED BY <1>1, <1>2, PTL DEF ListingsSpec, VwSpec, allVars

\* A behaviour of the composition is one of EdSpec.
LEMMA EditsPart == ListingsSpec => EdSpec
<1>1. ListingsInit => EdInit
  BY DEF ListingsInit
<1>2. [ListingsNext]_allVars => [EdNext]_edVars
  BY DEF ListingsNext, allVars, lsVw, edPh, pgIm
<1> QED BY <1>1, <1>2, PTL DEF ListingsSpec, EdSpec, allVars

\* A behaviour of the composition is one of PhSpec.
LEMMA PricesPart == ListingsSpec => PhSpec
<1>1. ListingsInit => PhInit
  BY DEF ListingsInit
<1>2. [ListingsNext]_allVars => [PhNext]_phVars
  BY DEF ListingsNext, allVars, lsVw, edPh, pgIm
<1> QED BY <1>1, <1>2, PTL DEF ListingsSpec, PhSpec, allVars

\* A behaviour of the composition is one of PgSpec.
LEMMA PagingPart == ListingsSpec => PgSpec
<1>1. ListingsInit => PgInit
  BY DEF ListingsInit
<1>2. [ListingsNext]_allVars => [PgNext]_pgVars
  BY DEF ListingsNext, allVars, lsVw, edPh, pgIm
<1> QED BY <1>1, <1>2, PTL DEF ListingsSpec, PgSpec, allVars

\* A behaviour of the composition is one of ImSpec.
LEMMA ImagesPart == ListingsSpec => ImSpec
<1>1. ListingsInit => ImInit
  BY DEF ListingsInit
<1>2. [ListingsNext]_allVars => [ImNext]_imVars
  BY DEF ListingsNext, allVars, lsVw, edPh, pgIm
<1> QED BY <1>1, <1>2, PTL DEF ListingsSpec, ImSpec, allVars

\* A behaviour of the composition is one of DcSpec.
LEMMA DocumentsPart == ListingsSpec => DcSpec
<1>1. ListingsInit => DcInit
  BY DEF ListingsInit
<1>2. [ListingsNext]_allVars => [DcNext]_dcVars
  BY DEF ListingsNext, allVars, lsVw, edPh, pgIm
<1> QED BY <1>1, <1>2, PTL DEF ListingsSpec, DcSpec, allVars

\* The rows of listings, views, prices, images and documents, the progress of their
\* requests and of a walk through pages keep their types.
THEOREM ListingsTyped == ListingsSpec => []ListingsTypeOK
<1>1. /\ LsTypeOK /\ (VwTypeOK /\ OutdatedViewsExplained /\ CachedKeysTagged)
      /\ (EdTypeOK /\ AddressesDistinct /\ GeocodeBudgetKept) /\ (PhTypeOK /\ HistoryEndsAtPrice)
      /\ (PgTypeOK /\ PagesComplete /\ CursorWalksForward) /\ (ImTypeOK /\ OneCover /\ RowsHaveFiles)
      /\ (DcTypeOK /\ LatestVersionShown)
      => ListingsTypeOK
  BY DEF ListingsTypeOK
<1> QED BY <1>1, ListingsPart, CachePart, EditsPart, PricesPart, PagingPart, ImagesPart, DocumentsPart,
           ListingTyped, CacheExplained, EditsSafe, PricesSafe, WalksSafe, ImagesSafe, VersionsSafe, PTL

\* The cache of listings, for any overlapping reads, edits and instances: an outdated view
\* or a key that the next edit cannot find comes from one of the overlaps and errors that
\* CachedViewsExplained names.
THEOREM CachedViewsProved == ListingsSpec => []CachedViewsExplained
<1>1. VwTypeOK /\ OutdatedViewsExplained /\ CachedKeysTagged => CachedViewsExplained
  BY DEF CachedViewsExplained
<1> QED BY <1>1, CachePart, CacheExplained, PTL

\* What hangs on a listing agrees with it (PropertyRecordsAgree), for any number of
\* overlapping edits, price changes, uploads and signatures.
THEOREM PropertyRecordsProved == ListingsSpec => []PropertyRecordsAgree
<1>1. /\ (EdTypeOK /\ AddressesDistinct /\ GeocodeBudgetKept) /\ (PhTypeOK /\ HistoryEndsAtPrice)
      /\ (ImTypeOK /\ OneCover /\ RowsHaveFiles) /\ (DcTypeOK /\ LatestVersionShown) /\ OneSignature
      => PropertyRecordsAgree
  BY DEF PropertyRecordsAgree
<1> QED BY <1>1, EditsPart, PricesPart, ImagesPart, DocumentsPart, EditsSafe, PricesSafe, ImagesSafe,
           VersionsSafe, SignatureSafe, PTL

\* A walk through the pages of a list, for any table, page size and order of equal keys
\* (WalksComplete).
THEOREM WalksProved == ListingsSpec => []WalksComplete
<1>1. PgTypeOK /\ PagesComplete /\ CursorWalksForward => WalksComplete
  BY DEF WalksComplete
<1> QED BY <1>1, PagingPart, WalksSafe, PTL

\* Listings and documents beside the other modules implement the abstract workflow.
THEOREM WorkflowsProved == ListingsSpec => ListingFollowsWorkflow /\ DocumentFollowsWorkflow
  BY ListingsPart, DocumentsPart, ListingRefinement, DocumentRefinement

\* A behaviour of the composition is one of the Spec of Transactions.
LEMMA TransactionsPart == ListingsSpec => Spec
<1>1. ListingsInit => Init
  BY DEF ListingsInit
<1>2. [ListingsNext]_allVars => [Next]_vars
  BY DEF ListingsNext, allVars, lsVw, edPh, pgIm
<1> QED BY <1>1, <1>2, PTL DEF ListingsSpec, Spec, allVars

\* Transactions served one at a time and without errors, by the handlers that log their
\* changes: for any rows and requests, what is recorded about a row agrees with it whenever
\* none is in flight, and a status changes only along the allowed transitions.
THEOREM QuietProved ==
  ASSUME Serial, ~Faults, Ops \cap {"update", "verify", "cancel"} = {}
  PROVE  ListingsSpec => []QuietRecordsAgree /\ LifecycleEnforced
<1>1. CommissionsAgreeWhenQuiet /\ EveryChangeAudited => QuietRecordsAgree
  BY DEF QuietRecordsAgree
<1>2. "update" \notin Ops /\ "verify" \notin Ops /\ "cancel" \notin Ops
  OBVIOUS
<1>3. Spec => []CommissionsAgreeWhenQuiet
  BY <1>2, CommissionsQuiet
<1>4. Spec => []EveryChangeAudited
  BY AuditQuiet
<1>5. Spec => LifecycleEnforced
  BY <1>2, LifecycleSafe
<1> QED BY <1>1, <1>3, <1>4, <1>5, TransactionsPart, PTL
=============================================================================
