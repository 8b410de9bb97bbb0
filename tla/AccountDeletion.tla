-------------------------- MODULE AccountDeletion --------------------------
(***************************************************************************)
(* AccountDeletionService, the daily ScheduledDeletionService and          *)
(* UsersService.deactivate, for several users.  Each handler reads the     *)
(* user row, decides and updates it with separate queries, and several     *)
(* replicas run the job, so each query is an action.                       *)
(***************************************************************************)
EXTENDS Naturals, FiniteSets

CONSTANTS
    User,
    Linked,      \* users that transactions, disputes or notes refer to
    DeletionReq, \* requests that may overlap, of one user or of several
    Job,         \* runs of the job that overlap: replicas, the admin's trigger
    Ops,         \* operations of the run: subset of AllOps
    MaxRequests  \* bound on the deletions that one user asks for

AllOps == {"request", "cancel", "deactivate", "hold", "remove"}

ASSUME AccountDeletionAssumption ==
    /\ Linked \subseteq User
    /\ Ops \subseteq AllOps
    /\ MaxRequests \in Nat

VARIABLES
    exists, isDeactivated, legalHold,
    scheduled,   \* scheduledDeletionAt: "none", "future" or "past"
    audit,       \* actions in account_deletion_audit
    signedIn,    \* users with an access token that has not expired
    req,         \* what each request does next, and for which user
    job,         \* the runs of the job
    \* history: deletions asked for, users whose date has passed, users whose
    \* last request was cancelled with an answer, users the admin removed
    asked, passed, kept, removed

rows == <<exists, isDeactivated, legalHold, scheduled>>
history == <<asked, passed, kept, removed>>
vars == <<rows, audit, signedIn, req, job, history>>

Actions == {"REQUESTED", "CANCELLED", "PERFORMED", "LEGAL_HOLD_BLOCKED"}
IdleReq == [at |-> "idle", u |-> "none"]
IdleJob == [at |-> "idle", todo |-> {}, held |-> {}, u |-> "none"]

Init ==
    /\ exists = [u \in User |-> TRUE]
    /\ isDeactivated = [u \in User |-> FALSE]
    /\ legalHold = [u \in User |-> FALSE]
    /\ scheduled = [u \in User |-> "none"]
    /\ audit = [u \in User |-> {}]
    /\ signedIn = User
    /\ req = [r \in DeletionReq |-> IdleReq]
    /\ job = [j \in Job |-> IdleJob]
    /\ asked = [u \in User |-> 0]
    /\ passed = {} /\ kept = {} /\ removed = {}

-----------------------------------------------------------------------------
(* Requests of the user *)

\* JwtAuthGuard: the access token is valid and the row exists.
Authenticated(u) == u \in signedIn /\ exists[u]

\* verifyCredentials and refreshToken refuse deactivated accounts.
SignInAllowed(u) == exists[u] /\ ~isDeactivated[u]

login(u) ==
    /\ SignInAllowed(u)
    /\ u \notin signedIn
    /\ signedIn' = signedIn \cup {u}
    /\ UNCHANGED <<rows, audit, req, job, history>>

\* Mutated form: the action is left undefined.
recordAudit_Undefined(u, action) ==
    audit' = IF exists[u] THEN [audit EXCEPT ![u] = @ \cup {"undefined"}] ELSE audit

\* recordAudit: a foreign key refers to the row, and a failure is only logged.
recordAudit(u, action) ==
    audit' = IF exists[u] THEN [audit EXCEPT ![u] = @ \cup {action}] ELSE audit

\* Request r of user u goes from its step at to its step next; it ends.
Moves(r, u, at, next) ==
    /\ req[r] = [at |-> at, u |-> u]
    /\ req' = [req EXCEPT ![r] = [at |-> next, u |-> u]]
Ends(r, u, at) == req[r] = [at |-> at, u |-> u] /\ req' = [req EXCEPT ![r] = IdleReq]

RequestRead(r, u) ==
    /\ "request" \in Ops
    /\ Authenticated(u)
    /\ req[r] = IdleReq
    /\ asked[u] < MaxRequests
    /\ IF legalHold[u]
       THEN recordAudit(u, "LEGAL_HOLD_BLOCKED") /\ UNCHANGED <<req, asked>>
       ELSE /\ ~(isDeactivated[u] /\ scheduled[u] # "none")
            /\ req' = [req EXCEPT ![r] = [at |-> "request", u |-> u]]
            /\ asked' = [asked EXCEPT ![u] = @ + 1]
            /\ UNCHANGED audit
    /\ UNCHANGED <<rows, signedIn, job, passed, kept, removed>>

\* An update of a row that is gone throws.
requestDeletion(r, u) ==
    /\ IF exists[u]
       THEN /\ Moves(r, u, "request", "requested")
            /\ isDeactivated' = [isDeactivated EXCEPT ![u] = TRUE]
            /\ scheduled' = [scheduled EXCEPT ![u] = "future"]
            /\ kept' = kept \ {u}
       ELSE Ends(r, u, "request") /\ UNCHANGED <<isDeactivated, scheduled, kept>>
    /\ UNCHANGED <<exists, legalHold, audit, signedIn, job, asked, passed, removed>>

CancelRead(r, u) ==
    /\ "cancel" \in Ops
    /\ Authenticated(u)
    /\ req[r] = IdleReq
    /\ isDeactivated[u] /\ scheduled[u] = "future"
    /\ req' = [req EXCEPT ![r] = [at |-> "cancel", u |-> u]]
    /\ UNCHANGED <<rows, audit, signedIn, job, history>>

\* Mutated form: the date is left in the row.
cancelDeletion_KeepsDate(r, u) ==
    /\ IF exists[u]
       THEN /\ Moves(r, u, "cancel", "cancelled")
            /\ isDeactivated' = [isDeactivated EXCEPT ![u] = FALSE]
            /\ kept' = kept \cup {u}
       ELSE Ends(r, u, "cancel") /\ UNCHANGED <<isDeactivated, kept>>
    /\ UNCHANGED <<exists, legalHold, scheduled, audit, signedIn, job, asked, passed, removed>>

cancelDeletion(r, u) ==
    /\ IF exists[u]
       THEN /\ Moves(r, u, "cancel", "cancelled")
            /\ isDeactivated' = [isDeactivated EXCEPT ![u] = FALSE]
            /\ scheduled' = [scheduled EXCEPT ![u] = "none"]
            /\ kept' = kept \cup {u}
       ELSE Ends(r, u, "cancel") /\ UNCHANGED <<isDeactivated, scheduled, kept>>
    /\ UNCHANGED <<exists, legalHold, audit, signedIn, job, asked, passed, removed>>

\* The audit entry and the notice follow the update.
auditRequest(r, u) ==
    /\ \/ Ends(r, u, "requested") /\ recordAudit(u, "REQUESTED")
       \/ Ends(r, u, "cancelled") /\ recordAudit(u, "CANCELLED")
    /\ UNCHANGED <<rows, signedIn, job, history>>

DeactivateRead(r, u) ==
    /\ "deactivate" \in Ops
    /\ Authenticated(u)
    /\ req[r] = IdleReq
    /\ ~isDeactivated[u]
    /\ req' = [req EXCEPT ![r] = [at |-> "deactivate", u |-> u]]
    /\ UNCHANGED <<rows, audit, signedIn, job, history>>

\* scheduleDeletion in the body decides about the date.
deactivate(r, u) ==
    /\ IF exists[u]
       THEN /\ Moves(r, u, "deactivate", "revoke")
            /\ isDeactivated' = [isDeactivated EXCEPT ![u] = TRUE]
            /\ \E s \in {"none", "future"} : scheduled' = [scheduled EXCEPT ![u] = s]
            /\ kept' = kept \ {u}
       ELSE Ends(r, u, "deactivate") /\ UNCHANGED <<isDeactivated, scheduled, kept>>
    /\ UNCHANGED <<exists, legalHold, audit, signedIn, job, asked, passed, removed>>

\* revokeAllSessions follows the update.
endSessions(r, u) ==
    /\ Ends(r, u, "revoke") /\ signedIn' = signedIn \ {u}
    /\ UNCHANGED <<rows, audit, job, history>>

\* The steps of a request once it has read the row.
Handle(r) == \E u \in User : \/ requestDeletion(r, u) \/ cancelDeletion(r, u) \/ auditRequest(r, u)
                              \/ deactivate(r, u) \/ endSessions(r, u)

-----------------------------------------------------------------------------
(* performScheduledDeletion *)

\* Mutated form: the date itself is never compared with now.
Candidates_AnyDate == {u \in User : exists[u] /\ isDeactivated[u] /\ scheduled[u] # "none"}

\* Mutated form: the filter on isDeactivated is the one of the user lists.
Candidates_Active == {u \in User : exists[u] /\ ~isDeactivated[u] /\ scheduled[u] = "past"}

Candidates == {u \in User : exists[u] /\ isDeactivated[u] /\ scheduled[u] = "past"}

\* findMany reads the candidates with their legalHold.
JobRead(j) ==
    /\ job[j].at = "idle"
    /\ Candidates # {}
    /\ job' = [job EXCEPT ![j] = [at |-> "loop", todo |-> Candidates,
                                  held |-> {u \in Candidates : legalHold[u]}, u |-> "none"]]
    /\ UNCHANGED <<rows, audit, signedIn, req, history>>

JobHeld(j, u) ==
    /\ job[j].at = "loop"
    /\ u \in job[j].todo \cap job[j].held
    /\ job' = [job EXCEPT ![j].todo = @ \ {u}]
    /\ recordAudit(u, "LEGAL_HOLD_BLOCKED")
    /\ UNCHANGED <<rows, signedIn, req, history>>

\* user.delete fails for a row that is gone or that other rows refer to.
JobDelete(j, u) ==
    /\ job[j].at = "loop"
    /\ u \in job[j].todo \ job[j].held
    /\ IF exists[u] /\ u \notin Linked
       THEN /\ exists' = [exists EXCEPT ![u] = FALSE]
            /\ job' = [job EXCEPT ![j].todo = @ \ {u}, ![j].at = "audit", ![j].u = u]
       ELSE /\ job' = [job EXCEPT ![j].todo = @ \ {u}]
            /\ UNCHANGED exists
    /\ UNCHANGED <<isDeactivated, legalHold, scheduled, audit, signedIn, req, history>>

JobAudit(j) ==
    /\ job[j].at = "audit"
    /\ recordAudit(job[j].u, "PERFORMED")
    /\ job' = [job EXCEPT ![j] = [at |-> "loop", todo |-> @.todo, held |-> @.held, u |-> "none"]]
    /\ UNCHANGED <<rows, signedIn, req, history>>

JobEnd(j) ==
    /\ job[j].at = "loop" /\ job[j].todo = {}
    /\ job' = [job EXCEPT ![j] = IdleJob]
    /\ UNCHANGED <<rows, audit, signedIn, req, history>>

-----------------------------------------------------------------------------
(* Time and the operator *)

RetentionEnds(u) ==
    /\ scheduled[u] = "future"
    /\ scheduled' = [scheduled EXCEPT ![u] = "past"]
    /\ passed' = passed \cup {u}
    /\ UNCHANGED <<exists, isDeactivated, legalHold, audit, signedIn, req, job,
                   asked, kept, removed>>

TokenExpires(u) ==
    /\ u \in signedIn
    /\ signedIn' = signedIn \ {u}
    /\ UNCHANGED <<rows, audit, req, job, history>>

\* legal_hold is set in the database: no code of the service writes it.
SetLegalHold(u) ==
    /\ "hold" \in Ops
    /\ exists[u]
    /\ legalHold' = [legalHold EXCEPT ![u] = ~@]
    /\ UNCHANGED <<exists, isDeactivated, scheduled, audit, signedIn, req, job, history>>

\* UsersService.remove: an administrator deletes the row at once.
remove(u) ==
    /\ "remove" \in Ops
    /\ exists[u] /\ u \notin Linked
    /\ exists' = [exists EXCEPT ![u] = FALSE]
    /\ removed' = removed \cup {u}
    /\ UNCHANGED <<isDeactivated, legalHold, scheduled, audit, signedIn, req, job,
                   asked, passed, kept>>

RunJob(j) == JobRead(j) \/ JobAudit(j) \/ JobEnd(j)
                 \/ \E u \in User : JobHeld(j, u) \/ JobDelete(j, u)

Next ==
    \/ \E u \in User :
         \/ login(u) \/ TokenExpires(u) \/ RetentionEnds(u) \/ SetLegalHold(u) \/ remove(u)
         \/ \E r \in DeletionReq : RequestRead(r, u) \/ CancelRead(r, u) \/ DeactivateRead(r, u)
    \/ \E r \in DeletionReq : Handle(r)
    \/ \E j \in Job : RunJob(j)

Spec == Init /\ [][Next]_vars

\* Dates pass, the job runs every day, and a handler that has read the row is
\* driven on by the event loop.
FairSpec ==
    /\ Spec
    /\ \A u \in User : WF_vars(RetentionEnds(u)) /\ WF_vars(TokenExpires(u))
    /\ \A r \in DeletionReq : WF_vars(Handle(r))
    /\ \A j \in Job : SF_vars(RunJob(j))

-----------------------------------------------------------------------------
(* Properties *)

\* Type invariant of the rows, the requests and the runs of the job.
TypeOK ==
    /\ exists \in [User -> BOOLEAN]
    /\ isDeactivated \in [User -> BOOLEAN]
    /\ legalHold \in [User -> BOOLEAN]
    /\ scheduled \in [User -> {"none", "future", "past"}]
    /\ audit \in [User -> SUBSET Actions]
    /\ signedIn \in SUBSET User
    /\ req \in [DeletionReq -> [at : {"idle", "request", "requested", "cancel", "cancelled",
                                   "deactivate", "revoke"}, u : User \cup {"none"}]]
    /\ job \in [Job -> [at : {"idle", "loop", "audit"}, todo : SUBSET User,
                        held : SUBSET User, u : User \cup {"none"}]]
    /\ asked \in [User -> Nat]
    /\ passed \in SUBSET User
    /\ kept \in SUBSET User /\ removed \in SUBSET User

\* performScheduledDeletion: however stale the candidates are, a user whom no
\* administrator removed is only removed after a retention period has run out.
NeverDeletedEarly == \A u \in User : ~exists[u] /\ u \notin removed => u \in passed

\* requestDeletion, cancelDeletion and deactivate write both columns: an
\* account that is not deactivated has no date at which it is removed, however the
\* updates of requests that have read one row land.
DateNeedsDeactivation == \A u \in User : scheduled[u] # "none" => isDeactivated[u]

\* A requested deletion comes to an end: the user is removed, or the date is
\* withdrawn, or a legal hold stands in the way.
DeletionHappens ==
    \A u \in User : (scheduled[u] # "none")
                        ~> (~exists[u] \/ scheduled[u] = "none" \/ legalHold[u])

\* AccountDeletionService: a pending request can be cancelled before retention
\* runs out, so a user whose cancellation was answered is not removed.
CancelledIsKept == \A u \in kept : exists[u]

=============================================================================
