------------------------------- MODULE Users --------------------------------
(* One user's role and activation, with the sessions that carry the role:   *)
(* administrators change the role, the user deactivates the account, logins *)
(* read the row and store their session later.                              *)
EXTENDS Integers, FiniteSets

CONSTANTS UserReq,   \* requests that may overlap
          UserRoles  \* values of UserRole

ASSUME UsersAssumption == IsFiniteSet(UserReq) /\ IsFiniteSet(UserRoles) /\ UserRoles # {}

VARIABLES person,   \* the row: role, isBlocked, isDeactivated, reactivationToken
          carried,  \* roles in the access tokens of the live sessions
          audited,  \* the role the last ROLE_CHANGE entry says the user has
          usReq,    \* what each request has read, and what it does next
          usRaced   \* history: a step relied on a read that was out of date, an
                    \* audit entry failed, or PUT /users/:id set the role

usVars == <<person, carried, audited, usReq, usRaced>>

UsIdle == [op |-> "idle", seen |-> CHOOSE x \in UserRoles : TRUE,
           new |-> CHOOSE x \in UserRoles : TRUE, stale |-> FALSE]
UsOps == {"idle", "session", "write", "audit", "revoke", "deactivate", "token", "expired"}

UsTypeOK ==
    /\ person \in [role : UserRoles, blocked : BOOLEAN, active : BOOLEAN,
                   token : {"none", "live", "expired"}]
    /\ carried \subseteq UserRoles /\ audited \in UserRoles /\ usRaced \in BOOLEAN
    /\ usReq \in [UserReq -> [op : UsOps, seen : UserRoles, new : UserRoles, stale : BOOLEAN]]

\* users.create: a verified user of some role, without a session yet
UsInit == /\ person \in {[role |-> x, blocked |-> FALSE, active |-> TRUE, token |-> "none"] : x \in UserRoles}
          /\ carried = {} /\ audited = person.role
          /\ usReq = [r \in UserReq |-> UsIdle] /\ usRaced = FALSE

Begin(r, op, new) ==
    /\ usReq[r].op = "idle"
    /\ usReq' = [usReq EXCEPT ![r] = [op |-> op, seen |-> person.role, new |-> new, stale |-> FALSE]]
    /\ UNCHANGED <<person, carried, audited, usRaced>>

\* a write of the row; whoever has read it before is out of date
Store(r, row, next) ==
    /\ person' = row
    /\ usRaced' = (usRaced \/ usReq[r].stale)
    /\ usReq' = [s \in UserReq |-> IF s = r THEN [usReq[r] EXCEPT !.op = next]
                                   ELSE IF usReq[s].op \in {"idle", "revoke"} THEN usReq[s]
                                   ELSE [usReq[s] EXCEPT !.stale = TRUE]]

End(r) == usReq' = [usReq EXCEPT ![r] = UsIdle]

\* login, or a refresh: the row is read again at the end, then the session stored
loginRead(r) == ~person.blocked /\ person.active /\ Begin(r, "session", person.role)
issueSession(r) == /\ usReq[r].op = "session" /\ carried' = carried \union {usReq[r].seen}
                   /\ usRaced' = (usRaced \/ usReq[r].stale) /\ End(r) /\ UNCHANGED <<person, audited>>

writeUser_NoAudit(r) ==
    /\ usReq[r].op = "write" /\ UNCHANGED <<carried, audited>>
    /\ Store(r, [person EXCEPT !.role = usReq[r].new], "revoke")

\* AdminService.updateUser: the old role is read, the row written, the change
\* of role audited, then every session revoked
updateUser(r) == \E x \in UserRoles : Begin(r, "write", x)
writeUser(r) ==
    /\ usReq[r].op = "write" /\ UNCHANGED <<carried, audited>>
    /\ Store(r, [person EXCEPT !.role = usReq[r].new],
             IF usReq[r].new # usReq[r].seen THEN "audit" ELSE "idle")

\* the entry may fail, which is only logged; it is late if the role has moved on
auditRole(r) ==
    /\ usReq[r].op = "audit" /\ usReq' = [usReq EXCEPT ![r].op = "revoke"]
    /\ \/ audited' = usReq[r].new /\ usRaced' = (usRaced \/ usReq[r].stale)
       \/ UNCHANGED audited /\ usRaced' = TRUE
    /\ UNCHANGED <<person, carried>>

revokeAllSessions_None(r) == /\ usReq[r].op = "revoke" /\ UNCHANGED carried
                             /\ End(r) /\ UNCHANGED <<person, audited, usRaced>>

revokeAllSessions(r) == /\ usReq[r].op = "revoke" /\ carried' = {}
                        /\ End(r) /\ UNCHANGED <<person, audited, usRaced>>

\* PUT /users/:id writes whatever the body has, the role included, and does no more
update == /\ \E x \in UserRoles : person' = [person EXCEPT !.role = x]
          /\ usRaced' = TRUE /\ UNCHANGED <<carried, audited, usReq>>

\* block, unblock, setUserBlockedState: the sessions are left alone
setUserBlockedState(r) == /\ usReq[r].op = "idle" /\ Store(r, [person EXCEPT !.blocked = ~@], "idle")
                          /\ UNCHANGED <<carried, audited>>

\* deactivate, by the user or an administrator
Deactivates(r) == person.active /\ Begin(r, "deactivate", person.role)
commitDeactivate(r) == /\ usReq[r].op = "deactivate" /\ UNCHANGED <<carried, audited>>
                       /\ Store(r, [person EXCEPT !.active = FALSE], "revoke")

\* requestReactivation stores a token of which nobody is told the plain text ...
requestReactivation(r) == ~person.active /\ Begin(r, "token", person.role)
storeToken(r) == /\ usReq[r].op = "token" /\ UNCHANGED <<carried, audited>>
                 /\ Store(r, [person EXCEPT !.token = "live"], "idle")
TokenTimeout == /\ person.token = "live" /\ person' = [person EXCEPT !.token = "expired"]
                /\ UNCHANGED <<carried, audited, usReq, usRaced>>

\* ... so all that reactivate can do is clear an expired one and refuse
reactivate(r) == ~person.active /\ person.token = "expired" /\ Begin(r, "expired", person.role)
clearReactivation(r) == /\ usReq[r].op = "expired" /\ UNCHANGED <<carried, audited>>
                        /\ Store(r, [person EXCEPT !.token = "none"], "idle")

\* cancelDeletion gives the account back
CancelsDeletion(r) == /\ ~person.active /\ usReq[r].op = "idle" /\ UNCHANGED <<carried, audited>>
                     /\ Store(r, [person EXCEPT !.active = TRUE], "idle")

UsStep(r) == \/ loginRead(r) \/ issueSession(r) \/ updateUser(r) \/ writeUser(r) \/ auditRole(r)
             \/ revokeAllSessions(r) \/ setUserBlockedState(r) \/ Deactivates(r) \/ commitDeactivate(r)
             \/ requestReactivation(r) \/ storeToken(r) \/ reactivate(r) \/ clearReactivation(r)
             \/ CancelsDeletion(r)

UsNext == (\E r \in UserReq : UsStep(r)) \/ update \/ TokenTimeout

UsSpec == UsInit /\ [][UsNext]_usVars

-----------------------------------------------------------------------------
(* Once the requests are done no session carries a role the user no longer  *)
(* has, and a deactivated account has no session: only a request that acted *)
(* on an outdated read of the row, or the plain update of a user, can leave *)
(* one behind (admin.service.ts:157-205, users.service.ts:551-593).         *)
SessionsMatchUser ==
    (~usRaced /\ \A r \in UserReq : usReq[r].op # "revoke" /\ usReq[r].op # "audit")
        => carried \subseteq {person.role} /\ (~person.active => carried = {})

(* The audit trail ends with the role in force, unless an entry failed or   *)
(* changes overlapped (admin.service.ts:183-202).                           *)
AuditEndsWithRole ==
    (~usRaced /\ \A r \in UserReq : usReq[r].op # "audit") => audited = person.role
=============================================================================
