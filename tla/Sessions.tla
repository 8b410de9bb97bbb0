------------------------------ MODULE Sessions ------------------------------
(***************************************************************************)
(* The token pairs of one user: AuthService (login, refresh, logout),      *)
(* SessionsService (the session rows, their limit and their revocation)    *)
(* and the daily CleanupService.  Users share no rows, so one is enough.   *)
(*                                                                         *)
(* A token pair is an access and a refresh token issued together, with one *)
(* session row.  A token is refused when it has expired or when it has a   *)
(* row in blacklisted_tokens.  No handler holds a lock or a transaction    *)
(* across its queries, so every query is an action of its own.             *)
(***************************************************************************)
EXTENDS Naturals, FiniteSets

CONSTANTS
    Pair,          \* token pairs
    Request,       \* requests in flight at a time
    MAX_SESSIONS,  \* MAX_CONCURRENT_SESSIONS
    Scenarios      \* sets of operations; a behaviour uses those of one of them

AllOps == {"login", "google", "refresh", "logout", "logoutAll", "revoke",
           "revokeAll", "deactivate", "delete", "admin", "time", "cleanup"}

ASSUME SessionsAssumption ==
    /\ IsFiniteSet(Pair) /\ IsFiniteSet(Request)
    /\ MAX_SESSIONS \in Nat \ {0}
    /\ Scenarios \subseteq SUBSET AllOps

VARIABLES
    ops,          \* the scenario of this behaviour
    session,      \* the row of a pair: "none", "active", "revoked" or "deleted"
    age,          \* 0, 1: the access token has expired, 2: all of it has
    black,        \* blacklisted_tokens: 0, or the age at which the row expires
    isBlocked, isDeactivated,
    alerts,       \* pairs with an open TOKEN_REUSE alert
    req,          \* requests in flight
    \* history: tokens that were given up, pairs a finished revokeAllSessions
    \* had to end, sessions revoked with their tokens left, refresh tokens
    \* whose rotation gave no new pair
    out, ended, bare, lost

user == <<isBlocked, isDeactivated, alerts>>
history == <<out, ended, bare, lost>>
vars == <<ops, session, age, black, user, req, history>>

NoPair == "noPair"
Kind == {"access", "refresh"}
Token == Kind \X Pair

\* The age at which a token's exp passes.
exp(t) == IF t[1] = "access" THEN 1 ELSE 2

Steps == {"idle", "recheck", "count", "create", "lookup", "reuse", "fraud", "user",
          "blacklist", "outAccess", "outRefresh", "list", "blackAll", "update",
          "revoke"}
RequestRecord == [at : Steps, p : Pair \cup {NoPair}, all : BOOLEAN,
                  from : Pair \cup {NoPair},
                  sess : SUBSET Pair, before : SUBSET Pair]
Idle == [at |-> "idle", p |-> NoPair, all |-> FALSE, from |-> NoPair,
         sess |-> {}, before |-> {}]

Init ==
    /\ ops \in Scenarios
    /\ session = [p \in Pair |-> "none"]
    /\ age = [p \in Pair |-> 0]
    /\ black = [t \in Token |-> 0]
    /\ isBlocked = FALSE /\ isDeactivated = FALSE
    /\ alerts = {}
    /\ req = [r \in Request |-> Idle]
    /\ out = {} /\ ended = {} /\ bare = {} /\ lost = {}

-----------------------------------------------------------------------------
(* Tokens and rows *)

\* jwt.verify passes; only pairs whose session was stored reach a client.
verifyToken(t) == session[t[2]] # "none" /\ age[t[2]] < exp(t)

\* verifyToken and ensureTokenNotBlacklisted
Usable(t) == verifyToken(t) /\ black[t] = 0

\* validateAccessToken, run by JwtAuthGuard
validateAccessToken(p) == Usable(<<"access", p>>)

unrevoked == {p \in Pair : session[p] = "active"}

Goto(r, at) == req' = [req EXCEPT ![r].at = at]

Begin(r, at, p) ==
    /\ req[r] = Idle
    /\ req' = [req EXCEPT ![r] = [Idle EXCEPT !.at = at, !.p = p]]

\* A request that is to end all sessions open now.
BeginAll(r, at, p, all) ==
    /\ req[r] = Idle
    /\ req' = [req EXCEPT ![r] = [at |-> at, p |-> p, all |-> all, from |-> NoPair,
                                  sess |-> {}, before |-> unrevoked]]

Done(r) == req' = [req EXCEPT ![r] = Idle]

\* prisma.blacklistedToken.upsert: the expiry is overwritten as well.
blacklistToken(t) == black' = [black EXCEPT ![t] = exp(t)] /\ out' = out \cup {t}

-----------------------------------------------------------------------------
(* Issuing tokens: login, googleOAuthLogin and refreshToken *)

\* verifyCredentials has accepted the password and the second factor.
login(r) ==
    /\ "login" \in ops
    /\ ~isBlocked /\ ~isDeactivated
    /\ Begin(r, "recheck", NoPair)
    /\ UNCHANGED <<ops, session, age, black, user, history>>

LoginRecheck(r) ==
    /\ req[r].at = "recheck"
    /\ IF isBlocked THEN Done(r) ELSE Goto(r, "count")
    /\ UNCHANGED <<ops, session, age, black, user, history>>

googleOAuthLogin(r) ==
    /\ "google" \in ops
    /\ Begin(r, "count", NoPair)
    /\ UNCHANGED <<ops, session, age, black, user, history>>

refreshToken(r, p) ==
    /\ "refresh" \in ops
    /\ verifyToken(<<"refresh", p>>)
    /\ Begin(r, "lookup", p)
    /\ UNCHANGED <<ops, session, age, black, user, history>>

RefreshLookup(r) ==
    /\ req[r].at = "lookup"
    /\ Goto(r, IF black[<<"refresh", req[r].p>>] # 0 THEN "reuse" ELSE "user")
    /\ UNCHANGED <<ops, session, age, black, user, history>>

\* blacklistedToken.update fails if the row was cleaned up meanwhile.
handleTokenReuse(r) ==
    /\ req[r].at = "reuse"
    /\ IF black[<<"refresh", req[r].p>>] # 0 THEN Goto(r, "fraud") ELSE Done(r)
    /\ UNCHANGED <<ops, session, age, black, user, history>>

\* FraudService.handleTokenReuse: only a new alert blocks the user.
FraudTokenReuse(r) ==
    /\ req[r].at = "fraud"
    /\ isBlocked' = (isBlocked \/ req[r].p \notin alerts)
    /\ alerts' = alerts \cup {req[r].p}
    /\ Done(r)
    /\ UNCHANGED <<ops, session, age, black, isDeactivated, history>>

RefreshUser(r) ==
    /\ req[r].at = "user"
    /\ IF isBlocked \/ isDeactivated THEN Done(r) ELSE Goto(r, "blacklist")
    /\ UNCHANGED <<ops, session, age, black, user, history>>

RefreshBlacklist(r) ==
    /\ req[r].at = "blacklist"
    /\ blacklistToken(<<"refresh", req[r].p>>)
    /\ req' = [req EXCEPT ![r].at = "count", ![r].from = req[r].p]
    /\ UNCHANGED <<ops, session, age, user, ended, bare, lost>>

\* Mutated form: the limit is compared with >.
SessionCount_OffByOne(r) ==
    /\ req[r].at = "count"
    /\ IF Cardinality({p \in unrevoked : age[p] < 2}) > MAX_SESSIONS
       THEN Done(r) /\ UNCHANGED lost
       ELSE Goto(r, "create") /\ UNCHANGED lost
    /\ UNCHANGED <<ops, session, age, black, user, out, ended, bare>>

\* createSession: the count, which answers 409 at the limit ...
SessionCount(r) ==
    /\ req[r].at = "count"
    /\ IF Cardinality({p \in unrevoked : age[p] < 2}) >= MAX_SESSIONS
       THEN Done(r) /\ lost' = lost \cup ({req[r].from} \ {NoPair})
       ELSE Goto(r, "create") /\ UNCHANGED lost
    /\ UNCHANGED <<ops, session, age, black, user, out, ended, bare>>

\* ... and the row of the new pair.
SessionCreate(r) ==
    /\ req[r].at = "create"
    /\ \E p \in Pair : session[p] = "none" /\ session' = [session EXCEPT ![p] = "active"]
    /\ Done(r)
    /\ UNCHANGED <<ops, age, black, user, out, ended, bare, lost>>

-----------------------------------------------------------------------------
(* Giving tokens up: logout, logoutAllDevices, revokeSession, revokeAllSessions *)

logout(r, p) ==
    /\ "logout" \in ops
    /\ validateAccessToken(p)
    /\ Begin(r, "outAccess", p)
    /\ UNCHANGED <<ops, session, age, black, user, history>>

logoutAllDevices(r, p) ==
    /\ "logoutAll" \in ops
    /\ validateAccessToken(p)
    /\ BeginAll(r, "outAccess", p, TRUE)
    /\ UNCHANGED <<ops, session, age, black, user, history>>

\* A token that expired meanwhile is skipped.
OutAccess(r) ==
    /\ req[r].at = "outAccess"
    /\ IF verifyToken(<<"access", req[r].p>>)
       THEN blacklistToken(<<"access", req[r].p>>)
       ELSE UNCHANGED <<black, out>>
    /\ Goto(r, IF req[r].all THEN "list" ELSE "outRefresh")
    /\ UNCHANGED <<ops, session, age, user, ended, bare, lost>>

\* The refresh token in the body, if any, need not belong to the same pair.
OutRefresh(r) ==
    /\ req[r].at = "outRefresh"
    /\ \/ UNCHANGED <<black, out>>
       \/ \E q \in Pair : verifyToken(<<"refresh", q>>) /\ blacklistToken(<<"refresh", q>>)
    /\ Done(r)
    /\ UNCHANGED <<ops, session, age, user, ended, bare, lost>>

revokeSession(r, p, q) ==
    /\ "revoke" \in ops
    /\ validateAccessToken(p)
    /\ session[q] \in {"active", "revoked"}
    /\ Begin(r, "revoke", q)
    /\ UNCHANGED <<ops, session, age, black, user, history>>

\* The update, and the announcement to the gateways.
RevokeOne(r) ==
    /\ req[r].at = "revoke"
    /\ IF session[req[r].p] = "deleted"
       THEN UNCHANGED <<session, bare>>
       ELSE /\ session' = [session EXCEPT ![req[r].p] = "revoked"]
            /\ bare' = bare \cup {req[r].p}
    /\ Done(r)
    /\ UNCHANGED <<ops, age, black, user, out, ended, lost>>

\* Called by DELETE /sessions, changePassword, resetPassword and AdminService
\* after a change of role.
revokeAllSessions(r) ==
    /\ "revokeAll" \in ops
    /\ BeginAll(r, "list", NoPair, FALSE)
    /\ UNCHANGED <<ops, session, age, black, user, history>>

\* UsersService.deactivate
deactivate(r) ==
    /\ "deactivate" \in ops
    /\ ~isDeactivated
    /\ isDeactivated' = TRUE
    /\ BeginAll(r, "list", NoPair, FALSE)
    /\ UNCHANGED <<ops, session, age, black, isBlocked, alerts, history>>

RevokeAllList(r) ==
    /\ req[r].at = "list"
    /\ req' = [req EXCEPT ![r].at = "blackAll", ![r].sess = unrevoked]
    /\ UNCHANGED <<ops, session, age, black, user, history>>

\* Mutated form: only the access tokens are collected.
RevokeAllBlacklist_AccessOnly(r) ==
    /\ req[r].at = "blackAll"
    /\ black' = [t \in Token |-> IF t[2] \in req[r].sess /\ t[1] = "access" /\ black[t] = 0
                                 THEN 2 ELSE black[t]]
    /\ out' = out \cup ({"access"} \X req[r].sess)
    /\ Goto(r, "update")
    /\ UNCHANGED <<ops, session, age, user, ended, bare, lost>>

\* createMany with skipDuplicates; every row expires with its session.
RevokeAllBlacklist(r) ==
    /\ req[r].at = "blackAll"
    /\ black' = [t \in Token |-> IF t[2] \in req[r].sess /\ black[t] = 0 THEN 2 ELSE black[t]]
    /\ out' = out \cup (Kind \X req[r].sess)
    /\ Goto(r, "update")
    /\ UNCHANGED <<ops, session, age, user, ended, bare, lost>>

\* updateMany of whatever is unrevoked now, and the announcement.
RevokeAllUpdate(r) ==
    /\ req[r].at = "update"
    /\ session' = [p \in Pair |-> IF session[p] = "active" THEN "revoked" ELSE session[p]]
    /\ bare' = bare \cup (unrevoked \ req[r].sess)
    /\ ended' = ended \cup req[r].before
    /\ Done(r)
    /\ UNCHANGED <<ops, age, black, user, out, lost>>

-----------------------------------------------------------------------------
(* The administrator, time and the daily cleanup *)

\* AdminService.updateUser with isBlocked
AdminBlock ==
    /\ "admin" \in ops
    /\ isBlocked' = ~isBlocked
    /\ UNCHANGED <<ops, session, age, black, isDeactivated, alerts, req, history>>

\* AccountDeletionService: the account is deactivated, its sessions stay.
requestDeletion(p) ==
    /\ "delete" \in ops
    /\ validateAccessToken(p)
    /\ ~isDeactivated
    /\ isDeactivated' = TRUE
    /\ UNCHANGED <<ops, session, age, black, isBlocked, alerts, req, history>>

cancelDeletion(p) ==
    /\ "delete" \in ops
    /\ validateAccessToken(p)
    /\ isDeactivated
    /\ isDeactivated' = FALSE
    /\ UNCHANGED <<ops, session, age, black, isBlocked, alerts, req, history>>

TimePasses(p) ==
    /\ "time" \in ops
    /\ session[p] # "none" /\ age[p] < 2
    /\ age' = [age EXCEPT ![p] = @ + 1]
    /\ UNCHANGED <<ops, session, black, user, req, history>>

\* Mutated form: the cutoff is now plus the retention.
cleanBlacklistedTokens_Early(t) ==
    /\ "cleanup" \in ops
    /\ black[t] # 0 /\ age[t[2]] + 1 >= black[t]
    /\ black' = [black EXCEPT ![t] = 0]
    /\ UNCHANGED <<ops, session, age, user, req, history>>

\* Mutated form: a row is kept until the session has expired once more.
cleanBlacklistedTokens_Late(t) ==
    /\ "cleanup" \in ops
    /\ black[t] # 0 /\ age[t[2]] > black[t]
    /\ black' = [black EXCEPT ![t] = 0]
    /\ UNCHANGED <<ops, session, age, user, req, history>>

cleanBlacklistedTokens(t) ==
    /\ "cleanup" \in ops
    /\ black[t] # 0 /\ age[t[2]] >= black[t]
    /\ black' = [black EXCEPT ![t] = 0]
    /\ UNCHANGED <<ops, session, age, user, req, history>>

cleanExpiredSessions(p) ==
    /\ "cleanup" \in ops
    /\ session[p] = "revoked" /\ age[p] = 2
    /\ session' = [session EXCEPT ![p] = "deleted"]
    /\ UNCHANGED <<ops, age, black, user, req, history>>

\* The steps of a handler that has begun.
Continue(r) ==
    \/ LoginRecheck(r) \/ RefreshLookup(r) \/ handleTokenReuse(r) \/ FraudTokenReuse(r)
    \/ RefreshUser(r) \/ RefreshBlacklist(r) \/ SessionCount(r) \/ SessionCreate(r)
    \/ OutAccess(r) \/ OutRefresh(r) \/ RevokeOne(r)
    \/ RevokeAllList(r) \/ RevokeAllBlacklist(r) \/ RevokeAllUpdate(r)

Next ==
    \/ \E r \in Request :
         \/ login(r) \/ googleOAuthLogin(r) \/ revokeAllSessions(r) \/ deactivate(r)
         \/ \E p \in Pair : \/ refreshToken(r, p) \/ logout(r, p) \/ logoutAllDevices(r, p)
                            \/ \E q \in Pair : revokeSession(r, p, q)
         \/ Continue(r)
    \/ AdminBlock
    \/ \E p \in Pair : \/ requestDeletion(p) \/ cancelDeletion(p)
                       \/ TimePasses(p) \/ cleanExpiredSessions(p)
    \/ \E t \in Token : cleanBlacklistedTokens(t)

Spec == Init /\ [][Next]_vars

\* A handler that has begun is driven on by the event loop, time passes and
\* the cleanup runs every day.
FairSpec ==
    /\ Spec
    /\ \A r \in Request : WF_vars(Continue(r))
    /\ \A p \in Pair : WF_vars(TimePasses(p)) /\ WF_vars(cleanExpiredSessions(p))
    /\ \A t \in Token : WF_vars(cleanBlacklistedTokens(t))

-----------------------------------------------------------------------------
(* Properties *)

\* Type invariant of the rows, the requests and the history.
TypeOK ==
    /\ ops \in Scenarios
    /\ session \in [Pair -> {"none", "active", "revoked", "deleted"}]
    /\ age \in [Pair -> 0..2]
    /\ black \in [Token -> 0..2]
    /\ isBlocked \in BOOLEAN /\ isDeactivated \in BOOLEAN
    /\ alerts \in SUBSET Pair
    /\ req \in [Request -> RequestRecord]
    /\ out \in SUBSET Token
    /\ ended \in SUBSET Pair /\ bare \in SUBSET Pair /\ lost \in SUBSET Pair

\* blacklistToken, revokeAllSessions and cleanBlacklistedTokens: a token that
\* was logged out, rotated or revoked with all others is never accepted again,
\* although its row is deleted some time and overwritten by a later logout.
GivenUpStaysRefused == \A t \in out : ~Usable(t)

\* revokeAllSessions lists, blacklists and updates in three queries: when it
\* has finished, every session that was open when it began is closed, and its
\* tokens are refused unless a call that had not listed the session, or
\* revokeSession, revoked the row first.
RevokeAllCovers ==
    \A p \in ended :
        /\ session[p] # "active"
        /\ p \notin bare => ~Usable(<<"access", p>>) /\ ~Usable(<<"refresh", p>>)

\* createSession counts and creates without a lock: the open sessions, and
\* those about to be created, exceed the limit by at most the requests that
\* may have counted at the same time.
SessionLimit ==
    Cardinality({p \in unrevoked : age[p] < 2})
        + Cardinality({r \in Request : req[r].at = "create"})
        <= MAX_SESSIONS + Cardinality(Request) - 1

\* cleanBlacklistedTokens: the table of blacklisted tokens does not grow for
\* ever, every row in it is deleted some day.
BlacklistIsCleaned == \A t \in Token : []<>(black[t] = 0)

\* docs/Auth_and_User_APIs.md: a refresh with a valid token gives up the old
\* token and issues a new pair.
RotationIssues == lost = {}

=============================================================================
