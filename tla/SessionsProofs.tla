--------------------------- MODULE SessionsProofs ---------------------------
(***************************************************************************)
(* Type correctness, GivenUpStaysRefused, RevokeAllCovers and SessionLimit *)
(* of Sessions, for any number of token pairs and of requests in flight.   *)
(***************************************************************************)
EXTENDS Sessions, FiniteSetTheorems, TLAPS

Gone(p) == session[p] \in {"revoked", "deleted"}

\* A row of blacklisted_tokens does not expire before its token does.
BlackCovers == \A t \in Token : black[t] # 0 => black[t] >= exp(t)

\* A token that was given up has its row, or has expired.
OutRefused == \A t \in out : black[t] # 0 \/ age[t[2]] >= exp(t)

\* A revoked session whose tokens were not left behind has given both up.
RevokedGivenUp == \A p \in Pair : Gone(p) /\ p \notin bare => \A k \in Kind : <<k, p>> \in out

EndedGone == \A p \in ended : Gone(p)

\* The steps that work on the pair of the request.
PairSteps == {"lookup", "reuse", "fraud", "user", "blacklist", "outAccess", "revoke"}

\* What a request q in flight may rely on: after the blacklisting the tokens of
\* the listed sessions are given up, and the sessions that were open when it
\* began are stored.
ReqOne(q) ==
    /\ q.at \in PairSteps => q.p \in Pair
    /\ q.at = "update" => \A k \in Kind, p \in q.sess : <<k, p>> \in out
    /\ \A p \in q.before : session[p] # "none"
ReqOK == \A r \in Request : ReqOne(req[r])

DataInv == BlackCovers /\ OutRefused /\ RevokedGivenUp /\ EndedGone
IInv == TypeOK /\ DataInv /\ ReqOK

-----------------------------------------------------------------------------
(* Facts about steps *)

core == <<session, age, black, out, bare, ended>>

\* Rows are only added and closed, and tokens are only given up.
Grow ==
    /\ out \subseteq out'
    /\ \A p \in Pair : session[p] # "none" => session'[p] # "none"

\* Only request r moves.
Moves(r) ==
    /\ req' \in [Request -> RequestRecord]
    /\ \A i \in Request : i # r => req'[i] = req[i]

\* Goto changes the step of a request and nothing else.
LEMMA GotoMoves ==
  ASSUME TypeOK, NEW r \in Request, NEW at \in Steps, Goto(r, at)
  PROVE  /\ Moves(r)
         /\ req'[r].at = at
         /\ req'[r].p = req[r].p
         /\ req'[r].sess = req[r].sess
         /\ req'[r].before = req[r].before
  BY DEF TypeOK, Goto, Moves, RequestRecord

\* Begin starts a request with no sessions listed.
LEMMA BeginMoves ==
  ASSUME TypeOK, NEW r \in Request, NEW at \in Steps, NEW p \in Pair \cup {NoPair},
         Begin(r, at, p)
  PROVE  /\ Moves(r)
         /\ req'[r].at = at
         /\ req'[r].p = p
         /\ req'[r].sess = {}
         /\ req'[r].before = {}
  BY DEF TypeOK, Begin, Moves, RequestRecord, Idle

\* Done ends a request.
LEMMA DoneMoves ==
  ASSUME TypeOK, NEW r \in Request, Done(r)
  PROVE  Moves(r) /\ req'[r] = Idle
<1>1. Idle \in RequestRecord
  BY DEF Idle, RequestRecord, Steps
<1> QED BY <1>1 DEF TypeOK, Done, Moves

\* The other requests keep what they rely on, so one request is to be checked.
LEMMA ReqStep ==
  ASSUME IInv, NEW r \in Request, Moves(r), Grow, ReqOne(req[r])'
  PROVE  ReqOK'
<1>1. \A i \in Request : req[i].before \subseteq Pair
  BY DEF IInv, TypeOK, RequestRecord
<1> SUFFICES ASSUME NEW i \in Request, i # r PROVE ReqOne(req[i])'
  BY DEF ReqOK
<1>2. req'[i] = req[i]
  BY DEF Moves
<1>3. ReqOne(req[i])
  BY DEF IInv, ReqOK
<1> QED BY <1>1, <1>2, <1>3 DEF ReqOne, Grow, Gone

\* A request that is done relies on nothing.
LEMMA IdleRelies == ASSUME NEW r \in Request, req'[r] = Idle PROVE ReqOne(req[r])'
  BY DEF ReqOne, Idle, PairSteps

\* A step that leaves the rows and the tokens alone.
LEMMA CoreStep ==
  ASSUME IInv, UNCHANGED core
  PROVE  DataInv' /\ Grow
<1> USE DEF core
<1>1. BlackCovers'
  BY DEF IInv, DataInv, BlackCovers
<1>2. OutRefused'
  BY DEF IInv, DataInv, OutRefused
<1>3. RevokedGivenUp' /\ EndedGone' /\ Grow
  BY DEF IInv, DataInv, RevokedGivenUp, EndedGone, Gone, Grow
<1> QED BY <1>1, <1>2, <1>3 DEF DataInv

\* The rows and the tokens keep their types in such a step.
LEMMA CoreTyped ==
  ASSUME TypeOK, UNCHANGED core, NEW r \in Request, Moves(r),
         isBlocked' \in BOOLEAN, isDeactivated' \in BOOLEAN, alerts' \in SUBSET Pair,
         lost' \in SUBSET Pair, ops' = ops
  PROVE  TypeOK'
  BY DEF TypeOK, core, Moves

\* unrevoked is a set of stored sessions.
LEMMA UnrevokedStored == unrevoked \subseteq Pair /\ \A p \in unrevoked : session[p] = "active"
  BY DEF unrevoked

\* The initial state satisfies the inductive invariant.
LEMMA InitIInv == Init => IInv
<1> SUFFICES ASSUME Init PROVE IInv
  OBVIOUS
<1>1. Idle \in RequestRecord
  BY DEF Idle, RequestRecord, Steps
<1>2. TypeOK
  <2>1. black \in [Token -> 0..2] /\ out \in SUBSET Token
    BY DEF Init
  <2>2. req \in [Request -> RequestRecord]
    BY <1>1 DEF Init
  <2>3. isBlocked \in BOOLEAN /\ isDeactivated \in BOOLEAN
    BY DEF Init
  <2>4. session \in [Pair -> {"none", "active", "revoked", "deleted"}] /\ age \in [Pair -> 0..2]
    BY DEF Init
  <2> QED BY <2>1, <2>2, <2>3, <2>4 DEF Init, TypeOK
<1>3. DataInv
  BY DEF Init, DataInv, BlackCovers, OutRefused, RevokedGivenUp, EndedGone, Gone
<1>4. ReqOK
  BY DEF Init, ReqOK, ReqOne, Idle, PairSteps
<1> QED BY <1>2, <1>3, <1>4 DEF IInv

-----------------------------------------------------------------------------
(* Steps that only move a request *)

\* login only starts a request.
LEMMA loginStep ==
  ASSUME IInv, NEW r \in Request, login(r)
  PROVE  IInv'
<1>1. Moves(r) /\ req'[r].at = "recheck" /\ req'[r].p = NoPair /\ req'[r].sess = {} /\ req'[r].before = {}
  BY BeginMoves DEF IInv, login, Steps
<1>2. UNCHANGED <<core, user, ops, lost>>
  BY DEF login, core, history
<1>3. TypeOK'
  BY <1>1, <1>2, CoreTyped DEF IInv, TypeOK, user
<1>4. ReqOne(req[r])'
  BY <1>1 DEF ReqOne, PairSteps
<1> QED BY <1>1, <1>2, <1>3, <1>4, CoreStep, ReqStep DEF IInv

\* googleOAuthLogin only starts a request.
LEMMA googleOAuthLoginStep ==
  ASSUME IInv, NEW r \in Request, googleOAuthLogin(r)
  PROVE  IInv'
<1>1. Moves(r) /\ req'[r].at = "count" /\ req'[r].p = NoPair /\ req'[r].sess = {} /\ req'[r].before = {}
  BY BeginMoves DEF IInv, googleOAuthLogin, Steps
<1>2. UNCHANGED <<core, user, ops, lost>>
  BY DEF googleOAuthLogin, core, history
<1>3. TypeOK'
  BY <1>1, <1>2, CoreTyped DEF IInv, TypeOK, user
<1>4. ReqOne(req[r])'
  BY <1>1 DEF ReqOne, PairSteps
<1> QED BY <1>1, <1>2, <1>3, <1>4, CoreStep, ReqStep DEF IInv

\* refreshToken only starts a request.
LEMMA refreshTokenStep ==
  ASSUME IInv, NEW r \in Request, NEW p \in Pair, refreshToken(r, p)
  PROVE  IInv'
<1>1. Moves(r) /\ req'[r].at = "lookup" /\ req'[r].p = p /\ req'[r].sess = {} /\ req'[r].before = {}
  BY BeginMoves DEF IInv, refreshToken, Steps
<1>2. UNCHANGED <<core, user, ops, lost>>
  BY DEF refreshToken, core, history
<1>3. TypeOK'
  BY <1>1, <1>2, CoreTyped DEF IInv, TypeOK, user
<1>4. ReqOne(req[r])'
  BY <1>1 DEF ReqOne, PairSteps
<1> QED BY <1>1, <1>2, <1>3, <1>4, CoreStep, ReqStep DEF IInv

\* logout only starts a request.
LEMMA logoutStep ==
  ASSUME IInv, NEW r \in Request, NEW p \in Pair, logout(r, p)
  PROVE  IInv'
<1>1. Moves(r) /\ req'[r].at = "outAccess" /\ req'[r].p = p /\ req'[r].sess = {} /\ req'[r].before = {}
  BY BeginMoves DEF IInv, logout, Steps
<1>2. UNCHANGED <<core, user, ops, lost>>
  BY DEF logout, core, history
<1>3. TypeOK'
  BY <1>1, <1>2, CoreTyped DEF IInv, TypeOK, user
<1>4. ReqOne(req[r])'
  BY <1>1 DEF ReqOne, PairSteps
<1> QED BY <1>1, <1>2, <1>3, <1>4, CoreStep, ReqStep DEF IInv

\* revokeSession only starts a request.
LEMMA revokeSessionStep ==
  ASSUME IInv, NEW r \in Request, NEW p \in Pair, NEW q \in Pair, revokeSession(r, p, q)
  PROVE  IInv'
<1>1. Moves(r) /\ req'[r].at = "revoke" /\ req'[r].p = q /\ req'[r].sess = {} /\ req'[r].before = {}
  BY BeginMoves DEF IInv, revokeSession, Steps
<1>2. UNCHANGED <<core, user, ops, lost>>
  BY DEF revokeSession, core, history
<1>3. TypeOK'
  BY <1>1, <1>2, CoreTyped DEF IInv, TypeOK, user
<1>4. ReqOne(req[r])'
  BY <1>1 DEF ReqOne, PairSteps
<1> QED BY <1>1, <1>2, <1>3, <1>4, CoreStep, ReqStep DEF IInv

\* logoutAllDevices starts a request that has to end the open sessions.
LEMMA logoutAllDevicesStep ==
  ASSUME IInv, NEW r \in Request, NEW p \in Pair, logoutAllDevices(r, p)
  PROVE  IInv'
<1>1. req' = [req EXCEPT ![r] = [at |-> "outAccess", p |-> p, all |-> TRUE,
                                 from |-> NoPair, sess |-> {}, before |-> unrevoked]]
  BY DEF logoutAllDevices, BeginAll
<1>2. Moves(r)
  BY <1>1, UnrevokedStored DEF IInv, TypeOK, Moves, RequestRecord, Steps
<1>3. req'[r].at = "outAccess" /\ req'[r].p = p /\ req'[r].before = unrevoked
  BY <1>1 DEF IInv, TypeOK
<1>4. UNCHANGED <<core, user, ops, lost>>
  BY DEF logoutAllDevices, core, history, user
<1>5. TypeOK'
  BY <1>2, <1>4, CoreTyped DEF IInv, TypeOK, user
<1>6. ReqOne(req[r])'
  BY <1>3, <1>4, UnrevokedStored DEF ReqOne, PairSteps, core
<1> QED BY <1>2, <1>4, <1>5, <1>6, CoreStep, ReqStep DEF IInv

\* revokeAllSessions starts such a request too.
LEMMA revokeAllSessionsStep ==
  ASSUME IInv, NEW r \in Request, revokeAllSessions(r)
  PROVE  IInv'
<1>1. req' = [req EXCEPT ![r] = [at |-> "list", p |-> NoPair, all |-> FALSE,
                                 from |-> NoPair, sess |-> {}, before |-> unrevoked]]
  BY DEF revokeAllSessions, BeginAll
<1>2. Moves(r)
  BY <1>1, UnrevokedStored DEF IInv, TypeOK, Moves, RequestRecord, Steps
<1>3. req'[r].at = "list" /\ req'[r].p = NoPair /\ req'[r].before = unrevoked
  BY <1>1 DEF IInv, TypeOK
<1>4. UNCHANGED <<core, user, ops, lost>>
  BY DEF revokeAllSessions, core, history, user
<1>5. TypeOK'
  BY <1>2, <1>4, CoreTyped DEF IInv, TypeOK, user
<1>6. ReqOne(req[r])'
  BY <1>3, <1>4, UnrevokedStored DEF ReqOne, PairSteps, core
<1> QED BY <1>2, <1>4, <1>5, <1>6, CoreStep, ReqStep DEF IInv

\* deactivate marks the user and starts such a request.
LEMMA deactivateStep ==
  ASSUME IInv, NEW r \in Request, deactivate(r)
  PROVE  IInv'
<1>1. req' = [req EXCEPT ![r] = [at |-> "list", p |-> NoPair, all |-> FALSE,
                                 from |-> NoPair, sess |-> {}, before |-> unrevoked]]
  BY DEF deactivate, BeginAll
<1>2. Moves(r)
  BY <1>1, UnrevokedStored DEF IInv, TypeOK, Moves, RequestRecord, Steps
<1>3. req'[r].at = "list" /\ req'[r].p = NoPair /\ req'[r].before = unrevoked
  BY <1>1 DEF IInv, TypeOK
<1>4. UNCHANGED <<core, <<isBlocked, alerts>>, ops, lost>>
  BY DEF deactivate, core, history, user
<1>5. TypeOK'
  BY <1>2, <1>4, CoreTyped DEF IInv, TypeOK, deactivate
<1>6. ReqOne(req[r])'
  BY <1>3, <1>4, UnrevokedStored DEF ReqOne, PairSteps, core
<1> QED BY <1>2, <1>4, <1>5, <1>6, CoreStep, ReqStep DEF IInv

\* LoginRecheck goes on to the count or ends.
LEMMA LoginRecheckStep ==
  ASSUME IInv, NEW r \in Request, LoginRecheck(r)
  PROVE  IInv'
<1>1. Moves(r) /\ ReqOne(req[r])'
  <2>1. ASSUME Done(r)
        PROVE  Moves(r) /\ ReqOne(req[r])'
    BY <2>1, DoneMoves, IdleRelies DEF IInv
  <2>2. ASSUME NEW at \in {"count"}, Goto(r, at)
        PROVE  Moves(r) /\ ReqOne(req[r])'
    <3>1. ReqOne(req[r])
      BY DEF IInv, ReqOK
    <3>2. Moves(r) /\ req'[r].at = at /\ req'[r].p = req[r].p /\ req'[r].before = req[r].before
      BY <2>2, GotoMoves DEF IInv, Steps
    <3>3. UNCHANGED core
      BY DEF LoginRecheck, core, history
    <3> QED BY <3>1, <3>2, <3>3 DEF LoginRecheck, ReqOne, PairSteps, core
  <2> QED BY <2>1, <2>2 DEF LoginRecheck
<1>2. UNCHANGED <<core, user, ops>> /\ lost' \in SUBSET Pair
  BY DEF LoginRecheck, core, history, IInv, TypeOK, RequestRecord
<1>3. TypeOK'
  BY <1>1, <1>2, CoreTyped DEF IInv, TypeOK, user
<1> QED BY <1>1, <1>2, <1>3, CoreStep, ReqStep DEF IInv

\* RefreshLookup goes on with the pair of the request.
LEMMA RefreshLookupStep ==
  ASSUME IInv, NEW r \in Request, RefreshLookup(r)
  PROVE  IInv'
<1>1. Moves(r) /\ ReqOne(req[r])'
  <2>1. ASSUME Done(r)
        PROVE  Moves(r) /\ ReqOne(req[r])'
    BY <2>1, DoneMoves, IdleRelies DEF IInv
  <2>2. ASSUME NEW at \in {"reuse", "user"}, Goto(r, at)
        PROVE  Moves(r) /\ ReqOne(req[r])'
    <3>1. ReqOne(req[r])
      BY DEF IInv, ReqOK
    <3>2. Moves(r) /\ req'[r].at = at /\ req'[r].p = req[r].p /\ req'[r].before = req[r].before
      BY <2>2, GotoMoves DEF IInv, Steps
    <3>3. UNCHANGED core
      BY DEF RefreshLookup, core, history
    <3> QED BY <3>1, <3>2, <3>3 DEF RefreshLookup, ReqOne, PairSteps, core
  <2> QED BY <2>1, <2>2 DEF RefreshLookup
<1>2. UNCHANGED <<core, user, ops>> /\ lost' \in SUBSET Pair
  BY DEF RefreshLookup, core, history, IInv, TypeOK, RequestRecord
<1>3. TypeOK'
  BY <1>1, <1>2, CoreTyped DEF IInv, TypeOK, user
<1> QED BY <1>1, <1>2, <1>3, CoreStep, ReqStep DEF IInv

\* handleTokenReuse goes on with the pair of the request.
LEMMA handleTokenReuseStep ==
  ASSUME IInv, NEW r \in Request, handleTokenReuse(r)
  PROVE  IInv'
<1>1. Moves(r) /\ ReqOne(req[r])'
  <2>1. ASSUME Done(r)
        PROVE  Moves(r) /\ ReqOne(req[r])'
    BY <2>1, DoneMoves, IdleRelies DEF IInv
  <2>2. ASSUME NEW at \in {"fraud"}, Goto(r, at)
        PROVE  Moves(r) /\ ReqOne(req[r])'
    <3>1. ReqOne(req[r])
      BY DEF IInv, ReqOK
    <3>2. Moves(r) /\ req'[r].at = at /\ req'[r].p = req[r].p /\ req'[r].before = req[r].before
      BY <2>2, GotoMoves DEF IInv, Steps
    <3>3. UNCHANGED core
      BY DEF handleTokenReuse, core, history
    <3> QED BY <3>1, <3>2, <3>3 DEF handleTokenReuse, ReqOne, PairSteps, core
  <2> QED BY <2>1, <2>2 DEF handleTokenReuse
<1>2. UNCHANGED <<core, user, ops>> /\ lost' \in SUBSET Pair
  BY DEF handleTokenReuse, core, history, IInv, TypeOK, RequestRecord
<1>3. TypeOK'
  BY <1>1, <1>2, CoreTyped DEF IInv, TypeOK, user
<1> QED BY <1>1, <1>2, <1>3, CoreStep, ReqStep DEF IInv

\* RefreshUser goes on with the pair of the request.
LEMMA RefreshUserStep ==
  ASSUME IInv, NEW r \in Request, RefreshUser(r)
  PROVE  IInv'
<1>1. Moves(r) /\ ReqOne(req[r])'
  <2>1. ASSUME Done(r)
        PROVE  Moves(r) /\ ReqOne(req[r])'
    BY <2>1, DoneMoves, IdleRelies DEF IInv
  <2>2. ASSUME NEW at \in {"blacklist"}, Goto(r, at)
        PROVE  Moves(r) /\ ReqOne(req[r])'
    <3>1. ReqOne(req[r])
      BY DEF IInv, ReqOK
    <3>2. Moves(r) /\ req'[r].at = at /\ req'[r].p = req[r].p /\ req'[r].before = req[r].before
      BY <2>2, GotoMoves DEF IInv, Steps
    <3>3. UNCHANGED core
      BY DEF RefreshUser, core, history
    <3> QED BY <3>1, <3>2, <3>3 DEF RefreshUser, ReqOne, PairSteps, core
  <2> QED BY <2>1, <2>2 DEF RefreshUser
<1>2. UNCHANGED <<core, user, ops>> /\ lost' \in SUBSET Pair
  BY DEF RefreshUser, core, history, IInv, TypeOK, RequestRecord
<1>3. TypeOK'
  BY <1>1, <1>2, CoreTyped DEF IInv, TypeOK, user
<1> QED BY <1>1, <1>2, <1>3, CoreStep, ReqStep DEF IInv

\* SessionCount goes on to the creation or ends.
LEMMA SessionCountStep ==
  ASSUME IInv, NEW r \in Request, SessionCount(r)
  PROVE  IInv'
<1>1. Moves(r) /\ ReqOne(req[r])'
  <2>1. ASSUME Done(r)
        PROVE  Moves(r) /\ ReqOne(req[r])'
    BY <2>1, DoneMoves, IdleRelies DEF IInv
  <2>2. ASSUME NEW at \in {"create"}, Goto(r, at)
        PROVE  Moves(r) /\ ReqOne(req[r])'
    <3>1. ReqOne(req[r])
      BY DEF IInv, ReqOK
    <3>2. Moves(r) /\ req'[r].at = at /\ req'[r].p = req[r].p /\ req'[r].before = req[r].before
      BY <2>2, GotoMoves DEF IInv, Steps
    <3>3. UNCHANGED core
      BY DEF SessionCount, core, history
    <3> QED BY <3>1, <3>2, <3>3 DEF SessionCount, ReqOne, PairSteps, core
  <2> QED BY <2>1, <2>2 DEF SessionCount
<1>2. UNCHANGED <<core, user, ops>> /\ lost' \in SUBSET Pair
  BY DEF SessionCount, core, history, IInv, TypeOK, RequestRecord
<1>3. TypeOK'
  BY <1>1, <1>2, CoreTyped DEF IInv, TypeOK, user
<1> QED BY <1>1, <1>2, <1>3, CoreStep, ReqStep DEF IInv

\* FraudTokenReuse blocks the user and ends.
LEMMA FraudTokenReuseStep ==
  ASSUME IInv, NEW r \in Request, FraudTokenReuse(r)
  PROVE  IInv'
<1>1. Moves(r) /\ ReqOne(req[r])'
  BY DoneMoves, IdleRelies DEF IInv, FraudTokenReuse
<1>2. UNCHANGED <<core, isDeactivated, ops, lost>>
  BY DEF FraudTokenReuse, core, history
<1>3. req[r].p \in Pair
  BY DEF IInv, ReqOK, ReqOne, PairSteps, FraudTokenReuse
<1>4. isBlocked' \in BOOLEAN /\ alerts' \in SUBSET Pair
  BY <1>3 DEF FraudTokenReuse, IInv, TypeOK
<1>5. TypeOK'
  BY <1>1, <1>2, <1>4, CoreTyped DEF IInv, TypeOK
<1> QED BY <1>1, <1>2, <1>5, CoreStep, ReqStep DEF IInv

\* RevokeAllList only lists the open sessions.
LEMMA RevokeAllListStep ==
  ASSUME IInv, NEW r \in Request, RevokeAllList(r)
  PROVE  IInv'
<1>1. Moves(r) /\ req'[r].at = "blackAll" /\ req'[r].before = req[r].before
  <2>1. req' = [req EXCEPT ![r].at = "blackAll", ![r].sess = unrevoked]
    BY DEF RevokeAllList
  <2>2. req \in [Request -> RequestRecord] /\ unrevoked \in SUBSET Pair
    BY UnrevokedStored DEF IInv, TypeOK
  <2>3. req'[r] = [req[r] EXCEPT !.at = "blackAll", !.sess = unrevoked]
    BY <2>1, <2>2
  <2>4. \A i \in Request : i # r => req'[i] = req[i]
    BY <2>1, <2>2
  <2>5. req'[r] \in RequestRecord
    BY <2>2, <2>3, ZenonT(30) DEF RequestRecord, Steps
  <2>6. req' \in [Request -> RequestRecord]
    BY <2>1, <2>2, <2>4, <2>5
  <2> QED BY <2>2, <2>3, <2>4, <2>6 DEF Moves, RequestRecord
<1>2. UNCHANGED <<core, user, ops, lost>>
  BY DEF RevokeAllList, core, history
<1>3. TypeOK'
  BY <1>1, <1>2, CoreTyped DEF IInv, TypeOK, user
<1>4. ReqOne(req[r])
  BY DEF IInv, ReqOK
<1>5. ReqOne(req[r])'
  BY <1>1, <1>2, <1>4 DEF ReqOne, PairSteps, core
<1> QED BY <1>1, <1>2, <1>3, <1>5, CoreStep, ReqStep DEF IInv

-----------------------------------------------------------------------------
(* Steps that change rows or tokens *)

\* A row made by blacklistToken covers its token.
LEMMA BlacklistTokenStep ==
  ASSUME IInv, NEW t \in Token, blacklistToken(t), UNCHANGED <<session, age, bare, ended>>
  PROVE  /\ DataInv' /\ Grow
         /\ black' \in [Token -> 0..2]
         /\ out' \in SUBSET Token
         /\ t \in out'
<1>1. exp(t) \in 1..2
  BY DEF exp
<1>2. black' = [black EXCEPT ![t] = exp(t)] /\ out' = out \cup {t}
  BY DEF blacklistToken
<1>3. black \in [Token -> 0..2] /\ out \in SUBSET Token
  BY DEF IInv, TypeOK
<1>4. BlackCovers'
  <2> SUFFICES ASSUME NEW s \in Token, black'[s] # 0 PROVE black'[s] >= exp(s)
    BY DEF BlackCovers, exp
  <2>1. exp(s) \in 1..2
    BY DEF exp
  <2> QED BY <1>1, <1>2, <1>3, <2>1 DEF IInv, DataInv, BlackCovers
<1>5. OutRefused'
  <2> SUFFICES ASSUME NEW s \in out' PROVE black'[s] # 0 \/ age[s[2]] >= exp(s)
    BY DEF OutRefused, exp
  <2> QED BY <1>1, <1>2, <1>3 DEF IInv, DataInv, OutRefused
<1>6. RevokedGivenUp' /\ EndedGone' /\ Grow
  BY <1>2 DEF IInv, DataInv, RevokedGivenUp, EndedGone, Gone, Grow
<1> QED BY <1>1, <1>2, <1>3, <1>4, <1>5, <1>6 DEF DataInv

\* RefreshBlacklist gives the old refresh token up and goes on.
LEMMA RefreshBlacklistStep ==
  ASSUME IInv, NEW r \in Request, RefreshBlacklist(r)
  PROVE  IInv'
<1>1. req[r].p \in Pair
  BY DEF IInv, ReqOK, ReqOne, PairSteps, RefreshBlacklist
<1>2. <<"refresh", req[r].p>> \in Token
  BY <1>1 DEF Token, Kind
<1>3. UNCHANGED <<session, age, user, ops, ended, bare, lost>>
  BY DEF RefreshBlacklist
<1>4. DataInv' /\ Grow /\ black' \in [Token -> 0..2] /\ out' \in SUBSET Token
  BY <1>2, <1>3, BlacklistTokenStep DEF RefreshBlacklist
<1>5. Moves(r) /\ req'[r].at = "count" /\ req'[r].before = req[r].before
  <2>1. req' = [req EXCEPT ![r].at = "count", ![r].from = req[r].p]
    BY DEF RefreshBlacklist
  <2>2. req \in [Request -> RequestRecord]
    BY DEF IInv, TypeOK
  <2>3. req'[r] = [req[r] EXCEPT !.at = "count", !.from = req[r].p]
    BY <2>1, <2>2
  <2>4. \A i \in Request : i # r => req'[i] = req[i]
    BY <2>1, <2>2
  <2>5. req'[r] \in RequestRecord
    BY <1>1, <2>2, <2>3 DEF RequestRecord, Steps
  <2>6. req' \in [Request -> RequestRecord]
    BY <2>1, <2>2, <2>4, <2>5
  <2> QED BY <2>2, <2>3, <2>4, <2>6 DEF Moves, RequestRecord
<1>6. TypeOK'
  BY <1>3, <1>4, <1>5 DEF IInv, TypeOK, Moves, user
<1>7. ReqOne(req[r])
  BY DEF IInv, ReqOK
<1>8. ReqOne(req[r])'
  BY <1>3, <1>5, <1>7 DEF ReqOne, PairSteps
<1> QED BY <1>4, <1>5, <1>6, <1>8, ReqStep DEF IInv

\* OutAccess gives the access token up unless it has expired, and goes on.
LEMMA OutAccessStep ==
  ASSUME IInv, NEW r \in Request, OutAccess(r)
  PROVE  IInv'
<1>1. req[r].p \in Pair
  BY DEF IInv, ReqOK, ReqOne, PairSteps, OutAccess
<1>2. <<"access", req[r].p>> \in Token
  BY <1>1 DEF Token, Kind
<1>3. UNCHANGED <<session, age, user, ops, ended, bare, lost>>
  BY DEF OutAccess
<1>4. DataInv' /\ Grow /\ black' \in [Token -> 0..2] /\ out' \in SUBSET Token
  <2>1. CASE verifyToken(<<"access", req[r].p>>)
    BY <1>2, <1>3, <2>1, BlacklistTokenStep DEF OutAccess
  <2>2. CASE ~verifyToken(<<"access", req[r].p>>)
    BY <1>3, <2>2, CoreStep DEF OutAccess, core, IInv, TypeOK
  <2> QED BY <2>1, <2>2
<1>5. PICK at \in {"list", "outRefresh"} : Goto(r, at)
  BY DEF OutAccess
<1>6. Moves(r) /\ req'[r].at = at /\ req'[r].before = req[r].before
  BY <1>5, GotoMoves DEF IInv, Steps
<1>7. TypeOK'
  BY <1>3, <1>4, <1>6 DEF IInv, TypeOK, Moves, user
<1>8. ReqOne(req[r])
  BY DEF IInv, ReqOK
<1>9. ReqOne(req[r])'
  BY <1>3, <1>6, <1>8 DEF ReqOne, PairSteps
<1> QED BY <1>4, <1>6, <1>7, <1>9, ReqStep DEF IInv

\* OutRefresh gives some refresh token up, or none, and ends.
LEMMA OutRefreshStep ==
  ASSUME IInv, NEW r \in Request, OutRefresh(r)
  PROVE  IInv'
<1>1. UNCHANGED <<session, age, user, ops, ended, bare, lost>>
  BY DEF OutRefresh
<1>2. DataInv' /\ Grow /\ black' \in [Token -> 0..2] /\ out' \in SUBSET Token
  <2>1. CASE UNCHANGED <<black, out>>
    BY <1>1, <2>1, CoreStep DEF core, IInv, TypeOK
  <2>2. CASE \E q \in Pair : verifyToken(<<"refresh", q>>) /\ blacklistToken(<<"refresh", q>>)
    <3>1. PICK q \in Pair : blacklistToken(<<"refresh", q>>)
      BY <2>2
    <3>2. <<"refresh", q>> \in Token
      BY DEF Token, Kind
    <3> QED BY <1>1, <3>1, <3>2, BlacklistTokenStep
  <2> QED BY <2>1, <2>2 DEF OutRefresh
<1>3. Moves(r) /\ ReqOne(req[r])'
  BY DoneMoves, IdleRelies DEF IInv, OutRefresh
<1>4. TypeOK'
  BY <1>1, <1>2, <1>3 DEF IInv, TypeOK, Moves, user
<1> QED BY <1>2, <1>3, <1>4, ReqStep DEF IInv

\* SessionCreate stores the row of a new pair and ends.
LEMMA SessionCreateStep ==
  ASSUME IInv, NEW r \in Request, SessionCreate(r)
  PROVE  IInv'
<1>1. PICK p \in Pair : session[p] = "none" /\ session' = [session EXCEPT ![p] = "active"]
  BY DEF SessionCreate
<1>2. UNCHANGED <<age, black, user, ops, out, ended, bare, lost>>
  BY DEF SessionCreate
<1>3. Moves(r) /\ ReqOne(req[r])'
  BY DoneMoves, IdleRelies DEF IInv, SessionCreate
<1>5. TypeOK'
  BY <1>1, <1>2, <1>3 DEF IInv, TypeOK, Moves, user
<1>6. Grow /\ RevokedGivenUp' /\ EndedGone'
  BY <1>1, <1>2 DEF IInv, TypeOK, DataInv, Grow, RevokedGivenUp, EndedGone, Gone
<1>7. BlackCovers' /\ OutRefused'
  BY <1>2 DEF IInv, DataInv, BlackCovers, OutRefused
<1> QED BY <1>3, <1>5, <1>6, <1>7, ReqStep DEF IInv, DataInv

\* RevokeOne closes one row and leaves its tokens.
LEMMA RevokeOneStep ==
  ASSUME IInv, NEW r \in Request, RevokeOne(r)
  PROVE  IInv'
<1>1. req[r].p \in Pair
  BY DEF IInv, ReqOK, ReqOne, PairSteps, RevokeOne
<1>2. UNCHANGED <<age, black, user, ops, out, ended, lost>>
  BY DEF RevokeOne
<1>3. BlackCovers' /\ OutRefused'
  BY <1>2 DEF IInv, DataInv, BlackCovers, OutRefused
<1>4. Moves(r) /\ ReqOne(req[r])'
  BY DoneMoves, IdleRelies DEF IInv, RevokeOne
<1>5. CASE session[req[r].p] = "deleted"
  <2>1. UNCHANGED core
    BY <1>2, <1>5 DEF RevokeOne, core
  <2>2. TypeOK'
    BY <1>2, <1>4, <2>1, CoreTyped DEF IInv, TypeOK, user
  <2> QED BY <1>4, <2>1, <2>2, CoreStep, ReqStep DEF IInv
<1>6. CASE session[req[r].p] # "deleted"
  <2>1. /\ session' = [session EXCEPT ![req[r].p] = "revoked"]
        /\ bare' = bare \cup {req[r].p}
    BY <1>6 DEF RevokeOne
  <2>2. TypeOK'
    BY <1>1, <1>2, <1>4, <2>1 DEF IInv, TypeOK, Moves, user
  <2>3. Grow /\ RevokedGivenUp' /\ EndedGone'
    BY <1>1, <1>2, <2>1 DEF IInv, TypeOK, DataInv, Grow, RevokedGivenUp, EndedGone, Gone
  <2> QED BY <1>3, <1>4, <2>2, <2>3, ReqStep DEF IInv, DataInv
<1> QED BY <1>5, <1>6

\* RevokeAllBlacklist gives up both tokens of every listed session.
LEMMA RevokeAllBlacklistStep ==
  ASSUME IInv, NEW r \in Request, RevokeAllBlacklist(r)
  PROVE  IInv'
<1>1. UNCHANGED <<session, age, user, ops, ended, bare, lost>>
  BY DEF RevokeAllBlacklist
<1>2. req[r].sess \subseteq Pair /\ req[r].before \subseteq Pair
  BY DEF IInv, TypeOK, RequestRecord
<1>3. /\ black' = [t \in Token |-> IF t[2] \in req[r].sess /\ black[t] = 0 THEN 2 ELSE black[t]]
      /\ out' = out \cup (Kind \X req[r].sess)
  BY DEF RevokeAllBlacklist
<1>4. black \in [Token -> 0..2] /\ out \in SUBSET Token
  BY DEF IInv, TypeOK
<1>5. black' \in [Token -> 0..2]
  BY <1>3, <1>4
<1>6. Kind \X req[r].sess \subseteq Token
  BY <1>2 DEF Token
<1>7. Moves(r) /\ req'[r].at = "update" /\ req'[r].sess = req[r].sess /\ req'[r].before = req[r].before
  BY GotoMoves DEF IInv, RevokeAllBlacklist, Steps
<1>8. TypeOK'
  BY <1>1, <1>3, <1>4, <1>5, <1>6, <1>7 DEF IInv, TypeOK, Moves, user
<1>9. BlackCovers'
  <2> SUFFICES ASSUME NEW t \in Token, black'[t] # 0 PROVE black'[t] >= exp(t)
    BY DEF BlackCovers, exp
  <2>1. exp(t) \in 1..2
    BY DEF exp
  <2> QED BY <1>3, <1>4, <2>1 DEF IInv, DataInv, BlackCovers
<1>10. OutRefused'
  <2> SUFFICES ASSUME NEW t \in out' PROVE black'[t] # 0 \/ age[t[2]] >= exp(t)
    BY <1>1 DEF OutRefused, exp
  <2>1. CASE t \in out
    BY <1>3, <1>4, <2>1 DEF IInv, DataInv, OutRefused
  <2>2. CASE t \in Kind \X req[r].sess
    <3>1. t \in Token /\ t[2] \in req[r].sess
      BY <1>6, <2>2
    <3> QED BY <1>3, <1>4, <3>1
  <2> QED BY <1>3, <2>1, <2>2
<1>11. Grow /\ RevokedGivenUp' /\ EndedGone'
  BY <1>1, <1>3 DEF IInv, DataInv, Grow, RevokedGivenUp, EndedGone, Gone
<1>12. ReqOne(req[r])
  BY DEF IInv, ReqOK
<1>13. ReqOne(req[r])'
  BY <1>1, <1>2, <1>3, <1>7, <1>12 DEF ReqOne, PairSteps
<1> QED BY <1>7, <1>8, <1>9, <1>10, <1>11, <1>13, ReqStep DEF IInv, DataInv

\* RevokeAllUpdate closes every open row, those it had to end among them;
\* rows that were not listed become bare.
LEMMA RevokeAllUpdateStep ==
  ASSUME IInv, NEW r \in Request, RevokeAllUpdate(r)
  PROVE  IInv'
<1>1. UNCHANGED <<age, black, user, ops, out, lost>>
  BY DEF RevokeAllUpdate
<1>2. /\ session' = [p \in Pair |-> IF session[p] = "active" THEN "revoked" ELSE session[p]]
      /\ bare' = bare \cup (unrevoked \ req[r].sess)
      /\ ended' = ended \cup req[r].before
  BY DEF RevokeAllUpdate
<1>3. Moves(r) /\ ReqOne(req[r])'
  BY DoneMoves, IdleRelies DEF IInv, RevokeAllUpdate
<1>4. ReqOne(req[r]) /\ req[r].at = "update" /\ req[r].before \subseteq Pair
  BY DEF IInv, ReqOK, RevokeAllUpdate, TypeOK, RequestRecord
<1>5. session' \in [Pair -> {"none", "active", "revoked", "deleted"}]
  BY <1>2 DEF IInv, TypeOK
<1>6. TypeOK'
  BY <1>1, <1>2, <1>3, <1>4, <1>5, UnrevokedStored DEF IInv, TypeOK, Moves, user
<1>7. BlackCovers' /\ OutRefused'
  BY <1>1 DEF IInv, DataInv, BlackCovers, OutRefused
<1>8. Grow
  BY <1>1, <1>2 DEF Grow
<1>9. EndedGone'
  <2>1. \A p \in req[r].before : session'[p] \in {"revoked", "deleted"}
    BY <1>2, <1>4 DEF ReqOne, IInv, TypeOK
  <2>2. \A p \in ended : session'[p] \in {"revoked", "deleted"}
    BY <1>2 DEF IInv, TypeOK, DataInv, EndedGone, Gone
  <2> QED BY <1>2, <2>1, <2>2 DEF EndedGone, Gone
<1>10. RevokedGivenUp'
  <2> SUFFICES ASSUME NEW p \in Pair, Gone(p)', p \notin bare', NEW k \in Kind
               PROVE  <<k, p>> \in out
    BY <1>1 DEF RevokedGivenUp
  <2>1. CASE session[p] = "active"
    BY <1>2, <1>4, <2>1 DEF unrevoked, ReqOne
  <2>2. CASE session[p] # "active"
    BY <1>2, <2>2 DEF IInv, DataInv, RevokedGivenUp, Gone
  <2> QED BY <2>1, <2>2
<1> QED BY <1>3, <1>6, <1>7, <1>8, <1>9, <1>10, ReqStep DEF IInv, DataInv

-----------------------------------------------------------------------------
(* Steps of no request *)

\* Steps of the user row leave tokens, rows and requests alone.
LEMMA UserRowStep ==
  ASSUME IInv, AdminBlock \/ \E p \in Pair : requestDeletion(p) \/ cancelDeletion(p)
  PROVE  IInv'
<1>1. UNCHANGED <<core, req, alerts, ops, lost>>
  BY DEF AdminBlock, requestDeletion, cancelDeletion, core, history
<1>2. isBlocked' \in BOOLEAN /\ isDeactivated' \in BOOLEAN
  BY DEF AdminBlock, requestDeletion, cancelDeletion, IInv, TypeOK
<1>3. TypeOK'
  BY <1>1, <1>2 DEF IInv, TypeOK, core
<1>4. DataInv'
  BY <1>1, CoreStep
<1>5. ReqOK'
  BY <1>1 DEF IInv, ReqOK, ReqOne, Gone, core
<1> QED BY <1>3, <1>4, <1>5 DEF IInv

\* Tokens only grow older.
LEMMA TimePassesStep ==
  ASSUME IInv, NEW p \in Pair, TimePasses(p)
  PROVE  IInv'
<1>1. UNCHANGED <<session, black, user, req, ops, history>>
  BY DEF TimePasses
<1>2. age \in [Pair -> 0..2] /\ age[p] < 2 /\ age' = [age EXCEPT ![p] = age[p] + 1]
  BY DEF TimePasses, IInv, TypeOK
<1>3. age' \in [Pair -> 0..2] /\ \A q \in Pair : age'[q] >= age[q] /\ age[q] \in 0..2 /\ age'[q] \in 0..2
  BY <1>2
<1>4. TypeOK'
  BY <1>1, <1>3 DEF IInv, TypeOK, user, history
<1>5. OutRefused'
  <2> SUFFICES ASSUME NEW t \in out PROVE black[t] # 0 \/ age'[t[2]] >= exp(t)
    BY <1>1 DEF OutRefused, exp, history
  <2>1. t[2] \in Pair /\ exp(t) \in 1..2
    BY DEF IInv, TypeOK, Token, exp
  <2>2. black[t] # 0 \/ age[t[2]] >= exp(t)
    BY DEF IInv, DataInv, OutRefused
  <2> QED BY <1>3, <2>1, <2>2
<1>6. BlackCovers' /\ RevokedGivenUp' /\ EndedGone'
  BY <1>1 DEF IInv, DataInv, BlackCovers, RevokedGivenUp, EndedGone, Gone, history
<1>7. ReqOK'
  BY <1>1 DEF IInv, ReqOK, ReqOne, Gone, history
<1> QED BY <1>4, <1>5, <1>6, <1>7 DEF IInv, DataInv

\* A row of the blacklist is only deleted when its token has expired.
LEMMA cleanBlacklistedTokensStep ==
  ASSUME IInv, NEW t \in Token, cleanBlacklistedTokens(t)
  PROVE  IInv'
<1>1. UNCHANGED <<session, age, user, req, ops, history>>
  BY DEF cleanBlacklistedTokens
<1>2. black \in [Token -> 0..2] /\ black' = [black EXCEPT ![t] = 0] /\ age[t[2]] >= black[t] /\ black[t] # 0
  BY DEF cleanBlacklistedTokens, IInv, TypeOK
<1>3. TypeOK'
  BY <1>1, <1>2 DEF IInv, TypeOK, user, history
<1>4. BlackCovers'
  <2> SUFFICES ASSUME NEW s \in Token, black'[s] # 0 PROVE black'[s] >= exp(s)
    BY DEF BlackCovers, exp
  <2> QED BY <1>2 DEF IInv, DataInv, BlackCovers
<1>5. OutRefused'
  <2> SUFFICES ASSUME NEW s \in out PROVE black'[s] # 0 \/ age[s[2]] >= exp(s)
    BY <1>1 DEF OutRefused, exp, history
  <2>1. black[s] # 0 \/ age[s[2]] >= exp(s)
    BY DEF IInv, DataInv, OutRefused
  <2>2. s \in Token
    BY DEF IInv, TypeOK
  <2>3. CASE s = t
    <3>1. black[t] >= exp(t) /\ exp(t) \in 1..2 /\ black[t] \in 0..2
      BY <1>2 DEF IInv, DataInv, BlackCovers, exp
    <3>2. t[2] \in Pair /\ age[t[2]] \in 0..2
      BY DEF IInv, TypeOK, Token
    <3> QED BY <1>2, <2>3, <3>1, <3>2
  <2>4. CASE s # t
    BY <1>2, <2>1, <2>2, <2>4
  <2> QED BY <2>3, <2>4
<1>6. RevokedGivenUp' /\ EndedGone'
  BY <1>1 DEF IInv, DataInv, RevokedGivenUp, EndedGone, Gone, history
<1>7. ReqOK'
  BY <1>1 DEF IInv, ReqOK, ReqOne, Gone, history
<1> QED BY <1>3, <1>4, <1>5, <1>6, <1>7 DEF IInv, DataInv

\* A revoked row is only deleted.
LEMMA cleanExpiredSessionsStep ==
  ASSUME IInv, NEW p \in Pair, cleanExpiredSessions(p)
  PROVE  IInv'
<1>1. UNCHANGED <<age, black, user, req, ops, history>>
  BY DEF cleanExpiredSessions
<1>2. session[p] = "revoked" /\ session' = [session EXCEPT ![p] = "deleted"]
  BY DEF cleanExpiredSessions
<1>3. TypeOK'
  BY <1>1, <1>2 DEF IInv, TypeOK, user, history
<1>4. BlackCovers' /\ OutRefused'
  BY <1>1 DEF IInv, DataInv, BlackCovers, OutRefused, history
<1>5. RevokedGivenUp' /\ EndedGone' /\ Grow
  BY <1>1, <1>2 DEF IInv, TypeOK, DataInv, RevokedGivenUp, EndedGone, Gone, Grow, history
<1>6. ReqOK'
  <2> SUFFICES ASSUME NEW i \in Request PROVE ReqOne(req[i])'
    BY DEF ReqOK
  <2>1. req'[i] = req[i] /\ ReqOne(req[i]) /\ req[i].before \subseteq Pair
    BY <1>1 DEF IInv, ReqOK, TypeOK, RequestRecord
  <2> QED BY <1>5, <2>1 DEF ReqOne, Grow, Gone
<1> QED BY <1>3, <1>4, <1>5, <1>6 DEF IInv, DataInv

-----------------------------------------------------------------------------
(* The theorems *)

\* Every step of a handler that has begun preserves the invariant.
LEMMA ContinueStep ==
  ASSUME IInv, NEW r \in Request, Continue(r)
  PROVE  IInv'
  BY LoginRecheckStep, RefreshLookupStep, handleTokenReuseStep, FraudTokenReuseStep,
     RefreshUserStep, RefreshBlacklistStep, SessionCountStep, SessionCreateStep,
     OutAccessStep, OutRefreshStep, RevokeOneStep, RevokeAllListStep,
     RevokeAllBlacklistStep, RevokeAllUpdateStep
     DEF Continue

\* Every step preserves the inductive invariant.
LEMMA NextIInv == IInv /\ [Next]_vars => IInv'
<1> SUFFICES ASSUME IInv, [Next]_vars PROVE IInv'
  OBVIOUS
<1>1. CASE UNCHANGED vars
  <2>1. UNCHANGED <<core, req, user, ops, lost>>
    BY <1>1 DEF vars, core, history
  <2>2. TypeOK'
    BY <2>1 DEF IInv, TypeOK, core, user
  <2>3. ReqOK'
    BY <2>1 DEF IInv, ReqOK, ReqOne, Gone, core
  <2> QED BY <2>1, <2>2, <2>3, CoreStep DEF IInv
<1>2. ASSUME NEW r \in Request,
             login(r) \/ googleOAuthLogin(r) \/ revokeAllSessions(r) \/ deactivate(r) \/ Continue(r)
      PROVE  IInv'
  BY <1>2, loginStep, googleOAuthLoginStep, revokeAllSessionsStep, deactivateStep, ContinueStep
<1>3. ASSUME NEW r \in Request, NEW p \in Pair,
             refreshToken(r, p) \/ logout(r, p) \/ logoutAllDevices(r, p)
      PROVE  IInv'
  BY <1>3, refreshTokenStep, logoutStep, logoutAllDevicesStep
<1>4. ASSUME NEW r \in Request, NEW p \in Pair, NEW q \in Pair, revokeSession(r, p, q)
      PROVE  IInv'
  BY <1>4, revokeSessionStep
<1>5. ASSUME AdminBlock \/ \E p \in Pair : requestDeletion(p) \/ cancelDeletion(p)
      PROVE  IInv'
  BY <1>5, UserRowStep
<1>6. ASSUME NEW p \in Pair, TimePasses(p) \/ cleanExpiredSessions(p)
      PROVE  IInv'
  BY <1>6, TimePassesStep, cleanExpiredSessionsStep
<1>7. ASSUME NEW t \in Token, cleanBlacklistedTokens(t)
      PROVE  IInv'
  BY <1>7, cleanBlacklistedTokensStep
<1> QED BY <1>1, <1>2, <1>3, <1>4, <1>5, <1>6, <1>7 DEF Next

\* A token that was given up is refused.
LEMMA OutUnusable == IInv => \A t \in out : ~Usable(t)
<1> SUFFICES ASSUME IInv, NEW t \in out PROVE ~Usable(t)
  OBVIOUS
<1>1. black[t] # 0 \/ age[t[2]] >= exp(t)
  BY DEF IInv, DataInv, OutRefused
<1>2. exp(t) \in 1..2 /\ t[2] \in Pair /\ age[t[2]] \in 0..2
  BY DEF IInv, TypeOK, Token, exp
<1> QED BY <1>1, <1>2 DEF Usable, verifyToken

\* Rows, requests and the history keep their types.
THEOREM TypeCorrect == Spec => []TypeOK
<1>1. IInv => TypeOK
  BY DEF IInv
<1> QED BY <1>1, InitIInv, NextIInv, PTL DEF Spec

\* A token that was logged out, rotated or revoked with all others is never
\* accepted again, whatever the cleanup deletes and later logouts overwrite.
THEOREM GivenUpSafe == Spec => []GivenUpStaysRefused
<1>1. IInv => GivenUpStaysRefused
  BY OutUnusable DEF GivenUpStaysRefused
<1> QED BY <1>1, InitIInv, NextIInv, PTL DEF Spec

\* revokeAllSessions closes every session that was open when it began, and
\* gives up both tokens of every session that it or a like call listed.
THEOREM RevokeAllSafe == Spec => []RevokeAllCovers
<1>1. IInv => RevokeAllCovers
  <2> SUFFICES ASSUME IInv, NEW p \in ended
               PROVE  /\ session[p] # "active"
                      /\ p \notin bare => ~Usable(<<"access", p>>) /\ ~Usable(<<"refresh", p>>)
    BY DEF RevokeAllCovers
  <2>1. p \in Pair /\ Gone(p)
    BY DEF IInv, TypeOK, DataInv, EndedGone
  <2>2. p \notin bare => <<"access", p>> \in out /\ <<"refresh", p>> \in out
    BY <2>1 DEF IInv, DataInv, RevokedGivenUp, Kind
  <2> QED BY <2>1, <2>2, OutUnusable DEF Gone
<1> QED BY <1>1, InitIInv, NextIInv, PTL DEF Spec

-----------------------------------------------------------------------------
(* The limit of the sessions: a request that counts finds at most one less *)
(* than MAX_SESSIONS, and from then on the sessions and the requests about *)
(* to create one grow only by another request that counts.                 *)

OpenSessions == {p \in unrevoked : age[p] < 2}
Creating == {r \in Request : req[r].at = "create"}

\* Both are finite sets of sessions and requests.
LEMMA CountsFinite ==
  /\ IsFiniteSet(OpenSessions) /\ IsFiniteSet(Creating)
  /\ Cardinality(OpenSessions) \in Nat /\ Cardinality(Creating) \in Nat
  /\ Cardinality(Creating) <= Cardinality(Request) /\ Cardinality(Request) \in Nat
<1>1. OpenSessions \subseteq Pair /\ Creating \subseteq Request
  BY DEF OpenSessions, Creating, unrevoked
<1> QED BY <1>1, SessionsAssumption, FS_Subset, FS_CardinalityType

\* The same after a step.
LEMMA CountsFiniteNext ==
  /\ IsFiniteSet(OpenSessions)' /\ IsFiniteSet(Creating)'
  /\ Cardinality(OpenSessions)' \in Nat /\ Cardinality(Creating)' \in Nat
  /\ Cardinality(Creating)' <= Cardinality(Request)
<1>1. OpenSessions' \subseteq Pair /\ Creating' \subseteq Request
  BY DEF OpenSessions, Creating, unrevoked
<1> QED BY <1>1, SessionsAssumption, FS_Subset, FS_CardinalityType

\* A step that opens no session and brings no request to its creation keeps the limit.
LEMMA LimitKept ==
  ASSUME SessionLimit, OpenSessions' \subseteq OpenSessions, Creating' \subseteq Creating
  PROVE  SessionLimit'
<1>1. Cardinality(OpenSessions') <= Cardinality(OpenSessions) /\ Cardinality(Creating') <= Cardinality(Creating)
  BY CountsFinite, FS_Subset
<1> QED BY <1>1, CountsFinite, CountsFiniteNext, SessionsAssumption DEF SessionLimit, OpenSessions, Creating

\* Sessions that stay as they are, or close, or grow older, do not become more.
LEMMA OpenShrinks ==
  ASSUME TypeOK, \A p \in Pair : session'[p] = "active" => session[p] = "active",
         age' = age \/ \E p \in Pair : age' = [age EXCEPT ![p] = @ + 1]
  PROVE  OpenSessions' \subseteq OpenSessions
<1> SUFFICES ASSUME NEW p \in Pair, session'[p] = "active", age'[p] < 2
             PROVE  session[p] = "active" /\ age[p] < 2
  BY DEF OpenSessions, unrevoked
<1>1. age \in [Pair -> 0..2]
  BY DEF TypeOK
<1> QED BY <1>1

\* A request that moves on elsewhere than to the creation of its session.
LEMMA CreatingShrinks ==
  ASSUME NEW r \in Request, \A i \in Request : i # r => req'[i] = req[i], req'[r].at # "create"
  PROVE  Creating' \subseteq Creating
  BY DEF Creating

\* A request that ends, begins or goes to another step is such a request.
LEMMA MovesElsewhere ==
  ASSUME TypeOK, NEW r \in Request, NEW at \in Steps, at # "create", NEW p \in Pair \cup {NoPair}, NEW all,
         Done(r) \/ Goto(r, at) \/ Begin(r, at, p) \/ BeginAll(r, at, p, all)
  PROVE  Creating' \subseteq Creating
<1>1. CASE Done(r)
  BY <1>1, DoneMoves, CreatingShrinks DEF Moves, Idle
<1>2. CASE Goto(r, at)
  BY <1>2, GotoMoves, CreatingShrinks DEF Moves
<1>3. CASE Begin(r, at, p)
  BY <1>3, BeginMoves, CreatingShrinks DEF Moves
<1>4. CASE BeginAll(r, at, p, all)
  <2>1. req \in [Request -> RequestRecord]
    BY DEF TypeOK
  <2>2. req'[r].at # "create" /\ \A i \in Request : i # r => req'[i] = req[i]
    BY <1>4, <2>1 DEF BeginAll
  <2> QED BY <2>2, CreatingShrinks
<1> QED BY <1>1, <1>2, <1>3, <1>4

\* The count and the creation, and the other calls of a request, keep the limit.
LEMMA CountStep ==
  ASSUME TypeOK, SessionLimit, NEW r \in Request, SessionCount(r)
  PROVE  SessionLimit'
<1>1. session' = session /\ age' = age
  BY DEF SessionCount
<1>2. OpenSessions' = OpenSessions
  BY <1>1 DEF OpenSessions, unrevoked
<1>3. CASE Cardinality(OpenSessions) >= MAX_SESSIONS
  <2>1. Done(r)
    BY <1>3 DEF SessionCount, OpenSessions
  <2>2. Creating' \subseteq Creating
    BY <2>1, DoneMoves, CreatingShrinks DEF Moves, Idle
  <2> QED BY <1>2, <2>2, LimitKept
<1>4. CASE ~(Cardinality(OpenSessions) >= MAX_SESSIONS)
  <2>1. Cardinality(OpenSessions') <= MAX_SESSIONS - 1
    BY <1>2, <1>4, CountsFinite, SessionsAssumption
  <2>2. Cardinality(OpenSessions') + Cardinality(Creating') <= MAX_SESSIONS + Cardinality(Request) - 1
    BY <2>1, CountsFinite, CountsFiniteNext, SessionsAssumption
  <2> QED BY <2>2 DEF SessionLimit, OpenSessions, Creating
<1> QED BY <1>3, <1>4

\* SessionCreate: a session more, and a request less that is to create one.
LEMMA CreateStep ==
  ASSUME TypeOK, SessionLimit, NEW r \in Request, SessionCreate(r)
  PROVE  SessionLimit'
<1>1. PICK p \in Pair : session' = [session EXCEPT ![p] = "active"]
  BY DEF SessionCreate
<1>2. age' = age /\ Done(r) /\ r \in Creating
  BY DEF SessionCreate, Creating
<1>3. OpenSessions' \subseteq OpenSessions \cup {p}
  BY <1>1, <1>2 DEF OpenSessions, unrevoked, TypeOK
<1>4. Creating' \subseteq Creating \ {r}
  BY <1>2, DoneMoves DEF Moves, Idle, Creating
<1>5. Cardinality(OpenSessions') <= Cardinality(OpenSessions) + 1
  <2>0. IsFiniteSet(OpenSessions) /\ Cardinality(OpenSessions) \in Nat
    BY CountsFinite
  <2>1. /\ IsFiniteSet(OpenSessions \cup {p})
        /\ Cardinality(OpenSessions \cup {p}) <= Cardinality(OpenSessions) + 1
    <3> DEFINE S == OpenSessions
    <3> HIDE DEF S
    <3>1. IsFiniteSet(S \cup {p}) /\ (Cardinality(S \cup {p}) = IF p \in S THEN Cardinality(S) ELSE Cardinality(S) + 1)
      BY <2>0, FS_AddElement DEF S
    <3>2. Cardinality(S) \in Nat
      BY <2>0 DEF S
    <3>3. Cardinality(S \cup {p}) <= Cardinality(S) + 1
      BY <3>1, <3>2
    <3> QED BY <3>1, <3>3 DEF S
  <2>2. Cardinality(OpenSessions') <= Cardinality(OpenSessions \cup {p})
    BY <1>3, <2>1, FS_Subset
  <2>3. Cardinality(OpenSessions \cup {p}) \in Nat
    BY <2>1, FS_CardinalityType
  <2> QED BY <2>1, <2>2, <2>3, CountsFinite, CountsFiniteNext
<1>6. Cardinality(Creating') <= Cardinality(Creating) - 1
  <2>1. IsFiniteSet(Creating \ {r}) /\ Cardinality(Creating \ {r}) = Cardinality(Creating) - 1
    BY <1>2, CountsFinite, FS_RemoveElement
  <2>2. Cardinality(Creating') <= Cardinality(Creating \ {r})
    BY <1>4, <2>1, FS_Subset
  <2> QED BY <2>1, <2>2
<1> QED BY <1>5, <1>6, CountsFinite, CountsFiniteNext, SessionsAssumption DEF SessionLimit, OpenSessions, Creating

\* A handler that begins leaves the sessions alone and is not at the creation.
LEMMA BeginStep ==
  ASSUME TypeOK, SessionLimit, NEW r \in Request, NEW p \in Pair, NEW q \in Pair,
         \/ login(r) \/ googleOAuthLogin(r) \/ revokeAllSessions(r) \/ deactivate(r)
         \/ refreshToken(r, p) \/ logout(r, p) \/ logoutAllDevices(r, p) \/ revokeSession(r, p, q)
  PROVE  SessionLimit'
<1>1. session' = session /\ age' = age
  BY DEF login, googleOAuthLogin, revokeAllSessions, deactivate, refreshToken, logout, logoutAllDevices,
         revokeSession
<1>2. OpenSessions' \subseteq OpenSessions
  BY <1>1 DEF OpenSessions, unrevoked
<1>3. \E at \in Steps \ {"create"} : \E x \in Pair \cup {NoPair} : \E all \in BOOLEAN :
          Begin(r, at, x) \/ BeginAll(r, at, x, all)
  <2>1. {"recheck", "count", "lookup", "outAccess", "list", "revoke"} \subseteq Steps \ {"create"}
    BY DEF Steps
  <2>2. CASE login(r) \/ googleOAuthLogin(r) \/ refreshToken(r, p) \/ logout(r, p) \/ revokeSession(r, p, q)
    BY <2>1, <2>2 DEF login, googleOAuthLogin, refreshToken, logout, revokeSession
  <2>3. CASE revokeAllSessions(r) \/ deactivate(r) \/ logoutAllDevices(r, p)
    BY <2>1, <2>3 DEF revokeAllSessions, deactivate, logoutAllDevices
  <2> QED BY <2>2, <2>3
<1>4. Creating' \subseteq Creating
  BY <1>3, MovesElsewhere
<1> QED BY <1>2, <1>4, LimitKept

\* The calls of a handler other than the count and the creation.
LEMMA HandlerStep ==
  ASSUME IInv, SessionLimit, NEW r \in Request, Continue(r)
  PROVE  SessionLimit'
<1>0. TypeOK
  BY DEF IInv
<1>1. CASE SessionCount(r) \/ SessionCreate(r)
  BY <1>0, <1>1, CountStep, CreateStep
<1>2. CASE \/ LoginRecheck(r) \/ RefreshLookup(r) \/ handleTokenReuse(r) \/ FraudTokenReuse(r)
           \/ RefreshUser(r) \/ OutAccess(r) \/ OutRefresh(r) \/ RevokeAllBlacklist(r)
  <2>1. session' = session /\ age' = age
    BY <1>2 DEF LoginRecheck, RefreshLookup, handleTokenReuse, FraudTokenReuse, RefreshUser, OutAccess,
                OutRefresh, RevokeAllBlacklist
  <2>2. OpenSessions' \subseteq OpenSessions
    BY <2>1 DEF OpenSessions, unrevoked
  <2>3. {"count", "reuse", "user", "fraud", "blacklist", "list", "outRefresh", "update"} \subseteq Steps \ {"create"}
    BY DEF Steps
  <2>4. Done(r) \/ \E at \in Steps \ {"create"} : Goto(r, at)
    BY <1>2, <2>3 DEF LoginRecheck, RefreshLookup, handleTokenReuse, FraudTokenReuse, RefreshUser, OutAccess,
                OutRefresh, RevokeAllBlacklist
  <2>5. "idle" \in Steps /\ "idle" # "create"
    BY DEF Steps
  <2>6. Creating' \subseteq Creating
    BY <1>0, <2>4, <2>5, MovesElsewhere
  <2> QED BY <2>2, <2>6, LimitKept
<1>3. CASE RefreshBlacklist(r) \/ RevokeAllList(r)
  <2>1. session' = session /\ age' = age
    BY <1>3 DEF RefreshBlacklist, RevokeAllList
  <2>2. OpenSessions' \subseteq OpenSessions
    BY <2>1 DEF OpenSessions, unrevoked
  <2>3. req'[r].at # "create" /\ \A i \in Request : i # r => req'[i] = req[i]
    BY <1>0, <1>3 DEF RefreshBlacklist, RevokeAllList, TypeOK, RequestRecord
  <2> QED BY <2>2, <2>3, CreatingShrinks, LimitKept
<1>4. CASE RevokeOne(r) \/ RevokeAllUpdate(r)
  <2>1. age' = age /\ Done(r) /\ \A p \in Pair : session'[p] = "active" => session[p] = "active"
    BY <1>0, <1>4 DEF RevokeOne, RevokeAllUpdate, TypeOK
  <2>2. Creating' \subseteq Creating
    BY <1>0, <2>1, DoneMoves, CreatingShrinks DEF Moves, Idle
  <2> QED BY <1>0, <2>1, <2>2, OpenShrinks, LimitKept
<1> QED BY <1>1, <1>2, <1>3, <1>4 DEF Continue

\* createSession counts and creates without a lock: for any limit and any number of requests
\* in flight, the sessions exceed the limit by at most the other requests (SessionLimit).
THEOREM LimitSafe == Spec => []SessionLimit
<1>1. Init => SessionLimit
  <2> SUFFICES ASSUME Init PROVE SessionLimit
    OBVIOUS
  <2>1. OpenSessions = {} /\ Creating = {}
    BY DEF Init, OpenSessions, unrevoked, Creating, Idle
  <2>2. Cardinality({}) = 0
    BY FS_EmptySet
  <2>3. Cardinality(OpenSessions) + Cardinality(Creating) <= MAX_SESSIONS + Cardinality(Request) - 1
    BY <2>1, <2>2, CountsFinite, SessionsAssumption
  <2> QED BY <2>3 DEF SessionLimit, OpenSessions, Creating
<1>2. IInv /\ SessionLimit /\ [Next]_vars => SessionLimit'
  <2> SUFFICES ASSUME IInv, SessionLimit, [Next]_vars PROVE SessionLimit'
    OBVIOUS
  <2>0. TypeOK
    BY DEF IInv
  <2>1. CASE UNCHANGED vars
    BY <2>1 DEF vars, SessionLimit, unrevoked
  <2>2. ASSUME NEW r \in Request, login(r) \/ googleOAuthLogin(r) \/ revokeAllSessions(r) \/ deactivate(r)
        PROVE  SessionLimit'
    <3>1. CASE Pair = {}
      <4>1. OpenSessions' = {} /\ Cardinality({}) = 0
        BY <3>1, FS_EmptySet DEF OpenSessions, unrevoked
      <4>2. Cardinality(OpenSessions') + Cardinality(Creating') <= MAX_SESSIONS + Cardinality(Request) - 1
        BY <4>1, CountsFinite, CountsFiniteNext, SessionsAssumption
      <4> QED BY <4>2 DEF SessionLimit, OpenSessions, Creating
    <3>2. CASE Pair # {}
      BY <2>0, <2>2, <3>2, BeginStep
    <3> QED BY <3>1, <3>2
  <2>3. ASSUME NEW r \in Request, NEW p \in Pair, refreshToken(r, p) \/ logout(r, p) \/ logoutAllDevices(r, p)
        PROVE  SessionLimit'
    BY <2>0, <2>3, BeginStep
  <2>4. ASSUME NEW r \in Request, NEW p \in Pair, NEW q \in Pair, revokeSession(r, p, q)
        PROVE  SessionLimit'
    BY <2>0, <2>4, BeginStep
  <2>5. ASSUME NEW r \in Request, Continue(r) PROVE SessionLimit'
    BY <2>5, HandlerStep
  <2>6. CASE AdminBlock \/ (\E p \in Pair : requestDeletion(p) \/ cancelDeletion(p))
             \/ (\E t \in Token : cleanBlacklistedTokens(t))
    <3>1. UNCHANGED <<session, age, req>>
      BY <2>6 DEF AdminBlock, requestDeletion, cancelDeletion, cleanBlacklistedTokens
    <3> QED BY <3>1 DEF SessionLimit, unrevoked
  <2>7. ASSUME NEW p \in Pair, TimePasses(p) \/ cleanExpiredSessions(p) PROVE SessionLimit'
    <3>1. req' = req /\ \A x \in Pair : session'[x] = "active" => session[x] = "active"
      BY <2>0, <2>7 DEF TimePasses, cleanExpiredSessions, TypeOK
    <3>2. age' = age \/ age' = [age EXCEPT ![p] = @ + 1]
      BY <2>7 DEF TimePasses, cleanExpiredSessions
    <3>3. OpenSessions' \subseteq OpenSessions
      BY <2>0, <3>1, <3>2, OpenShrinks
    <3>4. Creating' \subseteq Creating
      BY <3>1 DEF Creating
    <3> QED BY <3>3, <3>4, LimitKept
  <2> QED BY <2>1, <2>2, <2>3, <2>4, <2>5, <2>6, <2>7 DEF Next
<1> QED BY <1>1, <1>2, InitIInv, NextIInv, PTL DEF Spec
=============================================================================
