--------------------------- MODULE AccountsProofs ---------------------------
(***************************************************************************)
(* The invariants of the modules about user accounts, for any users,       *)
(* requests, rows, tokens and limits: one section for each module, and at  *)
(* the end the properties of their composition in MCAccounts.              *)
(***************************************************************************)
EXTENDS MCAccounts, FiniteSetTheorems, TLAPS

-----------------------------------------------------------------------------
\* A passed date is recorded, and so is every candidate that a run of the job
\* still has to handle: the list is stale, what it was read from is not.
PassedRecorded == \A u \in User : scheduled[u] = "past" => u \in passed
TodoPassed == \A j \in Job : job[j].todo \subseteq passed

IInv ==
    /\ TypeOK
    /\ PassedRecorded
    /\ TodoPassed
    /\ NeverDeletedEarly
    /\ DateNeedsDeactivation

\* The initial state satisfies the inductive invariant.
LEMMA InitIInv == Init => IInv
  BY DEF Init, IInv, TypeOK, PassedRecorded, TodoPassed, NeverDeletedEarly,
         DateNeedsDeactivation, IdleJob, IdleReq, Actions

\* recordAudit adds one of the actions to the log.
LEMMA AuditTyped ==
  ASSUME TypeOK, NEW u \in User, NEW action \in Actions, recordAudit(u, action)
  PROVE  audit' \in [User -> SUBSET Actions]
  BY DEF TypeOK, recordAudit

\* login, TokenExpires and SetLegalHold leave dates, jobs and rows alone.
LEMMA QuietStep ==
  ASSUME IInv, NEW u \in User, login(u) \/ TokenExpires(u) \/ SetLegalHold(u)
  PROVE  IInv'
<1>1. CASE login(u) \/ TokenExpires(u)
  BY <1>1 DEF IInv, TypeOK, PassedRecorded, TodoPassed, NeverDeletedEarly,
              DateNeedsDeactivation, login, TokenExpires, rows, history
<1>2. CASE SetLegalHold(u)
  <2>1. legalHold' \in [User -> BOOLEAN]
    BY <1>2 DEF IInv, TypeOK, SetLegalHold
  <2> QED
    BY <1>2, <2>1 DEF IInv, TypeOK, PassedRecorded, TodoPassed, NeverDeletedEarly,
                      DateNeedsDeactivation, SetLegalHold, history
<1> QED BY <1>1, <1>2

\* The progress of the requests keeps its type.
RequestSteps == {"idle", "request", "requested", "cancel", "cancelled", "deactivate", "revoke"}

LEMMA ProgressTyped ==
  ASSUME TypeOK, NEW r \in DeletionReq,
         req' = [req EXCEPT ![r] = IdleReq]
         \/ \E at \in RequestSteps, u \in User : req' = [req EXCEPT ![r] = [at |-> at, u |-> u]]
  PROVE  req' \in [DeletionReq -> [at : RequestSteps, u : User \cup {"none"}]]
<1>1. PICK new \in [at : RequestSteps, u : User \cup {"none"}] : req' = [req EXCEPT ![r] = new]
  <2>1. IdleReq \in [at : RequestSteps, u : User \cup {"none"}]
    BY DEF IdleReq, RequestSteps
  <2>2. \A at \in RequestSteps, u \in User :
           [at |-> at, u |-> u] \in [at : RequestSteps, u : User \cup {"none"}]
    OBVIOUS
  <2> QED BY <2>1, <2>2
<1> QED BY <1>1 DEF TypeOK, RequestSteps

\* The reads of the three handlers only change req, asked and the audit log.
LEMMA ReadStep ==
  ASSUME IInv, NEW r \in DeletionReq, NEW u \in User,
         RequestRead(r, u) \/ CancelRead(r, u) \/ DeactivateRead(r, u)
  PROVE  IInv'
<1>1. UNCHANGED <<rows, signedIn, job, passed, kept, removed>>
  BY DEF RequestRead, CancelRead, DeactivateRead, history
<1>2. audit' \in [User -> SUBSET Actions] /\ asked' \in [User -> Nat]
  BY DEF IInv, TypeOK, RequestRead, CancelRead, DeactivateRead, recordAudit, Actions, history
<1>3. \/ req' = req
      \/ \E at \in RequestSteps : req' = [req EXCEPT ![r] = [at |-> at, u |-> u]]
  BY DEF RequestRead, CancelRead, DeactivateRead, RequestSteps
<1>4. req' \in [DeletionReq -> [at : RequestSteps, u : User \cup {"none"}]]
  BY <1>3, ProgressTyped DEF IInv, TypeOK, RequestSteps
<1> QED BY <1>1, <1>2, <1>4 DEF IInv, TypeOK, RequestSteps, PassedRecorded, TodoPassed,
                                NeverDeletedEarly, DateNeedsDeactivation, rows

\* The updates write isDeactivated and the date together, and never a date
\* that has passed: it does not matter what the request has read before.
LEMMA UpdateStep ==
  ASSUME IInv, NEW r \in DeletionReq, NEW u \in User,
         requestDeletion(r, u) \/ cancelDeletion(r, u) \/ deactivate(r, u)
  PROVE  IInv'
<1>1. UNCHANGED <<exists, legalHold, audit, signedIn, job, asked, passed, removed>>
  BY DEF requestDeletion, cancelDeletion, deactivate
<1>2. req' \in [DeletionReq -> [at : RequestSteps, u : User \cup {"none"}]]
  <2>1. \/ req' = [req EXCEPT ![r] = IdleReq]
        \/ \E at \in RequestSteps : req' = [req EXCEPT ![r] = [at |-> at, u |-> u]]
    BY DEF requestDeletion, cancelDeletion, deactivate, Moves, Ends, RequestSteps
  <2> QED BY <2>1, ProgressTyped DEF IInv
<1>3. \/ UNCHANGED <<isDeactivated, scheduled>>
      \/ \E b \in BOOLEAN, s \in {"none", "future"} :
            /\ isDeactivated' = [isDeactivated EXCEPT ![u] = b]
            /\ scheduled' = [scheduled EXCEPT ![u] = s]
            /\ b = TRUE \/ s = "none"
  BY DEF requestDeletion, cancelDeletion, deactivate
<1>4. kept' \in SUBSET User
  BY DEF requestDeletion, cancelDeletion, deactivate, IInv, TypeOK
<1>5. CASE UNCHANGED <<isDeactivated, scheduled>>
  BY <1>1, <1>2, <1>4, <1>5 DEF IInv, TypeOK, RequestSteps, PassedRecorded, TodoPassed,
                                NeverDeletedEarly, DateNeedsDeactivation
<1>6. ASSUME NEW b \in BOOLEAN, NEW s \in {"none", "future"},
             isDeactivated' = [isDeactivated EXCEPT ![u] = b],
             scheduled' = [scheduled EXCEPT ![u] = s], b = TRUE \/ s = "none"
      PROVE  IInv'
  <2>1. isDeactivated' \in [User -> BOOLEAN] /\ scheduled' \in [User -> {"none", "future", "past"}]
    BY <1>6 DEF IInv, TypeOK
  <2>2. TypeOK'
    BY <1>1, <1>2, <1>4, <2>1 DEF IInv, TypeOK, RequestSteps
  <2>3. PassedRecorded'
    BY <1>1, <1>6 DEF IInv, TypeOK, PassedRecorded
  <2>4. DateNeedsDeactivation'
    <3> SUFFICES ASSUME NEW v \in User, scheduled'[v] # "none" PROVE isDeactivated'[v]
      BY DEF DateNeedsDeactivation
    <3>1. CASE v = u
      BY <1>6, <3>1 DEF IInv, TypeOK
    <3>2. CASE v # u
      <4>1. scheduled'[v] = scheduled[v] /\ isDeactivated'[v] = isDeactivated[v]
        BY <1>6, <3>2 DEF IInv, TypeOK
      <4> QED BY <4>1 DEF IInv, DateNeedsDeactivation
    <3> QED BY <3>1, <3>2
  <2> QED BY <1>1, <2>2, <2>3, <2>4 DEF IInv, TodoPassed, NeverDeletedEarly
<1> QED BY <1>3, <1>5, <1>6

\* What follows the update: the audit entry, the end of the sessions.
LEMMA AfterStep ==
  ASSUME IInv, NEW r \in DeletionReq, NEW u \in User, auditRequest(r, u) \/ endSessions(r, u)
  PROVE  IInv'
<1>1. UNCHANGED <<rows, job, history>> /\ signedIn' \in SUBSET User
  BY DEF auditRequest, endSessions, IInv, TypeOK
<1>2. audit' \in [User -> SUBSET Actions]
  <2>1. "REQUESTED" \in Actions /\ "CANCELLED" \in Actions
    BY DEF Actions
  <2> QED BY <2>1, AuditTyped DEF auditRequest, endSessions, IInv, TypeOK
<1>3. req' \in [DeletionReq -> [at : RequestSteps, u : User \cup {"none"}]]
  BY ProgressTyped DEF IInv, auditRequest, endSessions, Ends
<1> QED BY <1>1, <1>2, <1>3 DEF IInv, TypeOK, RequestSteps, PassedRecorded, TodoPassed,
                                NeverDeletedEarly, DateNeedsDeactivation, rows, history

\* Time and the administrator record what they do.
LEMMA HistoryStep ==
  ASSUME IInv, NEW u \in User, RetentionEnds(u) \/ remove(u)
  PROVE  IInv'
<1>1. CASE RetentionEnds(u)
  BY <1>1 DEF IInv, TypeOK, PassedRecorded, TodoPassed, NeverDeletedEarly,
              DateNeedsDeactivation, RetentionEnds
<1>2. CASE remove(u)
  BY <1>2 DEF IInv, TypeOK, PassedRecorded, TodoPassed, NeverDeletedEarly,
              DateNeedsDeactivation, remove
<1> QED BY <1>1, <1>2

\* A run of the job only ever holds users whose date has passed.
LEMMA JobStep ==
  ASSUME IInv, NEW j \in Job, RunJob(j)
  PROVE  IInv'
<1>1. CASE JobRead(j)
  <2>1. Candidates \subseteq passed
    BY DEF IInv, PassedRecorded, Candidates
  <2>2. Candidates \subseteq User
    BY DEF Candidates
  <2> QED
    BY <1>1, <2>1, <2>2 DEF IInv, TypeOK, PassedRecorded, TodoPassed, NeverDeletedEarly,
                            DateNeedsDeactivation, JobRead, rows, history
<1>2. ASSUME NEW u \in User, JobHeld(j, u)
      PROVE  IInv'
  <2>1. audit' \in [User -> SUBSET Actions]
    BY <1>2 DEF IInv, TypeOK, JobHeld, recordAudit, Actions
  <2> QED
    BY <1>2, <2>1 DEF IInv, TypeOK, PassedRecorded, TodoPassed, NeverDeletedEarly,
                      DateNeedsDeactivation, JobHeld, rows, history
<1>3. ASSUME NEW u \in User, JobDelete(j, u)
      PROVE  IInv'
  <2>1. u \in passed
    BY <1>3 DEF IInv, TodoPassed, JobDelete
  <2>4. /\ job' \in [Job -> [at : {"idle", "loop", "audit"}, todo : SUBSET User,
                             held : SUBSET User, u : User \cup {"none"}]]
        /\ \A i \in Job : job'[i].todo \subseteq job[i].todo
    <3>1. PICK at \in {"loop", "audit"}, v \in User \cup {"none"} :
             job' = [job EXCEPT ![j] = [at |-> at, todo |-> job[j].todo \ {u},
                                        held |-> job[j].held, u |-> v]]
      BY <1>3 DEF IInv, TypeOK, JobDelete
    <3> QED BY <3>1 DEF IInv, TypeOK
  <2>5. /\ exists' \in [User -> BOOLEAN]
        /\ UNCHANGED <<isDeactivated, legalHold, scheduled, audit, signedIn, req, history>>
    BY <1>3 DEF IInv, TypeOK, JobDelete
  <2>2. TypeOK'
    BY <2>4, <2>5 DEF IInv, TypeOK, history
  <2>3. TodoPassed'
    BY <2>4, <2>5 DEF IInv, TodoPassed, history
  <2> QED
    BY <1>3, <2>1, <2>2, <2>3 DEF IInv, TypeOK, PassedRecorded, NeverDeletedEarly,
                                  DateNeedsDeactivation, JobDelete, history
<1>4. CASE JobAudit(j)
  <2>1. audit' \in [User -> SUBSET Actions]
    <3>1. CASE exists[job[j].u] /\ job[j].u \in User
      BY <1>4, <3>1 DEF IInv, TypeOK, JobAudit, recordAudit, Actions
    <3>2. CASE ~exists[job[j].u]
      BY <1>4, <3>2 DEF IInv, TypeOK, JobAudit, recordAudit
    <3>3. CASE job[j].u \notin User
      BY <1>4, <3>3 DEF IInv, TypeOK, JobAudit, recordAudit
    <3> QED BY <3>1, <3>2, <3>3
  <2>2. /\ job' \in [Job -> [at : {"idle", "loop", "audit"}, todo : SUBSET User,
                              held : SUBSET User, u : User \cup {"none"}]]
        /\ \A i \in Job : job'[i].todo = job[i].todo
    <3>1. job' = [job EXCEPT ![j] = [at |-> "loop", todo |-> job[j].todo,
                                     held |-> job[j].held, u |-> "none"]]
      BY <1>4 DEF JobAudit
    <3> QED
      BY <3>1 DEF IInv, TypeOK
  <2>3. UNCHANGED <<exists, isDeactivated, legalHold, scheduled, signedIn, req,
                    asked, passed, kept, removed>>
    BY <1>4 DEF JobAudit, rows, history
  <2> QED
    BY <2>1, <2>2, <2>3 DEF IInv, TypeOK, PassedRecorded, TodoPassed, NeverDeletedEarly,
                      DateNeedsDeactivation
<1>5. CASE JobEnd(j)
  BY <1>5 DEF IInv, TypeOK, PassedRecorded, TodoPassed, NeverDeletedEarly,
              DateNeedsDeactivation, JobEnd, IdleJob, rows, history
<1> QED BY <1>1, <1>2, <1>3, <1>4, <1>5 DEF RunJob

\* Every step preserves the inductive invariant.
LEMMA NextIInv == IInv /\ [Next]_vars => IInv'
<1> SUFFICES ASSUME IInv, [Next]_vars PROVE IInv'
  OBVIOUS
<1>1. CASE UNCHANGED vars
  BY <1>1 DEF IInv, TypeOK, PassedRecorded, TodoPassed, NeverDeletedEarly,
              DateNeedsDeactivation, vars, rows, history
<1>2. CASE Next
  BY <1>2, QuietStep, ReadStep, UpdateStep, AfterStep, HistoryStep, JobStep DEF Next, Handle
<1> QED BY <1>1, <1>2

\* Rows, requests and job runs keep their types.
THEOREM TypeCorrect == Spec => []TypeOK
<1>1. IInv => TypeOK
  BY DEF IInv
<1> QED BY <1>1, InitIInv, NextIInv, PTL DEF Spec

\* performScheduledDeletion never removes a user before a retention period of
\* that user has run out, whatever happens between the query and the delete.
THEOREM DeletionSafe == Spec => []NeverDeletedEarly
<1>1. IInv => NeverDeletedEarly
  BY DEF IInv
<1> QED BY <1>1, InitIInv, NextIInv, PTL DEF Spec

\* Requests, cancellations and deactivations of one user, any number of them between
\* read and update, never leave an active account with a date of removal.
THEOREM DateSafe == Spec => []DateNeedsDeactivation
<1>1. IInv => DateNeedsDeactivation
  BY DEF IInv
<1> QED BY <1>1, InitIInv, NextIInv, PTL DEF Spec

-----------------------------------------------------------------------------
(* The login lockout.                                                      *)

\* Failures stored without a lock, and logins that will store one.
NoLockRows == {i \in DOMAIN attempts : attempts[i].lockedOut = "no"}
NoLockLogins == {r \in LoginReq : logins[r].at = "insert" /\ logins[r].lock = "no"}

\* Each login that has decided not to lock counts as a row.
DecisionsCounted ==
    Cardinality(NoLockRows) + Cardinality(NoLockLogins)
        <= (MaxAttempts - 1) + (Cardinality(LoginReq) - 1)

LLInv == LLTypeOK /\ DecisionsCounted

\* The positions of a sequence.
LEMMA LLInterval ==
  ASSUME NEW n \in Nat
  PROVE  IsFiniteSet(1..n) /\ Cardinality(1..n) = n
<1>1. 1 \in Int /\ n \in Int
  OBVIOUS
<1>2. IsFiniteSet(1..n) /\ Cardinality(1..n) = IF 1 > n THEN 0 ELSE n - 1 + 1
  BY <1>1, FS_Interval
<1>3. (IF 1 > n THEN 0 ELSE n - 1 + 1) = n
  OBVIOUS
<1> QED BY <1>2, <1>3

\* The rows and the logins are finitely many; rows without a lock are rows.
LEMMA LLCounts ==
  ASSUME LLTypeOK
  PROVE  /\ Cardinality(LoginReq) \in Nat /\ Cardinality(LoginReq) >= 1
         /\ \A S \in SUBSET LoginReq : IsFiniteSet(S) /\ Cardinality(S) \in Nat
                                       /\ Cardinality(S) <= Cardinality(LoginReq)
         /\ IsFiniteSet(NoLockRows) /\ Cardinality(NoLockRows) \in Nat
         /\ Cardinality(NoLockRows) <= Len(attempts) /\ Len(attempts) \in Nat
<1>1. Cardinality(LoginReq) \in Nat /\ Cardinality(LoginReq) # 0
  BY LoginLimitsAssumption, FS_CardinalityType, FS_EmptySet
<1>2. \A S \in SUBSET LoginReq : IsFiniteSet(S) /\ Cardinality(S) \in Nat
                                 /\ Cardinality(S) <= Cardinality(LoginReq)
  BY LoginLimitsAssumption, FS_Subset, FS_CardinalityType
<1>3. Len(attempts) \in Nat /\ DOMAIN attempts = 1..Len(attempts)
  BY DEF LLTypeOK
<1>4. IsFiniteSet(1..Len(attempts)) /\ Cardinality(1..Len(attempts)) = Len(attempts)
  BY <1>3, LLInterval
<1>5. NoLockRows \in SUBSET (1..Len(attempts))
  BY <1>3 DEF NoLockRows
<1>6. IsFiniteSet(NoLockRows) /\ Cardinality(NoLockRows) <= Len(attempts)
  BY <1>4, <1>5, FS_Subset
<1> QED BY <1>1, <1>2, <1>3, <1>6, FS_CardinalityType

\* The initial state satisfies the invariant.
LEMMA LLInitInv == LLInit => LLInv
<1> SUFFICES ASSUME LLInit PROVE LLInv
  OBVIOUS
<1>1. LLTypeOK
  BY LoginLimitsAssumption DEF LLInit, LLTypeOK, IdleLogin, Login, LoginAt
<1>2. NoLockRows = {} /\ NoLockLogins = {}
  BY DEF LLInit, NoLockRows, NoLockLogins, IdleLogin
<1>3. Cardinality(LoginReq) \in Nat /\ Cardinality(LoginReq) >= 1
  BY <1>1, LLCounts
<1>4. DecisionsCounted
  BY <1>2, <1>3, FS_EmptySet, LoginLimitsAssumption DEF DecisionsCounted
<1> QED BY <1>1, <1>4 DEF LLInv

\* A step that adds neither rows nor decisions keeps the count.
LEMMA LLFewer ==
  ASSUME LLInv, LLTypeOK', Cardinality(NoLockRows') <= Cardinality(NoLockRows),
         NoLockLogins' \subseteq NoLockLogins
  PROVE  DecisionsCounted'
<1>1. IsFiniteSet(NoLockLogins) /\ Cardinality(NoLockLogins) \in Nat
  BY LLCounts DEF LLInv, NoLockLogins
<1>2. Cardinality(NoLockLogins') <= Cardinality(NoLockLogins)
  BY <1>1, FS_Subset
<1>3. Cardinality(NoLockLogins') \in Nat
  BY <1>1, FS_Subset, FS_CardinalityType
<1>4. Cardinality(NoLockRows) \in Nat /\ Cardinality(LoginReq) \in Nat
  BY LLCounts DEF LLInv
<1>5. IsFiniteSet(NoLockRows')
  <2>1. Len(attempts') \in Nat /\ DOMAIN attempts' = 1..Len(attempts')
    BY DEF LLTypeOK
  <2>2. NoLockRows' \in SUBSET (1..Len(attempts'))
    BY <2>1 DEF NoLockRows
  <2>3. IsFiniteSet(1..Len(attempts'))
    BY <2>1, LLInterval
  <2> QED BY <2>2, <2>3, FS_Subset
<1>6. Cardinality(NoLockRows') \in Nat
  BY <1>5, FS_CardinalityType
<1>7. Cardinality(NoLockRows) + Cardinality(NoLockLogins)
         <= (MaxAttempts - 1) + (Cardinality(LoginReq) - 1)
  BY DEF LLInv, DecisionsCounted
<1>8. MaxAttempts \in Nat
  BY LoginLimitsAssumption
<1>9. Cardinality(NoLockRows') + Cardinality(NoLockLogins')
         <= (MaxAttempts - 1) + (Cardinality(LoginReq) - 1)
  BY <1>1, <1>2, <1>3, <1>4, <1>6, <1>7, <1>8
<1> QED BY <1>9 DEF DecisionsCounted

\* The checks of a login, and its end, leave the rows alone.
LEMMA LLCheckStep ==
  ASSUME LLInv, NEW r \in LoginReq,
         preflightChecks(r) \/ preflightCaptcha(r) \/ verifyCredentials(r)
  PROVE  LLInv'
<1>1. IdleLogin \in Login
  BY LoginLimitsAssumption DEF IdleLogin, Login, LoginAt
<1>2. PICK l \in Login : logins' = [logins EXCEPT ![r] = l] /\ l.at # "insert"
  <2>1. logins \in [LoginReq -> Login]
    BY DEF LLInv, LLTypeOK
  <2>2. ASSUME NEW at \in LoginAt, at # "insert", Goto(r, at)
        PROVE  \E l \in Login : logins' = [logins EXCEPT ![r] = l] /\ l.at # "insert"
    <3>1. [logins[r] EXCEPT !.at = at] \in Login /\ [logins[r] EXCEPT !.at = at].at = at
      BY <2>1 DEF Login
    <3> QED BY <2>2, <3>1 DEF Goto
  <2>3. ASSUME Refuse(r)
        PROVE  \E l \in Login : logins' = [logins EXCEPT ![r] = l] /\ l.at # "insert"
    BY <1>1, <2>3 DEF Refuse, IdleLogin
  <2> QED BY <2>2, <2>3 DEF preflightChecks, preflightCaptcha, verifyCredentials, LoginAt
<1>3. UNCHANGED attempts
  BY DEF preflightChecks, preflightCaptcha, verifyCredentials
<1>4. LLTypeOK'
  BY <1>2, <1>3 DEF LLInv, LLTypeOK
<1>5. NoLockLogins' \subseteq NoLockLogins /\ NoLockRows' = NoLockRows
  BY <1>2, <1>3 DEF NoLockLogins, NoLockRows, LLInv, LLTypeOK
<1>6. Cardinality(NoLockRows) \in Nat
  BY LLCounts DEF LLInv
<1> QED BY <1>4, <1>5, <1>6, LLFewer DEF LLInv

\* recordFailedAttempt decides not to lock only while there are fewer failures than
\* allowed, which leaves room for one row of every login.
LEMMA LLCountStep ==
  ASSUME LLInv, NEW r \in LoginReq, recordFailedAttempt(r)
  PROVE  LLInv'
<1> DEFINE shouldLock == getFailedAttemptsCount + 1 >= MaxAttempts
           l == [at |-> "insert", lock |-> IF shouldLock THEN "yes" ELSE "no",
                 left |-> IF shouldLock THEN LockoutTicks ELSE 0]
<1>1. l \in Login /\ l.lock = (IF shouldLock THEN "yes" ELSE "no")
  BY LoginLimitsAssumption DEF Login, LoginAt
<1>2. logins' = [logins EXCEPT ![r] = l] /\ UNCHANGED attempts
  BY DEF recordFailedAttempt
<1> HIDE DEF l
<1>3. LLTypeOK' /\ NoLockRows' = NoLockRows
  BY <1>1, <1>2 DEF LLInv, LLTypeOK, NoLockRows
<1>4. CASE shouldLock
  <2>1. NoLockLogins' \subseteq NoLockLogins
    BY <1>1, <1>2, <1>4 DEF NoLockLogins, LLInv, LLTypeOK
  <2>2. Cardinality(NoLockRows) \in Nat
    BY LLCounts DEF LLInv
  <2> QED BY <1>3, <2>1, <2>2, LLFewer DEF LLInv
<1>5. CASE ~shouldLock
  <2>1. Len(attempts) + 1 < MaxAttempts /\ Len(attempts) \in Nat
    BY <1>5, LoginLimitsAssumption DEF getFailedAttemptsCount, LLInv, LLTypeOK
  <2>2. Cardinality(NoLockRows) <= Len(attempts) /\ Cardinality(NoLockRows) \in Nat
    BY LLCounts DEF LLInv
  <2>3. /\ Cardinality(NoLockLogins') <= Cardinality(LoginReq)
        /\ Cardinality(NoLockLogins') \in Nat /\ Cardinality(LoginReq) \in Nat
    BY LLCounts DEF LLInv, NoLockLogins
  <2>4. DecisionsCounted'
    BY <1>3, <2>1, <2>2, <2>3, LoginLimitsAssumption DEF DecisionsCounted
  <2> QED BY <1>3, <2>4 DEF LLInv
<1> QED BY <1>4, <1>5

\* InsertFailure turns a decision into a row.
LEMMA LLInsertStep ==
  ASSUME LLInv, NEW r \in LoginReq, InsertFailure(r)
  PROVE  LLInv'
<1> DEFINE f == [age |-> 0, lockedOut |-> logins[r].lock, left |-> logins[r].left]
           n == Len(attempts) + 1
<1>1. f \in Failure /\ f.lockedOut = logins[r].lock
  BY LoginLimitsAssumption DEF LLInv, LLTypeOK, Login, Failure
<1>2. attempts' = Append(attempts, f) /\ Len(attempts) < MaxRows /\ logins' = [logins EXCEPT ![r] = IdleLogin]
  BY DEF InsertFailure, Refuse
<1> HIDE DEF f
<1>3. IdleLogin \in Login
  BY LoginLimitsAssumption DEF IdleLogin, Login, LoginAt
<1>4. attempts \in Seq(Failure) /\ Len(attempts) \in Nat
  BY DEF LLInv, LLTypeOK
<1>5. /\ attempts' \in Seq(Failure) /\ Len(attempts') = n /\ DOMAIN attempts' = 1..n
      /\ attempts'[n] = f /\ \A i \in 1..Len(attempts) : attempts'[i] = attempts[i]
  BY <1>1, <1>2, <1>4
<1>6. LLTypeOK'
  BY <1>2, <1>3, <1>4, <1>5, LoginLimitsAssumption DEF LLInv, LLTypeOK
<1>7. NoLockLogins' = NoLockLogins \ {r}
  BY <1>2 DEF NoLockLogins, IdleLogin, LLInv, LLTypeOK
<1>8. CASE logins[r].lock = "no"
  <2>1. NoLockRows' = NoLockRows \cup {n} /\ n \notin NoLockRows
    BY <1>1, <1>4, <1>5, <1>8 DEF NoLockRows
  <2>2. r \in NoLockLogins
    BY <1>8 DEF NoLockLogins, InsertFailure
  <2>3. Cardinality(NoLockRows \cup {n}) = Cardinality(NoLockRows) + 1
    BY <2>1, LLCounts, FS_AddElement DEF LLInv
  <2>4. IsFiniteSet(NoLockLogins) /\ Cardinality(NoLockLogins) \in Nat /\ Cardinality(NoLockRows) \in Nat
    BY LLCounts DEF LLInv, NoLockLogins
  <2>5. Cardinality(NoLockLogins \ {r}) = Cardinality(NoLockLogins) - 1
    BY <2>2, <2>4, FS_RemoveElement
  <2>6. DecisionsCounted'
    BY <1>7, <2>1, <2>3, <2>4, <2>5 DEF LLInv, DecisionsCounted
  <2> QED BY <1>6, <2>6 DEF LLInv
<1>9. CASE logins[r].lock # "no"
  <2>1. NoLockRows' = NoLockRows
    BY <1>1, <1>4, <1>5, <1>9 DEF NoLockRows
  <2>2. Cardinality(NoLockRows) \in Nat
    BY LLCounts DEF LLInv
  <2> QED BY <1>6, <1>7, <2>1, <2>2, LLFewer DEF LLInv
<1> QED BY <1>8, <1>9

\* unlockAccount clears locks and makes no row count again.
LEMMA LLUnlockStep == LLInv /\ unlockAccount => LLInv'
<1> SUFFICES ASSUME LLInv, unlockAccount PROVE LLInv'
  OBVIOUS
<1>1. attempts \in Seq(Failure) /\ Len(attempts) \in Nat /\ DOMAIN attempts = 1..Len(attempts)
  BY DEF LLInv, LLTypeOK
<1>2. \A i \in DOMAIN attempts :
         attempts'[i] \in Failure /\ (attempts'[i].lockedOut = "no" => attempts[i].lockedOut = "no")
  <2> SUFFICES ASSUME NEW i \in DOMAIN attempts
               PROVE  attempts'[i] \in Failure
                      /\ (attempts'[i].lockedOut = "no" => attempts[i].lockedOut = "no")
    OBVIOUS
  <2>1. attempts[i] \in Failure
    BY <1>1
  <2>2. attempts'[i] = IF attempts[i].left > 0
                       THEN [attempts[i] EXCEPT !.left = 0, !.lockedOut = "cleared"] ELSE attempts[i]
    BY DEF unlockAccount
  <2>3. 0 \in 0..LockoutTicks
    BY LoginLimitsAssumption
  <2>4. CASE attempts[i].left > 0
    BY <2>1, <2>2, <2>3, <2>4 DEF Failure
  <2>5. CASE ~(attempts[i].left > 0)
    BY <2>1, <2>2, <2>5
  <2> QED BY <2>4, <2>5
<1>3. DOMAIN attempts' = 1..Len(attempts) /\ attempts' = [i \in 1..Len(attempts) |-> attempts'[i]]
  BY <1>1 DEF unlockAccount
<1>4. attempts' \in Seq(Failure) /\ Len(attempts') = Len(attempts)
  BY <1>1, <1>2, <1>3
<1>5. LLTypeOK'
  BY <1>4 DEF LLInv, LLTypeOK, unlockAccount
<1>6. NoLockRows' \in SUBSET NoLockRows /\ NoLockLogins' = NoLockLogins
  BY <1>1, <1>2, <1>3 DEF NoLockRows, NoLockLogins, unlockAccount
<1>7. Cardinality(NoLockRows') <= Cardinality(NoLockRows)
  BY <1>6, LLCounts, FS_Subset DEF LLInv
<1> QED BY <1>5, <1>6, <1>7, LLFewer DEF LLInv

\* When time passes the rows that stay move up, and none is added.
LEMMA LLTickStep == LLInv /\ LockTick => LLInv'
<1> SUFFICES ASSUME LLInv, LockTick PROVE LLInv'
  OBVIOUS
<1>1. PICK n \in 0..Len(attempts) :
          /\ \A i \in DOMAIN attempts : i <= n <=> attempts[i].age = LockoutTicks
          /\ attempts' = [i \in 1..(Len(attempts) - n) |->
                [attempts[i + n] EXCEPT !.age = @ + 1, !.left = Minus1(@)]]
  BY DEF LockTick
<1> DEFINE m == Len(attempts) - n
<1>2. /\ attempts \in Seq(Failure) /\ Len(attempts) \in Nat /\ DOMAIN attempts = 1..Len(attempts)
      /\ Len(attempts) <= MaxRows /\ n \in Nat /\ m \in Nat /\ m <= Len(attempts)
  BY DEF LLInv, LLTypeOK
<1>3. \A i \in 1..m : i + n \in 1..Len(attempts) /\ ~(i + n <= n)
  BY <1>2
<1>4. \A i \in 1..m : /\ attempts[i + n] \in Failure /\ attempts[i + n].age # LockoutTicks
  <2> SUFFICES ASSUME NEW i \in 1..m
               PROVE  attempts[i + n] \in Failure /\ attempts[i + n].age # LockoutTicks
    OBVIOUS
  <2>1. i + n \in DOMAIN attempts /\ ~(i + n <= n)
    BY <1>2, <1>3
  <2>2. attempts[i + n] \in Failure
    BY <1>2, <2>1
  <2>3. attempts[i + n].age # LockoutTicks
    BY <1>1, <2>1
  <2> QED BY <2>2, <2>3
<1>5. DOMAIN attempts' = 1..m /\ \A i \in 1..m :
         attempts'[i] \in Failure /\ attempts'[i].lockedOut = attempts[i + n].lockedOut
  <2>1. DOMAIN attempts' = 1..m /\ \A i \in 1..m :
           attempts'[i] = [attempts[i + n] EXCEPT !.age = @ + 1, !.left = Minus1(@)]
    BY <1>1
  <2>2. ASSUME NEW a \in Failure, a.age # LockoutTicks
        PROVE  LET b == [a EXCEPT !.age = @ + 1, !.left = Minus1(@)]
               IN b \in Failure /\ b.lockedOut = a.lockedOut
    <3>1. a.age \in 0..LockoutTicks /\ a.left \in 0..LockoutTicks /\ LockoutTicks \in Nat
      BY LoginLimitsAssumption DEF Failure
    <3>2. a.age + 1 \in 0..LockoutTicks /\ Minus1(a.left) \in 0..LockoutTicks
      BY <2>2, <3>1 DEF Minus1
    <3> QED BY <3>2 DEF Failure
  <2> QED BY <1>4, <2>1, <2>2
<1>6. attempts' \in Seq(Failure) /\ Len(attempts') = m
  <2>1. attempts' = [i \in 1..m |-> attempts'[i]]
    BY <1>1
  <2> HIDE DEF m
  <2> QED BY <1>2, <1>5, <2>1
<1>7. logins' \in [LoginReq -> Login] /\ NoLockLogins' = NoLockLogins
  <2>1. \A k \in 0..LockoutTicks : Minus1(k) \in 0..LockoutTicks
    BY LoginLimitsAssumption DEF Minus1
  <2>2. logins' = [r \in LoginReq |-> [logins[r] EXCEPT !.left = Minus1(@)]]
    BY DEF LockTick
  <2> QED BY <2>1, <2>2 DEF LLInv, LLTypeOK, Login, NoLockLogins
<1>8. LLTypeOK'
  <2>1. Len(attempts') <= MaxRows
    BY <1>2, <1>6, LoginLimitsAssumption
  <2> QED BY <1>6, <1>7, <2>1 DEF LLTypeOK
<1>9. Cardinality(NoLockRows') <= Cardinality(NoLockRows)
  <2> DEFINE g == [i \in NoLockRows' |-> i + n]
  <2>1. NoLockRows' \subseteq 1..m
    BY <1>5 DEF NoLockRows
  <2>2. \A i \in NoLockRows' : i + n \in NoLockRows
    BY <1>2, <1>3, <1>5, <2>1 DEF NoLockRows
  <2>3. \A i, j \in NoLockRows' : i + n = j + n => i = j
    BY <1>2, <2>1
  <2>4. g \in Injection(NoLockRows', NoLockRows)
    BY <2>2, <2>3 DEF Injection, IsInjective
  <2>5. IsFiniteSet(NoLockRows)
    BY LLCounts DEF LLInv
  <2> QED BY <2>4, <2>5, FS_Injection
<1> QED BY <1>7, <1>8, <1>9, LLFewer DEF LLInv

\* Every step preserves the invariant.
LEMMA LLNextInv == LLInv /\ [LLNext]_llVars => LLInv'
<1> SUFFICES ASSUME LLInv, [LLNext]_llVars PROVE LLInv'
  OBVIOUS
<1>1. CASE UNCHANGED llVars
  BY <1>1 DEF llVars, LLInv, LLTypeOK, DecisionsCounted, NoLockRows, NoLockLogins
<1>2. CASE LLNext
  BY <1>2, LLCheckStep, LLCountStep, LLInsertStep, LLUnlockStep, LLTickStep DEF LLNext, LLStep
<1> QED BY <1>1, <1>2

\* The invariant bounds the failures that are stored without a lock.
LEMMA LLInvImplies == LLInv => LLTypeOK /\ FailuresBounded
<1> SUFFICES ASSUME LLInv PROVE FailuresBounded
  BY DEF LLInv
<1>1. Cardinality(NoLockLogins) \in Nat /\ Cardinality(NoLockRows) \in Nat /\ Cardinality(LoginReq) \in Nat
  BY LLCounts DEF LLInv, NoLockLogins
<1>2. Cardinality(NoLockRows) <= (MaxAttempts - 1) + (Cardinality(LoginReq) - 1)
  BY <1>1, LoginLimitsAssumption DEF LLInv, DecisionsCounted
<1> QED BY <1>2 DEF FailuresBounded, NoLockRows

\* Failures without a lock exceed the allowed number by no more than the logins that
\* overlap, for any number of them and any limits.
THEOREM LockoutSafe == LLSpec => [](LLTypeOK /\ FailuresBounded)
  BY LLInitInv, LLNextInv, LLInvImplies, PTL DEF LLSpec

-----------------------------------------------------------------------------
(* Passwords.                                                              *)

Creating == {r \in PwReq : pwReq[r].at = "create"}
Live == {t \in ResetIds : resets[t].st = "live"}
Holding == [t \in ResetIds |-> {r \in PwReq : t \in pwReq[r].token}]

\* The history is never empty, so its head is a password that was in force.
HistoryKept == account.history # <<>> /\ HistoryHeadsPassword

\* Each creation still to come counts as a live token.
CreationsCounted == Cardinality(Live) + Cardinality(Creating) <= Cardinality(PwReq)

\* A token that can still be presented has not been used, and each reset that has
\* passed the check of its token counts as a use.
UnusedWhileLive == \A t \in ResetIds : resets[t].st \in {"none", "live", "expired"} => resets[t].uses = 0
HoldersCounted ==
    \A t \in ResetIds : resets[t].uses + Cardinality(Holding[t]) <= Cardinality(PwReq)

PwRequests == [at : {"idle", "create", "change", "reset"}, new : PasswordSet,
               token : {{}} \union {{t} : t \in ResetIds}]
PwRows == [st : {"none", "live", "expired", "used"}, uses : Nat]

PwAccounts == [password : PasswordSet, history : Seq(PasswordSet), blocked : BOOLEAN]

PwInv == PwTypeOK /\ account \in PwAccounts /\ HistoryKept /\ CreationsCounted /\ UnusedWhileLive /\ HoldersCounted

\* recordPasswordHistory puts the new password first and keeps at most HistoryLimit rows.
LEMMA PwHistoryRecorded ==
  ASSUME NEW h \in Seq(PasswordSet), NEW p \in PasswordSet
  PROVE  LET n == recordPasswordHistory(h, p)
         IN n \in Seq(PasswordSet) /\ Len(n) <= HistoryLimit /\ n # <<>> /\ n[1] = p
<1> DEFINE s == <<p>> \o h
           m == IF Len(s) < HistoryLimit THEN Len(s) ELSE HistoryLimit
<1>1. s \in Seq(PasswordSet) /\ Len(s) = Len(h) + 1 /\ s[1] = p
  OBVIOUS
<1>2. m \in 1..Len(s) /\ m <= HistoryLimit
  BY <1>1, PasswordsAssumption
<1> HIDE DEF s, m
<1>3. LET n == SubSeq(s, 1, m) IN n \in Seq(PasswordSet) /\ Len(n) = m /\ n[1] = s[1]
  BY <1>1, <1>2
<1>4. recordPasswordHistory(h, p) = SubSeq(s, 1, m)
  BY DEF recordPasswordHistory, Take, s, m
<1> QED BY <1>1, <1>2, <1>3, <1>4

\* Sets of requests and of tokens are finite, and no larger than all of them.
LEMMA PwCounts ==
  /\ Cardinality(PwReq) \in Nat
  /\ \A S \in SUBSET PwReq : IsFiniteSet(S) /\ Cardinality(S) \in Nat
                             /\ Cardinality(S) <= Cardinality(PwReq)
  /\ \A S \in SUBSET ResetIds : IsFiniteSet(S) /\ Cardinality(S) \in Nat
  BY PasswordsAssumption, FS_Subset, FS_CardinalityType

\* The initial states satisfy the invariant.
LEMMA PwInitInv == PwInit => PwInv
<1> SUFFICES ASSUME PwInit PROVE PwInv
  OBVIOUS
<1>1. PICK p \in PasswordSet : account = [password |-> p, history |-> <<p>>, blocked |-> FALSE]
  BY DEF PwInit
<1>2. account \in PwAccounts /\ HistoryKept /\ Len(account.history) = 1
  BY <1>1 DEF PwAccounts, HistoryKept, HistoryHeadsPassword
<1>3. PwIdle \in PwRequests
  BY PasswordsAssumption DEF PwIdle, PwRequests
<1>4. PwTypeOK /\ UnusedWhileLive
  BY <1>2, <1>3, PasswordsAssumption DEF PwInit, PwTypeOK, PwAccounts, PwRequests, UnusedWhileLive
<1>5. Live = {} /\ Creating = {} /\ \A t \in ResetIds : Holding[t] = {} /\ resets[t].uses = 0
  BY DEF PwInit, Live, Creating, Holding, PwIdle
<1>6. CreationsCounted /\ HoldersCounted
  BY <1>5, PwCounts, FS_EmptySet DEF CreationsCounted, HoldersCounted
<1> QED BY <1>2, <1>4, <1>6 DEF PwInv

\* Setting the state of one request: who creates, and who holds a token, afterwards.
LEMMA PwRequestSet ==
  ASSUME PwInv, NEW r \in PwReq, NEW q \in PwRequests, pwReq' = [pwReq EXCEPT ![r] = q]
  PROVE  /\ pwReq' \in [PwReq -> PwRequests]
         /\ Creating' = IF q.at = "create" THEN Creating \cup {r} ELSE Creating \ {r}
         /\ \A t \in ResetIds : Holding'[t] = IF t \in q.token THEN Holding[t] \cup {r}
                                              ELSE Holding[t] \ {r}
  BY DEF PwInv, PwTypeOK, PwRequests, Creating, Holding

\* requestPasswordReset leaves no live token: only the creations still to come count.
LEMMA PwRequestStep ==
  ASSUME PwInv, NEW r \in PwReq, requestPasswordReset(r)
  PROVE  PwInv'
<1> DEFINE q == [pwReq[r] EXCEPT !.at = "create"]
<1>1. q \in PwRequests /\ q.token = pwReq[r].token /\ q.at = "create" /\ pwReq' = [pwReq EXCEPT ![r] = q]
  BY DEF PwInv, PwTypeOK, PwRequests, requestPasswordReset
<1>2. pwReq' \in [PwReq -> PwRequests] /\ Holding' = Holding
  <2>1. pwReq' \in [PwReq -> PwRequests]
    BY <1>1, PwRequestSet
  <2>2. \A s \in PwReq : pwReq'[s].token = pwReq[s].token
    BY <1>1 DEF PwInv, PwTypeOK
  <2> QED BY <2>1, <2>2 DEF Holding
<1>3. /\ resets' \in [ResetIds -> PwRows] /\ Live' = {} /\ UnusedWhileLive'
      /\ \A t \in ResetIds : resets'[t].uses = resets[t].uses
  BY DEF PwInv, PwTypeOK, PwRows, Live, UnusedWhileLive, requestPasswordReset
<1>4. CreationsCounted'
  BY <1>3, PwCounts, FS_EmptySet DEF CreationsCounted, Creating
<1>5. HoldersCounted'
  BY <1>2, <1>3 DEF PwInv, HoldersCounted
<1> QED BY <1>2, <1>3, <1>4, <1>5 DEF PwInv, PwTypeOK, PwRequests, PwRows, HistoryKept,
           HistoryHeadsPassword, requestPasswordReset

\* CreateReset turns a creation into a live token.
LEMMA PwCreateStep ==
  ASSUME PwInv, NEW r \in PwReq, CreateReset(r)
  PROVE  PwInv'
<1>1. PICK t \in ResetIds : resets[t].st = "none" /\ resets' = [resets EXCEPT ![t].st = "live"]
  BY DEF CreateReset
<1>2. PwIdle \in PwRequests /\ PwIdle.token = {} /\ PwIdle.at = "idle"
  BY PasswordsAssumption DEF PwIdle, PwRequests
<1>3. /\ pwReq' \in [PwReq -> PwRequests] /\ Creating' = Creating \ {r}
      /\ \A u \in ResetIds : Holding'[u] = Holding[u] \ {r}
  BY <1>2, PwRequestSet DEF CreateReset
<1>4. /\ resets' \in [ResetIds -> PwRows] /\ Live' = Live \cup {t} /\ t \notin Live /\ UnusedWhileLive'
      /\ \A u \in ResetIds : resets'[u].uses = resets[u].uses
  BY <1>1 DEF PwInv, PwTypeOK, PwRows, Live, UnusedWhileLive
<1>5. CreationsCounted'
  <2>1. r \in Creating
    BY DEF Creating, CreateReset
  <2>2. Cardinality(Creating \ {r}) = Cardinality(Creating) - 1
    BY <2>1, PwCounts, FS_RemoveElement DEF Creating
  <2>3. Cardinality(Live \cup {t}) = Cardinality(Live) + 1
    BY <1>4, PwCounts, FS_AddElement DEF Live
  <2>4. Cardinality(Live) \in Nat /\ Cardinality(Creating) \in Nat
    BY PwCounts DEF Live, Creating
  <2> QED BY <1>3, <1>4, <2>2, <2>3, <2>4, PwCounts DEF PwInv, CreationsCounted
<1>6. HoldersCounted'
  <2> SUFFICES ASSUME NEW u \in ResetIds
               PROVE  resets'[u].uses + Cardinality(Holding'[u]) <= Cardinality(PwReq)
    BY DEF HoldersCounted
  <2>1. Cardinality(Holding[u] \ {r}) <= Cardinality(Holding[u])
        /\ Cardinality(Holding[u] \ {r}) \in Nat /\ Cardinality(Holding[u]) \in Nat
    BY PwCounts, FS_Subset DEF Holding
  <2>2. resets[u].uses \in Nat
    BY DEF PwInv, PwTypeOK
  <2>3. resets[u].uses + Cardinality(Holding[u]) <= Cardinality(PwReq)
    BY DEF PwInv, HoldersCounted
  <2>4. Holding'[u] = Holding[u] \ {r} /\ resets'[u].uses = resets[u].uses
    BY <1>3, <1>4
  <2>5. Cardinality(PwReq) \in Nat
    BY PwCounts
  <2> QED BY <2>1, <2>2, <2>3, <2>4, <2>5
<1> QED BY <1>3, <1>4, <1>5, <1>6 DEF PwInv, PwTypeOK, PwRequests, PwRows, HistoryKept,
           HistoryHeadsPassword, CreateReset

\* The checks of a reset or a change: the token they hold is live, so it has no use yet.
LEMMA PwCheckStep ==
  ASSUME PwInv, NEW r \in PwReq,
         changePassword(r) \/ \E t \in ResetIds : resetPassword(r, t)
  PROVE  PwInv'
<1>1. PICK q \in PwRequests :
         /\ pwReq' = [pwReq EXCEPT ![r] = q] /\ q.at \in {"change", "reset"}
         /\ \A t \in q.token : t \in ResetIds /\ resets[t].st = "live"
  <2>1. CASE changePassword(r)
    <3>1. PICK p \in PasswordSet : pwReq' = [pwReq EXCEPT ![r] = [at |-> "change", new |-> p, token |-> {}]]
      BY <2>1 DEF changePassword
    <3>2. [at |-> "change", new |-> p, token |-> {}] \in PwRequests
      BY DEF PwRequests
    <3> QED BY <3>1, <3>2
  <2>2. CASE \E t \in ResetIds : resetPassword(r, t)
    <3>1. PICK t \in ResetIds, p \in PasswordSet : resets[t].st = "live" /\
             pwReq' = [pwReq EXCEPT ![r] = [at |-> "reset", new |-> p, token |-> {t}]]
      BY <2>2 DEF resetPassword
    <3>2. [at |-> "reset", new |-> p, token |-> {t}] \in PwRequests
      BY DEF PwRequests
    <3> QED BY <3>1, <3>2
  <2> QED BY <2>1, <2>2
<1>2. UNCHANGED <<account, resets>>
  BY DEF changePassword, resetPassword
<1>3. /\ pwReq' \in [PwReq -> PwRequests] /\ Creating' = Creating \ {r}
      /\ \A t \in ResetIds : Holding'[t] = IF t \in q.token THEN Holding[t] \cup {r}
                                           ELSE Holding[t] \ {r}
  BY <1>1, PwRequestSet
<1>4. CreationsCounted'
  <2>1. Live' = Live
    BY <1>2 DEF Live
  <2>2. /\ Cardinality(Creating \ {r}) <= Cardinality(Creating) /\ Cardinality(Live) \in Nat
        /\ Cardinality(Creating \ {r}) \in Nat /\ Cardinality(Creating) \in Nat
    BY PwCounts, FS_Subset DEF Creating, Live
  <2> QED BY <1>3, <2>1, <2>2, PwCounts DEF PwInv, CreationsCounted
<1>5. HoldersCounted'
  <2> SUFFICES ASSUME NEW u \in ResetIds
               PROVE  resets[u].uses + Cardinality(Holding'[u]) <= Cardinality(PwReq)
    BY <1>2 DEF HoldersCounted
  <2>1. CASE u \in q.token
    <3>1. resets[u].uses = 0
      BY <1>1, <2>1 DEF PwInv, UnusedWhileLive
    <3> QED BY <3>1, PwCounts DEF Holding
  <2>2. CASE u \notin q.token
    <3>1. Cardinality(Holding[u] \ {r}) <= Cardinality(Holding[u])
          /\ Cardinality(Holding[u] \ {r}) \in Nat /\ Cardinality(Holding[u]) \in Nat
      BY PwCounts, FS_Subset DEF Holding
    <3>2. resets[u].uses \in Nat
      BY DEF PwInv, PwTypeOK
    <3>3. resets[u].uses + Cardinality(Holding[u]) <= Cardinality(PwReq)
      BY DEF PwInv, HoldersCounted
    <3>4. Holding'[u] = Holding[u] \ {r}
      BY <1>3, <2>2
    <3>5. Cardinality(PwReq) \in Nat
      BY PwCounts
    <3> QED BY <3>1, <3>2, <3>3, <3>4, <3>5
  <2> QED BY <2>1, <2>2
<1> QED BY <1>2, <1>3, <1>4, <1>5 DEF PwInv, PwTypeOK, PwRequests, HistoryKept,
           HistoryHeadsPassword, UnusedWhileLive

\* The transaction that sets a password turns a holder of the token into a use of it.
LEMMA PwCommitStep ==
  ASSUME PwInv, NEW r \in PwReq, CommitPassword(r)
  PROVE  PwInv'
<1> DEFINE q == pwReq[r]
<1>1. q \in PwRequests
  BY DEF PwInv, PwTypeOK, PwRequests
<1>2. PwIdle \in PwRequests /\ PwIdle.token = {} /\ PwIdle.at = "idle"
  BY PasswordsAssumption DEF PwIdle, PwRequests
<1>3. /\ pwReq' \in [PwReq -> PwRequests] /\ Creating' = Creating \ {r}
      /\ \A t \in ResetIds : Holding'[t] = Holding[t] \ {r}
  BY <1>2, PwRequestSet DEF CommitPassword
<1>4. account' \in PwAccounts /\ HistoryKept' /\ Len(account'.history) <= HistoryLimit
  <2> DEFINE h == recordPasswordHistory(account.history, q.new)
  <2>1. h \in Seq(PasswordSet) /\ Len(h) <= HistoryLimit /\ h # <<>> /\ h[1] = q.new
    BY <1>1, PwHistoryRecorded DEF PwInv, PwAccounts, PwRequests
  <2>2. account' = [account EXCEPT !.password = q.new, !.history = h]
    BY DEF CommitPassword
  <2>3. account \in PwAccounts /\ q.new \in PasswordSet
    BY <1>1 DEF PwInv, PwRequests
  <2> HIDE DEF h
  <2> QED BY <2>1, <2>2, <2>3 DEF PwAccounts, HistoryKept, HistoryHeadsPassword
<1>5. /\ resets' \in [ResetIds -> PwRows] /\ Live' \subseteq Live /\ UnusedWhileLive'
      /\ \A t \in ResetIds : resets'[t].uses = IF t \in q.token THEN resets[t].uses + 1 ELSE resets[t].uses
  BY DEF PwInv, PwTypeOK, PwRows, Live, UnusedWhileLive, CommitPassword
<1>6. CreationsCounted'
  <2>1. /\ Cardinality(Creating \ {r}) <= Cardinality(Creating) /\ Cardinality(Live') <= Cardinality(Live)
        /\ Cardinality(Creating \ {r}) \in Nat /\ Cardinality(Creating) \in Nat
        /\ Cardinality(Live) \in Nat /\ Cardinality(Live') \in Nat
    BY <1>5, PwCounts, FS_Subset DEF Creating, Live
  <2> QED BY <1>3, <2>1, PwCounts DEF PwInv, CreationsCounted
<1>7. HoldersCounted'
  <2> SUFFICES ASSUME NEW u \in ResetIds
               PROVE  resets'[u].uses + Cardinality(Holding'[u]) <= Cardinality(PwReq)
    BY DEF HoldersCounted
  <2>1. r \in Holding[u] <=> u \in q.token
    BY DEF Holding
  <2>2. Cardinality(Holding[u] \ {r}) = IF r \in Holding[u] THEN Cardinality(Holding[u]) - 1
                                        ELSE Cardinality(Holding[u])
    BY PwCounts, FS_RemoveElement DEF Holding
  <2>3. Cardinality(Holding[u]) \in Nat /\ resets[u].uses \in Nat
    BY PwCounts DEF Holding, PwInv, PwTypeOK
  <2>4. resets[u].uses + Cardinality(Holding[u]) <= Cardinality(PwReq)
    BY DEF PwInv, HoldersCounted
  <2>5. Holding'[u] = Holding[u] \ {r}
    BY <1>3
  <2>6. resets'[u].uses = IF u \in q.token THEN resets[u].uses + 1 ELSE resets[u].uses
    BY <1>5
  <2>7. Cardinality(PwReq) \in Nat
    BY PwCounts
  <2> QED BY <2>1, <2>2, <2>3, <2>4, <2>5, <2>6, <2>7
<1> QED BY <1>3, <1>4, <1>5, <1>6, <1>7 DEF PwInv, PwTypeOK, PwAccounts, PwRequests, PwRows

\* Tokens that run out or are deleted, and the block of the account.
LEMMA PwOtherStep ==
  ASSUME PwInv,
         SetBlocked \/ \E t \in ResetIds : ResetExpires(t) \/ cleanPasswordResetTokens(t)
  PROVE  PwInv'
<1>1. CASE SetBlocked
  <2>1. account' \in PwAccounts /\ account'.history = account.history /\ account'.password = account.password
    BY <1>1 DEF PwInv, PwAccounts, SetBlocked
  <2> QED BY <1>1, <2>1 DEF SetBlocked, PwInv, PwTypeOK, PwAccounts, HistoryKept, HistoryHeadsPassword,
             CreationsCounted, Live, Creating, UnusedWhileLive, HoldersCounted, Holding
<1>2. CASE \E t \in ResetIds : ResetExpires(t) \/ cleanPasswordResetTokens(t)
  <2>1. UNCHANGED <<account, pwReq>> /\ Creating' = Creating /\ \A t \in ResetIds : Holding'[t] = Holding[t]
    BY <1>2 DEF ResetExpires, cleanPasswordResetTokens, Creating, Holding
  <2>2. /\ resets' \in [ResetIds -> PwRows] /\ Live' \subseteq Live /\ UnusedWhileLive'
        /\ \A t \in ResetIds : resets'[t].uses <= resets[t].uses /\ resets[t].uses \in Nat /\ resets'[t].uses \in Nat
    <3>1. CASE \E t \in ResetIds : ResetExpires(t)
      BY <3>1 DEF ResetExpires, PwInv, PwTypeOK, PwRows, Live, UnusedWhileLive
    <3>2. CASE \E t \in ResetIds : cleanPasswordResetTokens(t)
      BY <3>2 DEF cleanPasswordResetTokens, PwInv, PwTypeOK, PwRows, Live, UnusedWhileLive
    <3> QED BY <1>2, <3>1, <3>2
  <2>3. CreationsCounted'
    <3>1. /\ Cardinality(Live') <= Cardinality(Live) /\ Cardinality(Live) \in Nat
          /\ Cardinality(Live') \in Nat /\ Cardinality(Creating) \in Nat
      BY <2>2, PwCounts, FS_Subset DEF Creating, Live
    <3> QED BY <2>1, <3>1, PwCounts DEF PwInv, CreationsCounted
  <2>4. HoldersCounted'
    <3>1. \A t \in ResetIds : Cardinality(Holding[t]) \in Nat
      BY PwCounts DEF Holding
    <3> QED BY <2>1, <2>2, <3>1, PwCounts DEF PwInv, HoldersCounted
  <2> QED BY <2>1, <2>2, <2>3, <2>4 DEF PwInv, PwTypeOK, PwRows, HistoryKept, HistoryHeadsPassword
<1> QED BY <1>1, <1>2

\* Every step preserves the invariant.
LEMMA PwNextInv == PwInv /\ [PwNext]_pwVars => PwInv'
<1> SUFFICES ASSUME PwInv, [PwNext]_pwVars PROVE PwInv'
  OBVIOUS
<1>1. CASE UNCHANGED pwVars
  BY <1>1 DEF pwVars, PwInv, PwTypeOK, PwAccounts, HistoryKept, HistoryHeadsPassword,
     CreationsCounted, Live, Creating, UnusedWhileLive, HoldersCounted, Holding
<1>2. CASE PwNext
  BY <1>2, PwRequestStep, PwCreateStep, PwCheckStep, PwCommitStep, PwOtherStep DEF PwNext
<1> QED BY <1>1, <1>2

\* What the invariant says of the properties of the runs.
LEMMA PwInvImplies ==
  PwInv => PwTypeOK /\ HistoryHeadsPassword /\ LiveResetsBounded /\ ResetUsesBounded
<1> SUFFICES ASSUME PwInv PROVE LiveResetsBounded /\ ResetUsesBounded
  BY DEF PwInv, HistoryKept
<1>1. LiveResetsBounded
  <2>1. Cardinality(Live) \in Nat /\ Cardinality(Creating) \in Nat
    BY PwCounts DEF Live, Creating
  <2> QED BY <2>1, PwCounts DEF PwInv, CreationsCounted, LiveResetsBounded, Live
<1>2. ResetUsesBounded
  <2> SUFFICES ASSUME NEW t \in ResetIds PROVE resets[t].uses <= Cardinality(PwReq)
    BY DEF ResetUsesBounded
  <2>1. Cardinality(Holding[t]) \in Nat /\ resets[t].uses \in Nat
    BY PwCounts DEF Holding, PwInv, PwTypeOK
  <2> QED BY <2>1, PwCounts DEF PwInv, HoldersCounted
<1> QED BY <1>1, <1>2

\* Whatever changes and resets overlap: the password in force heads its history, and
\* live tokens and the uses of one token are bounded by the requests that overlap.
THEOREM PasswordsSafe ==
  PwSpec => [](PwTypeOK /\ HistoryHeadsPassword /\ LiveResetsBounded /\ ResetUsesBounded)
  BY PwInitInv, PwNextInv, PwInvImplies, PTL DEF PwSpec

-----------------------------------------------------------------------------
(* E-mail addresses.  A token that is out, or that a request has presented, *)
(* was sent to an address; a request that mails a token has one in hand.    *)
EmSent == /\ usr.token # 0 => sentTo[usr.token] # NoAddress
          /\ usr.email = NoAddress =>
                ~usr.verified /\ \A r \in EmailReq : emReq[r].op = "idle"
          /\ \A r \in EmailReq :
               /\ emReq[r].op \in {"verify", "verifyChange"} =>
                     emReq[r].token # 0 /\ sentTo[emReq[r].token] # NoAddress
               /\ emReq[r].op \in {"resendFirst", "change", "resend", "verifyChange"} =>
                     emReq[r].address # NoAddress

(* As long as no write was based on an outdated read, the token that is out *)
(* was sent to the pending address, and what a request has read still holds. *)
EmRow == /\ usr.token # 0 /\ usr.pending # NoAddress => sentTo[usr.token] = usr.pending
         /\ ~usr.verified => usr.pending = NoAddress

EmReads == \A r \in EmailReq :
    /\ emReq[r].op \in {"change", "resend", "verifyChange"} => usr.verified
    /\ ~emReq[r].stale =>
         /\ emReq[r].op = "verifyChange" => sentTo[emReq[r].token] = emReq[r].address
         /\ emReq[r].op = "resendFirst" => usr.pending = NoAddress
         /\ emReq[r].op = "resend" => emReq[r].address = usr.pending
         /\ emReq[r].op = "clear" => emReq[r].address \in {usr.pending, NoAddress}

EmInv == EmTypeOK /\ EmSent /\ (~raced => EmRow /\ EmReads)

\* At first there is no user, no token and no request.
LEMMA EmInitInv == EmInit => EmInv
<1> SUFFICES ASSUME EmInit PROVE EmInv
  OBVIOUS
<1>1. /\ usr.email = NoAddress /\ usr.pending = NoAddress /\ usr.token = 0 /\ ~usr.verified
      /\ usr \in [email : MaybeAddress, pending : MaybeAddress, token : 0..MaxTokens,
                  expired : BOOLEAN, verified : BOOLEAN, ip : BOOLEAN]
  BY EmailsAssumption DEF EmInit, MaybeAddress
<1>2. /\ EmIdle.op = "idle"
      /\ EmIdle \in [op : EmOps, token : 0..MaxTokens, address : MaybeAddress, stale : BOOLEAN]
  BY EmailsAssumption DEF EmIdle, EmOps, MaybeAddress
<1>3. EmTypeOK
  BY <1>1, <1>2 DEF EmInit, EmTypeOK, MaybeAddress
<1>4. EmSent /\ EmRow /\ EmReads
  BY <1>1, <1>2 DEF EmInit, EmSent, EmRow, EmReads
<1> QED BY <1>3, <1>4 DEF EmInv

EmRequests == [op : EmOps, token : 0..MaxTokens, address : MaybeAddress, stale : BOOLEAN]
EmRows == [email : MaybeAddress, pending : MaybeAddress, token : 0..MaxTokens,
           expired : BOOLEAN, verified : BOOLEAN, ip : BOOLEAN]

(* Reading the row keeps the invariant when what is read agrees with it. *)
LEMMA EmReadStep ==
  ASSUME EmInv, NEW r \in EmailReq, NEW op \in EmOps, NEW t \in 0..MaxTokens, NEW a \in MaybeAddress,
         Read(r, op, t, a),
         op \in {"verify", "verifyChange"} => t # 0 /\ sentTo[t] # NoAddress,
         op \in {"resendFirst", "change", "resend", "verifyChange"} => a # NoAddress,
         op \in {"change", "resend", "verifyChange"} => usr.verified,
         ~raced => /\ op = "verifyChange" => sentTo[t] = a
                   /\ op = "resendFirst" => usr.pending = NoAddress
                   /\ op = "resend" => a = usr.pending
                   /\ op = "clear" => a \in {usr.pending, NoAddress}
  PROVE  EmInv'
<1> DEFINE rec == [op |-> op, token |-> t, address |-> a, stale |-> FALSE]
<1>0. rec \in EmRequests
  BY DEF EmRequests
<1>1. emReq \in [EmailReq -> EmRequests]
  BY DEF EmInv, EmTypeOK, EmRequests
<1>2. /\ emReq' = [emReq EXCEPT ![r] = rec] /\ usr' = usr /\ sentTo' = sentTo
      /\ proved' = proved /\ raced' = raced
  BY DEF Read
<1>2a. rec.op = op /\ rec.token = t /\ rec.address = a /\ rec.stale = FALSE
  OBVIOUS
<1> HIDE DEF rec
<1>3. emReq' \in [EmailReq -> EmRequests]
  BY <1>0, <1>1, <1>2
<1>4. \A s \in EmailReq : emReq'[s] = IF s = r THEN rec ELSE emReq[s]
  BY <1>1, <1>2
<1>5. EmTypeOK'
  BY <1>2, <1>3 DEF EmInv, EmTypeOK, EmRequests
<1>6. EmSent'
  BY <1>2, <1>2a, <1>4 DEF EmInv, EmSent, Read
<1>7. ~raced' => EmRow'
  BY <1>2 DEF EmInv, EmRow
<1>8. ~raced' => EmReads'
  BY <1>2, <1>2a, <1>4 DEF EmInv, EmReads
<1> QED BY <1>5, <1>6, <1>7, <1>8 DEF EmInv

\* The requests that read the row check, or copy, just what the invariant asks.
LEMMA EmReadActions ==
  ASSUME EmInv, NEW r \in EmailReq,
         \/ verifyInitialEmail(r) \/ resendEmailVerification(r) \/ requestEmailChange(r)
         \/ resendVerification(r) \/ verifyEmailChange(r) \/ cancelEmailChange(r)
  PROVE  EmInv'
<1> USE EmailsAssumption
<1>1. usr \in EmRows /\ 0 \in 0..MaxTokens /\ NoAddress \in MaybeAddress
  BY DEF EmInv, EmTypeOK, EmRows, MaybeAddress
<1>2. /\ usr.email \in MaybeAddress /\ usr.pending \in MaybeAddress /\ usr.token \in 0..MaxTokens
      /\ Addresses \subseteq MaybeAddress /\ NoAddress \notin Addresses
  BY <1>1 DEF EmRows, MaybeAddress, NoAddress
<1>3. {"clear", "verify", "resendFirst", "change", "resend", "verifyChange"} \subseteq EmOps
  BY DEF EmOps
<1>4. usr.token # 0 => sentTo[usr.token] # NoAddress
  BY DEF EmInv, EmSent
<1>5. ~raced => EmRow
  BY DEF EmInv
<1>6. CASE verifyInitialEmail(r)
  <2>1. CASE Read(r, "clear", 0, usr.pending)
    BY <2>1, <1>1, <1>2, <1>3, EmReadStep
  <2>2. CASE usr.token # 0 /\ Read(r, "verify", usr.token, NoAddress)
    BY <2>2, <1>1, <1>2, <1>3, <1>4, EmReadStep
  <2> QED BY <1>6, <2>1, <2>2 DEF verifyInitialEmail
<1>7. CASE resendEmailVerification(r)
  <2>1. usr.email # NoAddress /\ Read(r, "resendFirst", 0, usr.email) /\ ~usr.verified
    BY <1>7 DEF resendEmailVerification, Read
  <2> QED BY <2>1, <1>1, <1>2, <1>3, <1>5, EmReadStep DEF EmRow
<1>8. CASE requestEmailChange(r)
  <2>1. PICK a \in Addresses : Read(r, "change", 0, a) /\ usr.verified
    BY <1>8 DEF requestEmailChange
  <2>2. a # NoAddress /\ a \in MaybeAddress
    BY <1>2
  <2> QED BY <2>1, <2>2, <1>1, <1>2, <1>3, <1>5, EmReadStep
<1>9. CASE resendVerification(r)
  <2>1. usr.pending # NoAddress /\ Read(r, "resend", 0, usr.pending) /\ usr.verified
    BY <1>9 DEF resendVerification
  <2> QED BY <2>1, <1>1, <1>2, <1>3, EmReadStep
<1>10. CASE verifyEmailChange(r)
  <2>1. CASE Read(r, "clear", 0, NoAddress)
    BY <2>1, <1>1, <1>2, <1>3, EmReadStep
  <2>2. CASE usr.verified /\ usr.token # 0 /\ usr.pending # NoAddress /\ Read(r, "verifyChange", usr.token, usr.pending)
    <3>1. ~raced => sentTo[usr.token] = usr.pending
      BY <2>2, <1>5 DEF EmRow
    <3> QED BY <2>2, <3>1, <1>1, <1>2, <1>3, <1>4, EmReadStep
  <2> QED BY <1>10, <2>1, <2>2 DEF verifyEmailChange
<1>11. CASE cancelEmailChange(r)
  <2>1. Read(r, "clear", 0, NoAddress)
    BY <1>11 DEF cancelEmailChange
  <2> QED BY <2>1, <1>1, <1>2, <1>3, EmReadStep
<1> QED BY <1>6, <1>7, <1>8, <1>9, <1>10, <1>11

(* A write keeps the invariant when the row it stores does; the reads of    *)
(* the other requests are marked out of date.                               *)
LEMMA EmWriteStep ==
  ASSUME EmInv, NEW r \in EmailReq, NEW row \in EmRows, NEW sent \in [1..MaxTokens -> MaybeAddress],
         Write(r, row, sent), proved' \subseteq Addresses,
         row.token # 0 => sent[row.token] # NoAddress, row.email # NoAddress,
         \A t \in 1..MaxTokens : sentTo[t] # NoAddress => sent[t] # NoAddress,
         ~raced' => /\ row.token # 0 /\ row.pending # NoAddress => sent[row.token] = row.pending
                    /\ ~row.verified => row.pending = NoAddress
                    /\ usr.verified => row.verified
  PROVE  EmInv'
<1>1. emReq \in [EmailReq -> EmRequests] /\ raced \in BOOLEAN
  BY DEF EmInv, EmTypeOK, EmRequests
<1>2. usr' = row /\ sentTo' = sent
  BY DEF Write
<1>3. EmIdle \in EmRequests /\ EmIdle.op = "idle"
  BY EmailsAssumption DEF EmIdle, EmRequests, EmOps, MaybeAddress
<1>4. \A s \in EmailReq : emReq[s] \in EmRequests
  BY <1>1
<1>5. \A s \in EmailReq : emReq'[s] = IF s = r \/ emReq[s].op = "idle" THEN EmIdle
                                        ELSE [emReq[s] EXCEPT !.stale = TRUE]
  BY DEF Write
<1>6. \A s \in EmailReq : /\ emReq'[s] \in EmRequests
                            /\ \/ emReq'[s].op = "idle"
                               \/ /\ emReq'[s].op = emReq[s].op /\ emReq'[s].token = emReq[s].token
                                  /\ emReq'[s].address = emReq[s].address /\ emReq'[s].stale
  <2> SUFFICES ASSUME NEW s \in EmailReq
               PROVE  /\ emReq'[s] \in EmRequests
                      /\ \/ emReq'[s].op = "idle"
                         \/ /\ emReq'[s].op = emReq[s].op /\ emReq'[s].token = emReq[s].token
                            /\ emReq'[s].address = emReq[s].address /\ emReq'[s].stale
    OBVIOUS
  <2>1. CASE s = r \/ emReq[s].op = "idle"
    BY <2>1, <1>3, <1>5
  <2>2. CASE ~(s = r \/ emReq[s].op = "idle")
    <3>1. emReq'[s] = [emReq[s] EXCEPT !.stale = TRUE]
      BY <2>2, <1>5
    <3> QED BY <3>1, <1>4 DEF EmRequests
  <2> QED BY <2>1, <2>2
<1>7. DOMAIN emReq' = EmailReq /\ emReq' = [s \in EmailReq |-> emReq'[s]]
  BY DEF Write
<1>8. emReq' \in [EmailReq -> EmRequests]
  BY <1>6, <1>7
<1>9. raced' \in BOOLEAN /\ (raced => raced')
  BY <1>1, <1>4 DEF Write, EmRequests
<1>10. EmTypeOK'
  BY <1>2, <1>8, <1>9 DEF EmTypeOK, EmRequests, EmRows
<1>11. EmSent'
  <2>1. \A s \in EmailReq : emReq[s].token # 0 => emReq[s].token \in 1..MaxTokens
    BY <1>4, EmailsAssumption DEF EmRequests
  <2> QED BY <1>2, <1>6, <2>1 DEF EmInv, EmSent
<1>12. ~raced' => EmRow'
  BY <1>2 DEF EmRow
<1>13. ~raced' => EmReads'
  BY <1>2, <1>6, <1>9 DEF EmInv, EmReads
<1> QED BY <1>10, <1>11, <1>12, <1>13 DEF EmInv

\* The second query of a request: clear, verify, store a token, change the address.
LEMMA EmWriteActions ==
  ASSUME EmInv, NEW r \in EmailReq,
         ClearToken(r) \/ CommitVerify(r) \/ StoreToken(r) \/ CommitChange(r)
  PROVE  EmInv'
<1> USE EmailsAssumption
<1>1. usr \in EmRows /\ sentTo \in [1..MaxTokens -> MaybeAddress] /\ proved \subseteq Addresses /\ raced \in BOOLEAN
  BY DEF EmInv, EmTypeOK, EmRows
<1>2. emReq[r] \in EmRequests
  BY DEF EmInv, EmTypeOK, EmRequests
<1>3. NoAddress \in MaybeAddress /\ 0 \in 0..MaxTokens
  BY DEF MaybeAddress
<1>4. raced' = (raced \/ emReq[r].stale)
  BY DEF ClearToken, CommitVerify, StoreToken, CommitChange, Write
<1>5. ~raced' => ~raced /\ ~emReq[r].stale /\ EmRow /\ EmReads
  BY <1>4, <1>1, <1>2 DEF EmInv, EmRequests
<1>5a. usr.email # NoAddress
  <2>1. emReq[r].op # "idle"
    BY DEF ClearToken, CommitVerify, StoreToken, CommitChange
  <2> QED BY <2>1 DEF EmInv, EmSent
<1>6. CASE ClearToken(r)
  <2> DEFINE row == [usr EXCEPT !.token = 0, !.expired = FALSE, !.pending = emReq[r].address]
  <2>1. /\ row \in EmRows /\ row.token = 0 /\ row.pending = emReq[r].address
        /\ row.verified = usr.verified /\ row.email = usr.email
    BY <1>1, <1>2, <1>3 DEF EmRows, EmRequests
  <2>2. Write(r, row, sentTo) /\ proved' = proved /\ emReq[r].op = "clear"
    BY <1>6 DEF ClearToken
  <2> HIDE DEF row
  <2>3. ~raced' => emReq[r].address \in {usr.pending, NoAddress}
    BY <1>5, <2>2 DEF EmReads
  <2> QED BY <1>1, <1>5, <1>5a, <2>1, <2>2, <2>3, EmWriteStep DEF EmRow
<1>7. CASE CommitVerify(r)
  <2> DEFINE row == [usr EXCEPT !.verified = TRUE, !.token = 0, !.expired = FALSE]
  <2>1. /\ row \in EmRows /\ row.token = 0 /\ row.pending = usr.pending
        /\ row.verified = TRUE /\ row.email = usr.email
    BY <1>1, <1>2, <1>3 DEF EmRows
  <2>2. Write(r, row, sentTo) /\ proved' = proved \union {sentTo[emReq[r].token]} /\ emReq[r].op = "verify"
    BY <1>7 DEF CommitVerify
  <2> HIDE DEF row
  <2>3. emReq[r].token \in 1..MaxTokens /\ sentTo[emReq[r].token] \in Addresses
    <3>1. emReq[r].token # 0 /\ sentTo[emReq[r].token] # NoAddress
      BY <2>2 DEF EmInv, EmSent
    <3>2. emReq[r].token \in 1..MaxTokens
      BY <3>1, <1>2 DEF EmRequests
    <3> QED BY <3>1, <3>2, <1>1 DEF MaybeAddress
  <2>4. proved' \subseteq Addresses
    BY <1>1, <2>2, <2>3
  <2> QED BY <1>1, <1>5, <1>5a, <2>1, <2>2, <2>4, EmWriteStep DEF EmRow
<1>8. CASE StoreToken(r)
  <2>1. PICK t \in Fresh : Write(r, [usr EXCEPT !.token = t, !.expired = FALSE,
            !.pending = IF emReq[r].op = "change" THEN emReq[r].address ELSE @],
            [sentTo EXCEPT ![t] = emReq[r].address])
    BY <1>8 DEF StoreToken
  <2>2. t \in 1..MaxTokens /\ t \in 0..MaxTokens /\ t # 0
    BY DEF Fresh
  <2>3. proved' = proved /\ emReq[r].op \in {"resendFirst", "change", "resend"}
    BY <1>8 DEF StoreToken
  <2>4. emReq[r].address # NoAddress /\ emReq[r].address \in MaybeAddress
    BY <2>3, <1>2 DEF EmInv, EmSent, EmRequests
  <2> DEFINE pend == IF emReq[r].op = "change" THEN emReq[r].address ELSE usr.pending
             row == [usr EXCEPT !.token = t, !.expired = FALSE, !.pending = pend]
             sent == [sentTo EXCEPT ![t] = emReq[r].address]
  <2>5. pend \in MaybeAddress
    BY <1>1, <2>4 DEF EmRows
  <2>6. Write(r, row, sent)
    BY <2>1
  <2> HIDE DEF pend
  <2>7. /\ row \in EmRows /\ row.token = t /\ row.pending = pend
        /\ row.verified = usr.verified /\ row.email = usr.email
    BY <1>1, <2>2, <2>5 DEF EmRows
  <2>8. /\ sent \in [1..MaxTokens -> MaybeAddress] /\ sent[t] = emReq[r].address
        /\ \A u \in 1..MaxTokens : sentTo[u] # NoAddress => sent[u] # NoAddress
    BY <1>1, <2>2, <2>4
  <2> HIDE DEF row, sent
  <2>9. ~raced' => /\ pend # NoAddress => sent[t] = pend
                   /\ ~usr.verified => pend = NoAddress
    BY <1>5, <2>3, <2>8 DEF EmReads, EmRow, pend
  <2> QED BY <1>1, <1>5a, <2>2, <2>3, <2>4, <2>6, <2>7, <2>8, <2>9, EmWriteStep
<1>9. CASE CommitChange(r)
  <2> DEFINE row == [usr EXCEPT !.email = emReq[r].address, !.pending = NoAddress, !.token = 0, !.expired = FALSE]
  <2>1. /\ row \in EmRows /\ row.token = 0 /\ row.pending = NoAddress
        /\ row.verified = usr.verified /\ row.email = emReq[r].address
    BY <1>1, <1>2, <1>3 DEF EmRows, EmRequests
  <2>2. Write(r, row, sentTo) /\ proved' = proved \union {sentTo[emReq[r].token]} /\ emReq[r].op = "verifyChange"
    BY <1>9 DEF CommitChange
  <2> HIDE DEF row
  <2>3. emReq[r].address # NoAddress /\ emReq[r].token # 0 /\ sentTo[emReq[r].token] # NoAddress
    BY <2>2 DEF EmInv, EmSent
  <2>4. emReq[r].token \in 1..MaxTokens
    BY <2>3, <1>2 DEF EmRequests
  <2>5. proved' \subseteq Addresses
    BY <1>1, <2>2, <2>3, <2>4 DEF MaybeAddress
  <2> QED BY <1>1, <2>1, <2>2, <2>3, <2>5, EmWriteStep
<1> QED BY <1>6, <1>7, <1>8, <1>9

\* The writes of one query: register, the expiries, the profile, the administrator.
LEMMA EmRowActions ==
  ASSUME EmInv, register \/ canRegisterFromIp \/ LinkExpires \/ updateProfile \/ setVerified
  PROVE  EmInv'
<1> USE EmailsAssumption
<1>1. usr \in EmRows /\ sentTo \in [1..MaxTokens -> MaybeAddress] /\ proved \subseteq Addresses /\ raced \in BOOLEAN
  BY DEF EmInv, EmTypeOK, EmRows
<1>2. emReq' = emReq /\ proved' = proved
  BY DEF register, canRegisterFromIp, LinkExpires, updateProfile, setVerified
<1>3. CASE register
  <2>1. PICK a \in Addresses, t \in Fresh :
                  /\ usr' = [usr EXCEPT !.email = a, !.token = t, !.ip = TRUE]
                  /\ sentTo' = [sentTo EXCEPT ![t] = a]
    BY <1>3 DEF register
  <2>2. t \in 1..MaxTokens /\ t \in 0..MaxTokens /\ t # 0 /\ sentTo[t] = NoAddress
    BY DEF Fresh
  <2>3. a \in MaybeAddress /\ a # NoAddress
    BY DEF MaybeAddress, NoAddress
  <2>4. /\ usr' \in EmRows /\ usr'.email = a /\ usr'.token = t /\ usr'.pending = usr.pending
        /\ usr'.verified = usr.verified
    BY <1>1, <2>1, <2>2, <2>3 DEF EmRows
  <2>5. sentTo' \in [1..MaxTokens -> MaybeAddress] /\ sentTo'[t] = a
    BY <1>1, <2>1, <2>2, <2>3
  <2>6. ~usr.verified /\ \A r \in EmailReq : emReq[r].op = "idle"
    BY <1>3 DEF register, EmInv, EmSent
  <2>7. raced' = raced
    BY <1>3 DEF register
  <2>8. ~raced => usr.pending = NoAddress
    BY <2>6 DEF EmInv, EmRow
  <2>9. EmTypeOK'
    BY <1>1, <1>2, <2>4, <2>5, <2>7 DEF EmInv, EmTypeOK, EmRows
  <2>10. EmSent'
    BY <1>2, <2>3, <2>4, <2>5, <2>6 DEF EmSent
  <2>11. ~raced' => EmRow' /\ EmReads'
    BY <1>2, <2>4, <2>6, <2>7, <2>8 DEF EmRow, EmReads
  <2> QED BY <2>9, <2>10, <2>11 DEF EmInv
<1>4. CASE canRegisterFromIp \/ LinkExpires
  <2>1. sentTo' = sentTo /\ raced' = raced
    BY <1>4 DEF canRegisterFromIp, LinkExpires
  <2>2. /\ usr' \in EmRows /\ usr'.email = usr.email /\ usr'.token = usr.token /\ usr'.pending = usr.pending
        /\ usr'.verified = usr.verified
    BY <1>1, <1>4 DEF EmRows, canRegisterFromIp, LinkExpires
  <2> QED BY <1>1, <1>2, <2>1, <2>2 DEF EmInv, EmTypeOK, EmRows, EmSent, EmRow, EmReads
<1>5. CASE updateProfile
  <2>1. PICK a \in Addresses : usr' = [usr EXCEPT !.email = a]
    BY <1>5 DEF updateProfile
  <2>2. sentTo' = sentTo /\ raced' = raced /\ a \in MaybeAddress /\ a # NoAddress
    BY <1>5 DEF updateProfile, MaybeAddress, NoAddress
  <2>3. /\ usr' \in EmRows /\ usr'.email = a /\ usr'.token = usr.token /\ usr'.pending = usr.pending
        /\ usr'.verified = usr.verified
    BY <1>1, <2>1, <2>2 DEF EmRows
  <2> QED BY <1>1, <1>2, <2>2, <2>3 DEF EmInv, EmTypeOK, EmRows, EmSent, EmRow, EmReads
<1>6. CASE setVerified
  <2>1. sentTo' = sentTo /\ raced' = (raced \/ usr.verified) /\ usr.email # NoAddress
    BY <1>6 DEF setVerified
  <2>2. /\ usr' \in EmRows /\ usr'.email = usr.email /\ usr'.token = usr.token /\ usr'.pending = usr.pending
        /\ usr'.verified = ~usr.verified
    BY <1>1, <1>6 DEF EmRows, setVerified
  <2>3. usr.verified \in BOOLEAN /\ raced' \in BOOLEAN
    BY <1>1, <2>1 DEF EmRows
  <2>4. EmTypeOK'
    BY <1>1, <1>2, <2>1, <2>2, <2>3 DEF EmInv, EmTypeOK, EmRows
  <2>5. EmSent'
    BY <1>2, <2>1, <2>2 DEF EmInv, EmSent
  <2>6. ~raced' => EmRow' /\ EmReads'
    BY <1>2, <2>1, <2>2, <2>3 DEF EmInv, EmRow, EmReads
  <2> QED BY <2>4, <2>5, <2>6 DEF EmInv
<1> QED BY <1>3, <1>4, <1>5, <1>6

\* Every step keeps the invariant.
LEMMA EmNextInv == EmInv /\ [EmNext]_emVars => EmInv'
<1> SUFFICES ASSUME EmInv, [EmNext]_emVars PROVE EmInv'
  OBVIOUS
<1>1. CASE register \/ canRegisterFromIp \/ LinkExpires \/ updateProfile \/ setVerified
  BY <1>1, EmRowActions
<1>2. CASE \E r \in EmailReq : EmStep(r)
  BY <1>2, EmReadActions, EmWriteActions DEF EmStep
<1>3. CASE UNCHANGED emVars
  BY <1>3 DEF emVars, EmInv, EmTypeOK, EmSent, EmRow, EmReads
<1> QED BY <1>1, <1>2, <1>3 DEF EmNext

\* The row, the tokens and the requests of email-verification.service.ts keep their types.
THEOREM EmailsTyped == EmSpec => []EmTypeOK
<1>1. EmInv => EmTypeOK
  BY DEF EmInv
<1> QED BY <1>1, EmInitInv, EmNextInv, PTL DEF EmSpec

\* verifyEmailChange only stores an address whose mailbox has answered, unless a write
\* was based on an outdated read: for any requests, addresses and number of tokens.
THEOREM EmailChangeProved == EmSpec => ChangedEmailProved
<1>1. ASSUME EmInv, EmNext
      PROVE  \A r \in EmailReq : CommitChange(r) => usr'.email \in proved' \/ raced'
  <2> SUFFICES ASSUME NEW r \in EmailReq, CommitChange(r), ~raced' PROVE usr'.email \in proved'
    OBVIOUS
  <2>1. usr \in EmRows /\ emReq[r] \in EmRequests /\ raced \in BOOLEAN
    BY <1>1 DEF EmInv, EmTypeOK, EmRows, EmRequests
  <2>2. ~raced /\ ~emReq[r].stale
    BY <2>1 DEF CommitChange, Write, EmRequests
  <2>3. sentTo[emReq[r].token] = emReq[r].address
    BY <1>1, <2>2 DEF CommitChange, EmInv, EmReads
  <2>4. usr'.email = emReq[r].address
    BY <2>1 DEF CommitChange, Write, EmRows
  <2> QED BY <2>3, <2>4 DEF CommitChange
<1>2. EmInv /\ [EmNext]_emVars =>
        [\A r \in EmailReq : CommitChange(r) => usr'.email \in proved' \/ raced']_emVars
  BY <1>1
<1> QED BY <1>2, EmInitInv, EmNextInv, PTL DEF EmSpec, ChangedEmailProved

-----------------------------------------------------------------------------
(* The second factor.                                                      *)

TfRows == [secret : BOOLEAN, enabled : BOOLEAN, codes : SUBSET Codes, gen : 0..MaxGen]
TfRequests == [op : TfOps, codes : SUBSET Codes, code : SUBSET (Codes \union {Totp}), stale : BOOLEAN]

\* The recovery codes that have been issued so far.
Issued == {c \in Codes : c[1] <= factor.gen}
CodesIssued ==
    /\ consumed \subseteq Issued /\ factor.codes \subseteq Issued
    /\ \A r \in FactorReq : tfReq[r].codes \subseteq Issued

\* A request with a recovery code has it from the list it has read.
CodeWasRead ==
    \A r \in FactorReq : tfReq[r].op \in {"code", "guard"}
        => tfReq[r].code \subseteq tfReq[r].codes /\ tfReq[r].code # {}

\* A request whose read is still current knows the list of codes, that there is a
\* secret to verify, that a login without a code was right to have none.
CurrentReads ==
    ~tfRaced => \A r \in FactorReq : ~tfReq[r].stale =>
        /\ tfReq[r].op \in {"code", "guard"} => tfReq[r].codes = factor.codes
        /\ tfReq[r].op = "verify" => factor.secret
        /\ tfReq[r].op = "remember" /\ tfReq[r].code = {} => ~factor.enabled

TfSafe == CodesSingleUse /\ EnabledHasSecret /\ TrustIsProved
TfInv == TfTypeOK /\ CodesIssued /\ CodeWasRead /\ CurrentReads /\ TfSafe

\* The initial state satisfies the invariant.
LEMMA TfInitInv == TfInit => TfInv
<1> SUFFICES ASSUME TfInit PROVE TfInv
  OBVIOUS
<1>1. TfTypeOK
  <2>1. TfIdle \in TfRequests
    BY DEF TfIdle, TfRequests, TfOps
  <2>2. factor \in TfRows
    BY TwoFactorAssumption DEF TfInit, TfRows
  <2> QED BY <2>1, <2>2 DEF TfInit, TfTypeOK, TfRequests, TfRows
<1>2. CodesIssued /\ CodeWasRead /\ CurrentReads /\ TfSafe
  BY DEF TfInit, TfIdle, CodesIssued, CodeWasRead, CurrentReads, TfSafe, CodesSingleUse,
     EnabledHasSecret, TrustIsProved
<1> QED BY <1>1, <1>2 DEF TfInv

\* A read is current, and knows what it read.
LEMMA TfReadStep ==
  ASSUME TfInv, NEW r \in FactorReq, NEW op \in TfOps, NEW c \in SUBSET (Codes \union {Totp}),
         ReadRow(r, op, c),
         op \in {"code", "guard"} => c \subseteq factor.codes /\ c # {},
         op = "verify" => factor.secret,
         op = "remember" /\ c = {} => ~factor.enabled
  PROVE  TfInv'
<1> DEFINE q == [op |-> op, codes |-> factor.codes, code |-> c, stale |-> FALSE]
<1>1. /\ tfReq' = [tfReq EXCEPT ![r] = q] /\ UNCHANGED <<factor, devices, consumed, tfRaced>>
      /\ q \in TfRequests
  BY DEF ReadRow, TfInv, TfTypeOK, TfRequests
<1>2. tfReq' \in [FactorReq -> TfRequests] /\ tfReq'[r] = q
      /\ \A s \in FactorReq : s # r => tfReq'[s] = tfReq[s]
  BY <1>1 DEF TfInv, TfTypeOK, TfRequests
<1>3. TfTypeOK'
  BY <1>1, <1>2 DEF TfInv, TfTypeOK, TfRequests
<1>4. CodesIssued' /\ CodeWasRead'
  BY <1>1, <1>2 DEF TfInv, CodesIssued, CodeWasRead, Issued
<1>5. CurrentReads'
  BY <1>1, <1>2 DEF TfInv, CurrentReads
<1>6. TfSafe'
  BY <1>1 DEF TfInv, TfSafe, CodesSingleUse, EnabledHasSecret, TrustIsProved
<1> QED BY <1>3, <1>4, <1>5, <1>6 DEF TfInv

\* A write of the row makes the other reads old, so that no read is current but that of
\* the writer, who goes on to something that does not depend on it.
LEMMA TfWriteStep ==
  ASSUME TfInv, NEW r \in FactorReq, NEW row \in TfRows, NEW next \in TfRequests,
         WriteRow(r, row, next),
         next.op \in {"idle", "revokeAll"} \/ (next.op = "remember" /\ next.code # {}),
         row.gen >= factor.gen,
         next.codes \subseteq Issued,
         UNCHANGED devices,
         consumed' \subseteq Issued,
         row.codes \subseteq Issued'
  PROVE  /\ factor' = row /\ tfRaced' \in BOOLEAN /\ (~tfRaced' => ~tfRaced /\ ~tfReq[r].stale)
         /\ TfTypeOK' /\ CodesIssued' /\ CodeWasRead' /\ CurrentReads'
<1>1. factor' = row /\ tfRaced' \in BOOLEAN /\ (~tfRaced' => ~tfRaced /\ ~tfReq[r].stale)
  BY DEF WriteRow, TfInv, TfTypeOK
<1>2. TfIdle \in TfRequests
  BY DEF TfIdle, TfRequests, TfOps
<1>3. tfReq' \in [FactorReq -> TfRequests]
  BY <1>2 DEF WriteRow, TfInv, TfTypeOK, TfRequests
<1>4. Issued \subseteq Issued' /\ Issued \subseteq Codes
  BY <1>1 DEF Issued, TfInv, TfTypeOK, TfRows, Codes
<1>5. TfTypeOK'
  BY <1>1, <1>3, <1>4 DEF TfInv, TfTypeOK, TfRows, TfRequests
<1>6. \A s \in FactorReq : tfReq'[s] = IF s = r THEN next
                                       ELSE IF tfReq[s].op = "idle" THEN TfIdle
                                       ELSE [tfReq[s] EXCEPT !.stale = TRUE]
  BY DEF WriteRow
<1>7. \A s \in FactorReq : tfReq[s] \in TfRequests
  BY DEF TfInv, TfTypeOK, TfRequests
<1>8. ASSUME NEW s \in FactorReq
      PROVE  /\ tfReq'[s].codes \subseteq Issued
             /\ tfReq'[s].op \in {"code", "guard"}
                   => tfReq'[s].code \subseteq tfReq'[s].codes /\ tfReq'[s].code # {}
             /\ ~tfReq'[s].stale => tfReq'[s].op \in {"idle", "revokeAll"}
                                    \/ (tfReq'[s].op = "remember" /\ tfReq'[s].code # {})
  <2>1. CASE s = r
    <3>1. tfReq'[s] = next
      BY <1>6, <2>1
    <3> QED BY <3>1
  <2>2. CASE s # r /\ tfReq[s].op = "idle"
    <3>1. tfReq'[s] = TfIdle
      BY <1>6, <2>2
    <3> QED BY <3>1 DEF TfIdle
  <2>3. CASE s # r /\ tfReq[s].op # "idle"
    <3>1. /\ tfReq'[s].stale /\ tfReq'[s].op = tfReq[s].op
          /\ tfReq'[s].code = tfReq[s].code /\ tfReq'[s].codes = tfReq[s].codes
      BY <1>6, <1>7, <2>3 DEF TfRequests
    <3> QED BY <3>1 DEF TfInv, CodesIssued, CodeWasRead
  <2> QED BY <2>1, <2>2, <2>3
<1>9. CodesIssued' /\ CodeWasRead'
  BY <1>1, <1>4, <1>8 DEF CodesIssued, CodeWasRead
<1>10. CurrentReads'
  BY <1>8 DEF CurrentReads
<1> QED BY <1>1, <1>5, <1>9, <1>10

\* consumeCode takes the code out of the list it has read, which is the list of the row
\* unless the request is stale.
LEMMA TfConsumeStep ==
  ASSUME TfInv, NEW r \in FactorReq, consumeCode(r)
  PROVE  TfInv'
<1> DEFINE row == [factor EXCEPT !.codes = tfReq[r].codes \ tfReq[r].code]
           next == IF tfReq[r].op = "guard" THEN TfIdle ELSE [tfReq[r] EXCEPT !.op = "remember"]
<1>1. tfReq[r] \in TfRequests /\ factor \in TfRows /\ TfIdle \in TfRequests
  BY DEF TfInv, TfTypeOK, TfRequests, TfRows, TfIdle, TfOps
<1>2. tfReq[r].code \subseteq tfReq[r].codes /\ tfReq[r].code # {} /\ tfReq[r].codes \subseteq Issued
  BY DEF consumeCode, TfInv, CodeWasRead, CodesIssued
<1>3. /\ row \in TfRows /\ row.gen = factor.gen /\ row.codes = tfReq[r].codes \ tfReq[r].code
      /\ row.secret = factor.secret /\ row.enabled = factor.enabled
  BY <1>1 DEF TfRows, TfRequests
<1>4. /\ next \in TfRequests /\ next.codes \subseteq Issued
      /\ next.op = "idle" \/ (next.op = "remember" /\ next.code # {})
  BY <1>1, <1>2 DEF TfRequests, TfIdle, TfOps
<1>5. WriteRow(r, row, next) /\ consumed' = consumed \union tfReq[r].code /\ UNCHANGED devices
  BY DEF consumeCode
<1>6. factor' = row
  BY <1>5 DEF WriteRow
<1>7. consumed' \subseteq Issued /\ Issued' = Issued
  BY <1>2, <1>3, <1>5, <1>6 DEF TfInv, CodesIssued, Issued
<1>8. row.gen >= factor.gen
  BY <1>1, <1>3 DEF TfRows
<1>9. row.codes \subseteq Issued'
  BY <1>2, <1>3, <1>7
<1> HIDE DEF row, next
<1>10. /\ ~tfRaced' => ~tfRaced /\ ~tfReq[r].stale
       /\ TfTypeOK' /\ CodesIssued' /\ CodeWasRead' /\ CurrentReads'
  BY <1>3, <1>4, <1>5, <1>7, <1>8, <1>9, TfWriteStep
<1>11. ~tfRaced' => tfReq[r].codes = factor.codes
  BY <1>10 DEF TfInv, CurrentReads, consumeCode
<1>12. TfSafe'
  BY <1>3, <1>5, <1>6, <1>10, <1>11 DEF TfInv, TfSafe, CodesSingleUse, EnabledHasSecret, TrustIsProved
<1> QED BY <1>10, <1>12 DEF TfInv

\* The codes of a new generation have not been issued before.
LEMMA TfNewCodes ==
  ASSUME TfInv, factor.gen < MaxGen
  PROVE  LET g == factor.gen + 1
         IN /\ g \in 0..MaxGen /\ CodesOf(g) \subseteq Codes
            /\ CodesOf(g) \cap Issued = {}
            /\ (factor'.gen = g => CodesOf(g) \subseteq Issued')
  BY TwoFactorAssumption DEF TfInv, TfTypeOK, CodesOf, Issued, Codes

\* setupTwoFactor and ReplaceCodes issue codes of a new generation.
LEMMA TfIssueStep ==
  ASSUME TfInv, NEW r \in FactorReq, setupTwoFactor(r) \/ ReplaceCodes(r)
  PROVE  TfInv'
<1>1. TfIdle \in TfRequests /\ TfIdle.codes = {} /\ TfIdle.op = "idle"
  BY DEF TfRequests, TfIdle, TfOps
<1>2. factor \in TfRows
  BY DEF TfInv, TfTypeOK, TfRows
<1>3. CASE ReplaceCodes(r) /\ ~(factor.gen < MaxGen)
  <2>1. tfReq' = [tfReq EXCEPT ![r] = TfIdle] /\ UNCHANGED <<factor, devices, consumed, tfRaced>>
    BY <1>3 DEF ReplaceCodes
  <2>2. tfReq' \in [FactorReq -> TfRequests]
    BY <1>1, <2>1 DEF TfInv, TfTypeOK, TfRequests
  <2>3. TfTypeOK'
    BY <2>1, <2>2 DEF TfInv, TfTypeOK, TfRequests
  <2>4. CodesIssued' /\ CodeWasRead' /\ CurrentReads'
    BY <1>1, <2>1 DEF TfInv, TfTypeOK, CodesIssued, CodeWasRead, CurrentReads, Issued
  <2> QED BY <2>1, <2>3, <2>4 DEF TfInv, TfSafe, CodesSingleUse, EnabledHasSecret, TrustIsProved
<1>4. ASSUME NEW row \in TfRows, WriteRow(r, row, TfIdle), UNCHANGED <<devices, consumed>>,
             factor.gen < MaxGen, row.gen = factor.gen + 1, row.codes = CodesOf(factor.gen + 1),
             row.enabled => factor.enabled, factor.secret => row.secret
      PROVE  TfInv'
  <2>1. factor' = row
    BY <1>4 DEF WriteRow
  <2>2. /\ row.codes \cap Issued = {} /\ row.codes \subseteq Issued'
    BY <1>4, <2>1, TfNewCodes
  <2>3. row.gen >= factor.gen
    BY <1>2, <1>4 DEF TfRows
  <2>4. consumed' \subseteq Issued
    BY <1>4 DEF TfInv, CodesIssued
  <2>5. /\ ~tfRaced' => ~tfRaced
        /\ TfTypeOK' /\ CodesIssued' /\ CodeWasRead' /\ CurrentReads'
    BY <1>1, <1>4, <2>2, <2>3, <2>4, TfWriteStep
  <2>6. TfSafe'
    BY <1>4, <2>1, <2>2, <2>4, <2>5 DEF TfInv, TfSafe, CodesSingleUse, EnabledHasSecret, TrustIsProved
  <2> QED BY <2>5, <2>6 DEF TfInv
<1>5. CASE setupTwoFactor(r)
  <2> DEFINE row == [secret |-> TRUE, enabled |-> FALSE, codes |-> CodesOf(factor.gen + 1),
                     gen |-> factor.gen + 1]
  <2>1. row \in TfRows
    BY <1>5, TfNewCodes DEF setupTwoFactor, TfRows
  <2> QED BY <1>4, <1>5, <2>1 DEF setupTwoFactor
<1>6. CASE ReplaceCodes(r) /\ factor.gen < MaxGen
  <2> DEFINE row == [factor EXCEPT !.codes = CodesOf(factor.gen + 1), !.gen = @ + 1]
  <2>1. /\ row \in TfRows /\ row.gen = factor.gen + 1 /\ row.codes = CodesOf(factor.gen + 1)
        /\ row.enabled = factor.enabled /\ row.secret = factor.secret
    BY <1>2, <1>6, TfNewCodes DEF TfRows
  <2>2. WriteRow(r, row, TfIdle) /\ UNCHANGED <<devices, consumed>>
    BY <1>6 DEF ReplaceCodes
  <2> HIDE DEF row
  <2> QED BY <1>4, <1>6, <2>1, <2>2
<1> QED BY <1>3, <1>5, <1>6

\* EnableFactor and ClearFactor write the row.
LEMMA TfSwitchStep ==
  ASSUME TfInv, NEW r \in FactorReq, EnableFactor(r) \/ ClearFactor(r)
  PROVE  TfInv'
<1>1. factor \in TfRows /\ tfReq[r] \in TfRequests /\ factor.gen >= factor.gen
      /\ factor.codes \subseteq Issued /\ tfReq[r].codes \subseteq Issued /\ consumed \subseteq Issued
  BY DEF TfInv, TfTypeOK, TfRows, TfRequests, CodesIssued
<1>2. CASE EnableFactor(r)
  <2> DEFINE row == [factor EXCEPT !.enabled = TRUE]
  <2>1. TfIdle \in TfRequests /\ TfIdle.codes = {} /\ TfIdle.op = "idle"
    BY DEF TfRequests, TfIdle, TfOps
  <2>2. /\ row \in TfRows /\ row.gen = factor.gen /\ row.codes = factor.codes
        /\ row.enabled /\ row.secret = factor.secret
    BY <1>1 DEF TfRows
  <2>3. WriteRow(r, row, TfIdle) /\ UNCHANGED <<devices, consumed>> /\ factor' = row
    BY <1>2 DEF EnableFactor, WriteRow
  <2> HIDE DEF row
  <2>4. Issued' = Issued
    BY <2>2, <2>3 DEF Issued
  <2>5. /\ ~tfRaced' => ~tfRaced /\ ~tfReq[r].stale
        /\ TfTypeOK' /\ CodesIssued' /\ CodeWasRead' /\ CurrentReads'
    BY <1>1, <2>1, <2>2, <2>3, <2>4, TfWriteStep
  <2>6. ~tfRaced' => factor.secret
    BY <1>2, <2>5 DEF EnableFactor, TfInv, CurrentReads
  <2>7. TfSafe'
    BY <2>2, <2>3, <2>5, <2>6 DEF TfInv, TfSafe, CodesSingleUse, EnabledHasSecret, TrustIsProved
  <2> QED BY <2>5, <2>7 DEF TfInv
<1>3. CASE ClearFactor(r)
  <2> DEFINE row == [factor EXCEPT !.secret = FALSE, !.enabled = FALSE, !.codes = {}]
             next == [tfReq[r] EXCEPT !.op = "revokeAll"]
  <2>1. next \in TfRequests /\ next.codes = tfReq[r].codes /\ next.op = "revokeAll"
    BY <1>1 DEF TfRequests, TfOps
  <2>2. /\ row \in TfRows /\ row.gen = factor.gen /\ row.codes = {} /\ ~row.enabled
    BY <1>1 DEF TfRows
  <2>3. WriteRow(r, row, next) /\ UNCHANGED <<devices, consumed>> /\ factor' = row
    BY <1>3 DEF ClearFactor, WriteRow
  <2> HIDE DEF row, next
  <2>4. /\ ~tfRaced' => ~tfRaced
        /\ TfTypeOK' /\ CodesIssued' /\ CodeWasRead' /\ CurrentReads'
    BY <1>1, <2>1, <2>2, <2>3, TfWriteStep
  <2>5. TfSafe'
    BY <2>2, <2>3, <2>4 DEF TfInv, TfSafe, CodesSingleUse, EnabledHasSecret, TrustIsProved
  <2> QED BY <2>4, <2>5 DEF TfInv
<1> QED BY <1>2, <1>3

\* What becomes of the devices; only a login that is stale remembers one unproved.
LEMMA TfDeviceStep ==
  ASSUME TfInv,
         \/ \E r \in FactorReq : rememberDevice(r) \/ revokeAllDevices(r)
         \/ \E d \in Devices : revokeDevice(d)
  PROVE  TfInv'
<1>1. factor' = factor /\ consumed' = consumed /\ tfRaced' \in BOOLEAN /\ (tfRaced => tfRaced')
  BY DEF rememberDevice, revokeAllDevices, revokeDevice, TfInv, TfTypeOK
<1>2. tfReq' = tfReq \/ \E r \in FactorReq : tfReq' = [tfReq EXCEPT ![r] = TfIdle]
  BY DEF rememberDevice, revokeAllDevices, revokeDevice
<1>3. tfReq' \in [FactorReq -> TfRequests]
      /\ \A s \in FactorReq : tfReq'[s] = tfReq[s] \/ tfReq'[s] = TfIdle
  <2>1. TfIdle \in TfRequests /\ tfReq \in [FactorReq -> TfRequests]
    BY DEF TfIdle, TfInv, TfTypeOK, TfRequests, TfOps
  <2> QED BY <1>2, <2>1
<1>4. /\ devices' \in [Devices -> {"none", "proved", "unproved", "gone"}]
      /\ ~tfRaced' => \A d \in Devices : devices'[d] # "unproved"
  <2>1. CASE \E r \in FactorReq : rememberDevice(r)
    <3>1. PICK r \in FactorReq : rememberDevice(r)
      BY <2>1
    <3>2. CASE UNCHANGED <<devices, tfRaced>>
      BY <3>2 DEF TfInv, TfTypeOK, TfSafe, TrustIsProved
    <3>3. CASE ~UNCHANGED <<devices, tfRaced>>
      <4>1. PICK d \in Devices : /\ factor.enabled
               /\ devices' = [devices EXCEPT ![d] = IF tfReq[r].code # {} THEN "proved" ELSE "unproved"]
               /\ tfRaced' = (tfRaced \/ tfReq[r].stale) /\ tfReq[r].op = "remember"
        BY <3>1, <3>3 DEF rememberDevice
      <4>2. ~tfRaced' => tfReq[r].code # {}
        BY <4>1 DEF TfInv, CurrentReads
      <4> QED BY <4>1, <4>2 DEF TfInv, TfTypeOK, TfSafe, TrustIsProved
    <3> QED BY <3>2, <3>3
  <2>2. CASE \E r \in FactorReq : revokeAllDevices(r)
    BY <2>2 DEF revokeAllDevices, Trusted, TfInv, TfTypeOK, TfSafe, TrustIsProved
  <2>3. CASE \E d \in Devices : revokeDevice(d)
    BY <2>3 DEF revokeDevice, TfInv, TfTypeOK, TfSafe, TrustIsProved
  <2> QED BY <2>1, <2>2, <2>3
<1>5. TfTypeOK'
  BY <1>1, <1>3, <1>4 DEF TfInv, TfTypeOK, TfRequests
<1>6. CodesIssued' /\ CodeWasRead' /\ CurrentReads'
  BY <1>1, <1>3 DEF TfInv, TfTypeOK, CodesIssued, CodeWasRead, CurrentReads, Issued, TfIdle
<1>7. TfSafe'
  BY <1>1, <1>4 DEF TfInv, TfSafe, CodesSingleUse, EnabledHasSecret, TrustIsProved
<1> QED BY <1>5, <1>6, <1>7 DEF TfInv

\* Every step preserves the invariant.
LEMMA TfNextInv == TfInv /\ [TfNext]_tfVars => TfInv'
<1> SUFFICES ASSUME TfInv, [TfNext]_tfVars PROVE TfInv'
  OBVIOUS
<1>1. CASE UNCHANGED tfVars
  BY <1>1 DEF tfVars, TfInv, TfTypeOK, CodesIssued, Issued, CodeWasRead, CurrentReads, TfSafe,
     CodesSingleUse, EnabledHasSecret, TrustIsProved
<1>2. ASSUME NEW r \in FactorReq, TfStep(r) PROVE TfInv'
  <2>1. \A c \in factor.codes : {c} \in SUBSET (Codes \union {Totp})
    BY DEF TfInv, TfTypeOK
  <2>2. {} \in SUBSET (Codes \union {Totp}) /\ {Totp} \in SUBSET (Codes \union {Totp})
    OBVIOUS
  <2>3. CASE login2fa(r)
    BY <2>1, <2>2, <2>3, TfReadStep DEF login2fa, TfOps
  <2>4. CASE freshTwoFactor(r)
    BY <2>1, <2>4, TfReadStep DEF freshTwoFactor, TfOps
  <2>5. CASE verifyTwoFactor(r)
    BY <2>2, <2>5, TfReadStep DEF verifyTwoFactor, TfOps
  <2>6. CASE disableTwoFactor(r) \/ PasswordChanged(r) \/ regenerateRecoveryCodes(r)
    BY <2>2, <2>6, TfReadStep DEF disableTwoFactor, PasswordChanged, regenerateRecoveryCodes, TfOps
  <2> QED BY <1>2, <2>3, <2>4, <2>5, <2>6, TfConsumeStep, TfIssueStep, TfSwitchStep, TfDeviceStep
             DEF TfStep
<1> QED BY <1>1, <1>2, TfDeviceStep DEF TfNext

\* Unless a write was based on an outdated read, a recovery code is accepted once, an
\* enabled factor has a secret, and only a login that proved the factor is remembered.
THEOREM FactorSafe == TfSpec => [](TfTypeOK /\ CodesSingleUse /\ EnabledHasSecret /\ TrustIsProved)
<1>1. TfInv => TfTypeOK /\ CodesSingleUse /\ EnabledHasSecret /\ TrustIsProved
  BY DEF TfInv, TfSafe
<1> QED BY <1>1, TfInitInv, TfNextInv, PTL DEF TfSpec

-----------------------------------------------------------------------------
(* API keys.                                                               *)

AkRows == [st : {"none", "live", "revoked"}, quota : {0, Quota}, used : 0..MaxUse]
AkCalls == [at : {"idle", "quota", "record"}, key : {{}} \union {{k} : k \in KeyIds}]

\* The calls that have passed the check of the quota of each key.
Recording == [k \in KeyIds |-> {c \in KeyCalls : keyCalls[c].at = "record" /\ k \in keyCalls[c].key}]

\* A call has looked up one key, and one that exists.
CallsKnowKey == keyCalls \in [KeyCalls -> AkCalls]
                /\ \A c \in KeyCalls : \A k \in keyCalls[c].key : keys[k].st # "none"

\* Each call that has passed the check counts as a use.
UsesCounted == \A k \in KeyIds : keys[k].quota > 0
    => keys[k].used + Cardinality(Recording[k]) <= keys[k].quota + Cardinality(KeyCalls) - 1

AkInv == AkTypeOK /\ CallsKnowKey /\ UsesCounted

\* Sets of calls are finite, and no larger than all of them.
LEMMA AkCounts ==
  /\ Cardinality(KeyCalls) \in Nat
  /\ \A S \in SUBSET KeyCalls : IsFiniteSet(S) /\ Cardinality(S) \in Nat
                                /\ Cardinality(S) <= Cardinality(KeyCalls)
  BY ApiKeysAssumption, FS_Subset, FS_CardinalityType

\* The calls that record a use of one key.
LEMMA AkRecordingCount ==
  ASSUME NEW k \in KeyIds
  PROVE  /\ Cardinality(KeyCalls) \in Nat /\ IsFiniteSet(Recording[k])
         /\ Cardinality(Recording[k]) \in Nat /\ Cardinality(Recording[k]) <= Cardinality(KeyCalls)
  BY AkCounts DEF Recording

\* The initial state satisfies the invariant.
LEMMA AkInitInv == AkInit => AkInv
<1> SUFFICES ASSUME AkInit PROVE AkInv
  OBVIOUS
<1>1. AkTypeOK /\ CallsKnowKey
  BY ApiKeysAssumption DEF AkInit, AkTypeOK, CallsKnowKey, AkCalls, NoKey, CallIdle
<1>2. UsesCounted
  BY DEF AkInit, UsesCounted, NoKey
<1> QED BY <1>1, <1>2 DEF AkInv

\* A new key has no use and no call; the others keep theirs.
LEMMA AkCreateStep ==
  ASSUME AkInv, NEW q \in {0, Quota}, createApiKey(q), UNCHANGED keyCalls, rotating' \in 0..1
  PROVE  AkInv'
<1>1. PICK k \in KeyIds : keys[k].st = "none"
                          /\ keys' = [keys EXCEPT ![k] = [st |-> "live", quota |-> q, used |-> 0]]
  BY DEF createApiKey
<1>2. keys' \in [KeyIds -> AkRows]
  BY <1>1, ApiKeysAssumption DEF AkInv, AkTypeOK, AkRows
<1>3. AkTypeOK' /\ CallsKnowKey'
  BY <1>1, <1>2 DEF AkInv, AkTypeOK, CallsKnowKey, AkRows
<1>4. UsesCounted'
  <2> SUFFICES ASSUME NEW j \in KeyIds, keys'[j].quota > 0
               PROVE  keys'[j].used + Cardinality(Recording'[j]) <= keys'[j].quota + Cardinality(KeyCalls) - 1
    BY DEF UsesCounted
  <2>1. Recording' = Recording
    BY DEF Recording
  <2>2. CASE j = k
    <3>1. Recording[j] = {}
      BY <1>1, <2>2 DEF AkInv, CallsKnowKey, Recording
    <3>2. keys'[j].used = 0 /\ keys'[j].quota = q /\ q \in Nat
      BY <1>1, <2>2, ApiKeysAssumption DEF AkInv, AkTypeOK
    <3> QED BY <2>1, <3>1, <3>2, FS_EmptySet, AkRecordingCount
  <2>3. CASE j # k
    BY <1>1, <2>1, <2>3 DEF AkInv, UsesCounted, AkTypeOK
  <2> QED BY <2>2, <2>3
<1> QED BY <1>3, <1>4 DEF AkInv

\* Revoking and rotating change the status only.
LEMMA AkRevokeStep ==
  ASSUME AkInv, NEW k \in KeyIds, revokeApiKey(k) \/ rotateApiKey(k)
  PROVE  AkInv'
<1>1. keys' = [keys EXCEPT ![k].st = "revoked"] /\ UNCHANGED keyCalls /\ rotating' \in 0..1
  BY DEF AkInv, AkTypeOK, revokeApiKey, rotateApiKey
<1>2. AkTypeOK' /\ CallsKnowKey'
  BY <1>1 DEF AkInv, AkTypeOK, CallsKnowKey
<1>3. /\ Recording' = Recording
      /\ \A j \in KeyIds : keys'[j].used = keys[j].used /\ keys'[j].quota = keys[j].quota
  BY <1>1 DEF Recording, AkInv, AkTypeOK
<1>4. UsesCounted'
  BY <1>3 DEF AkInv, UsesCounted
<1> QED BY <1>2, <1>4 DEF AkInv

\* validateApiKey: the call knows one live key, and has not passed the check.
LEMMA AkValidateStep ==
  ASSUME AkInv, NEW c \in KeyCalls, NEW k \in KeyIds, validateApiKey(c, k)
  PROVE  AkInv'
<1>1. [at |-> "quota", key |-> {k}] \in AkCalls
  BY DEF AkCalls
<1>2. AkTypeOK' /\ CallsKnowKey'
  BY <1>1 DEF AkInv, AkTypeOK, CallsKnowKey, validateApiKey
<1>3. Recording' = Recording
  BY DEF AkInv, AkTypeOK, Recording, validateApiKey
<1>4. UsesCounted'
  BY <1>3 DEF AkInv, UsesCounted, validateApiKey
<1> QED BY <1>2, <1>4 DEF AkInv

\* checkQuota: a call passes below the quota, which leaves room for all the others.
LEMMA AkCheckStep ==
  ASSUME AkInv, NEW c \in KeyCalls, checkQuota(c)
  PROVE  AkInv'
<1>1. PICK k \in keyCalls[c].key :
        /\ keyCalls[c].at = "quota"
        /\ keyCalls' = [keyCalls EXCEPT ![c] = IF OverQuota(k) THEN CallIdle ELSE [@ EXCEPT !.at = "record"]]
        /\ UNCHANGED <<keys, rotating>>
  BY DEF checkQuota
<1>2. k \in KeyIds /\ keyCalls[c].key = {k}
  BY DEF AkInv, CallsKnowKey, AkCalls
<1> DEFINE n == [at |-> "record", key |-> {k}]
<1>3. n \in AkCalls /\ CallIdle \in AkCalls /\ [keyCalls[c] EXCEPT !.at = "record"] = n
  <2>1. n \in AkCalls /\ CallIdle \in AkCalls
    BY <1>2 DEF AkCalls, CallIdle
  <2>2. keyCalls[c] \in [at : {"idle", "quota", "record"}, key : SUBSET KeyIds]
    BY DEF AkInv, AkTypeOK
  <2> QED BY <1>2, <2>1, <2>2
<1>4. keyCalls' = [keyCalls EXCEPT ![c] = IF OverQuota(k) THEN CallIdle ELSE n]
  BY <1>1, <1>3 DEF AkInv, AkTypeOK
<1>5. AkTypeOK' /\ CallsKnowKey'
  BY <1>1, <1>2, <1>3, <1>4 DEF AkInv, AkTypeOK, CallsKnowKey, CallIdle
<1>6. UsesCounted'
  <2> SUFFICES ASSUME NEW j \in KeyIds, keys[j].quota > 0
               PROVE  keys[j].used + Cardinality(Recording'[j]) <= keys[j].quota + Cardinality(KeyCalls) - 1
    BY <1>1 DEF UsesCounted
  <2>1. CASE OverQuota(k) \/ j # k
    <3>1. Recording'[j] = Recording[j]
      BY <1>1, <1>2, <1>4, <2>1 DEF Recording, CallIdle, AkInv, AkTypeOK
    <3> QED BY <3>1 DEF AkInv, UsesCounted
  <2>2. CASE ~OverQuota(k) /\ j = k
    <3>1. keys[j].used < keys[j].quota /\ keys[j].used \in Nat /\ keys[j].quota \in Nat
      BY <2>2, ApiKeysAssumption DEF OverQuota, AkInv, AkTypeOK
    <3>2. /\ Cardinality(Recording'[j]) \in Nat /\ Cardinality(KeyCalls) \in Nat
          /\ Cardinality(Recording'[j]) <= Cardinality(KeyCalls)
      BY AkCounts DEF Recording
    <3> QED BY <3>1, <3>2
  <2> QED BY <2>1, <2>2
<1> QED BY <1>5, <1>6 DEF AkInv

\* recordUsage turns a call that has passed the check into a use.
LEMMA AkRecordStep ==
  ASSUME AkInv, NEW c \in KeyCalls, recordUsage(c)
  PROVE  AkInv'
<1>1. PICK k \in keyCalls[c].key :
        /\ keyCalls[c].at = "record" /\ keyCalls' = [keyCalls EXCEPT ![c] = CallIdle]
        /\ \/ keys[k].used < MaxUse /\ keys' = [keys EXCEPT ![k].used = @ + 1]
           \/ UNCHANGED keys
        /\ UNCHANGED rotating
  BY DEF recordUsage
<1>2. k \in KeyIds /\ keyCalls[c].key = {k}
  BY DEF AkInv, CallsKnowKey, AkCalls
<1>3. CallIdle \in AkCalls
  BY DEF AkCalls, CallIdle
<1>4. /\ keys' \in [KeyIds -> AkRows]
      /\ \A j \in KeyIds : /\ keys'[j].quota = keys[j].quota /\ keys'[j].st = keys[j].st
                           /\ keys'[j].used = keys[j].used \/ (j = k /\ keys'[j].used = keys[j].used + 1)
  BY <1>1, <1>2, ApiKeysAssumption DEF AkInv, AkTypeOK, AkRows
<1>5. AkTypeOK' /\ CallsKnowKey'
  <2>1. keyCalls' \in [KeyCalls -> AkCalls]
    BY <1>1, <1>3 DEF AkInv, CallsKnowKey
  <2>2. CallsKnowKey'
    BY <1>1, <1>4, <2>1 DEF AkInv, CallsKnowKey, CallIdle, AkCalls
  <2> QED BY <1>1, <1>4, <2>1, <2>2 DEF AkInv, AkTypeOK, AkRows, AkCalls
<1>6. UsesCounted'
  <2> SUFFICES ASSUME NEW j \in KeyIds, keys'[j].quota > 0
               PROVE  keys'[j].used + Cardinality(Recording'[j]) <= keys'[j].quota + Cardinality(KeyCalls) - 1
    BY DEF UsesCounted
  <2>1. keys[j].quota \in Nat /\ keys[j].used \in Nat
    BY ApiKeysAssumption DEF AkInv, AkTypeOK
  <2>2. Recording'[j] = IF j = k THEN Recording[j] \ {c} ELSE Recording[j]
    BY <1>1, <1>2 DEF Recording, CallIdle, AkInv, AkTypeOK
  <2>3. j = k => c \in Recording[j]
    BY <1>1, <1>2 DEF Recording
  <2>4. keys[j].used + Cardinality(Recording[j]) <= keys[j].quota + Cardinality(KeyCalls) - 1
    BY <1>4 DEF AkInv, UsesCounted
  <2>5. Cardinality(KeyCalls) \in Nat /\ Cardinality(Recording[j]) \in Nat
    BY AkRecordingCount
  <2>6. CASE j = k
    <3>1. Cardinality(Recording[j] \ {c}) = Cardinality(Recording[j]) - 1
      BY <2>3, <2>6, AkRecordingCount, FS_RemoveElement
    <3> QED BY <1>4, <2>1, <2>2, <2>4, <2>5, <2>6, <3>1
  <2>7. CASE j # k
    BY <1>4, <2>2, <2>4, <2>7
  <2> QED BY <2>6, <2>7
<1> QED BY <1>5, <1>6 DEF AkInv

\* A new month: every use is forgotten, and no more calls can be in flight than there are.
LEMMA AkMonthStep == AkInv /\ NewMonth => AkInv'
<1> SUFFICES ASSUME AkInv, NewMonth PROVE AkInv'
  OBVIOUS
<1>1. keys' \in [KeyIds -> AkRows] /\ \A k \in KeyIds : keys'[k].st = keys[k].st
  BY ApiKeysAssumption DEF AkInv, AkTypeOK, AkRows, NewMonth
<1>2. AkTypeOK' /\ CallsKnowKey'
  BY <1>1 DEF AkInv, AkTypeOK, AkRows, CallsKnowKey, AkCalls, NewMonth
<1>3. UsesCounted'
  <2> SUFFICES ASSUME NEW j \in KeyIds, keys'[j].quota > 0
               PROVE  keys'[j].used + Cardinality(Recording'[j]) <= keys'[j].quota + Cardinality(KeyCalls) - 1
    BY DEF UsesCounted
  <2>1. Recording'[j] = Recording[j] /\ keys'[j].used = 0
    BY DEF Recording, NewMonth, AkInv, AkTypeOK
  <2>2. keys'[j].quota \in Nat
    BY ApiKeysAssumption DEF NewMonth, AkInv, AkTypeOK
  <2>3. /\ Cardinality(Recording[j]) \in Nat /\ Cardinality(KeyCalls) \in Nat
        /\ Cardinality(Recording[j]) <= Cardinality(KeyCalls)
    BY AkRecordingCount
  <2> QED BY <2>1, <2>2, <2>3
<1> QED BY <1>2, <1>3 DEF AkInv

\* Every step preserves the invariant.
LEMMA AkNextInv == AkInv /\ [AkNext]_akVars => AkInv'
<1> SUFFICES ASSUME AkInv, [AkNext]_akVars PROVE AkInv'
  OBVIOUS
<1>1. CASE UNCHANGED akVars
  BY <1>1 DEF akVars, AkInv, AkTypeOK, CallsKnowKey, UsesCounted, Recording
<1>2. CASE CreateKey
  BY <1>2, AkCreateStep DEF CreateKey, AkInv, AkTypeOK
<1>3. CASE RotateCreates
  BY <1>3, AkCreateStep DEF RotateCreates
<1> QED BY <1>1, <1>2, <1>3, AkRevokeStep, AkValidateStep, AkCheckStep, AkRecordStep,
           AkMonthStep DEF AkNext

\* The invariant bounds the uses of a key.
LEMMA AkInvImplies == AkInv => AkTypeOK /\ QuotaBounded
<1> SUFFICES ASSUME AkInv, NEW k \in KeyIds, keys[k].quota > 0
             PROVE  keys[k].used <= keys[k].quota + Cardinality(KeyCalls) - 1
  BY DEF AkInv, QuotaBounded
<1>1. keys[k].used + Cardinality(Recording[k]) <= keys[k].quota + Cardinality(KeyCalls) - 1
  BY DEF AkInv, UsesCounted
<1>2. /\ Cardinality(Recording[k]) \in Nat /\ Cardinality(KeyCalls) \in Nat
      /\ keys[k].used \in Nat /\ keys[k].quota \in Nat
  BY AkRecordingCount, ApiKeysAssumption DEF AkInv, AkTypeOK
<1> QED BY <1>1, <1>2

\* The uses of a key go past its quota by no more than the calls that overlap.
THEOREM QuotaSafe == AkSpec => [](AkTypeOK /\ QuotaBounded)
  BY AkInitInv, AkNextInv, AkInvImplies, PTL DEF AkSpec

-----------------------------------------------------------------------------
(* Fraud alerts.                                                           *)

FdPayloads == [sev : Severities, score : 0..100, auto : BOOLEAN]
FdRows == [st : {"none", "open", "closed"}, sev : Severities,
           score : 0..100, auto : BOOLEAN, top : 0..4, acted : BOOLEAN]
FdDetections == [at : {"idle", "write", "log", "notify", "block"}, new : FdPayloads,
                 id : {{}} \union {{a} : a \in AlertIds}, seen : FdPayloads,
                 stale : BOOLEAN, block : BOOLEAN]

\* A detection knows alerts that exist; what it has found and what it has read are
\* severities that match their scores; it blocks nobody before it has written.
DetectionsSound ==
    \A d \in Detectors :
        /\ \A a \in detect[d].id : alerts[a].st # "none"
        /\ detect[d].at \in {"idle", "write"} => ~detect[d].block
        /\ detect[d].at = "write" => detect[d].new.sev = Band(detect[d].new.score)
        /\ detect[d].at = "write" /\ detect[d].id # {} => detect[d].seen.sev = Band(detect[d].seen.score)

\* A read that is still current has the severity of the row.
SeverityCurrent ==
    ~fdRaced => \A d \in Detectors : ~detect[d].stale /\ detect[d].at = "write"
                    => \A a \in detect[d].id : detect[d].seen.sev = alerts[a].sev

\* The user has been blocked for alert a, or a detection is about to block him.
BlockDone == [a \in AlertIds |-> alerts[a].acted \/ \E d \in Detectors : a \in detect[d].id /\ detect[d].block]

\* A detection that has read autoBlocked can rely on the block.
SeenBlockDone ==
    ~fdRaced => \A d \in Detectors : detect[d].at = "write" /\ detect[d].seen.auto
                    => \A a \in detect[d].id : BlockDone[a]

FdInv == /\ FdTypeOK /\ detect \in [Detectors -> FdDetections] /\ DetectionsSound
         /\ SeverityCurrent /\ SeenBlockDone
         /\ ScoreMatchesSeverity /\ EscalationKept /\ AutoBlockTakesEffect

\* The four severities and their order.
LEMMA FdSeverities ==
  /\ Severities = {"LOW", "MEDIUM", "HIGH", "CRITICAL"}
  /\ severityRank["LOW"] = 1 /\ severityRank["MEDIUM"] = 2
  /\ severityRank["HIGH"] = 3 /\ severityRank["CRITICAL"] = 4
  BY DEF Severities, severityRank

\* A report whose severity is that of its score.
FdSound(S) == \A x \in S : x \in FdPayloads /\ x.sev = Band(x.score)

\* One report, where the severity is the band of the score.
LEMMA FdDetectedSound ==
  ASSUME NEW sev \in Severities, NEW score \in 0..100, NEW auto \in BOOLEAN, sev = Band(score)
  PROVE  FdSound(Detected(sev, score, auto))
  BY DEF FdSound, Detected, FdPayloads

\* Every evaluation reports a severity that matches its score.
LEMMA FdEvaluated ==
  ASSUME NEW p \in Patterns, NEW n \in Counts
  PROVE  FdSound(Evaluate(p, n))
<1>0. n \in Nat
  BY DEF Counts
<1>1. FdSound({}) /\ FALSE \in BOOLEAN /\ TRUE \in BOOLEAN
  BY DEF FdSound
<1>2. \A score \in {24} : "LOW" = Band(score) /\ score \in 0..100
  BY DEF Band
<1>3. \A score \in {55, 57, 58, 60, 62} : "MEDIUM" = Band(score) /\ score \in 0..100
  BY DEF Band
<1>4. \A score \in {76, 78, 80, 82, 84, 85} : "HIGH" = Band(score) /\ score \in 0..100
  BY DEF Band
<1>5. \A score \in {95, 100} : "CRITICAL" = Band(score) /\ score \in 0..100
  BY DEF Band
<1>6. \A score \in {24} : FdSound(Detected("LOW", score, FALSE))
  BY <1>1, <1>2, FdSeverities, FdDetectedSound
<1>7. \A score \in {55, 57, 58, 60, 62} : FdSound(Detected("MEDIUM", score, FALSE))
  BY <1>1, <1>3, FdSeverities, FdDetectedSound
<1>8. \A score \in {76, 78, 80, 82, 84, 85} : FdSound(Detected("HIGH", score, FALSE))
  BY <1>1, <1>4, FdSeverities, FdDetectedSound
<1>9. \A score \in {95, 100} : FdSound(Detected("CRITICAL", score, TRUE))
  BY <1>1, <1>5, FdSeverities, FdDetectedSound
<1> USE <1>0, <1>1, <1>6, <1>7, <1>8, <1>9
<1>11. FdSound(evaluateFailedLogin(n))
  BY DEF evaluateFailedLogin
<1>12. FdSound(MultipleIps(n))
  BY DEF MultipleIps
<1>13. FdSound(NewDevice(n))
  BY DEF NewDevice
<1>14. FdSound(SharedIp(n))
  BY DEF SharedIp
<1>15. FdSound(handleTokenReuse(n))
  BY DEF handleTokenReuse
<1>16. FdSound(RapidListings(n))
  BY DEF RapidListings
<1>17. FdSound(DuplicateAddress(n))
  BY DEF DuplicateAddress
<1>18. FdSound(HighValueListing(n))
  BY DEF HighValueListing
<1>19. FdSound(evaluateVelocity(n))
  BY DEF evaluateVelocity
<1> QED BY <1>11, <1>12, <1>13, <1>14, <1>15, <1>16, <1>17, <1>18, <1>19 DEF Evaluate, Patterns

\* So does every payload that a detector can hand to createOrUpdateAlert.
LEMMA FdPayloadsMatch ==
  ASSUME NEW p \in Patterns, NEW x \in Payloads(p)
  PROVE  x \in FdPayloads /\ x.sev = Band(x.score)
  BY FdEvaluated DEF Payloads, FdSound

\* The idle detection and what is left to do after a write.
LEMMA FdWrittenTyped ==
  ASSUME NEW a \in AlertIds, NEW at \in {"log", "notify"}, NEW b \in BOOLEAN
  PROVE  LET w == Written(at, a, b)
         IN /\ w \in FdDetections /\ w.at = at /\ w.id = {a} /\ w.block = b
            /\ FdIdle \in FdDetections /\ FdIdle.at = "idle" /\ FdIdle.id = {} /\ ~FdIdle.block
<1>1. NoPayload \in FdPayloads
  BY FdSeverities DEF NoPayload, FdPayloads
<1>2. FdIdle \in FdDetections
  BY <1>1 DEF FdIdle, FdDetections
<1> QED BY <1>2 DEF Written, FdIdle, FdDetections

\* A detector that does nothing has its type, and holds no alert.
LEMMA FdIdleTyped == FdIdle \in FdDetections /\ FdIdle.at = "idle" /\ FdIdle.id = {} /\ ~FdIdle.block
<1>1. NoPayload \in FdPayloads
  BY FdSeverities DEF NoPayload, FdPayloads
<1> QED BY <1>1 DEF FdIdle, FdDetections

\* The initial states satisfy the invariant.
LEMMA FdInitInv == FdInit => FdInv
<1> SUFFICES ASSUME FdInit PROVE FdInv
  OBVIOUS
<1>1. NoAlert \in FdRows
  BY FdSeverities DEF NoAlert, FdRows
<1>2. FdTypeOK /\ detect \in [Detectors -> FdDetections]
  BY <1>1, FdIdleTyped DEF FdInit, FdTypeOK, FdRows
<1>3. DetectionsSound /\ SeverityCurrent /\ SeenBlockDone
  BY FdIdleTyped DEF FdInit, DetectionsSound, SeverityCurrent, SeenBlockDone
<1>4. ScoreMatchesSeverity /\ EscalationKept /\ AutoBlockTakesEffect
  BY DEF FdInit, NoAlert, ScoreMatchesSeverity, EscalationKept, AutoBlockTakesEffect
<1> QED BY <1>2, <1>3, <1>4 DEF FdInv

\* findOpenAlert reads a row that exists, or none; the read is current.
LEMMA FdFindStep ==
  ASSUME FdInv, NEW d \in Detectors, findOpenAlert(d)
  PROVE  FdInv'
<1>1. PICK p \in Payloads(pattern), id \in SUBSET AlertIds, seen \in FdPayloads :
        /\ detect' = [detect EXCEPT ![d] = [at |-> "write", new |-> p, id |-> id,
                                            seen |-> seen, stale |-> FALSE, block |-> FALSE]]
        /\ \/ id = {}
           \/ \E a \in AlertIds : /\ id = {a} /\ alerts[a].st = "open"
                /\ seen = [sev |-> alerts[a].sev, score |-> alerts[a].score, auto |-> alerts[a].auto]
  <2>1. PICK p \in Payloads(pattern) :
         LET open == {a \in AlertIds : alerts[a].st = "open"}
             go(id, seen) == detect' = [detect EXCEPT ![d] = [at |-> "write", new |-> p, id |-> id,
                                              seen |-> seen, stale |-> FALSE, block |-> FALSE]]
         IN IF open = {} THEN go({}, NoPayload)
            ELSE \E a \in open : go({a}, [sev |-> alerts[a].sev, score |-> alerts[a].score, auto |-> alerts[a].auto])
    BY DEF findOpenAlert
  <2>2. NoPayload \in FdPayloads
    BY FdSeverities DEF NoPayload, FdPayloads
  <2>3. \A a \in AlertIds : [sev |-> alerts[a].sev, score |-> alerts[a].score, auto |-> alerts[a].auto] \in FdPayloads
    BY DEF FdInv, FdTypeOK, FdPayloads
  <2>4. CASE {a \in AlertIds : alerts[a].st = "open"} = {}
    BY <2>1, <2>2, <2>4
  <2>5. CASE {a \in AlertIds : alerts[a].st = "open"} # {}
    <3>1. PICK a \in AlertIds : alerts[a].st = "open" /\
            detect' = [detect EXCEPT ![d] = [at |-> "write", new |-> p, id |-> {a},
                 seen |-> [sev |-> alerts[a].sev, score |-> alerts[a].score, auto |-> alerts[a].auto],
                 stale |-> FALSE, block |-> FALSE]]
      BY <2>1, <2>5
    <3> QED BY <2>3, <3>1
  <2> QED BY <2>4, <2>5
<1>2. UNCHANGED <<pattern, alerts, blocked, fdRaced>> /\ detect[d].at = "idle"
  BY DEF findOpenAlert
<1>3. p \in FdPayloads /\ p.sev = Band(p.score)
  BY FdPayloadsMatch DEF FdInv, FdTypeOK
<1> DEFINE n == [at |-> "write", new |-> p, id |-> id, seen |-> seen, stale |-> FALSE, block |-> FALSE]
<1>4. n \in FdDetections
  BY <1>1, <1>3 DEF FdDetections
<1>5. /\ detect' \in [Detectors -> FdDetections] /\ detect'[d] = n
      /\ \A e \in Detectors : e # d => detect'[e] = detect[e]
  BY <1>1, <1>4 DEF FdInv
<1>6. FdTypeOK'
  BY <1>2, <1>5 DEF FdInv, FdTypeOK, FdDetections
<1>7. \A a \in id : a \in AlertIds /\ alerts[a].st # "none" /\ seen.sev = alerts[a].sev
                    /\ seen.score = alerts[a].score /\ seen.auto = alerts[a].auto
  BY <1>1
<1>8. \A a \in id : seen.sev = Band(seen.score)
  BY <1>7 DEF FdInv, ScoreMatchesSeverity, Band
<1>9. DetectionsSound'
  BY <1>2, <1>3, <1>5, <1>7, <1>8 DEF FdInv, DetectionsSound
<1>10. SeverityCurrent'
  BY <1>2, <1>5, <1>7 DEF FdInv, SeverityCurrent
<1>11. \A a \in AlertIds : BlockDone[a] => BlockDone'[a]
  BY <1>2, <1>5 DEF BlockDone, FdInv, DetectionsSound
<1>12. SeenBlockDone'
  <2>1. ~fdRaced => \A a \in id : seen.auto => BlockDone[a]
    BY <1>7 DEF FdInv, AutoBlockTakesEffect, BlockDone
  <2>2. \A e \in Detectors : detect'[e].id \subseteq AlertIds
    BY <1>5 DEF FdDetections
  <2> QED BY <1>2, <1>5, <1>11, <2>1, <2>2 DEF FdInv, SeenBlockDone
<1>13. ScoreMatchesSeverity' /\ EscalationKept'
  BY <1>2 DEF FdInv, ScoreMatchesSeverity, EscalationKept
<1>14. AutoBlockTakesEffect'
  BY <1>2, <1>11 DEF FdInv, AutoBlockTakesEffect, BlockDone
<1> QED BY <1>5, <1>6, <1>9, <1>10, <1>12, <1>13, <1>14 DEF FdInv

\* UpdateAlert combines what it has found with what it has read, and makes the reads of
\* the other detections old.
LEMMA FdUpdateStep ==
  ASSUME FdInv, NEW d \in Detectors, UpdateAlert(d)
  PROVE  FdInv'
<1> DEFINE p == detect[d].new
           old == detect[d].seen
           score == Max2(old.score, p.score)
           block == NewBlock(d)
<1>1. PICK a \in detect[d].id :
        /\ detect[d].at = "write"
        /\ alerts' = [alerts EXCEPT ![a].sev = Worst(d), ![a].score = score,
                         ![a].auto = old.auto \/ p.auto,
                         ![a].top = Max2(@, severityRank[p.sev])]
        /\ detect' = [Stale(d, a) EXCEPT ![d] = Written("notify", a, block)]
        /\ fdRaced' = (fdRaced \/ detect[d].stale)
        /\ UNCHANGED <<pattern, blocked>>
  BY DEF UpdateAlert, StoreUpdate
<1>2. /\ detect[d] \in FdDetections /\ p \in FdPayloads /\ old \in FdPayloads
      /\ a \in AlertIds /\ detect[d].id = {a} /\ alerts[a] \in FdRows
  BY DEF FdInv, FdTypeOK, FdDetections, FdRows
<1>3. /\ p.sev = Band(p.score) /\ old.sev = Band(old.score) /\ alerts[a].st # "none" /\ ~detect[d].block
  BY <1>1, <1>2 DEF FdInv, DetectionsSound
<1>4. /\ Worst(d) \in Severities /\ score \in 0..100 /\ Worst(d) = Band(score)
      /\ severityRank[Worst(d)] = Max2(severityRank[old.sev], severityRank[p.sev])
      /\ severityRank[p.sev] \in 1..4
  <2>1. Worst(d) = IF severityRank[p.sev] > severityRank[old.sev] THEN p.sev ELSE old.sev
    BY DEF Worst
  <2>2. p.sev \in Severities /\ old.sev \in Severities /\ p.score \in 0..100 /\ old.score \in 0..100
    BY <1>2 DEF FdPayloads
  <2> HIDE DEF p, old
  <2>3. /\ (IF severityRank[p.sev] > severityRank[old.sev] THEN p.sev ELSE old.sev)
              = Band(Max2(old.score, p.score))
        /\ Max2(old.score, p.score) \in 0..100
        /\ severityRank[IF severityRank[p.sev] > severityRank[old.sev] THEN p.sev ELSE old.sev]
              = Max2(severityRank[old.sev], severityRank[p.sev])
        /\ severityRank[p.sev] \in 1..4
    BY <1>3, <2>2, FdSeverities DEF Band, Max2
  <2> QED BY <2>1, <2>2, <2>3
<1>5. block \in BOOLEAN /\ (old.auto \/ p.auto) \in BOOLEAN
  BY <1>2 DEF NewBlock, FdPayloads
<1>6. LET w == Written("notify", a, block)
      IN w \in FdDetections /\ w.at = "notify" /\ w.id = {a} /\ w.block = block
  BY <1>2, <1>5, FdWrittenTyped
<1> DEFINE top == Max2(alerts[a].top, severityRank[p.sev])
<1>7. /\ alerts' \in [AlertIds -> FdRows] /\ alerts'[a].st = alerts[a].st /\ alerts'[a].sev = Worst(d)
      /\ alerts'[a].score = score /\ alerts'[a].auto = (old.auto \/ p.auto)
      /\ alerts'[a].top = top /\ alerts'[a].acted = alerts[a].acted
      /\ \A b \in AlertIds : b # a => alerts'[b] = alerts[b]
  <2>1. top \in 0..4
    BY <1>2, <1>4 DEF Max2, FdRows
  <2>2. alerts \in [AlertIds -> FdRows]
    BY DEF FdInv, FdTypeOK, FdRows
  <2> HIDE DEF score
  <2> QED BY <1>1, <1>2, <1>4, <1>5, <2>1, <2>2 DEF FdRows
<1>8. /\ detect' \in [Detectors -> FdDetections] /\ detect'[d] = Written("notify", a, block)
      /\ \A e \in Detectors : e # d =>
            /\ detect'[e].at = detect[e].at /\ detect'[e].new = detect[e].new /\ detect'[e].id = detect[e].id
            /\ detect'[e].seen = detect[e].seen /\ detect'[e].block = detect[e].block
            /\ ~detect'[e].stale => ~detect[e].stale /\ a \notin detect[e].id
  <2>1. Stale(d, a) \in [Detectors -> FdDetections]
    BY DEF FdInv, Stale, FdDetections
  <2>2. \A e \in Detectors : e # d => Stale(d, a)[e] = IF a \in detect[e].id
                    THEN [detect[e] EXCEPT !.stale = TRUE] ELSE detect[e]
    BY DEF Stale
  <2>3. \A e \in Detectors : detect[e] \in FdDetections
    BY DEF FdInv
  <2>4. detect' \in [Detectors -> FdDetections] /\ detect'[d] = Written("notify", a, block)
        /\ \A e \in Detectors : e # d => detect'[e] = Stale(d, a)[e]
    BY <1>1, <1>6, <2>1
  <2>5. ASSUME NEW e \in Detectors, e # d
        PROVE  /\ detect'[e].at = detect[e].at /\ detect'[e].new = detect[e].new /\ detect'[e].id = detect[e].id
               /\ detect'[e].seen = detect[e].seen /\ detect'[e].block = detect[e].block
               /\ ~detect'[e].stale => ~detect[e].stale /\ a \notin detect[e].id
    <3>1. CASE a \in detect[e].id
      <4>1. detect'[e] = [detect[e] EXCEPT !.stale = TRUE] /\ detect[e] \in FdDetections
        BY <2>2, <2>3, <2>4, <2>5, <3>1
      <4> QED BY <4>1 DEF FdDetections
    <3>2. CASE a \notin detect[e].id
      BY <2>2, <2>4, <2>5, <3>2
    <3> QED BY <3>1, <3>2
  <2> QED BY <2>4, <2>5
<1> HIDE DEF p, old, score, block, top
<1>9. FdTypeOK'
  BY <1>1, <1>7, <1>8 DEF FdInv, FdTypeOK, FdRows, FdDetections
<1>10. DetectionsSound'
  BY <1>2, <1>3, <1>6, <1>7, <1>8 DEF FdInv, DetectionsSound, FdDetections
<1>11. SeverityCurrent'
  <2> SUFFICES ASSUME ~fdRaced', NEW e \in Detectors, ~detect'[e].stale, detect'[e].at = "write",
                      NEW b \in detect'[e].id
               PROVE  detect'[e].seen.sev = alerts'[b].sev
    BY DEF SeverityCurrent
  <2>1. e # d
    BY <1>6, <1>8
  <2>2. ~detect[e].stale /\ detect[e].at = "write" /\ b \in detect[e].id /\ b # a /\ ~fdRaced
    BY <1>1, <1>8, <2>1
  <2>3. b \in AlertIds
    BY <2>2 DEF FdInv, FdDetections
  <2>4. detect[e].seen.sev = alerts[b].sev
    BY <2>2 DEF FdInv, SeverityCurrent
  <2> QED BY <1>7, <1>8, <2>1, <2>2, <2>3, <2>4
<1>12. \A b \in AlertIds : BlockDone[b] => BlockDone'[b]
  BY <1>3, <1>7, <1>8 DEF BlockDone
<1>13. SeenBlockDone'
  <2>1. \A e \in Detectors : detect'[e].id \subseteq AlertIds
    BY <1>8 DEF FdDetections
  <2> QED BY <1>1, <1>6, <1>8, <1>12, <2>1 DEF FdInv, SeenBlockDone
<1>14. ScoreMatchesSeverity'
  BY <1>4, <1>7 DEF FdInv, ScoreMatchesSeverity
<1>15. EscalationKept'
  <2>1. ~fdRaced' => old.sev = alerts[a].sev /\ severityRank[alerts[a].sev] = alerts[a].top
    BY <1>1, <1>2, <1>3 DEF FdInv, SeverityCurrent, EscalationKept, old
  <2>2. ~fdRaced' => severityRank[alerts'[a].sev] = alerts'[a].top
    BY <1>4, <1>7, <2>1 DEF top
  <2> QED BY <1>1, <1>7, <2>2 DEF FdInv, EscalationKept
<1>16. AutoBlockTakesEffect'
  <2>1. ~fdRaced' /\ old.auto => BlockDone'[a]
    BY <1>1, <1>2, <1>12 DEF FdInv, SeenBlockDone, old
  <2>2. p.auto /\ ~old.auto => BlockDone'[a]
    BY <1>2, <1>6, <1>8 DEF BlockDone, block, NewBlock, p, old
  <2>3. ~fdRaced' => \A b \in AlertIds : alerts'[b].auto => BlockDone'[b]
    BY <1>1, <1>7, <1>12, <2>1, <2>2 DEF FdInv, AutoBlockTakesEffect, BlockDone
  <2> QED BY <2>3 DEF AutoBlockTakesEffect, BlockDone
<1> QED BY <1>8, <1>9, <1>10, <1>11, <1>13, <1>14, <1>15, <1>16 DEF FdInv

\* CreateAlert: nobody knows the new alert yet.
LEMMA FdCreateStep ==
  ASSUME FdInv, NEW d \in Detectors, CreateAlert(d)
  PROVE  FdInv'
<1> DEFINE p == detect[d].new
<1>1. PICK a \in AlertIds : alerts[a].st = "none"
          /\ alerts' = [alerts EXCEPT ![a] = [st |-> "open", sev |-> p.sev, score |-> p.score,
                           auto |-> p.auto, top |-> severityRank[p.sev], acted |-> FALSE]]
          /\ detect' = [detect EXCEPT ![d] = Written("log", a, p.auto)]
  BY DEF CreateAlert
<1>2. /\ p \in FdPayloads /\ p.sev = Band(p.score) /\ ~detect[d].block
      /\ UNCHANGED <<pattern, blocked, fdRaced>>
  BY DEF CreateAlert, FdInv, FdDetections, DetectionsSound
<1>3. severityRank[p.sev] \in 1..4
  BY <1>2, FdSeverities DEF FdPayloads
<1>4. LET w == Written("log", a, p.auto)
      IN w \in FdDetections /\ w.at = "log" /\ w.id = {a} /\ w.block = p.auto
  BY <1>2, FdWrittenTyped DEF FdPayloads
<1>5. /\ alerts' \in [AlertIds -> FdRows] /\ alerts'[a].st = "open" /\ alerts'[a].sev = p.sev
      /\ alerts'[a].score = p.score /\ alerts'[a].auto = p.auto /\ alerts'[a].top = severityRank[p.sev]
      /\ \A b \in AlertIds : b # a => alerts'[b] = alerts[b]
  <2>1. alerts \in [AlertIds -> FdRows]
    BY DEF FdInv, FdTypeOK, FdRows
  <2> DEFINE row == [st |-> "open", sev |-> p.sev, score |-> p.score, auto |-> p.auto,
                     top |-> severityRank[p.sev], acted |-> FALSE]
  <2>2. row \in FdRows
    BY <1>2, <1>3 DEF FdRows, FdPayloads
  <2>3. alerts' = [alerts EXCEPT ![a] = row]
    BY <1>1
  <2> QED BY <2>1, <2>2, <2>3
<1>6. /\ detect' \in [Detectors -> FdDetections] /\ detect'[d] = Written("log", a, p.auto)
      /\ \A e \in Detectors : e # d => detect'[e] = detect[e]
  BY <1>1, <1>4 DEF FdInv
<1>7. \A e \in Detectors : a \notin detect[e].id
  BY <1>1 DEF FdInv, DetectionsSound
<1>8. \A e \in Detectors : detect[e].id \subseteq AlertIds
  BY DEF FdInv, FdDetections
<1> HIDE DEF p
<1>9. FdTypeOK'
  BY <1>2, <1>5, <1>6 DEF FdInv, FdTypeOK, FdRows, FdDetections
<1>10. DetectionsSound'
  BY <1>4, <1>5, <1>6, <1>7, <1>8 DEF FdInv, DetectionsSound
<1>11. SeverityCurrent'
  BY <1>2, <1>4, <1>5, <1>6, <1>7, <1>8 DEF FdInv, SeverityCurrent
<1>12. \A b \in AlertIds : b # a /\ BlockDone[b] => BlockDone'[b]
  BY <1>2, <1>5, <1>6 DEF BlockDone
<1>13. SeenBlockDone'
  BY <1>2, <1>4, <1>6, <1>7, <1>8, <1>12 DEF FdInv, SeenBlockDone
<1>14. ScoreMatchesSeverity' /\ EscalationKept'
  BY <1>2, <1>5 DEF FdInv, ScoreMatchesSeverity, EscalationKept
<1>15. AutoBlockTakesEffect'
  <2>1. p.auto => BlockDone'[a]
    BY <1>4, <1>6 DEF BlockDone
  <2>2. ~fdRaced' => \A b \in AlertIds : alerts'[b].auto => BlockDone'[b]
    BY <1>2, <1>5, <1>12, <2>1 DEF FdInv, AutoBlockTakesEffect, BlockDone
  <2> QED BY <2>2 DEF AutoBlockTakesEffect, BlockDone
<1> QED BY <1>6, <1>9, <1>10, <1>11, <1>13, <1>14, <1>15 DEF FdInv

\* The steps that follow the write: a detection only ends without its block if it fails,
\* which is recorded.
LEMMA FdFollowStep ==
  ASSUME FdInv, NEW d \in Detectors, LogAlert(d) \/ deliverNotifications(d)
  PROVE  FdInv'
<1>1. UNCHANGED <<pattern, alerts, blocked>> /\ (fdRaced => fdRaced') /\ fdRaced' \in BOOLEAN
  BY DEF LogAlert, deliverNotifications, FdInv, FdTypeOK
<1>2. /\ detect' \in [Detectors -> FdDetections]
      /\ \A e \in Detectors : e # d => detect'[e] = detect[e]
      /\ detect'[d].at # "write" /\ detect'[d].id \subseteq detect[d].id
      /\ detect'[d].at = "idle" => ~detect'[d].block
      /\ \/ detect'[d].block = detect[d].block /\ detect'[d].id = detect[d].id
         \/ ~detect[d].block
         \/ fdRaced'
  <2>1. detect \in [Detectors -> FdDetections] /\ detect[d] \in FdDetections
    BY DEF FdInv
  <2>2. CASE LogAlert(d)
    <3>1. CASE detect' = [detect EXCEPT ![d].at = "notify"]
      BY <2>1, <3>1 DEF FdDetections
    <3>2. CASE detect' = [detect EXCEPT ![d] = FdIdle]
      BY <2>1, <2>2, <3>2, FdIdleTyped DEF LogAlert
    <3> QED BY <2>2, <3>1, <3>2 DEF LogAlert
  <2>3. CASE deliverNotifications(d) /\ detect[d].block
    <3>1. detect' = [detect EXCEPT ![d] = [detect[d] EXCEPT !.at = "block"]]
      BY <2>3 DEF deliverNotifications
    <3> QED BY <2>1, <3>1 DEF FdDetections
  <2>4. CASE deliverNotifications(d) /\ ~detect[d].block
    <3>1. detect' = [detect EXCEPT ![d] = FdIdle]
      BY <2>4 DEF deliverNotifications
    <3> QED BY <2>1, <2>4, <3>1, FdIdleTyped
  <2> QED BY <2>2, <2>3, <2>4
<1>3. FdTypeOK'
  BY <1>1, <1>2 DEF FdInv, FdTypeOK, FdDetections
<1>4. DetectionsSound'
  BY <1>1, <1>2 DEF FdInv, DetectionsSound
<1>5. SeverityCurrent'
  BY <1>1, <1>2 DEF FdInv, SeverityCurrent
<1>6. ~fdRaced' => \A b \in AlertIds : BlockDone[b] => BlockDone'[b]
  BY <1>1, <1>2 DEF BlockDone
<1>7. SeenBlockDone'
  <2>1. \A e \in Detectors : detect[e].id \subseteq AlertIds
    BY DEF FdInv, FdDetections
  <2> QED BY <1>1, <1>2, <1>6, <2>1 DEF FdInv, SeenBlockDone
<1>8. ScoreMatchesSeverity' /\ EscalationKept'
  BY <1>1 DEF FdInv, ScoreMatchesSeverity, EscalationKept
<1>9. AutoBlockTakesEffect'
  <2>1. ~fdRaced' => \A b \in AlertIds : alerts'[b].auto => BlockDone'[b]
    BY <1>1, <1>6 DEF FdInv, AutoBlockTakesEffect, BlockDone
  <2> QED BY <2>1 DEF AutoBlockTakesEffect, BlockDone
<1> QED BY <1>2, <1>3, <1>4, <1>5, <1>7, <1>8, <1>9 DEF FdInv

\* Blocks, by a detection or an analyst, and reviews touch neither severity nor score, and
\* a block is recorded with the alert.
LEMMA FdBlockStep ==
  ASSUME FdInv, NEW a \in AlertIds, NEW st \in {"none", "open", "closed"},
         st = "none" <=> alerts[a].st = "none",
         \/ alerts' = [alerts EXCEPT ![a].st = st]
         \/ alerts' = [alerts EXCEPT ![a].st = st, ![a].auto = TRUE, ![a].acted = TRUE],
         blocked' \in BOOLEAN, UNCHANGED <<pattern, fdRaced>>,
         \/ detect' = detect
         \/ \E d \in Detectors : /\ detect' = [detect EXCEPT ![d] = FdIdle] /\ detect[d].id = {a}
                                 /\ alerts'[a].acted
  PROVE  FdInv'
<1>1. alerts \in [AlertIds -> FdRows] /\ detect \in [Detectors -> FdDetections]
  BY DEF FdInv, FdTypeOK, FdRows
<1>2. /\ alerts' \in [AlertIds -> FdRows] /\ (alerts'[a].st = "none" <=> alerts[a].st = "none")
      /\ alerts'[a].sev = alerts[a].sev /\ alerts'[a].score = alerts[a].score
      /\ alerts'[a].top = alerts[a].top /\ (alerts[a].acted => alerts'[a].acted)
      /\ alerts'[a].auto => alerts[a].auto \/ alerts'[a].acted
      /\ \A b \in AlertIds : b # a => alerts'[b] = alerts[b]
  <2>1. CASE alerts' = [alerts EXCEPT ![a].st = st]
    BY <1>1, <2>1 DEF FdRows
  <2>2. CASE alerts' = [alerts EXCEPT ![a].st = st, ![a].auto = TRUE, ![a].acted = TRUE]
    <3> DEFINE row == [alerts[a] EXCEPT !.st = st, !.auto = TRUE, !.acted = TRUE]
    <3>1. /\ row \in FdRows /\ row.st = st /\ row.sev = alerts[a].sev /\ row.score = alerts[a].score
          /\ row.top = alerts[a].top /\ row.acted
      <4>1. alerts[a] \in FdRows
        BY <1>1
      <4>2. row.st = st /\ row.sev = alerts[a].sev /\ row.score = alerts[a].score
            /\ row.top = alerts[a].top /\ row.acted
        BY <4>1 DEF FdRows
      <4> QED BY <4>1, <4>2 DEF FdRows
    <3>2. alerts' = [alerts EXCEPT ![a] = row]
      BY <1>1, <2>2
    <3> HIDE DEF row
    <3> QED BY <1>1, <3>1, <3>2
  <2> QED BY <2>1, <2>2
<1>3. /\ detect' \in [Detectors -> FdDetections]
      /\ \A e \in Detectors : detect'[e] = detect[e]
           \/ (detect'[e] = FdIdle /\ detect[e].id = {a} /\ alerts'[a].acted)
  BY <1>1, FdIdleTyped
<1>4. FdTypeOK'
  BY <1>2, <1>3 DEF FdInv, FdTypeOK, FdRows, FdDetections
<1>5. \A e \in Detectors : detect[e].id \subseteq AlertIds
  BY <1>1 DEF FdDetections
<1>6. DetectionsSound'
  BY <1>2, <1>3, <1>5, FdIdleTyped DEF FdInv, DetectionsSound
<1>7. SeverityCurrent'
  BY <1>2, <1>3, <1>5, FdIdleTyped DEF FdInv, SeverityCurrent
<1>8. \A b \in AlertIds : BlockDone[b] => BlockDone'[b]
  <2> SUFFICES ASSUME NEW b \in AlertIds, BlockDone[b] PROVE BlockDone'[b]
    OBVIOUS
  <2>1. CASE alerts[b].acted
    BY <1>2, <2>1 DEF BlockDone
  <2>2. CASE \E e \in Detectors : b \in detect[e].id /\ detect[e].block
    BY <1>2, <1>3, <2>2 DEF BlockDone
  <2> QED BY <2>1, <2>2 DEF BlockDone
<1>9. SeenBlockDone'
  BY <1>3, <1>5, <1>8, FdIdleTyped DEF FdInv, SeenBlockDone
<1>10. ScoreMatchesSeverity' /\ EscalationKept'
  BY <1>2 DEF FdInv, ScoreMatchesSeverity, EscalationKept
<1>11. AutoBlockTakesEffect'
  <2>1. ~fdRaced' => \A b \in AlertIds : alerts'[b].auto => BlockDone'[b]
    BY <1>2, <1>8 DEF FdInv, AutoBlockTakesEffect, BlockDone
  <2> QED BY <2>1 DEF AutoBlockTakesEffect, BlockDone
<1> QED BY <1>3, <1>4, <1>6, <1>7, <1>9, <1>10, <1>11 DEF FdInv

\* The block of a detection, the steps of an analyst and of an administrator.
LEMMA FdOtherStep ==
  ASSUME FdInv,
         \/ \E d \in Detectors : blockUserForFraud(d)
         \/ \E a \in AlertIds : reviewAlert(a) \/ blockUserFromAlert(a)
         \/ unblockUser
  PROVE  FdInv'
<1>1. alerts \in [AlertIds -> FdRows] /\ detect \in [Detectors -> FdDetections]
  BY DEF FdInv, FdTypeOK, FdRows
<1>2. ASSUME NEW a \in AlertIds, Block(a)
      PROVE  /\ blocked' \in BOOLEAN /\ alerts'[a].acted
             /\ alerts[a].st \in {"none", "open", "closed"}
             /\ alerts' = [alerts EXCEPT ![a].st = alerts[a].st, ![a].auto = TRUE, ![a].acted = TRUE]
  <2>1. alerts' = [alerts EXCEPT ![a].auto = TRUE, ![a].acted = TRUE] /\ blocked'
    BY <1>2 DEF Block
  <2> QED BY <1>1, <2>1 DEF FdRows
<1>3. ASSUME NEW d \in Detectors, blockUserForFraud(d) PROVE FdInv'
  <2>1. PICK a \in detect[d].id : Block(a)
    BY <1>3 DEF blockUserForFraud
  <2>2. a \in AlertIds /\ detect[d].id = {a}
    BY <1>1 DEF FdDetections
  <2>3. detect' = [detect EXCEPT ![d] = FdIdle] /\ UNCHANGED <<pattern, fdRaced>>
    BY <1>3 DEF blockUserForFraud
  <2> QED BY <1>2, <2>1, <2>2, <2>3, FdBlockStep
<1>4. ASSUME NEW a \in AlertIds, blockUserFromAlert(a) PROVE FdInv'
  BY <1>2, <1>4, FdBlockStep DEF blockUserFromAlert
<1>5. ASSUME NEW a \in AlertIds, reviewAlert(a) PROVE FdInv'
  <2>1. PICK s \in {"open", "closed"} :
         \/ alerts' = [alerts EXCEPT ![a].st = s] /\ UNCHANGED blocked
         \/ /\ blocked' = TRUE
            /\ alerts' = [alerts EXCEPT ![a].st = s, ![a].auto = TRUE, ![a].acted = TRUE]
    BY <1>5 DEF reviewAlert
  <2>2. alerts[a].st # "none" /\ UNCHANGED <<pattern, detect, fdRaced>>
    BY <1>5 DEF reviewAlert
  <2>3. blocked' \in BOOLEAN
    BY <2>1 DEF FdInv, FdTypeOK
  <2> QED BY <2>1, <2>2, <2>3, FdBlockStep
<1>6. CASE unblockUser
  BY <1>6 DEF unblockUser, FdInv, FdTypeOK, DetectionsSound, SeverityCurrent, SeenBlockDone, BlockDone,
     ScoreMatchesSeverity, EscalationKept, AutoBlockTakesEffect
<1> QED BY <1>3, <1>4, <1>5, <1>6

\* Every step preserves the invariant.
LEMMA FdNextInv == FdInv /\ [FdNext]_fdVars => FdInv'
<1> SUFFICES ASSUME FdInv, [FdNext]_fdVars PROVE FdInv'
  OBVIOUS
<1>1. CASE UNCHANGED fdVars
  BY <1>1 DEF fdVars, FdInv, FdTypeOK, DetectionsSound, SeverityCurrent, SeenBlockDone, BlockDone,
     ScoreMatchesSeverity, EscalationKept, AutoBlockTakesEffect
<1>2. CASE FdNext
  BY <1>2, FdFindStep, FdUpdateStep, FdCreateStep, FdFollowStep, FdOtherStep DEF FdNext
<1> QED BY <1>1, <1>2

\* Severity, score and block of an alert agree with each other and with the detections it
\* stands for, for any number of overlapping detections of every pattern.
THEOREM AlertsSafe ==
  FdSpec => [](FdTypeOK /\ ScoreMatchesSeverity /\ EscalationKept /\ AutoBlockTakesEffect)
<1>1. FdInv => FdTypeOK /\ ScoreMatchesSeverity /\ EscalationKept /\ AutoBlockTakesEffect
  BY DEF FdInv
<1> QED BY <1>1, FdInitInv, FdNextInv, PTL DEF FdSpec

-----------------------------------------------------------------------------
(* Users.  As long as no request acted on an outdated read, what a request  *)
(* has read of the row still holds.                                         *)
ReadsHold == \A r \in UserReq : ~usReq[r].stale =>
    /\ usReq[r].op = "session" => usReq[r].seen = person.role /\ person.active
    /\ usReq[r].op = "write" => usReq[r].seen = person.role
    /\ usReq[r].op = "audit" => usReq[r].new = person.role

UsInv == /\ UsTypeOK /\ SessionsMatchUser /\ AuditEndsWithRole
         /\ ~usRaced => ReadsHold

UsRequests == [op : UsOps, seen : UserRoles, new : UserRoles, stale : BOOLEAN]
UsRows == [role : UserRoles, blocked : BOOLEAN, active : BOOLEAN, token : {"none", "live", "expired"}]

\* A request that does nothing has its type.
LEMMA UsIdleTyped == UsIdle \in UsRequests /\ UsIdle.op = "idle"
  BY UsersAssumption DEF UsIdle, UsRequests, UsOps

\* A new user has no session, and no change of role to audit.
LEMMA UsInitInv == UsInit => UsInv
<1> SUFFICES ASSUME UsInit PROVE UsInv
  OBVIOUS
<1>1. PICK x \in UserRoles : person = [role |-> x, blocked |-> FALSE, active |-> TRUE, token |-> "none"]
  BY DEF UsInit
<1>2. person \in UsRows /\ person.role \in UserRoles
  BY <1>1 DEF UsRows
<1>3. UsTypeOK
  BY <1>2, UsIdleTyped DEF UsInit, UsTypeOK, UsRows, UsRequests
<1>4. SessionsMatchUser /\ AuditEndsWithRole
  BY DEF UsInit, SessionsMatchUser, AuditEndsWithRole
<1>5. ReadsHold
  BY UsIdleTyped DEF UsInit, ReadsHold
<1> QED BY <1>3, <1>4, <1>5 DEF UsInv

\* The types, as the proofs below use them.
LEMMA UsTypes ==
  ASSUME UsInv
  PROVE  /\ person \in UsRows /\ usReq \in [UserReq -> UsRequests] /\ usRaced \in BOOLEAN
         /\ carried \subseteq UserRoles /\ audited \in UserRoles
         /\ person.role \in UserRoles
  BY DEF UsInv, UsTypeOK, UsRows, UsRequests

\* The read of a request agrees with the row it reads.
LEMMA UsBeginStep ==
  ASSUME UsInv, NEW r \in UserReq, NEW op \in {"session", "write", "deactivate", "token", "expired"},
         NEW new \in UserRoles, Begin(r, op, new), op = "session" => person.active
  PROVE  UsInv'
<1> DEFINE rec == [op |-> op, seen |-> person.role, new |-> new, stale |-> FALSE]
<1>1. rec \in UsRequests
  BY UsTypes DEF UsRequests, UsOps
<1>2. rec.op = op /\ rec.seen = person.role /\ rec.stale = FALSE
  OBVIOUS
<1>3. /\ usReq' = [usReq EXCEPT ![r] = rec] /\ person' = person /\ carried' = carried
      /\ audited' = audited /\ usRaced' = usRaced /\ usReq[r].op = "idle"
  BY DEF Begin
<1> HIDE DEF rec
<1>4. usReq' \in [UserReq -> UsRequests] /\ \A s \in UserReq : usReq'[s] = IF s = r THEN rec ELSE usReq[s]
  BY <1>1, <1>3, UsTypes
<1>5. UsTypeOK'
  BY <1>3, <1>4 DEF UsInv, UsTypeOK, UsRequests
<1>6. \A s \in UserReq : usReq[s].op \in {"revoke", "audit"} => usReq'[s].op = usReq[s].op
  BY <1>3, <1>4
<1>7. SessionsMatchUser' /\ AuditEndsWithRole'
  BY <1>3, <1>6 DEF UsInv, SessionsMatchUser, AuditEndsWithRole
<1>8. ~usRaced' => ReadsHold'
  BY <1>2, <1>3, <1>4 DEF UsInv, ReadsHold
<1> QED BY <1>5, <1>7, <1>8 DEF UsInv

(* A request ends, or revokes: it held nothing that another relies on. *)
LEMMA UsEndReads ==
  ASSUME UsInv, NEW r \in UserReq, End(r)
  PROVE  /\ usReq' \in [UserReq -> UsRequests] /\ usReq'[r].op = "idle"
         /\ \A s \in UserReq : s # r => usReq'[s] = usReq[s]
  BY UsTypes, UsIdleTyped DEF End

\* A session carries the role in force when the read is current; a revocation leaves none.
LEMMA UsSessionStep ==
  ASSUME UsInv, NEW r \in UserReq, issueSession(r) \/ revokeAllSessions(r)
  PROVE  UsInv'
<1>1. /\ usReq' \in [UserReq -> UsRequests] /\ usReq'[r].op = "idle"
      /\ \A s \in UserReq : s # r => usReq'[s] = usReq[s]
  BY UsEndReads DEF issueSession, revokeAllSessions
<1>2. person' = person /\ audited' = audited
  BY DEF issueSession, revokeAllSessions
<1>3. usReq[r] \in UsRequests
  BY UsTypes
<1>4. usRaced' \in BOOLEAN /\ (~usRaced' => ~usRaced) /\ carried' \subseteq UserRoles
  BY <1>3, UsTypes DEF issueSession, revokeAllSessions, UsRequests
<1>5. UsTypeOK'
  BY <1>1, <1>2, <1>4 DEF UsInv, UsTypeOK, UsRequests
<1>6. ~usRaced' => ReadsHold'
  BY <1>1, <1>2, <1>4 DEF UsInv, ReadsHold
<1>7. AuditEndsWithRole'
  BY <1>1, <1>2, <1>4 DEF UsInv, AuditEndsWithRole, issueSession, revokeAllSessions
<1>8. SessionsMatchUser'
  <2>1. CASE revokeAllSessions(r)
    BY <2>1 DEF revokeAllSessions, SessionsMatchUser
  <2>2. CASE issueSession(r)
    <3> SUFFICES ASSUME ~usRaced', \A s \in UserReq : usReq'[s].op # "revoke" /\ usReq'[s].op # "audit"
                 PROVE  carried' \subseteq {person.role} /\ person.active
      BY <1>2 DEF SessionsMatchUser
    <3>1. ~usRaced /\ ~usReq[r].stale /\ usReq[r].op = "session" /\ carried' = carried \union {usReq[r].seen}
      BY <2>2, <1>3, UsTypes DEF issueSession, UsRequests
    <3>2. usReq[r].seen = person.role /\ person.active
      BY <3>1 DEF UsInv, ReadsHold
    <3>3. carried \subseteq {person.role}
      BY <1>1, <3>1 DEF UsInv, SessionsMatchUser
    <3> QED BY <3>1, <3>2, <3>3
  <2> QED BY <2>1, <2>2
<1> QED BY <1>5, <1>6, <1>7, <1>8 DEF UsInv

\* The entry is the role in force when the read is current.
LEMMA UsAuditStep ==
  ASSUME UsInv, NEW r \in UserReq, auditRole(r)
  PROVE  UsInv'
<1>1. usReq[r] \in UsRequests
  BY UsTypes
<1> DEFINE rec == [usReq[r] EXCEPT !.op = "revoke"]
<1>2. rec \in UsRequests /\ rec.op = "revoke"
  BY <1>1 DEF UsRequests, UsOps
<1>3. usReq' = [usReq EXCEPT ![r] = rec] /\ person' = person /\ carried' = carried /\ usReq[r].op = "audit"
  BY DEF auditRole
<1> HIDE DEF rec
<1>4. usReq' \in [UserReq -> UsRequests] /\ \A s \in UserReq : usReq'[s] = IF s = r THEN rec ELSE usReq[s]
  BY <1>2, <1>3, UsTypes
<1>5. usRaced' \in BOOLEAN /\ audited' \in UserRoles /\ (~usRaced' => ~usRaced /\ ~usReq[r].stale /\ audited' = usReq[r].new)
  BY <1>1, UsTypes DEF auditRole, UsRequests
<1>6. UsTypeOK'
  BY <1>3, <1>4, <1>5 DEF UsInv, UsTypeOK, UsRequests
<1>7. ~usRaced' => ReadsHold'
  BY <1>2, <1>3, <1>4, <1>5 DEF UsInv, ReadsHold
<1>8. SessionsMatchUser'
  BY <1>2, <1>4 DEF SessionsMatchUser
<1>9. AuditEndsWithRole'
  BY <1>3, <1>5 DEF UsInv, ReadsHold, AuditEndsWithRole
<1> QED BY <1>6, <1>7, <1>8, <1>9 DEF UsInv

(* A write of the row: the other reads are out of date from here on. *)
LEMMA UsStoreStep ==
  ASSUME UsInv, NEW r \in UserReq, NEW row \in UsRows, NEW next \in {"idle", "audit", "revoke"},
         Store(r, row, next), carried' = carried, audited' = audited, usReq[r].op \notin {"revoke", "audit"},
         ~usRaced' => /\ next = "audit" => usReq[r].new = row.role
                      /\ next # "audit" => row.role = person.role
                      /\ next = "idle" /\ ~row.active => ~person.active
  PROVE  UsInv'
<1>1. \A s \in UserReq : usReq[s] \in UsRequests
  BY UsTypes
<1>2. person' = row /\ usRaced' = (usRaced \/ usReq[r].stale)
  BY DEF Store
<1>3. \A s \in UserReq : usReq'[s] = IF s = r THEN [usReq[r] EXCEPT !.op = next]
                                   ELSE IF usReq[s].op \in {"idle", "revoke"} THEN usReq[s]
                                   ELSE [usReq[s] EXCEPT !.stale = TRUE]
  BY DEF Store
<1>4. usReq'[r] \in UsRequests /\ usReq'[r].op = next /\ usReq'[r].new = usReq[r].new
  BY <1>1, <1>3 DEF UsRequests, UsOps
<1>5. \A s \in UserReq : s # r => /\ usReq'[s] \in UsRequests /\ usReq'[s].op = usReq[s].op
                                  /\ usReq'[s].op \in {"idle", "revoke"} \/ usReq'[s].stale
  <2> SUFFICES ASSUME NEW s \in UserReq, s # r
               PROVE  /\ usReq'[s] \in UsRequests /\ usReq'[s].op = usReq[s].op
                      /\ usReq'[s].op \in {"idle", "revoke"} \/ usReq'[s].stale
    OBVIOUS
  <2>1. CASE usReq[s].op \in {"idle", "revoke"}
    BY <2>1, <1>1, <1>3
  <2>2. CASE usReq[s].op \notin {"idle", "revoke"}
    <3>1. usReq'[s] = [usReq[s] EXCEPT !.stale = TRUE] /\ usReq[s] \in UsRequests
      BY <2>2, <1>1, <1>3
    <3> QED BY <3>1 DEF UsRequests
  <2> QED BY <2>1, <2>2
<1>6. usReq' \in [UserReq -> UsRequests]
  <2>1. usReq' = [s \in UserReq |-> usReq'[s]]
    BY DEF Store
  <2> QED BY <1>4, <1>5, <2>1
<1>7. usRaced' \in BOOLEAN /\ (~usRaced' => ~usRaced /\ ~usReq[r].stale)
  BY <1>1, <1>2, UsTypes DEF UsRequests
<1>8. UsTypeOK'
  BY <1>2, <1>6, <1>7 DEF UsInv, UsTypeOK, UsRequests, UsRows
<1>9. ~usRaced' => ReadsHold'
  BY <1>2, <1>4, <1>5 DEF ReadsHold
<1>10. SessionsMatchUser'
  BY <1>2, <1>4, <1>5, <1>7 DEF UsInv, SessionsMatchUser
<1>11. AuditEndsWithRole'
  BY <1>2, <1>4, <1>5, <1>7 DEF UsInv, AuditEndsWithRole
<1> QED BY <1>8, <1>9, <1>10, <1>11 DEF UsInv

\* Every write of the row, with what it leaves to the next step of its request.
LEMMA UsWriteActions ==
  ASSUME UsInv, NEW r \in UserReq,
         \/ writeUser(r) \/ setUserBlockedState(r) \/ commitDeactivate(r) \/ storeToken(r)
         \/ clearReactivation(r) \/ CancelsDeletion(r)
  PROVE  UsInv'
<1>1. person \in UsRows /\ usReq[r] \in UsRequests /\ usRaced \in BOOLEAN
  BY UsTypes
<1>2. carried' = carried /\ audited' = audited /\ usRaced' = (usRaced \/ usReq[r].stale)
  BY DEF writeUser, setUserBlockedState, commitDeactivate, storeToken, clearReactivation, CancelsDeletion, Store
<1>3. usReq[r].op \notin {"revoke", "audit"}
  BY DEF writeUser, setUserBlockedState, commitDeactivate, storeToken, clearReactivation, CancelsDeletion
<1>4. CASE writeUser(r)
  <2> DEFINE row == [person EXCEPT !.role = usReq[r].new]
             next == IF usReq[r].new # usReq[r].seen THEN "audit" ELSE "idle"
  <2>1. row \in UsRows /\ row.role = usReq[r].new /\ row.active = person.active
    BY <1>1 DEF UsRows, UsRequests
  <2>2. Store(r, row, next) /\ usReq[r].op = "write"
    BY <1>4 DEF writeUser
  <2>3. ~usRaced' => usReq[r].seen = person.role
    BY <2>2, <1>1, <1>2 DEF UsInv, ReadsHold, UsRequests
  <2>4. next \in {"idle", "audit", "revoke"} /\ (next # "audit" => usReq[r].new = usReq[r].seen) /\ next # "revoke"
    OBVIOUS
  <2> HIDE DEF row, next
  <2> QED BY <1>2, <1>3, <2>1, <2>2, <2>3, <2>4, UsStoreStep
<1>5. CASE setUserBlockedState(r)
  <2> DEFINE row == [person EXCEPT !.blocked = ~@]
  <2>1. row \in UsRows /\ row.role = person.role /\ row.active = person.active
    BY <1>1 DEF UsRows
  <2>2. Store(r, row, "idle")
    BY <1>5 DEF setUserBlockedState
  <2> HIDE DEF row
  <2> QED BY <1>2, <1>3, <2>1, <2>2, UsStoreStep
<1>6. CASE commitDeactivate(r)
  <2> DEFINE row == [person EXCEPT !.active = FALSE]
  <2>1. row \in UsRows /\ row.role = person.role
    BY <1>1 DEF UsRows
  <2>2. Store(r, row, "revoke")
    BY <1>6 DEF commitDeactivate
  <2> HIDE DEF row
  <2> QED BY <1>2, <1>3, <2>1, <2>2, UsStoreStep
<1>7. CASE storeToken(r)
  <2> DEFINE row == [person EXCEPT !.token = "live"]
  <2>1. row \in UsRows /\ row.role = person.role /\ row.active = person.active
    BY <1>1 DEF UsRows
  <2>2. Store(r, row, "idle")
    BY <1>7 DEF storeToken
  <2> HIDE DEF row
  <2> QED BY <1>2, <1>3, <2>1, <2>2, UsStoreStep
<1>8. CASE clearReactivation(r)
  <2> DEFINE row == [person EXCEPT !.token = "none"]
  <2>1. row \in UsRows /\ row.role = person.role /\ row.active = person.active
    BY <1>1 DEF UsRows
  <2>2. Store(r, row, "idle")
    BY <1>8 DEF clearReactivation
  <2> HIDE DEF row
  <2> QED BY <1>2, <1>3, <2>1, <2>2, UsStoreStep
<1>9. CASE CancelsDeletion(r)
  <2> DEFINE row == [person EXCEPT !.active = TRUE]
  <2>1. row \in UsRows /\ row.role = person.role /\ row.active = TRUE
    BY <1>1 DEF UsRows
  <2>2. Store(r, row, "idle")
    BY <1>9 DEF CancelsDeletion
  <2> HIDE DEF row
  <2> QED BY <1>2, <1>3, <2>1, <2>2, UsStoreStep
<1> QED BY <1>4, <1>5, <1>6, <1>7, <1>8, <1>9

\* Every step keeps the invariant.
LEMMA UsNextInv == UsInv /\ [UsNext]_usVars => UsInv'
<1> SUFFICES ASSUME UsInv, [UsNext]_usVars PROVE UsInv'
  OBVIOUS
<1>1. ASSUME NEW r \in UserReq, UsStep(r) PROVE UsInv'
  <2>1. CASE loginRead(r)
    BY <2>1, UsTypes, UsBeginStep DEF loginRead
  <2>2. CASE updateUser(r)
    BY <2>2, UsBeginStep DEF updateUser
  <2>3. CASE Deactivates(r)
    BY <2>3, UsTypes, UsBeginStep DEF Deactivates
  <2>4. CASE requestReactivation(r)
    BY <2>4, UsTypes, UsBeginStep DEF requestReactivation
  <2>5. CASE reactivate(r)
    BY <2>5, UsTypes, UsBeginStep DEF reactivate
  <2> QED BY <1>1, <2>1, <2>2, <2>3, <2>4, <2>5, UsSessionStep, UsAuditStep, UsWriteActions DEF UsStep
<1>2. CASE update
  <2>1. PICK x \in UserRoles : person' = [person EXCEPT !.role = x]
    BY <1>2 DEF update
  <2>2. person' \in UsRows
    BY <2>1, UsTypes DEF UsRows
  <2> QED BY <1>2, <2>2 DEF update, UsInv, UsTypeOK, UsRows, SessionsMatchUser, AuditEndsWithRole
<1>3. CASE TokenTimeout
  <2>1. person' \in UsRows /\ person'.role = person.role /\ person'.active = person.active
    BY <1>3, UsTypes DEF UsRows, TokenTimeout
  <2>2. carried' = carried /\ audited' = audited /\ usReq' = usReq /\ usRaced' = usRaced
    BY <1>3 DEF TokenTimeout
  <2> QED BY <2>1, <2>2 DEF UsInv, UsTypeOK, UsRows, SessionsMatchUser, AuditEndsWithRole, ReadsHold
<1>4. CASE UNCHANGED usVars
  BY <1>4 DEF usVars, UsInv, UsTypeOK, SessionsMatchUser, AuditEndsWithRole, ReadsHold
<1> QED BY <1>1, <1>2, <1>3, <1>4 DEF UsNext

\* admin.service.ts, users.service.ts: sessions and audit trail agree with the row, for any
\* roles and overlapping requests, unless one acted on an outdated read.
THEOREM UsersAgree == UsSpec => [](UsTypeOK /\ SessionsMatchUser /\ AuditEndsWithRole)
<1>1. UsInv => UsTypeOK /\ SessionsMatchUser /\ AuditEndsWithRole
  BY DEF UsInv
<1> QED BY <1>1, UsInitInv, UsNextInv, PTL DEF UsSpec

-----------------------------------------------------------------------------
(* Exports.  A sweep touches old jobs only; an export whose row is, or is   *)
(* about to be, completed has its archive on disk until it is old.          *)
SweptAreOld == \A c \in Cleaners : \A j \in sweeps[c].read \union sweeps[c].files : jobs[j].old

ArchiveWritten == \A j \in JobIds : ~jobs[j].old =>
    /\ work[j] = "idle" => ~Available(j)
    /\ work[j] = "complete" => j \in archives
    /\ Available(j) => j \in archives
    /\ work[j] = "mail" => Available(j)

ExInv == ExTypeOK /\ SweptAreOld /\ ArchiveWritten /\ MailedIsAvailable

\* At first there is no job and no archive.
LEMMA ExInitInv == ExInit => ExInv
  BY DEF ExInit, ExInv, ExTypeOK, SweptAreOld, ArchiveWritten, MailedIsAvailable, NoJob, NoSweep, Available

ExRows == [st : {"none", "PROCESSING", "COMPLETED", "deleted"}, url : BOOLEAN, old : BOOLEAN]
ExWork == {"idle", "write", "complete", "mail", "done"}
ExSweeps == [read : SUBSET JobIds, files : SUBSET JobIds]

(* A step that replaces one job's row and progress. *)
LEMMA ExOneJob ==
  ASSUME ExInv, NEW j \in JobIds, NEW row \in ExRows, NEW w \in ExWork,
         jobs' = [jobs EXCEPT ![j] = row], work' = [work EXCEPT ![j] = w], sweeps' = sweeps,
         archives \subseteq archives', archives' \subseteq JobIds,
         mailed' \subseteq mailed \union {j}, jobs[j].old => row.old,
         ~row.old => /\ w = "idle" => ~(row.st = "COMPLETED" /\ row.url)
                     /\ w = "complete" => j \in archives'
                     /\ row.st = "COMPLETED" /\ row.url => j \in archives'
                     /\ w = "mail" => row.st = "COMPLETED" /\ row.url
                     /\ j \in mailed' => row.st = "COMPLETED" /\ row.url
  PROVE  ExInv'
<1>1. /\ jobs \in [JobIds -> ExRows] /\ work \in [JobIds -> ExWork] /\ sweeps \in [Cleaners -> ExSweeps]
      /\ mailed \subseteq JobIds
  BY DEF ExInv, ExTypeOK, ExRows, ExWork, ExSweeps
<1>2. \A k \in JobIds : /\ jobs'[k] = IF k = j THEN row ELSE jobs[k]
                        /\ work'[k] = IF k = j THEN w ELSE work[k]
  BY <1>1
<1>3. jobs' \in [JobIds -> ExRows] /\ work' \in [JobIds -> ExWork]
  BY <1>1
<1>4. ExTypeOK'
  BY <1>1, <1>3 DEF ExTypeOK, ExRows, ExWork, ExSweeps
<1>5. SweptAreOld'
  <2>1. \A c \in Cleaners : sweeps[c].read \subseteq JobIds /\ sweeps[c].files \subseteq JobIds
    BY <1>1 DEF ExSweeps
  <2> QED BY <1>2, <2>1 DEF ExInv, SweptAreOld
<1>6. ArchiveWritten'
  BY <1>2 DEF ExInv, ArchiveWritten, Available
<1>7. MailedIsAvailable'
  BY <1>1, <1>2 DEF ExInv, MailedIsAvailable, Available
<1> QED BY <1>4, <1>5, <1>6, <1>7 DEF ExInv

\* The steps of one export.
LEMMA ExJobStep ==
  ASSUME ExInv, NEW j \in JobIds,
         \/ exportPersonalData(j) \/ writeArchive(j) \/ completeJob(j)
         \/ sendCompletionEmail(j) \/ resendCompletionEmail(j) \/ JobAges(j)
  PROVE  ExInv'
<1>1. /\ jobs \in [JobIds -> ExRows] /\ work \in [JobIds -> ExWork] /\ sweeps \in [Cleaners -> ExSweeps]
      /\ archives \subseteq JobIds /\ mailed \subseteq JobIds
  BY DEF ExInv, ExTypeOK, ExRows, ExWork, ExSweeps
<1>2. /\ sweeps' = sweeps /\ archives \subseteq archives' /\ archives' \subseteq JobIds
      /\ mailed' \subseteq mailed \union {j}
  BY <1>1 DEF exportPersonalData, writeArchive, completeJob, sendCompletionEmail, resendCompletionEmail, JobAges
<1>3. jobs[j] \in ExRows /\ work[j] \in ExWork
  BY <1>1
<1>4. ~jobs[j].old => /\ work[j] = "idle" => ~Available(j)
                      /\ work[j] = "complete" => j \in archives
                      /\ Available(j) => j \in archives
                      /\ work[j] = "mail" => Available(j)
                      /\ j \in mailed => Available(j)
  BY DEF ExInv, ArchiveWritten, MailedIsAvailable
<1>5. jobs = [jobs EXCEPT ![j] = jobs[j]] /\ work = [work EXCEPT ![j] = work[j]]
  BY <1>1
<1>6. CASE exportPersonalData(j)
  <2> DEFINE row == [jobs[j] EXCEPT !.st = "PROCESSING"]
  <2>1. row \in ExRows /\ row.old = jobs[j].old /\ row.st = "PROCESSING"
    BY <1>3 DEF ExRows
  <2>2. /\ jobs' = [jobs EXCEPT ![j] = row] /\ work' = [work EXCEPT ![j] = "write"]
        /\ mailed' = mailed /\ work[j] = "idle"
    BY <1>6 DEF exportPersonalData
  <2> HIDE DEF row
  <2> QED BY <1>2, <1>4, <2>1, <2>2, ExOneJob DEF ExWork
<1>7. CASE writeArchive(j)
  <2>1. PICK w \in {"complete", "done"} : /\ work' = [work EXCEPT ![j] = w] /\ jobs' = jobs /\ mailed' = mailed
                                          /\ w = "complete" => j \in archives'
    BY <1>7 DEF writeArchive
  <2> QED BY <1>2, <1>3, <1>4, <1>5, <2>1, ExOneJob DEF ExWork, Available
<1>8. CASE completeJob(j)
  <2> DEFINE row == [jobs[j] EXCEPT !.st = "COMPLETED", !.url = TRUE]
  <2>1. row \in ExRows /\ row.old = jobs[j].old /\ row.st = "COMPLETED" /\ row.url = TRUE
    BY <1>3 DEF ExRows
  <2>2. work[j] = "complete" /\ mailed' = mailed
    BY <1>8 DEF completeJob
  <2>3. CASE work' = [work EXCEPT ![j] = "done"] /\ jobs' = jobs
    BY <1>2, <1>3, <1>4, <1>5, <2>2, <2>3, ExOneJob DEF ExWork, Available
  <2>4. CASE work' = [work EXCEPT ![j] = "mail"] /\ jobs' = [jobs EXCEPT ![j] = row]
    <3> HIDE DEF row
    <3> QED BY <1>2, <1>4, <2>1, <2>2, <2>4, ExOneJob DEF ExWork
  <2>5. \/ work' = [work EXCEPT ![j] = "done"] /\ jobs' = jobs
        \/ work' = [work EXCEPT ![j] = "mail"] /\ jobs' = [jobs EXCEPT ![j].st = "COMPLETED", ![j].url = TRUE]
    BY <1>8 DEF completeJob
  <2>6. [jobs EXCEPT ![j].st = "COMPLETED", ![j].url = TRUE] = [jobs EXCEPT ![j] = row]
    BY <1>1, <1>3
  <2> QED BY <2>3, <2>4, <2>5, <2>6
<1>9. CASE sendCompletionEmail(j)
  <2>1. work' = [work EXCEPT ![j] = "done"] /\ jobs' = jobs /\ work[j] = "mail"
    BY <1>9 DEF sendCompletionEmail
  <2> QED BY <1>2, <1>3, <1>4, <1>5, <2>1, ExOneJob DEF ExWork, Available
<1>10. CASE resendCompletionEmail(j)
  <2>1. work' = work /\ jobs' = jobs /\ Available(j)
    BY <1>10 DEF resendCompletionEmail
  <2> QED BY <1>2, <1>3, <1>4, <1>5, <2>1, ExOneJob DEF Available
<1>11. CASE JobAges(j)
  <2> DEFINE row == [jobs[j] EXCEPT !.old = TRUE]
  <2>1. row \in ExRows /\ row.old = TRUE
    BY <1>3 DEF ExRows
  <2>2. jobs' = [jobs EXCEPT ![j] = row] /\ work' = work
    BY <1>11 DEF JobAges
  <2> HIDE DEF row
  <2> QED BY <1>2, <1>3, <1>5, <2>1, <2>2, ExOneJob
<1> QED BY <1>6, <1>7, <1>8, <1>9, <1>10, <1>11

\* The steps of one clean-up: it touches old jobs only.
LEMMA ExSweepStep ==
  ASSUME ExInv, NEW c \in Cleaners, cleanExportJobs(c) \/ unlinkArchive(c) \/ deleteJobs(c)
  PROVE  ExInv'
<1>1. /\ jobs \in [JobIds -> ExRows] /\ work \in [JobIds -> ExWork] /\ sweeps \in [Cleaners -> ExSweeps]
      /\ archives \subseteq JobIds /\ mailed \subseteq JobIds
  BY DEF ExInv, ExTypeOK, ExRows, ExWork, ExSweeps
<1>2. work' = work /\ mailed' = mailed
  BY DEF cleanExportJobs, unlinkArchive, deleteJobs
<1>3. sweeps[c] \in ExSweeps /\ \A j \in sweeps[c].read \union sweeps[c].files : jobs[j].old
  BY <1>1 DEF ExInv, SweptAreOld
<1>4. CASE cleanExportJobs(c)
  <2> DEFINE old == {j \in JobIds : jobs[j].old /\ jobs[j].st \in {"PROCESSING", "COMPLETED"}}
             new == [read |-> old, files |-> {j \in old : jobs[j].url}]
  <2>1. new \in ExSweeps /\ \A j \in new.read \union new.files : jobs[j].old
    BY DEF ExSweeps
  <2>2. sweeps' = [sweeps EXCEPT ![c] = new] /\ jobs' = jobs /\ archives' = archives
    BY <1>4 DEF cleanExportJobs
  <2> HIDE DEF new
  <2>3. sweeps' \in [Cleaners -> ExSweeps] /\ \A d \in Cleaners : sweeps'[d] = IF d = c THEN new ELSE sweeps[d]
    BY <1>1, <2>1, <2>2
  <2>4. SweptAreOld'
    BY <2>1, <2>2, <2>3 DEF ExInv, SweptAreOld
  <2>5. ExTypeOK'
    BY <1>1, <1>2, <2>2, <2>3 DEF ExTypeOK, ExRows, ExWork, ExSweeps
  <2> QED BY <1>2, <2>2, <2>4, <2>5 DEF ExInv, ArchiveWritten, MailedIsAvailable, Available
<1>5. CASE unlinkArchive(c)
  <2>1. PICK j \in sweeps[c].files : /\ sweeps' = [sweeps EXCEPT ![c] = [sweeps[c] EXCEPT !.files = @ \ {j}]]
                                     /\ archives' = archives \ {j} \/ archives' = archives
    BY <1>5 DEF unlinkArchive
  <2>2. jobs' = jobs /\ jobs[j].old
    BY <1>5, <1>3 DEF unlinkArchive
  <2> DEFINE new == [sweeps[c] EXCEPT !.files = @ \ {j}]
  <2>3. new \in ExSweeps /\ \A i \in new.read \union new.files : jobs[i].old
    BY <1>3 DEF ExSweeps
  <2>4. sweeps' = [sweeps EXCEPT ![c] = new]
    BY <2>1
  <2> HIDE DEF new
  <2>5. sweeps' \in [Cleaners -> ExSweeps] /\ \A d \in Cleaners : sweeps'[d] = IF d = c THEN new ELSE sweeps[d]
    BY <1>1, <2>3, <2>4
  <2>6. SweptAreOld'
    BY <2>2, <2>3, <2>5 DEF ExInv, SweptAreOld
  <2>7. ExTypeOK'
    BY <1>1, <1>2, <2>1, <2>2, <2>5 DEF ExTypeOK, ExRows, ExWork, ExSweeps
  <2>8. \A k \in archives : k # j => k \in archives'
    BY <2>1
  <2>9. ArchiveWritten'
    BY <1>2, <2>2, <2>8 DEF ExInv, ArchiveWritten, Available
  <2>10. MailedIsAvailable'
    BY <1>2, <2>2, <2>8 DEF ExInv, MailedIsAvailable, Available
  <2> QED BY <2>6, <2>7, <2>9, <2>10 DEF ExInv
<1>6. CASE deleteJobs(c)
  <2>1. /\ jobs' = [j \in JobIds |-> IF j \in sweeps[c].read THEN [jobs[j] EXCEPT !.st = "deleted"] ELSE jobs[j]]
        /\ sweeps' = [sweeps EXCEPT ![c] = NoSweep] /\ archives' = archives
    BY <1>6 DEF deleteJobs
  <2>2. \A j \in JobIds : /\ jobs'[j] \in ExRows /\ jobs'[j].old = jobs[j].old
                          /\ ~jobs[j].old => jobs'[j] = jobs[j]
    BY <1>1, <1>3, <2>1 DEF ExRows
  <2>3. NoSweep \in ExSweeps /\ NoSweep.read = {} /\ NoSweep.files = {}
    BY DEF NoSweep, ExSweeps
  <2>4. sweeps' \in [Cleaners -> ExSweeps] /\ \A d \in Cleaners : sweeps'[d] = IF d = c THEN NoSweep ELSE sweeps[d]
    BY <1>1, <2>1, <2>3
  <2>5. jobs' \in [JobIds -> ExRows]
    BY <2>1, <2>2
  <2>6. SweptAreOld'
    <3>1. \A d \in Cleaners : sweeps[d].read \subseteq JobIds /\ sweeps[d].files \subseteq JobIds
      BY <1>1 DEF ExSweeps
    <3> QED BY <2>2, <2>3, <2>4, <3>1 DEF ExInv, SweptAreOld
  <2>7. ExTypeOK'
    BY <1>1, <1>2, <2>1, <2>4, <2>5 DEF ExTypeOK, ExRows, ExWork, ExSweeps
  <2>8. ArchiveWritten'
    BY <1>2, <2>1, <2>2 DEF ExInv, ArchiveWritten, Available
  <2>9. MailedIsAvailable'
    BY <1>1, <1>2, <2>1, <2>2 DEF ExInv, MailedIsAvailable, Available
  <2> QED BY <2>6, <2>7, <2>8, <2>9 DEF ExInv
<1> QED BY <1>4, <1>5, <1>6

\* Every step keeps the invariant.
LEMMA ExNextInv == ExInv /\ [ExNext]_exVars => ExInv'
<1> SUFFICES ASSUME ExInv, [ExNext]_exVars PROVE ExInv'
  OBVIOUS
<1>1. CASE ExNext
  BY <1>1, ExJobStep, ExSweepStep DEF ExNext
<1>2. CASE UNCHANGED exVars
  BY <1>2 DEF exVars, ExInv, ExTypeOK, SweptAreOld, ArchiveWritten, MailedIsAvailable, Available
<1> QED BY <1>1, <1>2

\* data-export.service.ts, cleanup.service.ts: an announced export can be fetched until it is
\* old, for any number of jobs and of overlapping clean-ups.
THEOREM ExportsSafe == ExSpec => [](ExTypeOK /\ MailedIsAvailable)
<1>1. ExInv => ExTypeOK /\ MailedIsAvailable
  BY DEF ExInv
<1> QED BY <1>1, ExInitInv, ExNextInv, PTL DEF ExSpec

-----------------------------------------------------------------------------
(* The composition.  Every step of an account's behaviour is a step of one  *)
(* module and leaves the variables of the others alone, so what each module *)
(* promises by itself it promises beside the others.                        *)
allVars == <<part, vars, llPw, emTf, akFd, usEx>>

\* A behaviour of the composition is one of each module.
LEMMA DeletionPart == AccountsSpec => Spec
<1>1. AccountsInit => Init
  BY DEF AccountsInit
<1>2. [AccountsNext]_allVars => [Next]_vars
  BY DEF AccountsNext, allVars
<1> QED BY <1>1, <1>2, PTL DEF AccountsSpec, Spec, allVars

LEMMA LoginsPart == AccountsSpec => LLSpec
<1>1. AccountsInit => LLInit
  BY DEF AccountsInit
<1>2. [AccountsNext]_allVars => [LLNext]_llVars
  BY DEF AccountsNext, allVars, llPw
<1> QED BY <1>1, <1>2, PTL DEF AccountsSpec, LLSpec, allVars

LEMMA PasswordsPart == AccountsSpec => PwSpec
<1>1. AccountsInit => PwInit
  BY DEF AccountsInit
<1>2. [AccountsNext]_allVars => [PwNext]_pwVars
  BY DEF AccountsNext, allVars, llPw
<1> QED BY <1>1, <1>2, PTL DEF AccountsSpec, PwSpec, allVars

LEMMA EmailsPart == AccountsSpec => EmSpec
<1>1. AccountsInit => EmInit
  BY DEF AccountsInit
<1>2. [AccountsNext]_allVars => [EmNext]_emVars
  BY DEF AccountsNext, allVars, emTf
<1> QED BY <1>1, <1>2, PTL DEF AccountsSpec, EmSpec, allVars

LEMMA FactorsPart == AccountsSpec => TfSpec
<1>1. AccountsInit => TfInit
  BY DEF AccountsInit
<1>2. [AccountsNext]_allVars => [TfNext]_tfVars
  BY DEF AccountsNext, allVars, emTf
<1> QED BY <1>1, <1>2, PTL DEF AccountsSpec, TfSpec, allVars

LEMMA KeysPart == AccountsSpec => AkSpec
<1>1. AccountsInit => AkInit
  BY DEF AccountsInit
<1>2. [AccountsNext]_allVars => [AkNext]_akVars
  BY DEF AccountsNext, allVars, akFd
<1> QED BY <1>1, <1>2, PTL DEF AccountsSpec, AkSpec, allVars

LEMMA FraudPart == AccountsSpec => FdSpec
<1>1. AccountsInit => FdInit
  BY DEF AccountsInit
<1>2. [AccountsNext]_allVars => [FdNext]_fdVars
  BY DEF AccountsNext, allVars, akFd
<1> QED BY <1>1, <1>2, PTL DEF AccountsSpec, FdSpec, allVars

LEMMA UsersPart == AccountsSpec => UsSpec
<1>1. AccountsInit => UsInit
  BY DEF AccountsInit
<1>2. [AccountsNext]_allVars => [UsNext]_usVars
  BY DEF AccountsNext, allVars, usEx
<1> QED BY <1>1, <1>2, PTL DEF AccountsSpec, UsSpec, allVars

LEMMA ExportsPart == AccountsSpec => ExSpec
<1>1. AccountsInit => ExInit
  BY DEF AccountsInit
<1>2. [AccountsNext]_allVars => [ExNext]_exVars
  BY DEF AccountsNext, allVars, usEx
<1> QED BY <1>1, <1>2, PTL DEF AccountsSpec, ExSpec, allVars

\* The rows, and the progress of the requests, of all nine modules keep their types.
THEOREM AccountsTyped == AccountsSpec => []AccountsTypeOK
<1>1. /\ TypeOK /\ (LLTypeOK /\ FailuresBounded)
      /\ (PwTypeOK /\ HistoryHeadsPassword /\ LiveResetsBounded /\ ResetUsesBounded)
      /\ EmTypeOK /\ (TfTypeOK /\ CodesSingleUse /\ EnabledHasSecret /\ TrustIsProved)
      /\ (AkTypeOK /\ QuotaBounded)
      /\ (FdTypeOK /\ ScoreMatchesSeverity /\ EscalationKept /\ AutoBlockTakesEffect)
      /\ (UsTypeOK /\ SessionsMatchUser /\ AuditEndsWithRole)
      /\ (ExTypeOK /\ MailedIsAvailable)
      => AccountsTypeOK
  BY DEF AccountsTypeOK
<1> QED BY <1>1, DeletionPart, LoginsPart, PasswordsPart, EmailsPart, FactorsPart, KeysPart, FraudPart,
           UsersPart, ExportsPart, TypeCorrect, LockoutSafe, PasswordsSafe, EmailsTyped, FactorSafe,
           QuotaSafe, AlertsSafe, UsersAgree, ExportsSafe, PTL

\* login-rate-limit.service.ts, api-keys.service.ts: for any number of overlapping
\* calls, the failed logins and the uses of a key exceed the limits by no more than
\* the calls that overlap.
THEOREM LimitsSafe == AccountsSpec => []LimitsHold
<1>1. (LLTypeOK /\ FailuresBounded) /\ (AkTypeOK /\ QuotaBounded) => LimitsHold
  BY DEF LimitsHold
<1> QED BY <1>1, LoginsPart, KeysPart, LockoutSafe, QuotaSafe, PTL

\* auth.service.ts: for any passwords, codes, devices and overlapping requests, the
\* password in force heads its history, reset tokens and recovery codes are spent
\* once, a factor in force has a secret and a trusted device has proved it.
THEOREM CredentialsProved == AccountsSpec => []CredentialsSafe
<1>1. /\ (PwTypeOK /\ HistoryHeadsPassword /\ LiveResetsBounded /\ ResetUsesBounded)
      /\ (TfTypeOK /\ CodesSingleUse /\ EnabledHasSecret /\ TrustIsProved)
      => CredentialsSafe
  BY DEF CredentialsSafe
<1> QED BY <1>1, PasswordsPart, FactorsPart, PasswordsSafe, FactorSafe, PTL

\* fraud.service.ts: the severity, score and block of an alert agree with each other
\* and with the detections it stands for, whatever detections overlap.
THEOREM AlertsProved == AccountsSpec => []AlertsConsistent
<1>1. FdTypeOK /\ ScoreMatchesSeverity /\ EscalationKept /\ AutoBlockTakesEffect => AlertsConsistent
  BY DEF AlertsConsistent
<1> QED BY <1>1, FraudPart, AlertsSafe, PTL

\* admin.service.ts, users.service.ts, data-export.service.ts: sessions, audit trail
\* and announced exports agree with the rows, for any overlapping requests and sweeps.
THEOREM RecordsProved == AccountsSpec => []AccountRecordsAgree
<1>1. (UsTypeOK /\ SessionsMatchUser /\ AuditEndsWithRole) /\ (ExTypeOK /\ MailedIsAvailable) => AccountRecordsAgree
  BY DEF AccountRecordsAgree
<1> QED BY <1>1, UsersPart, ExportsPart, UsersAgree, ExportsSafe, PTL

\* email-verification.service.ts: a change of address only ever stores an address
\* whose mailbox has answered, unless it wrote over a row that had changed.
THEOREM EmailProved == AccountsSpec => ChangedEmailProved
  BY EmailsPart, EmailChangeProved, PTL
=============================================================================
