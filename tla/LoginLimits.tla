---------------------------- MODULE LoginLimits ----------------------------
(* The login lockout of one e-mail address: the rows of login_attempts, the *)
(* CAPTCHA threshold and the overlapping logins of AuthService.login.       *)
(* Times are relative: a row has an age, a lock the time it has left.  A    *)
(* row past the window is read by no query and is forgotten by the clock;   *)
(* so is the row of a success, which no query counts.                       *)
EXTENDS Integers, Sequences, FiniteSets

CONSTANTS LoginReq,      \* logins that may overlap
          MaxAttempts,   \* LOGIN_MAX_ATTEMPTS
          LockoutTicks,  \* LOGIN_LOCKOUT_MINUTES, in ticks
          CaptchaAt,     \* CAPTCHA_THRESHOLD
          MaxRows        \* bound: rows of the window

ASSUME LoginLimitsAssumption ==
    /\ IsFiniteSet(LoginReq) /\ LoginReq # {} /\ MaxAttempts \in Nat \ {0}
    /\ LockoutTicks \in Nat \ {0} /\ CaptchaAt \in Nat /\ MaxRows \in Nat

VARIABLES attempts,  \* failures of the window, oldest first
          logins     \* what each login has done so far

llVars == <<attempts, logins>>

\* a failure: how long ago, lockedOut ("cleared": set and cleared again by an
\* administrator, which the code does not tell from "no"), the time to unlockAt
Failure == [age : 0..LockoutTicks, lockedOut : {"no", "yes", "cleared"}, left : 0..LockoutTicks]

LoginAt == {"idle", "captcha", "password", "count", "insert"}
Login == [at : LoginAt, lock : {"no", "yes"}, left : 0..LockoutTicks]
IdleLogin == [at |-> "idle", lock |-> "no", left |-> 0]

LLTypeOK == /\ attempts \in Seq(Failure) /\ Len(attempts) <= MaxRows
            /\ logins \in [LoginReq -> Login]

LLInit == attempts = <<>> /\ logins = [r \in LoginReq |-> IdleLogin]

isAccountLocked == \E i \in DOMAIN attempts : attempts[i].lockedOut = "yes" /\ attempts[i].left > 0

getFailedAttemptsCount == Len(attempts)

Goto(r, at) == logins' = [logins EXCEPT ![r].at = at]
Refuse(r) == logins' = [logins EXCEPT ![r] = IdleLogin]

preflightChecks_Unlocked(r) ==
    logins[r].at = "idle" /\ Goto(r, "captcha") /\ UNCHANGED attempts

\* preflightChecks, the lock: the login is refused or goes on
preflightChecks(r) ==
    /\ logins[r].at = "idle" /\ ~isAccountLocked
    /\ Goto(r, "captcha") /\ UNCHANGED attempts

\* preflightChecks, the CAPTCHA: none needed or a valid one; a missing token
\* or a missing secret (503) ends the login; an invalid one is a failure
preflightCaptcha(r) ==
    /\ logins[r].at = "captcha" /\ UNCHANGED attempts
    /\ \/ Goto(r, "password")
       \/ getFailedAttemptsCount >= CaptchaAt /\ Refuse(r)
       \/ getFailedAttemptsCount >= CaptchaAt /\ Goto(r, "count")

\* login and verifyCredentials: a gate of the account or the second factor
\* refuses, the password is right, or the user is unknown or the password is
\* wrong, which counts
verifyCredentials(r) ==
    /\ logins[r].at = "password" /\ UNCHANGED attempts
    /\ (Refuse(r) \/ Goto(r, "count"))

recordFailedAttempt_OffByOne(r) ==
    LET shouldLock == getFailedAttemptsCount >= MaxAttempts
    IN /\ logins[r].at = "count"
       /\ logins' = [logins EXCEPT ![r] = [at |-> "insert", lock |-> IF shouldLock THEN "yes" ELSE "no",
                        left |-> IF shouldLock THEN LockoutTicks ELSE 0]]
       /\ UNCHANGED attempts

recordFailedAttempt_OtherClock(r) ==
    LET shouldLock == getFailedAttemptsCount + 1 >= MaxAttempts
    IN /\ logins[r].at = "count"
       /\ logins' = [logins EXCEPT ![r] = [at |-> "insert", lock |-> IF shouldLock THEN "yes" ELSE "no",
                        left |-> IF shouldLock THEN LockoutTicks + 1 ELSE 0]]
       /\ UNCHANGED attempts

\* recordFailedAttempt counts the failures of the window ...
recordFailedAttempt(r) ==
    LET shouldLock == getFailedAttemptsCount + 1 >= MaxAttempts
    IN /\ logins[r].at = "count"
       /\ logins' = [logins EXCEPT ![r] = [at |-> "insert", lock |-> IF shouldLock THEN "yes" ELSE "no",
                        left |-> IF shouldLock THEN LockoutTicks ELSE 0]]
       /\ UNCHANGED attempts

\* ... and inserts its own row in a second query
InsertFailure(r) ==
    /\ logins[r].at = "insert" /\ Len(attempts) < MaxRows
    /\ attempts' = Append(attempts, [age |-> 0, lockedOut |-> logins[r].lock, left |-> logins[r].left])
    /\ Refuse(r)

\* unlockAccount clears the locks; the failures stay counted
unlockAccount ==
    /\ isAccountLocked
    /\ attempts' = [i \in DOMAIN attempts |->
          IF attempts[i].left > 0 THEN [attempts[i] EXCEPT !.left = 0, !.lockedOut = "cleared"]
          ELSE attempts[i]]
    /\ UNCHANGED logins

Minus1(n) == IF n = 0 THEN 0 ELSE n - 1

\* time passes: the oldest rows leave the window, locks run out
LockTick ==
    /\ \E n \in 0..Len(attempts) :
          /\ \A i \in DOMAIN attempts : i <= n <=> attempts[i].age = LockoutTicks
          /\ attempts' = [i \in 1..(Len(attempts) - n) |->
                [attempts[i + n] EXCEPT !.age = @ + 1, !.left = Minus1(@)]]
    /\ logins' = [r \in LoginReq |-> [logins[r] EXCEPT !.left = Minus1(@)]]

LLStep(r) == \/ preflightChecks(r) \/ preflightCaptcha(r) \/ verifyCredentials(r)
             \/ recordFailedAttempt(r) \/ InsertFailure(r)

LLNext == (\E r \in LoginReq : LLStep(r)) \/ unlockAccount \/ LockTick

LLSpec == LLInit /\ [][LLNext]_llVars

-----------------------------------------------------------------------------
(* Failures are counted and inserted in two queries, so logins that overlap *)
(* can all fail without a lock; but no more than one row per overlapping    *)
(* login goes past the allowed number before a lock is stored               *)
(* (recordFailedAttempt, login-rate-limit.service.ts:85-110).               *)
FailuresBounded ==
    Cardinality({i \in DOMAIN attempts : attempts[i].lockedOut = "no"})
        <= (MaxAttempts - 1) + (Cardinality(LoginReq) - 1)

(* A lock runs out: an account that is locked is unlocked again, however    *)
(* many logins that began before the lock still fail and renew it.          *)
LockEnds == []<>~isAccountLocked
=============================================================================
