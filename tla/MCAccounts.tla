----------------------------- MODULE MCAccounts -----------------------------
(***************************************************************************)
(* The modules about user accounts on small instances.  They share no       *)
(* state, so a behaviour is one of one of them: part says which, and the    *)
(* variables of the others keep their initial values.                       *)
(***************************************************************************)
EXTENDS AccountDeletion, LoginLimits, Passwords, Emails, TwoFactor, ApiKeys, Fraud, Users, Exports, TLC

VARIABLE part

\* The requests of the modules are the same two values, and exchangeable.
RequestSymmetry == Permutations(LoginReq)

llPw == <<llVars, pwVars>>
emTf == <<emVars, tfVars>>
akFd == <<akVars, fdVars>>
usEx == <<usVars, exVars>>

AccountsInit ==
    /\ part \in {"deletion", "logins", "passwords", "emails", "factors", "keys", "fraud", "users", "exports"}
    /\ Init /\ LLInit /\ PwInit /\ EmInit /\ TfInit /\ AkInit /\ FdInit /\ UsInit /\ ExInit
    /\ part # "fraud" => pattern = "TOKEN_REUSE"
    /\ part # "passwords" => account.password = CHOOSE p \in PasswordSet : TRUE
    /\ part # "users" => person.role = CHOOSE x \in UserRoles : TRUE

AccountsNext ==
    /\ UNCHANGED part
    /\ \/ part = "deletion" /\ Next /\ UNCHANGED <<llPw, emTf, akFd, usEx>>
       \/ part = "logins" /\ LLNext /\ UNCHANGED <<vars, pwVars, emTf, akFd, usEx>>
       \/ part = "passwords" /\ PwNext /\ UNCHANGED <<vars, llVars, emTf, akFd, usEx>>
       \/ part = "emails" /\ EmNext /\ UNCHANGED <<vars, llPw, tfVars, akFd, usEx>>
       \/ part = "factors" /\ TfNext /\ UNCHANGED <<vars, llPw, emVars, akFd, usEx>>
       \/ part = "keys" /\ AkNext /\ UNCHANGED <<vars, llPw, emTf, fdVars, usEx>>
       \/ part = "fraud" /\ FdNext /\ UNCHANGED <<vars, llPw, emTf, akVars, usEx>>
       \/ part = "users" /\ UsNext /\ UNCHANGED <<vars, llPw, emTf, akFd, exVars>>
       \/ part = "exports" /\ ExNext /\ UNCHANGED <<vars, llPw, emTf, akFd, usVars>>

AccountsSpec == AccountsInit /\ [][AccountsNext]_<<part, vars, llPw, emTf, akFd, usEx>>

\* Every row, and the progress of every request, holds a value of its type.
AccountsTypeOK ==
    TypeOK /\ LLTypeOK /\ PwTypeOK /\ EmTypeOK /\ TfTypeOK /\ AkTypeOK /\ FdTypeOK /\ UsTypeOK /\ ExTypeOK

\* Checked in one query and stored in a later one, the limits on failed logins and on
\* the uses of an API key are exceeded by no more than the calls that overlap.
LimitsHold == FailuresBounded /\ QuotaBounded

\* What a user proves himself with: whatever changes, resets, logins and disablings
\* overlap, the password in force heads its history, reset tokens and recovery codes
\* are spent once, a factor in force has a secret, a trusted device proved it; each part
\* names the stale writes of auth.service.ts that break it.
CredentialsSafe ==
    /\ HistoryHeadsPassword /\ LiveResetsBounded /\ ResetUsesBounded
    /\ CodesSingleUse /\ EnabledHasSecret /\ TrustIsProved

\* createOrUpdateAlert: the severity, score and block of an alert agree with each other
\* and with the detections it stands for, unless an update used an outdated read.
AlertsConsistent == ScoreMatchesSeverity /\ EscalationKept /\ AutoBlockTakesEffect

\* What is kept about a user agrees with the user's row: the roles of the sessions, the
\* end of the audit trail, the exports that were announced (admin.service.ts,
\* users.service.ts, data-export.service.ts).
AccountRecordsAgree == SessionsMatchUser /\ AuditEndsWithRole /\ MailedIsAvailable
=============================================================================
