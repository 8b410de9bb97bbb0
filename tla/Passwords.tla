----------------------------- MODULE Passwords ------------------------------
(* The password of one account: its history, its reset tokens and the       *)
(* requests that change it, each of which reads first and commits later.    *)
EXTENDS Integers, Sequences, FiniteSets

CONSTANTS PwReq,         \* requests that may overlap
          PasswordSet,   \* passwords that meet the policy
          HistoryLimit,  \* PASSWORD_HISTORY_LIMIT
          ResetIds       \* rows of password_reset_tokens

ASSUME PasswordsAssumption == /\ IsFiniteSet(PwReq) /\ IsFiniteSet(ResetIds)
                              /\ PasswordSet # {} /\ HistoryLimit \in Nat \ {0}

VARIABLES account,  \* password, its history (newest first), isBlocked
          resets,   \* [ResetIds -> the row, and how often it has set the password]
          pwReq     \* what each request has read

pwVars == <<account, resets, pwReq>>

PwIdle == [at |-> "idle", new |-> CHOOSE p \in PasswordSet : TRUE, token |-> {}]

PwTypeOK ==
    /\ account.password \in PasswordSet /\ account.blocked \in BOOLEAN
    /\ account.history \in Seq(PasswordSet) /\ Len(account.history) <= HistoryLimit
    /\ resets \in [ResetIds -> [st : {"none", "live", "expired", "used"}, uses : Nat]]
    /\ pwReq \in [PwReq -> [at : {"idle", "create", "change", "reset"}, new : PasswordSet,
                            token : {{}} \union {{t} : t \in ResetIds}]]

\* register, users.create and the import store the first password with its history row
PwInit == /\ account \in {[password |-> p, history |-> <<p>>, blocked |-> FALSE] : p \in PasswordSet}
          /\ resets = [t \in ResetIds |-> [st |-> "none", uses |-> 0]]
          /\ pwReq = [r \in PwReq |-> PwIdle]

Take(s, n) == SubSeq(s, 1, IF Len(s) < n THEN Len(s) ELSE n)
Reused(p) == \E i \in DOMAIN Take(account.history, HistoryLimit) : account.history[i] = p

requestPasswordReset_KeepOld(r) ==
    /\ pwReq[r].at = "idle" /\ ~account.blocked
    /\ pwReq' = [pwReq EXCEPT ![r].at = "create"] /\ UNCHANGED <<account, resets>>

\* requestPasswordReset expires the live tokens of the user ...
requestPasswordReset(r) ==
    /\ pwReq[r].at = "idle" /\ ~account.blocked
    /\ resets' = [t \in ResetIds |->
                     IF resets[t].st = "live" THEN [resets[t] EXCEPT !.st = "expired"] ELSE resets[t]]
    /\ pwReq' = [pwReq EXCEPT ![r].at = "create"] /\ UNCHANGED account

\* ... then creates one and sends it (a failed mail leaves the row)
CreateReset(r) ==
    /\ pwReq[r].at = "create"
    /\ \E t \in ResetIds : resets[t].st = "none" /\ resets' = [resets EXCEPT ![t].st = "live"]
    /\ pwReq' = [pwReq EXCEPT ![r] = PwIdle] /\ UNCHANGED account

\* resetPassword: the checks, made outside of the transaction
resetPassword(r, t) ==
    /\ pwReq[r].at = "idle" /\ resets[t].st = "live" /\ ~account.blocked
    /\ \E p \in PasswordSet : ~Reused(p)
          /\ pwReq' = [pwReq EXCEPT ![r] = [at |-> "reset", new |-> p, token |-> {t}]]
    /\ UNCHANGED <<account, resets>>

\* changePassword with the right current password: the checks
changePassword(r) ==
    /\ pwReq[r].at = "idle"
    /\ \E p \in PasswordSet : ~Reused(p)
          /\ pwReq' = [pwReq EXCEPT ![r] = [at |-> "change", new |-> p, token |-> {}]]
    /\ UNCHANGED <<account, resets>>

recordPasswordHistory_First(history, p) == Take(Append(history, p), HistoryLimit)

\* the new row first; the rows beyond the limit are deleted
recordPasswordHistory(history, p) == Take(<<p>> \o history, HistoryLimit)

CommitPassword_TokenLives(r) ==
    LET q == pwReq[r] IN
    /\ q.at \in {"change", "reset"}
    /\ account' = [account EXCEPT !.password = q.new, !.history = recordPasswordHistory(@, q.new)]
    /\ resets' = [t \in ResetIds |-> IF t \in q.token THEN [resets[t] EXCEPT !.uses = @ + 1] ELSE resets[t]]
    /\ pwReq' = [pwReq EXCEPT ![r] = PwIdle]

\* the transaction of either: the password, the token used, the history
CommitPassword(r) ==
    LET q == pwReq[r] IN
    /\ q.at \in {"change", "reset"}
    /\ account' = [account EXCEPT !.password = q.new, !.history = recordPasswordHistory(@, q.new)]
    /\ resets' = [t \in ResetIds |-> IF t \in q.token THEN [st |-> "used", uses |-> resets[t].uses + 1] ELSE resets[t]]
    /\ pwReq' = [pwReq EXCEPT ![r] = PwIdle]

\* an hour passes, and a day later cleanPasswordResetTokens deletes the row
ResetExpires(t) == /\ resets[t].st = "live" /\ resets' = [resets EXCEPT ![t].st = "expired"]
                   /\ UNCHANGED <<account, pwReq>>
cleanPasswordResetTokens(t) ==
    /\ resets[t].st \in {"expired", "used"} /\ \A r \in PwReq : t \notin pwReq[r].token
    /\ resets' = [resets EXCEPT ![t] = [st |-> "none", uses |-> 0]] /\ UNCHANGED <<account, pwReq>>

SetBlocked == /\ account' = [account EXCEPT !.blocked = ~@] /\ UNCHANGED <<resets, pwReq>>

PwNext == \/ \E r \in PwReq : \/ requestPasswordReset(r) \/ CreateReset(r) \/ changePassword(r)
                              \/ CommitPassword(r) \/ \E t \in ResetIds : resetPassword(r, t)
          \/ \E t \in ResetIds : ResetExpires(t) \/ cleanPasswordResetTokens(t)
          \/ SetBlocked

PwSpec == PwInit /\ [][PwNext]_pwVars

-----------------------------------------------------------------------------
(* Whatever changes and resets overlap, the password in force heads the     *)
(* history, so that it is among the ones that may not be chosen again       *)
(* (recordPasswordHistory, auth.service.ts:946-966).                        *)
HistoryHeadsPassword == account.history[1] = account.password

(* Expiring the old tokens and creating the new one are two queries, so     *)
(* overlapping requests leave more than one live; never more than there     *)
(* are overlapping requests (auth.service.ts:1713-1735).                    *)
LiveResetsBounded == Cardinality({t \in ResetIds : resets[t].st = "live"}) <= Cardinality(PwReq)

(* usedAt is checked outside of the transaction that sets it, so resets     *)
(* that overlap may share a token; once one of them has committed no later  *)
(* reset uses it (auth.service.ts:1757-1805).                               *)
ResetUsesBounded == \A t \in ResetIds : resets[t].uses <= Cardinality(PwReq)
=============================================================================
