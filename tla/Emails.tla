------------------------------- MODULE Emails -------------------------------
(* Registration and the e-mail address of one user: the verification token, *)
(* the pending address and the requests that read the row, check it and     *)
(* write it in a second query.                                              *)
EXTENDS Integers, FiniteSets

CONSTANTS EmailReq,   \* requests that may overlap
          Addresses,  \* addresses no other user has
          MaxTokens   \* bound: tokens ever sent

ASSUME EmailsAssumption == /\ IsFiniteSet(EmailReq) /\ MaxTokens \in Nat
                           /\ IsFiniteSet(Addresses) /\ Addresses # {} /\ "none" \notin Addresses

VARIABLES usr,     \* the row: email, pendingEmail, token (0: none), expired, isVerified
          sentTo,  \* the address each token was sent to (only its mailbox knows it)
          emReq,   \* what each request has read
          proved,  \* history: addresses whose mailbox has answered
          raced    \* history: a write was based on a row that had changed, or an
                   \* administrator has taken a verification back

emVars == <<usr, sentTo, emReq, proved, raced>>

NoAddress == "none"
MaybeAddress == Addresses \union {NoAddress}
EmIdle == [op |-> "idle", token |-> 0, address |-> NoAddress, stale |-> FALSE]
EmOps == {"idle", "clear", "verify", "resendFirst", "change", "resend", "verifyChange"}

EmTypeOK ==
    /\ usr \in [email : MaybeAddress, pending : MaybeAddress, token : 0..MaxTokens,
                expired : BOOLEAN, verified : BOOLEAN, ip : BOOLEAN]
    /\ sentTo \in [1..MaxTokens -> MaybeAddress]
    /\ emReq \in [EmailReq -> [op : EmOps, token : 0..MaxTokens,
                               address : MaybeAddress, stale : BOOLEAN]]
    /\ proved \subseteq Addresses /\ raced \in BOOLEAN

EmInit == /\ usr = [email |-> NoAddress, pending |-> NoAddress, token |-> 0,
                    expired |-> FALSE, verified |-> FALSE, ip |-> FALSE]
          /\ sentTo = [t \in 1..MaxTokens |-> NoAddress]
          /\ emReq = [r \in EmailReq |-> EmIdle] /\ proved = {} /\ raced = FALSE

Fresh == {t \in 1..MaxTokens : /\ sentTo[t] = NoAddress
                               /\ \A s \in 1..(t - 1) : sentTo[s] # NoAddress}

\* register: the row, its token, the mail, and the address of the caller in
\* registrationIpMap (canRegisterFromIp refuses it until the entry expires)
register == /\ usr.email = NoAddress /\ ~usr.ip
            /\ \E a \in Addresses, t \in Fresh :
                  /\ usr' = [usr EXCEPT !.email = a, !.token = t, !.ip = TRUE]
                  /\ sentTo' = [sentTo EXCEPT ![t] = a]
            /\ UNCHANGED <<emReq, proved, raced>>

canRegisterFromIp == /\ usr.ip /\ usr' = [usr EXCEPT !.ip = FALSE]
                     /\ UNCHANGED <<sentTo, emReq, proved, raced>>

LinkExpires == /\ usr.token # 0 /\ ~usr.expired /\ usr' = [usr EXCEPT !.expired = TRUE]
                /\ UNCHANGED <<sentTo, emReq, proved, raced>>

\* the read of a request; its checks are made on this row
Read(r, op, t, a) ==
    /\ emReq[r].op = "idle" /\ usr.email # NoAddress
    /\ emReq' = [emReq EXCEPT ![r] = [op |-> op, token |-> t, address |-> a, stale |-> FALSE]]
    /\ UNCHANGED <<usr, sentTo, proved, raced>>

\* whoever presents the token has it from the mailbox it was sent to
verifyInitialEmail(r) == /\ usr.token # 0
                         /\ \/ usr.expired /\ Read(r, "clear", 0, usr.pending)
                            \/ ~usr.expired /\ ~usr.verified /\ Read(r, "verify", usr.token, NoAddress)

resendEmailVerification(r) == ~usr.verified /\ Read(r, "resendFirst", 0, usr.email)

\* the requests from here on carry a session, which only a verified user gets
requestEmailChange(r) == usr.verified /\ \E a \in Addresses \ {usr.email} : Read(r, "change", 0, a)

resendVerification_ToOld(r) == usr.verified /\ usr.pending # NoAddress /\ Read(r, "resend", 0, usr.email)

resendVerification(r) == usr.verified /\ usr.pending # NoAddress /\ Read(r, "resend", 0, usr.pending)

\* an expired token is cleared with the pending address
verifyEmailChange(r) ==
    /\ usr.verified /\ usr.token # 0
    /\ \/ usr.expired /\ Read(r, "clear", 0, NoAddress)
       \/ ~usr.expired /\ usr.pending # NoAddress /\ Read(r, "verifyChange", usr.token, usr.pending)

cancelEmailChange(r) == usr.verified /\ usr.pending # NoAddress /\ Read(r, "clear", 0, NoAddress)

\* updateProfile and users.update store an address without asking its mailbox
updateProfile == /\ usr.verified /\ \E a \in Addresses : usr' = [usr EXCEPT !.email = a]
                 /\ UNCHANGED <<sentTo, emReq, proved, raced>>

\* verify and unverify of an administrator
setVerified == /\ usr.email # NoAddress /\ usr' = [usr EXCEPT !.verified = ~@]
               /\ raced' = (raced \/ usr.verified) /\ UNCHANGED <<sentTo, emReq, proved>>

\* the write of a request; every other request that has read is stale now
Write(r, row, sent) ==
    /\ usr' = row /\ sentTo' = sent
    /\ raced' = (raced \/ emReq[r].stale)
    /\ emReq' = [s \in EmailReq |-> IF s = r \/ emReq[s].op = "idle" THEN EmIdle
                                    ELSE [emReq[s] EXCEPT !.stale = TRUE]]

ClearToken(r) == /\ emReq[r].op = "clear" /\ UNCHANGED proved
                 /\ Write(r, [usr EXCEPT !.token = 0, !.expired = FALSE,
                                         !.pending = emReq[r].address], sentTo)

CommitVerify(r) ==
    /\ emReq[r].op = "verify" /\ proved' = proved \union {sentTo[emReq[r].token]}
    /\ Write(r, [usr EXCEPT !.verified = TRUE, !.token = 0, !.expired = FALSE], sentTo)

\* a new token, mailed to the address the request has in its hands
StoreToken(r) ==
    /\ emReq[r].op \in {"resendFirst", "change", "resend"} /\ UNCHANGED proved
    /\ \E t \in Fresh : Write(r, [usr EXCEPT !.token = t, !.expired = FALSE,
            !.pending = IF emReq[r].op = "change" THEN emReq[r].address ELSE @],
            [sentTo EXCEPT ![t] = emReq[r].address])

CommitChange(r) ==
    /\ emReq[r].op = "verifyChange" /\ proved' = proved \union {sentTo[emReq[r].token]}
    /\ Write(r, [usr EXCEPT !.email = emReq[r].address, !.pending = NoAddress,
                            !.token = 0, !.expired = FALSE], sentTo)

EmStep(r) == \/ verifyInitialEmail(r) \/ resendEmailVerification(r) \/ requestEmailChange(r)
             \/ resendVerification(r) \/ verifyEmailChange(r) \/ cancelEmailChange(r)
             \/ ClearToken(r) \/ CommitVerify(r) \/ StoreToken(r) \/ CommitChange(r)

EmNext == \/ register \/ canRegisterFromIp \/ LinkExpires \/ updateProfile \/ setVerified
          \/ \E r \in EmailReq : EmStep(r)

EmSpec == EmInit /\ [][EmNext]_emVars

-----------------------------------------------------------------------------
(* verifyEmailChange only ever stores an address whose mailbox has          *)
(* answered: of all the ways to order requests, only a write over a row     *)
(* that changed since it was read (a resend that overtakes a new request),  *)
(* or a verification taken back meanwhile, can break it                     *)
(* (email-verification.service.ts:76-160).                                  *)
ChangedEmailProved ==
    [][\A r \in EmailReq : CommitChange(r) => usr'.email \in proved' \/ raced']_emVars
=============================================================================
