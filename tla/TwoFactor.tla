----------------------------- MODULE TwoFactor ------------------------------
(* The second factor of one account: secret, recovery codes and trusted     *)
(* devices, under logins and settings that read the user's row first and    *)
(* write it in a later query.                                               *)
EXTENDS Integers, FiniteSets

CONSTANTS FactorReq,  \* requests that may overlap
          Devices,    \* rows of trusted_devices
          MaxGen      \* bound: sets of recovery codes ever issued

ASSUME TwoFactorAssumption == IsFiniteSet(FactorReq) /\ IsFiniteSet(Devices) /\ MaxGen \in Nat

VARIABLES factor,    \* twoFactorSecret, twoFactorEnabled, twoFactorBackupCodes
          devices,   \* [Devices -> its state]
          tfReq,     \* what each request has read
          consumed,  \* history: recovery codes that were accepted
          tfRaced    \* history: a write was based on a row that had changed

tfVars == <<factor, devices, tfReq, consumed, tfRaced>>

Totp == <<0, 0>>  \* stands for a valid TOTP code
Codes == (1..MaxGen) \X {1, 2}
CodesOf(g) == {c \in Codes : c[1] = g}
TfIdle == [op |-> "idle", codes |-> {}, code |-> {}, stale |-> FALSE]
TfOps == {"idle", "code", "guard", "remember", "verify", "disable", "revokeAll", "regenerate"}

TfTypeOK ==
    /\ factor \in [secret : BOOLEAN, enabled : BOOLEAN, codes : SUBSET Codes, gen : 0..MaxGen]
    /\ devices \in [Devices -> {"none", "proved", "unproved", "gone"}]
    /\ tfReq \in [FactorReq -> [op : TfOps, codes : SUBSET Codes, code : SUBSET (Codes \union {Totp}), stale : BOOLEAN]]
    /\ consumed \subseteq Codes /\ tfRaced \in BOOLEAN

TfInit == /\ factor = [secret |-> FALSE, enabled |-> FALSE, codes |-> {}, gen |-> 0]
          /\ devices = [d \in Devices |-> "none"]
          /\ tfReq = [r \in FactorReq |-> TfIdle] /\ consumed = {} /\ tfRaced = FALSE

\* a write of the user's row: requests that have read it are stale now
WriteRow(r, row, next) ==
    /\ factor' = row
    /\ tfRaced' = (tfRaced \/ tfReq[r].stale)
    /\ tfReq' = [s \in FactorReq |-> IF s = r THEN next
                                     ELSE IF tfReq[s].op = "idle" THEN TfIdle
                                     ELSE [tfReq[s] EXCEPT !.stale = TRUE]]

ReadRow(r, op, c) ==
    /\ tfReq[r].op = "idle"
    /\ tfReq' = [tfReq EXCEPT ![r] = [op |-> op, codes |-> factor.codes, code |-> c, stale |-> FALSE]]
    /\ UNCHANGED <<factor, devices, consumed, tfRaced>>

Trusted(d) == devices[d] \in {"proved", "unproved"}

\* login, second factor: none enabled, a TOTP code or a recovery code; a
\* trusted device skips it and is not remembered again
login2fa(r) == \/ ~factor.enabled /\ ReadRow(r, "remember", {})
               \/ factor.enabled /\ factor.secret /\ ReadRow(r, "remember", {Totp})
               \/ factor.enabled /\ \E c \in factor.codes : ReadRow(r, "code", {c})

\* FreshTwoFactorGuard with a recovery code
freshTwoFactor(r) == factor.enabled /\ \E c \in factor.codes : ReadRow(r, "guard", {c})

consumeCode_Keep(r) ==
    /\ tfReq[r].op \in {"code", "guard"}
    /\ consumed' = consumed \union tfReq[r].code
    /\ WriteRow(r, [factor EXCEPT !.codes = tfReq[r].codes],
                IF tfReq[r].op = "guard" THEN TfIdle ELSE [tfReq[r] EXCEPT !.op = "remember"])
    /\ UNCHANGED devices

\* the code is taken out of the list the request has read
consumeCode(r) ==
    /\ tfReq[r].op \in {"code", "guard"}
    /\ consumed' = consumed \union tfReq[r].code
    /\ WriteRow(r, [factor EXCEPT !.codes = tfReq[r].codes \ tfReq[r].code],
                IF tfReq[r].op = "guard" THEN TfIdle ELSE [tfReq[r] EXCEPT !.op = "remember"])
    /\ UNCHANGED devices

rememberDevice_Always(r) ==
    /\ tfReq[r].op = "remember" /\ tfReq' = [tfReq EXCEPT ![r] = TfIdle]
    /\ \E d \in Devices : devices[d] \in {"none", "gone"} /\ devices' = [devices EXCEPT
          ![d] = IF tfReq[r].code # {} THEN "proved" ELSE "unproved"]
    /\ tfRaced' = (tfRaced \/ tfReq[r].stale)
    /\ UNCHANGED <<factor, consumed>>

\* rememberDevice, when asked for and the row read again has the factor enabled
rememberDevice(r) ==
    /\ tfReq[r].op = "remember" /\ tfReq' = [tfReq EXCEPT ![r] = TfIdle]
    /\ \/ /\ factor.enabled
          /\ \E d \in Devices : devices[d] \in {"none", "gone"} /\ devices' = [devices EXCEPT
                ![d] = IF tfReq[r].code # {} THEN "proved" ELSE "unproved"]
          /\ tfRaced' = (tfRaced \/ tfReq[r].stale)
       \/ UNCHANGED <<devices, tfRaced>>
    /\ UNCHANGED <<factor, consumed>>

\* setupTwoFactor: a new secret, not yet enabled, and new codes
setupTwoFactor(r) ==
    /\ tfReq[r].op = "idle" /\ factor.gen < MaxGen
    /\ LET g == factor.gen + 1
       IN WriteRow(r, [secret |-> TRUE, enabled |-> FALSE, codes |-> CodesOf(g), gen |-> g], TfIdle)
    /\ UNCHANGED <<devices, consumed>>

verifyTwoFactor_Blind(r) == ReadRow(r, "verify", {})

\* verifyTwoFactor: a code of the secret that was read
verifyTwoFactor(r) == factor.secret /\ ReadRow(r, "verify", {})
EnableFactor(r) == /\ tfReq[r].op = "verify" /\ WriteRow(r, [factor EXCEPT !.enabled = TRUE], TfIdle)
                   /\ UNCHANGED <<devices, consumed>>

\* disableTwoFactor and adminForceDisableTwoFactor: the row, then the devices
disableTwoFactor(r) == ReadRow(r, "disable", {})
ClearFactor(r) ==
    /\ tfReq[r].op = "disable"
    /\ WriteRow(r, [factor EXCEPT !.secret = FALSE, !.enabled = FALSE, !.codes = {}],
                [tfReq[r] EXCEPT !.op = "revokeAll"])
    /\ UNCHANGED <<devices, consumed>>
revokeAllDevices(r) ==
    /\ tfReq[r].op = "revokeAll" /\ tfReq' = [tfReq EXCEPT ![r] = TfIdle]
    /\ devices' = [d \in Devices |-> IF Trusted(d) THEN "gone" ELSE devices[d]]
    /\ UNCHANGED <<factor, consumed, tfRaced>>

\* changePassword ends with revokeAllDevices too
PasswordChanged(r) == ReadRow(r, "revokeAll", {})

\* regenerateRecoveryCodes
regenerateRecoveryCodes(r) == factor.enabled /\ factor.gen < MaxGen /\ ReadRow(r, "regenerate", {})
ReplaceCodes(r) ==
    /\ tfReq[r].op = "regenerate"
    /\ IF factor.gen < MaxGen
       THEN WriteRow(r, [factor EXCEPT !.codes = CodesOf(factor.gen + 1), !.gen = @ + 1], TfIdle)
       ELSE tfReq' = [tfReq EXCEPT ![r] = TfIdle] /\ UNCHANGED <<factor, tfRaced>>
    /\ UNCHANGED <<devices, consumed>>

\* revokeDevice, or its time is over (isTrustedDevice then refuses it)
revokeDevice(d) == /\ Trusted(d) /\ devices' = [devices EXCEPT ![d] = "gone"]
                   /\ UNCHANGED <<factor, tfReq, consumed, tfRaced>>

TfStep(r) == \/ login2fa(r) \/ freshTwoFactor(r) \/ consumeCode(r) \/ rememberDevice(r)
             \/ setupTwoFactor(r) \/ verifyTwoFactor(r) \/ EnableFactor(r) \/ disableTwoFactor(r)
             \/ ClearFactor(r) \/ revokeAllDevices(r) \/ PasswordChanged(r)
             \/ regenerateRecoveryCodes(r) \/ ReplaceCodes(r)

TfNext == (\E r \in FactorReq : TfStep(r)) \/ \E d \in Devices : revokeDevice(d)

TfSpec == TfInit /\ [][TfNext]_tfVars

-----------------------------------------------------------------------------
(* A recovery code that was accepted is never accepted again: only a write  *)
(* of the whole list from an outdated read (two logins, or a login and a    *)
(* regeneration, that overlap) can bring it back (auth.service.ts:434-441,  *)
(* fresh-two-factor.guard.ts:63-72).                                        *)
CodesSingleUse == ~tfRaced => consumed \intersect factor.codes = {}

(* An account whose second factor is enabled has a secret to answer with:   *)
(* only verifyTwoFactor overtaken by a disabling can leave it enabled       *)
(* without one, which no login passes (auth.service.ts:1063-1082).          *)
EnabledHasSecret == ~tfRaced => (factor.enabled => factor.secret)

(* A device is only remembered for a login that proved the second factor:   *)
(* only a login that began before the factor was enabled gets by            *)
(* (auth.service.ts:486-498).                                               *)
TrustIsProved == ~tfRaced => \A d \in Devices : devices[d] # "unproved"
=============================================================================
