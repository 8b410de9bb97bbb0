---------------------------- MODULE Transactions ----------------------------
(***************************************************************************)
(* The life of a property transaction in the PropChain back end: the       *)
(* handlers of TransactionsService, TransactionCancellationService and     *)
(* BlockchainService that read and write the transactions table, with the  *)
(* commission rows, the audit log and the timeline that they keep in step. *)
(*                                                                         *)
(* A handler is a sequence of awaited database calls with no transaction   *)
(* around them (TransactionsService.create is the one exception), so each  *)
(* call is an action and the calls of concurrent requests interleave.  The *)
(* first action of a handler is its first read with the checks that follow *)
(* it; a request that fails a check changes nothing and is not a step.     *)
(***************************************************************************)
EXTENDS Naturals, FiniteSets, TLC

CONSTANTS
    Tx,         \* ids of transaction rows
    Req,        \* requests; each one is served once, so |Req| bounds a run
    Ops,        \* the operations that clients call in this run
    Chain,      \* "on", "unconfigured" (no RPC url) or "off" (env 'false')
    Serial,     \* TRUE: a request starts only when no other is in flight
    Faults      \* TRUE: a database call may fail, a process may crash

AllOps == {"create", "createTransaction", "update", "updateTransactionStatus",
           "verify", "record", "recordDirect", "updateEscrow", "cancel",
           "processRefund"}

ASSUME TransactionsAssumption ==
    /\ Ops \subseteq AllOps
    /\ Chain \in {"on", "unconfigured", "off"}
    /\ Serial \in BOOLEAN
    /\ Faults \in BOOLEAN

Status == {"PENDING", "COMPLETED", "CANCELLED"}
Escrow == {"PENDING", "HELD", "RELEASED", "REFUNDED"}

VARIABLES
    \* the transactions table, one variable per column ("none": no such row)
    status, escrow, hash, refund,
    comm,       \* status shared by the commission rows of a transaction
    audit,      \* transactionHistory entries <<previous, next>>
    stage,      \* statuses that have a timeline stage event
    \* requests in flight: next step, target and argument, values read
    pc, job, seen,
    \* history: statuses a row has had, changes it went through, refunds sent
    had, changes, refundsSent

columns == <<status, escrow, hash, refund>>
derived == <<comm, audit, stage>>
requests == <<pc, job, seen>>
history == <<had, changes, refundsSent>>
vars == <<columns, derived, requests, history>>

NoJob == [tx |-> "none", arg |-> "none"]

PCs == {"idle", "done", "createLookup", "createCommit", "createHash",
        "lookup", "createMany", "updateWrite", "updateSync", "statusWrite",
        "statusAudit", "statusSync", "statusStage", "verifyWrite",
        "verifySync", "recordValidate", "recordWrite", "recordLog",
        "recordStore", "directWrite", "directLog",
        "escrowWrite", "cancelWrite", "refundWrite", "refundNotify"}

\* A row as POST /transactions and createTransaction leave it.
Fresh(t) == status[t] = "none"

(***************************************************************************)
(* Initially each id is unused or holds a row that an earlier, finished    *)
(* create request made.                                                    *)
(***************************************************************************)
Init ==
    /\ status \in [Tx -> {"none", "PENDING"}]
    /\ hash \in [Tx -> {"null", "auto"}]
    /\ comm \in [Tx -> {"none", "PENDING"}]
    /\ \A t \in Tx : Fresh(t) => hash[t] = "null" /\ comm[t] = "none"
    /\ escrow = [t \in Tx |-> "null"]
    /\ refund = [t \in Tx |-> "NONE"]
    /\ audit = [t \in Tx |-> {}]
    /\ stage = [t \in Tx |-> {}]
    /\ pc = [r \in Req |-> "idle"]
    /\ job = [r \in Req |-> NoJob]
    /\ seen = [r \in Req |-> "none"]
    /\ had = [t \in Tx |-> {status[t]} \ {"none"}]
    /\ changes = [t \in Tx |-> {}]
    /\ refundsSent = [t \in Tx |-> 0]

-----------------------------------------------------------------------------
(* Requests *)

Available(r) ==
    /\ pc[r] = "idle"
    /\ Serial => \A q \in Req : pc[q] \in {"idle", "done"}

\* A request is accepted: its first read of row t returned s.
Accept(r, op, t, arg, s, next) ==
    /\ op \in Ops
    /\ Available(r)
    /\ pc' = [pc EXCEPT ![r] = next]
    /\ job' = [job EXCEPT ![r] = [tx |-> t, arg |-> arg]]
    /\ seen' = [seen EXCEPT ![r] = s]

Goto(r, from, to) ==
    /\ pc[r] = from
    /\ pc' = [pc EXCEPT ![r] = to]
    /\ UNCHANGED <<job, seen>>

\* prisma.transaction.update({ data: { status: s } }), with its history.
WriteStatus(t, s) ==
    /\ status' = [status EXCEPT ![t] = s]
    /\ had' = [had EXCEPT ![t] = @ \cup {s}]
    /\ changes' = [changes EXCEPT ![t] =
                       IF status[t] = s THEN @ ELSE @ \cup {<<status[t], s>>}]

\* Mutated form: a terminal status may be left again.
canTransitionTransactionStatus_Reopen(current, next) ==
    current = next \/ current \in {"PENDING", "CANCELLED"}

canTransitionTransactionStatus(current, next) ==
    current = next \/ (current = "PENDING" /\ next \in {"COMPLETED", "CANCELLED"})

\* Mutated form: the ternary maps CANCELLED to COMPLETED.
updateCommissionsStatus_Mapping(t, s) ==
    comm' = [comm EXCEPT ![t] = IF @ = "none" THEN @ ELSE
                                IF s = "PENDING" THEN s ELSE "COMPLETED"]

\* CommissionsService.updateCommissionsStatus: one updateMany, which touches
\* no row when the transaction has no commissions; an error is swallowed.
updateCommissionsStatus(t, s) ==
    \/ comm' = [comm EXCEPT ![t] = IF @ = "none" THEN @ ELSE s]
    \/ Faults /\ UNCHANGED comm

-----------------------------------------------------------------------------
(* POST /transactions: TransactionsService.create *)

\* Inserts the row inside prisma.$transaction: not visible until it commits.
CreateInsert(r, t) ==
    /\ Fresh(t)
    /\ \A q \in Req : pc[q] \in {"createLookup", "createCommit"} => job[q].tx # t
    /\ Accept(r, "create", t, "none", "none", "createLookup")
    /\ UNCHANGED <<columns, derived, history>>

\* createCommissionsForTransaction(createdTx.id) queries through this.prisma,
\* a connection outside the open transaction: the row is looked up there.
CreateLookup(r) ==
    /\ Goto(r, "createLookup", "createCommit")
    /\ LET t == job[r].tx IN
         comm' = [comm EXCEPT ![t] = IF Fresh(t) THEN @ ELSE status[t]]
    /\ UNCHANGED <<columns, audit, stage, history>>

CreateCommit(r) ==
    /\ Goto(r, "createCommit", IF Chain = "off" THEN "done" ELSE "createHash")
    /\ status' = [status EXCEPT ![job[r].tx] = "PENDING"]
    /\ had' = [had EXCEPT ![job[r].tx] = @ \cup {"PENDING"}]
    /\ UNCHANGED <<escrow, hash, refund, derived, changes, refundsSent>>

\* autoRecordOnBlockchain: best effort, a failure is logged.
CreateHash(r) ==
    /\ Goto(r, "createHash", "done")
    /\ \/ hash' = [hash EXCEPT ![job[r].tx] = "auto"]
       \/ Faults /\ UNCHANGED hash
    /\ UNCHANGED <<status, escrow, refund, derived, history>>

(* TransactionsService.createTransaction: no surrounding transaction *)

createTransaction(r, t) ==
    /\ Fresh(t)
    /\ \A q \in Req : pc[q] \in {"createLookup", "createCommit"} => job[q].tx # t
    /\ Accept(r, "createTransaction", t, "none", "none", "lookup")
    /\ status' = [status EXCEPT ![t] = "PENDING"]
    /\ had' = [had EXCEPT ![t] = @ \cup {"PENDING"}]
    /\ UNCHANGED <<escrow, hash, refund, derived, changes, refundsSent>>

\* createCommissionsForTransaction: reads the row and the property's agents
\* (none: nothing to create), then inserts rows with the status it read.
CommissionsLookup(r) ==
    /\ pc[r] = "lookup"
    /\ pc' \in {[pc EXCEPT ![r] = "createMany"], [pc EXCEPT ![r] = "done"]}
    /\ seen' = [seen EXCEPT ![r] = status[job[r].tx]]
    /\ UNCHANGED <<columns, derived, job, history>>

CommissionsCreateMany(r) ==
    /\ Goto(r, "createMany", "done")
    /\ \/ comm' = [comm EXCEPT ![job[r].tx] = seen[r]]
       \/ Faults /\ UNCHANGED comm
    /\ UNCHANGED <<columns, audit, stage, history>>

-----------------------------------------------------------------------------
(* PUT /transactions/:id: TransactionsService.update.  FAILED is rejected;   *)
(* COMPLETED wants the escrow unset or RELEASED.  Without a status ("none")  *)
(* only the notes change.                                                    *)

UpdateRead(r, t, s) ==
    /\ ~Fresh(t)
    /\ s = "COMPLETED" => escrow[t] \in {"null", "RELEASED"}
    /\ Accept(r, "update", t, s, status[t], "updateWrite")
    /\ UNCHANGED <<columns, derived, history>>

UpdateWrite(r) ==
    LET s == job[r].arg IN
    /\ Goto(r, "updateWrite", IF s = "none" THEN "done" ELSE "updateSync")
    /\ IF s = "none" THEN UNCHANGED <<status, had, changes>>
                     ELSE WriteStatus(job[r].tx, s)
    /\ UNCHANGED <<escrow, hash, refund, derived, refundsSent>>

UpdateSync(r) ==
    /\ Goto(r, "updateSync", "done")
    /\ updateCommissionsStatus(job[r].tx, job[r].arg)
    /\ UNCHANGED <<columns, audit, stage, history>>

-----------------------------------------------------------------------------
(* PATCH /admin/transactions/:id/status: updateTransactionStatus *)

StatusRead(r, t, s) ==
    /\ ~Fresh(t)
    /\ canTransitionTransactionStatus(status[t], s)
    /\ Accept(r, "updateTransactionStatus", t, s, status[t], "statusWrite")
    /\ UNCHANGED <<columns, derived, history>>

\* Mutated form: the update matches no row and its result is not looked at.
StatusWrite_Lost(r) ==
    /\ Goto(r, "statusWrite", "statusAudit")
    /\ UNCHANGED <<columns, derived, history>>

\* Mutated form: the audit entry is forgotten.
StatusWrite_NoAudit(r) ==
    /\ Goto(r, "statusWrite", "statusSync")
    /\ WriteStatus(job[r].tx, job[r].arg)
    /\ UNCHANGED <<escrow, hash, refund, derived, refundsSent>>

StatusWrite(r) ==
    /\ Goto(r, "statusWrite", "statusAudit")
    /\ WriteStatus(job[r].tx, job[r].arg)
    /\ UNCHANGED <<escrow, hash, refund, derived, refundsSent>>

\* transactionAuditService.log with the status that was read, not replaced.
StatusAudit(r) ==
    /\ Goto(r, "statusAudit", "statusSync")
    /\ audit' = [audit EXCEPT ![job[r].tx] = @ \cup {<<seen[r], job[r].arg>>}]
    /\ UNCHANGED <<columns, comm, stage, history>>

\* Mutated form: the handler returns before the stage event.
StatusSync_NoStage(r) ==
    /\ Goto(r, "statusSync", "done")
    /\ updateCommissionsStatus(job[r].tx, job[r].arg)
    /\ UNCHANGED <<columns, audit, stage, history>>

StatusSync(r) ==
    /\ Goto(r, "statusSync", "statusStage")
    /\ updateCommissionsStatus(job[r].tx, job[r].arg)
    /\ UNCHANGED <<columns, audit, stage, history>>

StatusStage(r) ==
    /\ Goto(r, "statusStage", "done")
    /\ stage' = [stage EXCEPT ![job[r].tx] = @ \cup {job[r].arg}]
    /\ UNCHANGED <<columns, comm, audit, history>>

-----------------------------------------------------------------------------
(* GET /transactions/:id/verify-blockchain: verifyOnBlockchain.  The cache   *)
(* is keyed by on-chain hashes and asked for the stored data hash, so it     *)
(* never answers, and the simulated verification always succeeds.            *)

VerifyRead(r, t) ==
    /\ ~Fresh(t)
    /\ hash[t] # "null"
    /\ Accept(r, "verify", t, "COMPLETED", status[t], "verifyWrite")
    /\ UNCHANGED <<columns, derived, history>>

VerifyWrite(r) ==
    /\ Goto(r, "verifyWrite", "verifySync")
    /\ WriteStatus(job[r].tx, "COMPLETED")
    /\ UNCHANGED <<escrow, hash, refund, derived, refundsSent>>

VerifySync(r) ==
    /\ Goto(r, "verifySync", "done")
    /\ updateCommissionsStatus(job[r].tx, "COMPLETED")
    /\ UNCHANGED <<columns, audit, stage, history>>

-----------------------------------------------------------------------------
(* POST /transactions/:id/record-on-blockchain (record) checks that the row  *)
(* has no hash and calls BlockchainService.recordTransactionOnBlockchain,    *)
(* which POST /blockchain/record-transaction (recordDirect) calls by itself. *)

RecordRead(r, t) ==
    /\ ~Fresh(t)
    /\ hash[t] = "null"
    /\ Accept(r, "record", t, "none", status[t], "recordValidate")
    /\ UNCHANGED <<columns, derived, history>>

\* Mutated form: ALLOWED_TRANSACTION_STATUSES is not consulted.
validateTransactionRecord_Any(t) == ~Fresh(t)

\* validateTransactionRecord: addresses and amount of the request are inputs,
\* a bad one is rejected; the row must be COMPLETED.
validateTransactionRecord(t) == status[t] = "COMPLETED"

RecordValidate(r) ==
    /\ pc[r] = "recordValidate"
    /\ pc' = [pc EXCEPT ![r] = IF validateTransactionRecord(job[r].tx)
                               THEN "recordWrite" ELSE "done"]
    /\ seen' = [seen EXCEPT ![r] = status[job[r].tx]]
    /\ UNCHANGED <<columns, derived, job, history>>

DirectValidate(r, t) ==
    /\ ~Fresh(t)
    /\ validateTransactionRecord(t)
    /\ Accept(r, "recordDirect", t, "none", status[t], "directWrite")
    /\ UNCHANGED <<columns, derived, history>>

\* The contract call (retried on retryable errors) and the hash it stores, or
\* recordTransactionLocally when the service has no configuration.
recordHash == IF Chain = "on" THEN "chain" ELSE "local"

RecordWrite(r) ==
    /\ \/ Goto(r, "recordWrite", "recordLog")
       \/ Goto(r, "directWrite", "directLog")
    /\ hash' = [hash EXCEPT ![job[r].tx] = recordHash]
    /\ UNCHANGED <<status, escrow, refund, derived, history>>

\* logBlockchainInteraction writes a history entry whose status is COMPLETED;
\* an error is swallowed.
RecordLog(r) ==
    /\ \/ Goto(r, "recordLog", "recordStore")
       \/ Goto(r, "directLog", "done")
    /\ \/ audit' = [audit EXCEPT ![job[r].tx] = @ \cup {<<"COMPLETED", "COMPLETED">>}]
       \/ Faults /\ UNCHANGED audit
    /\ UNCHANGED <<columns, comm, stage, history>>

\* recordOnBlockchain stores the record it got back once more.
RecordStore(r) ==
    /\ Goto(r, "recordStore", "done")
    /\ hash' = [hash EXCEPT ![job[r].tx] = recordHash]
    /\ UNCHANGED <<status, escrow, refund, derived, history>>

-----------------------------------------------------------------------------
(* PATCH /transactions/:id/escrow: updateEscrow.  "none": the request only   *)
(* sets the amount or the payment status.                                    *)

EscrowRead(r, t, e) ==
    /\ ~Fresh(t)
    /\ Accept(r, "updateEscrow", t, e, status[t], "escrowWrite")
    /\ UNCHANGED <<columns, derived, history>>

EscrowWrite(r) ==
    /\ Goto(r, "escrowWrite", "done")
    /\ escrow' = [escrow EXCEPT ![job[r].tx] =
                      IF job[r].arg = "none" THEN @ ELSE job[r].arg]
    /\ UNCHANGED <<status, hash, refund, derived, history>>

-----------------------------------------------------------------------------
(* TransactionCancellationService *)

CancelRead(r, t) ==
    /\ status[t] \notin {"none", "CANCELLED", "COMPLETED"}
    /\ Accept(r, "cancel", t, "CANCELLED", status[t], "cancelWrite")
    /\ UNCHANGED <<columns, derived, history>>

CancelWrite(r) ==
    /\ Goto(r, "cancelWrite", "done")
    /\ WriteStatus(job[r].tx, "CANCELLED")
    /\ refund' = [refund EXCEPT ![job[r].tx] = "PENDING"]
    /\ UNCHANGED <<escrow, hash, derived, refundsSent>>

\* Mutated form: the status of the row is not checked.
RefundRead_AnyStatus(r, t) ==
    /\ ~Fresh(t)
    /\ refund[t] # "PROCESSED"
    /\ Accept(r, "processRefund", t, "none", status[t], "refundWrite")
    /\ UNCHANGED <<columns, derived, history>>

RefundRead(r, t) ==
    /\ status[t] = "CANCELLED"
    /\ refund[t] # "PROCESSED"
    /\ Accept(r, "processRefund", t, "none", status[t], "refundWrite")
    /\ UNCHANGED <<columns, derived, history>>

RefundWrite(r) ==
    /\ Goto(r, "refundWrite", "refundNotify")
    /\ refund' = [refund EXCEPT ![job[r].tx] = "PROCESSED"]
    /\ UNCHANGED <<status, escrow, hash, derived, history>>

\* The buyer is told that the refund has been processed.
RefundNotify(r) ==
    /\ Goto(r, "refundNotify", "done")
    /\ refundsSent' = [refundsSent EXCEPT ![job[r].tx] = @ + 1]
    /\ UNCHANGED <<columns, derived, had, changes>>

-----------------------------------------------------------------------------
\* A database call throws, or the process dies: the rest of the handler does
\* not happen, and an open prisma.$transaction is rolled back.
Abort(r) ==
    /\ Faults
    /\ pc[r] \notin {"idle", "done"}
    /\ pc' = [pc EXCEPT ![r] = "done"]
    /\ UNCHANGED <<columns, derived, job, seen, history>>

Arrive(r) ==
    \E t \in Tx :
        \/ CreateInsert(r, t)
        \/ createTransaction(r, t)
        \/ \E s \in Status \cup {"none"} : UpdateRead(r, t, s)
        \/ \E s \in Status : StatusRead(r, t, s)
        \/ VerifyRead(r, t)
        \/ RecordRead(r, t)
        \/ DirectValidate(r, t)
        \/ \E e \in Escrow \cup {"none"} : EscrowRead(r, t, e)
        \/ CancelRead(r, t)
        \/ RefundRead(r, t)

Continue(r) ==
    \/ CreateLookup(r) \/ CreateCommit(r) \/ CreateHash(r)
    \/ CommissionsLookup(r) \/ CommissionsCreateMany(r)
    \/ UpdateWrite(r) \/ UpdateSync(r)
    \/ StatusWrite(r) \/ StatusAudit(r) \/ StatusSync(r) \/ StatusStage(r)
    \/ VerifyWrite(r) \/ VerifySync(r)
    \/ RecordValidate(r) \/ RecordWrite(r) \/ RecordLog(r) \/ RecordStore(r)
    \/ EscrowWrite(r)
    \/ CancelWrite(r)
    \/ RefundWrite(r) \/ RefundNotify(r)

Next == \E r \in Req : Arrive(r) \/ Continue(r) \/ Abort(r)

Spec == Init /\ [][Next]_vars

\* A handler that was started is driven to its end by the event loop.
FairSpec == Spec /\ \A r \in Req : WF_vars(Continue(r))

-----------------------------------------------------------------------------
(* Properties *)

\* Type invariant: every column, row and request holds a value of its type.
TypeOK ==
    /\ status \in [Tx -> Status \cup {"none"}]
    /\ escrow \in [Tx -> Escrow \cup {"null"}]
    /\ hash \in [Tx -> {"null", "auto", "chain", "local"}]
    /\ refund \in [Tx -> {"NONE", "PENDING", "PROCESSED"}]
    /\ comm \in [Tx -> Status \cup {"none"}]
    /\ audit \in [Tx -> SUBSET (Status \X Status)]
    /\ stage \in [Tx -> SUBSET Status]
    /\ pc \in [Req -> PCs]
    /\ job \in [Req -> [tx : Tx \cup {"none"}, arg : Status \cup Escrow \cup {"none"}]]
    /\ seen \in [Req -> Status \cup {"none"}]
    /\ had \in [Tx -> SUBSET Status]
    /\ changes \in [Tx -> SUBSET (Status \X Status)]
    /\ refundsSent \in [Tx -> Nat]

\* updateCommissionsStatus and createCommissionsForTransaction never run ahead
\* of the sale: however requests interleave or fail, a commission shows
\* COMPLETED or CANCELLED only if its transaction has had that status.
CommissionsFollowStatus ==
    \A t \in Tx : comm[t] # "none" => comm[t] \in had[t]

\* The audit log (TransactionAuditService.log, logBlockchainInteraction) and the
\* timeline (addStageEvent) never name a status that the transaction has not
\* had, whatever else happens between the read, the write and the log call.
HistoryTruthful ==
    \A t \in Tx :
        /\ \A e \in audit[t] : e[1] \in had[t] /\ e[2] \in had[t]
        /\ stage[t] \subseteq had[t]

\* ALLOWED_TRANSACTION_STATUSES: a hash that recordTransactionOnBlockchain
\* stored belongs to a transaction that has been COMPLETED.
ChainRecordNeedsCompletion ==
    \A t \in Tx : hash[t] \in {"chain", "local"} => "COMPLETED" \in had[t]

\* cancel and processRefund: a refund is opened or processed only for a
\* transaction that has been CANCELLED, even if the status moved on since.
RefundNeedsCancellation ==
    \A t \in Tx : refund[t] # "NONE" \/ refundsSent[t] > 0 => "CANCELLED" \in had[t]

Quiet == \A r \in Req : pc[r] \in {"idle", "done"}

\* updateCommissionsStatus, "Synchronize commission status with transaction
\* status": when no request is in flight the commissions agree with the row.
CommissionsAgreeWhenQuiet ==
    Quiet => \A t \in Tx : comm[t] \in {"none", status[t]}

\* transaction-status.constants.ts: a step changes a status only along
\* ALLOWED_TRANSACTION_STATUS_TRANSITIONS.
LifecycleEnforced ==
    [][\A t \in Tx : \/ Fresh(t)
                     \/ status'[t] = status[t]
                     \/ status[t] = "PENDING" /\ status'[t] \in {"COMPLETED", "CANCELLED"}]_vars

\* README of the transactions module: when no request is in flight, every
\* status change has its entry in the audit log.
EveryChangeAudited ==
    Quiet => \A t \in Tx : changes[t] \subseteq audit[t]

\* updateTransactionStatus: once the row is written, its audit entry and its
\* stage event follow, whatever other requests do in between.
StatusChangeRecorded ==
    \A r \in Req : (pc[r] = "statusAudit") ~>
        (/\ job[r].tx \in Tx /\ <<seen[r], job[r].arg>> \in audit[job[r].tx]
         /\ job[r].arg \in stage[job[r].tx])

-----------------------------------------------------------------------------
\* Requests are alike: the symmetry of the instances whose requests are model values.
RequestPermutations == Permutations(Req)
=============================================================================
