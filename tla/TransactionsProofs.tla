------------------------- MODULE TransactionsProofs -------------------------
(***************************************************************************)
(* Proofs about Transactions for every set of rows and requests, every     *)
(* choice of operations and every fault pattern; at the end, what holds    *)
(* only when requests are served one at a time.                            *)
(***************************************************************************)
EXTENDS Transactions, TLAPS

(***************************************************************************)
(* The four safety invariants hold because of what a handler knows at each *)
(* of its steps: the row it works on exists, and the status it is about to *)
(* copy somewhere (audit log, timeline, commissions) is one the row had.   *)
(***************************************************************************)

\* The row has had its current status.
StatusRemembered == \A t \in Tx : status[t] # "none" => status[t] \in had[t]

\* A handler in flight works on a row; unless it is creating it, it exists.
TargetExists ==
    \A r \in Req :
        /\ pc[r] \notin {"idle", "done"} => job[r].tx \in Tx
        /\ pc[r] \notin {"idle", "done", "createLookup", "createCommit"}
               => status[job[r].tx] # "none"

\* The argument of a handler has the type that its remaining steps rely on.
ArgumentTyped ==
    \A r \in Req :
        /\ pc[r] = "updateWrite" => job[r].arg \in Status \cup {"none"}
        /\ pc[r] = "statusWrite" => job[r].arg \in Status
        /\ pc[r] = "escrowWrite" => job[r].arg \in Escrow \cup {"none"}

\* What a handler will still record is true of its row.
KnowledgeSound ==
    \A r \in Req :
        /\ pc[r] \in {"updateSync", "statusAudit", "statusSync", "statusStage"}
               => job[r].arg \in had[job[r].tx]
        /\ pc[r] \in {"statusWrite", "statusAudit", "createMany"}
               => seen[r] \in had[job[r].tx]
        /\ pc[r] \in {"verifySync", "recordWrite", "recordLog", "recordStore",
                      "directWrite", "directLog"}
               => "COMPLETED" \in had[job[r].tx]
        /\ pc[r] \in {"refundWrite", "refundNotify"}
               => "CANCELLED" \in had[job[r].tx]

Records ==
    /\ CommissionsFollowStatus
    /\ HistoryTruthful
    /\ ChainRecordNeedsCompletion
    /\ RefundNeedsCancellation

IInv == TypeOK /\ StatusRemembered /\ TargetExists /\ ArgumentTyped
            /\ KnowledgeSound /\ Records

\* Rows left by finished create requests satisfy the inductive invariant.
LEMMA InitIInv == Init => IInv
<1> SUFFICES ASSUME Init PROVE IInv
  OBVIOUS
<1>1. TypeOK
  BY DEF Init, TypeOK, Status, Escrow, PCs, NoJob, Fresh
<1>2. StatusRemembered
  BY DEF Init, StatusRemembered
<1>3. TargetExists /\ ArgumentTyped /\ KnowledgeSound
  BY DEF Init, TargetExists, ArgumentTyped, KnowledgeSound
<1>4. Records
  BY DEF Init, Records, CommissionsFollowStatus, HistoryTruthful, Fresh,
         ChainRecordNeedsCompletion, RefundNeedsCancellation
<1> QED BY <1>1, <1>2, <1>3, <1>4 DEF IInv

\* prisma.transaction.update with a status: whatever handler calls it, the
\* columns and histories keep their types, nothing that was true of the row is
\* forgotten and the new status is remembered.
LEMMA WriteStatusFacts ==
    ASSUME TypeOK, StatusRemembered, NEW t \in Tx, NEW s \in Status,
           status[t] # "none", WriteStatus(t, s)
    PROVE  /\ status' \in [Tx -> Status \cup {"none"}]
           /\ had' \in [Tx -> SUBSET Status]
           /\ changes' \in [Tx -> SUBSET (Status \X Status)]
           /\ \A u \in Tx : had[u] \subseteq had'[u]
           /\ \A u \in Tx : status[u] # "none" => status'[u] # "none"
           /\ s \in had'[t]
           /\ StatusRemembered'
<1>1. /\ status \in [Tx -> Status \cup {"none"}]
      /\ had \in [Tx -> SUBSET Status]
      /\ changes \in [Tx -> SUBSET (Status \X Status)]
  BY DEF TypeOK
<1>2. s # "none"
  BY DEF Status
<1>3. <<status[t], s>> \in Status \X Status
  BY <1>1
<1>4. changes' \in [Tx -> SUBSET (Status \X Status)]
  BY <1>1, <1>3 DEF WriteStatus
<1>5. \A u \in Tx : had[u] \subseteq had'[u]
  BY <1>1 DEF WriteStatus
<1>6. StatusRemembered'
  BY <1>1, <1>5 DEF WriteStatus, StatusRemembered
<1> QED BY <1>1, <1>2, <1>4, <1>5, <1>6 DEF WriteStatus

\* Every awaited call of every handler, and every failure of one, preserves the
\* inductive invariant.
LEMMA NextIInv == IInv /\ [Next]_vars => IInv'
<1> SUFFICES ASSUME IInv, [Next]_vars PROVE IInv'
  OBVIOUS
<1> USE DEF IInv, TypeOK, StatusRemembered, TargetExists, ArgumentTyped,
            KnowledgeSound, Records, CommissionsFollowStatus, HistoryTruthful,
            ChainRecordNeedsCompletion, RefundNeedsCancellation,
            PCs, Status, Escrow, columns, derived, requests, history
<1>1. ASSUME NEW r \in Req, NEW t \in Tx, CreateInsert(r, t) PROVE IInv'
  BY <1>1 DEF CreateInsert, Accept, Available, Fresh
<1>2. ASSUME NEW r \in Req, NEW t \in Tx, createTransaction(r, t) PROVE IInv'
  BY <1>2 DEF createTransaction, Accept, Available, Fresh
<1>3. ASSUME NEW r \in Req, NEW t \in Tx, NEW s \in Status \cup {"none"}, UpdateRead(r, t, s) PROVE IInv'
  BY <1>3 DEF UpdateRead, Accept, Available, Fresh
<1>4. ASSUME NEW r \in Req, NEW t \in Tx, NEW s \in Status, StatusRead(r, t, s) PROVE IInv'
  BY <1>4 DEF StatusRead, Accept, Available, Fresh
<1>5. ASSUME NEW r \in Req, NEW t \in Tx, VerifyRead(r, t) PROVE IInv'
  BY <1>5 DEF VerifyRead, Accept, Available, Fresh
<1>6. ASSUME NEW r \in Req, NEW t \in Tx, RecordRead(r, t) PROVE IInv'
  BY <1>6 DEF RecordRead, Accept, Available, Fresh
<1>7. ASSUME NEW r \in Req, NEW t \in Tx, DirectValidate(r, t) PROVE IInv'
  BY <1>7 DEF DirectValidate, Accept, Available, Fresh, validateTransactionRecord
<1>8. ASSUME NEW r \in Req, NEW t \in Tx, NEW e \in Escrow \cup {"none"}, EscrowRead(r, t, e) PROVE IInv'
  BY <1>8 DEF EscrowRead, Accept, Available, Fresh
<1>9. ASSUME NEW r \in Req, NEW t \in Tx, CancelRead(r, t) PROVE IInv'
  BY <1>9 DEF CancelRead, Accept, Available, Fresh
<1>10. ASSUME NEW r \in Req, NEW t \in Tx, RefundRead(r, t) PROVE IInv'
  BY <1>10 DEF RefundRead, Accept, Available, Fresh
<1>11. ASSUME NEW r \in Req, CreateLookup(r) PROVE IInv'
  BY <1>11 DEF CreateLookup, Goto, Fresh
<1>12. ASSUME NEW r \in Req, CreateCommit(r) PROVE IInv'
  BY <1>12 DEF CreateCommit, Goto
<1>13. ASSUME NEW r \in Req, CreateHash(r) PROVE IInv'
  <2> USE <1>13 DEF CreateHash, Goto
  <2>1. TypeOK' /\ StatusRemembered' /\ TargetExists' OBVIOUS
  <2>2. ArgumentTyped' /\ KnowledgeSound' OBVIOUS
  <2>3. Records' OBVIOUS
  <2> HIDE DEF TypeOK, StatusRemembered, TargetExists, ArgumentTyped, KnowledgeSound, Records
  <2> QED BY <2>1, <2>2, <2>3
<1>14. ASSUME NEW r \in Req, CommissionsLookup(r) PROVE IInv'
  <2> USE <1>14 DEF CommissionsLookup
  <2>1. job[r].tx \in Tx /\ status[job[r].tx] \in had[job[r].tx] OBVIOUS
  <2>2. CASE pc' = [pc EXCEPT ![r] = "createMany"] BY <2>1, <2>2
  <2>3. CASE pc' = [pc EXCEPT ![r] = "done"]
    <3>1. TypeOK' /\ StatusRemembered' /\ TargetExists' BY <2>3
    <3>2. ArgumentTyped' /\ KnowledgeSound' BY <2>3
    <3>3. Records' OBVIOUS
    <3> HIDE DEF TypeOK, StatusRemembered, TargetExists, ArgumentTyped, KnowledgeSound, Records
    <3> QED BY <3>1, <3>2, <3>3
  <2> QED BY <2>2, <2>3
<1>15. ASSUME NEW r \in Req, CommissionsCreateMany(r) PROVE IInv'
  <2> USE <1>15 DEF CommissionsCreateMany, Goto
  <2>1. TypeOK' OBVIOUS
  <2>2. StatusRemembered' /\ TargetExists' /\ ArgumentTyped' OBVIOUS
  <2>3. KnowledgeSound' OBVIOUS
  <2>4. CommissionsFollowStatus' OBVIOUS
  <2>5. HistoryTruthful' OBVIOUS
  <2>6. ChainRecordNeedsCompletion' /\ RefundNeedsCancellation' OBVIOUS
  <2> HIDE DEF TypeOK, StatusRemembered, TargetExists, ArgumentTyped, KnowledgeSound,
               CommissionsFollowStatus, HistoryTruthful, ChainRecordNeedsCompletion,
               RefundNeedsCancellation
  <2> QED BY <2>1, <2>2, <2>3, <2>4, <2>5, <2>6
<1>16. ASSUME NEW r \in Req, UpdateWrite(r) PROVE IInv'
  <2>1. CASE job[r].arg = "none"
    BY <1>16, <2>1 DEF UpdateWrite, Goto
  <2>2. CASE job[r].arg # "none"
    <3>1. /\ job[r].tx \in Tx /\ job[r].arg \in Status
          /\ status[job[r].tx] # "none"
      BY <1>16, <2>2 DEF UpdateWrite, Goto
    <3>2. /\ status' \in [Tx -> Status \cup {"none"}]
          /\ had' \in [Tx -> SUBSET Status]
          /\ changes' \in [Tx -> SUBSET (Status \X Status)]
          /\ \A u \in Tx : had[u] \subseteq had'[u]
          /\ \A u \in Tx : status[u] # "none" => status'[u] # "none"
          /\ job[r].arg \in had'[job[r].tx]
          /\ StatusRemembered'
      <4> HIDE DEF Status, TypeOK, StatusRemembered
      <4> QED BY <1>16, <2>2, <3>1, WriteStatusFacts DEF UpdateWrite, IInv
    <3>3. /\ pc' = [pc EXCEPT ![r] = "updateSync"]
          /\ UNCHANGED <<job, seen, escrow, hash, refund, derived, refundsSent>>
      BY <1>16, <2>2 DEF UpdateWrite, Goto
    <3>4. TypeOK' BY <3>2, <3>3
    <3>5. /\ \A q \in Req \ {r} : pc'[q] = pc[q] /\ job'[q] = job[q]
          /\ pc'[r] = "updateSync" /\ job'[r] = job[r]
      BY <3>3
    <3>8. TargetExists' /\ ArgumentTyped'
      <4>1. TargetExists /\ ArgumentTyped OBVIOUS
      <4> HIDE DEF IInv
      <4> QED BY <3>1, <3>2, <3>5, <4>1
    <3>6. KnowledgeSound'
      <4>1. KnowledgeSound /\ TargetExists OBVIOUS
      <4>2. seen' = seen BY <3>3
      <4> HIDE DEF IInv, TypeOK, Status
      <4> QED BY <3>1, <3>2, <3>5, <4>1, <4>2
    <3>7. Records' BY <3>2, <3>3
    <3> HIDE DEF TypeOK, StatusRemembered, TargetExists, ArgumentTyped, KnowledgeSound, Records
    <3> QED BY <3>2, <3>4, <3>6, <3>7, <3>8
  <2> QED BY <2>1, <2>2
<1>17. ASSUME NEW r \in Req, UpdateSync(r) PROVE IInv'
  <2> USE <1>17 DEF UpdateSync, Goto, updateCommissionsStatus
  <2>1. TypeOK' BY SMTT(30)
  <2>2. StatusRemembered' /\ TargetExists' /\ ArgumentTyped' OBVIOUS
  <2>3. KnowledgeSound' OBVIOUS
  <2>4. CommissionsFollowStatus' OBVIOUS
  <2>5. HistoryTruthful' OBVIOUS
  <2>6. ChainRecordNeedsCompletion' /\ RefundNeedsCancellation' OBVIOUS
  <2> HIDE DEF TypeOK, StatusRemembered, TargetExists, ArgumentTyped, KnowledgeSound,
               CommissionsFollowStatus, HistoryTruthful, ChainRecordNeedsCompletion,
               RefundNeedsCancellation
  <2> QED BY <2>1, <2>2, <2>3, <2>4, <2>5, <2>6
<1>18. ASSUME NEW r \in Req, StatusWrite(r) PROVE IInv'
  <2>1. /\ job[r].tx \in Tx /\ job[r].arg \in Status
        /\ status[job[r].tx] # "none"
    BY <1>18 DEF StatusWrite, Goto
  <2>2. /\ status' \in [Tx -> Status \cup {"none"}]
        /\ had' \in [Tx -> SUBSET Status]
        /\ changes' \in [Tx -> SUBSET (Status \X Status)]
        /\ \A u \in Tx : had[u] \subseteq had'[u]
        /\ \A u \in Tx : status[u] # "none" => status'[u] # "none"
        /\ job[r].arg \in had'[job[r].tx]
        /\ StatusRemembered'
    <3> HIDE DEF Status, TypeOK, StatusRemembered
    <3> QED BY <1>18, <2>1, WriteStatusFacts DEF StatusWrite, IInv
  <2>3. /\ pc' = [pc EXCEPT ![r] = "statusAudit"]
        /\ UNCHANGED <<job, seen, escrow, hash, refund, derived, refundsSent>>
    BY <1>18 DEF StatusWrite, Goto
  <2>4. TypeOK' BY <2>2, <2>3
  <2>5. /\ \A q \in Req \ {r} : pc'[q] = pc[q] /\ job'[q] = job[q]
        /\ pc'[r] = "statusAudit" /\ job'[r] = job[r]
    BY <2>3
  <2>8. TargetExists' /\ ArgumentTyped'
    <3>1. TargetExists /\ ArgumentTyped OBVIOUS
    <3> HIDE DEF IInv
    <3> QED BY <2>1, <2>2, <2>5, <3>1
  <2>6. KnowledgeSound'
    <3>1. KnowledgeSound /\ TargetExists OBVIOUS
    <3>2. seen' = seen BY <2>3
    <3>3. seen[r] \in had[job[r].tx] BY <1>18 DEF StatusWrite, Goto
    <3> HIDE DEF IInv, TypeOK, Status
    <3> QED BY <2>1, <2>2, <2>5, <3>1, <3>2, <3>3
  <2>7. Records' BY <2>2, <2>3
  <2> HIDE DEF TypeOK, StatusRemembered, TargetExists, ArgumentTyped, KnowledgeSound, Records
  <2> QED BY <2>2, <2>4, <2>6, <2>7, <2>8
<1>19. ASSUME NEW r \in Req, StatusAudit(r) PROVE IInv'
  <2>1. /\ job[r].tx \in Tx /\ job[r].arg \in Status /\ seen[r] \in Status
        /\ job[r].arg \in had[job[r].tx] /\ seen[r] \in had[job[r].tx]
    BY <1>19, SMTT(30) DEF StatusAudit, Goto
  <2>2. audit' \in [Tx -> SUBSET (Status \X Status)]
    <3> HIDE DEF Status
    <3>1. audit \in [Tx -> SUBSET (Status \X Status)] OBVIOUS
    <3>2. <<seen[r], job[r].arg>> \in Status \X Status BY <2>1
    <3> QED BY <1>19, <2>1, <3>1, <3>2 DEF StatusAudit
  <2>3. TypeOK' BY <1>19, <2>2 DEF StatusAudit, Goto
  <2>4. StatusRemembered' /\ TargetExists' /\ ArgumentTyped' /\ KnowledgeSound'
    BY <1>19 DEF StatusAudit, Goto
  <2>5. Records' BY <1>19, <2>1 DEF StatusAudit, Goto
  <2> HIDE DEF TypeOK, StatusRemembered, TargetExists, ArgumentTyped, KnowledgeSound, Records
  <2> QED BY <2>3, <2>4, <2>5
<1>20. ASSUME NEW r \in Req, StatusSync(r) PROVE IInv'
  <2> USE <1>20 DEF StatusSync, Goto, updateCommissionsStatus
  <2>1. TypeOK' BY SMTT(30)
  <2>2. StatusRemembered' /\ TargetExists' /\ ArgumentTyped' BY SMTT(30)
  <2>3. KnowledgeSound' OBVIOUS
  <2>4. CommissionsFollowStatus' OBVIOUS
  <2>5. HistoryTruthful' OBVIOUS
  <2>6. ChainRecordNeedsCompletion' /\ RefundNeedsCancellation' OBVIOUS
  <2> HIDE DEF TypeOK, StatusRemembered, TargetExists, ArgumentTyped, KnowledgeSound,
               CommissionsFollowStatus, HistoryTruthful, ChainRecordNeedsCompletion,
               RefundNeedsCancellation
  <2> QED BY <2>1, <2>2, <2>3, <2>4, <2>5, <2>6
<1>21. ASSUME NEW r \in Req, StatusStage(r) PROVE IInv'
  BY <1>21, SMTT(30) DEF StatusStage, Goto
<1>22. ASSUME NEW r \in Req, VerifyWrite(r) PROVE IInv'
  <2> USE <1>22 DEF VerifyWrite, Goto, WriteStatus
  <2>1. TypeOK' BY SMTT(30)
  <2>2. StatusRemembered' /\ TargetExists' /\ ArgumentTyped' OBVIOUS
  <2>3. KnowledgeSound' BY SMTT(30)
  <2>4. CommissionsFollowStatus' OBVIOUS
  <2>5. HistoryTruthful' OBVIOUS
  <2>6. ChainRecordNeedsCompletion' /\ RefundNeedsCancellation' OBVIOUS
  <2> HIDE DEF TypeOK, StatusRemembered, TargetExists, ArgumentTyped, KnowledgeSound,
               CommissionsFollowStatus, HistoryTruthful, ChainRecordNeedsCompletion,
               RefundNeedsCancellation
  <2> QED BY <2>1, <2>2, <2>3, <2>4, <2>5, <2>6
<1>23. ASSUME NEW r \in Req, VerifySync(r) PROVE IInv'
  <2> USE <1>23 DEF VerifySync, Goto, updateCommissionsStatus
  <2>1. TypeOK' OBVIOUS
  <2>2. StatusRemembered' /\ TargetExists' /\ ArgumentTyped' OBVIOUS
  <2>3. KnowledgeSound' OBVIOUS
  <2>4. CommissionsFollowStatus' BY SMTT(30)
  <2>5. HistoryTruthful' OBVIOUS
  <2>6. ChainRecordNeedsCompletion' /\ RefundNeedsCancellation' OBVIOUS
  <2> HIDE DEF TypeOK, StatusRemembered, TargetExists, ArgumentTyped, KnowledgeSound,
               CommissionsFollowStatus, HistoryTruthful, ChainRecordNeedsCompletion,
               RefundNeedsCancellation
  <2> QED BY <2>1, <2>2, <2>3, <2>4, <2>5, <2>6
<1>24. ASSUME NEW r \in Req, RecordValidate(r) PROVE IInv'
  BY <1>24 DEF RecordValidate, Goto, validateTransactionRecord
<1>25. ASSUME NEW r \in Req, RecordWrite(r) PROVE IInv'
  <2> USE <1>25 DEF RecordWrite, recordHash
  <2>1. CASE Goto(r, "recordWrite", "recordLog") BY <2>1, SMTT(30) DEF Goto
  <2>2. CASE Goto(r, "directWrite", "directLog") BY <2>2, SMTT(30) DEF Goto
  <2> QED BY <2>1, <2>2
<1>26. ASSUME NEW r \in Req, RecordLog(r) PROVE IInv'
  <2>1. job[r].tx \in Tx /\ "COMPLETED" \in had[job[r].tx]
    BY <1>26 DEF RecordLog, Goto
  <2>2. audit' \in [Tx -> SUBSET (Status \X Status)]
    <3>1. <<"COMPLETED", "COMPLETED">> \in Status \X Status OBVIOUS
    <3> HIDE DEF Status
    <3> QED BY <1>26, <2>1, <3>1, SMTT(30) DEF RecordLog
  <2>3. HistoryTruthful' BY <1>26, <2>1 DEF RecordLog
  <2>4. CASE Goto(r, "recordLog", "recordStore") BY <1>26, <2>2, <2>3, <2>4 DEF RecordLog, Goto
  <2>5. CASE Goto(r, "directLog", "done") BY <1>26, <2>2, <2>3, <2>5 DEF RecordLog, Goto
  <2> QED BY <1>26, <2>4, <2>5 DEF RecordLog
<1>27. ASSUME NEW r \in Req, RecordStore(r) PROVE IInv'
  BY <1>27 DEF RecordStore, Goto, recordHash
<1>28. ASSUME NEW r \in Req, EscrowWrite(r) PROVE IInv'
  BY <1>28 DEF EscrowWrite, Goto
<1>29. ASSUME NEW r \in Req, CancelWrite(r) PROVE IInv'
  <2> USE <1>29 DEF CancelWrite, Goto, WriteStatus
  <2>1. TypeOK' OBVIOUS
  <2>2. StatusRemembered' /\ TargetExists' /\ ArgumentTyped' OBVIOUS
  <2>3. KnowledgeSound' OBVIOUS
  <2>4. CommissionsFollowStatus' OBVIOUS
  <2>5. HistoryTruthful' OBVIOUS
  <2>6. ChainRecordNeedsCompletion' /\ RefundNeedsCancellation' OBVIOUS
  <2> HIDE DEF TypeOK, StatusRemembered, TargetExists, ArgumentTyped, KnowledgeSound,
               CommissionsFollowStatus, HistoryTruthful, ChainRecordNeedsCompletion,
               RefundNeedsCancellation
  <2> QED BY <2>1, <2>2, <2>3, <2>4, <2>5, <2>6
<1>30. ASSUME NEW r \in Req, RefundWrite(r) PROVE IInv'
  BY <1>30 DEF RefundWrite, Goto
<1>31. ASSUME NEW r \in Req, RefundNotify(r) PROVE IInv'
  BY <1>31, SMTT(30) DEF RefundNotify, Goto
<1>32. ASSUME NEW r \in Req, Abort(r) PROVE IInv'
  BY <1>32 DEF Abort
<1>33. CASE UNCHANGED vars
  BY <1>33 DEF vars
<1> HIDE DEF IInv
<1> QED
  BY <1>1, <1>2, <1>3, <1>4, <1>5, <1>6, <1>7, <1>8, <1>9, <1>10, <1>11, <1>12, <1>13, <1>14, <1>15, <1>16, <1>17, <1>18, <1>19, <1>20, <1>21, <1>22, <1>23, <1>24, <1>25, <1>26, <1>27, <1>28, <1>29, <1>30, <1>31, <1>32, <1>33 DEF Next, Arrive, Continue

\* Type correctness of the transactions table, the rows derived from it and the
\* requests in flight, for any numbers of rows and requests.
THEOREM TypeCorrect == Spec => []TypeOK
<1>1. IInv => TypeOK BY DEF IInv
<1> QED BY InitIInv, NextIInv, <1>1, PTL DEF Spec

\* updateCommissionsStatus and createCommissionsForTransaction never run ahead
\* of the sale.
THEOREM CommissionsSafe == Spec => []CommissionsFollowStatus
<1>1. IInv => CommissionsFollowStatus BY DEF IInv, Records
<1> QED BY InitIInv, NextIInv, <1>1, PTL DEF Spec

\* transactionHistory and the timeline name only statuses the row has had.
THEOREM HistorySafe == Spec => []HistoryTruthful
<1>1. IInv => HistoryTruthful BY DEF IInv, Records
<1> QED BY InitIInv, NextIInv, <1>1, PTL DEF Spec

\* recordTransactionOnBlockchain stores hashes of completed sales only.
THEOREM ChainRecordSafe == Spec => []ChainRecordNeedsCompletion
<1>1. IInv => ChainRecordNeedsCompletion BY DEF IInv, Records
<1> QED BY InitIInv, NextIInv, <1>1, PTL DEF Spec

\* cancel and processRefund open and process refunds of cancelled sales only.
THEOREM RefundSafe == Spec => []RefundNeedsCancellation
<1>1. IInv => RefundNeedsCancellation BY DEF IInv, Records
<1> QED BY InitIInv, NextIInv, <1>1, PTL DEF Spec

-----------------------------------------------------------------------------
(* Requests one at a time.  With no other handler between its read and its *)
(* write, what a handler has read is still true when it writes; that is    *)
(* what ALLOWED_TRANSACTION_STATUS_TRANSITIONS, the commissions and the    *)
(* audit log rely on.                                                      *)

Busy(r) == pc[r] \notin {"idle", "done"}

\* What the handler of r knows of its row.
Known(r) ==
    /\ pc[r] \in {"createLookup", "createCommit"} => status[job[r].tx] = "none"
    /\ pc[r] \in {"statusWrite", "createMany"} => seen[r] = status[job[r].tx]
    /\ pc[r] = "statusWrite" => canTransitionTransactionStatus(status[job[r].tx], job[r].arg)
    /\ pc[r] \in {"updateSync", "statusAudit", "statusSync"} => status[job[r].tx] = job[r].arg
    /\ pc[r] = "verifySync" => status[job[r].tx] = "COMPLETED"
    /\ pc[r] = "cancelWrite" => status[job[r].tx] = "PENDING"

\* An operation that clients do not call has no handler in flight.
Called(r) ==
    /\ pc[r] \in {"updateWrite", "updateSync"} => "update" \in Ops
    /\ pc[r] \in {"verifyWrite", "verifySync"} => "verify" \in Ops
    /\ pc[r] = "cancelWrite" => "cancel" \in Ops

SerialInv ==
    /\ \A q, r \in Req : Busy(q) /\ Busy(r) => q = r
    /\ \A r \in Req : Known(r) /\ Called(r)

\* In a step of r the others are at rest and stay as they are.
Alone(r) ==
    \A q \in Req : q # r => ~Busy(q) /\ pc'[q] = pc[q] /\ job'[q] = job[q] /\ seen'[q] = seen[q]

\* One request moves at a time: the one that is busy, or one that begins while none is.
LEMMA StepAlone ==
  ASSUME Serial, TypeOK, SerialInv, NEW r \in Req, Arrive(r) \/ Continue(r) \/ Abort(r)
  PROVE  Alone(r)
<1>0. pc \in [Req -> PCs] /\ DOMAIN job = Req /\ DOMAIN seen = Req
  BY DEF TypeOK
<1>1. CASE Arrive(r)
  <2>1. \E op, t, arg, s, next : Accept(r, op, t, arg, s, next)
    BY <1>1 DEF Arrive, CreateInsert, createTransaction, UpdateRead, StatusRead, VerifyRead, RecordRead,
                DirectValidate, EscrowRead, CancelRead, RefundRead
  <2> QED BY <1>0, <2>1 DEF Accept, Available, Alone, Busy
<1>2. CASE Continue(r) \/ Abort(r)
  <2>1. Busy(r)
    BY <1>2, Zenon DEF Busy, Continue, Abort, Goto, CreateLookup, CreateCommit, CreateHash, CommissionsLookup,
       CommissionsCreateMany, UpdateWrite, UpdateSync, StatusWrite, StatusAudit, StatusSync, StatusStage,
       VerifyWrite, VerifySync, RecordValidate, RecordWrite, RecordLog, RecordStore, EscrowWrite, CancelWrite,
       RefundWrite, RefundNotify
  <2>2. job' = job /\ \E to : pc' = [pc EXCEPT ![r] = to]
    BY <1>2 DEF Continue, Abort, Goto, CreateLookup, CreateCommit, CreateHash, CommissionsLookup,
       CommissionsCreateMany, UpdateWrite, UpdateSync, StatusWrite, StatusAudit, StatusSync, StatusStage,
       VerifyWrite, VerifySync, RecordValidate, RecordWrite, RecordLog, RecordStore, EscrowWrite, CancelWrite,
       RefundWrite, RefundNotify
  <2>3. seen' = seen \/ \E s : seen' = [seen EXCEPT ![r] = s]
    BY <1>2 DEF Continue, Abort, Goto, CreateLookup, CreateCommit, CreateHash, CommissionsLookup,
       CommissionsCreateMany, UpdateWrite, UpdateSync, StatusWrite, StatusAudit, StatusSync, StatusStage,
       VerifyWrite, VerifySync, RecordValidate, RecordWrite, RecordLog, RecordStore, EscrowWrite, CancelWrite,
       RefundWrite, RefundNotify
  <2> QED BY <1>0, <2>1, <2>2, <2>3 DEF Alone, SerialInv, Busy
<1> QED BY <1>1, <1>2

\* So the mover alone has to keep what it knows.
LEMMA MoverKnows ==
  ASSUME SerialInv, NEW r \in Req, Alone(r), Known(r)', Called(r)'
  PROVE  SerialInv'
<1>1. ASSUME NEW q \in Req, q # r PROVE ~Busy(q)'
  BY <1>1 DEF Alone, Busy
<1>2. ASSUME NEW q \in Req, q # r PROVE Known(q)' /\ Called(q)'
  BY <1>1, <1>2 DEF Busy, Known, Called
<1> QED BY <1>1, <1>2 DEF SerialInv

\* What a request holds once it is accepted.
LEMMA AcceptFacts ==
  ASSUME TypeOK, NEW r \in Req, NEW op, NEW t, NEW arg, NEW s, NEW next, Accept(r, op, t, arg, s, next)
  PROVE  op \in Ops /\ pc'[r] = next /\ job'[r].tx = t /\ job'[r].arg = arg /\ seen'[r] = s
  BY DEF TypeOK, Accept

\* The first read of a handler is what it knows.
LEMMA ArriveKnows ==
  ASSUME TypeOK, NEW r \in Req, Arrive(r)
  PROVE  Known(r)' /\ Called(r)'
<1> USE DEF columns
<1>1. PICK t \in Tx :
        \/ CreateInsert(r, t)
        \/ createTransaction(r, t)
        \/ \E s \in Status \cup {"none"} : UpdateRead(r, t, s)
        \/ \E s \in Status : StatusRead(r, t, s)
        \/ VerifyRead(r, t)
        \/ RecordRead(r, t)
        \/ DirectValidate(r, t)
        \/ \E e \in Escrow \cup {"none"} : EscrowRead(r, t, e)
        \/ CancelRead(r, t)
        \/ RefundRead(r, t)
  BY DEF Arrive
<1>2. CASE CreateInsert(r, t)
  <2>1. pc'[r] = "createLookup" /\ job'[r].tx = t /\ status'[t] = "none"
    BY <1>2, AcceptFacts DEF CreateInsert, Fresh
  <2> QED BY <2>1 DEF Known, Called
<1>3. CASE createTransaction(r, t)
  <2>1. pc'[r] = "lookup"
    BY <1>3, AcceptFacts DEF createTransaction
  <2> QED BY <2>1 DEF Known, Called
<1>4. ASSUME NEW s \in Status \cup {"none"}, UpdateRead(r, t, s) PROVE Known(r)' /\ Called(r)'
  <2>1. pc'[r] = "updateWrite" /\ "update" \in Ops
    BY <1>4, AcceptFacts DEF UpdateRead
  <2> QED BY <2>1 DEF Known, Called
<1>5. ASSUME NEW s \in Status, StatusRead(r, t, s) PROVE Known(r)' /\ Called(r)'
  <2>1. /\ pc'[r] = "statusWrite" /\ job'[r].tx = t /\ job'[r].arg = s /\ seen'[r] = status[t]
        /\ status' = status /\ canTransitionTransactionStatus(status[t], s)
    BY <1>5, AcceptFacts DEF StatusRead
  <2> QED BY <2>1 DEF Known, Called, canTransitionTransactionStatus
<1>6. CASE VerifyRead(r, t)
  <2>1. pc'[r] = "verifyWrite" /\ "verify" \in Ops
    BY <1>6, AcceptFacts DEF VerifyRead
  <2> QED BY <2>1 DEF Known, Called
<1>7. CASE RecordRead(r, t) \/ DirectValidate(r, t) \/ (\E e \in Escrow \cup {"none"} : EscrowRead(r, t, e))
           \/ RefundRead(r, t)
  <2>1. pc'[r] \in {"recordValidate", "directWrite", "escrowWrite", "refundWrite"}
    BY <1>7, AcceptFacts DEF RecordRead, DirectValidate, EscrowRead, RefundRead
  <2> QED BY <2>1 DEF Known, Called
<1>8. CASE CancelRead(r, t)
  <2>1. pc'[r] = "cancelWrite" /\ "cancel" \in Ops /\ job'[r].tx = t /\ status' = status
    BY <1>8, AcceptFacts DEF CancelRead
  <2>2. status[t] = "PENDING"
    BY <1>8 DEF CancelRead, TypeOK, Status
  <2> QED BY <2>1, <2>2 DEF Known, Called
<1> QED BY <1>1, <1>2, <1>3, <1>4, <1>5, <1>6, <1>7, <1>8

\* The next call of a handler keeps what the handler knows.
LEMMA ContinueKnows ==
  ASSUME IInv, SerialInv, NEW r \in Req, Continue(r) \/ Abort(r)
  PROVE  Known(r)' /\ Called(r)'
<1>0. /\ pc \in [Req -> PCs] /\ seen \in [Req -> Status \cup {"none"}] /\ Known(r) /\ Called(r)
      /\ status \in [Tx -> Status \cup {"none"}]
      /\ pc[r] \notin {"idle", "done"} => job[r].tx \in Tx
  BY DEF IInv, TypeOK, SerialInv, TargetExists
<1> USE DEF columns
<1>1. CASE CreateLookup(r)
  BY <1>0, <1>1 DEF CreateLookup, Goto, Known, Called
<1>2. CASE CommissionsLookup(r)
  BY <1>0, <1>2 DEF CommissionsLookup, Known, Called
<1>3. CASE UpdateWrite(r)
  <2>1. CASE job[r].arg = "none"
    <3>1. pc'[r] = "done"
      BY <1>0, <1>3, <2>1 DEF UpdateWrite, Goto
    <3> QED BY <3>1 DEF Known, Called
  <2>2. CASE job[r].arg # "none"
    <3>1. pc'[r] = "updateSync" /\ job' = job /\ status'[job[r].tx] = job[r].arg /\ "update" \in Ops
      BY <1>0, <1>3, <2>2 DEF UpdateWrite, Goto, WriteStatus, Called
    <3> QED BY <3>1 DEF Known, Called
  <2> QED BY <2>1, <2>2
<1>4. CASE StatusWrite(r)
  <2>1. pc'[r] = "statusAudit" /\ job' = job /\ status'[job[r].tx] = job[r].arg
    BY <1>0, <1>4 DEF StatusWrite, Goto, WriteStatus
  <2> QED BY <2>1 DEF Known, Called
<1>5. CASE StatusAudit(r)
  <2>1. pc'[r] = "statusSync" /\ job' = job /\ status' = status /\ status[job[r].tx] = job[r].arg
    BY <1>0, <1>5 DEF StatusAudit, Goto, Known
  <2> QED BY <2>1 DEF Known, Called
<1>6. CASE VerifyWrite(r)
  <2>1. pc'[r] = "verifySync" /\ job' = job /\ status'[job[r].tx] = "COMPLETED" /\ "verify" \in Ops
    BY <1>0, <1>6 DEF VerifyWrite, Goto, WriteStatus, Called
  <2> QED BY <2>1 DEF Known, Called
<1>7. CASE \/ CreateCommit(r) \/ CreateHash(r) \/ CommissionsCreateMany(r) \/ UpdateSync(r) \/ StatusSync(r)
           \/ StatusStage(r) \/ VerifySync(r) \/ RecordValidate(r) \/ RecordWrite(r) \/ RecordLog(r)
           \/ RecordStore(r) \/ EscrowWrite(r) \/ CancelWrite(r) \/ RefundWrite(r) \/ RefundNotify(r) \/ Abort(r)
  <2>1. pc'[r] \in {"createHash", "done", "statusStage", "recordWrite", "recordLog", "directLog", "recordStore",
                    "refundNotify"}
    BY <1>0, <1>7 DEF Goto, CreateCommit, CreateHash, CommissionsCreateMany, UpdateSync, StatusSync, StatusStage,
       VerifySync, RecordValidate, RecordWrite, RecordLog, RecordStore, EscrowWrite, CancelWrite, RefundWrite,
       RefundNotify, Abort
  <2> QED BY <2>1 DEF Known, Called
<1> QED BY <1>1, <1>2, <1>3, <1>4, <1>5, <1>6, <1>7 DEF Continue

\* Requests that are served one at a time keep SerialInv, whatever fails.
LEMMA SerialNext ==
  ASSUME Serial
  PROVE  IInv /\ SerialInv /\ [Next]_vars => SerialInv'
<1> SUFFICES ASSUME IInv, SerialInv, [Next]_vars PROVE SerialInv'
  OBVIOUS
<1>1. CASE UNCHANGED vars
  BY <1>1 DEF vars, columns, requests, SerialInv, Busy, Known, Called, canTransitionTransactionStatus
<1>2. ASSUME NEW r \in Req, Arrive(r) \/ Continue(r) \/ Abort(r) PROVE SerialInv'
  <2>1. TypeOK
    BY DEF IInv
  <2>2. Alone(r)
    BY <1>2, <2>1, StepAlone
  <2>3. Known(r)' /\ Called(r)'
    BY <1>2, <2>1, ArriveKnows, ContinueKnows
  <2> QED BY <2>2, <2>3, MoverKnows
<1> QED BY <1>1, <1>2 DEF Next

\* Nothing is in flight at first.
LEMMA SerialInit == Init => SerialInv
  BY DEF Init, SerialInv, Busy, Known, Called

\* The calls of a handler that leave the status, its changes, the commissions and the audit
\* log as they are.
Beside == UNCHANGED <<status, changes, comm, audit>>

\* A first read writes none of them, except the insert of createTransaction.
LEMMA ArriveBeside ==
  ASSUME NEW r \in Req, Arrive(r)
  PROVE  Beside \/ \E t \in Tx : createTransaction(r, t)
<1> USE DEF Beside, columns, derived, history
<1> QED BY DEF Arrive, CreateInsert, UpdateRead, StatusRead, VerifyRead, RecordRead, DirectValidate, EscrowRead,
           CancelRead, RefundRead

\* The calls that write one of them.
Writes(r) ==
    \/ CreateLookup(r) \/ CreateCommit(r) \/ CommissionsCreateMany(r) \/ UpdateWrite(r) \/ UpdateSync(r)
    \/ StatusWrite(r) \/ StatusAudit(r) \/ StatusSync(r) \/ VerifyWrite(r) \/ VerifySync(r) \/ RecordLog(r)
    \/ CancelWrite(r)

\* A call that is not among Writes writes none, and is not one a sync or an audit waits for.
LEMMA ContinueBeside ==
  ASSUME TypeOK, NEW r \in Req, Continue(r)
  PROVE  \/ Writes(r)
         \/ Beside /\ pc[r] \notin {"updateSync", "statusAudit", "statusSync", "verifySync"}
<1> SUFFICES ASSUME \/ CreateHash(r) \/ CommissionsLookup(r) \/ StatusStage(r) \/ RecordValidate(r)
                    \/ RecordWrite(r) \/ RecordStore(r) \/ EscrowWrite(r) \/ RefundWrite(r) \/ RefundNotify(r)
             PROVE  Beside /\ pc[r] \notin {"updateSync", "statusAudit", "statusSync", "verifySync"}
  BY DEF Continue, Writes
<1> QED BY DEF Beside, columns, derived, history, Goto, CreateHash, CommissionsLookup, StatusStage, RecordValidate,
               RecordWrite, RecordStore, EscrowWrite, RefundWrite, RefundNotify

\* transaction-status.constants.ts: served one at a time, the handlers other than update and
\* verifyOnBlockchain change a status only along the allowed transitions, whatever fails.
THEOREM LifecycleSafe ==
  ASSUME Serial, "update" \notin Ops, "verify" \notin Ops
  PROVE  Spec => LifecycleEnforced
<1> DEFINE Allowed == \A t \in Tx : \/ Fresh(t)
                                    \/ status'[t] = status[t]
                                    \/ status[t] = "PENDING" /\ status'[t] \in {"COMPLETED", "CANCELLED"}
<1>1. IInv /\ SerialInv /\ [Next]_vars => [Allowed]_vars
  <2> SUFFICES ASSUME IInv, SerialInv, Next PROVE Allowed
    OBVIOUS
  <2>0. PICK r \in Req : Arrive(r) \/ Continue(r) \/ Abort(r)
    BY DEF Next
  <2>1. /\ Known(r) /\ Called(r) /\ status \in [Tx -> Status \cup {"none"}]
        /\ pc[r] \notin {"idle", "done"} => job[r].tx \in Tx
    BY DEF IInv, TypeOK, SerialInv, TargetExists
  <2>2. CASE status' = status
    BY <2>2
  <2>3. CASE \E t \in Tx : createTransaction(r, t)
    BY <2>1, <2>3 DEF createTransaction, Fresh
  <2>4. CASE CreateCommit(r)
    <3>1. status[job[r].tx] = "none" /\ status' = [status EXCEPT ![job[r].tx] = "PENDING"]
      BY <2>1, <2>4 DEF CreateCommit, Goto, Known
    <3> QED BY <2>1, <3>1 DEF Fresh
  <2>5. CASE StatusWrite(r)
    <3>1. /\ status' = [status EXCEPT ![job[r].tx] = job[r].arg]
          /\ canTransitionTransactionStatus(status[job[r].tx], job[r].arg)
      BY <2>1, <2>5 DEF StatusWrite, Goto, WriteStatus, Known
    <3> QED BY <2>1, <3>1 DEF canTransitionTransactionStatus
  <2>6. CASE CancelWrite(r)
    <3>1. /\ status' = [status EXCEPT ![job[r].tx] = "CANCELLED"]
          /\ status[job[r].tx] = "PENDING"
      BY <2>1, <2>6 DEF CancelWrite, Goto, WriteStatus, Known
    <3> QED BY <2>1, <3>1
  <2>7. ~UpdateWrite(r) /\ ~VerifyWrite(r)
    BY <2>1 DEF UpdateWrite, VerifyWrite, Goto, Called
  <2>8. CASE CreateLookup(r) \/ CommissionsCreateMany(r) \/ UpdateSync(r) \/ StatusAudit(r) \/ StatusSync(r)
             \/ VerifySync(r) \/ RecordLog(r) \/ Abort(r)
    <3>1. status' = status
      BY <2>8 DEF columns, CreateLookup, CommissionsCreateMany, UpdateSync, StatusAudit, StatusSync, VerifySync,
                  RecordLog, Abort
    <3> QED BY <3>1
  <2>9. CASE Beside
    <3>1. status' = status
      BY <2>9 DEF Beside
    <3> QED BY <3>1
  <2>10. TypeOK
    BY DEF IInv
  <2> HIDE DEF Allowed
  <2> QED BY <2>0, <2>3, <2>4, <2>5, <2>6, <2>7, <2>8, <2>9, <2>10, ArriveBeside, ContinueBeside DEF Writes
<1> QED BY <1>1, InitIInv, NextIInv, SerialInit, SerialNext, PTL DEF Spec, LifecycleEnforced

-----------------------------------------------------------------------------
(* Commissions and audit log between requests. *)

Syncing == {"updateSync", "statusAudit", "statusSync", "verifySync"}

\* The commissions of a row agree with it, unless the handler that changed the row has still
\* to bring them along.
Agrees(t) == comm[t] \in {"none", status[t]}
CommissionsKept == \A t \in Tx : Agrees(t) \/ \E r \in Req : pc[r] \in Syncing /\ job[r].tx = t

\* A change of a row is in the audit log, unless its handler has still to write it.
Audited(t, c) ==
    \/ c \in audit[t]
    \/ \E r \in Req : pc[r] = "statusAudit" /\ job[r].tx = t /\ c = <<seen[r], job[r].arg>>
ChangesLogged == \A t \in Tx : \A c \in changes[t] : Audited(t, c)

\* Only the row of the one handler that moves may be behind.
LEMMA OthersAgree ==
  ASSUME CommissionsKept, NEW r \in Req, Alone(r), NEW t \in Tx, pc[r] \notin Syncing \/ job[r].tx # t
  PROVE  Agrees(t)
<1>1. \A q \in Req : q # r => pc[q] \notin Syncing
  BY DEF Alone, Busy, Syncing
<1> QED BY <1>1 DEF CommissionsKept

\* Without errors, a call of a handler keeps the commissions with their rows.
LEMMA CommissionsNext ==
  ASSUME Serial, ~Faults, "cancel" \notin Ops, IInv, SerialInv, CommissionsKept, NEW r \in Req,
         Arrive(r) \/ Continue(r) \/ Abort(r)
  PROVE  CommissionsKept'
<1>0. TypeOK /\ Known(r) /\ Called(r) /\ (pc[r] \notin {"idle", "done"} => job[r].tx \in Tx)
  BY DEF IInv, SerialInv, TargetExists
<1>1. Alone(r)
  BY <1>0, StepAlone
<1>2. /\ pc \in [Req -> PCs] /\ status \in [Tx -> Status \cup {"none"}] /\ comm \in [Tx -> Status \cup {"none"}]
  BY <1>0 DEF TypeOK
<1>3. \A t \in Tx : pc[r] \notin Syncing \/ job[r].tx # t => Agrees(t)
  BY <1>1, OthersAgree
<1>4. CASE Arrive(r)
  <2>1. pc[r] = "idle"
    BY <1>4 DEF Arrive, CreateInsert, createTransaction, UpdateRead, StatusRead, VerifyRead, RecordRead,
                DirectValidate, EscrowRead, CancelRead, RefundRead, Accept, Available
  <2>2. \A t \in Tx : Agrees(t)
    BY <1>3, <2>1 DEF Syncing
  <2>3. CASE Beside
    BY <2>2, <2>3 DEF Beside, Agrees, CommissionsKept
  <2>4. ASSUME NEW t \in Tx, createTransaction(r, t) PROVE CommissionsKept'
    BY <1>2, <2>2, <2>4 DEF createTransaction, Fresh, Agrees, CommissionsKept, derived
  <2> QED BY <1>4, <2>3, <2>4, ArriveBeside
<1>5. CASE Beside /\ pc[r] \notin Syncing
  BY <1>3, <1>5 DEF Beside, Agrees, CommissionsKept
<1>6. CASE CreateLookup(r)
  <2>1. comm' = comm /\ status' = status /\ pc[r] \notin Syncing
    BY <1>0, <1>2, <1>6 DEF CreateLookup, Goto, Known, Fresh, columns, Syncing
  <2> QED BY <1>3, <2>1 DEF Agrees, CommissionsKept
<1>7. CASE CreateCommit(r)
  <2>1. /\ comm' = comm /\ status[job[r].tx] = "none" /\ pc[r] \notin Syncing /\ job[r].tx \in Tx
        /\ status' = [status EXCEPT ![job[r].tx] = "PENDING"]
    BY <1>0, <1>7 DEF CreateCommit, Goto, Known, derived, Syncing
  <2> QED BY <1>2, <1>3, <2>1 DEF Agrees, CommissionsKept
<1>8. CASE CommissionsCreateMany(r)
  <2>1. /\ comm' = [comm EXCEPT ![job[r].tx] = seen[r]] /\ seen[r] = status[job[r].tx]
        /\ status' = status /\ pc[r] \notin Syncing
    BY <1>0, <1>8 DEF CommissionsCreateMany, Goto, Known, columns, Syncing
  <2> QED BY <1>2, <1>3, <2>1 DEF Agrees, CommissionsKept
<1>9. CASE UpdateSync(r) \/ StatusSync(r)
  <2>1. /\ comm' = [comm EXCEPT ![job[r].tx] = IF @ = "none" THEN @ ELSE job[r].arg]
        /\ status[job[r].tx] = job[r].arg /\ status' = status /\ job[r].tx \in Tx
    BY <1>0, <1>9 DEF UpdateSync, StatusSync, updateCommissionsStatus, Goto, Known, columns
  <2>2. \A t \in Tx : t # job[r].tx => Agrees(t)'
    BY <1>2, <1>3, <2>1 DEF Agrees
  <2>3. \A t \in Tx : t = job[r].tx => Agrees(t)'
    BY <1>2, <2>1 DEF Agrees
  <2>4. \A t \in Tx : Agrees(t)'
    BY <2>2, <2>3
  <2> QED BY <2>4 DEF CommissionsKept
<1>10. CASE VerifySync(r)
  <2>1. /\ comm' = [comm EXCEPT ![job[r].tx] = IF @ = "none" THEN @ ELSE "COMPLETED"]
        /\ status[job[r].tx] = "COMPLETED" /\ status' = status
    BY <1>0, <1>10 DEF VerifySync, updateCommissionsStatus, Goto, Known, columns
  <2> QED BY <1>2, <1>3, <2>1 DEF Agrees, CommissionsKept
<1>11. CASE RecordLog(r)
  <2>1. comm' = comm /\ status' = status /\ pc[r] \notin Syncing
    BY <1>11 DEF RecordLog, Goto, columns, Syncing
  <2> QED BY <1>3, <2>1 DEF Agrees, CommissionsKept
<1>12. CASE StatusAudit(r)
  <2>1. comm' = comm /\ status' = status /\ job' = job /\ pc'[r] = "statusSync"
    BY <1>2, <1>12 DEF StatusAudit, Goto, columns
  <2>2. \A t \in Tx : job[r].tx = t \/ Agrees(t)'
    BY <1>3, <2>1 DEF Agrees
  <2> QED BY <2>1, <2>2 DEF CommissionsKept, Syncing
<1>13. ASSUME NEW s, NEW to \in Syncing, WriteStatus(job[r].tx, s), job' = job, comm' = comm, pc'[r] = to
       PROVE  CommissionsKept'
  <2>1. \A t \in Tx : t # job[r].tx => status'[t] = status[t]
    BY <1>2, <1>13 DEF WriteStatus
  <2>2. \A t \in Tx : job[r].tx = t \/ Agrees(t)'
    BY <1>3, <1>13, <2>1 DEF Agrees
  <2> QED BY <1>13, <2>2 DEF CommissionsKept
<1>14. CASE UpdateWrite(r)
  <2>1. CASE job[r].arg = "none"
    <3>1. comm' = comm /\ status' = status /\ pc[r] \notin Syncing
      BY <1>14, <2>1 DEF UpdateWrite, Goto, derived, Syncing
    <3> QED BY <1>3, <3>1 DEF Agrees, CommissionsKept
  <2>2. CASE job[r].arg # "none"
    <3>1. WriteStatus(job[r].tx, job[r].arg) /\ job' = job /\ comm' = comm /\ pc'[r] = "updateSync"
      BY <1>2, <1>14, <2>2 DEF UpdateWrite, Goto, derived
    <3> QED BY <1>13, <3>1 DEF Syncing
  <2> QED BY <2>1, <2>2
<1>15. CASE StatusWrite(r)
  <2>1. WriteStatus(job[r].tx, job[r].arg) /\ job' = job /\ comm' = comm /\ pc'[r] = "statusAudit"
    BY <1>2, <1>15 DEF StatusWrite, Goto, derived
  <2> QED BY <1>13, <2>1 DEF Syncing
<1>16. CASE VerifyWrite(r)
  <2>1. WriteStatus(job[r].tx, "COMPLETED") /\ job' = job /\ comm' = comm /\ pc'[r] = "verifySync"
    BY <1>2, <1>16 DEF VerifyWrite, Goto, derived
  <2> QED BY <1>13, <2>1 DEF Syncing
<1>17. ~CancelWrite(r) /\ ~Abort(r)
  BY <1>0 DEF CancelWrite, Abort, Goto, Called
<1> QED BY <1>0, <1>4, <1>5, <1>6, <1>7, <1>8, <1>9, <1>10, <1>11, <1>12, <1>14, <1>15, <1>16, <1>17,
           ContinueBeside DEF Writes, Syncing

\* updateCommissionsStatus: when requests are served one at a time and without errors, every
\* handler but the cancellation leaves commissions that agree with the row.
THEOREM CommissionsQuiet ==
  ASSUME Serial, ~Faults, "cancel" \notin Ops
  PROVE  Spec => []CommissionsAgreeWhenQuiet
<1>1. Init => CommissionsKept
  BY DEF Init, CommissionsKept, Agrees, Fresh
<1>2. IInv /\ SerialInv /\ CommissionsKept /\ [Next]_vars => CommissionsKept'
  <2> SUFFICES ASSUME IInv, SerialInv, CommissionsKept, [Next]_vars PROVE CommissionsKept'
    OBVIOUS
  <2>1. CASE UNCHANGED vars
    BY <2>1 DEF vars, columns, derived, requests, CommissionsKept, Agrees
  <2> QED BY <2>1, CommissionsNext DEF Next
<1>3. CommissionsKept => CommissionsAgreeWhenQuiet
  BY DEF CommissionsKept, Agrees, CommissionsAgreeWhenQuiet, Quiet, Syncing
<1> QED BY <1>1, <1>2, <1>3, InitIInv, NextIInv, SerialInit, SerialNext, PTL DEF Spec

\* Without errors, a call of a handler that audits its change leaves none unlogged.
LEMMA ChangesNext ==
  ASSUME Serial, ~Faults, Ops \cap {"update", "verify", "cancel"} = {}, IInv, SerialInv, ChangesLogged,
         NEW r \in Req, Arrive(r) \/ Continue(r) \/ Abort(r)
  PROVE  ChangesLogged'
<1>0. TypeOK /\ Known(r) /\ Called(r) /\ (pc[r] \notin {"idle", "done"} => job[r].tx \in Tx)
  BY DEF IInv, SerialInv, TargetExists
<1>1. Alone(r)
  BY <1>0, StepAlone
<1>2. /\ pc \in [Req -> PCs] /\ changes \in [Tx -> SUBSET (Status \X Status)]
      /\ audit \in [Tx -> SUBSET (Status \X Status)]
  BY <1>0 DEF TypeOK
<1>3. \A t \in Tx : \A c \in changes[t] :
          c \in audit[t] \/ (pc[r] = "statusAudit" /\ job[r].tx = t /\ c = <<seen[r], job[r].arg>>)
  BY <1>1 DEF ChangesLogged, Audited, Alone, Busy
<1>4. ASSUME changes' = changes, pc[r] # "statusAudit", \A t \in Tx : audit[t] \subseteq audit'[t]
      PROVE  ChangesLogged'
  BY <1>3, <1>4 DEF ChangesLogged, Audited
<1>5. CASE Arrive(r)
  <2>1. pc[r] = "idle"
    BY <1>5 DEF Arrive, CreateInsert, createTransaction, UpdateRead, StatusRead, VerifyRead, RecordRead,
                DirectValidate, EscrowRead, CancelRead, RefundRead, Accept, Available
  <2>2. changes' = changes /\ audit' = audit
    BY <1>5, ArriveBeside DEF Beside, createTransaction, derived
  <2> QED BY <1>4, <2>1, <2>2
<1>6. CASE Beside /\ pc[r] # "statusAudit"
  BY <1>4, <1>6 DEF Beside
<1>7. CASE CreateLookup(r) \/ CreateCommit(r) \/ CommissionsCreateMany(r) \/ StatusSync(r)
  <2>1. changes' = changes /\ audit' = audit /\ pc[r] # "statusAudit"
    BY <1>7 DEF CreateLookup, CreateCommit, CommissionsCreateMany, StatusSync, Goto, history, derived
  <2> QED BY <1>4, <2>1
<1>8. CASE RecordLog(r)
  <2>1. changes' = changes /\ pc[r] # "statusAudit"
    BY <1>8 DEF RecordLog, Goto, history
  <2>2. \A t \in Tx : audit[t] \subseteq audit'[t]
    BY <1>2, <1>8 DEF RecordLog
  <2> QED BY <1>4, <2>1, <2>2
<1>9. CASE StatusAudit(r)
  <2>1. changes' = changes /\ audit' = [audit EXCEPT ![job[r].tx] = @ \cup {<<seen[r], job[r].arg>>}]
    BY <1>9 DEF StatusAudit, history
  <2>2. \A t \in Tx : \A c \in changes[t] : c \in audit'[t]
    BY <1>2, <1>3, <2>1
  <2> QED BY <2>1, <2>2 DEF ChangesLogged, Audited
<1>10. CASE StatusWrite(r)
  <2>1. /\ pc[r] = "statusWrite" /\ pc'[r] = "statusAudit" /\ job' = job /\ seen' = seen /\ audit' = audit
        /\ WriteStatus(job[r].tx, job[r].arg) /\ seen[r] = status[job[r].tx]
    BY <1>0, <1>2, <1>10 DEF StatusWrite, Goto, derived, Known
  <2>2. \A t \in Tx : \A c \in changes'[t] : c \in changes[t] \/ (job[r].tx = t /\ c = <<seen[r], job[r].arg>>)
    BY <1>2, <2>1 DEF WriteStatus
  <2>3. \A t \in Tx : \A c \in changes[t] : c \in audit[t]
    BY <1>3, <2>1
  <2> QED BY <2>1, <2>2, <2>3 DEF ChangesLogged, Audited
<1>11. /\ ~UpdateWrite(r) /\ ~UpdateSync(r) /\ ~VerifyWrite(r) /\ ~VerifySync(r) /\ ~CancelWrite(r)
       /\ ~Abort(r)
  BY <1>0 DEF UpdateWrite, UpdateSync, VerifyWrite, VerifySync, CancelWrite, Abort, Goto, Called
<1> QED BY <1>0, <1>5, <1>6, <1>7, <1>8, <1>9, <1>10, <1>11, ContinueBeside DEF Writes

\* updateTransactionStatus: when requests are served one at a time and without errors, and no
\* client calls the three handlers that do not log, every change of status is in the audit log.
THEOREM AuditQuiet ==
  ASSUME Serial, ~Faults, Ops \cap {"update", "verify", "cancel"} = {}
  PROVE  Spec => []EveryChangeAudited
<1>1. Init => ChangesLogged
  BY DEF Init, ChangesLogged
<1>2. IInv /\ SerialInv /\ ChangesLogged /\ [Next]_vars => ChangesLogged'
  <2> SUFFICES ASSUME IInv, SerialInv, ChangesLogged, [Next]_vars PROVE ChangesLogged'
    OBVIOUS
  <2>1. CASE UNCHANGED vars
    BY <2>1 DEF vars, derived, requests, history, ChangesLogged, Audited
  <2> QED BY <2>1, ChangesNext DEF Next
<1>3. ChangesLogged => EveryChangeAudited
  BY DEF ChangesLogged, Audited, EveryChangeAudited, Quiet
<1> QED BY <1>1, <1>2, <1>3, InitIInv, NextIInv, SerialInit, SerialNext, PTL DEF Spec
=============================================================================
