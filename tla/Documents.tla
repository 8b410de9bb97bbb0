----------------------------- MODULE Documents -----------------------------
(***************************************************************************)
(* A document: documents.service.ts and transaction-documents.service.ts.   *)
(* Requests run concurrently and each of their database calls is a step; a  *)
(* prisma.$transaction is one step.  The nightly job marks documents        *)
(* expired and archives them in two statements.  A file is a number in the  *)
(* order of the uploads; the date of expiry is seen as its distance to now: *)
(* none, ahead, past, or more than 30 days past.                            *)
(***************************************************************************)
EXTENDS Integers, Sequences, FiniteSets

CONSTANTS DocReq,    \* concurrent requests
          Signers,   \* values of dto.signedBy
          MaxFiles   \* bound on the uploads

ASSUME DocumentsAssumption == MaxFiles \in Nat \ {0} /\ IsFiniteSet(DocReq) /\ DocReq # {} /\ "none" \notin Signers

VARIABLES
    dcDoc,       \* the row of the document
    dcVersions,  \* [version numbers -> file]: the rows of document_versions
    dcReq,       \* what each request is doing, and what it has read
    dcJob,       \* the nightly job: "idle" or "archive" between its statements
    dcFiles      \* files uploaded so far

dcVars == <<dcDoc, dcVersions, dcReq, dcJob, dcFiles>>

Ages == {"none", "ahead", "past", "old"}

\* What a request holds between its calls: the operation, the version number or the
\* audit trail it has read, the file or the signature it will write.
Idle == [op |-> "idle", number |-> 0, trail |-> <<>>, file |-> 0]

NoDocument == [there |-> FALSE, status |-> "ACTIVE", flagged |-> FALSE, age |-> "none",
               signedBy |-> "none", trail |-> <<>>, file |-> 0]

DcTypeOK ==
    /\ dcDoc \in [there : BOOLEAN, status : {"ACTIVE", "EXPIRED", "ARCHIVED"}, flagged : BOOLEAN,
                  age : Ages, signedBy : Signers \cup {"none"},
                  trail : UNION {[1..n -> Signers] : n \in 0..Cardinality(DocReq)},
                  file : 0..MaxFiles]
    /\ DOMAIN dcVersions \subseteq 1..MaxFiles
    /\ \A n \in DOMAIN dcVersions : dcVersions[n] \in 1..MaxFiles
    /\ \A r \in DocReq : dcReq[r].op \in {"idle", "attach", "sign", "version"}
    /\ dcJob \in {"idle", "archive"}
    /\ dcFiles \in 0..MaxFiles

DcInit ==
    /\ dcDoc = NoDocument
    /\ dcVersions = <<>>
    /\ dcReq = [r \in DocReq |-> Idle]
    /\ dcJob = "idle"
    /\ dcFiles = 0

Finish(r) == dcReq' = [dcReq EXCEPT ![r] = Idle]

-----------------------------------------------------------------------------
(* Creation.                                                                 *)

NewDocument(age) == [NoDocument EXCEPT !.there = TRUE, !.age = age, !.file = dcFiles + 1]

\* DocumentsService.create: no version row.
createDocument(r, age) ==
    /\ dcReq[r] = Idle /\ ~dcDoc.there /\ dcFiles = 0
    /\ dcDoc' = NewDocument(age)
    /\ dcFiles' = dcFiles + 1
    /\ UNCHANGED <<dcVersions, dcReq, dcJob>>

\* attach: the document, then version 1, in two statements.
attach(r) ==
    /\ dcReq[r] = Idle /\ ~dcDoc.there /\ dcFiles = 0
    /\ dcDoc' = NewDocument("none")
    /\ dcFiles' = dcFiles + 1
    /\ dcReq' = [dcReq EXCEPT ![r] = [Idle EXCEPT !.op = "attach", !.file = dcFiles + 1]]
    /\ UNCHANGED <<dcVersions, dcJob>>

\* (documentId, versionNumber) is unique and refers to a document.
MayInsert(n) == dcDoc.there /\ n \notin DOMAIN dcVersions

WithVersion(n, f) ==
    [k \in DOMAIN dcVersions \cup {n} |-> IF k = n THEN f ELSE dcVersions[k]]

attachVersion(r) ==
    /\ dcReq[r].op = "attach"
    /\ dcVersions' = IF MayInsert(1) THEN WithVersion(1, dcReq[r].file) ELSE dcVersions
    /\ Finish(r)
    /\ UNCHANGED <<dcDoc, dcJob, dcFiles>>

\* The process dies, or the second statement fails: the document has no version.
attachDies(r) ==
    /\ dcReq[r].op = "attach"
    /\ Finish(r)
    /\ UNCHANGED <<dcDoc, dcVersions, dcJob, dcFiles>>

-----------------------------------------------------------------------------
(* Versions.                                                                 *)

\* addVersion reads the document with its versions.
addVersion(r) ==
    /\ dcReq[r] = Idle /\ dcDoc.there /\ dcFiles < MaxFiles
    /\ dcFiles' = dcFiles + 1
    /\ dcReq' = [dcReq EXCEPT ![r] = [op |-> "version", number |-> Cardinality(DOMAIN dcVersions) + 1,
                                      trail |-> <<>>, file |-> dcFiles + 1]]
    /\ UNCHANGED <<dcDoc, dcVersions, dcJob>>

\* Mutant of writeVersion: the two writes are not one transaction, and the update of the
\* document does not wait for the version to be accepted.
writeVersion_Apart(r) ==
    /\ dcReq[r].op = "version"
    /\ dcVersions' = IF MayInsert(dcReq[r].number)
                     THEN WithVersion(dcReq[r].number, dcReq[r].file) ELSE dcVersions
    /\ dcDoc' = IF dcDoc.there THEN [dcDoc EXCEPT !.file = dcReq[r].file] ELSE dcDoc
    /\ Finish(r)
    /\ UNCHANGED <<dcJob, dcFiles>>

\* Then one transaction inserts the version and moves the document to its file.
writeVersion(r) ==
    /\ dcReq[r].op = "version"
    /\ IF MayInsert(dcReq[r].number)
       THEN /\ dcVersions' = WithVersion(dcReq[r].number, dcReq[r].file)
            /\ dcDoc' = [dcDoc EXCEPT !.file = dcReq[r].file]
       ELSE UNCHANGED <<dcVersions, dcDoc>>
    /\ Finish(r)
    /\ UNCHANGED <<dcJob, dcFiles>>

-----------------------------------------------------------------------------
(* Signature.                                                                *)

\* Mutant of signDocument: the check of signedAt is missing.
signDocument_Again(r) ==
    /\ dcReq[r] = Idle /\ dcDoc.there
    /\ Len(dcDoc.trail) < Cardinality(DocReq)
    /\ dcReq' = [dcReq EXCEPT ![r] = [Idle EXCEPT !.op = "sign", !.trail = dcDoc.trail]]
    /\ UNCHANGED <<dcDoc, dcVersions, dcJob, dcFiles>>

signDocument(r) ==
    /\ dcReq[r] = Idle /\ dcDoc.there
    /\ dcDoc.signedBy = "none"
    /\ dcReq' = [dcReq EXCEPT ![r] = [Idle EXCEPT !.op = "sign", !.trail = dcDoc.trail]]
    /\ UNCHANGED <<dcDoc, dcVersions, dcJob, dcFiles>>

\* The update does not look at signedAt again; the trail is the one that was read.
writeSignature(r, s) ==
    /\ dcReq[r].op = "sign"
    /\ dcDoc' = IF dcDoc.there
                THEN [dcDoc EXCEPT !.signedBy = s, !.trail = Append(dcReq[r].trail, s)]
                ELSE dcDoc
    /\ Finish(r)
    /\ UNCHANGED <<dcVersions, dcJob, dcFiles>>

-----------------------------------------------------------------------------
(* Expiry, and the other operations.                                         *)

\* UpdateDocumentDto lets the caller move the date and set the flag.
updateDocument(age, flagged) ==
    /\ dcDoc.there
    /\ dcDoc' = [dcDoc EXCEPT !.age = age, !.flagged = flagged]
    /\ UNCHANGED <<dcVersions, dcReq, dcJob, dcFiles>>

\* The document and, with it, its versions.
Delete ==
    /\ dcDoc' = [dcDoc EXCEPT !.there = FALSE]
    /\ dcVersions' = <<>>
    /\ UNCHANGED <<dcReq, dcJob, dcFiles>>

removeDocument == dcDoc.there /\ Delete

removeFromTransaction == dcDoc.there /\ Delete

deleteExpired == dcDoc.there /\ dcDoc.flagged /\ Delete

\* Mutant of markExpiredDocuments: the status is not part of the condition.
markExpiredDocuments_Any ==
    /\ dcJob = "idle"
    /\ dcDoc' = IF dcDoc.there /\ dcDoc.age \in {"past", "old"}
                THEN [dcDoc EXCEPT !.flagged = TRUE, !.status = "EXPIRED"]
                ELSE dcDoc
    /\ dcJob' = "archive"
    /\ UNCHANGED <<dcVersions, dcReq, dcFiles>>

\* The two statements of the nightly job.
markExpiredDocuments ==
    /\ dcJob = "idle"
    /\ dcDoc' = IF dcDoc.there /\ dcDoc.status = "ACTIVE" /\ dcDoc.age \in {"past", "old"}
                THEN [dcDoc EXCEPT !.flagged = TRUE, !.status = "EXPIRED"]
                ELSE dcDoc
    /\ dcJob' = "archive"
    /\ UNCHANGED <<dcVersions, dcReq, dcFiles>>

archiveDocuments ==
    /\ dcJob = "archive"
    /\ dcDoc' = IF dcDoc.there /\ dcDoc.status = "EXPIRED" /\ dcDoc.age = "old"
                THEN [dcDoc EXCEPT !.status = "ARCHIVED"]
                ELSE dcDoc
    /\ dcJob' = "idle"
    /\ UNCHANGED <<dcVersions, dcReq, dcFiles>>

\* Time passes.
daysPass ==
    /\ dcDoc.there /\ dcDoc.age \in {"ahead", "past"}
    /\ dcDoc' = [dcDoc EXCEPT !.age = IF @ = "ahead" THEN "past" ELSE "old"]
    /\ UNCHANGED <<dcVersions, dcReq, dcJob, dcFiles>>

DcNext ==
    \/ \E r \in DocReq :
          \/ \E age \in {"none", "ahead"} : createDocument(r, age)
          \/ attach(r) \/ attachVersion(r) \/ attachDies(r)
          \/ addVersion(r) \/ writeVersion(r)
          \/ signDocument(r) \/ \E s \in Signers : writeSignature(r, s)
    \/ \E age \in Ages, flagged \in BOOLEAN : updateDocument(age, flagged)
    \/ removeDocument \/ removeFromTransaction \/ deleteExpired
    \/ markExpiredDocuments \/ archiveDocuments
    \/ daysPass

DcSpec == DcInit /\ [][DcNext]_dcVars

-----------------------------------------------------------------------------
(* Properties.                                                               *)

\* The versions are numbered 1, 2, ... without a gap and the document shows the file of
\* the last one: the number comes from an earlier read, and the unique key together
\* with the transaction of addVersion has to stop the second of two overlapping uploads
\* (transaction-documents.service.ts:179-197).
LatestVersionShown ==
    LET n == Cardinality(DOMAIN dcVersions)
    IN  dcDoc.there /\ n > 0 => DOMAIN dcVersions = 1..n /\ dcDoc.file = dcVersions[n]

\* The audit trail of a signed document has one signature and it is the one the document
\* shows.  Overlapping requests may both sign (the check is not repeated by the write):
\* the later one replaces signature and trail alike.
OneSignature ==
    dcDoc.trail = IF dcDoc.signedBy = "none" THEN <<>> ELSE <<dcDoc.signedBy>>

DocumentMoves == {<<"ACTIVE", "EXPIRED">>, <<"EXPIRED", "ARCHIVED">>}

DocumentWorkflow ==
    INSTANCE Workflow WITH Stages <- {"ACTIVE", "EXPIRED", "ARCHIVED"}, First <- {"ACTIVE"},
                           Moves <- DocumentMoves, stage <- dcDoc.status, freed <- FALSE

\* The status of a document goes from ACTIVE to EXPIRED to ARCHIVED and never back,
\* whatever the owner does to its date and flag: documents implement the abstract
\* workflow.
DocumentFollowsWorkflow == DocumentWorkflow!WfSpec
=============================================================================
