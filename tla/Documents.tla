----------------------------- MODULE Documents -----------------------------
(***************************************************************************)
(* Procurement documents, their versions and the evidence of approvals.    *)
(*                                                                         *)
(* What changes a document locks its row FOR UPDATE and loads it afresh.   *)
(* A verification loads the document with its versions without a lock,     *)
(* then locks its version, which is not loaded again: it compares what it  *)
(* writes with what it first saw.  Evidence reads the version it rests on  *)
(* without any lock.                                                       *)
(***************************************************************************)
EXTENDS Requests, Naturals, Sequences

CONSTANTS
    Document,
    MaxVersions  \* bound: versions of a document

ASSUME DocumentsAssumption == MaxVersions \in Nat \ {0} /\ None \notin Request \cup Document

VARIABLES
    document,   \* procurement_documents
    version,    \* procurement_document_versions of each, by their version_number
    evidence,   \* procurement_approval_evidence: the versions it rests on
    filing,     \* per request: what it is about to commit
    verified    \* versions a verification of which overlapped with another or with evidence

documentsVars == <<document, version, evidence, filing, verified>>

DocumentRows == [status : {"none", "active", "archived"}, current_version_number : Nat]
VersionRows  == [integrity_status : {"unverified", "verified", "mismatch"},
                 upload_state : {"available", "quarantined"}]
Numbers      == 1 .. MaxVersions
Versions     == Document \X Numbers
Filings      == [step : {"none", "document", "verify", "locked", "evidence"},
                 document : Document \cup {None}, row : DocumentRows,
                 number : Nat,          \* of the version, 0 for none
                 seen : VersionRows, matched : BOOLEAN]

NoDocument == [status |-> "none", current_version_number |-> 0]
NewVersion == [integrity_status |-> "unverified", upload_state |-> "available"]
NotFiling  == [step |-> "none", document |-> None, row |-> NoDocument, number |-> 0,
               seen |-> NewVersion, matched |-> FALSE]

DocumentsTypeOK ==
    /\ document \in [Document -> DocumentRows]
    /\ version \in [Document -> Seq(VersionRows)]
    /\ \A d \in Document : Len(version[d]) <= MaxVersions
    /\ evidence \subseteq Versions
    /\ filing \in [Request -> Filings]
    /\ verified \subseteq Versions

DocumentsInit ==
    /\ document = [d \in Document |-> NoDocument]
    /\ version = [d \in Document |-> <<>>]
    /\ evidence = {}
    /\ filing = [p \in Request |-> NotFiling]
    /\ verified = {}

-----------------------------------------------------------------------------
(* The document.                                                           *)

DocumentLocked(d) ==
    \E q \in Request : filing[q].step = "document" /\ filing[q].document = d

File(p, filed) ==
    /\ filing[p] = NotFiling
    /\ filing' = [filing EXCEPT ![p] = filed]
    /\ UNCHANGED <<document, version, evidence>>

\* Mutated form: the document is read without its lock.
ReadDocument(p, d, row, number) ==
    /\ File(p, [NotFiling EXCEPT !.step = "document", !.document = d, !.row = row, !.number = number])
    /\ UNCHANGED verified

LockDocument(p, d, row, number) ==
    /\ ~DocumentLocked(d)
    /\ File(p, [NotFiling EXCEPT !.step = "document", !.document = d, !.row = row, !.number = number])
    /\ UNCHANGED verified

Active(d) == document[d].status = "active"

CreateDocument(p, d) ==
    document[d].status = "none" /\ LockDocument(p, d, [NoDocument EXCEPT !.status = "active"], 0)

\* The title, the description and what the document is required for are left out.
UpdateDocument(p, d) == Active(d) /\ LockDocument(p, d, document[d], 0)

NextVersionNumber(d) == Len(version[d]) + 1

CreateVersion(p, d) ==
    LET n == NextVersionNumber(d)
    IN /\ Active(d) /\ n <= MaxVersions
       /\ LockDocument(p, d, [document[d] EXCEPT !.current_version_number = n], n)

ArchiveDocument(p, d) ==
    Active(d) /\ LockDocument(p, d, [document[d] EXCEPT !.status = "archived"], 0)

RestoreDocument(p, d) ==
    /\ document[d].status = "archived"
    /\ LockDocument(p, d, [document[d] EXCEPT !.status = "active"], 0)

\* A version number is unique within its document.
CommitDocument(p) ==
    LET f == filing[p]
        d == f.document
    IN /\ f.step = "document"
       /\ f.number \in {0, NextVersionNumber(d)}
       /\ document' = [document EXCEPT ![d] = f.row]
       /\ version' = IF f.number = 0 THEN version ELSE [version EXCEPT ![d] = Append(@, NewVersion)]
       /\ filing' = [filing EXCEPT ![p] = NotFiling]
       /\ UNCHANGED <<evidence, verified>>

-----------------------------------------------------------------------------
(* Verifying a version, and relying on it.                                 *)

\* Are others about to change or to rely on version n of d?
Others(d, n, steps) ==
    \E q \in Request : filing[q].document = d /\ filing[q].number = n /\ filing[q].step \in steps

Overlap(d, n, steps) ==
    verified' = IF Others(d, n, steps) THEN verified \cup {<<d, n>>} ELSE verified

VerifyVersion(p, d, n, matched) ==
    /\ Active(d) /\ n \in DOMAIN version[d]
    /\ File(p, [NotFiling EXCEPT !.step = "verify", !.document = d, !.number = n,
                                   !.seen = version[d][n], !.matched = matched])
    /\ Overlap(d, n, {"verify", "locked", "evidence"})

LockVersion(p) ==
    /\ filing[p].step = "verify"
    /\ ~Others(filing[p].document, filing[p].number, {"locked"})
    /\ filing' = [filing EXCEPT ![p].step = "locked"]
    /\ UNCHANGED <<document, version, evidence, verified>>

Outcome(matched) ==
    IF matched THEN [integrity_status |-> "verified", upload_state |-> "available"]
               ELSE [integrity_status |-> "mismatch", upload_state |-> "quarantined"]

CommitVerification(p) ==
    LET f == filing[p]
    IN /\ f.step = "locked"
       /\ version' = [version EXCEPT ![f.document][f.number] =
                         Overwritten(@, Changed(f.seen, Outcome(f.matched)))]
       /\ filing' = [filing EXCEPT ![p] = NotFiling]
       /\ UNCHANGED <<document, evidence, verified>>

Reliable(row) == row.integrity_status = "verified" /\ row.upload_state = "available"

\* Evidence that rests on no document is left out.
CreateApprovalEvidence(p, d, n) ==
    /\ n \in DOMAIN version[d] /\ Reliable(version[d][n])
    /\ File(p, [NotFiling EXCEPT !.step = "evidence", !.document = d, !.number = n])
    /\ Overlap(d, n, {"verify", "locked"})

CommitEvidence(p) ==
    LET f == filing[p]
    IN /\ f.step = "evidence"
       /\ evidence' = evidence \cup {<<f.document, f.number>>}
       /\ filing' = [filing EXCEPT ![p] = NotFiling]
       /\ UNCHANGED <<document, version, verified>>

\* A check fails, the database reports a conflict or the process dies.
AbandonFiling(p) ==
    /\ filing[p] # NotFiling
    /\ filing' = [filing EXCEPT ![p] = NotFiling]
    /\ UNCHANGED <<document, version, evidence, verified>>

-----------------------------------------------------------------------------
DocumentsNext ==
    \/ \E p \in Request, d \in Document :
         \/ CreateDocument(p, d) \/ UpdateDocument(p, d) \/ CreateVersion(p, d)
         \/ ArchiveDocument(p, d) \/ RestoreDocument(p, d)
         \/ \E n \in Numbers :
              \/ \E matched \in BOOLEAN : VerifyVersion(p, d, n, matched)
              \/ CreateApprovalEvidence(p, d, n)
    \/ \E p \in Request :
         \/ CommitDocument(p) \/ LockVersion(p) \/ CommitVerification(p) \/ CommitEvidence(p)
         \/ AbandonFiling(p)

DocumentsSpec == DocumentsInit /\ [][DocumentsNext]_documentsVars

-----------------------------------------------------------------------------
(* Properties.                                                             *)

\* However requests interleave, a document numbers its versions as they come, and an
\* archived one gains none; and unless verifications of it overlapped, a version whose
\* checksum did not match is quarantined, and evidence rests on one whose checksum did.
DocumentsHold ==
    [][/\ \A d \in Document :
            /\ document[d].current_version_number = Len(version[d])
            /\ document[d].status = "archived" => Len(version'[d]) = Len(version[d])
            /\ \A n \in DOMAIN version[d] : <<d, n>> \notin verified =>
                 (version[d][n].integrity_status = "mismatch")
                    = (version[d][n].upload_state = "quarantined")
       /\ \A x \in (evidence' \ evidence) \ verified : Reliable(version[x[1]][x[2]])]_documentsVars
=============================================================================
