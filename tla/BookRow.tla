------------------------------ MODULE BookRow ------------------------------
(***************************************************************************)
(* One row of the books table, and what each statement of db.py that       *)
(* writes books does to the row it hits.  The table, the chunks and the    *)
(* processes that run these statements are in IngestQueue.                 *)
(*                                                                         *)
(* A document stands for the bytes of a PDF and for their md5 alike.  The  *)
(* title, size, page count, error text and updated_at columns steer no     *)
(* statement of the queue and are left out.                                *)
(***************************************************************************)
EXTENDS Integers

CONSTANTS
  Docs,         \* documents: the contents a PDF can have
  DriveFiles,   \* Drive file ids
  Uploads,      \* the documents users upload; the source_id of an upload is
                \* "upload:<md5>", so an upload is named by its own document
  NoMd5,        \* a NULL md5 column
  NoRow,        \* no row has this id
  MaxAttempts   \* config.MAX_ATTEMPTS

Sources == DriveFiles \cup Uploads

Md5s == Docs \cup {NoMd5}

Waiting  == {"discovered", "downloaded", "extracted", "chunked"}
Terminal == {"done", "failed", "needs_ocr"}

(* claimed_at: NULL, within CLAIM_STALE_MINUTES of now(), or older.        *)
Leases == {"none", "fresh", "stale"}

Row == [source_id : Sources, md5 : Md5s, status : Waiting \cup Terminal,
        claim : Leases, attempts : Nat]

ASSUME RowAssumption ==
  /\ Uploads \subseteq Docs
  /\ DriveFiles \cap Uploads = {}
  /\ NoMd5 \notin Docs
  /\ NoRow \notin Row
  /\ MaxAttempts \in Nat
-----------------------------------------------------------------------------
(* What a run is asked to claim: everything, or the books of one source.   *)
AnySource == "any"
Scopes == {AnySource, "drive", "upload"}

InScope(row, scope) ==
  \/ scope = AnySource
  \/ scope = "drive" /\ row.source_id \in DriveFiles
  \/ scope = "upload" /\ row.source_id \in Uploads

(* Mutations of the claim: the lease test dropped, the reaper clause       *)
(* dropped, and a status forgotten in the exclusion list.                  *)
ClaimableIgnoringLease(row, scope) ==
  row.status \notin Terminal /\ InScope(row, scope)
ClaimableOnce(row, scope) ==
  row.status \notin Terminal /\ InScope(row, scope) /\ row.claim = "none"
ClaimableNeedsOcr(row, scope) ==
  row.status \notin {"done", "failed"} /\ InScope(row, scope) /\ row.claim # "fresh"

(* The WHERE clause of the claim, the reaper clause included.              *)
Claimable(row, scope) ==
  /\ row.status \notin Terminal
  /\ InScope(row, scope)
  /\ row.claim # "fresh"

(* ORDER BY status DESC goes by the declaration order of doc_status.       *)
Rank == [discovered |-> 0, downloaded |-> 1, extracted |-> 2, chunked |-> 3,
         done |-> 4, failed |-> 5, needs_ocr |-> 6]

(* The claim counts an attempt and takes a lease; the attempt past the     *)
(* limit closes the book instead of handing it out.                        *)
HandedOut(row) == [row EXCEPT !.claim = "fresh", !.attempts = @ + 1]
GivenUpStillWaiting(row) ==   \* mutation: the status is not changed
  [row EXCEPT !.claim = "none", !.attempts = @ + 1]
GivenUp(row) ==
  [row EXCEPT !.status = "failed", !.claim = "none", !.attempts = @ + 1]
-----------------------------------------------------------------------------
(* The row an INSERT makes: status and attempts from the column defaults.  *)
NewRow(s, m) ==
  [source_id |-> s, md5 |-> m, status |-> "discovered", claim |-> "none",
   attempts |-> 0]

(* ON CONFLICT (source_id) DO UPDATE: two known and different md5s mean    *)
(* new bytes and send the book back to the start; every other change is    *)
(* metadata.  source_id and source are never rewritten.                    *)
NewBytes(row, m) == row.md5 # m /\ row.md5 # NoMd5 /\ m # NoMd5

Upserted(row, m) ==
  IF NewBytes(row, m)
    THEN [row EXCEPT !.md5 = m, !.status = "discovered", !.claim = "none",
                     !.attempts = 0]
    ELSE [row EXCEPT !.md5 = m]
=============================================================================
