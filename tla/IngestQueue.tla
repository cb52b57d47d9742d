---------------------------- MODULE IngestQueue ----------------------------
(***************************************************************************)
(* The ingest queue: the books and chunks tables, the routes that put      *)
(* books in and take them out, and the workers that drain the queue.       *)
(*                                                                         *)
(* Every function of db.py commits on its own and no transaction spans a   *)
(* call to Drive, Mistral or Voyage, so one commit, or one read of the     *)
(* outside world, is one action.  A worker is one process_queue call at a  *)
(* time: the CLI, the Cloud Run Job or a background thread of the API.     *)
(* Local files and the bucket are left to a module of their own: a worker  *)
(* carries the document it downloaded in doc.                              *)
(***************************************************************************)
EXTENDS BookRow

CONSTANTS
  Workers,      \* the processes and threads that drain the queue
  MaxBooks,     \* bound: how many rows the table ever gets
  Asked,        \* what the runs of an installation are asked to claim
  Limits,       \* the limit arguments of process_queue
  NoLimit,      \* limit=None
  NoDoc,        \* a worker has nothing in hand
  NoJob,        \* a worker has no book
  NoAdd,        \* no hand-picked addition of this Drive file is under way
  Checked,      \* such an addition is about to ask Drive for the file
  OcrWorkers,   \* workers that have an OCR client
  Scans,        \* documents without a text layer
  Blank,        \* documents whose markdown yields no chunk
  Slow,         \* books with a stage that can outlast CLAIM_STALE_MINUTES
  Edited,       \* Drive files whose bytes can change
  Unhashed,     \* Drive files that Drive can list without an md5
  Picked,       \* Drive files that POST /api/library/drive can name
  CliAdded,     \* those of them that the CLI's explore --add can name too
  Flaky,        \* stages that can raise
  Crashable     \* workers that can be killed

VARIABLES
  books,        \* the table, by id
  nextId,       \* the BIGSERIAL: an id is never issued twice
  chunks,       \* by book id: the document the book's chunks were cut from
  pc,           \* by worker: the stage it is at
  run,          \* by worker: source and limit of its process_queue call
  job,          \* by worker: the row as it was when claimed
  doc,          \* by worker: what it downloaded
  drive,        \* by Drive file: its bytes now
  mirror,       \* by Drive file: the md5 column of drive_files
  adding        \* by Drive file: a POST /api/library/drive in progress

tables  == <<books, nextId, chunks>>
workers == <<pc, run, job, doc>>
outside == <<drive, mirror, adding>>
vars == <<books, nextId, chunks, pc, run, job, doc, drive, mirror, adding>>

Ids == 1 .. MaxBooks
RaisingStages ==
  {"wipe", "download", "extract", "chunk", "finish", "wrapup"}

Stages == RaisingStages \cup
  {"off", "run", "mark", "touch_downloaded", "touch_extracted",
   "touch_chunked", "fail_blank", "raised", "poisoned"}

Runs == [scope : Scopes, budget : Nat \cup {NoLimit}]
Jobs == [id : Ids, source_id : Sources, md5 : Md5s]

ASSUME QueueAssumption ==
  /\ MaxBooks \in Nat
  /\ Asked \subseteq Scopes
  /\ Limits \subseteq Nat \cup {NoLimit}
  /\ NoLimit \notin Int
  /\ NoDoc \notin Docs
  /\ NoJob \notin Jobs
  /\ NoAdd \notin Md5s /\ Checked \notin Md5s /\ NoAdd # Checked
  /\ Edited \subseteq DriveFiles
  /\ Unhashed \subseteq DriveFiles
  /\ Picked \subseteq DriveFiles
  /\ CliAdded \subseteq Picked
  /\ Flaky \subseteq RaisingStages

TypeOK ==
  /\ books \in [Ids -> Row \cup {NoRow}]
  /\ nextId \in 1 .. MaxBooks + 1
  /\ chunks \in [Ids -> Docs \cup {NoDoc}]
  /\ pc \in [Workers -> Stages]
  /\ run \in [Workers -> Runs]
  /\ job \in [Workers -> Jobs \cup {NoJob}]
  /\ doc \in [Workers -> Docs \cup {NoDoc}]
  /\ drive \in [DriveFiles -> Docs]
  /\ mirror \in [DriveFiles -> Md5s]
  /\ adding \in [DriveFiles -> Md5s \cup {NoAdd, Checked}]
-----------------------------------------------------------------------------
Exists(i) == books[i] # NoRow

IdsOf(s) == {i \in Ids : Exists(i) /\ books[i].source_id = s}

Idle(w) == pc[w] \in {"off", "run"}

Holds(w, i) == ~Idle(w) /\ job[w].id = i

(* An UPDATE ... WHERE id = i: it hits nothing once the row is gone.       *)
SetStatus(i, status) ==
  books' = [j \in Ids |-> IF j = i /\ Exists(j)
                            THEN [books[j] EXCEPT !.status = status]
                            ELSE books[j]]

RefreshLease(i) ==
  books' = [j \in Ids |-> IF j = i /\ Exists(j)
                            THEN [books[j] EXCEPT !.claim = "fresh"]
                            ELSE books[j]]

DropChunks(i) == chunks' = [chunks EXCEPT ![i] = NoDoc]

Insert(s, m) ==
  /\ IdsOf(s) = {}
  /\ nextId <= MaxBooks
  /\ books' = [books EXCEPT ![nextId] = NewRow(s, m)]
  /\ nextId' = nextId + 1

UpsertBook(s, m) ==
  \/ Insert(s, m)
  \/ \E i \in IdsOf(s) :
       /\ books' = [books EXCEPT ![i] = Upserted(@, m)]
       /\ UNCHANGED nextId

(* The md5 a listing of file f can give.                                   *)
Listed(f) == {drive[f]} \cup (IF f \in Unhashed THEN {NoMd5} ELSE {})

NoRun == [scope |-> AnySource, budget |-> 0]

Init ==
  /\ books = [i \in Ids |-> NoRow]
  /\ nextId = 1
  /\ chunks = [i \in Ids |-> NoDoc]
  /\ pc = [w \in Workers |-> "off"]
  /\ run = [w \in Workers |-> NoRun]
  /\ job = [w \in Workers |-> NoJob]
  /\ doc = [w \in Workers |-> NoDoc]
  /\ drive \in [DriveFiles -> Docs]
  /\ mirror \in [DriveFiles -> Md5s]
  /\ \A f \in DriveFiles : mirror[f] \in Listed(f)
  /\ adding = [f \in DriveFiles |-> NoAdd]
-----------------------------------------------------------------------------
(* Producers and the purge.                                                *)

RegisterUpload(u) ==
  /\ UpsertBook(u, u)
  /\ UNCHANGED <<chunks, workers, outside>>

(* queue_drive_folder and queue_drive_files: mirror metadata, and a row    *)
(* that is already there is left alone.                                    *)
QueueFromMirror(f) ==
  /\ Insert(f, mirror[f])
  /\ UNCHANGED <<chunks, workers, outside>>

(* POST /api/library/drive reads the held ids once, then fetches each      *)
(* file's metadata from Drive and upserts it; explore --add does not look  *)
(* at what is held.                                                        *)
AddCheck(f) ==
  /\ f \in Picked
  /\ adding[f] = NoAdd
  /\ IdsOf(f) = {} \/ f \in CliAdded
  /\ adding' = [adding EXCEPT ![f] = Checked]
  /\ UNCHANGED <<tables, workers, drive, mirror>>

AddFetch(f) ==
  /\ adding[f] = Checked
  /\ \E m \in Listed(f) : adding' = [adding EXCEPT ![f] = m]
  /\ UNCHANGED <<tables, workers, drive, mirror>>

AddUpsert(f) ==
  /\ adding[f] \in Md5s
  /\ UpsertBook(f, adding[f])
  /\ adding' = [adding EXCEPT ![f] = NoAdd]
  /\ UNCHANGED <<chunks, workers, drive, mirror>>

(* Drive refuses, an earlier id of the request is not a PDF, or the        *)
(* request dies: what is left of the list is never upserted.               *)
AddAbort(f) ==
  /\ adding[f] # NoAdd
  /\ adding' = [adding EXCEPT ![f] = NoAdd]
  /\ UNCHANGED <<tables, workers, drive, mirror>>

(* Mutation: the foreign key does not cascade.                             *)
PurgeLeavingChunks(i) ==
  /\ Exists(i)
  /\ books' = [books EXCEPT ![i] = NoRow]
  /\ UNCHANGED <<nextId, chunks, workers, outside>>

(* The row goes first and its chunks cascade.                              *)
Purge(i) ==
  /\ Exists(i)
  /\ books' = [books EXCEPT ![i] = NoRow]
  /\ DropChunks(i)
  /\ UNCHANGED <<nextId, workers, outside>>

EditFile(f) ==
  /\ f \in Edited
  /\ \E d \in Docs \ {drive[f]} : drive' = [drive EXCEPT ![f] = d]
  /\ UNCHANGED <<tables, workers, mirror, adding>>

SyncMirror(f) ==
  /\ \E m \in Listed(f) : mirror' = [mirror EXCEPT ![f] = m]
  /\ UNCHANGED <<tables, workers, drive, adding>>

(* CLAIM_STALE_MINUTES pass since the last touch.  A live worker touches   *)
(* its claim after every stage, so under a live worker they can pass only  *)
(* for a book with a stage longer than that.                               *)
LeaseLapses(i) ==
  /\ Exists(i)
  /\ books[i].claim = "fresh"
  /\ books[i].source_id \in Slow \/ \A w \in Workers : ~Holds(w, i)
  /\ books' = [books EXCEPT ![i].claim = "stale"]
  /\ UNCHANGED <<nextId, chunks, workers, outside>>
-----------------------------------------------------------------------------
(* A run: process_queue and its claims.                                    *)

StartRun(w, scope, limit) ==
  /\ pc[w] = "off"
  /\ pc' = [pc EXCEPT ![w] = "run"]
  /\ run' = [run EXCEPT ![w] = [scope |-> scope, budget |-> limit]]
  /\ UNCHANGED <<tables, job, doc, outside>>

(* Rows another session may have locked when w claims: those a live worker *)
(* is writing, and those an upsert's ON CONFLICT takes.  SKIP LOCKED       *)
(* passes over them.                                                       *)
Lockable(w) ==
  {i \in Ids : /\ Exists(i)
               /\ \/ \E v \in Workers \ {w} : Holds(v, i)
                  \/ books[i].source_id \in Uploads \cup Picked}

Candidates(w, locked) ==
  {i \in Ids \ locked : Exists(i) /\ Claimable(books[i], run[w].scope)}

NextInLine(w, locked) ==
  {i \in Candidates(w, locked) :
     \A j \in Candidates(w, locked) :
        Rank[books[j].status] <= Rank[books[i].status]}

ClaimingPastLimit(w, i) ==    \* mutation: the limit is not looked at
  /\ pc[w] = "run"
  /\ \E locked \in SUBSET Lockable(w) : i \in NextInLine(w, locked)

Claiming(w, i) ==
  /\ pc[w] = "run"
  /\ run[w].budget # 0
  /\ \E locked \in SUBSET Lockable(w) : i \in NextInLine(w, locked)

HandOut(w, i) ==
  /\ Claiming(w, i)
  /\ books[i].attempts < MaxAttempts
  /\ books' = [books EXCEPT ![i] = HandedOut(@)]
  /\ job' = [job EXCEPT ![w] = [id |-> i, source_id |-> books[i].source_id,
                                md5 |-> books[i].md5]]
  /\ pc' = [pc EXCEPT ![w] = "wipe"]
  /\ UNCHANGED <<nextId, chunks, run, doc, outside>>

GiveUp(w, i) ==
  /\ Claiming(w, i)
  /\ books[i].attempts >= MaxAttempts
  /\ books' = [books EXCEPT ![i] = GivenUp(@)]
  /\ UNCHANGED <<nextId, chunks, workers, outside>>

LeaveRun(w) ==
  /\ pc' = [pc EXCEPT ![w] = "off"]
  /\ run' = [run EXCEPT ![w] = NoRun]
  /\ job' = [job EXCEPT ![w] = NoJob]
  /\ doc' = [doc EXCEPT ![w] = NoDoc]

(* The loop ends when the limit is reached or the claim returns None.      *)
StopRun(w) ==
  /\ pc[w] = "run"
  /\ \/ run[w].budget = 0
     \/ \E locked \in SUBSET Lockable(w) : Candidates(w, locked) = {}
  /\ LeaveRun(w)
  /\ UNCHANGED <<tables, outside>>

(* processed += 1, and back to the claim.                                  *)
NextBook(w) ==
  /\ pc' = [pc EXCEPT ![w] = "run"]
  /\ run' = [run EXCEPT ![w].budget = IF @ = NoLimit THEN @ ELSE @ - 1]
  /\ job' = [job EXCEPT ![w] = NoJob]
  /\ doc' = [doc EXCEPT ![w] = NoDoc]
-----------------------------------------------------------------------------
(* One book: process_book and chunk_embed_and_finish.                      *)

Step(w, from, to) ==
  /\ pc[w] = from
  /\ pc' = [pc EXCEPT ![w] = to]

Wipe(w) ==
  /\ Step(w, "wipe", "download")
  /\ DropChunks(job[w].id)
  /\ UNCHANGED <<books, nextId, run, job, doc, outside>>

(* The bytes at the source now: Drive's, or the upload's own.              *)
Bytes(s) == IF s \in Uploads THEN s ELSE drive[s]

VerifiedBlindly(w, d) == TRUE  \* mutation: no checksum after the download
Verified(w, d) == job[w].md5 \in {NoMd5, d}

Download(w) ==
  /\ Step(w, "download", "mark")
  /\ Verified(w, Bytes(job[w].source_id))
  /\ doc' = [doc EXCEPT ![w] = Bytes(job[w].source_id)]
  /\ UNCHANGED <<tables, run, job, outside>>

DownloadMismatch(w) ==
  /\ Step(w, "download", "raised")
  /\ ~Verified(w, Bytes(job[w].source_id))
  /\ UNCHANGED <<tables, run, job, doc, outside>>

MarkDownloaded(w) ==
  /\ Step(w, "mark", "touch_downloaded")
  /\ SetStatus(job[w].id, "downloaded")
  /\ UNCHANGED <<nextId, chunks, run, job, doc, outside>>

AfterTouch == [touch_downloaded |-> "extract", touch_extracted |-> "chunk",
               touch_chunked |-> "finish"]

Touch(w) ==
  /\ pc[w] \in DOMAIN AfterTouch
  /\ pc' = [pc EXCEPT ![w] = AfterTouch[@]]
  /\ RefreshLease(job[w].id)
  /\ UNCHANGED <<nextId, chunks, run, job, doc, outside>>

CanRead(w) == doc[w] \notin Scans \/ w \in OcrWorkers

Extract(w) ==
  /\ Step(w, "extract", "touch_extracted")
  /\ CanRead(w)
  /\ SetStatus(job[w].id, "extracted")
  /\ UNCHANGED <<nextId, chunks, run, job, doc, outside>>

NeedsOcr(w) ==
  /\ pc[w] = "extract"
  /\ ~CanRead(w)
  /\ SetStatus(job[w].id, "needs_ocr")
  /\ NextBook(w)
  /\ UNCHANGED <<nextId, chunks, outside>>

Chunk(w) ==
  /\ Step(w, "chunk", "touch_chunked")
  /\ doc[w] \notin Blank
  /\ SetStatus(job[w].id, "chunked")
  /\ UNCHANGED <<nextId, chunks, run, job, doc, outside>>

(* No chunks: drop what an earlier run indexed, then fail the book.        *)
ChunkNothing(w) ==
  /\ Step(w, "chunk", "fail_blank")
  /\ doc[w] \in Blank
  /\ DropChunks(job[w].id)
  /\ UNCHANGED <<books, nextId, run, job, doc, outside>>

FailBlank(w) ==
  /\ Step(w, "fail_blank", "wrapup")
  /\ SetStatus(job[w].id, "failed")
  /\ UNCHANGED <<nextId, chunks, run, job, doc, outside>>

(* Mutations: chunks committed without the status, and without the foreign *)
(* key.                                                                    *)
LandChunksOnly(w) ==
  /\ Exists(job[w].id)
  /\ chunks' = [chunks EXCEPT ![job[w].id] = doc[w]]
  /\ UNCHANGED books
LandChunksAnyway(w) ==
  /\ chunks' = [chunks EXCEPT ![job[w].id] = doc[w]]
  /\ SetStatus(job[w].id, "done")

(* insert_chunks_and_finish: chunks and status in one commit.              *)
LandChunks(w) ==
  /\ Exists(job[w].id)
  /\ chunks' = [chunks EXCEPT ![job[w].id] = doc[w]]
  /\ SetStatus(job[w].id, "done")

Finish(w) ==
  /\ Step(w, "finish", "wrapup")
  /\ LandChunks(w)
  /\ UNCHANGED <<nextId, run, job, doc, outside>>

(* The foreign key refuses chunks of a purged book, and the failed INSERT  *)
(* leaves the connection inside an aborted transaction.                    *)
FinishOrphan(w) ==
  /\ Step(w, "finish", "poisoned")
  /\ ~Exists(job[w].id)
  /\ UNCHANGED <<tables, run, job, doc, outside>>

(* Two such transactions of one book overlap: the one that commits last    *)
(* hits UNIQUE (book_id, ordinal) and aborts.                              *)
FinishClash(w, v) ==
  /\ w # v
  /\ pc[w] = "finish" /\ pc[v] = "finish"
  /\ job[w].id = job[v].id
  /\ LandChunks(v)
  /\ pc' = [pc EXCEPT ![v] = "wrapup", ![w] = "poisoned"]
  /\ UNCHANGED <<nextId, run, job, doc, outside>>

(* update_manifest and sync_outputs.                                       *)
Wrapup(w) ==
  /\ pc[w] = "wrapup"
  /\ NextBook(w)
  /\ UNCHANGED <<tables, outside>>

Raise(w) ==
  /\ pc[w] \in Flaky
  /\ pc' = [pc EXCEPT ![w] = "raised"]
  /\ UNCHANGED <<tables, run, job, doc, outside>>

(* except Exception: set_status(failed) on the run's own connection.       *)
FailBook(w) ==
  /\ pc[w] = "raised"
  /\ SetStatus(job[w].id, "failed")
  /\ NextBook(w)
  /\ UNCHANGED <<nextId, chunks, outside>>

(* In an aborted transaction that set_status raises too, out of the loop.  *)
RunDies(w) ==
  /\ pc[w] = "poisoned"
  /\ LeaveRun(w)
  /\ UNCHANGED <<tables, outside>>

Crash(w) ==
  /\ w \in Crashable
  /\ pc[w] # "off"
  /\ LeaveRun(w)
  /\ UNCHANGED <<tables, outside>>
-----------------------------------------------------------------------------
ProcessBook(w) ==
  \/ Wipe(w) \/ Download(w) \/ DownloadMismatch(w) \/ MarkDownloaded(w)
  \/ Touch(w) \/ Extract(w) \/ NeedsOcr(w)
  \/ Chunk(w) \/ ChunkNothing(w) \/ FailBlank(w)
  \/ Finish(w) \/ FinishOrphan(w) \/ (\E v \in Workers : FinishClash(w, v))
  \/ Wrapup(w) \/ FailBook(w) \/ RunDies(w)

ClaimBook(w) == \E i \in Ids : HandOut(w, i) \/ GiveUp(w, i)

StartAnyRun(w) ==
  \E scope \in Asked, limit \in Limits : StartRun(w, scope, limit)

Produce ==
  \/ \E u \in Uploads : RegisterUpload(u)
  \/ \E f \in DriveFiles : \/ QueueFromMirror(f)
                           \/ AddCheck(f) \/ AddFetch(f)
                           \/ AddUpsert(f) \/ AddAbort(f)

World ==
  \/ \E f \in DriveFiles : EditFile(f) \/ SyncMirror(f)
  \/ \E i \in Ids : Purge(i) \/ LeaseLapses(i)

Next ==
  \/ Produce
  \/ World
  \/ \E w \in Workers :
       \/ StartAnyRun(w) \/ ClaimBook(w) \/ StopRun(w)
       \/ ProcessBook(w) \/ Raise(w) \/ Crash(w)

Spec == Init /\ [][Next]_vars

(* A run covering every source keeps being started (the next upload, the   *)
(* next "index" click, the CLI), a run that keeps seeing work claims some, *)
(* a worker that is not killed keeps going, and time passes.               *)
FairSpec ==
  /\ Spec
  /\ SF_vars(\E w \in Workers : StartRun(w, AnySource, NoLimit))
  /\ SF_vars(\E w \in Workers : ClaimBook(w))
  /\ \A w \in Workers : WF_vars(StopRun(w)) /\ WF_vars(ProcessBook(w))
  /\ \A i \in Ids : WF_vars(LeaseLapses(i))
-----------------------------------------------------------------------------
(* Properties.                                                             *)

(* Files whose row can be given another md5 after it was inserted.         *)
Resettable == Picked \cap (Edited \cup Unhashed)

(* A steady book: every stage fits its lease and no reset can reach it.    *)
Steady(i) == Exists(i) /\ books[i].source_id \notin Slow \cup Resettable

(* The lease is a lock while stages fit it: no two live workers ever       *)
(* process the same steady book (db.touch_claim's docstring).              *)
ExclusiveHolder ==
  \A i \in Ids : Steady(i) =>
    \A w, v \in Workers : Holds(w, i) /\ Holds(v, i) => w = v

(* Search, which has no status filter, answers from exactly the steady     *)
(* books the library lists as done, whatever was killed or failed on the   *)
(* way (db.py's "never left half-indexed"), as long as the manifest update *)
(* and output sync after the commit do not raise.                          *)
SearchMatchesShelf ==
  "wrapup" \notin Flaky =>
    \A i \in Ids : Steady(i) =>
      (books[i].status = "done" <=> chunks[i] # NoDoc)

(* Chunks are never cut from bytes other than those the row's md5 names,   *)
(* even when two workers race for a slow book or Drive changed the file    *)
(* after the mirror was synced: the checksum in process_book is enough     *)
(* as long as the row's md5 itself is not rewritten.                       *)
IndexedBytesVerified ==
  \A i \in Ids :
    (Exists(i) /\ books[i].source_id \notin Resettable) =>
      chunks[i] = NoDoc \/ books[i].md5 \in {NoMd5, chunks[i]}

(* A purged book never answers again: no late worker brings back chunks    *)
(* under its id (db.delete_book's docstring).                              *)
PurgeIsFinal ==
  \A i \in Ids : i < nextId /\ ~Exists(i) => chunks[i] = NoDoc

(* A steady book that used up its attempts stays failed: no worker still   *)
(* has it in hand to move it on (db.claim_next_book).                      *)
ExhaustedStaysFailed ==
  \A i \in Ids :
    Steady(i) /\ books[i].attempts > MaxAttempts =>
      books[i].status = "failed" /\ \A w \in Workers : ~Holds(w, i)

(* A steady book that is done, failed or needs OCR only leaves that status *)
(* by being purged: no worker that lost it moves it back.                  *)
TerminalIsFinal ==
  [][\A i \in Ids :
       /\ Steady(i)
       /\ books[i].status \in Terminal
       /\ "wrapup" \notin Flaky
       => books'[i] = NoRow \/ books'[i].status = books[i].status]_vars

(* Every queued book is eventually indexed, rejected or purged, through    *)
(* crashes, stolen leases and aborted runs (jobs.py: the claim keeps it    *)
(* safe, and it finishes when something drains again).                     *)
QueueDrains ==
  \A i \in Ids :
    Exists(i) /\ books[i].status \in Waiting
      ~> ~Exists(i) \/ books[i].status \in Terminal
-----------------------------------------------------------------------------
(* What the repository says of the queue and the code does not keep.       *)

(* db.py: a worker killed mid-book always leaves "a clean, resumable       *)
(* state" and "a book is never left half-indexed".  Here: a done book that *)
(* nobody works on any more has its chunks.                                *)
NeverHalfIndexed ==
  \A i \in Ids :
    /\ Exists(i)
    /\ books[i].status = "done"
    /\ \A w \in Workers : ~Holds(w, i)
    => chunks[i] # NoDoc

(* ingest.py on the no-chunks return: without the drop "the library        *)
(* answers questions from a book it simultaneously reports as broken".     *)
FailedNeverAnswers ==
  \A i \in Ids :
    Exists(i) /\ books[i].status \in {"failed", "needs_ocr"} => chunks[i] = NoDoc

(* db.upsert_book: a changed md5 sends the book back to the queue, because *)
(* leaving it 'done' "quietly guaranteed the index disagreed with Drive".  *)
DoneMatchesMd5 ==
  \A i \in Ids :
    Exists(i) /\ books[i].status = "done" =>
      books[i].md5 \in {NoMd5, chunks[i]}

(* ingest.py, except Exception: "one bad book must not stop the run".      *)
RunOutlivesBook ==
  [][\A w \in Workers : ~Idle(w) => pc'[w] # "off"]_vars
=============================================================================
