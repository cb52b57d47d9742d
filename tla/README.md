# Formal model of library-rag

library-rag takes PDFs from Google Drive and from uploads, turns them into
markdown, chunks and embeddings in Postgres, and answers questions over them.
This directory holds TLA+ modules of its core, TLC configurations that check
them on small instances, and proofs checked by TLAPS for every instance. Paths
below are relative to the repository; `db.py` and so on live in
`src/library_rag/`.

## 1. Inventory

| Component | State | Operations | What makes it correct |
|---|---|---|---|
| Work queue (`db.py`, migrations 0001, 0002) | `books` rows: source_id, md5, status, claimed_at, attempts; `chunks` by book | upsert, claim (with reaper and give-up), touch, status marks, wipe, insert-and-finish, delete, bulk queueing, rechunk reset | one holder per book; chunks exist exactly for done books; attempts are bounded; a purge is final |
| Ingest worker (`ingest.py`, `cli/ingest.py`) | the run's limit and source, the claimed row as it was, the bytes in hand, working files | process_queue, process_book, chunk_embed_and_finish, run_rechunk | restartable after a crash at any commit; one bad book does not stop the run; the bytes indexed are the bytes named |
| Producers (`web/api.py`, `cli/explore.py`) | the held ids read at the start of a request | upload, add by id, index folder, index results, delete | re-adding is harmless; new bytes re-enter the queue |
| Job dispatch (`jobs.py`, `scripts/deploy_ingest_job.sh`) | none of its own | start the Job, or drain in-process | every queued book is drained by somebody |
| Files and bucket (`storage.py`, `pipeline/extract.py`) | working PDF, markdown, manifest, originals, bucket objects | put, get, delete, write_outputs, update_manifest, sync_outputs | never the last copy dropped; no orphans after a purge |
| Drive mirror (`drive/mirror.py`) | `drive_files` rows, paths, sizes, vectors; a running flag | sync, prune, materialise, embed_titles | an undisturbed sync repairs whatever was there; a vector goes with the name it was computed under; the flag is never left up |
| Research runs (`web/api.py`, `retrieval/`) | registry of runs and their events | start, append, prune, stream from an index, leave, return | every page hears every event once, in order; a run in flight stays reachable; runs end and turns settle |
| Browsing agent (`exploration/`) | conversation, candidate shelf, folder cache | loop, tools, cache | a card is flagged exactly when no tool returned its file; the shortlist shown last is the one kept; runs end |
| Drive credentials (`drive/client.py`, `drive/store.py`) | token in a row or a file; pending sign-ins | load, save, refresh, consent, start, callback | a name is shown beside the credential its owner consented to; a code is redeemed once |
| Sign-in (`web/auth.py`, `cli/users.py`) | session, allow list | verify, admit, revoke | whoever leaves the list is out when the session's age is over (`cli/users.py:43-47`) |
| Chunking (`pipeline/chunking.py`) | none | chunk_markdown, merging | every word once and in order; pages and headings are those of the words |
| Search (`db.py`) | none | dense, lexical, fused ranking | no better-ranked row is passed over; as many rows as asked for, or all there are. It has no status filter: it answers from whatever is in `chunks` |
| Bible text, migrations, evaluation, reports, pages | one table, applied versions, none | load, run, score, render | idempotent loading; each migration once |

**How they interact.** Producers insert rows and start a run; a run is one
`process_queue` call, made by the Cloud Run Job, the daily sweep, the CLI or a
background thread of the API. Workers share nothing but the `books` and
`chunks` tables: a claim is a timestamp in the row, not a lock, and every
function of `db.py` commits on its own. Search reads `chunks` without looking
at `books.status`. The mirror feeds producers with metadata that may be stale.
Machines share the bucket and nothing else: each worker, the API and each laptop
has working files of its own. The purge and `--rechunk` write the tables and the
files without claiming anything. A research run is detached from its request and
tells its events to a record in the server's memory; the page tails the record.

**What is hard.** Two workers whose commits interleave; a worker killed between
two commits; a lease that lapses under a live worker; a file whose bytes change
between listing, claim and download; a purge or a reset of a row somebody is
processing; a failure after the commit that mattered; a run that ends early. A
bucket call that fails between two that do not, where an outage and an absent
object give the same answer. Two syncs that got past the same flag, or died
between two of their commits. A refresh of an old credential that lands after a
reconnect. A page that leaves and returns while its run goes on, is pruned, or
loses its server.
`PROJECT.json` lists each hazard at its line.

## 2. Modules

| Module | Models | Extends |
|---|---|---|
| `BookRow` | one row of `books`, and what each statement that writes it does to it: the claim's WHERE clause and order, the attempt counter, the upsert's CASEs | - |
| `IngestQueue` | the tables, the producers, the purge, Drive and its mirror's md5 column, and the workers, one action per commit or outside read | `BookRow` |
| `Shelf` | the abstract specification: a book is queued, then indexed in one step or rejected, and may be removed for good; search answers from the indexed books only | - |
| `ShelfRefinement` | the mapping from the queue to the shelf | `IngestQueue` |
| `MCIngestQueue` | the instances TLC runs | `ShelfRefinement` |
| `IngestQueueProofs` | the inductive invariant and the theorems | `IngestQueue` |
| `ShelfProofs` | the refinement theorem | `ShelfRefinement`, `IngestQueueProofs` |
| `Artefacts` | the queue composed with each machine's files and the bucket: what every stage writes, keeps and drops; the upload and the purge in their steps; `--rechunk`; the viewer | `IngestQueue` |
| `ArtefactsProofs` | the inductive invariant of files, purges and rechunks; what the copies of a text and the originals are made from, and that the last copy of a text stays | `Artefacts`, `IngestQueueProofs` |
| `SignIn` | the allow list, the sign-in in two steps, cookies and their age, the gate | - |
| `DriveAuth` | the Drive token in a row and in files, refreshes, consents, the reconnect flow behind the gate | `SignIn` |
| `DriveAuthProofs` | the inductive invariants of both and their theorems | `DriveAuth` |
| `MirrorSync` | syncs of Drive's metadata, stage by stage and commit by commit, against a Drive that is edited | - |
| `MirrorSyncProofs` | the running flag and the locks of overlapping syncs; the tree, paths, sizes and vectors a sync leaves | `MirrorSync`, `DataInduction` |
| `Feed` | the abstract specification of asking an agent: a run tells its events and closes; the asker hears them in order, none twice and none left out | - |
| `AgentRuns` | both agents' loops, the registry of runs, the threads that serve requests, the chat page's turns; implements `Feed` (`PageIsFed`) | - |
| `AgentRunsProofs` | the inductive invariant of both agents and their pages, and the refinement of `Feed` | `AgentRuns`, `DataInduction` |
| `DataInduction` | induction over numbers and recursion over sequences, stated without operator parameters | - |
| `Chunking` | `chunk_markdown`: junk sections, merging, splitting, the walk that counts pages | - |
| `RankFusion` | the fused search over chunks and over titles | - |
| `Texts` | computes both once from every input of a bounded set | `Chunking`, `RankFusion` |
| `TextsProofs` | that the ranking and the chunks keep what `Texts` promises, for every document and query | `Texts`, `DataInduction` |
| `MCArtefacts`, `MCDriveAuth`, `MCMirrorSync`, `MCAgentRuns`, `MCTexts` | the instances of these that TLC runs | |

### State and actions against the code

`books[i]` is the row with id `i`, or `NoRow`; `nextId` is the BIGSERIAL, so an
id that was purged is not issued again. `chunks[i]` is the document the rows of
`chunks` with that book_id were cut from. `pc[w]` is the stage worker `w` is
about to run; `job[w]` is the row as the claim returned it, which the worker
never re-reads; `doc[w]` is what it downloaded; `run[w]` is the limit and
source of its `process_queue` call.

| Actions | Code |
|---|---|
| `HandOut`, `GiveUp` | the two outcomes of `db.claim_next_book`; SKIP LOCKED is `Lockable`/`NextInLine`: rows another session may be writing can be passed over |
| `Wipe`, `Download`, `DownloadMismatch`, `MarkDownloaded`, `Touch`, `Extract`, `NeedsOcr` | `process_book` up to the markdown |
| `Chunk`, `ChunkNothing`, `FailBlank`, `Finish` | `chunk_embed_and_finish` |
| `FinishOrphan`, `FinishClash` | the foreign key and the unique constraint refusing the chunks; the connection is left inside an aborted transaction |
| `Wrapup` | `update_manifest` and `sync_outputs`, after the commit |
| `Raise`, `FailBook`, `RunDies` | the `except` of `process_queue`: its UPDATE, or that UPDATE raising in turn |
| `RegisterUpload`, `QueueFromMirror`, `AddCheck`/`AddFetch`/`AddUpsert`/`AddAbort` | upload; the two bulk routes; the hand-picked route and `explore --add`, whose Drive call sits between the check and the upsert |
| `Purge`, `EditFile`, `SyncMirror`, `LeaseLapses`, `Crash` | delete; the file's owner; the mirror; time; a killed process |

**Artefacts.** `pdfs[h][i]`, `markdown[h][i]`, `manifest[h][i]` and `uploaded[h]`
are the data directory of host `h`; `bucket` is the Supabase bucket, originals by
md5 and texts by id. `mirrored[w]` is what `put_original` returned,
`registering[u]` and `purging[i]` are calls under way, `rechunk[w]` is a
`run_rechunk` and the rows it fetched. Every action that touches the tables is an
action of `IngestQueue` with its file effects added.

| Actions | Code |
|---|---|
| `RegisterCopy`, `RegisterRow`, `RegisterDies` | `register_upload`: copy unless a file of the name is there, then upsert |
| `PurgeRow`, `PurgeFiles`, `PurgeCheck`, `PurgeObjects`, `PurgeDies` | `purge_book`: the row, this machine's files, whether the md5 is still named, the objects |
| `WipeFiles`, `DownloadPdf`, `DownloadMissing`, `MirrorOriginal`, `ExtractFiles`, `NeedsOcrFiles`, `IndexBook` | the stages of `process_book`, with `downloader_for`, `put_original`, `write_outputs` and the working PDF's removal |
| `WrapupFiles` | `update_manifest`, then `sync_outputs`, file by file |
| `StartRechunk`, `ResetDone`, `FetchRechunkable`, `RechunkBook`, `RechunkSkips`, `EndRechunk` | `run_rechunk`, with `load_markdown` preferring the local copy |
| `OpenPdf` | `GET /api/books/{id}/pdf` when it has to fetch from Drive |
| `Claims`, `Handled`, `Killed`, `Elsewhere` | the rest of the queue's actions |

**SignIn and DriveAuth.** `issued[u]` is the time of issue of the user's newest
cookie; `checking` are users between `is_allowed` and the cookie. `row` and
`file[h]` are the two homes of the token, known by its grant and whether its
access token is fresh; `client[p]` is a request or command and how far it is;
`flows` is `_auth_flows`.

| Actions | Code |
|---|---|
| `AddUser`, `RemoveUser`, `AuthCheck`, `SignInUser`, `RestartSessions` | `cli/users.py`; `POST /api/auth/google` around its read of the list; a new process |
| `UseStale`, `UseNone`, `Refreshed`, `Granted`, `Refused` | `_load_credentials`, `credentials_status`, `build_service`; what Google answers |
| `SaveToRow`, `SaveToFile` | `save_token`, in the home it finds |
| `DriveAuthStart`, `DriveAuthCallback` | `/api/drive/auth/start` and `/callback` |
| `Restart`, `Expire`, `Revoke`, `Tick` | the server, Google, time |

**MirrorSync.** `drive` is what Drive holds, `mirror` the table `drive_files`,
`locked` the sync whose transaction holds row locks, `running` the flag of
`_sync_state`, `sync[s]` a sync's stage and what it holds in memory.

| Actions | Code |
|---|---|
| `DriveSyncStart`, `TestFlag`, `SetFlag` | `POST /api/drive/sync` and `_run_sync`, with the flag tested twice and set later |
| `StartCommand` | `cli/drive_sync.py`, which knows no flag |
| `ListFolders`, `UpsertFolders`, `CommitRows` | `mirror.sync`, two listings and one commit |
| `MaterialisePaths`, `PruneOutsideRoot`, `MaterialiseSizes` | the functions of the same names, a commit each |
| `SelectTitles`, `StoreVectors`, `NoText` | a round of `embed_titles`, and the call that raises on a title without text |
| `EndSync`, `FailSync`, `KillServer` | the end of the loop; an exception and `finally`; a killed process |
| `EditDrive` | somebody renames, moves or removes an item |

**AgentRuns.** `run[a]` is the loop with its round, search count, numbered
sources (`Session`), remembered files and shortlist; `told[a]` the events it
yielded, which for a research run are the record's list; `registry` the keys of
`_research_runs`; `post[a]` the thread inside `POST /api/research`; `turn[a]` the
turn as the page keeps it, with the stream it reads.

| Actions | Code |
|---|---|
| `Loop` (`Answer`, `Fail`, `SearchLibrary`, `ListBooks`; `LookAtDrive`, `Recommend`, `ToolRaises`) | one round of `retrieval/loop.py` or `exploration/loop.py` |
| `Close` | the `finally` of `_run_research`, or the end of the browse response |
| `PruneLook`, `PruneDrop`, `Register` | `POST /api/research`: look for a stale run, drop it, insert its own |
| `AskResearch`, `AskBrowse`, `GiveUpWaiting`, `Attach`, `Hear`, `EndStream`, `DropConnection`, `Leave`, `Return`, `NewChat` | the chat page and `GET /api/research/{id}/stream` with `after` |
| `Restart` | everything the server keeps of runs is in memory |

**Chunking, RankFusion.** Operators named for the functions: `IsJunk`,
`MergeSmallSections`, `Pieces`, `WalkStep`, `ChunkMarkdown`; `DensePool`,
`LexicalPool`, `Score`, `Search`. `Merging` and `Walking` are the two loops, as
functions of how many sections or pieces they have handled; `Place` is a row's
place in `ORDER BY ... LIMIT`, one more than the rows before it.

### What is abstracted

* A document stands for bytes and md5 alike: equal md5 means equal bytes.
* Title, size, page count, error text and timestamps steer nothing in the
  queue. A lease is `none`, `fresh` or `stale`; `LeaseLapses` is five minutes
  passing. Under a live worker it can happen only for books in `Slow`, those
  with a stage longer than the lease: `config.py:97-101` states that bound.
* The extraction is merged with the commit after it, and the embedding with the
  insert after it: neither reads shared state in between. Each stage can raise
  (`Flaky`) before its commit.
* In `IngestQueue` there are no files; `Artefacts` adds them. There, two workers
  on one host share its files, as in the code.
* Of a manifest the model keeps that it is there: its fields feed a report.
* Markdown is known by the document it was cut from, so a rechunk that loads it gives
  chunks of that document.
* The retries of a bucket call are part of the call: it succeeds or it fails.
* A database outage ends the run: it is `Crash`.
* Every Drive file stays listed, and a sync refreshes one file's md5 at a time,
  which allows more orders than the one commit of `mirror.sync`. A file that is
  gone from Drive is a download that raises.
* At most one hand-picked addition per file is outstanding at a time.
* Rows keyed `local:` from before migration 0002 are not modelled.
* Only a user's newest cookie matters, because an older one is served in no case
  where the newest is not. A sign-in request is shorter than a tick.
* A token is its grant and whether it is fresh. `load` may find the file or the
  row, because the table may be missing and the database may fail; `save` may
  land in either for the same reason.
* A mirrored title's vector is known by the path it was computed from, a file
  has one byte, and a name is one of two values. A sync writes all its rows at
  its commit; before it, it holds the locks on which other writers of folders
  wait. `build_index` changes no answer.
* A response of the model with several tools counts as several rounds; events
  that only trace the agent go with those that follow them; the answer goes with
  `done`. The model may answer, use any tool its loop has, or fail.
* In `Chunking` a word, a page marker and a heading have length one. The two
  library splitters are external: sections arrive with trails, and pieces are
  windows of `ChunkSize` that overlap by `Overlap`. A ranking is given, best
  first; how it is computed is Postgres's and the embedding's.

## 3. What is checked

`Steady(i)` says that every stage of the book fits its lease (not in `Slow`) and
that no upsert can give its row another md5 (its file is not both hand-picked
and changing or listed without an md5). The exact guarantees hold of steady
books; the runs below check what remains of them for the others.

| Run | Instance | Shows |
|---|---|---|
| `queue_safety` | 2 workers, a Drive file that changes behind the mirror and is a scan in one version, an upload, crashes, failing downloads, 2 ids | `ExclusiveHolder`, `SearchMatchesShelf`, `ExhaustedStaysFailed`, `TerminalIsFinal`, and `QueueIsShelf`: the queue implements the Shelf |
| `queue_late` | 2 workers on a slow Drive file with changing or missing md5, a blank version, purges and re-queueing, runs of limit 1, raising wrap-up | `TypeOK`, `IndexedBytesVerified`, `PurgeIsFinal` even when two live workers process one book |
| `queue_drains` | 2 workers, one killable, one with an OCR client, a slow hand-picked file whose bytes change and are a scan in one version | `QueueDrains`: a waiting book leaves the queue |
| `artefacts` | a worker on a server and a `--rechunk` on a laptop, both killable, an upload, a Drive file that is edited and one that the viewer opens, both with bytes that may be the upload's, one id, failing bucket calls and downloads, purges that stop anywhere | `CopiesVerified`, `OriginalNamesBytes`, `TextKept`, `StoredTextStays` |
| `access` | one user who joins and leaves the list, a request on the server and a command on a laptop, one reconnect flow, two consents, a clock of two ticks | `AccessEnds`, `AttributedTruly`, `RedeemedOnce` |
| `mirror` | two syncs at a time, three in all, over a root, a folder and a file, one edit of Drive | `SyncFaithful`, `VectorNamesFile`, `FlagHonest` |
| `agents` | two agents, one of which roams, browses and searches twice; a registry of one that starts full; one restart | `PageIsFed` (the refinement), `CitationsAgree`, `CardsResolved`, `InFlightReachable`, `AgentsEnd`, `TurnsSettle` |
| `text` | every document of at most three sections over five trails and five bodies; every pair of rankings of four rows, pools of three | `NothingLost`, `PagesHold`, `TrailsTrue`, `FusionFair`, `PoolsFill` |

Each run also checks the type invariant of its module (`TypeOK`, `FilesOK`,
`DriveAuthOK`, `MirrorOK`, `AgentsOK`); the queue's is checked by `queue_late`.

**Conditions.** Some properties hold only under a condition, which the property
names. The condition is where the code stops keeping the promise:

* `CopiesVerified` speaks of rows that have an md5 and cannot be given another;
  a reset leaves the old text where it is, as `finding_lost_reset` shows for the
  index.
* `OriginalNamesBytes` supposes that no file the viewer fetches changes in
  Drive: `api.py:387` stores what it gets under the row's md5 without hashing it.
* `TextKept` speaks of steady books nobody holds, with no `--rechunk` on a
  worker's machine: there a worker that claims a book after the rechunk's reset
  wipes the only copy of the text while the rechunk has it in memory, its
  download fails, and the rechunk marks the book done.
* `SyncFaithful` speaks of a sync that had Drive and the table to itself, after
  any history.
* `VectorNamesFile` supposes that no two syncs overlapped and that `--embed` was
  not used after a sync that died between its rows and its paths. It speaks of
  the name and not of the path: a file that moves keeps the vector of its old
  path (see below).

Four runs show where the code departs from what its comments say; each checks
one property and TLC finds a counterexample.

| Run | What the repository says | What happens |
|---|---|---|
| `finding_half_indexed` | a killed worker leaves a clean state, "a book is never left half-indexed" (`db.py:9-13`) | a slow book is stolen, finished by its first worker, wiped by the thief, and the thief dies: done, no chunks, never claimed again |
| `finding_failed_answers` | a failed book must not answer (`ingest.py:190-197`) | the manifest update raises after the commit: failed, with chunks |
| `finding_lost_reset` | a changed md5 re-enters the queue (`db.py:55-60`) | the reset hits a book in a worker's hands; the worker finishes with the old bytes and the row says done under the new md5 |
| `finding_run_stops` | "one bad book must not stop the run" (`ingest.py:366`) | a purge under a worker aborts its transaction, the handler's UPDATE raises, the run ends |

The same states arise in other ways, which the runs do not repeat: a failed book
that answers also comes from a thief failing after the owner finished, and a
lost reset also from a row whose md5 was NULL when a second version arrived.

More places disagree with a comment in a way that needs no interleaving to see,
or that a module models without a run of its own. They are listed with their
quotes under `findings` in `PROJECT.json`:

* a refresh overwrites the name of whoever connected Drive
  (`drive/client.py:67`), and a save that falls back to the file is not what the
  next load reads (`drive/store.py:133`);
* a folder whose size is not yet known counts as empty in the size gate
  (`web/api.py:662`);
* a vector outlives a move or a renamed folder (`drive/mirror.py:81`);
* an outage while `update_manifest` reads the bucket drops the fields that its
  docstring says are kept (`pipeline/extract.py:161`);
* a re-upload between a purge's DELETE and its unlink gets a row whose file goes
  (`ingest.py:84`);
* a turn whose connection dropped stays failed although its answer is on the
  server, and so does one left after `done` was heard (`index.html:311`);
* a database error inside a browsing tool leaves an aborted transaction under
  all later tools (`exploration/loop.py:442`);
* the bound on merged sections does not count the headings put back, and merged
  sections without text become a chunk of bare headings (`chunking.py:206`,
  `chunking.py:138`);
* a search of titles may return fewer than `k` rows (`exploration/tools.py:211`).

**Bounds.** `MaxBooks` is 1 or 2 ids: the properties speak of one book, and a
second id covers claim order, a purge followed by a re-add, and two workers on
different books. `MaxAttempts` is 2 where the code has 3: the least value at
which a second worker can take a book over and the next claim gives it up. Two
workers are enough for an owner and a thief, the only pairs the properties
relate. Two documents give a file an old and a new version. Attempts need no
bound of their own, because the claim that exceeds the limit is terminal and a
reset puts them back to zero. The proofs drop all of these bounds.

* `artefacts` has one worker beside the `--rechunk`: its properties relate the
  copies of one book's text and one md5, and what two workers do to each other is
  the queue runs' question. `MaxAttempts` is 2 and `MaxClaims` 3, so that a book
  is finished, reset by the rechunk, claimed again while the rechunk is at it,
  and given up the next time. There is one id: a purge that races a re-upload, or
  another book with the same bytes, needs a second, with which the composition
  is too large to check; both are listed as hazards without a property.
  `Versions` bounds what a Drive file may hold, and a file is edited only while
  somebody can read it (`Read`).
* `access`: two consents are an old and a new grant, two clients the refresh of
  one and the save of the other, two ticks an in-date and an outdated cookie.
  `MaxAge` and the rest are free in the proofs.
* `mirror`: two syncs at a time are a pair that overlaps, three in all let a
  third find what they left. A root, a folder and a file are the least tree in
  which a file's path changes without the file; an edit renames, moves (also out
  of the library) or removes.
* `agents`: `Keep` is 1 and the registry starts full, so that two requests prune
  the same record. Three rounds and two searches let a passage come up again in
  another rank, and the budget run out. One agent roams; the other is the load
  on the registry.
* `text`: `MinChunk` 3, `ChunkSize` 6, `Overlap` 1 keep the order of the code's
  values (with 2 * MinChunk <= ChunkSize); bodies are blank, small, large and
  larger than a chunk; trails are none, a top heading, two siblings under it and
  a junk sibling. Four rows and pools of three leave a row outside a pool.

**Symmetry** is over workers, in the two queue runs without liveness, where all
workers can be killed and have the same clients, and over the syncs of `mirror`.

**Deadlock** is checked in every run but three: `mirror` comes to rest when no
sync is left to ask for, `agents` when both turns are settled, `text` when its
input is computed.

**Fairness.** `AgentSpec` has weak fairness of a loop's rounds, of the end of a
run, of the thread that serves a request and of a page that reads its stream:
the server's threads run, the model answers or its API raises (the SDK gives up
by itself), and an open page reads. Asking, leaving and returning are not fair.
`FairSpec`, used by `queue_drains`, has:

* strong fairness of starting a run over every source: the daily sweep of
  `scripts/deploy_ingest_job.sh` (and every click that queues something) starts
  one, whenever some worker slot keeps being free;
* strong fairness of claiming: a run that keeps finding claimable rows claims
  one. It is strong because rows come and go from view while others hold them;
* weak fairness of a worker's own steps and of leaving the loop: a live process
  goes on. A crash is never fair and never prevented;
* weak fairness of `LeaseLapses`: time passes.

Additions and resets are not fair, and in `queue_drains` the CLI's re-adding of
a held file is off: an operator who resets a book for ever, with a crash after
each reset, does keep it from finishing.

## 4. What is proved

All theorems hold for any numbers of workers, files, documents, ids, attempts
and limits, of users, clients, machines, flows, grants and syncs, of folders and
edits, of questions, rounds, passages and restarts, and of sections, words,
pages, rows and weights, under the named assumptions on constants
`RowAssumption`, `QueueAssumption`, `SignInAssumption`, `DriveAuthAssumption`,
`ArtefactsAssumption`, `MirrorAssumption`, `AgentAssumption`, `ChunkAssumption`,
`FusionAssumption` and `TextsAssumption`, which TLC evaluates in the runs. What
they assume of an installation: attempts and limits are numbers, names of
different kinds are not confused, the library's root is a folder and there are
finitely many items, what a search returns is a list of passages (in any order,
with repetitions), the registry starts without a record twice, the overlap of
chunks is smaller than a chunk, a ranking has each row once, and the words find
no chunk that has no vector (the insert that makes the row fills it).

| Theorem | Statement |
|---|---|
| `TypeCorrect` | `Spec => []TypeOK` |
| `OneHolder` | `Spec => []ExclusiveHolder` |
| `BytesVerified` | `Spec => []IndexedBytesVerified` |
| `SearchAgrees` | `Spec => []SearchMatchesShelf` |
| `ExhaustedFailed` | `Spec => []ExhaustedStaysFailed` |
| `PurgedForGood` | `Spec => []PurgeIsFinal` |
| `TerminalForGood` | `Spec => TerminalIsFinal` |
| `QueueImplementsShelf` | in a `SteadyInstallation`, `Spec => QueueIsShelf` |
| `CredentialsTyped` | `DriveAuthSpec => []DriveAuthOK` |
| `LeaversAreOut` | `DriveAuthSpec => []AccessEnds` |
| `CodesRedeemedOnce` | `DriveAuthSpec => []RedeemedOnce` |
| `NamesAreTheirs` | `DriveAuthSpec => []AttributedTruly` |
| `FlagNeverSticks` | `MirrorSpec => []FlagHonest` |
| `OneWriter` | `MirrorSpec => []LockOfWriter` |
| `FilesTyped` | `ArtSpec => []FilesOK` |
| `PurgedForGoodByRechunk` | `ArtSpec => []PurgeIsFinal` |
| `StoredForGood` | `ArtSpec => StoredTextStays` |
| `CopiesAreVerified` | `ArtSpec => []CopiesVerified` |
| `OriginalsNamed` | `ArtSpec => []OriginalNamesBytes` |
| `TextIsKept` | `ArtSpec => []TextKept` |
| `MirrorTyped` | `MirrorSpec => []MirrorOK` |
| `SyncIsFaithful` | `MirrorSpec => []SyncFaithful` |
| `VectorsNamed` | `MirrorSpec => []VectorNamesFile` |
| `TypesHold` | `AgentSpec => []AgentsOK` |
| `CitationsHold` | `AgentSpec => []CitationsAgree` |
| `CardsHold` | `AgentSpec => []CardsResolved` |
| `ReachHolds` | `AgentSpec => []InFlightReachable` |
| `PageFed` | `AgentSpec => PageIsFed` |
| `WordsKept` | `TextSpec => []NothingLost` |
| `PagesCited` | `TextSpec => []PagesHold` |
| `TrailsFit` | `TextSpec => []TrailsTrue` |
| `BetterRowsFirst` | `TextSpec => []FusionFair` |
| `PoolsFilled` | `TextSpec => []PoolsFill` |
| `RecursionOverSequence` | a base and a step function over a sequence have a solution |

**The argument for the queue.** None of the properties is inductive by itself.
`QueueInv` strengthens them, and `InductiveInvariant` proves `Spec => []QueueInv` by one
lemma per group of actions:

* `TableOK`, `BusyOK`: rows and held ids lie below `nextId`, source ids are
  unique, and an id that was purged has no chunks; needed because workers go on
  writing by id after the row is gone.
* `ListingOK`, `Md5OK`: what a listing, an addition in progress and a row can
  say about the md5 of a file whose row cannot be reset; this is what makes an
  upsert of such a row change nothing.
* `WorkOK`: past the download, the bytes in hand match the md5 of the row as
  claimed.
* `IndexedBytesVerified`, as it stands.
* `SteadyOK(i)`, for steady books: at most one worker holds the row; while one
  does, the lease is fresh, the attempts are within the limit, and status and
  chunks are those its stage implies; while none does, done and having chunks
  agree. A lease that lapses under nobody, a crash at any stage, and a claim of
  what was left behind all preserve it.

`TerminalForGood` and the refinement are then read off `QueueInv` before and
after a step: each action maps to one Shelf step (`Finish` to `Index`; `GiveUp`,
`NeedsOcr`, `FailBlank` and `FailBook` to `Reject`; inserts to `Queue`; `Purge`
to `Remove`) or leaves both variables of the Shelf alone.

TLC also agreed that `QueueInv` is an invariant of the instances above before it
was proved.

**The argument for the credential.** `SessionInv` says that a cookie was signed
no later than now, that a user off the list had it signed no later than the
removal, and that one who is between the check and the cookie was removed, if at
all, in this tick. `AccessEnds` follows by adding `MaxAge`. `CredentialInv` adds
to the types what the two other properties need of every place a token or a flow
can be in: a flow that a request has taken to Google, or that a grant names, is
no longer kept for a callback (`FlowInv`); and a name that is about to be saved,
or is in the row, is that of the user who gave the grant beside it (`NameInv`).
There is one lemma per action, and `CredentialStep` combines them. Refreshes
that land late carry the name "refresh", so they cannot put a user's name beside
another grant, in any order of saves.

**The argument for the files.** A step of `Artefacts` is a step of the queue with
its files, or one of the few that a missing upload and `--rechunk` add
(`QueueSteps`), so the queue's lemmas are used as they stand for the first kind
and only the second is proved anew. `ArtInv` adds that a purge under way is of a
row that is gone (`PurgeOK`), and that a rechunk works from ids that were issued,
claims nothing and downloads nothing (`RechunkOK`). With the fact that no step
gives a row to an id used before (`OldIds`) this gives `StoredTextStays`: only a
purge drops text from the bucket, and its row is gone by then. `CopyInv` adds
what a worker's hands hold: a claimed row's md5 is known and was compared with
the document; a rechunk has no md5, and its document is right because the copy it
loaded was (`HandsOK`). The two properties need each other: copies are made from
what is in hand, and hands are filled from copies. `CopyStep` shows that a copy
is moved or extracted and never comes from elsewhere; `OnlyIssued`, that a new
row finds no old text under its id. `HashedOK` is the same for originals: what
the mirror, an addition or a row says of a file that is never edited is its md5.

**The argument for the last copy.** `KeepInv` adds two parts to `CopyInv`. By
`LeaseOK`, a steady book that a worker claimed has a fresh lease and no second
claimant; a `--rechunk` may have it as well, because it claims nothing. By
`TextOK`, whoever is about to index a book has its text on its own machine or in
the bucket, and the text of a done book is in the bucket or on a machine where no
worker is about to wipe it. The second clause covers the worker that claimed the
book between a rechunk's reset and its finish: it wipes the files of its own
machine, and the rechunk's copy is elsewhere. The clauses hold as long as `--rechunk` runs on a machine of its own
(`Apart`), which `TextKept` supposes, for the reason given in section 3.

**The argument for the mirror.** `FlagInv` says that a sync which waits at the flag
is the server's, that the flag is up only over a task of the server that will
clear it, and that the locks belong to the one sync between its upserts and its
commit. `TypeInv` adds the shape of rows and of what a sync has in hand, and that
neither Drive's tree, the mirror's nor a sync's listing of folders has a cycle
(`Grounded`): a move puts nothing beneath itself, and a listing of folders with a
later listing of files still has none. `FaithInv` says what a sync that was left
alone knows at each stage: its listing is Drive's; then the rows are; then each
path is the names from the root down; then only the library is there; then the
sizes are those of the files beneath. `NameInv` says that while nothing muddled
at most one sync is under way, that every vector ends in its row's name, and
that paths and pending titles do so from `prune` on, which is why the title of a
renamed file is not embedded under its old name.

Paths, pruning and sizes are recursions as long as there are items. `PathsRun` and
`UnderRuns` give them as iterations; `Settles` shows that a growing set of items
is closed after that many steps; `WaysAreShort`, that no way from the root is
longer, since without a cycle it meets no item twice. From these,
`PathsAlongWays` and `UnderIsThrough` say what the recursions compute: the names
along the way, and the items whose way passes through.

**The argument for the agents.** `IInv` has four parts for each question. `BegunInv`:
before its run begins nothing is told and nobody finds it; a browse run is in no
registry. `ReachInv`: a research run that works is in the registry, and a record
somebody is about to drop is of a finished run, which it stays. `ToldInv`: only
the last event closes; what a loop holds (its numbered sources, the files it has
seen, the list it showed last) is what its events so far add up to, and `done`
reports that. `HeardInv`: a page has heard a prefix of what was told and knows
how far its stream has come. The numbering of a search is a recursion over the
rows it returned; `SourcesExtend` proves by induction over them that it keeps the
numbers given before, numbers no passage twice, and shows each row under its
number. `PageFed` is then proved step by step: each step of the runs, the
registry and the pages is, for every asker, a step of `Feed` or none; a restart
moves several askers at once.

**The argument for the chunks.** `Texts` takes one step, so its state invariant
(`ChunkInv`: the chunks are those of the document) is short, and the proof is
about what the loops compute. Each loop is a function of how far it has come, and
each stage is described by one predicate that its step keeps:

* `Precedes` orders words and markers as the text does: markers count up, and a
  word stands between the marker of its page and the next. A document is in that
  order (`DocumentOrder`), and the page of every word has a marker in it
  (`WordHasMarker`).
* `Held(d, acc, n)`: what `_merge_small_sections` has merged and what its run
  holds are, together, the first `n` sections: in order, nothing lost, nothing
  added but headings, each word under a trail that fits it (`Merged`,
  `RunHolds`). The run is the last sections seen, which is why flushing it late
  puts nothing out of order. `MergeHolds` is the end of the loop.
* `Cuts`: the pieces of a body are windows that cover it and only move on;
  `EnoughStrides` is the arithmetic of how many are needed.
* `WalkHolds`: the pieces of all sections, in order, show all of them; what two
  pieces share is what their windows share, so a word that two of them say is
  said by all those between.
* `LastIs`: the page the walk has reached is the largest marked so far, also by
  pieces that were skipped or dropped; `From`: the chunks are the pieces that are
  stored, in order.

The properties follow. A word that a chunk adds is in no piece before it
(`NewToTheWalk`): that piece would be stored as well, and the chunk just before,
which lies between, would say the word. The word's page has been reached, because
its marker comes no later than the word; and the page that the chunk starts on is
not past it, because a marker in an earlier piece comes before the word. The
lemmas about flattened sequences (`Flattened`) follow each element to the
sequence and place it came from.

**The argument for the ranking.** A row that is better placed in one list and not
worse in the other has the higher score (`BetterScore`; scores are fractions,
compared crosswise). The order by score and then by distance or name is a strict
order of the candidates (`BeforeIsAnOrder`), so a row's place, one more than the
number of rows before it, is a number up to that of candidates (`PlacesAgree`),
and every place is taken by one row (`PlacesTaken`): the search returns the rows
of the first `k` places, and no place is empty.

**Induction over data.** The library's induction theorems take an operator as a
parameter, which the provers cannot instantiate. `DataInduction` states what is
needed without one: a property of numbers is the set of those that have it
(`InductionUpTo`), and the step of a recursion is a function
(`RecursionOverSequence`, `IterationUpTo`).

**Only model-checked.** `QueueDrains`, `AgentsEnd` and `TurnsSettle`: liveness
under fairness is beyond the prover. Every invariant, action property and
refinement that a passing run checks is a theorem. The four finding runs are
counterexamples, not theorems.

## 5. Plan

In this order; what is done is marked.

1. `BookRow`, `IngestQueue`: queue, producers, workers. *Done.*
2. `Shelf`, `ShelfRefinement` and the proofs. *Done.*
3. `Artefacts` with the rechunk: files, bucket, purge, upload, viewer. *Done,
   with proofs.*
4. `MirrorSync`. *Done, with proofs.*
5. `AgentRuns` and `Feed`. *Done, with proofs of the safety properties and of the
   refinement.*
6. `SignIn`, `DriveAuth`. *Done, with proofs.*
7. `Chunking`, `RankFusion`, `Texts`. *Done, with proofs.*
8. `JobDispatch` (who starts the run, and with which scope), the folder cache of
   the browsing agent under two browses, larger trees in `mirror`.

**Not modelled, and why.** The embedding client is batching around an outside
service: a stage that may raise. The Bible text is one table loaded in one
transaction and looked up. Migrations run once, from one operator's shell, each
file with its record in one transaction. Evaluation and reports only read. The
re-keying script repairs rows older than the source column, once. Of the pages,
only the chat's turns keep state that matters; the others render what they
fetch. Whether a Job's trigger was accepted decides who drains the queue, and
the model leaves that open already. What a model is prompted with and answers is
an outside service. Reading Drive, Postgres's rankings, the header and character
splitters and the regular expressions of `clean_extracted` enter as inputs.
