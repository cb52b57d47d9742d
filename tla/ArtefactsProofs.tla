-------------------------- MODULE ArtefactsProofs --------------------------
(***************************************************************************)
(* Proofs about Artefacts, for any machines, workers, books and documents. *)
(* A step of Artefacts is a step of the queue with its files, or one of    *)
(* the few that --rechunk and a missing upload add; the lemmas of          *)
(* IngestQueueProofs are used for the first kind.                          *)
(***************************************************************************)
EXTENDS Artefacts, IngestQueueProofs

Purges == [at : PurgeStages, host : Hosts, source_id : Sources, md5 : Md5s]

(* A purge under way is of a row that is gone, and no id is issued twice.  *)
PurgeOK ==
  /\ purging \in [Ids -> Purges \cup {NoPurge}]
  /\ \A i \in Ids : purging[i] # NoPurge => i < nextId /\ ~Exists(i)

(* A --rechunk has no limit, claims nothing and downloads nothing, and its *)
(* list is of ids that had a row.                                          *)
RechunkFine(w) ==
  /\ Rechunking(w) => /\ w \in Rechunkers
                      /\ run[w].budget = NoLimit
                      /\ pc[w] \notin {"off", "wipe", "download", "mark"}
  /\ ~Rechunking(w) => rechunk[w] = NoRechunk
  /\ w \in Rechunkers /\ ~Rechunking(w) => pc[w] = "off"
  /\ \A i \in rechunk[w].todo : i < nextId

RechunkOK == \A w \in Workers : RechunkFine(w)

ArtInv ==
  /\ TypeOK /\ TableOK /\ BusyOK
  /\ FilesOK /\ PurgeOK /\ RechunkOK
-----------------------------------------------------------------------------
(* Where a step of Artefacts is more than one of the queue.                *)
Extra(w) ==
  \/ DownloadMissing(w) \/ StartRechunk(w) \/ ResetDone(w) \/ EndRechunk(w)
  \/ \E i \in Ids : RechunkBook(w, i)

LEMMA QueueSteps == [ArtNext]_avars => [Next]_vars \/ \E w \in Workers : Extra(w)
<1> SUFFICES ASSUME [ArtNext]_avars PROVE [Next]_vars \/ \E w \in Workers : Extra(w)
  OBVIOUS
<1>1. CASE Elsewhere
  BY <1>1 DEF Elsewhere, Next, Produce, World
<1>2. ASSUME NEW u \in Uploads,
             RegisterRow(u) \/ RegisterDies(u) \/ (\E h \in Hosts : RegisterCopy(u, h))
      PROVE  [Next]_vars
  BY <1>2 DEF RegisterRow, RegisterDies, RegisterCopy, Next, Produce
<1>3. ASSUME NEW i \in Ids, \E h \in Hosts : PurgeRow(i, h) \/ OpenPdf(i, h)
      PROVE  [Next]_vars
  BY <1>3 DEF PurgeRow, OpenPdf, Next, World
<1>4. ASSUME NEW i \in Ids, PurgeFiles(i) \/ PurgeCheck(i) \/ PurgeObjects(i) \/ PurgeDies(i)
      PROVE  UNCHANGED vars
  BY <1>4 DEF PurgeFiles, PurgeCheck, PurgeObjects, PurgeDies, PurgeTo
<1>5. ASSUME NEW w \in Workers,
             \/ WipeFiles(w) \/ DownloadPdf(w) \/ MirrorOriginal(w) \/ ExtractFiles(w)
             \/ NeedsOcrFiles(w) \/ IndexBook(w) \/ WrapupFiles(w) \/ Handled(w)
      PROVE  ProcessBook(w) \/ Raise(w)
  BY <1>5 DEF WipeFiles, DownloadPdf, MirrorOriginal, ExtractFiles, NeedsOcrFiles, IndexBook,
              WrapupFiles, Handled, ProcessBook
<1>6. ASSUME NEW w \in Workers, Claims(w) \/ Killed(w) PROVE Next
  BY <1>6 DEF Claims, Killed, Next
<1>7. ASSUME NEW w \in Workers, FetchRechunkable(w) \/ \E i \in Ids : RechunkSkips(w, i)
      PROVE  UNCHANGED vars
  BY <1>7 DEF FetchRechunkable, RechunkSkips
<1>8. CASE UNCHANGED avars
  BY <1>8 DEF avars
<1> QED
  BY <1>1, <1>2, <1>3, <1>4, <1>5, <1>6, <1>7, <1>8 DEF ArtNext, Next, Extra
-----------------------------------------------------------------------------
(* The queue's own invariants through the extra steps.                     *)
LEMMA LoadedText ==
  ASSUME FilesOK, NEW h \in Hosts, NEW i \in Ids, NEW up \in BOOLEAN
  PROVE  Loaded(h, i, up) \in Texts
BY DEF FilesOK, Loaded, Fetched, Buckets, Texts

LEMMA ResetShape ==
  ASSUME TypeOK, NEW w \in Workers, ResetDone(w)
  PROVE  /\ books' \in [Ids -> Row \cup {NoRow}]
         /\ \A i \in Ids : SameIdentity(i)
<1>1. ASSUME NEW i \in Ids, Exists(i)
      PROVE  /\ books[i] \in Row
             /\ [books[i] EXCEPT !.status = "extracted"] \in Row
  BY <1>1, RowsAreRows DEF Row, Waiting
<1>2. \A i \in Ids :
        books'[i] = IF Exists(i) /\ books[i].status = "done"
                      THEN [books[i] EXCEPT !.status = "extracted"] ELSE books[i]
  BY DEF ResetDone
<1>3. books' \in [Ids -> Row \cup {NoRow}]
  BY <1>1 DEF ResetDone, TypeOK
<1>4. \A i \in Ids : SameIdentity(i)
  BY <1>1, <1>2, RowAssumption DEF SameIdentity, Exists, Row
<1> QED
  BY <1>3, <1>4

(* What RechunkBook puts in the worker's hand. *)
LEMMA TakenUp ==
  ASSUME ArtInv, NEW w \in Workers, NEW i \in Ids, RechunkBook(w, i)
  PROVE  /\ doc'[w] \in Docs
         /\ job'[w] \in Jobs
         /\ job'[w].id = i /\ job'[w].md5 = NoMd5
         /\ Exists(i) => job'[w].source_id = books[i].source_id
         /\ \E up \in BOOLEAN : doc'[w] = Loaded(HostOf[w], i, up)
         /\ pc'[w] = "chunk" /\ pc[w] = "run" /\ i < nextId
         /\ doc' \in [Workers -> Docs \cup {NoDoc}]
         /\ job' \in [Workers -> Jobs \cup {NoJob}]
         /\ pc' \in [Workers -> Stages]
         /\ \A v \in Workers \ {w} : doc'[v] = doc[v] /\ job'[v] = job[v] /\ pc'[v] = pc[v]
         /\ UNCHANGED <<tables, run, outside>>
<1>1. PICK up \in BOOLEAN, s \in Sources :
        /\ Loaded(HostOf[w], i, up) # NoDoc
        /\ Exists(i) => s = books[i].source_id
        /\ doc' = [doc EXCEPT ![w] = Loaded(HostOf[w], i, up)]
        /\ job' = [job EXCEPT ![w] = [id |-> i, source_id |-> s, md5 |-> NoMd5]]
        /\ pc' = [pc EXCEPT ![w] = "chunk"]
        /\ UNCHANGED <<tables, run, outside>>
  BY DEF RechunkBook
<1>2. Loaded(HostOf[w], i, up) \in Docs
  BY <1>1, LoadedText, ArtefactsAssumption DEF ArtInv, Texts
<1>3. [id |-> i, source_id |-> s, md5 |-> NoMd5] \in Jobs
  BY DEF Jobs, Md5s
<1>4. pc[w] = "run" /\ i < nextId
  BY DEF RechunkBook, InTurn, ArtInv, RechunkOK, RechunkFine
<1> QED
  BY <1>1, <1>2, <1>3, <1>4 DEF ArtInv, TypeOK, Stages, RaisingStages

(* A worker's own move, with the tables and the outside left alone.        *)
LEMMA QuietMove ==
  ASSUME ArtInv, UNCHANGED <<tables, outside>>,
         pc' \in [Workers -> Stages], run' \in [Workers -> Runs],
         job' \in [Workers -> Jobs \cup {NoJob}], doc' \in [Workers -> Docs \cup {NoDoc}],
         \A v \in Workers : \/ Idle(v)'
                            \/ ~Idle(v) /\ job'[v] = job[v] /\ run'[v] = run[v]
                            \/ BusyWorker(v)'
  PROVE  TypeOK' /\ TableOK' /\ BusyOK'
<1> USE DEF ArtInv, tables, outside
<1>1. TypeOK'
  BY DEF TypeOK
<1>2. TableOK'
  BY DEF TableOK, Exists
<1>3. BusyOK'
  BY DEF BusyOK, BusyWorker, Exists
<1> QED
  BY <1>1, <1>2, <1>3

LEMMA ExtraStep ==
  ASSUME ArtInv, NEW w \in Workers, Extra(w)
  PROVE  TypeOK' /\ TableOK' /\ BusyOK'
<1> USE DEF ArtInv
<1>1. CASE DownloadMissing(w)
  BY <1>1, QuietMove DEF DownloadMissing, Step, TypeOK, Stages, RaisingStages, Idle
<1>2. CASE StartRechunk(w)
  <2>1. /\ UNCHANGED <<tables, outside, job, doc>>
        /\ pc[w] = "off"
        /\ pc' = [pc EXCEPT ![w] = "run"]
        /\ run' = [run EXCEPT ![w] = [scope |-> AnySource, budget |-> NoLimit]]
    BY <1>2 DEF StartRechunk, StartRun
  <2>2. [scope |-> AnySource, budget |-> NoLimit] \in Runs
    BY DEF Runs, Scopes
  <2>3. /\ pc' \in [Workers -> Stages] /\ run' \in [Workers -> Runs]
        /\ job' \in [Workers -> Jobs \cup {NoJob}]
        /\ doc' \in [Workers -> Docs \cup {NoDoc}]
    BY <2>1, <2>2 DEF TypeOK, Stages
  <2>4. Idle(w)' /\ \A v \in Workers \ {w} : pc'[v] = pc[v] /\ run'[v] = run[v]
    BY <2>1 DEF TypeOK, Idle
  <2>5. \A v \in Workers : Idle(v)' \/ (~Idle(v) /\ job'[v] = job[v] /\ run'[v] = run[v])
    BY <2>1, <2>4 DEF Idle
  <2> QED
    BY <2>1, <2>3, <2>5, QuietMove
<1>3. CASE ResetDone(w)
  <2>1. UNCHANGED <<nextId, chunks, workers, outside>>
    BY <1>3 DEF ResetDone
  <2>2. TypeOK'
    BY <1>3, <2>1, ResetShape DEF TypeOK, workers, outside
  <2>3. TableOK'
    BY <1>3, <2>1, ResetShape DEF TableOK, SameIdentity
  <2>4. ASSUME NEW v \in Workers, ~Idle(v)' PROVE BusyWorker(v)'
    <3>1. BusyWorker(v) /\ job[v].id \in Ids
      BY <2>1, <2>4 DEF BusyOK, BusyWorker, Idle, workers, Jobs
    <3> QED
      BY <1>3, <2>1, <3>1, ResetShape DEF BusyWorker, SameIdentity, workers
  <2> QED
    BY <2>2, <2>3, <2>4 DEF BusyOK
<1>4. CASE EndRechunk(w)
  <2>1. NoRun \in Runs
    BY DEF NoRun, Runs, Scopes, AnySource
  <2>2. /\ pc' \in [Workers -> Stages] /\ run' \in [Workers -> Runs]
        /\ job' \in [Workers -> Jobs \cup {NoJob}]
        /\ doc' \in [Workers -> Docs \cup {NoDoc}]
        /\ UNCHANGED <<tables, outside>>
    BY <1>4, <2>1 DEF EndRechunk, LeaveRun, TypeOK, Stages
  <2>3. /\ Idle(w)'
        /\ \A v \in Workers \ {w} : pc'[v] = pc[v] /\ run'[v] = run[v] /\ job'[v] = job[v]
    BY <1>4 DEF EndRechunk, LeaveRun, TypeOK, Idle
  <2>4. \A v \in Workers : Idle(v)' \/ (~Idle(v) /\ job'[v] = job[v] /\ run'[v] = run[v])
    BY <2>3 DEF Idle
  <2> QED
    BY <2>2, <2>4, QuietMove
<1>5. ASSUME NEW i \in Ids, RechunkBook(w, i) PROVE TypeOK' /\ TableOK' /\ BusyOK'
  <2>1. BusyWorker(w)'
    <3>1. run[w].budget = NoLimit
      BY <1>5 DEF RechunkBook, InTurn, RechunkOK, RechunkFine, Rechunking
    <3> QED
      BY <1>5, <3>1, TakenUp, QueueAssumption DEF BusyWorker, tables, Exists
  <2> QED
    BY <1>5, <2>1, TakenUp, QuietMove DEF TypeOK, Idle
<1> QED
  BY <1>1, <1>2, <1>3, <1>4, <1>5 DEF Extra

LEMMA QueueKept ==
  ArtInv /\ [ArtNext]_avars => TypeOK' /\ TableOK' /\ BusyOK'
BY QueueSteps, ExtraStep, TypeStep, TableStep, BusyStep DEF ArtInv
-----------------------------------------------------------------------------
(* Files, purges and rechunks.                                             *)

LEMMA PutShape ==
  ASSUME NEW dir \in [Hosts -> [Ids -> Texts]], NEW h \in Hosts, NEW i \in Ids,
         NEW d \in Texts
  PROVE  Put(dir, h, i, d) \in [Hosts -> [Ids -> Texts]]
BY DEF Put

(* The bucket after a call on one original, one text or one manifest.      *)
LEMMA BucketShape ==
  ASSUME NEW b \in Buckets, NEW d \in Texts, NEW key, NEW i \in Ids, NEW up
  PROVE  /\ [b EXCEPT !.original = Stored(@, up, key, d)] \in Buckets
         /\ [b EXCEPT !.markdown = Stored(@, up, i, d)] \in Buckets
         /\ DropTexts(b, up, i) \in Buckets
<1>1. /\ b.original \in [Docs -> Texts] /\ b.markdown \in [Ids -> Texts]
      /\ b.manifest \subseteq Ids
  BY DEF Buckets
<1>2. /\ Stored(b.original, up, key, d) \in [Docs -> Texts]
      /\ Stored(b.markdown, up, i, d) \in [Ids -> Texts]
  BY <1>1 DEF Stored
<1>3. DropTexts(b, up, i) \in Buckets
  BY <1>1 DEF DropTexts, Buckets, Texts
<1> QED
  BY <1>1, <1>2, <1>3 DEF Buckets

(* The worker that acts has a book, and its host a directory for it.       *)
LEMMA AtWork ==
  ASSUME ArtInv, NEW w \in Workers, ~Idle(w)
  PROVE  /\ HostOf[w] \in Hosts
         /\ job[w].id \in Ids /\ job[w].source_id \in Sources /\ job[w].md5 \in Md5s
         /\ doc[w] \in Texts
         /\ ~(job[w].id >= nextId)
BY ArtefactsAssumption DEF ArtInv, BusyOK, BusyWorker, Jobs, TypeOK, Texts, Ids

LEMMA FilesWork ==
  ASSUME ArtInv, NEW w \in Workers,
         \/ WipeFiles(w) \/ DownloadPdf(w) \/ MirrorOriginal(w) \/ ExtractFiles(w)
         \/ NeedsOcrFiles(w) \/ WrapupFiles(w)
  PROVE  FilesOK'
<1> USE DEF ArtInv, FilesOK, calls
<1>0. ~Idle(w)
  BY DEF WipeFiles, Wipe, DownloadPdf, Download, DownloadMismatch, MirrorOriginal,
         MarkDownloaded, ExtractFiles, Extract, NeedsOcrFiles, NeedsOcr, WrapupFiles, Wrapup,
         Step, Idle
<1>1. CASE WipeFiles(w)
  BY <1>0, <1>1, AtWork, PutShape DEF WipeFiles, Texts
<1>2. CASE DownloadPdf(w)
  <2>1. Bytes(job[w].source_id) \in Texts
    BY <1>0, AtWork, RowAssumption DEF Bytes, TypeOK, Texts, Sources
  <2> QED
    BY <1>0, <1>2, <2>1, AtWork, PutShape DEF DownloadPdf
<1>3. CASE MirrorOriginal(w)
  <2> DEFINE key == IF job[w].md5 = NoMd5 THEN doc[w] ELSE job[w].md5
  <2>1. PICK up \in BOOLEAN :
          /\ bucket' = [bucket EXCEPT !.original = Stored(@, up, key, doc[w])]
          /\ mirrored' = [mirrored EXCEPT ![w] = up]
          /\ UNCHANGED <<local, registering, purging, rechunk>>
    BY <1>3 DEF MirrorOriginal
  <2> HIDE DEF key
  <2>2. bucket' \in Buckets
    BY <1>0, <2>1, AtWork, BucketShape
  <2> QED
    BY <2>1, <2>2 DEF local
<1>4. ASSUME DropPdf(w)
      PROVE  /\ pdfs' \in [Hosts -> [Ids -> Texts]]
             /\ mirrored' \in [Workers -> BOOLEAN]
             /\ UNCHANGED <<uploaded, bucket, registering, purging, rechunk>>
  <2>1. Put(pdfs, HostOf[w], job[w].id, NoDoc) \in [Hosts -> [Ids -> Texts]]
    BY <1>0, AtWork, PutShape DEF Texts
  <2> QED
    BY <1>4, <2>1 DEF DropPdf
<1>5. CASE ExtractFiles(w) \/ NeedsOcrFiles(w)
  <2>1. Put(markdown, HostOf[w], job[w].id, doc[w]) \in [Hosts -> [Ids -> Texts]]
    BY <1>0, AtWork, PutShape
  <2>2. DropPdf(w)
    BY <1>5 DEF ExtractFiles, NeedsOcrFiles
  <2>3. markdown' \in [Hosts -> [Ids -> Texts]]
    BY <1>5, <2>1 DEF ExtractFiles, NeedsOcrFiles
  <2>4. manifest' \in [Hosts -> SUBSET Ids]
    <3>1. manifest[HostOf[w]] \cup {job[w].id} \in SUBSET Ids
      BY <1>0, AtWork
    <3> QED
      BY <1>5, <3>1 DEF ExtractFiles, NeedsOcrFiles
  <2> QED
    BY <1>4, <2>2, <2>3, <2>4
<1>6. CASE WrapupFiles(w)
  <2> DEFINE h == HostOf[w]
             i == job[w].id
             text == markdown[h][i]
  <2>1. h \in Hosts /\ i \in Ids /\ text \in Texts
    BY <1>0, AtWork
  <2>2. PICK upText \in BOOLEAN, upManifest \in BOOLEAN :
          /\ bucket' = [bucket EXCEPT
               !.markdown = Stored(@, upText /\ text # NoDoc, i, text),
               !.manifest = IF upManifest THEN @ \cup {i} ELSE @]
          /\ markdown' = Put(markdown, h, i, Dropped(upText, text, NoDoc))
          /\ manifest' = [manifest EXCEPT ![h] =
                             IF upManifest THEN @ \ {i} ELSE Updated(@, i)]
          /\ UNCHANGED <<pdfs, uploaded, calls>>
    BY <1>6 DEF WrapupFiles
  <2> HIDE DEF h, i, text
  <2>3. Stored(bucket.markdown, upText /\ text # NoDoc, i, text) \in [Ids -> Texts]
    BY <2>1 DEF Stored, Buckets
  <2>4. bucket' \in Buckets
    BY <2>1, <2>2, <2>3 DEF Buckets
  <2>5. markdown' \in [Hosts -> [Ids -> Texts]]
    BY <2>1, <2>2, PutShape DEF Dropped, Texts
  <2>6. manifest' \in [Hosts -> SUBSET Ids]
    BY <2>1, <2>2 DEF Updated
  <2> QED
    BY <2>2, <2>4, <2>5, <2>6
<1> QED
  BY <1>1, <1>2, <1>3, <1>5, <1>6

LEMMA FilesElsewhere ==
  ASSUME ArtInv, UNCHANGED files PROVE FilesOK'
BY DEF ArtInv, FilesOK, files, local, calls

(* A step of the purge, the page, an upload or a --rechunk.                *)
LEMMA FilesOthers ==
  ASSUME ArtInv,
         \/ \E u \in Uploads :
              RegisterRow(u) \/ RegisterDies(u) \/ (\E h \in Hosts : RegisterCopy(u, h))
         \/ \E i \in Ids, h \in Hosts : OpenPdf(i, h)
         \/ \E w \in Workers :
              \/ Killed(w) \/ StartRechunk(w) \/ ResetDone(w) \/ FetchRechunkable(w)
              \/ EndRechunk(w) \/ \E i \in Ids : RechunkBook(w, i) \/ RechunkSkips(w, i)
  PROVE  FilesOK'
<1> USE DEF ArtInv, FilesOK, local, calls
<1>1. ASSUME NEW u \in Uploads,
             RegisterRow(u) \/ RegisterDies(u) \/ (\E h \in Hosts : RegisterCopy(u, h))
      PROVE  FilesOK'
  <2>1. CASE RegisterRow(u) \/ RegisterDies(u)
    BY <2>1 DEF RegisterRow, RegisterDies
  <2>2. ASSUME NEW h \in Hosts, RegisterCopy(u, h) PROVE FilesOK'
    <3>1. uploaded[h] \cup {u} \in SUBSET Uploads
      OBVIOUS
    <3> QED
      BY <2>2, <3>1 DEF RegisterCopy
  <2> QED
    BY <1>1, <2>1, <2>2
<1>2. ASSUME NEW i \in Ids, NEW h \in Hosts, OpenPdf(i, h) PROVE FilesOK'
  <2> DEFINE now == drive[books[i].source_id]
  <2>1. books[i].source_id \in DriveFiles /\ now \in Texts
    BY <1>2, ArtefactsAssumption DEF OpenPdf, TypeOK, Texts
  <2>2. pdfs' = Put(pdfs, h, i, now) /\ UNCHANGED <<markdown, manifest, uploaded, calls>>
    BY <1>2 DEF OpenPdf
  <2>3. bucket' = bucket \/ bucket' = [bucket EXCEPT !.original[books[i].md5] = now]
    BY <1>2 DEF OpenPdf
  <2> HIDE DEF now
  <2>4. bucket' \in Buckets
    <3>1. [bucket.original EXCEPT ![books[i].md5] = now] \in [Docs -> Texts]
      BY <2>1 DEF Buckets
    <3> QED
      BY <2>3, <3>1 DEF Buckets
  <2>5. pdfs' \in [Hosts -> [Ids -> Texts]]
    BY <2>1, <2>2, PutShape
  <2> QED
    BY <2>2, <2>4, <2>5
<1>3. ASSUME NEW w \in Workers, NEW r \in Rechunks,
             rechunk' = [rechunk EXCEPT ![w] = r],
             UNCHANGED <<local, bucket, mirrored, registering, purging>>
      PROVE  FilesOK'
  BY <1>3
<1>4. ASSUME NEW w \in Workers,
             \/ Killed(w) \/ StartRechunk(w) \/ ResetDone(w) \/ FetchRechunkable(w)
             \/ EndRechunk(w) \/ \E i \in Ids : RechunkBook(w, i) \/ RechunkSkips(w, i)
      PROVE  /\ \E r \in Rechunks : rechunk' = [rechunk EXCEPT ![w] = r]
             /\ UNCHANGED <<local, bucket, mirrored, registering, purging>>
  <2> DEFINE Going(r) == /\ rechunk' = [rechunk EXCEPT ![w] = r]
                         /\ UNCHANGED <<local, bucket, mirrored, registering, purging>>
  <2>1. CASE Killed(w) \/ EndRechunk(w)
    <3>1. NoRechunk \in Rechunks
      BY DEF NoRechunk, Rechunks
    <3>2. Going(NoRechunk)
      BY <2>1 DEF Killed, EndRechunk
    <3> QED
      BY <3>1, <3>2
  <2>2. CASE StartRechunk(w) \/ ResetDone(w)
    <3>1. PICK at \in {"reset", "fetch"} : Going([rechunk[w] EXCEPT !.at = at])
      BY <2>2 DEF StartRechunk, ResetDone
    <3>2. [rechunk[w] EXCEPT !.at = at] \in Rechunks
      BY <3>1 DEF Rechunks
    <3> QED
      BY <3>1, <3>2
  <2>3. CASE FetchRechunkable(w)
    <3> DEFINE todo == {i \in Ids : Exists(i) /\ books[i].status \in {"extracted", "chunked"}}
    <3>1. Going([at |-> "loop", todo |-> todo])
      BY <2>3 DEF FetchRechunkable
    <3>2. [at |-> "loop", todo |-> todo] \in Rechunks
      BY DEF Rechunks
    <3> QED
      BY <3>1, <3>2
  <2>4. ASSUME NEW i \in Ids, RechunkBook(w, i) \/ RechunkSkips(w, i)
        PROVE  \E r \in Rechunks : Going(r)
    <3> DEFINE r == [rechunk[w] EXCEPT !.todo = @ \ {i}]
    <3>1. Going(r)
      BY <2>4 DEF RechunkBook, RechunkSkips, InTurn
    <3>2. r \in Rechunks
      BY DEF Rechunks
    <3> QED
      BY <3>1, <3>2
  <2> QED
    BY <1>4, <2>1, <2>2, <2>3, <2>4
<1> QED
  BY <1>1, <1>2, <1>3, <1>4
-----------------------------------------------------------------------------
(* No step gives a row to an id that was used before.                      *)
OldIdsStay ==
  /\ nextId' >= nextId
  /\ \A i \in Ids : i < nextId /\ ~Exists(i) => ~Exists(i)'

LEMMA OldIds ==
  ASSUME ArtInv, [ArtNext]_avars PROVE OldIdsStay
<1> USE DEF ArtInv, OldIdsStay
<1>0. nextId \in Int /\ \A i \in Ids : i \in Int
  BY DEF TypeOK, Ids
<1>1. ASSUME nextId' = nextId, \A i \in Ids : Exists(i)' => Exists(i)
      PROVE  OldIdsStay
  BY <1>0, <1>1
<1>2. CASE Produce
  <2>1. CASE UNCHANGED <<books, nextId>>
    BY <1>1, <2>1 DEF Exists
  <2>2. ASSUME NEW s \in Sources, NEW m \in Md5s, UpsertBook(s, m) PROVE OldIdsStay
    <3>1. /\ nextId' >= nextId
          /\ \A i \in Ids : ~Exists(i) /\ Exists(i)' => i = nextId
      BY <2>2, UpsertIdentity
    <3> QED
      BY <1>0, <3>1
  <2> QED
    BY <1>2, <2>1, <2>2, ProduceIsUpsert
<1>3. CASE World
  <2>1. nextId' = nextId
    BY <1>3 DEF World, EditFile, SyncMirror, Purge, LeaseLapses, tables
  <2>2. \A i \in Ids : Exists(i)' => Exists(i)
    BY <1>3 DEF World, EditFile, SyncMirror, Purge, LeaseLapses, tables, Exists, TypeOK
  <2> QED
    BY <1>1, <2>1, <2>2
<1>4. ASSUME NEW w \in Workers, StartAnyRun(w) PROVE OldIdsStay
  BY <1>1, <1>4 DEF StartAnyRun, StartRun, tables, Exists
<1>5. ASSUME NEW w \in Workers, ClaimBook(w) PROVE OldIdsStay
  <2>1. PICK i \in Ids : HandOut(w, i) \/ GiveUp(w, i)
    BY <1>5 DEF ClaimBook
  <2>2. nextId' = nextId
    BY <2>1 DEF HandOut, GiveUp
  <2> QED
    BY <1>1, <2>1, <2>2, ClaimFrame DEF Exists
<1>6. ASSUME NEW w \in Workers, ProcessBook(w) \/ Raise(w) \/ Crash(w) \/ StopRun(w)
      PROVE  OldIdsStay
  BY <1>1, <1>6, WorkFrame DEF SameIdentity
<1>7. CASE UNCHANGED vars
  BY <1>1, <1>7 DEF vars, Exists
<1>8. ASSUME NEW w \in Workers, Extra(w) PROVE OldIdsStay
  <2>1. CASE ResetDone(w)
    BY <1>1, <2>1, ResetShape DEF ResetDone, SameIdentity
  <2>2. CASE DownloadMissing(w) \/ StartRechunk(w) \/ EndRechunk(w)
             \/ \E i \in Ids : RechunkBook(w, i)
    <3>1. UNCHANGED tables
      BY <2>2 DEF DownloadMissing, StartRechunk, StartRun, EndRechunk, RechunkBook
    <3> QED
      BY <1>1, <3>1 DEF tables, Exists
  <2> QED
    BY <1>8, <2>1, <2>2 DEF Extra
<1> QED
  BY <1>2, <1>3, <1>4, <1>5, <1>6, <1>7, <1>8, QueueSteps DEF Next

LEMMA PurgeKept ==
  ASSUME ArtInv, TypeOK', OldIdsStay, UNCHANGED purging PROVE PurgeOK'
<1>1. \A i \in Ids : i < nextId => i < nextId'
  BY DEF ArtInv, OldIdsStay, TypeOK, Ids
<1> QED
  BY <1>1 DEF ArtInv, PurgeOK, OldIdsStay

(* The rest of a purge goes on without a row, to its next stage or its end.*)
LEMMA PurgeGoesOn ==
  ASSUME ArtInv, NEW i \in Ids, NEW from, NEW to \in PurgeStages \cup {"end"},
         PurgeTo(i, from, to)
  PROVE  PurgeOK' /\ ~Exists(i)
<1> USE DEF ArtInv, PurgeOK, PurgeTo
<1>1. purging[i] \in Purges /\ purging[i] # NoPurge
  OBVIOUS
<1>2. CASE to = "end"
  BY <1>1, <1>2 DEF vars, Exists
<1>3. CASE to \in PurgeStages /\ to # "end"
  <2>1. [purging[i] EXCEPT !.at = to] \in Purges
    BY <1>1, <1>3 DEF Purges
  <2> QED
    BY <1>1, <1>3, <2>1 DEF vars, Exists
<1> QED
  BY <1>2, <1>3

LEMMA PurgeBegins ==
  ASSUME ArtInv, NEW i \in Ids, NEW h \in Hosts, PurgeRow(i, h)
  PROVE  PurgeOK'
<1> USE DEF ArtInv, PurgeOK
<1>1. books[i] \in Row
  BY RowsAreRows DEF PurgeRow, Purge
<1>2. [at |-> "files", host |-> h, source_id |-> books[i].source_id,
       md5 |-> books[i].md5] \in Purges
  BY <1>1 DEF Purges, PurgeStages, Row
<1>3. purging' \in [Ids -> Purges \cup {NoPurge}]
  BY <1>2 DEF PurgeRow
<1>4. i < nextId
  BY DEF PurgeRow, Purge, TableOK, TypeOK, Ids
<1>5. nextId' = nextId /\ \A j \in Ids : Exists(j)' <=> Exists(j) /\ j # i
  BY DEF PurgeRow, Purge, TypeOK, Exists
<1>6. \A j \in Ids \ {i} : purging'[j] = purging[j]
  BY DEF PurgeRow
<1> QED
  BY <1>3, <1>4, <1>5, <1>6

LEMMA PurgeStep ==
  ASSUME ArtInv, [ArtNext]_avars PROVE PurgeOK'
<1>1. ASSUME UNCHANGED purging PROVE PurgeOK'
  BY <1>1, OldIds, QueueKept, PurgeKept
<1>2. CASE Elsewhere \/ UNCHANGED avars
  BY <1>1, <1>2 DEF Elsewhere, avars, files, calls
<1>3. ASSUME NEW u \in Uploads,
             RegisterRow(u) \/ RegisterDies(u) \/ (\E h \in Hosts : RegisterCopy(u, h))
      PROVE  PurgeOK'
  BY <1>1, <1>3 DEF RegisterRow, RegisterDies, RegisterCopy
<1>4. ASSUME NEW i \in Ids, \E h \in Hosts : PurgeRow(i, h) \/ OpenPdf(i, h) PROVE PurgeOK'
  BY <1>1, <1>4, PurgeBegins DEF OpenPdf, calls
<1>5. ASSUME NEW i \in Ids, PurgeFiles(i) \/ PurgeCheck(i) \/ PurgeObjects(i) \/ PurgeDies(i)
      PROVE  PurgeOK'
  <2>1. PICK from, to \in PurgeStages \cup {"end"} : PurgeTo(i, from, to)
    BY <1>5 DEF PurgeFiles, PurgeCheck, PurgeObjects, PurgeDies, PurgeStages
  <2> QED
    BY <2>1, PurgeGoesOn
<1>6. ASSUME NEW w \in Workers,
             \/ Claims(w) \/ WipeFiles(w) \/ DownloadPdf(w) \/ DownloadMissing(w)
             \/ MirrorOriginal(w) \/ IndexBook(w) \/ WrapupFiles(w) \/ Handled(w)
      PROVE  PurgeOK'
  BY <1>1, <1>6 DEF Claims, WipeFiles, DownloadPdf, DownloadMissing, MirrorOriginal, IndexBook,
                    WrapupFiles, Handled, files, calls
<1>7. ASSUME NEW w \in Workers,
             \/ ExtractFiles(w) \/ NeedsOcrFiles(w) \/ Killed(w) \/ StartRechunk(w)
             \/ ResetDone(w) \/ FetchRechunkable(w) \/ EndRechunk(w)
             \/ \E i \in Ids : RechunkBook(w, i) \/ RechunkSkips(w, i)
      PROVE  PurgeOK'
  BY <1>1, <1>7 DEF ExtractFiles, NeedsOcrFiles, DropPdf, Killed, StartRechunk, ResetDone,
                    FetchRechunkable, EndRechunk, RechunkBook, RechunkSkips
<1> QED
  BY <1>2, <1>3, <1>4, <1>5, <1>6, <1>7 DEF ArtNext

LEMMA FilesStep ==
  ASSUME ArtInv, [ArtNext]_avars PROVE FilesOK'
<1>1. ASSUME UNCHANGED files PROVE FilesOK'
  BY <1>1, FilesElsewhere
<1>2. ASSUME NEW i \in Ids,
             \/ \E h \in Hosts : PurgeRow(i, h)
             \/ PurgeFiles(i) \/ PurgeCheck(i) \/ PurgeObjects(i) \/ PurgeDies(i)
      PROVE  FilesOK'
  <2>1. \A j \in Ids : purging'[j] = NoPurge \/ purging'[j].at \in PurgeStages
    <3>1. PurgeOK'
      BY <1>2, PurgeStep DEF ArtNext
    <3> QED
      BY <3>1 DEF PurgeOK, Purges
  <2>2. UNCHANGED <<mirrored, registering, rechunk>>
    BY <1>2 DEF PurgeRow, PurgeFiles, PurgeCheck, PurgeObjects, PurgeDies, PurgeTo
  <2>3. CASE (\E h \in Hosts : PurgeRow(i, h)) \/ PurgeCheck(i) \/ PurgeDies(i)
    BY <2>1, <2>2, <2>3 DEF ArtInv, FilesOK, PurgeRow, PurgeCheck, PurgeDies, local
  <2>4. CASE PurgeFiles(i)
    <3>1. purging[i].host \in Hosts
      BY <2>4 DEF PurgeFiles, PurgeTo, ArtInv, PurgeOK, Purges
    <3>2. /\ pdfs' \in [Hosts -> [Ids -> Texts]]
          /\ markdown' \in [Hosts -> [Ids -> Texts]]
      BY <2>4, <3>1, PutShape DEF PurgeFiles, ArtInv, FilesOK, Texts
    <3>3. /\ manifest' \in [Hosts -> SUBSET Ids]
          /\ uploaded' \in [Hosts -> SUBSET Uploads]
          /\ bucket' = bucket
      BY <2>4 DEF PurgeFiles, ArtInv, FilesOK
    <3> QED
      BY <2>1, <2>2, <3>2, <3>3 DEF ArtInv, FilesOK
  <2>5. CASE PurgeObjects(i)
    <3>1. PICK up \in BOOLEAN, ok \in BOOLEAN :
            /\ \/ bucket' = DropTexts(bucket, ok, i)
               \/ bucket' = DropTexts([bucket EXCEPT !.original =
                                Stored(@, up, purging[i].md5, NoDoc)], ok, i)
            /\ UNCHANGED local
      BY <2>5 DEF PurgeObjects
    <3>2. bucket' \in Buckets
      <4> DEFINE b == [bucket EXCEPT !.original = Stored(@, up, purging[i].md5, NoDoc)]
      <4>1. bucket \in Buckets /\ NoDoc \in Texts
        BY DEF ArtInv, FilesOK, Texts
      <4>2. b \in Buckets
        BY <4>1, BucketShape
      <4>3. bucket' = DropTexts(bucket, ok, i) \/ bucket' = DropTexts(b, ok, i)
        BY <3>1
      <4> HIDE DEF b
      <4> QED
        BY <4>1, <4>2, <4>3, BucketShape
    <3> QED
      BY <2>1, <2>2, <3>1, <3>2 DEF ArtInv, FilesOK, local
  <2> QED
    BY <1>2, <2>3, <2>4, <2>5
<1>3. ASSUME NEW w \in Workers, Claims(w) \/ DownloadMissing(w) \/ IndexBook(w) \/ Handled(w)
      PROVE  UNCHANGED files
  BY <1>3 DEF Claims, DownloadMissing, IndexBook, Handled
<1>4. CASE Elsewhere \/ UNCHANGED avars
  BY <1>1, <1>4 DEF Elsewhere, avars
<1> QED
  BY <1>1, <1>2, <1>3, <1>4, FilesWork, FilesOthers DEF ArtNext

(* A --rechunk goes from "run" to "chunk" and on, and back; only its own   *)
(* steps, and a kill, move it.                                             *)
LEMMA RechunkKept ==
  ASSUME ArtInv, TypeOK', nextId' >= nextId, NEW w \in Workers, UNCHANGED rechunk,
         \/ pc'[w] = pc[w] /\ run'[w] = run[w]
         \/ w \notin Rechunkers
         \/ pc[w] \in {"wipe", "download", "mark"}
         \/ /\ pc[w] # "off"
            /\ pc'[w] \notin {"off", "wipe", "download", "mark"}
            /\ run[w].budget = NoLimit => run'[w].budget = NoLimit
  PROVE  RechunkFine(w)'
<1>1. nextId \in Int /\ nextId' \in Int /\ rechunk[w].todo \subseteq Int
  BY DEF ArtInv, TypeOK, FilesOK, Rechunks, Ids
<1>2. \A i \in rechunk'[w].todo : i < nextId'
  BY <1>1 DEF ArtInv, RechunkOK, RechunkFine
<1> QED
  BY <1>2 DEF ArtInv, RechunkOK, RechunkFine, Rechunking

(* How a worker's stage moves when its --rechunk, if it has one, does not. *)
MovesOn(w) ==
  \/ pc'[w] = pc[w] /\ run'[w] = run[w]
  \/ w \notin Rechunkers
  \/ pc[w] \in {"wipe", "download", "mark"}
  \/ /\ pc[w] # "off"
     /\ pc'[w] \notin {"off", "wipe", "download", "mark"}
     /\ run[w].budget = NoLimit => run'[w].budget = NoLimit

LEMMA OneMover ==
  ASSUME NEW v \in Workers, MovesOn(v),
         \A w \in Workers \ {v} : pc'[w] = pc[w] /\ run'[w] = run[w]
  PROVE  \A w \in Workers : MovesOn(w)
BY DEF MovesOn

(* The step of a worker to a stage, within its run. *)
LEMMA StageMoves ==
  ASSUME TypeOK, NEW v \in Workers, NEW to, pc' = [pc EXCEPT ![v] = to], run' = run,
         \/ pc[v] \in {"wipe", "download", "mark"}
         \/ pc[v] # "off" /\ to \notin {"off", "wipe", "download", "mark"}
  PROVE  \A w \in Workers : MovesOn(w)
<1>1. pc'[v] = to /\ run'[v] = run[v]
  BY DEF TypeOK
<1>2. \A w \in Workers \ {v} : pc'[w] = pc[w] /\ run'[w] = run[w]
  BY DEF TypeOK
<1>3. MovesOn(v)
  BY <1>1 DEF MovesOn
<1> QED
  BY <1>2, <1>3, OneMover

LEMMA NextBookMoves ==
  ASSUME TypeOK, NEW v \in Workers, ~Idle(v), NextBook(v)
  PROVE  \A w \in Workers : MovesOn(w)
<1>1. /\ pc' = [pc EXCEPT ![v] = "run"]
      /\ run' = [run EXCEPT ![v].budget = IF @ = NoLimit THEN @ ELSE @ - 1]
  BY DEF NextBook
<1>2. run[v].budget = NoLimit => run'[v].budget = NoLimit
  BY <1>1 DEF TypeOK, Runs
<1>3. \A w \in Workers \ {v} : pc'[w] = pc[w] /\ run'[w] = run[w]
  BY <1>1 DEF TypeOK
<1>4. pc[v] # "off" /\ pc'[v] = "run"
  BY <1>1 DEF TypeOK, Idle
<1>5. MovesOn(v)
  BY <1>2, <1>4 DEF MovesOn
<1> QED
  BY <1>3, <1>5, OneMover

LEMMA WorkersMove ==
  ASSUME ArtInv, NEW v \in Workers,
         \/ Claims(v) \/ WipeFiles(v) \/ DownloadPdf(v) \/ DownloadMissing(v)
         \/ MirrorOriginal(v) \/ ExtractFiles(v) \/ NeedsOcrFiles(v) \/ IndexBook(v)
         \/ WrapupFiles(v) \/ Handled(v)
  PROVE  UNCHANGED rechunk /\ \A w \in Workers : MovesOn(w)
<1> DEFINE Moved == \A w \in Workers : MovesOn(w)
<1>0. TypeOK
  BY DEF ArtInv
<1>1. UNCHANGED rechunk
  BY DEF Claims, WipeFiles, DownloadPdf, DownloadMissing, MirrorOriginal, ExtractFiles,
         NeedsOcrFiles, DropPdf, IndexBook, WrapupFiles, Handled, files, calls
<1>2. CASE Claims(v) \/ Handled(v)
  <2>1. MovesOn(v)
    BY <1>2 DEF Claims, Handled, MovesOn
  <2>2. \E to, r : pc' = [pc EXCEPT ![v] = to] /\ run' = [run EXCEPT ![v] = r]
    <3>1. CASE StartAnyRun(v)
      BY <3>1 DEF StartAnyRun, StartRun
    <3>2. CASE StopRun(v) \/ RunDies(v)
      BY <3>2 DEF StopRun, RunDies, LeaveRun
    <3>3. CASE FailBook(v)
      BY <3>3 DEF FailBook, NextBook
    <3>4. ASSUME NEW i \in Ids, HandOut(v, i) PROVE pc' = [pc EXCEPT ![v] = "wipe"] /\ run' = run
      BY <3>4 DEF HandOut
    <3>5. ASSUME NEW i \in Ids, GiveUp(v, i) PROVE pc' = pc /\ run' = run
      BY <3>5 DEF GiveUp, workers
    <3>6. pc = [pc EXCEPT ![v] = pc[v]] /\ run = [run EXCEPT ![v] = run[v]]
      BY <1>0 DEF TypeOK
    <3> QED
      BY <1>2, <3>1, <3>2, <3>3, <3>4, <3>5, <3>6 DEF Claims, Handled, ClaimBook
  <2>3. \A w \in Workers \ {v} : pc'[w] = pc[w] /\ run'[w] = run[w]
    BY <1>0, <2>2 DEF TypeOK
  <2> QED
    BY <1>1, <2>1, <2>3, OneMover
<1>3. CASE WipeFiles(v) \/ DownloadPdf(v) \/ DownloadMissing(v) \/ MirrorOriginal(v)
  <2>1. PICK to : pc' = [pc EXCEPT ![v] = to] /\ run' = run
    BY <1>3 DEF WipeFiles, Wipe, DownloadPdf, Download, DownloadMismatch, DownloadMissing,
                MirrorOriginal, MarkDownloaded, Step
  <2>2. pc[v] \in {"wipe", "download", "mark"}
    BY <1>3 DEF WipeFiles, Wipe, DownloadPdf, Download, DownloadMismatch, DownloadMissing,
                MirrorOriginal, MarkDownloaded, Step
  <2> QED
    BY <1>0, <1>1, <2>1, <2>2, StageMoves
<1>4. CASE ExtractFiles(v)
  <2>1. pc[v] = "extract" /\ pc' = [pc EXCEPT ![v] = "touch_extracted"] /\ run' = run
    BY <1>4 DEF ExtractFiles, Extract, Step
  <2> QED
    BY <1>0, <1>1, <2>1, StageMoves
<1>5. CASE NeedsOcrFiles(v) \/ WrapupFiles(v)
  <2>1. NextBook(v) /\ ~Idle(v)
    BY <1>5 DEF NeedsOcrFiles, NeedsOcr, WrapupFiles, Wrapup, Idle
  <2> QED
    BY <1>0, <1>1, <2>1, NextBookMoves
<1>6. CASE IndexBook(v)
  <2>1. CASE Touch(v)
    <3>1. AfterTouch[pc[v]] \notin {"off", "wipe", "download", "mark"} /\ pc[v] # "off"
      BY <2>1 DEF Touch, AfterTouch
    <3>2. pc' = [pc EXCEPT ![v] = AfterTouch[pc[v]]] /\ run' = run
      BY <2>1 DEF Touch
    <3> QED
      BY <1>0, <1>1, <3>1, <3>2, StageMoves
  <2>2. CASE Chunk(v) \/ ChunkNothing(v) \/ FailBlank(v) \/ Finish(v) \/ FinishOrphan(v)
    <3>1. PICK to \in {"touch_chunked", "fail_blank", "wrapup", "poisoned"} :
            pc' = [pc EXCEPT ![v] = to] /\ run' = run /\ pc[v] # "off"
      BY <2>2 DEF Chunk, ChunkNothing, FailBlank, Finish, FinishOrphan, Step
    <3> QED
      BY <1>0, <1>1, <3>1, StageMoves
  <2>3. ASSUME NEW u \in Workers, FinishClash(v, u) PROVE Moved
    <3>1. /\ u # v /\ pc[v] = "finish" /\ pc[u] = "finish" /\ run' = run
          /\ pc' = [pc EXCEPT ![u] = "wrapup", ![v] = "poisoned"]
      BY <2>3 DEF FinishClash
    <3>2. /\ pc'[u] = "wrapup" /\ pc'[v] = "poisoned"
          /\ \A w \in Workers \ {u, v} : pc'[w] = pc[w]
      BY <1>0, <3>1 DEF TypeOK
    <3>3. MovesOn(u) /\ MovesOn(v) /\ \A w \in Workers \ {u, v} : MovesOn(w)
      BY <3>1, <3>2 DEF MovesOn
    <3> QED
      BY <3>3
  <2>4. CASE Raise(v)
    <3>1. pc' = [pc EXCEPT ![v] = "raised"] /\ run' = run /\ pc[v] # "off"
      BY <2>4, QueueAssumption DEF Raise, RaisingStages
    <3> QED
      BY <1>0, <1>1, <3>1, StageMoves
  <2> QED
    BY <1>1, <1>6, <2>1, <2>2, <2>3, <2>4 DEF IndexBook
<1> QED
  BY <1>1, <1>2, <1>3, <1>4, <1>5, <1>6

(* The steps of --rechunk itself, and a kill. *)
LEMMA RechunkMoves ==
  ASSUME ArtInv, TypeOK', nextId' >= nextId, NEW v \in Workers,
         \/ Killed(v) \/ StartRechunk(v) \/ ResetDone(v) \/ FetchRechunkable(v)
         \/ EndRechunk(v) \/ \E i \in Ids : RechunkBook(v, i) \/ RechunkSkips(v, i)
  PROVE  \A w \in Workers : RechunkFine(w)'
<1> USE DEF ArtInv, FilesOK, TypeOK
<1>0. /\ nextId \in Int /\ nextId' \in Int
      /\ \A w \in Workers : rechunk[w].todo \subseteq Int /\ RechunkFine(w)
  BY DEF Rechunks, Ids, RechunkOK
<1>1. ASSUME NEW to, NEW r, NEW run2, nextId' = nextId,
             pc' = [pc EXCEPT ![v] = to], rechunk' = [rechunk EXCEPT ![v] = r],
             run' = [run EXCEPT ![v] = run2],
             \/ r = NoRechunk /\ to = "off"
             \/ /\ r.at # "off" /\ v \in Rechunkers /\ run2.budget = NoLimit
                /\ to \notin {"off", "wipe", "download", "mark"}
                /\ \A i \in r.todo : i < nextId
      PROVE  \A w \in Workers : RechunkFine(w)'
  <2>1. pc'[v] = to /\ rechunk'[v] = r /\ run'[v] = run2
    BY <1>1
  <2>2. RechunkFine(v)'
    BY <1>1, <2>1 DEF RechunkFine, Rechunking, NoRechunk
  <2>3. ASSUME NEW w \in Workers \ {v} PROVE RechunkFine(w)'
    <3>1. pc'[w] = pc[w] /\ rechunk'[w] = rechunk[w] /\ run'[w] = run[w]
      BY <1>1, <2>3
    <3> QED
      BY <1>0, <1>1, <3>1 DEF RechunkFine, Rechunking
  <2> QED
    BY <2>2, <2>3
<1>2. pc = [pc EXCEPT ![v] = pc[v]] /\ run = [run EXCEPT ![v] = run[v]]
  OBVIOUS
<1>3. CASE Killed(v) \/ EndRechunk(v)
  <2>1. /\ nextId' = nextId
        /\ pc' = [pc EXCEPT ![v] = "off"] /\ run' = [run EXCEPT ![v] = NoRun]
        /\ rechunk' = [rechunk EXCEPT ![v] = NoRechunk]
    BY <1>3 DEF Killed, Crash, EndRechunk, LeaveRun, tables
  <2> QED
    BY <1>1, <2>1
<1>4. CASE StartRechunk(v)
  <2> DEFINE r == [rechunk[v] EXCEPT !.at = "reset"]
  <2>1. /\ nextId' = nextId /\ v \in Rechunkers
        /\ pc' = [pc EXCEPT ![v] = "run"]
        /\ run' = [run EXCEPT ![v] = [scope |-> AnySource, budget |-> NoLimit]]
        /\ rechunk' = [rechunk EXCEPT ![v] = r]
    BY <1>4 DEF StartRechunk, StartRun, tables
  <2>2. r.at = "reset" /\ r.todo = rechunk[v].todo
    BY DEF Rechunks
  <2> HIDE DEF r
  <2> QED
    BY <1>0, <1>1, <2>1, <2>2 DEF RechunkFine
<1>5. ASSUME NEW r, NEW to, Rechunking(v), nextId' = nextId, r.at # "off",
             r.todo \subseteq rechunk[v].todo \cup {i \in Ids : Exists(i)},
             pc' = [pc EXCEPT ![v] = to], to \notin {"off", "wipe", "download", "mark"},
             run' = run, rechunk' = [rechunk EXCEPT ![v] = r]
      PROVE  \A w \in Workers : RechunkFine(w)'
  <2>1. \A i \in r.todo : i < nextId
    BY <1>0, <1>5 DEF RechunkFine, TableOK, Ids
  <2>2. v \in Rechunkers /\ run[v].budget = NoLimit
    BY <1>0, <1>5 DEF RechunkFine
  <2> QED
    BY <1>1, <1>2, <1>5, <2>1, <2>2
<1>6. Rechunking(v) => pc[v] \notin {"off", "wipe", "download", "mark"}
  BY <1>0 DEF RechunkFine
<1>7. CASE ResetDone(v)
  <2> DEFINE r == [rechunk[v] EXCEPT !.at = "fetch"]
  <2>1. /\ nextId' = nextId /\ Rechunking(v) /\ pc' = pc /\ run' = run
        /\ rechunk' = [rechunk EXCEPT ![v] = r]
    BY <1>7 DEF ResetDone, workers, Rechunking
  <2>2. r.at = "fetch" /\ r.todo = rechunk[v].todo
    BY DEF Rechunks
  <2> HIDE DEF r
  <2> QED
    BY <1>2, <1>5, <1>6, <2>1, <2>2
<1>8. CASE FetchRechunkable(v)
  <2> DEFINE r == [at |-> "loop", todo |->
                     {i \in Ids : Exists(i) /\ books[i].status \in {"extracted", "chunked"}}]
  <2>1. /\ nextId' = nextId /\ Rechunking(v) /\ pc' = pc /\ run' = run
        /\ rechunk' = [rechunk EXCEPT ![v] = r]
    BY <1>8 DEF FetchRechunkable, vars, Rechunking
  <2>2. r.at = "loop" /\ r.todo \subseteq {i \in Ids : Exists(i)}
    OBVIOUS
  <2> HIDE DEF r
  <2> QED
    BY <1>2, <1>5, <1>6, <2>1, <2>2
<1>9. ASSUME NEW i \in Ids, RechunkBook(v, i) \/ RechunkSkips(v, i)
      PROVE  \A w \in Workers : RechunkFine(w)'
  <2> DEFINE r == [rechunk[v] EXCEPT !.todo = @ \ {i}]
  <2>1. /\ Rechunking(v) /\ rechunk[v].at = "loop" /\ nextId' = nextId /\ run' = run
        /\ rechunk' = [rechunk EXCEPT ![v] = r]
    BY <1>9 DEF RechunkBook, RechunkSkips, InTurn, Rechunking, tables, vars
  <2>2. pc' = [pc EXCEPT ![v] = "chunk"] \/ pc' = pc
    BY <1>9 DEF RechunkBook, RechunkSkips, vars
  <2>3. r.at = "loop" /\ r.todo \subseteq rechunk[v].todo
    BY <2>1 DEF Rechunks
  <2> HIDE DEF r
  <2> QED
    BY <1>2, <1>5, <1>6, <2>1, <2>2, <2>3
<1> QED
  BY <1>3, <1>4, <1>7, <1>8, <1>9

LEMMA RechunkStep ==
  ASSUME ArtInv, [ArtNext]_avars PROVE RechunkOK'
<1>0. TypeOK' /\ nextId' >= nextId
  BY QueueKept, OldIds DEF OldIdsStay
<1>1. ASSUME UNCHANGED rechunk, \A w \in Workers : MovesOn(w) PROVE RechunkOK'
  BY <1>0, <1>1, RechunkKept DEF MovesOn, RechunkOK
<1>2. ASSUME UNCHANGED <<pc, run, rechunk>> PROVE RechunkOK'
  BY <1>1, <1>2 DEF MovesOn
<1>3. CASE Elsewhere
  <2>1. UNCHANGED rechunk
    BY <1>3 DEF Elsewhere, files, calls
  <2>2. CASE Produce
    <3>1. UNCHANGED <<pc, run>>
      BY <2>2, ProduceIsUpsert DEF ArtInv, workers
    <3> QED
      BY <1>2, <2>1, <3>1
  <2>3. ASSUME NEW f \in DriveFiles, SyncMirror(f) \/ EditFile(f) PROVE RechunkOK'
    BY <1>2, <2>1, <2>3 DEF SyncMirror, EditFile, workers
  <2>4. ASSUME NEW i \in Ids, LeaseLapses(i) PROVE RechunkOK'
    BY <1>2, <2>1, <2>4 DEF LeaseLapses, workers
  <2>5. \/ Produce
        \/ \E f \in DriveFiles : SyncMirror(f) \/ EditFile(f)
        \/ \E i \in Ids : LeaseLapses(i)
    BY <1>3 DEF Elsewhere, Produce
  <2> QED
    BY <2>2, <2>3, <2>4, <2>5
<1>4. ASSUME NEW u \in Uploads,
             RegisterRow(u) \/ RegisterDies(u) \/ (\E h \in Hosts : RegisterCopy(u, h))
      PROVE  RechunkOK'
  BY <1>2, <1>4 DEF RegisterRow, RegisterUpload, RegisterDies, RegisterCopy, vars, workers
<1>5. ASSUME NEW i \in Ids,
             \/ \E h \in Hosts : PurgeRow(i, h) \/ OpenPdf(i, h)
             \/ PurgeFiles(i) \/ PurgeCheck(i) \/ PurgeObjects(i) \/ PurgeDies(i)
      PROVE  RechunkOK'
  BY <1>2, <1>5 DEF PurgeRow, Purge, OpenPdf, PurgeFiles, PurgeCheck, PurgeObjects, PurgeDies,
                    PurgeTo, vars, workers, calls
<1>6. ASSUME NEW v \in Workers,
             \/ Claims(v) \/ WipeFiles(v) \/ DownloadPdf(v) \/ DownloadMissing(v)
             \/ MirrorOriginal(v) \/ ExtractFiles(v) \/ NeedsOcrFiles(v) \/ IndexBook(v)
             \/ WrapupFiles(v) \/ Handled(v)
      PROVE  RechunkOK'
  BY <1>1, <1>6, WorkersMove
<1>7. ASSUME NEW v \in Workers,
             \/ Killed(v) \/ StartRechunk(v) \/ ResetDone(v) \/ FetchRechunkable(v)
             \/ EndRechunk(v) \/ \E i \in Ids : RechunkBook(v, i) \/ RechunkSkips(v, i)
      PROVE  RechunkOK'
  BY <1>0, <1>7, RechunkMoves DEF RechunkOK
<1>8. CASE UNCHANGED avars
  <2>1. UNCHANGED <<vars, files>>
    BY <1>8 DEF avars
  <2>2. UNCHANGED <<pc, run, rechunk>>
    BY <2>1 DEF vars, files, calls
  <2> QED
    BY <1>2, <2>2
<1> QED
  BY <1>3, <1>4, <1>5, <1>6, <1>7, <1>8 DEF ArtNext
-----------------------------------------------------------------------------
LEMMA InitArtInv == ArtInit => ArtInv
<1> SUFFICES ASSUME ArtInit PROVE ArtInv
  OBVIOUS
<1>1. TypeOK /\ TableOK /\ BusyOK
  BY InitQueueInv DEF ArtInit, QueueInv
<1>2. FilesOK
  BY DEF ArtInit, FilesOK, Texts, Buckets, Rechunks, NoRechunk
<1>3. PurgeOK
  BY DEF ArtInit, PurgeOK
<1>4. RechunkOK
  BY DEF ArtInit, Init, RechunkOK, RechunkFine, Rechunking, NoRechunk
<1> QED
  BY <1>1, <1>2, <1>3, <1>4 DEF ArtInv

LEMMA NextArtInv == ArtInv /\ [ArtNext]_avars => ArtInv'
BY QueueKept, FilesStep, PurgeStep, RechunkStep DEF ArtInv

LEMMA ArtInvariant == ArtSpec => []ArtInv
BY InitArtInv, NextArtInv, PTL DEF ArtSpec

(* The files, the bucket and what is under way on them keep their shape.   *)
THEOREM FilesTyped == ArtSpec => []FilesOK
<1>1. ArtInv => FilesOK
  BY DEF ArtInv
<1> QED
  BY <1>1, ArtInvariant, PTL

(* db.delete_book once more, with --rechunk, which holds no claim, among   *)
(* the workers: a purged book never answers again.                         *)
THEOREM PurgedForGoodByRechunk == ArtSpec => []PurgeIsFinal
<1>1. ArtInv => PurgeIsFinal
  BY DEF ArtInv, TableOK, PurgeIsFinal
<1> QED
  BY <1>1, ArtInvariant, PTL

(* Only the rest of a purge takes a text out of the bucket, and no row has *)
(* its id any more.                                                        *)
LEMMA TextStep ==
  ASSUME ArtInv, [ArtNext]_avars, NEW i \in Ids, Exists(i)', bucket.markdown[i] # NoDoc
  PROVE  bucket'.markdown[i] # NoDoc
<1> DEFINE Goal == bucket'.markdown[i] # NoDoc
<1>0. bucket \in Buckets
  BY DEF ArtInv, FilesOK
<1>1. ASSUME UNCHANGED bucket PROVE Goal
  BY <1>1
<1>2. CASE Elsewhere \/ UNCHANGED avars
  BY <1>1, <1>2 DEF Elsewhere, avars, files
<1>3. ASSUME NEW u \in Uploads,
             RegisterRow(u) \/ RegisterDies(u) \/ (\E h \in Hosts : RegisterCopy(u, h))
      PROVE  Goal
  BY <1>1, <1>3 DEF RegisterRow, RegisterDies, RegisterCopy
<1>4. ASSUME NEW j \in Ids, NEW h \in Hosts, OpenPdf(j, h) PROVE Goal
  BY <1>0, <1>4 DEF OpenPdf, Buckets
<1>5. ASSUME NEW j \in Ids,
             \/ \E h \in Hosts : PurgeRow(j, h)
             \/ PurgeFiles(j) \/ PurgeCheck(j) \/ PurgeDies(j)
      PROVE  Goal
  BY <1>1, <1>5 DEF PurgeRow, PurgeFiles, PurgeCheck, PurgeDies
<1>6. ASSUME NEW j \in Ids, PurgeObjects(j) PROVE Goal
  <2>1. PICK from, to \in PurgeStages \cup {"end"} : PurgeTo(j, from, to)
    BY <1>6 DEF PurgeObjects, PurgeStages
  <2>2. ~Exists(j) /\ UNCHANGED vars
    BY <2>1, PurgeGoesOn DEF PurgeTo
  <2>3. j # i
    BY <2>2 DEF vars, Exists
  <2> QED
    BY <1>0, <1>6, <2>3 DEF PurgeObjects, DropTexts, Buckets
<1>7. ASSUME NEW w \in Workers, MirrorOriginal(w) PROVE Goal
  BY <1>0, <1>7 DEF MirrorOriginal, Buckets
<1>8. ASSUME NEW w \in Workers, WrapupFiles(w) PROVE Goal
  <2>1. PICK up, text :
          bucket'.markdown = Stored(bucket.markdown, up /\ text # NoDoc, job[w].id, text)
    BY <1>0, <1>8 DEF WrapupFiles, Buckets
  <2> QED
    BY <1>0, <2>1 DEF Stored, Buckets
<1>9. ASSUME NEW w \in Workers,
             \/ Claims(w) \/ WipeFiles(w) \/ DownloadPdf(w) \/ DownloadMissing(w)
             \/ ExtractFiles(w) \/ NeedsOcrFiles(w) \/ IndexBook(w) \/ Handled(w)
      PROVE  Goal
  BY <1>1, <1>9 DEF Claims, WipeFiles, DownloadPdf, DownloadMissing, ExtractFiles,
                    NeedsOcrFiles, DropPdf, IndexBook, Handled, files
<1>10. ASSUME NEW w \in Workers,
              \/ Killed(w) \/ StartRechunk(w) \/ ResetDone(w) \/ FetchRechunkable(w)
              \/ EndRechunk(w) \/ \E j \in Ids : RechunkBook(w, j) \/ RechunkSkips(w, j)
       PROVE  Goal
  BY <1>1, <1>10 DEF Killed, StartRechunk, ResetDone, FetchRechunkable, EndRechunk,
                     RechunkBook, RechunkSkips
<1> QED
  BY <1>2, <1>3, <1>4, <1>5, <1>6, <1>7, <1>8, <1>9, <1>10 DEF ArtNext

(* purge_book takes the row first, and sync_outputs uploads no absent file:*)
(* text in the bucket stays as long as its row, through any purge that     *)
(* dies, failed upload or rechunk.                                         *)
THEOREM StoredForGood == ArtSpec => StoredTextStays
<1>1. ArtInv /\ [ArtNext]_avars =>
        [\A i \in Ids :
           Exists(i)' /\ bucket.markdown[i] # NoDoc => bucket'.markdown[i] # NoDoc]_avars
  BY TextStep
<1> QED
  BY <1>1, ArtInvariant, PTL DEF ArtSpec, StoredTextStays

-----------------------------------------------------------------------------
(***************************************************************************)
(* What the checksum of process_book and a --rechunk that never checks     *)
(* make of the copies of a book's text, under which md5 an original is     *)
(* stored, and why a book that is done keeps a copy of its text somewhere. *)
(***************************************************************************)

(* A worker that was handed its row by a claim knows the row's md5, as     *)
(* far as no upsert rewrites it; a --rechunk does not, and has the row's   *)
(* document in hand all the same.                                          *)
HandOK(w) ==
  /\ pc[w] \in InHand => doc[w] \in Docs /\ job[w].md5 \in {NoMd5, doc[w]}
  /\ Exists(job[w].id) /\ job[w].source_id \notin Resettable =>
       IF Rechunking(w)
         THEN pc[w] \in InHand /\ books[job[w].id].md5 # NoMd5 =>
                doc[w] = books[job[w].id].md5
         ELSE job[w].md5 = books[job[w].id].md5

HandsOK == \A w \in Workers : ~Idle(w) => HandOK(w)

(* The copies of a book's text, on every machine and in the bucket.        *)
Copies(i) == {bucket.markdown[i]} \cup {markdown[h][i] : h \in Hosts}

(* No text is stored under an id before the id is issued.                  *)
OnlyIssued == \A i \in Ids : i >= nextId => Copies(i) \subseteq {NoDoc}

(* What anybody has heard of a file that is never edited is its md5.       *)
HashedOK ==
  /\ \A f \in DriveFiles \ Edited :
       /\ mirror[f] \in {NoMd5, drive[f]}
       /\ adding[f] \in {NoAdd, Checked, NoMd5, drive[f]}
  /\ \A i \in Ids : Exists(i) /\ books[i].source_id \in DriveFiles \ Edited =>
       books[i].md5 \in {NoMd5, drive[books[i].source_id]}

CopyInv ==
  /\ ArtInv /\ ListingOK /\ Md5OK
  /\ HandsOK /\ OnlyIssued /\ CopiesVerified
  /\ HashedOK /\ OriginalNamesBytes
-----------------------------------------------------------------------------
(* What a row's identity does in a step of Artefacts.                      *)

(* The extra steps read no listing and rewrite no identity.                *)
LEMMA ExtraFrame ==
  ASSUME ArtInv, NEW w \in Workers, Extra(w)
  PROVE  /\ UNCHANGED <<nextId, chunks, outside>>
         /\ \A i \in Ids : SameIdentity(i)
<1>1. CASE ResetDone(w)
  BY <1>1, ResetShape DEF ArtInv, ResetDone
<1>2. CASE \/ DownloadMissing(w) \/ StartRechunk(w) \/ EndRechunk(w)
           \/ \E i \in Ids : RechunkBook(w, i)
  <2>1. UNCHANGED tables /\ UNCHANGED outside
    BY <1>2 DEF DownloadMissing, StartRechunk, StartRun, EndRechunk, RechunkBook
  <2> QED
    BY <2>1 DEF tables, SameIdentity, Exists
<1> QED
  BY <1>1, <1>2 DEF Extra

(* A row after a step is a new one at the counter, or the row there was,   *)
(* of the same file, whose md5 only an upsert of its file can change.      *)
LEMMA RowStep ==
  ASSUME ArtInv, ListingOK, Md5OK, [ArtNext]_avars, NEW i \in Ids, Exists(i)'
  PROVE  \/ ~Exists(i) /\ i >= nextId
         \/ /\ Exists(i)
            /\ books'[i].source_id = books[i].source_id
            /\ books[i].source_id \notin Resettable => books'[i].md5 = books[i].md5
<1> USE DEF ArtInv
<1>1. CASE \E w \in Workers : Extra(w)
  BY <1>1, ExtraFrame DEF SameIdentity
<1>2. CASE [Next]_vars /\ ~Produce
  BY <1>2, IdentityKept
<1>3. CASE Produce /\ Exists(i)
  <2>1. books'[i].source_id = books[i].source_id
    BY <1>3, ProduceIsUpsert, UpsertIdentity
  <2> QED
    BY <1>3, <2>1, ProduceKeeps
<1>4. CASE Produce /\ ~Exists(i)
  <2>1. i = nextId
    BY <1>4, NewRows
  <2> QED
    BY <1>4, <2>1 DEF TypeOK
<1> QED
  BY <1>1, <1>2, <1>3, <1>4, QueueSteps DEF Next

LEMMA ListingKept ==
  ASSUME ArtInv, ListingOK, Md5OK, [ArtNext]_avars
  PROVE  ListingOK' /\ Md5OK'
<1> USE DEF ArtInv
<1>1. CASE [Next]_vars
  BY <1>1, ListingStep, Md5Step
<1>2. ASSUME NEW w \in Workers, Extra(w) PROVE ListingOK' /\ Md5OK'
  BY <1>2, ExtraFrame DEF outside, SameIdentity, ListingOK, Md5OK, Exists
<1> QED
  BY <1>1, <1>2, QueueSteps
-----------------------------------------------------------------------------
(* What is in hand.                                                        *)

(* A worker that is at work after a step is as much a --rechunk as before. *)
LEMMA SameKind ==
  ASSUME ArtInv, [ArtNext]_avars, NEW w \in Workers, ~Idle(w)'
  PROVE  Rechunking(w)' <=> Rechunking(w)
<1> USE DEF ArtInv, TypeOK, FilesOK, Rechunking, Idle, Rechunks, files, calls
<1>1. CASE UNCHANGED rechunk
  BY <1>1
<1>2. ASSUME NEW v \in Workers, Killed(v) \/ EndRechunk(v)
      PROVE  rechunk' = [rechunk EXCEPT ![v] = NoRechunk] /\ v # w
  BY <1>2 DEF Killed, Crash, EndRechunk, LeaveRun
<1>3. ASSUME NEW v \in Workers, StartRechunk(v)
      PROVE  v # w /\ \E r : rechunk' = [rechunk EXCEPT ![v] = r]
  BY <1>3 DEF StartRechunk, StartRun
<1>4. ASSUME NEW v \in Workers,
             \/ ResetDone(v) \/ FetchRechunkable(v)
             \/ \E i \in Ids : RechunkBook(v, i) \/ RechunkSkips(v, i)
      PROVE  Rechunking(w)' <=> Rechunking(w)
  <2>1. CASE ResetDone(v)
    BY <2>1 DEF ResetDone
  <2>2. CASE FetchRechunkable(v)
    BY <2>2 DEF FetchRechunkable
  <2>3. ASSUME NEW i \in Ids, InTurn(v, i) PROVE Rechunking(w)' <=> Rechunking(w)
    BY <2>3 DEF InTurn
  <2> QED
    BY <1>4, <2>1, <2>2, <2>3 DEF RechunkBook, RechunkSkips
<1>5. ASSUME NEW v \in Workers,
             \/ Claims(v) \/ WipeFiles(v) \/ DownloadPdf(v) \/ DownloadMissing(v)
             \/ MirrorOriginal(v) \/ ExtractFiles(v) \/ NeedsOcrFiles(v) \/ IndexBook(v)
             \/ WrapupFiles(v) \/ Handled(v)
      PROVE  UNCHANGED rechunk
  BY <1>5, WorkersMove
<1>6. ASSUME NEW u \in Uploads,
             RegisterRow(u) \/ RegisterDies(u) \/ (\E h \in Hosts : RegisterCopy(u, h))
      PROVE  UNCHANGED rechunk
  BY <1>6 DEF RegisterRow, RegisterDies, RegisterCopy
<1>7. ASSUME NEW i \in Ids,
             \/ (\E h \in Hosts : PurgeRow(i, h) \/ OpenPdf(i, h))
             \/ PurgeFiles(i) \/ PurgeCheck(i) \/ PurgeObjects(i) \/ PurgeDies(i)
      PROVE  UNCHANGED rechunk
  BY <1>7 DEF PurgeRow, OpenPdf, PurgeFiles, PurgeCheck, PurgeObjects, PurgeDies, PurgeTo
<1>8. CASE Elsewhere \/ UNCHANGED avars
  BY <1>8 DEF Elsewhere, avars
<1> QED
  BY <1>1, <1>2, <1>3, <1>4, <1>5, <1>6, <1>7, <1>8 DEF ArtNext

(* A --rechunk downloads nothing: a document in its hand was there before. *)
LEMMA RechunkHand ==
  ASSUME ArtInv, [Next]_vars, NEW w \in Workers, ~Idle(w), ~Idle(w)', pc'[w] \in InHand,
         Rechunking(w)
  PROVE  pc[w] \in InHand /\ doc'[w] = doc[w]
<1> DEFINE Goal == pc[w] \in InHand /\ doc'[w] = doc[w]
<1>0. pc[w] \notin {"wipe", "download", "mark"} /\ TypeOK
  BY DEF ArtInv, RechunkOK, RechunkFine
<1> USE <1>0 DEF TypeOK, Idle, InHand
<1>1. CASE UNCHANGED <<pc, doc>>
  BY <1>1
<1>2. ASSUME NEW v \in Workers, ProcessBook(v) PROVE Goal
  <2>1. CASE Download(v)
    BY <2>1 DEF Download, Step
  <2>2. CASE \/ MarkDownloaded(v) \/ Extract(v) \/ Chunk(v) \/ ChunkNothing(v) \/ FailBlank(v)
             \/ Wipe(v) \/ DownloadMismatch(v) \/ Finish(v) \/ FinishOrphan(v)
    BY <2>2 DEF MarkDownloaded, Extract, Chunk, ChunkNothing, FailBlank, Wipe,
                DownloadMismatch, Finish, FinishOrphan, Step
  <2>3. CASE Touch(v)
    BY <2>3 DEF Touch, AfterTouch
  <2>4. CASE NeedsOcr(v) \/ Wrapup(v) \/ FailBook(v) \/ RunDies(v)
    BY <2>4 DEF NeedsOcr, Wrapup, FailBook, RunDies, NextBook, LeaveRun
  <2>5. ASSUME NEW u \in Workers, FinishClash(v, u) PROVE Goal
    BY <2>5 DEF FinishClash
  <2> QED
    BY <1>2, <2>1, <2>2, <2>3, <2>4, <2>5 DEF ProcessBook
<1>3. ASSUME NEW v \in Workers, Raise(v) \/ Crash(v) \/ StopRun(v) PROVE Goal
  BY <1>3 DEF Raise, Crash, StopRun, LeaveRun
<1>4. ASSUME NEW v \in Workers, ClaimBook(v) \/ StartAnyRun(v) PROVE Goal
  BY <1>4 DEF ClaimBook, HandOut, GiveUp, Claiming, StartAnyRun, StartRun, workers
<1>5. CASE Produce
  BY <1>1, <1>5, ProduceIsUpsert DEF workers
<1>6. CASE World
  BY <1>1, <1>6 DEF World, EditFile, SyncMirror, Purge, LeaseLapses, workers
<1>7. CASE UNCHANGED vars
  BY <1>1, <1>7 DEF vars
<1> QED
  BY <1>2, <1>3, <1>4, <1>5, <1>6, <1>7 DEF Next

(* The row of a book in hand is not a new one.                             *)
LEMMA HeldRow ==
  ASSUME ArtInv, ListingOK, Md5OK, [ArtNext]_avars, NEW i \in Ids, i < nextId, Exists(i)',
         books'[i].source_id \notin Resettable
  PROVE  /\ Exists(i) /\ books'[i].md5 = books[i].md5
         /\ books'[i].source_id = books[i].source_id
<1>1. i \in Int /\ nextId \in Int
  BY DEF ArtInv, TypeOK, Ids
<1> QED
  BY <1>1, RowStep

(* Whatever a worker keeps of the book it has, a worker that stays at it.  *)
LEMMA HandStays ==
  ASSUME ArtInv, ListingOK, Md5OK, [ArtNext]_avars, NEW w \in Workers, ~Idle(w), ~Idle(w)',
         HandOK(w), BusyWorker(w)', job'[w] = job[w],
         pc'[w] \in InHand => \/ pc[w] \in InHand /\ doc'[w] = doc[w]
                              \/ /\ ~Rechunking(w)
                                 /\ doc'[w] \in Docs /\ job[w].md5 \in {NoMd5, doc'[w]}
  PROVE  HandOK(w)'
<1>0. PICK i \in Ids : i = job[w].id
  BY DEF ArtInv, BusyOK, BusyWorker, Jobs
<1>1. /\ i < nextId
      /\ Exists(i)' => books'[i].source_id = job[w].source_id
      /\ Rechunking(w)' <=> Rechunking(w)
  BY <1>0, SameKind DEF ArtInv, BusyOK, BusyWorker, Exists
<1>2. pc'[w] \in InHand => doc'[w] \in Docs /\ job'[w].md5 \in {NoMd5, doc'[w]}
  BY DEF HandOK
<1>3. ASSUME Exists(i)', job[w].source_id \notin Resettable
      PROVE  IF Rechunking(w)
               THEN pc'[w] \in InHand /\ books'[i].md5 # NoMd5 => doc'[w] = books'[i].md5
               ELSE job[w].md5 = books'[i].md5
  BY <1>0, <1>1, <1>3, HeldRow DEF HandOK
<1> QED
  BY <1>0, <1>1, <1>2, <1>3 DEF HandOK, Exists, Rechunking

(* The document a --rechunk loads is the one its row names.                *)
LEMMA LoadedRight ==
  ASSUME ArtInv, CopiesVerified, NEW w \in Workers, NEW i \in Ids, RechunkBook(w, i),
         Exists(i), books[i].source_id \notin Resettable, books[i].md5 # NoMd5
  PROVE  doc'[w] = books[i].md5
<1>1. PICK up \in BOOLEAN : doc'[w] = Loaded(HostOf[w], i, up)
  BY TakenUp
<1>2. doc'[w] # NoDoc /\ HostOf[w] \in Hosts
  BY TakenUp, QueueAssumption, ArtefactsAssumption
<1>3. Copies(i) \subseteq {NoDoc, books[i].md5}
  BY DEF CopiesVerified, Copies
<1> QED
  BY <1>1, <1>2, <1>3 DEF Loaded, Fetched, Copies

LEMMA HandsStep ==
  ASSUME ArtInv, ListingOK, Md5OK, HandsOK, CopiesVerified, [ArtNext]_avars
  PROVE  HandsOK'
<1> SUFFICES ASSUME NEW w \in Workers, ~Idle(w)' PROVE HandOK(w)'
  BY DEF HandsOK
<1>0. ArtInv' /\ BusyWorker(w)'
  BY NextArtInv DEF ArtInv, BusyOK
<1>1. CASE [Next]_vars
  <2>1. CASE ~Idle(w) /\ job'[w] = job[w]
    <3>1. HandOK(w)
      BY <2>1 DEF HandsOK
    <3>2. pc'[w] \in InHand => \/ pc[w] \in InHand /\ doc'[w] = doc[w]
                               \/ /\ ~Rechunking(w)
                                  /\ doc'[w] \in Docs /\ job[w].md5 \in {NoMd5, doc'[w]}
      BY <1>1, <2>1, HandStep, RechunkHand DEF ArtInv
    <3> QED
      BY <1>0, <2>1, <3>1, <3>2, HandStays
  <2>2. ASSUME pc'[w] = "wipe",
               NEW i \in Ids,
               HandOut(w, i),
               job'[w] = [id |-> i, source_id |-> books[i].source_id, md5 |-> books[i].md5],
               books'[i].md5 = books[i].md5
        PROVE  HandOK(w)'
    <3>1. ~Rechunking(w)'
      BY <1>0, <2>2 DEF ArtInv, RechunkOK, RechunkFine
    <3> QED
      BY <2>2, <3>1 DEF HandOK, InHand
  <2> QED
    BY <1>1, <2>1, <2>2, JobStep DEF ArtInv
<1>2. ASSUME NEW v \in Workers, Extra(v) PROVE HandOK(w)'
  <2>1. CASE \/ UNCHANGED <<pc, job, doc>>
             \/ v # w /\ ~Idle(w) /\ pc'[w] = pc[w] /\ job'[w] = job[w] /\ doc'[w] = doc[w]
    BY <1>0, <2>1, HandStays DEF HandsOK, Idle
  <2>2. CASE DownloadMissing(v)
    <3>1. /\ job' = job /\ doc' = doc
          /\ pc[v] = "download" /\ pc' = [pc EXCEPT ![v] = "raised"] /\ pc \in [Workers -> Stages]
      BY <2>2 DEF DownloadMissing, Step, ArtInv, TypeOK
    <3>2. CASE v = w
      BY <1>0, <3>1, <3>2, HandStays DEF HandsOK, Idle, InHand
    <3> QED
      BY <2>1, <3>1, <3>2 DEF Idle
  <2>3. CASE StartRechunk(v) \/ EndRechunk(v)
    <3>1. v # w /\ pc'[w] = pc[w] /\ job'[w] = job[w] /\ doc'[w] = doc[w]
      BY <2>3 DEF StartRechunk, StartRun, EndRechunk, LeaveRun, ArtInv, TypeOK, Idle
    <3> QED
      BY <2>1, <3>1 DEF Idle
  <2>4. CASE ResetDone(v)
    BY <2>1, <2>4 DEF ResetDone, workers
  <2>5. ASSUME NEW i \in Ids, RechunkBook(v, i) PROVE HandOK(w)'
    <3>1. CASE v # w
      BY <2>1, <2>5, <3>1 DEF RechunkBook, ArtInv, TypeOK, Idle
    <3>2. CASE v = w
      <4>1. /\ doc'[w] \in Docs /\ job'[w].id = i /\ job'[w].md5 = NoMd5
            /\ pc'[w] = "chunk"
            /\ Exists(i) => job'[w].source_id = books[i].source_id
        BY <2>5, <3>2, TakenUp
      <4> books' = books
        BY <2>5 DEF RechunkBook, tables
      <4>2. Rechunking(w)'
        BY <2>5, <3>2 DEF RechunkBook, InTurn, Rechunking, ArtInv, FilesOK, Rechunks
      <4>3. Exists(i) /\ job'[w].source_id \notin Resettable /\ books[i].md5 # NoMd5
              => doc'[w] = books[i].md5
        BY <2>5, <3>2, <4>1, LoadedRight
      <4> QED
        BY <4>1, <4>2, <4>3 DEF HandOK, Exists, InHand
    <3> QED
      BY <3>1, <3>2
  <2> QED
    BY <1>2, <2>2, <2>3, <2>4, <2>5 DEF Extra
<1> QED
  BY <1>1, <1>2, QueueSteps
-----------------------------------------------------------------------------
(* The copies of a text.                                                   *)

(* A document in hand, of a row that is there and cannot be reset, is the  *)
(* one the row names.                                                      *)
LEMMA HandText ==
  ASSUME ArtInv, HandsOK, NEW w \in Workers, pc[w] \in InHand, NEW i \in Ids,
         job[w].id = i, Exists(i), books[i].source_id \notin Resettable,
         books[i].md5 # NoMd5
  PROVE  doc[w] = books[i].md5
<1>1. ~Idle(w)
  BY DEF Idle, InHand
<1>2. HandOK(w) /\ BusyWorker(w)
  BY <1>1 DEF HandsOK, ArtInv, BusyOK
<1> QED
  BY <1>2 DEF HandOK, BusyWorker

(* What a step may put among the copies of a text.                         *)
Extracted(i, d) == \E w \in Workers : pc[w] \in InHand /\ job[w].id = i /\ doc[w] = d

Kept(i) == Copies(i)' \subseteq Copies(i) \cup {NoDoc} \cup {d \in Docs : Extracted(i, d)}

(* Put rewrites one file.                                                  *)
LEMMA PutElse ==
  ASSUME NEW dir \in [Hosts -> [Ids -> Texts]], NEW h \in Hosts, NEW j \in Ids, NEW d,
         NEW k \in Hosts, NEW i \in Ids
  PROVE  Put(dir, h, j, d)[k][i] = IF k = h /\ i = j THEN d ELSE dir[k][i]
BY DEF Put

LEMMA CopyStep ==
  ASSUME ArtInv, [ArtNext]_avars, NEW i \in Ids PROVE Kept(i)
<1>0. /\ markdown \in [Hosts -> [Ids -> Texts]]
      /\ bucket.markdown \in [Ids -> Texts]
      /\ bucket \in Buckets
  BY DEF ArtInv, FilesOK, Buckets
<1>1. ASSUME bucket'.markdown = bucket.markdown, UNCHANGED markdown PROVE Kept(i)
  BY <1>1 DEF Kept, Copies
<1>2. ASSUME bucket'.markdown[i] \in Copies(i) \cup {NoDoc},
             NEW h \in Hosts, NEW j \in Ids, NEW d, markdown' = Put(markdown, h, j, d),
             i = j => d \in Copies(i) \cup {NoDoc} \cup {e \in Docs : Extracted(i, e)}
      PROVE  Kept(i)
  <2>1. ASSUME NEW k \in Hosts
        PROVE  markdown'[k][i] \in Copies(i) \cup {NoDoc} \cup {e \in Docs : Extracted(i, e)}
    <3>1. markdown'[k][i] = IF k = h /\ i = j THEN d ELSE markdown[k][i]
      BY <1>0, <1>2, PutElse
    <3> QED
      BY <1>2, <3>1 DEF Copies
  <2> QED
    BY <1>2, <2>1 DEF Kept, Copies
<1>3. ASSUME NEW w \in Workers, WrapupFiles(w) PROVE Kept(i)
  <2>1. ~Idle(w)
    BY <1>3 DEF WrapupFiles, Wrapup, Idle
  <2>2. HostOf[w] \in Hosts /\ job[w].id \in Ids
    BY <2>1, AtWork
  <2>3. PICK up, upText \in BOOLEAN :
          /\ bucket'.markdown = Stored(bucket.markdown, up, job[w].id,
                                       markdown[HostOf[w]][job[w].id])
          /\ markdown' = Put(markdown, HostOf[w], job[w].id,
                             Dropped(upText, markdown[HostOf[w]][job[w].id], NoDoc))
    <3>1. PICK upText \in BOOLEAN, upManifest \in BOOLEAN :
            /\ bucket' = [bucket EXCEPT
                 !.markdown = Stored(@, upText /\ markdown[HostOf[w]][job[w].id] # NoDoc,
                                     job[w].id, markdown[HostOf[w]][job[w].id]),
                 !.manifest = IF upManifest THEN @ \cup {job[w].id} ELSE @]
            /\ markdown' = Put(markdown, HostOf[w], job[w].id,
                               Dropped(upText, markdown[HostOf[w]][job[w].id], NoDoc))
      BY <1>3 DEF WrapupFiles
    <3> QED
      BY <1>0, <3>1 DEF Buckets
  <2>4. bucket'.markdown[i] \in Copies(i) \cup {NoDoc}
    BY <1>0, <2>2, <2>3 DEF Stored, Copies
  <2> QED
    BY <1>2, <2>2, <2>3, <2>4 DEF Dropped, Copies
<1>4. ASSUME NEW w \in Workers, ExtractFiles(w) PROVE Kept(i)
  <2>1. ~Idle(w) /\ pc[w] \in InHand
    BY <1>4 DEF ExtractFiles, Extract, Step, Idle, InHand
  <2>2. HostOf[w] \in Hosts /\ job[w].id \in Ids /\ doc[w] \in Texts
    BY <2>1, AtWork
  <2>3. UNCHANGED bucket /\ markdown' = Put(markdown, HostOf[w], job[w].id, doc[w])
    BY <1>4 DEF ExtractFiles, DropPdf
  <2>4. bucket'.markdown[i] \in Copies(i)
    BY <2>3 DEF Copies
  <2>5. i = job[w].id => doc[w] \in {NoDoc} \cup {e \in Docs : Extracted(i, e)}
    BY <2>1, <2>2 DEF Extracted, Texts
  <2> QED
    BY <1>2, <2>2, <2>3, <2>4, <2>5
<1>5. ASSUME NEW w \in Workers, WipeFiles(w) PROVE Kept(i)
  <2>1. ~Idle(w)
    BY <1>5 DEF WipeFiles, Wipe, Step, Idle
  <2>2. HostOf[w] \in Hosts /\ job[w].id \in Ids
    BY <2>1, AtWork
  <2>3. UNCHANGED bucket /\ markdown' = Put(markdown, HostOf[w], job[w].id, NoDoc)
    BY <1>5 DEF WipeFiles
  <2>4. bucket'.markdown[i] \in Copies(i)
    BY <2>3 DEF Copies
  <2> QED
    BY <1>2, <2>2, <2>3, <2>4
<1>6. ASSUME NEW j \in Ids, PurgeFiles(j) PROVE Kept(i)
  <2>1. purging[j] \in Purges
    BY <1>6 DEF PurgeFiles, PurgeTo, ArtInv, PurgeOK
  <2>2. purging[j].host \in Hosts
    BY <2>1 DEF Purges
  <2>3. UNCHANGED bucket /\ markdown' = Put(markdown, purging[j].host, j, NoDoc)
    BY <1>6 DEF PurgeFiles
  <2>4. bucket'.markdown[i] \in Copies(i)
    BY <2>3 DEF Copies
  <2> QED
    BY <1>2, <2>2, <2>3, <2>4
<1>7. ASSUME NEW j \in Ids, PurgeObjects(j) PROVE Kept(i)
  <2>1. /\ UNCHANGED markdown
        /\ bucket'.markdown \in {bucket.markdown, [bucket.markdown EXCEPT ![j] = NoDoc]}
    BY <1>0, <1>7 DEF PurgeObjects, DropTexts, local, Buckets
  <2> QED
    BY <1>0, <2>1 DEF Kept, Copies
<1>8. ASSUME NEW w \in Workers, MirrorOriginal(w) PROVE Kept(i)
  BY <1>0, <1>1, <1>8 DEF MirrorOriginal, local, Buckets
<1>9. ASSUME NEW j \in Ids, NEW h \in Hosts, OpenPdf(j, h) PROVE Kept(i)
  BY <1>0, <1>1, <1>9 DEF OpenPdf, Buckets
<1>10. ASSUME NEW j \in Ids,
              (\E h \in Hosts : PurgeRow(j, h)) \/ PurgeCheck(j) \/ PurgeDies(j)
       PROVE  Kept(i)
  BY <1>1, <1>10 DEF PurgeRow, PurgeCheck, PurgeDies, local
<1>11. ASSUME NEW w \in Workers, DownloadPdf(w) \/ NeedsOcrFiles(w) PROVE Kept(i)
  BY <1>1, <1>11 DEF DownloadPdf, NeedsOcrFiles, DropPdf
<1>12. ASSUME NEW w \in Workers,
              Claims(w) \/ DownloadMissing(w) \/ IndexBook(w) \/ Handled(w)
       PROVE  Kept(i)
  BY <1>1, <1>12 DEF Claims, DownloadMissing, IndexBook, Handled, files, local
<1>13. ASSUME NEW w \in Workers,
              \/ Killed(w) \/ StartRechunk(w) \/ ResetDone(w) \/ FetchRechunkable(w)
              \/ EndRechunk(w) \/ \E j \in Ids : RechunkBook(w, j) \/ RechunkSkips(w, j)
       PROVE  Kept(i)
  BY <1>1, <1>13 DEF Killed, StartRechunk, ResetDone, FetchRechunkable, EndRechunk,
                     RechunkBook, RechunkSkips, local
<1>14. ASSUME NEW u \in Uploads,
              RegisterRow(u) \/ RegisterDies(u) \/ (\E h \in Hosts : RegisterCopy(u, h))
       PROVE  Kept(i)
  BY <1>1, <1>14 DEF RegisterRow, RegisterDies, RegisterCopy, local
<1>15. CASE Elsewhere \/ UNCHANGED avars
  BY <1>1, <1>15 DEF Elsewhere, avars, files, local
<1> QED
  BY <1>3, <1>4, <1>5, <1>6, <1>7, <1>8, <1>9, <1>10, <1>11, <1>12, <1>13, <1>14, <1>15
     DEF ArtNext

(* A text that a step stores is under an id that was issued.               *)
LEMMA IssuedStep ==
  ASSUME ArtInv, OnlyIssued, [ArtNext]_avars PROVE OnlyIssued'
<1> SUFFICES ASSUME NEW i \in Ids, i >= nextId' PROVE Copies(i)' \subseteq {NoDoc}
  BY DEF OnlyIssued
<1>1. i >= nextId
  BY OldIds, QueueKept DEF ArtInv, OldIdsStay, TypeOK, Ids
<1>2. Copies(i) \subseteq {NoDoc} /\ Kept(i)
  BY <1>1, CopyStep DEF OnlyIssued
<1>3. ASSUME NEW d, Extracted(i, d) PROVE FALSE
  <2>1. PICK w \in Workers : pc[w] \in InHand /\ job[w].id = i
    BY <1>3 DEF Extracted
  <2>2. ~Idle(w)
    BY <2>1 DEF Idle, InHand
  <2> QED
    BY <1>1, <2>1, <2>2, AtWork
<1> QED
  BY <1>2, <1>3 DEF Kept

(* A copy or a chunk was there before, or was cut or extracted from what a *)
(* worker has in hand.                                                     *)
LEMMA CopiesStep ==
  ASSUME ArtInv, ListingOK, Md5OK, HandsOK, OnlyIssued, CopiesVerified, [ArtNext]_avars
  PROVE  CopiesVerified'
<1> SUFFICES ASSUME NEW i \in Ids, Exists(i)', books'[i].source_id \notin Resettable,
                    books'[i].md5 # NoMd5
             PROVE  Copies(i)' \cup {chunks'[i]} \subseteq {NoDoc, books'[i].md5}
  BY DEF CopiesVerified, Copies, Exists
<1>0. TypeOK /\ TableOK
  BY DEF ArtInv
<1>1. Kept(i)
  BY CopyStep
<1>2. chunks'[i] \in {chunks[i], NoDoc} \cup {d \in Docs : Extracted(i, d)}
  <2>1. CASE [Next]_vars
    <3>1. ASSUME NEW w \in Workers, pc[w] = "finish", job[w].id = i, chunks'[i] = doc[w]
          PROVE  chunks'[i] \in {NoDoc} \cup {d \in Docs : Extracted(i, d)}
      BY <1>0, <3>1 DEF TypeOK, Extracted, InHand
    <3> QED
      BY <1>0, <2>1, <3>1, ChunkStep
  <2>2. CASE \E w \in Workers : Extra(w)
    BY <2>2, ExtraFrame
  <2> QED
    BY <2>1, <2>2, QueueSteps
<1>3. CASE ~Exists(i) /\ i >= nextId
  <2>1. Copies(i) \subseteq {NoDoc} /\ chunks[i] = NoDoc
    BY <1>0, <1>3 DEF OnlyIssued, TableOK
  <2>2. ASSUME NEW d, Extracted(i, d) PROVE FALSE
    <3>1. PICK w \in Workers : pc[w] \in InHand /\ job[w].id = i
      BY <2>2 DEF Extracted
    <3>2. ~Idle(w)
      BY <3>1 DEF Idle, InHand
    <3> QED
      BY <1>3, <3>1, <3>2, AtWork
  <2> QED
    BY <1>1, <1>2, <2>1, <2>2 DEF Kept
<1>4. CASE /\ Exists(i)
           /\ books'[i].source_id = books[i].source_id
           /\ books[i].source_id \notin Resettable => books'[i].md5 = books[i].md5
  <2>1. Copies(i) \cup {chunks[i]} \subseteq {NoDoc, books[i].md5}
    BY <1>4 DEF CopiesVerified, Copies
  <2>2. ASSUME NEW d, Extracted(i, d) PROVE d = books[i].md5
    BY <1>4, <2>2, HandText DEF Extracted
  <2> QED
    BY <1>1, <1>2, <1>4, <2>1, <2>2 DEF Kept
<1> QED
  BY <1>3, <1>4, RowStep
-----------------------------------------------------------------------------
(* Originals.                                                              *)

LEMMA HashedStep ==
  ASSUME ArtInv, HashedOK, [ArtNext]_avars PROVE HashedOK'
<1> USE DEF ArtInv
<1>1. ASSUME NEW f \in DriveFiles \ Edited
      PROVE  /\ drive'[f] = drive[f]
             /\ mirror'[f] \in {NoMd5, drive[f]}
             /\ adding'[f] \in {NoAdd, Checked, NoMd5, drive[f]}
  <2> DEFINE Goal == /\ drive'[f] = drive[f]
                     /\ mirror'[f] \in {NoMd5, drive[f]}
                     /\ adding'[f] \in {NoAdd, Checked, NoMd5, drive[f]}
  <2>1. ASSUME UNCHANGED outside PROVE Goal
    BY <1>1, <2>1 DEF outside, HashedOK
  <2>2. ASSUME NEW g \in DriveFiles, AddCheck(g) \/ AddUpsert(g) \/ AddAbort(g) PROVE Goal
    BY <1>1, <2>2 DEF AddCheck, AddUpsert, AddAbort, HashedOK, TypeOK
  <2>3. ASSUME NEW g \in DriveFiles, AddFetch(g) PROVE Goal
    BY <1>1, <2>3 DEF AddFetch, Listed, HashedOK, TypeOK
  <2>4. ASSUME NEW g \in DriveFiles, EditFile(g) \/ SyncMirror(g) PROVE Goal
    BY <1>1, <2>4 DEF EditFile, SyncMirror, Listed, HashedOK, TypeOK
  <2>5. ASSUME NEW w \in Workers, ProcessBook(w) \/ Raise(w) \/ Crash(w) \/ StopRun(w)
        PROVE  UNCHANGED outside
    BY <2>5, WorkFrame
  <2>6. ASSUME NEW w \in Workers, ClaimBook(w) \/ StartAnyRun(w) PROVE UNCHANGED outside
    BY <2>6 DEF ClaimBook, HandOut, GiveUp, StartAnyRun, StartRun
  <2>7. ASSUME NEW g \in DriveFiles, QueueFromMirror(g) PROVE UNCHANGED outside
    BY <2>7 DEF QueueFromMirror
  <2>8. ASSUME NEW u \in Uploads, RegisterUpload(u) PROVE UNCHANGED outside
    BY <2>8 DEF RegisterUpload
  <2>9. ASSUME NEW i \in Ids, Purge(i) \/ LeaseLapses(i) PROVE UNCHANGED outside
    BY <2>9 DEF Purge, LeaseLapses
  <2>10. ASSUME UNCHANGED vars PROVE UNCHANGED outside
    BY <2>10 DEF vars, outside
  <2>11. ASSUME NEW w \in Workers, Extra(w) PROVE UNCHANGED outside
    BY <2>11, ExtraFrame
  <2> HIDE DEF Goal
  <2>12. ASSUME Produce PROVE Goal
    BY <2>1, <2>2, <2>3, <2>7, <2>8, <2>12 DEF Produce
  <2>13. ASSUME World PROVE Goal
    BY <2>1, <2>4, <2>9, <2>13 DEF World
  <2>14. Goal
    BY <2>1, <2>5, <2>6, <2>10, <2>11, <2>12, <2>13, QueueSteps DEF Next
  <2> QED
    BY <2>14 DEF Goal
<1>2. ASSUME NEW i \in Ids, Exists(i)', books'[i].source_id \in DriveFiles \ Edited
      PROVE  books'[i].md5 \in {NoMd5, drive[books'[i].source_id]}
  <2> DEFINE Goal == books'[i].md5 \in {NoMd5, drive[books'[i].source_id]}
  <2>1. CASE /\ Exists(i)
             /\ books'[i].source_id = books[i].source_id
             /\ books'[i].md5 = books[i].md5
    BY <1>2, <2>1 DEF HashedOK
  <2>2. CASE \E w \in Workers : Extra(w)
    BY <1>2, <2>1, <2>2, ExtraFrame DEF SameIdentity
  <2>3. CASE [Next]_vars /\ ~Produce
    BY <1>2, <2>1, <2>3, IdentityKept
  <2>4. ASSUME NEW s \in Sources, NEW m \in Md5s, UpsertBook(s, m),
               s \in DriveFiles \ Edited => m \in {NoMd5, drive[s]}
        PROVE  Goal
    <3>1. CASE books'[i] = books[i]
      BY <1>2, <2>1, <3>1 DEF Exists
    <3>2. CASE books'[i] = NewRow(s, m)
      BY <1>2, <2>4, <3>2 DEF NewRow
    <3>3. CASE /\ i \in IdsOf(s) /\ books'[i] = Upserted(books[i], m)
      <4>1. books[i] \in Row /\ books[i].source_id = s
        BY <3>3, RowsAreRows DEF IdsOf
      <4>2. books'[i].md5 = m /\ books'[i].source_id = s
        BY <3>3, <4>1 DEF Upserted, Row
      <4> QED
        BY <1>2, <2>4, <4>2
    <3> QED
      BY <2>4, <3>1, <3>2, <3>3 DEF UpsertBook, Insert, TypeOK, IdsOf
  <2>5. ASSUME NEW u \in Uploads, RegisterUpload(u) PROVE Goal
    BY <2>4, <2>5, RowAssumption DEF RegisterUpload, Sources, Md5s
  <2>6. ASSUME NEW f \in DriveFiles, QueueFromMirror(f) PROVE Goal
    BY <2>4, <2>6 DEF QueueFromMirror, UpsertBook, HashedOK, TypeOK, Sources
  <2>7. ASSUME NEW f \in DriveFiles, AddUpsert(f) PROVE Goal
    BY <2>4, <2>7, QueueAssumption DEF AddUpsert, HashedOK, Sources
  <2>8. ASSUME NEW f \in DriveFiles, AddCheck(f) \/ AddFetch(f) \/ AddAbort(f) PROVE Goal
    BY <1>2, <2>1, <2>8 DEF AddCheck, AddFetch, AddAbort, tables, Exists
  <2> QED
    BY <2>2, <2>3, <2>5, <2>6, <2>7, <2>8, QueueSteps DEF Next, Produce
<1> QED
  BY <1>1, <1>2 DEF HashedOK, Exists

(* An original is stored under its own md5: a worker checked it, and a     *)
(* viewer fetches no file that is edited.                                  *)
LEMMA OriginalStep ==
  ASSUME ArtInv, HandsOK, HashedOK, OriginalNamesBytes, [ArtNext]_avars
  PROVE  OriginalNamesBytes'
<1> SUFFICES ASSUME Viewed \cap Edited = {}, NEW m \in Docs
             PROVE  bucket'.original[m] \in {NoDoc, m}
  BY DEF OriginalNamesBytes
<1> DEFINE Goal == bucket'.original[m] \in {NoDoc, m}
<1>0. bucket \in Buckets /\ bucket.original[m] \in {NoDoc, m}
  BY DEF ArtInv, FilesOK, OriginalNamesBytes
<1>1. ASSUME bucket'.original = bucket.original PROVE Goal
  BY <1>0, <1>1
<1>2. ASSUME NEW w \in Workers, MirrorOriginal(w) PROVE Goal
  <2>1. ~Idle(w) /\ pc[w] \in InHand
    BY <1>2 DEF MirrorOriginal, MarkDownloaded, Step, Idle, InHand
  <2>2. doc[w] \in Docs /\ job[w].md5 \in {NoMd5, doc[w]}
    BY <2>1 DEF HandsOK, HandOK
  <2>3. PICK up \in BOOLEAN :
          bucket' = [bucket EXCEPT !.original = Stored(@, up, doc[w], doc[w])]
    BY <1>2, <2>2 DEF MirrorOriginal
  <2> QED
    BY <1>0, <2>2, <2>3 DEF Stored, Buckets
<1>3. ASSUME NEW i \in Ids, NEW h \in Hosts, OpenPdf(i, h) PROVE Goal
  <2>1. CASE UNCHANGED bucket
    BY <1>1, <2>1
  <2>2. CASE /\ books[i].md5 # NoMd5
             /\ bucket' = [bucket EXCEPT !.original[books[i].md5] = drive[books[i].source_id]]
    <3>1. /\ books[i].source_id \in DriveFiles \ Edited
          /\ Exists(i)
      BY <1>3, ArtefactsAssumption DEF OpenPdf
    <3>2. drive[books[i].source_id] = books[i].md5
      BY <2>2, <3>1 DEF HashedOK
    <3> QED
      BY <1>0, <2>2, <3>2 DEF Buckets
  <2> QED
    BY <1>3, <2>1, <2>2 DEF OpenPdf
<1>4. ASSUME NEW i \in Ids, PurgeObjects(i) PROVE Goal
  BY <1>0, <1>4 DEF PurgeObjects, DropTexts, Stored, Buckets
<1>5. ASSUME NEW w \in Workers, WrapupFiles(w) PROVE Goal
  BY <1>0, <1>1, <1>5 DEF WrapupFiles, Buckets
<1>6. ASSUME NEW j \in Ids,
             (\E h \in Hosts : PurgeRow(j, h)) \/ PurgeFiles(j) \/ PurgeCheck(j) \/ PurgeDies(j)
      PROVE  Goal
  BY <1>1, <1>6 DEF PurgeRow, PurgeFiles, PurgeCheck, PurgeDies
<1>7. ASSUME NEW w \in Workers,
             \/ Claims(w) \/ WipeFiles(w) \/ DownloadPdf(w) \/ DownloadMissing(w)
             \/ ExtractFiles(w) \/ NeedsOcrFiles(w) \/ IndexBook(w) \/ Handled(w)
      PROVE  Goal
  BY <1>1, <1>7 DEF Claims, WipeFiles, DownloadPdf, DownloadMissing, ExtractFiles,
                    NeedsOcrFiles, DropPdf, IndexBook, Handled, files
<1>8. ASSUME NEW w \in Workers,
             \/ Killed(w) \/ StartRechunk(w) \/ ResetDone(w) \/ FetchRechunkable(w)
             \/ EndRechunk(w) \/ \E j \in Ids : RechunkBook(w, j) \/ RechunkSkips(w, j)
      PROVE  Goal
  BY <1>1, <1>8 DEF Killed, StartRechunk, ResetDone, FetchRechunkable, EndRechunk,
                    RechunkBook, RechunkSkips
<1>9. ASSUME NEW u \in Uploads,
             RegisterRow(u) \/ RegisterDies(u) \/ (\E h \in Hosts : RegisterCopy(u, h))
      PROVE  Goal
  BY <1>1, <1>9 DEF RegisterRow, RegisterDies, RegisterCopy
<1>10. CASE Elsewhere \/ UNCHANGED avars
  BY <1>1, <1>10 DEF Elsewhere, avars, files
<1> QED
  BY <1>2, <1>3, <1>4, <1>5, <1>6, <1>7, <1>8, <1>9, <1>10 DEF ArtNext
-----------------------------------------------------------------------------
LEMMA InitCopyInv == ArtInit => CopyInv
<1> SUFFICES ASSUME ArtInit PROVE CopyInv
  OBVIOUS
<1>1. ArtInv /\ ListingOK /\ Md5OK
  BY InitArtInv, InitQueueInv DEF ArtInit, QueueInv
<1>2. HandsOK
  BY DEF ArtInit, Init, HandsOK, Idle
<1>3. OnlyIssued
  BY DEF ArtInit, OnlyIssued, Copies
<1>4. CopiesVerified /\ OriginalNamesBytes
  BY DEF ArtInit, Init, CopiesVerified, OriginalNamesBytes, Exists
<1>5. HashedOK
  BY DEF ArtInit, Init, HashedOK, Exists, Listed
<1> QED
  BY <1>1, <1>2, <1>3, <1>4, <1>5 DEF CopyInv

LEMMA NextCopyInv == CopyInv /\ [ArtNext]_avars => CopyInv'
BY NextArtInv, ListingKept, HandsStep, IssuedStep, CopiesStep, HashedStep, OriginalStep
   DEF CopyInv

LEMMA CopyInvariant == ArtSpec => []CopyInv
BY InitCopyInv, NextCopyInv, PTL DEF ArtSpec

(* process_book's checksum covers every copy of a text, local or in the    *)
(* bucket, and the chunks a --rechunk cuts from one unchecked: none was    *)
(* ever made from bytes other than those the row's md5 names.              *)
THEOREM CopiesAreVerified == ArtSpec => []CopiesVerified
<1>1. CopyInv => CopiesVerified
  BY DEF CopyInv
<1> QED
  BY <1>1, CopyInvariant, PTL

(* Where no file the viewer fetches is edited, an original in the bucket   *)
(* is named by the md5 of its own bytes.                                   *)
THEOREM OriginalsNamed == ArtSpec => []OriginalNamesBytes
<1>1. CopyInv => OriginalNamesBytes
  BY DEF CopyInv
<1> QED
  BY <1>1, CopyInvariant, PTL
-----------------------------------------------------------------------------
(* The last copy of a text.                                                *)

(* No --rechunk shares a machine with a worker that claims.                *)
Apart == \A r \in Rechunkers, w \in Workers \ Rechunkers : HostOf[r] # HostOf[w]

TextAt(i, h) == bucket.markdown[i] # NoDoc \/ markdown[h][i] # NoDoc

(* The stages of a book whose markdown is written and not yet synced.      *)
WithText == {"touch_extracted", "chunk", "touch_chunked", "finish"}

Claimant(w, i) == Holds(w, i) /\ ~Rechunking(w)

(* A steady book in the hands of a worker that claimed it has its lease,   *)
(* and no other worker claimed it; a --rechunk may have it as well.        *)
LeaseOK(i) ==
  Steady(i) =>
    \A w \in Workers : Claimant(w, i) =>
      /\ books[i].claim = "fresh"
      /\ \A v \in Workers : Claimant(v, i) => v = w

(* Whoever is about to index a book has its text at hand, and the text of  *)
(* a book that is done is where no worker is about to wipe it.             *)
TextOK(i) ==
  Steady(i) =>
    /\ \A w \in Workers : Holds(w, i) /\ pc[w] \in WithText => TextAt(i, HostOf[w])
    /\ books[i].status = "done" =>
         \E h \in Hosts :
           /\ TextAt(i, h)
           /\ \A w \in Workers : Holds(w, i) /\ pc[w] = "wipe" => h # HostOf[w]

KeepInv ==
  /\ CopyInv
  /\ \A i \in Ids : LeaseOK(i)
  /\ Apart => \A i \in Ids : TextOK(i)

(* A worker that wipes has claimed its book: a --rechunk wipes nothing.    *)
LEMMA WipersClaim ==
  ASSUME ArtInv, NEW w \in Workers, pc[w] = "wipe"
  PROVE  w \notin Rechunkers /\ ~Rechunking(w) /\ ~Idle(w)
BY DEF ArtInv, RechunkOK, RechunkFine, Idle

(* What ExtractFiles writes.                                               *)
LEMMA Extracting ==
  ASSUME ArtInv, HandsOK, NEW w \in Workers, ExtractFiles(w)
  PROVE  /\ doc[w] # NoDoc /\ HostOf[w] \in Hosts /\ job[w].id \in Ids
         /\ pc[w] = "extract" /\ pc'[w] = "touch_extracted" /\ job'[w] = job[w] /\ ~Idle(w)
<1>1. pc[w] = "extract" /\ pc'[w] = "touch_extracted" /\ job' = job
  BY DEF ExtractFiles, Extract, Step, ArtInv, TypeOK
<1>2. ~Idle(w) /\ pc[w] \in InHand
  BY <1>1 DEF Idle, InHand
<1>3. doc[w] \in Docs
  BY <1>2 DEF HandsOK, HandOK
<1> QED
  BY <1>1, <1>2, <1>3, AtWork, QueueAssumption

(* Nothing but a wipe takes a text off a machine and leaves it out of the  *)
(* bucket, as long as its row is there.                                    *)
LEMMA TextStays ==
  ASSUME ArtInv, HandsOK, [ArtNext]_avars, NEW i \in Ids, Exists(i)', NEW h \in Hosts,
         TextAt(i, h), \A w \in Workers : WipeFiles(w) => ~(job[w].id = i /\ HostOf[w] = h)
  PROVE  TextAt(i, h)'
<1>0. /\ markdown \in [Hosts -> [Ids -> Texts]]
      /\ bucket \in Buckets
  BY DEF ArtInv, FilesOK
<1>1. CASE bucket.markdown[i] # NoDoc
  BY <1>1, TextStep DEF TextAt
<1>2. ASSUME UNCHANGED markdown PROVE TextAt(i, h)'
  BY <1>1, <1>2 DEF TextAt
<1>3. ASSUME NEW w \in Workers, WrapupFiles(w) PROVE TextAt(i, h)'
  <2> DEFINE text == markdown[HostOf[w]][job[w].id]
  <2>1. ~Idle(w)
    BY <1>3 DEF WrapupFiles, Wrapup, Idle
  <2>2. HostOf[w] \in Hosts /\ job[w].id \in Ids
    BY <2>1, AtWork
  <2>3. PICK upText \in BOOLEAN :
          /\ bucket'.markdown = Stored(bucket.markdown, upText /\ text # NoDoc, job[w].id, text)
          /\ markdown' = Put(markdown, HostOf[w], job[w].id, Dropped(upText, text, NoDoc))
    <3>1. PICK upText \in BOOLEAN, upManifest \in BOOLEAN :
            /\ bucket' = [bucket EXCEPT
                 !.markdown = Stored(@, upText /\ text # NoDoc, job[w].id, text),
                 !.manifest = IF upManifest THEN @ \cup {job[w].id} ELSE @]
            /\ markdown' = Put(markdown, HostOf[w], job[w].id, Dropped(upText, text, NoDoc))
      BY <1>3 DEF WrapupFiles
    <3> QED
      BY <1>0, <3>1 DEF Buckets
  <2>4. bucket.markdown \in [Ids -> Texts]
    BY <1>0 DEF Buckets
  <2>5. markdown'[h][i] = IF h = HostOf[w] /\ i = job[w].id
                            THEN Dropped(upText, text, NoDoc) ELSE markdown[h][i]
    BY <1>0, <2>2, <2>3, PutElse
  <2>6. CASE h = HostOf[w] /\ i = job[w].id /\ upText /\ text # NoDoc
    BY <2>3, <2>4, <2>6 DEF Stored, TextAt
  <2>7. CASE h = HostOf[w] /\ i = job[w].id /\ ~(upText /\ text # NoDoc)
    BY <1>1, <2>5, <2>7 DEF Dropped, TextAt
  <2>8. CASE ~(h = HostOf[w] /\ i = job[w].id)
    BY <1>1, <2>5, <2>8 DEF TextAt
  <2> QED
    BY <2>6, <2>7, <2>8
<1>4. ASSUME NEW w \in Workers, ExtractFiles(w) PROVE TextAt(i, h)'
  <2>1. doc[w] # NoDoc /\ HostOf[w] \in Hosts /\ job[w].id \in Ids
    BY <1>4, Extracting
  <2>2. markdown' = Put(markdown, HostOf[w], job[w].id, doc[w])
    BY <1>4 DEF ExtractFiles
  <2>3. markdown'[h][i] = IF h = HostOf[w] /\ i = job[w].id THEN doc[w] ELSE markdown[h][i]
    BY <1>0, <2>1, <2>2, PutElse
  <2> QED
    BY <1>1, <2>1, <2>3 DEF TextAt
<1>5. ASSUME NEW w \in Workers, WipeFiles(w) PROVE TextAt(i, h)'
  <2>1. ~Idle(w)
    BY <1>5 DEF WipeFiles, Wipe, Step, Idle
  <2>2. HostOf[w] \in Hosts /\ job[w].id \in Ids
    BY <2>1, AtWork
  <2>3. markdown' = Put(markdown, HostOf[w], job[w].id, NoDoc)
    BY <1>5 DEF WipeFiles
  <2>4. markdown'[h][i] = markdown[h][i]
    BY <1>0, <1>5, <2>2, <2>3, PutElse
  <2> QED
    BY <1>1, <2>4 DEF TextAt
<1>6. ASSUME NEW j \in Ids, PurgeFiles(j) PROVE TextAt(i, h)'
  <2>1. purging[j] \in Purges
    BY <1>6 DEF PurgeFiles, PurgeTo, ArtInv, PurgeOK
  <2>2. PurgeTo(j, "files", "check") /\ purging[j].host \in Hosts
    BY <1>6, <2>1 DEF PurgeFiles, Purges
  <2>3. ~Exists(j) /\ UNCHANGED vars
    BY <2>2, PurgeGoesOn DEF PurgeTo, PurgeStages
  <2>4. j # i
    BY <2>3 DEF vars, Exists
  <2>5. markdown' = Put(markdown, purging[j].host, j, NoDoc)
    BY <1>6 DEF PurgeFiles
  <2>6. markdown'[h][i] = markdown[h][i]
    BY <1>0, <2>2, <2>4, <2>5, PutElse
  <2> QED
    BY <1>1, <2>6 DEF TextAt
<1>7. ASSUME NEW j \in Ids,
             \/ \E k \in Hosts : PurgeRow(j, k) \/ OpenPdf(j, k)
             \/ PurgeCheck(j) \/ PurgeObjects(j) \/ PurgeDies(j)
      PROVE  UNCHANGED markdown
  BY <1>7 DEF PurgeRow, OpenPdf, PurgeCheck, PurgeObjects, PurgeDies, local
<1>8. ASSUME NEW w \in Workers,
             \/ Claims(w) \/ DownloadPdf(w) \/ DownloadMissing(w) \/ MirrorOriginal(w)
             \/ NeedsOcrFiles(w) \/ IndexBook(w) \/ Handled(w)
      PROVE  UNCHANGED markdown
  BY <1>8 DEF Claims, DownloadPdf, DownloadMissing, MirrorOriginal, NeedsOcrFiles, IndexBook,
              Handled, files, local
<1>9. ASSUME NEW w \in Workers,
             \/ Killed(w) \/ StartRechunk(w) \/ ResetDone(w) \/ FetchRechunkable(w)
             \/ EndRechunk(w) \/ \E j \in Ids : RechunkBook(w, j) \/ RechunkSkips(w, j)
      PROVE  UNCHANGED markdown
  BY <1>9 DEF Killed, StartRechunk, ResetDone, FetchRechunkable, EndRechunk, RechunkBook,
              RechunkSkips, local
<1>10. ASSUME NEW u \in Uploads,
              RegisterRow(u) \/ RegisterDies(u) \/ (\E k \in Hosts : RegisterCopy(u, k))
       PROVE  UNCHANGED markdown
  BY <1>10 DEF RegisterRow, RegisterDies, RegisterCopy, local
<1>11. CASE Elsewhere \/ UNCHANGED avars
  BY <1>2, <1>11 DEF Elsewhere, avars, files, local
<1> QED
  BY <1>2, <1>3, <1>4, <1>5, <1>6, <1>7, <1>8, <1>9, <1>10, <1>11 DEF ArtNext
-----------------------------------------------------------------------------
(* How a row, and a worker's stage, come to what they are after a step.    *)

(* A row appears undone.                                                   *)
LEMMA NewRowUndone ==
  ASSUME ArtInv, ListingOK, Md5OK, [ArtNext]_avars, NEW i \in Ids, ~Exists(i), Exists(i)'
  PROVE  books'[i].status = "discovered"
<1> USE DEF ArtInv
<1>1. CASE \E w \in Workers : Extra(w)
  BY <1>1, ExtraFrame DEF SameIdentity
<1>2. CASE [Next]_vars /\ ~Produce
  BY <1>2, IdentityKept
<1>3. CASE Produce
  <2>1. PICK s \in Sources, m \in Md5s : books'[i] = NewRow(s, m)
    BY <1>3, NewRows
  <2> QED
    BY <2>1 DEF NewRow
<1> QED
  BY <1>1, <1>2, <1>3, QueueSteps

(* What a step may do to a steady row: to end it as done is to finish it,  *)
(* and while somebody holds it no lease of it lapses.                      *)
Moved(i) ==
  /\ books'[i].status = "done" =>
       \/ books[i].status = "done"
       \/ \E w \in Workers : pc[w] = "finish" /\ Holds(w, i)
  /\ books[i].claim = "fresh" /\ (\E w \in Workers : Holds(w, i)) => books'[i].claim = "fresh"

LEMMA RowMoves ==
  ASSUME ArtInv, ListingOK, Md5OK, [ArtNext]_avars, NEW i \in Ids, Steady(i), Exists(i)'
  PROVE  Moved(i)
<1> USE DEF ArtInv
<1>0. Exists(i) /\ books[i] \in Row
  BY RowsAreRows DEF Steady
<1>1. ASSUME books'[i] = books[i] PROVE Moved(i)
  BY <1>1 DEF Moved
<1>2. CASE Produce
  BY <1>0, <1>1, <1>2, ProduceKeeps DEF Steady
<1>3. CASE World
  <2>1. CASE \E f \in DriveFiles : EditFile(f) \/ SyncMirror(f)
    BY <1>1, <2>1 DEF EditFile, SyncMirror, tables
  <2>2. ASSUME NEW j \in Ids, Purge(j) PROVE Moved(i)
    BY <1>1, <2>2 DEF Purge, TypeOK, Exists
  <2>3. ASSUME NEW j \in Ids, j # i, LeaseLapses(j) PROVE Moved(i)
    BY <1>1, <2>3, LapseFrame DEF SameRow
  <2>4. ASSUME LeaseLapses(i) PROVE Moved(i)
    <3>1. books'[i].status = books[i].status
      BY <1>0, <2>4, LapseFrame
    <3>2. \A w \in Workers : ~Holds(w, i)
      BY <2>4 DEF LeaseLapses, Steady
    <3> QED
      BY <3>1, <3>2 DEF Moved
  <2> QED
    BY <1>3, <2>1, <2>2, <2>3, <2>4 DEF World
<1>4. ASSUME NEW w \in Workers, NEW k \in Ids, HandOut(w, k) \/ GiveUp(w, k) PROVE Moved(i)
  <2>1. CASE k # i
    BY <1>1, <1>4, <2>1, ClaimFrame
  <2>2. CASE k = i
    <3>1. Claimable(books[i], run[w].scope)
      BY <1>4, <2>2, ClaimFrame
    <3>2. books[i].claim # "fresh" /\ books[i].status # "done"
      BY <3>1 DEF Claimable, Terminal
    <3>3. CASE HandOut(w, k)
      <4>1. books'[i] = HandedOut(books[i])
        BY <2>2, <3>3 DEF HandOut, TypeOK
      <4>2. HandedOut(books[i]).status = books[i].status
        BY <1>0 DEF HandedOut, Row
      <4> QED
        BY <3>2, <4>1, <4>2 DEF Moved
    <3>4. CASE GiveUp(w, k)
      <4>1. books'[i] = GivenUp(books[i])
        BY <2>2, <3>4 DEF GiveUp, TypeOK
      <4>2. GivenUp(books[i]).status = "failed"
        BY <1>0 DEF GivenUp, Row
      <4> QED
        BY <3>2, <4>1, <4>2 DEF Moved
    <3> QED
      BY <1>4, <3>3, <3>4
  <2> QED
    BY <2>1, <2>2
<1>5. ASSUME NEW w \in Workers, ProcessBook(w) \/ Raise(w) \/ Crash(w) \/ StopRun(w)
      PROVE  Moved(i)
  <2>1. CASE ~Holds(w, i)
    BY <1>1, <1>5, <2>1, WorkFrame DEF SameRow
  <2>2. CASE Holds(w, i)
    <3>0. job[w].id = i /\ ~Idle(w)
      BY <2>2 DEF Holds
    <3>1. ASSUME NEW status \in Waiting \cup {"failed", "needs_ocr"}, SetStatus(i, status)
          PROVE  Moved(i)
      <4>1. books'[i].status = status /\ books'[i].claim = books[i].claim
        BY <1>0, <3>1, StatusSet DEF Terminal
      <4> QED
        BY <3>1, <4>1 DEF Moved, Waiting
    <3>2. ASSUME NEW u \in Workers, pc[u] = "finish", Holds(u, i), SetStatus(i, "done")
          PROVE  Moved(i)
      <4>1. books'[i].claim = books[i].claim
        BY <1>0, <3>2, StatusSet DEF Terminal
      <4> QED
        BY <3>2, <4>1 DEF Moved
    <3>3. CASE MarkDownloaded(w) \/ Extract(w) \/ NeedsOcr(w) \/ Chunk(w) \/ FailBlank(w) \/ FailBook(w)
      BY <3>0, <3>1, <3>3 DEF MarkDownloaded, Extract, NeedsOcr, Chunk, FailBlank, FailBook, Waiting
    <3>4. CASE Finish(w)
      BY <2>2, <3>0, <3>2, <3>4 DEF Finish, LandChunks, Step
    <3>5. ASSUME NEW u \in Workers, FinishClash(w, u) PROVE Moved(i)
      <4>1. pc[u] = "finish" /\ job[u].id = i /\ SetStatus(i, "done")
        BY <3>0, <3>5 DEF FinishClash, LandChunks
      <4> QED
        BY <3>2, <4>1 DEF Holds, Idle
    <3>6. CASE Touch(w)
      <4>1. books'[i].status = books[i].status /\ books'[i].claim = "fresh"
        BY <1>0, <3>0, <3>6, LeaseRefreshed DEF Touch
      <4> QED
        BY <4>1 DEF Moved
    <3>7. CASE \/ Wipe(w) \/ Download(w) \/ DownloadMismatch(w) \/ ChunkNothing(w)
               \/ FinishOrphan(w) \/ Wrapup(w) \/ RunDies(w)
               \/ Raise(w) \/ Crash(w) \/ StopRun(w)
      BY <1>1, <3>7 DEF Wipe, Download, DownloadMismatch, ChunkNothing, FinishOrphan, Wrapup,
                        RunDies, Raise, Crash, StopRun, tables
    <3> QED
      BY <1>5, <3>3, <3>4, <3>5, <3>6, <3>7 DEF ProcessBook
  <2> QED
    BY <2>1, <2>2
<1>6. ASSUME NEW w \in Workers, StartAnyRun(w) PROVE Moved(i)
  BY <1>1, <1>6 DEF StartAnyRun, StartRun, tables
<1>7. CASE UNCHANGED vars
  BY <1>1, <1>7 DEF vars
<1>8. ASSUME NEW w \in Workers, ResetDone(w) PROVE Moved(i)
  <2>1. books'[i] = IF books[i].status = "done" THEN [books[i] EXCEPT !.status = "extracted"]
                    ELSE books[i]
    BY <1>0, <1>8 DEF ResetDone
  <2> QED
    BY <1>0, <2>1 DEF Moved, Row
<1>9. ASSUME NEW w \in Workers,
             \/ DownloadMissing(w) \/ StartRechunk(w) \/ EndRechunk(w)
             \/ \E j \in Ids : RechunkBook(w, j)
      PROVE  Moved(i)
  BY <1>1, <1>9 DEF DownloadMissing, StartRechunk, StartRun, EndRechunk, RechunkBook, tables
<1> QED
  BY <1>2, <1>3, <1>4, <1>5, <1>6, <1>7, <1>8, <1>9, QueueSteps DEF Next, ClaimBook, Extra

(* A stage is come to from the one before it: a wipe follows a claim, and  *)
(* text is at hand once it is extracted, or loaded.                        *)
Onward(v) ==
  /\ ~Idle(v) /\ job'[v] = job[v]
  /\ pc'[v] = "wipe" => pc[v] = "wipe"
  /\ pc'[v] \in WithText => pc[v] \in WithText \/ ExtractFiles(v)

Claimed(v) == \E k \in Ids : HandOut(v, k) /\ Holds(v, k)' /\ pc'[v] = "wipe"

Taken(v) == \E k \in Ids : RechunkBook(v, k) /\ Holds(v, k)' /\ pc'[v] = "chunk"

LEMMA StageStep ==
  ASSUME ArtInv, [ArtNext]_avars, NEW v \in Workers, ~Idle(v)'
  PROVE  Onward(v) \/ Claimed(v) \/ Taken(v)
<1> DEFINE Goal == Onward(v) \/ Claimed(v) \/ Taken(v)
<1>0. TypeOK
  BY DEF ArtInv
<1> USE DEF TypeOK, WithText, Idle
<1>1. ASSUME pc'[v] = pc[v], job'[v] = job[v] PROVE Goal
  BY <1>1 DEF Onward
<1>2. ASSUME job'[v] = job[v], ~Idle(v), pc'[v] \notin WithText \cup {"wipe"} PROVE Goal
  BY <1>2 DEF Onward
<1>3. ASSUME NEW u \in Workers, Claims(u) PROVE Goal
  <2>1. CASE StartAnyRun(u) \/ StopRun(u)
    <3>1. \E to, j : /\ pc' = [pc EXCEPT ![u] = to] /\ to \in {"off", "run"}
                     /\ (job' = [job EXCEPT ![u] = j] \/ job' = job)
      BY <2>1 DEF StartAnyRun, StartRun, StopRun, LeaveRun
    <3> QED
      BY <1>0, <1>1, <3>1
  <2>2. ASSUME NEW k \in Ids, GiveUp(u, k) PROVE Goal
    BY <1>1, <2>2 DEF GiveUp, workers
  <2>3. ASSUME NEW k \in Ids, HandOut(u, k) PROVE Goal
    <3>1. PICK s, m : /\ pc' = [pc EXCEPT ![u] = "wipe"]
                      /\ job' = [job EXCEPT ![u] = [id |-> k, source_id |-> s, md5 |-> m]]
      BY <2>3 DEF HandOut
    <3>2. CASE u = v
      BY <1>0, <2>3, <3>1, <3>2 DEF Claimed, Holds
    <3> QED
      BY <1>0, <1>1, <3>1, <3>2
  <2> QED
    BY <1>3, <2>1, <2>2, <2>3 DEF Claims, ClaimBook
<1>4. ASSUME NEW u \in Workers, u # v, NEW to, pc' = [pc EXCEPT ![u] = to],
             \/ UNCHANGED job
             \/ \E j : job' = [job EXCEPT ![u] = j]
      PROVE  Goal
  BY <1>0, <1>1, <1>4
<1>5. ASSUME NEW u \in Workers, NEW from, NEW to, Step(u, from, to), UNCHANGED job,
             u = v => from \notin {"off", "run"} /\ to \notin (WithText \ {from}) \cup {"wipe"}
      PROVE  Goal
  <2>1. CASE u = v
    <3>1. pc[v] = from /\ pc'[v] = to /\ job'[v] = job[v]
      BY <1>0, <1>5, <2>1 DEF Step
    <3>2. CASE to = from
      BY <1>1, <3>1, <3>2
    <3>3. CASE to # from
      BY <1>2, <1>5, <2>1, <3>1, <3>3
    <3> QED
      BY <3>2, <3>3
  <2> QED
    BY <1>4, <1>5, <2>1 DEF Step
<1>6. ASSUME NEW u \in Workers, ExtractFiles(u) PROVE Goal
  <2>1. Step(u, "extract", "touch_extracted") /\ UNCHANGED job
    BY <1>6 DEF ExtractFiles, Extract
  <2>2. CASE u = v
    BY <1>0, <1>6, <2>1, <2>2 DEF Step, Onward
  <2> QED
    BY <1>4, <2>1, <2>2 DEF Step
<1>7. ASSUME NEW u \in Workers, WipeFiles(u) \/ DownloadPdf(u) \/ DownloadMissing(u) \/ MirrorOriginal(u)
      PROVE  Goal
  <2>1. CASE WipeFiles(u)
    BY <1>5, <2>1 DEF WipeFiles, Wipe
  <2>2. CASE DownloadPdf(u) \/ DownloadMissing(u)
    BY <1>5, <2>2 DEF DownloadPdf, Download, DownloadMismatch, DownloadMissing
  <2>3. CASE MirrorOriginal(u)
    BY <1>5, <2>3 DEF MirrorOriginal, MarkDownloaded
  <2> QED
    BY <1>7, <2>1, <2>2, <2>3
<1>8. ASSUME NEW u \in Workers, IndexBook(u) PROVE Goal
  <2>1. CASE Touch(u)
    <3>1. /\ pc[u] \in {"touch_downloaded", "touch_extracted", "touch_chunked"}
          /\ pc' = [pc EXCEPT ![u] = AfterTouch[pc[u]]] /\ UNCHANGED job
      BY <2>1 DEF Touch, AfterTouch
    <3>2. CASE u = v
      BY <1>0, <3>1, <3>2 DEF AfterTouch, Onward
    <3> QED
      BY <1>4, <3>1, <3>2
  <2>2. CASE Chunk(u)
    <3>1. Step(u, "chunk", "touch_chunked") /\ UNCHANGED job
      BY <2>2 DEF Chunk
    <3>2. CASE u = v
      BY <1>0, <3>1, <3>2 DEF Step, Onward
    <3> QED
      BY <1>4, <3>1, <3>2 DEF Step
  <2>3. CASE ChunkNothing(u) \/ FailBlank(u) \/ Finish(u) \/ FinishOrphan(u)
    BY <1>5, <2>3 DEF ChunkNothing, FailBlank, Finish, FinishOrphan
  <2>4. ASSUME NEW t \in Workers, FinishClash(u, t) PROVE Goal
    <3>1. /\ pc[u] = "finish" /\ pc[t] = "finish"
          /\ pc' = [pc EXCEPT ![t] = "wrapup", ![u] = "poisoned"] /\ UNCHANGED job
      BY <2>4 DEF FinishClash
    <3>2. CASE v \in {u, t}
      BY <1>0, <1>2, <3>1, <3>2
    <3> QED
      BY <1>0, <1>1, <3>1, <3>2
  <2>5. CASE Raise(u)
    <3>1. pc[u] \in RaisingStages /\ pc' = [pc EXCEPT ![u] = "raised"] /\ UNCHANGED job
      BY <2>5, QueueAssumption DEF Raise
    <3>2. CASE u = v
      BY <1>0, <1>2, <3>1, <3>2 DEF RaisingStages
    <3> QED
      BY <1>4, <3>1, <3>2
  <2> QED
    BY <1>8, <2>1, <2>2, <2>3, <2>4, <2>5 DEF IndexBook
<1>9. ASSUME NEW u \in Workers,
             NeedsOcrFiles(u) \/ WrapupFiles(u) \/ Handled(u) \/ Killed(u) \/ EndRechunk(u)
                \/ StartRechunk(u)
      PROVE  Goal
  <2>1. \E to \in {"off", "run"} :
          pc' = [pc EXCEPT ![u] = to] /\ (UNCHANGED job \/ \E j : job' = [job EXCEPT ![u] = j])
    <3>1. CASE NeedsOcrFiles(u) \/ WrapupFiles(u)
      BY <3>1 DEF NeedsOcrFiles, NeedsOcr, WrapupFiles, Wrapup, NextBook
    <3>2. CASE Handled(u)
      BY <3>2 DEF Handled, FailBook, RunDies, NextBook, LeaveRun
    <3>3. CASE Killed(u) \/ EndRechunk(u) \/ StartRechunk(u)
      BY <3>3 DEF Killed, Crash, EndRechunk, LeaveRun, StartRechunk, StartRun
    <3> QED
      BY <1>9, <3>1, <3>2, <3>3
  <2>2. u # v
    BY <1>0, <2>1
  <2> QED
    BY <1>4, <2>1, <2>2
<1>10. ASSUME NEW u \in Workers, NEW k \in Ids, RechunkBook(u, k) PROVE Goal
  <2>1. CASE u = v
    BY <1>10, <2>1, TakenUp DEF Taken, Holds
  <2> QED
    BY <1>1, <1>10, <2>1, TakenUp
<1>11. ASSUME NEW u \in Workers,
             ResetDone(u) \/ FetchRechunkable(u) \/ \E k \in Ids : RechunkSkips(u, k)
       PROVE  UNCHANGED workers
  BY <1>11 DEF ResetDone, FetchRechunkable, RechunkSkips, vars, workers
<1>12. ASSUME NEW u \in Uploads,
              RegisterRow(u) \/ RegisterDies(u) \/ (\E k \in Hosts : RegisterCopy(u, k))
       PROVE  UNCHANGED workers
  BY <1>12 DEF RegisterRow, RegisterUpload, RegisterDies, RegisterCopy, vars, workers
<1>13. ASSUME NEW i \in Ids,
              \/ \E k \in Hosts : PurgeRow(i, k) \/ OpenPdf(i, k)
              \/ PurgeFiles(i) \/ PurgeCheck(i) \/ PurgeObjects(i) \/ PurgeDies(i)
       PROVE  UNCHANGED workers
  BY <1>13 DEF PurgeRow, Purge, OpenPdf, PurgeFiles, PurgeCheck, PurgeObjects, PurgeDies,
               PurgeTo, vars, workers
<1>14. CASE Elsewhere
  <2>1. UNCHANGED workers
    BY <1>14 DEF Elsewhere, QueueFromMirror, AddCheck, AddFetch, AddUpsert, AddAbort, SyncMirror,
                 EditFile, LeaseLapses
  <2> QED
    BY <1>1, <2>1 DEF workers
<1>15. CASE UNCHANGED avars
  BY <1>1, <1>15 DEF avars, vars
<1>16. UNCHANGED workers => Goal
  BY <1>1 DEF workers
<1> QED
  BY <1>3, <1>6, <1>7, <1>8, <1>9, <1>10, <1>11, <1>12, <1>13, <1>14, <1>15, <1>16 DEF ArtNext
-----------------------------------------------------------------------------
(* Who holds a steady book.                                                *)

LEMMA ClaimantStep ==
  ASSUME ArtInv, [ArtNext]_avars, NEW w \in Workers, NEW i \in Ids, Claimant(w, i)'
  PROVE  \/ Claimant(w, i)
         \/ HandOut(w, i) /\ pc[w] = "run" /\ pc'[w] = "wipe"
<1>1. ~Idle(w)' /\ job'[w].id = i /\ ~Rechunking(w)'
  BY DEF Claimant, Holds, Idle, Rechunking
<1>2. ~Rechunking(w)
  BY <1>1, SameKind
<1>3. CASE Onward(w)
  BY <1>1, <1>2, <1>3 DEF Onward, Claimant, Holds
<1>4. CASE Claimed(w)
  <2>1. PICK k \in Ids : HandOut(w, k) /\ Holds(w, k)' /\ pc'[w] = "wipe"
    BY <1>4 DEF Claimed
  <2>2. k = i
    BY <1>1, <2>1 DEF Holds
  <2> QED
    BY <2>1, <2>2 DEF HandOut, Claiming
<1>5. CASE Taken(w)
  BY <1>2, <1>5 DEF Taken, RechunkBook, InTurn, Rechunking
<1> QED
  BY <1>1, <1>3, <1>4, <1>5, StageStep

(* A book that is held was there before, and as steady.                    *)
LEMMA HeldSteady ==
  ASSUME ArtInv, ListingOK, Md5OK, [ArtNext]_avars, NEW i \in Ids, Steady(i)',
         NEW w \in Workers, Holds(w, i)
  PROVE  Steady(i)
<1>1. i < nextId
  BY DEF ArtInv, BusyOK, BusyWorker, Holds
<1>2. Exists(i)' /\ books'[i].source_id \notin Slow \cup Resettable
  BY DEF Steady, Exists
<1> QED
  BY <1>1, <1>2, HeldRow DEF Steady

LEMMA LeaseStep ==
  ASSUME ArtInv, ListingOK, Md5OK, [ArtNext]_avars, NEW i \in Ids, LeaseOK(i)
  PROVE  LeaseOK(i)'
<1> SUFFICES ASSUME Steady(i)', NEW w \in Workers, Claimant(w, i)'
             PROVE  /\ books'[i].claim = "fresh"
                    /\ \A v \in Workers : Claimant(v, i)' => v = w
  BY DEF LeaseOK
<1>0. Exists(i)' /\ TypeOK
  BY DEF Steady, Exists, ArtInv
<1>1. ASSUME NEW u \in Workers, NEW k \in Ids, HandOut(u, k)
      PROVE  /\ Claimable(books[k], run[u].scope) /\ books'[k].claim = "fresh"
             /\ pc'[u] = "wipe" /\ \A v \in Workers : v # u => pc'[v] = pc[v]
  <2>1. /\ Claimable(books[k], run[u].scope) /\ books[k] \in Row
        /\ books' = [books EXCEPT ![k] = HandedOut(@)] /\ pc' = [pc EXCEPT ![u] = "wipe"]
    BY <1>0, <1>1, ClaimFrame DEF HandOut
  <2> QED
    BY <1>0, <2>1 DEF HandedOut, Row, TypeOK
<1>2. CASE \E u \in Workers : Claimant(u, i)
  <2>1. PICK u \in Workers : Claimant(u, i)
    BY <1>2
  <2>2. Steady(i)
    BY <2>1, HeldSteady DEF Claimant
  <2>3. books[i].claim = "fresh" /\ \A v \in Workers : Claimant(v, i) => v = u
    BY <2>1, <2>2 DEF LeaseOK
  <2>4. \A v \in Workers : ~HandOut(v, i)
    BY <1>1, <2>3 DEF Claimable
  <2>5. \A v \in Workers : Claimant(v, i)' => v = u
    BY <2>3, <2>4, ClaimantStep
  <2>6. books'[i].claim = "fresh"
    BY <1>0, <2>1, <2>2, <2>3, RowMoves DEF Moved, Claimant
  <2> QED
    BY <2>5, <2>6
<1>3. CASE \A u \in Workers : ~Claimant(u, i)
  <2>1. \A v \in Workers : Claimant(v, i)' => HandOut(v, i) /\ pc[v] = "run" /\ pc'[v] = "wipe"
    BY <1>3, ClaimantStep
  <2> QED
    BY <1>1, <2>1
<1> QED
  BY <1>2, <1>3
-----------------------------------------------------------------------------
(* Where the text of a steady book is.                                     *)

(* Who wipes a book has claimed it.                                        *)
LEMMA Wiping ==
  ASSUME ArtInv, NEW w \in Workers, WipeFiles(w), NEW i \in Ids, job[w].id = i
  PROVE  Claimant(w, i) /\ pc[w] = "wipe" /\ w \notin Rechunkers
<1>1. pc[w] = "wipe"
  BY DEF WipeFiles, Wipe, Step
<1> QED
  BY <1>1, WipersClaim DEF Claimant, Holds

(* Whoever holds a book and its text, no wipe takes that text from its     *)
(* machine: a claim would be the second one, a --rechunk is elsewhere.     *)
LEMMA HolderUnharmed ==
  ASSUME ArtInv, Apart, NEW i \in Ids, Steady(i), LeaseOK(i),
         NEW w \in Workers, Holds(w, i), pc[w] \in WithText,
         NEW u \in Workers, Holds(u, i), pc[u] = "wipe"
  PROVE  HostOf[u] # HostOf[w]
<1>1. u \notin Rechunkers /\ Claimant(u, i)
  BY WipersClaim DEF Claimant
<1>2. u # w
  BY DEF WithText
<1>3. CASE Rechunking(w)
  <2>1. w \in Rechunkers
    BY <1>3 DEF ArtInv, RechunkOK, RechunkFine
  <2> QED
    BY <1>1, <2>1 DEF Apart
<1>4. CASE ~Rechunking(w)
  BY <1>1, <1>2, <1>4 DEF LeaseOK, Claimant
<1> QED
  BY <1>3, <1>4

(* A --rechunk has the text it loaded at hand.                             *)
LEMMA LoadedAt ==
  ASSUME ArtInv, NEW w \in Workers, NEW i \in Ids, RechunkBook(w, i)
  PROVE  TextAt(i, HostOf[w])'
<1>1. PICK up \in BOOLEAN : Loaded(HostOf[w], i, up) # NoDoc /\ UNCHANGED <<local, bucket>>
  BY DEF RechunkBook
<1> QED
  BY <1>1 DEF Loaded, Fetched, TextAt, local

(* An extracted text is on the worker's machine.                           *)
LEMMA ExtractedAt ==
  ASSUME ArtInv, HandsOK, NEW w \in Workers, NEW i \in Ids, ExtractFiles(w), job[w].id = i
  PROVE  TextAt(i, HostOf[w])'
<1>1. doc[w] # NoDoc /\ HostOf[w] \in Hosts
  BY Extracting
<1>2. markdown' = Put(markdown, HostOf[w], i, doc[w]) /\ markdown \in [Hosts -> [Ids -> Texts]]
  BY DEF ExtractFiles, ArtInv, FilesOK
<1>3. markdown'[HostOf[w]][i] = doc[w]
  BY <1>1, <1>2, PutElse
<1> QED
  BY <1>1, <1>3 DEF TextAt

LEMMA TextOKStep ==
  ASSUME CopyInv, Apart, [ArtNext]_avars, NEW i \in Ids, LeaseOK(i), TextOK(i)
  PROVE  TextOK(i)'
<1> SUFFICES ASSUME Steady(i)'
             PROVE  /\ \A w \in Workers : (Holds(w, i) /\ pc[w] \in WithText => TextAt(i, HostOf[w]))'
                    /\ books'[i].status = "done" =>
                         \E h \in Hosts :
                           /\ TextAt(i, h)'
                           /\ \A w \in Workers : (Holds(w, i) /\ pc[w] = "wipe")' => h # HostOf[w]
  BY DEF TextOK
<1>0. /\ ArtInv /\ ListingOK /\ Md5OK /\ HandsOK
      /\ Exists(i)' /\ HostOf \in [Workers -> Hosts]
  BY ArtefactsAssumption DEF CopyInv, Steady, Exists
(* The text of a holder stays where it is.                                 *)
<1>1. ASSUME NEW w \in Workers, Holds(w, i), pc[w] \in WithText
      PROVE  TextAt(i, HostOf[w])'
  <2>1. Steady(i)
    BY <1>0, <1>1, HeldSteady
  <2>2. TextAt(i, HostOf[w])
    BY <1>1, <2>1 DEF TextOK
  <2>3. ASSUME NEW u \in Workers, WipeFiles(u), job[u].id = i PROVE HostOf[u] # HostOf[w]
    BY <1>0, <1>1, <2>1, <2>3, Wiping, HolderUnharmed DEF Claimant
  <2>4. HostOf[w] \in Hosts
    BY <1>0
  <2> QED
    BY <1>0, <2>2, <2>3, <2>4, TextStays
<1>2. ASSUME NEW w \in Workers, Holds(w, i)', pc'[w] \in WithText
      PROVE  TextAt(i, HostOf[w])'
  <2>0. ~Idle(w)' /\ job'[w].id = i
    BY <1>2 DEF Holds, Idle
  <2>1. CASE Onward(w)
    <3>1. Holds(w, i)
      BY <2>0, <2>1 DEF Onward, Holds
    <3>2. CASE ExtractFiles(w)
      BY <1>0, <3>1, <3>2, ExtractedAt DEF Holds
    <3> QED
      BY <1>1, <1>2, <2>1, <3>1, <3>2 DEF Onward
  <2>2. CASE Claimed(w)
    BY <1>2, <2>2 DEF Claimed, WithText
  <2>3. CASE Taken(w)
    <3>1. PICK k \in Ids : RechunkBook(w, k) /\ Holds(w, k)'
      BY <2>3 DEF Taken
    <3>2. k = i
      BY <2>0, <3>1 DEF Holds
    <3> QED
      BY <1>0, <3>1, <3>2, LoadedAt
  <2> QED
    BY <1>0, <2>0, <2>1, <2>2, <2>3, StageStep
(* Where somebody is about to wipe it after the step, it was so before.    *)
<1>3. ASSUME books'[i].status = "done", NEW w \in Workers, Holds(w, i)', pc'[w] = "wipe"
      PROVE  Holds(w, i) /\ pc[w] = "wipe"
  <2>0. ~Idle(w)' /\ job'[w].id = i
    BY <1>3 DEF Holds, Idle
  <2>1. CASE Onward(w)
    BY <1>3, <2>0, <2>1 DEF Onward, Holds
  <2>2. CASE Claimed(w)
    <3>1. PICK k \in Ids : HandOut(w, k) /\ Holds(w, k)'
      BY <2>2 DEF Claimed
    <3>2. k = i
      BY <2>0, <3>1 DEF Holds
    <3>3. books[i] \in Row /\ Claimable(books[i], run[w].scope)
      BY <1>0, <3>1, <3>2, ClaimFrame DEF ArtInv
    <3>4. books'[i] = HandedOut(books[i])
      BY <1>0, <3>1, <3>2 DEF HandOut, ArtInv, TypeOK
    <3> QED
      BY <1>3, <3>3, <3>4 DEF HandedOut, Row, Claimable, Terminal
  <2>3. CASE Taken(w)
    BY <1>3, <2>3 DEF Taken
  <2> QED
    BY <1>0, <2>0, <2>1, <2>2, <2>3, StageStep
<1>4. ASSUME books'[i].status = "done"
      PROVE  \E h \in Hosts :
               /\ TextAt(i, h)'
               /\ \A w \in Workers : (Holds(w, i) /\ pc[w] = "wipe")' => h # HostOf[w]
  <2>1. Steady(i)
    <3>1. Exists(i)
      BY <1>0, <1>4, NewRowUndone
    <3>2. books'[i].source_id = books[i].source_id
      <4>1. \/ ~Exists(i) /\ i >= nextId
            \/ Exists(i) /\ books'[i].source_id = books[i].source_id
        BY <1>0, RowStep
      <4> QED
        BY <3>1, <4>1
    <3> QED
      BY <3>1, <3>2 DEF Steady
  <2>2. Moved(i)
    BY <1>0, <2>1, RowMoves
  <2>3. CASE books[i].status = "done"
    <3>1. PICK h \in Hosts :
            /\ TextAt(i, h)
            /\ \A w \in Workers : Holds(w, i) /\ pc[w] = "wipe" => h # HostOf[w]
      BY <2>1, <2>3 DEF TextOK
    <3>2. ASSUME NEW u \in Workers, WipeFiles(u), job[u].id = i PROVE HostOf[u] # h
      BY <1>0, <3>1, <3>2, Wiping DEF Claimant
    <3>3. TextAt(i, h)'
      BY <1>0, <3>1, <3>2, TextStays
    <3>4. \A w \in Workers : (Holds(w, i) /\ pc[w] = "wipe")' => h # HostOf[w]
      BY <1>3, <1>4, <3>1
    <3> QED
      BY <3>3, <3>4
  <2>4. ASSUME NEW f \in Workers, pc[f] = "finish", Holds(f, i)
        PROVE  \E h \in Hosts :
                 /\ TextAt(i, h)'
                 /\ \A w \in Workers : (Holds(w, i) /\ pc[w] = "wipe")' => h # HostOf[w]
    <3>1. pc[f] \in WithText /\ HostOf[f] \in Hosts
      BY <1>0, <2>4 DEF WithText
    <3>2. TextAt(i, HostOf[f])'
      BY <1>1, <2>4, <3>1
    <3>3. ASSUME NEW w \in Workers, (Holds(w, i) /\ pc[w] = "wipe")' PROVE HostOf[f] # HostOf[w]
      <4>1. Holds(w, i) /\ pc[w] = "wipe"
        BY <1>3, <1>4, <3>3
      <4> QED
        BY <1>0, <2>1, <2>4, <3>1, <4>1, HolderUnharmed
    <3> QED
      BY <3>1, <3>2, <3>3
  <2> QED
    BY <1>4, <2>2, <2>3, <2>4 DEF Moved
<1> QED
  BY <1>2, <1>4 DEF Holds, Idle, TextAt

LEMMA KeepInvariant == ArtSpec => []KeepInv
<1>1. ArtInit => KeepInv
  <2> SUFFICES ASSUME ArtInit PROVE KeepInv
    OBVIOUS
  <2>1. \A i \in Ids : ~Steady(i)
    BY DEF ArtInit, Init, Steady, Exists
  <2> QED
    BY <2>1, InitCopyInv DEF KeepInv, LeaseOK, TextOK
<1>2. KeepInv /\ [ArtNext]_avars => KeepInv'
  <2> SUFFICES ASSUME KeepInv, [ArtNext]_avars PROVE KeepInv'
    OBVIOUS
  <2>1. CopyInv' /\ ArtInv /\ ListingOK /\ Md5OK
    BY NextCopyInv DEF KeepInv, CopyInv
  <2>2. \A i \in Ids : LeaseOK(i)'
    BY <2>1, LeaseStep DEF KeepInv
  <2>3. Apart => \A i \in Ids : TextOK(i)'
    BY TextOKStep DEF KeepInv
  <2> QED
    BY <2>1, <2>2, <2>3 DEF KeepInv, Apart, Ids
<1> QED
  BY <1>1, <1>2, PTL DEF ArtSpec

(* sync_outputs, process_book and run_rechunk between them never drop the  *)
(* last copy of a done book's text, for any machines, workers, books and   *)
(* rechunks, as long as no --rechunk runs on a claiming worker's machine.  *)
THEOREM TextIsKept == ArtSpec => []TextKept
<1>1. ASSUME KeepInv PROVE TextKept
  <2> SUFFICES ASSUME NEW i \in Ids, Steady(i), books[i].status = "done",
                      \A r \in Rechunkers, w \in Workers \ Rechunkers : HostOf[r] # HostOf[w]
               PROVE  \/ bucket.markdown[i] # NoDoc
                      \/ \E h \in Hosts : markdown[h][i] # NoDoc
    BY DEF TextKept
  <2>1. TextOK(i)
    BY <1>1 DEF KeepInv, Apart
  <2> QED
    BY <2>1 DEF TextOK, TextAt
<1> QED
  BY <1>1, KeepInvariant, PTL
=============================================================================
