----------------------------- MODULE Artefacts -----------------------------
(***************************************************************************)
(* The files behind the queue: on each machine the working PDFs, the       *)
(* markdown, the manifests and the uploaded originals, and the bucket      *)
(* (Supabase Storage) that all machines share.  Every action that touches  *)
(* books or chunks is an action of IngestQueue with its file effects       *)
(* added, so all that is shown of the queue holds here; the purge and the  *)
(* upload are cut into the steps between which others run, and --rechunk,  *)
(* which claims nothing, joins the workers.                                *)
(*                                                                         *)
(* Markdown is named by the document it was extracted from; a manifest is  *)
(* there or not, its fields are for reports.  A bucket call succeeds or    *)
(* fails as it likes: storage.py is warn-only, and with SUPABASE_* unset   *)
(* every call fails.                                                       *)
(***************************************************************************)
EXTENDS IngestQueue

CONSTANTS
  Hosts,        \* machines and containers, each with its own data directory
  HostOf,       \* by worker: the machine it runs on
  UploadHosts,  \* machines that take uploads and show pages
  Versions,     \* bound, by Drive file: the documents it may hold
  Viewed,       \* Drive files whose "open the real page" link is used
  Rechunkers,   \* processes that can be a --rechunk
  MaxClaims,    \* bound: how often one row is claimed; rechunks revive rows
                \* that were given up, which nothing else does
  NoPurge,      \* no purge of this id is under way
  NoHost        \* no upload of this document is under way

VARIABLES
  pdfs,         \* pdfs[h][i]: data/pdfs/<i>.pdf on h
  markdown,     \* markdown[h][i]: data/markdown/<i>.md on h
  manifest,     \* by host: the ids with a data/markdown/<i>.manifest.json
  uploaded,     \* by host: data/uploads, where an md5 is a file's name
  bucket,       \* originals by md5, markdown and manifests by id
  mirrored,     \* by worker: put_original returned True for the book in hand
  registering,  \* by upload: the host whose register_upload has its file
  purging,      \* by id: what is left of purge_book after the row is gone
  rechunk       \* by worker: where its --rechunk is, and the ids still to rebuild

local == <<pdfs, markdown, manifest, uploaded>>
calls == <<mirrored, registering, purging, rechunk>>
files == <<local, bucket, calls>>
avars == <<vars, files>>

Texts == Docs \cup {NoDoc}
PurgeStages == {"files", "check", "keep", "drop"}
Buckets == [original : [Docs -> Texts], markdown : [Ids -> Texts],
            manifest : SUBSET Ids]

Rechunks == [at : {"off", "reset", "fetch", "loop"}, todo : SUBSET Ids]
NoRechunk == [at |-> "off", todo |-> {}]

ASSUME ArtefactsAssumption ==
  /\ HostOf \in [Workers -> Hosts]
  /\ UploadHosts \subseteq Hosts
  /\ Viewed \subseteq DriveFiles
  /\ Versions \in [DriveFiles -> SUBSET Docs]
  /\ Rechunkers \subseteq Workers
  /\ NoHost \notin Hosts

FilesOK ==
  /\ pdfs \in [Hosts -> [Ids -> Texts]]
  /\ markdown \in [Hosts -> [Ids -> Texts]]
  /\ manifest \in [Hosts -> SUBSET Ids]
  /\ uploaded \in [Hosts -> SUBSET Uploads]
  /\ bucket \in Buckets
  /\ mirrored \in [Workers -> BOOLEAN]
  /\ registering \in [Uploads -> Hosts \cup {NoHost}]
  /\ \A i \in Ids : purging[i] = NoPurge \/ purging[i].at \in PurgeStages
  /\ rechunk \in [Workers -> Rechunks]

ArtInit ==
  /\ Init
  /\ \A f \in DriveFiles : drive[f] \in Versions[f]
  /\ pdfs = [h \in Hosts |-> [i \in Ids |-> NoDoc]]
  /\ markdown = pdfs
  /\ uploaded = [h \in Hosts |-> {}]
  /\ manifest = uploaded
  /\ bucket = [original |-> [d \in Docs |-> NoDoc],
               markdown |-> [i \in Ids |-> NoDoc],
               manifest |-> {}]
  /\ mirrored = [w \in Workers |-> FALSE]
  /\ registering = [u \in Uploads |-> NoHost]
  /\ purging = [i \in Ids |-> NoPurge]
  /\ rechunk = [w \in Workers |-> NoRechunk]
-----------------------------------------------------------------------------
Rechunking(w) == rechunk[w].at # "off"

(* write_text and unlink(missing_ok) of a book's file on one host.         *)
Put(dir, h, i, d) == [dir EXCEPT ![h][i] = d]

(* put_original and put_text: an upsert, its three tries included; up says *)
(* whether one of them got through.                                        *)
Stored(objects, up, key, d) == IF up THEN [objects EXCEPT ![key] = d] ELSE objects

(* get_text: an absent object and an outage give the same answer.          *)
Fetched(objects, up, key, none) == IF up THEN objects[key] ELSE none
-----------------------------------------------------------------------------
(* register_upload: the file is copied unless a file of that name is       *)
(* there, and only then is the row upserted.                               *)
RegisterCopy(u, h) ==
  /\ h \in UploadHosts
  /\ registering[u] = NoHost
  /\ registering' = [registering EXCEPT ![u] = h]
  /\ uploaded' = [uploaded EXCEPT ![h] = @ \cup {u}]
  /\ UNCHANGED <<vars, pdfs, markdown, manifest, bucket, mirrored, purging,
                 rechunk>>

RegisterRow(u) ==
  /\ registering[u] # NoHost
  /\ u \in uploaded[registering[u]]      \* dest.stat()
  /\ RegisterUpload(u)
  /\ registering' = [registering EXCEPT ![u] = NoHost]
  /\ UNCHANGED <<local, bucket, mirrored, purging, rechunk>>

RegisterDies(u) ==
  /\ registering[u] # NoHost
  /\ registering' = [registering EXCEPT ![u] = NoHost]
  /\ UNCHANGED <<vars, local, bucket, mirrored, purging, rechunk>>
-----------------------------------------------------------------------------
(* purge_book: the row, then the files of the machine it runs on, then the *)
(* original unless another row names its md5, then markdown and manifest.  *)
PurgeFilesFirst(i, h) ==
  /\ Exists(i)
  /\ purging[i] = NoPurge
  /\ purging' = [purging EXCEPT ![i] =
       [at |-> "files", host |-> h, source_id |-> books[i].source_id, md5 |-> books[i].md5]]
  /\ UNCHANGED <<vars, local, bucket, mirrored, registering, rechunk>>

PurgeRow(i, h) ==
  /\ Purge(i)
  /\ purging' = [purging EXCEPT ![i] =
       [at |-> "files", host |-> h, source_id |-> books[i].source_id, md5 |-> books[i].md5]]
  /\ UNCHANGED <<local, bucket, mirrored, registering, rechunk>>

PurgeToNoEnd(i, from, to) ==
  /\ purging[i] # NoPurge
  /\ purging[i].at = from
  /\ purging' = [purging EXCEPT ![i].at = to]
  /\ UNCHANGED <<vars, mirrored, registering, rechunk>>

PurgeTo(i, from, to) ==
  /\ purging[i] # NoPurge
  /\ purging[i].at = from
  /\ purging' = [purging EXCEPT ![i] = IF to = "end" THEN NoPurge ELSE [@ EXCEPT !.at = to]]
  /\ UNCHANGED <<vars, mirrored, registering, rechunk>>

PurgeFiles(i) ==
  LET h == purging[i].host IN
  /\ PurgeTo(i, "files", "check")
  /\ pdfs' = Put(pdfs, h, i, NoDoc)
  /\ markdown' = Put(markdown, h, i, NoDoc)
  /\ manifest' = [manifest EXCEPT ![h] = @ \ {i}]
  /\ uploaded' = [uploaded EXCEPT ![h] = @ \ {purging[i].source_id}]
  /\ UNCHANGED bucket

Md5InUse(m) == \E j \in Ids : Exists(j) /\ books[j].md5 = m

PurgeCheck(i) ==
  LET m == purging[i].md5 IN
  /\ PurgeTo(i, "check", IF m = NoMd5 \/ Md5InUse(m) THEN "keep" ELSE "drop")
  /\ UNCHANGED <<local, bucket>>

DropTexts(objects, up, i) ==
  IF up THEN [objects EXCEPT !.markdown[i] = NoDoc, !.manifest = @ \ {i}] ELSE objects

PurgeObjects(i) ==
  \E up, ok \in BOOLEAN :
    /\ \/ PurgeTo(i, "keep", "end") /\ bucket' = DropTexts(bucket, ok, i)
       \/ /\ PurgeTo(i, "drop", "end")
          /\ bucket' = DropTexts([bucket EXCEPT !.original =
                                    Stored(@, up, purging[i].md5, NoDoc)], ok, i)
    /\ UNCHANGED local

PurgeDies(i) == \E at \in PurgeStages : PurgeTo(i, at, "end") /\ UNCHANGED <<local, bucket>>
-----------------------------------------------------------------------------
(* process_book on the worker's own machine.                               *)

Claims(w) ==
  /\ w \notin Rechunkers
  /\ StartAnyRun(w) \/ ClaimBook(w) \/ StopRun(w)
  /\ \A i \in Ids : Exists(i)' => books'[i].attempts <= MaxClaims
  /\ UNCHANGED files

WipeFiles(w) ==
  LET h == HostOf[w] IN
  /\ Wipe(w)
  /\ pdfs' = Put(pdfs, h, job[w].id, NoDoc)
  /\ markdown' = Put(markdown, h, job[w].id, NoDoc)
  /\ manifest' = [manifest EXCEPT ![h] = @ \ {job[w].id}]
  /\ UNCHANGED <<uploaded, bucket, calls>>

(* downloader_for: an upload's bytes come from this machine's uploads.     *)
AtHand(w) == job[w].source_id \in Uploads => job[w].source_id \in uploaded[HostOf[w]]

DownloadPdf(w) ==
  /\ Download(w) \/ DownloadMismatch(w)
  /\ AtHand(w)
  /\ pdfs' = Put(pdfs, HostOf[w], job[w].id, Bytes(job[w].source_id))
  /\ UNCHANGED <<markdown, manifest, uploaded, bucket, calls>>

DownloadMissing(w) ==
  /\ Step(w, "download", "raised")
  /\ ~AtHand(w)
  /\ UNCHANGED <<tables, run, job, doc, outside, files>>

(* put_original under the row's md5, or under the file's own, before the   *)
(* mark.                                                                   *)
MirrorOriginal(w) ==
  LET key == IF job[w].md5 = NoMd5 THEN doc[w] ELSE job[w].md5 IN
  \E up \in BOOLEAN :
    /\ MarkDownloaded(w)
    /\ bucket' = [bucket EXCEPT !.original = Stored(@, up, key, doc[w])]
    /\ mirrored' = [mirrored EXCEPT ![w] = up]
    /\ UNCHANGED <<local, registering, purging, rechunk>>

(* The working PDF has done its job; it goes if it is mirrored.            *)
DropPdf(w) ==
  /\ pdfs' = IF mirrored[w] THEN Put(pdfs, HostOf[w], job[w].id, NoDoc) ELSE pdfs
  /\ mirrored' = [mirrored EXCEPT ![w] = FALSE]
  /\ UNCHANGED <<uploaded, bucket, registering, purging, rechunk>>

(* write_outputs comes before the mark.                                    *)
ExtractFiles(w) ==
  /\ Extract(w)
  /\ markdown' = Put(markdown, HostOf[w], job[w].id, doc[w])
  /\ manifest' = [manifest EXCEPT ![HostOf[w]] = @ \cup {job[w].id}]
  /\ DropPdf(w)

NeedsOcrFiles(w) ==
  /\ NeedsOcr(w)
  /\ DropPdf(w)
  /\ UNCHANGED <<markdown, manifest>>

(* chunk_embed_and_finish touches no file.                                 *)
IndexBook(w) ==
  /\ \/ Touch(w) \/ Chunk(w) \/ ChunkNothing(w) \/ FailBlank(w)
     \/ Finish(w) \/ FinishOrphan(w) \/ (\E v \in Workers : FinishClash(w, v))
     \/ Raise(w)
  /\ UNCHANGED files
-----------------------------------------------------------------------------
DroppedAnyway(up, text, none) == none
Dropped(up, text, none) == IF up THEN none ELSE text

(* update_manifest leaves a manifest on this machine, whether it found one *)
(* here, in the bucket or nowhere.                                         *)
Updated(here, i) == here \cup {i}

(* The wrap-up: sync_outputs pushes each file that is on disk and drops    *)
(* the local copy of what got through.                                     *)
WrapupFiles(w) ==
  LET h == HostOf[w]
      i == job[w].id
      text == markdown[h][i] IN
  /\ Wrapup(w)
  /\ \E upText, upManifest \in BOOLEAN :
       /\ bucket' = [bucket EXCEPT
            !.markdown = Stored(@, upText /\ text # NoDoc, i, text),
            !.manifest = IF upManifest THEN @ \cup {i} ELSE @]
       /\ markdown' = Put(markdown, h, i, Dropped(upText, text, NoDoc))
       /\ manifest' = [manifest EXCEPT ![h] =
                          IF upManifest THEN @ \ {i} ELSE Updated(@, i)]
  /\ UNCHANGED <<pdfs, uploaded, calls>>

(* process_queue catches what raised; an aborted transaction ends the run. *)
Handled(w) ==
  /\ w \notin Rechunkers
  /\ FailBook(w) \/ RunDies(w)
  /\ UNCHANGED files

Killed(w) ==
  /\ Crash(w)
  /\ rechunk' = [rechunk EXCEPT ![w] = NoRechunk]
  /\ UNCHANGED <<local, bucket, mirrored, registering, purging>>
-----------------------------------------------------------------------------
(* run_rechunk: every done book goes back to 'extracted', unclaimed, and   *)
(* each book with markdown is chunked, embedded and synced anew.           *)

StartRechunk(w) ==
  /\ w \in Rechunkers
  /\ ~Rechunking(w)
  /\ StartRun(w, AnySource, NoLimit)
  /\ rechunk' = [rechunk EXCEPT ![w].at = "reset"]
  /\ UNCHANGED <<local, bucket, mirrored, registering, purging>>

ResetDone(w) ==
  /\ rechunk[w].at = "reset"
  /\ books' = [i \in Ids |-> IF Exists(i) /\ books[i].status = "done"
                               THEN [books[i] EXCEPT !.status = "extracted"]
                               ELSE books[i]]
  /\ rechunk' = [rechunk EXCEPT ![w].at = "fetch"]
  /\ UNCHANGED <<nextId, chunks, workers, outside, local, bucket, mirrored,
                 registering, purging>>

FetchRechunkable(w) ==
  /\ rechunk[w].at = "fetch"
  /\ rechunk' = [rechunk EXCEPT ![w] = [at |-> "loop", todo |->
       {i \in Ids : Exists(i) /\ books[i].status \in {"extracted", "chunked"}}]]
  /\ UNCHANGED <<vars, local, bucket, mirrored, registering, purging>>

(* load_markdown: this machine's copy if it has one, else the bucket's.    *)
Loaded(h, i, up) ==
  IF markdown[h][i] # NoDoc THEN markdown[h][i] ELSE Fetched(bucket.markdown, up, i, NoDoc)

InTurn(w, i) ==
  /\ rechunk[w].at = "loop"
  /\ pc[w] = "run"
  /\ i \in rechunk[w].todo /\ \A j \in rechunk[w].todo : i <= j
  /\ rechunk' = [rechunk EXCEPT ![w].todo = @ \ {i}]

(* The row is not read again: its md5 plays no part from here on.          *)
RechunkBook(w, i) ==
  \E up \in BOOLEAN, s \in Sources :
    LET text == Loaded(HostOf[w], i, up) IN
    /\ InTurn(w, i)
    /\ text # NoDoc
    /\ Exists(i) => s = books[i].source_id
    /\ doc' = [doc EXCEPT ![w] = text]
    /\ job' = [job EXCEPT ![w] = [id |-> i, source_id |-> s, md5 |-> NoMd5]]
    /\ pc' = [pc EXCEPT ![w] = "chunk"]
    /\ UNCHANGED <<tables, run, outside, local, bucket, mirrored, registering,
                   purging>>

RechunkSkips(w, i) ==
  /\ InTurn(w, i)
  /\ \E up \in BOOLEAN : Loaded(HostOf[w], i, up) = NoDoc
  /\ UNCHANGED <<vars, local, bucket, mirrored, registering, purging>>

(* The loop is over, or an exception ends it: nothing here catches one.    *)
EndRechunk(w) ==
  /\ Rechunking(w)
  /\ \/ rechunk[w] = [at |-> "loop", todo |-> {}] /\ pc[w] = "run"
     \/ pc[w] \in {"raised", "poisoned"}
  /\ LeaveRun(w)
  /\ rechunk' = [rechunk EXCEPT ![w] = NoRechunk]
  /\ UNCHANGED <<tables, outside, local, bucket, mirrored, registering, purging>>
-----------------------------------------------------------------------------
(* GET /api/books/{id}/pdf, when no link can be signed and no copy is on   *)
(* this machine: the Drive file as it is now, stored under the row's md5.  *)
OpenPdf(i, h) ==
  /\ h \in UploadHosts
  /\ Exists(i)
  /\ books[i].source_id \in Viewed
  /\ pdfs[h][i] = NoDoc
  /\ pdfs' = Put(pdfs, h, i, drive[books[i].source_id])
  /\ \E up \in BOOLEAN :
       IF up /\ books[i].md5 # NoMd5
         THEN /\ bucket.original[books[i].md5] = NoDoc
              /\ bucket' = [bucket EXCEPT !.original[books[i].md5] = drive[books[i].source_id]]
         ELSE UNCHANGED bucket
  /\ UNCHANGED <<vars, markdown, manifest, uploaded, calls>>

(* What nobody picks by hand, has a row of or processes is read by nobody: *)
(* its edits, synced or not, come to what Init or a later edit comes to.   *)
Read(f) ==
  \/ f \in Picked
  \/ \E i \in Ids : Exists(i) /\ books[i].source_id = f
  \/ \E w \in Workers : job[w] # NoJob /\ job[w].source_id = f

(* The mirror is read by QueueFromMirror only: its md5 is kept up to date  *)
(* no longer than there is an id left for a new row.                       *)
Elsewhere ==
  /\ \/ \E f \in DriveFiles : \/ QueueFromMirror(f) \/ AddCheck(f) \/ AddFetch(f)
                              \/ AddUpsert(f) \/ AddAbort(f)
                              \/ (nextId <= MaxBooks /\ SyncMirror(f))
                              \/ (Read(f) /\ EditFile(f) /\ drive'[f] \in Versions[f])
     \/ \E i \in Ids : LeaseLapses(i)
  /\ UNCHANGED files
-----------------------------------------------------------------------------
ArtNext ==
  \/ Elsewhere
  \/ \E u \in Uploads :
       RegisterRow(u) \/ RegisterDies(u) \/ (\E h \in Hosts : RegisterCopy(u, h))
  \/ \E i \in Ids :
       \/ (\E h \in Hosts : PurgeRow(i, h) \/ OpenPdf(i, h))
       \/ PurgeFiles(i) \/ PurgeCheck(i) \/ PurgeObjects(i) \/ PurgeDies(i)
  \/ \E w \in Workers :
       \/ Claims(w) \/ WipeFiles(w) \/ DownloadPdf(w) \/ DownloadMissing(w)
       \/ MirrorOriginal(w) \/ ExtractFiles(w) \/ NeedsOcrFiles(w) \/ IndexBook(w)
       \/ WrapupFiles(w) \/ Handled(w) \/ Killed(w)
       \/ StartRechunk(w) \/ ResetDone(w) \/ FetchRechunkable(w) \/ EndRechunk(w)
       \/ \E i \in Ids : RechunkBook(w, i) \/ RechunkSkips(w, i)

ArtSpec == ArtInit /\ [][ArtNext]_avars
-----------------------------------------------------------------------------
(* Properties.                                                             *)

(* Whatever copies of a book's text lie about, on any machine or in the    *)
(* bucket, were extracted from the bytes its row names: the checksum of    *)
(* process_book covers files as well as chunks, and so does a rechunk that *)
(* reads an old local copy, as long as the row's md5 is not rewritten.     *)
CopiesVerified ==
  \A i \in Ids :
    (Exists(i) /\ books[i].source_id \notin Resettable /\ books[i].md5 # NoMd5) =>
      {bucket.markdown[i], chunks[i]} \cup {markdown[h][i] : h \in Hosts}
        \subseteq {NoDoc, books[i].md5}

(* storage.py: an original lives under the md5 of its own bytes, whichever *)
(* worker or viewer stored it, as long as no file that the viewer fetches  *)
(* changes in Drive.                                                       *)
OriginalNamesBytes ==
  Viewed \cap Edited = {} =>
    \A m \in Docs : bucket.original[m] \in {NoDoc, m}

(* sync_outputs: no combination of failed uploads, rechunks, kills and     *)
(* raising stages drops the last copy of a done book's text, so that it    *)
(* can be rechunked, as long as no --rechunk shares a worker's machine,    *)
(* where the worker that claims a book wipes the file under it.            *)
TextKept ==
  \A i \in Ids :
    /\ Steady(i)
    /\ books[i].status = "done"
    /\ \A w \in Workers : ~Holds(w, i)
    /\ \A r \in Rechunkers, w \in Workers \ Rechunkers : HostOf[r] # HostOf[w]
    => \/ bucket.markdown[i] # NoDoc
       \/ \E h \in Hosts : markdown[h][i] # NoDoc

(* purge_book takes the row first: a row never outlives text that was      *)
(* stored for it, even if the purge dies on the way.                       *)
StoredTextStays ==
  [][\A i \in Ids :
       Exists(i)' /\ bucket.markdown[i] # NoDoc => bucket'.markdown[i] # NoDoc]_avars
=============================================================================
