------------------------- MODULE IngestQueueProofs -------------------------
(***************************************************************************)
(* Proofs about IngestQueue, for every number of workers, books and        *)
(* documents.                                                              *)
(***************************************************************************)
EXTENDS IngestQueue, TLAPS

(* A worker that is not idle has a row in hand and budget left, and the    *)
(* row, if it still exists, is the one it claimed.                         *)
BusyWorker(w) ==
  /\ job[w] \in Jobs
  /\ job[w].id < nextId
  /\ run[w].budget # 0
  /\ Exists(job[w].id) => books[job[w].id].source_id = job[w].source_id

BusyOK == \A w \in Workers : ~Idle(w) => BusyWorker(w)

(* What a statement of db.py leaves in a row is a row.                     *)
LEMMA RowShape ==
  ASSUME NEW row \in Row, NEW s \in Sources, NEW m \in Md5s
  PROVE  /\ HandedOut(row) \in Row
         /\ GivenUp(row) \in Row
         /\ Upserted(row, m) \in Row
         /\ NewRow(s, m) \in Row
<1>1. PICK n \in Nat : n = row.attempts + 1
  BY DEF Row
<1>2. HandedOut(row) \in Row
  BY <1>1 DEF HandedOut, Row, Leases
<1>3. GivenUp(row) \in Row
  BY <1>1 DEF GivenUp, Row, Leases, Terminal
<1>4. Upserted(row, m) \in Row
  BY DEF Upserted, Row, Leases, Waiting
<1>5. NewRow(s, m) \in Row
  BY DEF NewRow, Row, Leases, Waiting
<1> QED
  BY <1>2, <1>3, <1>4, <1>5

(* UPDATEs of the status and of the lease keep the table a table.          *)
LEMMA UpdateShape ==
  ASSUME NEW i, NEW status \in Waiting \cup Terminal,
         books \in [Ids -> Row \cup {NoRow}]
  PROVE  /\ SetStatus(i, status) => books' \in [Ids -> Row \cup {NoRow}]
         /\ RefreshLease(i) => books' \in [Ids -> Row \cup {NoRow}]
BY DEF SetStatus, RefreshLease, Exists, Row, Leases

LEMMA UpsertShape ==
  ASSUME TypeOK, NEW s \in Sources, NEW m \in Md5s, UpsertBook(s, m)
  PROVE  /\ books' \in [Ids -> Row \cup {NoRow}]
         /\ nextId' \in 1 .. MaxBooks + 1
<1> USE DEF TypeOK
<1>1. CASE Insert(s, m)
  <2>1. NewRow(s, m) \in Row
    BY DEF NewRow, Row, Leases, Waiting
  <2>2. books' \in [Ids -> Row \cup {NoRow}]
    BY <1>1, <2>1 DEF Insert
  <2>3. nextId' \in 1 .. MaxBooks + 1
    BY <1>1, QueueAssumption DEF Insert
  <2> QED
    BY <2>2, <2>3
<1>2. CASE \E i \in IdsOf(s) : /\ books' = [books EXCEPT ![i] = Upserted(@, m)]
                               /\ UNCHANGED nextId
  <2>1. PICK i \in IdsOf(s) : books' = [books EXCEPT ![i] = Upserted(@, m)]
    BY <1>2
  <2>2. Upserted(books[i], m) \in Row
    BY <2>1, RowShape DEF IdsOf, Exists
  <2> QED
    BY <1>2, <2>1, <2>2
<1> QED
  BY <1>1, <1>2 DEF UpsertBook

(* Every step keeps the shape of the state.                                *)
LEMMA TypeStep == TypeOK /\ BusyOK /\ [Next]_vars => TypeOK'
<1> SUFFICES ASSUME TypeOK, BusyOK, [Next]_vars PROVE TypeOK'
  OBVIOUS
<1> USE RowAssumption, QueueAssumption
<1> USE DEF TypeOK, tables, workers, outside, Idle, RaisingStages, Stages, Sources, Md5s
<1>1. ASSUME NEW u \in Uploads, RegisterUpload(u) PROVE TypeOK'
  BY <1>1, UpsertShape DEF RegisterUpload
<1>2. ASSUME NEW f \in DriveFiles, QueueFromMirror(f) PROVE TypeOK'
  BY <1>2, UpsertShape DEF QueueFromMirror, UpsertBook
<1>3. ASSUME NEW f \in DriveFiles, AddUpsert(f) PROVE TypeOK'
  BY <1>3, UpsertShape DEF AddUpsert
<1>4. ASSUME NEW f \in DriveFiles,
             AddCheck(f) \/ AddFetch(f) \/ AddAbort(f) \/ EditFile(f) \/ SyncMirror(f)
      PROVE  TypeOK'
  BY <1>4 DEF AddCheck, AddFetch, AddAbort, EditFile, SyncMirror, Listed
<1>5. ASSUME NEW i \in Ids, Purge(i) \/ LeaseLapses(i) PROVE TypeOK'
  BY <1>5 DEF Purge, LeaseLapses, DropChunks, Exists, Row, Leases
<1>6. ASSUME NEW w \in Workers, StartAnyRun(w) PROVE TypeOK'
  BY <1>6 DEF StartAnyRun, StartRun, Runs
<1>7. ASSUME NEW w \in Workers, NEW i \in Ids, HandOut(w, i) \/ GiveUp(w, i)
      PROVE  TypeOK'
  <2>1. books[i] \in Row
    BY <1>7 DEF HandOut, GiveUp, Claiming, NextInLine, Candidates, Exists
  <2>2. /\ HandedOut(books[i]) \in Row
        /\ GivenUp(books[i]) \in Row
        /\ books[i].source_id \in Sources
        /\ books[i].md5 \in Md5s
    BY <2>1, RowShape DEF Row
  <2> QED
    BY <1>7, <2>2 DEF HandOut, GiveUp, Jobs
<1>8. ASSUME NEW w \in Workers, LeaveRun(w), UNCHANGED <<tables, outside>>
      PROVE  TypeOK'
  BY <1>8 DEF LeaveRun, NoRun, Runs, Scopes, AnySource
<1>9. ASSUME NEW w \in Workers, NextBook(w), ~Idle(w),
             UNCHANGED <<nextId, chunks, outside>>,
             books' \in [Ids -> Row \cup {NoRow}]
      PROVE  TypeOK'
  <2>1. run[w] \in Runs /\ run[w].budget # 0
    BY <1>9 DEF BusyOK, BusyWorker
  <2>2. run' \in [Workers -> Runs]
    <3>1. CASE run[w].budget = NoLimit
      BY <1>9, <2>1, <3>1 DEF NextBook, Runs
    <3>2. CASE run[w].budget # NoLimit
      <4>1. PICK n \in Nat : n = run[w].budget - 1
        BY <2>1, <3>2 DEF Runs
      <4>2. run' = [run EXCEPT ![w].budget = n]
        BY <1>9, <3>2, <4>1 DEF NextBook
      <4> QED
        BY <4>2 DEF Runs
    <3> QED
      BY <3>1, <3>2
  <2> QED
    BY <1>9, <2>2 DEF NextBook
<1>10. ASSUME NEW w \in Workers, NeedsOcr(w) \/ Wrapup(w) \/ FailBook(w) PROVE TypeOK'
  BY <1>9, <1>10, UpdateShape DEF NeedsOcr, Wrapup, FailBook, Waiting, Terminal
<1>11. ASSUME NEW w \in Workers, Download(w) PROVE TypeOK'
  BY <1>11 DEF Download, Step, Bytes, BusyOK, BusyWorker, Jobs
<1>12. ASSUME NEW w \in Workers,
              Wipe(w) \/ DownloadMismatch(w) \/ ChunkNothing(w) \/ FinishOrphan(w) \/ Raise(w)
       PROVE  TypeOK'
  BY <1>12 DEF Wipe, DownloadMismatch, ChunkNothing, FinishOrphan, Raise, Step, DropChunks
<1>13. ASSUME NEW w \in Workers,
              MarkDownloaded(w) \/ Extract(w) \/ Chunk(w) \/ FailBlank(w)
       PROVE  TypeOK'
  BY <1>13, UpdateShape DEF MarkDownloaded, Extract, Chunk, FailBlank, Step, Waiting, Terminal
<1>14. ASSUME NEW w \in Workers, Touch(w) PROVE TypeOK'
  <2>1. AfterTouch[pc[w]] \in Stages
    BY <1>14 DEF Touch, AfterTouch
  <2>2. books' \in [Ids -> Row \cup {NoRow}]
    BY <1>14, UpdateShape DEF Touch, Waiting
  <2> QED
    BY <1>14, <2>1, <2>2 DEF Touch
<1>15. ASSUME NEW w \in Workers, Finish(w) PROVE TypeOK'
  BY <1>15, UpdateShape DEF Finish, LandChunks, Step, Terminal
<1>16. ASSUME NEW w \in Workers, NEW v \in Workers, FinishClash(w, v) PROVE TypeOK'
  BY <1>16, UpdateShape DEF FinishClash, LandChunks, Terminal
<1>17. CASE UNCHANGED vars
  BY <1>17 DEF vars
<1> QED
  BY <1>1, <1>2, <1>3, <1>4, <1>5, <1>6, <1>7, <1>8, <1>10, <1>11, <1>12, <1>13, <1>14,
     <1>15, <1>16, <1>17
     DEF Next, Produce, World, ClaimBook, ProcessBook, StopRun, RunDies, Crash
-----------------------------------------------------------------------------
(* Ids beyond the counter are unused, and chunks never outlive their row.  *)
TableOK ==
  \A i \in Ids : /\ i >= nextId => ~Exists(i)
                 /\ ~Exists(i) => chunks[i] = NoDoc

(* What Drive, the mirror and a hand-picked addition say of a file that    *)
(* never changes is the same, and only hand-picked files are upserted.     *)
ListingOK ==
  \A f \in DriveFiles :
    /\ adding[f] # NoAdd => f \in Picked
    /\ f \notin Edited \cup Unhashed =>
         mirror[f] = drive[f] /\ adding[f] \in {NoAdd, Checked, drive[f]}

Md5OK ==
  \A i \in Ids : Exists(i) =>
    /\ books[i].source_id \in Uploads => books[i].md5 = books[i].source_id
    /\ books[i].source_id \in DriveFiles \ (Edited \cup Unhashed) =>
         books[i].md5 = drive[books[i].source_id]

LEMMA RowsAreRows == TypeOK => \A i \in Ids : Exists(i) <=> books[i] \in Row
BY RowAssumption DEF TypeOK, Exists

(* Upserting the md5 a row already has changes nothing.                    *)
LEMMA UpsertSame ==
  ASSUME NEW row \in Row
  PROVE  Upserted(row, row.md5) = row
BY DEF Upserted, NewBytes, Row

(* No upsert touches a row that is there already, unless its file is       *)
(* hand-picked and its md5 can change.                                     *)
LEMMA UpsertKeeps ==
  ASSUME TypeOK, TableOK, ListingOK, Md5OK,
         NEW i \in Ids, Exists(i), books[i].source_id \notin Resettable,
         \/ \E u \in Uploads : RegisterUpload(u)
         \/ \E f \in DriveFiles : AddUpsert(f) \/ QueueFromMirror(f)
  PROVE  books'[i] = books[i]
<1>1. ASSUME NEW s, NEW m, Insert(s, m) PROVE books'[i] = books[i]
  BY <1>1 DEF TypeOK, TableOK, Insert, Ids
<1>2. ASSUME NEW s, NEW m, UpsertBook(s, m), books[i].source_id = s => m = books[i].md5
      PROVE  books'[i] = books[i]
  <2>1. ASSUME NEW j \in IdsOf(s), books' = [books EXCEPT ![j] = Upserted(@, m)]
        PROVE  books'[i] = books[i]
    <3>1. CASE j = i
      <4>1. m = books[i].md5 /\ books[i] \in Row
        BY <1>2, <2>1, <3>1, RowsAreRows DEF IdsOf
      <4> QED
        BY <2>1, <3>1, <4>1, UpsertSame DEF TypeOK
    <3> QED
      BY <2>1, <3>1 DEF TypeOK, IdsOf
  <2> QED
    BY <1>1, <1>2, <2>1 DEF UpsertBook
<1>3. ASSUME NEW u \in Uploads, RegisterUpload(u) PROVE books'[i] = books[i]
  BY <1>2, <1>3 DEF RegisterUpload, Md5OK
<1>4. ASSUME NEW f \in DriveFiles, AddUpsert(f) PROVE books'[i] = books[i]
  <2>1. f \in Picked /\ UpsertBook(f, adding[f]) /\ adding[f] \in Md5s
    BY <1>4, QueueAssumption DEF AddUpsert, ListingOK
  <2>2. ASSUME books[i].source_id = f PROVE adding[f] = books[i].md5
    <3>1. f \notin Edited \cup Unhashed
      BY <2>1, <2>2 DEF Resettable
    <3> QED
      BY <2>1, <2>2, <3>1, QueueAssumption DEF ListingOK, Md5OK
  <2> QED
    BY <1>2, <2>1, <2>2
<1> QED
  BY <1>1, <1>3, <1>4 DEF QueueFromMirror
-----------------------------------------------------------------------------
(* The identity of a row: what no statement on an existing row rewrites.   *)
SameIdentity(i) ==
  /\ Exists(i)' <=> Exists(i)
  /\ Exists(i) => /\ books'[i].source_id = books[i].source_id
                  /\ books'[i].md5 = books[i].md5
                  /\ books'[i].attempts = books[i].attempts

SameRow(i) == books'[i] = books[i] /\ chunks'[i] = chunks[i]

(* v goes on with the book it has, or lets go of it.                       *)
KeepsJob(v) == ~Idle(v)' => ~Idle(v) /\ job'[v] = job[v] /\ run'[v] = run[v]

LEMMA StatusFrame ==
  ASSUME TypeOK, NEW i \in Ids, NEW j, NEW status \in Waiting \cup Terminal,
         SetStatus(j, status)
  PROVE  SameIdentity(i) /\ (i # j => books'[i] = books[i])
<1>1. ASSUME Exists(i)
      PROVE  books[i] \in Row /\ [books[i] EXCEPT !.status = status] \in Row
  BY <1>1, RowsAreRows DEF Row
<1> QED
  BY <1>1, RowAssumption DEF SetStatus, SameIdentity, Exists, Row

LEMMA LeaseFrame ==
  ASSUME TypeOK, NEW i \in Ids, NEW j, RefreshLease(j)
  PROVE  SameIdentity(i) /\ (i # j => books'[i] = books[i])
<1>1. ASSUME Exists(i)
      PROVE  books[i] \in Row /\ [books[i] EXCEPT !.claim = "fresh"] \in Row
  BY <1>1, RowsAreRows DEF Row, Leases
<1> QED
  BY <1>1, RowAssumption DEF RefreshLease, SameIdentity, Exists, Row

LEMMA LapseFrame ==
  ASSUME TypeOK, NEW i \in Ids, NEW j \in Ids, LeaseLapses(j)
  PROVE  /\ SameIdentity(i)
         /\ i # j => SameRow(i)
         /\ Exists(i) => books'[i].status = books[i].status
<1>1. books[j] \in Row /\ [books[j] EXCEPT !.claim = "stale"] \in Row
  BY RowsAreRows DEF LeaseLapses, Row, Leases
<1>2. books'[i] = IF i = j THEN [books[j] EXCEPT !.claim = "stale"] ELSE books[i]
  BY DEF LeaseLapses, TypeOK
<1>3. chunks' = chunks
  BY DEF LeaseLapses
<1> QED
  BY <1>1, <1>2, <1>3, RowAssumption DEF SameIdentity, SameRow, Exists, Row

(* A worker that works on a book or leaves its run touches only its own    *)
(* book's row, and nobody's identity.                                      *)
LEMMA WorkFrame ==
  ASSUME TypeOK, NEW w \in Workers,
         ProcessBook(w) \/ Raise(w) \/ Crash(w) \/ StopRun(w)
  PROVE  /\ nextId' = nextId /\ UNCHANGED outside
         /\ \A i \in Ids : SameIdentity(i) /\ (~Holds(w, i) => SameRow(i))
         /\ \A v \in Workers : KeepsJob(v)
<1> USE DEF TypeOK, tables, outside, KeepsJob, Idle, Holds, SameRow
<1> DEFINE Goal == /\ nextId' = nextId /\ UNCHANGED outside
                   /\ \A i \in Ids : SameIdentity(i) /\ (~Holds(w, i) => SameRow(i))
                   /\ \A v \in Workers : KeepsJob(v)
<1>1. CASE Wipe(w) \/ ChunkNothing(w)
  BY <1>1 DEF Wipe, ChunkNothing, Step, DropChunks, SameIdentity, Exists
<1>2. CASE Download(w) \/ DownloadMismatch(w) \/ FinishOrphan(w) \/ Raise(w)
  BY <1>2, QueueAssumption
     DEF Download, DownloadMismatch, FinishOrphan, Raise, Step, SameIdentity, Exists,
         RaisingStages
<1>3. CASE MarkDownloaded(w) \/ Extract(w) \/ Chunk(w) \/ FailBlank(w)
  BY <1>3, StatusFrame
     DEF MarkDownloaded, Extract, Chunk, FailBlank, Step, Waiting, Terminal
<1>4. CASE Touch(w)
  <2>1. ~Idle(w) /\ ~Idle(w)'
    BY <1>4 DEF Touch, AfterTouch
  <2>2. \A i \in Ids : SameIdentity(i) /\ (~Holds(w, i) => SameRow(i))
    BY <1>4, <2>1, LeaseFrame DEF Touch
  <2>3. \A v \in Workers : KeepsJob(v)
    BY <1>4, <2>1 DEF Touch
  <2> QED
    BY <1>4, <2>2, <2>3 DEF Touch
<1>5. CASE NeedsOcr(w) \/ FailBook(w)
  BY <1>5, StatusFrame DEF NeedsOcr, FailBook, NextBook, Terminal
<1>6. CASE Wrapup(w)
  BY <1>6 DEF Wrapup, NextBook, SameIdentity, Exists
<1>7. CASE RunDies(w) \/ Crash(w) \/ StopRun(w)
  BY <1>7 DEF RunDies, Crash, StopRun, LeaveRun, SameIdentity, Exists
<1>8. CASE Finish(w)
  BY <1>8, StatusFrame DEF Finish, LandChunks, Step, Terminal
<1>9. ASSUME NEW v \in Workers, FinishClash(w, v) PROVE Goal
  BY <1>9, StatusFrame DEF FinishClash, LandChunks, Terminal
<1> QED
  BY <1>1, <1>2, <1>3, <1>4, <1>5, <1>6, <1>7, <1>8, <1>9 DEF ProcessBook
-----------------------------------------------------------------------------
(* An upsert adds a row at the counter or rewrites one, source_id aside.   *)
LEMMA UpsertIdentity ==
  ASSUME TypeOK, TableOK, NEW s \in Sources, NEW m \in Md5s, UpsertBook(s, m)
  PROVE  /\ nextId' >= nextId
         /\ \A i \in Ids : /\ Exists(i) => Exists(i)'
                           /\ ~Exists(i) /\ Exists(i)' => i = nextId /\ nextId' > i
                           /\ Exists(i) => books'[i].source_id = books[i].source_id
<1> USE DEF TypeOK, Exists
<1>1. CASE Insert(s, m)
  BY <1>1 DEF Insert, TableOK, Ids
<1>2. ASSUME NEW j \in IdsOf(s), books' = [books EXCEPT ![j] = Upserted(@, m)],
             nextId' = nextId
      PROVE  /\ nextId' >= nextId
             /\ \A i \in Ids : /\ Exists(i)' <=> Exists(i)
                               /\ Exists(i) => books'[i].source_id = books[i].source_id
  <2>1. books[j] \in Row /\ j \in Ids /\ books[j] # NoRow
    BY <1>2, RowsAreRows DEF IdsOf
  <2>2. Upserted(books[j], m).source_id = books[j].source_id
    BY <2>1 DEF Upserted, Row
  <2>3. Upserted(books[j], m) # NoRow
    BY <2>1, RowShape, RowAssumption
  <2>4. \A i \in Ids : books'[i] = IF i = j THEN Upserted(books[j], m) ELSE books[i]
    BY <1>2
  <2>5. nextId' >= nextId
    BY <1>2
  <2> QED
    BY <2>1, <2>2, <2>3, <2>4, <2>5
<1> QED
  BY <1>1, <1>2 DEF UpsertBook

(* Queueing, additions and re-uploads are upserts or plain inserts, and    *)
(* leave everything but the table alone.                                   *)
LEMMA ProduceIsUpsert ==
  ASSUME TypeOK, Produce
  PROVE  /\ UNCHANGED <<chunks, workers, drive, mirror>>
         /\ \/ \E s \in Sources, m \in Md5s : UpsertBook(s, m)
            \/ UNCHANGED <<books, nextId>>
<1> USE DEF workers, tables, outside, Sources, Md5s
<1>1. ASSUME NEW u \in Uploads, RegisterUpload(u)
      PROVE  /\ UNCHANGED <<chunks, workers, drive, mirror>>
             /\ \E s \in Sources, m \in Md5s : UpsertBook(s, m)
  BY <1>1, RowAssumption DEF RegisterUpload
<1>2. ASSUME NEW f \in DriveFiles, QueueFromMirror(f)
      PROVE  /\ UNCHANGED <<chunks, workers, drive, mirror>>
             /\ \E s \in Sources, m \in Md5s : UpsertBook(s, m)
  BY <1>2 DEF QueueFromMirror, UpsertBook, TypeOK
<1>3. ASSUME NEW f \in DriveFiles, AddUpsert(f)
      PROVE  /\ UNCHANGED <<chunks, workers, drive, mirror>>
             /\ \E s \in Sources, m \in Md5s : UpsertBook(s, m)
  BY <1>3 DEF AddUpsert
<1>4. ASSUME NEW f \in DriveFiles, AddCheck(f) \/ AddFetch(f) \/ AddAbort(f)
      PROVE  /\ UNCHANGED <<chunks, workers, drive, mirror>>
             /\ UNCHANGED <<books, nextId>>
  BY <1>4 DEF AddCheck, AddFetch, AddAbort
<1> QED
  BY <1>1, <1>2, <1>3, <1>4 DEF Produce

(* Handing out or giving up a row rewrites that row and no other.          *)
LEMMA ClaimFrame ==
  ASSUME TypeOK, NEW w \in Workers, NEW i \in Ids, HandOut(w, i) \/ GiveUp(w, i)
  PROVE  /\ Exists(i) /\ Exists(i)' /\ books[i] \in Row
         /\ Claimable(books[i], run[w].scope)
         /\ books'[i].source_id = books[i].source_id
         /\ books'[i].md5 = books[i].md5
         /\ \A j \in Ids : j # i => books'[j] = books[j]
<1>1. Exists(i) /\ Claimable(books[i], run[w].scope)
  BY DEF HandOut, GiveUp, Claiming, NextInLine, Candidates
<1>2. books[i] \in Row
  BY <1>1, RowsAreRows
<1>3. /\ HandedOut(books[i]) \in Row /\ GivenUp(books[i]) \in Row
      /\ HandedOut(books[i]).source_id = books[i].source_id
      /\ HandedOut(books[i]).md5 = books[i].md5
      /\ GivenUp(books[i]).source_id = books[i].source_id
      /\ GivenUp(books[i]).md5 = books[i].md5
  BY <1>2, RowShape DEF HandedOut, GivenUp, Row
<1> QED
  BY <1>1, <1>2, <1>3, RowAssumption DEF HandOut, GiveUp, TypeOK, Exists
-----------------------------------------------------------------------------
(* The structural parts of the invariant, one lemma each.                  *)

LEMMA BusyStep == TypeOK /\ TableOK /\ BusyOK /\ [Next]_vars => BusyOK'
<1> SUFFICES ASSUME TypeOK, TableOK, BusyOK, [Next]_vars,
                    NEW w \in Workers, ~Idle(w)'
             PROVE  BusyWorker(w)'
  BY DEF BusyOK
<1> DEFINE Goes == ~Idle(w) /\ job'[w] = job[w] /\ run'[w] = run[w]
<1>1. ASSUME Goes, nextId' >= nextId, nextId' \in Int,
             \A i \in Ids : Exists(i)' => i >= nextId \/
                              (Exists(i) /\ books'[i].source_id = books[i].source_id)
      PROVE  BusyWorker(w)'
  <2>1. BusyWorker(w) /\ job[w].id \in Ids
    BY <1>1 DEF BusyOK, BusyWorker, Jobs
  <2>2. ~(job[w].id >= nextId) /\ job[w].id < nextId'
    BY <1>1, <2>1 DEF BusyWorker, TypeOK, Ids
  <2> QED
    BY <1>1, <2>1, <2>2 DEF BusyWorker, Exists
<1>2. CASE Produce
  <2>1. Goes
    BY <1>2, ProduceIsUpsert DEF workers, Idle
  <2>2. CASE UNCHANGED <<books, nextId>>
    BY <1>1, <2>1, <2>2 DEF Exists, TypeOK
  <2>3. ASSUME NEW s \in Sources, NEW m \in Md5s, UpsertBook(s, m) PROVE BusyWorker(w)'
    <3>1. /\ nextId' >= nextId
          /\ \A i \in Ids : /\ ~Exists(i) /\ Exists(i)' => i = nextId
                            /\ Exists(i) => books'[i].source_id = books[i].source_id
      BY <2>3, UpsertIdentity
    <3>2. nextId' \in Int
      BY <2>3, UpsertShape
    <3> QED
      BY <1>1, <2>1, <3>1, <3>2 DEF TypeOK
  <2> QED
    BY <1>2, <2>2, <2>3, ProduceIsUpsert
<1>3. CASE World
  <2>1. Goes /\ nextId' = nextId
    BY <1>3 DEF World, EditFile, SyncMirror, Purge, LeaseLapses, tables, workers, Idle
  <2>2. ASSUME NEW i \in Ids, Exists(i)'
        PROVE  Exists(i) /\ books'[i].source_id = books[i].source_id
    <3>1. ASSUME NEW j \in Ids, LeaseLapses(j)
          PROVE  Exists(i) /\ books'[i].source_id = books[i].source_id
      BY <2>2, <3>1, RowsAreRows DEF LeaseLapses, TypeOK, Row, Exists
    <3>2. ASSUME NEW j \in Ids, Purge(j)
          PROVE  Exists(i) /\ books'[i].source_id = books[i].source_id
      BY <2>2, <3>2 DEF Purge, TypeOK, Exists
    <3> QED
      BY <1>3, <2>2, <3>1, <3>2 DEF World, EditFile, SyncMirror, tables, Exists
  <2> QED
    BY <1>1, <2>1, <2>2 DEF TypeOK
<1>4. ASSUME NEW v \in Workers, StartAnyRun(v) PROVE BusyWorker(w)'
  <2>1. Goes
    BY <1>4 DEF StartAnyRun, StartRun, TypeOK, Idle
  <2> QED
    BY <1>1, <1>4, <2>1 DEF StartAnyRun, StartRun, tables, Exists, TypeOK
<1>5. ASSUME NEW v \in Workers, NEW i \in Ids, HandOut(v, i) \/ GiveUp(v, i)
      PROVE  BusyWorker(w)'
  <2>1. nextId' = nextId /\ nextId \in Int
    BY <1>5 DEF HandOut, GiveUp, TypeOK
  <2>2. \A j \in Ids : Exists(j)' => Exists(j) /\ books'[j].source_id = books[j].source_id
    BY <1>5, ClaimFrame DEF Exists
  <2>3. CASE Goes
    BY <1>1, <2>1, <2>2, <2>3
  <2>4. CASE ~Goes
    <3>1. HandOut(v, i) /\ v = w
      BY <1>5, <2>4 DEF HandOut, GiveUp, workers, TypeOK, Idle
    <3>2. /\ job'[w] = [id |-> i, source_id |-> books[i].source_id, md5 |-> books[i].md5]
          /\ run'[w] = run[w] /\ run[w].budget # 0
      BY <3>1 DEF HandOut, Claiming, TypeOK
    <3>3. books[i] \in Row /\ Exists(i) /\ books'[i].source_id = books[i].source_id
      BY <1>5, ClaimFrame
    <3>4. i < nextId
      BY <3>3, <2>1 DEF TableOK, Ids
    <3> QED
      BY <2>1, <3>2, <3>3, <3>4 DEF BusyWorker, Jobs, Row
  <2> QED
    BY <2>3, <2>4
<1>6. ASSUME NEW v \in Workers, ProcessBook(v) \/ Raise(v) \/ Crash(v) \/ StopRun(v)
      PROVE  BusyWorker(w)'
  <2>1. Goes /\ nextId' = nextId
    BY <1>6, WorkFrame DEF KeepsJob
  <2>2. \A i \in Ids : Exists(i)' => Exists(i) /\ books'[i].source_id = books[i].source_id
    BY <1>6, WorkFrame DEF SameIdentity
  <2> QED
    BY <1>1, <2>1, <2>2 DEF TypeOK
<1>7. CASE UNCHANGED vars
  BY <1>1, <1>7 DEF vars, Exists, Idle, TypeOK
<1> QED
  BY <1>2, <1>3, <1>4, <1>5, <1>6, <1>7 DEF Next, ClaimBook

LEMMA TableStep == TypeOK /\ TableOK /\ BusyOK /\ [Next]_vars => TableOK'
<1> SUFFICES ASSUME TypeOK, TableOK, BusyOK, [Next]_vars PROVE TableOK'
  OBVIOUS
<1> USE DEF TypeOK, TableOK
<1>1. CASE Produce
  <2>1. chunks' = chunks
    BY <1>1, ProduceIsUpsert
  <2>2. CASE UNCHANGED <<books, nextId>>
    BY <2>1, <2>2 DEF Exists
  <2>3. ASSUME NEW s \in Sources, NEW m \in Md5s, UpsertBook(s, m) PROVE TableOK'
    <3>1. /\ nextId' >= nextId /\ nextId' \in Int
          /\ \A i \in Ids : /\ ~Exists(i) /\ Exists(i)' => i = nextId /\ nextId' > i
                            /\ Exists(i) => Exists(i)'
      BY <2>3, UpsertIdentity, UpsertShape
    <3> QED
      BY <2>1, <3>1 DEF Ids, Exists
  <2> QED
    BY <1>1, <2>2, <2>3, ProduceIsUpsert
<1>2. CASE World
  <2>1. ASSUME NEW j \in Ids, LeaseLapses(j) PROVE TableOK'
    <3>1. \A i \in Ids : Exists(i)' => Exists(i)
      BY <2>1 DEF LeaseLapses, Exists
    <3>2. \A i \in Ids : Exists(i) => Exists(i)'
      BY <2>1, LapseFrame DEF SameIdentity
    <3> QED
      BY <2>1, <3>1, <3>2 DEF LeaseLapses
  <2>2. ASSUME NEW j \in Ids, Purge(j) PROVE TableOK'
    BY <2>2 DEF Purge, DropChunks, Exists
  <2> QED
    BY <1>2, <2>1, <2>2 DEF World, EditFile, SyncMirror, tables, Exists
<1>3. ASSUME NEW w \in Workers, StartAnyRun(w) PROVE TableOK'
  BY <1>3 DEF StartAnyRun, StartRun, tables, Exists
<1>4. ASSUME NEW w \in Workers, NEW i \in Ids, HandOut(w, i) \/ GiveUp(w, i)
      PROVE  TableOK'
  BY <1>4, ClaimFrame DEF HandOut, GiveUp, Exists
<1>5. ASSUME NEW w \in Workers, ProcessBook(w) \/ Raise(w) \/ Crash(w) \/ StopRun(w)
      PROVE  TableOK'
  <2>1. ASSUME NEW i \in Ids, ~Exists(i) PROVE chunks'[i] = NoDoc
    BY <1>5, <2>1
       DEF ProcessBook, Wipe, ChunkNothing, DropChunks, Download, DownloadMismatch,
           MarkDownloaded, Touch, Extract, NeedsOcr, Chunk, FailBlank, Finish, FinishOrphan,
           FinishClash, LandChunks, Wrapup, FailBook, RunDies, Raise, Crash, StopRun, tables
  <2> QED
    BY <1>5, <2>1, WorkFrame DEF SameIdentity, Exists
<1>6. CASE UNCHANGED vars
  BY <1>6 DEF vars, Exists
<1> QED
  BY <1>1, <1>2, <1>3, <1>4, <1>5, <1>6 DEF Next, ClaimBook
-----------------------------------------------------------------------------
(* What the bytes in hand say of the row, and of the chunks cut from them. *)

(* The stages with a downloaded and verified document in hand.             *)
InHand == {"mark", "touch_downloaded", "extract", "touch_extracted", "chunk",
           "fail_blank", "touch_chunked", "finish"}

(* The document in hand is the one the claimed row names, and the row      *)
(* still names it unless its file is one an addition can reset.            *)
VerifiedWork(w) ==
  /\ pc[w] \in InHand => doc[w] \in Docs /\ job[w].md5 \in {NoMd5, doc[w]}
  /\ Exists(job[w].id) /\ job[w].source_id \notin Resettable =>
       job[w].md5 = books[job[w].id].md5

WorkOK == \A w \in Workers : ~Idle(w) => VerifiedWork(w)

(* Where a steady book stands, seen from the worker that has it in hand.   *)
StageOK(w, i) ==
  /\ books[i].claim = "fresh"
  /\ pc[w] # "poisoned"
  /\ pc[w] = "wrapup" => books[i].status \in Terminal
  /\ pc[w] \notin {"wrapup", "raised"} => books[i].status \in Waiting
  /\ pc[w] = "raised" /\ "wrapup" \notin Flaky => books[i].status \in Waiting

SteadyOK(i) ==
  Steady(i) =>
    /\ \A w \in Workers : Holds(w, i) => StageOK(w, i)
    /\ \A w, v \in Workers : Holds(w, i) /\ Holds(v, i) => w = v
    /\ "wrapup" \notin Flaky => (books[i].status = "done" <=> chunks[i] # NoDoc)
    /\ books[i].attempts > MaxAttempts =>
         books[i].status = "failed" /\ \A w \in Workers : ~Holds(w, i)

QueueInv ==
  /\ TypeOK /\ TableOK /\ BusyOK
  /\ ListingOK /\ Md5OK
  /\ WorkOK /\ IndexedBytesVerified
  /\ \A i \in Ids : SteadyOK(i)
-----------------------------------------------------------------------------
(* The hand-picked additions and the mirror keep agreeing with Drive on    *)
(* the files that never change.                                            *)
LEMMA ListingStep == TypeOK /\ ListingOK /\ [Next]_vars => ListingOK'
<1> SUFFICES ASSUME TypeOK, ListingOK, [Next]_vars PROVE ListingOK'
  OBVIOUS
<1> USE DEF TypeOK, ListingOK
<1>1. CASE UNCHANGED outside
  BY <1>1 DEF outside
<1>2. ASSUME NEW f \in DriveFiles,
             AddCheck(f) \/ AddFetch(f) \/ AddUpsert(f) \/ AddAbort(f)
      PROVE  ListingOK'
  BY <1>2, QueueAssumption DEF AddCheck, AddFetch, AddUpsert, AddAbort, Listed, Md5s
<1>3. ASSUME NEW f \in DriveFiles, EditFile(f) \/ SyncMirror(f) PROVE ListingOK'
  BY <1>3 DEF EditFile, SyncMirror, Listed
<1>4. ASSUME NEW w \in Workers, ProcessBook(w) \/ Raise(w) \/ Crash(w) \/ StopRun(w)
      PROVE  UNCHANGED outside
  BY <1>4, WorkFrame
<1>5. ASSUME NEW w \in Workers, ClaimBook(w) \/ StartAnyRun(w) PROVE UNCHANGED outside
  BY <1>5 DEF ClaimBook, HandOut, GiveUp, StartAnyRun, StartRun
<1>6. ASSUME NEW f \in DriveFiles, QueueFromMirror(f) PROVE UNCHANGED outside
  BY <1>6 DEF QueueFromMirror
<1>7. ASSUME NEW u \in Uploads, RegisterUpload(u) PROVE UNCHANGED outside
  BY <1>7 DEF RegisterUpload
<1>8. ASSUME NEW i \in Ids, Purge(i) \/ LeaseLapses(i) PROVE UNCHANGED outside
  BY <1>8 DEF Purge, LeaseLapses
<1>9. CASE UNCHANGED vars
  BY <1>9 DEF vars, outside
<1> QED
  BY <1>1, <1>2, <1>3, <1>4, <1>5, <1>6, <1>7, <1>8, <1>9 DEF Next, Produce, World

(* A row that appears was made by an INSERT, whose md5 is an upload's own  *)
(* or what is listed of a file.                                            *)
LEMMA NewRows ==
  ASSUME TypeOK, TableOK, ListingOK, Produce, NEW i \in Ids, ~Exists(i), Exists(i)'
  PROVE  /\ i = nextId
         /\ \E s \in Sources, m \in Md5s :
              /\ books'[i] = NewRow(s, m)
              /\ s \in Uploads => m = s
              /\ s \in DriveFiles \ (Edited \cup Unhashed) => m = drive[s]
<1> USE DEF TypeOK
<1>1. ASSUME NEW s \in Sources, NEW m \in Md5s, UpsertBook(s, m)
      PROVE  i = nextId /\ books'[i] = NewRow(s, m)
  <2>1. ASSUME NEW j \in IdsOf(s), books' = [books EXCEPT ![j] = Upserted(@, m)]
        PROVE  FALSE
    BY <2>1 DEF IdsOf, Exists
  <2> QED
    BY <1>1, <2>1 DEF UpsertBook, Insert, Exists
<1>2. ASSUME NEW u \in Uploads, RegisterUpload(u)
      PROVE  i = nextId /\ books'[i] = NewRow(u, u) /\ u \in Sources /\ u \in Md5s
             /\ u \notin DriveFiles
  BY <1>1, <1>2, RowAssumption DEF RegisterUpload, Sources, Md5s
<1>3. ASSUME NEW f \in DriveFiles, QueueFromMirror(f)
      PROVE  i = nextId /\ books'[i] = NewRow(f, mirror[f]) /\ f \in Sources
             /\ f \notin Uploads
  BY <1>1, <1>3, RowAssumption DEF QueueFromMirror, UpsertBook, Sources
<1>4. ASSUME NEW f \in DriveFiles, AddUpsert(f)
      PROVE  i = nextId /\ books'[i] = NewRow(f, adding[f]) /\ f \in Sources
             /\ f \notin Uploads /\ adding[f] \in Md5s
  BY <1>1, <1>4, RowAssumption DEF AddUpsert, Sources
<1>5. ASSUME NEW f \in DriveFiles, AddCheck(f) \/ AddFetch(f) \/ AddAbort(f) PROVE FALSE
  BY <1>5 DEF AddCheck, AddFetch, AddAbort, tables, Exists
<1>6. CASE \E u \in Uploads : RegisterUpload(u)
  BY <1>2, <1>6
<1>7. CASE \E f \in DriveFiles : QueueFromMirror(f)
  BY <1>3, <1>7 DEF ListingOK
<1>8. CASE \E f \in DriveFiles : AddUpsert(f)
  BY <1>4, <1>8, QueueAssumption DEF ListingOK
<1> QED
  BY <1>5, <1>6, <1>7, <1>8 DEF Produce

(* Only an upsert makes a row or rewrites its identity.                    *)
LEMMA IdentityKept ==
  ASSUME TypeOK, [Next]_vars, ~Produce, NEW i \in Ids, Exists(i)'
  PROVE  /\ Exists(i)
         /\ books'[i].source_id = books[i].source_id
         /\ books'[i].md5 = books[i].md5
<1> DEFINE Goal == /\ Exists(i)
                   /\ books'[i].source_id = books[i].source_id
                   /\ books'[i].md5 = books[i].md5
<1>1. ASSUME NEW w \in Workers, ProcessBook(w) \/ Raise(w) \/ Crash(w) \/ StopRun(w)
      PROVE  Goal
  BY <1>1, WorkFrame DEF SameIdentity
<1>2. ASSUME NEW w \in Workers, NEW j \in Ids, HandOut(w, j) \/ GiveUp(w, j) PROVE Goal
  BY <1>2, ClaimFrame DEF Exists
<1>3. ASSUME NEW j \in Ids, LeaseLapses(j) PROVE Goal
  BY <1>3, LapseFrame DEF SameIdentity
<1>4. ASSUME NEW j \in Ids, Purge(j) PROVE Goal
  BY <1>4 DEF Purge, TypeOK, Exists
<1>5. ASSUME books' = books PROVE Goal
  BY <1>5 DEF Exists
<1>6. ASSUME NEW w \in Workers, StartAnyRun(w) PROVE Goal
  BY <1>5, <1>6 DEF StartAnyRun, StartRun, tables
<1>7. ASSUME NEW f \in DriveFiles, EditFile(f) \/ SyncMirror(f) PROVE Goal
  BY <1>5, <1>7 DEF EditFile, SyncMirror, tables
<1>8. CASE UNCHANGED vars
  BY <1>5, <1>8 DEF vars
<1> QED
  BY <1>1, <1>2, <1>3, <1>4, <1>6, <1>7, <1>8 DEF Next, World, ClaimBook

(* No upsert at all touches a row that cannot be reset.                    *)
LEMMA ProduceKeeps ==
  ASSUME TypeOK, TableOK, ListingOK, Md5OK, Produce,
         NEW i \in Ids, Exists(i), books[i].source_id \notin Resettable
  PROVE  books'[i] = books[i]
<1>1. ASSUME NEW f \in DriveFiles, AddCheck(f) \/ AddFetch(f) \/ AddAbort(f)
      PROVE  books'[i] = books[i]
  BY <1>1 DEF AddCheck, AddFetch, AddAbort, tables
<1>2. CASE \/ \E u \in Uploads : RegisterUpload(u)
           \/ \E f \in DriveFiles : AddUpsert(f) \/ QueueFromMirror(f)
  BY <1>2, UpsertKeeps
<1> QED
  BY <1>1, <1>2 DEF Produce

LEMMA Md5Step == TypeOK /\ TableOK /\ ListingOK /\ Md5OK /\ [Next]_vars => Md5OK'
<1> SUFFICES ASSUME TypeOK, TableOK, ListingOK, Md5OK, [Next]_vars,
                    NEW i \in Ids, Exists(i)'
             PROVE  /\ books'[i].source_id \in Uploads =>
                         books'[i].md5 = books'[i].source_id
                    /\ books'[i].source_id \in DriveFiles \ (Edited \cup Unhashed) =>
                         books'[i].md5 = drive'[books'[i].source_id]
  BY DEF Md5OK, Exists
<1>1. \A f \in DriveFiles \ (Edited \cup Unhashed) : drive'[f] = drive[f]
  <2>1. ASSUME NEW w \in Workers, ProcessBook(w) \/ Raise(w) \/ Crash(w) \/ StopRun(w)
        PROVE  drive' = drive
    BY <2>1, WorkFrame DEF outside
  <2>2. CASE Produce
    BY <2>2, ProduceIsUpsert
  <2>3. ASSUME NEW w \in Workers, ClaimBook(w) \/ StartAnyRun(w) PROVE drive' = drive
    BY <2>3 DEF ClaimBook, HandOut, GiveUp, StartAnyRun, StartRun, outside
  <2>4. ASSUME NEW g \in DriveFiles, EditFile(g) \/ SyncMirror(g)
        PROVE  \A f \in DriveFiles \ (Edited \cup Unhashed) : drive'[f] = drive[f]
    BY <2>4 DEF EditFile, SyncMirror, TypeOK
  <2>5. ASSUME NEW j \in Ids, Purge(j) \/ LeaseLapses(j) PROVE drive' = drive
    BY <2>5 DEF Purge, LeaseLapses, outside
  <2>6. CASE UNCHANGED vars
    BY <2>6 DEF vars
  <2> QED
    BY <2>1, <2>2, <2>3, <2>4, <2>5, <2>6 DEF Next, World
<1>2. CASE ~Produce
  BY <1>1, <1>2, IdentityKept DEF Md5OK
<1>3. CASE Produce /\ ~Exists(i)
  <2>1. PICK s \in Sources, m \in Md5s :
          /\ books'[i] = NewRow(s, m)
          /\ s \in Uploads => m = s
          /\ s \in DriveFiles \ (Edited \cup Unhashed) => m = drive[s]
    BY <1>3, NewRows
  <2> QED
    BY <1>1, <2>1 DEF NewRow
<1>4. CASE Produce /\ Exists(i)
  <2>1. books'[i].source_id = books[i].source_id
    BY <1>4, ProduceIsUpsert, UpsertIdentity
  <2>2. ASSUME books[i].source_id \notin Edited \cup Unhashed
        PROVE  books'[i] = books[i]
    BY <1>4, <2>2, ProduceKeeps DEF Resettable
  <2>3. books[i].source_id \in Uploads => books[i].source_id \notin Edited \cup Unhashed
    BY RowAssumption, QueueAssumption
  <2> QED
    BY <1>1, <1>4, <2>1, <2>2, <2>3 DEF Md5OK
<1> QED
  BY <1>2, <1>3, <1>4
-----------------------------------------------------------------------------
(* What a step does to the stage and the document of a worker: it stays    *)
(* put, lets go of its book, or goes on; a document that is in hand was    *)
(* in hand before, or was verified by this very step.                      *)
LEMMA HandStep ==
  ASSUME TypeOK, BusyOK, [Next]_vars,
         NEW w \in Workers, ~Idle(w), ~Idle(w)', pc'[w] \in InHand
  PROVE  \/ pc[w] \in InHand /\ doc'[w] = doc[w]
         \/ doc'[w] \in Docs /\ job[w].md5 \in {NoMd5, doc'[w]}
<1> DEFINE Goal == \/ pc[w] \in InHand /\ doc'[w] = doc[w]
                   \/ doc'[w] \in Docs /\ job[w].md5 \in {NoMd5, doc'[w]}
<1> USE DEF TypeOK, Idle, InHand
<1>1. CASE UNCHANGED <<pc, doc>>
  BY <1>1
<1>2. ASSUME NEW v \in Workers, ProcessBook(v) PROVE Goal
  <2>1. CASE Download(v)
    <3>1. CASE v = w
      <4>1. job[w].source_id \in Sources
        BY DEF BusyOK, BusyWorker, Jobs
      <4> QED
        BY <2>1, <3>1, <4>1, RowAssumption DEF Download, Verified, Bytes, Sources
    <3> QED
      BY <2>1, <3>1 DEF Download, Step
  <2>2. CASE \/ MarkDownloaded(v) \/ Extract(v) \/ Chunk(v) \/ ChunkNothing(v) \/ FailBlank(v)
             \/ Wipe(v) \/ DownloadMismatch(v) \/ Finish(v) \/ FinishOrphan(v)
    BY <2>2 DEF MarkDownloaded, Extract, Chunk, ChunkNothing, FailBlank, Wipe,
                DownloadMismatch, Finish, FinishOrphan, Step
  <2>3. CASE Touch(v)
    BY <2>3 DEF Touch, AfterTouch
  <2>4. CASE NeedsOcr(v) \/ Wrapup(v) \/ FailBook(v) \/ RunDies(v)
    BY <2>4 DEF NeedsOcr, Wrapup, FailBook, RunDies, NextBook, LeaveRun
  <2>5. ASSUME NEW u \in Workers, FinishClash(v, u) PROVE Goal
    BY <2>5 DEF FinishClash
  <2> QED
    BY <1>2, <2>1, <2>2, <2>3, <2>4, <2>5 DEF ProcessBook
<1>3. ASSUME NEW v \in Workers, Raise(v) \/ Crash(v) \/ StopRun(v) PROVE Goal
  BY <1>3 DEF Raise, Crash, StopRun, LeaveRun
<1>4. ASSUME NEW v \in Workers, ClaimBook(v) \/ StartAnyRun(v) PROVE Goal
  BY <1>4 DEF ClaimBook, HandOut, GiveUp, Claiming, StartAnyRun, StartRun, workers
<1>5. CASE Produce
  BY <1>1, <1>5, ProduceIsUpsert DEF workers
<1>6. CASE World
  BY <1>1, <1>6 DEF World, EditFile, SyncMirror, Purge, LeaseLapses, workers
<1>7. CASE UNCHANGED vars
  BY <1>1, <1>7 DEF vars
<1> QED
  BY <1>2, <1>3, <1>4, <1>5, <1>6, <1>7 DEF Next

(* A worker that has a book after a step had it before, or claimed it by   *)
(* this step as the row stood.                                             *)
LEMMA JobStep ==
  ASSUME TypeOK, BusyOK, [Next]_vars, NEW w \in Workers, ~Idle(w)'
  PROVE  \/ ~Idle(w) /\ job'[w] = job[w]
         \/ /\ pc'[w] = "wipe" /\ Idle(w)
            /\ ~Produce
            /\ \E i \in Ids :
                 /\ HandOut(w, i)
                 /\ job'[w] = [id |-> i, source_id |-> books[i].source_id,
                               md5 |-> books[i].md5]
                 /\ books'[i].md5 = books[i].md5
<1> DEFINE Stays == ~Idle(w) /\ job'[w] = job[w]
<1> USE DEF TypeOK, Idle
<1>1. ASSUME NEW v \in Workers, ProcessBook(v) \/ Raise(v) \/ Crash(v) \/ StopRun(v)
      PROVE  Stays
  BY <1>1, WorkFrame DEF KeepsJob
<1>2. ASSUME NEW v \in Workers, StartAnyRun(v) PROVE Stays
  BY <1>2 DEF StartAnyRun, StartRun
<1>3. CASE Produce
  BY <1>3, ProduceIsUpsert DEF workers
<1>4. CASE World
  BY <1>4 DEF World, EditFile, SyncMirror, Purge, LeaseLapses, workers
<1>5. CASE UNCHANGED vars
  BY <1>5 DEF vars
<1>6. ASSUME NEW v \in Workers, NEW i \in Ids, GiveUp(v, i) PROVE Stays
  BY <1>6 DEF GiveUp, workers
<1>7. ASSUME NEW v \in Workers, NEW i \in Ids, HandOut(v, i), ~Stays
      PROVE  /\ pc'[w] = "wipe" /\ Idle(w) /\ v = w
             /\ ~Produce
             /\ job'[w] = [id |-> i, source_id |-> books[i].source_id, md5 |-> books[i].md5]
             /\ books'[i].md5 = books[i].md5
  <2>1. v = w /\ Idle(w) /\ pc'[w] = "wipe" /\ pc' # pc
    BY <1>7 DEF HandOut, Claiming
  <2>2. job'[w] = [id |-> i, source_id |-> books[i].source_id, md5 |-> books[i].md5]
    BY <1>7, <2>1 DEF HandOut
  <2>3. books'[i].md5 = books[i].md5
    BY <1>7, ClaimFrame
  <2>4. ~Produce
    BY <2>1, ProduceIsUpsert DEF workers
  <2> QED
    BY <2>1, <2>2, <2>3, <2>4
<1> QED
  BY <1>1, <1>2, <1>3, <1>4, <1>5, <1>6, <1>7 DEF Next, ClaimBook

LEMMA WorkStep ==
  TypeOK /\ TableOK /\ BusyOK /\ ListingOK /\ Md5OK /\ WorkOK /\ [Next]_vars => WorkOK'
<1> SUFFICES ASSUME TypeOK, TableOK, BusyOK, ListingOK, Md5OK, WorkOK, [Next]_vars,
                    NEW w \in Workers, ~Idle(w)'
             PROVE  VerifiedWork(w)'
  BY DEF WorkOK
<1>1. CASE ~Idle(w) /\ job'[w] = job[w]
  <2>1. VerifiedWork(w) /\ BusyWorker(w) /\ job[w].id \in Ids
    BY <1>1 DEF WorkOK, BusyOK, BusyWorker, Jobs
  <2>2. pc'[w] \in InHand => doc'[w] \in Docs /\ job'[w].md5 \in {NoMd5, doc'[w]}
    BY <1>1, <2>1, HandStep DEF VerifiedWork
  <2>3. PICK i \in Ids : i = job[w].id
    BY <2>1
  <2>4. ASSUME Exists(i)', job[w].source_id \notin Resettable
        PROVE  job[w].md5 = books'[i].md5
    <3>1. CASE ~Produce
      BY <2>1, <2>3, <2>4, <3>1, IdentityKept DEF VerifiedWork
    <3>2. CASE Produce
      <4>1. Exists(i)
        <5>1. i < nextId /\ i \in Int /\ nextId \in Int
          BY <2>1, <2>3 DEF BusyWorker, TypeOK, Ids
        <5>2. i # nextId
          BY <5>1
        <5> QED
          BY <2>4, <3>2, <5>2, NewRows
      <4> QED
        BY <2>1, <2>3, <2>4, <3>2, <4>1, ProduceKeeps DEF VerifiedWork, BusyWorker
    <3> QED
      BY <3>1, <3>2
  <2> QED
    BY <1>1, <2>2, <2>3, <2>4 DEF VerifiedWork, Exists
<1>2. CASE pc'[w] = "wipe" /\ \E i \in Ids :
                 /\ HandOut(w, i)
                 /\ job'[w] = [id |-> i, source_id |-> books[i].source_id,
                               md5 |-> books[i].md5]
                 /\ books'[i].md5 = books[i].md5
  BY <1>2 DEF VerifiedWork, InHand
<1> QED
  BY <1>1, <1>2, JobStep
-----------------------------------------------------------------------------
(* Chunks change in one step only by being dropped or by a worker landing  *)
(* the document it has in hand.                                            *)
LEMMA ChunkStep ==
  ASSUME TypeOK, [Next]_vars, NEW i \in Ids
  PROVE  \/ chunks'[i] \in {chunks[i], NoDoc}
         \/ /\ Exists(i) /\ ~Produce
            /\ \E w \in Workers : /\ pc[w] = "finish" /\ job[w].id = i
                                  /\ chunks'[i] = doc[w]
<1> DEFINE Goal == \/ chunks'[i] \in {chunks[i], NoDoc}
                   \/ /\ Exists(i) /\ ~Produce
                      /\ \E w \in Workers : /\ pc[w] = "finish" /\ job[w].id = i
                                            /\ chunks'[i] = doc[w]
<1>1. CASE Produce
  BY <1>1, ProduceIsUpsert
<1>2. CASE World
  BY <1>2 DEF World, EditFile, SyncMirror, Purge, LeaseLapses, DropChunks, tables, TypeOK
<1>3. ASSUME NEW w \in Workers, ClaimBook(w) \/ StartAnyRun(w) \/ StopRun(w) \/ Raise(w) \/ Crash(w)
      PROVE  Goal
  BY <1>3 DEF ClaimBook, HandOut, GiveUp, StartAnyRun, StartRun, StopRun, Raise, Crash, tables
<1>4. ASSUME NEW w \in Workers, pc[w] = "finish", LandChunks(w), ~Produce PROVE Goal
  BY <1>4 DEF LandChunks, TypeOK
<1>5. ASSUME NEW w \in Workers, ProcessBook(w), ~Produce PROVE Goal
  <2>1. CASE Finish(w)
    BY <1>4, <1>5, <2>1 DEF Finish, Step
  <2>2. CASE \E v \in Workers : FinishClash(w, v)
    BY <1>4, <1>5, <2>2 DEF FinishClash
  <2> QED
    BY <1>5, <2>1, <2>2
       DEF ProcessBook, Wipe, ChunkNothing, DropChunks, Download, DownloadMismatch,
           MarkDownloaded, Touch, Extract, NeedsOcr, Chunk, FailBlank, FinishOrphan,
           Wrapup, FailBook, RunDies, tables, TypeOK
<1>6. CASE UNCHANGED vars
  BY <1>6 DEF vars
<1> QED
  BY <1>1, <1>2, <1>3, <1>5, <1>6 DEF Next

LEMMA BytesStep ==
  TypeOK /\ TableOK /\ BusyOK /\ ListingOK /\ Md5OK /\ WorkOK /\ IndexedBytesVerified
    /\ [Next]_vars => IndexedBytesVerified'
<1> SUFFICES ASSUME TypeOK, TableOK, BusyOK, ListingOK, Md5OK, WorkOK,
                    IndexedBytesVerified, [Next]_vars,
                    NEW i \in Ids, Exists(i)', books'[i].source_id \notin Resettable,
                    chunks'[i] # NoDoc
             PROVE  books'[i].md5 \in {NoMd5, chunks'[i]}
  BY DEF IndexedBytesVerified, Exists
<1>1. Exists(i)
  BY NewRows, ProduceIsUpsert, IdentityKept DEF TableOK
<1>2. /\ books'[i].md5 = books[i].md5
      /\ books'[i].source_id = books[i].source_id
  <2>1. CASE ~Produce
    BY <2>1, IdentityKept
  <2>2. CASE Produce
    BY <1>1, <2>2, ProduceIsUpsert, UpsertIdentity, ProduceKeeps
  <2> QED
    BY <2>1, <2>2
<1>3. CASE chunks'[i] = chunks[i]
  BY <1>1, <1>2, <1>3 DEF IndexedBytesVerified
<1>4. ASSUME NEW w \in Workers, pc[w] = "finish", job[w].id = i, chunks'[i] = doc[w]
      PROVE  books'[i].md5 \in {NoMd5, chunks'[i]}
  <2>1. VerifiedWork(w) /\ BusyWorker(w)
    BY <1>4 DEF WorkOK, BusyOK, Idle
  <2>2. job[w].md5 \in {NoMd5, doc[w]}
    BY <1>4, <2>1 DEF VerifiedWork, InHand
  <2>3. job[w].md5 = books[i].md5
    BY <1>1, <1>2, <1>4, <2>1 DEF VerifiedWork, BusyWorker
  <2> QED
    BY <1>2, <1>4, <2>2, <2>3
<1> QED
  BY <1>3, <1>4, ChunkStep
-----------------------------------------------------------------------------
(* What a worker does to a steady book.                                    *)

(* A row nobody touched, with no new holder and no holder moved on.        *)
LEMMA RowStands ==
  ASSUME NEW i \in Ids, SteadyOK(i), SameRow(i),
         \A v \in Workers : Holds(v, i)' => Holds(v, i) /\ pc'[v] = pc[v]
  PROVE  SteadyOK(i)'
BY DEF SteadyOK, SameRow, Steady, StageOK, Exists

LEMMA StatusSet ==
  ASSUME TypeOK, NEW i \in Ids, Exists(i), NEW status \in Waiting \cup Terminal,
         SetStatus(i, status)
  PROVE  books'[i].status = status /\ books'[i].claim = books[i].claim
<1>1. books[i] \in Row
  BY RowsAreRows
<1> QED
  BY <1>1 DEF SetStatus, Exists, Row

LEMMA LeaseRefreshed ==
  ASSUME TypeOK, NEW i \in Ids, Exists(i), RefreshLease(i)
  PROVE  books'[i].status = books[i].status /\ books'[i].claim = "fresh"
<1>1. books[i] \in Row
  BY RowsAreRows
<1> QED
  BY <1>1 DEF RefreshLease, Exists, Row

(* The other workers stay where they are, a clash over one book aside.     *)
LEMMA OthersStay ==
  ASSUME TypeOK, NEW w \in Workers, NEW v \in Workers, v # w,
         ProcessBook(w) \/ Raise(w) \/ Crash(w) \/ StopRun(w),
         ~Idle(w) => ~Holds(v, job[w].id)
  PROVE  pc'[v] = pc[v]
<1> USE DEF TypeOK
<1>1. CASE \/ Wipe(w) \/ Download(w) \/ DownloadMismatch(w) \/ MarkDownloaded(w)
           \/ Extract(w) \/ Chunk(w) \/ ChunkNothing(w) \/ FailBlank(w)
           \/ Finish(w) \/ FinishOrphan(w)
  BY <1>1 DEF Wipe, Download, DownloadMismatch, MarkDownloaded, Extract, Chunk,
              ChunkNothing, FailBlank, Finish, FinishOrphan, Step
<1>2. CASE Touch(w) \/ Raise(w) \/ Crash(w) \/ StopRun(w) \/ RunDies(w)
  BY <1>2 DEF Touch, Raise, Crash, StopRun, RunDies, LeaveRun
<1>3. CASE NeedsOcr(w) \/ Wrapup(w) \/ FailBook(w)
  BY <1>3 DEF NeedsOcr, Wrapup, FailBook, NextBook
<1>4. ASSUME NEW u \in Workers, FinishClash(w, u) PROVE pc'[v] = pc[v]
  BY <1>4 DEF FinishClash, Holds, Idle
<1> QED
  BY <1>1, <1>2, <1>3, <1>4 DEF ProcessBook

(* The sole holder of a steady book leaves it in order, and never leaves a *)
(* terminal status behind it once it is in one.                            *)
LEMMA HolderStep ==
  ASSUME TypeOK, BusyOK, WorkOK, NEW i \in Ids, SteadyOK(i), Steady(i),
         NEW w \in Workers, Holds(w, i),
         ProcessBook(w) \/ Raise(w) \/ Crash(w) \/ StopRun(w)
  PROVE  /\ ~Idle(w)' => StageOK(w, i)'
         /\ "wrapup" \notin Flaky => (books'[i].status = "done" <=> chunks'[i] # NoDoc)
         /\ books[i].status \in Terminal /\ "wrapup" \notin Flaky =>
              books'[i].status = books[i].status
<1> DEFINE Goal == /\ ~Idle(w)' => StageOK(w, i)'
                   /\ "wrapup" \notin Flaky =>
                        (books'[i].status = "done" <=> chunks'[i] # NoDoc)
                   /\ books[i].status \in Terminal /\ "wrapup" \notin Flaky =>
                        books'[i].status = books[i].status
<1> USE DEF Idle, Waiting, Terminal, StageOK
<1>1. /\ ~Idle(w) /\ job[w].id = i /\ Exists(i)
      /\ StageOK(w, i)
      /\ "wrapup" \notin Flaky => (books[i].status = "done" <=> chunks[i] # NoDoc)
      /\ \A v \in Workers : Holds(v, i) => v = w
  BY DEF SteadyOK, Holds, Steady
<1>2. pc \in [Workers -> Stages] /\ chunks \in [Ids -> Docs \cup {NoDoc}]
  BY DEF TypeOK
<1>3. CASE Wipe(w) \/ ChunkNothing(w)
  BY <1>1, <1>2, <1>3 DEF Wipe, ChunkNothing, Step, DropChunks
<1>4. CASE Download(w) \/ DownloadMismatch(w)
  BY <1>1, <1>2, <1>4 DEF Download, DownloadMismatch, Step, tables
<1>5. CASE MarkDownloaded(w) \/ Extract(w) \/ Chunk(w)
  <2>1. PICK status \in {"downloaded", "extracted", "chunked"} : SetStatus(i, status)
    BY <1>1, <1>5 DEF MarkDownloaded, Extract, Chunk
  <2>2. books'[i].status = status /\ books'[i].claim = books[i].claim
    BY <1>1, <2>1, StatusSet
  <2> QED
    BY <1>1, <1>2, <1>5, <2>2 DEF MarkDownloaded, Extract, Chunk, Step
<1>6. CASE FailBlank(w)
  <2>1. books'[i].status = "failed" /\ books'[i].claim = books[i].claim
    BY <1>1, <1>6, StatusSet DEF FailBlank
  <2> QED
    BY <1>1, <1>2, <1>6, <2>1 DEF FailBlank, Step
<1>7. CASE Touch(w)
  <2>1. books'[i].status = books[i].status /\ books'[i].claim = "fresh"
    BY <1>1, <1>7, LeaseRefreshed DEF Touch
  <2> QED
    BY <1>1, <1>2, <1>7, <2>1 DEF Touch, AfterTouch
<1>8. CASE NeedsOcr(w)
  <2>1. books'[i].status = "needs_ocr"
    BY <1>1, <1>8, StatusSet DEF NeedsOcr
  <2> QED
    BY <1>1, <1>2, <1>8, <2>1 DEF NeedsOcr, NextBook
<1>9. CASE FailBook(w)
  <2>1. books'[i].status = "failed"
    BY <1>1, <1>9, StatusSet DEF FailBook
  <2> QED
    BY <1>1, <1>2, <1>9, <2>1 DEF FailBook, NextBook
<1>10. CASE Finish(w)
  <2>1. books'[i].status = "done" /\ books'[i].claim = books[i].claim
    BY <1>1, <1>10, StatusSet DEF Finish, LandChunks
  <2>2. doc[w] \in Docs
    BY <1>1, <1>10 DEF Finish, Step, WorkOK, VerifiedWork, InHand
  <2>3. chunks'[i] # NoDoc
    BY <1>1, <1>2, <1>10, <2>2, QueueAssumption DEF Finish, LandChunks
  <2> QED
    BY <1>1, <1>2, <1>10, <2>1, <2>3 DEF Finish, Step
<1>11. CASE FinishOrphan(w) \/ RunDies(w) \/ StopRun(w)
  BY <1>1, <1>11 DEF FinishOrphan, RunDies, StopRun
<1>12. ASSUME NEW v \in Workers, FinishClash(w, v) PROVE Goal
  BY <1>1, <1>12 DEF FinishClash, Holds
<1>13. CASE Wrapup(w)
  BY <1>1, <1>2, <1>13 DEF Wrapup, NextBook, tables
<1>14. CASE Raise(w)
  BY <1>1, <1>2, <1>14 DEF Raise, tables
<1>15. CASE Crash(w)
  BY <1>1, <1>2, <1>15 DEF Crash, LeaveRun, tables
<1> QED
  BY <1>3, <1>4, <1>5, <1>6, <1>7, <1>8, <1>9, <1>10, <1>11, <1>12, <1>13, <1>14, <1>15
     DEF ProcessBook

(* Whoever processes, crashes or leaves, every steady book stays in order. *)
LEMMA SteadyWork ==
  ASSUME TypeOK, BusyOK, WorkOK, NEW i \in Ids, SteadyOK(i), NEW w \in Workers,
         ProcessBook(w) \/ Raise(w) \/ Crash(w) \/ StopRun(w)
  PROVE  SteadyOK(i)'
<1>1. SameIdentity(i) /\ \A v \in Workers : KeepsJob(v)
  BY WorkFrame
<1>2. \A v \in Workers : Holds(v, i)' => Holds(v, i)
  BY <1>1 DEF KeepsJob, Holds
<1>3. CASE ~Holds(w, i)
  <2>1. SameRow(i)
    BY <1>3, WorkFrame
  <2>2. ASSUME NEW v \in Workers, Holds(v, i)' PROVE Holds(v, i) /\ pc'[v] = pc[v]
    BY <1>2, <1>3, <2>2, OthersStay DEF Holds
  <2> QED
    BY <2>1, <2>2, RowStands
<1>4. CASE Holds(w, i) /\ Steady(i)
  <2>1. /\ ~Idle(w)' => StageOK(w, i)'
        /\ "wrapup" \notin Flaky => (books'[i].status = "done" <=> chunks'[i] # NoDoc)
    BY <1>4, HolderStep
  <2>2. \A v \in Workers : Holds(v, i)' => v = w /\ ~Idle(w)'
    BY <1>2, <1>4 DEF SteadyOK, Holds
  <2>3. ~(books'[i].attempts > MaxAttempts)
    BY <1>1, <1>4 DEF SteadyOK, SameIdentity, Steady
  <2> QED
    BY <2>1, <2>2, <2>3 DEF SteadyOK
<1>5. CASE ~Steady(i)
  BY <1>1, <1>5 DEF SteadyOK, Steady, SameIdentity
<1> QED
  BY <1>3, <1>4, <1>5
-----------------------------------------------------------------------------
(* What the claim, the producers and the world do to a steady book.        *)

(* A claimable book has no holder, so whoever claims it holds it alone.    *)
LEMMA SteadyClaim ==
  ASSUME TypeOK, NEW i \in Ids, SteadyOK(i), NEW w \in Workers, NEW k \in Ids,
         HandOut(w, k) \/ GiveUp(w, k)
  PROVE  SteadyOK(i)'
<1> USE DEF TypeOK, Idle, Holds
<1>1. /\ Exists(k) /\ books[k] \in Row
      /\ Claimable(books[k], run[w].scope)
      /\ books'[k].source_id = books[k].source_id
      /\ \A j \in Ids : j # k => books'[j] = books[j]
  BY ClaimFrame
<1>2. chunks' = chunks /\ pc[w] = "run"
  BY DEF HandOut, GiveUp, Claiming
<1>3. \A v \in Workers : v # w => pc'[v] = pc[v] /\ job'[v] = job[v]
  BY DEF HandOut, GiveUp, workers
<1>4. ASSUME NEW v \in Workers, Holds(v, i)', i # k PROVE Holds(v, i) /\ pc'[v] = pc[v]
  BY <1>2, <1>3, <1>4 DEF HandOut, GiveUp, workers
<1>5. CASE i # k
  BY <1>1, <1>2, <1>4, <1>5, RowStands DEF SameRow
<1>6. CASE i = k /\ ~Steady(i)
  BY <1>1, <1>6 DEF SteadyOK, Steady
<1>7. CASE i = k /\ Steady(i)
  <2>1. /\ books[i].status \in Waiting
        /\ \A v \in Workers : ~Holds(v, i)
        /\ "wrapup" \notin Flaky => (books[i].status = "done" <=> chunks[i] # NoDoc)
    BY <1>1, <1>7 DEF SteadyOK, StageOK, Claimable, Row, Waiting, Terminal
  <2>2. CASE HandOut(w, k)
    <3>1. PICK n \in Nat : n = books[i].attempts + 1
      BY <1>1, <1>7 DEF Row
    <3>2. books'[i] = [books[i] EXCEPT !.claim = "fresh", !.attempts = n]
      BY <1>7, <2>2, <3>1 DEF HandOut, HandedOut
    <3>3. books'[i].status = books[i].status /\ books'[i].claim = "fresh"
          /\ books'[i].attempts = n
      BY <1>1, <1>7, <3>2 DEF Row
    <3>4. ~(n > MaxAttempts)
      BY <1>1, <1>7, <2>2, <3>1, RowAssumption DEF HandOut, Row
    <3>5. \A v \in Workers : Holds(v, i)' => v = w
      BY <1>3, <2>1
    <3>6. pc'[w] = "wipe"
      BY <2>2 DEF HandOut
    <3>7. \A v \in Workers : Holds(v, i)' => StageOK(v, i)'
      BY <2>1, <3>3, <3>5, <3>6 DEF StageOK
    <3> QED
      BY <1>2, <2>1, <3>3, <3>4, <3>5, <3>7 DEF SteadyOK
  <2>3. CASE GiveUp(w, k)
    <3>1. PICK n \in Nat : n = books[i].attempts + 1
      BY <1>1, <1>7 DEF Row
    <3>2. books'[i] = [books[i] EXCEPT !.status = "failed", !.claim = "none", !.attempts = n]
      BY <1>7, <2>3, <3>1 DEF GiveUp, GivenUp
    <3>3. books'[i].status = "failed"
      BY <1>1, <1>7, <3>2 DEF Row
    <3>4. \A v \in Workers : ~Holds(v, i)'
      BY <2>1, <2>3 DEF GiveUp, workers
    <3> QED
      BY <1>2, <2>1, <3>3, <3>4 DEF SteadyOK, Waiting
  <2> QED
    BY <2>2, <2>3
<1> QED
  BY <1>5, <1>6, <1>7

(* A new row has no holder and no chunks.                                  *)
LEMMA SteadyProduce ==
  ASSUME TypeOK, TableOK, BusyOK, ListingOK, Md5OK, NEW i \in Ids, SteadyOK(i), Produce
  PROVE  SteadyOK(i)'
<1>1. UNCHANGED <<chunks, workers>>
  BY ProduceIsUpsert DEF workers
<1>2. \A v \in Workers : Holds(v, i)' => Holds(v, i) /\ pc'[v] = pc[v]
  BY <1>1 DEF Holds, Idle, workers
<1>3. CASE Exists(i) /\ books[i].source_id \notin Resettable
  <2>1. books'[i] = books[i]
    BY <1>3, ProduceKeeps
  <2> QED
    BY <1>1, <1>2, <2>1, RowStands DEF SameRow
<1>4. CASE Exists(i) /\ books[i].source_id \in Resettable
  <2>1. books'[i].source_id = books[i].source_id
    BY <1>4, ProduceIsUpsert, UpsertIdentity
  <2> QED
    BY <1>4, <2>1 DEF SteadyOK, Steady
<1>5. CASE ~Exists(i) /\ Exists(i)'
  <2>1. i = nextId /\ \E s \in Sources, m \in Md5s : books'[i] = NewRow(s, m)
    BY <1>5, NewRows
  <2>2. \A v \in Workers : ~Holds(v, i)
    BY <2>1 DEF BusyOK, BusyWorker, Holds, TypeOK, Ids
  <2>3. chunks'[i] = NoDoc
    BY <1>1, <1>5 DEF TableOK
  <2>4. books'[i].status = "discovered" /\ books'[i].attempts = 0
    BY <2>1 DEF NewRow
  <2>5. ~(books'[i].attempts > MaxAttempts)
    BY <2>4, RowAssumption
  <2> QED
    BY <1>2, <2>2, <2>3, <2>4, <2>5 DEF SteadyOK
<1>6. CASE ~Exists(i)'
  BY <1>6 DEF SteadyOK, Steady
<1> QED
  BY <1>3, <1>4, <1>5, <1>6

(* Time runs out only for a book nobody holds; a purged book has no row.   *)
LEMMA SteadyWorld ==
  ASSUME TypeOK, NEW i \in Ids, SteadyOK(i), World
  PROVE  SteadyOK(i)'
<1>1. UNCHANGED workers
  BY DEF World, EditFile, SyncMirror, Purge, LeaseLapses, workers
<1>2. \A v \in Workers : (Holds(v, i)' <=> Holds(v, i)) /\ pc'[v] = pc[v]
  BY <1>1 DEF Holds, Idle, workers
<1>3. ASSUME SameRow(i) PROVE SteadyOK(i)'
  BY <1>2, <1>3, RowStands
<1>4. ASSUME NEW f \in DriveFiles, EditFile(f) \/ SyncMirror(f) PROVE SameRow(i)
  BY <1>4 DEF EditFile, SyncMirror, tables, SameRow
<1>5. ASSUME NEW j \in Ids, Purge(j) PROVE SteadyOK(i)'
  <2>1. CASE i = j
    BY <1>5, <2>1 DEF Purge, SteadyOK, Steady, Exists, TypeOK
  <2>2. CASE i # j
    BY <1>3, <1>5, <2>2 DEF Purge, DropChunks, SameRow, TypeOK
  <2> QED
    BY <2>1, <2>2
<1>6. ASSUME NEW j \in Ids, LeaseLapses(j) PROVE SteadyOK(i)'
  <2>1. SameIdentity(i) /\ (i # j => SameRow(i)) /\ chunks' = chunks
        /\ (Exists(i) => books'[i].status = books[i].status)
    BY <1>6, LapseFrame DEF LeaseLapses
  <2>2. CASE i = j /\ Steady(i)
    <3>1. \A v \in Workers : ~Holds(v, i)
      BY <1>6, <2>2 DEF LeaseLapses, Steady
    <3> QED
      BY <1>2, <2>1, <2>2, <3>1 DEF SteadyOK, SameIdentity, Steady
  <2>3. CASE i = j /\ ~Steady(i)
    BY <2>1, <2>3 DEF SteadyOK, SameIdentity, Steady
  <2> QED
    BY <1>3, <2>1, <2>2, <2>3
<1> QED
  BY <1>3, <1>4, <1>5, <1>6 DEF World

LEMMA SteadyStep ==
  TypeOK /\ TableOK /\ BusyOK /\ ListingOK /\ Md5OK /\ WorkOK
    /\ (\A i \in Ids : SteadyOK(i)) /\ [Next]_vars
  => \A i \in Ids : SteadyOK(i)'
<1> SUFFICES ASSUME TypeOK, TableOK, BusyOK, ListingOK, Md5OK, WorkOK, [Next]_vars,
                    NEW i \in Ids, SteadyOK(i)
             PROVE  SteadyOK(i)'
  OBVIOUS
<1>1. CASE Produce
  BY <1>1, SteadyProduce
<1>2. CASE World
  BY <1>2, SteadyWorld
<1>3. ASSUME NEW w \in Workers, ClaimBook(w) PROVE SteadyOK(i)'
  BY <1>3, SteadyClaim DEF ClaimBook
<1>4. ASSUME NEW w \in Workers, ProcessBook(w) \/ Raise(w) \/ Crash(w) \/ StopRun(w)
      PROVE  SteadyOK(i)'
  BY <1>4, SteadyWork
<1>5. ASSUME NEW w \in Workers, StartAnyRun(w) PROVE SteadyOK(i)'
  <2>1. SameRow(i)
    BY <1>5 DEF StartAnyRun, StartRun, tables, SameRow
  <2>2. \A v \in Workers : Holds(v, i)' => Holds(v, i) /\ pc'[v] = pc[v]
    BY <1>5 DEF StartAnyRun, StartRun, Holds, Idle, TypeOK
  <2> QED
    BY <2>1, <2>2, RowStands
<1>6. CASE UNCHANGED vars
  <2>1. SameRow(i) /\ \A v \in Workers : Holds(v, i)' => Holds(v, i) /\ pc'[v] = pc[v]
    BY <1>6 DEF vars, SameRow, Holds, Idle
  <2> QED
    BY <2>1, RowStands
<1> QED
  BY <1>1, <1>2, <1>3, <1>4, <1>5, <1>6 DEF Next
-----------------------------------------------------------------------------
LEMMA InitQueueInv == Init => QueueInv
<1> SUFFICES ASSUME Init PROVE QueueInv
  OBVIOUS
<1> USE RowAssumption, QueueAssumption
<1>1. TypeOK
  <2>1. /\ nextId \in 1 .. MaxBooks + 1
        /\ NoRun \in Runs
    BY DEF Init, NoRun, Runs, Scopes, AnySource
  <2> QED
    BY <2>1 DEF Init, TypeOK, Stages, Listed, Md5s
<1>2. TableOK /\ Md5OK /\ IndexedBytesVerified /\ \A i \in Ids : SteadyOK(i)
  BY DEF Init, TableOK, Md5OK, IndexedBytesVerified, SteadyOK, Steady, Exists
<1>3. BusyOK /\ WorkOK
  BY DEF Init, BusyOK, WorkOK, Idle
<1>4. ListingOK
  BY DEF Init, ListingOK, Listed
<1> QED
  BY <1>1, <1>2, <1>3, <1>4 DEF QueueInv

LEMMA NextQueueInv == QueueInv /\ [Next]_vars => QueueInv'
BY TypeStep, TableStep, BusyStep, ListingStep, Md5Step, WorkStep, BytesStep, SteadyStep
   DEF QueueInv, Ids

(* The invariant the theorems below are read off from.                     *)
LEMMA InductiveInvariant == Spec => []QueueInv
BY InitQueueInv, NextQueueInv, PTL DEF Spec

(* The tables and the workers keep their shape: ids stay in the table, a   *)
(* worker's stage is one of process_book's, its limit never goes below 0.  *)
THEOREM TypeCorrect == Spec => []TypeOK
<1>1. QueueInv => TypeOK
  BY DEF QueueInv
<1> QED
  BY <1>1, InductiveInvariant, PTL

(* db.delete_book: a purged book never answers again, whoever was working  *)
(* on it and whatever that worker does next.                               *)
THEOREM PurgedForGood == Spec => []PurgeIsFinal
<1>1. QueueInv => PurgeIsFinal
  BY DEF QueueInv, TableOK, PurgeIsFinal
<1> QED
  BY <1>1, InductiveInvariant, PTL

(* db.touch_claim: while every stage fits its lease, no two live workers   *)
(* process the same book, however many workers, crashes and runs there are.*)
THEOREM OneHolder == Spec => []ExclusiveHolder
<1>1. QueueInv => ExclusiveHolder
  BY DEF QueueInv, SteadyOK, ExclusiveHolder
<1> QED
  BY <1>1, InductiveInvariant, PTL

(* process_book's checksum: chunks are never cut from bytes other than     *)
(* those the row names, even with two workers racing for one book.         *)
THEOREM BytesVerified == Spec => []IndexedBytesVerified
<1>1. QueueInv => IndexedBytesVerified
  BY DEF QueueInv
<1> QED
  BY <1>1, InductiveInvariant, PTL

(* db.py's module docstring, for steady books: search answers from exactly *)
(* the books listed as done.                                               *)
THEOREM SearchAgrees == Spec => []SearchMatchesShelf
<1>1. QueueInv => SearchMatchesShelf
  BY DEF QueueInv, SteadyOK, SearchMatchesShelf
<1> QED
  BY <1>1, InductiveInvariant, PTL

(* db.claim_next_book: a steady book that used up its attempts is failed   *)
(* and nobody has it in hand.                                              *)
THEOREM ExhaustedFailed == Spec => []ExhaustedStaysFailed
<1>1. QueueInv => ExhaustedStaysFailed
  BY DEF QueueInv, SteadyOK, ExhaustedStaysFailed
<1> QED
  BY <1>1, InductiveInvariant, PTL
-----------------------------------------------------------------------------
(* One step from a state of the invariant leaves a steady book's terminal  *)
(* status alone, or purges the book.                                       *)
LEMMA TerminalStep ==
  ASSUME QueueInv, [Next]_vars, NEW i \in Ids, Steady(i), books[i].status \in Terminal,
         "wrapup" \notin Flaky
  PROVE  books'[i] = NoRow \/ books'[i].status = books[i].status
<1> DEFINE Goal == books'[i] = NoRow \/ books'[i].status = books[i].status
<1> USE DEF QueueInv
<1>1. Exists(i) /\ books[i].source_id \notin Resettable
  BY DEF Steady
<1>2. ASSUME books'[i] = books[i] PROVE Goal
  BY <1>2
<1>3. CASE Produce
  BY <1>1, <1>2, <1>3, ProduceKeeps
<1>4. ASSUME NEW w \in Workers, NEW k \in Ids, HandOut(w, k) \/ GiveUp(w, k) PROVE Goal
  <2>1. Claimable(books[k], run[w].scope) /\ \A j \in Ids : j # k => books'[j] = books[j]
    BY <1>4, ClaimFrame
  <2> QED
    BY <1>2, <2>1 DEF Claimable
<1>5. ASSUME NEW w \in Workers, ProcessBook(w) \/ Raise(w) \/ Crash(w) \/ StopRun(w)
      PROVE  Goal
  <2>1. CASE Holds(w, i)
    BY <1>5, <2>1, HolderStep
  <2>2. CASE ~Holds(w, i)
    BY <1>2, <1>5, <2>2, WorkFrame DEF SameRow
  <2> QED
    BY <2>1, <2>2
<1>6. ASSUME NEW j \in Ids, Purge(j) \/ LeaseLapses(j) PROVE Goal
  <2>1. CASE LeaseLapses(j)
    BY <1>1, <1>6, <2>1, LapseFrame
  <2>2. CASE Purge(j)
    BY <2>2 DEF Purge, TypeOK
  <2> QED
    BY <1>6, <2>1, <2>2
<1>7. ASSUME NEW f \in DriveFiles, EditFile(f) \/ SyncMirror(f) PROVE Goal
  BY <1>2, <1>7 DEF EditFile, SyncMirror, tables
<1>8. ASSUME NEW w \in Workers, StartAnyRun(w) PROVE Goal
  BY <1>2, <1>8 DEF StartAnyRun, StartRun, tables
<1>9. CASE UNCHANGED vars
  BY <1>2, <1>9 DEF vars
<1> QED
  BY <1>3, <1>4, <1>5, <1>6, <1>7, <1>8, <1>9 DEF Next, World, ClaimBook

(* A steady book that is done, failed or needs OCR only leaves that status *)
(* by being purged (the exclusion list of claim_next_book's WHERE).        *)
THEOREM TerminalForGood == Spec => TerminalIsFinal
<1>1. QueueInv /\ [Next]_vars =>
        [\A i \in Ids :
           /\ Steady(i)
           /\ books[i].status \in Terminal
           /\ "wrapup" \notin Flaky
           => books'[i] = NoRow \/ books'[i].status = books[i].status]_vars
  BY TerminalStep
<1> QED
  BY <1>1, InductiveInvariant, PTL DEF Spec, TerminalIsFinal
=============================================================================
