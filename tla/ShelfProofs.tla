---------------------------- MODULE ShelfProofs ----------------------------
(***************************************************************************)
(* The ingest queue of a steady installation implements a Shelf.  The      *)
(* proof reads everything off the invariant of IngestQueueProofs before    *)
(* and after a step, and needs of the step itself only which row it        *)
(* touches.                                                                *)
(***************************************************************************)
EXTENDS ShelfRefinement, IngestQueueProofs

Stood(i) == StandOf(i)' = StandOf(i) /\ chunks'[i] = chunks[i]

ShelfNext == [ShelfView!Next]_<<[i \in Ids |-> StandOf(i)], chunks>>

(* The row behind each stand of a book.                                    *)
StandFacts(i) ==
  /\ i >= nextId <=> StandOf(i) = "unused"
  /\ i < nextId /\ ~Exists(i) <=> StandOf(i) = "removed"
  /\ Exists(i) /\ books[i].status \in Waiting <=> StandOf(i) = "queued"
  /\ Exists(i) /\ books[i].status = "done" <=> StandOf(i) = "indexed"
  /\ Exists(i) /\ books[i].status \in {"failed", "needs_ocr"}
       <=> StandOf(i) = "rejected"
  /\ Exists(i) => i < nextId
  /\ Exists(i) => books[i].status \in Waiting \cup Terminal
  /\ StandOf(i) \in {"unused", "removed", "queued", "indexed", "rejected"}

LEMMA StandOfRow == TypeOK /\ TableOK => \A i \in Ids : StandFacts(i)
<1> SUFFICES ASSUME TypeOK, TableOK, NEW i \in Ids PROVE StandFacts(i)
  OBVIOUS
<1>1. i \in Int /\ nextId \in Int /\ (i >= nextId => ~Exists(i))
  BY DEF TypeOK, TableOK, Ids
<1>2. Exists(i) => books[i].status \in Waiting \cup Terminal
  BY RowsAreRows DEF Row
<1> QED
  BY <1>1, <1>2 DEF StandFacts, StandOf, Waiting, Terminal

(* In a steady installation every book is steady, and chunks are exactly   *)
(* those of the indexed books.                                             *)
AnswerFacts(i) ==
  /\ chunks[i] # NoDoc <=> StandOf(i) = "indexed"
  /\ chunks[i] \in Docs \cup {NoDoc}
  /\ Exists(i) => Steady(i)

LEMMA AnswersAreIndexed ==
  SteadyInstallation /\ QueueInv => \A i \in Ids : AnswerFacts(i)
<1> SUFFICES ASSUME SteadyInstallation, QueueInv, NEW i \in Ids PROVE AnswerFacts(i)
  OBVIOUS
<1>1. Exists(i) => Steady(i)
  BY DEF SteadyInstallation, Steady
<1>2. ~Exists(i) => chunks[i] = NoDoc
  BY DEF QueueInv, TableOK
<1>3. Exists(i) => (books[i].status = "done" <=> chunks[i] # NoDoc)
  BY <1>1 DEF QueueInv, SteadyOK, SteadyInstallation
<1> QED
  BY <1>1, <1>2, <1>3, StandOfRow DEF QueueInv, TypeOK, AnswerFacts, StandFacts

(* A step that moves nothing is a stutter; one that moves one book is a    *)
(* move of the shelf.                                                      *)
LEMMA NobodyMoves ==
  ASSUME TypeOK, TypeOK', \A i \in Ids : Stood(i)
  PROVE  ShelfNext
<1>1. chunks' = chunks
  BY DEF TypeOK, Stood
<1>2. [i \in Ids |-> StandOf(i)]' = [i \in Ids |-> StandOf(i)]
  BY DEF Stood
<1> QED
  BY <1>1, <1>2 DEF ShelfNext

LEMMA OneMoves ==
  ASSUME TypeOK, TypeOK', NEW k \in Ids, \A i \in Ids \ {k} : Stood(i),
         \/ StandOf(k) = "unused" /\ StandOf(k)' = "queued" /\ chunks'[k] = chunks[k]
         \/ StandOf(k) = "queued" /\ StandOf(k)' = "indexed" /\ chunks'[k] \in Docs
         \/ StandOf(k) = "queued" /\ StandOf(k)' = "rejected" /\ chunks'[k] = chunks[k]
         \/ /\ StandOf(k) \in {"queued", "indexed", "rejected"}
            /\ StandOf(k)' = "removed" /\ chunks'[k] = NoDoc
  PROVE  ShelfNext
<1> DEFINE S == [i \in Ids |-> StandOf(i)]
<1>1. S' = [S EXCEPT ![k] = StandOf(k)']
  BY DEF Stood
<1>2. chunks' = [chunks EXCEPT ![k] = chunks'[k]]
  BY DEF TypeOK, Stood
<1>3. S[k] = StandOf(k)
  OBVIOUS
<1>4. ASSUME chunks'[k] = chunks[k] PROVE chunks' = chunks
  BY <1>2, <1>4 DEF TypeOK
<1> HIDE DEF S
<1>5. CASE StandOf(k) = "unused" /\ StandOf(k)' = "queued" /\ chunks'[k] = chunks[k]
  <2>1. ShelfView!Queue(k)
    BY <1>1, <1>3, <1>4, <1>5 DEF ShelfView!Queue, ShelfView!Move, S
  <2> QED
    BY <2>1 DEF ShelfNext, ShelfView!Next
<1>6. CASE StandOf(k) = "queued" /\ StandOf(k)' = "indexed" /\ chunks'[k] \in Docs
  <2>1. ShelfView!Index(k)
    BY <1>1, <1>2, <1>3, <1>6 DEF ShelfView!Index, ShelfView!Move, S
  <2> QED
    BY <2>1 DEF ShelfNext, ShelfView!Next
<1>7. CASE StandOf(k) = "queued" /\ StandOf(k)' = "rejected" /\ chunks'[k] = chunks[k]
  <2>1. ShelfView!Reject(k)
    BY <1>1, <1>3, <1>4, <1>7 DEF ShelfView!Reject, ShelfView!Move, S
  <2> QED
    BY <2>1 DEF ShelfNext, ShelfView!Next
<1>8. CASE /\ StandOf(k) \in {"queued", "indexed", "rejected"}
           /\ StandOf(k)' = "removed" /\ chunks'[k] = NoDoc
  <2>1. ShelfView!Remove(k)
    BY <1>1, <1>2, <1>3, <1>8 DEF ShelfView!Remove, ShelfView!Move, S
  <2> QED
    BY <2>1 DEF ShelfNext, ShelfView!Next
<1> QED
  BY <1>5, <1>6, <1>7, <1>8
-----------------------------------------------------------------------------
(* A step that leaves the counter and every row but one alone.             *)
LEMMA RowMoves ==
  ASSUME SteadyInstallation, QueueInv, QueueInv', [Next]_vars, nextId' = nextId,
         NEW k \in Ids, \A i \in Ids \ {k} : SameRow(i)
  PROVE  ShelfNext
<1>1. TypeOK /\ TableOK /\ TypeOK' /\ TableOK'
  BY DEF QueueInv
<1>2. ASSUME NEW i \in Ids \ {k} PROVE Stood(i)
  <2>1. SameRow(i)
    OBVIOUS
  <2> QED
    BY <2>1 DEF Stood, SameRow, StandOf, Exists
<1>3. AnswerFacts(k) /\ StandFacts(k)
  BY <1>1, AnswersAreIndexed, StandOfRow
<1>4. AnswerFacts(k)' /\ StandFacts(k)'
  <2>1. (SteadyInstallation /\ QueueInv => \A i \in Ids : AnswerFacts(i))'
    BY AnswersAreIndexed, PTL
  <2>2. (TypeOK /\ TableOK => \A i \in Ids : StandFacts(i))'
    BY StandOfRow, PTL
  <2> QED
    BY <1>1, <2>1, <2>2 DEF SteadyInstallation, Resettable, Ids
<1> USE <1>3, <1>4 DEF AnswerFacts, StandFacts
<1>7. CASE ~Exists(k)
  <2>1. ~Exists(k)'
    BY <1>1, <1>7, IdentityKept, NewRows DEF QueueInv, TypeOK, TableOK, Ids
  <2>2. Stood(k)
    BY <1>7, <2>1 DEF Stood
  <2> QED
    BY <1>1, <1>2, <2>2, NobodyMoves
<1>8. CASE Exists(k) /\ ~Exists(k)'
  <2>1. StandOf(k) \in {"queued", "indexed", "rejected"} /\ StandOf(k)' = "removed"
        /\ chunks'[k] = NoDoc
    BY <1>8
  <2> QED
    BY <1>1, <1>2, <2>1, OneMoves
<1>9. CASE Exists(k) /\ Exists(k)' /\ books[k].status \in Terminal
  <2>1. books'[k].status = books[k].status
    BY <1>9, TerminalStep DEF SteadyInstallation, Exists
  <2>2. StandOf(k)' = StandOf(k)
    BY <1>9, <2>1 DEF Terminal
  <2>3. chunks'[k] = chunks[k]
    <3>1. ASSUME NEW w \in Workers, pc[w] = "finish", job[w].id = k PROVE FALSE
      <4>1. StageOK(w, k)
        BY <1>9, <3>1 DEF QueueInv, SteadyOK, Holds, Idle
      <4> QED
        BY <1>9, <3>1, <4>1 DEF StageOK, Waiting, Terminal
    <3>2. chunks'[k] \in {chunks[k], NoDoc}
      BY <1>1, <3>1, ChunkStep
    <3> QED
      BY <2>2, <3>2
  <2> QED
    BY <1>1, <1>2, <2>2, <2>3, NobodyMoves DEF Stood
<1>10. CASE Exists(k) /\ Exists(k)' /\ books[k].status \in Waiting
  <2>1. StandOf(k) = "queued" /\ chunks[k] = NoDoc
    BY <1>10
  <2>2. StandOf(k)' \in {"queued", "indexed", "rejected"}
    BY <1>10
  <2>3. CASE StandOf(k)' = "queued"
    BY <1>1, <1>2, <2>1, <2>3, NobodyMoves DEF Stood
  <2>4. CASE StandOf(k)' = "indexed"
    BY <1>1, <1>2, <2>1, <2>4, OneMoves
  <2>5. CASE StandOf(k)' = "rejected"
    BY <1>1, <1>2, <2>1, <2>5, OneMoves
  <2> QED
    BY <2>2, <2>3, <2>4, <2>5
<1> QED
  BY <1>7, <1>8, <1>9, <1>10

(* An INSERT queues the next id; no other upsert does anything here.       *)
LEMMA ProducerMoves ==
  ASSUME SteadyInstallation, QueueInv, QueueInv', [Next]_vars, Produce
  PROVE  ShelfNext
<1>1. TypeOK /\ TableOK /\ TypeOK' /\ TableOK'
  BY DEF QueueInv
<1>2. chunks' = chunks
  BY <1>1, ProduceIsUpsert
<1>3. \A i \in Ids : Exists(i) => books'[i] = books[i]
  BY ProduceKeeps DEF SteadyInstallation, QueueInv
<1>4. (TypeOK /\ TableOK => \A i \in Ids : StandFacts(i))'
  BY StandOfRow, PTL
<1>5. CASE nextId' = nextId
  <2>1. \A i \in Ids : Exists(i)' => Exists(i)
    BY <1>1, <1>5, NewRows DEF QueueInv, TypeOK, TableOK, Ids
  <2>2. ASSUME NEW i \in Ids PROVE SameRow(i)
    BY <1>2, <1>3, <2>1 DEF SameRow, Exists
  <2>3. ASSUME NEW i \in Ids PROVE Stood(i)
    BY <1>5, <2>2 DEF Stood, SameRow, StandOf, Exists
  <2> QED
    BY <1>1, <2>3, NobodyMoves
<1>6. ASSUME NEW s \in Sources, NEW m \in Md5s, Insert(s, m) PROVE ShelfNext
  <2>1. PICK k \in Ids : k = nextId
    BY <1>1, <1>6, QueueAssumption DEF Insert, TypeOK, Ids
  <2>2. nextId' = k + 1 /\ k \in Int
    BY <1>6, <2>1 DEF Insert, Ids
  <2>3. books'[k] = NewRow(s, m) /\ \A i \in Ids \ {k} : books'[i] = books[i]
    BY <1>1, <1>6, <2>1 DEF Insert, TypeOK
  <2>4. Exists(k)' /\ books'[k].status = "discovered"
    <3>1. NewRow(s, m) \in Row /\ NewRow(s, m).status = "discovered"
      BY DEF NewRow, Row, Leases, Waiting
    <3> QED
      BY <2>3, <3>1, RowAssumption DEF Exists
  <2>5. ASSUME NEW i \in Ids \ {k} PROVE Stood(i)
    <3>1. i \in Int /\ (i >= nextId' <=> i >= nextId) /\ (i < nextId' <=> i < nextId)
      BY <2>1, <2>2 DEF Ids
    <3>2. books'[i] = books[i]
      BY <2>3
    <3>3. StandFacts(i) /\ StandFacts(i)'
      BY <1>1, <1>4, StandOfRow DEF Ids
    <3>4. StandOf(i)' = StandOf(i)
      BY <3>1, <3>2, <3>3 DEF StandFacts, Exists
    <3> QED
      BY <1>2, <3>4 DEF Stood
  <2>6. StandOf(k) = "unused"
    BY <1>1, <2>1, <2>2, StandOfRow DEF StandFacts
  <2>7. StandOf(k)' = "queued"
    BY <1>1, <1>4, <2>4 DEF StandFacts, Waiting, Ids
  <2> QED
    BY <1>1, <1>2, <2>5, <2>6, <2>7, OneMoves
<1>7. CASE nextId' # nextId
  <2>1. PICK s \in Sources, m \in Md5s : UpsertBook(s, m)
    BY <1>1, <1>7, ProduceIsUpsert
  <2>2. Insert(s, m)
    BY <1>7, <2>1 DEF UpsertBook
  <2> QED
    BY <1>6, <2>2
<1> QED
  BY <1>5, <1>7

LEMMA StepMoves ==
  ASSUME SteadyInstallation, QueueInv, QueueInv', [Next]_vars
  PROVE  ShelfNext
<1>1. TypeOK /\ TypeOK'
  BY DEF QueueInv
<1>2. ASSUME nextId' = nextId, \A i \in Ids : SameRow(i) PROVE ShelfNext
  <2>1. ASSUME NEW i \in Ids PROVE Stood(i)
    BY <1>2 DEF Stood, SameRow, StandOf, Exists
  <2> QED
    BY <1>1, <2>1, NobodyMoves
<1>3. CASE Produce
  BY <1>3, ProducerMoves
<1>4. ASSUME NEW k \in Ids, Purge(k) \/ LeaseLapses(k) PROVE ShelfNext
  <2>1. nextId' = nextId /\ \A i \in Ids \ {k} : SameRow(i)
    BY <1>1, <1>4 DEF Purge, LeaseLapses, DropChunks, SameRow, TypeOK
  <2> QED
    BY <2>1, RowMoves
<1>5. ASSUME NEW f \in DriveFiles, EditFile(f) \/ SyncMirror(f) PROVE ShelfNext
  BY <1>2, <1>5 DEF EditFile, SyncMirror, tables, SameRow
<1>6. ASSUME NEW w \in Workers, StartAnyRun(w) PROVE ShelfNext
  BY <1>2, <1>6 DEF StartAnyRun, StartRun, tables, SameRow
<1>7. ASSUME NEW w \in Workers, NEW k \in Ids, HandOut(w, k) \/ GiveUp(w, k)
      PROVE  ShelfNext
  <2>1. nextId' = nextId /\ chunks' = chunks /\ \A i \in Ids \ {k} : books'[i] = books[i]
    BY <1>1, <1>7, ClaimFrame DEF HandOut, GiveUp
  <2> QED
    BY <2>1, RowMoves DEF SameRow
<1>8. ASSUME NEW w \in Workers, ProcessBook(w) \/ Raise(w) \/ Crash(w) \/ StopRun(w)
      PROVE  ShelfNext
  <2>1. nextId' = nextId /\ \A i \in Ids : ~Holds(w, i) => SameRow(i)
    BY <1>1, <1>8, WorkFrame
  <2>2. CASE Idle(w)
    BY <1>2, <2>1, <2>2 DEF Holds
  <2>3. CASE ~Idle(w)
    <3>1. PICK k \in Ids : k = job[w].id
      BY <2>3 DEF QueueInv, BusyOK, BusyWorker, Jobs
    <3>2. \A i \in Ids \ {k} : SameRow(i)
      BY <2>1, <3>1 DEF Holds
    <3> QED
      BY <2>1, <3>2, RowMoves
  <2> QED
    BY <2>2, <2>3
<1>9. CASE UNCHANGED vars
  BY <1>2, <1>9 DEF vars, SameRow
<1> QED
  BY <1>3, <1>4, <1>5, <1>6, <1>7, <1>8, <1>9 DEF Next, World, ClaimBook

(* db.py's module docstring, of a steady installation: whatever the        *)
(* workers, crashes and purges do, readers see books that are queued,      *)
(* indexed in one step or rejected, and removed for good.                  *)
THEOREM QueueImplementsShelf ==
  ASSUME SteadyInstallation
  PROVE  Spec => QueueIsShelf
<1>1. Init => ShelfView!Init
  <2> SUFFICES ASSUME Init PROVE ShelfView!Init
    OBVIOUS
  <2>1. ASSUME NEW i \in Ids PROVE StandOf(i) = "unused"
    <3>1. i >= nextId
      BY DEF Init, Ids
    <3> QED
      BY <3>1 DEF StandOf, Ids, Init, Exists
  <2> QED
    BY <2>1 DEF ShelfView!Init, Init
<1>2. SteadyInstallation /\ QueueInv /\ QueueInv' /\ [Next]_vars =>
        [ShelfView!Next]_<<[i \in Ids |-> StandOf(i)], chunks>>
  BY StepMoves DEF ShelfNext
<1> QED
  BY <1>1, <1>2, InductiveInvariant, PTL DEF Spec, QueueIsShelf, ShelfView!Spec
=============================================================================
