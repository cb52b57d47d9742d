------------------------- MODULE MirrorSyncProofs --------------------------
(***************************************************************************)
(* Proofs about MirrorSync, for any number of syncs, folders and files and *)
(* however often Drive is edited: the running flag, which is tested in two *)
(* places and set in a third, and who holds the locks (FlagInv); the rows  *)
(* of the table (TypeInv); what a sync that was left alone knows at each   *)
(* of its stages, up to the whole library with its paths and sizes         *)
(* (FaithInv); and the names that vectors were computed under (NameInv).   *)
(*                                                                         *)
(* Paths and sizes come from recursions over the tree.  They are reasoned  *)
(* about as iterations: a tree without cycles has settled after as many    *)
(* steps as it has items, and a way from the root is no longer than that.  *)
(***************************************************************************)
EXTENDS MirrorSync, DataInduction, FiniteSetTheorems, TLAPS

(* A sync is a record; what it listed and what it embeds may be anything. *)
IsSync(r) ==
  r \in [at : Stages, web : BOOLEAN, folders : {r.folders}, titles : {r.titles}]

SyncShape ==
  /\ DOMAIN sync = Syncers
  /\ \A s \in Syncers : IsSync(sync[s])

(* Only a task of the server waits at the flag. *)
WebAtFlag == \A s \in Syncers : sync[s].at \in {"queued", "flag"} => sync[s].web

(* The locks are held by the one sync between its upserts and its commit. *)
LockOfWriter ==
  /\ locked \in Syncers \cup {NoOne}
  /\ \A s \in Syncers : sync[s].at = "files" <=> locked = s

FlagInv == SyncShape /\ WebAtFlag /\ FlagHonest /\ LockOfWriter
-----------------------------------------------------------------------------
LEMMA OffShape == /\ IsSync(Off)
                   /\ Off.at = "off"
                   /\ Off.web = FALSE
BY DEF Off, IsSync, Stages

LEMMA FlagInit == MirrorInit => FlagInv
BY OffShape, MirrorAssumption
DEF MirrorInit, FlagInv, SyncShape, WebAtFlag, FlagHonest, LockOfWriter

(* What becomes of the syncs when one of them is given a new record. *)
LEMMA OneMoves ==
  ASSUME SyncShape, NEW s \in Syncers, NEW r, IsSync(r),
         sync' = [sync EXCEPT ![s] = r]
  PROVE  /\ SyncShape'
         /\ sync'[s] = r
         /\ \A o \in Syncers \ {s} : sync'[o] = sync[o]
BY DEF SyncShape

(* A step of a sync under way that leaves the flag as it is, and the locks *)
(* too unless they are what it is about.                                   *)
LEMMA GoesOn ==
  ASSUME FlagInv, NEW s \in Syncers, NEW r, IsSync(r),
         sync' = [sync EXCEPT ![s] = r],
         sync[s].at \notin {"off", "queued"},
         r.at \notin {"off", "queued", "flag"}, r.web = sync[s].web,
         running' = running,
         \/ sync[s].at # "files" /\ r.at # "files" /\ locked' = locked
         \/ r.at = "files" /\ locked = NoOne /\ locked' = s
         \/ sync[s].at = "files" /\ r.at # "files" /\ locked' = NoOne
  PROVE  FlagInv'
<1>1. /\ SyncShape'
      /\ sync'[s] = r
      /\ \A o \in Syncers \ {s} : sync'[o] = sync[o]
  BY OneMoves DEF FlagInv
<1>2. WebAtFlag'
  BY <1>1 DEF FlagInv, WebAtFlag
<1>3. FlagHonest'
  BY <1>1 DEF FlagInv, FlagHonest, Busy
<1>4. LockOfWriter'
  BY <1>1, MirrorAssumption DEF FlagInv, LockOfWriter
<1> QED
  BY <1>1, <1>2, <1>3, <1>4 DEF FlagInv

(* The end clears the flag if the sync is the server's; if it is not, the  *)
(* flag's owner is another one and still there.                            *)
LEMMA EndsStep ==
  ASSUME FlagInv, NEW s \in Syncers, sync[s].at \notin {"off", "queued", "flag"}, Ends(s)
  PROVE  FlagInv'
<1>1. /\ SyncShape'
      /\ sync'[s] = Off
      /\ \A o \in Syncers \ {s} : sync'[o] = sync[o]
  BY OneMoves, OffShape DEF FlagInv, Ends
<1>2. WebAtFlag'
  BY <1>1, OffShape DEF FlagInv, WebAtFlag
<1>3. FlagHonest'
  <2>1. CASE sync[s].web
    BY <2>1 DEF Ends, FlagAfter, FlagHonest
  <2>2. CASE ~sync[s].web
    BY <2>2, <1>1 DEF FlagInv, Ends, FlagAfter, FlagHonest, Busy
  <2> QED
    BY <2>1, <2>2
<1>4. LockOfWriter'
  BY <1>1, OffShape, MirrorAssumption DEF FlagInv, LockOfWriter, Ends
<1> QED
  BY <1>1, <1>2, <1>3, <1>4 DEF FlagInv

(* A sync that was not under way takes a place; the flag goes up or stays. *)
LEMMA SetsOut ==
  ASSUME FlagInv, NEW s \in Syncers, NEW r, IsSync(r),
         sync' = [sync EXCEPT ![s] = r],
         sync[s].at \in {"off", "queued", "flag"}, r.at # "files",
         r.at \in {"queued", "flag"} => r.web,
         \/ running' = running /\ sync[s].at # "flag"
         \/ r.web /\ r.at \notin {"off", "queued"},
         locked' = locked
  PROVE  FlagInv'
<1>1. /\ SyncShape'
      /\ sync'[s] = r
      /\ \A o \in Syncers \ {s} : sync'[o] = sync[o]
  BY OneMoves DEF FlagInv
<1>2. WebAtFlag'
  BY <1>1 DEF FlagInv, WebAtFlag
<1>3. FlagHonest'
  BY <1>1 DEF FlagInv, FlagHonest, Busy
<1>4. LockOfWriter'
  BY <1>1, MirrorAssumption DEF FlagInv, LockOfWriter
<1> QED
  BY <1>1, <1>2, <1>3, <1>4 DEF FlagInv

LEMMA KillStep == FlagInv /\ KillServer => FlagInv'
<1> SUFFICES ASSUME FlagInv, KillServer PROVE FlagInv'
  OBVIOUS
<1>1. \A s \in Syncers : sync'[s] = IF sync[s].web THEN Off ELSE sync[s]
  BY DEF KillServer
<1>2. SyncShape'
  BY <1>1, OffShape DEF KillServer, FlagInv, SyncShape
<1>3. WebAtFlag'
  BY <1>1, OffShape DEF FlagInv, WebAtFlag
<1>4. FlagHonest'
  BY DEF KillServer, FlagHonest
<1>5. LockOfWriter'
  BY <1>1, OffShape, MirrorAssumption DEF KillServer, FlagInv, LockOfWriter
<1> QED
  BY <1>2, <1>3, <1>4, <1>5 DEF FlagInv

LEMMA FlagFrame == FlagInv /\ UNCHANGED <<sync, running, locked>> => FlagInv'
BY DEF FlagInv, SyncShape, WebAtFlag, FlagHonest, LockOfWriter, Busy
-----------------------------------------------------------------------------
(* The steps that take a stage: only `at` and one listing change.          *)
LEMMA GotoShape ==
  ASSUME SyncShape, NEW s \in Syncers, NEW at \in Stages, Goto(s, at)
  PROVE  \E r : /\ IsSync(r)
                /\ sync' = [sync EXCEPT ![s] = r]
                /\ r.at = at
                /\ r.web = sync[s].web
<1> DEFINE r == [sync[s] EXCEPT !.at = at]
<1>1. /\ IsSync(r)
      /\ sync' = [sync EXCEPT ![s] = r]
      /\ r.at = at
      /\ r.web = sync[s].web
  BY DEF Goto, SyncShape, IsSync, Stages
<1> QED
  BY <1>1

LEMMA PassStep ==
  ASSUME FlagInv, NEW s \in Syncers, NEW from, NEW to, NEW table, Pass(s, from, to, table),
         from \notin {"off", "queued", "files"}, to \in Stages \ {"off", "queued", "flag", "files"}
  PROVE  FlagInv'
<1>1. PICK r : /\ IsSync(r)
               /\ sync' = [sync EXCEPT ![s] = r]
               /\ r.at = to
               /\ r.web = sync[s].web
  BY GotoShape DEF FlagInv, Pass
<1>2. sync[s].at = from /\ running' = running /\ locked' = locked
  BY DEF Pass
<1> QED
  BY <1>1, <1>2, GoesOn

LEMMA SyncerStep ==
  ASSUME FlagInv, NEW s \in Syncers,
         \/ DriveSyncStart(s) \/ TestFlag(s) \/ SetFlag(s) \/ StartCommand(s)
         \/ ListFolders(s) \/ UpsertFolders(s) \/ CommitRows(s)
         \/ MaterialisePaths(s) \/ PruneOutsideRoot(s) \/ MaterialiseSizes(s)
         \/ SelectTitles(s) \/ StoreVectors(s) \/ EndSync(s) \/ NoText(s) \/ FailSync(s)
  PROVE  FlagInv'
<1> DEFINE
      Taking(r, at) == IsSync(r) /\ sync' = [sync EXCEPT ![s] = r] /\ r.at = at
<1>0. SyncShape /\ IsSync(sync[s])
  BY DEF FlagInv, SyncShape
<1>1. CASE DriveSyncStart(s)
  <2> DEFINE r == [Off EXCEPT !.at = "queued", !.web = TRUE]
  <2>1. Taking(r, "queued") /\ r.web
    BY <1>1, OffShape DEF DriveSyncStart, Off, IsSync, Stages
  <2>2. sync[s].at = "off" /\ running' = running /\ locked' = locked
    BY <1>1 DEF DriveSyncStart
  <2> HIDE DEF r
  <2> QED
    BY <2>1, <2>2, SetsOut
<1>2. CASE TestFlag(s)
  <2>1. sync[s].at = "queued" /\ running' = running /\ locked' = locked /\ sync[s].web
    BY <1>2 DEF TestFlag, FlagInv, WebAtFlag
  <2>2. PICK at \in {"off", "flag"} : Goto(s, at)
    BY <1>2 DEF TestFlag
  <2>3. PICK r : Taking(r, at) /\ r.web = sync[s].web
    BY <1>0, <2>2, GotoShape DEF Stages
  <2> QED
    BY <2>1, <2>2, <2>3, SetsOut
<1>3. CASE SetFlag(s)
  <2>1. sync[s].at = "flag" /\ locked' = locked /\ sync[s].web
    BY <1>3 DEF SetFlag, FlagInv, WebAtFlag
  <2>2. PICK r : Taking(r, "folders") /\ r.web = sync[s].web
    BY <1>0, <1>3, GotoShape DEF SetFlag, Stages
  <2> QED
    BY <2>1, <2>2, SetsOut
<1>4. CASE StartCommand(s)
  <2>1. PICK at \in {"folders", "select"} : sync' = [sync EXCEPT ![s] = [Off EXCEPT !.at = at]]
    BY <1>4 DEF StartCommand
  <2> DEFINE r == [Off EXCEPT !.at = at]
  <2>2. Taking(r, at)
    BY <2>1, OffShape DEF Off, IsSync, Stages
  <2>3. sync[s].at = "off" /\ running' = running /\ locked' = locked
    BY <1>4 DEF StartCommand
  <2> HIDE DEF r
  <2> QED
    BY <2>1, <2>2, <2>3, SetsOut
<1>5. CASE ListFolders(s)
  <2> DEFINE r == [sync[s] EXCEPT !.at = "upsert", !.folders = [x \in Folders |-> drive[x]]]
  <2>1. Taking(r, "upsert") /\ r.web = sync[s].web
    BY <1>0, <1>5 DEF ListFolders, IsSync, Stages
  <2>2. sync[s].at = "folders" /\ running' = running /\ locked' = locked
    BY <1>5 DEF ListFolders
  <2> HIDE DEF r
  <2> QED
    BY <2>1, <2>2, GoesOn
<1>6. CASE UpsertFolders(s)
  <2>1. PICK r : Taking(r, "files") /\ r.web = sync[s].web
    BY <1>0, <1>6, GotoShape DEF UpsertFolders, Stages
  <2>2. sync[s].at = "upsert" /\ running' = running /\ locked = NoOne /\ locked' = s
    BY <1>6 DEF UpsertFolders
  <2> QED
    BY <2>1, <2>2, GoesOn
<1>7. CASE CommitRows(s)
  <2> DEFINE r == [sync[s] EXCEPT !.at = "paths", !.folders = Null]
  <2>1. Taking(r, "paths") /\ r.web = sync[s].web
    BY <1>0, <1>7 DEF CommitRows, IsSync, Stages
  <2>2. sync[s].at = "files" /\ running' = running /\ locked' = NoOne
    BY <1>7 DEF CommitRows
  <2> HIDE DEF r
  <2> QED
    BY <2>1, <2>2, GoesOn
<1>8. CASE MaterialisePaths(s)
  BY <1>8, PassStep DEF MaterialisePaths, Stages
<1>9. CASE PruneOutsideRoot(s)
  BY <1>9, PassStep DEF PruneOutsideRoot, Stages
<1>10. CASE MaterialiseSizes(s)
  BY <1>10, PassStep DEF MaterialiseSizes, Stages
<1>11. CASE SelectTitles(s)
  <2> DEFINE r == [sync[s] EXCEPT !.at = "embed",
                     !.titles = [x \in Pending(mirror) |-> mirror[x].path]]
  <2>1. Taking(r, "embed") /\ r.web = sync[s].web
    BY <1>0, <1>11 DEF SelectTitles, IsSync, Stages
  <2>2. sync[s].at = "select" /\ running' = running /\ locked' = locked
    BY <1>11 DEF SelectTitles
  <2> HIDE DEF r
  <2> QED
    BY <2>1, <2>2, GoesOn
<1>12. CASE StoreVectors(s)
  <2> DEFINE r == [sync[s] EXCEPT !.at = "select", !.titles = Null]
  <2>1. Taking(r, "select") /\ r.web = sync[s].web
    BY <1>0, <1>12 DEF StoreVectors, IsSync, Stages
  <2>2. sync[s].at = "embed" /\ running' = running /\ locked' = locked
    BY <1>12 DEF StoreVectors
  <2> HIDE DEF r
  <2> QED
    BY <2>1, <2>2, GoesOn
<1>13. CASE EndSync(s)
  BY <1>13, EndsStep DEF EndSync
<1>14. CASE NoText(s)
  BY <1>14, EndsStep DEF NoText
<1>15. CASE FailSync(s)
  BY <1>15, EndsStep DEF FailSync
<1> QED
  BY <1>1, <1>2, <1>3, <1>4, <1>5, <1>6, <1>7, <1>8, <1>9, <1>10, <1>11, <1>12,
     <1>13, <1>14, <1>15

LEMMA MirrorStep == FlagInv /\ [MirrorNext]_mvars => FlagInv'
<1> SUFFICES ASSUME FlagInv, [MirrorNext]_mvars PROVE FlagInv'
  OBVIOUS
<1>1. CASE EditDrive \/ UNCHANGED mvars
  BY <1>1, FlagFrame DEF EditDrive, mvars
<1>2. CASE KillServer
  BY <1>2, KillStep
<1> QED
  BY <1>1, <1>2, SyncerStep DEF MirrorNext

LEMMA FlagHolds == MirrorSpec => []FlagInv
BY FlagInit, MirrorStep, PTL DEF MirrorSpec

(* The running flag of api.py is up only while a sync of this server is    *)
(* under way: no failure, overlap or kill leaves the button dead.          *)
THEOREM FlagNeverSticks == MirrorSpec => []FlagHonest
<1>1. FlagInv => FlagHonest
  BY DEF FlagInv
<1> QED
  BY <1>1, FlagHolds, PTL

(* The transaction that replace_mirror leaves open between its upserts and *)
(* its commit is one sync's at a time, and ends with that sync.            *)
THEOREM OneWriter == MirrorSpec => []LockOfWriter
<1>1. FlagInv => LockOfWriter
  BY DEF FlagInv
<1> QED
  BY <1>1, FlagHolds, PTL
-----------------------------------------------------------------------------
(* Facts about the recursions over the table, which all go as often as     *)
(* there are items.                                                        *)
Most == Cardinality(Items)

LEMMA MostIsNumber == Most \in Nat /\ Most # 0
BY MirrorAssumption, FS_CardinalityType, FS_EmptySet DEF Most, Items

(* A row of the table, if there is one under that name. *)
HasRow(t, x) == x \in Items /\ t[x] # NoRow

(* Sets that grow until a step adds nothing are closed after `Most` steps. *)
Widens(b) ==
  /\ b \in [0..Most -> SUBSET Items]
  /\ \A k \in 1..Most : b[k - 1] \subseteq b[k]
  /\ \A k \in 1..Most : k < Most /\ b[k] = b[k - 1] => b[k + 1] = b[k]

LEMMA FinitePart == \A B \in SUBSET Items : IsFiniteSet(B) /\ Cardinality(B) \in Nat
BY MirrorAssumption, FS_Subset, FS_CardinalityType

LEMMA LargerPart ==
  \A B, C \in SUBSET Items : B \subseteq C /\ B # C => Cardinality(B) < Cardinality(C)
<1> SUFFICES ASSUME NEW B \in SUBSET Items, NEW C \in SUBSET Items, B \subseteq C, B # C
             PROVE  Cardinality(B) < Cardinality(C)
  OBVIOUS
<1>1. IsFiniteSet(C) /\ Cardinality(B) \in Nat /\ Cardinality(C) \in Nat
  BY FinitePart
<1>2. B \in SUBSET C
  OBVIOUS
<1>3. Cardinality(B) <= Cardinality(C) /\ Cardinality(B) # Cardinality(C)
  BY <1>1, <1>2, FS_Subset
<1> QED
  BY <1>1, <1>3

LEMMA Settles == \A b : Widens(b) => b[Most] = Items \/ b[Most] = b[Most - 1]
<1> SUFFICES ASSUME NEW b, Widens(b)
             PROVE  b[Most] = Items \/ b[Most] = b[Most - 1]
  OBVIOUS
<1> DEFINE Large(k) == Cardinality(b[k]) >= k
           Still(k) == k # 0 /\ b[k] = b[k - 1]
           S == {k \in 0..Most : Large(k) \/ Still(k)}
<1>0. /\ \A k \in 0..Most : b[k] \in SUBSET Items /\ Cardinality(b[k]) \in Nat
      /\ Most \in Nat
  BY MostIsNumber, FinitePart DEF Widens
<1>1. 0 \in S
  BY <1>0
<1>2. ASSUME NEW k \in Nat, k < Most, k \in S
      PROVE  k + 1 \in S
  <2>1. k + 1 \in 1..Most /\ k \in 0..Most /\ (k + 1) - 1 = k /\ k + 1 \in 0..Most
    BY <1>0, <1>2
  <2>2. CASE Still(k)
    <3>1. k \in 1..Most
      BY <2>1, <2>2
    <3>2. b[k + 1] = b[k]
      BY <1>2, <2>2, <3>1 DEF Widens
    <3> QED
      BY <2>1, <3>2
  <2>3. CASE Large(k)
    <3>1. CASE b[k + 1] = b[k]
      BY <2>1, <3>1
    <3>2. CASE b[k + 1] # b[k]
      <4>1. b[k] \subseteq b[k + 1]
        BY <2>1 DEF Widens
      <4>2. Cardinality(b[k]) < Cardinality(b[k + 1])
        BY <1>0, <2>1, <3>2, <4>1, LargerPart
      <4>3. Cardinality(b[k]) \in Nat /\ Cardinality(b[k + 1]) \in Nat
        BY <1>0, <2>1
      <4>4. Large(k + 1)
        BY <2>3, <4>2, <4>3
      <4> QED
        BY <2>1, <4>4
    <3> QED
      BY <3>1, <3>2
  <2> QED
    BY <1>2, <2>2, <2>3
<1>3. Most \in S
  <2> HIDE DEF S
  <2>1. \A k \in 0..Most : k \in S
    BY <1>0, <1>1, <1>2, InductionUpTo
  <2> QED
    BY <1>0, <2>1
<1>4. CASE Still(Most)
  BY <1>4
<1>5. CASE Large(Most)
  <2>1. b[Most] \in SUBSET Items /\ Cardinality(b[Most]) \in Nat
    BY <1>0
  <2>2. ~(Cardinality(b[Most]) < Cardinality(Items))
    BY <1>0, <1>5, <2>1 DEF Most
  <2> QED
    BY <2>1, <2>2, LargerPart
<1> QED
  BY <1>3, <1>4, <1>5
-----------------------------------------------------------------------------
(* What Under and PathsOf compute, step by step.                           *)
BelowRun(t, r, b) ==
  /\ b \in [0..Most -> SUBSET Items]
  /\ b[0] = {x \in {r} : t[x] # NoRow}
  /\ \A k \in 1..Most :
       b[k] = b[k - 1] \cup {x \in Items : t[x] # NoRow /\ t[x].parent \in b[k - 1]}

LEMMA UnderRuns == \A t : \A r \in Items : \E b : BelowRun(t, r, b) /\ Under(t, r) = b[Most]
<1> SUFFICES ASSUME NEW t, NEW r \in Items
             PROVE  \E b : BelowRun(t, r, b) /\ Under(t, r) = b[Most]
  OBVIOUS
<1> DEFINE base == {x \in {r} : t[x] # NoRow}
           Wider(B) == B \cup {x \in Items : t[x] # NoRow /\ t[x].parent \in B}
           step == [B \in SUBSET Items |-> Wider(B)]
           Solution(f) ==
             f = [k \in 0..Cardinality(Items) |->
                    IF k = 0 THEN {x \in {r} : t[x] # NoRow}
                    ELSE f[k - 1] \cup {x \in Items : t[x] # NoRow /\ t[x].parent \in f[k - 1]}]
           below == CHOOSE f : Solution(f)
<1>1. base \in SUBSET Items /\ step \in [SUBSET Items -> SUBSET Items] /\ Most \in Nat
  BY MostIsNumber
<1>2. PICK f \in [0..Most -> SUBSET Items] : Iterates(f, base, step, Most)
  <2> HIDE DEF base, step
  <2> QED
    BY <1>1, IterationUpTo DEF HasIterates
<1>3. f[0] = base
  BY <1>2 DEF Iterates
<1>4. ASSUME NEW k \in 1..Most
      PROVE  f[k] = Wider(f[k - 1])
  <2> HIDE DEF base, Wider
  <2>1. f[k - 1] \in SUBSET Items
    BY <1>1, <1>2
  <2>2. f[k] = step[f[k - 1]]
    <3> HIDE DEF step
    <3> QED
      BY <1>2 DEF Iterates
  <2> QED
    BY <2>1, <2>2
<1>5. Solution(f)
  <2> HIDE DEF step
  <2> SUFFICES f = [k \in 0..Most |-> IF k = 0 THEN base ELSE Wider(f[k - 1])]
    BY DEF Most
  <2> HIDE DEF base, Wider
  <2>1. \A k \in 0..Most : k # 0 => k \in 1..Most
    BY <1>1
  <2> QED
    BY <1>2, <1>3, <1>4, <2>1
<1>6. Solution(below)
  <2> HIDE DEF Solution
  <2> QED
    BY <1>5
<1>7. Under(t, r) = below[Most]
  BY DEF Under, Most
<1>8. below = [k \in 0..Most |-> IF k = 0 THEN base ELSE Wider(below[k - 1])]
  <2> HIDE DEF below
  <2> QED
    BY <1>6 DEF Most
<1> HIDE DEF below, Solution, step
<1>9. \A k \in 0..Most : below[k] = f[k]
  <2> HIDE DEF base, Wider
  <2> DEFINE S == {k \in 0..Most : below[k] = f[k]}
  <2>1. 0 \in S
    BY <1>1, <1>3, <1>8
  <2>2. ASSUME NEW k \in Nat, k < Most, k \in S
        PROVE  k + 1 \in S
    <3>1. k + 1 \in 1..Most /\ (k + 1) - 1 = k /\ k + 1 \in 0..Most /\ k + 1 # 0
      BY <1>1, <2>2
    <3>2. f[k + 1] = Wider(f[k]) /\ below[k + 1] = Wider(below[k])
      BY <1>4, <1>8, <3>1
    <3> QED
      BY <2>2, <3>1, <3>2
  <2> HIDE DEF S
  <2>3. \A k \in 0..Most : k \in S
    BY <1>1, <2>1, <2>2, InductionUpTo
  <2> QED
    BY <2>3 DEF S
<1>10. Under(t, r) = f[Most]
  BY <1>1, <1>7, <1>9
<1> QED
  BY <1>2, <1>3, <1>4, <1>10 DEF BelowRun
-----------------------------------------------------------------------------
(* materialise_paths names a row when its parent has its path.             *)
LevelRun(t, l) ==
  /\ l \in [0..Most -> [Items -> Paths]]
  /\ \A x \in Items :
       l[0][x] = IF HasRow(t, x) /\ ~HasRow(t, t[x].parent) THEN <<t[x].name>> ELSE Null
  /\ \A k \in 1..Most : \A x \in Items :
       l[k][x] = IF l[k - 1][x] = Null /\ HasRow(t, x) /\ l[k - 1][t[x].parent] # Null
                   THEN Append(l[k - 1][t[x].parent], t[x].name)
                   ELSE l[k - 1][x]
  /\ \A k \in 0..Most : \A x \in Items :
       HasRow(t, x) /\ l[k][x] = Null => HasRow(t, t[x].parent)

NamedRows(t) == \A x \in Items : HasRow(t, x) => t[x].name \in Names

LEMMA PathsRun == \A t : NamedRows(t) => \E l : LevelRun(t, l) /\ PathsOf(t) = l[Most]
<1> SUFFICES ASSUME NEW t, NamedRows(t)
             PROVE  \E l : LevelRun(t, l) /\ PathsOf(t) = l[Most]
  OBVIOUS
<1> DEFINE A == {v \in [Items -> Paths] :
                   \A x \in Items : HasRow(t, x) /\ v[x] = Null => HasRow(t, t[x].parent)}
           first == [x \in Items |-> IF HasRow(t, x) /\ ~HasRow(t, t[x].parent)
                                       THEN <<t[x].name>> ELSE Null]
           Next1(v) == [x \in Items |->
                          IF v[x] = Null /\ HasRow(t, x) /\ v[t[x].parent] # Null
                            THEN Append(v[t[x].parent], t[x].name) ELSE v[x]]
           step == [v \in A |-> Next1(v)]
           Solution(f) ==
             f = [k \in 0..Cardinality(Items) |->
                    IF k = 0
                      THEN [x \in Items |-> IF HasRow(t, x) /\ ~HasRow(t, t[x].parent)
                                              THEN <<t[x].name>> ELSE Null]
                      ELSE [x \in Items |->
                              IF f[k-1][x] = Null /\ HasRow(t, x) /\ f[k-1][t[x].parent] # Null
                                THEN Append(f[k-1][t[x].parent], t[x].name)
                                ELSE f[k-1][x]]]
           level == CHOOSE f : Solution(f)
<1>1. first \in A
  <2>1. \A x \in Items : HasRow(t, x) => <<t[x].name>> \in Seq(Names)
    BY DEF NamedRows
  <2>2. first \in [Items -> Paths]
    BY <2>1 DEF Paths
  <2>3. ASSUME NEW x \in Items, HasRow(t, x), first[x] = Null
        PROVE  HasRow(t, t[x].parent)
    <3> SUFFICES ASSUME ~HasRow(t, t[x].parent)
                 PROVE  FALSE
      OBVIOUS
    <3>1. <<t[x].name>> = Null
      BY <2>3
    <3> QED
      BY <2>1, <2>3, <3>1, MirrorAssumption
  <2> QED
    BY <2>2, <2>3
<1>2. step \in [A -> A]
  <2> SUFFICES ASSUME NEW v \in A
               PROVE  Next1(v) \in A
    BY Zenon
  <2>1. /\ v \in [Items -> Paths]
        /\ \A x \in Items : HasRow(t, x) /\ v[x] = Null => HasRow(t, t[x].parent)
    OBVIOUS
  <2> HIDE DEF A
  <2>2. ASSUME NEW x \in Items, v[x] = Null, HasRow(t, x), v[t[x].parent] # Null
        PROVE  Append(v[t[x].parent], t[x].name) \in Seq(Names)
    <3>1. t[x].parent \in Items
      BY <2>1, <2>2 DEF HasRow
    <3>2. v[t[x].parent] \in Seq(Names) /\ t[x].name \in Names
      BY <2>1, <2>2, <3>1 DEF NamedRows, Paths
    <3> QED
      BY <3>2
  <2>3. Next1(v) \in [Items -> Paths]
    BY <2>1, <2>2 DEF Paths
  <2>4. ASSUME NEW x \in Items, HasRow(t, x), Next1(v)[x] = Null
        PROVE  HasRow(t, t[x].parent)
    <3>1. v[x] = Null
      BY <2>2, <2>4, MirrorAssumption
    <3> QED
      BY <2>1, <2>4, <3>1
  <2> HIDE DEF Next1
  <2> QED
    BY <2>3, <2>4 DEF A
<1>3. Most \in Nat
  BY MostIsNumber
<1>4. PICK f \in [0..Most -> A] : Iterates(f, first, step, Most)
  <2> HIDE DEF A, first, step
  <2> QED
    BY <1>1, <1>2, <1>3, IterationUpTo DEF HasIterates
<1>5. f[0] = first
  BY <1>4 DEF Iterates
<1>6. ASSUME NEW k \in 1..Most
      PROVE  f[k] = Next1(f[k - 1])
  <2> HIDE DEF A, Next1
  <2>1. f[k - 1] \in A
    BY <1>3, <1>4
  <2>2. f[k] = step[f[k - 1]]
    <3> HIDE DEF step, first
    <3> QED
      BY <1>4 DEF Iterates
  <2> QED
    BY <2>1, <2>2
<1>7. Solution(f)
  <2> HIDE DEF A, step
  <2> SUFFICES f = [k \in 0..Most |-> IF k = 0 THEN first ELSE Next1(f[k - 1])]
    BY DEF Most
  <2> HIDE DEF first, Next1
  <2>1. \A k \in 0..Most : k # 0 => k \in 1..Most
    BY <1>3
  <2> QED
    BY <1>4, <1>5, <1>6, <2>1
<1>8. Solution(level)
  <2> HIDE DEF Solution
  <2> QED
    BY <1>7
<1>9. PathsOf(t) = level[Most]
  BY DEF PathsOf, Most, HasRow
<1>10. level = [k \in 0..Most |-> IF k = 0 THEN first ELSE Next1(level[k - 1])]
  <2> HIDE DEF level
  <2> QED
    BY <1>8 DEF Most
<1> HIDE DEF level, Solution, A, step
<1>11. \A k \in 0..Most : level[k] = f[k]
  <2> HIDE DEF first, Next1
  <2> DEFINE S == {k \in 0..Most : level[k] = f[k]}
  <2>1. 0 \in S
    BY <1>3, <1>5, <1>10
  <2>2. ASSUME NEW k \in Nat, k < Most, k \in S
        PROVE  k + 1 \in S
    <3>1. k + 1 \in 1..Most /\ (k + 1) - 1 = k /\ k + 1 \in 0..Most /\ k + 1 # 0
      BY <1>3, <2>2
    <3>2. f[k + 1] = Next1(f[k]) /\ level[k + 1] = Next1(level[k])
      BY <1>6, <1>10, <3>1
    <3> QED
      BY <2>2, <3>1, <3>2
  <2> HIDE DEF S
  <2>3. \A k \in 0..Most : k \in S
    BY <1>3, <2>1, <2>2, InductionUpTo
  <2> QED
    BY <2>3 DEF S
<1>12. PathsOf(t) = f[Most]
  BY <1>3, <1>9, <1>11
<1>13. LevelRun(t, f)
  <2>1. \A k \in 0..Most :
          /\ f[k] \in [Items -> Paths]
          /\ \A x \in Items : HasRow(t, x) /\ f[k][x] = Null => HasRow(t, t[x].parent)
    <3> HIDE DEF first, Next1
    <3> QED
      BY <1>4 DEF A
  <2>2. f \in [0..Most -> [Items -> Paths]]
    BY <1>4, <2>1
  <2>3. \A x \in Items :
          f[0][x] = IF HasRow(t, x) /\ ~HasRow(t, t[x].parent) THEN <<t[x].name>> ELSE Null
    BY <1>5
  <2>4. \A k \in 1..Most : \A x \in Items :
          f[k][x] = IF f[k - 1][x] = Null /\ HasRow(t, x) /\ f[k - 1][t[x].parent] # Null
                      THEN Append(f[k - 1][t[x].parent], t[x].name)
                      ELSE f[k - 1][x]
    BY <1>6
  <2> HIDE DEF first, Next1
  <2> QED
    BY <2>1, <2>2, <2>3, <2>4 DEF LevelRun
<1> QED
  BY <1>12, <1>13

(* The path that PathsOf gives a row ends in the row's name.               *)
LastIs(p, n) == p # Null => p[Len(p)] = n

LEMMA PathsEndInName ==
  \A t : NamedRows(t) =>
    \A x \in Items : PathsOf(t)[x] \in Paths /\ LastIs(PathsOf(t)[x], t[x].name)
<1> SUFFICES ASSUME NEW t, NamedRows(t)
             PROVE  \A x \in Items : PathsOf(t)[x] \in Paths /\ LastIs(PathsOf(t)[x], t[x].name)
  OBVIOUS
<1>1. PICK l : LevelRun(t, l) /\ PathsOf(t) = l[Most]
  BY PathsRun
<1>2. Most \in Nat /\ \A k \in 0..Most : \A x \in Items : l[k][x] \in Paths
  BY <1>1, MostIsNumber DEF LevelRun
<1> DEFINE S == {k \in 0..Most : \A x \in Items : LastIs(l[k][x], t[x].name)}
<1>3. 0 \in S
  <2>1. ASSUME NEW x \in Items
        PROVE  LastIs(l[0][x], t[x].name)
    <3>1. l[0][x] # Null => l[0][x] = <<t[x].name>>
      BY <1>1 DEF LevelRun
    <3>2. Len(<<t[x].name>>) = 1 /\ <<t[x].name>>[1] = t[x].name
      OBVIOUS
    <3> QED
      BY <3>1, <3>2 DEF LastIs
  <2> QED
    BY <1>2, <2>1
<1>4. ASSUME NEW k \in Nat, k < Most, k \in S
      PROVE  k + 1 \in S
  <2>1. k + 1 \in 1..Most /\ (k + 1) - 1 = k /\ k \in 0..Most /\ k + 1 \in 0..Most
    BY <1>2, <1>4
  <2>2. ASSUME NEW x \in Items
        PROVE  LastIs(l[k + 1][x], t[x].name)
    <3> DEFINE p == t[x].parent
               Named == l[k][x] = Null /\ HasRow(t, x) /\ l[k][p] # Null
    <3>1. l[k + 1][x] = IF Named THEN Append(l[k][p], t[x].name) ELSE l[k][x]
      BY <1>1, <2>1 DEF LevelRun
    <3>2. CASE Named
      <4>1. HasRow(t, p)
        BY <1>1, <2>1, <3>2 DEF LevelRun
      <4>2. l[k][p] \in Seq(Names) /\ t[x].name \in Names
        BY <1>2, <2>1, <3>2, <4>1 DEF HasRow, NamedRows, Paths
      <4>3. l[k + 1][x] = Append(l[k][p], t[x].name)
        BY <3>1, <3>2
      <4>4. PICK q : q = l[k][p]
        OBVIOUS
      <4>5. Append(q, t[x].name)[Len(Append(q, t[x].name))] = t[x].name
        BY <4>2, <4>4
      <4> QED
        BY <4>3, <4>4, <4>5 DEF LastIs
    <3>3. CASE ~Named
      BY <1>4, <3>1, <3>3
    <3> QED
      BY <3>2, <3>3
  <2> QED
    BY <2>1, <2>2
<1>5. Most \in S
  <2> HIDE DEF S
  <2>1. \A k \in 0..Most : k \in S
    BY <1>2, <1>3, <1>4, InductionUpTo
  <2> QED
    BY <1>2, <2>1
<1> QED
  BY <1>1, <1>2, <1>5

(* No item is its own ancestor: from everything a way leads up to an item  *)
(* whose parent nobody lists.                                              *)
Grounded(t) ==
  \A S \in SUBSET DOMAIN t :
    S # {} => \E x \in S : t[x] = NoRow \/ t[x].parent \notin S

LEMMA GroundedPaths ==
  \A t : NamedRows(t) /\ DOMAIN t = Items /\ Grounded(t) =>
    \A x \in Items : HasRow(t, x) => PathsOf(t)[x] # Null
<1> SUFFICES ASSUME NEW t, NamedRows(t), DOMAIN t = Items, Grounded(t),
                    NEW x0 \in Items, HasRow(t, x0), PathsOf(t)[x0] = Null
             PROVE  FALSE
  OBVIOUS
<1>1. PICK l : LevelRun(t, l) /\ PathsOf(t) = l[Most]
  BY PathsRun
<1>2. Most \in Nat /\ Most # 0 /\ \A k \in 0..Most : \A x \in Items : l[k][x] \in Paths
  BY <1>1, MostIsNumber DEF LevelRun
<1> DEFINE U == [k \in 0..Most |-> {x \in Items : l[k][x] # Null}]
           Named(k, x) == l[k][x] = Null /\ HasRow(t, x) /\ l[k][t[x].parent] # Null
<1>3. ASSUME NEW k \in 0..Most, k < Most, NEW x \in Items
      PROVE  /\ ~Named(k, x) => l[k + 1][x] = l[k][x]
             /\ Named(k, x) => l[k + 1][x] # Null /\ HasRow(t, t[x].parent)
  <2>1. k + 1 \in 1..Most /\ (k + 1) - 1 = k
    BY <1>2, <1>3
  <2>2. l[k + 1][x] = IF Named(k, x) THEN Append(l[k][t[x].parent], t[x].name) ELSE l[k][x]
    BY <1>1, <2>1 DEF LevelRun
  <2>3. ASSUME Named(k, x)
        PROVE  l[k + 1][x] # Null /\ HasRow(t, t[x].parent)
    <3>1. HasRow(t, t[x].parent)
      BY <1>1, <2>3 DEF LevelRun
    <3>2. l[k][t[x].parent] \in Seq(Names) /\ t[x].name \in Names
      BY <1>2, <2>3, <3>1 DEF HasRow, NamedRows, Paths
    <3>3. Append(l[k][t[x].parent], t[x].name) \in Seq(Names)
      BY <3>2
    <3> QED
      BY <2>2, <2>3, <3>1, <3>3, MirrorAssumption
  <2> QED
    BY <2>2, <2>3
<1>4. Widens(U)
  <2>1. ASSUME NEW k \in 1..Most
        PROVE  U[k - 1] \subseteq U[k]
    <3>1. k - 1 \in 0..Most /\ k - 1 < Most /\ (k - 1) + 1 = k /\ k \in 0..Most
      BY <1>2
    <3>2. ASSUME NEW x \in Items, l[k - 1][x] # Null
          PROVE  l[k][x] # Null
      BY <1>3, <3>1, <3>2
    <3> QED
      BY <3>1, <3>2
  <2>2. ASSUME NEW k \in 1..Most, k < Most, U[k] = U[k - 1]
        PROVE  U[k + 1] = U[k]
    <3>1. /\ k \in 0..Most /\ k + 1 \in 0..Most /\ k + 1 \in 1..Most /\ (k + 1) - 1 = k
          /\ k - 1 \in 0..Most /\ k - 1 < Most /\ (k - 1) + 1 = k
      BY <1>2, <2>2
    <3>2. U[k] \subseteq U[k + 1]
      BY <2>1, <3>1
    <3>3. ASSUME NEW x \in Items, l[k + 1][x] # Null, l[k][x] = Null
          PROVE  FALSE
      <4>1. Named(k, x) /\ HasRow(t, t[x].parent)
        BY <1>3, <2>2, <3>1, <3>3
      <4>2. t[x].parent \in U[k]
        BY <3>1, <4>1 DEF HasRow
      <4>3. l[k - 1][t[x].parent] # Null
        BY <2>2, <3>1, <4>2
      <4>4. x \notin U[k]
        BY <3>1, <3>3
      <4>5. l[k - 1][x] = Null
        BY <2>2, <3>1, <4>4
      <4>6. Named(k - 1, x)
        BY <4>1, <4>3, <4>5
      <4> QED
        BY <1>3, <3>1, <3>3, <4>6
    <3> QED
      BY <3>1, <3>2, <3>3
  <2>3. U \in [0..Most -> SUBSET Items]
    OBVIOUS
  <2> HIDE DEF U
  <2> QED
    BY <2>1, <2>2, <2>3 DEF Widens
<1> DEFINE S == {x \in Items : HasRow(t, x) /\ l[Most][x] = Null}
<1>5. PICK x \in S : t[x] = NoRow \/ t[x].parent \notin S
  BY <1>1 DEF Grounded
<1>6. Most \in 0..Most /\ Most - 1 \in 0..Most /\ Most - 1 < Most /\ (Most - 1) + 1 = Most
  BY <1>2
<1>7. HasRow(t, t[x].parent) /\ l[Most][t[x].parent] # Null /\ x \notin U[Most]
  <2>1. HasRow(t, t[x].parent)
    BY <1>1, <1>6 DEF LevelRun
  <2> QED
    BY <1>5, <1>6, <2>1 DEF HasRow
<1>8. U[Most] = U[Most - 1]
  <2> HIDE DEF U
  <2> QED
    BY <1>4, <1>7, Settles
<1>9. Named(Most - 1, x)
  BY <1>6, <1>7, <1>8 DEF HasRow
<1> QED
  BY <1>3, <1>6, <1>9
-----------------------------------------------------------------------------
(* What the tables hold: Drive's tree and the mirror's are without cycles, *)
(* and so are the folders that a sync has listed.                          *)
DriveOK ==
  /\ drive \in [Items -> Entries \cup {NoRow}]
  /\ \A x \in Folders : drive[x] # NoRow
  /\ drive[Root].parent = Outside
  /\ Grounded(drive)

TableIs(t) ==
  /\ t \in [Items -> Rows \cup {NoRow}]
  /\ \A x \in Items : t[x] # NoRow =>
       /\ x \in Folders => t[x].vec = Null
       /\ x \in Files => t[x].size = Null
  /\ Grounded(t)

TableOK == TableIs(mirror)

HandsOK ==
  \A s \in Syncers :
    /\ sync[s].at \in {"upsert", "files"} =>
         /\ sync[s].folders \in [Folders -> Entries \cup {NoRow}]
         /\ Grounded(sync[s].folders)
    /\ sync[s].at = "embed" =>
         /\ DOMAIN sync[s].titles \subseteq Files
         /\ \A x \in DOMAIN sync[s].titles : sync[s].titles[x] \in Paths

TypeInv == FlagInv /\ DOMAIN calm = Syncers /\ DriveOK /\ TableOK /\ HandsOK

(* What a sync that has Drive and the table to itself knows at each stage. *)
Agrees(t, x) ==
  IF drive[x] = NoRow THEN t[x] = NoRow
  ELSE t[x] # NoRow /\ t[x].name = drive[x].name /\ t[x].parent = drive[x].parent

NamesOf(c) == [i \in DOMAIN c |-> drive[c[i]].name]

Beneath(x) == {f \in Files : \E c \in ChainTo(f) : x \in {c[i] : i \in DOMAIN c}}

LibraryOnly(t) == \A x \in Items : IF x \in Library THEN Agrees(t, x) ELSE t[x] = NoRow

ListingTrue(s) == \A x \in Folders : sync[s].folders[x] = drive[x]
RowsTrue == \A x \in Items : Agrees(mirror, x)
OnlyLibrary == LibraryOnly(mirror)
PathsTrue == \A x \in Library : \A c \in ChainTo(x) : mirror[x].path = NamesOf(c)
SizesTrue == \A x \in Library \cap Folders : mirror[x].size = Cardinality(Beneath(x))

Knows(s) ==
  /\ sync[s].at \in {"upsert", "files"} => ListingTrue(s)
  /\ sync[s].at \in {"paths", "prune"} => RowsTrue
  /\ sync[s].at \in {"sizes", "select", "embed"} => OnlyLibrary
  /\ sync[s].at \in {"prune", "sizes", "select", "embed"} => PathsTrue
  /\ sync[s].at \in {"select", "embed"} => SizesTrue

FaithInv == \A s \in Syncers : calm[s] => Knows(s)

(* What holds as long as no two syncs muddled: a vector, and the path that *)
(* a vector is about to be computed from, end in the name the row has.     *)
Underway(s) == sync[s].at \notin {"off", "queued", "flag"}

OneUnderway == \A s, o \in Syncers : Underway(s) /\ Underway(o) => s = o

VectorsFresh(t) == \A x \in Items : t[x] # NoRow => LastIs(t[x].vec, t[x].name)
PathsFresh(t) == \A x \in Items : t[x] # NoRow => LastIs(t[x].path, t[x].name)

TitlesFresh(s) ==
  \A x \in DOMAIN sync[s].titles :
    mirror[x] # NoRow => LastIs(sync[s].titles[x], mirror[x].name)

Fresh ==
  /\ OneUnderway
  /\ VectorsFresh(mirror)
  /\ \A s \in Syncers :
       /\ sync[s].at \in {"prune", "sizes", "select", "embed"} => PathsFresh(mirror)
       /\ sync[s].at = "embed" => TitlesFresh(s)

NameInv == ~muddled => Fresh
-----------------------------------------------------------------------------
(* The ways from the root that the chains of SyncFaithful stand for: no    *)
(* item is on one twice, so none is longer than there are items.           *)
IsWay(c) ==
  /\ c \in Seq(Items)
  /\ Len(c) # 0
  /\ c[1] = Root
  /\ \A i \in 2..Len(c) : drive[c[i]] # NoRow /\ drive[c[i]].parent = c[i - 1]

LEMMA WaysAreShort == DriveOK => \A c : IsWay(c) => Len(c) <= Most
<1> SUFFICES ASSUME DriveOK, NEW c, IsWay(c)
             PROVE  Len(c) <= Most
  OBVIOUS
<1> DEFINE last == Len(c) - 1
           S == {k \in 0..last : \A j \in (k + 2)..Len(c) : c[k + 1] # c[j]}
<1>1. /\ last \in Nat /\ Len(c) = last + 1 /\ Len(c) \in Nat
      /\ \A i \in 1..Len(c) : c[i] \in Items
      /\ Outside \notin Items
  BY MirrorAssumption DEF IsWay
<1>2. \A j \in 2..Len(c) : drive[c[j]].parent = c[j - 1] /\ c[j - 1] \in Items /\ j - 1 \in 1..Len(c)
  BY <1>1 DEF IsWay
<1>3. 0 \in S
  <2>1. \A j \in 2..Len(c) : c[1] # c[j]
    BY <1>1, <1>2 DEF IsWay, DriveOK
  <2> QED
    BY <1>1, <2>1
<1>4. ASSUME NEW k \in Nat, k < last, k \in S
      PROVE  k + 1 \in S
  <2>1. ASSUME NEW j \in (k + 3)..Len(c), c[k + 2] = c[j]
        PROVE  FALSE
    <3>1. k + 2 \in 2..Len(c) /\ j \in 2..Len(c) /\ j - 1 \in (k + 2)..Len(c) /\ (k + 2) - 1 = k + 1
      BY <1>1, <1>4, <2>1
    <3>2. c[k + 1] = c[j - 1]
      BY <1>2, <2>1, <3>1
    <3> QED
      BY <1>4, <3>1, <3>2
  <2>2. k + 1 \in 0..last /\ (k + 1) + 2 = k + 3 /\ (k + 1) + 1 = k + 2
    BY <1>1, <1>4
  <2> QED
    BY <2>1, <2>2
<1>5. \A k \in 0..last : k \in S
  <2> HIDE DEF S, last
  <2> QED
    BY <1>1, <1>3, <1>4, InductionUpTo
<1>6. ASSUME NEW i \in 1..Len(c), NEW j \in 1..Len(c), i < j
      PROVE  c[i] # c[j]
  <2>1. i - 1 \in 0..last /\ (i - 1) + 1 = i /\ j \in ((i - 1) + 2)..Len(c)
    BY <1>1, <1>6
  <2>2. i - 1 \in S
    <3> HIDE DEF S, last
    <3> QED
      BY <1>5, <2>1
  <2> QED
    BY <2>1, <2>2
<1>7. c \in Injection(1..Len(c), Items)
  <2>1. c \in [1..Len(c) -> Items]
    BY <1>1 DEF IsWay
  <2>2. \A i, j \in 1..Len(c) : c[i] = c[j] => i = j
    BY <1>1, <1>6
  <2> QED
    BY <2>1, <2>2 DEF Injection, IsInjective
<1>8. Cardinality(1..Len(c)) = Len(c)
  BY <1>1, FS_Interval
<1> QED
  BY <1>7, <1>8, FS_Injection, MirrorAssumption DEF Most

LEMMA ChainsAreWays ==
  DriveOK => \A x, c : c \in ChainTo(x) <=> IsWay(c) /\ c[Len(c)] = x
<1> SUFFICES ASSUME DriveOK, NEW x, NEW c
             PROVE  c \in ChainTo(x) <=> IsWay(c) /\ c[Len(c)] = x
  OBVIOUS
<1>1. c \in Chains => c \in Seq(Items) /\ Len(c) # 0
  <2> SUFFICES ASSUME c \in Chains
               PROVE  c \in Seq(Items) /\ Len(c) # 0
    OBVIOUS
  <2>1. PICK n \in 1..Cardinality(Items) : c \in [1..n -> Items]
    BY DEF Chains
  <2>2. n \in Nat /\ n # 0
    BY <2>1, MostIsNumber DEF Most
  <2> QED
    BY <2>1, <2>2
<1>2. IsWay(c) => c \in Chains
  <2> SUFFICES ASSUME IsWay(c)
               PROVE  c \in Chains
    OBVIOUS
  <2>1. Len(c) \in 1..Cardinality(Items) /\ c \in [1..Len(c) -> Items]
    BY WaysAreShort, MostIsNumber DEF IsWay, Most
  <2> QED
    BY <2>1 DEF Chains
<1>3. c \in ChainTo(x) <=> /\ c \in Chains
                           /\ c[1] = Root /\ c[Len(c)] = x
                           /\ \A i \in 2..Len(c) :
                                drive[c[i]] # NoRow /\ drive[c[i]].parent = c[i - 1]
  BY DEF ChainTo
<1> QED
  BY <1>1, <1>2, <1>3 DEF IsWay

(* A way may end earlier, or go on to an item in its last folder.          *)
UpTo(c, i) == [j \in 1..i |-> c[j]]

LEMMA Shorter ==
  \A c : IsWay(c) => \A i \in 1..Len(c) :
    /\ IsWay(UpTo(c, i))
    /\ Len(UpTo(c, i)) = i
    /\ \A j \in 1..i : UpTo(c, i)[j] = c[j]
<1> SUFFICES ASSUME NEW c, IsWay(c), NEW i \in 1..Len(c)
             PROVE  /\ IsWay(UpTo(c, i))
                    /\ Len(UpTo(c, i)) = i
                    /\ \A j \in 1..i : UpTo(c, i)[j] = c[j]
  OBVIOUS
<1>1. i \in Nat /\ i # 0 /\ \A j \in 1..i : c[j] \in Items
  BY DEF IsWay
<1>2. UpTo(c, i) \in [1..i -> Items]
  BY <1>1 DEF UpTo
<1>3. UpTo(c, i) \in Seq(Items) /\ Len(UpTo(c, i)) = i
  BY <1>1, <1>2
<1>4. \A j \in 1..i : UpTo(c, i)[j] = c[j]
  BY DEF UpTo
<1>5. \A j \in 2..i : j \in 1..i /\ j - 1 \in 1..i /\ j \in 2..Len(c)
  BY <1>1 DEF IsWay
<1> QED
  BY <1>1, <1>3, <1>4, <1>5 DEF IsWay

LEMMA Longer ==
  \A c : IsWay(c) => \A y \in Items : drive[y] # NoRow /\ drive[y].parent = c[Len(c)] =>
    /\ IsWay(Append(c, y))
    /\ Len(Append(c, y)) = Len(c) + 1
    /\ Append(c, y)[Len(c) + 1] = y
    /\ \A j \in 1..Len(c) : Append(c, y)[j] = c[j]
<1> SUFFICES ASSUME NEW c, IsWay(c), NEW y \in Items, drive[y] # NoRow, drive[y].parent = c[Len(c)]
             PROVE  /\ IsWay(Append(c, y))
                    /\ Len(Append(c, y)) = Len(c) + 1
                    /\ Append(c, y)[Len(c) + 1] = y
                    /\ \A j \in 1..Len(c) : Append(c, y)[j] = c[j]
  OBVIOUS
<1> DEFINE d == Append(c, y)
<1>1. /\ d \in Seq(Items) /\ Len(d) = Len(c) + 1 /\ d[Len(c) + 1] = y
      /\ \A j \in 1..Len(c) : d[j] = c[j]
      /\ Len(c) \in Nat /\ Len(c) # 0
  BY DEF IsWay
<1> HIDE DEF d
<1>2. ASSUME NEW i \in 2..Len(d)
      PROVE  drive[d[i]] # NoRow /\ drive[d[i]].parent = d[i - 1]
  <2>1. CASE i = Len(d)
    <3>1. i = Len(c) + 1 /\ i - 1 = Len(c) /\ Len(c) \in 1..Len(c)
      BY <1>1, <2>1
    <3> QED
      BY <1>1, <3>1
  <2>2. CASE i # Len(d)
    <3>1. i \in 1..Len(c) /\ i - 1 \in 1..Len(c) /\ i \in 2..Len(c)
      BY <1>1, <2>2
    <3> QED
      BY <1>1, <3>1 DEF IsWay
  <2> QED
    BY <2>1, <2>2
<1>3. d[1] = Root
  BY <1>1 DEF IsWay
<1>4. IsWay(d)
  BY <1>1, <1>2, <1>3 DEF IsWay
<1> QED
  BY <1>1, <1>4 DEF d

LEMMA RootWay == DriveOK => IsWay(<<Root>>) /\ Len(<<Root>>) = 1
BY MirrorAssumption DEF DriveOK, IsWay, Items

LEMMA LibraryIsReached ==
  DriveOK =>
    /\ \A x : x \in Library <=> \E c : IsWay(c) /\ c[Len(c)] = x
    /\ \A c : IsWay(c) => \A i \in 1..Len(c) : c[i] \in Library
    /\ \A x \in Library : x \in Items /\ drive[x] # NoRow
    /\ \A x \in Items : drive[x] # NoRow /\ drive[x].parent \in Library => x \in Library
<1> SUFFICES ASSUME DriveOK
             PROVE  /\ \A x : x \in Library <=> \E c : IsWay(c) /\ c[Len(c)] = x
                    /\ \A c : IsWay(c) => \A i \in 1..Len(c) : c[i] \in Library
                    /\ \A x \in Library : x \in Items /\ drive[x] # NoRow
                    /\ \A x \in Items :
                         drive[x] # NoRow /\ drive[x].parent \in Library => x \in Library
  OBVIOUS
<1>1. \A c : IsWay(c) => /\ Len(c) \in 1..Len(c) /\ c[Len(c)] \in Items
                         /\ drive[c[Len(c)]] # NoRow
  <2> SUFFICES ASSUME NEW c, IsWay(c)
               PROVE  /\ Len(c) \in 1..Len(c) /\ c[Len(c)] \in Items
                      /\ drive[c[Len(c)]] # NoRow
    OBVIOUS
  <2>1. Len(c) \in Nat /\ Len(c) # 0 /\ c \in Seq(Items)
    BY DEF IsWay
  <2>2. Len(c) \in 1..Len(c) /\ c[Len(c)] \in Items
    BY <2>1
  <2>3. CASE Len(c) = 1
    BY <2>2, <2>3, MirrorAssumption DEF IsWay, DriveOK
  <2>4. CASE Len(c) # 1
    <3>1. \A n \in Nat : n # 0 /\ n # 1 => n \in 2..n
      OBVIOUS
    <3>2. Len(c) \in 2..Len(c)
      BY <2>1, <2>4, <3>1
    <3> QED
      BY <2>2, <3>2 DEF IsWay
  <2> QED
    BY <2>2, <2>3, <2>4
<1>2. \A x : x \in Library <=> \E c : IsWay(c) /\ c[Len(c)] = x
  <2>1. \A x : x \in Library <=> x \in Items /\ \E c : c \in ChainTo(x)
    BY DEF Library
  <2> QED
    BY <1>1, <2>1, ChainsAreWays
<1>3. \A c : IsWay(c) => \A i \in 1..Len(c) : c[i] \in Library
  <2> SUFFICES ASSUME NEW c, IsWay(c), NEW i \in 1..Len(c)
               PROVE  c[i] \in Library
    OBVIOUS
  <2>1. i \in 1..i
    BY DEF IsWay
  <2> QED
    BY <1>2, <2>1, Shorter
<1>4. ASSUME NEW x \in Items, drive[x] # NoRow, drive[x].parent \in Library
      PROVE  x \in Library
  <2>1. PICK c : IsWay(c) /\ c[Len(c)] = drive[x].parent
    BY <1>2, <1>4
  <2>2. /\ IsWay(Append(c, x))
        /\ Len(Append(c, x)) = Len(c) + 1
        /\ Append(c, x)[Len(c) + 1] = x
    BY <1>4, <2>1, Longer
  <2> QED
    BY <1>2, <2>2
<1> QED
  BY <1>1, <1>2, <1>3, <1>4
-----------------------------------------------------------------------------
(* What Under and PathsOf are in a table that shows the library: the ways  *)
(* through a folder, and the names along a way.                            *)
Through(x, y) == \E c : IsWay(c) /\ c[Len(c)] = y /\ \E i \in 1..Len(c) : c[i] = x

Shows(t) ==
  \A x \in Items :
    IF x \in Library THEN t[x] # NoRow /\ t[x].parent = drive[x].parent
    ELSE t[x] = NoRow \/ t[x].parent \notin Library

LEMMA TablesShow ==
  DriveOK => \A t : LibraryOnly(t) \/ (\A x \in Items : Agrees(t, x)) => Shows(t)
<1> SUFFICES ASSUME DriveOK, NEW t, LibraryOnly(t) \/ \A x \in Items : Agrees(t, x),
                    NEW x \in Items
             PROVE  IF x \in Library THEN t[x] # NoRow /\ t[x].parent = drive[x].parent
                    ELSE t[x] = NoRow \/ t[x].parent \notin Library
  BY DEF Shows
<1>1. CASE x \in Library
  BY <1>1, LibraryIsReached DEF LibraryOnly, Agrees
<1>2. CASE x \notin Library
  BY <1>2, LibraryIsReached DEF LibraryOnly, Agrees
<1> QED
  BY <1>1, <1>2

LEMMA UnderIsThrough ==
  DriveOK => \A t : Shows(t) => \A x \in Library : \A y : y \in Under(t, x) <=> Through(x, y)
<1> SUFFICES ASSUME DriveOK, NEW t, Shows(t), NEW x \in Library
             PROVE  \A y : y \in Under(t, x) <=> Through(x, y)
  OBVIOUS
<1>1. x \in Items /\ t[x] # NoRow
  BY LibraryIsReached DEF Shows
<1>2. PICK b : BelowRun(t, x, b) /\ Under(t, x) = b[Most]
  BY <1>1, UnderRuns
<1>3. Most \in Nat /\ Most \in 0..Most
  BY MostIsNumber
<1>4. b[0] = {x}
  BY <1>1, <1>2 DEF BelowRun
<1>5. ASSUME NEW k \in Nat, k < Most
      PROVE  \A y : y \in b[k + 1] <=>
                      y \in b[k] \/ (y \in Items /\ t[y] # NoRow /\ t[y].parent \in b[k])
  <2>1. k + 1 \in 1..Most /\ (k + 1) - 1 = k
    BY <1>3, <1>5
  <2>2. b[k + 1] = b[k] \cup {y \in Items : t[y] # NoRow /\ t[y].parent \in b[k]}
    BY <1>2, <2>1 DEF BelowRun
  <2> QED
    BY <2>2
<1>6. ASSUME NEW y, y \in b[Most]
      PROVE  Through(x, y)
  <2> DEFINE S == {k \in 0..Most : \A z \in b[k] : Through(x, z)}
  <2>1. 0 \in S
    <3>1. PICK c : IsWay(c) /\ c[Len(c)] = x
      BY LibraryIsReached
    <3>2. Len(c) \in 1..Len(c)
      BY <3>1 DEF IsWay
    <3>3. Through(x, x)
      BY <3>1, <3>2 DEF Through
    <3> QED
      BY <1>3, <1>4, <3>3
  <2>2. ASSUME NEW k \in Nat, k < Most, k \in S
        PROVE  k + 1 \in S
    <3>1. ASSUME NEW z \in Items, t[z] # NoRow, t[z].parent \in b[k]
          PROVE  Through(x, z)
      <4>1. PICK c : IsWay(c) /\ c[Len(c)] = t[z].parent /\ \E i \in 1..Len(c) : c[i] = x
        BY <2>2, <3>1 DEF Through
      <4>2. t[z].parent \in Library
        BY <4>1, LibraryIsReached
      <4>3. z \in Library /\ drive[z] # NoRow /\ drive[z].parent = c[Len(c)]
        BY <3>1, <4>1, <4>2, LibraryIsReached DEF Shows
      <4>4. /\ IsWay(Append(c, z)) /\ Len(Append(c, z)) = Len(c) + 1
            /\ Append(c, z)[Len(c) + 1] = z
            /\ \A j \in 1..Len(c) : Append(c, z)[j] = c[j]
        BY <3>1, <4>1, <4>3, Longer
      <4>5. PICK i \in 1..Len(c) : c[i] = x
        BY <4>1
      <4>6. i \in 1..Len(Append(c, z)) /\ Append(c, z)[i] = x
        <5>1. Len(c) \in Nat
          BY <4>1 DEF IsWay
        <5> QED
          BY <4>4, <4>5, <5>1
      <4> QED
        BY <4>4, <4>6 DEF Through
    <3>2. \A z \in b[k + 1] : Through(x, z)
      BY <1>5, <2>2, <3>1
    <3> QED
      BY <1>3, <2>2, <3>2
  <2>3. Most \in S
    <3> HIDE DEF S
    <3>1. \A k \in 0..Most : k \in S
      BY <1>3, <2>1, <2>2, InductionUpTo
    <3> QED
      BY <1>3, <3>1
  <2> QED
    BY <1>6, <2>3
<1>7. ASSUME NEW y, Through(x, y)
      PROVE  y \in b[Most]
  <2> DEFINE Reached(k) == \A c : IsWay(c) => \A i \in 1..Len(c) :
                             c[i] = x /\ Len(c) - i <= k => c[Len(c)] \in b[k]
             S == {k \in 0..Most : Reached(k)}
  <2>1. 0 \in S
    <3> SUFFICES ASSUME NEW c, IsWay(c), NEW i \in 1..Len(c), c[i] = x, Len(c) - i <= 0
                 PROVE  c[Len(c)] \in b[0]
      BY <1>3
    <3>1. i = Len(c)
      BY DEF IsWay
    <3> QED
      BY <1>4, <3>1
  <2>2. ASSUME NEW k \in Nat, k < Most, k \in S
        PROVE  k + 1 \in S
    <3> SUFFICES ASSUME NEW c, IsWay(c), NEW i \in 1..Len(c), c[i] = x, Len(c) - i <= k + 1
                 PROVE  c[Len(c)] \in b[k + 1]
      BY <1>3, <2>2
    <3> DEFINE n == Len(c)
    <3>1. n \in Nat /\ i \in Nat /\ i # 0 /\ i <= n /\ c \in Seq(Items)
      BY DEF IsWay
    <3>2. Reached(k)
      BY <2>2
    <3>3. CASE n - i <= k
      <4>1. c[n] \in b[k]
        BY <3>2, <3>3
      <4> QED
        BY <1>5, <2>2, <4>1
    <3>4. CASE ~(n - i <= k)
      <4> DEFINE d == UpTo(c, n - 1)
      <4>1. n - i = k + 1 /\ n - 1 \in 1..n /\ i \in 1..(n - 1) /\ (n - 1) - i <= k /\ n \in 2..n
        BY <2>2, <3>1, <3>4
      <4>2. IsWay(d) /\ Len(d) = n - 1 /\ d[n - 1] = c[n - 1] /\ d[i] = x
        <5>1. n - 1 \in 1..(n - 1)
          BY <4>1
        <5> QED
          BY <4>1, <5>1, Shorter
      <4>3. d[n - 1] \in b[k]
        <5> HIDE DEF d
        <5> QED
          BY <3>2, <4>1, <4>2
      <4>4. c[n] \in Items /\ c[n] \in Library /\ drive[c[n]].parent = c[n - 1]
        <5>1. n \in 1..n
          BY <4>1
        <5> QED
          BY <4>1, <5>1, LibraryIsReached DEF IsWay
      <4>5. t[c[n]] # NoRow /\ t[c[n]].parent = c[n - 1]
        BY <4>4 DEF Shows
      <4> QED
        BY <1>5, <2>2, <4>2, <4>3, <4>4, <4>5
    <3> QED
      BY <3>3, <3>4
  <2>3. Reached(Most)
    <3> HIDE DEF Reached
    <3>1. \A k \in 0..Most : k \in S
      <4> HIDE DEF S
      <4> QED
        BY <1>3, <2>1, <2>2, InductionUpTo
    <3> QED
      BY <1>3, <3>1
  <2>4. PICK c : IsWay(c) /\ c[Len(c)] = y /\ \E i \in 1..Len(c) : c[i] = x
    BY <1>7 DEF Through
  <2>5. PICK i \in 1..Len(c) : c[i] = x
    BY <2>4
  <2>6. Len(c) <= Most /\ Len(c) \in Nat
    BY <2>4, WaysAreShort DEF IsWay
  <2>7. Len(c) - i <= Most
    BY <1>3, <2>5, <2>6
  <2> QED
    BY <2>3, <2>4, <2>5, <2>7
<1> QED
  BY <1>2, <1>6, <1>7

LEMMA UnderRoot == DriveOK => \A t : Shows(t) => \A y : y \in Under(t, Root) <=> y \in Library
<1> SUFFICES ASSUME DriveOK, NEW t, Shows(t)
             PROVE  \A y : y \in Under(t, Root) <=> y \in Library
  OBVIOUS
<1>1. Root \in Library
  BY RootWay, LibraryIsReached
<1>2. \A c : IsWay(c) => 1 \in 1..Len(c) /\ c[1] = Root
  BY DEF IsWay
<1>3. \A y : Through(Root, y) <=> y \in Library
  BY <1>2, LibraryIsReached DEF Through
<1> QED
  BY <1>1, <1>3, UnderIsThrough

LEMMA BeneathIsThrough == DriveOK => \A x : Beneath(x) = {f \in Files : Through(x, f)}
<1> SUFFICES ASSUME DriveOK, NEW x, NEW f
             PROVE  (\E c \in ChainTo(f) : x \in {c[i] : i \in DOMAIN c}) <=> Through(x, f)
  BY DEF Beneath
<1>1. \A c : IsWay(c) => (x \in {c[i] : i \in DOMAIN c} <=> \E i \in 1..Len(c) : c[i] = x)
  <2> SUFFICES ASSUME NEW c, IsWay(c)
               PROVE  x \in {c[i] : i \in DOMAIN c} <=> \E i \in 1..Len(c) : c[i] = x
    OBVIOUS
  <2>1. DOMAIN c = 1..Len(c)
    BY DEF IsWay
  <2> QED
    BY <2>1
<1> QED
  BY <1>1, ChainsAreWays DEF Through

LEMMA NamesAlong ==
  DriveOK => \A c : IsWay(c) =>
    /\ NamesOf(c) \in Seq(Names) /\ Len(NamesOf(c)) = Len(c)
    /\ Len(c) = 1 => NamesOf(c) = <<drive[Root].name>>
    /\ Len(c) # 1 =>
         NamesOf(c) = Append(NamesOf(UpTo(c, Len(c) - 1)), drive[c[Len(c)]].name)
<1> SUFFICES ASSUME DriveOK, NEW c, IsWay(c)
             PROVE  /\ NamesOf(c) \in Seq(Names) /\ Len(NamesOf(c)) = Len(c)
                    /\ Len(c) = 1 => NamesOf(c) = <<drive[Root].name>>
                    /\ Len(c) # 1 =>
                         NamesOf(c) = Append(NamesOf(UpTo(c, Len(c) - 1)), drive[c[Len(c)]].name)
  OBVIOUS
<1> DEFINE n == Len(c)
<1>1. n \in Nat /\ n # 0 /\ DOMAIN c = 1..n /\ c \in Seq(Items) /\ c[1] = Root
  BY DEF IsWay
<1>2. \A d : IsWay(d) => /\ NamesOf(d) \in [1..Len(d) -> Names]
                         /\ \A i \in 1..Len(d) : NamesOf(d)[i] = drive[d[i]].name
                         /\ Len(d) \in Nat
  <2> SUFFICES ASSUME NEW d, IsWay(d)
               PROVE  /\ NamesOf(d) \in [1..Len(d) -> Names]
                      /\ \A i \in 1..Len(d) : NamesOf(d)[i] = drive[d[i]].name
                      /\ Len(d) \in Nat
    OBVIOUS
  <2>1. DOMAIN d = 1..Len(d) /\ Len(d) \in Nat
    BY DEF IsWay
  <2>2. \A i \in 1..Len(d) : drive[d[i]].name \in Names
    BY LibraryIsReached DEF DriveOK, Entries
  <2> QED
    BY <2>1, <2>2 DEF NamesOf
<1>3. \A f \in [1..n -> Names] : f \in Seq(Names) /\ Len(f) = n
  <2> HIDE DEF n
  <2> QED
    BY <1>1
<1>4. NamesOf(c) \in Seq(Names) /\ Len(NamesOf(c)) = n
  BY <1>2, <1>3
<1>5. ASSUME n = 1
      PROVE  NamesOf(c) = <<drive[Root].name>>
  <2>1. NamesOf(c)[1] = drive[Root].name
    BY <1>1, <1>2, <1>5
  <2> QED
    BY <1>4, <1>5, <2>1
<1>6. ASSUME n # 1
      PROVE  NamesOf(c) = Append(NamesOf(UpTo(c, n - 1)), drive[c[n]].name)
  <2> DEFINE d == UpTo(c, n - 1)
             q == NamesOf(d)
             a == drive[c[n]].name
  <2>1. n - 1 \in 1..n /\ n - 1 \in Nat /\ n \in 1..n
    BY <1>1, <1>6
  <2>2. IsWay(d) /\ Len(d) = n - 1 /\ \A j \in 1..(n - 1) : d[j] = c[j]
    BY <2>1, Shorter
  <2> HIDE DEF d
  <2>3. q \in Seq(Names) /\ Len(q) = n - 1 /\ \A j \in 1..(n - 1) : q[j] = drive[c[j]].name
    <3>1. q \in [1..(n - 1) -> Names]
      BY <1>2, <2>2
    <3>2. q \in Seq(Names) /\ Len(q) = n - 1
      BY <2>1, <3>1
    <3> QED
      BY <1>2, <2>2, <3>2
  <2>4. a \in Names
    BY <2>1, LibraryIsReached DEF DriveOK, Entries
  <2> HIDE DEF q, a
  <2>5. /\ Append(q, a) \in Seq(Names) /\ Len(Append(q, a)) = n
        /\ \A j \in 1..(n - 1) : Append(q, a)[j] = q[j]
        /\ Append(q, a)[n] = a
    BY <2>1, <2>3, <2>4
  <2>6. \A j \in 1..n : NamesOf(c)[j] = Append(q, a)[j]
    <3>0. \A m \in Nat : \A j \in 1..m : j # m => j \in 1..(m - 1)
      OBVIOUS
    <3>1. \A j \in 1..n : j # n => j \in 1..(n - 1)
      BY <1>1, <3>0
    <3> QED
      BY <1>2, <2>3, <2>5, <3>1 DEF a
  <2>7. NamesOf(c) = Append(q, a)
    BY <1>4, <2>5, <2>6
  <2> QED
    BY <2>7 DEF a, q, d
<1> QED
  BY <1>4, <1>5, <1>6

LEMMA AgreeingNamed == DriveOK => \A t : (\A x \in Items : Agrees(t, x)) => NamedRows(t)
BY DEF DriveOK, Agrees, NamedRows, HasRow, Entries

LEMMA PathsAlongWays ==
  DriveOK => \A t : (\A x \in Items : Agrees(t, x)) =>
    \A c : IsWay(c) => PathsOf(t)[c[Len(c)]] = NamesOf(c)
<1> SUFFICES ASSUME DriveOK, NEW t, \A x \in Items : Agrees(t, x)
             PROVE  \A c : IsWay(c) => PathsOf(t)[c[Len(c)]] = NamesOf(c)
  OBVIOUS
<1>1. PICK l : LevelRun(t, l) /\ PathsOf(t) = l[Most]
  BY AgreeingNamed, PathsRun
<1>2. Most \in Nat /\ Most \in 0..Most
  BY MostIsNumber
<1>3. \A c : IsWay(c) =>
        /\ Len(c) \in Nat /\ Len(c) # 0 /\ Len(c) \in 1..Len(c)
        /\ c[Len(c)] \in Library /\ HasRow(t, c[Len(c)])
        /\ t[c[Len(c)]].name = drive[c[Len(c)]].name
        /\ t[c[Len(c)]].parent = drive[c[Len(c)]].parent
  <2> SUFFICES ASSUME NEW c, IsWay(c)
               PROVE  /\ Len(c) \in Nat /\ Len(c) # 0 /\ Len(c) \in 1..Len(c)
                      /\ c[Len(c)] \in Library /\ HasRow(t, c[Len(c)])
                      /\ t[c[Len(c)]].name = drive[c[Len(c)]].name
                      /\ t[c[Len(c)]].parent = drive[c[Len(c)]].parent
    OBVIOUS
  <2>1. Len(c) \in Nat /\ Len(c) # 0 /\ Len(c) \in 1..Len(c)
    BY DEF IsWay
  <2>2. c[Len(c)] \in Library
    BY <2>1, LibraryIsReached
  <2>3. c[Len(c)] \in Items /\ drive[c[Len(c)]] # NoRow /\ Agrees(t, c[Len(c)])
    BY <2>2, LibraryIsReached
  <2> QED
    BY <2>1, <2>2, <2>3 DEF HasRow, Agrees
<1>4. \A c : IsWay(c) /\ Len(c) # 1 =>
        /\ IsWay(UpTo(c, Len(c) - 1))
        /\ Len(UpTo(c, Len(c) - 1)) = Len(c) - 1
        /\ UpTo(c, Len(c) - 1)[Len(c) - 1] = t[c[Len(c)]].parent
  <2> SUFFICES ASSUME NEW c, IsWay(c), Len(c) # 1
               PROVE  /\ IsWay(UpTo(c, Len(c) - 1))
                      /\ Len(UpTo(c, Len(c) - 1)) = Len(c) - 1
                      /\ UpTo(c, Len(c) - 1)[Len(c) - 1] = t[c[Len(c)]].parent
    OBVIOUS
  <2>1. \A n \in Nat : n # 0 /\ n # 1 => n \in 2..n /\ n - 1 \in 1..n /\ n - 1 \in 1..(n - 1)
    OBVIOUS
  <2>2. Len(c) \in 2..Len(c) /\ Len(c) - 1 \in 1..Len(c) /\ Len(c) - 1 \in 1..(Len(c) - 1)
    BY <1>3, <2>1
  <2>3. drive[c[Len(c)]].parent = c[Len(c) - 1]
    BY <2>2 DEF IsWay
  <2> QED
    BY <1>3, <2>2, <2>3, Shorter
<1>5. \A c : IsWay(c) => NamesOf(c) # Null
  BY NamesAlong, MirrorAssumption
<1> DEFINE Named(k) == \A c : IsWay(c) =>
             l[k][c[Len(c)]] = IF Len(c) <= k + 1 THEN NamesOf(c) ELSE Null
           S == {k \in 0..Most : Named(k)}
<1>6. 0 \in S
  <2> SUFFICES ASSUME NEW c, IsWay(c)
               PROVE  l[0][c[Len(c)]] = IF Len(c) <= 1 THEN NamesOf(c) ELSE Null
    BY <1>2
  <2> DEFINE x == c[Len(c)]
  <2>1. x \in Items /\ HasRow(t, x)
    BY <1>3 DEF HasRow
  <2>2. l[0][x] = IF ~HasRow(t, t[x].parent) THEN <<t[x].name>> ELSE Null
    BY <1>1, <2>1 DEF LevelRun
  <2>3. CASE Len(c) = 1
    <3>1. x = Root /\ t[x].parent = Outside /\ t[x].name = drive[Root].name
      BY <1>3, <2>3 DEF IsWay, DriveOK
    <3>2. ~HasRow(t, t[x].parent)
      BY <3>1, MirrorAssumption DEF HasRow
    <3>3. NamesOf(c) = <<drive[Root].name>>
      BY <2>3, NamesAlong
    <3> QED
      BY <2>2, <2>3, <3>1, <3>2, <3>3
  <2>4. CASE Len(c) # 1
    <3> DEFINE d == UpTo(c, Len(c) - 1)
    <3>1. IsWay(d) /\ Len(d) = Len(c) - 1 /\ d[Len(c) - 1] = t[x].parent
      BY <1>4, <2>4
    <3>2. HasRow(t, t[x].parent)
      <4> HIDE DEF d
      <4> QED
        BY <1>3, <3>1
    <3>3. ~(Len(c) <= 1)
      BY <1>3, <2>4
    <3> QED
      BY <2>2, <3>2, <3>3
  <2> QED
    BY <2>3, <2>4
<1>7. ASSUME NEW k \in Nat, k < Most, k \in S
      PROVE  k + 1 \in S
  <2> SUFFICES ASSUME NEW c, IsWay(c)
               PROVE  l[k + 1][c[Len(c)]] = IF Len(c) <= (k + 1) + 1 THEN NamesOf(c) ELSE Null
    BY <1>2, <1>7
  <2> DEFINE x == c[Len(c)]
             p == t[x].parent
             d == UpTo(c, Len(c) - 1)
  <2>1. k + 1 \in 1..Most /\ (k + 1) - 1 = k
    BY <1>2, <1>7
  <2>2. x \in Items /\ HasRow(t, x) /\ t[x].name = drive[x].name
    BY <1>3 DEF HasRow
  <2>3. l[k + 1][x] = IF l[k][x] = Null /\ l[k][p] # Null THEN Append(l[k][p], t[x].name)
                      ELSE l[k][x]
    BY <1>1, <2>1, <2>2 DEF LevelRun
  <2>4. Named(k)
    BY <1>7
  <2>5. l[k][x] = IF Len(c) <= k + 1 THEN NamesOf(c) ELSE Null
    BY <2>4
  <2>6. CASE Len(c) <= k + 1
    <3>1. l[k + 1][x] = NamesOf(c)
      BY <1>5, <2>3, <2>5, <2>6
    <3>2. Len(c) <= (k + 1) + 1
      BY <1>3, <2>6
    <3> QED
      BY <3>1, <3>2
  <2>7. CASE ~(Len(c) <= k + 1)
    <3>1. Len(c) # 1
      BY <1>3, <2>7
    <3>2. IsWay(d) /\ Len(d) = Len(c) - 1 /\ d[Len(d)] = p
      BY <1>4, <3>1
    <3>3. l[k][p] = IF Len(d) <= k + 1 THEN NamesOf(d) ELSE Null
      <4> HIDE DEF d, p
      <4> QED
        BY <2>4, <3>2
    <3>4. NamesOf(c) = Append(NamesOf(d), drive[x].name)
      BY <3>1, NamesAlong
    <3>5. NamesOf(d) # Null
      BY <1>5, <3>2
    <3>6. Len(d) <= k + 1 <=> Len(c) <= (k + 1) + 1
      BY <1>3, <3>2
    <3> HIDE DEF d, p
    <3>7. CASE Len(d) <= k + 1
      BY <2>2, <2>3, <2>5, <2>7, <3>3, <3>4, <3>5, <3>6, <3>7
    <3>8. CASE ~(Len(d) <= k + 1)
      BY <2>3, <2>5, <2>7, <3>3, <3>6, <3>8
    <3> QED
      BY <3>7, <3>8
  <2> QED
    BY <2>6, <2>7
<1>8. Named(Most)
  <2> HIDE DEF Named
  <2>1. \A k \in 0..Most : k \in S
    <3> HIDE DEF S
    <3> QED
      BY <1>2, <1>6, <1>7, InductionUpTo
  <2> QED
    BY <1>2, <2>1
<1>9. \A c : IsWay(c) => Len(c) <= Most + 1
  BY <1>2, <1>3, WaysAreShort
<1> QED
  BY <1>1, <1>8, <1>9
-----------------------------------------------------------------------------
(* What the statements of a sync make of a table.                          *)

(* Fewer rows, under the same parents, make no cycle.                      *)
LEMMA StaysGrounded ==
  \A t, u : /\ DOMAIN t = Items /\ DOMAIN u = Items /\ Grounded(t)
            /\ \A x \in Items : u[x] # NoRow => t[x] # NoRow /\ u[x].parent = t[x].parent
            => Grounded(u)
<1> SUFFICES ASSUME NEW t, NEW u, DOMAIN t = Items, DOMAIN u = Items, Grounded(t),
                    \A x \in Items : u[x] # NoRow => t[x] # NoRow /\ u[x].parent = t[x].parent,
                    NEW S \in SUBSET Items, S # {}
             PROVE  \E x \in S : u[x] = NoRow \/ u[x].parent \notin S
  BY DEF Grounded
<1>1. PICK x \in S : t[x] = NoRow \/ t[x].parent \notin S
  BY DEF Grounded
<1> QED
  BY <1>1

LEMMA ListingGrounded ==
  \A fs : fs \in [Folders -> Entries \cup {NoRow}] /\ Grounded(fs) /\ DriveOK =>
    Grounded([x \in Items |-> IF x \in Folders THEN fs[x] ELSE drive[x]])
<1> SUFFICES ASSUME NEW fs \in [Folders -> Entries \cup {NoRow}], Grounded(fs), DriveOK,
                    NEW S \in SUBSET Items, S # {},
                    \A x \in S : IF x \in Folders THEN fs[x] # NoRow /\ fs[x].parent \in S
                                 ELSE drive[x] # NoRow /\ drive[x].parent \in S
             PROVE  FALSE
  BY DEF Grounded
<1>1. \A x \in S : x \in Folders => fs[x] # NoRow /\ fs[x].parent \in S \cap Folders
  BY MirrorAssumption DEF Entries, Items
<1>2. \A x \in S : x \notin Folders => drive[x].parent \in S \cap Folders
  BY MirrorAssumption DEF Entries, Items, DriveOK
<1>3. S \cap Folders \in SUBSET DOMAIN fs /\ S \cap Folders # {}
  BY <1>1, <1>2
<1>4. PICK x \in S \cap Folders : fs[x] = NoRow \/ fs[x].parent \notin S \cap Folders
  BY <1>3 DEF Grounded
<1> QED
  BY <1>1, <1>4

(* The rows of a table, and those that a listing makes of it.              *)
LEMMA RowShape ==
  \A r \in Rows : /\ r # NoRow
                  /\ r.name \in Names /\ r.parent \in Folders \cup {Outside}
                  /\ r.path \in Paths /\ r.vec \in Paths /\ r.size \in Nat \cup {Null}
BY MirrorAssumption DEF Rows

LEMMA UpsertedRow ==
  ASSUME NEW old \in Rows \cup {NoRow}, NEW e \in Entries
  PROVE  /\ Upserted(old, e) \in Rows
         /\ Upserted(old, e).name = e.name /\ Upserted(old, e).parent = e.parent
         /\ Upserted(old, e).size = IF old = NoRow THEN Null ELSE old.size
         /\ \/ Upserted(old, e).vec = Null
            \/ old # NoRow /\ old.name = e.name /\ Upserted(old, e).vec = old.vec
<1>1. Row(e, Null, Null, Null) \in Rows
  BY DEF Row, Rows, Entries, Paths
<1>2. CASE old = NoRow
  BY <1>1, <1>2 DEF Upserted, Row
<1>3. CASE old # NoRow
  <2>1. old \in Rows
    BY <1>3
  <2>2. PICK v : v = IF old.name = e.name THEN old.vec ELSE Null
    OBVIOUS
  <2>3. v \in Paths
    BY <2>1, <2>2, RowShape DEF Paths
  <2>4. Upserted(old, e) = Row(e, old.path, v, old.size)
    BY <1>3, <2>2 DEF Upserted
  <2>5. Row(e, old.path, v, old.size) \in Rows
    BY <2>1, <2>3 DEF Row, Rows, Entries
  <2> QED
    BY <1>3, <2>2, <2>4, <2>5 DEF Row
<1> QED
  BY <1>2, <1>3

LEMMA ReplacedTable ==
  \A t, listing :
    TableIs(t) /\ listing \in [Items -> Entries \cup {NoRow}] /\ Grounded(listing) =>
      /\ TableIs(Replaced(t, listing))
      /\ \A x \in Items :
           /\ Replaced(t, listing)[x] = NoRow <=> listing[x] = NoRow
           /\ listing[x] # NoRow => /\ Replaced(t, listing)[x].name = listing[x].name
                                    /\ Replaced(t, listing)[x].parent = listing[x].parent
           /\ VectorsFresh(t) /\ listing[x] # NoRow =>
                LastIs(Replaced(t, listing)[x].vec, listing[x].name)
<1> SUFFICES ASSUME NEW t, NEW listing, TableIs(t),
                    listing \in [Items -> Entries \cup {NoRow}], Grounded(listing)
             PROVE  /\ TableIs(Replaced(t, listing))
                    /\ \A x \in Items :
                         /\ Replaced(t, listing)[x] = NoRow <=> listing[x] = NoRow
                         /\ listing[x] # NoRow =>
                              /\ Replaced(t, listing)[x].name = listing[x].name
                              /\ Replaced(t, listing)[x].parent = listing[x].parent
                         /\ VectorsFresh(t) /\ listing[x] # NoRow =>
                              LastIs(Replaced(t, listing)[x].vec, listing[x].name)
  OBVIOUS
<1> DEFINE u == Replaced(t, listing)
<1>1. /\ DOMAIN u = Items
      /\ \A x \in Items :
           u[x] = IF listing[x] = NoRow THEN NoRow ELSE Upserted(t[x], listing[x])
  BY DEF Replaced
<1> HIDE DEF u
<1>2. \A x \in Items : t[x] \in Rows \cup {NoRow}
  BY DEF TableIs
<1>3. ASSUME NEW x \in Items, listing[x] # NoRow
      PROVE  /\ u[x] \in Rows /\ u[x] # NoRow
             /\ u[x].name = listing[x].name /\ u[x].parent = listing[x].parent
             /\ u[x].size = IF t[x] = NoRow THEN Null ELSE t[x].size
             /\ \/ u[x].vec = Null
                \/ t[x] # NoRow /\ t[x].name = listing[x].name /\ u[x].vec = t[x].vec
  <2>1. u[x] = Upserted(t[x], listing[x]) /\ listing[x] \in Entries
    BY <1>1, <1>3
  <2> QED
    BY <1>2, <2>1, UpsertedRow, RowShape
<1>4. \A x \in Items : u[x] = NoRow <=> listing[x] = NoRow
  BY <1>1, <1>3
<1>5. u \in [Items -> Rows \cup {NoRow}]
  <2>1. \A x \in Items : u[x] \in Rows \cup {NoRow}
    BY <1>3, <1>4
  <2>2. u = [x \in Items |-> u[x]]
    BY DEF u, Replaced
  <2> QED
    BY <2>1, <2>2
<1>6. \A x \in Items : u[x] # NoRow => /\ x \in Folders => u[x].vec = Null
                                       /\ x \in Files => u[x].size = Null
  BY <1>3, <1>4 DEF TableIs
<1>7. Grounded(u)
  <2>1. DOMAIN listing = Items
    OBVIOUS
  <2> QED
    BY <1>1, <1>3, <1>4, <2>1, StaysGrounded
<1>8. ASSUME NEW x \in Items, VectorsFresh(t), listing[x] # NoRow
      PROVE  LastIs(u[x].vec, listing[x].name)
  BY <1>3, <1>8 DEF VectorsFresh, LastIs
<1> QED
  BY <1>3, <1>4, <1>5, <1>6, <1>7, <1>8 DEF TableIs, u

(* A statement that drops rows or rewrites their other columns.            *)
Keeps(u, t, x) == u[x].name = t[x].name /\ u[x].parent = t[x].parent

LEMMA RewrittenTable ==
  \A t, u : /\ TableIs(t) /\ u \in [Items -> Rows \cup {NoRow}]
            /\ \A x \in Items : u[x] # NoRow =>
                 /\ t[x] # NoRow /\ Keeps(u, t, x)
                 /\ u[x].vec = t[x].vec \/ x \in Files
                 /\ u[x].size = t[x].size \/ x \in Folders
            => TableIs(u)
<1> SUFFICES ASSUME NEW t, NEW u, TableIs(t), u \in [Items -> Rows \cup {NoRow}],
                    \A x \in Items : u[x] # NoRow =>
                      /\ t[x] # NoRow /\ Keeps(u, t, x)
                      /\ u[x].vec = t[x].vec \/ x \in Files
                      /\ u[x].size = t[x].size \/ x \in Folders
             PROVE  TableIs(u)
  OBVIOUS
<1>1. Grounded(u)
  <2>1. DOMAIN t = Items /\ DOMAIN u = Items /\ Grounded(t)
    BY DEF TableIs
  <2>2. \A x \in Items : u[x] # NoRow => t[x] # NoRow /\ u[x].parent = t[x].parent
    BY DEF Keeps
  <2> QED
    BY <2>1, <2>2, StaysGrounded
<1>2. \A x \in Items : ~(x \in Folders /\ x \in Files)
  BY MirrorAssumption
<1> QED
  BY <1>1, <1>2 DEF TableIs

LEMMA TableNamed == \A t : TableIs(t) => NamedRows(t) /\ DOMAIN t = Items /\ Grounded(t)
BY RowShape DEF TableIs, NamedRows, HasRow

LEMMA WithPathsTable ==
  \A t : TableIs(t) =>
    /\ TableIs(WithPaths(t))
    /\ PathsFresh(WithPaths(t))
    /\ \A x \in Items :
         /\ WithPaths(t)[x] = NoRow <=> t[x] = NoRow
         /\ t[x] # NoRow => /\ Keeps(WithPaths(t), t, x)
                            /\ WithPaths(t)[x].path = PathsOf(t)[x]
                            /\ WithPaths(t)[x].vec = t[x].vec
<1> SUFFICES ASSUME NEW t, TableIs(t)
             PROVE  /\ TableIs(WithPaths(t))
                    /\ PathsFresh(WithPaths(t))
                    /\ \A x \in Items :
                         /\ WithPaths(t)[x] = NoRow <=> t[x] = NoRow
                         /\ t[x] # NoRow => /\ Keeps(WithPaths(t), t, x)
                                            /\ WithPaths(t)[x].path = PathsOf(t)[x]
                                            /\ WithPaths(t)[x].vec = t[x].vec
  OBVIOUS
<1> DEFINE u == WithPaths(t)
<1>1. /\ \A x \in Items : t[x] # NoRow => PathsOf(t)[x] # Null
      /\ \A x \in Items : PathsOf(t)[x] \in Paths /\ LastIs(PathsOf(t)[x], t[x].name)
  BY TableNamed, GroundedPaths, PathsEndInName DEF HasRow
<1>2. /\ u = [x \in Items |-> u[x]]
      /\ \A x \in Items : u[x] = IF t[x] = NoRow \/ PathsOf(t)[x] = Null THEN t[x]
                                 ELSE [t[x] EXCEPT !.path = PathsOf(t)[x]]
  BY DEF WithPaths
<1> HIDE DEF u
<1>3. ASSUME NEW x \in Items, t[x] # NoRow
      PROVE  /\ u[x] \in Rows /\ u[x] # NoRow
             /\ Keeps(u, t, x)
             /\ u[x].path = PathsOf(t)[x] /\ u[x].vec = t[x].vec /\ u[x].size = t[x].size
  <2>1. t[x] \in Rows
    BY <1>3 DEF TableIs
  <2>2. u[x] = [t[x] EXCEPT !.path = PathsOf(t)[x]]
    BY <1>1, <1>2, <1>3
  <2>3. \A r \in Rows : \A p \in Paths :
          /\ [r EXCEPT !.path = p] \in Rows
          /\ [r EXCEPT !.path = p].name = r.name
          /\ [r EXCEPT !.path = p].parent = r.parent
          /\ [r EXCEPT !.path = p].path = p
          /\ [r EXCEPT !.path = p].vec = r.vec
          /\ [r EXCEPT !.path = p].size = r.size
    BY DEF Rows
  <2> QED
    BY <1>1, <2>1, <2>2, <2>3, RowShape DEF Keeps
<1>4. \A x \in Items : t[x] = NoRow => u[x] = NoRow
  BY <1>2
<1>5. u \in [Items -> Rows \cup {NoRow}]
  <2>1. \A x \in Items : u[x] \in Rows \cup {NoRow}
    BY <1>3, <1>4
  <2> QED
    BY <1>2, <2>1
<1>6. TableIs(u)
  BY <1>3, <1>4, <1>5, RewrittenTable
<1>7. PathsFresh(u)
  BY <1>1, <1>3, <1>4 DEF PathsFresh, Keeps
<1> QED
  BY <1>3, <1>4, <1>6, <1>7 DEF u

LEMMA PrunedTable ==
  \A t : TableIs(t) =>
    /\ TableIs(Pruned(t))
    /\ \A x \in Items : Pruned(t)[x] = IF x \in Under(t, Root) THEN t[x] ELSE NoRow
<1> SUFFICES ASSUME NEW t, TableIs(t)
             PROVE  /\ TableIs(Pruned(t))
                    /\ \A x \in Items : Pruned(t)[x] = IF x \in Under(t, Root) THEN t[x] ELSE NoRow
  OBVIOUS
<1> DEFINE u == Pruned(t)
<1>1. /\ u = [x \in Items |-> u[x]]
      /\ \A x \in Items : u[x] = IF x \in Under(t, Root) THEN t[x] ELSE NoRow
  BY DEF Pruned
<1> HIDE DEF u
<1>2. u \in [Items -> Rows \cup {NoRow}]
  <2>1. \A x \in Items : u[x] \in Rows \cup {NoRow}
    BY <1>1 DEF TableIs
  <2> QED
    BY <1>1, <2>1
<1>3. TableIs(u)
  BY <1>1, <1>2, RewrittenTable DEF Keeps
<1> QED
  BY <1>1, <1>3 DEF u

LEMMA WithSizesTable ==
  \A t : TableIs(t) =>
    /\ TableIs(WithSizes(t))
    /\ \A x \in Items :
         /\ WithSizes(t)[x] = NoRow <=> t[x] = NoRow
         /\ t[x] # NoRow => /\ Keeps(WithSizes(t), t, x)
                            /\ WithSizes(t)[x].path = t[x].path
                            /\ WithSizes(t)[x].vec = t[x].vec
         /\ t[x] # NoRow /\ x \in Folders =>
              WithSizes(t)[x].size = Cardinality(Under(t, x) \cap Files)
<1> SUFFICES ASSUME NEW t, TableIs(t)
             PROVE  /\ TableIs(WithSizes(t))
                    /\ \A x \in Items :
                         /\ WithSizes(t)[x] = NoRow <=> t[x] = NoRow
                         /\ t[x] # NoRow => /\ Keeps(WithSizes(t), t, x)
                                            /\ WithSizes(t)[x].path = t[x].path
                                            /\ WithSizes(t)[x].vec = t[x].vec
                         /\ t[x] # NoRow /\ x \in Folders =>
                              WithSizes(t)[x].size = Cardinality(Under(t, x) \cap Files)
  OBVIOUS
<1> DEFINE u == WithSizes(t)
<1>1. /\ u = [x \in Items |-> u[x]]
      /\ \A x \in Items : u[x] = IF x \in Folders /\ t[x] # NoRow
                                   THEN [t[x] EXCEPT !.size = Cardinality(Under(t, x) \cap Files)]
                                   ELSE t[x]
  BY DEF WithSizes
<1> HIDE DEF u
<1>2. \A x \in Items : Cardinality(Under(t, x) \cap Files) \in Nat
  <2>1. \A x : Under(t, x) \cap Files \in SUBSET Items
    BY DEF Items
  <2> QED
    BY <2>1, FinitePart
<1>3. \A x \in Items : t[x] \in Rows \cup {NoRow}
  BY DEF TableIs
<1>4. ASSUME NEW x \in Items, t[x] # NoRow
      PROVE  /\ u[x] \in Rows /\ u[x] # NoRow
             /\ Keeps(u, t, x)
             /\ u[x].path = t[x].path /\ u[x].vec = t[x].vec
             /\ IF x \in Folders THEN u[x].size = Cardinality(Under(t, x) \cap Files)
                ELSE u[x].size = t[x].size
  <2>1. \A r \in Rows : \A n \in Nat :
          /\ [r EXCEPT !.size = n] \in Rows
          /\ [r EXCEPT !.size = n].name = r.name
          /\ [r EXCEPT !.size = n].parent = r.parent
          /\ [r EXCEPT !.size = n].path = r.path
          /\ [r EXCEPT !.size = n].vec = r.vec
          /\ [r EXCEPT !.size = n].size = n
    BY DEF Rows
  <2>2. CASE x \in Folders
    <3>1. u[x] = [t[x] EXCEPT !.size = Cardinality(Under(t, x) \cap Files)]
      BY <1>1, <1>4, <2>2
    <3> QED
      BY <1>2, <1>3, <1>4, <2>1, <2>2, <3>1, RowShape DEF Keeps
  <2>3. CASE x \notin Folders
    <3>1. u[x] = t[x]
      BY <1>1, <2>3
    <3> QED
      BY <1>3, <1>4, <2>3, <3>1, RowShape DEF Keeps
  <2> QED
    BY <2>2, <2>3
<1>5. \A x \in Items : t[x] = NoRow => u[x] = NoRow
  BY <1>1
<1>6. u \in [Items -> Rows \cup {NoRow}]
  <2>1. \A x \in Items : u[x] \in Rows \cup {NoRow}
    BY <1>4, <1>5
  <2> QED
    BY <1>1, <2>1
<1>7. TableIs(u)
  BY <1>4, <1>5, <1>6, RewrittenTable
<1> QED
  BY <1>4, <1>5, <1>7 DEF u

LEMMA EmbeddedTable ==
  \A t, titles :
    /\ TableIs(t) /\ DOMAIN titles \subseteq Files
    /\ \A x \in DOMAIN titles : titles[x] \in Paths
    => /\ TableIs(Embedded(t, titles))
       /\ \A x \in Items :
            /\ Embedded(t, titles)[x] = NoRow <=> t[x] = NoRow
            /\ t[x] # NoRow =>
                 /\ Keeps(Embedded(t, titles), t, x)
                 /\ Embedded(t, titles)[x].path = t[x].path
                 /\ Embedded(t, titles)[x].size = t[x].size
                 /\ Embedded(t, titles)[x].vec = IF x \in DOMAIN titles THEN titles[x] ELSE t[x].vec
<1> SUFFICES ASSUME NEW t, NEW titles, TableIs(t), DOMAIN titles \subseteq Files,
                    \A x \in DOMAIN titles : titles[x] \in Paths
             PROVE  /\ TableIs(Embedded(t, titles))
                    /\ \A x \in Items :
                         /\ Embedded(t, titles)[x] = NoRow <=> t[x] = NoRow
                         /\ t[x] # NoRow =>
                              /\ Keeps(Embedded(t, titles), t, x)
                              /\ Embedded(t, titles)[x].path = t[x].path
                              /\ Embedded(t, titles)[x].size = t[x].size
                              /\ Embedded(t, titles)[x].vec =
                                   IF x \in DOMAIN titles THEN titles[x] ELSE t[x].vec
  OBVIOUS
<1> DEFINE u == Embedded(t, titles)
<1>1. /\ u = [x \in Items |-> u[x]]
      /\ \A x \in Items : u[x] = IF x \in DOMAIN titles /\ t[x] # NoRow
                                   THEN [t[x] EXCEPT !.vec = titles[x]] ELSE t[x]
  BY DEF Embedded
<1> HIDE DEF u
<1>2. \A x \in Items : t[x] \in Rows \cup {NoRow}
  BY DEF TableIs
<1>3. ASSUME NEW x \in Items, t[x] # NoRow
      PROVE  /\ u[x] \in Rows /\ u[x] # NoRow
             /\ Keeps(u, t, x)
             /\ u[x].path = t[x].path /\ u[x].size = t[x].size
             /\ u[x].vec = IF x \in DOMAIN titles THEN titles[x] ELSE t[x].vec
  <2>1. \A r \in Rows : \A p \in Paths :
          /\ [r EXCEPT !.vec = p] \in Rows
          /\ [r EXCEPT !.vec = p].name = r.name
          /\ [r EXCEPT !.vec = p].parent = r.parent
          /\ [r EXCEPT !.vec = p].path = r.path
          /\ [r EXCEPT !.vec = p].vec = p
          /\ [r EXCEPT !.vec = p].size = r.size
    BY DEF Rows
  <2>2. CASE x \in DOMAIN titles
    <3>1. u[x] = [t[x] EXCEPT !.vec = titles[x]]
      BY <1>1, <1>3, <2>2
    <3> QED
      BY <1>2, <1>3, <2>1, <2>2, <3>1, RowShape DEF Keeps
  <2>3. CASE x \notin DOMAIN titles
    <3>1. u[x] = t[x]
      BY <1>1, <2>3
    <3> QED
      BY <1>2, <1>3, <2>3, <3>1, RowShape DEF Keeps
  <2> QED
    BY <2>2, <2>3
<1>4. \A x \in Items : t[x] = NoRow => u[x] = NoRow
  BY <1>1
<1>5. u \in [Items -> Rows \cup {NoRow}]
  <2>1. \A x \in Items : u[x] \in Rows \cup {NoRow}
    BY <1>3, <1>4
  <2> QED
    BY <1>1, <2>1
<1>6. TableIs(u)
  BY <1>3, <1>4, <1>5, RewrittenTable
<1> QED
  BY <1>3, <1>4, <1>6 DEF u
-----------------------------------------------------------------------------
(* What each step of a sync leaves of it, of the table and of the history. *)
SyncStep(s) ==
  \/ DriveSyncStart(s) \/ TestFlag(s) \/ SetFlag(s) \/ StartCommand(s)
  \/ ListFolders(s) \/ UpsertFolders(s) \/ CommitRows(s)
  \/ MaterialisePaths(s) \/ PruneOutsideRoot(s) \/ MaterialiseSizes(s)
  \/ SelectTitles(s) \/ StoreVectors(s) \/ EndSync(s) \/ NoText(s) \/ FailSync(s)

Waits(s) == DriveSyncStart(s) \/ TestFlag(s) \/ EndSync(s) \/ NoText(s) \/ FailSync(s)
SetsOff(s) == SetFlag(s) \/ StartCommand(s)
Passes(s) == MaterialisePaths(s) \/ PruneOutsideRoot(s) \/ MaterialiseSizes(s)

LEMMA StepKinds ==
  \A s : SyncStep(s) <=> \/ Waits(s) \/ SetsOff(s) \/ ListFolders(s) \/ UpsertFolders(s)
                         \/ CommitRows(s) \/ Passes(s) \/ SelectTitles(s) \/ StoreVectors(s)
BY DEF SyncStep, Waits, SetsOff, Passes

LEMMA OffNow == Off.at = "off"
BY DEF Off

LEMMA WaitsStep ==
  ASSUME SyncShape, NEW s \in Syncers, Waits(s)
  PROVE  /\ sync'[s].at \in {"off", "queued", "flag"}
         /\ UNCHANGED <<drive, mirror, calm, muddled>>
         /\ \A o \in Syncers \ {s} : sync'[o] = sync[o]
<1>1. CASE DriveSyncStart(s)
  <2>1. sync' = [sync EXCEPT ![s] = [Off EXCEPT !.at = "queued", !.web = TRUE]]
    BY <1>1 DEF DriveSyncStart
  <2>2. [Off EXCEPT !.at = "queued", !.web = TRUE].at = "queued"
    BY DEF Off
  <2> QED
    BY <1>1, <2>1, <2>2 DEF DriveSyncStart, SyncShape
<1>2. CASE TestFlag(s)
  <2>1. PICK at \in {"off", "flag"} : Goto(s, at)
    BY <1>2 DEF TestFlag
  <2> QED
    BY <1>2, <2>1 DEF TestFlag, Goto, SyncShape, IsSync
<1>3. CASE Ends(s)
  BY <1>3, OffNow DEF Ends, SyncShape
<1> QED
  BY <1>1, <1>2, <1>3 DEF Waits, EndSync, NoText, FailSync

LEMMA SetsOffStep ==
  ASSUME SyncShape, NEW s \in Syncers, SetsOff(s)
  PROVE  /\ sync[s].at \in {"off", "flag"}
         /\ sync'[s].at \in {"folders", "select"}
         /\ Begins(s, sync'[s].at = "folders")
         /\ UNCHANGED <<drive, mirror>>
         /\ \A o \in Syncers \ {s} : sync'[o] = sync[o]
<1>1. CASE SetFlag(s)
  <2>1. sync'[s].at = "folders" /\ \A o \in Syncers \ {s} : sync'[o] = sync[o]
    BY <1>1 DEF SetFlag, Goto, SyncShape, IsSync
  <2>2. Begins(s, TRUE) /\ sync[s].at = "flag" /\ UNCHANGED <<drive, mirror>>
    BY <1>1 DEF SetFlag, Begins
  <2>3. (sync'[s].at = "folders") = TRUE
    BY <2>1
  <2> QED
    BY <2>1, <2>2, <2>3
<1>2. CASE StartCommand(s)
  <2>1. PICK at \in {"folders", "select"} :
          Begins(s, at = "folders") /\ sync' = [sync EXCEPT ![s] = [Off EXCEPT !.at = at]]
    BY <1>2 DEF StartCommand
  <2>2. [Off EXCEPT !.at = at].at = at
    BY DEF Off
  <2>3. sync'[s].at = at /\ \A o \in Syncers \ {s} : sync'[o] = sync[o]
    BY <2>1, <2>2 DEF SyncShape
  <2>4. sync[s].at = "off" /\ UNCHANGED <<drive, mirror>>
    BY <1>2, <2>1 DEF StartCommand, Begins
  <2> QED
    BY <2>1, <2>3, <2>4
<1> QED
  BY <1>1, <1>2 DEF SetsOff

LEMMA ListStep ==
  ASSUME SyncShape, NEW s \in Syncers, ListFolders(s)
  PROVE  /\ sync'[s].at = "upsert"
         /\ sync'[s].folders = [x \in Folders |-> drive[x]]
         /\ sync[s].at = "folders"
         /\ UNCHANGED <<drive, mirror, calm, muddled>>
         /\ \A o \in Syncers \ {s} : sync'[o] = sync[o]
BY DEF ListFolders, SyncShape, IsSync

LEMMA UpsertStep ==
  ASSUME SyncShape, NEW s \in Syncers, UpsertFolders(s)
  PROVE  /\ sync'[s].at = "files" /\ sync[s].at = "upsert"
         /\ sync'[s].folders = sync[s].folders
         /\ UNCHANGED <<drive, mirror, calm, muddled>>
         /\ \A o \in Syncers \ {s} : sync'[o] = sync[o]
BY DEF UpsertFolders, Goto, SyncShape, IsSync

LEMMA CommitStep ==
  ASSUME SyncShape, NEW s \in Syncers, CommitRows(s)
  PROVE  /\ sync[s].at = "files" /\ sync'[s].at = "paths"
         /\ Writes(s, Replaced(mirror, [x \in Items |->
                   IF x \in Folders THEN sync[s].folders[x] ELSE drive[x]]))
         /\ UNCHANGED <<drive, muddled>>
         /\ \A o \in Syncers \ {s} : sync'[o] = sync[o]
<1>1. sync' = [sync EXCEPT ![s].at = "paths", ![s].folders = Null]
  BY DEF CommitRows
<1>2. sync'[s].at = "paths" /\ \A o \in Syncers \ {s} : sync'[o] = sync[o]
  BY <1>1 DEF SyncShape, IsSync
<1> QED
  BY <1>2 DEF CommitRows

LEMMA PassesStep ==
  ASSUME SyncShape, NEW s \in Syncers, NEW from, NEW to, NEW table, Pass(s, from, to, table)
  PROVE  /\ sync[s].at = from /\ sync'[s].at = to
         /\ Writes(s, table)
         /\ UNCHANGED <<drive, muddled>>
         /\ \A o \in Syncers \ {s} : sync'[o] = sync[o]
<1>1. Goto(s, to) /\ Writes(s, table) /\ sync[s].at = from /\ UNCHANGED <<drive, muddled>>
  BY DEF Pass
<1>2. sync'[s].at = to /\ \A o \in Syncers \ {s} : sync'[o] = sync[o]
  BY <1>1 DEF Goto, SyncShape, IsSync
<1> QED
  BY <1>1, <1>2

LEMMA SelectStep ==
  ASSUME SyncShape, NEW s \in Syncers, SelectTitles(s)
  PROVE  /\ sync[s].at = "select" /\ sync'[s].at = "embed"
         /\ sync'[s].titles = [x \in Pending(mirror) |-> mirror[x].path]
         /\ UNCHANGED <<drive, mirror, calm, muddled>>
         /\ \A o \in Syncers \ {s} : sync'[o] = sync[o]
<1> DEFINE titles == [x \in Pending(mirror) |-> mirror[x].path]
<1>1. /\ sync' = [sync EXCEPT ![s].at = "embed", ![s].titles = titles]
      /\ sync[s].at = "select"
      /\ UNCHANGED <<drive, mirror, calm, muddled>>
  BY DEF SelectTitles
<1> HIDE DEF titles
<1>2. /\ sync'[s].at = "embed" /\ sync'[s].titles = titles
      /\ \A o \in Syncers \ {s} : sync'[o] = sync[o]
  BY <1>1 DEF SyncShape, IsSync
<1> QED
  BY <1>1, <1>2 DEF titles

LEMMA StoreStep ==
  ASSUME SyncShape, NEW s \in Syncers, StoreVectors(s)
  PROVE  /\ sync[s].at = "embed" /\ sync'[s].at = "select"
         /\ Writes(s, Embedded(mirror, sync[s].titles))
         /\ UNCHANGED <<drive, muddled>>
         /\ \A o \in Syncers \ {s} : sync'[o] = sync[o]
<1>1. sync' = [sync EXCEPT ![s].at = "select", ![s].titles = Null]
  BY DEF StoreVectors
<1>2. sync'[s].at = "select" /\ \A o \in Syncers \ {s} : sync'[o] = sync[o]
  BY <1>1 DEF SyncShape, IsSync
<1> QED
  BY <1>2 DEF StoreVectors

LEMMA KillStops ==
  ASSUME KillServer, NEW s \in Syncers
  PROVE  /\ sync'[s] = sync[s] \/ sync'[s].at = "off"
         /\ UNCHANGED <<drive, mirror, calm, muddled>>
BY OffNow DEF KillServer

LEMMA History ==
  ASSUME NEW s \in Syncers, NEW table, Writes(s, table)
  PROVE  /\ mirror' = table
         /\ \A o \in Syncers : calm'[o] => calm[o] /\ (o = s \/ mirror' = mirror)
         /\ DOMAIN calm' = Syncers
<1>1. mirror' = table /\ calm' = [o \in Syncers |-> calm[o] /\ (o = s \/ table = mirror)]
  BY DEF Writes
<1>2. \A o \in Syncers : calm'[o] <=> calm[o] /\ (o = s \/ table = mirror)
  BY <1>1, Zenon
<1> QED
  BY <1>1, <1>2, Zenon

LEMMA NewHistory ==
  ASSUME DOMAIN calm = Syncers, NEW s \in Syncers, NEW whole, Begins(s, whole)
  PROVE  /\ calm'[s] => whole
         /\ \A o \in Syncers \ {s} : calm'[o] => calm[o]
         /\ DOMAIN calm' = Syncers
         /\ ~muddled' => ~muddled /\ (\A o \in Syncers \ {s} : ~Busy(o))
                         /\ (whole \/ WithPaths(mirror) = mirror)
<1>1. calm' = [calm EXCEPT ![s] = whole]
  BY DEF Begins
<1>2. muddled' <=> (muddled \/ (\E o \in Syncers \ {s} : Busy(o))
                            \/ (~whole /\ WithPaths(mirror) # mirror))
  BY Zenon DEF Begins
<1>3. calm'[s] = whole /\ DOMAIN calm' = Syncers /\ \A o \in Syncers \ {s} : calm'[o] = calm[o]
  BY <1>1, Zenon
<1>4. calm'[s] => whole
  BY <1>3, Zenon
<1>5. \A o \in Syncers \ {s} : calm'[o] => calm[o]
  BY <1>3, Zenon
<1>6. ~muddled' => ~muddled /\ (\A o \in Syncers \ {s} : ~Busy(o))
                   /\ (whole \/ WithPaths(mirror) = mirror)
  BY <1>2, Zenon
<1> QED
  BY <1>3, <1>4, <1>5, <1>6, Zenon
-----------------------------------------------------------------------------
(* A move in Drive makes no cycle: the new folder is not beneath the item. *)
LEMMA UnderClosed ==
  \A t : \A r \in Items :
    /\ t[r] # NoRow => r \in Under(t, r)
    /\ \A y \in Items : t[y] # NoRow /\ t[y].parent \in Under(t, r) => y \in Under(t, r)
<1> SUFFICES ASSUME NEW t, NEW r \in Items
             PROVE  /\ t[r] # NoRow => r \in Under(t, r)
                    /\ \A y \in Items :
                         t[y] # NoRow /\ t[y].parent \in Under(t, r) => y \in Under(t, r)
  OBVIOUS
<1>1. PICK b : BelowRun(t, r, b) /\ Under(t, r) = b[Most]
  BY UnderRuns
<1>2. Most \in Nat /\ Most # 0 /\ Most \in 1..Most /\ Most \in 0..Most
  BY MostIsNumber
<1>3. ASSUME NEW k \in 1..Most
      PROVE  \A y : y \in b[k] <=>
               y \in b[k - 1] \/ (y \in Items /\ t[y] # NoRow /\ t[y].parent \in b[k - 1])
  <2>1. b[k] = b[k - 1] \cup {y \in Items : t[y] # NoRow /\ t[y].parent \in b[k - 1]}
    BY <1>1 DEF BelowRun
  <2> QED
    BY <2>1
<1>4. b \in [0..Most -> SUBSET Items]
  BY <1>1 DEF BelowRun
<1>5. Widens(b)
  <2>1. ASSUME NEW k \in 1..Most, k < Most, b[k] = b[k - 1]
        PROVE  b[k + 1] = b[k]
    <3>1. k + 1 \in 1..Most /\ (k + 1) - 1 = k
      BY <1>2, <2>1
    <3>2. \A y : y \in b[k + 1] <=>
                   y \in b[k] \/ (y \in Items /\ t[y] # NoRow /\ t[y].parent \in b[k])
      BY <1>3, <3>1
    <3>3. \A y : y \in b[k + 1] <=> y \in b[k]
      BY <1>3, <2>1, <3>2
    <3>4. b[k + 1] \in SUBSET Items /\ b[k] \in SUBSET Items
      BY <1>2, <1>4, <3>1
    <3> QED
      BY <3>3, <3>4
  <2>2. \A k \in 1..Most : b[k - 1] \subseteq b[k]
    BY <1>3
  <2> QED
    BY <1>4, <2>1, <2>2 DEF Widens
<1>6. ASSUME NEW y \in Items, t[y] # NoRow, t[y].parent \in b[Most]
      PROVE  y \in b[Most]
  <2>1. CASE b[Most] = Items
    BY <2>1
  <2>2. CASE b[Most] = b[Most - 1]
    BY <1>2, <1>3, <1>6, <2>2
  <2> QED
    BY <1>5, <2>1, <2>2, Settles
<1>7. ASSUME t[r] # NoRow
      PROVE  r \in b[Most]
  <2> DEFINE S == {k \in 0..Most : r \in b[k]}
  <2>1. 0 \in S
    BY <1>1, <1>2, <1>7 DEF BelowRun
  <2>2. ASSUME NEW k \in Nat, k < Most, k \in S
        PROVE  k + 1 \in S
    <3>1. k + 1 \in 1..Most /\ (k + 1) - 1 = k /\ k + 1 \in 0..Most
      BY <1>2, <2>2
    <3>2. r \in b[k + 1]
      BY <1>3, <2>2, <3>1
    <3> QED
      BY <3>1, <3>2
  <2> HIDE DEF S
  <2>3. \A k \in 0..Most : k \in S
    BY <1>2, <2>1, <2>2, InductionUpTo
  <2> QED
    BY <1>2, <2>3 DEF S
<1> QED
  BY <1>1, <1>6, <1>7

LEMMA MoveGrounded ==
  ASSUME DriveOK, NEW x \in Items \ {Root}, NEW n \in Names, NEW p \in Folders \cup {Outside},
         p \notin Under(drive, x), NEW d, d = [drive EXCEPT ![x] = [name |-> n, parent |-> p]]
  PROVE  Grounded(d)
<1>1. /\ DOMAIN drive = Items /\ DOMAIN d = Items
      /\ d[x] = [name |-> n, parent |-> p]
      /\ \A y \in Items : y # x => d[y] = drive[y]
  BY DEF DriveOK
<1>2. d[x].parent = p
  BY <1>1
<1>3. \A y \in Items : drive[y] # NoRow => drive[y].parent \in Folders \cup {Outside}
  BY DEF DriveOK, Entries
<1>4. x \in Folders => x \in Under(drive, x)
  BY UnderClosed DEF DriveOK
<1> SUFFICES ASSUME NEW S \in SUBSET Items, S # {},
                    \A y \in S : d[y] # NoRow /\ d[y].parent \in S
             PROVE  FALSE
  BY <1>1 DEF Grounded
<1>5. \A T \in SUBSET Items : T # {} => \E y \in T : drive[y] = NoRow \/ drive[y].parent \notin T
  BY <1>1 DEF Grounded, DriveOK
<1>6. CASE x \notin S
  <2>1. \A y \in S : drive[y] # NoRow /\ drive[y].parent \in S
    BY <1>1, <1>6
  <2> QED
    BY <1>5, <2>1
<1>7. CASE x \in S
  <2> DEFINE W == Under(drive, x) \cup {x}
             T == S \ W
  <2>1. p \in T
    <3>1. p \in S /\ p \in Items
      BY <1>2, <1>7
    <3>2. p # x
      BY <1>4, <3>1, MirrorAssumption
    <3> QED
      BY <3>1, <3>2
  <2>2. ASSUME NEW y \in T
        PROVE  drive[y] # NoRow /\ drive[y].parent \in T
    <3>1. y \in Items /\ y # x /\ y \notin Under(drive, x)
      OBVIOUS
    <3>2. drive[y] # NoRow /\ drive[y].parent \in S
      BY <1>1, <3>1
    <3>3. drive[y].parent \notin Under(drive, x)
      BY <3>1, <3>2, UnderClosed
    <3>4. drive[y].parent # x
      <4>1. drive[y].parent \in Folders
        BY <1>3, <3>1, <3>2, MirrorAssumption
      <4> QED
        BY <1>4, <3>3, <4>1
    <3> QED
      BY <3>2, <3>3, <3>4
  <2>3. T \in SUBSET Items /\ T # {}
    BY <2>1
  <2> HIDE DEF T
  <2> QED
    BY <1>5, <2>2, <2>3
<1> QED
  BY <1>6, <1>7

LEMMA EditKeepsDrive == DriveOK /\ EditDrive => DriveOK'
<1> SUFFICES ASSUME DriveOK, EditDrive
             PROVE  DriveOK'
  OBVIOUS
<1>1. PICK x \in Items \ {Root} :
        \/ \E n \in Names, p \in Folders \cup {Outside} :
             p \notin Under(drive, x) /\ drive' = [drive EXCEPT ![x] = [name |-> n, parent |-> p]]
        \/ x \in Files /\ drive' = [drive EXCEPT ![x] = NoRow]
  BY DEF EditDrive
<1>0. Root \in Items /\ Root # x
  BY MirrorAssumption DEF Items
<1>2. CASE x \in Files /\ drive' = [drive EXCEPT ![x] = NoRow]
  <2>1. /\ drive' \in [Items -> Entries \cup {NoRow}] /\ drive'[x] = NoRow
        /\ \A y \in Items : y # x => drive'[y] = drive[y]
    BY <1>2 DEF DriveOK
  <2>2. DOMAIN drive = Items /\ DOMAIN drive' = Items /\ Grounded(drive)
    BY <2>1 DEF DriveOK
  <2>3. \A y \in Items : drive'[y] # NoRow => drive[y] # NoRow /\ drive'[y].parent = drive[y].parent
    BY <2>1
  <2>4. PICK d : d = drive'
    OBVIOUS
  <2>5. Grounded(d)
    BY <2>2, <2>3, <2>4, StaysGrounded
  <2>6. \A y \in Folders : y \in Items /\ y # x
    BY <1>2, MirrorAssumption DEF Items
  <2> QED
    BY <1>0, <2>1, <2>4, <2>5, <2>6 DEF DriveOK, Grounded
<1>3. ASSUME NEW n \in Names, NEW p \in Folders \cup {Outside}, p \notin Under(drive, x),
             drive' = [drive EXCEPT ![x] = [name |-> n, parent |-> p]]
      PROVE  DriveOK'
  <2>1. PICK d : d = drive'
    OBVIOUS
  <2>2. Grounded(d)
    BY <1>3, <2>1, MoveGrounded
  <2>3. [name |-> n, parent |-> p] \in Entries
    BY DEF Entries
  <2>4. /\ drive' \in [Items -> Entries \cup {NoRow}] /\ drive'[x] # NoRow
        /\ \A y \in Items : y # x => drive'[y] = drive[y]
    BY <1>3, <2>3, MirrorAssumption DEF DriveOK
  <2>5. \A y \in Folders : drive'[y] # NoRow
    BY <2>4 DEF DriveOK, Items
  <2> QED
    BY <1>0, <2>1, <2>2, <2>4, <2>5 DEF DriveOK, Grounded
<1> QED
  BY <1>1, <1>2, <1>3

LEMMA TypeInit == MirrorInit => TypeInv
<1> SUFFICES ASSUME MirrorInit
             PROVE  TypeInv
  OBVIOUS
<1>1. (CHOOSE n \in Names : TRUE) \in Names
  BY MirrorAssumption
<1> DEFINE first == CHOOSE n \in Names : TRUE
<1>2. drive = [x \in Items |-> [name |-> first, parent |-> IF x = Root THEN Outside ELSE Root]]
  BY DEF MirrorInit
<1> HIDE DEF first
<1>3. \A x \in Items : [name |-> first, parent |-> IF x = Root THEN Outside ELSE Root] \in Entries
  BY <1>1, MirrorAssumption DEF Entries, first
<1>4. /\ drive \in [Items -> Entries \cup {NoRow}]
      /\ \A x \in Items : drive[x] # NoRow /\
           drive[x].parent = IF x = Root THEN Outside ELSE Root
  BY <1>2, <1>3, MirrorAssumption
<1>5. Grounded(drive)
  <2> SUFFICES ASSUME NEW S \in SUBSET Items, NEW x \in S, \A y \in S : drive[y].parent \in S
               PROVE  FALSE
    BY <1>4 DEF Grounded
  <2>1. Root \in S
    BY <1>4, MirrorAssumption
  <2> QED
    BY <1>4, <2>1, MirrorAssumption
<1>6. DriveOK
  BY <1>4, <1>5, MirrorAssumption DEF DriveOK, Items
<1>7. TableOK
  <2>1. mirror = [x \in Items |-> NoRow]
    BY DEF MirrorInit
  <2> QED
    BY <2>1 DEF TableOK, TableIs, Grounded
<1>8. HandsOK /\ DOMAIN calm = Syncers
  <2>1. \A s \in Syncers : sync[s].at = "off"
    BY OffNow DEF MirrorInit
  <2> QED
    BY <2>1 DEF HandsOK, MirrorInit
<1> QED
  BY <1>6, <1>7, <1>8, FlagInit DEF TypeInv
-----------------------------------------------------------------------------
(* The tables stay tables, and listings listings.                          *)
LEMMA TableNow == \A u : u = mirror' /\ TableIs(u) => TableOK'
BY DEF TableOK, TableIs, Grounded

LEMMA NewTable ==
  ASSUME TypeInv, NEW s \in Syncers, SyncStep(s)
  PROVE  TableOK' /\ DOMAIN calm' = Syncers /\ drive' = drive
<1>0. SyncShape /\ TableIs(mirror) /\ DOMAIN calm = Syncers
  BY DEF TypeInv, FlagInv, TableOK
<1>1. ASSUME UNCHANGED <<mirror, calm, drive>>
      PROVE  TableOK' /\ DOMAIN calm' = Syncers /\ drive' = drive
  BY <1>0, <1>1, TableNow
<1>2. ASSUME NEW u, TableIs(u), Writes(s, u)
      PROVE  TableOK' /\ DOMAIN calm' = Syncers
  BY <1>2, History, TableNow
<1>3. CASE Waits(s) \/ ListFolders(s) \/ UpsertFolders(s) \/ SelectTitles(s)
  BY <1>0, <1>1, <1>3, WaitsStep, ListStep, UpsertStep, SelectStep
<1>4. CASE SetsOff(s)
  <2>1. Begins(s, sync'[s].at = "folders") /\ UNCHANGED <<drive, mirror>>
    BY <1>0, <1>4, SetsOffStep
  <2>2. DOMAIN calm' = Syncers
    BY <1>0, <2>1, NewHistory
  <2> QED
    BY <1>0, <2>1, <2>2, TableNow
<1>5. CASE CommitRows(s)
  <2> DEFINE listing == [x \in Items |-> IF x \in Folders THEN sync[s].folders[x] ELSE drive[x]]
  <2>1. sync[s].at = "files" /\ Writes(s, Replaced(mirror, listing)) /\ drive' = drive
    BY <1>0, <1>5, CommitStep
  <2>2. /\ sync[s].folders \in [Folders -> Entries \cup {NoRow}]
        /\ Grounded(sync[s].folders)
    BY <2>1 DEF TypeInv, HandsOK
  <2>3. Grounded(listing)
    BY <2>2, ListingGrounded DEF TypeInv
  <2>4. listing \in [Items -> Entries \cup {NoRow}]
    BY <2>2 DEF TypeInv, DriveOK
  <2> HIDE DEF listing
  <2>5. TableIs(Replaced(mirror, listing))
    BY <1>0, <2>3, <2>4, ReplacedTable
  <2> QED
    BY <1>2, <2>1, <2>5
<1>6. CASE Passes(s)
  <2>1. CASE MaterialisePaths(s)
    <3>1. Writes(s, WithPaths(mirror)) /\ drive' = drive
      BY <1>0, <2>1, PassesStep DEF MaterialisePaths
    <3> QED
      BY <1>0, <1>2, <3>1, WithPathsTable
  <2>2. CASE PruneOutsideRoot(s)
    <3>1. Writes(s, Pruned(mirror)) /\ drive' = drive
      BY <1>0, <2>2, PassesStep DEF PruneOutsideRoot
    <3> QED
      BY <1>0, <1>2, <3>1, PrunedTable
  <2>3. CASE MaterialiseSizes(s)
    <3>1. Writes(s, WithSizes(mirror)) /\ drive' = drive
      BY <1>0, <2>3, PassesStep DEF MaterialiseSizes
    <3> QED
      BY <1>0, <1>2, <3>1, WithSizesTable
  <2> QED
    BY <1>6, <2>1, <2>2, <2>3 DEF Passes
<1>7. CASE StoreVectors(s)
  <2>1. sync[s].at = "embed" /\ Writes(s, Embedded(mirror, sync[s].titles)) /\ drive' = drive
    BY <1>0, <1>7, StoreStep
  <2>2. /\ DOMAIN sync[s].titles \subseteq Files
        /\ \A x \in DOMAIN sync[s].titles : sync[s].titles[x] \in Paths
    BY <2>1 DEF TypeInv, HandsOK
  <2>3. TableIs(Embedded(mirror, sync[s].titles))
    BY <1>0, <2>2, EmbeddedTable
  <2> QED
    BY <1>2, <2>1, <2>3
<1> QED
  BY <1>3, <1>4, <1>5, <1>6, <1>7, StepKinds

(* What one sync holds in its hands. *)
HandOK(r) ==
  /\ r.at \in {"upsert", "files"} =>
       r.folders \in [Folders -> Entries \cup {NoRow}] /\ Grounded(r.folders)
  /\ r.at = "embed" =>
       DOMAIN r.titles \subseteq Files /\ \A x \in DOMAIN r.titles : r.titles[x] \in Paths

LEMMA NewHand ==
  ASSUME TypeInv, NEW s \in Syncers, SyncStep(s), NEW r, r = sync'[s]
  PROVE  HandOK(r)
<1>0. SyncShape /\ HandOK(sync[s]) /\ TableIs(mirror)
  BY DEF TypeInv, FlagInv, HandsOK, TableOK, HandOK
<1>1. ASSUME r.at \notin {"upsert", "files", "embed"}
      PROVE  HandOK(r)
  BY <1>1 DEF HandOK
<1>2. CASE Waits(s) \/ SetsOff(s)
  BY <1>0, <1>1, <1>2, WaitsStep, SetsOffStep
<1>3. CASE ListFolders(s)
  <2> DEFINE listing == [x \in Folders |-> drive[x]]
  <2>1. r.at = "upsert" /\ r.folders = listing
    BY <1>0, <1>3, ListStep
  <2>2. listing \in [Folders -> Entries \cup {NoRow}]
    BY DEF TypeInv, DriveOK, Items
  <2>3. Grounded(listing)
    <3> SUFFICES ASSUME NEW S \in SUBSET Folders, S # {}
                 PROVE  \E x \in S : listing[x] = NoRow \/ listing[x].parent \notin S
      BY DEF Grounded
    <3>1. S \in SUBSET DOMAIN drive /\ Grounded(drive)
      BY DEF TypeInv, DriveOK, Items
    <3>2. PICK x \in S : drive[x] = NoRow \/ drive[x].parent \notin S
      BY <3>1 DEF Grounded
    <3> QED
      BY <3>2
  <2> HIDE DEF listing
  <2> QED
    BY <2>1, <2>2, <2>3 DEF HandOK
<1>4. CASE UpsertFolders(s)
  BY <1>0, <1>4, UpsertStep DEF HandOK
<1>5. CASE CommitRows(s) \/ StoreVectors(s)
  BY <1>0, <1>1, <1>5, CommitStep, StoreStep
<1>6. CASE Passes(s)
  BY <1>0, <1>1, <1>6, PassesStep DEF Passes, MaterialisePaths, PruneOutsideRoot, MaterialiseSizes
<1>7. CASE SelectTitles(s)
  <2>1. r.at = "embed" /\ r.titles = [x \in Pending(mirror) |-> mirror[x].path]
    BY <1>0, <1>7, SelectStep
  <2>2. \A x \in Pending(mirror) : x \in Files /\ mirror[x].path \in Paths
    <3> SUFFICES ASSUME NEW x \in Files, mirror[x] # NoRow
                 PROVE  mirror[x].path \in Paths
      BY DEF Pending
    <3>1. mirror[x] \in Rows
      BY <1>0 DEF TableIs, Items
    <3> QED
      BY <3>1, RowShape
  <2> QED
    BY <2>1, <2>2 DEF HandOK
<1> QED
  BY <1>2, <1>3, <1>4, <1>5, <1>6, <1>7, StepKinds

LEMMA OthersStay ==
  ASSUME SyncShape, NEW s \in Syncers, SyncStep(s)
  PROVE  \A o \in Syncers \ {s} : sync'[o] = sync[o]
<1>1. CASE Waits(s) \/ SetsOff(s) \/ ListFolders(s) \/ UpsertFolders(s)
  BY <1>1, WaitsStep, SetsOffStep, ListStep, UpsertStep
<1>2. CASE CommitRows(s) \/ SelectTitles(s) \/ StoreVectors(s)
  BY <1>2, CommitStep, SelectStep, StoreStep
<1>3. CASE Passes(s)
  BY <1>3, PassesStep DEF Passes, MaterialisePaths, PruneOutsideRoot, MaterialiseSizes
<1> QED
  BY <1>1, <1>2, <1>3, StepKinds

LEMMA TypeStep == TypeInv /\ [MirrorNext]_mvars => TypeInv'
<1> SUFFICES ASSUME TypeInv, [MirrorNext]_mvars
             PROVE  TypeInv'
  OBVIOUS
<1>0. FlagInv' /\ SyncShape
  BY MirrorStep DEF TypeInv, FlagInv
<1>1. \A s \in Syncers : HandOK(sync[s])
  BY DEF TypeInv, HandsOK, HandOK
<1>2. ASSUME \A s \in Syncers : \A r : r = sync'[s] => HandOK(r)
      PROVE  HandsOK'
  <2>1. ASSUME NEW s \in Syncers
        PROVE  /\ sync'[s].at \in {"upsert", "files"} =>
                    /\ sync'[s].folders \in [Folders -> Entries \cup {NoRow}]
                    /\ Grounded(sync'[s].folders)
               /\ sync'[s].at = "embed" =>
                    /\ DOMAIN sync'[s].titles \subseteq Files
                    /\ \A x \in DOMAIN sync'[s].titles : sync'[s].titles[x] \in Paths
    <3>1. PICK r : r = sync'[s]
      OBVIOUS
    <3>2. HandOK(r)
      BY <1>2, <3>1
    <3> QED
      BY <3>1, <3>2 DEF HandOK, Grounded
  <2> QED
    BY <2>1 DEF HandsOK, Grounded
<1>3. CASE EditDrive \/ UNCHANGED mvars
  <2>1. UNCHANGED <<mirror, sync>> /\ DOMAIN calm' = Syncers
    BY <1>3 DEF EditDrive, mvars, TypeInv
  <2>2. HandsOK'
    BY <1>1, <1>2, <2>1
  <2>3. TableOK'
    BY <2>1, TableNow DEF TypeInv, TableOK
  <2>4. CASE EditDrive
    BY <1>0, <2>1, <2>2, <2>3, <2>4, EditKeepsDrive DEF TypeInv
  <2>5. CASE UNCHANGED mvars
    BY <1>0, <2>1, <2>2, <2>3, <2>5 DEF TypeInv, DriveOK, Grounded, mvars
  <2> QED
    BY <1>3, <2>4, <2>5
<1>4. CASE KillServer
  <2>1. UNCHANGED <<drive, mirror, calm>>
    BY <1>4 DEF KillServer
  <2>2. \A s \in Syncers : sync'[s] = sync[s] \/ sync'[s].at = "off"
    BY <1>4, KillStops
  <2>3. \A s \in Syncers : \A r : r = sync'[s] => HandOK(r)
    BY <1>1, <2>2 DEF HandOK
  <2>4. TableOK'
    BY <2>1, TableNow DEF TypeInv, TableOK
  <2> QED
    BY <1>0, <1>2, <2>1, <2>3, <2>4 DEF TypeInv, DriveOK, Grounded
<1>5. ASSUME NEW s \in Syncers, SyncStep(s)
      PROVE  TypeInv'
  <2>1. \A o \in Syncers \ {s} : sync'[o] = sync[o]
    BY <1>0, <1>5, OthersStay
  <2>2. \A o \in Syncers : \A r : r = sync'[o] => HandOK(r)
    BY <1>1, <1>5, <2>1, NewHand
  <2>3. TableOK' /\ DOMAIN calm' = Syncers /\ drive' = drive
    BY <1>5, NewTable
  <2> QED
    BY <1>0, <1>2, <2>2, <2>3 DEF TypeInv, DriveOK, Grounded
<1> QED
  BY <1>3, <1>4, <1>5 DEF MirrorNext, SyncStep
-----------------------------------------------------------------------------
(* What a sync knows stays true while nobody writes, and each of its own   *)
(* stages adds to it.                                                      *)
LEMMA SameLibrary ==
  drive' = drive => /\ Library' = Library
                    /\ \A x : ChainTo(x)' = ChainTo(x)
                    /\ \A c : NamesOf(c)' = NamesOf(c)
                    /\ \A x : Beneath(x)' = Beneath(x)
<1> SUFFICES ASSUME drive' = drive
             PROVE  /\ Library' = Library
                    /\ \A x : ChainTo(x)' = ChainTo(x)
                    /\ \A c : NamesOf(c)' = NamesOf(c)
                    /\ \A x : Beneath(x)' = Beneath(x)
  OBVIOUS
<1>1. \A x : ChainTo(x)' = ChainTo(x)
  BY DEF ChainTo
<1>2. Library' = Library
  BY <1>1 DEF Library
<1>3. \A c : NamesOf(c)' = NamesOf(c)
  BY DEF NamesOf
<1>4. \A x : Beneath(x)' = Beneath(x)
  BY <1>1 DEF Beneath
<1> QED
  BY <1>1, <1>2, <1>3, <1>4

LEMMA RowsNow == drive' = drive => \A u : u = mirror' /\ (\A x \in Items : Agrees(u, x)) => RowsTrue'
BY DEF RowsTrue, Agrees

LEMMA LibraryNow == drive' = drive => \A u : u = mirror' /\ LibraryOnly(u) => OnlyLibrary'
BY SameLibrary DEF OnlyLibrary, LibraryOnly, Agrees

LEMMA PathsNow ==
  drive' = drive =>
    \A u : /\ u = mirror'
           /\ \A x \in Library : \A c \in ChainTo(x) : u[x].path = NamesOf(c)
           => PathsTrue'
<1> SUFFICES ASSUME drive' = drive,
                    \A x \in Library : \A c \in ChainTo(x) : mirror'[x].path = NamesOf(c)
             PROVE  PathsTrue'
  OBVIOUS
<1>1. \A x \in Library' : \A c \in ChainTo(x)' : mirror'[x].path = NamesOf(c)'
  BY SameLibrary
<1> QED
  BY <1>1 DEF PathsTrue

LEMMA SizesNow ==
  drive' = drive =>
    \A u : /\ u = mirror'
           /\ \A x \in Library \cap Folders : u[x].size = Cardinality(Beneath(x))
           => SizesTrue'
<1> SUFFICES ASSUME drive' = drive,
                    \A x \in Library \cap Folders : mirror'[x].size = Cardinality(Beneath(x))
             PROVE  SizesTrue'
  OBVIOUS
<1>1. \A x \in Library' \cap Folders : mirror'[x].size = Cardinality(Beneath(x)')
  BY SameLibrary
<1> QED
  BY <1>1 DEF SizesTrue

LEMMA SameKnowledge ==
  drive' = drive /\ mirror' = mirror =>
    /\ RowsTrue => RowsTrue'
    /\ OnlyLibrary => OnlyLibrary'
    /\ PathsTrue => PathsTrue'
    /\ SizesTrue => SizesTrue'
<1> SUFFICES ASSUME drive' = drive, mirror' = mirror
             PROVE  /\ RowsTrue => RowsTrue'
                    /\ OnlyLibrary => OnlyLibrary'
                    /\ PathsTrue => PathsTrue'
                    /\ SizesTrue => SizesTrue'
  OBVIOUS
<1>1. RowsTrue => RowsTrue'
  BY RowsNow DEF RowsTrue
<1>2. OnlyLibrary => OnlyLibrary'
  BY LibraryNow DEF OnlyLibrary
<1>3. PathsTrue => PathsTrue'
  BY PathsNow DEF PathsTrue
<1>4. SizesTrue => SizesTrue'
  BY SizesNow DEF SizesTrue
<1> QED
  BY <1>1, <1>2, <1>3, <1>4

LEMMA KnowsStill ==
  ASSUME drive' = drive, mirror' = mirror, NEW s \in Syncers, sync'[s] = sync[s], Knows(s)
  PROVE  Knows(s)'
<1>1. ListingTrue(s) => ListingTrue(s)'
  BY DEF ListingTrue
<1> QED
  BY <1>1, SameKnowledge DEF Knows

(* Rows that keep what a sync knows of them.                               *)
LEMMA SamePaths ==
  DriveOK /\ OnlyLibrary =>
    \A u : (\A x \in Items : /\ u[x] = NoRow <=> mirror[x] = NoRow
                             /\ mirror[x] # NoRow => Keeps(u, mirror, x))
           => LibraryOnly(u)
BY DEF OnlyLibrary, LibraryOnly, Agrees, Keeps

(* The five stages that add to what a sync knows.                          *)
LEMMA KnowsRows ==
  ASSUME TypeInv, NEW s \in Syncers, ListingTrue(s), CommitRows(s)
  PROVE  RowsTrue'
<1> DEFINE listing == [x \in Items |-> IF x \in Folders THEN sync[s].folders[x] ELSE drive[x]]
<1>0. SyncShape /\ TableIs(mirror) /\ DriveOK
  BY DEF TypeInv, FlagInv, TableOK
<1>1. sync[s].at = "files" /\ Writes(s, Replaced(mirror, listing)) /\ drive' = drive
  BY <1>0, CommitStep
<1>2. listing = drive
  BY <1>0 DEF ListingTrue, DriveOK
<1>3. mirror' = Replaced(mirror, drive)
  BY <1>1, <1>2, History
<1>4. \A x \in Items : Agrees(Replaced(mirror, drive), x)
  <2>1. drive \in [Items -> Entries \cup {NoRow}] /\ Grounded(drive)
    BY <1>0 DEF DriveOK
  <2> QED
    BY <1>0, <2>1, ReplacedTable DEF Agrees
<1> QED
  BY <1>1, <1>3, <1>4, RowsNow

LEMMA KnowsPaths ==
  ASSUME TypeInv, NEW s \in Syncers, RowsTrue, MaterialisePaths(s)
  PROVE  RowsTrue' /\ PathsTrue'
<1>0. SyncShape /\ TableIs(mirror) /\ DriveOK
  BY DEF TypeInv, FlagInv, TableOK
<1> DEFINE u == WithPaths(mirror)
<1>1. mirror' = u /\ drive' = drive
  BY <1>0, PassesStep, History DEF MaterialisePaths
<1>2. \A x \in Items : /\ u[x] = NoRow <=> mirror[x] = NoRow
                       /\ mirror[x] # NoRow => /\ Keeps(u, mirror, x)
                                               /\ u[x].path = PathsOf(mirror)[x]
  BY <1>0, WithPathsTable
<1> HIDE DEF u
<1>3. \A x \in Items : Agrees(u, x)
  BY <1>2 DEF RowsTrue, Agrees, Keeps
<1>4. ASSUME NEW x \in Library, NEW c \in ChainTo(x)
      PROVE  u[x].path = NamesOf(c)
  <2>1. IsWay(c) /\ c[Len(c)] = x
    BY <1>0, ChainsAreWays
  <2>2. PathsOf(mirror)[x] = NamesOf(c)
    BY <1>0, <2>1, PathsAlongWays DEF RowsTrue
  <2>3. x \in Items /\ mirror[x] # NoRow
    BY <1>0, LibraryIsReached DEF RowsTrue, Agrees
  <2> QED
    BY <1>2, <2>2, <2>3
<1> QED
  BY <1>1, <1>3, <1>4, RowsNow, PathsNow

LEMMA KnowsLibrary ==
  ASSUME TypeInv, NEW s \in Syncers, RowsTrue, PathsTrue, PruneOutsideRoot(s)
  PROVE  OnlyLibrary' /\ PathsTrue'
<1>0. SyncShape /\ TableIs(mirror) /\ DriveOK
  BY DEF TypeInv, FlagInv, TableOK
<1> DEFINE u == Pruned(mirror)
<1>1. mirror' = u /\ drive' = drive
  BY <1>0, PassesStep, History DEF PruneOutsideRoot
<1>2. Shows(mirror)
  BY <1>0, TablesShow DEF RowsTrue
<1>3. \A x \in Items : u[x] = IF x \in Library THEN mirror[x] ELSE NoRow
  BY <1>0, <1>2, PrunedTable, UnderRoot
<1> HIDE DEF u
<1>4. LibraryOnly(u)
  BY <1>3 DEF RowsTrue, LibraryOnly, Agrees
<1>5. \A x \in Library : \A c \in ChainTo(x) : u[x].path = NamesOf(c)
  BY <1>0, <1>3, LibraryIsReached DEF PathsTrue
<1> QED
  BY <1>1, <1>4, <1>5, LibraryNow, PathsNow

LEMMA KnowsSizes ==
  ASSUME TypeInv, NEW s \in Syncers, OnlyLibrary, PathsTrue, MaterialiseSizes(s)
  PROVE  OnlyLibrary' /\ PathsTrue' /\ SizesTrue'
<1>0. SyncShape /\ TableIs(mirror) /\ DriveOK
  BY DEF TypeInv, FlagInv, TableOK
<1> DEFINE u == WithSizes(mirror)
<1>1. mirror' = u /\ drive' = drive
  BY <1>0, PassesStep, History DEF MaterialiseSizes
<1>2. \A x \in Items :
        /\ u[x] = NoRow <=> mirror[x] = NoRow
        /\ mirror[x] # NoRow => Keeps(u, mirror, x) /\ u[x].path = mirror[x].path
        /\ mirror[x] # NoRow /\ x \in Folders =>
             u[x].size = Cardinality(Under(mirror, x) \cap Files)
  BY <1>0, WithSizesTable
<1> HIDE DEF u
<1>3. LibraryOnly(u)
  BY <1>0, <1>2, SamePaths
<1>4. \A x \in Library : x \in Items /\ mirror[x] # NoRow
  BY <1>0, LibraryIsReached DEF OnlyLibrary, LibraryOnly, Agrees
<1>5. \A x \in Library : \A c \in ChainTo(x) : u[x].path = NamesOf(c)
  BY <1>2, <1>4 DEF PathsTrue
<1>6. ASSUME NEW x \in Library \cap Folders
      PROVE  u[x].size = Cardinality(Beneath(x))
  <2>1. Shows(mirror)
    BY <1>0, TablesShow DEF OnlyLibrary
  <2>2. Under(mirror, x) \cap Files = Beneath(x)
    BY <1>0, <2>1, UnderIsThrough, BeneathIsThrough
  <2> QED
    BY <1>2, <1>4, <2>2
<1> QED
  BY <1>1, <1>3, <1>5, <1>6, LibraryNow, PathsNow, SizesNow

LEMMA KnowsStored ==
  ASSUME TypeInv, NEW s \in Syncers, OnlyLibrary, PathsTrue, SizesTrue, StoreVectors(s)
  PROVE  OnlyLibrary' /\ PathsTrue' /\ SizesTrue'
<1>0. SyncShape /\ TableIs(mirror) /\ DriveOK
  BY DEF TypeInv, FlagInv, TableOK
<1> DEFINE u == Embedded(mirror, sync[s].titles)
<1>1. mirror' = u /\ drive' = drive /\ sync[s].at = "embed"
  BY <1>0, StoreStep, History
<1>2. \A x \in Items :
        /\ u[x] = NoRow <=> mirror[x] = NoRow
        /\ mirror[x] # NoRow => /\ Keeps(u, mirror, x)
                                /\ u[x].path = mirror[x].path /\ u[x].size = mirror[x].size
  BY <1>0, <1>1, EmbeddedTable DEF TypeInv, HandsOK
<1> HIDE DEF u
<1>3. LibraryOnly(u)
  BY <1>0, <1>2, SamePaths
<1>4. \A x \in Library : x \in Items /\ mirror[x] # NoRow
  BY <1>0, LibraryIsReached DEF OnlyLibrary, LibraryOnly, Agrees
<1>5. \A x \in Library : \A c \in ChainTo(x) : u[x].path = NamesOf(c)
  BY <1>2, <1>4 DEF PathsTrue
<1>6. \A x \in Library \cap Folders : u[x].size = Cardinality(Beneath(x))
  BY <1>2, <1>4 DEF SizesTrue
<1> QED
  BY <1>1, <1>3, <1>5, <1>6, LibraryNow, PathsNow, SizesNow

LEMMA OwnKnowledge ==
  ASSUME TypeInv, FaithInv, NEW s \in Syncers, SyncStep(s), calm'[s]
  PROVE  Knows(s)'
<1>0. SyncShape /\ DOMAIN calm = Syncers
  BY DEF TypeInv, FlagInv
<1>1. CASE Waits(s)
  BY <1>0, <1>1, WaitsStep DEF Knows
<1>2. CASE SetsOff(s)
  <2>1. sync'[s].at = "folders"
    BY <1>0, <1>2, SetsOffStep, NewHistory
  <2> QED
    BY <2>1 DEF Knows
<1>3. CASE ListFolders(s)
  <2>1. sync'[s].at = "upsert" /\ sync'[s].folders = [x \in Folders |-> drive[x]] /\ drive' = drive
    BY <1>0, <1>3, ListStep
  <2>2. ListingTrue(s)'
    BY <2>1 DEF ListingTrue
  <2> QED
    BY <2>1, <2>2 DEF Knows
<1>4. CASE UpsertFolders(s)
  <2>1. calm[s] /\ sync[s].at = "upsert" /\ sync'[s].at = "files"
    BY <1>0, <1>4, UpsertStep
  <2>2. ListingTrue(s)
    BY <2>1 DEF FaithInv, Knows
  <2>3. ListingTrue(s)'
    BY <1>0, <1>4, <2>2, UpsertStep DEF ListingTrue
  <2> QED
    BY <2>1, <2>3 DEF Knows
<1>5. CASE CommitRows(s)
  <2>1. calm[s] /\ sync[s].at = "files" /\ sync'[s].at = "paths"
    BY <1>0, <1>5, CommitStep, History
  <2>2. RowsTrue'
    BY <1>5, <2>1, KnowsRows DEF FaithInv, Knows
  <2> QED
    BY <2>1, <2>2 DEF Knows
<1>6. CASE MaterialisePaths(s)
  <2>1. calm[s] /\ sync[s].at = "paths" /\ sync'[s].at = "prune"
    BY <1>0, <1>6, PassesStep, History DEF MaterialisePaths
  <2>2. RowsTrue' /\ PathsTrue'
    BY <1>6, <2>1, KnowsPaths DEF FaithInv, Knows
  <2> QED
    BY <2>1, <2>2 DEF Knows
<1>7. CASE PruneOutsideRoot(s)
  <2>1. calm[s] /\ sync[s].at = "prune" /\ sync'[s].at = "sizes"
    BY <1>0, <1>7, PassesStep, History DEF PruneOutsideRoot
  <2>2. OnlyLibrary' /\ PathsTrue'
    BY <1>7, <2>1, KnowsLibrary DEF FaithInv, Knows
  <2> QED
    BY <2>1, <2>2 DEF Knows
<1>8. CASE MaterialiseSizes(s)
  <2>1. calm[s] /\ sync[s].at = "sizes" /\ sync'[s].at = "select"
    BY <1>0, <1>8, PassesStep, History DEF MaterialiseSizes
  <2>2. OnlyLibrary' /\ PathsTrue' /\ SizesTrue'
    BY <1>8, <2>1, KnowsSizes DEF FaithInv, Knows
  <2> QED
    BY <2>1, <2>2 DEF Knows
<1>9. CASE SelectTitles(s)
  <2>1. /\ calm[s] /\ sync[s].at = "select" /\ sync'[s].at = "embed"
        /\ UNCHANGED <<drive, mirror>>
    BY <1>0, <1>9, SelectStep
  <2>2. OnlyLibrary /\ PathsTrue /\ SizesTrue
    BY <2>1 DEF FaithInv, Knows
  <2> QED
    BY <2>1, <2>2, SameKnowledge DEF Knows
<1>10. CASE StoreVectors(s)
  <2>1. calm[s] /\ sync[s].at = "embed" /\ sync'[s].at = "select"
    BY <1>0, <1>10, StoreStep, History
  <2>2. OnlyLibrary' /\ PathsTrue' /\ SizesTrue'
    BY <1>10, <2>1, KnowsStored DEF FaithInv, Knows
  <2> QED
    BY <2>1, <2>2 DEF Knows
<1> QED
  BY <1>1, <1>2, <1>3, <1>4, <1>5, <1>6, <1>7, <1>8, <1>9, <1>10, StepKinds DEF Passes

LEMMA OthersCalm ==
  ASSUME TypeInv, NEW s \in Syncers, SyncStep(s), NEW o \in Syncers \ {s}, calm'[o]
  PROVE  calm[o] /\ mirror' = mirror
<1>0. SyncShape /\ DOMAIN calm = Syncers
  BY DEF TypeInv, FlagInv
<1>1. CASE Waits(s) \/ ListFolders(s) \/ UpsertFolders(s) \/ SelectTitles(s)
  BY <1>0, <1>1, WaitsStep, ListStep, UpsertStep, SelectStep
<1>2. CASE SetsOff(s)
  BY <1>0, <1>2, SetsOffStep, NewHistory
<1>3. CASE CommitRows(s) \/ StoreVectors(s)
  BY <1>0, <1>3, CommitStep, StoreStep, History
<1>4. CASE Passes(s)
  <2>1. \E u : Writes(s, u)
    BY <1>4 DEF Passes, MaterialisePaths, PruneOutsideRoot, MaterialiseSizes, Pass
  <2> QED
    BY <2>1, History
<1> QED
  BY <1>1, <1>2, <1>3, <1>4, StepKinds

LEMMA FaithStep == TypeInv /\ FaithInv /\ [MirrorNext]_mvars => FaithInv'
<1> SUFFICES ASSUME TypeInv, FaithInv, [MirrorNext]_mvars
             PROVE  FaithInv'
  OBVIOUS
<1>0. SyncShape
  BY DEF TypeInv, FlagInv
<1> SUFFICES ASSUME NEW s \in Syncers, calm'[s]
             PROVE  Knows(s)'
  BY DEF FaithInv
<1>1. CASE EditDrive
  <2>1. calm' = [o \in Syncers |-> FALSE]
    BY <1>1 DEF EditDrive
  <2>2. ~calm'[s]
    BY <2>1, Zenon
  <2> QED
    BY <2>2
<1>2. CASE UNCHANGED mvars
  BY <1>2, KnowsStill DEF mvars, FaithInv
<1>3. CASE KillServer
  <2>1. UNCHANGED <<drive, mirror, calm>> /\ (sync'[s] = sync[s] \/ sync'[s].at = "off")
    BY <1>3, KillStops
  <2>2. CASE sync'[s] = sync[s]
    BY <2>1, <2>2, KnowsStill DEF FaithInv
  <2>3. CASE sync'[s].at = "off"
    BY <2>3 DEF Knows
  <2> QED
    BY <2>1, <2>2, <2>3
<1>4. ASSUME NEW o \in Syncers, SyncStep(o)
      PROVE  Knows(s)'
  <2>1. CASE o = s
    BY <1>4, <2>1, OwnKnowledge
  <2>2. CASE o # s
    <3>1. calm[s] /\ mirror' = mirror
      BY <1>4, <2>2, OthersCalm
    <3>2. sync'[s] = sync[s]
      BY <1>0, <1>4, <2>2, OthersStay
    <3>3. drive' = drive
      BY <1>4, NewTable
    <3>4. Knows(s)
      BY <3>1 DEF FaithInv
    <3> QED
      BY <3>1, <3>2, <3>3, <3>4, KnowsStill
  <2> QED
    BY <2>1, <2>2
<1> QED
  BY <1>1, <1>2, <1>3, <1>4 DEF MirrorNext, SyncStep
-----------------------------------------------------------------------------
(* As long as no two syncs muddled, at most one is under way, and what it  *)
(* has not named anew yet it does not embed.                               *)
LEMMA FreshStill ==
  ASSUME Fresh, mirror' = mirror,
         \A o \in Syncers : sync'[o] = sync[o] \/ sync'[o].at \in {"off", "queued", "flag"}
  PROVE  Fresh'
<1>1. OneUnderway'
  BY DEF Fresh, OneUnderway, Underway
<1>2. VectorsFresh(mirror)'
  BY DEF Fresh, VectorsFresh
<1>3. PathsFresh(mirror) => PathsFresh(mirror)'
  BY DEF PathsFresh
<1>4. ASSUME NEW o \in Syncers
      PROVE  /\ sync'[o].at \in {"prune", "sizes", "select", "embed"} => PathsFresh(mirror)'
             /\ sync'[o].at = "embed" => TitlesFresh(o)'
  <2>1. CASE sync'[o] = sync[o]
    BY <1>3, <2>1 DEF Fresh, TitlesFresh
  <2>2. CASE sync'[o].at \in {"off", "queued", "flag"}
    BY <2>2
  <2> QED
    BY <2>1, <2>2
<1> QED
  BY <1>1, <1>2, <1>4 DEF Fresh

LEMMA FreshAlone ==
  ASSUME NEW s \in Syncers, \A o \in Syncers \ {s} : sync'[o] = sync[o] /\ ~Underway(o),
         NEW u, u = mirror', VectorsFresh(u),
         sync'[s].at \in {"prune", "sizes", "select", "embed"} => PathsFresh(u),
         sync'[s].at = "embed" =>
           \A x \in DOMAIN sync'[s].titles :
             u[x] # NoRow => LastIs(sync'[s].titles[x], u[x].name)
  PROVE  Fresh'
<1>1. \A o \in Syncers \ {s} : sync'[o].at \in {"off", "queued", "flag"}
  BY DEF Underway
<1>2. OneUnderway'
  BY <1>1 DEF OneUnderway, Underway
<1>3. VectorsFresh(mirror)'
  BY DEF VectorsFresh
<1>4. PathsFresh(u) => PathsFresh(mirror)'
  BY DEF PathsFresh
<1>5. sync'[s].at = "embed" => TitlesFresh(s)'
  BY DEF TitlesFresh
<1>6. \A o \in Syncers :
        /\ sync'[o].at \in {"prune", "sizes", "select", "embed"} => PathsFresh(mirror)'
        /\ sync'[o].at = "embed" => TitlesFresh(o)'
  BY <1>1, <1>4, <1>5
<1> QED
  BY <1>2, <1>3, <1>6 DEF Fresh

LEMMA FreshStep ==
  ASSUME TypeInv, Fresh, NEW s \in Syncers, SyncStep(s), ~muddled'
  PROVE  Fresh'
<1>0. /\ SyncShape /\ DOMAIN calm = Syncers /\ TableIs(mirror) /\ DriveOK
      /\ VectorsFresh(mirror)
      /\ \A o \in Syncers \ {s} : sync'[o] = sync[o]
  BY OthersStay DEF TypeInv, FlagInv, TableOK, Fresh
<1> DEFINE Named(u) ==
             /\ u = mirror' /\ VectorsFresh(u)
             /\ sync'[s].at \in {"prune", "sizes", "select", "embed"} => PathsFresh(u)
             /\ sync'[s].at = "embed" =>
                  \A x \in DOMAIN sync'[s].titles :
                    u[x] # NoRow => LastIs(sync'[s].titles[x], u[x].name)
<1>1. ASSUME NEW u, Named(u), Underway(s)
      PROVE  Fresh'
  <2>1. \A o \in Syncers \ {s} : ~Underway(o)
    BY <1>1 DEF Fresh, OneUnderway
  <2> QED
    BY <1>0, <1>1, <2>1, FreshAlone
<1>2. CASE Waits(s)
  BY <1>0, <1>2, WaitsStep, FreshStill
<1>3. CASE SetsOff(s)
  <2>1. /\ sync'[s].at \in {"folders", "select"} /\ mirror' = mirror
        /\ Begins(s, sync'[s].at = "folders")
    BY <1>0, <1>3, SetsOffStep
  <2>2. /\ \A o \in Syncers \ {s} : ~Busy(o)
        /\ sync'[s].at = "folders" \/ WithPaths(mirror) = mirror
    BY <1>0, <2>1, NewHistory
  <2>3. \A o \in Syncers \ {s} : ~Underway(o)
    BY <2>2 DEF Busy, Underway
  <2>4. sync'[s].at = "select" => PathsFresh(mirror)
    BY <1>0, <2>2, WithPathsTable
  <2> QED
    BY <1>0, <2>1, <2>3, <2>4, FreshAlone
<1>4. CASE ListFolders(s) \/ UpsertFolders(s)
  <2>1. /\ sync[s].at \in {"folders", "upsert"} /\ sync'[s].at \in {"upsert", "files"}
        /\ mirror' = mirror
    BY <1>0, <1>4, ListStep, UpsertStep
  <2> QED
    BY <1>0, <1>1, <2>1 DEF Underway
<1>5. CASE CommitRows(s)
  <2> DEFINE listing == [x \in Items |-> IF x \in Folders THEN sync[s].folders[x] ELSE drive[x]]
  <2>1. sync[s].at = "files" /\ sync'[s].at = "paths" /\ Writes(s, Replaced(mirror, listing))
    BY <1>0, <1>5, CommitStep
  <2>2. /\ sync[s].folders \in [Folders -> Entries \cup {NoRow}]
        /\ Grounded(sync[s].folders)
    BY <2>1 DEF TypeInv, HandsOK
  <2>3. Grounded(listing)
    BY <1>0, <2>2, ListingGrounded
  <2>4. listing \in [Items -> Entries \cup {NoRow}]
    BY <1>0, <2>2 DEF DriveOK
  <2> HIDE DEF listing
  <2> DEFINE u == Replaced(mirror, listing)
  <2>5. \A x \in Items :
          /\ u[x] = NoRow <=> listing[x] = NoRow
          /\ listing[x] # NoRow => /\ u[x].name = listing[x].name
                                   /\ LastIs(u[x].vec, listing[x].name)
    BY <1>0, <2>3, <2>4, ReplacedTable
  <2>6. u = mirror'
    BY <2>1, History
  <2> HIDE DEF u
  <2>7. VectorsFresh(u)
    BY <2>5 DEF VectorsFresh
  <2> QED
    BY <1>1, <2>1, <2>6, <2>7 DEF Underway
<1>6. CASE MaterialisePaths(s)
  <2> DEFINE u == WithPaths(mirror)
  <2>1. sync[s].at = "paths" /\ sync'[s].at = "prune" /\ u = mirror'
    BY <1>0, <1>6, PassesStep, History DEF MaterialisePaths
  <2>2. /\ PathsFresh(u)
        /\ \A x \in Items : /\ u[x] = NoRow <=> mirror[x] = NoRow
                            /\ mirror[x] # NoRow => Keeps(u, mirror, x) /\ u[x].vec = mirror[x].vec
    BY <1>0, WithPathsTable
  <2> HIDE DEF u
  <2>3. VectorsFresh(u)
    BY <1>0, <2>2 DEF VectorsFresh, Keeps
  <2> QED
    BY <1>1, <2>1, <2>2, <2>3 DEF Underway
<1>7. CASE PruneOutsideRoot(s)
  <2> DEFINE u == Pruned(mirror)
  <2>1. sync[s].at = "prune" /\ sync'[s].at = "sizes" /\ u = mirror'
    BY <1>0, <1>7, PassesStep, History DEF PruneOutsideRoot
  <2>2. \A x \in Items : u[x] = mirror[x] \/ u[x] = NoRow
    BY <1>0, PrunedTable
  <2>3. PathsFresh(mirror)
    BY <2>1 DEF Fresh
  <2> HIDE DEF u
  <2>4. VectorsFresh(u) /\ PathsFresh(u)
    BY <1>0, <2>2, <2>3 DEF VectorsFresh, PathsFresh
  <2> QED
    BY <1>1, <2>1, <2>4 DEF Underway
<1>8. CASE MaterialiseSizes(s)
  <2> DEFINE u == WithSizes(mirror)
  <2>1. sync[s].at = "sizes" /\ sync'[s].at = "select" /\ u = mirror'
    BY <1>0, <1>8, PassesStep, History DEF MaterialiseSizes
  <2>2. \A x \in Items :
          /\ u[x] = NoRow <=> mirror[x] = NoRow
          /\ mirror[x] # NoRow => /\ Keeps(u, mirror, x)
                                  /\ u[x].path = mirror[x].path /\ u[x].vec = mirror[x].vec
    BY <1>0, WithSizesTable
  <2>3. PathsFresh(mirror)
    BY <2>1 DEF Fresh
  <2> HIDE DEF u
  <2>4. VectorsFresh(u) /\ PathsFresh(u)
    BY <1>0, <2>2, <2>3 DEF VectorsFresh, PathsFresh, Keeps
  <2> QED
    BY <1>1, <2>1, <2>4 DEF Underway
<1>9. CASE SelectTitles(s)
  <2>1. /\ sync[s].at = "select" /\ sync'[s].at = "embed" /\ mirror' = mirror
        /\ sync'[s].titles = [x \in Pending(mirror) |-> mirror[x].path]
    BY <1>0, <1>9, SelectStep
  <2>2. PathsFresh(mirror)
    BY <2>1 DEF Fresh
  <2>3. \A x \in DOMAIN sync'[s].titles :
          mirror[x] # NoRow => LastIs(sync'[s].titles[x], mirror[x].name)
    BY <2>1, <2>2 DEF PathsFresh, Pending, Items
  <2> QED
    BY <1>0, <1>1, <2>1, <2>2, <2>3 DEF Underway
<1>10. CASE StoreVectors(s)
  <2> DEFINE u == Embedded(mirror, sync[s].titles)
  <2>1. sync[s].at = "embed" /\ sync'[s].at = "select" /\ u = mirror'
    BY <1>0, <1>10, StoreStep, History
  <2>2. \A x \in Items :
          /\ u[x] = NoRow <=> mirror[x] = NoRow
          /\ mirror[x] # NoRow =>
               /\ Keeps(u, mirror, x) /\ u[x].path = mirror[x].path
               /\ u[x].vec = IF x \in DOMAIN sync[s].titles THEN sync[s].titles[x]
                             ELSE mirror[x].vec
    BY <1>0, <2>1, EmbeddedTable DEF TypeInv, HandsOK
  <2>3. PathsFresh(mirror) /\ TitlesFresh(s)
    BY <2>1 DEF Fresh
  <2> HIDE DEF u
  <2>4. PathsFresh(u)
    BY <2>2, <2>3 DEF PathsFresh, Keeps
  <2>5. VectorsFresh(u)
    BY <1>0, <2>2, <2>3 DEF VectorsFresh, TitlesFresh, Keeps
  <2> QED
    BY <1>1, <2>1, <2>4, <2>5 DEF Underway
<1> QED
  BY <1>2, <1>3, <1>4, <1>5, <1>6, <1>7, <1>8, <1>9, <1>10, StepKinds DEF Passes

LEMMA MuddleStays ==
  ASSUME TypeInv, NEW s \in Syncers, SyncStep(s), ~muddled'
  PROVE  ~muddled
<1>0. SyncShape /\ DOMAIN calm = Syncers
  BY DEF TypeInv, FlagInv
<1>1. CASE SetsOff(s)
  BY <1>0, <1>1, SetsOffStep, NewHistory
<1>2. CASE Waits(s) \/ ListFolders(s) \/ UpsertFolders(s) \/ SelectTitles(s)
  BY <1>0, <1>2, WaitsStep, ListStep, UpsertStep, SelectStep
<1>3. CASE CommitRows(s) \/ StoreVectors(s)
  BY <1>0, <1>3, CommitStep, StoreStep
<1>4. CASE Passes(s)
  BY <1>0, <1>4, PassesStep DEF Passes, MaterialisePaths, PruneOutsideRoot, MaterialiseSizes
<1> QED
  BY <1>1, <1>2, <1>3, <1>4, StepKinds

LEMMA NameStep == TypeInv /\ NameInv /\ [MirrorNext]_mvars => NameInv'
<1> SUFFICES ASSUME TypeInv, NameInv, [MirrorNext]_mvars, ~muddled'
             PROVE  Fresh'
  BY DEF NameInv
<1>1. CASE EditDrive \/ UNCHANGED mvars
  <2>1. UNCHANGED <<mirror, sync, muddled>>
    BY <1>1 DEF EditDrive, mvars
  <2> QED
    BY <2>1, FreshStill DEF NameInv
<1>2. CASE KillServer
  <2>1. /\ UNCHANGED <<mirror, muddled>>
        /\ \A o \in Syncers : sync'[o] = sync[o] \/ sync'[o].at = "off"
    BY <1>2, KillStops DEF KillServer
  <2> QED
    BY <2>1, FreshStill DEF NameInv
<1>3. ASSUME NEW s \in Syncers, SyncStep(s)
      PROVE  Fresh'
  BY <1>3, MuddleStays, FreshStep DEF NameInv
<1> QED
  BY <1>1, <1>2, <1>3 DEF MirrorNext, SyncStep
-----------------------------------------------------------------------------
(* The flag is TRUE or FALSE; this is all that MirrorOK asks beyond the    *)
(* invariants above.                                                       *)
FlagIsBit == running \in BOOLEAN

LEMMA BitStep == FlagIsBit /\ [MirrorNext]_mvars => FlagIsBit'
<1> SUFFICES ASSUME FlagIsBit, [MirrorNext]_mvars
             PROVE  FlagIsBit'
  OBVIOUS
<1>1. ASSUME UNCHANGED running
      PROVE  FlagIsBit'
  BY <1>1 DEF FlagIsBit
<1>2. CASE EditDrive \/ UNCHANGED mvars
  BY <1>1, <1>2 DEF EditDrive, mvars
<1>3. CASE KillServer
  BY <1>3 DEF KillServer, FlagIsBit
<1>4. ASSUME NEW s \in Syncers, Ends(s)
      PROVE  FlagIsBit'
  BY <1>4 DEF Ends, FlagAfter, FlagIsBit
<1>5. ASSUME NEW s \in Syncers, SyncStep(s)
      PROVE  FlagIsBit'
  <2>1. CASE SetFlag(s)
    BY <2>1 DEF SetFlag, FlagIsBit
  <2>2. CASE EndSync(s) \/ NoText(s) \/ FailSync(s)
    BY <1>4, <2>2 DEF EndSync, NoText, FailSync
  <2>3. CASE DriveSyncStart(s) \/ TestFlag(s) \/ StartCommand(s) \/ ListFolders(s)
             \/ UpsertFolders(s) \/ CommitRows(s) \/ SelectTitles(s) \/ StoreVectors(s)
    BY <1>1, <2>3 DEF DriveSyncStart, TestFlag, StartCommand, ListFolders,
                      UpsertFolders, CommitRows, SelectTitles, StoreVectors
  <2>4. CASE MaterialisePaths(s) \/ PruneOutsideRoot(s) \/ MaterialiseSizes(s)
    BY <1>1, <2>4 DEF MaterialisePaths, PruneOutsideRoot, MaterialiseSizes, Pass
  <2> QED
    BY <1>5, <2>1, <2>2, <2>3, <2>4 DEF SyncStep
<1> QED
  BY <1>2, <1>3, <1>5 DEF MirrorNext, SyncStep

(* All of it is one inductive invariant. *)
MirrorInv == TypeInv /\ FaithInv /\ NameInv /\ FlagIsBit

LEMMA MirrorStarts == MirrorInit => MirrorInv
<1> SUFFICES ASSUME MirrorInit
             PROVE  MirrorInv
  OBVIOUS
<1>1. (\A s \in Syncers : sync[s].at = "off") /\ \A x \in Items : mirror[x] = NoRow
  BY OffNow DEF MirrorInit
<1>2. FaithInv
  BY <1>1 DEF FaithInv, Knows
<1>3. NameInv
  BY <1>1 DEF NameInv, Fresh, OneUnderway, Underway, VectorsFresh
<1>4. FlagIsBit
  BY DEF MirrorInit, FlagIsBit
<1> QED
  BY <1>2, <1>3, <1>4, TypeInit DEF MirrorInv

LEMMA MirrorHolds == MirrorSpec => []MirrorInv
<1>1. MirrorInv /\ [MirrorNext]_mvars => MirrorInv'
  BY TypeStep, FaithStep, NameStep, BitStep DEF MirrorInv
<1> QED
  BY <1>1, MirrorStarts, PTL DEF MirrorSpec

(* A row of drive_files is always a whole row: paths and vectors are lists *)
(* of names, folders have no vector and files no size of their own; and    *)
(* only the sync that holds the locks is between its upserts and its       *)
(* commit.                                                                 *)
THEOREM MirrorTyped == MirrorSpec => []MirrorOK
<1>1. MirrorInv => MirrorOK
  <2> SUFFICES ASSUME MirrorInv
               PROVE  MirrorOK
    OBVIOUS
  <2>1. running \in BOOLEAN
    BY DEF MirrorInv, FlagIsBit
  <2>2. /\ locked \in Syncers \cup {NoOne}
        /\ \A s \in Syncers : sync[s].at \in Stages /\ (sync[s].at = "files" <=> locked = s)
    BY DEF MirrorInv, TypeInv, FlagInv, SyncShape, IsSync, LockOfWriter
  <2>3. \A x \in Items : mirror[x] # NoRow =>
          /\ mirror[x] \in Rows
          /\ x \in Folders => mirror[x].vec = Null
          /\ x \in Files => mirror[x].size = Null
    BY DEF MirrorInv, TypeInv, TableOK, TableIs
  <2> QED
    BY <2>1, <2>2, <2>3 DEF MirrorOK
<1> QED
  BY <1>1, MirrorHolds, PTL

(* sync "replaces the mirror with what Drive currently holds" (mirror.py): *)
(* one that had Drive and the table to itself leaves exactly the items     *)
(* beneath the root, each with its name, its parent, its path and a        *)
(* folder's size, whatever syncs that were killed or overlapped left.      *)
THEOREM SyncIsFaithful == MirrorSpec => []SyncFaithful
<1>1. MirrorInv => SyncFaithful
  <2> SUFFICES ASSUME MirrorInv, NEW s \in Syncers, sync[s].at \in {"select", "embed"}, calm[s],
                      NEW x \in Items
               PROVE  IF x \notin Library THEN mirror[x] = NoRow
                      ELSE /\ mirror[x] # NoRow
                           /\ mirror[x].name = drive[x].name /\ mirror[x].parent = drive[x].parent
                           /\ \A c \in ChainTo(x) :
                                mirror[x].path = [i \in DOMAIN c |-> drive[c[i]].name]
                           /\ x \in Folders => mirror[x].size =
                                Cardinality({f \in Files :
                                  \E c \in ChainTo(f) : x \in {c[i] : i \in DOMAIN c}})
    BY DEF SyncFaithful
  <2>1. OnlyLibrary /\ PathsTrue /\ SizesTrue
    BY DEF MirrorInv, FaithInv, Knows
  <2>2. CASE x \notin Library
    BY <2>1, <2>2 DEF OnlyLibrary, LibraryOnly
  <2>3. CASE x \in Library
    <3>1. drive[x] # NoRow
      BY <2>3, LibraryIsReached DEF MirrorInv, TypeInv
    <3>2. Agrees(mirror, x)
      BY <2>1, <2>3 DEF OnlyLibrary, LibraryOnly
    <3>3. /\ mirror[x] # NoRow
          /\ mirror[x].name = drive[x].name /\ mirror[x].parent = drive[x].parent
      BY <3>1, <3>2 DEF Agrees
    <3>4. \A c \in ChainTo(x) : mirror[x].path = [i \in DOMAIN c |-> drive[c[i]].name]
      BY <2>1, <2>3 DEF PathsTrue, NamesOf
    <3>5. x \in Folders => mirror[x].size =
            Cardinality({f \in Files : \E c \in ChainTo(f) : x \in {c[i] : i \in DOMAIN c}})
      BY <2>1, <2>3 DEF SizesTrue, Beneath
    <3> QED
      BY <2>3, <3>3, <3>4, <3>5
  <2> QED
    BY <2>2, <2>3
<1> QED
  BY <1>1, MirrorHolds, PTL

(* "A vector that describes the old title is worse than none" (mirror.py): *)
(* as long as no two syncs overlap, and --embed is not used alone on rows  *)
(* whose paths a sync that died left behind, every vector was computed     *)
(* under the name that its row has now.                                    *)
THEOREM VectorsNamed == MirrorSpec => []VectorNamesFile
<1>1. MirrorInv => VectorNamesFile
  BY DEF MirrorInv, NameInv, Fresh, VectorsFresh, LastIs, VectorNamesFile, Items
<1> QED
  BY <1>1, MirrorHolds, PTL
=============================================================================
