---------------------------- MODULE MirrorSync -----------------------------
(***************************************************************************)
(* The mirror of Drive's metadata (drive/mirror.py, table drive_files):    *)
(* syncs started from the page, behind the running flag of web/api.py, and *)
(* from the command line, behind nothing.  A sync lists the folders and    *)
(* the files in two passes, replaces the rows in one commit, then computes *)
(* paths, prunes what is outside the library's root and sums the sizes in  *)
(* a commit each, and at last gives every title without a vector one.      *)
(*                                                                         *)
(* From its first upsert to its commit a sync holds row locks, on which    *)
(* any other writer of those rows waits.  A vector is known by the text it *)
(* was computed from, which is the row's path.  A file counts one byte.    *)
(***************************************************************************)
EXTENDS Naturals, Sequences, FiniteSets

CONSTANTS
  Syncers,    \* background tasks and commands
  Folders, Files,
  Root,       \* DRIVE_ROOT_FOLDER_ID
  Outside,    \* a parent that no listing returns
  Names,
  MaxEdits,   \* bound: changes in Drive
  MaxSyncs,   \* bound: syncs asked for
  NoRow, Null, NoOne

VARIABLES
  drive,      \* what Drive holds: by item its name and parent, or NoRow
  mirror,     \* drive_files
  locked,     \* the sync that holds the locks of its upserts
  running,    \* _sync_state["running"] of the server
  sync,       \* by syncer: its stage, listings and the titles it embeds
  edits,      \* how often Drive was changed
  begun,      \* how many syncs were begun
  calm,       \* history: Drive and the mirror were left to this sync alone
  muddled     \* history: two syncs muddled, or --embed found paths that a
              \* sync which died had not brought up to date

mvars == <<drive, mirror, locked, running, sync, edits, begun, calm, muddled>>

Items == Folders \cup Files
Stages == {"off", "queued", "flag", "folders", "upsert", "files", "paths",
           "prune", "sizes", "select", "embed"}

(* What Drive tells of an item, and a row of drive_files.                  *)
Paths == Seq(Names) \cup {Null}
Entries == [name : Names, parent : Folders \cup {Outside}]
Rows == [name : Names, parent : Folders \cup {Outside},
         path : Paths, vec : Paths, size : Nat \cup {Null}]

ASSUME MirrorAssumption ==
  /\ Root \in Folders
  /\ Outside \notin Items
  /\ Folders \cap Files = {}
  /\ IsFiniteSet(Items)
  /\ Names # {}
  /\ NoOne \notin Syncers
  /\ NoRow \notin Entries \cup Rows
  /\ Null \notin Seq(Names)

Row(e, path, vec, size) ==
  [name |-> e.name, parent |-> e.parent, path |-> path, vec |-> vec, size |-> size]

Off == [at |-> "off", web |-> FALSE, folders |-> Null, titles |-> Null]

MirrorOK ==
  /\ locked \in Syncers \cup {NoOne}
  /\ running \in BOOLEAN
  /\ \A s \in Syncers :
       /\ sync[s].at \in Stages
       /\ sync[s].at = "files" <=> locked = s
  /\ \A x \in Items : mirror[x] # NoRow =>
       /\ mirror[x] \in Rows
       /\ x \in Folders => mirror[x].vec = Null
       /\ x \in Files => mirror[x].size = Null

MirrorInit ==
  /\ drive = [x \in Items |-> [name |-> CHOOSE n \in Names : TRUE,
                              parent |-> IF x = Root THEN Outside ELSE Root]]
  /\ mirror = [x \in Items |-> NoRow]
  /\ locked = NoOne
  /\ running = FALSE
  /\ sync = [s \in Syncers |-> Off]
  /\ edits = 0
  /\ begun = 0
  /\ calm = [s \in Syncers |-> FALSE]
  /\ muddled = FALSE
-----------------------------------------------------------------------------
(* The statements of a sync, as functions of the table.                    *)

(* INSERT ... ON CONFLICT: path and size stay, a new name drops the vector.*)
UpsertedKeeping(old, e) ==                                       \* mutant
  IF old = NoRow THEN Row(e, Null, Null, Null)
  ELSE Row(e, old.path, old.vec, old.size)

Upserted(old, e) ==
  IF old = NoRow THEN Row(e, Null, Null, Null)
  ELSE Row(e, old.path, IF old.name = e.name THEN old.vec ELSE Null, old.size)

(* Upserts of a listing, and the DELETE of what it does not name.          *)
Replaced(table, listing) ==
  [x \in Items |-> IF listing[x] = NoRow THEN NoRow ELSE Upserted(table[x], listing[x])]

(* The recursive CTE of materialise_paths: rows whose parent is not in the *)
(* table first, then level by level.                                       *)
PathsOf(table) ==
  LET Present(x) == x \in Items /\ table[x] # NoRow
      level[k \in 0 .. Cardinality(Items)] ==
        IF k = 0
          THEN [x \in Items |-> IF Present(x) /\ ~Present(table[x].parent)
                                  THEN <<table[x].name>> ELSE Null]
          ELSE [x \in Items |->
                  IF level[k-1][x] = Null /\ Present(x) /\ level[k-1][table[x].parent] # Null
                    THEN Append(level[k-1][table[x].parent], table[x].name)
                    ELSE level[k-1][x]]
  IN level[Cardinality(Items)]

WithPaths(table) ==
  LET paths == PathsOf(table) IN
  [x \in Items |-> IF table[x] = NoRow \/ paths[x] = Null THEN table[x]
                   ELSE [table[x] EXCEPT !.path = paths[x]]]

Under(table, r) ==
  LET below[k \in 0 .. Cardinality(Items)] ==
        IF k = 0 THEN {x \in {r} : table[x] # NoRow}
        ELSE below[k-1] \cup {x \in Items : table[x] # NoRow /\ table[x].parent \in below[k-1]}
  IN below[Cardinality(Items)]

PrunedToListed(table) == table                                   \* mutant

Pruned(table) == [x \in Items |-> IF x \in Under(table, Root) THEN table[x] ELSE NoRow]

WithSizesOfAll(table) ==                                         \* mutant
  [x \in Items |-> IF table[x] = NoRow THEN NoRow
                   ELSE [table[x] EXCEPT !.size = Cardinality(Under(table, x) \cap Files)]]

WithSizes(table) ==
  [x \in Items |-> IF x \in Folders /\ table[x] # NoRow
                     THEN [table[x] EXCEPT !.size = Cardinality(Under(table, x) \cap Files)]
                     ELSE table[x]]

(* The titles without a vector, and the UPDATE that gives them theirs.     *)
Pending(table) == {x \in Files : table[x] # NoRow /\ table[x].vec = Null}

Embedded(table, titles) ==
  [x \in Items |-> IF x \in DOMAIN titles /\ table[x] # NoRow
                     THEN [table[x] EXCEPT !.vec = titles[x]] ELSE table[x]]
-----------------------------------------------------------------------------
Busy(s) == sync[s].at \notin {"off", "queued"}
Goto(s, at) == sync' = [sync EXCEPT ![s].at = at]

(* A sync that begins starts its own history.                              *)
Begins(s, whole) ==
  /\ calm' = [calm EXCEPT ![s] = whole]
  /\ muddled' = (muddled \/ (\E o \in Syncers \ {s} : Busy(o))
                         \/ (~whole /\ WithPaths(mirror) # mirror))

(* What this sync writes, no other one can count on any more.              *)
Writes(s, table) ==
  /\ mirror' = table
  /\ calm' = [o \in Syncers |-> calm[o] /\ (o = s \/ table = mirror)]

(* Rows of folders wait for the locks of the sync that upserted them.      *)
Admitted(table) ==
  locked = NoOne \/ \A x \in Folders : table[x] = mirror[x]

(* POST /api/drive/sync tests the flag and schedules the task.             *)
DriveSyncStart(s) ==
  /\ sync[s].at = "off"
  /\ ~running
  /\ begun < MaxSyncs
  /\ begun' = begun + 1
  /\ sync' = [sync EXCEPT ![s] = [Off EXCEPT !.at = "queued", !.web = TRUE]]
  /\ UNCHANGED <<drive, mirror, locked, running, edits, calm, muddled>>

(* _run_sync tests it again, and sets it a moment later.                   *)
TestFlag(s) ==
  /\ sync[s].at = "queued"
  /\ Goto(s, IF running THEN "off" ELSE "flag")
  /\ UNCHANGED <<drive, mirror, locked, running, edits, begun, calm, muddled>>

SetFlag(s) ==
  /\ sync[s].at = "flag"
  /\ running' = TRUE
  /\ Begins(s, TRUE)
  /\ Goto(s, "folders")
  /\ UNCHANGED <<drive, mirror, locked, edits, begun>>

(* cli/drive_sync.py: --all, or --embed alone.                             *)
StartCommand(s) ==
  /\ sync[s].at = "off"
  /\ begun < MaxSyncs
  /\ begun' = begun + 1
  /\ \E at \in {"folders", "select"} :
       /\ Begins(s, at = "folders")
       /\ sync' = [sync EXCEPT ![s] = [Off EXCEPT !.at = at]]
  /\ UNCHANGED <<drive, mirror, locked, running, edits>>

ListFolders(s) ==
  /\ sync[s].at = "folders"
  /\ sync' = [sync EXCEPT ![s].at = "upsert",
                          ![s].folders = [x \in Folders |-> drive[x]]]
  /\ UNCHANGED <<drive, mirror, locked, running, edits, begun, calm, muddled>>

UpsertFolders(s) ==
  /\ sync[s].at = "upsert"
  /\ locked = NoOne
  /\ locked' = s
  /\ Goto(s, "files")
  /\ UNCHANGED <<drive, mirror, running, edits, begun, calm, muddled>>

(* The listing of the files, their upsert, the delete and the commit.      *)
CommitRows(s) ==
  /\ sync[s].at = "files"
  /\ Writes(s, Replaced(mirror, [x \in Items |->
                  IF x \in Folders THEN sync[s].folders[x] ELSE drive[x]]))
  /\ locked' = NoOne
  /\ sync' = [sync EXCEPT ![s].at = "paths", ![s].folders = Null]
  /\ UNCHANGED <<drive, running, edits, begun, muddled>>

Pass(s, from, to, table) ==
  /\ sync[s].at = from
  /\ Admitted(table)
  /\ Writes(s, table)
  /\ Goto(s, to)
  /\ UNCHANGED <<drive, locked, running, edits, begun, muddled>>

MaterialisePaths(s) == Pass(s, "paths", "prune", WithPaths(mirror))
PruneOutsideRoot(s) == Pass(s, "prune", "sizes", Pruned(mirror))
MaterialiseSizes(s) == Pass(s, "sizes", "select", WithSizes(mirror))

(* One round of embed_titles.                                              *)
SelectTitles(s) ==
  /\ sync[s].at = "select"
  /\ Pending(mirror) # {}
  /\ sync' = [sync EXCEPT ![s].at = "embed",
                ![s].titles = [x \in Pending(mirror) |-> mirror[x].path]]
  /\ UNCHANGED <<drive, mirror, locked, running, edits, begun, calm, muddled>>

StoreVectors(s) ==
  /\ sync[s].at = "embed"
  /\ \A x \in DOMAIN sync[s].titles : sync[s].titles[x] # Null
  /\ Writes(s, Embedded(mirror, sync[s].titles))
  /\ sync' = [sync EXCEPT ![s].at = "select", ![s].titles = Null]
  /\ UNCHANGED <<drive, locked, running, edits, begun, muddled>>

(* The end, by whatever way: the locks go with the transaction, and        *)
(* `finally` clears the flag, also under a sync that overlaps.             *)
FlagLeft(s) == running                                           \* mutant
FlagAfter(s) == IF sync[s].web THEN FALSE ELSE running

Ends(s) ==
  /\ running' = FlagAfter(s)
  /\ locked' = IF locked = s THEN NoOne ELSE locked
  /\ sync' = [sync EXCEPT ![s] = Off]
  /\ UNCHANGED <<drive, mirror, edits, begun, calm, muddled>>

EndSync(s) == sync[s].at = "select" /\ Pending(mirror) = {} /\ Ends(s)

(* A title without a text, of a row that another sync has just committed,  *)
(* makes the call raise.                                                   *)
NoText(s) ==
  sync[s].at = "embed" /\ (\E x \in DOMAIN sync[s].titles : sync[s].titles[x] = Null) /\ Ends(s)

(* Drive, Voyage, the database or the credential fails.                    *)
FailSync(s) == sync[s].at \notin {"off", "queued", "flag"} /\ Ends(s)

(* The server is killed: its tasks and its flag are gone.                  *)
KillServer ==
  /\ \E s \in Syncers : sync[s].web
  /\ running' = FALSE
  /\ locked' = IF locked # NoOne /\ sync[locked].web THEN NoOne ELSE locked
  /\ sync' = [s \in Syncers |-> IF sync[s].web THEN Off ELSE sync[s]]
  /\ UNCHANGED <<drive, mirror, edits, begun, calm, muddled>>

(* Somebody renames or moves an item in Drive, or takes it away.           *)
EditDrive ==
  /\ edits < MaxEdits
  /\ edits' = edits + 1
  /\ \E x \in Items \ {Root} :
       \/ \E n \in Names, p \in Folders \cup {Outside} :
            p \notin Under(drive, x) /\ drive' = [drive EXCEPT ![x] = [name |-> n, parent |-> p]]
       \/ x \in Files /\ drive' = [drive EXCEPT ![x] = NoRow]
  /\ calm' = [s \in Syncers |-> FALSE]
  /\ UNCHANGED <<mirror, locked, running, sync, begun, muddled>>

MirrorNext ==
  \/ EditDrive \/ KillServer
  \/ \E s \in Syncers :
       \/ DriveSyncStart(s) \/ TestFlag(s) \/ SetFlag(s) \/ StartCommand(s)
       \/ ListFolders(s) \/ UpsertFolders(s) \/ CommitRows(s)
       \/ MaterialisePaths(s) \/ PruneOutsideRoot(s) \/ MaterialiseSizes(s)
       \/ SelectTitles(s) \/ StoreVectors(s) \/ EndSync(s) \/ NoText(s) \/ FailSync(s)

MirrorSpec == MirrorInit /\ [][MirrorNext]_mvars
-----------------------------------------------------------------------------
(* What a sync should have left: the items under the root, each with its   *)
(* names from the root down, and the files beneath each folder.            *)
Chains == UNION {[1 .. n -> Items] : n \in 1 .. Cardinality(Items)}

ChainTo(x) ==
  {c \in Chains : /\ c[1] = Root /\ c[Len(c)] = x
                  /\ \A i \in 2 .. Len(c) : drive[c[i]] # NoRow /\ drive[c[i]].parent = c[i-1]}

Library == {x \in Items : ChainTo(x) # {}}

(* sync "replaces the mirror with what Drive currently holds": one that    *)
(* had Drive and the table to itself leaves the library's tree, paths and  *)
(* sizes, whatever killed or overlapping syncs left before it.             *)
SyncFaithful ==
  \A s \in Syncers : sync[s].at \in {"select", "embed"} /\ calm[s] =>
    \A x \in Items :
      IF x \notin Library THEN mirror[x] = NoRow
      ELSE /\ mirror[x] # NoRow
           /\ mirror[x].name = drive[x].name /\ mirror[x].parent = drive[x].parent
           /\ \A c \in ChainTo(x) : mirror[x].path = [i \in DOMAIN c |-> drive[c[i]].name]
           /\ x \in Folders => mirror[x].size =
                Cardinality({f \in Files : \E c \in ChainTo(f) : x \in {c[i] : i \in DOMAIN c}})

(* mirror.py: a vector that "describes the old title" is worse than none.  *)
(* A title's vector was computed under the name the row has, as long as no *)
(* two syncs overlap and --embed is not used after a sync that died        *)
(* between its rows and its paths.                                         *)
VectorNamesFile ==
  ~muddled => \A f \in Files :
    mirror[f] # NoRow /\ mirror[f].vec # Null => mirror[f].vec[Len(mirror[f].vec)] = mirror[f].name

(* "finally clears it, so a failure does not wedge the button for ever":   *)
(* the flag is never up without a sync of this server under way, though    *)
(* two that got past it clear it for each other.                           *)
FlagHonest == running => \E s \in Syncers : sync[s].web /\ Busy(s)
=============================================================================
