-------------------------- MODULE ShelfRefinement --------------------------
(***************************************************************************)
(* The ingest queue seen as a Shelf: a row's status says where the book    *)
(* stands, its chunks say what search answers from.                        *)
(***************************************************************************)
EXTENDS IngestQueue

StandOf(i) ==
  CASE i >= nextId                                  -> "unused"
    [] i < nextId /\ ~Exists(i)                     -> "removed"
    [] Exists(i) /\ books[i].status \in Waiting     -> "queued"
    [] Exists(i) /\ books[i].status = "done"        -> "indexed"
    [] Exists(i) /\ books[i].status \in {"failed", "needs_ocr"} -> "rejected"

ShelfView == INSTANCE Shelf WITH
  Books <- Ids, Texts <- Docs, Nothing <- NoDoc,
  shelf <- [i \in Ids |-> StandOf(i)], answers <- chunks

(* Every stage fits its lease, no file is re-added with new bytes, and the *)
(* manifest update and output sync after the commit do not raise.          *)
SteadyInstallation ==
  /\ Slow = {}
  /\ Resettable = {}
  /\ "wrapup" \notin Flaky

(* Two workers, their crashes and failures, purges and re-uploads look     *)
(* from outside like books that are queued, indexed in one step or         *)
(* rejected, and removed for good (db.py's module docstring).  Claimed of  *)
(* steady installations.                                                   *)
QueueIsShelf == ShelfView!Spec
=============================================================================
