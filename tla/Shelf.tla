------------------------------- MODULE Shelf -------------------------------
(***************************************************************************)
(* What the library promises its readers, whoever indexes and however: a   *)
(* book that is queued is later indexed, all at once, or rejected; search  *)
(* answers from the indexed books and from no other; and a book that is    *)
(* taken off the shelf is gone for good.                                   *)
(***************************************************************************)
CONSTANTS
  Books,        \* ids: one is never issued twice
  Texts,        \* what a book's chunks can be cut from
  Nothing       \* no chunks

VARIABLES
  shelf,        \* by id: "unused", "queued", "indexed", "rejected", "removed"
  answers       \* by id: what search answers from

Init ==
  /\ shelf = [b \in Books |-> "unused"]
  /\ answers = [b \in Books |-> Nothing]

Move(b, from, to) ==
  /\ shelf[b] \in from
  /\ shelf' = [shelf EXCEPT ![b] = to]

Queue(b) ==
  /\ Move(b, {"unused"}, "queued")
  /\ UNCHANGED answers

Index(b) ==
  /\ Move(b, {"queued"}, "indexed")
  /\ \E text \in Texts : answers' = [answers EXCEPT ![b] = text]

Reject(b) ==
  /\ Move(b, {"queued"}, "rejected")
  /\ UNCHANGED answers

Remove(b) ==
  /\ Move(b, {"queued", "indexed", "rejected"}, "removed")
  /\ answers' = [answers EXCEPT ![b] = Nothing]

Next == \E b \in Books : Queue(b) \/ Index(b) \/ Reject(b) \/ Remove(b)

Spec == Init /\ [][Next]_<<shelf, answers>>
=============================================================================
