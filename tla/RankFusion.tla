----------------------------- MODULE RankFusion -----------------------------
(***************************************************************************)
(* db.search over chunks and db.search_drive_files over titles: two        *)
(* rankings of the same rows, dense by distance and lexical by score, and  *)
(* their reciprocal rank fusion.  A query gives both rankings as sequences *)
(* of rows, best first; a row that was never embedded is in no dense one,  *)
(* and rows are ordered by name.                                           *)
(***************************************************************************)
EXTENDS Integers, Sequences, SequencesExt, FiniteSets, FiniteSetsExt

CONSTANTS
  RrfK,     \* RRF_K
  Pool      \* HYBRID_CANDIDATES

ASSUME FusionAssumption == RrfK \in Nat \ {0} /\ Pool \in Nat \ {0}

Pooled(ranking, size) == SubSeq(ranking, 1, Min({size, Len(ranking)}))

(* The rank within the pool, 0 for a row that the leg did not return. *)
RankIn(pool, row) == SelectInSeq(pool, LAMBDA r : r = row)

(* Chunks in mode "dense" are read by distance alone, without a pool. *)
DensePool(q) ==
  CASE q.mode = "lexical" -> <<>>
    [] q.mode = "dense" /\ q.over = "chunks" -> q.dense
    [] OTHER -> Pooled(q.dense, Pool)

LexicalPool(q) == IF q.mode = "dense" THEN <<>> ELSE Pooled(q.lexical, Pool)

ShareRising(weight, rank) == IF rank = 0 THEN <<0, 1>> ELSE <<weight, RrfK - rank>>

(* weight / (RRF_K + rank), the weights in quarters, as a fraction. *)
Share(weight, rank) == IF rank = 0 THEN <<0, 1>> ELSE <<weight, RrfK + rank>>
Plus(x, y) == <<x[1] * y[2] + y[1] * x[2], x[2] * y[2]>>
Exceeds(x, y) == x[1] * y[2] > y[1] * x[2]

Score(q, row) ==
  Plus(Share(4, RankIn(DensePool(q), row)),
       Share(q.lexical_weight, RankIn(LexicalPool(q), row)))

(* Equal scores: chunks by distance, titles by name. *)
TieBreak(q, row) == IF q.over = "chunks" THEN RankIn(q.dense, row) ELSE row

Before(q, x, y) ==
  \/ Exceeds(Score(q, x), Score(q, y))
  \/ /\ ~ Exceeds(Score(q, y), Score(q, x))
     /\ TieBreak(q, x) < TieBreak(q, y)

InnerCandidates(q) == Range(DensePool(q)) \cap Range(LexicalPool(q))
Candidates(q) == Range(DensePool(q)) \cup Range(LexicalPool(q))

(* ORDER BY ... LIMIT k: each row stands after those that come before it. *)
Place(q, x) == 1 + Cardinality({y \in Candidates(q) : Before(q, y, x)})

Search(q) ==
  LET found == Candidates(q)
  IN  [i \in 1..Min({q.k, Cardinality(found)}) |-> CHOOSE x \in found : Place(q, x) = i]
=============================================================================
