------------------------------ MODULE MCTexts -------------------------------
(* Texts for TLC: documents of three sections over two levels of headings, *)
(* and queries over four rows.                                             *)
EXTENDS Texts

CONSTANTS Top, SecA, SecB, Junk

MCTrails == {<<>>, <<Top>>, <<Top, SecA>>, <<Top, SecB>>, <<Top, Junk>>}

MCShapes == {<<"w">>, <<"p">>, <<"p", "w">>, <<"w", "p", "w">>,
             <<"w", "w", "p", "w", "w", "w", "p", "w">>}

Rows == 1..4

MCQueries ==
  { q \in [mode : {"hybrid", "lexical", "dense"}, over : {"chunks", "titles"},
           dense : SetToAllKPermutations(Rows), lexical : SetToAllKPermutations(Rows),
           lexical_weight : {1, 4}, k : {1, 2, 4}] :
      /\ q.over = "chunks" => Len(q.dense) = Cardinality(Rows)
      /\ q.mode = "dense" => q.lexical = <<>> }
=============================================================================
