------------------------------- MODULE Texts --------------------------------
(***************************************************************************)
(* The two pure computations between a book's text and an answer: its      *)
(* chunks (Chunking) and the ranking of rows for a query (RankFusion),     *)
(* each computed once from an input that Init picks.                       *)
(***************************************************************************)
EXTENDS Chunking, RankFusion

CONSTANTS
  Trails,      \* the heading trails of sections
  Shapes,      \* the bodies of sections, as sequences of "w" and "p"
  MaxSections, \* bound: sections of a document
  Queries,     \* the queries
  Nothing

(* Headings and bodies are what they are read as.  A query gives each row  *)
(* once in a ranking; a chunk is stored with its vector, so the distance   *)
(* ranks every chunk that the words can find.                              *)
ASSUME TextsAssumption ==
  /\ \A t \in Trails : t \in Seq(Range(t))
  /\ \A b \in Shapes : b \in Seq({"w", "p"})
  /\ MaxSections \in Nat
  /\ \A q \in Queries :
       /\ q \in [mode : {"hybrid", "lexical", "dense"}, over : {"chunks", "titles"},
                 dense : Seq(Nat), lexical : Seq(Nat),
                 lexical_weight : Nat \ {0}, k : Nat]
       /\ IsInjective(q.dense) /\ IsInjective(q.lexical)
       /\ q.over = "chunks" => Range(q.lexical) \subseteq Range(q.dense)

VARIABLES
  doc,         \* the sections of a document, or <<>>
  chunks,      \* what chunk_markdown made of it
  query,       \* a query, or Nothing
  hits         \* what the search returned for it

tvars == <<doc, chunks, query, hits>>

(* The places of words and markers, in reading order: the section and the *)
(* place within its body.                                                  *)
Earlier(x, y) == x[1] < y[1] \/ (x[1] = y[1] /\ x[2] < y[2])

MarkedPlaces(shapes) ==
  UNION { { <<s, i>> : i \in { k \in DOMAIN shapes[s] : shapes[s][k] = "p" } } :
            s \in DOMAIN shapes }

(* A body written out: words are known by their place, and the markers     *)
(* count the pages on from page 1, which opens every extracted text.       *)
PageOf(shapes, place) ==
  1 + Cardinality({ mark \in MarkedPlaces(shapes) : Earlier(mark, place) })

Body(shapes, s) ==
  (IF s = 1 THEN <<Page(1)>> ELSE <<>>) \o
  [i \in DOMAIN shapes[s] |->
     IF shapes[s][i] = "p" THEN Page(PageOf(shapes, <<s, i>>) + 1) ELSE Word(<<s, i>>)]

(* The splitter gives adjacent sections different trails. *)
Documents ==
  UNION { { [trails |-> t, shapes |-> b] :
              t \in { u \in [1..n -> Trails] : \A i \in 1..(n - 1) : u[i] # u[i + 1] },
              b \in [1..n -> Shapes] } : n \in 1..MaxSections }

Sections(d) ==
  [s \in DOMAIN d.trails |-> [trail |-> d.trails[s], body |-> Body(d.shapes, s)]]

Init ==
  /\ \/ doc \in Documents /\ query = Nothing
     \/ doc = Nothing /\ query \in Queries
  /\ chunks = Nothing
  /\ hits = Nothing

Chunk ==
  /\ doc # Nothing
  /\ chunks = Nothing
  /\ chunks' = ChunkMarkdown(Sections(doc))
  /\ UNCHANGED <<doc, query, hits>>

Rank ==
  /\ query # Nothing
  /\ hits = Nothing
  /\ hits' = Search(query)
  /\ UNCHANGED <<doc, chunks, query>>

Next == Chunk \/ Rank

TextSpec == Init /\ [][Next]_tvars

-----------------------------------------------------------------------------
(* Properties.                                                             *)

Chunked == chunks # Nothing

Words(body) == Only("word", body)

(* The words of a document's sections that are not junk. *)
Kept ==
  UNION { Words(Body(doc.shapes, s)) : s \in { t \in DOMAIN doc.trails : ~ IsJunk(doc.trails[t]) } }

(* What a chunk says that the chunk before it did not. *)
New(c) ==
  { w \in Words(chunks[c].content) : c = 1 \/ w \notin Words(chunks[c - 1].content) }

InReadingOrder(body) ==
  \A p, q \in DOMAIN body :
    p < q /\ body[p].type = "word" /\ body[q].type = "word" => Earlier(body[p].of, body[q].of)

(* Read one after another, less what each repeats of the one before, the   *)
(* chunks of a book are its text: every word once, in reading order, and   *)
(* nothing of its front and back matter.                                   *)
NothingLost ==
  Chunked =>
    /\ UNION { New(c) : c \in DOMAIN chunks } = Kept
    /\ \A c \in DOMAIN chunks : InReadingOrder(chunks[c].content)
    /\ \A c, d \in DOMAIN chunks : c < d =>
         \A u \in New(c), v \in New(d) : Earlier(u, v)

(* The pages a chunk is cited with hold every word that it adds, whatever  *)
(* was merged, skipped or dropped before it.                               *)
PagesHold ==
  Chunked => \A c \in DOMAIN chunks : \A w \in New(c) :
    PageOf(doc.shapes, w) \in chunks[c].page_start..chunks[c].page_end

(* A chunk is cited under the heading of each of its words, or under the   *)
(* one above it when small sections were merged; a section that is large   *)
(* enough keeps its own heading.                                           *)
TrailsTrue ==
  Chunked => \A c \in DOMAIN chunks : \A w \in Words(chunks[c].content) :
    LET trail == doc.trails[w[1]]
        small == Len(Body(doc.shapes, w[1])) < MinChunk
    IN  \/ chunks[c].trail = trail
        \/ small /\ Len(trail) > 1 /\ chunks[c].trail = Front(trail)

Ranked == hits # Nothing

(* No better ranking is lost: x before y in neither list, and y before x   *)
(* in one of them, puts y before x in the results.                         *)
Beats(leg, y, x) ==
  RankIn(leg, y) # 0 /\ (RankIn(leg, x) = 0 \/ RankIn(leg, y) < RankIn(leg, x))

FusionFair ==
  Ranked => \A i \in DOMAIN hits : \A y \in Candidates(query) :
    LET x == hits[i] IN
    (/\ \/ Beats(DensePool(query), y, x) \/ Beats(LexicalPool(query), y, x)
     /\ ~ Beats(DensePool(query), x, y) /\ ~ Beats(LexicalPool(query), x, y))
      => \E j \in 1..(i - 1) : hits[j] = y

(* A search returns as many rows as were asked for, or every row that      *)
(* either ranking's pool holds, and none twice.                            *)
PoolsFill ==
  Ranked =>
    LET found == Range(DensePool(query)) \cup Range(LexicalPool(query)) IN
    /\ IsInjective(hits)
    /\ Range(hits) \subseteq found
    /\ Len(hits) = Min({query.k, Cardinality(found)})
=============================================================================
