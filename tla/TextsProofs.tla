----------------------------- MODULE TextsProofs -----------------------------
(***************************************************************************)
(* Proofs about Texts.  First the ranking: the fused score follows both    *)
(* rankings, the order by score is strict, and so every place of the       *)
(* results is taken by one row.  Then the chunks, along the stages of      *)
(* chunk_markdown: what merging leaves of a document (Merged), what the    *)
(* walk shows of that (WalkHolds), the page it has reached (LastIs), and   *)
(* what it stores (From).                                                  *)
(***************************************************************************)
EXTENDS Texts, FiniteSetTheorems, DataInduction

-----------------------------------------------------------------------------
(* Least and largest numbers.                                              *)

(* Of a set of numbers that is not empty, Min is the least.                *)
LEMMA MinOf ==
  ASSUME NEW S \in SUBSET Nat, S # {}
  PROVE  Min(S) \in S /\ \A y \in S : Min(S) <= y
<1>1. \E x \in S : \A y \in S : x <= y
  BY LeastNumber
<1> QED
  BY <1>1 DEF Min

(* Of a set of numbers that has a bound and is not empty, Max is the       *)
(* largest.                                                                *)
LEMMA MaxOf ==
  ASSUME NEW S \in SUBSET Nat, S # {}, NEW n \in Nat, \A y \in S : y <= n
  PROVE  Max(S) \in S /\ \A y \in S : y <= Max(S)
<1> DEFINE T == {n - y : y \in S}
<1>1. T \in SUBSET Nat /\ T # {}
  <2>1. \A y \in S : n - y \in Nat
    OBVIOUS
  <2> QED
    BY <2>1
<1>2. PICK t \in T : \A u \in T : t <= u
  <2> HIDE DEF T
  <2> QED
    BY <1>1, LeastNumber
<1>3. PICK x \in S : t = n - x
  OBVIOUS
<1>4. \A y \in S : x >= y
  <2> TAKE y \in S
  <2>1. n - y \in T
    OBVIOUS
  <2>2. n - x <= n - y
    BY <1>2, <1>3, <2>1
  <2> QED
    BY <2>2
<1>5. Max(S) \in S /\ \A y \in S : Max(S) >= y
  <2> HIDE DEF T
  <2> QED
    BY <1>4 DEF Max
<1> QED
  BY <1>5

-----------------------------------------------------------------------------
(* Rankings.                                                               *)

(* A list of rows, none twice.                                             *)
Ranking(s) == s \in Seq(Nat) /\ IsInjective(s)

(* A row's rank is where it stands, and 0 if it is not in the list.        *)
LEMMA RankOfRow ==
  ASSUME NEW pool, Ranking(pool), NEW row
  PROVE  /\ RankIn(pool, row) \in 0..Len(pool)
         /\ RankIn(pool, row) = 0 <=> row \notin Range(pool)
         /\ RankIn(pool, row) # 0 => pool[RankIn(pool, row)] = row
<1> DEFINE I == {i \in 1..Len(pool) : pool[i] = row}
<1>1. RankIn(pool, row) = IF I # {} THEN Min(I) ELSE 0
  BY DEF RankIn, SelectInSeq
<1>2. I \in SUBSET Nat /\ (I # {} => Min(I) \in I)
  <2>1. I \in SUBSET Nat
    OBVIOUS
  <2> HIDE DEF I
  <2> QED
    BY <2>1, MinOf
<1>3. row \in Range(pool) <=> I # {}
  BY DEF Range, Ranking
<1>4. Len(pool) \in Nat
  BY DEF Ranking
<1> QED
  BY <1>1, <1>2, <1>3, <1>4

(* The top of a ranking is a ranking of some of its rows.                  *)
LEMMA PooledRanking ==
  ASSUME NEW s, Ranking(s), NEW n \in Nat
  PROVE  /\ Ranking(Pooled(s, n))
         /\ Range(Pooled(s, n)) \subseteq Range(s)
<1> DEFINE m == Min({n, Len(s)})
<1>1. m \in 0..Len(s)
  <2>1. {n, Len(s)} \in SUBSET Nat /\ {n, Len(s)} # {}
    BY DEF Ranking
  <2>2. m \in {n, Len(s)} /\ m <= Len(s)
    BY <2>1, MinOf
  <2> QED
    BY <2>1, <2>2
<1>2. Pooled(s, n) = SubSeq(s, 1, m)
  BY DEF Pooled
<1> HIDE DEF m
<1>3. /\ SubSeq(s, 1, m) \in Seq(Nat)
      /\ DOMAIN SubSeq(s, 1, m) = 1..m
      /\ \A i \in 1..m : i \in DOMAIN s /\ SubSeq(s, 1, m)[i] = s[i]
  BY <1>1 DEF Ranking
<1> QED
  BY <1>2, <1>3 DEF Ranking, IsInjective, Range

(* A ranking has finitely many rows, and they are numbers.                 *)
LEMMA FiniteRange ==
  ASSUME NEW s, Ranking(s)
  PROVE  IsFiniteSet(Range(s)) /\ Range(s) \subseteq Nat
<1>1. s \in Surjection(1..Len(s), Range(s))
  BY DEF Ranking, Surjection, Range
<1>2. IsFiniteSet(1..Len(s))
  BY FS_Interval DEF Ranking
<1>3. IsFiniteSet(Range(s))
  BY <1>1, <1>2, FS_Surjection
<1> QED
  BY <1>3 DEF Ranking, Range

(* Products keep the order, and a positive factor can be cancelled.        *)
LEMMA Products ==
  ASSUME NEW a \in Nat, NEW b \in Nat, NEW c \in Nat \ {0}
  PROVE  /\ a * c \in Nat
         /\ a <= b <=> a * c <= b * c
         /\ a < b <=> a * c < b * c
<1>1. a < b => a * c < b * c
  <2> SUFFICES ASSUME a < b PROVE a * c < b * c
    OBVIOUS
  <2>1. PICK d \in Nat \ {0} : b = a + d
    <3>1. b - a \in Nat \ {0} /\ b = a + (b - a)
      OBVIOUS
    <3> QED
      BY <3>1
  <2>2. b * c = a * c + d * c
    BY <2>1
  <2>3. d * c \in Nat \ {0}
    OBVIOUS
  <2> QED
    BY <2>2, <2>3
<1>2. b < a => b * c < a * c
  <2> SUFFICES ASSUME b < a PROVE b * c < a * c
    OBVIOUS
  <2>1. PICK d \in Nat \ {0} : a = b + d
    <3>1. a - b \in Nat \ {0} /\ a = b + (a - b)
      OBVIOUS
    <3> QED
      BY <3>1
  <2>2. a * c = b * c + d * c
    BY <2>1
  <2>3. d * c \in Nat \ {0}
    OBVIOUS
  <2> QED
    BY <2>2, <2>3
<1>3. a * c \in Nat /\ b * c \in Nat
  OBVIOUS
<1> QED
  BY <1>1, <1>2, <1>3

(* Fractions, by their numerator and denominator.                          *)
Fraction == Nat \X (Nat \ {0})

(* Comparing fractions crosswise, as Exceeds does, orders them.            *)
LEMMA ExceedsOrder ==
  ASSUME NEW x \in Fraction, NEW y \in Fraction, NEW z \in Fraction
  PROVE  /\ ~ (Exceeds(x, y) /\ Exceeds(y, x))
         /\ ~ Exceeds(y, x) /\ ~ Exceeds(z, y) => ~ Exceeds(z, x)
         /\ Exceeds(x, y) /\ ~ Exceeds(z, y) => Exceeds(x, z)
         /\ ~ Exceeds(y, x) /\ Exceeds(y, z) => Exceeds(x, z)
<1> DEFINE a == x[1]  b == x[2]  c == y[1]  d == y[2]  e == z[1]  f == z[2]
<1>1. /\ a \in Nat /\ b \in Nat \ {0} /\ c \in Nat /\ d \in Nat \ {0}
      /\ e \in Nat /\ f \in Nat \ {0}
  BY DEF Fraction
<1>2. /\ Exceeds(x, y) <=> a * d > c * b
      /\ Exceeds(y, x) <=> c * b > a * d
      /\ Exceeds(y, z) <=> c * f > e * d
      /\ Exceeds(z, y) <=> e * d > c * f
      /\ Exceeds(x, z) <=> a * f > e * b
      /\ Exceeds(z, x) <=> e * b > a * f
  BY DEF Exceeds
<1> HIDE DEF a, b, c, d, e, f
<1>3. /\ a * d \in Nat /\ c * b \in Nat /\ c * f \in Nat /\ e * d \in Nat
      /\ a * f \in Nat /\ e * b \in Nat
  BY <1>1, Products
<1>4. /\ (a * d) * f = (a * f) * d
      /\ (c * b) * f = (c * f) * b
      /\ (e * d) * b = (e * b) * d
  BY <1>1
<1>5. /\ c * b <= a * d <=> (c * b) * f <= (a * d) * f
      /\ c * b < a * d <=> (c * b) * f < (a * d) * f
      /\ e * d <= c * f <=> (e * d) * b <= (c * f) * b
      /\ e * d < c * f <=> (e * d) * b < (c * f) * b
      /\ e * b <= a * f <=> (e * b) * d <= (a * f) * d
      /\ e * b < a * f <=> (e * b) * d < (a * f) * d
  BY <1>1, <1>3, Products
<1> DEFINE p == (c * b) * f  q == (a * d) * f  r == (e * d) * b
<1>6. p \in Nat /\ q \in Nat /\ r \in Nat
  BY <1>1, <1>3, Products
<1>7. /\ c * b <= a * d <=> p <= q
      /\ c * b < a * d <=> p < q
      /\ e * d <= c * f <=> r <= p
      /\ e * d < c * f <=> r < p
      /\ e * b <= a * f <=> r <= q
      /\ e * b < a * f <=> r < q
  BY <1>4, <1>5
<1> DEFINE ad == a * d  cb == c * b  cf == c * f  ed == e * d  af == a * f  eb == e * b
<1> HIDE DEF p, q, r
<1> HIDE DEF ad, cb, cf, ed, af, eb
<1>8. /\ ad \in Nat /\ cb \in Nat /\ cf \in Nat /\ ed \in Nat /\ af \in Nat /\ eb \in Nat
      /\ cb <= ad <=> p <= q
      /\ cb < ad <=> p < q
      /\ ed <= cf <=> r <= p
      /\ ed < cf <=> r < p
      /\ eb <= af <=> r <= q
      /\ eb < af <=> r < q
      /\ Exceeds(x, y) <=> ad > cb
      /\ Exceeds(y, x) <=> cb > ad
      /\ Exceeds(y, z) <=> cf > ed
      /\ Exceeds(z, y) <=> ed > cf
      /\ Exceeds(x, z) <=> af > eb
      /\ Exceeds(z, x) <=> eb > af
  BY <1>2, <1>3, <1>7 DEF ad, cb, cf, ed, af, eb
<1> QED
  BY <1>6, <1>8

(* A sum of fractions grows when one summand does and the other does not   *)
(* shrink.                                                                 *)
LEMMA PlusGrows ==
  ASSUME NEW x \in Fraction, NEW y \in Fraction, NEW u \in Fraction, NEW v \in Fraction
  PROVE  /\ Plus(x, u) \in Fraction
         /\ Exceeds(x, y) /\ ~ Exceeds(v, u) => Exceeds(Plus(x, u), Plus(y, v))
         /\ ~ Exceeds(y, x) /\ Exceeds(u, v) => Exceeds(Plus(x, u), Plus(y, v))
<1> DEFINE a == x[1]  b == x[2]  c == y[1]  d == y[2]
           e == u[1]  f == u[2]  g == v[1]  h == v[2]
<1>1. /\ a \in Nat /\ b \in Nat \ {0} /\ c \in Nat /\ d \in Nat \ {0}
      /\ e \in Nat /\ f \in Nat \ {0} /\ g \in Nat /\ h \in Nat \ {0}
  BY DEF Fraction
<1>2. /\ Exceeds(x, y) <=> a * d > c * b
      /\ Exceeds(y, x) <=> c * b > a * d
      /\ Exceeds(u, v) <=> e * h > g * f
      /\ Exceeds(v, u) <=> g * f > e * h
      /\ Plus(x, u) = <<a * f + e * b, b * f>>
      /\ Exceeds(Plus(x, u), Plus(y, v)) <=>
           (a * f + e * b) * (d * h) > (c * h + g * d) * (b * f)
  BY DEF Exceeds, Plus
<1> HIDE DEF a, b, c, d, e, f, g, h
<1>3. /\ a * d \in Nat /\ c * b \in Nat /\ e * h \in Nat /\ g * f \in Nat
      /\ f * h \in Nat \ {0} /\ b * d \in Nat \ {0} /\ b * f \in Nat \ {0}
      /\ a * f + e * b \in Nat
  BY <1>1
<1>4. /\ (a * f + e * b) * (d * h) = (a * d) * (f * h) + (e * h) * (b * d)
      /\ (c * h + g * d) * (b * f) = (c * b) * (f * h) + (g * f) * (b * d)
  BY <1>1
<1>5. /\ (a * d) * (f * h) \in Nat /\ (c * b) * (f * h) \in Nat
      /\ (e * h) * (b * d) \in Nat /\ (g * f) * (b * d) \in Nat
      /\ c * b <= a * d <=> (c * b) * (f * h) <= (a * d) * (f * h)
      /\ c * b < a * d <=> (c * b) * (f * h) < (a * d) * (f * h)
      /\ g * f <= e * h <=> (g * f) * (b * d) <= (e * h) * (b * d)
      /\ g * f < e * h <=> (g * f) * (b * d) < (e * h) * (b * d)
  BY <1>3, Products
<1> DEFINE p == (a * d) * (f * h)  q == (c * b) * (f * h)
           r == (e * h) * (b * d)  s == (g * f) * (b * d)
           ad == a * d  cb == c * b  eh == e * h  gf == g * f
<1>6. /\ p \in Nat /\ q \in Nat /\ r \in Nat /\ s \in Nat
      /\ ad \in Nat /\ cb \in Nat /\ eh \in Nat /\ gf \in Nat
      /\ cb <= ad <=> q <= p
      /\ cb < ad <=> q < p
      /\ gf <= eh <=> s <= r
      /\ gf < eh <=> s < r
      /\ Exceeds(x, y) <=> ad > cb
      /\ Exceeds(y, x) <=> cb > ad
      /\ Exceeds(u, v) <=> eh > gf
      /\ Exceeds(v, u) <=> gf > eh
      /\ Exceeds(Plus(x, u), Plus(y, v)) <=> p + r > q + s
  BY <1>2, <1>3, <1>4, <1>5
<1>7. Plus(x, u) \in Fraction
  BY <1>2, <1>3 DEF Fraction
<1> HIDE DEF p, q, r, s, ad, cb, eh, gf
<1> QED
  BY <1>6, <1>7

-----------------------------------------------------------------------------
(* Scores.                                                                 *)

(* What a query carries, and its two pools, are rankings; a pool has no    *)
(* row that its list has not.                                              *)
LEMMA QueryRankings ==
  ASSUME NEW q \in Queries
  PROVE  /\ Ranking(q.dense) /\ Ranking(DensePool(q)) /\ Ranking(LexicalPool(q))
         /\ Range(DensePool(q)) \subseteq Range(q.dense)
         /\ Range(LexicalPool(q)) \subseteq Range(q.lexical)
         /\ q.over = "chunks" => Range(q.lexical) \subseteq Range(q.dense)
         /\ q.over \in {"chunks", "titles"}
         /\ q.lexical_weight \in Nat \ {0} /\ q.k \in Nat
<1>1. /\ q \in [mode : {"hybrid", "lexical", "dense"}, over : {"chunks", "titles"},
               dense : Seq(Nat), lexical : Seq(Nat),
               lexical_weight : Nat \ {0}, k : Nat]
      /\ IsInjective(q.dense) /\ IsInjective(q.lexical)
      /\ q.over = "chunks" => Range(q.lexical) \subseteq Range(q.dense)
  BY TextsAssumption
<1>2. Ranking(q.dense) /\ Ranking(q.lexical)
  BY <1>1 DEF Ranking
<1>3. Ranking(<<>>) /\ Range(<<>>) = {}
  BY DEF Ranking, IsInjective, Range
<1>4. Pool \in Nat
  BY FusionAssumption
<1>5. /\ Ranking(Pooled(q.dense, Pool)) /\ Ranking(Pooled(q.lexical, Pool))
      /\ Range(Pooled(q.dense, Pool)) \subseteq Range(q.dense)
      /\ Range(Pooled(q.lexical, Pool)) \subseteq Range(q.lexical)
  BY <1>2, <1>4, PooledRanking
<1>6. DensePool(q) \in {<<>>, q.dense, Pooled(q.dense, Pool)}
  BY DEF DensePool
<1>7. LexicalPool(q) \in {<<>>, Pooled(q.lexical, Pool)}
  BY DEF LexicalPool
<1>8. Ranking(DensePool(q)) /\ Range(DensePool(q)) \subseteq Range(q.dense)
  BY <1>2, <1>3, <1>5, <1>6
<1>9. Ranking(LexicalPool(q)) /\ Range(LexicalPool(q)) \subseteq Range(q.lexical)
  BY <1>3, <1>5, <1>7
<1> QED
  BY <1>1, <1>2, <1>8, <1>9

(* A list gives a row that is better placed a larger share of the score,   *)
(* and one that is not worse no smaller share (_search_fused: 1 / (k +     *)
(* rank), nothing for a row that is absent).                               *)
LEMMA ShareOfLeg ==
  ASSUME NEW leg, Ranking(leg), NEW w \in Nat \ {0}, NEW x, NEW y
  PROVE  /\ Share(w, RankIn(leg, x)) \in Fraction
         /\ Beats(leg, y, x) =>
              Exceeds(Share(w, RankIn(leg, y)), Share(w, RankIn(leg, x)))
         /\ ~ Beats(leg, x, y) =>
              ~ Exceeds(Share(w, RankIn(leg, x)), Share(w, RankIn(leg, y)))
<1> DEFINE i == RankIn(leg, x)  j == RankIn(leg, y)
<1>1. i \in Nat /\ j \in Nat
  BY RankOfRow DEF Ranking
<1>2. RrfK \in Nat \ {0}
  BY FusionAssumption
<1> HIDE DEF i, j
<1>3. /\ Share(w, i) = IF i = 0 THEN <<0, 1>> ELSE <<w, RrfK + i>>
      /\ Share(w, j) = IF j = 0 THEN <<0, 1>> ELSE <<w, RrfK + j>>
  BY DEF Share
<1>4. Share(w, i) \in Fraction
  BY <1>1, <1>2, <1>3 DEF Fraction
<1>5. /\ i < j <=> (RrfK + i) * w < (RrfK + j) * w
      /\ j < i <=> (RrfK + j) * w < (RrfK + i) * w
      /\ (RrfK + i) * w \in Nat /\ (RrfK + j) * w \in Nat
      /\ w * (RrfK + i) = (RrfK + i) * w /\ w * (RrfK + j) = (RrfK + j) * w
  <2>1. RrfK + i \in Nat /\ RrfK + j \in Nat
    BY <1>1, <1>2
  <2>2. /\ RrfK + i < RrfK + j <=> (RrfK + i) * w < (RrfK + j) * w
        /\ RrfK + j < RrfK + i <=> (RrfK + j) * w < (RrfK + i) * w
        /\ (RrfK + i) * w \in Nat /\ (RrfK + j) * w \in Nat
    BY <2>1, Products
  <2>3. (RrfK + i < RrfK + j <=> i < j) /\ (RrfK + j < RrfK + i <=> j < i)
    BY <1>1, <1>2
  <2>4. w * (RrfK + i) = (RrfK + i) * w /\ w * (RrfK + j) = (RrfK + j) * w
    BY <1>1, <1>2
  <2> QED
    BY <2>2, <2>3, <2>4
<1> DEFINE wi == (RrfK + i) * w  wj == (RrfK + j) * w
<1>6. /\ wi \in Nat /\ wj \in Nat
      /\ (i < j <=> wi < wj) /\ (j < i <=> wj < wi)
      /\ w * (RrfK + i) = wi /\ w * (RrfK + j) = wj
  BY <1>5
<1> HIDE DEF wi, wj
<1>7. Exceeds(Share(w, j), Share(w, i)) <=> j # 0 /\ (i = 0 \/ j < i)
  BY <1>1, <1>2, <1>3, <1>6 DEF Exceeds
<1>8. Exceeds(Share(w, i), Share(w, j)) <=> i # 0 /\ (j = 0 \/ i < j)
  BY <1>1, <1>2, <1>3, <1>6 DEF Exceeds
<1> QED
  BY <1>4, <1>7, <1>8 DEF Beats, i, j

(* A row that is better in one list, and not worse in the other, has the   *)
(* higher score.                                                           *)
LEMMA BetterScore ==
  ASSUME NEW q \in Queries, NEW x, NEW y
  PROVE  /\ Score(q, x) \in Fraction
         /\ (/\ Beats(DensePool(q), y, x) \/ Beats(LexicalPool(q), y, x)
             /\ ~ Beats(DensePool(q), x, y) /\ ~ Beats(LexicalPool(q), x, y))
              => Exceeds(Score(q, y), Score(q, x))
<1> DEFINE dx == Share(4, RankIn(DensePool(q), x))
           dy == Share(4, RankIn(DensePool(q), y))
           lx == Share(q.lexical_weight, RankIn(LexicalPool(q), x))
           ly == Share(q.lexical_weight, RankIn(LexicalPool(q), y))
<1>1. /\ dx \in Fraction /\ dy \in Fraction
      /\ Beats(DensePool(q), y, x) => Exceeds(dy, dx)
      /\ ~ Beats(DensePool(q), x, y) => ~ Exceeds(dx, dy)
  BY QueryRankings, ShareOfLeg
<1>2. /\ lx \in Fraction /\ ly \in Fraction
      /\ Beats(LexicalPool(q), y, x) => Exceeds(ly, lx)
      /\ ~ Beats(LexicalPool(q), x, y) => ~ Exceeds(lx, ly)
  BY QueryRankings, ShareOfLeg
<1>3. Score(q, x) = Plus(dx, lx) /\ Score(q, y) = Plus(dy, ly)
  BY DEF Score
<1> HIDE DEF dx, dy, lx, ly
<1> QED
  BY <1>1, <1>2, <1>3, PlusGrows

(* No two candidates tie twice: their places in the order that breaks ties *)
(* differ.                                                                 *)
LEMMA TiesBroken ==
  ASSUME NEW q \in Queries, NEW x \in Candidates(q), NEW y \in Candidates(q)
  PROVE  /\ TieBreak(q, x) \in Nat
         /\ TieBreak(q, x) = TieBreak(q, y) => x = y
<1>1. CASE q.over = "chunks"
  <2>1. x \in Range(q.dense) /\ y \in Range(q.dense)
    BY <1>1, QueryRankings DEF Candidates
  <2>2. /\ RankIn(q.dense, x) # 0 /\ q.dense[RankIn(q.dense, x)] = x
        /\ RankIn(q.dense, y) # 0 /\ q.dense[RankIn(q.dense, y)] = y
        /\ RankIn(q.dense, x) \in 0..Len(q.dense)
    BY <2>1, QueryRankings, RankOfRow
  <2>3. Len(q.dense) \in Nat
    BY QueryRankings DEF Ranking
  <2> QED
    BY <1>1, <2>2, <2>3 DEF TieBreak
<1>2. CASE q.over # "chunks"
  <2>1. x \in Nat
    BY QueryRankings, FiniteRange DEF Candidates
  <2> QED
    BY <1>2, <2>1 DEF TieBreak
<1> QED
  BY <1>1, <1>2

(* ORDER BY score, then tie-break, is a strict order of all candidates.    *)
LEMMA BeforeIsAnOrder ==
  ASSUME NEW q \in Queries,
         NEW x \in Candidates(q), NEW y \in Candidates(q), NEW z \in Candidates(q)
  PROVE  /\ ~ Before(q, x, x)
         /\ x # y => Before(q, x, y) \/ Before(q, y, x)
         /\ Before(q, x, y) /\ Before(q, y, z) => Before(q, x, z)
<1> DEFINE a == Score(q, x)  b == Score(q, y)  c == Score(q, z)
           i == TieBreak(q, x)  j == TieBreak(q, y)  k == TieBreak(q, z)
<1>1. a \in Fraction /\ b \in Fraction /\ c \in Fraction
  BY BetterScore
<1>2. i \in Nat /\ j \in Nat /\ k \in Nat /\ (i = j => x = y)
  BY TiesBroken
<1>3. /\ Before(q, x, x) <=> Exceeds(a, a) \/ (~ Exceeds(a, a) /\ i < i)
      /\ Before(q, x, y) <=> Exceeds(a, b) \/ (~ Exceeds(b, a) /\ i < j)
      /\ Before(q, y, x) <=> Exceeds(b, a) \/ (~ Exceeds(a, b) /\ j < i)
      /\ Before(q, y, z) <=> Exceeds(b, c) \/ (~ Exceeds(c, b) /\ j < k)
      /\ Before(q, x, z) <=> Exceeds(a, c) \/ (~ Exceeds(c, a) /\ i < k)
  BY DEF Before
<1> HIDE DEF a, b, c, i, j, k
<1>4. /\ ~ Exceeds(a, a)
      /\ ~ (Exceeds(a, b) /\ Exceeds(b, a))
      /\ ~ (Exceeds(b, c) /\ Exceeds(c, b))
      /\ ~ Exceeds(b, a) /\ ~ Exceeds(c, b) => ~ Exceeds(c, a)
      /\ Exceeds(a, b) /\ ~ Exceeds(c, b) => Exceeds(a, c)
      /\ ~ Exceeds(b, a) /\ Exceeds(b, c) => Exceeds(a, c)
  BY <1>1, ExceedsOrder
<1>5. x # y => i < j \/ j < i
  BY <1>2
<1>6. i < j /\ j < k => i < k
  BY <1>2
<1>7. ~ (i < i)
  BY <1>2
<1> QED
  BY <1>3, <1>4, <1>5, <1>6, <1>7

-----------------------------------------------------------------------------
(* Places.                                                                 *)

(* The candidates that go before a row.                                    *)
Ahead(q, x) == {y \in Candidates(q) : Before(q, y, x)}

(* A row's place in the results is a number up to that of candidates, and  *)
(* places follow the order.                                                *)
LEMMA PlacesAgree ==
  ASSUME NEW q \in Queries
  PROVE  /\ IsFiniteSet(Candidates(q)) /\ Cardinality(Candidates(q)) \in Nat
         /\ \A x \in Candidates(q) : Place(q, x) \in 1..Cardinality(Candidates(q))
         /\ \A x, y \in Candidates(q) : Before(q, x, y) => Place(q, x) < Place(q, y)
<1> DEFINE C == Candidates(q)
<1>1. IsFiniteSet(C) /\ Cardinality(C) \in Nat
  BY QueryRankings, FiniteRange, FS_Union, FS_CardinalityType DEF Candidates
<1>2. \A x : /\ Ahead(q, x) \in SUBSET C /\ IsFiniteSet(Ahead(q, x))
             /\ Cardinality(Ahead(q, x)) \in Nat
             /\ Place(q, x) = 1 + Cardinality(Ahead(q, x))
  <2> TAKE x
  <2>1. Ahead(q, x) \in SUBSET C
    BY DEF Ahead
  <2>2. IsFiniteSet(Ahead(q, x)) /\ Cardinality(Ahead(q, x)) \in Nat
    BY <1>1, <2>1, FS_Subset, FS_CardinalityType
  <2> QED
    BY <2>1, <2>2 DEF Place, Ahead
<1>3. ASSUME NEW x \in C
      PROVE  Place(q, x) \in 1..Cardinality(C)
  <2>1. Ahead(q, x) \in SUBSET C /\ x \notin Ahead(q, x)
    BY <1>2, BeforeIsAnOrder DEF Ahead
  <2>2. Cardinality(Ahead(q, x)) <= Cardinality(C) /\ Cardinality(Ahead(q, x)) # Cardinality(C)
    BY <1>1, <2>1, FS_Subset
  <2> QED
    BY <1>1, <1>2, <2>2
<1>4. ASSUME NEW x \in C, NEW y \in C, Before(q, x, y)
      PROVE  Place(q, x) < Place(q, y)
  <2>1. Ahead(q, x) \in SUBSET Ahead(q, y)
    BY <1>4, BeforeIsAnOrder DEF Ahead
  <2>2. x \in Ahead(q, y) /\ x \notin Ahead(q, x)
    BY <1>4, BeforeIsAnOrder DEF Ahead
  <2>3. /\ Cardinality(Ahead(q, x)) <= Cardinality(Ahead(q, y))
        /\ Cardinality(Ahead(q, x)) # Cardinality(Ahead(q, y))
    BY <1>2, <2>1, <2>2, FS_Subset
  <2> QED
    BY <1>2, <2>3
<1> QED
  BY <1>1, <1>3, <1>4

(* Every place is taken, by one row.                                       *)
LEMMA PlacesTaken ==
  ASSUME NEW q \in Queries
  PROVE  \A i \in 1..Cardinality(Candidates(q)) :
           \E x \in Candidates(q) : /\ Place(q, x) = i
                                    /\ \A y \in Candidates(q) : Place(q, y) = i => y = x
<1> DEFINE C == Candidates(q)
           N == Cardinality(C)
           f == [x \in C |-> Place(q, x)]
<1>1. /\ IsFiniteSet(C) /\ N \in Nat
      /\ \A x \in C : Place(q, x) \in 1..N
      /\ \A x, y \in C : Before(q, x, y) => Place(q, x) < Place(q, y)
  BY PlacesAgree
<1>2. \A x, y \in C : Place(q, x) = Place(q, y) => x = y
  <2> TAKE x, y \in C
  <2> SUFFICES ASSUME x # y PROVE Place(q, x) # Place(q, y)
    OBVIOUS
  <2>1. Before(q, x, y) \/ Before(q, y, x)
    BY BeforeIsAnOrder
  <2>2. Place(q, x) < Place(q, y) \/ Place(q, y) < Place(q, x)
    BY <1>1, <2>1
  <2> QED
    BY <1>1, <2>2
<1>3. f \in Injection(C, 1..N)
  BY <1>1, <1>2 DEF Injection, IsInjective
<1>4. IsFiniteSet(1..N) /\ Cardinality(1..N) = N
  BY <1>1, FS_Interval
<1>5. f \in Surjection(C, 1..N)
  <2> HIDE DEF f
  <2> QED
    BY <1>3, <1>4, FS_Injection
<1>6. \A i \in 1..N : \E x \in C : f[x] = i
  BY <1>5 DEF Surjection
<1> QED
  BY <1>2, <1>6

(* A search returns the first k places, each filled by its row.            *)
LEMMA RowsFound ==
  ASSUME NEW q \in Queries
  PROVE  /\ DOMAIN Search(q) = 1..Min({q.k, Cardinality(Candidates(q))})
         /\ Search(q) \in Seq(Candidates(q))
         /\ Len(Search(q)) = Min({q.k, Cardinality(Candidates(q))})
         /\ \A i \in DOMAIN Search(q) : Place(q, Search(q)[i]) = i
         /\ \A x \in Candidates(q) :
              Place(q, x) \in DOMAIN Search(q) => Search(q)[Place(q, x)] = x
<1> DEFINE C == Candidates(q)
           N == Cardinality(C)
           m == Min({q.k, N})
<1>1. N \in Nat
  BY PlacesAgree
<1>2. m \in Nat /\ m <= N
  <2>1. {q.k, N} \in SUBSET Nat /\ {q.k, N} # {}
    BY <1>1, QueryRankings
  <2> QED
    BY <2>1, MinOf
<1>3. Search(q) = [i \in 1..m |-> CHOOSE x \in C : Place(q, x) = i]
  BY DEF Search
<1> HIDE DEF m
<1>4. ASSUME NEW i \in 1..m
      PROVE  /\ Search(q)[i] \in C
             /\ Place(q, Search(q)[i]) = i
             /\ \A y \in C : Place(q, y) = i => Search(q)[i] = y
  <2>1. Search(q)[i] = CHOOSE x \in C : Place(q, x) = i
    BY <1>3
  <2>2. i \in 1..N
    BY <1>1, <1>2
  <2>3. PICK x \in C : Place(q, x) = i /\ \A y \in C : Place(q, y) = i => y = x
    BY <2>2, PlacesTaken
  <2> QED
    BY <2>1, <2>3
<1>5. DOMAIN Search(q) = 1..m
  BY <1>3
<1>6. Search(q) \in Seq(C) /\ Len(Search(q)) = m
  BY <1>2, <1>3, <1>4
<1> QED
  BY <1>4, <1>5, <1>6 DEF m

-----------------------------------------------------------------------------

(* Where there are hits, they are what the search returns for the query.   *)
QueryInv ==
  /\ query \in Queries \cup {Nothing}
  /\ hits # Nothing => query \in Queries /\ hits = Search(query)

(* The query is never changed, and hits come from nowhere else.            *)
LEMMA QueryAnswered ==
  TextSpec => []QueryInv
<1>1. Init => QueryInv
  BY DEF Init, QueryInv
<1>2. QueryInv /\ [Next]_tvars => QueryInv'
  BY DEF QueryInv, Next, Chunk, Rank, tvars
<1> QED
  BY <1>1, <1>2, PTL DEF TextSpec

(* FusionFair for every k of the fusion, every pool, weight and pair of    *)
(* rankings: in the fused search of db.py, a row that one ranking puts     *)
(* above another, and that the other ranking does not put below it, comes  *)
(* out above it, or neither does as one is out of the results.             *)
THEOREM BetterRowsFirst ==
  TextSpec => []FusionFair
<1>1. QueryInv => FusionFair
  <2> SUFFICES ASSUME QueryInv, Ranked,
                      NEW i \in DOMAIN hits, NEW y \in Candidates(query),
                      \/ Beats(DensePool(query), y, hits[i])
                      \/ Beats(LexicalPool(query), y, hits[i]),
                      ~ Beats(DensePool(query), hits[i], y),
                      ~ Beats(LexicalPool(query), hits[i], y)
               PROVE  \E j \in 1..(i - 1) : hits[j] = y
    BY DEF FusionFair
  <2>1. query \in Queries /\ hits = Search(query)
    BY DEF QueryInv, Ranked
  <2>2. Exceeds(Score(query, y), Score(query, hits[i]))
    BY <2>1, BetterScore
  <2>3. /\ hits[i] \in Candidates(query) /\ Place(query, hits[i]) = i
        /\ DOMAIN hits = 1..Len(hits) /\ Len(hits) \in Nat
        /\ Place(query, y) \in DOMAIN hits => hits[Place(query, y)] = y
    <3>1. hits \in Seq(Candidates(query))
      BY <2>1, RowsFound
    <3>2. /\ Place(query, hits[i]) = i
          /\ Place(query, y) \in DOMAIN hits => hits[Place(query, y)] = y
      BY <2>1, RowsFound
    <3> QED
      BY <3>1, <3>2
  <2>4. Before(query, y, hits[i])
    BY <2>2 DEF Before
  <2>5. Place(query, y) < i /\ Place(query, y) \in Nat \ {0}
    BY <2>1, <2>3, <2>4, PlacesAgree
  <2>6. Place(query, y) \in 1..(i - 1) /\ Place(query, y) \in DOMAIN hits
    BY <2>3, <2>5
  <2> QED
    BY <2>3, <2>6
<1> QED
  BY <1>1, QueryAnswered, PTL

(* PoolsFill for every query: the fused search returns the k best rows of  *)
(* the pools, or all there are, and no row twice.                          *)
THEOREM PoolsFilled ==
  TextSpec => []PoolsFill
<1>1. QueryInv => PoolsFill
  <2> SUFFICES ASSUME QueryInv, Ranked
               PROVE  /\ IsInjective(hits)
                      /\ Range(hits) \subseteq Candidates(query)
                      /\ Len(hits) = Min({query.k, Cardinality(Candidates(query))})
    BY DEF PoolsFill, Candidates
  <2>1. query \in Queries /\ hits = Search(query)
    BY DEF QueryInv, Ranked
  <2> QED
    BY <2>1, RowsFound DEF IsInjective, Range
<1> QED
  BY <1>1, QueryAnswered, PTL

-----------------------------------------------------------------------------
(* Sequences put end to end.                                               *)

(* What FlattenSeq makes of the first n of a sequence of sequences: each   *)
(* of its elements has a place, the sequence it comes from and where it    *)
(* stood there, in order, and every place is taken.                        *)
Flattens(ss, n, flat, place) ==
  /\ place \in [1..Len(flat) -> Nat \X Nat]
  /\ \A p \in 1..Len(flat) :
       /\ place[p][1] \in 1..n
       /\ place[p][2] \in 1..Len(ss[place[p][1]])
       /\ flat[p] = ss[place[p][1]][place[p][2]]
  /\ \A p, q \in 1..Len(flat) : p < q => Earlier(place[p], place[q])
  /\ \A j \in 1..n : \A i \in 1..Len(ss[j]) :
       \E p \in 1..Len(flat) : place[p] = <<j, i>>

(* FlattenSeq, which the library folds from the left, as a function of how *)
(* many sequences it has appended.                                         *)
LEMMA FlattenUnfolds ==
  ASSUME NEW B, NEW ss \in Seq(Seq(B)), ss # <<>>
  PROVE  \E f \in [0..Len(ss) -> Seq(B)] :
           /\ f[0] = <<>>
           /\ \A n \in 1..Len(ss) : f[n] = f[n - 1] \o ss[n]
           /\ FlattenSeq(ss) = f[Len(ss)]
<1> DEFINE A == Seq(B)
           step == [a \in A |-> [b \in A |-> a \o b]]
           Unfolds(h) == h = [i \in 1..Len(ss) |-> IF i = 1 THEN ss[i] ELSE h[i - 1] \o ss[i]]
<1>1. Len(ss) \in Nat \ {0}
  OBVIOUS
<1>2. step \in Steps(A, A) /\ <<>> \in A
  BY DEF Steps
<1>3. HasRun(A, <<>>, step, ss)
  <2> HIDE DEF A, step
  <2>1. ss \in Seq(A)
    BY DEF A
  <2> QED
    BY <1>2, <2>1, RecursionOverSequence
<1>4. PICK f \in [0..Len(ss) -> A] : RunsOver(f, <<>>, step, ss)
  <2> HIDE DEF A, step
  <2> QED
    BY <1>3 DEF HasRun
<1>5. f[0] = <<>> /\ \A n \in 1..Len(ss) : f[n] = step[f[n - 1]][ss[n]]
  <2> HIDE DEF A, step
  <2> QED
    BY <1>4 DEF RunsOver
<1>6. ASSUME NEW n \in 1..Len(ss)
      PROVE  f[n] = f[n - 1] \o ss[n]
  <2>1. f[n - 1] \in A /\ ss[n] \in A
    <3>1. n - 1 \in 0..Len(ss) /\ ss[n] \in Seq(B)
      BY <1>1
    <3> HIDE DEF step, Unfolds
    <3> QED
      BY <3>1
  <2>2. f[n] = step[f[n - 1]][ss[n]]
    <3> HIDE DEF A, step
    <3> QED
      BY <1>5
  <2> QED
    BY <2>1, <2>2
<1> DEFINE g == [i \in 1..Len(ss) |-> f[i]]
<1>7. Unfolds(g)
  <2>1. ASSUME NEW i \in 1..Len(ss)
        PROVE  f[i] = IF i = 1 THEN ss[i] ELSE g[i - 1] \o ss[i]
    <3>1. CASE i = 1
      <4>1. ss[i] \in Seq(B)
        OBVIOUS
      <4>2. f[i] = <<>> \o ss[i]
        <5>1. i - 1 = 0
          BY <3>1
        <5> HIDE DEF A, step, g, Unfolds
        <5> QED
          BY <1>5, <1>6, <5>1
      <4>3. <<>> \o ss[i] = ss[i]
        BY <4>1
      <4> QED
        BY <3>1, <4>2, <4>3
    <3>2. CASE i # 1
      <4>1. i - 1 \in 1..Len(ss)
        BY <3>2
      <4> QED
        BY <1>6, <3>2, <4>1
    <3> QED
      BY <3>1, <3>2
  <2> HIDE DEF step, A
  <2> QED
    BY <2>1
<1>8. \A h : Unfolds(h) => h = g
  <2> TAKE h
  <2> SUFFICES ASSUME Unfolds(h) PROVE h = g
    OBVIOUS
  <2> DEFINE S == {m \in Nat : m = 0 \/ h[m] = g[m]}
  <2>1. 0 \in S
    OBVIOUS
  <2>2. ASSUME NEW m \in Nat, m < Len(ss), m \in S
        PROVE  m + 1 \in S
    <3>1. m + 1 \in 1..Len(ss)
      BY <2>2
    <3>2. /\ h[m + 1] = IF m + 1 = 1 THEN ss[m + 1] ELSE h[(m + 1) - 1] \o ss[m + 1]
          /\ g[m + 1] = IF m + 1 = 1 THEN ss[m + 1] ELSE g[(m + 1) - 1] \o ss[m + 1]
      <4> HIDE DEF g
      <4> QED
        BY <1>7, <3>1
    <3>3. m # 0 => h[m] = g[m]
      BY <2>2
    <3>4. (m + 1) - 1 = m /\ (m + 1 = 1 <=> m = 0)
      OBVIOUS
    <3> HIDE DEF g
    <3> QED
      BY <3>2, <3>3, <3>4
  <2>3. \A m \in 0..Len(ss) : m \in S
    <3> HIDE DEF S
    <3> QED
      BY <1>1, <2>1, <2>2, InductionUpTo
  <2>4. \A m \in 1..Len(ss) : h[m] = g[m]
    <3> TAKE m \in 1..Len(ss)
    <3>1. m \in 0..Len(ss) /\ m # 0
      BY <1>1
    <3>2. m \in S
      <4> HIDE DEF S
      <4> QED
        BY <2>3, <3>1
    <3> HIDE DEF g, A, Unfolds, step
    <3> QED
      BY <3>1, <3>2
  <2>5. h = [i \in 1..Len(ss) |-> h[i]] /\ g = [i \in 1..Len(ss) |-> g[i]]
    OBVIOUS
  <2> HIDE DEF g
  <2> QED
    BY <2>4, <2>5
<1>9. FlattenSeq(ss) = (CHOOSE h : Unfolds(h))[Len(ss)]
  BY <1>1 DEF FlattenSeq
<1>10. (CHOOSE h : Unfolds(h)) = g
  <2> HIDE DEF Unfolds, g
  <2> QED
    BY <1>7, <1>8
<1>11. FlattenSeq(ss) = f[Len(ss)]
  <2>1. FlattenSeq(ss) = g[Len(ss)]
    <3> HIDE DEF Unfolds, g
    <3> QED
      BY <1>9, <1>10
  <2> QED
    BY <1>1, <2>1
<1> QED
  BY <1>5, <1>6, <1>11

(* Appending one more sequence keeps the places of what is there.          *)
LEMMA FlattenStep ==
  ASSUME NEW B, NEW ss \in Seq(Seq(B)), NEW n \in Nat, n < Len(ss),
         NEW flat \in Seq(B), NEW place, Flattens(ss, n, flat, place)
  PROVE  \E where : Flattens(ss, n + 1, flat \o ss[n + 1], where)
<1> DEFINE m == Len(flat)
           t == ss[n + 1]
           k == Len(t)
           all == flat \o t
           where == [p \in 1..(m + k) |-> IF p <= m THEN place[p] ELSE <<n + 1, p - m>>]
<1>1. t \in Seq(B) /\ k \in Nat /\ m \in Nat
  <2>1. n + 1 \in 1..Len(ss)
    OBVIOUS
  <2> QED
    BY <2>1
<1>2. /\ all \in Seq(B) /\ Len(all) = m + k
      /\ \A p \in 1..(m + k) : all[p] = IF p <= m THEN flat[p] ELSE t[p - m]
  <2> HIDE DEF t
  <2> QED
    BY <1>1
<1> HIDE DEF m, t, k, all
<1>3. /\ place \in [1..m -> Nat \X Nat]
      /\ \A p \in 1..m : /\ place[p][1] \in 1..n
                         /\ place[p][2] \in 1..Len(ss[place[p][1]])
                         /\ flat[p] = ss[place[p][1]][place[p][2]]
      /\ \A p, q \in 1..m : p < q => Earlier(place[p], place[q])
      /\ \A j \in 1..n : \A i \in 1..Len(ss[j]) : \E p \in 1..m : place[p] = <<j, i>>
  BY DEF Flattens, m
<1>4. where \in [1..(m + k) -> Nat \X Nat]
  <2>1. ASSUME NEW p \in 1..(m + k)
        PROVE  (IF p <= m THEN place[p] ELSE <<n + 1, p - m>>) \in Nat \X Nat
    <3>1. CASE p <= m
      <4>1. p \in 1..m
        BY <1>1, <3>1
      <4> QED
        BY <1>3, <3>1, <4>1
    <3>2. CASE ~ (p <= m)
      BY <1>1, <3>2
    <3> QED
      BY <3>1, <3>2
  <2> QED
    BY <2>1
<1>5. /\ \A p \in 1..m : p \in 1..(m + k) /\ where[p] = place[p] /\ all[p] = flat[p]
      /\ \A i \in 1..k : /\ m + i \in 1..(m + k) /\ where[m + i] = <<n + 1, i>>
                         /\ all[m + i] = t[i]
      /\ \A p \in 1..(m + k) : p \in 1..m \/ \E i \in 1..k : p = m + i
  <2>1. \A p \in 1..m : p \in 1..(m + k) /\ where[p] = place[p] /\ all[p] = flat[p]
    BY <1>1, <1>2
  <2>2. \A i \in 1..k : /\ m + i \in 1..(m + k) /\ where[m + i] = <<n + 1, i>>
                        /\ all[m + i] = t[i]
    <3> TAKE i \in 1..k
    <3>1. m + i \in 1..(m + k) /\ ~ (m + i <= m) /\ (m + i) - m = i
      BY <1>1
    <3> QED
      BY <1>2, <3>1
  <2>3. \A p \in 1..(m + k) : p \in 1..m \/ \E i \in 1..k : p = m + i
    <3> TAKE p \in 1..(m + k)
    <3>1. p \in 1..m \/ (p - m \in 1..k /\ p = m + (p - m))
      BY <1>1
    <3> QED
      BY <3>1
  <2> QED
    BY <2>1, <2>2, <2>3
<1> HIDE DEF where
<1>6. \A p \in 1..(m + k) :
        /\ where[p][1] \in 1..(n + 1)
        /\ where[p][2] \in 1..Len(ss[where[p][1]])
        /\ all[p] = ss[where[p][1]][where[p][2]]
  <2> TAKE p \in 1..(m + k)
  <2>1. CASE p \in 1..m
    <3>1. where[p] = place[p] /\ all[p] = flat[p] /\ place[p][1] \in 1..(n + 1)
      BY <1>3, <1>5, <2>1
    <3> QED
      BY <1>3, <2>1, <3>1
  <2>2. ASSUME NEW i \in 1..k, p = m + i
        PROVE  /\ where[p][1] = n + 1 /\ where[p][2] = i /\ all[p] = ss[n + 1][i]
               /\ i \in 1..Len(ss[n + 1]) /\ n + 1 \in 1..(n + 1)
    BY <1>5, <2>2 DEF t, k
  <2> QED
    BY <1>5, <2>1, <2>2
<1>7. \A p, q \in 1..(m + k) : p < q => Earlier(where[p], where[q])
  <2> SUFFICES ASSUME NEW p \in 1..(m + k), NEW q \in 1..(m + k), p < q
               PROVE  Earlier(where[p], where[q])
    OBVIOUS
  <2>1. CASE p \in 1..m /\ q \in 1..m
    BY <1>3, <1>5, <2>1
  <2>2. ASSUME NEW i \in 1..k, q = m + i, p \in 1..m
        PROVE  Earlier(where[p], where[q])
    <3>1. where[p][1] \in 1..n /\ where[q] = <<n + 1, i>>
      BY <1>3, <1>5, <2>2
    <3> QED
      BY <3>1 DEF Earlier
  <2>3. ASSUME NEW i \in 1..k, p = m + i, NEW j \in 1..k, q = m + j
        PROVE  Earlier(where[p], where[q])
    <3>1. where[p] = <<n + 1, i>> /\ where[q] = <<n + 1, j>>
      BY <1>5, <2>3
    <3>2. i < j
      BY <1>1, <2>3
    <3> QED
      BY <3>1, <3>2 DEF Earlier
  <2>4. ~ (q \in 1..m /\ p \notin 1..m)
    BY <1>1
  <2> QED
    BY <1>5, <2>1, <2>2, <2>3, <2>4
<1>8. \A j \in 1..(n + 1) : \A i \in 1..Len(ss[j]) :
        \E p \in 1..(m + k) : where[p] = <<j, i>>
  <2> SUFFICES ASSUME NEW j \in 1..(n + 1), NEW i \in 1..Len(ss[j])
               PROVE  \E p \in 1..(m + k) : where[p] = <<j, i>>
    OBVIOUS
  <2>1. CASE j = n + 1
    <3>1. i \in 1..k
      BY <2>1 DEF k, t
    <3> QED
      BY <1>5, <2>1, <3>1
  <2>2. CASE j # n + 1
    <3>1. j \in 1..n
      BY <2>2
    <3>2. PICK p \in 1..m : place[p] = <<j, i>>
      BY <1>3, <3>1
    <3> QED
      BY <1>5, <3>2
  <2> QED
    BY <2>1, <2>2
<1>9. Flattens(ss, n + 1, all, where)
  <2>1. Len(all) = m + k
    BY <1>2
  <2> DEFINE l == Len(all)
  <2>2. /\ where \in [1..l -> Nat \X Nat]
        /\ \A p \in 1..l : /\ where[p][1] \in 1..(n + 1)
                          /\ where[p][2] \in 1..Len(ss[where[p][1]])
                          /\ all[p] = ss[where[p][1]][where[p][2]]
        /\ \A p, q \in 1..l : p < q => Earlier(where[p], where[q])
        /\ \A j \in 1..(n + 1) : \A i \in 1..Len(ss[j]) :
              \E p \in 1..l : where[p] = <<j, i>>
    BY <1>4, <1>6, <1>7, <1>8, <2>1, Zenon
  <2> QED
    BY <2>2, Zenon DEF Flattens
<1> QED
  BY <1>9 DEF all, t

(* So every flattened sequence has its elements at the places where they   *)
(* stood.                                                                  *)
LEMMA Flattened ==
  ASSUME NEW B, NEW ss \in Seq(Seq(B))
  PROVE  /\ FlattenSeq(ss) \in Seq(B)
         /\ \E place : Flattens(ss, Len(ss), FlattenSeq(ss), place)
<1>1. CASE ss = <<>>
  <2>1. FlattenSeq(ss) = <<>>
    BY <1>1 DEF FlattenSeq
  <2>2. Flattens(ss, 0, <<>>, <<>>)
    BY DEF Flattens
  <2>3. Len(ss) = 0 /\ <<>> \in Seq(B)
    BY <1>1
  <2>4. Flattens(ss, Len(ss), FlattenSeq(ss), <<>>)
    BY <2>1, <2>2, <2>3, Zenon
  <2> QED
    BY <2>1, <2>3, <2>4, Zenon
<1>2. CASE ss # <<>>
  <2>1. PICK f \in [0..Len(ss) -> Seq(B)] :
          /\ f[0] = <<>>
          /\ \A n \in 1..Len(ss) : f[n] = f[n - 1] \o ss[n]
          /\ FlattenSeq(ss) = f[Len(ss)]
    BY <1>2, FlattenUnfolds
  <2> DEFINE S == {n \in 0..Len(ss) : \E place : Flattens(ss, n, f[n], place)}
  <2>2. 0 \in S
    <3>1. Flattens(ss, 0, <<>>, <<>>)
      BY DEF Flattens
    <3> QED
      BY <2>1, <3>1
  <2>3. ASSUME NEW n \in Nat, n < Len(ss), n \in S
        PROVE  n + 1 \in S
    <3>1. PICK place : Flattens(ss, n, f[n], place)
      BY <2>3
    <3>2. f[n] \in Seq(B) /\ n + 1 \in 1..Len(ss) /\ (n + 1) - 1 = n
      <4>1. n \in 0..Len(ss) /\ n + 1 \in 1..Len(ss) /\ (n + 1) - 1 = n
        BY <2>3
      <4> HIDE DEF S
      <4> QED
        BY <4>1
    <3>3. \E where : Flattens(ss, n + 1, f[n] \o ss[n + 1], where)
      BY <2>3, <3>1, <3>2, FlattenStep
    <3>4. f[n + 1] = f[n] \o ss[n + 1]
      BY <2>1, <3>2
    <3>5. n + 1 \in 0..Len(ss)
      BY <3>2
    <3> QED
      BY <3>3, <3>4, <3>5
  <2>4. Len(ss) \in S
    <3>1. Len(ss) \in Nat
      OBVIOUS
    <3>2. \A n \in 0..Len(ss) : n \in S
      <4> HIDE DEF S
      <4> QED
        BY <2>2, <2>3, <3>1, InductionUpTo
    <3> HIDE DEF S
    <3> QED
      BY <3>1, <3>2
  <2>5. f[Len(ss)] \in Seq(B)
    BY <2>1
  <2> QED
    BY <2>1, <2>4, <2>5
<1> QED
  BY <1>1, <1>2

-----------------------------------------------------------------------------
(* The two loops of chunk_markdown.                                        *)

(* Merging is MergeStep applied to section after section.                  *)
LEMMA MergingUnfolds ==
  ASSUME NEW sections, Len(sections) \in Nat
  PROVE  /\ Merging(sections)[0] = [merged |-> <<>>, run |-> NoRun]
         /\ \A n \in 1..Len(sections) :
              Merging(sections)[n] = MergeStep(Merging(sections)[n - 1], sections[n])
<1> DEFINE base == [merged |-> <<>>, run |-> NoRun]
           Unfolds(f, m) ==
             f = [n \in 0..m |-> IF n = 0 THEN base ELSE MergeStep(f[n - 1], sections[n])]
           T == {m \in Nat : \E f : Unfolds(f, m)}
<1>1. 0 \in T
  <2> HIDE DEF base
  <2>1. Unfolds([n \in 0..0 |-> base], 0)
    OBVIOUS
  <2> QED
    BY <2>1
<1>2. ASSUME NEW m \in Nat, m < Len(sections), m \in T
      PROVE  m + 1 \in T
  <2>1. PICK f : Unfolds(f, m)
    BY <1>2
  <2> HIDE DEF base
  <2> DEFINE next == MergeStep(f[m], sections[m + 1])
             g == [n \in 0..(m + 1) |-> IF n = m + 1 THEN next ELSE f[n]]
  <2>2. ASSUME NEW n \in 0..(m + 1)
        PROVE  g[n] = IF n = 0 THEN base ELSE MergeStep(g[n - 1], sections[n])
    <3>1. CASE n = m + 1
      <4>1. n # 0 /\ n - 1 = m /\ m \in 0..(m + 1) /\ m # m + 1
        BY <3>1
      <4>2. g[n] = next /\ g[m] = f[m]
        BY <3>1, <4>1
      <4> QED
        BY <3>1, <4>1, <4>2
    <3>2. CASE n # m + 1
      <4>1. n \in 0..m
        BY <3>2
      <4>2. f[n] = IF n = 0 THEN base ELSE MergeStep(f[n - 1], sections[n])
        BY <2>1, <4>1
      <4>3. g[n] = f[n]
        BY <3>2
      <4>4. n # 0 => g[n - 1] = f[n - 1]
        BY <4>1
      <4> HIDE DEF g
      <4> QED
        BY <4>2, <4>3, <4>4
    <3> QED
      BY <3>1, <3>2
  <2>3. g = [n \in 0..(m + 1) |-> g[n]]
    OBVIOUS
  <2>4. Unfolds(g, m + 1)
    <3> HIDE DEF g
    <3> QED
      BY <2>2, <2>3
  <2>5. m + 1 \in Nat
    OBVIOUS
  <2> HIDE DEF g, Unfolds
  <2> QED
    BY <2>4, <2>5
<1>3. \E f : Unfolds(f, Len(sections))
  <2>1. \A n \in 0..Len(sections) : n \in T
    <3> HIDE DEF T
    <3> QED
      BY <1>1, <1>2, InductionUpTo
  <2>2. Len(sections) \in 0..Len(sections)
    OBVIOUS
  <2> HIDE DEF Unfolds
  <2> QED
    BY <2>1, <2>2
<1>4. Merging(sections) = CHOOSE f : Unfolds(f, Len(sections))
  BY DEF Merging
<1>5. Unfolds(Merging(sections), Len(sections))
  <2> HIDE DEF Unfolds
  <2> QED
    BY <1>3, <1>4
<1> HIDE DEF base
<1> DEFINE f == Merging(sections)
<1>6. \A n \in 0..Len(sections) : f[n] = IF n = 0 THEN base ELSE MergeStep(f[n - 1], sections[n])
  <2> HIDE DEF f
  <2>1. f = [n \in 0..Len(sections) |-> IF n = 0 THEN base ELSE MergeStep(f[n - 1], sections[n])]
    BY <1>5 DEF f
  <2> QED
    BY <2>1
<1>7. 0 \in 0..Len(sections) /\ \A n \in 1..Len(sections) : n \in 0..Len(sections) /\ n # 0
  OBVIOUS
<1>8. f[0] = base /\ \A n \in 1..Len(sections) : f[n] = MergeStep(f[n - 1], sections[n])
  <2> HIDE DEF f, Unfolds
  <2> QED
    BY <1>6, <1>7
<1> QED
  BY <1>8 DEF base, f

(* The walk is WalkStep applied to piece after piece.                      *)
LEMMA WalkingUnfolds ==
  ASSUME NEW walk, Len(walk) \in Nat
  PROVE  /\ Walking(walk)[0] = [last |-> 0, chunks |-> <<>>]
         /\ \A n \in 1..Len(walk) :
              Walking(walk)[n] = WalkStep(Walking(walk)[n - 1], walk[n])
<1> DEFINE base == [last |-> 0, chunks |-> <<>>]
           Unfolds(f, m) ==
             f = [n \in 0..m |-> IF n = 0 THEN base ELSE WalkStep(f[n - 1], walk[n])]
           T == {m \in Nat : \E f : Unfolds(f, m)}
<1>1. 0 \in T
  <2> HIDE DEF base
  <2>1. Unfolds([n \in 0..0 |-> base], 0)
    OBVIOUS
  <2> QED
    BY <2>1
<1>2. ASSUME NEW m \in Nat, m < Len(walk), m \in T
      PROVE  m + 1 \in T
  <2>1. PICK f : Unfolds(f, m)
    BY <1>2
  <2> HIDE DEF base
  <2> DEFINE next == WalkStep(f[m], walk[m + 1])
             g == [n \in 0..(m + 1) |-> IF n = m + 1 THEN next ELSE f[n]]
  <2>2. ASSUME NEW n \in 0..(m + 1)
        PROVE  g[n] = IF n = 0 THEN base ELSE WalkStep(g[n - 1], walk[n])
    <3>1. CASE n = m + 1
      <4>1. n # 0 /\ n - 1 = m /\ m \in 0..(m + 1) /\ m # m + 1
        BY <3>1
      <4>2. g[n] = next /\ g[m] = f[m]
        BY <3>1, <4>1
      <4> QED
        BY <3>1, <4>1, <4>2
    <3>2. CASE n # m + 1
      <4>1. n \in 0..m
        BY <3>2
      <4>2. f[n] = IF n = 0 THEN base ELSE WalkStep(f[n - 1], walk[n])
        BY <2>1, <4>1
      <4>3. g[n] = f[n]
        BY <3>2
      <4>4. n # 0 => g[n - 1] = f[n - 1]
        BY <4>1
      <4> HIDE DEF g
      <4> QED
        BY <4>2, <4>3, <4>4
    <3> QED
      BY <3>1, <3>2
  <2>3. g = [n \in 0..(m + 1) |-> g[n]]
    OBVIOUS
  <2>4. Unfolds(g, m + 1)
    <3> HIDE DEF g
    <3> QED
      BY <2>2, <2>3
  <2>5. m + 1 \in Nat
    OBVIOUS
  <2> HIDE DEF g, Unfolds
  <2> QED
    BY <2>4, <2>5
<1>3. \E f : Unfolds(f, Len(walk))
  <2>1. \A n \in 0..Len(walk) : n \in T
    <3> HIDE DEF T
    <3> QED
      BY <1>1, <1>2, InductionUpTo
  <2>2. Len(walk) \in 0..Len(walk)
    OBVIOUS
  <2> HIDE DEF Unfolds
  <2> QED
    BY <2>1, <2>2
<1>4. Walking(walk) = CHOOSE f : Unfolds(f, Len(walk))
  BY DEF Walking
<1>5. Unfolds(Walking(walk), Len(walk))
  <2> HIDE DEF Unfolds
  <2> QED
    BY <1>3, <1>4
<1> HIDE DEF base
<1> DEFINE f == Walking(walk)
<1>6. \A n \in 0..Len(walk) : f[n] = IF n = 0 THEN base ELSE WalkStep(f[n - 1], walk[n])
  <2> HIDE DEF f
  <2>1. f = [n \in 0..Len(walk) |-> IF n = 0 THEN base ELSE WalkStep(f[n - 1], walk[n])]
    BY <1>5 DEF f
  <2> QED
    BY <2>1
<1>7. 0 \in 0..Len(walk) /\ \A n \in 1..Len(walk) : n \in 0..Len(walk) /\ n # 0
  OBVIOUS
<1>8. f[0] = base /\ \A n \in 1..Len(walk) : f[n] = WalkStep(f[n - 1], walk[n])
  <2> HIDE DEF f, Unfolds
  <2> QED
    BY <1>6, <1>7
<1> QED
  BY <1>8 DEF base, f

-----------------------------------------------------------------------------
(* Documents.                                                              *)

(* The headings of all trails.                                             *)
AllHeadings == UNION {Range(t) : t \in Trails}

(* What a body may hold.                                                   *)
Atoms ==
  [type : {"word"}, of : Nat \X Nat] \cup [type : {"page"}, of : Nat \ {0}]
    \cup [type : {"heading"}, of : AllHeadings]

(* The order of words and markers in a text: markers count up, and a word  *)
(* comes after the marker of its page and before the next.                 *)
Precedes(shapes, a, b) ==
  /\ a.type = "word" /\ b.type = "word" => Earlier(a.of, b.of)
  /\ a.type = "word" /\ b.type = "page" => PageOf(shapes, a.of) < b.of
  /\ a.type = "page" /\ b.type = "word" => a.of <= PageOf(shapes, b.of)
  /\ a.type = "page" /\ b.type = "page" => a.of < b.of

(* A document has at least one section, and a trail and a shape for each.  *)
LEMMA DocumentShape ==
  ASSUME NEW d \in Documents
  PROVE  /\ Len(d.trails) \in Nat \ {0} /\ Len(d.shapes) = Len(d.trails)
         /\ DOMAIN d.trails = 1..Len(d.trails) /\ DOMAIN d.shapes = 1..Len(d.trails)
         /\ \A s \in 1..Len(d.trails) :
              /\ d.trails[s] \in Trails /\ d.trails[s] \in Seq(AllHeadings)
              /\ d.shapes[s] \in Seq({"w", "p"})
<1>1. PICK n \in 1..MaxSections :
        \E t \in [1..n -> Trails], b \in [1..n -> Shapes] : d = [trails |-> t, shapes |-> b]
  <2> DEFINE Apart(n) == {u \in [1..n -> Trails] : \A i \in 1..(n - 1) : u[i] # u[i + 1]}
             Sized(n) == {[trails |-> t, shapes |-> b] : t \in Apart(n), b \in [1..n -> Shapes]}
  <2>1. Documents = UNION {Sized(n) : n \in 1..MaxSections}
    BY DEF Documents
  <2>2. PICK n \in 1..MaxSections : d \in Sized(n)
    <3> HIDE DEF Sized
    <3> QED
      BY <2>1
  <2>3. PICK t \in Apart(n), b \in [1..n -> Shapes] : d = [trails |-> t, shapes |-> b]
    <3> HIDE DEF Apart
    <3> QED
      BY <2>2
  <2> QED
    BY <2>3
<1>2. PICK t \in [1..n -> Trails], b \in [1..n -> Shapes] : d = [trails |-> t, shapes |-> b]
  BY <1>1
<1>3. n \in Nat \ {0}
  BY TextsAssumption
<1>4. /\ t \in Seq(Trails) /\ b \in Seq(Shapes) /\ Len(t) = n /\ Len(b) = n
      /\ DOMAIN t = 1..n /\ DOMAIN b = 1..n
  BY <1>3
<1>5. \A s \in 1..n : /\ t[s] \in Trails /\ t[s] \in Seq(AllHeadings)
                      /\ b[s] \in Seq({"w", "p"})
  <2> TAKE s \in 1..n
  <2>1. t[s] \in Trails /\ b[s] \in Shapes
    OBVIOUS
  <2>2. t[s] \in Seq(Range(t[s])) /\ b[s] \in Seq({"w", "p"})
    BY <2>1, TextsAssumption
  <2>3. Range(t[s]) \subseteq AllHeadings
    BY <2>1 DEF AllHeadings
  <2>4. t[s] \in Seq(AllHeadings)
    BY <2>2, <2>3
  <2> QED
    BY <2>1, <2>2, <2>4
<1>6. d.trails = t /\ d.shapes = b
  BY <1>2
<1> QED
  BY <1>3, <1>4, <1>5, <1>6

(* The markers before a place.                                             *)
MarksBefore(shapes, place) == {mark \in MarkedPlaces(shapes) : Earlier(mark, place)}

(* A document has finitely many markers, each in one of its sections.      *)
LEMMA MarksAreFinite ==
  ASSUME NEW d \in Documents
  PROVE  /\ IsFiniteSet(MarkedPlaces(d.shapes))
         /\ MarkedPlaces(d.shapes) \subseteq (1..Len(d.trails)) \X Nat
         /\ \A s, i : <<s, i>> \in MarkedPlaces(d.shapes) <=>
              s \in 1..Len(d.trails) /\ i \in 1..Len(d.shapes[s]) /\ d.shapes[s][i] = "p"
<1> DEFINE shapes == d.shapes
           n == Len(d.trails)
           Marks(s) == {k \in DOMAIN shapes[s] : shapes[s][k] = "p"}
           Row(s) == {<<s, i>> : i \in Marks(s)}
           Rows == {Row(s) : s \in 1..n}
<1>1. /\ n \in Nat /\ DOMAIN shapes = 1..n
      /\ \A s \in 1..n : shapes[s] \in Seq({"w", "p"})
  BY DocumentShape
<1> HIDE DEF n
<1>2. MarkedPlaces(shapes) = UNION Rows
  BY <1>1 DEF MarkedPlaces
<1> HIDE DEF shapes
<1>3. ASSUME NEW s \in 1..n
      PROVE  IsFiniteSet(Row(s)) /\ Marks(s) \subseteq Nat
  <2>1. Len(shapes[s]) \in Nat /\ Marks(s) \in SUBSET (1..Len(shapes[s]))
    BY <1>1
  <2>2. IsFiniteSet(Marks(s))
    <3> DEFINE all == 1..Len(shapes[s])  marks == Marks(s)
    <3>1. IsFiniteSet(all)
      BY <2>1, FS_Interval
    <3>2. marks \in SUBSET all
      BY <2>1
    <3> HIDE DEF all, marks
    <3>3. IsFiniteSet(marks)
      BY <3>1, <3>2, FS_Subset
    <3> QED
      BY <3>3 DEF marks
  <2>3. [i \in Marks(s) |-> <<s, i>>] \in Surjection(Marks(s), Row(s))
    BY DEF Surjection
  <2> HIDE DEF Marks, Row
  <2>4. IsFiniteSet(Row(s))
    BY <2>2, <2>3, FS_Surjection
  <2> QED
    BY <2>1, <2>4
<1>4. IsFiniteSet(Rows)
  <2>1. [s \in 1..n |-> Row(s)] \in Surjection(1..n, Rows)
    <3> HIDE DEF Row
    <3> QED
      BY DEF Surjection
  <2>2. IsFiniteSet(1..n)
    BY <1>1, FS_Interval
  <2> HIDE DEF Rows, Row
  <2> QED
    BY <2>1, <2>2, FS_Surjection
<1>5. IsFiniteSet(UNION Rows)
  <2>1. \A T \in Rows : IsFiniteSet(T)
    <3> HIDE DEF Row
    <3> QED
      BY <1>3
  <2> HIDE DEF Rows
  <2> QED
    BY <1>4, <2>1, FS_UNION
<1>6. \A s, i : <<s, i>> \in UNION Rows <=> s \in 1..n /\ i \in Marks(s)
  <2> TAKE s, i
  <2> HIDE DEF Marks
  <2> QED
    OBVIOUS
<1>7. \A m \in UNION Rows : m \in (1..n) \X Nat
  <2> TAKE m \in UNION Rows
  <2>1. PICK s \in 1..n : m \in Row(s)
    <3> HIDE DEF Row
    <3> QED
      OBVIOUS
  <2>2. PICK i \in Marks(s) : m = <<s, i>>
    <3> HIDE DEF Marks
    <3> QED
      BY <2>1
  <2>3. i \in Nat
    <3> HIDE DEF Marks, Row, Rows
    <3> QED
      BY <1>3
  <2> HIDE DEF Marks, Row, Rows
  <2> QED
    BY <2>2, <2>3
<1>8. \A s \in 1..n : \A i : i \in Marks(s) <=> i \in 1..Len(shapes[s]) /\ shapes[s][i] = "p"
  BY <1>1
<1> HIDE DEF Rows, Marks
<1> QED
  BY <1>2, <1>5, <1>6, <1>7, <1>8 DEF n, shapes

(* Pages are counted from 1, never fall, and rise past a marker.           *)
LEMMA PagesCount ==
  ASSUME NEW d \in Documents, NEW x \in Nat \X Nat, NEW y \in Nat \X Nat
  PROVE  /\ PageOf(d.shapes, x) \in Nat \ {0}
         /\ Earlier(x, y) => PageOf(d.shapes, x) <= PageOf(d.shapes, y)
         /\ Earlier(x, y) /\ x \in MarkedPlaces(d.shapes)
              => PageOf(d.shapes, x) < PageOf(d.shapes, y)
<1> DEFINE M == MarkedPlaces(d.shapes)
           A == MarksBefore(d.shapes, x)
           B == MarksBefore(d.shapes, y)
<1>1. IsFiniteSet(M) /\ M \subseteq Nat \X Nat
  BY MarksAreFinite
<1>2. A \in SUBSET M /\ B \in SUBSET M
  BY DEF MarksBefore
<1>3. /\ IsFiniteSet(A) /\ Cardinality(A) \in Nat
      /\ IsFiniteSet(B) /\ Cardinality(B) \in Nat
  <2> HIDE DEF M, A, B
  <2> QED
    BY <1>1, <1>2, FS_Subset, FS_CardinalityType
<1>4. PageOf(d.shapes, x) = 1 + Cardinality(A) /\ PageOf(d.shapes, y) = 1 + Cardinality(B)
  BY DEF PageOf, MarksBefore
<1>5. Earlier(x, y) => A \in SUBSET B
  <2> SUFFICES ASSUME Earlier(x, y), NEW m \in M, Earlier(m, x)
               PROVE  Earlier(m, y)
    BY DEF MarksBefore
  <2>1. m[1] \in Nat /\ m[2] \in Nat
    BY <1>1
  <2> HIDE DEF M
  <2> QED
    BY <2>1 DEF Earlier
<1>6. x \notin A
  BY DEF MarksBefore, Earlier
<1>7. Earlier(x, y) /\ x \in M => x \in B
  BY DEF MarksBefore
<1> HIDE DEF A, B, M
<1>8. Earlier(x, y) => Cardinality(A) <= Cardinality(B)
  BY <1>3, <1>5, FS_Subset
<1>9. Earlier(x, y) /\ x \in M => Cardinality(A) # Cardinality(B)
  BY <1>3, <1>5, <1>6, <1>7, FS_Subset
<1> QED
  BY <1>3, <1>4, <1>8, <1>9 DEF M

(* The number of a page is that of the last marker before it.              *)
LEMMA PageHasMarker ==
  ASSUME NEW d \in Documents, NEW y \in Nat \X Nat, PageOf(d.shapes, y) # 1
  PROVE  \E x \in MarkedPlaces(d.shapes) : PageOf(d.shapes, y) = PageOf(d.shapes, x) + 1
<1> DEFINE M == MarkedPlaces(d.shapes)
           B == MarksBefore(d.shapes, y)
           F == {m[1] : m \in B}
           s == Max(F)
           G == {i \in Nat : <<s, i>> \in B}
           x == <<s, Max(G)>>
<1>1. IsFiniteSet(M) /\ M \subseteq (1..Len(d.trails)) \X Nat /\ Len(d.trails) \in Nat
  BY MarksAreFinite, DocumentShape
<1>2. B \in SUBSET M /\ IsFiniteSet(B)
  <2>1. B \in SUBSET M
    BY DEF MarksBefore
  <2> HIDE DEF B, M
  <2> QED
    BY <1>1, <2>1, FS_Subset
<1>3. B # {}
  <2>1. PageOf(d.shapes, y) = 1 + Cardinality(B)
    BY DEF PageOf, MarksBefore
  <2>2. Cardinality({}) = 0
    BY FS_EmptySet
  <2>3. 1 + Cardinality(B) # 1
    <3> HIDE DEF B
    <3> QED
      BY <2>1
  <2> HIDE DEF B, F, G, M
  <2> SUFFICES ASSUME B = {} PROVE FALSE
    OBVIOUS
  <2> QED
    BY <2>2, <2>3
<1>4. s \in F /\ \A m \in B : m[1] <= s
  <2>1. F \in SUBSET Nat /\ F # {} /\ \A f \in F : f <= Len(d.trails)
    <3> HIDE DEF B, M
    <3> QED
      BY <1>1, <1>2, <1>3
  <2>2. \A m \in B : m[1] \in F
    OBVIOUS
  <2> HIDE DEF F, B, M
  <2> QED
    BY <1>1, <2>1, <2>2, MaxOf
<1>5. s \in 1..Len(d.trails) /\ Len(d.shapes[s]) \in Nat
  <2>1. s \in 1..Len(d.trails)
    <3>1. PICK m \in B : s = m[1]
      <4> HIDE DEF B, s
      <4> QED
        BY <1>4
    <3> HIDE DEF B, s, M
    <3> QED
      BY <1>1, <1>2, <3>1
  <2> HIDE DEF s
  <2>2. d.shapes[s] \in Seq({"w", "p"})
    BY <2>1, DocumentShape
  <2> QED
    BY <2>1, <2>2
<1>6. \A i : <<s, i>> \in M => i \in 1..Len(d.shapes[s])
  <2> HIDE DEF s
  <2> QED
    BY MarksAreFinite
<1>7. Max(G) \in G /\ \A i \in G : i <= Max(G)
  <2>1. \A i \in G : <<s, i>> \in M
    <3> HIDE DEF B, M, s
    <3> QED
      BY <1>2
  <2>2. G \in SUBSET Nat /\ \A i \in G : i <= Len(d.shapes[s])
    <3> HIDE DEF B, M, s
    <3> QED
      BY <1>5, <1>6, <2>1
  <2>3. G # {}
    <3>1. PICK m \in B : s = m[1]
      <4> HIDE DEF B, s
      <4> QED
        BY <1>4
    <3>2. m = <<s, m[2]>> /\ m[2] \in Nat
      <4> HIDE DEF B, s, M
      <4> QED
        BY <1>1, <1>2, <3>1
    <3>3. <<s, m[2]>> \in B
      <4> HIDE DEF B, s, M
      <4> QED
        BY <3>1, <3>2
    <3> HIDE DEF B, s
    <3> QED
      BY <3>2, <3>3
  <2> HIDE DEF G, s
  <2> QED
    BY <1>5, <2>2, <2>3, MaxOf
<1>8. x \in B /\ s \in Nat /\ Max(G) \in Nat
  <2>1. x \in B /\ Max(G) \in Nat
    <3> DEFINE g == Max(G)
    <3>1. g \in G
      BY <1>7
    <3> HIDE DEF g, B, s
    <3>2. <<s, g>> \in B /\ g \in Nat
      BY <3>1
    <3> QED
      BY <3>2 DEF g
  <2>2. s \in Nat
    <3> HIDE DEF s
    <3> QED
      BY <1>5
  <2> QED
    BY <2>1, <2>2
<1>9. \A m \in B : m = x \/ Earlier(m, x)
  <2> TAKE m \in B
  <2>1. m[1] <= s /\ m[1] \in Nat /\ m[2] \in Nat /\ m = <<m[1], m[2]>>
    <3> HIDE DEF B, M, s
    <3> QED
      BY <1>1, <1>2, <1>4
  <2>2. m[1] = s => m[2] <= Max(G)
    <3> HIDE DEF B, s
    <3>1. m[1] = s => m[2] \in G
      BY <2>1
    <3> HIDE DEF G
    <3> QED
      BY <3>1, <1>7
  <2> HIDE DEF B, M, s, G
  <2> QED
    BY <1>8, <2>1, <2>2 DEF Earlier
<1>10. MarksBefore(d.shapes, x) = B \ {x}
  <2>1. ASSUME NEW m \in M, Earlier(m, x)
        PROVE  m \in B /\ m # x
    <3>1. m[1] \in Nat /\ m[2] \in Nat /\ Earlier(x, y)
      <4>1. m[1] \in Nat /\ m[2] \in Nat
        <5> HIDE DEF M
        <5> QED
          BY <1>1
      <4>2. Earlier(x, y)
        <5> HIDE DEF x
        <5> QED
          BY <1>8 DEF MarksBefore
      <4> QED
        BY <4>1, <4>2
    <3>2. x[1] \in Nat /\ x[2] \in Nat
      <4> HIDE DEF s, G
      <4> QED
        BY <1>8
    <3> HIDE DEF x
    <3>3. Earlier(m, y) /\ m # x
      BY <2>1, <3>1, <3>2 DEF Earlier
    <3> QED
      BY <3>3 DEF MarksBefore
  <2> HIDE DEF x
  <2>2. \A m \in B : m \in M
    BY DEF MarksBefore
  <2>3. MarksBefore(d.shapes, x) = {m \in M : Earlier(m, x)}
    BY DEF MarksBefore
  <2> HIDE DEF B, M
  <2> QED
    BY <1>9, <2>1, <2>2, <2>3
<1>11. Cardinality(B) = Cardinality(B \ {x}) + 1
  <2> HIDE DEF B, x
  <2>1. Cardinality(B) \in Nat
    BY <1>2, FS_CardinalityType
  <2>2. Cardinality(B \ {x}) = Cardinality(B) - 1
    BY <1>2, <1>8, FS_RemoveElement
  <2> QED
    BY <2>1, <2>2
<1>12. /\ PageOf(d.shapes, y) = 1 + Cardinality(B)
       /\ PageOf(d.shapes, x) = 1 + Cardinality(B \ {x})
  <2>1. PageOf(d.shapes, x) = 1 + Cardinality(MarksBefore(d.shapes, x))
    BY DEF PageOf, MarksBefore
  <2>2. PageOf(d.shapes, y) = 1 + Cardinality(B)
    BY DEF PageOf, MarksBefore
  <2> QED
    BY <1>10, <2>1, <2>2
<1>13. Cardinality(B \ {x}) \in Nat
  <2> HIDE DEF B, x
  <2>1. IsFiniteSet(B \ {x})
    BY <1>2, FS_RemoveElement
  <2> QED
    BY <2>1, FS_CardinalityType
<1>14. x \in M
  <2> HIDE DEF B, M, x
  <2> QED
    BY <1>2, <1>8
<1> HIDE DEF x, B
<1> QED
  BY <1>11, <1>12, <1>13, <1>14

(* The marker of page 1 opens the first section, so what its shape says    *)
(* stands one place later there.                                           *)
Opening(s) == IF s = 1 THEN 1 ELSE 0

(* What the shape of a section says at a place.                            *)
Atom(shapes, s, i) ==
  IF shapes[s][i] = "p" THEN Page(PageOf(shapes, <<s, i>>) + 1) ELSE Word(<<s, i>>)

(* A section's body is what its shape says, after the marker that opens    *)
(* the text.                                                               *)
LEMMA BodyAtoms ==
  ASSUME NEW d \in Documents, NEW s \in 1..Len(d.trails)
  PROVE  /\ Body(d.shapes, s) \in Seq(Atoms)
         /\ \A i \in 1..Len(d.shapes[s]) : /\ Atom(d.shapes, s, i) \in Atoms
              /\ Opening(s) + i \in 1..Len(Body(d.shapes, s))
              /\ Body(d.shapes, s)[Opening(s) + i] = Atom(d.shapes, s, i)
         /\ s = 1 => 1 \in 1..Len(Body(d.shapes, s)) /\ Body(d.shapes, s)[1] = Page(1)
         /\ \A p \in 1..Len(Body(d.shapes, s)) :
              \/ s = 1 /\ p = 1
              \/ \E i \in 1..Len(d.shapes[s]) : p = Opening(s) + i
<1> DEFINE first == IF s = 1 THEN <<Page(1)>> ELSE <<>>
           rest == [i \in DOMAIN d.shapes[s] |-> Atom(d.shapes, s, i)]
           l == Len(d.shapes[s])
<1>1. Body(d.shapes, s) = first \o rest
  BY DEF Body, Atom
<1>2. l \in Nat /\ DOMAIN d.shapes[s] = 1..l /\ s \in Nat
  BY DocumentShape
<1>3. ASSUME NEW i \in 1..l
      PROVE  Atom(d.shapes, s, i) \in Atoms
  <2>1. <<s, i>> \in Nat \X Nat
    BY <1>2
  <2>2. PageOf(d.shapes, <<s, i>>) + 1 \in Nat \ {0}
    BY <2>1, PagesCount
  <2> QED
    BY <2>1, <2>2 DEF Atom, Atoms, Page, Word
<1>4. /\ first \in Seq(Atoms) /\ Len(first) = Opening(s)
      /\ s = 1 => first[1] = Page(1)
  <2>1. Page(1) \in Atoms
    BY DEF Atoms, Page
  <2>2. CASE s = 1
    <3>1. first = <<Page(1)>> /\ Opening(s) = 1
      BY <2>2 DEF Opening
    <3> HIDE DEF first
    <3> QED
      BY <2>1, <3>1
  <2>3. CASE s # 1
    <3>1. first = <<>> /\ Opening(s) = 0
      BY <2>3 DEF Opening
    <3> HIDE DEF first
    <3> QED
      BY <2>3, <3>1
  <2> QED
    BY <2>2, <2>3
<1>5. rest \in Seq(Atoms) /\ Len(rest) = l /\ \A i \in 1..l : rest[i] = Atom(d.shapes, s, i)
  <2> HIDE DEF l
  <2>1. rest = [i \in 1..l |-> Atom(d.shapes, s, i)]
    BY <1>2
  <2> HIDE DEF rest
  <2> QED
    BY <1>2, <1>3, <2>1
<1>6. Opening(s) \in {0, 1} /\ (s = 1 <=> Opening(s) = 1)
  BY DEF Opening
<1> HIDE DEF first, rest, l
<1>7. /\ first \o rest \in Seq(Atoms) /\ Len(first \o rest) = Opening(s) + l
      /\ \A p \in 1..(Opening(s) + l) :
           (first \o rest)[p] = IF p <= Opening(s) THEN first[p] ELSE rest[p - Opening(s)]
  BY <1>2, <1>4, <1>5, <1>6
<1>8. ASSUME NEW i \in 1..l
      PROVE  /\ Opening(s) + i \in 1..(Opening(s) + l)
             /\ (first \o rest)[Opening(s) + i] = Atom(d.shapes, s, i)
  <2>1. /\ Opening(s) + i \in 1..(Opening(s) + l)
        /\ ~ (Opening(s) + i <= Opening(s)) /\ (Opening(s) + i) - Opening(s) = i
    BY <1>2, <1>6
  <2> QED
    BY <1>5, <1>7, <2>1
<1>9. s = 1 => 1 \in 1..(Opening(s) + l) /\ (first \o rest)[1] = Page(1)
  BY <1>2, <1>4, <1>6, <1>7
<1>10. ASSUME NEW p \in 1..(Opening(s) + l)
       PROVE  \/ s = 1 /\ p = 1
              \/ \E i \in 1..l : p = Opening(s) + i
  <2>1. CASE p <= Opening(s)
    BY <1>2, <1>6, <2>1
  <2>2. CASE ~ (p <= Opening(s))
    <3>1. p - Opening(s) \in 1..l /\ p = Opening(s) + (p - Opening(s))
      BY <1>2, <1>6, <2>2
    <3> QED
      BY <3>1
  <2> QED
    BY <2>1, <2>2
<1> QED
  BY <1>1, <1>3, <1>7, <1>8, <1>9, <1>10 DEF l

(* What stands earlier precedes what stands later.                         *)
LEMMA PlacedAtoms ==
  ASSUME NEW d \in Documents,
         NEW s \in 1..Len(d.trails), NEW i \in 1..Len(d.shapes[s]),
         NEW t \in 1..Len(d.trails), NEW j \in 1..Len(d.shapes[t]),
         Earlier(<<s, i>>, <<t, j>>)
  PROVE  Precedes(d.shapes, Atom(d.shapes, s, i), Atom(d.shapes, t, j))
<1> DEFINE x == <<s, i>>
           y == <<t, j>>
           m == PageOf(d.shapes, x)
           n == PageOf(d.shapes, y)
<1>1. x \in Nat \X Nat /\ y \in Nat \X Nat
  BY DocumentShape
<1>2. /\ m \in Nat \ {0} /\ n \in Nat \ {0} /\ m <= n
      /\ x \in MarkedPlaces(d.shapes) => m < n
  <2> HIDE DEF x, y
  <2> QED
    BY <1>1, PagesCount DEF x, y
<1>3. d.shapes[s][i] = "p" => x \in MarkedPlaces(d.shapes)
  BY MarksAreFinite
<1>4. /\ Atom(d.shapes, s, i) = IF d.shapes[s][i] = "p" THEN Page(m + 1) ELSE Word(x)
      /\ Atom(d.shapes, t, j) = IF d.shapes[t][j] = "p" THEN Page(n + 1) ELSE Word(y)
  BY DEF Atom
<1> DEFINE a == Atom(d.shapes, s, i)
           b == Atom(d.shapes, t, j)
<1>5. /\ (a.type = "page" /\ a.of = m + 1 /\ m < n) \/ (a.type = "word" /\ a.of = x)
      /\ (b.type = "page" /\ b.of = n + 1) \/ (b.type = "word" /\ b.of = y)
  <2> HIDE DEF m, n, x, y, a, b
  <2>1. (a = Page(m + 1) /\ m < n) \/ a = Word(x)
    BY <1>2, <1>3, <1>4 DEF a
  <2>2. b = Page(n + 1) \/ b = Word(y)
    BY <1>4 DEF b
  <2> QED
    BY <2>1, <2>2 DEF Page, Word
<1>6. PageOf(d.shapes, x) = m /\ PageOf(d.shapes, y) = n /\ Earlier(x, y)
  OBVIOUS
<1> HIDE DEF a, b, m, n, x, y
<1>7. Precedes(d.shapes, a, b)
  BY <1>2, <1>5, <1>6 DEF Precedes
<1> QED
  BY <1>7 DEF a, b

(* A document is in order, across its sections and within each.            *)
LEMMA DocumentOrder ==
  ASSUME NEW d \in Documents,
         NEW s \in 1..Len(d.trails), NEW p \in 1..Len(Body(d.shapes, s)),
         NEW t \in 1..Len(d.trails), NEW q \in 1..Len(Body(d.shapes, t)),
         s < t \/ (s = t /\ p < q)
  PROVE  Precedes(d.shapes, Body(d.shapes, s)[p], Body(d.shapes, t)[q])
<1>1. \A u \in 1..Len(d.trails) : Len(d.shapes[u]) \in Nat
  BY DocumentShape
<1>2. ~ (t = 1 /\ q = 1)
  <2>1. Len(Body(d.shapes, s)) \in Nat /\ Len(d.trails) \in Nat
    BY BodyAtoms, DocumentShape
  <2> QED
    BY <2>1
<1>3. PICK j \in 1..Len(d.shapes[t]) : q = Opening(t) + j
  BY <1>2, BodyAtoms
<1>4. Body(d.shapes, t)[q] = Atom(d.shapes, t, j)
  BY <1>3, BodyAtoms
<1>5. CASE s = 1 /\ p = 1
  <2>1. Body(d.shapes, s)[p] = Page(1)
    BY <1>5, BodyAtoms
  <2>2. <<t, j>> \in Nat \X Nat
    BY <1>1, DocumentShape
  <2>3. PageOf(d.shapes, <<t, j>>) \in Nat \ {0}
    BY <2>2, PagesCount
  <2> QED
    BY <1>4, <2>1, <2>3 DEF Precedes, Page, Word, Atom
<1>6. ASSUME NEW i \in 1..Len(d.shapes[s]), p = Opening(s) + i
      PROVE  Precedes(d.shapes, Body(d.shapes, s)[p], Body(d.shapes, t)[q])
  <2>1. Body(d.shapes, s)[p] = Atom(d.shapes, s, i)
    BY <1>6, BodyAtoms
  <2>2. Earlier(<<s, i>>, <<t, j>>)
    <3>1. s = t => i < j
      BY <1>1, <1>3, <1>6 DEF Opening
    <3> QED
      BY <3>1 DEF Earlier
  <2> QED
    BY <1>4, <2>1, <2>2, PlacedAtoms
<1> QED
  BY <1>5, <1>6, BodyAtoms

(* A word knows its section, and the marker of its page is in the document. *)
LEMMA WordHasMarker ==
  ASSUME NEW d \in Documents,
         NEW s \in 1..Len(d.trails), NEW p \in 1..Len(Body(d.shapes, s)),
         Body(d.shapes, s)[p].type = "word"
  PROVE  /\ Body(d.shapes, s)[p].of \in Nat \X Nat
         /\ Body(d.shapes, s)[p].of[1] = s
         /\ \E t \in 1..Len(d.trails) : \E q \in 1..Len(Body(d.shapes, t)) :
              Body(d.shapes, t)[q] = Page(PageOf(d.shapes, Body(d.shapes, s)[p].of))
<1>1. ~ (s = 1 /\ p = 1)
  BY BodyAtoms DEF Page
<1>2. PICK i \in 1..Len(d.shapes[s]) : p = Opening(s) + i
  BY <1>1, BodyAtoms
<1>3. Body(d.shapes, s)[p] = Word(<<s, i>>)
  <2>1. Atom(d.shapes, s, i).type = "word"
    BY <1>2, BodyAtoms
  <2>2. Page(PageOf(d.shapes, <<s, i>>) + 1).type = "page"
    BY DEF Page
  <2>3. Atom(d.shapes, s, i) = Word(<<s, i>>)
    BY <2>1, <2>2 DEF Atom
  <2> QED
    BY <1>2, <2>3, BodyAtoms
<1> DEFINE w == <<s, i>>
<1>4. w \in Nat \X Nat
  BY DocumentShape
<1>5. CASE PageOf(d.shapes, w) = 1
  <2>1. 1 \in 1..Len(d.trails)
    BY DocumentShape
  <2>2. 1 \in 1..Len(Body(d.shapes, 1)) /\ Body(d.shapes, 1)[1] = Page(1)
    BY <2>1, BodyAtoms
  <2> QED
    BY <1>3, <1>4, <1>5, <2>1, <2>2 DEF Word
<1>6. CASE PageOf(d.shapes, w) # 1
  <2> HIDE DEF w
  <2>1. PICK x \in MarkedPlaces(d.shapes) : PageOf(d.shapes, w) = PageOf(d.shapes, x) + 1
    BY <1>4, <1>6, PageHasMarker
  <2>2. x \in (1..Len(d.trails)) \X Nat
    BY MarksAreFinite
  <2>3. PICK t \in 1..Len(d.trails), k \in Nat : x = <<t, k>>
    BY <2>2
  <2>4. k \in 1..Len(d.shapes[t]) /\ d.shapes[t][k] = "p"
    BY <2>3, MarksAreFinite
  <2>5. Atom(d.shapes, t, k) = Page(PageOf(d.shapes, w))
    BY <2>1, <2>3, <2>4 DEF Atom
  <2>6. /\ Opening(t) + k \in 1..Len(Body(d.shapes, t))
        /\ Body(d.shapes, t)[Opening(t) + k] = Page(PageOf(d.shapes, w))
    BY <2>4, <2>5, BodyAtoms
  <2>7. Body(d.shapes, s)[p].of = w /\ w[1] = s
    BY <1>3 DEF Word, w
  <2> QED
    BY <1>4, <2>6, <2>7
<1> QED
  BY <1>5, <1>6

-----------------------------------------------------------------------------
(* Merging small sections.                                                 *)

(* The sections that the loops handle.                                     *)
SectionSet == [trail : Seq(AllHeadings), body : Seq(Atoms), junk : BOOLEAN]

(* A body in the order of the text.                                        *)
InOrder(shapes, body) ==
  \A p, q \in 1..Len(body) : p < q => Precedes(shapes, body[p], body[q])

(* A chunk may be cited under this trail for what section s says.          *)
TrailFits(d, trail, s) ==
  \/ trail = d.trails[s]
  \/ /\ Len(Body(d.shapes, s)) < MinChunk
     /\ Len(d.trails[s]) > 1
     /\ trail = Front(d.trails[s])

(* All that x says, but for headings, comes from the sections after m up   *)
(* to n, and is theirs in trail and in being junk.                         *)
Drawn(d, x, m, n) ==
  \A q \in 1..Len(x.body) :
    \/ x.body[q].type = "heading"
    \/ \E s \in (m + 1)..n : \E p \in 1..Len(Body(d.shapes, s)) :
         /\ x.body[q] = Body(d.shapes, s)[p]
         /\ x.junk = IsJunk(d.trails[s])
         /\ TrailFits(d, x.trail, s)

(* x says all that section s does, and is junk when s is.                  *)
Holds(d, x, s) ==
  \A p \in 1..Len(Body(d.shapes, s)) : \E q \in 1..Len(x.body) :
    x.body[q] = Body(d.shapes, s)[p] /\ x.junk = IsJunk(d.trails[s])

(* x says what the sections after m up to n do, in order, and nothing else *)
(* but headings.                                                           *)
Spans(d, x, m, n) ==
  /\ x \in SectionSet
  /\ InOrder(d.shapes, x.body)
  /\ Drawn(d, x, m, n)
  /\ \A s \in (m + 1)..n : Holds(d, x, s)

(* What has been merged of the first n sections.                           *)
Merged(d, M, n) ==
  /\ M \in Seq(SectionSet)
  /\ \A j \in 1..Len(M) : InOrder(d.shapes, M[j].body) /\ Drawn(d, M[j], 0, n)
  /\ \A j, k \in 1..Len(M) : j < k =>
       \A p \in 1..Len(M[j].body), q \in 1..Len(M[k].body) :
         Precedes(d.shapes, M[j].body[p], M[k].body[q])
  /\ \A s \in 1..n : \A p \in 1..Len(Body(d.shapes, s)) :
       \E j \in 1..Len(M) : \E q \in 1..Len(M[j].body) :
         M[j].body[q] = Body(d.shapes, s)[p] /\ M[j].junk = IsJunk(d.trails[s])

(* Judging a document's sections leaves their trails and bodies alone.     *)
LEMMA JudgedSections ==
  ASSUME NEW d \in Documents
  PROVE  /\ Judged(Sections(d)) \in Seq(SectionSet)
         /\ Len(Judged(Sections(d))) = Len(d.trails)
         /\ \A s \in 1..Len(d.trails) :
              /\ Judged(Sections(d))[s].trail = d.trails[s]
              /\ Judged(Sections(d))[s].body = Body(d.shapes, s)
              /\ Judged(Sections(d))[s].junk = IsJunk(d.trails[s])
<1> DEFINE n == Len(d.trails)
           J == Judged(Sections(d))
           Sec(s) == [trail |-> d.trails[s], body |-> Body(d.shapes, s),
                      junk |-> IsJunk(d.trails[s])]
<1>1. n \in Nat /\ DOMAIN d.trails = 1..n
  BY DocumentShape
<1>2. Sections(d) = [s \in 1..n |-> [trail |-> d.trails[s], body |-> Body(d.shapes, s)]]
  BY <1>1 DEF Sections
<1>3. J = [s \in 1..n |-> Sec(s)]
  BY <1>2 DEF Judged
<1>4. \A s \in 1..n : Sec(s) \in SectionSet
  <2> TAKE s \in 1..n
  <2>1. d.trails[s] \in Seq(AllHeadings)
    BY DocumentShape
  <2>2. Body(d.shapes, s) \in Seq(Atoms)
    BY BodyAtoms
  <2>3. IsJunk(d.trails[s]) \in BOOLEAN
    BY DEF IsJunk
  <2> QED
    BY <2>1, <2>2, <2>3 DEF SectionSet
<1>5. J \in Seq(SectionSet) /\ Len(J) = n /\ \A s \in 1..n : J[s] = Sec(s)
  <2> HIDE DEF n, J, Sec
  <2> QED
    BY <1>1, <1>3, <1>4
<1> HIDE DEF J
<1>6. \A s \in 1..n : J[s].trail = d.trails[s] /\ J[s].body = Body(d.shapes, s)
                     /\ J[s].junk = IsJunk(d.trails[s])
  <2> TAKE s \in 1..n
  <2>1. J[s] = Sec(s)
    BY <1>5
  <2>2. /\ Sec(s).trail = d.trails[s] /\ Sec(s).body = Body(d.shapes, s)
        /\ Sec(s).junk = IsJunk(d.trails[s])
    BY Zenon
  <2> HIDE DEF Sec
  <2> QED
    BY <2>1, <2>2, Zenon
<1> QED
  BY <1>5, <1>6 DEF J

(* A section taken as it is.                                               *)
LEMMA SpansItself ==
  ASSUME NEW d \in Documents, NEW n \in 1..Len(d.trails),
         NEW x \in SectionSet, x.trail = d.trails[n], x.body = Body(d.shapes, n),
         x.junk = IsJunk(d.trails[n])
  PROVE  Spans(d, x, n - 1, n)
<1>1. n \in (n - 1 + 1)..n /\ \A s \in (n - 1 + 1)..n : s = n
  BY DocumentShape
<1>2. InOrder(d.shapes, x.body)
  BY DocumentOrder DEF InOrder
<1>3. Drawn(d, x, n - 1, n)
  BY <1>1 DEF Drawn, TrailFits
<1>4. \A s \in (n - 1 + 1)..n : Holds(d, x, s)
  BY <1>1 DEF Holds
<1> QED
  BY <1>2, <1>3, <1>4 DEF Spans

(* What has been merged of m sections, with a section that spans those up  *)
(* to n, is what has been merged of n.                                     *)
LEMMA MergedAppend ==
  ASSUME NEW d \in Documents, NEW m \in Nat, NEW n \in Nat, m <= n, n <= Len(d.trails),
         NEW M, Merged(d, M, m), NEW x, Spans(d, x, m, n)
  PROVE  Merged(d, Append(M, x), n)
<1> DEFINE l == Len(M)
           A == Append(M, x)
           S == d.shapes
<1>1. /\ l \in Nat /\ A \in Seq(SectionSet) /\ Len(A) = l + 1
      /\ \A j \in 1..l : A[j] = M[j]
      /\ A[l + 1] = x
      /\ Len(d.trails) \in Nat
  <2>1. M \in Seq(SectionSet) /\ x \in SectionSet
    BY DEF Merged, Spans
  <2> QED
    BY <2>1, DocumentShape
<1>2. \A j \in 1..(l + 1) : j \in 1..l \/ j = l + 1
  BY <1>1
<1> HIDE DEF A, l
<1>3. /\ \A j \in 1..l : InOrder(S, M[j].body) /\ Drawn(d, M[j], 0, m)
      /\ \A j, k \in 1..l : j < k =>
           \A p \in 1..Len(M[j].body), q \in 1..Len(M[k].body) :
             Precedes(S, M[j].body[p], M[k].body[q])
      /\ \A s \in 1..m : \A p \in 1..Len(Body(S, s)) :
           \E j \in 1..l : \E q \in 1..Len(M[j].body) :
             M[j].body[q] = Body(S, s)[p] /\ M[j].junk = IsJunk(d.trails[s])
  BY DEF Merged, l
<1>4. InOrder(S, x.body) /\ Drawn(d, x, m, n) /\ \A s \in (m + 1)..n : Holds(d, x, s)
  BY DEF Spans
<1>5. \A j \in 1..(l + 1) : InOrder(S, A[j].body) /\ Drawn(d, A[j], 0, n)
  <2> TAKE j \in 1..(l + 1)
  <2>1. CASE j \in 1..l
    <3>1. \A s \in (0 + 1)..m : s \in (0 + 1)..n
      OBVIOUS
    <3>2. Drawn(d, M[j], 0, m)
      BY <1>3, <2>1
    <3>3. Drawn(d, M[j], 0, n)
      BY <3>1, <3>2 DEF Drawn
    <3> QED
      BY <1>1, <1>3, <2>1, <3>3
  <2>2. CASE j = l + 1
    <3>1. \A s \in (m + 1)..n : s \in (0 + 1)..n
      OBVIOUS
    <3>2. Drawn(d, x, 0, n)
      BY <1>4, <3>1 DEF Drawn
    <3> QED
      BY <1>1, <1>4, <2>2, <3>2
  <2> QED
    BY <1>2, <2>1, <2>2
<1>6. ASSUME NEW j \in 1..(l + 1), NEW k \in 1..(l + 1), j < k,
             NEW p \in 1..Len(A[j].body), NEW q \in 1..Len(A[k].body)
      PROVE  Precedes(S, A[j].body[p], A[k].body[q])
  <2>1. j \in 1..l /\ (k \in 1..l \/ k = l + 1)
    BY <1>1, <1>6
  <2>2. CASE k \in 1..l
    BY <1>1, <1>3, <1>6, <2>1, <2>2
  <2>3. CASE k = l + 1
    <3>1. A[j] = M[j] /\ A[k] = x
      BY <1>1, <2>1, <2>3
    <3>2. CASE A[j].body[p].type = "heading" \/ A[k].body[q].type = "heading"
      BY <3>2 DEF Precedes
    <3>3. CASE A[j].body[p].type # "heading" /\ A[k].body[q].type # "heading"
      <4>1. PICK s \in (0 + 1)..m : \E u \in 1..Len(Body(S, s)) :
              A[j].body[p] = Body(S, s)[u]
        <5>1. Drawn(d, M[j], 0, m)
          BY <1>3, <2>1
        <5> QED
          BY <3>1, <3>3, <5>1 DEF Drawn
      <4>2. PICK u \in 1..Len(Body(S, s)) : A[j].body[p] = Body(S, s)[u]
        BY <4>1
      <4>3. PICK t \in (m + 1)..n : \E v \in 1..Len(Body(S, t)) :
              A[k].body[q] = Body(S, t)[v]
        BY <1>4, <3>1, <3>3 DEF Drawn
      <4>4. PICK v \in 1..Len(Body(S, t)) : A[k].body[q] = Body(S, t)[v]
        BY <4>3
      <4>5. s \in 1..Len(d.trails) /\ t \in 1..Len(d.trails) /\ s < t
        BY <1>1
      <4> QED
        BY <4>2, <4>4, <4>5, DocumentOrder
    <3> QED
      BY <3>2, <3>3
  <2> QED
    BY <2>1, <2>2, <2>3
<1>7. ASSUME NEW s \in 1..n, NEW p \in 1..Len(Body(S, s))
      PROVE  \E j \in 1..(l + 1) : \E q \in 1..Len(A[j].body) :
               A[j].body[q] = Body(S, s)[p] /\ A[j].junk = IsJunk(d.trails[s])
  <2>1. CASE s \in 1..m
    <3>1. PICK j \in 1..l : \E q \in 1..Len(M[j].body) :
            M[j].body[q] = Body(S, s)[p] /\ M[j].junk = IsJunk(d.trails[s])
      BY <1>3, <2>1
    <3>2. A[j] = M[j] /\ j \in 1..(l + 1)
      BY <1>1
    <3> QED
      BY <3>1, <3>2
  <2>2. CASE s \in (m + 1)..n
    <3>1. Holds(d, x, s)
      BY <1>4, <2>2
    <3>2. A[l + 1] = x /\ l + 1 \in 1..(l + 1)
      BY <1>1
    <3> QED
      BY <3>1, <3>2 DEF Holds
  <2> QED
    BY <2>1, <2>2
<1>8. Merged(d, A, n)
  BY <1>1, <1>5, <1>6, <1>7 DEF Merged
<1> QED
  BY <1>8 DEF A

-----------------------------------------------------------------------------
(* The run of small sections that the loop holds.                          *)

(* The runs that the loop may hold.                                        *)
RunSet == [parts : Seq(SectionSet), trail : Seq(AllHeadings), len : Nat]

(* The run that is held after n sections is the last of them, none junk;   *)
(* two or more are small and share a parent.                               *)
RunHolds(d, run, n) ==
  /\ run \in RunSet
  /\ Len(run.parts) <= n
  /\ \A i \in 1..Len(run.parts) :
       /\ run.parts[i].trail = d.trails[n - Len(run.parts) + i]
       /\ run.parts[i].body = Body(d.shapes, n - Len(run.parts) + i)
       /\ ~ IsJunk(d.trails[n - Len(run.parts) + i])
       /\ run.parts[i].junk = IsJunk(d.trails[n - Len(run.parts) + i])
  /\ Len(run.parts) # 0 => run.trail = run.parts[1].trail
  /\ Len(run.parts) = 1 => run.len = Len(run.parts[1].body)
  /\ Len(run.parts) > 1 =>
       /\ Parent(run.trail) # <<>>
       /\ \A i \in 1..Len(run.parts) :
            Len(run.parts[i].body) < MinChunk /\ Parent(run.parts[i].trail) = Parent(run.trail)

(* The parts of a run, each with its own heading in front.                 *)
Lines(run) == [i \in DOMAIN run.parts |-> Own(run.parts[i].trail) \o run.parts[i].body]

(* The section that a run of several parts is flushed as.                  *)
Joined(run) ==
  [trail |-> Parent(run.trail), junk |-> FALSE, body |-> FlattenSeq(Lines(run))]

(* A trail whose parent has a heading has two or more, and its parent is   *)
(* its front.                                                              *)
LEMMA ParentOf ==
  ASSUME NEW trail \in Seq(AllHeadings), Parent(trail) # <<>>
  PROVE  /\ Len(trail) > 1 /\ Parent(trail) = Front(trail)
         /\ Parent(trail) \in Seq(AllHeadings)
         /\ Own(trail) \in Seq(Atoms) /\ Len(Own(trail)) = 1
         /\ Own(trail)[1].type = "heading"
<1>1. trail # <<>> /\ Parent(trail) = Front(trail)
  BY DEF Parent
<1>2. Len(trail) \in Nat \ {0} /\ trail[Len(trail)] \in AllHeadings
  BY <1>1
<1>3. Front(trail) = SubSeq(trail, 1, Len(trail) - 1)
  BY DEF Front
<1>4. Len(trail) = 1 => Front(trail) = <<>>
  BY <1>2, <1>3
<1>5. Front(trail) \in Seq(AllHeadings)
  BY <1>2, <1>3
<1> DEFINE h == Heading(Last(trail))
<1>6. h \in Atoms
  BY <1>2 DEF Last, Heading, Atoms
<1>7. h.type = "heading"
  BY DEF Heading
<1>8. Own(trail) = <<h>>
  BY DEF Own
<1> HIDE DEF h
<1>9. Own(trail) \in Seq(Atoms) /\ Len(Own(trail)) = 1 /\ Own(trail)[1].type = "heading"
  BY <1>6, <1>7, <1>8
<1>10. Len(trail) > 1
  <2>1. Len(trail) # 1
    BY <1>1, <1>4, Zenon
  <2> DEFINE l == Len(trail)
  <2>2. l \in Nat \ {0} /\ l # 1
    BY <1>2, <2>1
  <2> HIDE DEF l
  <2>3. l > 1
    BY <2>2
  <2> QED
    BY <2>3 DEF l
<1> QED
  BY <1>1, <1>5, <1>9, <1>10

(* What stands where in two sequences put together.                        *)
LEMMA Concatenation ==
  ASSUME NEW B, NEW h \in Seq(B), NEW b \in Seq(B)
  PROVE  /\ Len(b) \in Nat /\ h \o b \in Seq(B) /\ Len(h \o b) = Len(h) + Len(b)
         /\ \A p \in 1..(Len(h) + Len(b)) :
              (h \o b)[p] = IF p <= Len(h) THEN h[p] ELSE b[p - Len(h)]
  OBVIOUS

(* What stands where in a sequence with one element put before it.         *)
LEMMA OneBefore ==
  ASSUME NEW B, NEW h \in Seq(B), NEW b \in Seq(B), Len(h) = 1
  PROVE  /\ h \o b \in Seq(B) /\ Len(h \o b) = Len(b) + 1
         /\ (h \o b)[1] = h[1]
         /\ \A p \in 1..Len(b) : (h \o b)[p + 1] = b[p]
<1> DEFINE l == Len(h)
<1>1. /\ Len(b) \in Nat /\ h \o b \in Seq(B) /\ Len(h \o b) = l + Len(b)
      /\ \A p \in 1..(l + Len(b)) : (h \o b)[p] = IF p <= l THEN h[p] ELSE b[p - l]
  BY Concatenation
<1>2. l = 1
  OBVIOUS
<1> HIDE DEF l
<1>3. Len(b) \in Nat /\ h \o b \in Seq(B) /\ Len(h \o b) = Len(b) + 1
  BY <1>1, <1>2
<1>4. \A p \in 1..(Len(b) + 1) : (h \o b)[p] = IF p <= 1 THEN h[p] ELSE b[p - 1]
  BY <1>1, <1>2
<1>5. (h \o b)[1] = h[1]
  BY <1>3, <1>4
<1>6. \A p \in 1..Len(b) : (h \o b)[p + 1] = b[p]
  <2> TAKE p \in 1..Len(b)
  <2>1. p + 1 \in 1..(Len(b) + 1) /\ ~ (p + 1 <= 1) /\ (p + 1) - 1 = p
    BY <1>3
  <2> QED
    BY <1>4, <2>1
<1> QED
  BY <1>3, <1>5, <1>6

(* Each part with a line before it. *)
Headed(parts, ss) ==
  /\ ss \in Seq(Seq(Atoms)) /\ Len(ss) = Len(parts)
  /\ \A i \in 1..Len(parts) :
       /\ Len(ss[i]) = Len(parts[i].body) + 1
       /\ ss[i][1].type = "heading"
       /\ \A p \in 1..Len(parts[i].body) : ss[i][p + 1] = parts[i].body[p]

(* The lines of a run are its parts, each under one heading.               *)
LEMMA LinesOfRun ==
  ASSUME NEW d \in Documents, NEW n \in 0..Len(d.trails), NEW run,
         RunHolds(d, run, n), Len(run.parts) > 1
  PROVE  Headed(run.parts, Lines(run))
<1> DEFINE k == Len(run.parts)
           Line(i) == Own(run.parts[i].trail) \o run.parts[i].body
<1>1. k \in Nat /\ DOMAIN run.parts = 1..k
      /\ \A i \in 1..k : run.parts[i] \in SectionSet
  BY DEF RunHolds, RunSet
<1>2. Lines(run) = [i \in 1..k |-> Line(i)]
  BY <1>1 DEF Lines
<1>3. ASSUME NEW i \in 1..k
      PROVE  /\ Line(i) \in Seq(Atoms)
             /\ Len(Line(i)) = Len(run.parts[i].body) + 1
             /\ Line(i)[1].type = "heading"
             /\ \A p \in 1..Len(run.parts[i].body) : Line(i)[p + 1] = run.parts[i].body[p]
  <2> DEFINE h == Own(run.parts[i].trail)
             b == run.parts[i].body
  <2>1. run.parts[i].trail \in Seq(AllHeadings) /\ b \in Seq(Atoms)
    BY <1>1 DEF SectionSet
  <2>2. Parent(run.parts[i].trail) # <<>>
    BY DEF RunHolds
  <2>3. h \in Seq(Atoms) /\ Len(h) = 1 /\ h[1].type = "heading"
    BY <2>1, <2>2, ParentOf
  <2> HIDE DEF h, b
  <2>4. /\ h \o b \in Seq(Atoms) /\ Len(h \o b) = Len(b) + 1 /\ (h \o b)[1] = h[1]
        /\ \A p \in 1..Len(b) : (h \o b)[p + 1] = b[p]
    BY <2>1, <2>3, OneBefore
  <2> QED
    BY <2>3, <2>4 DEF h, b
<1> HIDE DEF Line
<1>4. Lines(run) \in Seq(Seq(Atoms)) /\ Len(Lines(run)) = k
      /\ \A i \in 1..k : Lines(run)[i] = Line(i)
  <2> HIDE DEF k
  <2> QED
    BY <1>1, <1>2, <1>3
<1> QED
  BY <1>3, <1>4 DEF Headed

(* Flushing a run of several parts makes one section that spans them:      *)
(* nothing lost, in order, under a trail that fits each.                   *)
LEMMA JoinedSpans ==
  ASSUME NEW d \in Documents, NEW n \in 0..Len(d.trails), NEW run,
         RunHolds(d, run, n), Len(run.parts) > 1
  PROVE  Spans(d, Joined(run), n - Len(run.parts), n)
<1> DEFINE k == Len(run.parts)
           m == n - k
           ss == Lines(run)
           flat == FlattenSeq(ss)
           x == Joined(run)
           S == d.shapes
<1>1. /\ k \in Nat /\ k > 1 /\ k <= n /\ n \in Nat /\ m \in Nat /\ n <= Len(d.trails)
      /\ Len(d.trails) \in Nat
      /\ run.trail \in Seq(AllHeadings) /\ Parent(run.trail) # <<>>
      /\ \A i \in 1..k : run.parts[i].body \in Seq(Atoms) /\ run.parts[i].trail \in Seq(AllHeadings)
  <2>1. run \in RunSet /\ k <= n /\ Parent(run.trail) # <<>>
    BY DEF RunHolds
  <2>2. run.parts \in Seq(SectionSet) /\ run.trail \in Seq(AllHeadings)
    BY <2>1 DEF RunSet
  <2>3. \A i \in 1..k : run.parts[i] \in SectionSet
    BY <2>2
  <2> QED
    BY <2>1, <2>2, <2>3, DocumentShape DEF SectionSet
<1>2. Headed(run.parts, Lines(run))
  BY LinesOfRun
<1> HIDE DEF x, flat, m, ss, k
<1>3. ss \in Seq(Seq(Atoms)) /\ Len(ss) = k
  BY <1>2 DEF ss, k, Headed
<1>4. \A i \in 1..k : /\ Len(ss[i]) = Len(run.parts[i].body) + 1
                       /\ Len(run.parts[i].body) \in Nat
                       /\ ss[i][1].type = "heading"
  <2> TAKE i \in 1..k
  <2>1. Len(ss[i]) = Len(run.parts[i].body) + 1 /\ ss[i][1].type = "heading"
    BY <1>2, Zenon DEF ss, k, Headed
  <2>2. run.parts[i].body \in Seq(Atoms)
    BY <1>1
  <2> QED
    BY <2>1, <2>2
<1>5. \A i \in 1..k : \A p \in 1..Len(run.parts[i].body) : ss[i][p + 1] = run.parts[i].body[p]
  BY <1>2, Zenon DEF ss, k, Headed
<1> USE DEF x, flat, m, ss, k
<1>6. \A i \in 1..k :
        /\ m + i \in 1..Len(d.trails) /\ m + i \in (m + 1)..n
        /\ run.parts[i].body = Body(S, m + i)
        /\ run.parts[i].trail = d.trails[m + i]
        /\ ~ IsJunk(d.trails[m + i])
        /\ Len(run.parts[i].body) < MinChunk
        /\ Parent(run.parts[i].trail) = Parent(run.trail)
  <2>1. \A i \in 1..k : m + i \in 1..Len(d.trails) /\ m + i \in (m + 1)..n
    <3> HIDE DEF k
    <3> QED
      BY <1>1
  <2> QED
    BY <1>1, <2>1 DEF RunHolds
<1>7. \A s \in (m + 1)..n : s - m \in 1..k /\ m + (s - m) = s
  <2> HIDE DEF k
  <2> QED
    BY <1>1
<1>8. flat \in Seq(Atoms) /\ \E place : Flattens(ss, k, flat, place)
  <2> HIDE DEF ss, k
  <2> QED
    BY <1>3, Flattened
<1>9. PICK place : Flattens(ss, k, flat, place)
  BY <1>8
<1>10. x.trail = Parent(run.trail) /\ x.junk = FALSE /\ x.body = flat
  BY DEF Joined
<1>11. x \in SectionSet
  <2>1. Parent(run.trail) \in Seq(AllHeadings)
    BY <1>1, ParentOf
  <2> QED
    BY <1>8, <2>1 DEF Joined, SectionSet
<1> HIDE DEF x, flat, ss, m, k
<1>12. \A p \in 1..Len(flat) :
        /\ place[p] \in Nat \X Nat
        /\ place[p][1] \in 1..k
        /\ place[p][2] \in 1..Len(ss[place[p][1]])
        /\ flat[p] = ss[place[p][1]][place[p][2]]
  BY <1>9 DEF Flattens
<1>13. ASSUME NEW p \in 1..Len(flat)
       PROVE  \/ flat[p].type = "heading"
              \/ /\ place[p][2] - 1 \in 1..Len(Body(S, m + place[p][1]))
                 /\ flat[p] = Body(S, m + place[p][1])[place[p][2] - 1]
  <2> DEFINE i == place[p][1]
             c == place[p][2]
  <2>1. i \in 1..k /\ c \in 1..Len(ss[i]) /\ flat[p] = ss[i][c]
    BY <1>12
  <2> HIDE DEF i, c
  <2>2. run.parts[i].body = Body(S, m + i) /\ Len(ss[i]) = Len(run.parts[i].body) + 1
        /\ Len(run.parts[i].body) \in Nat
    BY <1>4, <1>6, <2>1
  <2>3. CASE c = 1
    BY <1>4, <2>1, <2>3
  <2>4. CASE c # 1
    <3>1. c - 1 \in 1..Len(run.parts[i].body) /\ (c - 1) + 1 = c
      BY <2>1, <2>2, <2>4
    <3>2. ss[i][c] = run.parts[i].body[c - 1]
      BY <1>5, <2>1, <3>1
    <3> QED
      BY <2>1, <2>2, <3>1, <3>2 DEF i, c
  <2> QED
    BY <2>3, <2>4
<1>14. InOrder(S, flat)
  <2> SUFFICES ASSUME NEW p \in 1..Len(flat), NEW q \in 1..Len(flat), p < q
               PROVE  Precedes(S, flat[p], flat[q])
    BY DEF InOrder
  <2>1. CASE flat[p].type = "heading" \/ flat[q].type = "heading"
    BY <2>1 DEF Precedes
  <2>2. CASE flat[p].type # "heading" /\ flat[q].type # "heading"
    <3> DEFINE i == place[p][1]
               j == place[q][1]
               a == place[p][2] - 1
               b == place[q][2] - 1
    <3>1. /\ a \in 1..Len(Body(S, m + i)) /\ flat[p] = Body(S, m + i)[a]
          /\ b \in 1..Len(Body(S, m + j)) /\ flat[q] = Body(S, m + j)[b]
      BY <1>13, <2>2
    <3>2. i \in 1..k /\ j \in 1..k /\ m + i \in 1..Len(d.trails) /\ m + j \in 1..Len(d.trails)
      BY <1>6, <1>12
    <3>3. Earlier(place[p], place[q])
      BY <1>9, <2>2 DEF Flattens
    <3>4. m + i < m + j \/ (m + i = m + j /\ a < b)
      <4>1. i \in Nat /\ place[p][2] \in Nat /\ j \in Nat /\ place[q][2] \in Nat
        BY <1>12
      <4>2. i < j \/ (i = j /\ place[p][2] < place[q][2])
        BY <3>3 DEF Earlier
      <4>3. m \in Nat
        BY <1>1
      <4> HIDE DEF i, j
      <4> QED
        BY <4>1, <4>2, <4>3
    <3> HIDE DEF i, j, a, b
    <3> QED
      BY <3>1, <3>2, <3>4, DocumentOrder
  <2> QED
    BY <2>1, <2>2
<1>15. \A i \in 1..k : x.junk = IsJunk(d.trails[m + i]) /\ TrailFits(d, x.trail, m + i)
  <2> TAKE i \in 1..k
  <2>1. IsJunk(d.trails[m + i]) = FALSE
    BY <1>6 DEF IsJunk
  <2>2. d.trails[m + i] \in Seq(AllHeadings) /\ Parent(d.trails[m + i]) = Parent(run.trail)
    BY <1>1, <1>6
  <2>3. Len(d.trails[m + i]) > 1 /\ Parent(run.trail) = Front(d.trails[m + i])
    BY <1>1, <2>2, ParentOf
  <2>4. Len(Body(S, m + i)) < MinChunk
    BY <1>6
  <2> QED
    BY <1>10, <2>1, <2>3, <2>4 DEF TrailFits
<1>16. Drawn(d, x, m, n)
  <2> SUFFICES ASSUME NEW q \in 1..Len(flat), flat[q].type # "heading"
               PROVE  \E s \in (m + 1)..n : \E p \in 1..Len(Body(S, s)) :
                        /\ flat[q] = Body(S, s)[p]
                        /\ x.junk = IsJunk(d.trails[s])
                        /\ TrailFits(d, x.trail, s)
    BY <1>10 DEF Drawn
  <2> DEFINE i == place[q][1]
  <2>1. i \in 1..k /\ m + i \in (m + 1)..n
    BY <1>6, <1>12
  <2>2. \E p \in 1..Len(Body(S, m + i)) : flat[q] = Body(S, m + i)[p]
    BY <1>13
  <2> HIDE DEF i
  <2> QED
    BY <1>15, <2>1, <2>2
<1>17. \A s \in (m + 1)..n : Holds(d, x, s)
  <2> SUFFICES ASSUME NEW s \in (m + 1)..n, NEW p \in 1..Len(Body(S, s))
               PROVE  \E q \in 1..Len(flat) : flat[q] = Body(S, s)[p] /\ x.junk = IsJunk(d.trails[s])
    BY <1>10 DEF Holds
  <2> DEFINE i == s - m
  <2>1. i \in 1..k /\ m + i = s
    BY <1>7
  <2> HIDE DEF i
  <2>2. /\ run.parts[i].body = Body(S, s) /\ Len(run.parts[i].body) \in Nat
        /\ Len(ss[i]) = Len(run.parts[i].body) + 1
    BY <1>4, <1>6, <2>1
  <2>3. ss[i][p + 1] = run.parts[i].body[p]
    BY <1>5, <2>1, <2>2
  <2>4. p + 1 \in 1..Len(ss[i])
    BY <2>2
  <2>5. PICK q \in 1..Len(flat) : place[q] = <<i, p + 1>>
    BY <1>9, <2>1, <2>4 DEF Flattens
  <2>6. flat[q] = Body(S, s)[p]
    BY <1>12, <2>2, <2>3, <2>5
  <2> QED
    BY <1>15, <2>1, <2>6
<1>18. Spans(d, x, m, n)
  BY <1>10, <1>11, <1>14, <1>16, <1>17 DEF Spans
<1> QED
  BY <1>18 DEF x, m, k

(* Flushing a run merges the sections it holds, whether none, one or       *)
(* several.                                                                *)
LEMMA FlushMerged ==
  ASSUME NEW d \in Documents, NEW n \in 0..Len(d.trails), NEW run, RunHolds(d, run, n),
         NEW M, Merged(d, M, n - Len(run.parts))
  PROVE  Merged(d, Flushed(M, run), n)
<1> DEFINE k == Len(run.parts)
<1>1. /\ k \in Nat /\ k <= n /\ n \in Nat /\ n <= Len(d.trails) /\ Len(d.trails) \in Nat
      /\ n - k \in Nat /\ n - k <= n
      /\ \A i \in 1..k : run.parts[i] \in SectionSet
  <2>1. run.parts \in Seq(SectionSet) /\ k <= n
    BY DEF RunHolds, RunSet
  <2>2. Len(d.trails) \in Nat
    BY DocumentShape
  <2>3. k \in Nat /\ \A i \in 1..k : run.parts[i] \in SectionSet
    BY <2>1
  <2> HIDE DEF k
  <2> QED
    BY <2>1, <2>2, <2>3
<1>2. CASE k = 0
  <2>1. Flushed(M, run) = M
    BY <1>2 DEF Flushed
  <2>2. n - k = n
    BY <1>1, <1>2
  <2> QED
    BY <2>1, <2>2
<1>3. CASE k = 1
  <2> DEFINE x == run.parts[1]
  <2>1. Flushed(M, run) = Append(M, x)
    BY <1>3 DEF Flushed
  <2>2. /\ n \in 1..Len(d.trails) /\ n - k = n - 1 /\ n - k + 1 = n
    <3> HIDE DEF k
    <3> QED
      BY <1>1, <1>3
  <2>3. 1 \in 1..k
    <3> HIDE DEF k
    <3> QED
      BY <1>3
  <2>4. x \in SectionSet /\ x.trail = d.trails[n] /\ x.body = Body(d.shapes, n)
        /\ x.junk = IsJunk(d.trails[n])
    BY <1>1, <2>2, <2>3 DEF RunHolds
  <2>5. Spans(d, x, n - 1, n)
    <3> HIDE DEF x, k
    <3> QED
      BY <2>2, <2>4, SpansItself
  <2>6. Merged(d, M, n - 1) /\ n - 1 \in Nat /\ n - 1 <= n
    BY <1>1, <2>2
  <2> HIDE DEF x, k
  <2>7. Merged(d, Append(M, x), n)
    BY <1>1, <2>5, <2>6, MergedAppend
  <2> QED
    BY <2>1, <2>7
<1>4. CASE k > 1
  <2>1. Spans(d, Joined(run), n - k, n)
    BY <1>4, JoinedSpans
  <2>2. k # 0 /\ k # 1
    <3> HIDE DEF k
    <3> QED
      BY <1>4
  <2>3. Flushed(M, run) = Append(M, Joined(run))
    BY <2>2, Zenon DEF Flushed, Joined, Lines
  <2> HIDE DEF k
  <2>4. Merged(d, M, n - k)
    BY DEF k
  <2>5. Merged(d, Append(M, Joined(run)), n)
    BY <1>1, <2>1, <2>4, MergedAppend
  <2> QED
    BY <2>3, <2>5
<1> HIDE DEF k
<1> QED
  BY <1>1, <1>2, <1>3, <1>4

(* The state of the loop after n sections.                                 *)
Held(d, acc, n) ==
  /\ acc \in [merged : Seq(SectionSet), run : RunSet]
  /\ RunHolds(d, acc.run, n)
  /\ Merged(d, acc.merged, n - Len(acc.run.parts))

(* A section that is not absorbed begins a run of its own.                 *)
LEMMA RunOpened ==
  ASSUME NEW d \in Documents, NEW n \in 1..Len(d.trails), NEW x \in SectionSet,
         x.trail = d.trails[n], x.body = Body(d.shapes, n), x.junk = IsJunk(d.trails[n]),
         ~ x.junk
  PROVE  RunHolds(d, Opened(x), n) /\ Len(Opened(x).parts) = 1
<1> DEFINE run == Opened(x)
<1>1. run.parts = <<x>> /\ run.trail = x.trail /\ run.len = Len(x.body)
  BY DEF Opened
<1>2. x.trail \in Seq(AllHeadings) /\ Len(x.body) \in Nat
  BY DEF SectionSet
<1>3. <<x>> \in Seq(SectionSet)
  OBVIOUS
<1>4. run \in RunSet
  BY <1>2, <1>3 DEF Opened, RunSet
<1>5. Len(<<x>>) = 1 /\ <<x>>[1] = x
  OBVIOUS
<1>6. n - 1 + 1 = n /\ 1 <= n /\ \A i \in 1..1 : i = 1
  BY DocumentShape
<1> HIDE DEF run
<1>7. Len(run.parts) = 1 /\ run.parts[1] = x
  BY <1>1, <1>5
<1>8. \A i \in 1..Len(run.parts) : run.parts[i] = x /\ n - Len(run.parts) + i = n
  BY <1>6, <1>7
<1>9. ~ IsJunk(d.trails[n])
  OBVIOUS
<1>10. RunHolds(d, run, n)
  <2>1. Len(run.parts) <= n /\ Len(run.parts) # 0 /\ ~ (Len(run.parts) > 1)
    BY <1>6, <1>7
  <2>2. \A i \in 1..Len(run.parts) :
       /\ run.parts[i].trail = d.trails[n - Len(run.parts) + i]
       /\ run.parts[i].body = Body(d.shapes, n - Len(run.parts) + i)
       /\ ~ IsJunk(d.trails[n - Len(run.parts) + i])
       /\ run.parts[i].junk = IsJunk(d.trails[n - Len(run.parts) + i])
    BY <1>8, <1>9
  <2>3. run.trail = run.parts[1].trail /\ run.len = Len(run.parts[1].body)
    BY <1>1, <1>7
  <2> QED
    BY <1>4, <2>1, <2>2, <2>3, Zenon DEF RunHolds
<1> QED
  BY <1>7, <1>10 DEF run

(* A section that is absorbed prolongs the run.                            *)
LEMMA RunGrows ==
  ASSUME NEW d \in Documents, NEW n \in 0..Len(d.trails), NEW run, RunHolds(d, run, n),
         n < Len(d.trails), NEW x \in SectionSet,
         x.trail = d.trails[n + 1], x.body = Body(d.shapes, n + 1),
         x.junk = IsJunk(d.trails[n + 1]), ~ x.junk, Absorbs(run, x),
         NEW next, next = Grown(run, x)
  PROVE  RunHolds(d, next, n + 1) /\ Len(next.parts) = Len(run.parts) + 1
<1> DEFINE k == Len(run.parts)
           ps == Append(run.parts, x)
<1>1. run.parts \in Seq(SectionSet) /\ run.trail \in Seq(AllHeadings) /\ run.len \in Nat
  BY DEF RunHolds, RunSet
<1>2. k \in Nat /\ k <= n /\ n \in Nat /\ k # 0
  BY <1>1, DocumentShape DEF RunHolds, Absorbs
<1>3. /\ ps \in Seq(SectionSet) /\ Len(ps) = k + 1 /\ ps[k + 1] = x
      /\ \A i \in 1..k : ps[i] = run.parts[i]
  BY <1>1
<1>4. next.parts = ps /\ next.trail = run.trail /\ next.len = run.len + Len(x.body)
  BY DEF Grown
<1>5. next \in RunSet
  <2>1. Len(x.body) \in Nat
    BY DEF SectionSet
  <2> HIDE DEF ps
  <2>2. next.len \in Nat
    BY <1>1, <1>4, <2>1
  <2>3. next = [parts |-> next.parts, trail |-> next.trail, len |-> next.len]
    BY DEF Grown
  <2> QED
    BY <1>1, <1>3, <1>4, <2>2, <2>3 DEF RunSet
<1>6. \A i \in 1..k : /\ run.parts[i].trail = d.trails[n - k + i]
                      /\ run.parts[i].body = Body(d.shapes, n - k + i)
                      /\ ~ IsJunk(d.trails[n - k + i])
                      /\ run.parts[i].junk = IsJunk(d.trails[n - k + i])
  BY DEF RunHolds
<1>7. run.trail = run.parts[1].trail
  BY <1>2 DEF RunHolds
<1>8. /\ run.len < MinChunk /\ Len(x.body) < MinChunk
      /\ Parent(x.trail) # <<>> /\ Parent(x.trail) = Parent(run.trail)
  BY DEF Absorbs
<1>9. \A i \in 1..k : Len(run.parts[i].body) < MinChunk
                      /\ Parent(run.parts[i].trail) = Parent(run.trail)
  <2>1. CASE k = 1
    <3>1. run.len = Len(run.parts[1].body)
      BY <2>1 DEF RunHolds
    <3>2. \A i \in 1..k : i = 1
      <4> HIDE DEF k
      <4> QED
        BY <2>1
    <3> QED
      BY <1>7, <1>8, <3>1, <3>2
  <2>2. CASE k > 1
    BY <2>2 DEF RunHolds
  <2> HIDE DEF k
  <2> QED
    BY <1>2, <2>1, <2>2
<1>10. ~ IsJunk(d.trails[n + 1])
  OBVIOUS
<1> HIDE DEF ps, k
<1>11. (n + 1) - (k + 1) = n - k /\ n - k + (k + 1) = n + 1 /\ k + 1 <= n + 1
       /\ 1 \in 1..k /\ k + 1 > 1 /\ k + 1 # 0
       /\ \A i \in 1..(k + 1) : i \in 1..k \/ i = k + 1
  BY <1>2
<1>12. /\ next \in RunSet
       /\ k + 1 <= n + 1
       /\ \A i \in 1..(k + 1) :
            /\ ps[i].trail = d.trails[n - k + i]
            /\ ps[i].body = Body(d.shapes, n - k + i)
            /\ ~ IsJunk(d.trails[n - k + i])
            /\ ps[i].junk = IsJunk(d.trails[n - k + i])
       /\ next.trail = ps[1].trail
       /\ Parent(next.trail) # <<>>
       /\ \A i \in 1..(k + 1) :
            Len(ps[i].body) < MinChunk /\ Parent(ps[i].trail) = Parent(next.trail)
  <2>1. \A i \in 1..(k + 1) :
            /\ ps[i].trail = d.trails[n - k + i]
            /\ ps[i].body = Body(d.shapes, n - k + i)
            /\ ~ IsJunk(d.trails[n - k + i])
            /\ ps[i].junk = IsJunk(d.trails[n - k + i])
    <3> TAKE i \in 1..(k + 1)
    <3>1. CASE i \in 1..k
      BY <1>3, <1>6, <3>1
    <3>2. CASE i = k + 1
      BY <1>3, <1>10, <1>11, <3>2
    <3> QED
      BY <1>11, <3>1, <3>2
  <2>2. \A i \in 1..(k + 1) :
            Len(ps[i].body) < MinChunk /\ Parent(ps[i].trail) = Parent(next.trail)
    <3> TAKE i \in 1..(k + 1)
    <3>1. CASE i \in 1..k
      BY <1>3, <1>4, <1>9, <3>1
    <3>2. CASE i = k + 1
      BY <1>3, <1>4, <1>8, <3>2
    <3> QED
      BY <1>11, <3>1, <3>2
  <2>3. next.trail = ps[1].trail /\ Parent(next.trail) # <<>>
    BY <1>3, <1>4, <1>7, <1>8, <1>11
  <2> QED
    BY <1>5, <1>11, <2>1, <2>2, <2>3
<1>13. Len(next.parts) = k + 1 /\ next.parts = ps
  BY <1>3, <1>4
<1>14. RunHolds(d, next, n + 1)
  <2>1. Len(next.parts) <= n + 1 /\ Len(next.parts) # 1
    BY <1>2, <1>11, <1>13
  <2>2. (n + 1) - Len(next.parts) = n - k
    BY <1>11, <1>13
  <2>3. \A i \in 1..Len(next.parts) :
       /\ next.parts[i].trail = d.trails[(n + 1) - Len(next.parts) + i]
       /\ next.parts[i].body = Body(d.shapes, (n + 1) - Len(next.parts) + i)
       /\ ~ IsJunk(d.trails[(n + 1) - Len(next.parts) + i])
       /\ next.parts[i].junk = IsJunk(d.trails[(n + 1) - Len(next.parts) + i])
    BY <1>12, <1>13, <2>2, Zenon
  <2>4. next.trail = next.parts[1].trail
    BY <1>12, <1>13, Zenon
  <2>5. /\ Parent(next.trail) # <<>>
        /\ \A i \in 1..Len(next.parts) :
             Len(next.parts[i].body) < MinChunk /\ Parent(next.parts[i].trail) = Parent(next.trail)
    BY <1>12, <1>13, Zenon
  <2> QED
    BY <1>12, <2>1, <2>3, <2>4, <2>5, Zenon DEF RunHolds
<1> QED
  BY <1>13, <1>14 DEF k

(* One step of _merge_small_sections: junk, absorbed, or neither.          *)
LEMMA HeldStep ==
  ASSUME NEW d \in Documents, NEW n \in 0..Len(d.trails), n < Len(d.trails),
         NEW acc, Held(d, acc, n), NEW x \in SectionSet,
         x.trail = d.trails[n + 1], x.body = Body(d.shapes, n + 1),
         x.junk = IsJunk(d.trails[n + 1])
  PROVE  Held(d, MergeStep(acc, x), n + 1)
<1>1. /\ n \in Nat /\ n + 1 \in 1..Len(d.trails) /\ n + 1 \in Nat /\ n <= n + 1
      /\ (n + 1) - 1 = n
  BY DocumentShape
<1>2. /\ RunHolds(d, acc.run, n) /\ acc \in [merged : Seq(SectionSet), run : RunSet]
      /\ Merged(d, acc.merged, n - Len(acc.run.parts))
  BY DEF Held
<1> DEFINE flushed == Flushed(acc.merged, acc.run)
<1>3. Merged(d, flushed, n)
  BY <1>2, FlushMerged
<1>4. flushed \in Seq(SectionSet)
  BY <1>3 DEF Merged
<1> HIDE DEF flushed
<1>5. CASE x.junk
  <2> DEFINE next == [merged |-> Append(flushed, x), run |-> NoRun]
  <2>1. MergeStep(acc, x) = next
    BY <1>5, Zenon DEF MergeStep, flushed
  <2>2. Spans(d, x, n, n + 1)
    BY <1>1, SpansItself
  <2>3. Merged(d, Append(flushed, x), n + 1)
    BY <1>1, <1>3, <2>2, MergedAppend
  <2>4. Append(flushed, x) \in Seq(SectionSet)
    BY <2>3 DEF Merged
  <2>5. NoRun \in RunSet /\ NoRun.parts = <<>> /\ Len(NoRun.parts) = 0
    BY DEF NoRun, RunSet
  <2>6. RunHolds(d, NoRun, n + 1)
    <3>1. 1..0 = {} /\ 0 <= n + 1 /\ ~ (0 > 1)
      BY <1>1
    <3> QED
      BY <2>5, <3>1 DEF RunHolds
  <2>7. (n + 1) - Len(NoRun.parts) = n + 1
    BY <1>1, <2>5
  <2>8. next \in [merged : Seq(SectionSet), run : RunSet]
    BY <2>4, <2>5
  <2>9. next.merged = Append(flushed, x) /\ next.run = NoRun
    OBVIOUS
  <2> HIDE DEF next
  <2> QED
    BY <2>1, <2>3, <2>6, <2>7, <2>8, <2>9 DEF Held
<1>6. CASE ~ x.junk /\ Absorbs(acc.run, x)
  <2> DEFINE run == Grown(acc.run, x)
             next == [merged |-> acc.merged, run |-> run]
  <2>1. MergeStep(acc, x) = next
    BY <1>6, Zenon DEF MergeStep
  <2>2. RunHolds(d, run, n + 1) /\ Len(run.parts) = Len(acc.run.parts) + 1
    BY <1>2, <1>6, RunGrows
  <2> HIDE DEF run
  <2>3. Len(acc.run.parts) \in Nat
    BY <1>2 DEF RunSet
  <2>4. (n + 1) - Len(run.parts) = n - Len(acc.run.parts)
    BY <1>1, <2>2, <2>3
  <2>5. next \in [merged : Seq(SectionSet), run : RunSet]
    BY <1>2, <2>2 DEF RunHolds
  <2>6. next.merged = acc.merged /\ next.run = run
    OBVIOUS
  <2> HIDE DEF next
  <2> QED
    BY <1>2, <2>1, <2>2, <2>4, <2>5, <2>6 DEF Held
<1>7. CASE ~ x.junk /\ ~ Absorbs(acc.run, x)
  <2> DEFINE next == [merged |-> flushed, run |-> Opened(x)]
  <2>1. MergeStep(acc, x) = next
    BY <1>7, Zenon DEF MergeStep, flushed
  <2>2. RunHolds(d, Opened(x), n + 1) /\ Len(Opened(x).parts) = 1
    BY <1>1, <1>7, RunOpened
  <2>3. (n + 1) - Len(Opened(x).parts) = n
    BY <1>1, <2>2
  <2>4. next \in [merged : Seq(SectionSet), run : RunSet]
    BY <1>4, <2>2 DEF RunHolds
  <2>5. next.merged = flushed /\ next.run = Opened(x)
    OBVIOUS
  <2> HIDE DEF next
  <2> QED
    BY <1>3, <2>1, <2>2, <2>3, <2>4, <2>5 DEF Held
<1> QED
  BY <1>5, <1>6, <1>7

(* Merging loses nothing, invents nothing but headings, and leaves every   *)
(* word under a trail that fits it.                                        *)
LEMMA MergeHolds ==
  ASSUME NEW d \in Documents
  PROVE  Merged(d, MergeSmallSections(Judged(Sections(d))), Len(d.trails))
<1> DEFINE J == Judged(Sections(d))
           N == Len(d.trails)
           f == Merging(J)
           S == {n \in 0..N : Held(d, f[n], n)}
<1>1. /\ J \in Seq(SectionSet) /\ Len(J) = N
      /\ \A s \in 1..N : J[s].trail = d.trails[s] /\ J[s].body = Body(d.shapes, s)
                         /\ J[s].junk = IsJunk(d.trails[s])
  BY JudgedSections
<1>2. N \in Nat
  BY DocumentShape
<1> HIDE DEF J, N
<1>3. /\ f[0] = [merged |-> <<>>, run |-> NoRun]
      /\ \A n \in 1..N : f[n] = MergeStep(f[n - 1], J[n])
  <2>1. Len(J) \in Nat
    BY <1>1, <1>2
  <2>2. /\ Merging(J)[0] = [merged |-> <<>>, run |-> NoRun]
        /\ \A n \in 1..Len(J) : Merging(J)[n] = MergeStep(Merging(J)[n - 1], J[n])
    BY <2>1, MergingUnfolds
  <2> QED
    BY <1>1, <2>2
<1> HIDE DEF f
<1>4. 0 \in S
  <2> DEFINE acc == [merged |-> <<>>, run |-> NoRun]
  <2>1. NoRun \in RunSet /\ NoRun.parts = <<>> /\ Len(NoRun.parts) = 0
    BY DEF NoRun, RunSet
  <2>2. RunHolds(d, NoRun, 0)
    <3>1. 1..0 = {} /\ ~ (0 > 1)
      OBVIOUS
    <3> QED
      BY <2>1, <3>1 DEF RunHolds
  <2>3. Merged(d, <<>>, 0)
    <3>1. 1..0 = {} /\ <<>> \in Seq(SectionSet) /\ Len(<<>>) = 0
      OBVIOUS
    <3> QED
      BY <3>1 DEF Merged
  <2>4. acc \in [merged : Seq(SectionSet), run : RunSet]
    BY <2>1
  <2>5. acc.merged = <<>> /\ acc.run = NoRun /\ 0 - Len(NoRun.parts) = 0
    <3> DEFINE l == Len(NoRun.parts)
    <3>1. l = 0
      BY <2>1
    <3> HIDE DEF l
    <3>2. 0 - l = 0
      BY <3>1
    <3> QED
      BY <3>2, Zenon DEF l
  <2> HIDE DEF acc
  <2>6. Held(d, acc, 0)
    BY <2>2, <2>3, <2>4, <2>5 DEF Held
  <2> QED
    BY <1>2, <1>3, <2>6 DEF acc
<1>5. ASSUME NEW n \in Nat, n < N, n \in S
      PROVE  n + 1 \in S
  <2>1. /\ n + 1 \in 1..N /\ n + 1 \in 0..N /\ n \in 0..N /\ (n + 1) - 1 = n
    BY <1>2, <1>5
  <2>2. f[n + 1] = MergeStep(f[n], J[n + 1])
    BY <1>3, <2>1
  <2>3. /\ J[n + 1] \in SectionSet /\ J[n + 1].trail = d.trails[n + 1]
        /\ J[n + 1].body = Body(d.shapes, n + 1) /\ J[n + 1].junk = IsJunk(d.trails[n + 1])
    BY <1>1, <2>1
  <2>4. Held(d, f[n], n)
    BY <1>5
  <2>5. Held(d, MergeStep(f[n], J[n + 1]), n + 1)
    BY <1>5, <2>1, <2>3, <2>4, HeldStep DEF N
  <2> QED
    BY <2>1, <2>2, <2>5
<1>6. Held(d, f[N], N)
  <2>1. \A n \in 0..N : n \in S
    <3> HIDE DEF S
    <3> QED
      BY <1>2, <1>4, <1>5, InductionUpTo
  <2>2. N \in 0..N
    BY <1>2
  <2> QED
    BY <2>1, <2>2
<1> DEFINE acc == f[N]
<1>7. MergeSmallSections(J) = Flushed(acc.merged, acc.run)
  BY <1>1 DEF MergeSmallSections, f
<1> HIDE DEF acc
<1>8. /\ RunHolds(d, acc.run, N) /\ Merged(d, acc.merged, N - Len(acc.run.parts))
  BY <1>6 DEF Held, acc
<1>9. Merged(d, Flushed(acc.merged, acc.run), N)
  <2>1. N \in 0..Len(d.trails)
    BY <1>2 DEF N
  <2> QED
    BY <1>8, <2>1, FlushMerged
<1> QED
  BY <1>7, <1>9 DEF J, N

-----------------------------------------------------------------------------
(* Cutting a section into pieces.                                          *)

(* The pieces of a body are windows on it: the i-th shows the places from  *)
(* lo[i] to hi[i], none empty, neither end ever moves back, and every      *)
(* place is in one of them.                                                *)
Cuts(body, ps, lo, hi) ==
  /\ lo \in [1..Len(ps) -> Nat] /\ hi \in [1..Len(ps) -> Nat]
  /\ \A i \in 1..Len(ps) :
       /\ 1 <= lo[i] /\ lo[i] <= hi[i] /\ hi[i] <= Len(body)
       /\ ps[i] = SubSeq(body, lo[i], hi[i])
  /\ \A i, j \in 1..Len(ps) : i < j => lo[i] <= lo[j] /\ hi[i] <= hi[j]
  /\ \A p \in 1..Len(body) : \E i \in 1..Len(ps) : lo[i] <= p /\ p <= hi[i]

(* How many pieces a body of length l is cut into.                         *)
Strides(l) ==
  LET stride == ChunkSize - Overlap
      rest   == IF l <= ChunkSize THEN 0 ELSE l - ChunkSize
  IN  1 + ((rest + stride - 1) \div stride)

(* That many strides reach the end of the body, and one fewer would not.   *)
LEMMA EnoughStrides ==
  ASSUME NEW l \in Nat \ {0}
  PROVE  /\ ChunkSize - Overlap \in Nat \ {0} /\ ChunkSize - Overlap <= ChunkSize
         /\ ChunkSize \in Nat
         /\ Strides(l) \in Nat \ {0}
         /\ (Strides(l) - 1) * (ChunkSize - Overlap) < l
         /\ l <= (Strides(l) - 1) * (ChunkSize - Overlap) + ChunkSize
<1> DEFINE stride == ChunkSize - Overlap
           rest == IF l <= ChunkSize THEN 0 ELSE l - ChunkSize
           q == (rest + stride - 1) \div stride
<1>1. stride \in Nat \ {0} /\ stride <= ChunkSize /\ ChunkSize \in Nat /\ ChunkSize # 0
  BY ChunkAssumption
<1>2. rest \in Nat /\ l <= rest + ChunkSize /\ (rest = 0 \/ rest + ChunkSize = l)
  BY <1>1
<1>3. Strides(l) = 1 + q
  BY DEF Strides
<1> HIDE DEF rest
<1>4. q \in Nat /\ q * stride <= rest + stride - 1 /\ rest + stride - 1 < q * stride + stride
  <2> DEFINE a == rest + stride - 1
  <2>1. a \in Nat
    BY <1>1, <1>2
  <2> HIDE DEF a, stride
  <2>2. (a \div stride) \in Nat /\ (a \div stride) * stride <= a
        /\ a < (a \div stride) * stride + stride
    BY <1>1, <2>1
  <2> QED
    BY <2>2 DEF a
<1> HIDE DEF q, stride
<1> DEFINE z == q * stride
<1>5. z \in Nat /\ z <= rest + stride - 1 /\ rest + stride - 1 < z + stride
  BY <1>1, <1>4
<1>6. (1 + q) - 1 = q
  BY <1>4
<1>7. q = 0 => z = 0
  BY <1>1
<1>8. rest = 0 => z = 0
  <2> SUFFICES ASSUME rest = 0, q # 0 PROVE FALSE
    BY <1>7
  <2>1. 1 * stride <= q * stride
    <3>1. 1 \in Nat /\ 1 <= q
      BY <1>4
    <3> QED
      BY <1>1, <1>4, <3>1, Products
  <2>2. stride <= z
    BY <1>1, <2>1
  <2> HIDE DEF z
  <2> QED
    BY <1>1, <1>5, <2>2
<1>9. z < l /\ l <= z + ChunkSize
  <2> HIDE DEF z
  <2> QED
    BY <1>1, <1>2, <1>5, <1>8
<1> QED
  BY <1>1, <1>3, <1>4, <1>6, <1>9 DEF stride

(* The splitter covers every place of a body with windows that only move   *)
(* on.                                                                     *)
LEMMA PiecesCut ==
  ASSUME NEW B, NEW body \in Seq(B)
  PROVE  /\ Pieces(body) \in Seq(Seq(B))
         /\ \E lo, hi : Cuts(body, Pieces(body), lo, hi)
<1> DEFINE l == Len(body)
           ps == Pieces(body)
<1>1. CASE body = <<>>
  <2>1. ps = <<>>
    <3>1. ps = [i \in 1..0 |-> SubSeq(body, (i - 1) * (ChunkSize - Overlap) + 1,
                                 Min({Len(body), (i - 1) * (ChunkSize - Overlap) + ChunkSize}))]
      BY <1>1 DEF Pieces
    <3> QED
      BY <3>1
  <2>2. Len(ps) = 0 /\ ps \in Seq(Seq(B)) /\ 1..0 = {} /\ 1..Len(body) = {}
    <3>1. Len(<<>>) = 0 /\ <<>> \in Seq(Seq(B)) /\ 1..0 = {}
      OBVIOUS
    <3> HIDE DEF ps
    <3> QED
      BY <1>1, <2>1, <3>1, Zenon
  <2>3. <<>> \in [{} -> Nat]
    OBVIOUS
  <2> HIDE DEF ps
  <2>4. Cuts(body, ps, <<>>, <<>>)
    BY <2>2, <2>3 DEF Cuts
  <2> QED
    BY <2>2, <2>4 DEF ps
<1>2. CASE body # <<>>
  <2> DEFINE n == Strides(l)
             s == ChunkSize - Overlap
             off(i) == (i - 1) * s
             lo == [i \in 1..n |-> off(i) + 1]
             hi == [i \in 1..n |-> Min({l, off(i) + ChunkSize})]
  <2>1. l \in Nat \ {0}
    BY <1>2
  <2>2. s \in Nat \ {0} /\ s <= ChunkSize /\ ChunkSize \in Nat /\ n \in Nat \ {0}
        /\ off(n) < l /\ l <= off(n) + ChunkSize
    BY <2>1, EnoughStrides
  <2>3. ps = [i \in 1..n |-> SubSeq(body, off(i) + 1, Min({l, off(i) + ChunkSize}))]
    BY <1>2 DEF Pieces, Strides
  <2> HIDE DEF ps, n, s, l
  <2>4. ASSUME NEW i \in 1..n
        PROVE  off(i) \in Nat /\ off(i) <= off(n)
    <3>1. i - 1 \in Nat /\ n - 1 \in Nat /\ i - 1 <= n - 1
      BY <2>2
    <3> QED
      BY <2>2, <3>1, Products
  <2>5. ASSUME NEW i \in 1..n, NEW j \in 1..n, i < j
        PROVE  off(i) < off(j)
    <3>1. i - 1 \in Nat /\ j - 1 \in Nat /\ i - 1 < j - 1
      BY <2>2, <2>5
    <3> QED
      BY <2>2, <3>1, Products
  <2>6. ASSUME NEW i \in 1..n, i # 1
        PROVE  i - 1 \in 1..n /\ off(i) = off(i - 1) + s
    <3>1. i - 1 \in 1..n /\ i - 1 \in Nat /\ (i - 1) - 1 \in Nat
      BY <2>2, <2>6
    <3>2. off(i - 1) = ((i - 1) - 1) * s
      OBVIOUS
    <3>3. off(i) = ((i - 1) - 1) * s + s
      BY <2>2, <3>1
    <3> QED
      BY <3>1, <3>2, <3>3
  <2>7. n \in 1..n /\ 1 \in 1..n /\ off(1) = 0
    BY <2>2
  <2> HIDE DEF off
  <2>8. \A i \in 1..n : /\ lo[i] = off(i) + 1
                        /\ hi[i] = IF l <= off(i) + ChunkSize THEN l ELSE off(i) + ChunkSize
    <3> TAKE i \in 1..n
    <3> DEFINE c == off(i) + ChunkSize
    <3>1. c \in Nat
      BY <2>2, <2>4
    <3> HIDE DEF c
    <3>2. {l, c} \in SUBSET Nat /\ {l, c} # {}
      BY <2>1, <3>1
    <3>3. Min({l, c}) \in {l, c} /\ \A y \in {l, c} : Min({l, c}) <= y
      BY <3>2, MinOf
    <3>4. Min({l, c}) = IF l <= c THEN l ELSE c
      BY <2>1, <3>1, <3>3
    <3> QED
      BY <3>4 DEF c
  <2>9. \A i \in 1..n : ps[i] = SubSeq(body, lo[i], hi[i])
    BY <2>3
  <2>10. lo = [i \in 1..n |-> lo[i]] /\ hi = [i \in 1..n |-> hi[i]]
    OBVIOUS
  <2> HIDE DEF lo, hi
  <2>11. \A i \in 1..n : lo[i] \in Nat /\ hi[i] \in Nat /\ 1 <= lo[i] /\ lo[i] <= hi[i] /\ hi[i] <= l
    <3> TAKE i \in 1..n
    <3>1. off(i) \in Nat /\ off(i) < l
      BY <2>1, <2>2, <2>4, <2>7
    <3>2. ChunkSize # 0
      BY <2>2
    <3> QED
      BY <2>1, <2>2, <2>8, <3>1, <3>2
  <2>12. \A i, j \in 1..n : i < j => lo[i] <= lo[j] /\ hi[i] <= hi[j]
    <3> SUFFICES ASSUME NEW i \in 1..n, NEW j \in 1..n, i < j
                 PROVE  lo[i] <= lo[j] /\ hi[i] <= hi[j]
      OBVIOUS
    <3>1. off(i) \in Nat /\ off(j) \in Nat /\ off(i) < off(j)
      BY <2>4, <2>5
    <3> QED
      BY <2>1, <2>2, <2>8, <3>1
  <2>13. ASSUME NEW p \in 1..l
         PROVE  \E i \in 1..n : lo[i] <= p /\ p <= hi[i]
    <3> DEFINE T == {i \in 1..n : p <= off(i) + ChunkSize}
    <3>1. n \in T
      BY <2>1, <2>2, <2>4, <2>7
    <3>2. T \in SUBSET Nat /\ T # {}
      BY <3>1
    <3>3. PICK i \in T : \A j \in T : i <= j
      <4> HIDE DEF T
      <4> QED
        BY <3>2, LeastNumber
    <3>4. i \in 1..n /\ p <= off(i) + ChunkSize /\ i \in Nat
      OBVIOUS
    <3>5. lo[i] <= p
      <4>1. CASE i = 1
        BY <2>1, <2>7, <2>8, <4>1
      <4>2. CASE i # 1
        <5>1. i - 1 \in 1..n /\ off(i) = off(i - 1) + s /\ off(i - 1) \in Nat
          BY <2>4, <2>6, <3>4, <4>2
        <5>2. i - 1 \notin T
          <6>1. ~ (i <= i - 1)
            BY <3>4
          <6> HIDE DEF T
          <6> QED
            BY <3>3, <6>1
        <5>3. ~ (p <= off(i - 1) + ChunkSize)
          BY <5>1, <5>2
        <5>4. lo[i] = off(i) + 1
          BY <2>8, <3>4
        <5> QED
          BY <2>1, <2>2, <5>1, <5>3, <5>4
      <4> QED
        BY <4>1, <4>2
    <3>6. p <= hi[i]
      <4>1. hi[i] = IF l <= off(i) + ChunkSize THEN l ELSE off(i) + ChunkSize
        BY <2>8, <3>4
      <4>2. p <= l
        BY <2>1
      <4> QED
        BY <3>4, <4>1, <4>2
    <3> QED
      BY <3>4, <3>5, <3>6
  <2>14. ps \in Seq(Seq(B)) /\ Len(ps) = n
    <3>1. \A i \in 1..n : SubSeq(body, lo[i], hi[i]) \in Seq(B)
      <4> TAKE i \in 1..n
      <4>1. 1 <= lo[i] /\ hi[i] <= l /\ lo[i] \in Nat /\ hi[i] \in Nat
        BY <2>11
      <4> QED
        BY <4>1 DEF l
    <3>2. ps = [i \in 1..n |-> SubSeq(body, lo[i], hi[i])]
      <4>1. ps = [i \in 1..n |-> ps[i]]
        BY <2>3
      <4> QED
        BY <2>9, <4>1
    <3> QED
      BY <2>2, <3>1, <3>2
  <2>15. lo \in [1..n -> Nat] /\ hi \in [1..n -> Nat]
    BY <2>10, <2>11
  <2>16. Cuts(body, ps, lo, hi)
    BY <2>9, <2>11, <2>12, <2>13, <2>14, <2>15 DEF Cuts, l
  <2> QED
    BY <2>14, <2>16 DEF ps
<1> QED
  BY <1>1, <1>2

-----------------------------------------------------------------------------
(* The walk over the pieces.                                               *)

(* The piece y shows the places of section x from lo to hi.                *)
Window(x, y, lo, hi) ==
  /\ 1 <= lo /\ lo <= hi + 1 /\ hi <= Len(x.body)
  /\ y.trail = x.trail /\ y.junk = x.junk
  /\ Len(y.body) = hi + 1 - lo
  /\ \A q \in 1..Len(y.body) : y.body[q] = x.body[lo + q - 1]

(* The pieces of one section, as windows on it.                            *)
WalkedAs(x, ys, lo, hi) ==
  /\ ys \in Seq(SectionSet)
  /\ lo \in [1..Len(ys) -> Nat] /\ hi \in [1..Len(ys) -> Nat]
  /\ \A i \in 1..Len(ys) : Window(x, ys[i], lo[i], hi[i])
  /\ \A i, j \in 1..Len(ys) : i < j => lo[i] <= lo[j] /\ hi[i] <= hi[j]
  /\ \A p \in 1..Len(x.body) : \E i \in 1..Len(ys) : lo[i] <= p /\ p <= hi[i]

(* Junk is walked whole and the rest in pieces: either way windows on the  *)
(* section.                                                                *)
LEMMA WalkedCuts ==
  ASSUME NEW x \in SectionSet
  PROVE  \E lo, hi : WalkedAs(x, Walked(x), lo, hi)
<1> DEFINE ys == Walked(x)
<1>1. x.body \in Seq(Atoms) /\ Len(x.body) \in Nat
  BY DEF SectionSet
<1>2. CASE x.junk
  <2>1. ys = <<x>>
    BY <1>2 DEF Walked
  <2> DEFINE lo == <<1>>
             hi == <<Len(x.body)>>
  <2>2. ys \in Seq(SectionSet) /\ \A i \in 1..Len(ys) : i = 1 /\ ys[i] = x
    <3>1. <<x>> \in Seq(SectionSet) /\ \A i \in 1..Len(<<x>>) : i = 1 /\ <<x>>[i] = x
      OBVIOUS
    <3> QED
      BY <2>1, <3>1
  <2>3. DOMAIN ys = 1..Len(ys) /\ 1 \in 1..Len(ys) /\ 1..Len(ys) = 1..1
    <3>1. Len(<<x>>) = 1
      OBVIOUS
    <3> HIDE DEF ys
    <3> QED
      BY <2>1, <3>1
  <2>4. lo \in [1..1 -> Nat] /\ hi \in [1..1 -> Nat] /\ lo[1] = 1 /\ hi[1] = Len(x.body)
    BY <1>1
  <2> HIDE DEF ys, lo, hi
  <2>5. Window(x, x, 1, Len(x.body))
    <3>1. \A q \in 1..Len(x.body) : 1 + q - 1 = q
      OBVIOUS
    <3> DEFINE l == Len(x.body)
    <3>2. l \in Nat
      BY <1>1
    <3> HIDE DEF l
    <3>3. 1 <= l + 1 /\ l <= l /\ l = l + 1 - 1
      BY <3>2
    <3> QED
      BY <3>1, <3>3 DEF Window, l
  <2>6. \A i \in 1..Len(ys) : Window(x, ys[i], lo[i], hi[i])
    BY <2>2, <2>4, <2>5
  <2>7. \A p \in 1..Len(x.body) : \E i \in 1..Len(ys) : lo[i] <= p /\ p <= hi[i]
    BY <2>3, <2>4
  <2>8. \A i, j \in 1..Len(ys) : ~ (i < j)
    BY <2>3
  <2>9. lo \in [1..Len(ys) -> Nat] /\ hi \in [1..Len(ys) -> Nat]
    BY <2>3, <2>4
  <2>10. WalkedAs(x, ys, lo, hi)
    BY <2>2, <2>6, <2>7, <2>8, <2>9 DEF WalkedAs
  <2> QED
    BY <2>10 DEF ys
<1>3. CASE ~ x.junk
  <2> DEFINE ps == Pieces(x.body)
             n == Len(ps)
  <2>1. ys = [i \in DOMAIN ps |-> [x EXCEPT !.body = ps[i]]]
    BY <1>3 DEF Walked
  <2>2. ps \in Seq(Seq(Atoms)) /\ \E lo, hi : Cuts(x.body, ps, lo, hi)
    BY <1>1, PiecesCut
  <2>3. PICK lo, hi : Cuts(x.body, ps, lo, hi)
    BY <2>2
  <2> HIDE DEF ps
  <2>4. n \in Nat /\ DOMAIN ps = 1..n /\ \A i \in 1..n : ps[i] \in Seq(Atoms)
    BY <2>2
  <2>5. \A i \in 1..n : [x EXCEPT !.body = ps[i]] \in SectionSet
    BY <2>4 DEF SectionSet
  <2>6. ys \in Seq(SectionSet) /\ Len(ys) = n /\ \A i \in 1..n : ys[i] = [x EXCEPT !.body = ps[i]]
    <3>1. ys = [i \in 1..n |-> [x EXCEPT !.body = ps[i]]]
      BY <2>1, <2>4
    <3> HIDE DEF ys, n
    <3> QED
      BY <2>4, <2>5, <3>1
  <2>7. \A i \in 1..n : ys[i].trail = x.trail /\ ys[i].junk = x.junk /\ ys[i].body = ps[i]
    <3> TAKE i \in 1..n
    <3>1. ys[i] = [x EXCEPT !.body = ps[i]]
      BY <2>6
    <3> HIDE DEF ys
    <3> QED
      BY <3>1 DEF SectionSet
  <2> HIDE DEF ys, n
  <2>8. /\ lo \in [1..n -> Nat] /\ hi \in [1..n -> Nat]
        /\ \A i \in 1..n :
             /\ 1 <= lo[i] /\ lo[i] <= hi[i] /\ hi[i] <= Len(x.body)
             /\ ps[i] = SubSeq(x.body, lo[i], hi[i])
        /\ \A i, j \in 1..n : i < j => lo[i] <= lo[j] /\ hi[i] <= hi[j]
        /\ \A p \in 1..Len(x.body) : \E i \in 1..n : lo[i] <= p /\ p <= hi[i]
    BY <2>3 DEF Cuts, n
  <2>9. ASSUME NEW i \in 1..n
        PROVE  Window(x, ys[i], lo[i], hi[i])
    <3> DEFINE a == lo[i]  b == hi[i]  s == SubSeq(x.body, a, b)
    <3>1. a \in Nat /\ b \in Nat /\ 1 <= a /\ a <= b /\ b <= Len(x.body) /\ ys[i].body = s
      BY <2>7, <2>8
    <3> HIDE DEF a, b
    <3>2. Len(s) = b + 1 - a /\ \A q \in 1..(b + 1 - a) : s[q] = x.body[a + q - 1]
      BY <1>1, <3>1
    <3>3. a <= b + 1
      BY <3>1
    <3> HIDE DEF s
    <3>4. Window(x, ys[i], a, b)
      BY <2>7, <3>1, <3>2, <3>3 DEF Window
    <3> QED
      BY <3>4 DEF a, b
  <2>10. WalkedAs(x, ys, lo, hi)
    BY <2>6, <2>8, <2>9 DEF WalkedAs
  <2> QED
    BY <2>10 DEF ys
<1> QED
  BY <1>2, <1>3

(* The walk over merged sections: which section a piece is cut from, and   *)
(* which of its places the piece shows.                                    *)
Shows(M, W, at, lo, hi) ==
  /\ at \in [1..Len(W) -> 1..Len(M)]
  /\ lo \in [1..Len(W) -> Nat] /\ hi \in [1..Len(W) -> Nat]
  /\ \A p \in 1..Len(W) : Window(M[at[p]], W[p], lo[p], hi[p])
  /\ \A p, q \in 1..Len(W) : p < q =>
       at[p] < at[q] \/ (at[p] = at[q] /\ lo[p] <= lo[q] /\ hi[p] <= hi[q])
  /\ \A j \in 1..Len(M) : \A r \in 1..Len(M[j].body) :
       \E p \in 1..Len(W) : at[p] = j /\ lo[p] <= r /\ r <= hi[p]

(* The walk shows every place of every merged section, in order.           *)
LEMMA WalkShows ==
  ASSUME NEW M \in Seq(SectionSet)
  PROVE  Walk(M) \in Seq(SectionSet) /\ \E at, lo, hi : Shows(M, Walk(M), at, lo, hi)
<1> DEFINE m == Len(M)
           ss == [j \in 1..m |-> Walked(M[j])]
           W == Walk(M)
           Cut(j) == CHOOSE c : WalkedAs(M[j], Walked(M[j]), c[1], c[2])
<1>1. m \in Nat /\ DOMAIN M = 1..m /\ \A j \in 1..m : M[j] \in SectionSet
  OBVIOUS
<1>2. ASSUME NEW j \in 1..m
      PROVE  WalkedAs(M[j], Walked(M[j]), Cut(j)[1], Cut(j)[2])
  <2>1. PICK lo, hi : WalkedAs(M[j], Walked(M[j]), lo, hi)
    BY <1>1, WalkedCuts
  <2> DEFINE c == <<lo, hi>>
  <2>2. c[1] = lo /\ c[2] = hi
    OBVIOUS
  <2> HIDE DEF c
  <2>3. WalkedAs(M[j], Walked(M[j]), c[1], c[2])
    BY <2>1, <2>2
  <2> QED
    BY <2>3
<1> HIDE DEF Cut
<1>3. ss \in Seq(Seq(SectionSet)) /\ Len(ss) = m /\ \A j \in 1..m : ss[j] = Walked(M[j])
  <2>1. \A j \in 1..m : Walked(M[j]) \in Seq(SectionSet)
    BY <1>2 DEF WalkedAs
  <2> HIDE DEF m
  <2> QED
    BY <1>1, <2>1
<1>4. W = FlattenSeq(ss)
  BY <1>1 DEF Walk
<1> HIDE DEF ss, W, m
<1>5. W \in Seq(SectionSet) /\ \E place : Flattens(ss, m, W, place)
  BY <1>3, <1>4, Flattened
<1>6. PICK place : Flattens(ss, m, W, place)
  BY <1>5
<1> DEFINE n == Len(W)
           at == [p \in 1..n |-> place[p][1]]
           lo == [p \in 1..n |-> Cut(place[p][1])[1][place[p][2]]]
           hi == [p \in 1..n |-> Cut(place[p][1])[2][place[p][2]]]
<1>7. /\ \A p \in 1..n : /\ place[p] \in Nat \X Nat
                         /\ place[p][1] \in 1..m
                         /\ place[p][2] \in 1..Len(ss[place[p][1]])
                         /\ W[p] = ss[place[p][1]][place[p][2]]
      /\ \A p, q \in 1..n : p < q => Earlier(place[p], place[q])
      /\ \A j \in 1..m : \A i \in 1..Len(ss[j]) : \E p \in 1..n : place[p] = <<j, i>>
  BY <1>6 DEF Flattens
<1>8. ASSUME NEW j \in 1..m
      PROVE  /\ Cut(j)[1] \in [1..Len(ss[j]) -> Nat] /\ Cut(j)[2] \in [1..Len(ss[j]) -> Nat]
             /\ \A i \in 1..Len(ss[j]) : Window(M[j], ss[j][i], Cut(j)[1][i], Cut(j)[2][i])
             /\ \A i, k \in 1..Len(ss[j]) : i < k =>
                  Cut(j)[1][i] <= Cut(j)[1][k] /\ Cut(j)[2][i] <= Cut(j)[2][k]
             /\ \A r \in 1..Len(M[j].body) :
                  \E i \in 1..Len(ss[j]) : Cut(j)[1][i] <= r /\ r <= Cut(j)[2][i]
  <2>1. WalkedAs(M[j], ss[j], Cut(j)[1], Cut(j)[2])
    BY <1>2, <1>3
  <2> QED
    BY <2>1 DEF WalkedAs
<1>9. \A p \in 1..n : /\ at[p] = place[p][1]
                      /\ lo[p] = Cut(place[p][1])[1][place[p][2]]
                      /\ hi[p] = Cut(place[p][1])[2][place[p][2]]
  OBVIOUS
<1>10. \A p \in 1..n : at[p] \in 1..m /\ lo[p] \in Nat /\ hi[p] \in Nat
                       /\ Window(M[at[p]], W[p], lo[p], hi[p])
  <2> HIDE DEF at, lo, hi, n
  <2> TAKE p \in 1..n
  <2> DEFINE j == place[p][1]  i == place[p][2]
  <2>1. j \in 1..m /\ i \in 1..Len(ss[j]) /\ W[p] = ss[j][i]
    BY <1>7
  <2>2. at[p] = j /\ lo[p] = Cut(j)[1][i] /\ hi[p] = Cut(j)[2][i]
    BY <1>9
  <2> HIDE DEF i, j
  <2>3. Cut(j)[1][i] \in Nat /\ Cut(j)[2][i] \in Nat
    BY <1>8, <2>1
  <2>4. Window(M[j], ss[j][i], Cut(j)[1][i], Cut(j)[2][i])
    BY <1>8, <2>1
  <2> QED
    BY <2>1, <2>2, <2>3, <2>4
<1>11. ASSUME NEW p \in 1..n, NEW q \in 1..n, p < q
       PROVE  at[p] < at[q] \/ (at[p] = at[q] /\ lo[p] <= lo[q] /\ hi[p] <= hi[q])
  <2> HIDE DEF at, lo, hi, n
  <2>1. place[p][1] < place[q][1] \/ (place[p][1] = place[q][1] /\ place[p][2] < place[q][2])
    BY <1>7, <1>11 DEF Earlier
  <2> DEFINE j == place[p][1]  i == place[p][2]  k == place[q][2]
  <2>2. j \in 1..m /\ i \in 1..Len(ss[j])
        /\ (place[q][1] = j => k \in 1..Len(ss[j]))
    BY <1>7
  <2>3. at[p] = j /\ at[q] = place[q][1] /\ lo[p] = Cut(j)[1][i] /\ hi[p] = Cut(j)[2][i]
        /\ (place[q][1] = j => lo[q] = Cut(j)[1][k] /\ hi[q] = Cut(j)[2][k])
    BY <1>9
  <2>4. j < place[q][1] \/ (j = place[q][1] /\ i < k)
    BY <2>1
  <2> HIDE DEF i, j, k
  <2> QED
    BY <1>8, <2>2, <2>3, <2>4
<1>12. ASSUME NEW j \in 1..m, NEW r \in 1..Len(M[j].body)
       PROVE  \E p \in 1..n : at[p] = j /\ lo[p] <= r /\ r <= hi[p]
  <2> HIDE DEF at, lo, hi, n
  <2>1. PICK i \in 1..Len(ss[j]) : Cut(j)[1][i] <= r /\ r <= Cut(j)[2][i]
    BY <1>8
  <2>2. PICK p \in 1..n : place[p] = <<j, i>>
    BY <1>7
  <2>3. place[p][1] = j /\ place[p][2] = i
    BY <2>2
  <2> QED
    BY <1>9, <2>1, <2>3
<1>13. at \in [1..n -> 1..m] /\ lo \in [1..n -> Nat] /\ hi \in [1..n -> Nat]
  <2>1. at = [p \in 1..n |-> at[p]] /\ lo = [p \in 1..n |-> lo[p]] /\ hi = [p \in 1..n |-> hi[p]]
    OBVIOUS
  <2> HIDE DEF at, lo, hi, n
  <2> QED
    BY <1>10, <2>1
<1> HIDE DEF at, lo, hi
<1>14. Shows(M, W, at, lo, hi)
  BY <1>10, <1>11, <1>12, <1>13 DEF Shows, m
<1> QED
  BY <1>5, <1>14 DEF W

(* A piece says an atom.                                                   *)
Has(y, a) == \E q \in 1..Len(y.body) : y.body[q] = a

(* The pieces in the order of the walk: each is in order and says only     *)
(* what its sections do; what a later one says comes later, unless both    *)
(* say it; a word is in consecutive pieces; and all of the text is there.  *)
WalkHolds(d, W) ==
  /\ W \in Seq(SectionSet)
  /\ \A p \in 1..Len(W) : InOrder(d.shapes, W[p].body) /\ Drawn(d, W[p], 0, Len(d.trails))
  /\ \A p, q \in 1..Len(W) : p < q =>
       \A u \in 1..Len(W[p].body), v \in 1..Len(W[q].body) :
         \/ Precedes(d.shapes, W[p].body[u], W[q].body[v])
         \/ Has(W[p], W[q].body[v]) /\ Has(W[q], W[p].body[u])
  /\ \A p, q, r \in 1..Len(W) : p <= q /\ q <= r =>
       \A a : a.type = "word" /\ Has(W[p], a) /\ Has(W[r], a) => Has(W[q], a)
  /\ \A s \in 1..Len(d.trails) : \A p \in 1..Len(Body(d.shapes, s)) :
       \E q \in 1..Len(W) : Has(W[q], Body(d.shapes, s)[p]) /\ W[q].junk = IsJunk(d.trails[s])

(* What a piece says is what its section does at the places the piece      *)
(* shows.                                                                  *)
LEMMA ShownPlaces ==
  ASSUME NEW M \in Seq(SectionSet), NEW W \in Seq(SectionSet), NEW at, NEW lo, NEW hi,
         Shows(M, W, at, lo, hi), NEW p \in 1..Len(W)
  PROVE  /\ at[p] \in 1..Len(M) /\ lo[p] \in Nat /\ hi[p] \in Nat
         /\ \A u \in 1..Len(W[p].body) :
              /\ lo[p] + u - 1 \in 1..Len(M[at[p]].body) /\ lo[p] + u - 1 \in Nat
              /\ lo[p] <= lo[p] + u - 1 /\ lo[p] + u - 1 <= hi[p]
              /\ W[p].body[u] = M[at[p]].body[lo[p] + u - 1]
         /\ \A r \in 1..Len(M[at[p]].body) :
              lo[p] <= r /\ r <= hi[p] => Has(W[p], M[at[p]].body[r])
<1> DEFINE j == at[p]  a == lo[p]  b == hi[p]  l == Len(M[j].body)  k == Len(W[p].body)
<1>1. j \in 1..Len(M) /\ a \in Nat /\ b \in Nat /\ Window(M[j], W[p], a, b)
  BY DEF Shows
<1>2. l \in Nat
  <2>1. M[j] \in SectionSet
    BY <1>1
  <2> HIDE DEF j
  <2> QED
    BY <2>1 DEF SectionSet
<1>3. /\ 1 <= a /\ a <= b + 1 /\ b <= l /\ k = b + 1 - a
      /\ \A q \in 1..k : W[p].body[q] = M[j].body[a + q - 1]
  BY <1>1 DEF Window
<1> HIDE DEF j, a, b, l, k
<1>4. \A u \in 1..k : a + u - 1 \in 1..l /\ a + u - 1 \in Nat /\ a <= a + u - 1 /\ a + u - 1 <= b
  BY <1>1, <1>2, <1>3
<1>5. ASSUME NEW r \in 1..l, a <= r, r <= b
      PROVE  Has(W[p], M[j].body[r])
  <2> DEFINE u == r + 1 - a
  <2>1. u \in 1..k /\ a + u - 1 = r
    BY <1>1, <1>2, <1>3, <1>5
  <2> HIDE DEF u
  <2>2. W[p].body[u] = M[j].body[r]
    BY <1>3, <2>1
  <2> QED
    BY <2>1, <2>2 DEF Has, k
<1> QED
  BY <1>1, <1>3, <1>4, <1>5 DEF j, a, b, l, k

(* What merging left whole, the walk shows whole: the windows of one       *)
(* section only move on, and those of different sections do not mix.       *)
LEMMA WalkWhole ==
  ASSUME NEW d \in Documents, NEW M, Merged(d, M, Len(d.trails))
  PROVE  WalkHolds(d, Walk(M))
<1> DEFINE W == Walk(M)
           S == d.shapes
           N == Len(d.trails)
<1>1. /\ M \in Seq(SectionSet)
      /\ \A j \in 1..Len(M) : InOrder(S, M[j].body) /\ Drawn(d, M[j], 0, N)
      /\ \A j, k \in 1..Len(M) : j < k =>
           \A p \in 1..Len(M[j].body), q \in 1..Len(M[k].body) :
             Precedes(S, M[j].body[p], M[k].body[q])
      /\ \A s \in 1..N : \A p \in 1..Len(Body(S, s)) :
           \E j \in 1..Len(M) : \E q \in 1..Len(M[j].body) :
             M[j].body[q] = Body(S, s)[p] /\ M[j].junk = IsJunk(d.trails[s])
  BY DEF Merged
<1>2. W \in Seq(SectionSet) /\ \E at, lo, hi : Shows(M, W, at, lo, hi)
  BY <1>1, WalkShows
<1>3. PICK at, lo, hi : Shows(M, W, at, lo, hi)
  BY <1>2
<1> HIDE DEF W
<1>4. ASSUME NEW p \in 1..Len(W)
      PROVE  /\ at[p] \in 1..Len(M) /\ lo[p] \in Nat /\ hi[p] \in Nat
             /\ \A u \in 1..Len(W[p].body) :
                  /\ lo[p] + u - 1 \in 1..Len(M[at[p]].body) /\ lo[p] + u - 1 \in Nat
                  /\ lo[p] <= lo[p] + u - 1 /\ lo[p] + u - 1 <= hi[p]
                  /\ W[p].body[u] = M[at[p]].body[lo[p] + u - 1]
             /\ \A r \in 1..Len(M[at[p]].body) :
                  lo[p] <= r /\ r <= hi[p] => Has(W[p], M[at[p]].body[r])
  BY <1>1, <1>2, <1>3, ShownPlaces
<1>5. \A p \in 1..Len(W) : W[p].trail = M[at[p]].trail /\ W[p].junk = M[at[p]].junk
                           /\ Len(W[p].body) \in Nat
  <2> TAKE p \in 1..Len(W)
  <2>1. Window(M[at[p]], W[p], lo[p], hi[p])
    BY <1>3 DEF Shows
  <2>2. W[p] \in SectionSet
    BY <1>2
  <2> QED
    BY <2>1, <2>2 DEF Window, SectionSet
<1>6. \A p, q \in 1..Len(W) : p < q =>
       at[p] < at[q] \/ (at[p] = at[q] /\ lo[p] <= lo[q] /\ hi[p] <= hi[q])
  BY <1>3 DEF Shows
<1>7. ASSUME NEW p \in 1..Len(W)
      PROVE  InOrder(S, W[p].body) /\ Drawn(d, W[p], 0, N)
  <2> DEFINE j == at[p]  a == lo[p]  l == Len(W[p].body)
  <2>1. /\ j \in 1..Len(M) /\ a \in Nat /\ l \in Nat
        /\ \A u \in 1..l : a + u - 1 \in 1..Len(M[j].body)
                           /\ W[p].body[u] = M[j].body[a + u - 1]
    BY <1>4, <1>5
  <2>2. W[p].trail = M[j].trail /\ W[p].junk = M[j].junk
    BY <1>5
  <2>3. InOrder(S, M[j].body) /\ Drawn(d, M[j], 0, N)
    BY <1>1, <2>1
  <2> HIDE DEF j, a, l
  <2>4. ASSUME NEW u \in 1..l, NEW v \in 1..l, u < v
        PROVE  Precedes(S, W[p].body[u], W[p].body[v])
    <3>1. a + u - 1 < a + v - 1
      BY <2>1, <2>4
    <3> QED
      BY <2>1, <2>3, <3>1 DEF InOrder
  <2>5. InOrder(S, W[p].body)
    BY <2>4 DEF InOrder, l
  <2>6. Drawn(d, W[p], 0, N)
    <3> SUFFICES ASSUME NEW u \in 1..l, W[p].body[u].type # "heading"
                 PROVE  \E s \in (0 + 1)..N : \E i \in 1..Len(Body(S, s)) :
                          /\ W[p].body[u] = Body(S, s)[i]
                          /\ W[p].junk = IsJunk(d.trails[s])
                          /\ TrailFits(d, W[p].trail, s)
      BY DEF Drawn, l
    <3> DEFINE z == a + u - 1
    <3>1. z \in 1..Len(M[j].body) /\ W[p].body[u] = M[j].body[z]
      BY <2>1
    <3> HIDE DEF z
    <3>2. \E s \in (0 + 1)..N : \E i \in 1..Len(Body(S, s)) :
                          /\ M[j].body[z] = Body(S, s)[i]
                          /\ M[j].junk = IsJunk(d.trails[s])
                          /\ TrailFits(d, M[j].trail, s)
      BY <2>3, <3>1 DEF Drawn
    <3> QED
      BY <2>2, <3>1, <3>2
  <2> QED
    BY <2>5, <2>6
<1>8. ASSUME NEW p \in 1..Len(W), NEW q \in 1..Len(W), p < q,
             NEW u \in 1..Len(W[p].body), NEW v \in 1..Len(W[q].body)
      PROVE  \/ Precedes(S, W[p].body[u], W[q].body[v])
             \/ Has(W[p], W[q].body[v]) /\ Has(W[q], W[p].body[u])
  <2> DEFINE j == at[p]  k == at[q]  r == lo[p] + u - 1  t == lo[q] + v - 1
  <2>1. /\ j \in 1..Len(M) /\ r \in 1..Len(M[j].body) /\ W[p].body[u] = M[j].body[r]
        /\ lo[p] \in Nat /\ hi[p] \in Nat /\ r \in Nat /\ lo[p] <= r /\ r <= hi[p]
    BY <1>4
  <2>2. /\ k \in 1..Len(M) /\ t \in 1..Len(M[k].body) /\ W[q].body[v] = M[k].body[t]
        /\ lo[q] \in Nat /\ hi[q] \in Nat /\ t \in Nat /\ lo[q] <= t /\ t <= hi[q]
    BY <1>4
  <2>3. j < k \/ (j = k /\ lo[p] <= lo[q] /\ hi[p] <= hi[q])
    BY <1>6, <1>8
  <2>4. /\ \A x \in 1..Len(M[j].body) : lo[p] <= x /\ x <= hi[p] => Has(W[p], M[j].body[x])
        /\ \A x \in 1..Len(M[k].body) : lo[q] <= x /\ x <= hi[q] => Has(W[q], M[k].body[x])
    BY <1>4
  <2>5. InOrder(S, M[j].body)
    BY <1>1, <2>1
  <2> HIDE DEF j, k, r, t
  <2>6. CASE j < k
    BY <1>1, <2>1, <2>2, <2>6
  <2>7. CASE j = k /\ r < t
    BY <2>1, <2>2, <2>5, <2>7 DEF InOrder
  <2>8. CASE j = k /\ ~ (r < t) /\ lo[p] <= lo[q] /\ hi[p] <= hi[q]
    <3> DEFINE a == lo[p]  b == hi[p]  e == lo[q]  f == hi[q]
    <3>1. /\ a \in Nat /\ b \in Nat /\ e \in Nat /\ f \in Nat /\ r \in Nat /\ t \in Nat
          /\ a <= r /\ r <= b /\ e <= t /\ t <= f /\ t <= r /\ a <= e /\ b <= f
      BY <2>1, <2>2, <2>8
    <3> HIDE DEF a, b, e, f
    <3>2. a <= t /\ t <= b /\ e <= r /\ r <= f
      BY <3>1
    <3>3. lo[p] <= t /\ t <= hi[p] /\ lo[q] <= r /\ r <= hi[q]
      BY <3>2 DEF a, b, e, f
    <3> QED
      BY <2>1, <2>2, <2>4, <2>8, <3>3
  <2> QED
    BY <2>3, <2>6, <2>7, <2>8
<1>9. ASSUME NEW p \in 1..Len(W), NEW q \in 1..Len(W), NEW r \in 1..Len(W), p <= q, q <= r,
             NEW a, a.type = "word", Has(W[p], a), Has(W[r], a)
      PROVE  Has(W[q], a)
  <2>1. PICK u \in 1..Len(W[p].body) : W[p].body[u] = a
    BY <1>9 DEF Has
  <2>2. PICK v \in 1..Len(W[r].body) : W[r].body[v] = a
    BY <1>9 DEF Has
  <2> DEFINE j == at[p]  k == at[r]  x == lo[p] + u - 1  y == lo[r] + v - 1
  <2>3. /\ j \in 1..Len(M) /\ x \in 1..Len(M[j].body) /\ a = M[j].body[x]
        /\ lo[p] \in Nat /\ hi[p] \in Nat /\ x \in Nat /\ lo[p] <= x /\ x <= hi[p]
    BY <1>4, <2>1
  <2>4. /\ k \in 1..Len(M) /\ y \in 1..Len(M[k].body) /\ a = M[k].body[y]
        /\ lo[r] \in Nat /\ hi[r] \in Nat /\ y \in Nat /\ lo[r] <= y /\ y <= hi[r]
    BY <1>4, <2>2
  <2>5. /\ at[q] \in 1..Len(M) /\ lo[q] \in Nat /\ hi[q] \in Nat
        /\ \A z \in 1..Len(M[at[q]].body) :
             lo[q] <= z /\ z <= hi[q] => Has(W[q], M[at[q]].body[z])
    BY <1>4
  <2>6. ~ Precedes(S, a, a)
    <3>1. Drawn(d, W[p], 0, N)
      BY <1>7
    <3>2. PICK s \in (0 + 1)..N : \E i \in 1..Len(Body(S, s)) : a = Body(S, s)[i]
      <4>1. W[p].body[u].type # "heading"
        BY <1>9, <2>1
      <4> QED
        BY <2>1, <3>1, <4>1 DEF Drawn
    <3>3. PICK i \in 1..Len(Body(S, s)) : a = Body(S, s)[i]
      BY <3>2
    <3>4. s \in 1..Len(d.trails)
      BY <3>2
    <3>5. a.of \in Nat \X Nat
      BY <1>9, <3>3, <3>4, WordHasMarker
    <3>6. ~ Earlier(a.of, a.of)
      <4>1. a.of[1] \in Nat /\ a.of[2] \in Nat
        BY <3>5
      <4> QED
        BY <4>1 DEF Earlier
    <3> QED
      BY <1>9, <3>6 DEF Precedes
  <2>7. p = r \/ p < r
    BY <1>9
  <2>8. CASE p = r
    <3>1. q = p
      BY <1>9, <2>8
    <3> QED
      BY <1>9, <3>1
  <2>9. CASE p < r
    <3>1. j < k \/ (j = k /\ lo[p] <= lo[r] /\ hi[p] <= hi[r])
      BY <1>6, <2>9
    <3>2. InOrder(S, M[j].body)
      BY <1>1, <2>3
    <3>3. /\ p = q \/ at[p] < at[q] \/ (at[p] = at[q] /\ lo[p] <= lo[q] /\ hi[p] <= hi[q])
          /\ q = r \/ at[q] < at[r] \/ (at[q] = at[r] /\ lo[q] <= lo[r] /\ hi[q] <= hi[r])
      <4>1. (p = q \/ p < q) /\ (q = r \/ q < r)
        BY <1>9
      <4> QED
        BY <1>6, <4>1
    <3>4. at[p] = j /\ at[r] = k
      OBVIOUS
    <3> HIDE DEF j, k, x, y
    <3>5. j = k
      <4>1. ~ (j < k)
        BY <1>1, <2>3, <2>4, <2>6
      <4> QED
        BY <3>1, <4>1
    <3>6. x = y
      <4>1. ~ (x < y) /\ ~ (y < x)
        <5>1. x \in 1..Len(M[j].body) /\ y \in 1..Len(M[j].body)
              /\ M[j].body[x] = a /\ M[j].body[y] = a
          BY <2>3, <2>4, <3>5
        <5> QED
          BY <2>6, <3>2, <5>1 DEF InOrder
      <4>2. x \in Nat /\ y \in Nat
        BY <2>3, <2>4
      <4> QED
        BY <4>1, <4>2
    <3>7. at[q] = j /\ lo[q] <= x /\ x <= hi[q]
      <4> DEFINE a1 == lo[p]  b1 == hi[p]  a2 == lo[q]  b2 == hi[q]  a3 == lo[r]  b3 == hi[r]
                 g == at[q]
      <4>1. /\ a1 \in Nat /\ b1 \in Nat /\ a2 \in Nat /\ b2 \in Nat /\ a3 \in Nat /\ b3 \in Nat
            /\ x \in Nat /\ a1 <= x /\ x <= b1 /\ a3 <= x /\ x <= b3
        BY <2>3, <2>4, <2>5, <3>6
      <4>2. j \in Nat /\ g \in Nat
        BY <2>3, <2>5
      <4>3. /\ (p = q /\ g = j /\ a2 = a1 /\ b2 = b1) \/ j < g
                 \/ (g = j /\ a1 <= a2 /\ b1 <= b2)
            /\ (q = r /\ g = j /\ a2 = a3 /\ b2 = b3) \/ g < j
                 \/ (g = j /\ a2 <= a3 /\ b2 <= b3)
        BY <3>3, <3>4, <3>5
      <4> HIDE DEF a1, b1, a2, b2, a3, b3, g
      <4>4. g = j /\ a2 <= x /\ x <= b2
        BY <4>1, <4>2, <4>3
      <4> QED
        BY <4>4 DEF g, a2, b2
    <3> QED
      BY <2>3, <2>5, <3>7
  <2> QED
    BY <2>7, <2>8, <2>9
<1>10. ASSUME NEW s \in 1..N, NEW p \in 1..Len(Body(S, s))
       PROVE  \E q \in 1..Len(W) : Has(W[q], Body(S, s)[p]) /\ W[q].junk = IsJunk(d.trails[s])
  <2>1. PICK j \in 1..Len(M) : \E r \in 1..Len(M[j].body) :
          M[j].body[r] = Body(S, s)[p] /\ M[j].junk = IsJunk(d.trails[s])
    BY <1>1
  <2>2. PICK r \in 1..Len(M[j].body) :
          M[j].body[r] = Body(S, s)[p] /\ M[j].junk = IsJunk(d.trails[s])
    BY <2>1
  <2>3. PICK q \in 1..Len(W) : at[q] = j /\ lo[q] <= r /\ r <= hi[q]
    BY <1>3 DEF Shows
  <2>4. Has(W[q], M[j].body[r])
    BY <1>4, <2>3
  <2> QED
    BY <1>5, <2>2, <2>3, <2>4
<1>11. WalkHolds(d, W)
  BY <1>2, <1>7, <1>8, <1>9, <1>10 DEF WalkHolds
<1> QED
  BY <1>11 DEF W

-----------------------------------------------------------------------------
(* The page the walk has reached.                                          *)

(* Words and markers are known by what they say.                           *)
LEMMA WordsAndMarkers ==
  ASSUME NEW y \in SectionSet
  PROVE  /\ \A w : w \in Words(y.body) <=> Has(y, Word(w))
         /\ \A n : n \in Markers(y.body) <=> Has(y, Page(n))
         /\ Markers(y.body) \subseteq Nat \ {0}
<1> DEFINE b == y.body
<1>1. b \in Seq(Atoms)
  BY DEF SectionSet
<1>2. DOMAIN b = 1..Len(b) /\ \A i \in 1..Len(b) : b[i] \in Atoms
  BY <1>1
<1> HIDE DEF b
<1>3. \A i \in 1..Len(b) : /\ b[i].type = "word" => b[i] = Word(b[i].of)
                           /\ b[i].type = "page" => b[i] = Page(b[i].of) /\ b[i].of \in Nat \ {0}
  BY <1>2 DEF Atoms, Word, Page
<1>4. ASSUME NEW w
      PROVE  w \in Only("word", b) <=> \E i \in 1..Len(b) : b[i] = Word(w)
  <2>1. Word(w).type = "word" /\ Word(w).of = w
    BY DEF Word
  <2> QED
    BY <1>2, <1>3, <2>1 DEF Only
<1>5. ASSUME NEW n
      PROVE  n \in Only("page", b) <=> \E i \in 1..Len(b) : b[i] = Page(n)
  <2>1. Page(n).type = "page" /\ Page(n).of = n
    BY DEF Page
  <2> QED
    BY <1>2, <1>3, <2>1 DEF Only
<1>6. Only("page", b) \subseteq Nat \ {0}
  BY <1>2, <1>3 DEF Only
<1> QED
  BY <1>4, <1>5, <1>6 DEF b, Words, Markers, Has

(* Markers count up within a piece, so the least and the largest are among *)
(* them.                                                                   *)
LEMMA MarkersInOrder ==
  ASSUME NEW shapes, NEW y \in SectionSet, InOrder(shapes, y.body), Markers(y.body) # {}
  PROVE  /\ Max(Markers(y.body)) \in Markers(y.body)
         /\ Min(Markers(y.body)) \in Markers(y.body)
         /\ \A n \in Markers(y.body) :
              Min(Markers(y.body)) <= n /\ n <= Max(Markers(y.body))
<1> DEFINE b == y.body
           M == Markers(b)
           P == {i \in 1..Len(b) : b[i].type = "page"}
           l == Max(P)
<1>1. b \in Seq(Atoms) /\ Len(b) \in Nat /\ DOMAIN b = 1..Len(b)
  BY DEF SectionSet
<1>2. M \subseteq Nat \ {0}
  BY WordsAndMarkers
<1>3. M = {b[i].of : i \in P}
  BY <1>1 DEF Markers, Only
<1> HIDE DEF b
<1>4. P \in SUBSET Nat /\ P # {} /\ \A i \in P : i <= Len(b)
  BY <1>1, <1>3 DEF b
<1>5. l \in P /\ \A i \in P : i <= l
  <2> HIDE DEF P
  <2> QED
    BY <1>1, <1>4, MaxOf
<1> HIDE DEF l
<1>6. b[l].of \in M /\ \A n \in M : n <= b[l].of
  <2>1. b[l].of \in M
    BY <1>3, <1>5
  <2>2. ASSUME NEW i \in P
        PROVE  b[i].of <= b[l].of
    <3>1. i \in 1..Len(b) /\ l \in 1..Len(b) /\ b[i].type = "page" /\ b[l].type = "page"
          /\ i <= l
      BY <1>5
    <3>2. b[i].of \in Nat /\ b[l].of \in Nat
      BY <1>2, <1>3, <1>5
    <3>3. CASE i = l
      BY <3>2, <3>3
    <3>4. CASE i < l
      <4>1. Precedes(shapes, b[i], b[l])
        BY <3>1, <3>4 DEF InOrder, b
      <4> QED
        BY <3>1, <3>2, <4>1 DEF Precedes
    <3> QED
      BY <1>1, <3>1, <3>3, <3>4
  <2> HIDE DEF P
  <2> QED
    BY <1>3, <2>1, <2>2
<1> HIDE DEF P
<1>7. M \in SUBSET Nat /\ M # {} /\ b[l].of \in Nat
  BY <1>2, <1>6
<1> HIDE DEF M
<1>8. Max(M) \in M /\ \A n \in M : n <= Max(M)
  BY <1>6, <1>7, MaxOf
<1>9. Min(M) \in M /\ \A n \in M : Min(M) <= n
  BY <1>7, MinOf
<1> QED
  BY <1>8, <1>9 DEF M, b

(* What a later piece says comes later in the text, unless both pieces say *)
(* it.                                                                     *)
LEMMA AcrossPieces ==
  ASSUME NEW d \in Documents, NEW W, WalkHolds(d, W),
         NEW p \in 1..Len(W), NEW q \in 1..Len(W), p < q,
         NEW a, Has(W[p], a), NEW b, Has(W[q], b)
  PROVE  Precedes(d.shapes, a, b) \/ (Has(W[p], b) /\ Has(W[q], a))
<1>1. PICK u \in 1..Len(W[p].body) : W[p].body[u] = a
  BY DEF Has
<1>2. PICK v \in 1..Len(W[q].body) : W[q].body[v] = b
  BY DEF Has
<1>3. \/ Precedes(d.shapes, W[p].body[u], W[q].body[v])
      \/ Has(W[p], W[q].body[v]) /\ Has(W[q], W[p].body[u])
  BY DEF WalkHolds
<1> QED
  BY <1>1, <1>2, <1>3

(* The last page of the walk is the largest that any piece has marked yet. *)
LastIs(W, m, last) ==
  /\ last \in Nat
  /\ \A p \in 1..m : \A n \in Markers(W[p].body) : n <= last
  /\ last # 0 => \E p \in 1..m : last \in Markers(W[p].body)

(* Advancing the last page, as the walk does for a piece, stored or not.   *)
LEMMA LastStep ==
  ASSUME NEW d \in Documents, NEW W, WalkHolds(d, W),
         NEW m \in 0..(Len(W) - 1), NEW last, LastIs(W, m, last)
  PROVE  LastIs(W, m + 1, Advanced(last, W[m + 1].body))
<1> DEFINE M == Markers(W[m + 1].body)
           next == Advanced(last, W[m + 1].body)
<1>1. /\ W \in Seq(SectionSet) /\ Len(W) \in Nat /\ m \in Nat /\ m + 1 \in 1..Len(W)
      /\ \A p \in 1..m : p \in 1..Len(W) /\ p < m + 1 /\ p \in 1..(m + 1)
      /\ \A p \in 1..(m + 1) : p \in 1..m \/ p = m + 1
      /\ m + 1 \in 1..(m + 1)
  <2>1. W \in Seq(SectionSet)
    BY DEF WalkHolds
  <2>2. Len(W) \in Nat
    BY <2>1
  <2> QED
    BY <2>1, <2>2
<1>2. \A p \in 1..Len(W) : W[p] \in SectionSet
  BY <1>1
<1>3. CASE M = {}
  <2>1. next = last
    BY <1>3 DEF Advanced
  <2> HIDE DEF next
  <2> QED
    BY <1>1, <1>3, <2>1 DEF LastIs, next
<1>4. CASE M # {}
  <2>1. next = Max(M)
    BY <1>4 DEF Advanced
  <2>2. InOrder(d.shapes, W[m + 1].body)
    BY <1>1 DEF WalkHolds
  <2>3. Max(M) \in M /\ \A n \in M : n <= Max(M)
    BY <1>1, <1>2, <1>4, <2>2, MarkersInOrder
  <2>4. M \subseteq Nat \ {0}
    BY <1>1, <1>2, WordsAndMarkers
  <2>5. ASSUME NEW p \in 1..m, NEW n \in Markers(W[p].body)
        PROVE  n <= Max(M)
    <3>1. /\ n \in Nat \ {0} /\ Has(W[p], Page(n))
          /\ Has(W[m + 1], Page(Max(M)))
      <4>1. p \in 1..Len(W)
        BY <1>1
      <4> QED
        BY <1>1, <1>2, <2>3, <4>1, WordsAndMarkers
    <3>2. Precedes(d.shapes, Page(n), Page(Max(M))) \/ Has(W[m + 1], Page(n))
      <4>1. p \in 1..Len(W) /\ m + 1 \in 1..Len(W) /\ p < m + 1
        BY <1>1
      <4> HIDE DEF M, next
      <4> QED
        BY <3>1, <4>1, AcrossPieces
    <3>3. CASE Precedes(d.shapes, Page(n), Page(Max(M)))
      <4>1. n < Max(M)
        BY <3>3 DEF Precedes, Page
      <4> QED
        BY <2>3, <2>4, <3>1, <4>1
    <3>4. CASE Has(W[m + 1], Page(n))
      BY <1>1, <1>2, <2>3, <3>4, WordsAndMarkers
    <3> QED
      BY <3>2, <3>3, <3>4
  <2> DEFINE top == Max(M)
  <2>6. top \in Nat /\ top \in M
    BY <2>3, <2>4
  <2> HIDE DEF top, next
  <2>7. \A p \in 1..(m + 1) : \A n \in Markers(W[p].body) : n <= top
    BY <1>1, <2>3, <2>5 DEF top
  <2>8. \E p \in 1..(m + 1) : top \in Markers(W[p].body)
    BY <1>1, <2>6
  <2> QED
    BY <2>1, <2>6, <2>7, <2>8 DEF LastIs, next, top
<1> QED
  BY <1>3, <1>4

(* The page that the walk has reached is the largest marked so far,        *)
(* whatever was skipped.                                                   *)
LEMMA LastPage ==
  ASSUME NEW d \in Documents, NEW W, WalkHolds(d, W)
  PROVE  \A m \in 0..Len(W) : LastIs(W, m, Walking(W)[m].last)
<1> DEFINE f == Walking(W)
           S == {m \in 0..Len(W) : LastIs(W, m, f[m].last)}
<1>1. Len(W) \in Nat
  BY DEF WalkHolds
<1>2. /\ f[0] = [last |-> 0, chunks |-> <<>>]
      /\ \A n \in 1..Len(W) : f[n] = WalkStep(f[n - 1], W[n])
  BY <1>1, WalkingUnfolds
<1> HIDE DEF f
<1>3. 0 \in S
  <2>1. f[0].last = 0
    BY <1>2
  <2> QED
    BY <1>1, <2>1 DEF LastIs
<1>4. ASSUME NEW m \in Nat, m < Len(W), m \in S
      PROVE  m + 1 \in S
  <2>1. m + 1 \in 1..Len(W) /\ m + 1 \in 0..Len(W) /\ (m + 1) - 1 = m /\ m \in 0..(Len(W) - 1)
    BY <1>1, <1>4
  <2>2. f[m + 1] = WalkStep(f[m], W[m + 1])
    BY <1>2, <2>1
  <2>3. f[m + 1].last = Advanced(f[m].last, W[m + 1].body)
    BY <2>2 DEF WalkStep
  <2>4. LastIs(W, m + 1, Advanced(f[m].last, W[m + 1].body))
    BY <1>4, <2>1, LastStep
  <2> QED
    BY <2>1, <2>3, <2>4
<1>5. \A m \in 0..Len(W) : m \in S
  <2> HIDE DEF S
  <2> QED
    BY <1>1, <1>3, <1>4, InductionUpTo
<1> QED
  BY <1>5 DEF f

-----------------------------------------------------------------------------
(* The chunks that are stored.                                             *)

(* A piece that is stored as a chunk.                                      *)
Stored(y) == ~ y.junk /\ ~ Blank(y)

(* The chunk that a piece is stored as.                                    *)
ChunkOf(W, p) ==
  [trail |-> W[p].trail,
   page_start |->
     IF Markers(W[p].body) # {} /\ Walking(W)[p - 1].last = 0
       THEN Min(Markers(W[p].body)) ELSE Walking(W)[p - 1].last,
   page_end |-> Walking(W)[p].last,
   content |-> W[p].body]

(* Chunks are the stored pieces, in order.                                 *)
From(W, m, cs, src) ==
  /\ cs \in Seq({ChunkOf(W, p) : p \in 1..Len(W)})
  /\ src \in [1..Len(cs) -> 1..m]
  /\ \A c, e \in 1..Len(cs) : c < e => src[c] < src[e]
  /\ \A c \in 1..Len(cs) : Stored(W[src[c]]) /\ cs[c] = ChunkOf(W, src[c])
  /\ \A p \in 1..m : Stored(W[p]) => \E c \in 1..Len(cs) : src[c] = p

(* Storing one more piece.                                                 *)
LEMMA StoreStep ==
  ASSUME NEW W, Len(W) \in Nat, NEW m \in 0..(Len(W) - 1), NEW cs, NEW src, From(W, m, cs, src),
         Stored(W[m + 1])
  PROVE  \E at : From(W, m + 1, Append(cs, ChunkOf(W, m + 1)), at)
<1> DEFINE X == {ChunkOf(W, p) : p \in 1..Len(W)}
           x == ChunkOf(W, m + 1)
           l == Len(cs)
           all == Append(cs, x)
           at == [c \in 1..(l + 1) |-> IF c = l + 1 THEN m + 1 ELSE src[c]]
<1>1. /\ m \in Nat /\ m + 1 \in 1..Len(W) /\ m + 1 \in 1..(m + 1)
      /\ \A p \in 1..m : p \in 1..(m + 1) /\ p < m + 1
      /\ \A p \in 1..(m + 1) : p \in 1..m \/ p = m + 1
  OBVIOUS
<1>2. x \in X
  <2> HIDE DEF x
  <2>1. \A p \in 1..Len(W) : ChunkOf(W, p) \in X
    OBVIOUS
  <2> HIDE DEF X
  <2> QED
    BY <1>1, <2>1 DEF x
<1>3. cs \in Seq(X)
  BY DEF From
<1> HIDE DEF x, X
<1>4. /\ l \in Nat /\ all \in Seq(X) /\ Len(all) = l + 1 /\ all[l + 1] = x
      /\ \A c \in 1..l : all[c] = cs[c]
  BY <1>2, <1>3
<1> HIDE DEF all, l
<1>5. /\ src \in [1..l -> 1..m]
      /\ \A c, e \in 1..l : c < e => src[c] < src[e]
      /\ \A c \in 1..l : Stored(W[src[c]]) /\ cs[c] = ChunkOf(W, src[c])
      /\ \A p \in 1..m : Stored(W[p]) => \E c \in 1..l : src[c] = p
  BY DEF From, l
<1>6. /\ \A c \in 1..l : c \in 1..(l + 1) /\ c # l + 1 /\ c < l + 1
      /\ \A c \in 1..(l + 1) : c \in 1..l \/ c = l + 1
      /\ l + 1 \in 1..(l + 1)
  BY <1>4
<1>7. at[l + 1] = m + 1 /\ \A c \in 1..l : at[c] = src[c] /\ src[c] \in 1..m
  BY <1>5, <1>6
<1>8. at \in [1..(l + 1) -> 1..(m + 1)]
  <2>1. \A c \in 1..(l + 1) : (IF c = l + 1 THEN m + 1 ELSE src[c]) \in 1..(m + 1)
    BY <1>1, <1>5, <1>6
  <2> QED
    BY <2>1
<1> HIDE DEF at
<1>9. \A c, e \in 1..(l + 1) : c < e => at[c] < at[e]
  <2> SUFFICES ASSUME NEW c \in 1..(l + 1), NEW e \in 1..(l + 1), c < e
               PROVE  at[c] < at[e]
    OBVIOUS
  <2>1. c \in 1..l
    BY <1>4, <1>6
  <2>2. CASE e \in 1..l
    BY <1>5, <1>7, <2>1, <2>2
  <2>3. CASE e = l + 1
    BY <1>1, <1>7, <2>1, <2>3
  <2> QED
    BY <1>6, <2>2, <2>3
<1>10. \A c \in 1..(l + 1) : Stored(W[at[c]]) /\ all[c] = ChunkOf(W, at[c])
  <2> TAKE c \in 1..(l + 1)
  <2>1. CASE c \in 1..l
    BY <1>4, <1>5, <1>7, <2>1
  <2>2. CASE c = l + 1
    BY <1>4, <1>7, <2>2 DEF x
  <2> QED
    BY <1>6, <2>1, <2>2
<1>11. \A p \in 1..(m + 1) : Stored(W[p]) => \E c \in 1..(l + 1) : at[c] = p
  <2> TAKE p \in 1..(m + 1)
  <2>1. CASE p \in 1..m
    BY <1>5, <1>6, <1>7, <2>1
  <2>2. CASE p = m + 1
    BY <1>6, <1>7, <2>2
  <2> QED
    BY <1>1, <2>1, <2>2
<1>12. From(W, m + 1, all, at)
  BY <1>4, <1>8, <1>9, <1>10, <1>11 DEF From, X
<1> QED
  BY <1>12 DEF all, x

(* The chunks are the pieces worth storing, in the order of the walk.      *)
LEMMA ChunksStored ==
  ASSUME NEW W, Len(W) \in Nat
  PROVE  \E src : From(W, Len(W), Walking(W)[Len(W)].chunks, src)
<1> DEFINE f == Walking(W)
           S == {m \in 0..Len(W) : \E src : From(W, m, f[m].chunks, src)}
<1>1. /\ f[0] = [last |-> 0, chunks |-> <<>>]
      /\ \A n \in 1..Len(W) : f[n] = WalkStep(f[n - 1], W[n])
  BY WalkingUnfolds
<1> HIDE DEF f
<1>2. 0 \in S
  <2> DEFINE X == {ChunkOf(W, p) : p \in 1..Len(W)}
  <2> HIDE DEF X
  <2>1. <<>> \in Seq(X) /\ 1..Len(<<>>) = {} /\ 1..0 = {} /\ <<>> \in [{} -> {}]
    OBVIOUS
  <2>2. From(W, 0, <<>>, <<>>)
    BY <2>1 DEF From, X
  <2>3. f[0].chunks = <<>>
    BY <1>1
  <2> QED
    BY <2>2, <2>3
<1>3. ASSUME NEW m \in Nat, m < Len(W), m \in S
      PROVE  m + 1 \in S
  <2> DEFINE y == W[m + 1]
  <2>1. m + 1 \in 1..Len(W) /\ m + 1 \in 0..Len(W) /\ (m + 1) - 1 = m /\ m \in 0..(Len(W) - 1)
    BY <1>3
  <2>2. f[m + 1] = WalkStep(f[m], y)
    BY <1>1, <2>1
  <2>3. PICK src : From(W, m, f[m].chunks, src)
    BY <1>3
  <2>4. CASE ~ Stored(y)
    <3>1. f[m + 1].chunks = f[m].chunks
      BY <2>2, <2>4 DEF WalkStep, Stored
    <3> DEFINE cs == f[m].chunks
    <3>2. From(W, m + 1, cs, src)
      <4> HIDE DEF cs
      <4>1. \A p \in 1..m : p \in 1..(m + 1)
        BY <1>3
      <4>2. \A p \in 1..(m + 1) : p \in 1..m \/ p = m + 1
        BY <1>3
      <4>3. From(W, m, cs, src)
        BY <2>3 DEF cs
      <4>4. src \in [1..Len(cs) -> 1..(m + 1)]
        BY <4>1, <4>3 DEF From
      <4>5. \A p \in 1..(m + 1) : Stored(W[p]) => \E c \in 1..Len(cs) : src[c] = p
        BY <2>4, <4>2, <4>3 DEF From
      <4> QED
        BY <4>3, <4>4, <4>5 DEF From
    <3> QED
      BY <2>1, <3>1, <3>2
  <2>5. CASE Stored(y)
    <3>1. f[m + 1].chunks = Append(f[m].chunks, ChunkOf(W, m + 1))
      <4> DEFINE marks == Markers(y.body)
                 end == Advanced(f[m].last, y.body)
                 start == IF marks # {} /\ f[m].last = 0 THEN Min(marks) ELSE f[m].last
      <4>1. /\ f[m + 1].last = end
            /\ f[m + 1].chunks = Append(f[m].chunks,
                 [trail |-> y.trail, page_start |-> start, page_end |-> end, content |-> y.body])
        BY <2>2, <2>5 DEF WalkStep, Stored
      <4>2. ChunkOf(W, m + 1) =
              [trail |-> y.trail, page_start |-> start, page_end |-> end, content |-> y.body]
        <5> HIDE DEF end
        <5> QED
          BY <2>1, <4>1 DEF ChunkOf, f
      <4> QED
        BY <4>1, <4>2
    <3>2. \E at : From(W, m + 1, Append(f[m].chunks, ChunkOf(W, m + 1)), at)
      BY <2>1, <2>3, <2>5, StoreStep
    <3> QED
      BY <2>1, <3>1, <3>2
  <2> QED
    BY <2>4, <2>5
<1>4. \A m \in 0..Len(W) : m \in S
  <2> HIDE DEF S
  <2> QED
    BY <1>2, <1>3, InductionUpTo
<1>5. Len(W) \in 0..Len(W)
  OBVIOUS
<1> QED
  BY <1>4, <1>5 DEF f

-----------------------------------------------------------------------------
(* A document's chunks, as the walk stored them.                           *)

(* The chunks are those of a walk over the document's merged sections.     *)
Cut(W, src) ==
  /\ doc \in Documents
  /\ WalkHolds(doc, W)
  /\ From(W, Len(W), chunks, src)

(* The chunks of a document are those of a walk over its merged sections.  *)
LEMMA ChunksAreCut ==
  ASSUME doc \in Documents, chunks = ChunkMarkdown(Sections(doc))
  PROVE  \E W, src : Cut(W, src)
<1> DEFINE M == MergeSmallSections(Judged(Sections(doc)))
           W == Walk(M)
<1>1. Merged(doc, M, Len(doc.trails))
  BY MergeHolds
<1>2. chunks = Walking(W)[Len(W)].chunks
  BY DEF ChunkMarkdown
<1> HIDE DEF M
<1>3. WalkHolds(doc, W)
  BY <1>1, WalkWhole
<1> HIDE DEF W
<1>4. Len(W) \in Nat
  BY <1>3 DEF WalkHolds
<1>5. \E src : From(W, Len(W), chunks, src)
  BY <1>2, <1>4, ChunksStored
<1> QED
  BY <1>3, <1>5 DEF Cut

(* Where a chunk was cut, and that its words are those of the piece.       *)
LEMMA CutAt ==
  ASSUME NEW W, NEW src, Cut(W, src), NEW c \in DOMAIN chunks
  PROVE  /\ src[c] \in 1..Len(W) /\ W[src[c]] \in SectionSet
         /\ Stored(W[src[c]])
         /\ chunks[c] = ChunkOf(W, src[c])
         /\ chunks[c].trail = W[src[c]].trail
         /\ chunks[c].content = W[src[c]].body
         /\ \A w : w \in Words(chunks[c].content) <=> Has(W[src[c]], Word(w))
<1> DEFINE p == src[c]
<1>1. /\ W \in Seq(SectionSet) /\ Len(W) \in Nat
  BY DEF Cut, WalkHolds
<1>2. DOMAIN chunks = 1..Len(chunks)
  BY DEF Cut, From
<1>3. p \in 1..Len(W) /\ Stored(W[p]) /\ chunks[c] = ChunkOf(W, p)
  BY <1>2 DEF Cut, From
<1> HIDE DEF p
<1>4. W[p] \in SectionSet
  BY <1>1, <1>3
<1>5. chunks[c].trail = W[p].trail /\ chunks[c].content = W[p].body
  BY <1>3 DEF ChunkOf
<1>6. \A w : w \in Words(W[p].body) <=> Has(W[p], Word(w))
  BY <1>4, WordsAndMarkers
<1> QED
  BY <1>3, <1>4, <1>5, <1>6 DEF p

(* The chunks are in the order of the walk, and miss no piece worth storing. *)
LEMMA CutInOrder ==
  ASSUME NEW W, NEW src, Cut(W, src)
  PROVE  /\ Len(W) \in Nat /\ Len(chunks) \in Nat /\ DOMAIN chunks = 1..Len(chunks)
         /\ \A c, e \in DOMAIN chunks : c < e => src[c] < src[e]
         /\ \A p \in 1..Len(W) : Stored(W[p]) => \E c \in DOMAIN chunks : src[c] = p
<1>1. Len(W) \in Nat
  BY DEF Cut, WalkHolds
<1>2. Len(chunks) \in Nat /\ DOMAIN chunks = 1..Len(chunks)
  <2> DEFINE X == {ChunkOf(W, p) : p \in 1..Len(W)}
  <2>1. chunks \in Seq(X)
    BY DEF Cut, From
  <2> HIDE DEF X
  <2> QED
    BY <2>1
<1>3. /\ \A c, e \in 1..Len(chunks) : c < e => src[c] < src[e]
      /\ \A p \in 1..Len(W) : Stored(W[p]) => \E c \in 1..Len(chunks) : src[c] = p
  BY DEF Cut, From
<1> QED
  BY <1>1, <1>2, <1>3

(* A word of the walk is a word of the section that it names, which is     *)
(* junk when the piece is, and whose heading the piece may be cited under. *)
LEMMA WordComesFrom ==
  ASSUME NEW d \in Documents, NEW W, WalkHolds(d, W), NEW p \in 1..Len(W),
         NEW w, Has(W[p], Word(w))
  PROVE  /\ w \in Nat \X Nat /\ w[1] \in 1..Len(d.trails)
         /\ \E i \in 1..Len(Body(d.shapes, w[1])) : Body(d.shapes, w[1])[i] = Word(w)
         /\ W[p].junk = IsJunk(d.trails[w[1]])
         /\ TrailFits(d, W[p].trail, w[1])
         /\ Stored(W[p]) <=> ~ IsJunk(d.trails[w[1]])
<1>1. PICK u \in 1..Len(W[p].body) : W[p].body[u] = Word(w)
  BY DEF Has
<1>2. Word(w).type = "word" /\ Word(w).of = w
  BY DEF Word
<1>3. Drawn(d, W[p], 0, Len(d.trails))
  BY DEF WalkHolds
<1>4. PICK s \in (0 + 1)..Len(d.trails) : \E i \in 1..Len(Body(d.shapes, s)) :
          /\ W[p].body[u] = Body(d.shapes, s)[i]
          /\ W[p].junk = IsJunk(d.trails[s])
          /\ TrailFits(d, W[p].trail, s)
  BY <1>1, <1>2, <1>3 DEF Drawn
<1>5. PICK i \in 1..Len(Body(d.shapes, s)) :
          /\ Word(w) = Body(d.shapes, s)[i]
          /\ W[p].junk = IsJunk(d.trails[s])
          /\ TrailFits(d, W[p].trail, s)
  BY <1>1, <1>4
<1>6. s \in 1..Len(d.trails) /\ w \in Nat \X Nat /\ w[1] = s
  <2>1. s \in 1..Len(d.trails)
    BY <1>4
  <2>2. Body(d.shapes, s)[i].type = "word" /\ Body(d.shapes, s)[i].of = w
    BY <1>2, <1>5
  <2>3. Body(d.shapes, s)[i].of \in Nat \X Nat /\ Body(d.shapes, s)[i].of[1] = s
    BY <2>1, <2>2, WordHasMarker
  <2> QED
    BY <2>1, <2>2, <2>3
<1>7. ~ Blank(W[p])
  <2>1. W \in Seq(SectionSet)
    BY DEF WalkHolds
  <2>2. W[p] \in SectionSet
    BY <2>1
  <2>3. W[p].body \in Seq(Atoms)
    BY <2>2 DEF SectionSet
  <2>4. u \in DOMAIN W[p].body
    BY <1>1, <2>3
  <2> QED
    BY <1>1, <1>2, <2>4 DEF Blank
<1>8. Stored(W[p]) <=> ~ IsJunk(d.trails[w[1]])
  <2>1. W[p].junk = IsJunk(d.trails[w[1]])
    BY <1>5, <1>6
  <2> QED
    BY <1>7, <2>1, Zenon DEF Stored
<1> QED
  BY <1>5, <1>6, <1>8

(* What a chunk adds, no piece of the walk before it says.                 *)
LEMMA NewToTheWalk ==
  ASSUME NEW W, NEW src, Cut(W, src), NEW c \in DOMAIN chunks, NEW w \in New(c),
         NEW p \in 1..Len(W), p < src[c]
  PROVE  ~ Has(W[p], Word(w))
<1> SUFFICES ASSUME Has(W[p], Word(w)) PROVE FALSE
  OBVIOUS
<1>1. /\ doc \in Documents /\ WalkHolds(doc, W)
      /\ Len(W) \in Nat /\ Len(chunks) \in Nat /\ DOMAIN chunks = 1..Len(chunks)
      /\ \A b, e \in DOMAIN chunks : b < e => src[b] < src[e]
      /\ Stored(W[p]) => \E e \in DOMAIN chunks : src[e] = p
  BY CutInOrder DEF Cut
<1>2. w \in Words(chunks[c].content) /\ (c = 1 \/ w \notin Words(chunks[c - 1].content))
  BY DEF New
<1>3. src[c] \in 1..Len(W) /\ Stored(W[src[c]]) /\ Has(W[src[c]], Word(w))
  BY <1>2, CutAt
<1>4. Stored(W[p])
  <2>1. Stored(W[src[c]]) <=> ~ IsJunk(doc.trails[w[1]])
    BY <1>1, <1>3, WordComesFrom
  <2>2. Stored(W[p]) <=> ~ IsJunk(doc.trails[w[1]])
    BY <1>1, WordComesFrom
  <2> QED
    BY <1>3, <2>1, <2>2
<1>5. PICK e \in DOMAIN chunks : src[e] = p
  BY <1>1, <1>4
<1>6. e < c
  <2>1. e # c /\ ~ (c < e)
    <3>1. src[c] \in Nat /\ p \in Nat
      BY <1>1, <1>3
    <3> QED
      BY <1>1, <1>5, <3>1
  <2> QED
    BY <1>1, <2>1
<1>7. c - 1 \in DOMAIN chunks /\ c - 1 < c /\ c # 1 /\ (e = c - 1 \/ e < c - 1)
  BY <1>1, <1>6
<1> DEFINE q == src[c - 1]  r == src[c]
<1>8. q \in 1..Len(W) /\ r \in 1..Len(W) /\ p <= q /\ q <= r
  <2>1. q \in 1..Len(W) /\ q < r /\ (p = q \/ p < q)
    BY <1>1, <1>5, <1>7, CutAt
  <2> HIDE DEF q, r
  <2> QED
    BY <1>1, <1>3, <2>1 DEF r
<1> HIDE DEF q, r
<1>9. Has(W[q], Word(w))
  <2>1. Word(w).type = "word"
    BY DEF Word
  <2>2. Has(W[r], Word(w))
    BY <1>3 DEF r
  <2> QED
    BY <1>1, <1>8, <2>1, <2>2 DEF WalkHolds
<1>10. w \in Words(chunks[c - 1].content)
  BY <1>7, <1>9, CutAt DEF q
<1> QED
  BY <1>2, <1>7, <1>10

-----------------------------------------------------------------------------
(* The invariants.                                                         *)

(* A document's words are those of its sections' bodies.                   *)
LEMMA BodyWords ==
  ASSUME NEW d \in Documents, NEW s \in 1..Len(d.trails), NEW w
  PROVE  w \in Words(Body(d.shapes, s)) <=>
           \E i \in 1..Len(Body(d.shapes, s)) : Body(d.shapes, s)[i] = Word(w)
<1> DEFINE y == Judged(Sections(d))[s]
<1>1. y \in SectionSet /\ y.body = Body(d.shapes, s)
  BY JudgedSections
<1> HIDE DEF y
<1> QED
  BY <1>1, WordsAndMarkers DEF Has

(* What a later chunk adds comes later in the text.                        *)
LEMMA AddedOnce ==
  ASSUME NEW W, NEW src, Cut(W, src),
         NEW c \in DOMAIN chunks, NEW e \in DOMAIN chunks, c < e,
         NEW u \in New(c), NEW v \in New(e)
  PROVE  Earlier(u, v)
<1> DEFINE p == src[c]  q == src[e]
<1>1. u \in Words(chunks[c].content) /\ v \in Words(chunks[e].content)
  BY DEF New
<1>2. p \in 1..Len(W) /\ q \in 1..Len(W) /\ p < q
  BY CutAt, CutInOrder
<1>3. Has(W[p], Word(u)) /\ Has(W[q], Word(v))
  BY <1>1, CutAt
<1>4. ~ Has(W[p], Word(v))
  BY <1>2, NewToTheWalk
<1> HIDE DEF p, q
<1>5. Precedes(doc.shapes, Word(u), Word(v))
  BY <1>2, <1>3, <1>4, AcrossPieces DEF Cut
<1> QED
  BY <1>5 DEF Precedes, Word

(* A word that is kept is added by the first chunk that says it.           *)
LEMMA AddedByAChunk ==
  ASSUME NEW W, NEW src, Cut(W, src), NEW s \in DOMAIN doc.trails, ~ IsJunk(doc.trails[s]),
         NEW w \in Words(Body(doc.shapes, s))
  PROVE  \E c \in DOMAIN chunks : w \in New(c)
<1> DEFINE C == {c \in DOMAIN chunks : w \in Words(chunks[c].content)}
<1>1. /\ doc \in Documents /\ WalkHolds(doc, W) /\ s \in 1..Len(doc.trails)
      /\ Len(chunks) \in Nat /\ DOMAIN chunks = 1..Len(chunks)
      /\ \A p \in 1..Len(W) : Stored(W[p]) => \E c \in DOMAIN chunks : src[c] = p
  BY CutInOrder, DocumentShape DEF Cut
<1>2. PICK i \in 1..Len(Body(doc.shapes, s)) : Body(doc.shapes, s)[i] = Word(w)
  BY <1>1, BodyWords
<1>3. PICK p \in 1..Len(W) : Has(W[p], Word(w))
                             /\ W[p].junk = IsJunk(doc.trails[s])
  BY <1>1, <1>2 DEF WalkHolds
<1>4. w[1] = s
  <2>1. Word(w).type = "word" /\ Word(w).of = w
    BY DEF Word
  <2> QED
    BY <1>1, <1>2, <2>1, WordHasMarker
<1>5. Stored(W[p])
  BY <1>1, <1>3, <1>4, WordComesFrom
<1>6. PICK e \in DOMAIN chunks : src[e] = p
  BY <1>1, <1>3, <1>5
<1>7. e \in C
  BY <1>3, <1>6, CutAt
<1>8. PICK c \in C : \A b \in C : c <= b
  <2>1. C \in SUBSET Nat /\ C # {}
    BY <1>1, <1>7
  <2> HIDE DEF C
  <2> QED
    BY <2>1, LeastNumber
<1>9. c = 1 \/ c - 1 \notin C
  BY <1>1, <1>8
<1>10. c = 1 \/ c - 1 \in DOMAIN chunks
  BY <1>1
<1>11. w \in New(c)
  BY <1>9, <1>10 DEF New
<1> QED
  BY <1>11

(* So what the chunks add is what is kept.                                 *)
LEMMA KeptWords ==
  ASSUME NEW W, NEW src, Cut(W, src)
  PROVE  UNION {New(c) : c \in DOMAIN chunks} = Kept
<1>1. /\ doc \in Documents /\ WalkHolds(doc, W) /\ DOMAIN doc.trails = 1..Len(doc.trails)
  BY DocumentShape DEF Cut
<1>2. ASSUME NEW c \in DOMAIN chunks, NEW w \in New(c)
      PROVE  w \in Kept
  <2> DEFINE p == src[c]
  <2>1. w \in Words(chunks[c].content)
    BY DEF New
  <2>2. p \in 1..Len(W) /\ Stored(W[p]) /\ Has(W[p], Word(w))
    BY <2>1, CutAt
  <2> HIDE DEF p
  <2>3. /\ w[1] \in 1..Len(doc.trails) /\ ~ IsJunk(doc.trails[w[1]])
        /\ \E i \in 1..Len(Body(doc.shapes, w[1])) : Body(doc.shapes, w[1])[i] = Word(w)
    BY <1>1, <2>2, WordComesFrom
  <2>4. w \in Words(Body(doc.shapes, w[1]))
    BY <1>1, <2>3, BodyWords
  <2> QED
    BY <1>1, <2>3, <2>4 DEF Kept
<1>3. ASSUME NEW w \in Kept
      PROVE  \E c \in DOMAIN chunks : w \in New(c)
  <2>1. PICK s \in DOMAIN doc.trails : ~ IsJunk(doc.trails[s]) /\ w \in Words(Body(doc.shapes, s))
    BY DEF Kept
  <2> QED
    BY <2>1, AddedByAChunk
<1> QED
  BY <1>2, <1>3

(* A chunk is in reading order.                                            *)
LEMMA ChunkInOrder ==
  ASSUME NEW W, NEW src, Cut(W, src), NEW c \in DOMAIN chunks
  PROVE  InReadingOrder(chunks[c].content)
<1> DEFINE p == src[c]
           b == chunks[c].content
<1>1. p \in 1..Len(W) /\ W[p] \in SectionSet /\ b = W[p].body
  BY CutAt
<1> HIDE DEF p, b
<1>2. InOrder(doc.shapes, b)
  BY <1>1 DEF Cut, WalkHolds
<1>3. b \in Seq(Atoms)
  BY <1>1 DEF SectionSet
<1>4. DOMAIN b = 1..Len(b)
  BY <1>3
<1>5. InReadingOrder(b)
  BY <1>2, <1>4 DEF InOrder, InReadingOrder, Precedes
<1> QED
  BY <1>5 DEF b

(* A chunk's trail fits each of its words.                                 *)
LEMMA ChunkFits ==
  ASSUME NEW W, NEW src, Cut(W, src), NEW c \in DOMAIN chunks,
         NEW w \in Words(chunks[c].content)
  PROVE  TrailFits(doc, chunks[c].trail, w[1])
<1> DEFINE p == src[c]
<1>1. p \in 1..Len(W) /\ chunks[c].trail = W[p].trail /\ Has(W[p], Word(w))
  BY CutAt
<1> HIDE DEF p
<1>2. TrailFits(doc, W[p].trail, w[1])
  BY <1>1, WordComesFrom DEF Cut
<1> QED
  BY <1>1, <1>2

(* The marker of a new word's page is in its piece or in one before it.    *)
LEMMA PageReached ==
  ASSUME NEW W, NEW src, Cut(W, src), NEW c \in DOMAIN chunks, NEW w \in New(c)
  PROVE  /\ PageOf(doc.shapes, w) \in Nat \ {0}
         /\ \E r \in 1..src[c] : PageOf(doc.shapes, w) \in Markers(W[r].body)
<1> DEFINE p == src[c]
           n == PageOf(doc.shapes, w)
           S == doc.shapes
<1>1. /\ doc \in Documents /\ WalkHolds(doc, W) /\ W \in Seq(SectionSet) /\ Len(W) \in Nat
  BY DEF Cut, WalkHolds
<1>2. w \in Words(chunks[c].content)
  BY DEF New
<1>3. p \in 1..Len(W) /\ Has(W[p], Word(w))
  BY <1>2, CutAt
<1> HIDE DEF p
<1>4. /\ w \in Nat \X Nat /\ w[1] \in 1..Len(doc.trails)
      /\ \E i \in 1..Len(Body(S, w[1])) : Body(S, w[1])[i] = Word(w)
  BY <1>1, <1>3, WordComesFrom
<1>5. PICK i \in 1..Len(Body(S, w[1])) : Body(S, w[1])[i] = Word(w)
  BY <1>4
<1>6. \E t \in 1..Len(doc.trails) : \E j \in 1..Len(Body(S, t)) : Body(S, t)[j] = Page(n)
  <2>1. Body(S, w[1])[i].type = "word" /\ Body(S, w[1])[i].of = w
    BY <1>5 DEF Word
  <2> HIDE DEF n
  <2> QED
    BY <1>1, <1>4, <2>1, WordHasMarker DEF n
<1>7. n \in Nat \ {0}
  BY <1>1, <1>4, PagesCount
<1> HIDE DEF n
<1>8. PICK t \in 1..Len(doc.trails) : \E j \in 1..Len(Body(S, t)) : Body(S, t)[j] = Page(n)
  BY <1>6
<1>9. PICK j \in 1..Len(Body(S, t)) : Body(S, t)[j] = Page(n)
  BY <1>8
<1>10. PICK r \in 1..Len(W) : Has(W[r], Page(n))
  BY <1>1, <1>9 DEF WalkHolds
<1>11. \E u \in 1..p : Has(W[u], Page(n))
  <2>1. CASE r <= p
    <3>1. r \in 1..p
      BY <1>1, <1>3, <2>1
    <3> QED
      BY <1>10, <3>1
  <2>2. CASE p < r
    <3>1. Precedes(S, Word(w), Page(n)) \/ Has(W[p], Page(n))
      BY <1>1, <1>3, <1>10, <2>2, AcrossPieces
    <3>2. ~ Precedes(S, Word(w), Page(n))
      <4>1. PageOf(S, w) = n
        BY DEF n
      <4> QED
        BY <1>7, <4>1 DEF Precedes, Word, Page
    <3>3. p \in 1..p
      BY <1>3
    <3> QED
      BY <3>1, <3>2, <3>3
  <2> QED
    BY <1>1, <1>3, <2>1, <2>2
<1>12. PICK u \in 1..p : Has(W[u], Page(n))
  BY <1>11
<1>13. n \in Markers(W[u].body)
  <2>1. u \in 1..Len(W)
    BY <1>1, <1>3
  <2>2. W[u] \in SectionSet
    BY <1>1, <2>1
  <2> QED
    BY <1>12, <2>2, WordsAndMarkers
<1> QED
  BY <1>7, <1>13 DEF n, p

(* A new word's page is among those its chunk is cited with. Page_start is *)
(* the last page of the pieces before, or the first marker if there was    *)
(* none; a marker before the word cannot be past the word's page.          *)
LEMMA PageCited ==
  ASSUME NEW W, NEW src, Cut(W, src), NEW c \in DOMAIN chunks, NEW w \in New(c)
  PROVE  PageOf(doc.shapes, w) \in chunks[c].page_start..chunks[c].page_end
<1> DEFINE p == src[c]
           n == PageOf(doc.shapes, w)
           M == Markers(W[p].body)
           prev == Walking(W)[p - 1].last
           last == Walking(W)[p].last
           start == IF M # {} /\ prev = 0 THEN Min(M) ELSE prev
<1>1. /\ doc \in Documents /\ WalkHolds(doc, W) /\ W \in Seq(SectionSet) /\ Len(W) \in Nat
  BY DEF Cut, WalkHolds
<1>2. w \in Words(chunks[c].content)
  BY DEF New
<1>3. /\ p \in 1..Len(W) /\ Has(W[p], Word(w)) /\ W[p] \in SectionSet
      /\ chunks[c] = ChunkOf(W, p)
  BY <1>2, CutAt
<1>4. chunks[c].page_start = start /\ chunks[c].page_end = last
  BY <1>3 DEF ChunkOf
<1>5. n \in Nat \ {0} /\ \E r \in 1..p : n \in Markers(W[r].body)
  BY PageReached
<1>6. \A q \in 1..Len(W) : q < p => ~ Has(W[q], Word(w))
  BY NewToTheWalk
<1>7. PageOf(doc.shapes, w) = n
  OBVIOUS
<1> HIDE DEF p, n
<1>8. /\ p \in Nat \ {0} /\ p - 1 \in Nat
      /\ p \in 0..Len(W) /\ p - 1 \in 0..Len(W)
      /\ \A q \in 1..(p - 1) : q \in 1..Len(W) /\ q < p
      /\ \A q \in 1..p : q = p \/ q \in 1..(p - 1)
  BY <1>1, <1>3
<1>9. LastIs(W, p, last) /\ LastIs(W, p - 1, prev)
  BY <1>1, <1>8, LastPage
<1> HIDE DEF prev, last
<1>10. last \in Nat /\ n <= last
  BY <1>5, <1>9 DEF LastIs
<1>11. prev \in Nat
  BY <1>9 DEF LastIs
<1>12. start \in Nat /\ start <= n
  <2>1. CASE M # {} /\ prev = 0
    <3>1. start = Min(M)
      BY <2>1
    <3>2. \A r \in 1..(p - 1) : n \notin Markers(W[r].body)
      BY <1>5, <1>9, <2>1 DEF LastIs
    <3>3. n \in M
      BY <1>5, <1>8, <3>2
    <3>4. InOrder(doc.shapes, W[p].body)
      BY <1>1, <1>3 DEF WalkHolds
    <3>5. Min(M) \in M /\ \A m \in M : Min(M) <= m
      BY <1>3, <2>1, <3>4, MarkersInOrder
    <3>6. M \subseteq Nat \ {0}
      BY <1>3, WordsAndMarkers
    <3> HIDE DEF M, start
    <3> QED
      BY <3>1, <3>3, <3>5, <3>6
  <2>2. CASE ~ (M # {} /\ prev = 0)
    <3>1. start = prev
      BY <2>2
    <3> HIDE DEF start
    <3>2. CASE prev = 0
      BY <1>5, <3>1, <3>2
    <3>3. CASE prev # 0
      <4>1. PICK r \in 1..(p - 1) : prev \in Markers(W[r].body)
        BY <1>9, <3>3 DEF LastIs
      <4>2. r \in 1..Len(W) /\ r < p
        BY <1>8
      <4>3. W[r] \in SectionSet
        BY <1>1, <4>2
      <4>4. Has(W[r], Page(prev))
        BY <4>1, <4>3, WordsAndMarkers
      <4>5. Precedes(doc.shapes, Page(prev), Word(w)) \/ Has(W[r], Word(w))
        BY <1>1, <1>3, <4>2, <4>4, AcrossPieces
      <4>6. Precedes(doc.shapes, Page(prev), Word(w))
        BY <1>6, <4>2, <4>5
      <4>7. prev <= n
        BY <1>7, <4>6 DEF Precedes, Word, Page
      <4> QED
        BY <1>11, <3>1, <4>7
    <3> QED
      BY <3>2, <3>3
  <2> QED
    BY <2>1, <2>2
<1> HIDE DEF start
<1>13. n \in start..last
  BY <1>5, <1>10, <1>12
<1> QED
  BY <1>4, <1>13 DEF n

-----------------------------------------------------------------------------

(* Where there are chunks, they are those of the document.                 *)
ChunkInv ==
  /\ doc # Nothing => doc \in Documents
  /\ Chunked => doc \in Documents /\ chunks = ChunkMarkdown(Sections(doc))

(* The document is never changed, and chunks come from nowhere else.       *)
LEMMA DocumentChunked ==
  TextSpec => []ChunkInv
<1>1. Init => ChunkInv
  BY DEF Init, ChunkInv, Chunked
<1>2. ChunkInv /\ [Next]_tvars => ChunkInv'
  BY DEF ChunkInv, Chunked, Next, Chunk, Rank, tvars
<1> QED
  BY <1>1, <1>2, PTL DEF TextSpec

(* So in every state with chunks they were cut from a walk.                *)
LEMMA ChunkedIsCut ==
  ASSUME ChunkInv, Chunked
  PROVE  \E W, src : Cut(W, src)
<1>1. doc \in Documents /\ chunks = ChunkMarkdown(Sections(doc))
  BY DEF ChunkInv
<1> QED
  BY <1>1, ChunksAreCut

(* NothingLost for every document, chunk size and overlap: chunk_markdown  *)
(* keeps every word of every section that is not junk, once but for the    *)
(* overlap, in reading order, and no other word.                           *)
THEOREM WordsKept ==
  TextSpec => []NothingLost
<1>1. ChunkInv => NothingLost
  <2> SUFFICES ASSUME ChunkInv, Chunked
               PROVE  /\ UNION { New(c) : c \in DOMAIN chunks } = Kept
                      /\ \A c \in DOMAIN chunks : InReadingOrder(chunks[c].content)
                      /\ \A c, d \in DOMAIN chunks : c < d =>
                           \A u \in New(c), v \in New(d) : Earlier(u, v)
    BY DEF NothingLost
  <2>1. PICK W, src : Cut(W, src)
    BY ChunkedIsCut
  <2>2. UNION { New(c) : c \in DOMAIN chunks } = Kept
    BY <2>1, KeptWords
  <2>3. \A c \in DOMAIN chunks : InReadingOrder(chunks[c].content)
    BY <2>1, ChunkInOrder
  <2>4. \A c, d \in DOMAIN chunks : c < d =>
          \A u \in New(c), v \in New(d) : Earlier(u, v)
    BY <2>1, AddedOnce
  <2> QED
    BY <2>2, <2>3, <2>4
<1> QED
  BY <1>1, DocumentChunked, PTL

(* PagesHold for every document: the pages that chunk_markdown cites a     *)
(* chunk with hold every word that the chunk adds, whatever was merged,    *)
(* skipped as junk or dropped as blank before it.                          *)
THEOREM PagesCited ==
  TextSpec => []PagesHold
<1>1. ChunkInv => PagesHold
  <2> SUFFICES ASSUME ChunkInv, Chunked, NEW c \in DOMAIN chunks, NEW w \in New(c)
               PROVE  PageOf(doc.shapes, w) \in chunks[c].page_start..chunks[c].page_end
    BY DEF PagesHold
  <2>1. PICK W, src : Cut(W, src)
    BY ChunkedIsCut
  <2> QED
    BY <2>1, PageCited
<1> QED
  BY <1>1, DocumentChunked, PTL

(* TrailsTrue for every document: a chunk is cited under the heading of    *)
(* each of its words, or under the one above when small sections were      *)
(* merged.                                                                 *)
THEOREM TrailsFit ==
  TextSpec => []TrailsTrue
<1>1. ChunkInv => TrailsTrue
  <2> SUFFICES ASSUME ChunkInv, Chunked, NEW c \in DOMAIN chunks,
                      NEW w \in Words(chunks[c].content)
               PROVE  \/ chunks[c].trail = doc.trails[w[1]]
                      \/ /\ Len(Body(doc.shapes, w[1])) < MinChunk
                         /\ Len(doc.trails[w[1]]) > 1
                         /\ chunks[c].trail = Front(doc.trails[w[1]])
    BY DEF TrailsTrue
  <2>1. PICK W, src : Cut(W, src)
    BY ChunkedIsCut
  <2>2. TrailFits(doc, chunks[c].trail, w[1])
    BY <2>1, ChunkFits
  <2> QED
    BY <2>2 DEF TrailFits
<1> QED
  BY <1>1, DocumentChunked, PTL
=============================================================================
