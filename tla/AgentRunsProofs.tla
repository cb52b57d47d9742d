--------------------------- MODULE AgentRunsProofs ---------------------------
(***************************************************************************)
(* What the provers check of AgentRuns, for every number of questions,     *)
(* pages and restarts and whatever the searches return: the registry keeps *)
(* every run in flight, the numbers of the citations agree, a card knows   *)
(* what the run had seen, and the page is fed as Feed promises.            *)
(***************************************************************************)
EXTENDS AgentRuns, DataInduction

Cards == [file : Files, unknown : BOOLEAN]

Payloads ==
  (SUBSET (Nat \X Chunks)) \cup (SUBSET Files) \cup (SUBSET Cards) \cup Seq(Chunks)

Events == [type : {"results", "tool_error", "recommendations", "done", "error"},
           of : Payloads]

Keys == Agents \cup Range(Old)

Runs == [kind : {"none", "research", "browse"},
         at : {"off", "ask", "close", "over", "cut", "lost"},
         round : Nat \ {0}, searches : Nat, sources : Seq(Chunks),
         seen : SUBSET Files, cards : SUBSET Cards, broken : BOOLEAN]

Posts == [at : {"off", "prune", "drop", "insert"}, stale : Keys \cup {NoOne}]

Turns == [at : {"none", "waiting", "attaching", "streaming", "away", "settled", "gone"},
          status : {"none", "running", "done", "failed", "gone"},
          known : BOOLEAN, heard : Seq(Events), pos : Nat, saw : BOOLEAN]

TypeOK ==
  /\ run \in [Agents -> Runs]
  /\ told \in [Agents -> Seq(Events)]
  /\ registry \in Seq(Keys)
  /\ post \in [Agents -> Posts]
  /\ turn \in [Agents -> Turns]
  /\ restarts \in 0..MaxRestarts

(* What a question has reached: nothing is told, and nobody can find it,   *)
(* before its run begins; the two kinds of run do not mix.                 *)
BegunInv(a) ==
  /\ run[a].kind = "none" =>
       run[a] = Idle /\ told[a] = <<>> /\ ~ Contains(registry, a)
  /\ run[a].kind # "none" =>
       post[a].at = "off" /\ turn[a].at # "none" /\ run[a].at # "off"
  /\ turn[a].at = "none" => turn[a] = NoTurn /\ post[a].at = "off"
  /\ run[a].kind = "browse" =>
       turn[a].at \in {"streaming", "settled", "gone"} /\ ~ Contains(registry, a)
  /\ run[a].round <= Rounds[a]
  /\ run[a].searches <= MaxSearches

ReachInv(a) ==
  /\ run[a].kind = "research" /\ run[a].at \in Working => Contains(registry, a)
  /\ post[a].at = "drop" => Finished(post[a].stale)

(* What the events of a run cite, show and shortlist.                      *)
CitedIn(s) == UNION { s[i].of : i \in { j \in DOMAIN s : s[j].type = "results" } }

Numbers(sources) == { <<n, sources[n]>> : n \in DOMAIN sources }

ShownIn(s, i) == UNION { s[j].of : j \in { k \in 1..i : s[k].type = "results" } }

LastList(s, i, cards) ==
  LET lists == { j \in 1..i : s[j].type = "recommendations" }
  IN  IF lists = {} THEN cards = {}
      ELSE \E j \in lists : (\A k \in lists : k <= j) /\ cards = s[j].of

Flagged(s, i) ==
  s[i].type = "recommendations" =>
    \A card \in s[i].of : card.unknown <=> card.file \notin ShownIn(s, i)

(* Whatever a run has told is true: only its last event closes, and what   *)
(* that one reports is what the events before it add up to.                *)
TrueTold(kind, s) ==
  /\ \A i \in DOMAIN s : Asker!Closing(s[i]) => i = Len(s)
  /\ kind = "research" =>
       \A i \in DOMAIN s : s[i].type = "done" =>
         IsInjective(s[i].of) /\ CitedIn(s) = Numbers(s[i].of)
  /\ kind = "browse" =>
       \A i \in DOMAIN s : /\ Flagged(s, i)
                           /\ s[i].type = "done" => LastList(s, i, s[i].of)

(* The session of a loop that is still going is what it has told so far.   *)
OpenTold(r, s) ==
  /\ \A i \in DOMAIN s : ~ Asker!Closing(s[i])
  /\ r.kind = "research" =>
       IsInjective(r.sources) /\ CitedIn(s) = Numbers(r.sources)
  /\ r.kind = "browse" =>
       r.seen = ShownIn(s, Len(s)) /\ LastList(s, Len(s), r.cards)

ToldInv(a) ==
  /\ TrueTold(run[a].kind, told[a])
  /\ run[a].at = "ask" => OpenTold(run[a], told[a])
  /\ run[a].at \in {"close", "over"} =>
       told[a] # <<>> /\ Asker!Closing(told[a][Len(told[a])])

(* The turn t of a page has heard a prefix of what its run, of that kind,  *)
(* told; it knows how far its stream has come, and why it is running.      *)
HeardOf(kind, s, t) ==
  /\ kind = "browse" => t.heard = <<>>
  /\ Len(t.heard) <= Len(s)
  /\ \A i \in 1..Len(t.heard) : t.heard[i] = s[i]
  /\ t.pos <= Len(t.heard)
  /\ t.at = "streaming" => kind # "none" /\ t.pos = Len(t.heard)
  /\ t.saw => \E i \in 1..Len(t.heard) : t.heard[i].type = "done"
  /\ t.at \in {"waiting", "attaching", "streaming", "away"} <=> t.status = "running"
  /\ t.at = "none" <=> t.status = "none"

HeardInv(a) == HeardOf(run[a].kind, told[a], turn[a])

AgentInv(a) == BegunInv(a) /\ ReachInv(a) /\ ToldInv(a) /\ HeardInv(a)

IInv == TypeOK /\ IsInjective(registry) /\ \A a \in Agents : AgentInv(a)
-----------------------------------------------------------------------------
(* The sequences of the model.                                             *)

(* Joining two sequences.                                                  *)
LEMMA ConcatIs ==
  ASSUME NEW S, NEW s \in Seq(S), NEW t \in Seq(S)
  PROVE  /\ s \o t \in Seq(S)
         /\ Len(s \o t) = Len(s) + Len(t)
         /\ \A k \in 1..Len(s) : (s \o t)[k] = s[k]
         /\ \A k \in 1..Len(t) : (s \o t)[Len(s) + k] = t[k]
         /\ \A k \in 1..(Len(s) + Len(t)) : Len(s) < k => (s \o t)[k] = t[k - Len(s)]
  OBVIOUS

(* Taking one position out of a sequence keeps the others, in their order. *)
LEMMA RemoveAtIs ==
  ASSUME NEW S, NEW s \in Seq(S), NEW i \in 1..Len(s)
  PROVE  /\ RemoveAt(s, i) \in Seq(S)
         /\ Len(RemoveAt(s, i)) = Len(s) - 1
         /\ \A k \in 1..(Len(s) - 1) :
              RemoveAt(s, i)[k] = IF k < i THEN s[k] ELSE s[k + 1]
<1> DEFINE left == SubSeq(s, 1, i - 1)
           right == SubSeq(s, i + 1, Len(s))
<1>1. left \in Seq(S) /\ Len(left) = i - 1 /\ \A k \in 1..(i - 1) : left[k] = s[k]
  OBVIOUS
<1>2. /\ right \in Seq(S)
      /\ Len(right) = Len(s) - i
      /\ \A k \in 1..(Len(s) - i) : right[k] = s[k + i]
  OBVIOUS
<1>3. RemoveAt(s, i) = left \o right
  BY DEF RemoveAt
<1> HIDE DEF left, right
<1>4. left \o right \in Seq(S) /\ Len(left \o right) = Len(s) - 1
  <2>1. left \o right \in Seq(S) /\ Len(left \o right) = Len(left) + Len(right)
    BY <1>1, <1>2, ConcatIs
  <2>2. Len(s) \in Nat /\ i \in Nat
    OBVIOUS
  <2> QED
    BY <1>1, <1>2, <2>1, <2>2
<1>5. ASSUME NEW k \in 1..(Len(s) - 1)
      PROVE  (left \o right)[k] = IF k < i THEN s[k] ELSE s[k + 1]
  <2>1. CASE k < i
    BY <1>1, <1>2, <2>1, ConcatIs
  <2>2. CASE i <= k
    <3>1. (left \o right)[k] = right[k - (i - 1)]
      BY <1>1, <1>2, <2>2, ConcatIs
    <3>2. k - (i - 1) \in 1..(Len(s) - i) /\ k - (i - 1) + i = k + 1
      BY <2>2
    <3> QED
      BY <1>2, <2>2, <3>1, <3>2
  <2>3. k < i \/ i <= k
    OBVIOUS
  <2> QED
    BY <2>1, <2>2, <2>3
<1> QED
  BY <1>3, <1>4, <1>5

(* Removing a key of an injective sequence takes that key and no other.    *)
LEMMA RemoveFirstIs ==
  ASSUME NEW S, NEW s \in Seq(S), NEW x, Contains(s, x)
  PROVE  /\ RemoveFirst(s, x) \in Seq(S)
         /\ IsInjective(s) => IsInjective(RemoveFirst(s, x))
         /\ \A y : Contains(RemoveFirst(s, x), y) => Contains(s, y)
         /\ \A y : y # x /\ Contains(s, y) => Contains(RemoveFirst(s, x), y)
<1> DEFINE I == {i \in 1..Len(s) : s[i] = x}
           first == SelectInSeq(s, LAMBDA v : v = x)
           r == RemoveFirst(s, x)
<1>1. I \in SUBSET Nat /\ I # {}
  BY DEF Contains
<1>2. first \in I
  <2>1. \E i \in I : \A j \in I : i <= j
    <3> HIDE DEF I
    <3> QED
      BY <1>1, LeastNumber
  <2>2. first = Min(I)
    BY <1>1 DEF SelectInSeq
  <2> QED
    BY <2>1, <2>2 DEF Min
<1>3. first \in 1..Len(s) /\ s[first] = x
  BY <1>2
<1>4. r = RemoveAt(s, first)
  BY <1>1 DEF RemoveFirst
<1> HIDE DEF first, I, r
<1>5. /\ r \in Seq(S)
      /\ Len(r) = Len(s) - 1
      /\ \A k \in 1..(Len(s) - 1) : r[k] = IF k < first THEN s[k] ELSE s[k + 1]
  BY <1>3, <1>4, RemoveAtIs
<1>6. ASSUME IsInjective(s) PROVE IsInjective(r)
  <2> SUFFICES ASSUME NEW j \in 1..(Len(s) - 1), NEW k \in 1..(Len(s) - 1), r[j] = r[k]
               PROVE  j = k
    BY <1>5 DEF IsInjective
  <2>1. \A m, n \in 1..Len(s) : s[m] = s[n] => m = n
    BY <1>6 DEF IsInjective
  <2> QED
    BY <1>3, <1>5, <2>1
<1>7. ASSUME NEW y, Contains(r, y) PROVE Contains(s, y)
  <2>1. PICK k \in 1..(Len(s) - 1) : r[k] = y
    BY <1>5, <1>7 DEF Contains
  <2> QED
    BY <1>3, <1>5, <2>1 DEF Contains
<1>8. ASSUME NEW y, y # x, Contains(s, y) PROVE Contains(r, y)
  <2>1. PICK k \in 1..Len(s) : s[k] = y
    BY <1>8 DEF Contains
  <2>2. k # first
    BY <1>3, <1>8, <2>1
  <2>3. CASE k < first
    <3>1. k \in 1..(Len(s) - 1) /\ r[k] = y
      BY <1>3, <1>5, <2>1, <2>3
    <3> QED
      BY <1>5, <3>1 DEF Contains
  <2>4. CASE first < k
    <3>1. k - 1 \in 1..(Len(s) - 1) /\ r[k - 1] = y
      BY <1>3, <1>5, <2>1, <2>4
    <3> QED
      BY <1>5, <3>1 DEF Contains
  <2> QED
    BY <1>3, <2>2, <2>3, <2>4
<1> QED
  BY <1>5, <1>6, <1>7, <1>8 DEF r

(* Appending keeps what the sequence contained and adds the new key.       *)
LEMMA AppendContains ==
  ASSUME NEW S, NEW s \in Seq(S), NEW x \in S
  PROVE  /\ Contains(Append(s, x), x)
         /\ \A y : y # x => (Contains(Append(s, x), y) <=> Contains(s, y))
         /\ IsInjective(s) /\ ~ Contains(s, x) => IsInjective(Append(s, x))
<1> DEFINE t == Append(s, x)
<1>1. /\ t \in Seq(S)
      /\ Len(t) = Len(s) + 1
      /\ t[Len(s) + 1] = x
      /\ \A i \in 1..Len(s) : t[i] = s[i]
  OBVIOUS
<1> HIDE DEF t
<1>2. Contains(t, x)
  BY <1>1 DEF Contains
<1>3. ASSUME NEW y, y # x PROVE Contains(t, y) <=> Contains(s, y)
  BY <1>1, <1>3 DEF Contains
<1>4. ASSUME IsInjective(s), ~ Contains(s, x) PROVE IsInjective(t)
  BY <1>1, <1>4 DEF Contains, IsInjective
<1> QED
  BY <1>2, <1>3, <1>4 DEF t

(* Session.search numbers a passage at its first appearance: the sources   *)
(* keep their numbers, the new ones are rows, and none has two numbers.    *)
LEMMA SourcesExtend ==
  ASSUME NEW r \in Runs, NEW rows \in Seq(Chunks)
  PROVE  /\ Sources(r, rows) \in Seq(Chunks)
         /\ Len(r.sources) <= Len(Sources(r, rows))
         /\ \A n \in 1..Len(r.sources) : Sources(r, rows)[n] = r.sources[n]
         /\ \A n \in 1..Len(Sources(r, rows)) :
              Len(r.sources) < n => Sources(r, rows)[n] \in Range(rows)
         /\ IsInjective(r.sources) => IsInjective(Sources(r, rows))
<1> DEFINE old == r.sources
           Solution(f) == f = [n \in 0..Len(rows) |->
             IF n = 0 THEN r.sources
             ELSE IF rows[n] \in Range(f[n - 1]) THEN f[n - 1]
             ELSE Append(f[n - 1], rows[n])]
           upTo == CHOOSE f : Solution(f)
           step == [s \in Seq(Chunks) |-> [c \in Chunks |->
             IF c \in Range(s) THEN s ELSE Append(s, c)]]
           Extends(s) ==
             /\ s \in Seq(Chunks)
             /\ Len(old) <= Len(s)
             /\ \A n \in 1..Len(old) : s[n] = old[n]
             /\ \A n \in 1..Len(s) : Len(old) < n => s[n] \in Range(rows)
             /\ IsInjective(old) => IsInjective(s)
           Good == {n \in 0..Len(rows) : Extends(upTo[n])}
<1>1. old \in Seq(Chunks) /\ Len(rows) \in Nat
  BY DEF Runs
<1>2. step \in Steps(Seq(Chunks), Chunks)
  BY DEF Steps
<1>3. Solution(upTo)
  <2>1. ASSUME NEW g \in [0..Len(rows) -> Seq(Chunks)], RunsOver(g, old, step, rows)
        PROVE  Solution(g)
    <3> SUFFICES ASSUME NEW n \in 0..Len(rows), n # 0
                 PROVE  g[n] = IF rows[n] \in Range(g[n - 1]) THEN g[n - 1]
                               ELSE Append(g[n - 1], rows[n])
      BY <1>1, <2>1 DEF RunsOver
    <3>1. n \in 1..Len(rows) /\ n - 1 \in 0..Len(rows)
      BY <1>1
    <3>2. g[n - 1] \in Seq(Chunks) /\ rows[n] \in Chunks
      <4> HIDE DEF step
      <4> QED
        BY <3>1
    <3>3. g[n] = step[g[n - 1]][rows[n]]
      <4> HIDE DEF step
      <4> QED
        BY <2>1, <3>1 DEF RunsOver
    <3> QED
      BY <3>2, <3>3
  <2>2. HasRun(Seq(Chunks), old, step, rows)
    <3> HIDE DEF step, old
    <3> QED
      BY <1>1, <1>2, RecursionOverSequence
  <2>3. \E g : Solution(g)
    <3> HIDE DEF Solution, step, old
    <3> QED
      BY <2>1, <2>2 DEF HasRun
  <2> HIDE DEF Solution
  <2> QED
    BY <2>3
<1>4. Sources(r, rows) = upTo[Len(rows)]
  BY DEF Sources
<1>5. /\ upTo[0] = old
      /\ \A n \in 1..Len(rows) :
           upTo[n] = IF rows[n] \in Range(upTo[n - 1]) THEN upTo[n - 1]
                     ELSE Append(upTo[n - 1], rows[n])
  <2> HIDE DEF upTo
  <2>1. upTo = [n \in 0..Len(rows) |->
                 IF n = 0 THEN r.sources
                 ELSE IF rows[n] \in Range(upTo[n - 1]) THEN upTo[n - 1]
                 ELSE Append(upTo[n - 1], rows[n])]
    BY <1>3
  <2> HIDE DEF Solution
  <2>2. 0 \in 0..Len(rows) /\ \A n \in 1..Len(rows) : n \in 0..Len(rows) /\ n # 0
    BY <1>1
  <2> QED
    BY <2>1, <2>2, Zenon
<1> HIDE DEF upTo, step, Solution
<1>6. 0 \in Good
  BY <1>1, <1>5
<1>7. ASSUME NEW n \in Nat, n < Len(rows), n \in Good
      PROVE  n + 1 \in Good
  <2> DEFINE s == upTo[n]
             c == rows[n + 1]
  <2>1. Extends(s) /\ c \in Chunks /\ c \in Range(rows) /\ n + 1 \in 0..Len(rows)
    BY <1>1, <1>7 DEF Range
  <2>2. upTo[n + 1] = IF c \in Range(s) THEN s ELSE Append(s, c)
    BY <1>1, <1>5, <1>7
  <2> HIDE DEF s, c
  <2>3. ASSUME c \notin Range(s) PROVE Extends(Append(s, c))
    <3>1. /\ Append(s, c) \in Seq(Chunks)
          /\ Len(Append(s, c)) = Len(s) + 1
          /\ Append(s, c)[Len(s) + 1] = c
          /\ \A i \in 1..Len(s) : Append(s, c)[i] = s[i]
      BY <2>1
    <3>2. ~ Contains(s, c)
      BY <2>1, <2>3 DEF Contains, Range
    <3>3. IsInjective(s) => IsInjective(Append(s, c))
      BY <2>1, <3>2, AppendContains
    <3> HIDE DEF old
    <3>4. Len(old) \in Nat /\ Len(s) \in Nat
      BY <1>1, <2>1
    <3> QED
      BY <2>1, <3>1, <3>3, <3>4
  <2> HIDE DEF Extends
  <2> QED
    BY <2>1, <2>2, <2>3
<1>8. Len(rows) \in Good
  <2> HIDE DEF Good
  <2>1. \A n \in 0..Len(rows) : n \in Good
    BY <1>1, <1>6, <1>7, InductionUpTo
  <2> QED
    BY <1>1, <2>1
<1> QED
  BY <1>4, <1>8

-----------------------------------------------------------------------------
(* What one more event changes.                                            *)

(* One more event is cited, shown or listed after those before it, which   *)
(* stay what they were.                                                    *)
LEMMA OneMoreEvent ==
  ASSUME NEW s \in Seq(Events), NEW e \in Events
  PROVE  /\ Append(s, e) \in Seq(Events)
         /\ Len(Append(s, e)) = Len(s) + 1
         /\ Append(s, e)[Len(s) + 1] = e
         /\ \A i \in 1..Len(s) : Append(s, e)[i] = s[i]
         /\ DOMAIN Append(s, e) = 1..(Len(s) + 1)
         /\ DOMAIN s = 1..Len(s)
         /\ Len(s) \in Nat
  OBVIOUS

(* A result adds what it cites; no other event cites anything.             *)
LEMMA CitedInMore ==
  ASSUME NEW s \in Seq(Events), NEW e \in Events
  PROVE  CitedIn(Append(s, e)) =
           IF e.type = "results" THEN CitedIn(s) \cup e.of ELSE CitedIn(s)
<1> DEFINE t == Append(s, e)
           R(q) == { j \in DOMAIN q : q[j].type = "results" }
<1>1. R(t) = IF e.type = "results" THEN R(s) \cup {Len(s) + 1} ELSE R(s)
  BY OneMoreEvent
<1>2. \A i \in R(s) : t[i].of = s[i].of
  BY OneMoreEvent
<1>3. t[Len(s) + 1].of = e.of
  BY OneMoreEvent
<1>4. CitedIn(t) = UNION { t[i].of : i \in R(t) } /\ CitedIn(s) = UNION { s[i].of : i \in R(s) }
  BY DEF CitedIn
<1> HIDE DEF R, t
<1>5. { t[i].of : i \in R(s) } = { s[i].of : i \in R(s) }
  BY <1>2
<1>6. CASE e.type = "results"
  <2>1. { t[i].of : i \in R(t) } = { s[i].of : i \in R(s) } \cup {e.of}
    BY <1>1, <1>2, <1>3, <1>6
  <2> QED
    BY <1>4, <1>6, <2>1 DEF t
<1>7. CASE e.type # "results"
  BY <1>1, <1>4, <1>5, <1>7 DEF t
<1> QED
  BY <1>6, <1>7

(* A result adds what it shows, and what was shown before stays.           *)
LEMMA ShownInMore ==
  ASSUME NEW s \in Seq(Events), NEW e \in Events
  PROVE  /\ \A i \in 0..Len(s) : ShownIn(Append(s, e), i) = ShownIn(s, i)
         /\ ShownIn(Append(s, e), Len(s) + 1) =
              IF e.type = "results" THEN ShownIn(s, Len(s)) \cup e.of
              ELSE ShownIn(s, Len(s))
<1> DEFINE t == Append(s, e)
           R(q, i) == { k \in 1..i : q[k].type = "results" }
<1>1. \A q, i : ShownIn(q, i) = UNION { q[j].of : j \in R(q, i) }
  BY DEF ShownIn
<1>2. ASSUME NEW i \in 0..Len(s)
      PROVE  R(t, i) = R(s, i) /\ \A j \in R(s, i) : t[j].of = s[j].of
  BY OneMoreEvent
<1>3. R(t, Len(s) + 1) =
        IF e.type = "results" THEN R(s, Len(s)) \cup {Len(s) + 1} ELSE R(s, Len(s))
  BY OneMoreEvent
<1>4. t[Len(s) + 1].of = e.of /\ Len(s) \in 0..Len(s)
  BY OneMoreEvent
<1> HIDE DEF R, t
<1>5. ASSUME NEW i \in 0..Len(s) PROVE ShownIn(t, i) = ShownIn(s, i)
  <2>1. { t[j].of : j \in R(t, i) } = { s[j].of : j \in R(s, i) }
    BY <1>2
  <2> QED
    BY <1>1, <2>1
<1>6. CASE e.type = "results"
  <2>1. { t[j].of : j \in R(t, Len(s) + 1) } = { s[j].of : j \in R(s, Len(s)) } \cup {e.of}
    BY <1>2, <1>3, <1>4, <1>6
  <2>2. ShownIn(t, Len(s) + 1) = ShownIn(s, Len(s)) \cup e.of
    BY <1>1, <2>1
  <2> QED
    BY <1>5, <1>6, <2>2 DEF t
<1>7. CASE e.type # "results"
  <2>1. { t[j].of : j \in R(t, Len(s) + 1) } = { s[j].of : j \in R(s, Len(s)) }
    BY <1>2, <1>3, <1>4, <1>7
  <2>2. ShownIn(t, Len(s) + 1) = ShownIn(s, Len(s))
    BY <1>1, <2>1
  <2> QED
    BY <1>5, <1>7, <2>2 DEF t
<1> QED
  BY <1>6, <1>7

(* A new shortlist is the last one; any other event leaves the last one.   *)
LEMMA LastListMore ==
  ASSUME NEW s \in Seq(Events), NEW e \in Events
  PROVE  /\ \A i \in 0..Len(s) : \A c : LastList(Append(s, e), i, c) <=> LastList(s, i, c)
         /\ e.type = "recommendations" => LastList(Append(s, e), Len(s) + 1, e.of)
         /\ e.type # "recommendations" =>
              \A c : LastList(Append(s, e), Len(s) + 1, c) <=> LastList(s, Len(s), c)
<1> DEFINE t == Append(s, e)
           R(q, i) == { j \in 1..i : q[j].type = "recommendations" }
           Latest(q, J, c) == IF J = {} THEN c = {}
                              ELSE \E j \in J : (\A k \in J : k <= j) /\ c = q[j].of
<1>1. \A q, i, c : LastList(q, i, c) <=> Latest(q, R(q, i), c)
  BY DEF LastList
<1>2. ASSUME NEW i \in 0..Len(s)
      PROVE  R(t, i) = R(s, i) /\ \A j \in R(s, i) : t[j].of = s[j].of
  BY OneMoreEvent
<1>3. R(t, Len(s) + 1) =
        IF e.type = "recommendations" THEN R(s, Len(s)) \cup {Len(s) + 1} ELSE R(s, Len(s))
  BY OneMoreEvent
<1>4. t[Len(s) + 1].of = e.of /\ Len(s) \in 0..Len(s)
  BY OneMoreEvent
<1>5. \A i \in 0..Len(s) : \A j \in R(s, i) : j <= Len(s) + 1
  BY OneMoreEvent
<1> HIDE DEF R, t
<1>6. ASSUME NEW i \in 0..Len(s), NEW c PROVE LastList(t, i, c) <=> LastList(s, i, c)
  <2>1. Latest(t, R(t, i), c) <=> Latest(s, R(s, i), c)
    BY <1>2
  <2> QED
    BY <1>1, <2>1
<1>7. ASSUME e.type = "recommendations" PROVE LastList(t, Len(s) + 1, e.of)
  <2>1. Len(s) + 1 <= Len(s) + 1
    BY OneMoreEvent
  <2>2. Latest(t, R(t, Len(s) + 1), e.of)
    BY <1>3, <1>4, <1>5, <1>7, <2>1
  <2> QED
    BY <1>1, <2>2
<1>8. ASSUME e.type # "recommendations", NEW c
      PROVE  LastList(t, Len(s) + 1, c) <=> LastList(s, Len(s), c)
  <2>1. Latest(t, R(t, Len(s) + 1), c) <=> Latest(s, R(s, Len(s)), c)
    BY <1>2, <1>3, <1>4, <1>8
  <2> QED
    BY <1>1, <2>1
<1> QED
  BY <1>6, <1>7, <1>8 DEF t

(* While the loop goes on, one more event that says what the session       *)
(* gained leaves what is told true.                                        *)
LEMMA MoreTold ==
  ASSUME NEW r \in Runs, NEW q \in Runs, q.kind = r.kind,
         NEW s \in Seq(Events), NEW e \in Events, ~ Asker!Closing(e),
         TrueTold(r.kind, s), OpenTold(r, s),
         r.kind = "research" => /\ e.type = "results"
                                /\ IsInjective(q.sources)
                                /\ Numbers(q.sources) = Numbers(r.sources) \cup e.of,
         r.kind = "browse" =>
           /\ q.seen = IF e.type = "results" THEN r.seen \cup e.of ELSE r.seen
           /\ e.type = "recommendations" =>
                /\ q.cards = e.of
                /\ \A card \in e.of : card.unknown <=> card.file \notin r.seen
           /\ e.type # "recommendations" => q.cards = r.cards
  PROVE  TrueTold(q.kind, Append(s, e)) /\ OpenTold(q, Append(s, e))
<1> DEFINE t == Append(s, e)
<1>1. /\ t \in Seq(Events) /\ Len(t) = Len(s) + 1 /\ t[Len(s) + 1] = e
      /\ \A i \in 1..Len(s) : t[i] = s[i]
      /\ DOMAIN t = 1..(Len(s) + 1) /\ DOMAIN s = 1..Len(s) /\ Len(s) \in Nat
  BY OneMoreEvent
<1>2. \A i \in DOMAIN t : i \in 1..Len(s) \/ i = Len(s) + 1
  BY <1>1
<1>3. CitedIn(t) = IF e.type = "results" THEN CitedIn(s) \cup e.of ELSE CitedIn(s)
  BY CitedInMore
<1>4. /\ \A i \in 0..Len(s) : ShownIn(t, i) = ShownIn(s, i)
      /\ ShownIn(t, Len(s) + 1) =
           IF e.type = "results" THEN ShownIn(s, Len(s)) \cup e.of ELSE ShownIn(s, Len(s))
  BY ShownInMore
<1>5. /\ \A i \in 0..Len(s) : \A c : LastList(t, i, c) <=> LastList(s, i, c)
      /\ e.type = "recommendations" => LastList(t, Len(s) + 1, e.of)
      /\ e.type # "recommendations" =>
           \A c : LastList(t, Len(s) + 1, c) <=> LastList(s, Len(s), c)
  BY LastListMore
<1> HIDE DEF t
<1>6. \A i \in DOMAIN t : ~ Asker!Closing(t[i])
  BY <1>1, <1>2 DEF OpenTold
<1>7. \A i \in DOMAIN t : t[i].type # "done"
  BY <1>6 DEF Asker!Closing
<1>8. ASSUME q.kind = "browse", NEW i \in DOMAIN t PROVE Flagged(t, i)
  <2>1. CASE i \in 1..Len(s)
    <3>1. Flagged(s, i)
      BY <1>1, <1>8, <2>1 DEF TrueTold
    <3>2. t[i] = s[i] /\ ShownIn(t, i) = ShownIn(s, i)
      BY <1>1, <1>4, <2>1
    <3> QED
      BY <3>1, <3>2 DEF Flagged
  <2>2. CASE i = Len(s) + 1 /\ e.type = "recommendations"
    <3>1. ShownIn(t, i) = r.seen
      BY <1>4, <1>8, <2>2 DEF OpenTold
    <3> QED
      BY <1>1, <1>8, <2>2, <3>1 DEF Flagged
  <2>3. CASE i = Len(s) + 1 /\ e.type # "recommendations"
    BY <1>1, <2>3 DEF Flagged
  <2> QED
    BY <1>2, <2>1, <2>2, <2>3
<1>9. TrueTold(q.kind, t)
  BY <1>6, <1>7, <1>8 DEF TrueTold
<1>10. ASSUME q.kind = "research" PROVE IsInjective(q.sources) /\ CitedIn(t) = Numbers(q.sources)
  BY <1>3, <1>10 DEF OpenTold
<1>11. ASSUME q.kind = "browse" PROVE q.seen = ShownIn(t, Len(t)) /\ LastList(t, Len(t), q.cards)
  <2>1. r.seen = ShownIn(s, Len(s)) /\ LastList(s, Len(s), r.cards)
    BY <1>11 DEF OpenTold
  <2>2. q.seen = ShownIn(t, Len(t))
    BY <1>1, <1>4, <1>11, <2>1
  <2>3. LastList(t, Len(t), q.cards)
    BY <1>1, <1>5, <1>11, <2>1
  <2> QED
    BY <2>2, <2>3
<1>12. OpenTold(q, t)
  BY <1>6, <1>10, <1>11 DEF OpenTold
<1> QED
  BY <1>9, <1>12 DEF t

(* The last event, the end of the run or its error, reports what the       *)
(* session gained.                                                         *)
LEMMA LastTold ==
  ASSUME NEW r \in Runs, NEW s \in Seq(Events), NEW e \in Events,
         e \in {Done(r), Event("error", {})},
         TrueTold(r.kind, s), OpenTold(r, s)
  PROVE  /\ TrueTold(r.kind, Append(s, e))
         /\ Append(s, e) # <<>>
         /\ Asker!Closing(Append(s, e)[Len(Append(s, e))])
<1> DEFINE t == Append(s, e)
<1>1. /\ t \in Seq(Events) /\ Len(t) = Len(s) + 1 /\ t[Len(s) + 1] = e
      /\ \A i \in 1..Len(s) : t[i] = s[i]
      /\ DOMAIN t = 1..(Len(s) + 1) /\ DOMAIN s = 1..Len(s) /\ Len(s) \in Nat
  BY OneMoreEvent
<1>2. \A i \in DOMAIN t : i \in 1..Len(s) \/ i = Len(s) + 1
  BY <1>1
<1>3. e.type \in {"done", "error"}
  BY DEF Done, Event
<1>4. CitedIn(t) = CitedIn(s)
  BY <1>3, CitedInMore
<1>5. \A i \in 0..Len(s) : ShownIn(t, i) = ShownIn(s, i)
  BY ShownInMore
<1>6. \A c : LastList(t, Len(s) + 1, c) <=> LastList(s, Len(s), c)
  BY <1>3, LastListMore
<1> HIDE DEF t
<1>7. \A i \in 1..Len(s) : ~ Asker!Closing(t[i]) /\ t[i].type # "done"
  BY <1>1 DEF OpenTold, Asker!Closing
<1>8. \A i \in DOMAIN t : Asker!Closing(t[i]) => i = Len(t)
  BY <1>1, <1>2, <1>7
<1>9. ASSUME r.kind = "research", NEW i \in DOMAIN t, t[i].type = "done"
      PROVE  IsInjective(t[i].of) /\ CitedIn(t) = Numbers(t[i].of)
  <2>1. t[i] = e
    BY <1>1, <1>2, <1>7, <1>9
  <2>2. t[i].of = r.sources
    BY <1>9, <2>1 DEF Done, Event
  <2> QED
    BY <1>4, <1>9, <2>2 DEF OpenTold
<1>10. ASSUME r.kind = "browse", NEW i \in DOMAIN t, t[i].type = "done"
       PROVE  LastList(t, i, t[i].of)
  <2>1. t[i] = e /\ i = Len(s) + 1
    BY <1>1, <1>2, <1>7, <1>10
  <2>2. t[i].of = r.cards
    BY <1>10, <2>1 DEF Done, Event
  <2> QED
    BY <1>6, <1>10, <2>1, <2>2 DEF OpenTold
<1>11. ASSUME r.kind = "browse", NEW i \in DOMAIN t PROVE Flagged(t, i)
  <2>1. CASE i \in 1..Len(s)
    <3>1. Flagged(s, i)
      BY <1>1, <1>11, <2>1 DEF TrueTold
    <3>2. t[i] = s[i] /\ ShownIn(t, i) = ShownIn(s, i)
      BY <1>1, <1>5, <2>1
    <3> QED
      BY <3>1, <3>2 DEF Flagged
  <2>2. CASE i = Len(s) + 1
    BY <1>1, <1>3, <2>2 DEF Flagged
  <2> QED
    BY <1>2, <2>1, <2>2
<1>12. TrueTold(r.kind, t)
  BY <1>8, <1>9, <1>10, <1>11 DEF TrueTold
<1>13. t # <<>> /\ Asker!Closing(t[Len(t)])
  BY <1>1, <1>3 DEF Asker!Closing
<1> QED
  BY <1>12, <1>13 DEF t

(* Before its first event a run has told nothing, and its session is empty. *)
LEMMA NothingTold ==
  ASSUME NEW kind \in {"none", "research", "browse"}
  PROVE  /\ TrueTold(kind, <<>>)
         /\ OpenTold([Idle EXCEPT !.kind = kind, !.at = "ask"], <<>>)
<1>1. DOMAIN <<>> = {} /\ Len(<<>>) = 0
  OBVIOUS
<1>2. CitedIn(<<>>) = {} /\ ShownIn(<<>>, 0) = {} /\ LastList(<<>>, 0, {})
  BY DEF CitedIn, ShownIn, LastList
<1>3. Numbers(<<>>) = {} /\ IsInjective(<<>>)
  BY DEF Numbers, IsInjective
<1> QED
  BY <1>1, <1>2, <1>3 DEF TrueTold, OpenTold, Idle

-----------------------------------------------------------------------------
(* The loops.                                                              *)

(* What the loop of one run does to the others, to its bounds and to what  *)
(* it tells.                                                               *)
Looped(a) ==
  /\ run' \in [Agents -> Runs]
  /\ told' \in [Agents -> Seq(Events)]
  /\ \A b \in Agents \ {a} : run'[b] = run[b] /\ told'[b] = told[b]
  /\ run'[a].kind = run[a].kind
  /\ run'[a].at \in {"ask", "close"}
  /\ run'[a].round <= Rounds[a]
  /\ run'[a].searches <= MaxSearches
  /\ \E es \in Seq(Events) : told'[a] = told[a] \o es
  /\ ToldInv(a)'

(* The events that the loops tell are events.                              *)
LEMMA EventTypes ==
  ASSUME NEW q \in Runs
  PROVE  /\ Done(q) \in Events
         /\ Event("error", {}) \in Events
         /\ Event("tool_error", {}) \in Events
         /\ Event("results", {}) \in Events
         /\ \A found \in SUBSET Files : Event("results", found) \in Events
         /\ \A cited \in SUBSET (Nat \X Chunks) : Event("results", cited) \in Events
         /\ \A cards \in SUBSET Cards : Event("recommendations", cards) \in Events
<1>1. q.cards \in SUBSET Cards /\ q.sources \in Seq(Chunks)
  BY DEF Runs
<1>2. \A p \in SUBSET Files : p \in Payloads
  BY DEF Payloads
<1>3. \A p \in SUBSET (Nat \X Chunks) : p \in Payloads
  BY DEF Payloads
<1>4. \A p \in SUBSET Cards : p \in Payloads
  BY DEF Payloads
<1>5. \A p \in Seq(Chunks) : p \in Payloads
  BY DEF Payloads
<1>6. {} \in Payloads
  BY <1>2
<1> QED
  BY <1>1, <1>2, <1>3, <1>4, <1>5, <1>6 DEF Events, Event, Done

(* A loop that ended keeps its kind and drops its session.                 *)
LEMMA EndedType ==
  ASSUME NEW q \in Runs
  PROVE  /\ Ended(q) \in Runs
         /\ Ended(q).kind = q.kind
         /\ Ended(q).at = "close"
         /\ Ended(q).round = 1
         /\ Ended(q).searches = 0
<1>1. Idle \in Runs
  BY DEF Idle, Runs
<1> DEFINE e == [Idle EXCEPT !.kind = q.kind, !.at = "close"]
<1>2. q.kind \in {"none", "research", "browse"}
  BY DEF Runs
<1>3. e.kind = q.kind /\ e.at = "close" /\ e.round = 1 /\ e.searches = 0
  BY DEF Idle
<1>4. e \in Runs
  BY <1>1, <1>2 DEF Runs
<1>5. Ended(q) = e
  BY DEF Ended
<1> QED
  BY <1>3, <1>4, <1>5

(* What a loop tells last comes after what it told, however it is joined.  *)
SameJoined(r, s, e) == r \o s \o <<e>> = r \o (s \o <<e>>)

LEMMA JoinedOnce ==
  ASSUME NEW r \in Seq(Events), NEW s \in Seq(Events), NEW e \in Events
  PROVE  SameJoined(r, s, e)
BY DEF SameJoined

(* The end of a loop: its last event is told, and the run is to be closed. *)
LEMMA EndTells ==
  ASSUME AgentAssumption, NEW a \in Agents, run \in [Agents -> Runs], told \in [Agents -> Seq(Events)],
         NEW q \in Runs, q.kind = run[a].kind,
         NEW es \in Seq(Events), NEW e \in {Done(q), Event("error", {})},
         TrueTold(q.kind, told[a] \o es), OpenTold(q, told[a] \o es),
         run' = [run EXCEPT ![a] = Ended(q)],
         told' = [told EXCEPT ![a] = @ \o es \o <<e>>]
  PROVE  Looped(a)
<1> DEFINE s == told[a] \o es
<1>1. s \in Seq(Events) /\ e \in Events
  BY EventTypes
<1>2. told'[a] = s \o <<e>>
  OBVIOUS
<1> HIDE DEF s
<1>3. s \o <<e>> = Append(s, e)
  BY <1>1
<1>4. Append(s, e) \in Seq(Events)
  BY <1>1
<1>5. /\ run' \in [Agents -> Runs]
      /\ told' \in [Agents -> Seq(Events)]
      /\ \A b \in Agents \ {a} : run'[b] = run[b] /\ told'[b] = told[b]
  <2>1. told' = [told EXCEPT ![a] = Append(s, e)]
    BY <1>2, <1>3
  <2> QED
    BY <1>4, <2>1, EndedType
<1>6. run'[a] = Ended(q)
  OBVIOUS
<1>7. 1 <= Rounds[a] /\ 0 <= MaxSearches
  BY DEF AgentAssumption
<1>8. \E fs \in Seq(Events) : told'[a] = told[a] \o fs
  <2>1. es \o <<e>> \in Seq(Events)
    BY <1>1
  <2>2. told[a] \in Seq(Events)
    OBVIOUS
  <2>3. SameJoined(told[a], es, e)
    BY <1>1, <2>2, JoinedOnce
  <2> QED
    BY <1>2, <2>1, <2>3 DEF s, SameJoined
<1>9. /\ TrueTold(q.kind, Append(s, e))
      /\ Append(s, e) # <<>>
      /\ Asker!Closing(Append(s, e)[Len(Append(s, e))])
  BY <1>1, LastTold DEF s
<1>10. ToldInv(a)'
  BY <1>2, <1>3, <1>6, <1>9, EndedType DEF ToldInv
<1> QED
  BY <1>5, <1>6, <1>7, <1>8, <1>10, EndedType DEF Looped

(* One round of a loop, from the session and the events that it leads to.  *)
LEMMA RoundTells ==
  ASSUME AgentAssumption, NEW a \in Agents, run \in [Agents -> Runs], told \in [Agents -> Seq(Events)],
         NEW q \in Runs, q.kind = run[a].kind, q.at = "ask",
         q.round <= Rounds[a], q.searches <= MaxSearches,
         NEW es \in Seq(Events),
         TrueTold(q.kind, told[a] \o es), OpenTold(q, told[a] \o es),
         Round(a, q, es, Done(q))
  PROVE  Looped(a)
<1>1. CASE q.round = Rounds[a]
  <2>1. /\ run' = [run EXCEPT ![a] = Ended(q)]
        /\ told' = [told EXCEPT ![a] = @ \o es \o <<Done(q)>>]
    BY <1>1 DEF Round
  <2> QED
    BY <2>1, EndTells
<1>2. CASE q.round # Rounds[a]
  <2> DEFINE p == [q EXCEPT !.round = @ + 1]
  <2>1. told[a] \o es \in Seq(Events) /\ told[a] \o es \o <<>> = told[a] \o es
    OBVIOUS
  <2>2. run' = [run EXCEPT ![a] = p] /\ told' = [told EXCEPT ![a] = told[a] \o es]
    BY <1>2, <2>1 DEF Round
  <2>3. /\ p \in Runs
        /\ p.kind = q.kind /\ p.at = q.at /\ p.searches = q.searches
        /\ p.sources = q.sources /\ p.seen = q.seen /\ p.cards = q.cards
        /\ p.round = q.round + 1
    <3>1. q.round + 1 \in Nat \ {0}
      BY DEF Runs
    <3> QED
      BY <3>1 DEF Runs
  <2>4. p.round <= Rounds[a]
    BY <1>2, <2>3 DEF AgentAssumption, Runs
  <2> HIDE DEF p
  <2>5. /\ run' \in [Agents -> Runs]
        /\ told' \in [Agents -> Seq(Events)]
        /\ \A b \in Agents \ {a} : run'[b] = run[b] /\ told'[b] = told[b]
        /\ run'[a] = p
        /\ told'[a] = told[a] \o es
    BY <2>1, <2>2, <2>3
  <2>6. TrueTold(p.kind, told[a] \o es) /\ OpenTold(p, told[a] \o es)
    BY <2>3 DEF OpenTold
  <2>7. ToldInv(a)'
    BY <2>3, <2>5, <2>6 DEF ToldInv
  <2> QED
    BY <2>3, <2>4, <2>5, <2>7 DEF Looped
<1> QED
  BY <1>1, <1>2

(* A loop that stops where it is.                                          *)
LEMMA StopTells ==
  ASSUME AgentAssumption, NEW a \in Agents, run \in [Agents -> Runs], told \in [Agents -> Seq(Events)],
         run[a].at = "ask", ToldInv(a), Answer(a) \/ Fail(a)
  PROVE  Looped(a)
<1>1. run[a] \in Runs /\ told[a] \in Seq(Events) /\ told[a] \o <<>> = told[a]
  OBVIOUS
<1>2. TrueTold(run[a].kind, told[a]) /\ OpenTold(run[a], told[a])
  BY DEF ToldInv
<1>3. PICK e \in {Done(run[a]), Event("error", {})} :
        /\ run' = [run EXCEPT ![a] = Ended(run[a])]
        /\ told' = [told EXCEPT ![a] = @ \o <<>> \o <<e>>]
  <2>1. CASE Answer(a)
    BY <1>1, <2>1 DEF Answer
  <2>2. CASE Fail(a)
    <3>1. Append(told[a], Event("error", {})) = told[a] \o <<Event("error", {})>>
      BY <1>1, EventTypes
    <3> QED
      BY <1>1, <2>2, <3>1 DEF Fail
  <2> QED
    BY <2>1, <2>2
<1>4. <<>> \in Seq(Events)
  OBVIOUS
<1> QED
  BY <1>1, <1>2, <1>3, <1>4, EndTells

(* A round that tells one event.                                           *)
LEMMA OneTells ==
  ASSUME AgentAssumption, NEW a \in Agents, run \in [Agents -> Runs], told \in [Agents -> Seq(Events)],
         ToldInv(a), run[a].at = "ask",
         NEW q \in Runs, q.kind = run[a].kind, q.at = "ask",
         q.round <= Rounds[a], q.searches <= MaxSearches,
         NEW e \in Events, ~ Asker!Closing(e),
         q.kind = "research" => /\ e.type = "results"
                                /\ IsInjective(q.sources)
                                /\ Numbers(q.sources) = Numbers(run[a].sources) \cup e.of,
         q.kind = "browse" =>
           /\ q.seen = IF e.type = "results" THEN run[a].seen \cup e.of ELSE run[a].seen
           /\ e.type = "recommendations" =>
                /\ q.cards = e.of
                /\ \A card \in e.of : card.unknown <=> card.file \notin run[a].seen
           /\ e.type # "recommendations" => q.cards = run[a].cards,
         Round(a, q, <<e>>, Done(q))
  PROVE  Looped(a)
<1>1. run[a] \in Runs /\ told[a] \in Seq(Events) /\ told[a] \o <<e>> = Append(told[a], e)
  OBVIOUS
<1>2. TrueTold(run[a].kind, told[a]) /\ OpenTold(run[a], told[a])
  BY DEF ToldInv
<1>3. TrueTold(q.kind, told[a] \o <<e>>) /\ OpenTold(q, told[a] \o <<e>>)
  <2>1. PICK r \in Runs, s \in Seq(Events) : r = run[a] /\ s = told[a]
    BY <1>1
  <2>2. r.kind = q.kind /\ TrueTold(r.kind, s) /\ OpenTold(r, s)
    BY <1>2, <2>1
  <2>3. r.kind = "research" => /\ e.type = "results"
                               /\ IsInjective(q.sources)
                               /\ Numbers(q.sources) = Numbers(r.sources) \cup e.of
    BY <2>1
  <2>4. r.kind = "browse" =>
          /\ q.seen = IF e.type = "results" THEN r.seen \cup e.of ELSE r.seen
          /\ e.type = "recommendations" =>
               /\ q.cards = e.of
               /\ \A card \in e.of : card.unknown <=> card.file \notin r.seen
          /\ e.type # "recommendations" => q.cards = r.cards
    BY <2>1
  <2>5. TrueTold(q.kind, Append(s, e)) /\ OpenTold(q, Append(s, e))
    BY <2>2, <2>3, <2>4, MoreTold
  <2> QED
    BY <1>1, <2>1, <2>5
<1>4. <<e>> \in Seq(Events)
  OBVIOUS
<1> QED
  BY <1>3, <1>4, RoundTells

(* A search numbers what it returned, old passages by their old numbers.   *)
LEMMA SearchTells ==
  ASSUME AgentAssumption, NEW a \in Agents, run \in [Agents -> Runs], told \in [Agents -> Seq(Events)],
         BegunInv(a), ToldInv(a), run[a].at = "ask", SearchLibrary(a)
  PROVE  Looped(a)
<1>1. run[a] \in Runs /\ run[a].kind = "research"
  BY DEF SearchLibrary
<1>2. IsInjective(run[a].sources) /\ OpenTold(run[a], told[a])
  BY <1>1 DEF ToldInv, OpenTold
<1>3. run[a].round <= Rounds[a] /\ run[a].searches <= MaxSearches
  BY DEF BegunInv
<1>4. ASSUME Budgeted(run[a]), NEW rows \in Rankings[a],
             LET r == [run[a] EXCEPT !.searches = @ + 1, !.sources = Sources(run[a], rows)]
             IN  Round(a, r, <<Event("results", Numbered(r.sources, rows))>>, Done(r))
      PROVE  Looped(a)
  <2> DEFINE sources == Sources(run[a], rows)
             q == [run[a] EXCEPT !.searches = @ + 1, !.sources = sources]
             e == Event("results", Numbered(sources, rows))
  <2>1. rows \in Seq(Chunks)
    BY <1>4 DEF AgentAssumption
  <2>2. /\ sources \in Seq(Chunks)
        /\ Len(run[a].sources) <= Len(sources)
        /\ \A n \in 1..Len(run[a].sources) : sources[n] = run[a].sources[n]
        /\ \A n \in 1..Len(sources) : Len(run[a].sources) < n => sources[n] \in Range(rows)
        /\ IsInjective(sources)
    BY <1>1, <1>2, <2>1, SourcesExtend
  <2> HIDE DEF sources
  <2>3. /\ q \in Runs /\ q.kind = run[a].kind /\ q.at = "ask"
        /\ q.round = run[a].round /\ q.searches = run[a].searches + 1
        /\ q.sources = sources
    <3>1. run[a].searches + 1 \in Nat
      BY <1>1 DEF Runs
    <3> QED
      BY <1>1, <2>2, <3>1 DEF Runs
  <2>4. Numbered(sources, rows) \in SUBSET (Nat \X Chunks)
    BY <2>2 DEF Numbered
  <2>5. e \in Events /\ ~ Asker!Closing(e) /\ e.type = "results" /\ e.of = Numbered(sources, rows)
    <3>1. e \in Events
      BY <2>3, <2>4, EventTypes
    <3> QED
      BY <3>1 DEF Asker!Closing, Event
  <2>6. Numbers(sources) = Numbers(run[a].sources) \cup Numbered(sources, rows)
    <3>1. DOMAIN sources = 1..Len(sources)
      BY <2>2
    <3>2. DOMAIN run[a].sources = 1..Len(run[a].sources) /\ Len(run[a].sources) \in Nat
      BY <1>1 DEF Runs
    <3>3. \A n \in DOMAIN run[a].sources : n \in DOMAIN sources /\ sources[n] = run[a].sources[n]
      BY <2>2, <3>1, <3>2
    <3>4. \A n \in DOMAIN sources : n \in DOMAIN run[a].sources \/ sources[n] \in Range(rows)
      BY <2>2, <3>1, <3>2
    <3> QED
      BY <3>3, <3>4 DEF Numbers, Numbered
  <2>7. q.searches <= MaxSearches /\ q.round <= Rounds[a]
    BY <1>1, <1>3, <1>4, <2>3 DEF Budgeted, Runs, AgentAssumption
  <2>8. Round(a, q, <<e>>, Done(q))
    BY <1>4 DEF sources
  <2> HIDE DEF q, e
  <2>9. q.kind = "research"
    BY <1>1, <2>3
  <2>10. q.sources = sources /\ q.at = "ask" /\ q.kind = run[a].kind /\ q \in Runs
    BY <2>3
  <2> QED
    BY <2>2, <2>5, <2>6, <2>7, <2>8, <2>9, <2>10, OneTells
<1>5. ASSUME Round(a, run[a], <<Event("results", {})>>, Done(run[a]))
      PROVE  Looped(a)
  <2> DEFINE e == Event("results", {})
  <2>1. e \in Events /\ ~ Asker!Closing(e) /\ e.type = "results" /\ e.of = {}
    <3>1. e \in Events
      BY <1>1, EventTypes
    <3> QED
      BY <3>1 DEF Asker!Closing, Event
  <2>2. Numbers(run[a].sources) = Numbers(run[a].sources) \cup e.of
    BY <2>1
  <2>3. run[a].kind # "browse"
    BY <1>1
  <2>4. Round(a, run[a], <<e>>, Done(run[a]))
    BY <1>5
  <2> HIDE DEF e
  <2> QED
    BY <1>1, <1>2, <1>3, <2>1, <2>2, <2>3, <2>4, OneTells
<1>6. CASE Fail(a)
  BY <1>6, StopTells
<1> QED
  BY <1>4, <1>5, <1>6 DEF SearchLibrary

(* The tools of the browsing agent.                                        *)
LEMMA BrowseTells ==
  ASSUME AgentAssumption, NEW a \in Agents, run \in [Agents -> Runs], told \in [Agents -> Seq(Events)],
         BegunInv(a), ToldInv(a), run[a].at = "ask",
         ToolRaises(a) \/ LookAtDrive(a) \/ Recommend(a)
  PROVE  Looped(a)
<1>1. run[a] \in Runs /\ run[a].kind = "browse"
  BY DEF ToolRaises, LookAtDrive, Recommend
<1>2. run[a].round <= Rounds[a] /\ run[a].searches <= MaxSearches
  BY DEF BegunInv
<1>3. CASE ToolRaises(a)
  <2>1. PICK broken \in {run[a].broken, TRUE} :
          Round(a, [run[a] EXCEPT !.broken = broken],
                <<Event("tool_error", {})>>, Done(run[a]))
    BY <1>3 DEF ToolRaises
  <2> DEFINE q == [run[a] EXCEPT !.broken = broken]
             e == Event("tool_error", {})
  <2>2. broken \in BOOLEAN
    BY <1>1 DEF Runs
  <2>3. /\ q \in Runs /\ q.kind = "browse" /\ q.at = "ask"
        /\ q.round = run[a].round /\ q.searches = run[a].searches
        /\ q.seen = run[a].seen /\ q.cards = run[a].cards
    BY <1>1, <2>2 DEF Runs
  <2>4. e \in Events /\ e.type = "tool_error" /\ ~ Asker!Closing(e)
    <3>1. e \in Events
      BY <1>1, EventTypes
    <3> QED
      BY <3>1 DEF Asker!Closing, Event
  <2>5. Done(run[a]) = Done(q)
    BY <1>1, <2>3 DEF Done
  <2>6. Round(a, q, <<e>>, Done(q))
    BY <2>1, <2>5
  <2> HIDE DEF q, e
  <2> QED
    BY <1>1, <1>2, <2>3, <2>4, <2>6, OneTells
<1>4. CASE LookAtDrive(a)
  <2>1. PICK found \in Finds :
          Round(a, Remember(run[a], found), <<Event("results", found)>>, Done(run[a]))
    BY <1>4 DEF LookAtDrive
  <2> DEFINE q == [run[a] EXCEPT !.seen = @ \cup found]
             e == Event("results", found)
  <2>2. found \in SUBSET Files
    BY DEF AgentAssumption
  <2>3. /\ q \in Runs /\ q.kind = "browse" /\ q.at = "ask"
        /\ q.round = run[a].round /\ q.searches = run[a].searches
        /\ q.seen = run[a].seen \cup found /\ q.cards = run[a].cards
    <3>1. run[a].seen \cup found \in SUBSET Files
      BY <1>1, <2>2 DEF Runs
    <3> QED
      BY <1>1, <3>1 DEF Runs
  <2>4. e \in Events /\ e.type = "results" /\ e.of = found /\ ~ Asker!Closing(e)
    <3>1. e \in Events
      BY <1>1, <2>2, EventTypes
    <3> QED
      BY <3>1 DEF Asker!Closing, Event
  <2>5. Done(run[a]) = Done(q)
    BY <1>1, <2>3 DEF Done
  <2>6. Round(a, q, <<e>>, Done(q))
    BY <2>1, <2>5 DEF Remember
  <2> HIDE DEF q, e
  <2> QED
    BY <1>1, <1>2, <2>3, <2>4, <2>6, OneTells
<1>5. CASE Recommend(a)
  <2>1. PICK picks \in SUBSET Files :
          LET cards == { [file |-> f, unknown |-> f \notin run[a].seen] : f \in picks }
              r == [run[a] EXCEPT !.cards = cards]
          IN  Round(a, r, <<Event("recommendations", cards)>>, Done(r))
    BY <1>5 DEF Recommend
  <2> DEFINE cards == { [file |-> f, unknown |-> f \notin run[a].seen] : f \in picks }
             q == [run[a] EXCEPT !.cards = cards]
             e == Event("recommendations", cards)
  <2> DEFINE unseen(f) == f \notin run[a].seen
             card(f) == [file |-> f, unknown |-> unseen(f)]
  <2>2. cards \in SUBSET Cards
    <3>1. \A f \in Files, b \in BOOLEAN : [file |-> f, unknown |-> b] \in Cards
      BY DEF Cards
    <3>2. \A f : unseen(f) \in BOOLEAN
      BY Zenon
    <3> HIDE DEF unseen
    <3>3. \A f \in Files : card(f) \in Cards
      BY <3>1, <3>2
    <3>4. cards = { card(f) : f \in picks }
      BY DEF unseen
    <3> HIDE DEF cards, card
    <3> QED
      BY <3>3, <3>4
  <2>3. \A c \in cards : c.unknown <=> c.file \notin run[a].seen
    <3>1. \A f : card(f).file = f /\ card(f).unknown = unseen(f)
      <4> HIDE DEF unseen
      <4> QED
        OBVIOUS
    <3>2. \A f : unseen(f) <=> f \notin run[a].seen
      BY Zenon
    <3>3. cards = { card(f) : f \in picks }
      OBVIOUS
    <3> HIDE DEF cards, card
    <3>4. ASSUME NEW c \in cards PROVE c.unknown <=> c.file \notin run[a].seen
      <4>1. PICK f \in picks : c = card(f)
        BY <3>3
      <4> HIDE DEF unseen
      <4>2. c.file = f /\ c.unknown = unseen(f)
        BY <3>1, <4>1
      <4> QED
        BY <3>2, <4>2, Zenon
    <3> QED
      BY <3>4
  <2>4. Round(a, q, <<e>>, Done(q))
    BY <2>1
  <2> HIDE DEF cards, card, unseen
  <2>5. /\ q \in Runs /\ q.kind = "browse" /\ q.at = "ask"
        /\ q.round = run[a].round /\ q.searches = run[a].searches
        /\ q.seen = run[a].seen /\ q.cards = cards
    BY <1>1, <2>2 DEF Runs
  <2>6. e \in Events /\ e.type = "recommendations" /\ e.of = cards /\ ~ Asker!Closing(e)
    <3>1. e \in Events
      BY <1>1, <2>2, EventTypes
    <3> QED
      BY <3>1 DEF Asker!Closing, Event
  <2> HIDE DEF q, e
  <2> QED
    BY <1>1, <1>2, <2>3, <2>4, <2>5, <2>6, OneTells
<1> QED
  BY <1>3, <1>4, <1>5

(* Whatever a loop does next, what it has told stays true.                 *)
LEMMA LoopTells ==
  ASSUME AgentAssumption, NEW a \in Agents, run \in [Agents -> Runs], told \in [Agents -> Seq(Events)],
         BegunInv(a), ToldInv(a), Loop(a)
  PROVE  Looped(a)
<1>1. run[a].at = "ask" /\ run[a] \in Runs /\ told[a] \in Seq(Events)
  BY DEF Loop
<1>2. ASSUME ListBooks(a) PROVE Looped(a)
  <2>1. run[a].kind = "research" /\ Round(a, run[a], <<>>, Done(run[a]))
    BY <1>2 DEF ListBooks
  <2>2. TrueTold(run[a].kind, told[a]) /\ OpenTold(run[a], told[a])
    BY <1>1 DEF ToldInv
  <2>3. <<>> \in Seq(Events) /\ told[a] \o <<>> = told[a]
    BY <1>1
  <2>4. run[a].round <= Rounds[a] /\ run[a].searches <= MaxSearches
    BY DEF BegunInv
  <2> QED
    BY <1>1, <2>1, <2>2, <2>3, <2>4, RoundTells
<1>3. CASE Answer(a) \/ Fail(a)
  BY <1>1, <1>3, StopTells
<1>4. CASE SearchLibrary(a)
  BY <1>1, <1>4, SearchTells
<1>5. CASE ToolRaises(a) \/ LookAtDrive(a) \/ Recommend(a)
  BY <1>1, <1>5, BrowseTells
<1> QED
  BY <1>2, <1>3, <1>4, <1>5 DEF Loop

-----------------------------------------------------------------------------
(* The turns.                                                              *)

(* What becomes of a turn that is taken up, left, settled or given up.     *)
LEMMA TurnTypes ==
  ASSUME NEW t \in Turns
  PROVE  /\ NoTurn \in Turns
         /\ \A at \in {"away", "settled"} :
              /\ Unread(t, at) \in Turns
              /\ Unread(t, at).at = at /\ Unread(t, at).status = t.status
              /\ Unread(t, at).heard = t.heard
              /\ Unread(t, at).pos = 0 /\ Unread(t, at).saw = FALSE
         /\ \A status \in {"done", "failed"} :
              /\ Settled(t, status) \in Turns
              /\ Settled(t, status).at = "settled" /\ Settled(t, status).status = status
              /\ Settled(t, status).heard = t.heard
              /\ Settled(t, status).pos = 0 /\ Settled(t, status).saw = FALSE
         /\ \A at \in {"waiting", "streaming"} :
              LET n == [NoTurn EXCEPT !.at = at, !.status = "running"]
              IN  /\ n \in Turns /\ n.at = at /\ n.status = "running"
                  /\ n.heard = <<>> /\ n.pos = 0 /\ n.saw = FALSE
         /\ LET g == [NoTurn EXCEPT !.at = "gone", !.status = "gone"]
            IN  /\ g \in Turns /\ g.at = "gone" /\ g.status = "gone"
                /\ g.heard = <<>> /\ g.pos = 0 /\ g.saw = FALSE
<1>1. NoTurn \in Turns
  BY DEF NoTurn, Turns
<1>2. ASSUME NEW at \in {"away", "settled"}
      PROVE  /\ Unread(t, at) \in Turns
             /\ Unread(t, at).at = at /\ Unread(t, at).status = t.status
             /\ Unread(t, at).heard = t.heard
             /\ Unread(t, at).pos = 0 /\ Unread(t, at).saw = FALSE
  BY DEF Unread, Turns
<1>3. ASSUME NEW status \in {"done", "failed"}
      PROVE  /\ Settled(t, status) \in Turns
             /\ Settled(t, status).at = "settled" /\ Settled(t, status).status = status
             /\ Settled(t, status).heard = t.heard
             /\ Settled(t, status).pos = 0 /\ Settled(t, status).saw = FALSE
  <2> DEFINE u == Unread(t, "settled")
  <2>1. u \in Turns /\ u.at = "settled" /\ u.heard = t.heard /\ u.pos = 0 /\ u.saw = FALSE
    BY <1>2
  <2> HIDE DEF u
  <2>2. LET v == [u EXCEPT !.status = status]
        IN  v \in Turns /\ v.at = u.at /\ v.heard = u.heard /\ v.pos = u.pos
              /\ v.saw = u.saw /\ v.status = status
    BY <2>1 DEF Turns
  <2> QED
    BY <2>1, <2>2 DEF Settled, u
<1>4. ASSUME NEW at \in {"waiting", "streaming"}
      PROVE  LET n == [NoTurn EXCEPT !.at = at, !.status = "running"]
             IN  /\ n \in Turns /\ n.at = at /\ n.status = "running"
                 /\ n.heard = <<>> /\ n.pos = 0 /\ n.saw = FALSE
  <2> DEFINE n == [NoTurn EXCEPT !.at = at, !.status = "running"]
  <2>1. n \in Turns
    BY <1>1 DEF Turns
  <2>2. /\ n.at = at /\ n.status = "running"
        /\ n.heard = <<>> /\ n.pos = 0 /\ n.saw = FALSE
    BY DEF NoTurn
  <2> QED
    BY <2>1, <2>2
<1>5. LET g == [NoTurn EXCEPT !.at = "gone", !.status = "gone"]
      IN  /\ g \in Turns /\ g.at = "gone" /\ g.status = "gone"
          /\ g.heard = <<>> /\ g.pos = 0 /\ g.saw = FALSE
  <2> DEFINE g == [NoTurn EXCEPT !.at = "gone", !.status = "gone"]
  <2>1. g \in Turns
    BY <1>1 DEF Turns
  <2>2. /\ g.at = "gone" /\ g.status = "gone"
        /\ g.heard = <<>> /\ g.pos = 0 /\ g.saw = FALSE
    BY DEF NoTurn
  <2> QED
    BY <2>1, <2>2
<1> QED
  BY <1>1, <1>2, <1>3, <1>4, <1>5

(* A turn that settles, is left or is given up keeps what it heard.        *)
LEMMA TurnsHeard ==
  ASSUME NEW kind, NEW s \in Seq(Events), NEW t \in Turns, HeardOf(kind, s, t)
  PROVE  /\ \A status \in {"done", "failed"} : HeardOf(kind, s, Settled(t, status))
         /\ t.status = "running" => HeardOf(kind, s, Unread(t, "away"))
         /\ HeardOf(kind, s, [NoTurn EXCEPT !.at = "gone", !.status = "gone"])
         /\ HeardOf(kind, s, [NoTurn EXCEPT !.at = "waiting", !.status = "running"])
         /\ kind # "none" =>
              HeardOf(kind, s, [NoTurn EXCEPT !.at = "streaming", !.status = "running"])
<1>1. Len(<<>>) = 0 /\ Len(s) \in Nat /\ Len(t.heard) \in Nat
  BY DEF Turns
<1>2. ASSUME NEW u \in Turns, u.heard = t.heard, u.pos = 0, u.saw = FALSE, u.at # "streaming",
             u.at \in {"waiting", "attaching", "streaming", "away"} <=> u.status = "running",
             u.at = "none" <=> u.status = "none"
      PROVE  HeardOf(kind, s, u)
  BY <1>1, <1>2 DEF HeardOf
<1>3. ASSUME NEW u \in Turns, u.heard = <<>>, u.pos = 0, u.saw = FALSE,
             u.at = "streaming" => kind # "none",
             u.at \in {"waiting", "attaching", "streaming", "away"} <=> u.status = "running",
             u.at = "none" <=> u.status = "none"
      PROVE  HeardOf(kind, s, u)
  BY <1>1, <1>3 DEF HeardOf
<1>4. ASSUME NEW status \in {"done", "failed"} PROVE HeardOf(kind, s, Settled(t, status))
  <2>1. /\ Settled(t, status) \in Turns
        /\ Settled(t, status).at = "settled" /\ Settled(t, status).status = status
        /\ Settled(t, status).heard = t.heard
        /\ Settled(t, status).pos = 0 /\ Settled(t, status).saw = FALSE
    BY <1>4, TurnTypes
  <2>2. PICK u \in Turns : u = Settled(t, status)
    BY <2>1
  <2>3. HeardOf(kind, s, u)
    BY <1>2, <1>4, <2>1, <2>2
  <2> QED
    BY <2>2, <2>3
<1>5. ASSUME t.status = "running" PROVE HeardOf(kind, s, Unread(t, "away"))
  <2>1. Unread(t, "away").status = "running"
    BY <1>5, TurnTypes
  <2> QED
    BY <1>2, <2>1, TurnTypes
<1>6. HeardOf(kind, s, [NoTurn EXCEPT !.at = "gone", !.status = "gone"])
  BY <1>3, TurnTypes
<1>7. HeardOf(kind, s, [NoTurn EXCEPT !.at = "waiting", !.status = "running"])
  BY <1>3, TurnTypes
<1>8. ASSUME kind # "none"
      PROVE  HeardOf(kind, s, [NoTurn EXCEPT !.at = "streaming", !.status = "running"])
  BY <1>3, <1>8, TurnTypes
<1> QED
  BY <1>4, <1>5, <1>6, <1>7, <1>8

-----------------------------------------------------------------------------
(* The invariant.                                                          *)

(* What a step leaves of those that it does not touch: a run that is over  *)
(* stays over, and the registry loses finished runs only.                  *)
LEMMA Untouched ==
  ASSUME NEW b \in Agents, AgentInv(b),
         run'[b] = run[b], told'[b] = told[b], post'[b] = post[b], turn'[b] = turn[b],
         Contains(registry', b) => Contains(registry, b),
         Contains(registry, b) /\ run[b].at # "over" => Contains(registry', b),
         \A k \in Agents : run[k].at = "over" => run'[k].at = "over"
  PROVE  AgentInv(b)'
<1>1. BegunInv(b)'
  BY DEF AgentInv, BegunInv
<1>2. ReachInv(b)'
  BY DEF AgentInv, ReachInv, Working, Finished
<1>3. ToldInv(b)'
  BY DEF AgentInv, ToldInv
<1>4. HeardInv(b)'
  BY DEF AgentInv, HeardInv
<1> QED
  BY <1>1, <1>2, <1>3, <1>4 DEF AgentInv

(* A step of the page alone.                                               *)
LEMMA PageOnly ==
  ASSUME NEW a \in Agents, IInv, NEW t \in Turns,
         turn' = [turn EXCEPT ![a] = t],
         UNCHANGED <<run, told, registry, post, restarts>>,
         t.at # "none", turn[a].at # "none",
         run[a].kind = "browse" => t.at \in {"streaming", "settled", "gone"},
         HeardOf(run[a].kind, told[a], t)
  PROVE  IInv'
<1>1. TypeOK'
  BY DEF IInv, TypeOK
<1>2. turn'[a] = t /\ \A b \in Agents \ {a} : turn'[b] = turn[b]
  BY DEF IInv, TypeOK
<1>3. AgentInv(a)
  BY DEF IInv
<1>4. BegunInv(a)'
  BY <1>2, <1>3 DEF AgentInv, BegunInv
<1>5. ReachInv(a)' /\ ToldInv(a)'
  BY <1>3 DEF AgentInv, ReachInv, ToldInv, Finished
<1>6. HeardInv(a)'
  BY <1>2 DEF HeardInv
<1>7. ASSUME NEW b \in Agents \ {a} PROVE AgentInv(b)'
  <2>1. AgentInv(b)
    BY DEF IInv
  <2> QED
    BY <1>2, <2>1, Untouched
<1>8. IsInjective(registry)'
  BY DEF IInv
<1> QED
  BY <1>1, <1>4, <1>5, <1>6, <1>7, <1>8 DEF IInv, AgentInv

-----------------------------------------------------------------------------
(* Every step keeps the invariant.                                         *)

(* Before the first question the invariant holds.                          *)
LEMMA InitKeeps == AgentAssumption /\ Init => IInv
<1> SUFFICES ASSUME AgentAssumption, Init PROVE IInv
  OBVIOUS
<1>1. Idle \in Runs /\ NoTurn \in Turns
  BY DEF Idle, NoTurn, Runs, Turns
<1>2. TypeOK
  <2>1. registry \in Seq(Keys)
    <3>1. Old \in Seq(Range(Old))
      BY DEF AgentAssumption
    <3>2. Range(Old) \subseteq Keys
      BY DEF Keys
    <3> HIDE DEF Keys
    <3>3. \A i \in 1..Len(Old) : Old[i] \in Range(Old)
      BY <3>1
    <3>4. \A i \in 1..Len(Old) : Old[i] \in Keys
      BY <3>2, <3>3
    <3>5. Old \in [1..Len(Old) -> Keys] /\ Len(Old) \in Nat
      BY <3>1, <3>4
    <3> QED
      BY <3>5 DEF Init
  <2>2. run \in [Agents -> Runs] /\ told \in [Agents -> Seq(Events)] /\ turn \in [Agents -> Turns]
    BY <1>1 DEF Init
  <2>3. post \in [Agents -> Posts]
    BY DEF Init, Posts
  <2>4. restarts \in 0..MaxRestarts
    BY DEF Init, AgentAssumption
  <2> QED
    BY <2>1, <2>2, <2>3, <2>4 DEF TypeOK
<1>3. IsInjective(registry)
  BY DEF Init, AgentAssumption
<1>4. ASSUME NEW a \in Agents PROVE AgentInv(a)
  <2>1. run[a] = Idle /\ told[a] = <<>> /\ turn[a] = NoTurn /\ post[a].at = "off"
    BY DEF Init
  <2>2. ~ Contains(registry, a)
    <3>1. registry = Old /\ Old \in Seq(Range(Old)) /\ Agents \cap Range(Old) = {}
      BY DEF Init, AgentAssumption
    <3> QED
      BY <3>1 DEF Contains
  <2>3. Idle.kind = "none" /\ Idle.at = "off" /\ Idle.round = 1 /\ Idle.searches = 0
    BY DEF Idle
  <2>4. BegunInv(a)
    BY <2>1, <2>2, <2>3 DEF BegunInv, AgentAssumption
  <2>5. ReachInv(a)
    BY <2>1, <2>3 DEF ReachInv
  <2>6. ToldInv(a)
    BY <2>1, <2>3, NothingTold DEF ToldInv
  <2>7. HeardInv(a)
    BY <2>1, <2>3 DEF HeardInv, HeardOf, NoTurn
  <2> QED
    BY <2>4, <2>5, <2>6, <2>7 DEF AgentInv
<1> QED
  BY <1>2, <1>3, <1>4 DEF IInv

(* More told is still heard so far. *)
LEMMA HeardOfMore ==
  ASSUME NEW kind, NEW s \in Seq(Events), NEW es \in Seq(Events), NEW t \in Turns,
         HeardOf(kind, s, t)
  PROVE  HeardOf(kind, s \o es, t)
<1>1. Len(s \o es) = Len(s) + Len(es) /\ \A i \in 1..Len(s) : (s \o es)[i] = s[i]
  BY ConcatIs
<1>2. Len(s) \in Nat /\ Len(es) \in Nat /\ Len(t.heard) \in Nat
  BY DEF Turns
<1> QED
  BY <1>1, <1>2 DEF HeardOf

(* A round of a loop touches its run and what it told.                     *)
LEMMA LoopKeeps ==
  ASSUME AgentAssumption, IInv, NEW a \in Agents, Loop(a)
  PROVE  IInv'
<1>1. TypeOK /\ AgentInv(a)
  BY DEF IInv
<1>2. Looped(a)
  BY <1>1, LoopTells DEF TypeOK, AgentInv
<1>3. run[a].at = "ask" /\ UNCHANGED <<registry, post, turn, restarts>>
  BY DEF Loop
<1>4. TypeOK'
  BY <1>1, <1>2, <1>3 DEF TypeOK, Looped
<1>5. run[a].kind # "none"
  BY <1>1, <1>3 DEF AgentInv, BegunInv, Idle
<1>6. BegunInv(a)'
  BY <1>1, <1>2, <1>3, <1>5 DEF Looped, AgentInv, BegunInv
<1>7. ReachInv(a)'
  BY <1>1, <1>2, <1>3 DEF Looped, AgentInv, ReachInv, Finished, Working
<1>8. HeardInv(a)'
  <2>1. PICK es \in Seq(Events) : told'[a] = told[a] \o es
    BY <1>2 DEF Looped
  <2>2. told[a] \in Seq(Events) /\ turn[a] \in Turns
    BY <1>1 DEF TypeOK
  <2>3. HeardOf(run[a].kind, told[a], turn[a])
    BY <1>1 DEF AgentInv, HeardInv
  <2>4. HeardOf(run[a].kind, told[a] \o es, turn[a])
    BY <2>2, <2>3, HeardOfMore
  <2> QED
    BY <1>2, <1>3, <2>1, <2>4 DEF Looped, HeardInv
<1>9. AgentInv(a)'
  BY <1>2, <1>6, <1>7, <1>8 DEF Looped, AgentInv
<1>10. ASSUME NEW b \in Agents \ {a} PROVE AgentInv(b)'
  <2>1. AgentInv(b) /\ run'[b] = run[b] /\ told'[b] = told[b]
    BY <1>2 DEF IInv, Looped
  <2>2. \A k \in Agents : run[k].at = "over" => run'[k].at = "over"
    BY <1>2, <1>3 DEF Looped
  <2> QED
    BY <1>3, <2>1, <2>2, Untouched
<1> QED
  BY <1>3, <1>4, <1>9, <1>10 DEF IInv

(* The end of a run settles the turn of a browse run only.                 *)
LEMMA CloseKeeps ==
  ASSUME AgentAssumption, IInv, NEW a \in Agents, Close(a)
  PROVE  IInv'
<1> DEFINE q == [run[a] EXCEPT !.at = "over"]
           status == IF Last(told[a]).type = "done" THEN "done" ELSE "failed"
           t == IF run[a].kind = "browse" THEN Settled(turn[a], status) ELSE turn[a]
<1>1. TypeOK /\ AgentInv(a) /\ run[a].at = "close"
  BY DEF IInv, Close
<1>2. run[a] \in Runs /\ turn[a] \in Turns /\ told[a] \in Seq(Events)
  BY <1>1 DEF TypeOK
<1>3. /\ q \in Runs /\ q.kind = run[a].kind /\ q.at = "over"
      /\ q.round = run[a].round /\ q.searches = run[a].searches
  BY <1>2 DEF Runs
<1>4. t \in Turns /\ (run[a].kind = "browse" => t.at = "settled")
  BY <1>2, TurnTypes
<1>5. HeardOf(run[a].kind, told[a], t)
  BY <1>1, <1>2, TurnsHeard DEF AgentInv, HeardInv
<1>6. UNCHANGED <<told, registry, post, restarts>>
  BY DEF Close
<1>7. run' = [run EXCEPT ![a] = q] /\ turn' = [turn EXCEPT ![a] = t]
  BY <1>1 DEF Close, TypeOK
<1>8. run[a].kind # "browse" => t = turn[a]
  OBVIOUS
<1> HIDE DEF q, t
<1>9. /\ TypeOK'
      /\ run'[a] = q /\ turn'[a] = t
      /\ \A b \in Agents \ {a} : run'[b] = run[b] /\ turn'[b] = turn[b]
  BY <1>1, <1>3, <1>4, <1>6, <1>7 DEF TypeOK
<1>10. run[a].kind # "none"
  BY <1>1 DEF AgentInv, BegunInv, Idle
<1>11. BegunInv(a)'
  BY <1>1, <1>3, <1>4, <1>6, <1>8, <1>9, <1>10 DEF AgentInv, BegunInv
<1>12. ReachInv(a)'
  BY <1>1, <1>3, <1>6, <1>9 DEF AgentInv, ReachInv, Working, Finished
<1>13. ToldInv(a)'
  BY <1>1, <1>3, <1>6, <1>9 DEF AgentInv, ToldInv
<1>14. HeardInv(a)'
  BY <1>3, <1>5, <1>6, <1>9 DEF HeardInv
<1>15. ASSUME NEW b \in Agents \ {a} PROVE AgentInv(b)'
  <2>1. \A k \in Agents : run[k].at = "over" => run'[k].at = "over"
    BY <1>3, <1>9
  <2>2. AgentInv(b)
    BY DEF IInv
  <2> QED
    BY <1>6, <1>9, <2>1, <2>2, Untouched
<1> QED
  BY <1>6, <1>9, <1>11, <1>12, <1>13, <1>14, <1>15 DEF IInv, AgentInv

(* The first finished run of the registry, if it holds one. *)
LEMMA StaleIsFinished ==
  ASSUME TypeOK
  PROVE  Stale = NoOne \/ (Stale \in Keys /\ Finished(Stale))
<1> DEFINE I == { i \in 1..Len(registry) : Finished(registry[i]) }
           first == SelectInSeq(registry, Finished)
<1>1. registry \in Seq(Keys) /\ I \in SUBSET Nat
  BY DEF TypeOK
<1>2. first = IF I # {} THEN Min(I) ELSE 0
  BY DEF SelectInSeq
<1>3. I # {} => first \in I
  <2> SUFFICES ASSUME I # {} PROVE first \in I
    OBVIOUS
  <2>1. \E i \in I : \A j \in I : i <= j
    <3> HIDE DEF I
    <3> QED
      BY <1>1, LeastNumber
  <2> QED
    BY <1>2, <2>1 DEF Min
<1>4. Stale = IF first = 0 THEN NoOne ELSE registry[first]
  BY DEF Stale
<1> HIDE DEF first
<1> QED
  BY <1>1, <1>2, <1>3, <1>4

(* The run that a request is about to drop has finished.                   *)
LEMMA PruneLookKeeps ==
  ASSUME AgentAssumption, IInv, NEW a \in Agents, PruneLook(a)
  PROVE  IInv'
<1>1. TypeOK /\ AgentInv(a) /\ post[a].at = "prune"
  BY DEF IInv, PruneLook
<1>2. PICK p \in Posts : /\ post' = [post EXCEPT ![a] = p]
                         /\ p.at \in {"drop", "insert"}
                         /\ p.at = "drop" => Finished(p.stale)
  <2>1. Stale = NoOne \/ (Stale \in Keys /\ Finished(Stale))
    BY <1>1, StaleIsFinished
  <2>2. CASE Len(registry) >= Keep /\ Stale # NoOne
    <3> DEFINE p == [at |-> "drop", stale |-> Stale]
    <3>1. post' = [post EXCEPT ![a] = p]
      BY <2>2 DEF PruneLook
    <3>2. p \in Posts /\ p.at = "drop" /\ p.stale = Stale
      BY <2>1, <2>2 DEF Posts
    <3> HIDE DEF p
    <3> QED
      BY <2>1, <2>2, <3>1, <3>2
  <2>3. CASE ~ (Len(registry) >= Keep /\ Stale # NoOne)
    <3> DEFINE p == [at |-> "insert", stale |-> NoOne]
    <3>1. post' = [post EXCEPT ![a] = p]
      BY <2>3 DEF PruneLook
    <3>2. p \in Posts /\ p.at = "insert"
      BY DEF Posts
    <3> HIDE DEF p
    <3> QED
      BY <3>1, <3>2
  <2> QED
    BY <2>2, <2>3
<1>3. UNCHANGED <<run, told, registry, turn, restarts>>
  BY DEF PruneLook
<1>4. /\ TypeOK'
      /\ post'[a] = p
      /\ \A b \in Agents \ {a} : post'[b] = post[b]
  BY <1>1, <1>2, <1>3 DEF TypeOK
<1>5. BegunInv(a)'
  BY <1>1, <1>3, <1>4 DEF AgentInv, BegunInv
<1>6. ReachInv(a)'
  BY <1>1, <1>2, <1>3, <1>4 DEF AgentInv, ReachInv, Finished
<1>7. ToldInv(a)' /\ HeardInv(a)'
  BY <1>1, <1>3 DEF AgentInv, ToldInv, HeardInv
<1>8. ASSUME NEW b \in Agents \ {a} PROVE AgentInv(b)'
  <2>1. AgentInv(b)
    BY DEF IInv
  <2> QED
    BY <1>3, <1>4, <2>1, Untouched
<1> QED
  BY <1>3, <1>4, <1>5, <1>6, <1>7, <1>8 DEF IInv, AgentInv

(* The page that waits for its POST gives up. *)
LEMMA StartFails ==
  ASSUME TypeOK, NEW a \in Agents, AgentInv(a), turn' = StartFailed(a),
         turn[a].at # "none"
  PROVE  \E t \in Turns :
           /\ turn' = [turn EXCEPT ![a] = t]
           /\ t.at # "none"
           /\ run[a].kind = "browse" => t.at \in {"streaming", "settled", "gone"}
           /\ HeardOf(run[a].kind, told[a], t)
<1>1. turn[a] \in Turns /\ told[a] \in Seq(Events) /\ HeardOf(run[a].kind, told[a], turn[a])
  BY DEF TypeOK, AgentInv, HeardInv
<1>2. CASE turn[a].at = "waiting"
  <2> DEFINE t == Settled(turn[a], "failed")
  <2>1. turn' = [turn EXCEPT ![a] = t]
    BY <1>2 DEF StartFailed
  <2>2. t \in Turns /\ t.at = "settled"
    BY <1>1, TurnTypes
  <2>3. HeardOf(run[a].kind, told[a], t)
    BY <1>1, TurnsHeard
  <2> HIDE DEF t
  <2> QED
    BY <2>1, <2>2, <2>3
<1>3. CASE turn[a].at # "waiting"
  <2>1. turn' = [turn EXCEPT ![a] = turn[a]]
    BY <1>3 DEF StartFailed, TypeOK
  <2> QED
    BY <1>1, <2>1 DEF AgentInv, BegunInv
<1> QED
  BY <1>2, <1>3

(* A request drops a finished run, or fails because another one did.       *)
LEMMA PruneDropKeeps ==
  ASSUME AgentAssumption, IInv, NEW a \in Agents, PruneDrop(a)
  PROVE  IInv'
<1>1. /\ TypeOK /\ AgentInv(a) /\ IsInjective(registry)
      /\ post[a].at = "drop" /\ UNCHANGED <<run, told, restarts>>
  BY DEF IInv, PruneDrop
<1>2. run[a].kind = "none" /\ turn[a].at # "none"
  BY <1>1 DEF AgentInv, BegunInv
<1>3. Finished(post[a].stale)
  BY <1>1 DEF AgentInv, ReachInv
<1>4. ASSUME Contains(registry, post[a].stale),
             registry' = RemoveFirst(registry, post[a].stale),
             post' = [post EXCEPT ![a] = [at |-> "prune", stale |-> NoOne]],
             UNCHANGED turn
      PROVE  IInv'
  <2>1. registry \in Seq(Keys)
    BY <1>1 DEF TypeOK
  <2>2. /\ registry' \in Seq(Keys)
        /\ IsInjective(registry')
        /\ \A y : Contains(registry', y) => Contains(registry, y)
        /\ \A y : y # post[a].stale /\ Contains(registry, y) => Contains(registry', y)
    BY <1>1, <1>4, <2>1, RemoveFirstIs
  <2>3. \A b \in Agents : Contains(registry, b) /\ run[b].at # "over" => Contains(registry', b)
    BY <1>3, <2>2 DEF Finished
  <2>4. /\ TypeOK'
        /\ post'[a].at = "prune"
        /\ \A b \in Agents \ {a} : post'[b] = post[b]
    <3>1. [at |-> "prune", stale |-> NoOne] \in Posts
      BY DEF Posts
    <3> QED
      BY <1>1, <1>4, <2>2, <3>1 DEF TypeOK
  <2>5. BegunInv(a)'
    BY <1>1, <1>2, <1>4, <2>2, <2>4 DEF AgentInv, BegunInv
  <2>6. ReachInv(a)'
    BY <1>1, <1>2, <2>4 DEF ReachInv
  <2>7. ToldInv(a)' /\ HeardInv(a)'
    BY <1>1, <1>4 DEF AgentInv, ToldInv, HeardInv
  <2>8. ASSUME NEW b \in Agents \ {a} PROVE AgentInv(b)'
    <3>1. AgentInv(b)
      BY DEF IInv
    <3> QED
      BY <1>1, <1>4, <2>2, <2>3, <2>4, <3>1, Untouched
  <2> QED
    BY <2>2, <2>4, <2>5, <2>6, <2>7, <2>8 DEF IInv, AgentInv
<1>5. ASSUME post' = [post EXCEPT ![a] = [at |-> "off", stale |-> NoOne]],
             turn' = StartFailed(a),
             UNCHANGED registry
      PROVE  IInv'
  <2>1. PICK t \in Turns :
          /\ turn' = [turn EXCEPT ![a] = t]
          /\ t.at # "none"
          /\ run[a].kind = "browse" => t.at \in {"streaming", "settled", "gone"}
          /\ HeardOf(run[a].kind, told[a], t)
    BY <1>1, <1>2, <1>5, StartFails
  <2>2. /\ TypeOK'
        /\ post'[a].at = "off" /\ turn'[a] = t
        /\ \A b \in Agents \ {a} : post'[b] = post[b] /\ turn'[b] = turn[b]
    <3>1. [at |-> "off", stale |-> NoOne] \in Posts
      BY DEF Posts
    <3> QED
      BY <1>1, <1>5, <2>1, <3>1 DEF TypeOK
  <2>3. BegunInv(a)'
    BY <1>1, <1>2, <1>5, <2>1, <2>2 DEF AgentInv, BegunInv
  <2>4. ReachInv(a)'
    BY <1>1, <1>2, <2>2 DEF ReachInv
  <2>5. ToldInv(a)' /\ HeardInv(a)'
    BY <1>1, <2>1, <2>2 DEF AgentInv, ToldInv, HeardInv
  <2>6. ASSUME NEW b \in Agents \ {a} PROVE AgentInv(b)'
    <3>1. AgentInv(b)
      BY DEF IInv
    <3> QED
      BY <1>1, <1>5, <2>2, <3>1, Untouched
  <2> QED
    BY <1>1, <1>5, <2>2, <2>3, <2>4, <2>5, <2>6 DEF IInv, AgentInv
<1> QED
  BY <1>4, <1>5 DEF PruneDrop

(* A new record joins the registry under a key that it does not hold.      *)
LEMMA RegisterKeeps ==
  ASSUME AgentAssumption, IInv, NEW a \in Agents, Register(a)
  PROVE  IInv'
<1> DEFINE q == [Idle EXCEPT !.kind = "research", !.at = "ask"]
           t == IF turn[a].at = "waiting"
                THEN [turn[a] EXCEPT !.at = "attaching", !.known = TRUE]
                ELSE turn[a]
           p == [post[a] EXCEPT !.at = "off"]
<1>1. /\ TypeOK /\ AgentInv(a) /\ IsInjective(registry)
      /\ post[a].at = "insert" /\ UNCHANGED <<told, restarts>>
  BY DEF IInv, Register
<1>2. /\ run[a].kind = "none" /\ turn[a].at # "none"
      /\ told[a] = <<>> /\ ~ Contains(registry, a)
  BY <1>1 DEF AgentInv, BegunInv
<1>3. turn[a] \in Turns /\ post[a] \in Posts /\ registry \in Seq(Keys) /\ a \in Keys
  BY <1>1 DEF TypeOK, Keys
<1>4. q \in Runs /\ q.kind = "research" /\ q.at = "ask" /\ q.round = 1 /\ q.searches = 0
  <2>1. Idle \in Runs
    BY DEF Idle, Runs
  <2>2. q \in Runs
    BY <2>1 DEF Runs
  <2> QED
    BY <2>2 DEF Idle
<1>5. OpenTold(q, <<>>) /\ TrueTold("research", <<>>)
  BY NothingTold
<1>6. p \in Posts /\ p.at = "off"
  BY <1>3 DEF Posts
<1>7. t \in Turns /\ t.at # "none" /\ HeardOf("research", told[a], t)
  <2>1. HeardOf(run[a].kind, told[a], turn[a])
    BY <1>1 DEF AgentInv, HeardInv
  <2>2. CASE turn[a].at = "waiting"
    <3> DEFINE u == [turn[a] EXCEPT !.at = "attaching", !.known = TRUE]
    <3>1. /\ u \in Turns /\ u.at = "attaching" /\ u.status = turn[a].status
          /\ u.heard = turn[a].heard /\ u.pos = turn[a].pos /\ u.saw = turn[a].saw
      BY <1>3 DEF Turns
    <3>2. t = u
      BY <2>2
    <3> HIDE DEF u, t
    <3> QED
      BY <2>1, <2>2, <3>1, <3>2 DEF HeardOf
  <2>3. CASE turn[a].at # "waiting"
    <3>1. HeardOf("research", told[a], turn[a])
      BY <1>2, <2>1 DEF HeardOf
    <3> QED
      BY <1>2, <1>3, <2>3, <3>1
  <2> QED
    BY <2>2, <2>3
<1>8. /\ registry' = Append(registry, a)
      /\ run' = [run EXCEPT ![a] = q]
      /\ post' = [post EXCEPT ![a] = p]
      /\ turn' = [turn EXCEPT ![a] = t]
  BY <1>1, <1>3 DEF Register, TypeOK
<1> HIDE DEF q, t, p
<1>9. /\ TypeOK'
      /\ run'[a] = q /\ post'[a] = p /\ turn'[a] = t
      /\ \A b \in Agents \ {a} : run'[b] = run[b] /\ post'[b] = post[b] /\ turn'[b] = turn[b]
  BY <1>1, <1>3, <1>4, <1>6, <1>7, <1>8 DEF TypeOK
<1>10. /\ Contains(registry', a) /\ IsInjective(registry')
       /\ \A b \in Agents \ {a} : Contains(registry', b) <=> Contains(registry, b)
  BY <1>1, <1>2, <1>3, <1>8, AppendContains
<1>11. BegunInv(a)'
  BY <1>4, <1>6, <1>7, <1>9 DEF BegunInv, AgentAssumption
<1>12. ReachInv(a)'
  BY <1>6, <1>9, <1>10 DEF ReachInv
<1>13. ToldInv(a)'
  BY <1>1, <1>2, <1>4, <1>5, <1>9 DEF ToldInv
<1>14. HeardInv(a)'
  BY <1>1, <1>4, <1>7, <1>9 DEF HeardInv
<1>15. ASSUME NEW b \in Agents \ {a} PROVE AgentInv(b)'
  <2>1. AgentInv(b)
    BY DEF IInv
  <2>2. \A k \in Agents : run[k].at = "over" => run'[k].at = "over"
    BY <1>1, <1>2, <1>9 DEF AgentInv, BegunInv, Idle
  <2> QED
    BY <1>1, <1>9, <1>10, <2>1, <2>2, Untouched
<1> QED
  BY <1>9, <1>10, <1>11, <1>12, <1>13, <1>14, <1>15 DEF IInv, AgentInv

(* A research question opens a turn before its run begins.                 *)
LEMMA AskResearchKeeps ==
  ASSUME AgentAssumption, IInv, NEW a \in Agents, AskResearch(a)
  PROVE  IInv'
<1> DEFINE t == [NoTurn EXCEPT !.at = "waiting", !.status = "running"]
           p == [post[a] EXCEPT !.at = "prune"]
<1>1. /\ TypeOK /\ AgentInv(a) /\ turn[a].at = "none"
      /\ UNCHANGED <<run, told, registry, restarts>>
  BY DEF IInv, AskResearch
<1>2. run[a].kind = "none"
  BY <1>1 DEF AgentInv, BegunInv
<1>3. turn[a] \in Turns /\ post[a] \in Posts /\ told[a] \in Seq(Events)
  BY <1>1 DEF TypeOK
<1>4. t \in Turns /\ t.at = "waiting"
  BY <1>3, TurnTypes
<1>5. HeardOf(run[a].kind, told[a], t)
  BY <1>1, <1>3, TurnsHeard DEF AgentInv, HeardInv
<1>6. p \in Posts /\ p.at = "prune"
  BY <1>3 DEF Posts
<1>7. turn' = [turn EXCEPT ![a] = t] /\ post' = [post EXCEPT ![a] = p]
  BY <1>1 DEF AskResearch, TypeOK
<1> HIDE DEF t, p
<1>8. /\ TypeOK'
      /\ post'[a] = p /\ turn'[a] = t
      /\ \A b \in Agents \ {a} : post'[b] = post[b] /\ turn'[b] = turn[b]
  BY <1>1, <1>4, <1>6, <1>7 DEF TypeOK
<1>9. BegunInv(a)'
  BY <1>1, <1>2, <1>4, <1>8 DEF AgentInv, BegunInv
<1>10. ReachInv(a)' /\ ToldInv(a)' /\ HeardInv(a)'
  BY <1>1, <1>2, <1>5, <1>6, <1>8 DEF AgentInv, ReachInv, ToldInv, HeardInv
<1>11. ASSUME NEW b \in Agents \ {a} PROVE AgentInv(b)'
  <2>1. AgentInv(b)
    BY DEF IInv
  <2> QED
    BY <1>1, <1>8, <2>1, Untouched
<1> QED
  BY <1>1, <1>8, <1>9, <1>10, <1>11 DEF IInv, AgentInv

(* A browse question opens a turn and its run at once.                     *)
LEMMA AskBrowseKeeps ==
  ASSUME AgentAssumption, IInv, NEW a \in Agents, AskBrowse(a)
  PROVE  IInv'
<1> DEFINE t == [NoTurn EXCEPT !.at = "streaming", !.status = "running"]
           q == [Idle EXCEPT !.kind = "browse", !.at = "ask"]
<1>1. /\ TypeOK /\ AgentInv(a) /\ turn[a].at = "none"
      /\ UNCHANGED <<told, registry, post, restarts>>
  BY DEF IInv, AskBrowse
<1>2. /\ run[a].kind = "none" /\ run[a] = Idle /\ post[a].at = "off"
      /\ told[a] = <<>> /\ ~ Contains(registry, a)
  BY <1>1 DEF AgentInv, BegunInv
<1>3. turn[a] \in Turns /\ told[a] \in Seq(Events)
  BY <1>1 DEF TypeOK
<1>4. t \in Turns /\ t.at = "streaming" /\ t.status = "running"
      /\ t.heard = <<>> /\ t.pos = 0 /\ t.saw = FALSE
  BY <1>3, TurnTypes
<1>5. q \in Runs /\ q.kind = "browse" /\ q.at = "ask" /\ q.round = 1 /\ q.searches = 0
  <2>1. Idle \in Runs
    BY DEF Idle, Runs
  <2>2. q \in Runs
    BY <2>1 DEF Runs
  <2> QED
    BY <2>2 DEF Idle
<1>6. OpenTold(q, <<>>) /\ TrueTold("browse", <<>>)
  BY NothingTold
<1>7. turn' = [turn EXCEPT ![a] = t] /\ run' = [run EXCEPT ![a] = q]
  BY <1>1 DEF AskBrowse
<1> HIDE DEF t, q
<1>8. /\ TypeOK'
      /\ run'[a] = q /\ turn'[a] = t
      /\ \A b \in Agents \ {a} : run'[b] = run[b] /\ turn'[b] = turn[b]
  BY <1>1, <1>4, <1>5, <1>7 DEF TypeOK
<1>9. BegunInv(a)'
  BY <1>1, <1>2, <1>4, <1>5, <1>8 DEF BegunInv, AgentAssumption
<1>10. ReachInv(a)'
  BY <1>1, <1>2, <1>5, <1>8 DEF ReachInv
<1>11. ToldInv(a)'
  BY <1>1, <1>2, <1>5, <1>6, <1>8 DEF ToldInv
<1>12. HeardInv(a)'
  BY <1>1, <1>2, <1>4, <1>5, <1>8 DEF HeardInv, HeardOf
<1>13. ASSUME NEW b \in Agents \ {a} PROVE AgentInv(b)'
  <2>1. AgentInv(b)
    BY DEF IInv
  <2>2. \A k \in Agents : run[k].at = "over" => run'[k].at = "over"
    BY <1>2, <1>8 DEF Idle
  <2> QED
    BY <1>1, <1>8, <2>1, <2>2, Untouched
<1> QED
  BY <1>1, <1>8, <1>9, <1>10, <1>11, <1>12, <1>13 DEF IInv, AgentInv

(* What the page does with a research run touches its turn only.           *)
LEMMA FollowKeeps ==
  ASSUME AgentAssumption, IInv, NEW a \in Agents,
         \/ GiveUpWaiting(a) \/ Attach(a) \/ EndStream(a)
         \/ DropConnection(a) \/ Return(a) \/ NewChat(a)
  PROVE  IInv'
<1>1. TypeOK /\ AgentInv(a)
  BY DEF IInv
<1>2. turn[a] \in Turns /\ told[a] \in Seq(Events) /\ HeardOf(run[a].kind, told[a], turn[a])
  BY <1>1 DEF TypeOK, AgentInv, HeardInv
<1>3. UNCHANGED <<run, told, registry, post, restarts>>
  BY DEF GiveUpWaiting, Attach, EndStream, DropConnection, Return, NewChat
<1>4. turn[a].at # "none"
  BY DEF GiveUpWaiting, Attach, EndStream, DropConnection, Return, NewChat, Tailing
<1>5. ASSUME NEW status \in {"done", "failed"}, turn' = [turn EXCEPT ![a] = Settled(@, status)]
      PROVE  IInv'
  <2> DEFINE t == Settled(turn[a], status)
  <2>1. t \in Turns /\ t.at = "settled"
    BY <1>2, TurnTypes
  <2>2. HeardOf(run[a].kind, told[a], t)
    BY <1>2, TurnsHeard
  <2>3. turn' = [turn EXCEPT ![a] = t]
    BY <1>5
  <2> HIDE DEF t
  <2> QED
    BY <1>3, <1>4, <2>1, <2>2, <2>3, PageOnly
<1>6. CASE GiveUpWaiting(a)
  BY <1>5, <1>6 DEF GiveUpWaiting, StartFailed
<1>7. CASE Attach(a)
  <2>1. run[a].kind # "browse"
    BY <1>1, <1>7 DEF Attach, AgentInv, BegunInv
  <2>2. CASE Contains(registry, a)
    <3> DEFINE t == [turn[a] EXCEPT !.at = "streaming", !.pos = Len(turn[a].heard), !.saw = FALSE]
    <3>1. turn' = [turn EXCEPT ![a] = t]
      BY <1>7, <2>2 DEF Attach, From
    <3>2. Len(turn[a].heard) \in Nat
      BY <1>2 DEF Turns
    <3>3. /\ t \in Turns /\ t.at = "streaming" /\ t.status = turn[a].status
          /\ t.heard = turn[a].heard /\ t.pos = Len(turn[a].heard) /\ t.saw = FALSE
      BY <1>2, <3>2 DEF Turns
    <3>4. run[a].kind # "none"
      BY <1>1, <2>2 DEF AgentInv, BegunInv
    <3> HIDE DEF t
    <3>5. HeardOf(run[a].kind, told[a], t)
      BY <1>2, <1>7, <3>2, <3>3, <3>4 DEF HeardOf, Attach
    <3> QED
      BY <1>3, <1>4, <2>1, <3>1, <3>3, <3>5, PageOnly
  <2>3. CASE ~ Contains(registry, a)
    <3>1. turn' = [turn EXCEPT ![a] = Settled(turn[a], "failed")]
      BY <1>7, <2>3 DEF Attach
    <3> QED
      BY <1>5, <3>1
  <2> QED
    BY <2>2, <2>3
<1>8. CASE EndStream(a)
  <2>1. Ending(turn[a]) \in {"done", "failed"}
    BY DEF Ending
  <2>2. turn' = [turn EXCEPT ![a] = Settled(@, Ending(turn[a]))]
    BY <1>8 DEF EndStream
  <2> QED
    BY <1>5, <2>1, <2>2
<1>9. CASE DropConnection(a)
  BY <1>5, <1>9 DEF DropConnection
<1>10. CASE Return(a)
  <2>1. run[a].kind # "browse"
    BY <1>1, <1>10 DEF Return, AgentInv, BegunInv
  <2>2. CASE turn[a].known
    <3> DEFINE t == [turn[a] EXCEPT !.at = "attaching"]
    <3>1. turn' = [turn EXCEPT ![a] = t]
      BY <1>10, <2>2 DEF Return
    <3>2. /\ t \in Turns /\ t.at = "attaching" /\ t.status = turn[a].status
          /\ t.heard = turn[a].heard /\ t.pos = turn[a].pos /\ t.saw = turn[a].saw
      BY <1>2 DEF Turns
    <3> HIDE DEF t
    <3>3. HeardOf(run[a].kind, told[a], t)
      BY <1>2, <1>10, <3>2 DEF HeardOf, Return
    <3> QED
      BY <1>3, <1>4, <2>1, <3>1, <3>2, <3>3, PageOnly
  <2>3. CASE ~ turn[a].known
    <3>1. turn' = [turn EXCEPT ![a] = Settled(turn[a], "failed")]
      BY <1>10, <2>3 DEF Return
    <3> QED
      BY <1>5, <3>1
  <2> QED
    BY <2>2, <2>3
<1>11. CASE NewChat(a)
  <2> DEFINE t == [NoTurn EXCEPT !.at = "gone", !.status = "gone"]
  <2>1. turn' = [turn EXCEPT ![a] = t]
    BY <1>11 DEF NewChat
  <2>2. t \in Turns /\ t.at = "gone"
    BY <1>2, TurnTypes
  <2>3. HeardOf(run[a].kind, told[a], t)
    BY <1>2, TurnsHeard
  <2> HIDE DEF t
  <2> QED
    BY <1>3, <1>4, <2>1, <2>2, <2>3, PageOnly
<1> QED
  BY <1>6, <1>7, <1>8, <1>9, <1>10, <1>11

(* A page hears the next event of its stream.                              *)
LEMMA HearKeeps ==
  ASSUME AgentAssumption, IInv, NEW a \in Agents, Hear(a)
  PROVE  IInv'
<1> DEFINE e == told[a][turn[a].pos + 1]
           t == [turn[a] EXCEPT !.heard = Append(@, e), !.pos = @ + 1,
                                !.saw = @ \/ e.type = "done"]
<1>1. TypeOK /\ AgentInv(a) /\ turn[a].at = "streaming" /\ run[a].kind = "research"
  BY DEF IInv, Hear, Tailing
<1>2. turn[a] \in Turns /\ told[a] \in Seq(Events) /\ HeardOf(run[a].kind, told[a], turn[a])
  BY <1>1 DEF TypeOK, AgentInv, HeardInv
<1>3. turn[a].pos < Len(told[a]) /\ turn[a].pos = Len(turn[a].heard)
  BY <1>1, <1>2 DEF Hear, HeardOf
<1>4. turn[a].heard \in Seq(Events) /\ turn[a].pos \in Nat /\ Len(told[a]) \in Nat
  BY <1>2 DEF Turns
<1>5. e \in Events
  BY <1>2, <1>3, <1>4
<1>6. /\ Append(turn[a].heard, e) \in Seq(Events)
      /\ Len(Append(turn[a].heard, e)) = turn[a].pos + 1
      /\ Append(turn[a].heard, e)[turn[a].pos + 1] = e
      /\ \A i \in 1..turn[a].pos : Append(turn[a].heard, e)[i] = turn[a].heard[i]
  BY <1>3, <1>4, <1>5
<1>7. /\ t \in Turns /\ t.at = "streaming" /\ t.status = turn[a].status
      /\ t.heard = Append(turn[a].heard, e) /\ t.pos = turn[a].pos + 1
      /\ t.saw <=> (turn[a].saw \/ e.type = "done")
  <2> HIDE DEF e
  <2>1. (turn[a].saw \/ e.type = "done") \in BOOLEAN
    BY Zenon
  <2>2. PICK saw \in BOOLEAN : saw = (turn[a].saw \/ e.type = "done")
    BY <2>1
  <2>3. t = [turn[a] EXCEPT !.heard = Append(@, e), !.pos = @ + 1, !.saw = saw]
    BY <2>2
  <2>4. turn[a].pos + 1 \in Nat
    BY <1>4
  <2> HIDE DEF t
  <2>5. /\ t \in Turns /\ t.at = turn[a].at /\ t.status = turn[a].status
        /\ t.heard = Append(turn[a].heard, e) /\ t.pos = turn[a].pos + 1
        /\ t.saw = saw
    BY <1>2, <1>6, <2>3, <2>4 DEF Turns
  <2> QED
    BY <1>1, <2>2, <2>5, Zenon
<1>8. turn' = [turn EXCEPT ![a] = IF e.type = "error" THEN Settled(t, "failed") ELSE t]
  BY DEF Hear
<1>9. UNCHANGED <<run, told, registry, post, restarts>>
  BY DEF Hear
<1>10. told[a][turn[a].pos + 1] = e
  OBVIOUS
<1> HIDE DEF e, t
<1>11. HeardOf(run[a].kind, told[a], t)
  <2>1. Len(t.heard) <= Len(told[a]) /\ t.pos = Len(t.heard)
    BY <1>3, <1>4, <1>6, <1>7
  <2>2. \A i \in 1..Len(t.heard) : t.heard[i] = told[a][i]
    <3> SUFFICES ASSUME NEW i \in 1..(turn[a].pos + 1)
                 PROVE  t.heard[i] = told[a][i]
      BY <1>6, <1>7
    <3>1. CASE i = turn[a].pos + 1
      BY <1>6, <1>7, <1>10, <3>1
    <3>2. CASE i # turn[a].pos + 1
      <4>1. i \in 1..turn[a].pos
        BY <1>4, <3>2
      <4>2. turn[a].heard[i] = told[a][i]
        BY <1>2, <1>3, <4>1 DEF HeardOf
      <4> QED
        BY <1>6, <1>7, <4>1, <4>2
    <3> QED
      BY <3>1, <3>2
  <2>3. t.saw => \E i \in 1..Len(t.heard) : t.heard[i].type = "done"
    <3>1. CASE e.type = "done"
      <4>1. turn[a].pos + 1 \in 1..Len(t.heard) /\ t.heard[turn[a].pos + 1] = e
        BY <1>4, <1>6, <1>7
      <4> QED
        BY <3>1, <4>1
    <3>2. CASE turn[a].saw
      <4>1. PICK i \in 1..turn[a].pos : turn[a].heard[i].type = "done"
        BY <1>2, <1>3, <3>2 DEF HeardOf
      <4>2. i \in 1..Len(t.heard) /\ t.heard[i] = turn[a].heard[i]
        BY <1>4, <1>6, <1>7
      <4> QED
        BY <4>1, <4>2
    <3> QED
      BY <1>7, <3>1, <3>2
  <2>4. t.at = "streaming" /\ t.status = "running"
    BY <1>1, <1>2, <1>7 DEF HeardOf
  <2>5. Len(t.heard) <= Len(t.heard)
    BY <1>4, <1>6, <1>7
  <2> QED
    BY <1>1, <2>1, <2>2, <2>3, <2>4, <2>5 DEF HeardOf
<1>12. CASE e.type # "error"
  BY <1>1, <1>7, <1>8, <1>9, <1>11, <1>12, PageOnly
<1>13. CASE e.type = "error"
  <2> DEFINE u == Settled(t, "failed")
  <2>1. u \in Turns /\ u.at = "settled"
    BY <1>7, TurnTypes
  <2>2. HeardOf(run[a].kind, told[a], u)
    BY <1>2, <1>7, <1>11, TurnsHeard
  <2>3. turn' = [turn EXCEPT ![a] = u]
    BY <1>8, <1>13
  <2> HIDE DEF u
  <2> QED
    BY <1>1, <1>9, <2>1, <2>2, <2>3, PageOnly
<1> QED
  BY <1>12, <1>13

(* A page that is left lets a research run go on and cuts a browse run.    *)
LEMMA LeaveKeeps ==
  ASSUME AgentAssumption, IInv, NEW a \in Agents, Leave(a)
  PROVE  IInv'
<1>1. TypeOK /\ AgentInv(a) /\ UNCHANGED <<told, registry, post, restarts>>
  BY DEF IInv, Leave
<1>2. turn[a] \in Turns /\ told[a] \in Seq(Events) /\ run[a] \in Runs
      /\ HeardOf(run[a].kind, told[a], turn[a])
  BY <1>1 DEF TypeOK, AgentInv, HeardInv
<1>3. ASSUME turn[a].at \in {"waiting", "attaching", "streaming"}, run[a].kind # "browse",
             turn' = [turn EXCEPT ![a] = Unread(@, "away")], UNCHANGED run
      PROVE  IInv'
  <2> DEFINE t == Unread(turn[a], "away")
  <2>1. t \in Turns /\ t.at = "away"
    BY <1>2, TurnTypes
  <2>2. turn[a].status = "running"
    BY <1>2, <1>3 DEF HeardOf
  <2>3. HeardOf(run[a].kind, told[a], t)
    BY <1>2, <2>2, TurnsHeard
  <2>4. turn' = [turn EXCEPT ![a] = t]
    BY <1>3
  <2> HIDE DEF t
  <2> QED
    BY <1>1, <1>3, <2>1, <2>3, <2>4, PageOnly
<1>4. ASSUME run[a].kind = "browse", run[a].at \in Working,
             turn' = [turn EXCEPT ![a] = [NoTurn EXCEPT !.at = "gone", !.status = "gone"]],
             run' = [run EXCEPT ![a] = [Ended(@) EXCEPT !.at = "cut"]]
      PROVE  IInv'
  <2> DEFINE t == [NoTurn EXCEPT !.at = "gone", !.status = "gone"]
             e == Ended(run[a])
             q == [e EXCEPT !.at = "cut"]
  <2>1. t \in Turns /\ t.at = "gone"
    BY <1>2, TurnTypes
  <2>2. HeardOf(run[a].kind, told[a], t)
    BY <1>2, TurnsHeard
  <2>3. e \in Runs /\ e.kind = run[a].kind /\ e.round = 1 /\ e.searches = 0
    BY <1>2, EndedType
  <2>4. turn' = [turn EXCEPT ![a] = t] /\ run' = [run EXCEPT ![a] = q]
    BY <1>4
  <2> HIDE DEF t, e
  <2>5. q \in Runs /\ q.kind = run[a].kind /\ q.at = "cut" /\ q.round = 1 /\ q.searches = 0
    BY <2>3 DEF Runs
  <2> HIDE DEF q
  <2>6. /\ TypeOK'
        /\ run'[a] = q /\ turn'[a] = t
        /\ \A b \in Agents \ {a} : run'[b] = run[b] /\ turn'[b] = turn[b]
    BY <1>1, <2>1, <2>4, <2>5 DEF TypeOK
  <2>7. BegunInv(a)'
    <3>1. 1 <= Rounds[a] /\ 0 <= MaxSearches
      BY DEF AgentAssumption
    <3>2. post[a].at = "off" /\ ~ Contains(registry, a)
      BY <1>1, <1>4 DEF AgentInv, BegunInv
    <3> QED
      BY <1>1, <1>4, <2>1, <2>5, <2>6, <3>1, <3>2 DEF BegunInv
  <2>8. ReachInv(a)'
    BY <1>1, <1>4, <2>5, <2>6 DEF AgentInv, BegunInv, ReachInv
  <2>9. ToldInv(a)'
    BY <1>1, <2>5, <2>6 DEF AgentInv, ToldInv
  <2>10. HeardInv(a)'
    BY <1>1, <2>2, <2>5, <2>6 DEF HeardInv
  <2>11. ASSUME NEW b \in Agents \ {a} PROVE AgentInv(b)'
    <3>1. AgentInv(b)
      BY DEF IInv
    <3>2. \A k \in Agents : run[k].at = "over" => run'[k].at = "over"
      BY <1>4, <2>6 DEF Working
    <3> QED
      BY <1>1, <2>6, <3>1, <3>2, Untouched
  <2> QED
    BY <1>1, <2>6, <2>7, <2>8, <2>9, <2>10, <2>11 DEF IInv, AgentInv
<1> QED
  BY <1>3, <1>4 DEF Leave

(* A restart loses the runs, the threads and the registry at once. *)
LEMMA RestartKeeps ==
  ASSUME AgentAssumption, IInv, Restart
  PROVE  IInv'
<1>1. TypeOK /\ UNCHANGED told /\ registry' = <<>>
  BY DEF IInv, Restart
<1>2. ASSUME NEW a \in Agents
      PROVE  /\ run'[a] \in Runs /\ run'[a].kind = run[a].kind
             /\ run'[a].at \in {"off", "over", "cut", "lost"}
             /\ run'[a].round <= Rounds[a] /\ run'[a].searches <= MaxSearches
             /\ run'[a] = run[a] \/ run[a].at \in Working
             /\ run'[a].at = "over" => run[a].at = "over"
             /\ run[a].at = "off" <=> run'[a].at = "off"
  <2>1. run[a] \in Runs /\ BegunInv(a)
    BY <1>1 DEF IInv, AgentInv, TypeOK
  <2>2. CASE run[a].at \in Working
    <3> DEFINE e == Ended(run[a])
               q == [e EXCEPT !.at = "lost"]
    <3>1. e \in Runs /\ e.kind = run[a].kind /\ e.round = 1 /\ e.searches = 0
      BY <2>1, EndedType
    <3>2. run'[a] = q
      BY <2>2 DEF Restart
    <3> HIDE DEF e
    <3>3. q \in Runs /\ q.kind = run[a].kind /\ q.at = "lost" /\ q.round = 1 /\ q.searches = 0
      BY <3>1 DEF Runs
    <3> HIDE DEF q
    <3>4. 1 <= Rounds[a] /\ 0 <= MaxSearches
      BY DEF AgentAssumption
    <3> QED
      BY <2>2, <3>2, <3>3, <3>4 DEF Working
  <2>3. CASE run[a].at \notin Working
    <3>1. run'[a] = run[a]
      BY <2>3 DEF Restart
    <3>2. run[a].at \in {"off", "over", "cut", "lost"}
      BY <2>1, <2>3 DEF Runs, Working
    <3> QED
      BY <2>1, <3>1, <3>2 DEF BegunInv
  <2> QED
    BY <2>2, <2>3
<1>3. ASSUME NEW a \in Agents
      PROVE  /\ turn'[a] \in Turns /\ HeardOf(run[a].kind, told[a], turn'[a])
             /\ turn'[a] = turn[a] \/ (turn[a].at # "none" /\ turn'[a].at = "settled")
  <2>1. turn[a] \in Turns /\ told[a] \in Seq(Events) /\ HeardOf(run[a].kind, told[a], turn[a])
    BY <1>1 DEF IInv, AgentInv, TypeOK, HeardInv
  <2>2. CASE turn[a].at \in {"waiting", "streaming"}
    <3>1. turn'[a] = Settled(turn[a], "failed")
      BY <2>2 DEF Restart
    <3>2. Settled(turn[a], "failed") \in Turns /\ Settled(turn[a], "failed").at = "settled"
      BY <2>1, TurnTypes
    <3>3. HeardOf(run[a].kind, told[a], Settled(turn[a], "failed"))
      BY <2>1, TurnsHeard
    <3> QED
      BY <2>2, <3>1, <3>2, <3>3
  <2>3. CASE turn[a].at \notin {"waiting", "streaming"}
    <3>1. turn'[a] = turn[a]
      BY <2>3 DEF Restart
    <3> QED
      BY <2>1, <3>1
  <2> QED
    BY <2>2, <2>3
<1>4. \A a \in Agents : post'[a].at = "off" /\ post'[a] \in Posts
  BY DEF Restart, Posts
<1>5. TypeOK'
  <2>1. run' \in [Agents -> Runs]
    BY <1>2 DEF Restart
  <2>2. turn' \in [Agents -> Turns]
    BY <1>3 DEF Restart
  <2>3. post' \in [Agents -> Posts]
    BY <1>4 DEF Restart
  <2>4. restarts' \in 0..MaxRestarts
    BY <1>1 DEF Restart, TypeOK, AgentAssumption
  <2>5. registry' \in Seq(Keys)
    BY <1>1
  <2> QED
    BY <1>1, <2>1, <2>2, <2>3, <2>4, <2>5 DEF TypeOK
<1>6. IsInjective(registry') /\ \A k : ~ Contains(registry', k)
  BY <1>1 DEF IsInjective, Contains
<1>7. ASSUME NEW a \in Agents PROVE AgentInv(a)'
  <2>1. AgentInv(a)
    BY DEF IInv
  <2>2. run[a].at \in Working => run[a].kind # "none"
    BY <2>1 DEF AgentInv, BegunInv, Idle, Working
  <2>3. BegunInv(a)'
    BY <1>1, <1>2, <1>3, <1>4, <1>6, <2>1, <2>2 DEF AgentInv, BegunInv
  <2>4. ReachInv(a)'
    BY <1>2, <1>4 DEF ReachInv, Working
  <2>5. ToldInv(a)'
    <3>1. TrueTold(run'[a].kind, told'[a])
      BY <1>1, <1>2, <2>1 DEF AgentInv, ToldInv
    <3>2. run'[a].at # "ask" /\ run'[a].at # "close"
      BY <1>2
    <3>3. run'[a].at = "over" => told[a] # <<>> /\ Asker!Closing(told[a][Len(told[a])])
      BY <1>2, <2>1 DEF AgentInv, ToldInv
    <3> QED
      BY <1>1, <3>1, <3>2, <3>3 DEF ToldInv
  <2>6. HeardInv(a)'
    BY <1>1, <1>2, <1>3 DEF HeardInv
  <2> QED
    BY <2>3, <2>4, <2>5, <2>6 DEF AgentInv
<1> QED
  BY <1>5, <1>6, <1>7 DEF IInv

(* Every step keeps the invariant.                                         *)
LEMMA NextKeeps ==
  ASSUME AgentAssumption, IInv, [Next]_avars
  PROVE  IInv'
<1>1. ASSUME NEW a \in Agents, Loop(a) \/ Close(a) PROVE IInv'
  BY <1>1, LoopKeeps, CloseKeeps
<1>2. ASSUME NEW a \in Agents, Serve(a) PROVE IInv'
  BY <1>2, PruneLookKeeps, PruneDropKeeps, RegisterKeeps DEF Serve
<1>3. ASSUME NEW a \in Agents, Follow(a) PROVE IInv'
  BY <1>3, FollowKeeps, HearKeeps DEF Follow
<1>4. ASSUME NEW a \in Agents, Page(a) PROVE IInv'
  <2>1. CASE AskResearch(a) \/ AskBrowse(a)
    BY <2>1, AskResearchKeeps, AskBrowseKeeps
  <2>2. CASE GiveUpWaiting(a) \/ DropConnection(a) \/ Return(a) \/ NewChat(a)
    BY <2>2, FollowKeeps
  <2>3. CASE Leave(a)
    BY <2>3, LeaveKeeps
  <2> QED
    BY <1>4, <2>1, <2>2, <2>3 DEF Page
<1>5. CASE Restart
  BY <1>5, RestartKeeps
<1>6. CASE UNCHANGED avars
  <2>1. UNCHANGED <<run, told, registry, post, turn, restarts>>
    BY <1>6 DEF avars
  <2>2. TypeOK' /\ IsInjective(registry')
    BY <2>1 DEF IInv, TypeOK
  <2>3. ASSUME NEW b \in Agents PROVE AgentInv(b)'
    <3>1. AgentInv(b)
      BY DEF IInv
    <3> QED
      BY <2>1, <3>1, Untouched
  <2> QED
    BY <2>2, <2>3 DEF IInv
<1> QED
  BY <1>1, <1>2, <1>3, <1>4, <1>5, <1>6 DEF Next

(* The invariant holds of every behaviour of the two agents and the pages. *)
THEOREM Invariance == AgentSpec => []IInv
<1>1. Init => IInv
  BY InitKeeps, AgentAssumption
<1>2. IInv /\ [Next]_avars => IInv'
  BY NextKeeps, AgentAssumption
<1> QED
  BY <1>1, <1>2, PTL DEF AgentSpec

-----------------------------------------------------------------------------
(* What the runs check, for every value of the constants.                  *)

(* The loops, turns and threads stay in their states, a stream never is    *)
(* past what its run told, and the registry holds no run twice.            *)
THEOREM TypesHold == AgentSpec => []AgentsOK
<1>1. ASSUME IInv PROVE AgentsOK
  <2>1. ASSUME NEW a \in Agents
        PROVE  /\ run[a].at \in {"off", "ask", "close", "over", "cut", "lost"}
               /\ run[a].round \in 1..Rounds[a]
               /\ run[a].searches <= MaxSearches
               /\ turn[a].at \in {"none", "waiting", "attaching", "streaming", "away",
                                  "settled", "gone"}
               /\ turn[a].at \in {"waiting", "attaching", "streaming", "away"}
                    => turn[a].status = "running"
               /\ turn[a].pos <= Len(told[a])
               /\ post[a].at \in {"off", "prune", "drop", "insert"}
    <3>1. run[a] \in Runs /\ turn[a] \in Turns /\ post[a] \in Posts /\ told[a] \in Seq(Events)
      BY <1>1 DEF IInv, TypeOK
    <3>2. BegunInv(a) /\ HeardInv(a)
      BY <1>1 DEF IInv, AgentInv
    <3>3. run[a].round \in 1..Rounds[a] /\ run[a].searches <= MaxSearches
      BY <3>1, <3>2, AgentAssumption DEF BegunInv, Runs, AgentAssumption
    <3>4. turn[a].pos <= Len(told[a])
      BY <3>1, <3>2 DEF HeardInv, HeardOf, Turns
    <3> QED
      BY <3>1, <3>2, <3>3, <3>4 DEF HeardInv, HeardOf, Runs, Turns, Posts
  <2> QED
    BY <1>1, <2>1 DEF AgentsOK, IInv, TypeOK
<1> QED
  BY <1>1, Invariance, PTL

(* However many searches rank the passages afresh, one number names one    *)
(* passage and one passage has one number, in every result shown and in    *)
(* the sources that the answer's citations are looked up in.               *)
THEOREM CitationsHold == AgentSpec => []CitationsAgree
<1>1. ASSUME IInv PROVE CitationsAgree
  <2> SUFFICES ASSUME NEW a \in Agents, run[a].kind = "research",
                      NEW i \in DOMAIN told[a], told[a][i].type = "done"
               PROVE  /\ IsInjective(told[a][i].of)
                      /\ Citations(a) = { <<n, told[a][i].of[n]>> : n \in DOMAIN told[a][i].of }
    BY DEF CitationsAgree
  <2>1. TrueTold("research", told[a])
    BY <1>1 DEF IInv, AgentInv, ToldInv
  <2>2. IsInjective(told[a][i].of) /\ CitedIn(told[a]) = Numbers(told[a][i].of)
    BY <2>1 DEF TrueTold
  <2> QED
    BY <2>2 DEF Citations, CitedIn, Numbers
<1> QED
  BY <1>1, Invariance, PTL

(* A card is flagged exactly when no tool had returned its file by then,   *)
(* and the run closes with the last shortlist it recommended.              *)
THEOREM CardsHold == AgentSpec => []CardsResolved
<1>1. ASSUME IInv PROVE CardsResolved
  <2> SUFFICES ASSUME NEW a \in Agents, run[a].kind = "browse", NEW i \in DOMAIN told[a]
               PROVE  /\ told[a][i].type = "recommendations" =>
                           \A card \in told[a][i].of : card.unknown <=> card.file \notin Shown(a, i)
                      /\ told[a][i].type = "done" =>
                           LET lists == { j \in 1..i : told[a][j].type = "recommendations" }
                           IN  IF lists = {} THEN told[a][i].of = {}
                               ELSE \E j \in lists : /\ \A k \in lists : k <= j
                                                     /\ told[a][i].of = told[a][j].of
    BY DEF CardsResolved
  <2>1. TrueTold("browse", told[a])
    BY <1>1 DEF IInv, AgentInv, ToldInv
  <2>2. Flagged(told[a], i) /\ (told[a][i].type = "done" => LastList(told[a], i, told[a][i].of))
    BY <2>1 DEF TrueTold
  <2>3. Shown(a, i) = ShownIn(told[a], i)
    BY DEF Shown, ShownIn
  <2> QED
    BY <2>2, <2>3 DEF Flagged, LastList
<1> QED
  BY <1>1, Invariance, PTL

(* A run in flight keeps its record, whatever prunes the registry.         *)
THEOREM ReachHolds == AgentSpec => []InFlightReachable
<1>1. IInv => InFlightReachable
  BY DEF IInv, AgentInv, ReachInv, InFlightReachable
<1> QED
  BY <1>1, Invariance, PTL

-----------------------------------------------------------------------------
(* The feed.                                                               *)

FedStep(a) ==
  \/ Asker!Tell(a) \/ Asker!Hear(a) \/ Asker!Settle(a)
  \/ Asker!Ask(a) \/ Asker!Forget(a) \/ Asker!Still(a)

(* A page that is not touched, and whose run neither tells nor changes its *)
(* kind, is fed nothing.                                                   *)
LEMMA FedStill ==
  ASSUME NEW a \in Agents, told'[a] = told[a],
         turn'[a].heard = turn[a].heard, turn'[a].status = turn[a].status,
         run'[a].kind = "browse" <=> run[a].kind = "browse"
  PROVE  FedStep(a)
<1>1. Research(a)' <=> Research(a)
  BY DEF Research
<1>2. Asker!Still(a)
  BY <1>1 DEF Asker!Still
<1> QED
  BY <1>2 DEF FedStep

(* The page of a browse run is not fed here. *)
LEMMA FedBrowse ==
  ASSUME NEW a \in Agents, run[a].kind = "browse", run'[a].kind = "browse",
         turn'[a].heard = turn[a].heard
  PROVE  FedStep(a)
<1>1. ~ Research(a)' /\ ~ Research(a)
  BY DEF Research
<1>2. Asker!Still(a)
  BY <1>1 DEF Asker!Still
<1> QED
  BY <1>2 DEF FedStep

(* A running turn settles: as failed, or as done when it heard everything. *)
LEMMA FedSettle ==
  ASSUME NEW a \in Agents, turn[a] \in Turns, NEW status \in {"done", "failed"},
         turn'[a] = Settled(turn[a], status), turn[a].status = "running",
         told'[a] = told[a], run'[a].kind = run[a].kind, run[a].kind # "browse",
         status = "done" => turn[a].heard = told[a] /\ told[a][Len(told[a])].type = "done"
  PROVE  FedStep(a)
<1>1. Research(a)' /\ Research(a)
  BY DEF Research
<1>2. turn'[a].status = status /\ turn'[a].heard = turn[a].heard
  <2>1. /\ Settled(turn[a], status).status = status
        /\ Settled(turn[a], status).heard = turn[a].heard
    BY TurnTypes
  <2> QED
    BY <2>1
<1>3. Asker!Settle(a)
  BY <1>1, <1>2 DEF Asker!Settle, Asker!Last
<1> QED
  BY <1>3 DEF FedStep

(* A loop tells something more, or nothing. *)
LEMMA FedLoop ==
  ASSUME IInv, IInv', NEW a \in Agents, Loop(a)
  PROVE  FedStep(a)
<1>1. Looped(a) /\ UNCHANGED turn /\ run[a].at = "ask"
  BY LoopTells, AgentAssumption DEF IInv, TypeOK, AgentInv, Loop
<1>2. run'[a].kind = run[a].kind
  BY <1>1 DEF Looped
<1>3. PICK es \in Seq(Events) : told'[a] = told[a] \o es
  BY <1>1 DEF Looped
<1>4. told[a] \in Seq(Events) /\ told'[a] \in Seq(Events)
  BY DEF IInv, TypeOK
<1>5. CASE run[a].kind = "browse"
  BY <1>1, <1>2, <1>5, FedBrowse
<1>6. CASE es = <<>>
  <2>1. told'[a] = told[a]
    BY <1>3, <1>4, <1>6
  <2> QED
    BY <1>1, <1>2, <2>1, FedStill
<1>7. CASE es # <<>> /\ run[a].kind # "browse"
  <2>1. Research(a)' /\ Research(a)
    BY <1>2, <1>7 DEF Research
  <2>2. \A i \in DOMAIN told[a] : ~ Asker!Closing(told[a][i])
    BY <1>1 DEF IInv, AgentInv, ToldInv, OpenTold
  <2>3. \A i \in DOMAIN told'[a] : Asker!Closing(told'[a][i]) => i = Len(told'[a])
    BY DEF IInv, AgentInv, ToldInv, TrueTold
  <2>4. \A i \in 1..(Len(told'[a]) - 1) : ~ Asker!Closing(told'[a][i])
    <3>1. DOMAIN told'[a] = 1..Len(told'[a]) /\ Len(told'[a]) \in Nat
      BY <1>4
    <3> QED
      BY <2>3, <3>1
  <2>5. Asker!IsStrictPrefix(told[a], told'[a])
    <3>1. /\ Len(told'[a]) = Len(told[a]) + Len(es)
          /\ Len(told[a]) \in Nat /\ Len(es) \in Nat /\ Len(es) # 0
          /\ \A i \in 1..Len(told[a]) : told'[a][i] = told[a][i]
      BY <1>3, <1>4, <1>7, ConcatIs
    <3>2. SubSeq(told[a], 1, Len(told[a])) = SubSeq(told'[a], 1, Len(told[a]))
      BY <1>4, <3>1
    <3>3. told[a] # told'[a]
      BY <3>1
    <3> QED
      BY <3>1, <3>2, <3>3 DEF Asker!IsStrictPrefix, Asker!IsPrefix
  <2>6. Asker!Tell(a)
    BY <1>1, <2>1, <2>2, <2>4, <2>5 DEF Asker!Tell
  <2> QED
    BY <2>6 DEF FedStep
<1> QED
  BY <1>5, <1>6, <1>7

(* A page hears the event after those it heard. *)
LEMMA FedHear ==
  ASSUME IInv, IInv', NEW a \in Agents, Hear(a)
  PROVE  FedStep(a)
<1> DEFINE e == told[a][turn[a].pos + 1]
           u == [turn[a] EXCEPT !.heard = Append(@, e), !.pos = @ + 1,
                                !.saw = @ \/ e.type = "done"]
           t == turn'[a]
<1>1. /\ turn[a].at = "streaming" /\ run[a].kind = "research"
      /\ UNCHANGED <<run, told>>
  BY DEF Hear, Tailing
<1>2. turn[a] \in Turns /\ told[a] \in Seq(Events) /\ HeardOf(run[a].kind, told[a], turn[a])
  BY DEF IInv, TypeOK, AgentInv, HeardInv
<1>3. turn[a].pos < Len(told[a]) /\ turn[a].pos = Len(turn[a].heard) /\ turn[a].status = "running"
  BY <1>1, <1>2 DEF Hear, HeardOf
<1>4. turn[a].heard \in Seq(Events) /\ turn[a].pos \in Nat /\ Len(told[a]) \in Nat
  BY <1>2 DEF Turns
<1>5. t.heard = Append(turn[a].heard, e)
      /\ t.status = IF e.type = "error" THEN "failed" ELSE "running"
  <2>1. t = IF e.type = "error" THEN Settled(u, "failed") ELSE u
    BY DEF Hear, IInv, TypeOK
  <2>2. u.heard = Append(turn[a].heard, e) /\ u.status = "running"
    BY <1>2, <1>3 DEF Turns
  <2>3. Settled(u, "failed").heard = u.heard /\ Settled(u, "failed").status = "failed"
    BY <1>2 DEF Settled, Unread, Turns
  <2> HIDE DEF u, t, e
  <2> QED
    BY <2>1, <2>2, <2>3
<1> HIDE DEF t, u
<1>6. e \in Events
  BY <1>2, <1>3, <1>4
<1>7. t.heard = SubSeq(told[a], 1, Len(turn[a].heard) + 1)
  <2>1. \A i \in 1..Len(turn[a].heard) : turn[a].heard[i] = told[a][i]
    BY <1>2 DEF HeardOf
  <2>2. e = told[a][Len(turn[a].heard) + 1]
    BY <1>3
  <2> HIDE DEF e
  <2>3. /\ Append(turn[a].heard, e) \in Seq(Events)
        /\ Len(Append(turn[a].heard, e)) = Len(turn[a].heard) + 1
        /\ \A i \in 1..(Len(turn[a].heard) + 1) : Append(turn[a].heard, e)[i] = told[a][i]
    BY <1>3, <1>4, <1>6, <2>1, <2>2
  <2> QED
    BY <1>2, <1>3, <1>4, <1>5, <2>3
<1>8. t.heard[Len(t.heard)] = e
  BY <1>4, <1>5, <1>6
<1>9. turn[a].heard # told[a]
  BY <1>3
<1>10. Research(a)' /\ Research(a)
  BY <1>1 DEF Research
<1>11. Asker!Hear(a)
  BY <1>1, <1>3, <1>5, <1>7, <1>8, <1>9, <1>10 DEF Asker!Hear, Asker!Last, t
<1> QED
  BY <1>11 DEF FedStep

(* The rest of what a page does, or has done to it. *)
LEMMA FedPage ==
  ASSUME IInv, IInv', NEW a \in Agents,
         \/ Close(a) \/ PruneLook(a) \/ PruneDrop(a) \/ Register(a)
         \/ Attach(a) \/ EndStream(a) \/ AskResearch(a) \/ AskBrowse(a)
         \/ GiveUpWaiting(a) \/ DropConnection(a) \/ Leave(a) \/ Return(a) \/ NewChat(a)
  PROVE  FedStep(a)
<1>1. /\ turn[a] \in Turns /\ turn \in [Agents -> Turns] /\ told[a] \in Seq(Events)
      /\ run \in [Agents -> Runs]
      /\ HeardOf(run[a].kind, told[a], turn[a]) /\ BegunInv(a)
  BY DEF IInv, TypeOK, AgentInv, HeardInv
<1>2. ASSUME turn[a].status = "running", turn' = [turn EXCEPT ![a] = Settled(turn[a], "failed")],
             UNCHANGED <<run, told>>, run[a].kind # "browse"
      PROVE  FedStep(a)
  <2>1. turn'[a] = Settled(turn[a], "failed")
    BY <1>1, <1>2
  <2> QED
    BY <1>1, <1>2, <2>1, FedSettle
<1>3. CASE Close(a)
  <2>1. run'[a].kind = run[a].kind /\ told' = told
    BY <1>1, <1>3 DEF Close, Runs
  <2>2. CASE run[a].kind = "browse"
    <3>1. \A status \in {"done", "failed"} : Settled(turn[a], status).heard = turn[a].heard
      BY <1>1, TurnTypes
    <3>2. turn'[a].heard = turn[a].heard
      BY <1>1, <1>3, <2>2, <3>1 DEF Close
    <3> QED
      BY <2>1, <2>2, <3>2, FedBrowse
  <2>3. CASE run[a].kind # "browse"
    <3>1. turn' = turn
      BY <1>3, <2>3 DEF Close
    <3> QED
      BY <2>1, <3>1, FedStill
  <2> QED
    BY <2>2, <2>3
<1>4. CASE PruneLook(a)
  BY <1>4, FedStill DEF PruneLook
<1>5. CASE PruneDrop(a)
  <2>1. UNCHANGED <<run, told>> /\ run[a].kind # "browse"
    BY <1>1, <1>5 DEF PruneDrop, BegunInv
  <2>2. CASE UNCHANGED turn
    BY <2>1, <2>2, FedStill
  <2>3. CASE turn' = StartFailed(a) /\ turn[a].at = "waiting"
    <3>1. turn[a].status = "running"
      BY <1>1, <2>3 DEF HeardOf
    <3> QED
      BY <1>2, <2>1, <2>3, <3>1 DEF StartFailed
  <2>4. CASE turn' = StartFailed(a) /\ turn[a].at # "waiting"
    <3>1. UNCHANGED turn
      BY <2>4 DEF StartFailed
    <3> QED
      BY <2>1, <3>1, FedStill
  <2> QED
    BY <1>5, <2>2, <2>3, <2>4 DEF PruneDrop
<1>6. CASE Register(a)
  <2>1. told' = told /\ run[a].kind # "browse"
    BY <1>1, <1>6 DEF Register, BegunInv
  <2>2. run'[a].kind # "browse"
    BY <1>1, <1>6 DEF Register, Idle
  <2>3. turn'[a].heard = turn[a].heard /\ turn'[a].status = turn[a].status
    BY <1>1, <1>6 DEF Register, Turns
  <2> QED
    BY <2>1, <2>2, <2>3, FedStill
<1>7. CASE Attach(a)
  <2>1. UNCHANGED <<run, told>> /\ run[a].kind # "browse" /\ turn[a].status = "running"
    BY <1>1, <1>7 DEF Attach, BegunInv, HeardOf
  <2>2. CASE Contains(registry, a)
    <3>1. turn'[a].heard = turn[a].heard /\ turn'[a].status = turn[a].status
      BY <1>1, <1>7, <2>2 DEF Attach, Turns
    <3> QED
      BY <2>1, <3>1, FedStill
  <2>3. CASE ~ Contains(registry, a)
    BY <1>2, <1>7, <2>1, <2>3 DEF Attach
  <2> QED
    BY <2>2, <2>3
<1>8. CASE EndStream(a)
  <2>1. /\ UNCHANGED <<run, told>> /\ run[a].kind = "research" /\ run[a].at = "over"
        /\ turn[a].at = "streaming" /\ turn[a].pos >= Len(told[a])
    BY <1>8 DEF EndStream, Tailing, Drained
  <2>2. turn[a].status = "running" /\ turn[a].pos = Len(turn[a].heard)
    BY <1>1, <2>1 DEF HeardOf
  <2>3. turn[a].heard = told[a]
    <3>1. /\ turn[a].heard \in Seq(Events) /\ Len(turn[a].heard) = Len(told[a])
          /\ \A i \in 1..Len(turn[a].heard) : turn[a].heard[i] = told[a][i]
      BY <1>1, <2>1, <2>2 DEF HeardOf, Turns
    <3> QED
      BY <1>1, <3>1
  <2>4. turn[a].saw => told[a][Len(told[a])].type = "done"
    <3> SUFFICES ASSUME turn[a].saw PROVE told[a][Len(told[a])].type = "done"
      OBVIOUS
    <3>1. PICK i \in 1..Len(turn[a].heard) : turn[a].heard[i].type = "done"
      BY <1>1 DEF HeardOf
    <3>2. i \in DOMAIN told[a] /\ Asker!Closing(told[a][i])
      BY <1>1, <2>3, <3>1 DEF Asker!Closing
    <3>3. i = Len(told[a])
      BY <3>2 DEF IInv, AgentInv, ToldInv, TrueTold
    <3> QED
      BY <2>3, <3>1, <3>3
  <2>5. /\ Ending(turn[a]) \in {"done", "failed"}
        /\ Ending(turn[a]) = "done" => turn[a].saw
    BY DEF Ending
  <2>6. turn'[a] = Settled(turn[a], Ending(turn[a]))
    BY <1>1, <1>8 DEF EndStream
  <2> HIDE DEF Ending
  <2>7. run[a].kind # "browse"
    BY <2>1
  <2> QED
    BY <1>1, <2>1, <2>2, <2>3, <2>4, <2>5, <2>6, <2>7, FedSettle
<1>9. CASE AskResearch(a)
  <2>1. /\ turn[a] = NoTurn /\ run[a].kind = "none" /\ UNCHANGED <<run, told>>
    BY <1>1, <1>9 DEF AskResearch, BegunInv
  <2>2. turn'[a] = [NoTurn EXCEPT !.at = "waiting", !.status = "running"]
    BY <1>1, <1>9 DEF AskResearch
  <2>3. turn'[a].heard = turn[a].heard /\ turn[a].status = "none" /\ turn'[a].status = "running"
    BY <2>1, <2>2 DEF NoTurn
  <2>4. Research(a)' /\ Research(a)
    BY <2>1 DEF Research
  <2>5. Asker!Ask(a)
    BY <2>1, <2>3, <2>4 DEF Asker!Ask
  <2> QED
    BY <2>5 DEF FedStep
<1>10. CASE AskBrowse(a)
  <2>1. /\ turn[a] = NoTurn /\ run[a].kind = "none" /\ told[a] = <<>> /\ UNCHANGED told
    BY <1>1, <1>10 DEF AskBrowse, BegunInv
  <2>2. turn'[a] = [NoTurn EXCEPT !.at = "streaming", !.status = "running"]
        /\ run'[a] = [Idle EXCEPT !.kind = "browse", !.at = "ask"]
    BY <1>1, <1>10 DEF AskBrowse
  <2>3. turn'[a].heard = turn[a].heard /\ turn[a].status = "none"
    BY <2>1, <2>2 DEF NoTurn
  <2>4. ~ Research(a)' /\ Research(a)
    BY <2>1, <2>2 DEF Research, Idle
  <2>5. Asker!Still(a)
    BY <2>1, <2>3, <2>4 DEF Asker!Still
  <2> QED
    BY <2>5 DEF FedStep
<1>11. CASE GiveUpWaiting(a)
  <2>1. UNCHANGED <<run, told>> /\ run[a].kind # "browse" /\ turn[a].status = "running"
    BY <1>1, <1>11 DEF GiveUpWaiting, BegunInv, HeardOf
  <2> QED
    BY <1>2, <1>11, <2>1 DEF GiveUpWaiting, StartFailed
<1>12. CASE DropConnection(a)
  <2>1. UNCHANGED <<run, told>> /\ run[a].kind # "browse" /\ turn[a].status = "running"
    BY <1>1, <1>12 DEF DropConnection, Tailing, HeardOf
  <2> QED
    BY <1>2, <1>12, <2>1 DEF DropConnection
<1>13. CASE Leave(a)
  <2>1. UNCHANGED told
    BY <1>13 DEF Leave
  <2>2. CASE turn' = [turn EXCEPT ![a] = Unread(@, "away")] /\ UNCHANGED run
    <3>1. Unread(turn[a], "away").heard = turn[a].heard
          /\ Unread(turn[a], "away").status = turn[a].status
      BY <1>1, TurnTypes
    <3>2. turn'[a].heard = turn[a].heard /\ turn'[a].status = turn[a].status
      BY <1>1, <2>2, <3>1
    <3> QED
      BY <2>1, <2>2, <3>2, FedStill
  <2>3. CASE /\ run[a].kind = "browse"
             /\ turn' = [turn EXCEPT ![a] = [NoTurn EXCEPT !.at = "gone", !.status = "gone"]]
             /\ run' = [run EXCEPT ![a] = [Ended(@) EXCEPT !.at = "cut"]]
    <3>1. turn[a].heard = <<>>
      BY <1>1, <2>3 DEF HeardOf
    <3>2. turn'[a].heard = <<>>
      BY <1>1, <2>3 DEF NoTurn
    <3>3. run'[a].kind = "browse"
      <4>1. Ended(run[a]) \in Runs /\ Ended(run[a]).kind = "browse"
        BY <1>1, <2>3, EndedType
      <4> QED
        BY <1>1, <2>3, <4>1 DEF Runs
    <3> QED
      BY <2>3, <3>1, <3>2, <3>3, FedBrowse
  <2> QED
    BY <1>13, <2>2, <2>3 DEF Leave
<1>14. CASE Return(a)
  <2>1. UNCHANGED <<run, told>> /\ run[a].kind # "browse" /\ turn[a].status = "running"
    BY <1>1, <1>14 DEF Return, BegunInv, HeardOf
  <2>2. CASE turn[a].known
    <3>1. turn'[a].heard = turn[a].heard /\ turn'[a].status = turn[a].status
      BY <1>1, <1>14, <2>2 DEF Return, Turns
    <3> QED
      BY <2>1, <3>1, FedStill
  <2>3. CASE ~ turn[a].known
    BY <1>2, <1>14, <2>1, <2>3 DEF Return
  <2> QED
    BY <2>2, <2>3
<1>15. CASE NewChat(a)
  <2>1. UNCHANGED <<run, told>> /\ run[a].kind # "browse"
    BY <1>15 DEF NewChat
  <2>2. turn'[a].heard = <<>> /\ turn'[a].status = "gone"
    BY <1>1, <1>15 DEF NewChat, NoTurn
  <2>3. Research(a)' /\ Research(a)
    BY <2>1 DEF Research
  <2>4. Asker!Forget(a)
    BY <2>1, <2>2, <2>3 DEF Asker!Forget
  <2> QED
    BY <2>4 DEF FedStep
<1> QED
  BY <1>3, <1>4, <1>5, <1>6, <1>7, <1>8, <1>9, <1>10, <1>11, <1>12, <1>13, <1>14, <1>15

(* A restart fails the turns that waited for it, and touches no other. *)
LEMMA FedRestart ==
  ASSUME IInv, IInv', Restart, NEW a \in Agents
  PROVE  FedStep(a)
<1>1. /\ turn[a] \in Turns /\ told[a] \in Seq(Events) /\ run[a] \in Runs
      /\ HeardOf(run[a].kind, told[a], turn[a])
  BY DEF IInv, TypeOK, AgentInv, HeardInv
<1>2. told' = told
  BY DEF Restart
<1>3. run'[a].kind = run[a].kind
  <2>1. Ended(run[a]) \in Runs /\ Ended(run[a]).kind = run[a].kind
    BY <1>1, EndedType
  <2> QED
    BY <2>1 DEF Restart, Runs
<1>4. CASE turn[a].at \in {"waiting", "streaming"}
  <2>1. turn'[a] = Settled(turn[a], "failed")
    BY <1>4 DEF Restart
  <2>2. turn[a].status = "running"
    BY <1>1, <1>4 DEF HeardOf
  <2>3. CASE run[a].kind = "browse"
    <3>1. Settled(turn[a], "failed").heard = turn[a].heard
      BY <1>1, TurnTypes
    <3> QED
      BY <1>3, <2>1, <2>3, <3>1, FedBrowse
  <2>4. CASE run[a].kind # "browse"
    BY <1>1, <1>2, <1>3, <2>1, <2>2, <2>4, FedSettle
  <2> QED
    BY <2>3, <2>4
<1>5. CASE turn[a].at \notin {"waiting", "streaming"}
  <2>1. turn'[a] = turn[a]
    BY <1>5 DEF Restart
  <2> QED
    BY <1>2, <1>3, <2>1, FedStill
<1> QED
  BY <1>4, <1>5

(* Every step of the agents and pages is one of the feed, page by page.    *)
LEMMA NextFeeds ==
  ASSUME IInv, IInv', Next
  PROVE  Asker!FeedNext
<1>1. ASSUME NEW a \in Agents, Loop(a) \/ Close(a) \/ Serve(a) \/ Follow(a) \/ Page(a),
             NEW b \in Agents
      PROVE  FedStep(b)
  <2>1. CASE b = a
    <3>1. CASE Loop(a)
      BY <2>1, <3>1, FedLoop
    <3>2. CASE Hear(a)
      BY <2>1, <3>2, FedHear
    <3>3. CASE \/ Close(a) \/ PruneLook(a) \/ PruneDrop(a) \/ Register(a)
               \/ Attach(a) \/ EndStream(a) \/ AskResearch(a) \/ AskBrowse(a)
               \/ GiveUpWaiting(a) \/ DropConnection(a) \/ Leave(a) \/ Return(a) \/ NewChat(a)
      BY <2>1, <3>3, FedPage
    <3> QED
      BY <1>1, <3>1, <3>2, <3>3 DEF Serve, Follow, Page
  <2>2. CASE b # a
    <3>1. told'[b] = told[b] /\ run'[b] = run[b] /\ turn'[b] = turn[b]
      <4>1. CASE Loop(a)
        <5>1. Looped(a)
          BY <4>1, LoopTells, AgentAssumption DEF IInv, TypeOK, AgentInv
        <5> QED
          BY <2>2, <4>1, <5>1 DEF Looped, Loop
      <4>2. CASE Close(a) \/ Serve(a)
        BY <2>2, <4>2 DEF IInv, TypeOK, Close, Serve, PruneLook, PruneDrop, Register, StartFailed
      <4>3. CASE Follow(a)
        BY <2>2, <4>3 DEF IInv, TypeOK, Follow, Attach, Hear, EndStream
      <4>4. CASE Page(a)
        BY <2>2, <4>4 DEF IInv, TypeOK, Page, AskResearch, AskBrowse, GiveUpWaiting,
             DropConnection, Leave, Return, NewChat, StartFailed
      <4> QED
        BY <1>1, <4>1, <4>2, <4>3, <4>4
    <3> QED
      BY <3>1, FedStill
  <2> QED
    BY <2>1, <2>2
<1>2. ASSUME Restart, NEW b \in Agents PROVE FedStep(b)
  BY <1>2, FedRestart
<1>3. \A b \in Agents : FedStep(b)
  BY <1>1, <1>2 DEF Next
<1> QED
  BY <1>3 DEF Asker!FeedNext, FedStep

(* The chat page hears its run as Feed promises.                           *)
THEOREM PageFed == AgentSpec => PageIsFed
<1>1. Init => Asker!FeedInit
  <2> SUFFICES ASSUME Init PROVE Asker!FeedInit
    OBVIOUS
  <2>1. \A a \in Agents : run[a].kind = "none" /\ turn[a].heard = <<>> /\ turn[a].status = "none"
    BY DEF Init, Idle, NoTurn
  <2>2. \A a \in Agents : Research(a) /\ told[a] = <<>>
    BY <2>1 DEF Research, Init
  <2> QED
    BY <2>1, <2>2 DEF Asker!FeedInit
<1>2. ASSUME UNCHANGED avars
      PROVE  UNCHANGED <<[a \in Agents |-> IF Research(a) THEN told[a] ELSE <<>>],
                         [a \in Agents |-> turn[a].heard],
                         [a \in Agents |-> IF Research(a) THEN turn[a].status ELSE "none"]>>
  BY <1>2 DEF avars, Research
<1>3. IInv /\ IInv' /\ [Next]_avars =>
        [Asker!FeedNext]_<<[a \in Agents |-> IF Research(a) THEN told[a] ELSE <<>>],
                           [a \in Agents |-> turn[a].heard],
                           [a \in Agents |-> IF Research(a) THEN turn[a].status ELSE "none"]>>
  BY <1>2, NextFeeds
<1> QED
  BY <1>1, <1>3, Invariance, PTL DEF AgentSpec, PageIsFed, Asker!FeedSpec
=============================================================================
