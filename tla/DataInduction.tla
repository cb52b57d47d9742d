---------------------------- MODULE DataInduction ----------------------------
(***************************************************************************)
(* Induction over data, stated without operator parameters: a property of  *)
(* numbers is the set of those that have it, and the step of a recursion   *)
(* is a function.  The modules that prove what a recursive definition      *)
(* computes for every input rest on these facts.                           *)
(***************************************************************************)
EXTENDS Naturals, Sequences, WellFoundedInduction, TLAPS

(* Every set of numbers that has an element has a least one.               *)
LEMMA LeastNumber ==
  ASSUME NEW T \in SUBSET Nat, T # {}
  PROVE  \E x \in T : \A y \in T : x <= y
<1> DEFINE R == {p \in Nat \X Nat : p[1] < p[2]}
<1>1. OpToRel(<, Nat) = R
  BY DEF OpToRel
<1>2. IsWellFoundedOn(R, Nat)
  BY <1>1, NatLessThanWellFounded
<1> HIDE DEF R
<1>3. PICK x \in T : \A y \in T : ~(<<y, x>> \in R)
  BY <1>2, WFMin
<1>4. \A y \in T : ~(y < x)
  BY <1>3 DEF R
<1> QED
  BY <1>4

(* What holds of zero and passes from each number to the next, up to N,    *)
(* holds of every number up to N.                                          *)
LEMMA InductionUpTo ==
  ASSUME NEW N \in Nat, NEW S, 0 \in S,
         \A n \in Nat : n < N /\ n \in S => n + 1 \in S
  PROVE  \A n \in 0..N : n \in S
<1> DEFINE T == {n \in 0..N : n \notin S}
<1> SUFFICES ASSUME T # {} PROVE FALSE
  OBVIOUS
<1>1. PICK x \in T : \A y \in T : x <= y
  <2>1. T \in SUBSET Nat
    OBVIOUS
  <2> HIDE DEF T
  <2> QED
    BY <2>1, LeastNumber
<1>2. x \in Nat /\ x # 0 /\ x <= N
  OBVIOUS
<1>3. x - 1 \in Nat /\ x - 1 < N /\ x - 1 \notin T
  BY <1>1, <1>2
<1> QED
  BY <1>2, <1>3

(* How a recursion goes over a sequence: f starts from the base and takes  *)
(* one step with each element.                                             *)
Steps(A, B) == [A -> [B -> A]]

RunsOver(f, base, step, s) ==
  f[0] = base /\ \A n \in 1..Len(s) : f[n] = step[f[n - 1]][s[n]]

HasRun(A, base, step, s) == \E f \in [0..Len(s) -> A] : RunsOver(f, base, step, s)

(* Every recursion over a sequence has a solution.                         *)
THEOREM RecursionOverSequence ==
  ASSUME NEW A, NEW B, NEW base \in A, NEW step \in Steps(A, B), NEW s \in Seq(B)
  PROVE  HasRun(A, base, step, s)
<1> DEFINE Solves(f, m) ==
             f[0] = base /\ \A n \in 1..m : f[n] = step[f[n - 1]][s[n]]
           S == {m \in Nat : \E f \in [0..m -> A] : Solves(f, m)}
<1>1. 0 \in S
  <2>1. [n \in 0..0 |-> base] \in [0..0 -> A] /\ Solves([n \in 0..0 |-> base], 0)
    OBVIOUS
  <2> QED
    BY <2>1
<1>2. ASSUME NEW m \in Nat, m < Len(s), m \in S
      PROVE  m + 1 \in S
  <2>1. PICK f \in [0..m -> A] : Solves(f, m)
    BY <1>2
  <2> DEFINE next == step[f[m]][s[m + 1]]
             g == [n \in 0..(m + 1) |-> IF n = m + 1 THEN next ELSE f[n]]
  <2>2. next \in A
    <3>1. f[m] \in A /\ s[m + 1] \in B
      BY <1>2
    <3> QED
      BY <3>1 DEF Steps
  <2>3. g \in [0..(m + 1) -> A]
    <3> HIDE DEF next
    <3> QED
      BY <2>2
  <2>4. Solves(g, m + 1)
    <3> HIDE DEF next
    <3>1. g[0] = base
      BY <2>1
    <3>2. ASSUME NEW n \in 1..(m + 1)
          PROVE  g[n] = step[g[n - 1]][s[n]]
      <4>1. CASE n = m + 1
        <5>1. m \in 0..(m + 1) /\ m # m + 1 /\ n - 1 = m /\ n \in 0..(m + 1)
          BY <4>1
        <5> QED
          BY <4>1, <5>1 DEF next
      <4>2. CASE n # m + 1
        <5>1. n \in 1..m /\ n - 1 \in 0..m /\ n \in 0..(m + 1) /\ n - 1 \in 0..(m + 1)
          BY <4>2
        <5>2. n - 1 # m + 1
          BY <4>2
        <5> QED
          BY <2>1, <4>2, <5>1, <5>2
      <4> QED
        BY <4>1, <4>2
    <3> QED
      BY <3>1, <3>2
  <2>5. \E h \in [0..(m + 1) -> A] : Solves(h, m + 1)
    <3> HIDE DEF g, Solves
    <3> QED
      BY <2>3, <2>4
  <2>6. m + 1 \in Nat
    BY <1>2
  <2> HIDE DEF Solves, g
  <2> QED
    BY <2>5, <2>6
<1>3. Len(s) \in S
  <2> HIDE DEF S
  <2>1. Len(s) \in Nat
    OBVIOUS
  <2>2. \A n \in 0..Len(s) : n \in S
    BY <1>1, <1>2, <2>1, InductionUpTo
  <2> QED
    BY <2>1, <2>2
<1> QED
  BY <1>3 DEF HasRun, RunsOver

(* The same for a step that is taken a number of times, over no data.      *)
Iterates(f, base, step, N) ==
  f[0] = base /\ \A n \in 1..N : f[n] = step[f[n - 1]]

HasIterates(A, base, step, N) == \E f \in [0..N -> A] : Iterates(f, base, step, N)

LEMMA IterationUpTo ==
  ASSUME NEW A, NEW base \in A, NEW step \in [A -> A], NEW N \in Nat
  PROVE  HasIterates(A, base, step, N)
<1> DEFINE taken == [a \in A |-> [b \in {0} |-> step[a]]]
           s == [n \in 1..N |-> 0]
<1>1. s \in Seq({0}) /\ Len(s) = N /\ \A n \in 1..N : s[n] = 0
  OBVIOUS
<1>2. taken \in Steps(A, {0})
  BY DEF Steps
<1>3. HasRun(A, base, taken, s)
  <2> HIDE DEF taken, s
  <2> QED
    BY <1>1, <1>2, RecursionOverSequence
<1>4. PICK f \in [0..N -> A] : RunsOver(f, base, taken, s)
  <2> HIDE DEF taken, s
  <2> QED
    BY <1>1, <1>3 DEF HasRun
<1>5. ASSUME NEW n \in 1..N
      PROVE  f[n] = step[f[n - 1]]
  <2>1. f[n - 1] \in A
    OBVIOUS
  <2>2. f[n] = taken[f[n - 1]][0]
    <3> HIDE DEF taken, s
    <3> QED
      BY <1>1, <1>4 DEF RunsOver
  <2> QED
    BY <2>1, <2>2
<1>6. f[0] = base
  BY <1>4 DEF RunsOver
<1> QED
  BY <1>5, <1>6 DEF HasIterates, Iterates
=============================================================================
