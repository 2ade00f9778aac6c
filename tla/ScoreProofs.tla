----------------------------- MODULE ScoreProofs ----------------------------
(***************************************************************************)
(* Proofs about Score, for any suites and any number of runs and results:  *)
(* the score is a share and moves with the results, the summaries are      *)
(* exact, the ranking is fair, and the gate holds every run.               *)
(***************************************************************************)
EXTENDS Score, FiniteSetTheorems, NaturalsInduction, WellFoundedInduction, TLAPS

\* No level has more passes than results.
TallyOK(t) == t \in Tallies /\ t.passed <= t.total

SummaryOK(s) ==
    /\ s \in Summaries
    /\ \A l \in Scored : TallyOK(s.levels[l])

ScoreInv == SummaryOK(overall)

\* What checkMinMust knows: the runs before the one it has reached meet the
\* bar, unless it has stopped at one that misses it.
GateInv ==
    /\ \A i \in DOMAIN board : SummaryOK(board[i].overall)
    /\ Len(board) \in Nat /\ DOMAIN board = 1..Len(board)
    /\ at \in Nat \ {0} /\ gate \in {"none", "met", "missed"}
    /\ pc = "summarize" => at = 1
    /\ gate = "none" <=> pc # "done"
    /\ MinMust > 0 /\ gate # "missed" => \A i \in DOMAIN board : i < at => ~Misses(board[i])
    /\ gate = "missed" => \E i \in DOMAIN board : Misses(board[i])
    /\ gate = "met" /\ MinMust > 0 => at > Len(board)

\* Summarize's index names every summary of a suite once, and the summaries
\* are exact.
ExactInv ==
    /\ results \in [Kinds -> Nat]
    /\ suites \in Seq(Summaries)
    /\ DOMAIN index \subseteq Suites
    /\ \A s \in DOMAIN index : index[s] \in 1..Len(suites)
    /\ \A s, t \in DOMAIN index : index[s] = index[t] => s = t
    /\ SummariesAreExact

----------------------------------------------------------------------------
(***************************************************************************)
(* Integer division.                                                       *)
(***************************************************************************)

\* What the quotient of a division by a positive number is.
LEMMA Quotient ==
    ASSUME NEW a \in Nat, NEW t \in Nat, t > 0
    PROVE  /\ a \div t \in Nat
           /\ (a \div t) * t <= a
           /\ a < (a \div t) * t + t
  BY Z3

\* A number whose product with t is at most a is at most the quotient.
LEMMA QuotientIsLargest ==
    ASSUME NEW a \in Nat, NEW t \in Nat, t > 0, NEW q \in Nat, q * t <= a
    PROVE  q <= a \div t
  <1> DEFINE d == a \div t
  <1>1. d \in Nat /\ a < d * t + t
    BY Quotient
  <1>2. q * t < (d + 1) * t
    BY <1>1, Z3
  <1>3. q < d + 1
    BY <1>1, <1>2, Z3
  <1> QED
    BY <1>1, <1>3

\* A share in percent is at most 100, and 100 only for the whole.
LEMMA Share ==
    ASSUME NEW p \in Nat, NEW t \in Nat, p <= t, t > 0
    PROVE  /\ (100 * p) \div t \in 0..100
           /\ (100 * p) \div t = 100 <=> p = t
  <1> DEFINE d == (100 * p) \div t
  <1>1. d \in Nat /\ d * t <= 100 * p /\ 100 * p < d * t + t
    BY Quotient, 100 * p \in Nat
  <1>2. d <= 100
    BY <1>1, Z3
  <1>3. ASSUME d = 100 PROVE p = t
    BY <1>1, <1>3, Z3
  <1>4. ASSUME p = t PROVE d = 100
    BY <1>1, <1>4, Z3
  <1> QED
    BY <1>1, <1>2, <1>3, <1>4

\* One more part, of any weight, that counts does not lower the share.
LEMMA ShareGrows ==
    ASSUME NEW p \in Nat, NEW t \in Nat, p <= t, t > 0, NEW w \in Nat
    PROVE  (100 * (p + w)) \div (t + w) >= (100 * p) \div t
  <1> DEFINE d == (100 * p) \div t
  <1>1. d \in Nat /\ d * t <= 100 * p
    BY Quotient, 100 * p \in Nat
  <1>2. d <= 100
    BY Share
  <1>3. d * w <= 100 * w
    BY <1>1, <1>2, Z3
  <1>4. d * (t + w) <= 100 * (p + w)
    BY <1>1, <1>3, Z3
  <1> QED
    BY <1>1, <1>4, QuotientIsLargest, 100 * (p + w) \in Nat, t + w \in Nat, t + w > 0

\* One more part, of any weight, that does not count does not raise it.
LEMMA ShareShrinks ==
    ASSUME NEW p \in Nat, NEW t \in Nat, t > 0, NEW w \in Nat
    PROVE  (100 * p) \div (t + w) <= (100 * p) \div t
  <1> DEFINE d == (100 * p) \div (t + w)
  <1>1. d \in Nat /\ d * (t + w) <= 100 * p
    BY Quotient, 100 * p \in Nat, t + w \in Nat, t + w > 0
  <1>2. d * t <= 100 * p
    BY <1>1, Z3
  <1> QED
    BY <1>1, <1>2, QuotientIsLargest, 100 * p \in Nat

----------------------------------------------------------------------------
(***************************************************************************)
(* Summaries.                                                              *)
(***************************************************************************)

LEMMA AddOK ==
    ASSUME NEW s, SummaryOK(s), NEW l \in Levels, NEW o \in Outcomes
    PROVE  SummaryOK(Add(s, l, o))
  <1> USE DEF SummaryOK, TallyOK, Summaries, Tallies, Add, Counts, Rest, Scored, Levels, Outcomes
  <1>1. CASE o \notin {"pass", "fail"}
    BY <1>1
  <1>2. CASE o \in {"pass", "fail"} /\ l = "info"
    BY <1>2
  <1>3. CASE o \in {"pass", "fail"} /\ l = "must"
    BY <1>3
  <1>4. CASE o \in {"pass", "fail"} /\ l = "should"
    BY <1>4
  <1>5. CASE o \in {"pass", "fail"} /\ l = "may"
    BY <1>5
  <1> QED
    BY <1>1, <1>2, <1>3, <1>4, <1>5

LEMMA SharesOK ==
    ASSUME NEW s, SummaryOK(s)
    PROVE  /\ Passed(s) \in Nat /\ Tested(s) \in Nat /\ Passed(s) <= Tested(s)
           /\ IsScored(s) <=> Tested(s) > 0
           /\ Passed(s) = Tested(s) <=> \A l \in Scored : s.levels[l].passed = s.levels[l].total
  BY DEF SummaryOK, TallyOK, Summaries, Tallies, Passed, Tested, IsScored, Weight, Scored

\* What a result adds to the two weighted sums.
LEMMA AddShares ==
    ASSUME NEW s, SummaryOK(s), NEW l \in Levels, NEW o \in Outcomes
    PROVE  \E w \in Nat :
              /\ Tested(Add(s, l, o)) = Tested(s) + w
              /\ Passed(Add(s, l, o)) = IF o = "pass" THEN Passed(s) + w ELSE Passed(s)
              /\ o \notin {"pass", "fail"} => w = 0
  <1>1. CASE o \notin {"pass", "fail"}
    <2>1. Tested(Add(s, l, o)) = Tested(s) + 0 /\ Passed(Add(s, l, o)) = Passed(s)
      BY <1>1 DEF SummaryOK, TallyOK, Summaries, Tallies, Add, Counts, Rest, Scored, Levels, Outcomes,
                 Passed, Tested, Weight
    <2> QED
      BY <1>1, <2>1, 0 \in Nat
  <1>2. CASE o \in {"pass", "fail"} /\ l = "info"
    <2>1. /\ Tested(Add(s, l, o)) = Tested(s) + 0
          /\ Passed(Add(s, l, o)) = IF o = "pass" THEN Passed(s) + 0 ELSE Passed(s)
      BY <1>2 DEF SummaryOK, TallyOK, Summaries, Tallies, Add, Counts, Rest, Scored, Levels, Outcomes,
                 Passed, Tested, Weight
    <2> QED
      BY <1>2, <2>1, 0 \in Nat
  <1>3. CASE o \in {"pass", "fail"} /\ l = "must"
    <2>1. /\ Tested(Add(s, l, o)) = Tested(s) + 10
          /\ Passed(Add(s, l, o)) = IF o = "pass" THEN Passed(s) + 10 ELSE Passed(s)
      BY <1>3 DEF SummaryOK, TallyOK, Summaries, Tallies, Add, Counts, Rest, Scored, Levels, Outcomes,
                 Passed, Tested, Weight
    <2> QED
      BY <1>3, <2>1, 10 \in Nat
  <1>4. CASE o \in {"pass", "fail"} /\ l = "should"
    <2>1. /\ Tested(Add(s, l, o)) = Tested(s) + 4
          /\ Passed(Add(s, l, o)) = IF o = "pass" THEN Passed(s) + 4 ELSE Passed(s)
      BY <1>4 DEF SummaryOK, TallyOK, Summaries, Tallies, Add, Counts, Rest, Scored, Levels, Outcomes,
                 Passed, Tested, Weight
    <2> QED
      BY <1>4, <2>1, 4 \in Nat
  <1>5. CASE o \in {"pass", "fail"} /\ l = "may"
    <2>1. /\ Tested(Add(s, l, o)) = Tested(s) + 1
          /\ Passed(Add(s, l, o)) = IF o = "pass" THEN Passed(s) + 1 ELSE Passed(s)
      BY <1>5 DEF SummaryOK, TallyOK, Summaries, Tallies, Add, Counts, Rest, Scored, Levels, Outcomes,
                 Passed, Tested, Weight
    <2> QED
      BY <1>5, <2>1, 1 \in Nat
  <1> QED
    BY <1>1, <1>2, <1>3, <1>4, <1>5 DEF Levels

----------------------------------------------------------------------------
(***************************************************************************)
(* Sums.  The library folds a function over its domain by picking one      *)
(* element after another; inductions over the subsets of the domain are by *)
(* a smallest counterexample.                                              *)
(***************************************************************************)

Pick(T) == CHOOSE x \in T : TRUE

SumStep(g, f, T) == IF T = {} THEN 0 ELSE f[Pick(T)] + g[T \ {Pick(T)}]
IsSum(g, f, S) == g = [T \in SUBSET S |-> SumStep(g, f, T)]

LEMMA PickFacts ==
    ASSUME NEW S, IsFiniteSet(S), NEW T \in SUBSET S, T # {}
    PROVE  /\ Pick(T) \in T
           /\ T \ {Pick(T)} \in SUBSET S
           /\ Cardinality(T) \in Nat
           /\ Cardinality(T \ {Pick(T)}) = Cardinality(T) - 1
  <1>1. Pick(T) \in T
    BY DEF Pick
  <1>2. IsFiniteSet(T)
    BY FS_Subset
  <1>3. Cardinality(T) \in Nat
    BY <1>2, FS_CardinalityType
  <1>4. Cardinality(T \ {Pick(T)}) = Cardinality(T) - 1
    BY <1>1, <1>2, FS_RemoveElement
  <1> QED
    BY <1>1, <1>3, <1>4

\* Of some subsets of a finite set, one has the fewest elements.
LEMMA SmallestSubset ==
    ASSUME NEW S, IsFiniteSet(S), NEW B \in SUBSET SUBSET S, B # {}
    PROVE  \E T \in B : \A U \in B : Cardinality(T) <= Cardinality(U)
  <1> DEFINE C == {Cardinality(T) : T \in B}
  <1>1. \A T \in B : Cardinality(T) \in Nat
    BY FS_Subset, FS_CardinalityType
  <1>2. C \subseteq Nat /\ C # {}
    BY <1>1
  <1>3. PICK k \in C : \A j \in C : <<j, k>> \notin OpToRel(<, Nat)
    <2> HIDE DEF C
    <2> QED
      BY <1>2, NatLessThanWellFounded, WFMin
  <1>4. \A j \in C : ~ j < k
    BY <1>2, <1>3 DEF OpToRel
  <1>5. PICK T \in B : Cardinality(T) = k
    BY <1>3
  <1>6. ASSUME NEW U \in B PROVE Cardinality(T) <= Cardinality(U)
    <2>1. ~ Cardinality(U) < k
      BY <1>4
    <2> QED
      BY <2>1, <1>1, <1>5
  <1> QED
    BY <1>6

LEMMA SumsExist ==
    ASSUME NEW S, IsFiniteSet(S), NEW f
    PROVE  \E g : IsSum(g, f, S)
  <1> DEFINE Sub(k) == {T \in SUBSET S : Cardinality(T) <= k}
             Upto(g, k) == g = [T \in Sub(k) |-> SumStep(g, f, T)]
             B == {k \in Nat : ~ \E g : Upto(g, k)}
  <1>1. B = {}
    <2> SUFFICES ASSUME B # {} PROVE FALSE
      OBVIOUS
    <2>1. PICK k \in B : \A j \in B : <<j, k>> \notin OpToRel(<, Nat)
      <3>1. B \subseteq Nat
        OBVIOUS
      <3> HIDE DEF B
      <3> QED
        BY <3>1, NatLessThanWellFounded, WFMin
    <2>2. k \in Nat /\ \A j \in B : ~ j < k
      BY <2>1 DEF OpToRel
    <2>3. ~ \E g : Upto(g, k)
      BY <2>1
    <2>4. PICK m : \A T \in Sub(k - 1) : k # 0 => m[T] = SumStep(m, f, T)
      <3>1. CASE k = 0
        BY <3>1
      <3>2. CASE k # 0
        <4>1. k - 1 \in Nat /\ k - 1 < k
          BY <2>2, <3>2
        <4>2. k - 1 \notin B
          BY <2>2, <4>1
        <4>3. PICK g : Upto(g, k - 1)
          BY <4>1, <4>2
        <4>4. \A T \in Sub(k - 1) : g[T] = SumStep(g, f, T)
          BY <4>3
        <4> QED
          BY <4>4
      <3> QED
        BY <3>1, <3>2
    <2> DEFINE z == [T \in Sub(k) |-> SumStep(m, f, T)]
    <2>5. ASSUME NEW T \in Sub(k) PROVE SumStep(m, f, T) = SumStep(z, f, T)
      <3>1. CASE T = {}
        BY <3>1 DEF SumStep
      <3>2. CASE T # {}
        <4> DEFINE U == T \ {Pick(T)}
        <4>1. U \in SUBSET S /\ Cardinality(T) \in Nat /\ Cardinality(U) = Cardinality(T) - 1
              /\ Pick(T) \in T
          BY <3>2, PickFacts
        <4>2. Cardinality(T) # 0
          <5>1. IsFiniteSet(T)
            BY FS_Subset
          <5> QED
            BY <5>1, <3>2, FS_EmptySet
        <4>3. k # 0 /\ U \in Sub(k - 1) /\ U \in Sub(k)
          <5>1. Cardinality(T) <= k
            OBVIOUS
          <5> HIDE DEF U
          <5>2. k # 0 /\ Cardinality(U) <= k - 1 /\ Cardinality(U) <= k
            BY <4>1, <4>2, <5>1, <2>2
          <5> QED
            BY <5>2, <4>1
        <4> HIDE DEF U
        <4>4. z[U] = m[U]
          BY <4>3, <2>4
        <4> HIDE DEF z
        <4> QED
          BY <4>4, <3>2 DEF SumStep, U
      <3> QED
        BY <3>1, <3>2
    <2>6. Upto(z, k)
      <3> HIDE DEF Sub
      <3> QED
        BY <2>5
    <2> QED
      BY <2>3, <2>6
  <1>2. Cardinality(S) \in Nat
    BY FS_CardinalityType
  <1>3. Sub(Cardinality(S)) = SUBSET S
    <2>1. \A T \in SUBSET S : Cardinality(T) <= Cardinality(S)
      BY FS_Subset
    <2> QED
      BY <2>1
  <1>4. PICK g : Upto(g, Cardinality(S))
    BY <1>1, <1>2
  <1> QED
    BY <1>3, <1>4 DEF IsSum

LEMMA SumIsSum ==
    ASSUME NEW S, IsFiniteSet(S), NEW f, DOMAIN f = S
    PROVE  \E g : IsSum(g, f, S) /\ SumFunction(f) = g[S]
  <1> DEFINE Loop(g) == g = [T \in SUBSET S |-> SumStep(g, f, T)]
             g == CHOOSE h : Loop(h)
  <1>1. \E h : Loop(h)
    <2>1. PICK h : IsSum(h, f, S)
      BY SumsExist
    <2>2. Loop(h)
      BY <2>1 DEF IsSum
    <2> QED
      BY <2>2
  <1>2. Loop(g)
    <2> HIDE DEF Loop
    <2> QED
      BY <1>1
  <1>3. SumFunction(f) = g[S]
    BY DEF SumFunction, SumFunctionOnSet, FoldFunctionOnSet, MapThenFoldSet, SumStep, Pick
  <1> QED
    BY <1>2, <1>3 DEF IsSum

LEMMA SumFacts ==
    ASSUME NEW g, NEW f, NEW S, IsSum(g, f, S)
    PROVE  \A T \in SUBSET S : g[T] = SumStep(g, f, T)
  BY DEF IsSum

LEMMA SumOneMore ==
    ASSUME NEW S, IsFiniteSet(S), NEW f \in [S -> Nat], NEW x \in S
    PROVE  /\ SumFunction(f) \in Nat
           /\ SumFunction([f EXCEPT ![x] = @ + 1]) = SumFunction(f) + 1
  <1> DEFINE h == [f EXCEPT ![x] = @ + 1]
  <1>1. PICK a : IsSum(a, f, S) /\ SumFunction(f) = a[S]
    BY SumIsSum
  <1>2. PICK b : IsSum(b, h, S) /\ SumFunction(h) = b[S]
    BY SumIsSum
  <1>3. \A y \in S : f[y] \in Nat /\ h[y] = f[y] + (IF y = x THEN 1 ELSE 0)
    OBVIOUS
  <1> HIDE DEF h
  <1> DEFINE One(T) == IF x \in T THEN 1 ELSE 0
             Good(T) == a[T] \in Nat /\ b[T] = a[T] + One(T)
             B == {T \in SUBSET S : ~Good(T)}
  <1>4. B = {}
    <2> SUFFICES ASSUME B # {} PROVE FALSE
      OBVIOUS
    <2>1. PICK T \in B : \A U \in B : Cardinality(T) <= Cardinality(U)
      <3>1. B \in SUBSET SUBSET S
        OBVIOUS
      <3> HIDE DEF B
      <3> QED
        BY <3>1, SmallestSubset
    <2>2. a[T] = SumStep(a, f, T) /\ b[T] = SumStep(b, h, T)
      BY <1>1, <1>2, SumFacts
    <2>3. T # {}
      BY <2>2 DEF SumStep
    <2> DEFINE y == Pick(T)
               U == T \ {y}
    <2>4. y \in T /\ U \in SUBSET S /\ Cardinality(T) \in Nat /\ Cardinality(U) = Cardinality(T) - 1
      BY <2>3, PickFacts
    <2>5. Good(U)
      <3>1. ~ Cardinality(T) <= Cardinality(U)
        BY <2>4
      <3> QED
        BY <2>1, <2>4, <3>1
    <2>6. a[T] = f[y] + a[U] /\ b[T] = h[y] + b[U]
      BY <2>2, <2>3 DEF SumStep
    <2>7. x \in T <=> x \in U \/ x = y
      BY <2>4
    <2>8. ~(x \in U /\ x = y)
      OBVIOUS
    <2>9. y \in S
      BY <2>4
    <2> HIDE DEF y, U
    <2>10. Good(T)
      BY <2>5, <2>6, <2>7, <2>8, <2>9, <1>3
    <2> QED
      BY <2>10
  <1>5. Good(S)
    BY <1>4
  <1> QED
    BY <1>1, <1>2, <1>5 DEF h

LEMMA SumOfZeros ==
    ASSUME NEW S, IsFiniteSet(S), NEW f, f = [x \in S |-> 0]
    PROVE  SumFunction(f) = 0
  <1>1. PICK a : IsSum(a, f, S) /\ SumFunction(f) = a[S]
    BY SumIsSum
  <1> DEFINE B == {T \in SUBSET S : a[T] # 0}
  <1>2. B = {}
    <2> SUFFICES ASSUME B # {} PROVE FALSE
      OBVIOUS
    <2>1. PICK T \in B : \A U \in B : Cardinality(T) <= Cardinality(U)
      <3>1. B \in SUBSET SUBSET S
        OBVIOUS
      <3> HIDE DEF B
      <3> QED
        BY <3>1, SmallestSubset
    <2>2. a[T] = SumStep(a, f, T)
      BY <1>1, SumFacts
    <2>3. T # {}
      BY <2>2 DEF SumStep
    <2> DEFINE y == Pick(T)
               U == T \ {y}
    <2>4. y \in T /\ U \in SUBSET S /\ Cardinality(T) \in Nat /\ Cardinality(U) = Cardinality(T) - 1
      BY <2>3, PickFacts
    <2>5. a[U] = 0
      <3>1. ~ Cardinality(T) <= Cardinality(U)
        BY <2>4
      <3> QED
        BY <2>1, <2>4, <3>1
    <2>6. a[T] = f[y] + a[U]
      BY <2>2, <2>3 DEF SumStep
    <2>7. f[y] = 0
      BY <2>4
    <2> QED
      BY <2>5, <2>6, <2>7
  <1> QED
    BY <1>1, <1>2

----------------------------------------------------------------------------
(***************************************************************************)
(* Exact summaries.                                                        *)
(***************************************************************************)

LEMMA FiniteLevels == IsFiniteSet(Levels)
  <1>1. IsFiniteSet({"must"})
    BY FS_Singleton
  <1>2. IsFiniteSet({"must"} \cup {"should"})
    BY <1>1, FS_AddElement
  <1>3. IsFiniteSet(({"must"} \cup {"should"}) \cup {"may"})
    BY <1>2, FS_AddElement
  <1>4. IsFiniteSet((({"must"} \cup {"should"}) \cup {"may"}) \cup {"info"})
    BY <1>3, FS_AddElement
  <1>5. Levels = (({"must"} \cup {"should"}) \cup {"may"}) \cup {"info"}
    BY DEF Levels
  <1> QED
    BY <1>4, <1>5

Pairs == Levels \X Outcomes

\* Summary.add counts a result where a recount would find it.
LEMMA CountedAdd ==
    ASSUME NEW n \in [Pairs -> Nat], NEW l \in Levels, NEW o \in Outcomes
    PROVE  Counted([n EXCEPT ![<<l, o>>] = @ + 1]) = Add(Counted(n), l, o)
  <1> DEFINE m == [n EXCEPT ![<<l, o>>] = @ + 1]
             Col(f, c) == [j \in Levels |-> f[<<j, c>>]]
             CN == Counted(n)
             CM == Counted(m)
  <1>1. \A j \in Levels, c \in Outcomes :
            /\ n[<<j, c>>] \in Nat
            /\ m[<<j, c>>] = IF j = l /\ c = o THEN n[<<j, c>>] + 1 ELSE n[<<j, c>>]
    BY DEF Pairs
  <1> HIDE DEF m
  <1>2. \A c \in Outcomes : Col(n, c) \in [Levels -> Nat]
    BY <1>1
  <1>3. SumFunction(Col(m, o)) = SumFunction(Col(n, o)) + 1 /\ SumFunction(Col(n, o)) \in Nat
    <2> DEFINE f == Col(n, o)
    <2>1. Col(m, o) = [f EXCEPT ![l] = @ + 1]
      BY <1>1
    <2>2. f \in [Levels -> Nat]
      BY <1>2
    <2> HIDE DEF f
    <2>3. SumFunction([f EXCEPT ![l] = @ + 1]) = SumFunction(f) + 1 /\ SumFunction(f) \in Nat
      BY <2>2, FiniteLevels, SumOneMore
    <2> QED
      BY <2>1, <2>3 DEF f
  <1>4. ASSUME NEW c \in Outcomes, c # o PROVE SumFunction(Col(m, c)) = SumFunction(Col(n, c))
    <2>1. Col(m, c) = Col(n, c)
      BY <1>1, <1>4
    <2> QED
      BY <2>1
  <1> DEFINE L(f) == [j \in Scored |-> [passed |-> f[<<j, "pass">>],
                                        total |-> f[<<j, "pass">>] + f[<<j, "fail">>]]]
             R(f) == [c \in Rest |-> IF c = "info" THEN f[<<"info", "pass">>] + f[<<"info", "fail">>]
                                     ELSE SumFunction(Col(f, c))]
  <1>5. CN = [levels |-> L(n), rest |-> R(n)] /\ CM = [levels |-> L(m), rest |-> R(m)]
    BY DEF Counted
  <1>6. \A c \in Rest : c = "info" \/ c \in Outcomes
    BY DEF Rest, Outcomes
  <1> HIDE DEF Col, CN, CM
  <1>7. CASE o \notin {"pass", "fail"}
    <2>1. L(m) = L(n)
      BY <1>1, <1>7 DEF Scored, Levels, Outcomes
    <2>2. o \in Rest /\ o # "info"
      BY <1>7 DEF Outcomes, Rest
    <2>3. \A c \in Rest : R(m)[c] = IF c = o THEN R(n)[c] + 1 ELSE R(n)[c]
      <3>1. R(m)[o] = R(n)[o] + 1
        BY <1>3, <2>2
      <3>2. R(m)["info"] = R(n)["info"]
        BY <1>1, <1>7 DEF Levels, Outcomes, Rest
      <3>3. ASSUME NEW c \in Rest, c # o, c # "info" PROVE R(m)[c] = R(n)[c]
        BY <3>3, <1>4, <1>6
      <3> QED
        BY <3>1, <3>2, <3>3, <2>2
    <2>4. R(m) = [R(n) EXCEPT ![o] = @ + 1]
      BY <2>2, <2>3
    <2> HIDE DEF L, R
    <2>5. CN.levels = L(n) /\ CN.rest = R(n)
      BY <1>5
    <2>6. Add(CN, l, o) = [levels |-> L(n), rest |-> [R(n) EXCEPT ![o] = @ + 1]]
      BY <2>5, <1>7 DEF Add, Counts
    <2> QED
      BY <2>1, <2>4, <2>6, <1>5 DEF CN, CM, m
  <1>8. CASE o \in {"pass", "fail"}
    <2>1. \A c \in Rest : c # "info" => R(m)[c] = R(n)[c]
      <3> SUFFICES ASSUME NEW c \in Rest, c # "info" PROVE R(m)[c] = R(n)[c]
        OBVIOUS
      <3>1. c \in Outcomes /\ c # o
        BY <1>6, <1>8 DEF Rest
      <3> QED
        BY <3>1, <1>4
    <2>2. CASE l \notin Scored
      <3>1. l = "info" /\ "info" \in Rest
        BY <2>2 DEF Levels, Scored, Rest
      <3>2. L(m) = L(n)
        BY <1>1, <2>2 DEF Scored, Levels, Outcomes
      <3>3. R(m)["info"] = R(n)["info"] + 1
        BY <1>1, <1>8, <3>1 DEF Levels, Outcomes
      <3>4. R(m) = [R(n) EXCEPT !["info"] = @ + 1]
        BY <3>1, <3>3, <2>1
      <3> HIDE DEF L, R
      <3>5. CN.levels = L(n) /\ CN.rest = R(n)
        BY <1>5
      <3>6. Add(CN, l, o) = [levels |-> L(n), rest |-> [R(n) EXCEPT !["info"] = @ + 1]]
        BY <3>5, <1>8, <2>2 DEF Add, Counts
      <3> QED
        BY <3>2, <3>4, <3>6, <1>5 DEF CN, CM, m
    <2>3. CASE l \in Scored
      <3>1. R(m)["info"] = R(n)["info"]
        BY <1>1, <2>3 DEF Levels, Outcomes, Rest, Scored
      <3>2. R(m) = R(n)
        BY <3>1, <2>1
      <3> DEFINE one == IF o = "pass" THEN 1 ELSE 0
      <3>3. \A j \in Scored : L(m)[j] = IF j = l THEN [passed |-> L(n)[j].passed + one,
                                                      total  |-> L(n)[j].total + 1]
                                        ELSE L(n)[j]
        <4> TAKE j \in Scored
        <4>1. /\ n[<<j, "pass">>] \in Nat /\ n[<<j, "fail">>] \in Nat
              /\ m[<<j, "pass">>] = IF j = l /\ "pass" = o THEN n[<<j, "pass">>] + 1 ELSE n[<<j, "pass">>]
              /\ m[<<j, "fail">>] = IF j = l /\ "fail" = o THEN n[<<j, "fail">>] + 1 ELSE n[<<j, "fail">>]
          BY <1>1 DEF Scored, Levels, Outcomes
        <4> QED
          BY <4>1, <1>8
      <3>4. L(m) = [L(n) EXCEPT ![l] = [passed |-> @.passed + one, total |-> @.total + 1]]
        BY <2>3, <3>3
      <3> HIDE DEF L, R
      <3>5. CN.levels = L(n) /\ CN.rest = R(n)
        BY <1>5
      <3>6. Add(CN, l, o) =
               [levels |-> [L(n) EXCEPT ![l] = [passed |-> @.passed + one, total |-> @.total + 1]],
                rest |-> R(n)]
        BY <3>5, <1>8, <2>3 DEF Add
      <3> QED
        BY <3>2, <3>4, <3>6, <1>5 DEF CN, CM, m
    <2> QED
      BY <2>2, <2>3
  <1> QED
    BY <1>7, <1>8

\* Nothing is counted where there is nothing.
LEMMA CountedNone ==
    ASSUME NEW n, n = [k \in Pairs |-> 0]
    PROVE  Counted(n) = NoSummary
  <1>1. ASSUME NEW c \in Outcomes PROVE SumFunction([j \in Levels |-> n[<<j, c>>]]) = 0
    <2> DEFINE f == [j \in Levels |-> n[<<j, c>>]]
    <2>1. f = [j \in Levels |-> 0]
      BY DEF Pairs
    <2> HIDE DEF f
    <2>2. SumFunction(f) = 0
      BY <2>1, FiniteLevels, SumOfZeros
    <2> QED
      BY <2>2 DEF f
  <1>2. \A j \in Levels, c \in Outcomes : n[<<j, c>>] = 0
    BY DEF Pairs
  <1>3. \A c \in Rest : c = "info" \/ c \in Outcomes
    BY DEF Rest, Outcomes
  <1>4. Counted(n).levels = NoSummary.levels
    BY <1>2 DEF Counted, NoSummary, NoTally, Levels, Outcomes, Scored
  <1>5. Counted(n).rest = NoSummary.rest
    <2> DEFINE R == [c \in Rest |-> IF c = "info" THEN n[<<"info", "pass">>] + n[<<"info", "fail">>]
                                    ELSE SumFunction([j \in Levels |-> n[<<j, c>>]])]
    <2>1. n[<<"info", "pass">>] = 0 /\ n[<<"info", "fail">>] = 0
      BY <1>2 DEF Levels, Outcomes
    <2>2. \A c \in Rest : R[c] = 0
      BY <2>1, <1>1, <1>3
    <2>3. R = [c \in Rest |-> 0]
      BY <2>2
    <2> QED
      BY <2>3 DEF Counted, NoSummary
  <1> QED
    BY <1>4, <1>5 DEF Counted, NoSummary

\* A result of suite s moves the counts of s, and the counts of all suites.
LEMMA ResultCounts ==
    ASSUME results \in [Kinds -> Nat], NEW s \in Suites, NEW l \in Levels, NEW o \in Outcomes,
           results' = [results EXCEPT ![<<s, l, o>>] = @ + 1]
    PROVE  /\ results' \in [Kinds -> Nat]
           /\ OfAll \in [Pairs -> Nat] /\ OfAll' = [OfAll EXCEPT ![<<l, o>>] = @ + 1]
           /\ \A t \in Suites : OfSuite(t) \in [Pairs -> Nat]
           /\ OfSuite(s)' = [OfSuite(s) EXCEPT ![<<l, o>>] = @ + 1]
           /\ \A t \in Suites : t # s => OfSuite(t)' = OfSuite(t)
  <1>1. \A t \in Suites, j \in Levels, c \in Outcomes :
            /\ <<t, j, c>> \in Kinds
            /\ results[<<t, j, c>>] \in Nat
            /\ results'[<<t, j, c>>] = IF t = s /\ j = l /\ c = o THEN results[<<t, j, c>>] + 1
                                                                 ELSE results[<<t, j, c>>]
    BY DEF Kinds
  <1>2. results' \in [Kinds -> Nat]
    BY DEF Kinds
  <1>3. \A k \in Pairs : k[1] \in Levels /\ k[2] \in Outcomes /\ (k = <<l, o>> <=> k[1] = l /\ k[2] = o)
    BY DEF Pairs
  <1>4. <<l, o>> \in Pairs
    BY DEF Pairs
  <1>5. \A t \in Suites, k \in Pairs :
            /\ OfSuite(t)[k] \in Nat
            /\ OfSuite(t)'[k] = IF t = s /\ k = <<l, o>> THEN OfSuite(t)[k] + 1 ELSE OfSuite(t)[k]
    <2> TAKE t \in Suites, k \in Pairs
    <2>1. OfSuite(t)[k] = results[<<t, k[1], k[2]>>] /\ OfSuite(t)'[k] = results'[<<t, k[1], k[2]>>]
      BY DEF OfSuite, Pairs
    <2> QED
      BY <2>1, <1>1, <1>3
  <1>6. \A t \in Suites : OfSuite(t) = [k \in Pairs |-> OfSuite(t)[k]]
                          /\ OfSuite(t)' = [k \in Pairs |-> OfSuite(t)'[k]]
    BY DEF OfSuite, Pairs
  <1>7. \A t \in Suites : OfSuite(t) \in [Pairs -> Nat]
    BY <1>5, <1>6
  <1>8. OfSuite(s)' = [OfSuite(s) EXCEPT ![<<l, o>>] = @ + 1]
    <2> DEFINE f == OfSuite(s)
               g == OfSuite(s)'
    <2>1. f = [k \in Pairs |-> f[k]] /\ g = [k \in Pairs |-> g[k]]
      BY <1>6
    <2>2. \A k \in Pairs : g[k] = IF k = <<l, o>> THEN f[k] + 1 ELSE f[k]
      BY <1>5
    <2> HIDE DEF f, g
    <2>3. g = [f EXCEPT ![<<l, o>>] = @ + 1]
      BY <2>1, <2>2, <1>4
    <2> QED
      BY <2>3 DEF f, g
  <1>9. ASSUME NEW t \in Suites, t # s PROVE OfSuite(t)' = OfSuite(t)
    <2> DEFINE f == OfSuite(t)
               g == OfSuite(t)'
    <2>1. f = [k \in Pairs |-> f[k]] /\ g = [k \in Pairs |-> g[k]]
      BY <1>6
    <2>2. \A k \in Pairs : g[k] = f[k]
      BY <1>5, <1>9
    <2> HIDE DEF f, g
    <2>3. g = f
      BY <2>1, <2>2
    <2> QED
      BY <2>3 DEF f, g
  <1> DEFINE Row(k) == [t \in Suites |-> OfSuite(t)[k]]
             Row2(k) == [t \in Suites |-> OfSuite(t)'[k]]
  <1>10. OfAll = [k \in Pairs |-> SumFunction(Row(k))] /\ OfAll' = [k \in Pairs |-> SumFunction(Row2(k))]
    BY DEF OfAll, Pairs
  <1>11. \A k \in Pairs : SumFunction(Row(k)) \in Nat
             /\ SumFunction(Row2(k)) = IF k = <<l, o>> THEN SumFunction(Row(k)) + 1 ELSE SumFunction(Row(k))
    <2> TAKE k \in Pairs
    <2> DEFINE f == Row(k)
    <2>1. f \in [Suites -> Nat]
      BY <1>5
    <2>2. Row2(k) = IF k = <<l, o>> THEN [f EXCEPT ![s] = @ + 1] ELSE f
      BY <1>5
    <2> HIDE DEF f
    <2>3. SumFunction(f) \in Nat /\ SumFunction([f EXCEPT ![s] = @ + 1]) = SumFunction(f) + 1
      BY <2>1, BoundsAssumption, SumOneMore
    <2> HIDE DEF Row2
    <2>4. SumFunction(Row2(k)) = IF k = <<l, o>> THEN SumFunction(f) + 1 ELSE SumFunction(f)
      BY <2>2, <2>3
    <2> QED
      BY <2>3, <2>4 DEF f
  <1> HIDE DEF Row, Row2
  <1>12. OfAll \in [Pairs -> Nat]
    BY <1>10, <1>11
  <1>13. OfAll' = [OfAll EXCEPT ![<<l, o>>] = @ + 1]
    <2>1. \A k \in Pairs : OfAll'[k] = IF k = <<l, o>> THEN OfAll[k] + 1 ELSE OfAll[k]
      BY <1>10, <1>11
    <2>2. OfAll = [k \in Pairs |-> OfAll[k]] /\ OfAll' = [k \in Pairs |-> OfAll'[k]]
      BY <1>10
    <2> DEFINE f == OfAll
               g == OfAll'
    <2>3. /\ f = [k \in Pairs |-> f[k]] /\ g = [k \in Pairs |-> g[k]]
          /\ \A k \in Pairs : g[k] = IF k = <<l, o>> THEN f[k] + 1 ELSE f[k]
      BY <2>1, <2>2
    <2> HIDE DEF f, g
    <2>4. g = [f EXCEPT ![<<l, o>>] = @ + 1]
      BY <2>3, <1>4
    <2> QED
      BY <2>4 DEF f, g
  <1> QED
    BY <1>2, <1>7, <1>8, <1>9, <1>12, <1>13

\* At the start of a run nothing is counted.
LEMMA NothingCounted ==
    ASSUME results = NoResults
    PROVE  /\ Counted(OfAll) = NoSummary
           /\ \A s \in Suites : ~ \E l \in Levels, o \in Outcomes : results[<<s, l, o>>] > 0
           /\ \A s \in Suites : OfSuite(s) = [k \in Pairs |-> 0]
  <1>1. \A s \in Suites, l \in Levels, o \in Outcomes : results[<<s, l, o>>] = 0
    BY DEF NoResults, Kinds
  <1>2. \A k \in Pairs : k[1] \in Levels /\ k[2] \in Outcomes
    BY DEF Pairs
  <1>3. \A s \in Suites : OfSuite(s) = [k \in Pairs |-> 0]
    BY <1>1, <1>2 DEF OfSuite, Pairs
  <1>4. ASSUME NEW k \in Pairs PROVE SumFunction([s \in Suites |-> OfSuite(s)[k]]) = 0
    <2> DEFINE f == [s \in Suites |-> OfSuite(s)[k]]
    <2>1. f = [s \in Suites |-> 0]
      BY <1>3
    <2> HIDE DEF f
    <2>2. SumFunction(f) = 0
      BY <2>1, BoundsAssumption, SumOfZeros
    <2> QED
      BY <2>2 DEF f
  <1>5. OfAll = [k \in Pairs |-> 0]
    BY <1>4 DEF OfAll, Pairs
  <1>6. Counted(OfAll) = NoSummary
    BY <1>5, CountedNone
  <1>7. \A s \in Suites : ~ \E l \in Levels, o \in Outcomes : results[<<s, l, o>>] > 0
    <2>1. ~ 0 > 0
      OBVIOUS
    <2> QED
      BY <1>1, <2>1, Zenon
  <1> QED
    BY <1>3, <1>6, <1>7

LEMMA AddType ==
    ASSUME NEW s \in Summaries, NEW l \in Levels, NEW o \in Outcomes
    PROVE  Add(s, l, o) \in Summaries
  <1> USE DEF Summaries, Tallies, Add, Counts, Rest, Scored, Levels, Outcomes
  <1>1. CASE o \notin {"pass", "fail"}
    BY <1>1
  <1>2. CASE o \in {"pass", "fail"} /\ l = "info"
    BY <1>2
  <1>3. CASE o \in {"pass", "fail"} /\ l = "must"
    BY <1>3
  <1>4. CASE o \in {"pass", "fail"} /\ l = "should"
    BY <1>4
  <1>5. CASE o \in {"pass", "fail"} /\ l = "may"
    BY <1>5
  <1> QED
    BY <1>1, <1>2, <1>3, <1>4, <1>5

\* No run under way: no results, no summaries.
LEMMA FreshExact ==
    ASSUME results = NoResults, overall = NoSummary, suites = <<>>, index = <<>>
    PROVE  ExactInv
  <1>1. results \in [Kinds -> Nat]
    BY DEF NoResults
  <1>2. suites \in Seq(Summaries) /\ Len(suites) = 0 /\ DOMAIN index = {}
    OBVIOUS
  <1>3. Cardinality(DOMAIN index) = 0
    BY <1>2, FS_EmptySet
  <1>4. SummariesAreExact
    BY <1>2, <1>3, NothingCounted DEF SummariesAreExact
  <1> QED
    BY <1>1, <1>2, <1>4 DEF ExactInv

LEMMA AddResultExact ==
    ASSUME ExactInv, NEW s \in Suites, NEW l \in Levels, NEW o \in Outcomes, AddResult(s, l, o)
    PROVE  ExactInv'
  <1>1. /\ results' = [results EXCEPT ![<<s, l, o>>] = @ + 1]
        /\ overall' = Add(overall, l, o)
    BY DEF AddResult
  <1>2. /\ results' \in [Kinds -> Nat]
        /\ OfAll \in [Pairs -> Nat] /\ OfAll' = [OfAll EXCEPT ![<<l, o>>] = @ + 1]
        /\ \A t \in Suites : OfSuite(t) \in [Pairs -> Nat]
        /\ OfSuite(s)' = [OfSuite(s) EXCEPT ![<<l, o>>] = @ + 1]
        /\ \A t \in Suites : t # s => OfSuite(t)' = OfSuite(t)
    BY <1>1, ResultCounts DEF ExactInv
  <1>3. overall' = Counted(OfAll')
    <2>1. overall = Counted(OfAll)
      BY DEF ExactInv, SummariesAreExact
    <2>2. Counted([OfAll EXCEPT ![<<l, o>>] = @ + 1]) = Add(Counted(OfAll), l, o)
      BY <1>2, CountedAdd
    <2> QED
      BY <2>1, <2>2, <1>1, <1>2
  <1>4. Counted(OfSuite(s)') = Add(Counted(OfSuite(s)), l, o)
    BY <1>2, CountedAdd
  <1>5. \A t \in Suites, j \in Levels, c \in Outcomes :
            /\ results[<<t, j, c>>] \in Nat
            /\ results'[<<t, j, c>>] = IF t = s /\ j = l /\ c = o THEN results[<<t, j, c>>] + 1
                                                                 ELSE results[<<t, j, c>>]
    BY <1>1 DEF ExactInv, Kinds
  <1> DEFINE Has(t) == \E j \in Levels, c \in Outcomes : results[<<t, j, c>>] > 0
             Has2(t) == \E j \in Levels, c \in Outcomes : results'[<<t, j, c>>] > 0
  <1>6. Has2(s)
    BY <1>5
  <1>7. \A t \in Suites : t # s => (Has2(t) <=> Has(t))
    BY <1>5
  <1>8. /\ \A t \in Suites : IF Has(t) THEN t \in DOMAIN index /\ suites[index[t]] = Counted(OfSuite(t))
                             ELSE t \notin DOMAIN index
        /\ Len(suites) = Cardinality(DOMAIN index)
    BY DEF ExactInv, SummariesAreExact
  <1> HIDE DEF Has, Has2
  <1>9. CASE s \in DOMAIN index
    <2> DEFINE i == index[s]
               v == Add(suites[i], l, o)
    <2>1. suites' = [suites EXCEPT ![i] = v] /\ index' = index
      BY <1>9 DEF AddResult
    <2>2. suites \in Seq(Summaries) /\ i \in 1..Len(suites) /\ suites[i] \in Summaries
      BY <1>9 DEF ExactInv
    <2>3. v \in Summaries
      BY <2>2, AddType
    <2>4. suites[i] = Counted(OfSuite(s))
      BY <1>8, <1>9
    <2>5. v = Counted(OfSuite(s)')
      BY <1>4, <2>4
    <2>6. \A t \in DOMAIN index : index[t] \in 1..Len(suites) /\ (index[t] = i => t = s)
      BY <1>9 DEF ExactInv
    <2> HIDE DEF i, v
    <2>7. /\ suites' \in Seq(Summaries) /\ Len(suites') = Len(suites) /\ suites'[i] = v
          /\ \A k \in 1..Len(suites) : k # i => suites'[k] = suites[k]
      BY <2>1, <2>2, <2>3
    <2>8. \A t \in Suites : IF Has2(t) THEN t \in DOMAIN index' /\ suites'[index'[t]] = Counted(OfSuite(t)')
                            ELSE t \notin DOMAIN index'
      <3> TAKE t \in Suites
      <3>1. CASE t = s
        BY <3>1, <1>6, <1>9, <2>1, <2>5, <2>7 DEF i
      <3>2. CASE t # s
        <4>1. t \in DOMAIN index => suites'[index[t]] = suites[index[t]]
          BY <3>2, <2>6, <2>7
        <4>2. OfSuite(t)' = OfSuite(t)
          BY <3>2, <1>2
        <4> QED
          BY <3>2, <4>1, <4>2, <1>7, <1>8, <2>1
      <3> QED
        BY <3>1, <3>2
    <2>9. SummariesAreExact'
      BY <1>3, <1>8, <2>1, <2>7, <2>8 DEF SummariesAreExact, Has2
    <2> QED
      BY <1>2, <2>1, <2>7, <2>9 DEF ExactInv
  <1>10. CASE s \notin DOMAIN index
    <2> DEFINE N == Len(suites) + 1
               v == Add(NoSummary, l, o)
    <2>1. /\ suites' = Append(suites, v)
          /\ index' = [k \in DOMAIN index \cup {s} |-> IF k = s THEN N ELSE index[k]]
      BY <1>10 DEF AddResult
    <2>2. suites \in Seq(Summaries) /\ Len(suites) \in Nat
      BY DEF ExactInv
    <2>3. NoSummary \in Summaries
      BY DEF NoSummary, NoTally, Summaries, Tallies, Rest, Scored
    <2>4. v \in Summaries
      BY <2>3, AddType
    <2>5. v = Counted(OfSuite(s)')
      <3>1. ~Has(s)
        BY <1>8, <1>10
      <3>2. \A k \in Pairs : OfSuite(s)[k] = 0
        <4> TAKE k \in Pairs
        <4>1. k[1] \in Levels /\ k[2] \in Outcomes /\ OfSuite(s)[k] = results[<<s, k[1], k[2]>>]
          BY DEF Pairs, OfSuite
        <4>2. ~ results[<<s, k[1], k[2]>>] > 0 /\ results[<<s, k[1], k[2]>>] \in Nat
          BY <4>1, <3>1, <1>5 DEF Has
        <4> QED
          BY <4>1, <4>2
      <3> DEFINE f == OfSuite(s)
      <3>3. f = [k \in Pairs |-> 0]
        <4>1. f = [k \in Pairs |-> f[k]]
          BY DEF OfSuite, Pairs
        <4>2. \A k \in Pairs : f[k] = 0
          BY <3>2
        <4> HIDE DEF f
        <4> QED
          BY <4>1, <4>2
      <3> HIDE DEF f
      <3>4. Counted(f) = NoSummary
        BY <3>3, CountedNone
      <3> QED
        BY <3>4, <1>4 DEF f
    <2> HIDE DEF v
    <2>6. /\ suites' \in Seq(Summaries) /\ Len(suites') = N /\ suites'[N] = v
          /\ \A k \in 1..Len(suites) : suites'[k] = suites[k]
      BY <2>1, <2>2, <2>4
    <2>7. /\ DOMAIN index' = DOMAIN index \cup {s} /\ index'[s] = N
          /\ \A t \in DOMAIN index : index'[t] = index[t] /\ index[t] \in 1..Len(suites) /\ t # s
      BY <1>10, <2>1 DEF ExactInv
    <2>8. /\ DOMAIN index' \subseteq Suites
          /\ \A t \in DOMAIN index' : index'[t] \in 1..Len(suites')
          /\ \A t, u \in DOMAIN index' : index'[t] = index'[u] => t = u
      <3>1. \A k \in 1..Len(suites) : k # N /\ k \in 1..N
        BY <2>2
      <3>2. N \in 1..N
        BY <2>2
      <3> HIDE DEF N
      <3>3. \A t, u \in DOMAIN index : index[t] = index[u] => t = u
        BY DEF ExactInv
      <3> QED
        BY <3>1, <3>2, <3>3, <2>6, <2>7 DEF ExactInv
    <2>9. Cardinality(DOMAIN index') = N
      <3>1. IsFiniteSet(DOMAIN index)
        BY BoundsAssumption, FS_Subset DEF ExactInv
      <3>2. Cardinality(DOMAIN index \cup {s}) = Cardinality(DOMAIN index) + 1
        BY <3>1, <1>10, FS_AddElement
      <3> QED
        BY <3>2, <1>8, <2>7
    <2>10. \A t \in Suites : IF Has2(t) THEN t \in DOMAIN index' /\ suites'[index'[t]] = Counted(OfSuite(t)')
                             ELSE t \notin DOMAIN index'
      <3> HIDE DEF N
      <3> TAKE t \in Suites
      <3>1. CASE t = s
        BY <3>1, <1>6, <2>5, <2>6, <2>7
      <3>2. CASE t # s
        <4>1. t \in DOMAIN index => suites'[index'[t]] = suites[index[t]]
          BY <2>6, <2>7
        <4>2. t \in DOMAIN index' <=> t \in DOMAIN index
          BY <3>2, <2>7
        <4>3. OfSuite(t)' = OfSuite(t)
          BY <3>2, <1>2
        <4> QED
          BY <3>2, <4>1, <4>2, <4>3, <1>7, <1>8
      <3> QED
        BY <3>1, <3>2
    <2>11. SummariesAreExact'
      BY <1>3, <2>6, <2>9, <2>10 DEF SummariesAreExact, Has2
    <2> QED
      BY <1>2, <2>6, <2>8, <2>11 DEF ExactInv
  <1> QED
    BY <1>9, <1>10

----------------------------------------------------------------------------
(***************************************************************************)
(* The theorems.                                                           *)
(***************************************************************************)

LEMMA ScoreInvariant == Spec => []ScoreInv
  <1>1. Init => ScoreInv
    BY DEF Init, ScoreInv, SummaryOK, TallyOK, Summaries, Tallies, NoSummary, NoTally, Rest, Scored
  <1>2. SummaryOK(NoSummary)
    BY DEF SummaryOK, TallyOK, Summaries, Tallies, NoSummary, NoTally, Rest, Scored
  <1>3. ScoreInv /\ [Next]_vars => ScoreInv'
    <2> SUFFICES ASSUME ScoreInv, [Next]_vars PROVE ScoreInv'
      OBVIOUS
    <2>1. ASSUME NEW s \in Suites, NEW l \in Levels, NEW o \in Outcomes, AddResult(s, l, o)
          PROVE  ScoreInv'
      <3>1. overall' = Add(overall, l, o)
        BY <2>1 DEF AddResult
      <3> QED
        BY <3>1, AddOK DEF ScoreInv
    <2>2. CASE EndRun
      BY <2>2, <1>2 DEF EndRun, ScoreInv
    <2>3. CASE FailedRun
      BY <2>3 DEF FailedRun, ScoreInv
    <2>4. CASE Rank
      BY <2>4 DEF Rank, ScoreInv
    <2>5. CASE CheckRun
      BY <2>5 DEF CheckRun, ScoreInv
    <2>6. CASE GateMet
      BY <2>6 DEF GateMet, ScoreInv
    <2>7. CASE Done \/ UNCHANGED vars
      BY <2>7 DEF Done, vars, ScoreInv
    <2> QED
      BY <2>1, <2>2, <2>3, <2>4, <2>5, <2>6, <2>7 DEF Next
  <1> QED
    BY <1>1, <1>3, PTL DEF Spec

\* WeightedScore is a share from 0 to 100 for any number of results, and the
\* integer division gives 100 to nobody who failed a requirement.
THEOREM FullScore == Spec => []FullScoreIsEarned
  <1>1. ScoreInv => FullScoreIsEarned
    <2> SUFFICES ASSUME ScoreInv PROVE FullScoreIsEarned
      OBVIOUS
    <2> DEFINE p == Passed(overall)
               t == Tested(overall)
    <2>1. /\ p \in Nat /\ t \in Nat /\ p <= t
          /\ IsScored(overall) <=> t > 0
          /\ p = t <=> \A l \in Scored : overall.levels[l].passed = overall.levels[l].total
      BY SharesOK DEF ScoreInv
    <2>2. CASE t = 0
      <3>1. WeightedScore(overall) = 0
        BY <2>2 DEF WeightedScore
      <3> QED
        BY <2>1, <2>2, <3>1 DEF FullScoreIsEarned
    <2>3. CASE t # 0
      <3>1. WeightedScore(overall) = (100 * p) \div t
        BY <2>3 DEF WeightedScore
      <3> HIDE DEF p, t
      <3>2. (100 * p) \div t \in 0..100 /\ ((100 * p) \div t = 100 <=> p = t)
        BY <2>1, <2>3, Share
      <3> QED
        BY <2>1, <2>3, <3>1, <3>2 DEF FullScoreIsEarned
    <2> QED
      BY <2>2, <2>3
  <1> QED
    BY <1>1, ScoreInvariant, PTL

\* Each result that Summarize adds moves the score the right way, whatever its
\* level and however many results came before it.
THEOREM ScoreMoves == Spec => ScoreFollowsResults
  <1> DEFINE Follows(l, o) ==
                /\ o # "fail" => WeightedScore(overall') >= WeightedScore(overall)
                /\ o # "pass" => WeightedScore(overall') <= WeightedScore(overall)
  <1>1. ASSUME ScoreInv, NEW s \in Suites, NEW l \in Levels, NEW o \in Outcomes, AddResult(s, l, o)
        PROVE  Follows(l, o)
    <2>1. overall' = Add(overall, l, o)
      BY <1>1 DEF AddResult
    <2> DEFINE p == Passed(overall)
               t == Tested(overall)
               q == Passed(overall')
               u == Tested(overall')
    <2>2. PICK w \in Nat : /\ u = t + w
                           /\ q = IF o = "pass" THEN p + w ELSE p
                           /\ o \notin {"pass", "fail"} => w = 0
      BY <1>1, <2>1, AddShares DEF ScoreInv
    <2>3. p \in Nat /\ t \in Nat /\ p <= t
      BY <1>1, SharesOK DEF ScoreInv
    <2>4. /\ WeightedScore(overall) = IF t = 0 THEN 0 ELSE (100 * p) \div t
          /\ WeightedScore(overall') = IF u = 0 THEN 0 ELSE (100 * q) \div u
      BY DEF WeightedScore
    <2> HIDE DEF p, t, q, u
    <2>5. CASE t = 0
      <3>1. p = 0 /\ (o # "pass" => q = 0)
        BY <2>2, <2>3, <2>5
      <3>2. u # 0 => (100 * q) \div u \in Nat
        <4>1. 100 * q \in Nat /\ u \in Nat
          BY <2>2, <2>3
        <4> QED
          BY <4>1, Quotient
      <3>3. u # 0 /\ q = 0 => (100 * q) \div u = 0
        BY <2>2, <2>3, Share
      <3> QED
        BY <2>4, <2>5, <3>1, <3>2, <3>3
    <2>6. CASE t # 0
      <3>1. u # 0
        BY <2>2, <2>3, <2>6
      <3>2. CASE o = "pass"
        BY <2>2, <2>3, <2>4, <2>6, <3>1, <3>2, ShareGrows
      <3>3. CASE o = "fail"
        BY <2>2, <2>3, <2>4, <2>6, <3>1, <3>3, ShareShrinks
      <3>4. CASE o \notin {"pass", "fail"}
        <4>1. u = t /\ q = p
          BY <2>2, <2>3, <3>4
        <4>2. (100 * p) \div t \in Nat
          BY <2>3, <2>6, Quotient, 100 * p \in Nat
        <4> QED
          BY <2>4, <2>6, <4>1, <4>2
      <3> QED
        BY <3>2, <3>3, <3>4
    <2> QED
      BY <2>5, <2>6
  <1>2. ScoreInv /\ [Next]_vars =>
            [\A s \in Suites, l \in Levels, o \in Outcomes : AddResult(s, l, o) => Follows(l, o)]_vars
    BY <1>1
  <1> QED
    BY <1>2, ScoreInvariant, PTL DEF Spec, ScoreFollowsResults

\* A run misses the bar exactly when it could not be tested, has no result to
\* show for it, or has too few passes.
LEMMA MissesFacts ==
    ASSUME NEW run, SummaryOK(run.overall), MinMust > 0
    PROVE  ~Misses(run) <=>
              /\ ~run.error
              /\ run.overall.levels["must"].total > 0
              /\ 100 * Parts * run.overall.levels["must"].passed
                     >= MinMust * run.overall.levels["must"].total
  <1> DEFINE must == run.overall.levels["must"]
  <1>1. must.passed \in Nat /\ must.total \in Nat /\ MinMust \in Int /\ Parts \in Nat
    BY BoundsAssumption DEF SummaryOK, TallyOK, Tallies, Scored
  <1>2. MinMust * must.total \in Int /\ 100 * Parts * must.passed \in Int
    BY <1>1
  <1> DEFINE bar == MinMust * must.total
             got == 100 * Parts * must.passed
  <1>3. Misses(run) <=> run.error \/ IF must.total = 0 THEN 0 < MinMust ELSE got < bar
    BY DEF Misses
  <1> HIDE DEF bar, got, must
  <1>4. ~(got < bar) <=> got >= bar
    BY <1>2 DEF bar, got
  <1>5. must.total = 0 \/ must.total > 0
    BY <1>1
  <1>6. ~(must.total = 0 /\ must.total > 0)
    BY <1>1
  <1> QED
    BY <1>3, <1>4, <1>5, <1>6 DEF bar, got, must

LEMMA AppendRun ==
    ASSUME GateInv, NEW r, SummaryOK(r.overall), pc = "summarize", UNCHANGED <<pc, at, gate>>,
           board' = Append(board, r)
    PROVE  GateInv'
  <1>1. /\ Len(board') = Len(board) + 1 /\ DOMAIN board' = 1..(Len(board) + 1)
        /\ \A i \in DOMAIN board : board'[i] = board[i]
        /\ board'[Len(board) + 1] = r
    BY DEF GateInv
  <1>2. \A i \in DOMAIN board' : i \in DOMAIN board \/ i = Len(board) + 1
    BY <1>1 DEF GateInv
  <1>3. \A i \in DOMAIN board' : SummaryOK(board'[i].overall)
    BY <1>1, <1>2 DEF GateInv
  <1>4. at = 1 /\ gate = "none"
    BY DEF GateInv
  <1>5. \A i \in DOMAIN board' : ~ i < at'
    BY <1>1, <1>4 DEF GateInv
  <1>6. Len(board') \in Nat
    BY <1>1 DEF GateInv
  <1> QED
    BY <1>1, <1>3, <1>4, <1>5, <1>6 DEF GateInv

LEMMA GateInvariant == Spec => []GateInv
  <1>1. Init => GateInv
    BY DEF Init, GateInv
  <1>2. SummaryOK(NoSummary)
    BY DEF SummaryOK, TallyOK, Summaries, Tallies, NoSummary, NoTally, Rest, Scored
  <1>3. ScoreInv /\ GateInv /\ [Next]_vars => GateInv'
    <2> SUFFICES ASSUME ScoreInv, GateInv, [Next]_vars PROVE GateInv'
      OBVIOUS
    <2>1. ASSUME NEW s \in Suites, NEW l \in Levels, NEW o \in Outcomes, AddResult(s, l, o)
          PROVE  GateInv'
      BY <2>1 DEF AddResult, GateInv, Misses
    <2>2. CASE EndRun
      <3> DEFINE r == [error |-> FALSE, overall |-> overall]
      <3>1. SummaryOK(r.overall)
        BY DEF ScoreInv
      <3>2. pc = "summarize" /\ board' = Append(board, r) /\ UNCHANGED <<pc, at, gate>>
        BY <2>2 DEF EndRun
      <3> HIDE DEF r
      <3> QED
        BY <3>1, <3>2, AppendRun
    <2>3. CASE FailedRun
      <3> DEFINE r == [error |-> TRUE, overall |-> NoSummary]
      <3>1. SummaryOK(r.overall)
        BY <1>2
      <3>2. pc = "summarize" /\ board' = Append(board, r) /\ UNCHANGED <<pc, at, gate>>
        BY <2>3 DEF FailedRun
      <3> HIDE DEF r
      <3> QED
        BY <3>1, <3>2, AppendRun
    <2>4. CASE Rank
      BY <2>4 DEF Rank, GateInv, Misses
    <2>5. CASE CheckRun
      <3>1. /\ pc = "gate" /\ at <= Len(board) /\ MinMust > 0
            /\ at' = at + 1 /\ board' = board
            /\ IF Misses(board[at]) THEN gate' = "missed" /\ pc' = "done"
                                    ELSE UNCHANGED <<gate, pc>>
        BY <2>5 DEF CheckRun
      <3>2. gate = "none" /\ at \in Nat
        BY <3>1 DEF GateInv
      <3>3. \A i \in DOMAIN board : i < at' => i < at \/ i = at
        BY <3>1, <3>2 DEF GateInv
      <3>4. CASE Misses(board[at])
        <4>1. gate' = "missed" /\ pc' = "done"
          BY <3>1, <3>4
        <4>2. at \in DOMAIN board
          BY <3>1, <3>2 DEF GateInv
        <4> QED
          BY <3>1, <3>2, <3>4, <4>1, <4>2 DEF GateInv, Misses
      <3>5. CASE ~Misses(board[at])
        <4>1. gate' = gate /\ pc' = pc
          BY <3>1, <3>5
        <4>2. \A i \in DOMAIN board : i < at' => ~Misses(board[i])
          BY <3>1, <3>2, <3>3, <3>5 DEF GateInv
        <4> QED
          BY <3>1, <3>2, <4>1, <4>2 DEF GateInv, Misses
      <3> QED
        BY <3>4, <3>5
    <2>6. CASE GateMet
      <3>1. /\ pc = "gate" /\ (at > Len(board) \/ MinMust <= 0)
            /\ gate' = "met" /\ pc' = "done" /\ UNCHANGED <<board, at>>
        BY <2>6 DEF GateMet
      <3>2. gate = "none" /\ ~(MinMust <= 0 /\ MinMust > 0)
        BY <3>1, BoundsAssumption DEF GateInv
      <3> QED
        BY <3>1, <3>2 DEF GateInv, Misses
    <2>7. CASE Done \/ UNCHANGED vars
      BY <2>7 DEF Done, vars, GateInv, Misses
    <2> QED
      BY <2>1, <2>2, <2>3, <2>4, <2>5, <2>6, <2>7 DEF Next
  <1> QED
    BY <1>1, <1>3, ScoreInvariant, PTL DEF Spec

\* checkMinMust says that the bar is met exactly when every run of the report
\* meets it, for any number of runs and results and any bar.
THEOREM GateIsStrict == Spec => []GateHoldsEveryRun
  <1>1. GateInv => GateHoldsEveryRun
    <2> SUFFICES ASSUME GateInv, pc = "done", MinMust > 0
                 PROVE  gate = "met" <=> \A i \in DOMAIN board :
                            /\ ~board[i].error
                            /\ board[i].overall.levels["must"].total > 0
                            /\ 100 * Parts * board[i].overall.levels["must"].passed
                                   >= MinMust * board[i].overall.levels["must"].total
      BY DEF GateHoldsEveryRun
    <2>1. gate = "met" <=> \A i \in DOMAIN board : ~Misses(board[i])
      <3>1. gate # "none"
        BY DEF GateInv
      <3>2. ASSUME gate = "met" PROVE \A i \in DOMAIN board : ~Misses(board[i])
        BY <3>2 DEF GateInv
      <3>3. ASSUME gate # "met" PROVE \E i \in DOMAIN board : Misses(board[i])
        BY <3>1, <3>3 DEF GateInv
      <3> QED
        BY <3>2, <3>3
    <2>2. \A i \in DOMAIN board : SummaryOK(board[i].overall)
      BY DEF GateInv
    <2> QED
      BY <2>1, <2>2, MissesFacts
  <1> QED
    BY <1>1, GateInvariant, PTL

LEMMA ExactInvariant == Spec => []ExactInv
  <1>1. Init => ExactInv
    BY FreshExact DEF Init
  <1>2. ExactInv /\ [Next]_vars => ExactInv'
    <2> SUFFICES ASSUME ExactInv, [Next]_vars PROVE ExactInv'
      OBVIOUS
    <2>1. ASSUME NEW s \in Suites, NEW l \in Levels, NEW o \in Outcomes, AddResult(s, l, o)
          PROVE  ExactInv'
      BY <2>1, AddResultExact
    <2>2. CASE EndRun
      <3>1. (results = NoResults /\ overall = NoSummary /\ suites = <<>> /\ index = <<>>)'
        BY <2>2 DEF EndRun, NoResults, NoSummary
      <3>2. ASSUME (results = NoResults /\ overall = NoSummary /\ suites = <<>> /\ index = <<>>)'
            PROVE  ExactInv'
        BY <3>2, FreshExact, PTL
      <3> QED
        BY <3>1, <3>2
    <2>3. CASE UNCHANGED <<overall, suites, index, results>>
      BY <2>3 DEF ExactInv, SummariesAreExact, OfAll, OfSuite
    <2>4. FailedRun \/ Rank \/ CheckRun \/ GateMet \/ Done \/ UNCHANGED vars =>
              UNCHANGED <<overall, suites, index, results>>
      BY DEF FailedRun, Rank, CheckRun, GateMet, Done, vars
    <2> QED
      BY <2>1, <2>2, <2>3, <2>4 DEF Next
  <1> QED
    BY <1>1, <1>2, PTL DEF Spec

\* What Summarize has counted, overall and by suite, is exactly what a recount
\* of the results would find, for any suites and any number of results.
THEOREM SummariesCount == Spec => []SummariesAreExact
  <1>1. ExactInv => SummariesAreExact
    BY DEF ExactInv
  <1> QED
    BY <1>1, ExactInvariant, PTL

(***************************************************************************)
(* The ranking.                                                            *)
(***************************************************************************)

\* targets.go:38-56, byScoreDesc: "highest first; unscored and failed runs
\* trail".  The table shows every run of the report exactly once, the better
\* ones first and equal ones in their order; a run that could not be tested, or
\* has no score, never comes before one that has.
RankingIsStable ==
    pc # "summarize" =>
        /\ ranking \in [DOMAIN board -> DOMAIN board]
        /\ \A i \in DOMAIN board : \E n \in DOMAIN ranking : ranking[n] = i
        /\ \A m, n \in DOMAIN ranking : m < n =>
              LET a == ranking[m]
                  b == ranking[n]
              IN  /\ a # b
                  /\ SortScore(board[a]) >= SortScore(board[b])
                  /\ SortScore(board[a]) = SortScore(board[b]) => a < b
                  /\ ~board[b].error /\ IsScored(board[b].overall) =>
                        ~board[a].error /\ IsScored(board[a].overall)

LEMMA SortScoreFacts ==
    ASSUME NEW run, SummaryOK(run.overall)
    PROVE  /\ SortScore(run) \in Int
           /\ SortScore(run) >= 0 <=> ~run.error /\ IsScored(run.overall)
  <1> DEFINE p == Passed(run.overall)
             t == Tested(run.overall)
  <1>1. p \in Nat /\ t \in Nat /\ p <= t
    BY SharesOK
  <1>2. WeightedScore(run.overall) \in 0..100
    <2>1. t # 0 => (100 * p) \div t \in 0..100
      <3> HIDE DEF p, t
      <3> QED
        BY <1>1, Share
    <2> QED
      BY <2>1 DEF WeightedScore
  <1> QED
    BY <1>2 DEF SortScore

\* The order of the runs, and how many come before each one.
Ahead(i) == {j \in DOMAIN board : Precedes(j, i)}

LEMMA PrecedesIsTotal ==
    ASSUME GateInv
    PROVE  \A i, j, k \in DOMAIN board :
              /\ ~Precedes(i, i)
              /\ Precedes(i, j) /\ Precedes(j, k) => Precedes(i, k)
              /\ i # j => Precedes(i, j) \/ Precedes(j, i)
  <1>1. \A i \in DOMAIN board : i \in Int /\ SortScore(board[i]) \in Int
    BY SortScoreFacts DEF GateInv
  <1> QED
    BY <1>1 DEF Precedes

LEMMA AheadFacts ==
    ASSUME GateInv
    PROVE  /\ \A i \in DOMAIN board : Cardinality(Ahead(i)) \in 0..(Len(board) - 1)
           /\ \A i, j \in DOMAIN board :
                 Precedes(i, j) <=> Cardinality(Ahead(i)) < Cardinality(Ahead(j))
           /\ \A i, j \in DOMAIN board : Cardinality(Ahead(i)) = Cardinality(Ahead(j)) => i = j
  <1> DEFINE D == DOMAIN board
             N == Len(board)
  <1>1. N \in Nat /\ D = 1..N
    BY DEF GateInv
  <1>2. IsFiniteSet(D) /\ Cardinality(D) = N
    <2>1. IsFiniteSet(1..N) /\ Cardinality(1..N) = IF 1 > N THEN 0 ELSE N - 1 + 1
      BY <1>1, FS_Interval
    <2> QED
      BY <1>1, <2>1
  <1> HIDE DEF D, N
  <1>3. \A i, j, k \in D :
              /\ ~Precedes(i, i)
              /\ Precedes(i, j) /\ Precedes(j, k) => Precedes(i, k)
              /\ i # j => Precedes(i, j) \/ Precedes(j, i)
    BY PrecedesIsTotal DEF D
  <1>4. \A i \in D : IsFiniteSet(Ahead(i)) /\ Cardinality(Ahead(i)) \in Nat
    <2> TAKE i \in D
    <2>1. Ahead(i) \subseteq D
      BY DEF Ahead, D
    <2>2. IsFiniteSet(Ahead(i))
      BY <1>2, <2>1, FS_Subset
    <2> QED
      BY <2>2, FS_CardinalityType
  <1>5. ASSUME NEW A, NEW B, IsFiniteSet(B), A \subseteq B, A # B
        PROVE  Cardinality(A) < Cardinality(B)
    <2>1. IsFiniteSet(A) /\ Cardinality(A) <= Cardinality(B) /\ Cardinality(A) # Cardinality(B)
      BY <1>5, FS_Subset
    <2>2. Cardinality(A) \in Nat /\ Cardinality(B) \in Nat
      BY <1>5, <2>1, FS_CardinalityType
    <2> QED
      BY <2>1, <2>2
  <1>6. \A i \in D : Cardinality(Ahead(i)) \in 0..(N - 1)
    <2> TAKE i \in D
    <2>1. Ahead(i) \subseteq D /\ Ahead(i) # D
      BY <1>3 DEF Ahead, D
    <2>2. Cardinality(Ahead(i)) < N
      BY <1>2, <1>5, <2>1
    <2> QED
      BY <1>1, <1>4, <2>2
  <1>7. ASSUME NEW i \in D, NEW j \in D, Precedes(i, j)
        PROVE  Cardinality(Ahead(i)) < Cardinality(Ahead(j))
    <2>1. Ahead(i) \subseteq Ahead(j)
      BY <1>3, <1>7 DEF Ahead, D
    <2>2. i \in Ahead(j) /\ i \notin Ahead(i)
      BY <1>3, <1>7 DEF Ahead, D
    <2> QED
      BY <1>4, <1>5, <2>1, <2>2
  <1>8. ASSUME NEW i \in D, NEW j \in D, Cardinality(Ahead(i)) < Cardinality(Ahead(j))
        PROVE  Precedes(i, j)
    <2> SUFFICES ASSUME ~Precedes(i, j) PROVE FALSE
      OBVIOUS
    <2>1. i = j \/ Precedes(j, i)
      BY <1>3
    <2>2. Cardinality(Ahead(j)) <= Cardinality(Ahead(i))
      BY <1>4, <1>7, <2>1
    <2> QED
      BY <1>4, <1>8, <2>2
  <1>9. ASSUME NEW i \in D, NEW j \in D, Cardinality(Ahead(i)) = Cardinality(Ahead(j))
        PROVE  i = j
    <2>1. Cardinality(Ahead(i)) \in Nat
      BY <1>4
    <2> QED
      BY <1>3, <1>7, <1>9, <2>1
  <1> QED
    BY <1>6, <1>7, <1>8, <1>9 DEF D, N

\* Every place of the table has its run: the numbers of runs ahead are all
\* different and fewer than the runs, so none is left out.
LEMMA EveryPlaceIsTaken ==
    ASSUME GateInv, NEW n \in DOMAIN board
    PROVE  \E i \in DOMAIN board : Cardinality(Ahead(i)) = n - 1
  <1> DEFINE D == DOMAIN board
             N == Len(board)
             T == (0..(N - 1)) \ {n - 1}
             f == [i \in D |-> Cardinality(Ahead(i))]
  <1> SUFFICES ASSUME \A i \in D : Cardinality(Ahead(i)) # n - 1 PROVE FALSE
    OBVIOUS
  <1>1. N \in Nat /\ D = 1..N /\ n \in 1..N /\ 0 <= N - 1
    BY DEF GateInv
  <1>2. IsFiniteSet(D) /\ Cardinality(D) = N
    <2>1. IsFiniteSet(1..N) /\ Cardinality(1..N) = IF 1 > N THEN 0 ELSE N - 1 + 1
      BY <1>1, FS_Interval
    <2> QED
      BY <1>1, <2>1
  <1>3. IsFiniteSet(0..(N - 1)) /\ Cardinality(0..(N - 1)) = N
    <2> DEFINE m == N - 1
    <2>1. m \in Int /\ 0 \in Int /\ ~ 0 > m /\ m - 0 + 1 = N
      BY <1>1
    <2> HIDE DEF m
    <2>2. IsFiniteSet(0..m) /\ Cardinality(0..m) = IF 0 > m THEN 0 ELSE m - 0 + 1
      BY <2>1, FS_Interval
    <2> QED
      BY <2>1, <2>2 DEF m
  <1>4. IsFiniteSet(T) /\ Cardinality(T) = N - 1
    <2> DEFINE k == n - 1
    <2>1. k \in 0..(N - 1)
      BY <1>1
    <2> HIDE DEF k, N
    <2>2. IsFiniteSet((0..(N - 1)) \ {k}) /\ Cardinality((0..(N - 1)) \ {k}) = Cardinality(0..(N - 1)) - 1
      BY <1>3, <2>1, FS_RemoveElement
    <2> QED
      BY <1>3, <2>2 DEF k
  <1>5. f \in [D -> T]
    <2>1. \A i \in D : Cardinality(Ahead(i)) \in 0..(N - 1)
      BY AheadFacts
    <2> QED
      BY <2>1
  <1>6. Cardinality(T) < Cardinality(D)
    BY <1>1, <1>2, <1>4
  <1> HIDE DEF T, f, D, N
  <1>7. PICK x \in D, y \in D : x # y /\ f[x] = f[y]
    BY <1>2, <1>4, <1>5, <1>6, FS_PigeonHole
  <1>8. Cardinality(Ahead(x)) = Cardinality(Ahead(y))
    BY <1>7 DEF f
  <1> QED
    BY <1>7, <1>8, AheadFacts DEF D

LEMMA RankIsStable ==
    ASSUME GateInv, Rank
    PROVE  RankingIsStable'
  <1> DEFINE At(n) == CHOOSE i \in DOMAIN board : Cardinality(Ahead(i)) = n - 1
             r == [n \in DOMAIN board |-> At(n)]
  <1>1. board' = board /\ ranking' = r
    BY DEF Rank, Ahead
  <1>2. \A n \in DOMAIN board : n \in Int
    BY DEF GateInv
  <1>3. \A n \in DOMAIN board : r[n] \in DOMAIN board /\ Cardinality(Ahead(r[n])) = n - 1
    BY EveryPlaceIsTaken
  <1>4. r \in [DOMAIN board -> DOMAIN board]
    BY <1>3
  <1> HIDE DEF r
  <1>5. ASSUME NEW i \in DOMAIN board
        PROVE  \E n \in DOMAIN r : r[n] = i
    <2> DEFINE n == Cardinality(Ahead(i)) + 1
    <2>1. n \in DOMAIN board /\ n - 1 = Cardinality(Ahead(i))
      BY AheadFacts DEF GateInv
    <2> HIDE DEF n
    <2>2. r[n] = i
      BY <1>3, <2>1, AheadFacts
    <2> QED
      BY <1>4, <2>1, <2>2
  <1>6. ASSUME NEW m \in DOMAIN r, NEW n \in DOMAIN r, m < n
        PROVE  LET a == r[m]
                   b == r[n]
               IN  /\ a # b
                   /\ SortScore(board[a]) >= SortScore(board[b])
                   /\ SortScore(board[a]) = SortScore(board[b]) => a < b
                   /\ ~board[b].error /\ IsScored(board[b].overall) =>
                         ~board[a].error /\ IsScored(board[a].overall)
    <2> DEFINE a == r[m]
               b == r[n]
    <2>1. a \in DOMAIN board /\ b \in DOMAIN board
      BY <1>4
    <2>2. Cardinality(Ahead(a)) < Cardinality(Ahead(b))
      BY <1>2, <1>3, <1>4, <1>6
    <2> HIDE DEF a, b
    <2>3. Precedes(a, b)
      BY <2>1, <2>2, AheadFacts
    <2> DEFINE p == SortScore(board[a])
               q == SortScore(board[b])
    <2>4. /\ p \in Int /\ q \in Int /\ a \in Int
          /\ p >= 0 <=> ~board[a].error /\ IsScored(board[a].overall)
          /\ q >= 0 <=> ~board[b].error /\ IsScored(board[b].overall)
      BY <1>2, <2>1, SortScoreFacts DEF GateInv
    <2>5. p > q \/ (p = q /\ a < b)
      BY <2>3 DEF Precedes
    <2> HIDE DEF p, q
    <2>6. p >= q /\ (p = q => a < b) /\ (q >= 0 => p >= 0)
      BY <2>4, <2>5
    <2>7. a # b
      BY <2>1, <2>3, PrecedesIsTotal
    <2> QED
      BY <2>4, <2>6, <2>7 DEF p, q, a, b
  <1> QED
    BY <1>1, <1>4, <1>5, <1>6 DEF RankingIsStable

\* The table of targets (targets.go: byScoreDesc) lists every run once, the best
\* first, for any number of runs and whatever their results.
THEOREM RankingIsFair == Spec => []RankingIsStable
  <1>1. Init => RankingIsStable
    BY DEF Init, RankingIsStable
  <1>2. GateInv /\ RankingIsStable /\ [Next]_vars => RankingIsStable'
    <2> SUFFICES ASSUME GateInv, RankingIsStable, [Next]_vars PROVE RankingIsStable'
      OBVIOUS
    <2>1. ASSUME NEW s \in Suites, NEW l \in Levels, NEW o \in Outcomes, AddResult(s, l, o)
          PROVE  RankingIsStable'
      BY <2>1 DEF AddResult, RankingIsStable
    <2>2. CASE EndRun \/ FailedRun
      BY <2>2 DEF EndRun, FailedRun, RankingIsStable
    <2>3. CASE Rank
      BY <2>3, RankIsStable
    <2>4. CASE CheckRun \/ GateMet
      <3>1. pc # "summarize" /\ UNCHANGED <<board, ranking>>
        BY <2>4 DEF CheckRun, GateMet
      <3> QED
        BY <3>1 DEF RankingIsStable
    <2>5. CASE Done \/ UNCHANGED vars
      BY <2>5 DEF Done, vars, RankingIsStable
    <2> QED
      BY <2>1, <2>2, <2>3, <2>4, <2>5 DEF Next
  <1> QED
    BY <1>1, <1>2, GateInvariant, PTL DEF Spec

LEMMA AppendBoard ==
    ASSUME NEW R, NEW b \in Seq(R), NEW r \in R, Len(b) < MaxRuns, MaxRuns \in Nat
    PROVE  Append(b, r) \in Seq(R) /\ Len(Append(b, r)) <= MaxRuns
OBVIOUS

\* What goes beyond the other invariants for the types.
BoardInv ==
    /\ pc \in {"summarize", "gate", "done"}
    /\ board \in Seq(Runs) /\ Len(board) <= MaxRuns
    /\ pc = "summarize" => ranking = <<>>
    /\ at <= Len(board) + 1

\* The variables of a report keep their types: the summaries count in natural
\* numbers, the index leads to summaries, and the table has places of the board.
THEOREM TypeCorrect == Spec => []TypeOK
  <1>1. Init => BoardInv
    BY BoundsAssumption DEF Init, BoardInv
  <1>2. ScoreInv /\ GateInv /\ BoardInv /\ [Next]_vars => BoardInv'
    <2> SUFFICES ASSUME ScoreInv, GateInv, BoardInv, [Next]_vars PROVE BoardInv'
      OBVIOUS
    <2>1. ASSUME NEW s \in Suites, NEW l \in Levels, NEW o \in Outcomes, AddResult(s, l, o)
          PROVE  BoardInv'
      BY <2>1 DEF AddResult, BoardInv
    <2>2. ASSUME NEW r \in Runs, pc = "summarize", Len(board) < MaxRuns, board' = Append(board, r),
                 UNCHANGED <<pc, ranking, at>>
          PROVE  BoardInv'
      <3>1. board' \in Seq(Runs) /\ Len(board') <= MaxRuns
        BY <2>2, AppendBoard, BoundsAssumption DEF BoardInv
      <3>2. at = 1 /\ Len(board') \in Nat
        BY <2>2, <3>1 DEF GateInv
      <3> QED
        BY <2>2, <3>1, <3>2 DEF BoardInv
    <2>3. CASE EndRun
      <3> DEFINE r == [error |-> FALSE, overall |-> overall]
      <3>1. r \in Runs
        BY DEF Runs, ScoreInv, SummaryOK
      <3>2. pc = "summarize" /\ Len(board) < MaxRuns /\ board' = Append(board, r) /\ UNCHANGED <<pc, ranking, at>>
        BY <2>3 DEF EndRun
      <3> HIDE DEF r
      <3> QED
        BY <2>2, <3>1, <3>2
    <2>4. CASE FailedRun
      <3> DEFINE r == [error |-> TRUE, overall |-> NoSummary]
      <3>1. NoSummary \in Summaries
        BY DEF Summaries, Tallies, NoSummary, NoTally, Rest, Scored
      <3>2. r \in Runs
        BY <3>1 DEF Runs
      <3>3. pc = "summarize" /\ Len(board) < MaxRuns /\ board' = Append(board, r) /\ UNCHANGED <<pc, ranking, at>>
        BY <2>4 DEF FailedRun
      <3> HIDE DEF r
      <3> QED
        BY <2>2, <3>2, <3>3
    <2>5. CASE Rank
      BY <2>5 DEF Rank, BoardInv
    <2>6. CASE CheckRun
      <3>1. pc = "gate" /\ pc' \in {"gate", "done"} /\ at <= Len(board) /\ at' = at + 1 /\ board' = board
        BY <2>6 DEF CheckRun
      <3> QED
        BY <3>1 DEF BoardInv, GateInv
    <2>7. CASE GateMet
      BY <2>7 DEF GateMet, BoardInv
    <2>8. CASE Done \/ UNCHANGED vars
      BY <2>8 DEF Done, vars, BoardInv
    <2> QED
      BY <2>1, <2>3, <2>4, <2>5, <2>6, <2>7, <2>8 DEF Next
  <1>3. ScoreInv /\ GateInv /\ ExactInv /\ BoardInv /\ RankingIsStable => TypeOK
    <2> SUFFICES ASSUME ScoreInv, GateInv, ExactInv, BoardInv, RankingIsStable PROVE TypeOK
      OBVIOUS
    <2>1. overall \in Summaries /\ suites \in Seq(Summaries) /\ results \in [Kinds -> Nat]
      BY DEF ScoreInv, SummaryOK, ExactInv
    <2>2. DOMAIN index \subseteq Suites /\ \A s \in DOMAIN index : index[s] \in DOMAIN suites
      <3>1. DOMAIN suites = 1..Len(suites)
        BY <2>1
      <3> QED
        BY <3>1 DEF ExactInv
    <2> DEFINE N == Len(board)
    <2>3. N \in Nat /\ DOMAIN board = 1..N /\ N <= MaxRuns /\ MaxRuns \in Nat
      BY BoundsAssumption DEF GateInv, BoardInv
    <2>4. ranking \in Seq(1..MaxRuns)
      <3>1. CASE pc = "summarize"
        <4>1. <<>> \in Seq(1..MaxRuns)
          OBVIOUS
        <4> QED
          BY <3>1, <4>1 DEF BoardInv
      <3>2. CASE pc # "summarize"
        <4>1. ranking \in [1..N -> 1..N]
          BY <3>2, <2>3 DEF RankingIsStable
        <4> HIDE DEF N
        <4>2. ranking \in [1..N -> 1..MaxRuns]
          BY <4>1, <2>3
        <4> QED
          BY <4>2, <2>3
      <3> QED
        BY <3>1, <3>2
    <2>5. at \in 1..(MaxRuns + 1) /\ gate \in {"none", "met", "missed"}
      BY <2>3 DEF GateInv, BoardInv
    <2> QED
      BY <2>1, <2>2, <2>4, <2>5 DEF TypeOK, BoardInv
  <1> QED
    BY <1>1, <1>2, <1>3, ScoreInvariant, GateInvariant, ExactInvariant, RankingIsFair, PTL DEF Spec

=============================================================================
