--------------------------- MODULE CorpusProofs ----------------------------
(***************************************************************************)
(* Proofs about Corpus, for every suite: any number of entries, with any   *)
(* graph of requirements between them.                                     *)
(***************************************************************************)
EXTENDS Corpus, NaturalsInduction, WellFoundedInduction, TLAPS

(***************************************************************************)
(* Stacks of calls.  The lemmas say what a call, the end of a loop body    *)
(* and a return make of a stack; visit and include both rest on them.      *)
(***************************************************************************)

CallOf(t) == [test |-> t, i |-> 1]
TestsOf(calls) == {calls[k].test : k \in DOMAIN calls}

\* Every call was made for the test that its caller has reached.
Chained(calls, req) ==
    \A k \in 1..(Len(calls) - 1) :
        /\ calls[k].i \in DOMAIN req[calls[k].test]
        /\ req[calls[k].test][calls[k].i] = calls[k + 1].test

\* The tests that the calls have left behind are in S.
Behind(calls, req, S) ==
    \A k \in DOMAIN calls : \A i \in DOMAIN req[calls[k].test] :
        i < calls[k].i => req[calls[k].test][i] \in S

\* No test has two calls under way.
Distinct(calls) ==
    \A j, k \in DOMAIN calls : calls[j].test = calls[k].test => j = k

\* A call for the test that the caller has reached keeps the stack in order.
LEMMA CallFacts ==
    ASSUME NEW req \in [Ids -> Seq(Ids)], NEW calls \in Seq(Frame), NEW t \in Ids,
           NEW S, NEW T, S \subseteq T,
           Chained(calls, req), Behind(calls, req, S),
           calls # <<>> => /\ Last(calls).i \in DOMAIN req[Last(calls).test]
                           /\ req[Last(calls).test][Last(calls).i] = t
    PROVE  LET p == Append(calls, CallOf(t))
           IN  /\ p \in Seq(Frame) /\ p # <<>>
               /\ Chained(p, req) /\ Behind(p, req, T)
               /\ TestsOf(p) = TestsOf(calls) \cup {t}
               /\ Distinct(calls) /\ t \notin TestsOf(calls) => Distinct(p)
<1> DEFINE p == Append(calls, CallOf(t))
<1>1. CallOf(t) \in Frame
  BY DEF CallOf, Frame
<1>2. /\ p \in Seq(Frame) /\ Len(p) = Len(calls) + 1 /\ DOMAIN p = 1..(Len(calls) + 1)
      /\ \A k \in 1..Len(calls) : p[k] = calls[k]
      /\ p[Len(calls) + 1] = CallOf(t)
      /\ Len(calls) \in Nat /\ DOMAIN calls = 1..Len(calls)
  BY <1>1
<1>3. CallOf(t).test = t /\ CallOf(t).i = 1
  BY DEF CallOf
<1> HIDE DEF p
<1>n. Len(calls) \in Nat /\ DOMAIN calls = 1..Len(calls)
  OBVIOUS
<1>f. \A k \in 1..Len(calls) : calls[k] \in Frame
  BY <1>n
<1>4. \A k \in 1..Len(calls) : calls[k].test \in Ids /\ calls[k].i \in Nat \ {0}
  BY <1>f DEF Frame
<1>5. \A u \in Ids : req[u] \in Seq(Ids) /\ DOMAIN req[u] \subseteq Nat \ {0}
  OBVIOUS
<1>6. Chained(p, req)
  <2> SUFFICES ASSUME NEW k \in 1..Len(calls)
               PROVE  /\ p[k].i \in DOMAIN req[p[k].test]
                      /\ req[p[k].test][p[k].i] = p[k + 1].test
    BY <1>2 DEF Chained
  <2>1. CASE k = Len(calls)
    BY <2>1, <1>2, <1>3 DEF Last
  <2>2. CASE k # Len(calls)
    <3>1. \A n \in Nat : \A m \in 1..n : m # n => m \in 1..(n - 1) /\ m + 1 \in 1..n
      OBVIOUS
    <3>2. k \in 1..(Len(calls) - 1) /\ k + 1 \in 1..Len(calls)
      BY <2>2, <3>1, <1>n
    <3> QED
      BY <3>2, <1>2 DEF Chained
  <2> QED
    BY <2>1, <2>2
<1>7. Behind(p, req, T)
  <2> SUFFICES ASSUME NEW k \in 1..(Len(calls) + 1), NEW i \in DOMAIN req[p[k].test], i < p[k].i
               PROVE  req[p[k].test][i] \in T
    BY <1>2 DEF Behind
  <2>1. CASE k = Len(calls) + 1
    BY <2>1, <1>2, <1>3, <1>5
  <2>2. CASE k \in 1..Len(calls)
    BY <2>2, <1>2 DEF Behind
  <2> QED
    BY <2>1, <2>2, <1>2
<1>8. TestsOf(p) = TestsOf(calls) \cup {t}
  <2>1. \A k \in 1..(Len(calls) + 1) : k \in 1..Len(calls) \/ k = Len(calls) + 1
    BY <1>n
  <2>2. \A k \in 1..Len(calls) : k \in 1..(Len(calls) + 1)
    BY <1>n
  <2>3. Len(calls) + 1 \in 1..(Len(calls) + 1)
    BY <1>n
  <2>4. TestsOf(p) \subseteq TestsOf(calls) \cup {t}
    BY <2>1, <1>2, <1>3 DEF TestsOf
  <2>5. TestsOf(calls) \subseteq TestsOf(p)
    BY <2>2, <1>2 DEF TestsOf
  <2>6. t \in TestsOf(p)
    BY <2>3, <1>2, <1>3 DEF TestsOf
  <2> QED
    BY <2>4, <2>5, <2>6
<1>9. ASSUME Distinct(calls), t \notin TestsOf(calls)
      PROVE  Distinct(p)
  <2> SUFFICES ASSUME NEW j \in 1..(Len(calls) + 1), NEW k \in 1..(Len(calls) + 1),
                      p[j].test = p[k].test
               PROVE  j = k
    BY <1>2 DEF Distinct
  <2>1. \A m \in 1..(Len(calls) + 1) : m \in 1..Len(calls) \/ m = Len(calls) + 1
    BY <1>n
  <2>2. \A m \in 1..Len(calls) : p[m].test # t
    BY <1>9, <1>2 DEF TestsOf
  <2>3. CASE j \in 1..Len(calls) /\ k \in 1..Len(calls)
    BY <2>3, <1>9, <1>2 DEF Distinct
  <2>4. CASE j = Len(calls) + 1 \/ k = Len(calls) + 1
    BY <2>1, <2>2, <2>4, <1>2, <1>3
  <2> QED
    BY <2>1, <2>3, <2>4
<1>10. p # <<>>
  BY <1>2, <1>n
<1> QED
  BY <1>2, <1>6, <1>7, <1>8, <1>9, <1>10 DEF p

\* What Resumed makes of a stack.
LEMMA ResumeFields ==
    ASSUME NEW calls \in Seq(Frame)
    PROVE  /\ Resumed(calls) \in Seq(Frame)
           /\ Len(Resumed(calls)) = Len(calls)
           /\ \A k \in 1..Len(calls) :
                 /\ Resumed(calls)[k].test = calls[k].test
                 /\ Resumed(calls)[k].i = IF k = Len(calls) THEN calls[k].i + 1 ELSE calls[k].i
<1>1. CASE calls = <<>>
  BY <1>1 DEF Resumed
<1>2. CASE calls # <<>>
  <2>1. Len(calls) \in 1..Len(calls) /\ DOMAIN calls = 1..Len(calls)
    BY <1>2
  <2>2. \A k \in 1..Len(calls) : calls[k] \in Frame
    BY <2>1
  <2> DEFINE r == [calls EXCEPT ![Len(calls)].i = @ + 1]
  <2>3. Resumed(calls) = r
    BY <1>2 DEF Resumed
  <2>4. \A k \in 1..Len(calls) :
           r[k] = IF k = Len(calls) THEN [calls[k] EXCEPT !.i = @ + 1] ELSE calls[k]
    BY <2>1
  <2>5. DOMAIN r = 1..Len(calls)
    BY <2>1
  <2> HIDE DEF r
  <2>6. \A f \in Frame : /\ [f EXCEPT !.i = @ + 1] \in Frame
                         /\ [f EXCEPT !.i = @ + 1].test = f.test
                         /\ [f EXCEPT !.i = @ + 1].i = f.i + 1
    BY DEF Frame
  <2>7. \A k \in 1..Len(calls) :
           /\ r[k] \in Frame
           /\ r[k].test = calls[k].test
           /\ r[k].i = IF k = Len(calls) THEN calls[k].i + 1 ELSE calls[k].i
    BY <2>2, <2>4, <2>6
  <2>8. r \in [1..Len(calls) -> Frame]
    <3>1. r = [k \in 1..Len(calls) |-> r[k]]
      BY <2>3, <2>5, <1>2 DEF r
    <3> QED
      BY <3>1, <2>7
  <2>9. r \in Seq(Frame) /\ Len(r) = Len(calls)
    BY <2>8, <2>5
  <2> QED
    BY <2>3, <2>7, <2>9
<1> QED
  BY <1>1, <1>2

\* A caller that goes on has left behind the test that it had reached.
LEMMA ResumeFacts ==
    ASSUME NEW req \in [Ids -> Seq(Ids)], NEW calls \in Seq(Frame),
           NEW S, NEW T, S \subseteq T,
           Chained(calls, req), Behind(calls, req, S),
           calls # <<>> => req[Last(calls).test][Last(calls).i] \in T
    PROVE  LET p == Resumed(calls)
           IN  /\ p \in Seq(Frame)
               /\ Chained(p, req) /\ Behind(p, req, T)
               /\ TestsOf(p) = TestsOf(calls)
               /\ Distinct(calls) => Distinct(p)
<1> DEFINE p == Resumed(calls)
<1>1. /\ p \in Seq(Frame) /\ Len(p) = Len(calls)
      /\ \A k \in 1..Len(calls) :
            /\ p[k].test = calls[k].test
            /\ p[k].i = IF k = Len(calls) THEN calls[k].i + 1 ELSE calls[k].i
  BY ResumeFields
<1> HIDE DEF p
<1>2. DOMAIN p = 1..Len(calls) /\ DOMAIN calls = 1..Len(calls) /\ Len(calls) \in Nat
  BY <1>1
<1>n. Len(calls) \in Nat
  OBVIOUS
<1>f. \A k \in 1..Len(calls) : calls[k] \in Frame
  OBVIOUS
<1>3. \A k \in 1..Len(calls) : calls[k].test \in Ids /\ calls[k].i \in Nat \ {0}
  BY <1>f DEF Frame
<1>4. Chained(p, req)
  <2> SUFFICES ASSUME NEW k \in 1..(Len(calls) - 1)
               PROVE  /\ p[k].i \in DOMAIN req[p[k].test]
                      /\ req[p[k].test][p[k].i] = p[k + 1].test
    BY <1>1 DEF Chained
  <2>1. k \in 1..Len(calls) /\ k + 1 \in 1..Len(calls) /\ k # Len(calls)
    BY <1>n
  <2> QED
    BY <2>1, <1>1 DEF Chained
<1>5. Behind(p, req, T)
  <2> SUFFICES ASSUME NEW k \in 1..Len(calls), NEW i \in DOMAIN req[calls[k].test], i < p[k].i
               PROVE  req[calls[k].test][i] \in T
    BY <1>1, <1>2 DEF Behind
  <2>1. i \in Nat
    BY <1>3
  <2>2. CASE i < calls[k].i
    BY <2>2, <1>2 DEF Behind
  <2>3. CASE ~ i < calls[k].i
    <3>1. k = Len(calls) /\ i = calls[k].i
      BY <2>1, <2>3, <1>1, <1>3
    <3> QED
      BY <3>1, <1>2 DEF Last
  <2> QED
    BY <2>2, <2>3
<1>6. TestsOf(p) = TestsOf(calls)
  BY <1>1, <1>2 DEF TestsOf
<1>7. ASSUME Distinct(calls) PROVE Distinct(p)
  BY <1>7, <1>1, <1>2 DEF Distinct
<1> QED
  BY <1>1, <1>4, <1>5, <1>6, <1>7 DEF p

\* The stack without its last call.
LEMMA BelowFacts ==
    ASSUME NEW req \in [Ids -> Seq(Ids)], NEW calls \in Seq(Frame), calls # <<>>, NEW S,
           Chained(calls, req), Behind(calls, req, S)
    PROVE  LET p == SubSeq(calls, 1, Len(calls) - 1)
           IN  /\ p \in Seq(Frame)
               /\ Chained(p, req) /\ Behind(p, req, S)
               /\ p # <<>> => req[Last(p).test][Last(p).i] = Last(calls).test
               /\ TestsOf(calls) = TestsOf(p) \cup {Last(calls).test}
               /\ Distinct(calls) => Distinct(p) /\ Last(calls).test \notin TestsOf(p)
<1> DEFINE p == SubSeq(calls, 1, Len(calls) - 1)
           n == Len(calls) - 1
<1>1. Len(calls) \in Nat \ {0} /\ DOMAIN calls = 1..Len(calls)
  OBVIOUS
<1>2. /\ p \in Seq(Frame) /\ Len(p) = n /\ DOMAIN p = 1..n
      /\ \A k \in 1..n : p[k] = calls[k]
  BY <1>1
<1>3. n \in Nat /\ Len(calls) = n + 1 /\ 1..n \subseteq 1..Len(calls)
  BY <1>1
<1> HIDE DEF p, n
<1>4. Chained(p, req)
  <2> SUFFICES ASSUME NEW k \in 1..(n - 1)
               PROVE  /\ p[k].i \in DOMAIN req[p[k].test]
                      /\ req[p[k].test][p[k].i] = p[k + 1].test
    BY <1>2 DEF Chained
  <2>1. k \in 1..n /\ k + 1 \in 1..n /\ k \in 1..(Len(calls) - 1)
    BY <1>3
  <2> QED
    BY <2>1, <1>2 DEF Chained
<1>5. Behind(p, req, S)
  BY <1>1, <1>2, <1>3 DEF Behind
<1>6. ASSUME p # <<>>
      PROVE  req[Last(p).test][Last(p).i] = Last(calls).test
  <2>1. n \in 1..n /\ n \in 1..(Len(calls) - 1)
    BY <1>6, <1>2, <1>3
  <2> QED
    BY <2>1, <1>2, <1>3 DEF Chained, Last
<1>7. TestsOf(calls) = TestsOf(p) \cup {Last(calls).test}
  <2>1. \A k \in 1..Len(calls) : k \in 1..n \/ k = Len(calls)
    BY <1>3
  <2> QED
    BY <2>1, <1>1, <1>2, <1>3 DEF TestsOf, Last
<1>8. ASSUME Distinct(calls)
      PROVE  Distinct(p) /\ Last(calls).test \notin TestsOf(p)
  <2>1. Len(calls) \in 1..Len(calls) /\ \A k \in 1..n : k # Len(calls)
    BY <1>1, <1>3
  <2> QED
    BY <2>1, <1>8, <1>1, <1>2, <1>3 DEF Distinct, TestsOf, Last
<1> QED
  BY <1>2, <1>4, <1>5, <1>6, <1>7, <1>8 DEF p

(***************************************************************************)
(* The inductive invariant.                                                *)
(***************************************************************************)

Visited == {t \in Ids : state[t] = "visited"}

\* What Load has made of the entries, and what is still untouched.
GraphInv ==
    /\ next # 0
    /\ OneTestPerId
    /\ phase \notin {"adding", "invalid", "unknown"} => \A t \in ById : Needs(t) \subseteq ById
    /\ phase \notin {"checking", "cycle", "choosing"} => stack = <<>>
    /\ phase = "adding" => state = [t \in Ids |-> "new"] /\ order = <<>>
    /\ phase \notin {"choosing", "selected", "nomatch"} => chosen = {}

\* The depth-first search: what is on the stack is being visited, once; a
\* caller has visited what is behind it.
VisitInv ==
    /\ phase \in {"checking", "cycle"} =>
           /\ \A t \in Ids : state[t] = "visiting" <=> t \in OnStack
           /\ Distinct(stack)
           /\ Behind(stack, requires, Visited)
    /\ phase = "checking" =>
           \A k \in DOMAIN tests : k < next => state[tests[k]] # "new"
    /\ phase = "cycle" => stack # <<>> /\ Needs(Top.test) \cap OnStack # {}
    /\ Accepted => \A t \in ById : state[t] = "visited"

\* visit finishes a test after all that it requires.
OrderInv ==
    /\ \A t \in Ids : state[t] = "visited" => \E k \in DOMAIN order : order[k] = t
    /\ phase \notin {"adding", "invalid", "unknown"} =>
           \A k \in DOMAIN order : \A u \in Needs(order[k]) :
               \E j \in DOMAIN order : j < k /\ order[j] = u

\* include: what was chosen has what it requires, but for the calls under way,
\* and was chosen for a reason.
ChooseInv ==
    phase \in {"choosing", "selected", "nomatch"} =>
        /\ OnStack \subseteq chosen
        /\ Behind(stack, requires, chosen)
        /\ \A t \in chosen : t \in OnStack \/ Needs(t) \subseteq chosen
        /\ \A k \in DOMAIN tests :
               tests[k] \in matched /\ (k < next \/ phase # "choosing") => tests[k] \in chosen
        /\ matched \subseteq ById
        /\ \A S \in SUBSET ById : Closed(S) => chosen \subseteq S

IInv ==
    /\ TypeOK
    /\ GraphInv
    /\ Chained(stack, requires)
    /\ VisitInv
    /\ OrderInv
    /\ ChooseInv

LEMMA InitIInv == Init => IInv
<1> SUFFICES ASSUME Init PROVE IInv
  OBVIOUS
<1>1. stack = <<>> /\ DOMAIN stack = {} /\ Len(stack) = 0
  BY DEF Init
<1>2. OnStack = {} /\ Chained(stack, requires)
  BY <1>1 DEF OnStack, Chained
<1>3. TypeOK
  <2>1. stack \in Seq(Frame) /\ tests \in Seq(Ids) /\ order \in Seq(Ids)
    BY DEF Init
  <2>2. requires \in [Ids -> Seq(Ids)]
    BY DEF Init
  <2> QED
    BY <2>1, <2>2, <1>2 DEF TypeOK, Init, Phases
<1>4. GraphInv
  <2>1. DOMAIN tests = {}
    BY DEF Init
  <2> QED
    BY <2>1 DEF GraphInv, Init, OneTestPerId
<1>5. VisitInv /\ OrderInv /\ ChooseInv
  BY DEF VisitInv, OrderInv, ChooseInv, Init, Accepted
<1> QED
  BY <1>2, <1>3, <1>4, <1>5 DEF IInv

(***************************************************************************)
(* Load: the entries.                                                      *)
(***************************************************************************)

LEMMA AddTestIInv ==
    ASSUME IInv, AddTest
    PROVE  IInv'
<1> DEFINE e == entries[next]
<1>1. TypeOK /\ GraphInv
  BY DEF IInv
<1>2. /\ phase = "adding" /\ stack = <<>> /\ order = <<>> /\ chosen = {}
      /\ state = [t \in Ids |-> "new"] /\ DOMAIN stack = {} /\ Len(stack) = 0
  BY <1>1 DEF AddTest, Adding, GraphInv
<1>3. e \in Entry
  <2>1. entries \in Seq(Entry)
    BY <1>1, CorpusAssumption DEF TypeOK
  <2>2. next \in 1..Len(entries)
    BY <1>1, <2>1 DEF TypeOK, GraphInv, AddTest, Adding
  <2> QED
    BY <2>1, <2>2
<1>4. e.id \in Ids /\ e.requires \in Seq(Ids)
  BY <1>3 DEF Entry
<1>5. /\ e.id \notin ById
      /\ tests' = Append(tests, e.id)
      /\ requires' = [requires EXCEPT ![e.id] = e.requires]
      /\ next' = next + 1
      /\ UNCHANGED <<entries, phase, failed, state, stack, order, matched, chosen>>
  BY DEF AddTest
<1> HIDE DEF e
<1>6. tests' \in Seq(Ids) /\ requires' \in [Ids -> Seq(Ids)]
  BY <1>1, <1>4, <1>5 DEF TypeOK
<1>7. OnStack' = {} /\ Chained(stack, requires)'
  BY <1>2, <1>5 DEF OnStack, Chained
<1>8. TypeOK'
  BY <1>1, <1>5, <1>6, <1>7 DEF TypeOK
<1>9. OneTestPerId'
  <2>1. /\ Len(tests) \in Nat /\ DOMAIN tests = 1..Len(tests)
        /\ DOMAIN tests' = 1..(Len(tests) + 1)
        /\ \A k \in 1..Len(tests) : tests'[k] = tests[k]
        /\ tests'[Len(tests) + 1] = e.id
    BY <1>1, <1>4, <1>5 DEF TypeOK
  <2>2. \A n \in Nat : \A m \in 1..(n + 1) : m \in 1..n \/ m = n + 1
    OBVIOUS
  <2>3. \A k \in 1..Len(tests) : tests[k] # e.id
    BY <2>1, <1>5 DEF ById
  <2>4. \A j, k \in 1..Len(tests) : tests[j] = tests[k] => j = k
    BY <1>1, <2>1 DEF GraphInv, OneTestPerId
  <2> QED
    BY <2>1, <2>2, <2>3, <2>4 DEF OneTestPerId
<1>10. GraphInv'
  BY <1>1, <1>2, <1>5, <1>9 DEF GraphInv, TypeOK
<1>11. VisitInv' /\ OrderInv' /\ ChooseInv'
  BY <1>2, <1>5 DEF VisitInv, OrderInv, ChooseInv, Accepted
<1> QED
  BY <1>7, <1>8, <1>10, <1>11 DEF IInv

LEMMA RefuseTestIInv ==
    ASSUME IInv, RefuseTest
    PROVE  IInv'
<1>1. TypeOK /\ GraphInv /\ Chained(stack, requires) /\ OrderInv
  BY DEF IInv
<1>2. /\ phase = "adding" /\ next' = next + 1 /\ failed' = TRUE
      /\ UNCHANGED <<entries, phase, tests, requires, state, stack, order, matched, chosen>>
  BY DEF RefuseTest, Adding
<1>3. TypeOK'
  <2>1. next' \in Nat /\ failed' \in BOOLEAN
    BY <1>1, <1>2 DEF TypeOK
  <2>2. OnStack' = OnStack /\ ById' = ById
    BY <1>2 DEF OnStack, ById
  <2> QED
    BY <2>1, <2>2, <1>1, <1>2 DEF TypeOK
<1>4. GraphInv'
  BY <1>1, <1>2 DEF GraphInv, TypeOK, OneTestPerId
<1>5. VisitInv' /\ OrderInv' /\ ChooseInv'
  BY <1>1, <1>2 DEF VisitInv, OrderInv, ChooseInv, Accepted
<1>6. Chained(stack, requires)'
  BY <1>1, <1>2 DEF Chained
<1> QED
  BY <1>3, <1>4, <1>5, <1>6 DEF IInv

\* The search starts with nothing visited and nothing finished.
LEMMA EndAddingIInv ==
    ASSUME IInv, EndAdding
    PROVE  IInv'
<1>1. TypeOK /\ GraphInv
  BY DEF IInv
<1>2. /\ phase = "adding" /\ stack = <<>> /\ order = <<>> /\ chosen = {}
      /\ state = [t \in Ids |-> "new"] /\ DOMAIN stack = {} /\ Len(stack) = 0
  BY <1>1 DEF EndAdding, GraphInv
<1>3. /\ phase' \in {"invalid", "unknown", "checking"} /\ next' = 1
      /\ UNCHANGED <<entries, failed, tests, requires, state, stack, order, matched, chosen>>
      /\ phase' = "checking" => \A t \in ById : Needs(t) \subseteq ById
  BY DEF EndAdding, graph
<1>4. ById' = ById /\ OnStack' = {} /\ \A t : Needs(t)' = Needs(t)
  BY <1>2, <1>3 DEF ById, OnStack, Needs
<1>5. TypeOK'
  BY <1>1, <1>3, <1>4 DEF TypeOK, Phases
<1>6. GraphInv'
  BY <1>1, <1>2, <1>3, <1>4 DEF GraphInv, OneTestPerId
<1>7. Chained(stack, requires)'
  BY <1>2, <1>3 DEF Chained
<1>8. VisitInv'
  <2>1. Distinct(stack)' /\ Behind(stack, requires, Visited)'
    BY <1>2, <1>3 DEF Distinct, Behind
  <2>2. \A k \in DOMAIN tests' : ~ k < next'
    BY <1>1, <1>3 DEF TypeOK
  <2>3. \A t \in Ids : state'[t] = "new"
    BY <1>2, <1>3
  <2> QED
    BY <1>3, <1>4, <2>1, <2>2, <2>3 DEF VisitInv, Accepted
<1>9. OrderInv'
  <2>1. DOMAIN order' = {} /\ \A t \in Ids : state'[t] = "new"
    BY <1>2, <1>3
  <2> QED
    BY <2>1 DEF OrderInv
<1>10. ChooseInv'
  BY <1>3 DEF ChooseInv
<1> QED
  BY <1>5, <1>6, <1>7, <1>8, <1>9, <1>10 DEF IInv

(***************************************************************************)
(* Load: the search for a cycle.                                           *)
(***************************************************************************)

\* A step of visit or include leaves the graph as it is.
LEMMA SameGraph ==
    ASSUME UNCHANGED <<graph>>
    PROVE  /\ UNCHANGED <<entries, failed, tests, requires>>
           /\ ById' = ById /\ OneTestPerId' = OneTestPerId
           /\ \A t : Needs(t)' = Needs(t)
BY DEF graph, ById, OneTestPerId, Needs

\* Where the call on top of the stack is.
LEMMA TopFacts ==
    ASSUME TypeOK, stack # <<>>
    PROVE  /\ Top = Last(stack) /\ Below = SubSeq(stack, 1, Len(stack) - 1)
           /\ Top.test \in ById /\ Top.test \in Ids /\ Top.test \in OnStack
           /\ Top.i \in Nat \ {0}
           /\ DOMAIN requires[Top.test] = 1..Len(requires[Top.test])
           /\ \A i \in DOMAIN requires[Top.test] :
                 /\ requires[Top.test][i] \in Ids
                 /\ requires[Top.test][i] \in Needs(Top.test)
           /\ Top.i <= Len(requires[Top.test]) => Top.i \in DOMAIN requires[Top.test]
<1>1. Len(stack) \in DOMAIN stack
  BY DEF TypeOK
<1>2. Top \in Frame
  BY <1>1 DEF Top, TypeOK
<1>3. Top.test \in OnStack
  BY <1>1 DEF Top, OnStack
<1>4. Top.test \in Ids /\ Top.i \in Nat \ {0}
  BY <1>2 DEF Frame
<1>5. requires[Top.test] \in Seq(Ids)
  BY <1>4 DEF TypeOK
<1>6. /\ DOMAIN requires[Top.test] = 1..Len(requires[Top.test])
      /\ Len(requires[Top.test]) \in Nat
      /\ \A i \in DOMAIN requires[Top.test] : requires[Top.test][i] \in Ids
  BY <1>5
<1>7. Top.i <= Len(requires[Top.test]) => Top.i \in DOMAIN requires[Top.test]
  BY <1>4, <1>6
<1> QED
  BY <1>3, <1>4, <1>6, <1>7 DEF Top, Last, Below, TypeOK, Needs

\* A call of visit for a test that is new.
LEMMA EnterIInv ==
    ASSUME IInv, phase = "checking", NEW t \in ById, state[t] = "new", Enter(t),
           stack # <<>> => /\ Top.i \in DOMAIN requires[Top.test]
                           /\ requires[Top.test][Top.i] = t,
           next' \in Nat \ {0},
           \A k \in DOMAIN tests : k < next' => k < next \/ tests[k] = t,
           UNCHANGED <<graph, phase, order, matched, chosen>>
    PROVE  IInv'
<1>1. TypeOK /\ GraphInv /\ Chained(stack, requires) /\ VisitInv /\ OrderInv
  BY DEF IInv
<1>2. /\ UNCHANGED <<entries, failed, tests, requires>>
      /\ ById' = ById /\ OneTestPerId' = OneTestPerId
      /\ \A u : Needs(u)' = Needs(u)
  BY SameGraph
<1>3. t \in Ids
  BY <1>1 DEF TypeOK, ById
<1>4. stack' = Append(stack, CallOf(t)) /\ state' = [state EXCEPT ![t] = "visiting"]
  BY DEF Enter, CallOf
<1>5. /\ t \notin OnStack /\ Distinct(stack) /\ Behind(stack, requires, Visited)
      /\ \A u \in Ids : state[u] = "visiting" <=> u \in OnStack
  BY <1>1, <1>3 DEF VisitInv
<1>6. Visited' = Visited
  BY <1>1, <1>3, <1>4 DEF Visited, TypeOK
<1>7. /\ stack' \in Seq(Frame) /\ stack' # <<>>
      /\ Chained(stack', requires) /\ Behind(stack', requires, Visited)
      /\ TestsOf(stack') = TestsOf(stack) \cup {t}
      /\ Distinct(stack')
  <2>1. stack # <<>> => /\ Last(stack).i \in DOMAIN requires[Last(stack).test]
                        /\ requires[Last(stack).test][Last(stack).i] = t
    BY DEF Top, Last
  <2>2. requires \in [Ids -> Seq(Ids)] /\ stack \in Seq(Frame) /\ t \notin TestsOf(stack)
    BY <1>1, <1>5 DEF TypeOK, OnStack, TestsOf
  <2>3. Chained(stack, requires) /\ Behind(stack, requires, Visited) /\ Visited \subseteq Visited
    BY <1>1, <1>5
  <2> DEFINE p == Append(stack, CallOf(t))
  <2>4. /\ p \in Seq(Frame) /\ p # <<>>
        /\ Chained(p, requires) /\ Behind(p, requires, Visited)
        /\ TestsOf(p) = TestsOf(stack) \cup {t}
        /\ Distinct(stack) /\ t \notin TestsOf(stack) => Distinct(p)
    BY <2>1, <2>2, <2>3, <1>3, CallFacts, Zenon
  <2> HIDE DEF p
  <2>5. stack' = p
    BY <1>4 DEF p
  <2> QED
    BY <2>2, <2>4, <2>5, <1>5
<1>8. OnStack' = OnStack \cup {t}
  BY <1>7 DEF OnStack, TestsOf
<1>9. state' \in [Ids -> {"new", "visiting", "visited"}]
  BY <1>1, <1>3, <1>4 DEF TypeOK
<1>10. TypeOK'
  BY <1>1, <1>2, <1>7, <1>8, <1>9 DEF TypeOK
<1>11. GraphInv'
  BY <1>1, <1>2 DEF GraphInv
<1>12. Chained(stack, requires)'
  BY <1>2, <1>7
<1>13. VisitInv'
  <2>1. \A u \in Ids : state'[u] = IF u = t THEN "visiting" ELSE state[u]
    BY <1>1, <1>3, <1>4 DEF TypeOK
  <2>2. \A u \in Ids : state'[u] = "visiting" <=> u \in OnStack'
    BY <2>1, <1>5, <1>8
  <2>3. Distinct(stack)' /\ Behind(stack, requires, Visited)'
    BY <1>2, <1>6, <1>7
  <2>4. \A k \in DOMAIN tests : k < next' => state'[tests[k]] # "new"
    <3>1. \A k \in DOMAIN tests : tests[k] \in Ids
      BY <1>1 DEF TypeOK
    <3> QED
      BY <3>1, <2>1, <1>1 DEF VisitInv
  <2> QED
    BY <2>2, <2>3, <2>4, <1>2 DEF VisitInv, Accepted
<1>14. OrderInv'
  <2>1. \A u \in Ids : state'[u] = "visited" => state[u] = "visited"
    BY <1>1, <1>3, <1>4 DEF TypeOK
  <2> QED
    BY <2>1, <1>1, <1>2 DEF OrderInv
<1>15. ChooseInv'
  BY DEF ChooseInv
<1> QED
  BY <1>10, <1>11, <1>12, <1>13, <1>14, <1>15 DEF IInv

LEMMA VisitNextIInv ==
    ASSUME IInv, VisitNext
    PROVE  IInv'
<1>1. TypeOK /\ GraphInv /\ Chained(stack, requires) /\ VisitInv /\ OrderInv
  BY DEF IInv
<1>2. /\ phase = "checking" /\ stack = <<>> /\ next <= Len(tests) /\ next' = next + 1
      /\ UNCHANGED <<graph, phase, order, matched, chosen>>
  BY DEF VisitNext
<1>3. next \in DOMAIN tests /\ next' \in Nat \ {0} /\ DOMAIN tests \subseteq Nat
  BY <1>1, <1>2 DEF TypeOK, GraphInv
<1>4. tests[next] \in ById /\ tests[next] \in Ids
  BY <1>1, <1>3 DEF ById, TypeOK
<1>5. \A k \in DOMAIN tests : k < next' => k < next \/ k = next
  BY <1>1, <1>2, <1>3 DEF TypeOK
<1>6. CASE state[tests[next]] = "visited"
  <2>1. /\ UNCHANGED <<entries, failed, tests, requires>>
        /\ ById' = ById /\ OneTestPerId' = OneTestPerId
        /\ \A u : Needs(u)' = Needs(u)
    BY <1>2, SameGraph
  <2>2. UNCHANGED <<state, stack>>
    BY <1>6 DEF VisitNext
  <2>3. OnStack' = OnStack /\ Visited' = Visited
    BY <2>2 DEF OnStack, Visited
  <2>4. TypeOK'
    BY <1>1, <1>2, <1>3, <2>1, <2>2, <2>3 DEF TypeOK
  <2>5. GraphInv'
    BY <1>1, <1>2, <1>3, <2>1, <2>2 DEF GraphInv
  <2>6. Chained(stack, requires)'
    BY <1>1, <2>1, <2>2 DEF Chained
  <2>7. VisitInv'
    <3>1. \A k \in DOMAIN tests : k < next' => state[tests[k]] # "new"
      BY <1>1, <1>2, <1>5, <1>6 DEF VisitInv
    <3>2. Distinct(stack)' /\ Behind(stack, requires, Visited)'
      BY <1>1, <1>2, <2>1, <2>2, <2>3 DEF VisitInv
    <3> QED
      BY <3>1, <3>2, <1>1, <1>2, <2>1, <2>2, <2>3 DEF VisitInv, Accepted
  <2>8. OrderInv' /\ ChooseInv'
    BY <1>1, <1>2, <2>1, <2>2 DEF OrderInv, ChooseInv
  <2> QED
    BY <2>4, <2>5, <2>6, <2>7, <2>8 DEF IInv
<1>7. CASE state[tests[next]] # "visited"
  <2>1. OnStack = {}
    BY <1>2 DEF OnStack
  <2>2. state[tests[next]] = "new"
    BY <2>1, <1>1, <1>2, <1>4, <1>7 DEF VisitInv, TypeOK
  <2>3. Enter(tests[next])
    BY <1>7 DEF VisitNext
  <2> QED
    BY <2>2, <2>3, <1>2, <1>3, <1>4, <1>5, EnterIInv
<1> QED
  BY <1>6, <1>7

LEMMA VisitRequiredIInv ==
    ASSUME IInv, VisitRequired
    PROVE  IInv'
<1> DEFINE d == requires[Top.test][Top.i]
<1>1. TypeOK /\ GraphInv /\ Chained(stack, requires) /\ VisitInv /\ OrderInv
  BY DEF IInv
<1>2. /\ phase = "checking" /\ stack # <<>> /\ Top.i <= Len(requires[Top.test])
      /\ UNCHANGED <<graph, next, order, matched, chosen>>
  BY DEF VisitRequired, Visiting
<1>3. /\ Top = Last(stack) /\ Top.test \in ById
      /\ Top.i \in DOMAIN requires[Top.test] /\ d \in Ids /\ d \in Needs(Top.test)
  BY <1>1, <1>2, TopFacts
<1>4. /\ UNCHANGED <<entries, failed, tests, requires>>
      /\ ById' = ById /\ OneTestPerId' = OneTestPerId
      /\ \A u : Needs(u)' = Needs(u)
  BY <1>2, SameGraph
<1>5. /\ state[d] \in {"new", "visited", "visiting"}
      /\ state[d] = "new" => Enter(d) /\ UNCHANGED phase
      /\ state[d] = "visited" => stack' = Resumed(stack) /\ UNCHANGED <<state, phase>>
      /\ state[d] = "visiting" => phase' = "cycle" /\ UNCHANGED <<state, stack>>
  <2>1. state[d] \in {"new", "visited", "visiting"}
    BY <1>1, <1>3 DEF TypeOK
  <2> QED
    BY <2>1 DEF VisitRequired
<1>6. d \in ById
  BY <1>1, <1>2, <1>3 DEF GraphInv
<1> HIDE DEF d
<1>7. CASE state[d] = "new"
  <2>1. next' \in Nat \ {0} /\ \A k \in DOMAIN tests : k < next' => k < next
    BY <1>1, <1>2 DEF TypeOK, GraphInv
  <2>2. requires[Top.test][Top.i] = d
    BY DEF d
  <2> QED
    BY <2>1, <2>2, <1>2, <1>3, <1>5, <1>6, <1>7, EnterIInv
<1>8. CASE state[d] = "visited"
  <2>1. Visited' = Visited /\ d \in Visited
    BY <1>3, <1>5, <1>8 DEF Visited
  <2>2. /\ Distinct(stack) /\ Behind(stack, requires, Visited)
    BY <1>1, <1>2 DEF VisitInv
  <2> DEFINE p == Resumed(stack)
  <2>3. /\ p \in Seq(Frame)
        /\ Chained(p, requires) /\ Behind(p, requires, Visited)
        /\ TestsOf(p) = TestsOf(stack)
        /\ Distinct(stack) => Distinct(p)
    <3>1. stack # <<>> => requires[Last(stack).test][Last(stack).i] \in Visited
      BY <1>3, <2>1 DEF d
    <3>2. requires \in [Ids -> Seq(Ids)] /\ stack \in Seq(Frame)
      BY <1>1 DEF TypeOK
    <3>3. Chained(stack, requires) /\ Behind(stack, requires, Visited) /\ Visited \subseteq Visited
      BY <1>1, <2>2
    <3> QED
      BY <3>1, <3>2, <3>3, ResumeFacts, Zenon
  <2> HIDE DEF p
  <2>4. stack' = p
    BY <1>5, <1>8 DEF p
  <2>5. OnStack' = OnStack
    BY <2>3, <2>4 DEF OnStack, TestsOf
  <2>6. TypeOK'
    BY <1>1, <1>2, <1>4, <1>5, <1>8, <2>3, <2>4, <2>5 DEF TypeOK
  <2>7. GraphInv'
    BY <1>1, <1>2, <1>4, <1>5, <1>8 DEF GraphInv
  <2>8. Chained(stack, requires)'
    BY <1>4, <2>3, <2>4
  <2>9. VisitInv'
    <3>1. Distinct(stack)' /\ Behind(stack, requires, Visited)'
      BY <1>4, <2>1, <2>2, <2>3, <2>4
    <3> QED
      BY <3>1, <1>1, <1>2, <1>4, <1>5, <1>8, <2>5 DEF VisitInv, Accepted
  <2>10. OrderInv' /\ ChooseInv'
    BY <1>1, <1>2, <1>4, <1>5, <1>8 DEF OrderInv, ChooseInv
  <2> QED
    BY <2>6, <2>7, <2>8, <2>9, <2>10 DEF IInv
<1>9. CASE state[d] = "visiting"
  <2>1. phase' = "cycle" /\ UNCHANGED <<state, stack>>
    BY <1>5, <1>9
  <2>2. OnStack' = OnStack /\ Visited' = Visited /\ Top' = Top
    BY <2>1 DEF OnStack, Visited, Top
  <2>3. TypeOK'
    BY <1>1, <1>2, <1>4, <2>1, <2>2 DEF TypeOK, Phases
  <2>4. GraphInv'
    BY <1>1, <1>2, <1>4, <2>1 DEF GraphInv
  <2>5. Chained(stack, requires)'
    BY <1>1, <1>4, <2>1
  <2>6. VisitInv'
    <3>1. d \in OnStack
      BY <1>1, <1>2, <1>3, <1>9 DEF VisitInv
    <3>2. stack' # <<>> /\ Needs(Top.test)' \cap OnStack' # {}
      <4>1. Needs(Top.test)' = Needs(Top.test)
        BY <1>4, <2>2 DEF Needs
      <4> QED
        BY <4>1, <3>1, <1>2, <1>3, <2>1, <2>2
    <3>3. Distinct(stack)' /\ Behind(stack, requires, Visited)'
      BY <1>1, <1>2, <1>4, <2>1, <2>2 DEF VisitInv
    <3>4. \A t \in Ids : state'[t] = "visiting" <=> t \in OnStack'
      BY <1>1, <1>2, <2>1, <2>2 DEF VisitInv
    <3> QED
      BY <3>2, <3>3, <3>4, <2>1 DEF VisitInv, Accepted
  <2>7. OrderInv' /\ ChooseInv'
    BY <1>1, <1>2, <1>4, <2>1 DEF OrderInv, ChooseInv
  <2> QED
    BY <2>3, <2>4, <2>5, <2>6, <2>7 DEF IInv
<1> QED
  BY <1>5, <1>7, <1>8, <1>9

\* A call of visit that returns has visited all that its test requires.
LEMMA VisitReturnsIInv ==
    ASSUME IInv, VisitReturns
    PROVE  IInv'
<1> DEFINE t == Top.test
<1>1. TypeOK /\ GraphInv /\ Chained(stack, requires) /\ VisitInv /\ OrderInv
  BY DEF IInv
<1>2. /\ phase = "checking" /\ stack # <<>> /\ Top.i > Len(requires[t])
      /\ state' = [state EXCEPT ![t] = "visited"]
      /\ stack' = Resumed(Below)
      /\ order' = Append(order, t)
      /\ UNCHANGED <<graph, phase, next, matched, chosen>>
  BY DEF VisitReturns, Visiting
<1>3. /\ Top = Last(stack) /\ Below = SubSeq(stack, 1, Len(stack) - 1)
      /\ t \in ById /\ t \in Ids /\ t \in OnStack /\ Top.i \in Nat \ {0}
      /\ DOMAIN requires[t] = 1..Len(requires[t])
  BY <1>1, <1>2, TopFacts
<1>4. /\ UNCHANGED <<entries, failed, tests, requires>>
      /\ ById' = ById /\ OneTestPerId' = OneTestPerId
      /\ \A u : Needs(u)' = Needs(u)
  BY <1>2, SameGraph
<1>5. /\ Distinct(stack) /\ Behind(stack, requires, Visited)
      /\ \A u \in Ids : state[u] = "visiting" <=> u \in OnStack
  BY <1>1, <1>2 DEF VisitInv
<1>6. Needs(t) \subseteq Visited
  <2>1. Len(stack) \in DOMAIN stack
    BY <1>1, <1>2 DEF TypeOK
  <2>2. Len(requires[t]) \in Nat
    BY <1>1, <1>3 DEF TypeOK
  <2>3. \A i \in DOMAIN requires[t] : i < Top.i
    BY <2>2, <1>2, <1>3
  <2> QED
    BY <2>1, <2>3, <1>5 DEF Behind, Top, Needs
<1> HIDE DEF t
<1>7. \A u \in Ids : state'[u] = IF u = t THEN "visited" ELSE state[u]
  BY <1>1, <1>2, <1>3 DEF TypeOK
<1>8. Visited' = Visited \cup {t}
  BY <1>3, <1>7 DEF Visited
<1>9. /\ stack' \in Seq(Frame)
      /\ Chained(stack', requires) /\ Behind(stack', requires, Visited')
      /\ OnStack = OnStack' \cup {t} /\ t \notin OnStack'
      /\ Distinct(stack')
  <2> DEFINE b == SubSeq(stack, 1, Len(stack) - 1)
             p == Resumed(b)
  <2>1. requires \in [Ids -> Seq(Ids)] /\ stack \in Seq(Frame)
    BY <1>1 DEF TypeOK
  <2>2. /\ b \in Seq(Frame)
        /\ Chained(b, requires) /\ Behind(b, requires, Visited)
        /\ b # <<>> => requires[Last(b).test][Last(b).i] = Last(stack).test
        /\ TestsOf(stack) = TestsOf(b) \cup {Last(stack).test}
        /\ Distinct(stack) => Distinct(b) /\ Last(stack).test \notin TestsOf(b)
    BY <2>1, <1>1, <1>2, <1>5, BelowFacts, Zenon
  <2>3. Last(stack).test = t
    BY <1>3 DEF t
  <2> HIDE DEF b
  <2>4. /\ p \in Seq(Frame)
        /\ Chained(p, requires) /\ Behind(p, requires, Visited')
        /\ TestsOf(p) = TestsOf(b)
        /\ Distinct(b) => Distinct(p)
    <3>1. b # <<>> => requires[Last(b).test][Last(b).i] \in Visited'
      BY <2>2, <2>3, <1>8
    <3>2. Visited \subseteq Visited'
      BY <1>8
    <3> QED
      BY <3>1, <3>2, <2>1, <2>2, ResumeFacts, Zenon
  <2> HIDE DEF p
  <2>5. stack' = p
    BY <1>2, <1>3 DEF p, b
  <2>6. OnStack = TestsOf(stack) /\ OnStack' = TestsOf(p)
    BY <2>5 DEF OnStack, TestsOf
  <2> QED
    BY <2>2, <2>3, <2>4, <2>5, <2>6, <1>5
<1>10. /\ order' \in Seq(Ids) /\ Len(order) \in Nat
       /\ DOMAIN order = 1..Len(order) /\ DOMAIN order' = 1..(Len(order) + 1)
       /\ \A k \in 1..Len(order) : order'[k] = order[k]
       /\ order'[Len(order) + 1] = t
  BY <1>1, <1>2, <1>3 DEF TypeOK
<1>11. TypeOK'
  <2>1. state' \in [Ids -> {"new", "visiting", "visited"}]
    BY <1>1, <1>2, <1>3 DEF TypeOK
  <2> QED
    BY <2>1, <1>1, <1>2, <1>4, <1>9, <1>10 DEF TypeOK
<1>12. GraphInv'
  BY <1>1, <1>2, <1>4 DEF GraphInv
<1>13. Chained(stack, requires)'
  BY <1>4, <1>9
<1>14. VisitInv'
  <2>1. \A u \in Ids : state'[u] = "visiting" <=> u \in OnStack'
    BY <1>5, <1>7, <1>9
  <2>2. Distinct(stack)' /\ Behind(stack, requires, Visited)'
    BY <1>4, <1>9
  <2>3. \A k \in DOMAIN tests : k < next => state'[tests[k]] # "new"
    <3>1. \A k \in DOMAIN tests : tests[k] \in Ids
      BY <1>1 DEF TypeOK
    <3> QED
      BY <3>1, <1>1, <1>2, <1>7 DEF VisitInv
  <2> QED
    BY <2>1, <2>2, <2>3, <1>2, <1>4 DEF VisitInv, Accepted
<1>15. OrderInv'
  <2>1. \A k \in 1..Len(order) : k \in 1..(Len(order) + 1) /\ k < Len(order) + 1
    BY <1>10
  <2>2. Len(order) + 1 \in 1..(Len(order) + 1)
    BY <1>10
  <2>3. \A k \in 1..(Len(order) + 1) : k \in 1..Len(order) \/ k = Len(order) + 1
    BY <1>10
  <2>4. ASSUME NEW u \in Ids, state'[u] = "visited"
        PROVE  \E k \in DOMAIN order' : order'[k] = u
    <3>1. CASE u = t
      BY <3>1, <2>2, <1>10
    <3>2. CASE u # t
      <4>1. PICK k \in DOMAIN order : order[k] = u
        BY <3>2, <2>4, <1>1, <1>7 DEF OrderInv
      <4> QED
        BY <4>1, <2>1, <1>10
    <3> QED
      BY <3>1, <3>2
  <2>5. ASSUME NEW k \in DOMAIN order', NEW u \in Needs(order'[k])
        PROVE  \E j \in DOMAIN order' : j < k /\ order'[j] = u
    <3>1. CASE k \in 1..Len(order)
      <4>1. PICK j \in DOMAIN order : j < k /\ order[j] = u
        BY <3>1, <2>5, <1>1, <1>2, <1>10 DEF OrderInv
      <4> QED
        BY <4>1, <2>1, <1>10
    <3>2. CASE k = Len(order) + 1
      <4>1. u \in Ids /\ state[u] = "visited"
        BY <3>2, <1>6, <1>10 DEF Visited
      <4>2. PICK j \in DOMAIN order : order[j] = u
        BY <4>1, <1>1 DEF OrderInv
      <4> QED
        BY <4>2, <3>2, <2>1, <1>10
    <3> QED
      BY <3>1, <3>2, <2>3, <1>10
  <2> QED
    BY <2>4, <2>5, <1>4 DEF OrderInv
<1>16. ChooseInv'
  BY <1>2 DEF ChooseInv
<1> QED
  BY <1>11, <1>12, <1>13, <1>14, <1>15, <1>16 DEF IInv

LEMMA LoadedIInv ==
    ASSUME IInv, Loaded
    PROVE  IInv'
<1>1. TypeOK /\ GraphInv /\ Chained(stack, requires) /\ VisitInv /\ OrderInv
  BY DEF IInv
<1>2. /\ phase = "checking" /\ stack = <<>> /\ next > Len(tests) /\ phase' = "loaded"
      /\ UNCHANGED <<graph, next, state, stack, order, matched, chosen>>
  BY DEF Loaded
<1>3. /\ UNCHANGED <<entries, failed, tests, requires>>
      /\ ById' = ById /\ OneTestPerId' = OneTestPerId
      /\ \A u : Needs(u)' = Needs(u)
  BY <1>2, SameGraph
<1>4. OnStack' = OnStack /\ OnStack = {}
  BY <1>2 DEF OnStack
<1>5. TypeOK' /\ GraphInv'
  BY <1>1, <1>2, <1>3, <1>4 DEF TypeOK, Phases, GraphInv
<1>6. Chained(stack, requires)'
  BY <1>1, <1>2, <1>3
<1>7. VisitInv'
  <2> SUFFICES ASSUME NEW t \in ById PROVE state[t] = "visited"
    BY <1>2, <1>3 DEF VisitInv
  <2>1. PICK k \in DOMAIN tests : tests[k] = t
    BY DEF ById
  <2>2. k < next /\ t \in Ids
    BY <2>1, <1>1, <1>2 DEF TypeOK
  <2>3. state[t] # "new" /\ state[t] # "visiting"
    BY <2>1, <2>2, <1>1, <1>2, <1>4 DEF VisitInv
  <2> QED
    BY <2>2, <2>3, <1>1 DEF TypeOK
<1>8. OrderInv' /\ ChooseInv'
  BY <1>1, <1>2, <1>3 DEF OrderInv, ChooseInv
<1> QED
  BY <1>5, <1>6, <1>7, <1>8 DEF IInv

(***************************************************************************)
(* Select.                                                                 *)
(***************************************************************************)

LEMMA SelectFailsIInv ==
    ASSUME IInv, SelectFails
    PROVE  IInv'
<1>1. TypeOK /\ GraphInv /\ Chained(stack, requires) /\ VisitInv /\ OrderInv
  BY DEF IInv
<1>2. /\ phase = "loaded" /\ phase' = "badfilter"
      /\ UNCHANGED <<graph, next, state, stack, order, matched, chosen>>
  BY DEF SelectFails
<1>3. /\ UNCHANGED <<entries, failed, tests, requires>>
      /\ ById' = ById /\ OneTestPerId' = OneTestPerId
      /\ \A u : Needs(u)' = Needs(u)
  BY <1>2, SameGraph
<1>4. OnStack' = OnStack
  BY <1>2 DEF OnStack
<1>5. TypeOK'
  BY <1>1, <1>2, <1>3, <1>4 DEF TypeOK, Phases
<1>6. GraphInv'
  BY <1>1, <1>2, <1>3 DEF GraphInv
<1>7. Chained(stack, requires)'
  BY <1>1, <1>2, <1>3
<1>8. VisitInv' /\ OrderInv' /\ ChooseInv'
  BY <1>1, <1>2, <1>3 DEF VisitInv, OrderInv, ChooseInv, Accepted
<1> QED
  BY <1>5, <1>6, <1>7, <1>8 DEF IInv

LEMMA SelectIInv ==
    ASSUME IInv, Select
    PROVE  IInv'
<1>1. TypeOK /\ GraphInv /\ Chained(stack, requires) /\ VisitInv /\ OrderInv
  BY DEF IInv
<1>2. /\ phase = "loaded" /\ phase' = "choosing" /\ next' = 1 /\ matched' \subseteq ById
      /\ UNCHANGED <<graph, state, stack, order, chosen>>
  BY DEF Select
<1>3. /\ UNCHANGED <<entries, failed, tests, requires>>
      /\ ById' = ById /\ OneTestPerId' = OneTestPerId
      /\ \A u : Needs(u)' = Needs(u)
  BY <1>2, SameGraph
<1>4. stack = <<>> /\ chosen = {} /\ stack' = <<>> /\ chosen' = {} /\ DOMAIN stack' = {}
  BY <1>1, <1>2 DEF GraphInv
<1>5. OnStack' = OnStack /\ OnStack = {} /\ ById \subseteq Ids
  BY <1>1, <1>2, <1>4 DEF OnStack, ById, TypeOK
<1>6. TypeOK'
  BY <1>1, <1>2, <1>3, <1>5 DEF TypeOK, Phases
<1>7. GraphInv'
  BY <1>1, <1>2, <1>3, <1>4 DEF GraphInv
<1>8. Chained(stack, requires)'
  BY <1>1, <1>2, <1>3
<1>9. VisitInv' /\ OrderInv'
  BY <1>1, <1>2, <1>3 DEF VisitInv, OrderInv, Accepted
<1>10. ChooseInv'
  <2>1. \A k \in DOMAIN tests' : ~ k < next'
    BY <1>1, <1>2, <1>3 DEF TypeOK
  <2> QED
    BY <2>1, <1>2, <1>3, <1>4, <1>5 DEF ChooseInv, Behind
<1> QED
  BY <1>6, <1>7, <1>8, <1>9, <1>10 DEF IInv

\* What a step of include that changes no more than the stack, the chosen tests
\* and the loop's index has to show.
LEMMA IncludeStep ==
    ASSUME IInv, phase = "choosing", UNCHANGED <<graph, phase, state, order, matched>>,
           next' \in Nat \ {0}, stack' \in Seq(Frame), Chained(stack', requires),
           OnStack' \subseteq ById, OnStack' \subseteq chosen', chosen' \subseteq Ids,
           chosen \subseteq chosen', Behind(stack', requires, chosen'),
           \A t \in chosen' : t \in OnStack' \/ Needs(t) \subseteq chosen',
           \A k \in DOMAIN tests : k < next' => k < next \/ (tests[k] \in matched => tests[k] \in chosen'),
           \A S \in SUBSET ById : Closed(S) => chosen' \subseteq S
    PROVE  IInv'
<1>1. TypeOK /\ GraphInv /\ VisitInv /\ OrderInv /\ ChooseInv
  BY DEF IInv
<1>2. /\ UNCHANGED <<entries, failed, tests, requires>>
      /\ ById' = ById /\ OneTestPerId' = OneTestPerId
      /\ \A u : Needs(u)' = Needs(u)
  BY SameGraph
<1>3. TypeOK'
  BY <1>1, <1>2 DEF TypeOK
<1>4. GraphInv'
  BY <1>1, <1>2 DEF GraphInv
<1>5. Chained(stack, requires)'
  BY <1>2
<1>6. VisitInv' /\ OrderInv'
  BY <1>1, <1>2 DEF VisitInv, OrderInv, Accepted
<1>7. ChooseInv'
  <2>1. \A S : Closed(S)' = Closed(S)
    BY <1>2 DEF Closed
  <2>2. \A k \in DOMAIN tests :
           tests[k] \in matched /\ k < next' => tests[k] \in chosen'
    BY <1>1 DEF ChooseInv
  <2>3. Behind(stack, requires, chosen)'
    BY <1>2
  <2>4. matched \subseteq ById
    BY <1>1 DEF ChooseInv
  <2> QED
    BY <2>1, <2>2, <2>3, <2>4, <1>2 DEF ChooseInv
<1> QED
  BY <1>3, <1>4, <1>5, <1>6, <1>7 DEF IInv

\* A call of include for a test that every closed set has.
LEMMA IncludeIInv ==
    ASSUME IInv, phase = "choosing", NEW t \in ById, Include(t),
           stack # <<>> => /\ Top.i \in DOMAIN requires[Top.test]
                           /\ requires[Top.test][Top.i] = t,
           \A S \in SUBSET ById : Closed(S) => t \in S,
           next' \in Nat \ {0},
           \A k \in DOMAIN tests : k < next' => k < next \/ tests[k] = t,
           UNCHANGED <<graph, phase, state, order, matched>>
    PROVE  IInv'
<1>1. TypeOK /\ Chained(stack, requires) /\ ChooseInv
  BY DEF IInv
<1>2. t \in Ids
  BY <1>1 DEF TypeOK, ById
<1>3. stack' = Append(stack, CallOf(t)) /\ chosen' = chosen \cup {t}
  BY DEF Include, CallOf
<1>4. /\ stack' \in Seq(Frame)
      /\ Chained(stack', requires) /\ Behind(stack', requires, chosen')
      /\ OnStack' = OnStack \cup {t}
  <2> DEFINE p == Append(stack, CallOf(t))
  <2>1. stack # <<>> => /\ Last(stack).i \in DOMAIN requires[Last(stack).test]
                        /\ requires[Last(stack).test][Last(stack).i] = t
    BY DEF Top, Last
  <2>2. requires \in [Ids -> Seq(Ids)] /\ stack \in Seq(Frame)
    BY <1>1 DEF TypeOK
  <2>3. /\ Chained(stack, requires) /\ Behind(stack, requires, chosen)
        /\ chosen \subseteq chosen'
    BY <1>1, <1>3 DEF ChooseInv
  <2>4. /\ p \in Seq(Frame) /\ p # <<>>
        /\ Chained(p, requires) /\ Behind(p, requires, chosen')
        /\ TestsOf(p) = TestsOf(stack) \cup {t}
        /\ Distinct(stack) /\ t \notin TestsOf(stack) => Distinct(p)
    BY <2>1, <2>2, <2>3, <1>2, CallFacts, Zenon
  <2> HIDE DEF p
  <2>5. stack' = p
    BY <1>3 DEF p
  <2>6. OnStack = TestsOf(stack) /\ OnStack' = TestsOf(stack')
    BY DEF OnStack, TestsOf
  <2> QED
    BY <2>4, <2>5, <2>6
<1>5. OnStack' \subseteq ById /\ OnStack' \subseteq chosen' /\ chosen' \subseteq Ids
  BY <1>1, <1>2, <1>3, <1>4 DEF TypeOK, ChooseInv
<1>6. \A u \in chosen' : u \in OnStack' \/ Needs(u) \subseteq chosen'
  BY <1>1, <1>3, <1>4 DEF ChooseInv
<1>7. \A S \in SUBSET ById : Closed(S) => chosen' \subseteq S
  BY <1>1, <1>3 DEF ChooseInv
<1>8. \A k \in DOMAIN tests : k < next' => k < next \/ (tests[k] \in matched => tests[k] \in chosen')
  BY <1>3
<1>9. chosen \subseteq chosen'
  BY <1>3
<1> QED
  BY <1>4, <1>5, <1>6, <1>7, <1>8, <1>9, IncludeStep

LEMMA ChooseNextIInv ==
    ASSUME IInv, ChooseNext
    PROVE  IInv'
<1>1. TypeOK /\ GraphInv /\ Chained(stack, requires) /\ ChooseInv
  BY DEF IInv
<1>2. /\ phase = "choosing" /\ stack = <<>> /\ next <= Len(tests) /\ next' = next + 1
      /\ UNCHANGED <<graph, phase, state, order, matched>>
  BY DEF ChooseNext, Choosing
<1>3. next \in DOMAIN tests /\ next' \in Nat \ {0} /\ DOMAIN tests \subseteq Nat
  BY <1>1, <1>2 DEF TypeOK, GraphInv
<1>4. tests[next] \in ById
  BY <1>3 DEF ById
<1>5. \A k \in DOMAIN tests : k < next' => k < next \/ k = next
  BY <1>1, <1>2, <1>3 DEF TypeOK
<1>6. CASE tests[next] \in matched \ chosen
  <2>1. Include(tests[next])
    BY <1>6 DEF ChooseNext
  <2>2. \A S \in SUBSET ById : Closed(S) => tests[next] \in S
    BY <1>6 DEF Closed
  <2> QED
    BY <2>1, <2>2, <1>2, <1>3, <1>4, <1>5, IncludeIInv
<1>7. CASE tests[next] \notin matched \ chosen
  <2>1. UNCHANGED <<chosen, stack>>
    BY <1>7 DEF ChooseNext
  <2>2. OnStack' = OnStack
    BY <2>1 DEF OnStack
  <2>3. /\ stack' \in Seq(Frame) /\ Chained(stack', requires)
        /\ Behind(stack', requires, chosen')
    BY <1>1, <1>2, <2>1 DEF TypeOK, ChooseInv
  <2>4. OnStack' \subseteq ById /\ OnStack' \subseteq chosen' /\ chosen' \subseteq Ids
    BY <1>1, <1>2, <2>1, <2>2 DEF TypeOK, ChooseInv
  <2>5. /\ \A t \in chosen' : t \in OnStack' \/ Needs(t) \subseteq chosen'
        /\ \A S \in SUBSET ById : Closed(S) => chosen' \subseteq S
    BY <1>1, <1>2, <2>1, <2>2 DEF ChooseInv
  <2>6. \A k \in DOMAIN tests : k < next' => k < next \/ (tests[k] \in matched => tests[k] \in chosen')
    BY <1>5, <1>7, <2>1
  <2> QED
    BY <2>1, <2>3, <2>4, <2>5, <2>6, <1>2, <1>3, IncludeStep
<1> QED
  BY <1>6, <1>7

LEMMA IncludeRequiredIInv ==
    ASSUME IInv, IncludeRequired
    PROVE  IInv'
<1> DEFINE d == requires[Top.test][Top.i]
<1>1. TypeOK /\ GraphInv /\ Chained(stack, requires) /\ ChooseInv
  BY DEF IInv
<1>2. /\ phase = "choosing" /\ stack # <<>> /\ Top.i <= Len(requires[Top.test])
      /\ d \in chosen => stack' = Resumed(stack) /\ UNCHANGED chosen
      /\ d \notin chosen => Include(d)
      /\ UNCHANGED <<graph, phase, next, state, order, matched>>
  BY DEF IncludeRequired, Including
<1>3. /\ Top = Last(stack) /\ Top.test \in ById /\ Top.test \in OnStack
      /\ Top.i \in DOMAIN requires[Top.test] /\ d \in Needs(Top.test)
  BY <1>1, <1>2, TopFacts
<1>4. d \in ById /\ next' \in Nat \ {0} /\ \A k \in DOMAIN tests : k < next' => k < next
  BY <1>1, <1>2, <1>3 DEF TypeOK, GraphInv
<1>5. requires[Top.test][Top.i] = d
  OBVIOUS
<1> HIDE DEF d
<1>6. CASE d \notin chosen
  <2>1. \A S \in SUBSET ById : Closed(S) => d \in S
    BY <1>1, <1>2, <1>3 DEF ChooseInv, Closed
  <2> QED
    BY <2>1, <1>2, <1>3, <1>4, <1>5, <1>6, IncludeIInv
<1>7. CASE d \in chosen
  <2> DEFINE p == Resumed(stack)
  <2>1. /\ p \in Seq(Frame)
        /\ Chained(p, requires) /\ Behind(p, requires, chosen)
        /\ TestsOf(p) = TestsOf(stack)
        /\ Distinct(stack) => Distinct(p)
    <3>1. stack # <<>> => requires[Last(stack).test][Last(stack).i] \in chosen
      BY <1>3, <1>5, <1>7
    <3>2. requires \in [Ids -> Seq(Ids)] /\ stack \in Seq(Frame)
      BY <1>1 DEF TypeOK
    <3>3. Chained(stack, requires) /\ Behind(stack, requires, chosen) /\ chosen \subseteq chosen
      BY <1>1, <1>2 DEF ChooseInv
    <3> QED
      BY <3>1, <3>2, <3>3, ResumeFacts, Zenon
  <2> HIDE DEF p
  <2>2. stack' = p /\ chosen' = chosen
    BY <1>2, <1>7 DEF p
  <2>3. OnStack' = OnStack
    BY <2>1, <2>2 DEF OnStack, TestsOf
  <2>4. OnStack' \subseteq ById /\ OnStack' \subseteq chosen' /\ chosen' \subseteq Ids
    BY <1>1, <1>2, <2>2, <2>3 DEF TypeOK, ChooseInv
  <2>5. /\ \A t \in chosen' : t \in OnStack' \/ Needs(t) \subseteq chosen'
        /\ \A S \in SUBSET ById : Closed(S) => chosen' \subseteq S
    BY <1>1, <1>2, <2>2, <2>3 DEF ChooseInv
  <2> QED
    BY <2>1, <2>2, <2>4, <2>5, <1>2, <1>4, IncludeStep
<1> QED
  BY <1>6, <1>7

\* A call of include that returns has chosen all that its test requires.
LEMMA IncludeReturnsIInv ==
    ASSUME IInv, IncludeReturns
    PROVE  IInv'
<1> DEFINE t == Top.test
<1>1. TypeOK /\ GraphInv /\ Chained(stack, requires) /\ ChooseInv
  BY DEF IInv
<1>2. /\ phase = "choosing" /\ stack # <<>> /\ Top.i > Len(requires[t])
      /\ stack' = Resumed(Below)
      /\ UNCHANGED <<graph, phase, next, state, order, matched, chosen>>
  BY DEF IncludeReturns, Including
<1>3. /\ Top = Last(stack) /\ Below = SubSeq(stack, 1, Len(stack) - 1)
      /\ t \in Ids /\ t \in OnStack /\ Top.i \in Nat \ {0}
      /\ DOMAIN requires[t] = 1..Len(requires[t])
  BY <1>1, <1>2, TopFacts
<1>4. Behind(stack, requires, chosen) /\ t \in chosen
  BY <1>1, <1>2, <1>3 DEF ChooseInv
<1>5. Needs(t) \subseteq chosen
  <2>1. Len(stack) \in DOMAIN stack
    BY <1>1, <1>2 DEF TypeOK
  <2>2. Len(requires[t]) \in Nat
    BY <1>1, <1>3 DEF TypeOK
  <2>3. \A i \in DOMAIN requires[t] : i < Top.i
    BY <2>2, <1>2, <1>3
  <2> QED
    BY <2>1, <2>3, <1>4 DEF Behind, Top, Needs
<1> HIDE DEF t
<1>6. /\ stack' \in Seq(Frame)
      /\ Chained(stack', requires) /\ Behind(stack', requires, chosen')
      /\ OnStack = OnStack' \cup {t}
  <2> DEFINE b == SubSeq(stack, 1, Len(stack) - 1)
             p == Resumed(b)
  <2>1. requires \in [Ids -> Seq(Ids)] /\ stack \in Seq(Frame)
    BY <1>1 DEF TypeOK
  <2>2. /\ b \in Seq(Frame)
        /\ Chained(b, requires) /\ Behind(b, requires, chosen)
        /\ b # <<>> => requires[Last(b).test][Last(b).i] = Last(stack).test
        /\ TestsOf(stack) = TestsOf(b) \cup {Last(stack).test}
        /\ Distinct(stack) => Distinct(b) /\ Last(stack).test \notin TestsOf(b)
    BY <2>1, <1>1, <1>2, <1>4, BelowFacts, Zenon
  <2>3. Last(stack).test = t
    BY <1>3 DEF t
  <2> HIDE DEF b
  <2>4. /\ p \in Seq(Frame)
        /\ Chained(p, requires) /\ Behind(p, requires, chosen)
        /\ TestsOf(p) = TestsOf(b)
        /\ Distinct(b) => Distinct(p)
    <3>1. b # <<>> => requires[Last(b).test][Last(b).i] \in chosen
      BY <2>2, <2>3, <1>4
    <3>2. chosen \subseteq chosen
      OBVIOUS
    <3> QED
      BY <3>1, <3>2, <2>1, <2>2, ResumeFacts, Zenon
  <2> HIDE DEF p
  <2>5. stack' = p
    BY <1>2, <1>3 DEF p, b
  <2>6. OnStack = TestsOf(stack) /\ OnStack' = TestsOf(p)
    BY <2>5 DEF OnStack, TestsOf
  <2> QED
    BY <2>2, <2>3, <2>4, <2>5, <2>6, <1>2
<1>7. OnStack' \subseteq ById /\ OnStack' \subseteq chosen' /\ chosen' \subseteq Ids
  BY <1>1, <1>2, <1>6 DEF TypeOK, ChooseInv
<1>8. \A u \in chosen' : u \in OnStack' \/ Needs(u) \subseteq chosen'
  BY <1>1, <1>2, <1>5, <1>6 DEF ChooseInv
<1>9. \A S \in SUBSET ById : Closed(S) => chosen' \subseteq S
  BY <1>1, <1>2 DEF ChooseInv
<1>10. next' \in Nat \ {0} /\ chosen \subseteq chosen' /\ \A k \in DOMAIN tests : k < next' => k < next
  BY <1>1, <1>2 DEF TypeOK, GraphInv
<1> QED
  BY <1>2, <1>6, <1>7, <1>8, <1>9, <1>10, IncludeStep

LEMMA EndChoosingIInv ==
    ASSUME IInv, EndChoosing
    PROVE  IInv'
<1>1. TypeOK /\ GraphInv /\ Chained(stack, requires) /\ VisitInv /\ OrderInv /\ ChooseInv
  BY DEF IInv
<1>2. /\ phase = "choosing" /\ stack = <<>> /\ next > Len(tests)
      /\ phase' \in {"selected", "nomatch"}
      /\ UNCHANGED <<graph, next, state, stack, order, matched, chosen>>
  BY DEF EndChoosing, Choosing
<1>3. /\ UNCHANGED <<entries, failed, tests, requires>>
      /\ ById' = ById /\ OneTestPerId' = OneTestPerId
      /\ \A u : Needs(u)' = Needs(u)
  BY <1>2, SameGraph
<1>4. OnStack' = OnStack
  BY <1>2 DEF OnStack
<1>5. TypeOK'
  BY <1>1, <1>2, <1>3, <1>4 DEF TypeOK, Phases
<1>6. GraphInv'
  BY <1>1, <1>2, <1>3 DEF GraphInv
<1>7. Chained(stack, requires)'
  BY <1>1, <1>2, <1>3
<1>8. VisitInv' /\ OrderInv'
  BY <1>1, <1>2, <1>3 DEF VisitInv, OrderInv, Accepted
<1>9. ChooseInv'
  <2>1. \A k \in DOMAIN tests : k < next
    BY <1>1, <1>2 DEF TypeOK
  <2>2. \A S : Closed(S)' = Closed(S)
    BY <1>2, <1>3 DEF Closed
  <2>3. Behind(stack, requires, chosen)'
    BY <1>1, <1>2, <1>3 DEF ChooseInv
  <2> QED
    BY <2>1, <2>2, <2>3, <1>1, <1>2, <1>3, <1>4 DEF ChooseInv
<1> QED
  BY <1>5, <1>6, <1>7, <1>8, <1>9 DEF IInv

(***************************************************************************)
(* The theorems.                                                           *)
(***************************************************************************)

LEMMA NextIInv == IInv /\ [Next]_vars => IInv'
<1> SUFFICES ASSUME IInv, [Next]_vars PROVE IInv'
  OBVIOUS
<1>1. CASE AddTest
  BY <1>1, AddTestIInv
<1>2. CASE RefuseTest
  BY <1>2, RefuseTestIInv
<1>3. CASE EndAdding
  BY <1>3, EndAddingIInv
<1>4. CASE VisitNext
  BY <1>4, VisitNextIInv
<1>5. CASE VisitRequired
  BY <1>5, VisitRequiredIInv
<1>6. CASE VisitReturns
  BY <1>6, VisitReturnsIInv
<1>7. CASE Loaded
  BY <1>7, LoadedIInv
<1>8. CASE Select
  BY <1>8, SelectIInv
<1>9. CASE ChooseNext
  BY <1>9, ChooseNextIInv
<1>10. CASE IncludeRequired
  BY <1>10, IncludeRequiredIInv
<1>11. CASE IncludeReturns
  BY <1>11, IncludeReturnsIInv
<1>12. CASE EndChoosing
  BY <1>12, EndChoosingIInv
<1>13. CASE UNCHANGED vars
  <2>1. UNCHANGED <<entries, phase, next, failed, tests, requires, state, stack, order,
                    matched, chosen>>
    BY <1>13 DEF vars
  <2>2. /\ ById' = ById /\ OnStack' = OnStack /\ Top' = Top
        /\ OneTestPerId' = OneTestPerId /\ Visited' = Visited /\ Accepted' = Accepted
        /\ \A t : Needs(t)' = Needs(t)
        /\ \A S : Closed(S)' = Closed(S)
    BY <2>1 DEF ById, OnStack, Top, OneTestPerId, Visited, Accepted, Needs, Closed
  <2>3. TypeOK'
    BY <2>1, <2>2 DEF IInv, TypeOK
  <2>4. GraphInv'
    BY <2>1, <2>2 DEF IInv, GraphInv
  <2>5. Chained(stack, requires)'
    BY <2>1 DEF IInv
  <2>6. VisitInv'
    <3>1. Needs(Top.test)' = Needs(Top.test)
      BY <2>1, <2>2 DEF Needs
    <3>2. /\ Distinct(stack)' = Distinct(stack)
          /\ Behind(stack, requires, Visited)' = Behind(stack, requires, Visited)
      BY <2>1, <2>2
    <3> QED
      BY <3>1, <3>2, <2>1, <2>2 DEF IInv, VisitInv
  <2>7. OrderInv'
    BY <2>1, <2>2 DEF IInv, OrderInv
  <2>8. ChooseInv'
    <3>1. Behind(stack, requires, chosen)' = Behind(stack, requires, chosen)
      BY <2>1
    <3> QED
      BY <3>1, <2>1, <2>2 DEF IInv, ChooseInv
  <2> QED
    BY <2>3, <2>4, <2>5, <2>6, <2>7, <2>8 DEF IInv
<1>14. CASE SelectFails
  BY <1>14, SelectFailsIInv
<1> QED
  BY <1>1, <1>2, <1>3, <1>4, <1>5, <1>6, <1>7, <1>8, <1>9, <1>10, <1>11, <1>12, <1>13, <1>14
     DEF Next, Step, Done

\* Among the tests that visit has finished no circle is left: the first of
\* them to be finished would require one that was finished before it.
LEMMA NoCircle ==
    ASSUME IInv, Accepted, NEW S \in SUBSET ById
    PROVE  ~Circular(S)
<1> SUFFICES ASSUME Circular(S) PROVE FALSE
  OBVIOUS
<1> DEFINE P == {k \in DOMAIN order : order[k] \in S}
<1>1. TypeOK /\ VisitInv /\ OrderInv
  BY DEF IInv
<1>2. P \subseteq Nat
  BY <1>1 DEF TypeOK
<1>3. P # {}
  <2>1. PICK t \in S : TRUE
    BY DEF Circular
  <2>2. t \in Ids /\ state[t] = "visited"
    BY <1>1 DEF VisitInv, TypeOK, ById
  <2> QED
    BY <2>2, <1>1 DEF OrderInv
<1>4. \E k \in P : \A j \in P : <<j, k>> \notin OpToRel(<, Nat)
  BY <1>2, <1>3, NatLessThanWellFounded, WFMin
<1>5. PICK k \in P : \A j \in P : ~ j < k
  BY <1>2, <1>4 DEF OpToRel
<1>6. PICK u \in Needs(order[k]) : u \in S
  BY DEF Circular
<1>7. PICK j \in DOMAIN order : j < k /\ order[j] = u
  <2>1. phase \notin {"adding", "invalid", "unknown"}
    BY DEF Accepted
  <2> QED
    BY <2>1, <1>1, <1>6 DEF OrderInv
<1> QED
  BY <1>5, <1>6, <1>7

\* A stack whose calls were each made by the one before, with a test on top
\* that requires one of them, is a circle.
LEMMA StackIsCircle ==
    ASSUME IInv, phase = "cycle"
    PROVE  Circular(OnStack)
<1>1. TypeOK /\ VisitInv /\ Chained(stack, requires)
  BY DEF IInv
<1>2. stack # <<>> /\ Needs(Top.test) \cap OnStack # {}
  BY <1>1 DEF VisitInv
<1>3. Len(stack) \in Nat /\ DOMAIN stack = 1..Len(stack)
  BY <1>1 DEF TypeOK
<1>4. OnStack # {}
  BY <1>2
<1>5. ASSUME NEW k \in DOMAIN stack
      PROVE  Needs(stack[k].test) \cap OnStack # {}
  <2>1. CASE k = Len(stack)
    BY <2>1, <1>2 DEF Top
  <2>2. CASE k # Len(stack)
    <3>1. k \in 1..(Len(stack) - 1) /\ k + 1 \in DOMAIN stack
      BY <2>2, <1>3
    <3>2. stack[k + 1].test \in Needs(stack[k].test)
      BY <3>1, <1>1 DEF Chained, Needs
    <3>3. stack[k + 1].test \in OnStack
      BY <3>1 DEF OnStack
    <3> QED
      BY <3>2, <3>3
  <2> QED
    BY <2>1, <2>2
<1>6. \A t \in OnStack : Needs(t) \cap OnStack # {}
  BY <1>5 DEF OnStack
<1> QED
  BY <1>4, <1>6 DEF Circular

\* What the runs check follows from the invariant.
LEMMA IInvIsEnough ==
    ASSUME IInv
    PROVE  AcceptedIsSound /\ RefusedIsCyclic /\ SelectionIsClosure
<1>1. AcceptedIsSound
  <2> SUFFICES ASSUME Accepted
               PROVE  /\ OneTestPerId
                      /\ \A t \in ById : Needs(t) \subseteq ById
                      /\ \A S \in SUBSET ById : ~Circular(S)
    BY DEF AcceptedIsSound
  <2>1. OneTestPerId /\ \A t \in ById : Needs(t) \subseteq ById
    BY DEF IInv, GraphInv, Accepted
  <2> QED
    BY <2>1, NoCircle
<1>2. RefusedIsCyclic
  BY StackIsCircle DEF RefusedIsCyclic
<1>3. SelectionIsClosure
  <2> SUFFICES ASSUME phase \in {"selected", "nomatch"}
               PROVE  Closed(chosen) /\ \A S \in SUBSET ById : Closed(S) => chosen \subseteq S
    BY DEF SelectionIsClosure
  <2>1. stack = <<>> /\ ChooseInv
    BY DEF IInv, GraphInv
  <2>2. OnStack = {}
    BY <2>1 DEF OnStack
  <2>3. \A t \in chosen : Needs(t) \subseteq chosen
    BY <2>1, <2>2 DEF ChooseInv
  <2>4. matched \subseteq chosen
    BY <2>1 DEF ChooseInv, ById
  <2> QED
    BY <2>1, <2>3, <2>4 DEF Closed, ChooseInv
<1> QED
  BY <1>1, <1>2, <1>3

LEMMA SpecIInv == Spec => []IInv
BY InitIInv, NextIInv, PTL DEF Spec

\* Every variable of Load and Select keeps its type, and visit and include
\* are called only for tests that byID holds (corpus.go:254-296, 321-369).
THEOREM TypeCorrect == Spec => []TypeOK
<1>1. IInv => TypeOK
  BY DEF IInv
<1> QED
  BY <1>1, SpecIInv, PTL

\* In every corpus that Load accepts, however large, an id names one test, and
\* the requirements lead neither out of the corpus nor in a circle.
THEOREM CorpusIsSound == Spec => []AcceptedIsSound
<1>1. IInv => AcceptedIsSound
  BY IInvIsEnough
<1> QED
  BY <1>1, SpecIInv, PTL

\* A corpus is refused for a cycle only when the tests being visited are one.
THEOREM RefusalIsJust == Spec => []RefusedIsCyclic
<1>1. IInv => RefusedIsCyclic
  BY IInvIsEnough
<1> QED
  BY <1>1, SpecIInv, PTL

\* Select returns the least set of tests that has the matching ones and all
\* that its members require.
THEOREM SelectionIsLeast == Spec => []SelectionIsClosure
<1>1. IInv => SelectionIsClosure
  BY IInvIsEnough
<1> QED
  BY <1>1, SpecIInv, PTL

\* The tests of S can be ranked so that each comes after those that it requires,
\* which is what module Scheduler assumes of the tests of a run.
Ranked(S) ==
    \E rank \in [S -> Nat] :
        \A t \in S : \A i \in 1..Len(requires[t]) :
            requires[t][i] \in S => rank[requires[t][i]] < rank[t]

\* The tests of a corpus that Load accepts are ranked by when visit finished them.
LEMMA FinishedIsRanked ==
    ASSUME IInv, Accepted
    PROVE  Ranked(ById)
<1>1. TypeOK /\ VisitInv /\ OrderInv /\ GraphInv
  BY DEF IInv
<1>2. phase \notin {"adding", "invalid", "unknown"}
  BY DEF Accepted
<1> DEFINE At(t) == {k \in DOMAIN order : order[k] = t}
           First(t, k) == k \in At(t) /\ \A j \in At(t) : ~ j < k
           rank == [t \in ById |-> CHOOSE k : First(t, k)]
<1>3. \A t : At(t) \subseteq Nat
  BY <1>1 DEF TypeOK
<1>4. ASSUME NEW t \in ById
      PROVE  First(t, rank[t])
  <2>1. t \in Ids /\ state[t] = "visited"
    BY <1>1 DEF VisitInv, TypeOK, ById
  <2>2. At(t) # {}
    BY <2>1, <1>1 DEF OrderInv
  <2> HIDE DEF At
  <2>3. \E k \in At(t) : \A j \in At(t) : <<j, k>> \notin OpToRel(<, Nat)
    BY <1>3, <2>2, NatLessThanWellFounded, WFMin
  <2>4. \E k : First(t, k)
    BY <1>3, <2>3 DEF OpToRel
  <2> HIDE DEF First
  <2> QED
    BY <2>4
<1>5. rank \in [ById -> Nat]
  <2>1. \A t \in ById : rank[t] \in Nat
    BY <1>3, <1>4
  <2> QED
    BY <2>1
<1> HIDE DEF rank
<1>6. ASSUME NEW t \in ById, NEW i \in 1..Len(requires[t]), requires[t][i] \in ById
      PROVE  rank[requires[t][i]] < rank[t]
  <2> DEFINE u == requires[t][i]
             k == rank[t]
  <2>1. t \in Ids /\ requires[t] \in Seq(Ids)
    BY <1>1 DEF TypeOK, ById
  <2>2. u \in Needs(t)
    <3>1. i \in DOMAIN requires[t]
      BY <2>1, <1>6
    <3> QED
      BY <3>1 DEF Needs
  <2>3. k \in DOMAIN order /\ order[k] = t
    BY <1>4
  <2> HIDE DEF k, u
  <2>4. PICK j \in DOMAIN order : j < k /\ order[j] = u
    BY <1>1, <1>2, <2>2, <2>3 DEF OrderInv
  <2>5. u \in ById
    BY <1>6 DEF u
  <2>6. ~ j < rank[u]
    BY <1>4, <2>4, <2>5
  <2>7. j \in Nat /\ k \in Nat /\ rank[u] \in Nat
    BY <1>1, <1>5, <2>3, <2>4, <2>5 DEF TypeOK
  <2> QED
    BY <2>4, <2>6, <2>7 DEF u, k
<1> QED
  BY <1>5, <1>6 DEF Ranked

\* A run is given tests that can be scheduled: what corpus.Select returns has
\* all that it requires, and can be ranked as module Scheduler assumes of its
\* tests, so that the theorems about the scheduler hold of every selection
\* (corpus.go:264-296 and 321-369, runner.go:160 plan).
THEOREM SelectionCanBeScheduled ==
    Spec => [](phase = "selected" => /\ chosen \subseteq ById /\ Ranked(chosen)
                                     /\ \A t \in chosen : Needs(t) \subseteq chosen)
<1>1. ASSUME IInv, phase = "selected"
      PROVE  /\ chosen \subseteq ById /\ Ranked(chosen)
             /\ \A t \in chosen : Needs(t) \subseteq chosen
  <2>1. Accepted /\ TypeOK /\ GraphInv /\ ChooseInv
    BY <1>1 DEF Accepted, IInv
  <2>2. \A t \in ById : Needs(t) \subseteq ById
    BY <1>1, <2>1 DEF GraphInv
  <2>3. Closed(chosen) /\ (Closed(ById) => chosen \subseteq ById)
    BY <1>1, IInvIsEnough DEF SelectionIsClosure
  <2>4. matched \subseteq ById
    BY <1>1, <2>1 DEF ChooseInv
  <2>5. chosen \subseteq ById
    BY <2>2, <2>3, <2>4 DEF Closed
  <2>6. PICK rank \in [ById -> Nat] :
            \A t \in ById : \A i \in 1..Len(requires[t]) :
                requires[t][i] \in ById => rank[requires[t][i]] < rank[t]
    BY <1>1, <2>1, FinishedIsRanked DEF Ranked
  <2> DEFINE less == [t \in chosen |-> rank[t]]
  <2>7. less \in [chosen -> Nat]
    BY <2>5, <2>6
  <2>8. \A t \in chosen : \A i \in 1..Len(requires[t]) :
            requires[t][i] \in chosen => less[requires[t][i]] < less[t]
    BY <2>5, <2>6
  <2> HIDE DEF less
  <2>9. Ranked(chosen)
    BY <2>7, <2>8 DEF Ranked
  <2> QED
    BY <2>3, <2>5, <2>9 DEF Closed
<1>2. IInv => (phase = "selected" => /\ chosen \subseteq ById /\ Ranked(chosen)
                                     /\ \A t \in chosen : Needs(t) \subseteq chosen)
  BY <1>1
<1> QED
  BY <1>2, SpecIInv, PTL

=============================================================================
