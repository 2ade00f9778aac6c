--------------------------- MODULE ExchangeProofs --------------------------
(***************************************************************************)
(* Proofs about Exchange, for every suite, every test that Load accepts    *)
(* and every proxy of the model.                                           *)
(***************************************************************************)
EXTENDS Exchange, CorpusProofs, FiniteSetTheorems, SequenceTheorems

(***************************************************************************)
(* The inductive invariant.  What it says of the exchange comes on top of  *)
(* IInv of CorpusProofs, which carries over.                               *)
(***************************************************************************)

\* A corpus without a failure has only valid entries, and a test of the corpus
\* stands in an entry.
EntriesInv ==
    /\ failed => phase \in {"adding", "invalid"}
    /\ ~failed => \A i \in DOMAIN entries : i < next \/ phase # "adding" => Valid(entries[i])
    /\ \A t \in ById : \E i \in DOMAIN entries : entries[i].id = t

\* The test that is played was accepted, and the origin has its script.
PlayInv ==
    /\ xpc \in {"idle", "steps", "judging", "judged", "done"}
    /\ xpc = "idle" => log = <<>> /\ via = <<>> /\ due = {} /\ script = Nil /\ at = 1 /\ obs = <<>>
    /\ xpc # "idle" =>
           /\ test \in Definitions /\ Validate(test)
           /\ at \in 1..(Len(test.steps) + 1)
           /\ DOMAIN obs = DOMAIN test.steps
           /\ via \in [DOMAIN test.steps -> Nat]
           /\ due \subseteq RequestSteps
           /\ script # Nil => script = Script(test)

\* A sequence, whatever its elements are.
IsSeq(s) == Len(s) \in Nat /\ DOMAIN s = 1..Len(s) /\ s \in Seq({s[i] : i \in DOMAIN s})

\* Every request in the log carries the number of a request step, or none, and
\* was answered from the script of the test.
LogInv ==
    /\ IsSeq(log)
    /\ \A i \in DOMAIN log :
          /\ log[i].step \in RequestSteps \cup {0}
          /\ log[i].response = ServedName(Script(test), log[i].step)

\* The steps under way are of one group, and no later step was sent.
SentInv ==
    /\ \A n \in DOMAIN via : via[n] <= Len(log) /\ (via[n] # 0 => n < at)
    /\ \A n \in due : n < at
    /\ due # {} => \E i \in 1..(at - 1) : due \subseteq Group(i) /\ i..(at - 1) \subseteq Group(i)

\* The log that the client was given is the start of the origin's.
SeenInv ==
    /\ outcome # "none" => xpc \in {"judged", "done"}
    /\ xpc \in {"judging", "judged", "done"} =>
           /\ due = {}
           /\ Len(seen) \in 0..Len(log) /\ DOMAIN seen = 1..Len(seen)
           /\ \A i \in DOMAIN seen : seen[i] = log[i]

\* What was seen, and what is stored, has a list of interim responses; and the
\* verdict is the one of the log and the observations that are still there.
JudgedInv ==
    /\ \A n \in DOMAIN obs : IsList(obs[n].interim)
    /\ stored # Nil => IsList(stored.interim)
    /\ outcome # "none" => outcome = Verdict(test, Failures(test, obs, seen))

ExchangeInv == PlayInv /\ LogInv /\ SentInv /\ SeenInv /\ StepsArriveInOrder

(***************************************************************************)
(* The interim responses: inOrder finds the wanted ones among those that   *)
(* were received exactly when they are there, in their order.  The         *)
(* inductions over the received ones are by a least counterexample.        *)
(***************************************************************************)

\* A set of natural numbers without a least element is empty.
LEMMA LeastNumber ==
    ASSUME NEW T \in SUBSET Nat, T # {}
    PROVE  \E k \in T : \A j \in T : k <= j
<1>1. \E k \in T : \A j \in T : <<j, k>> \notin OpToRel(<, Nat)
  BY NatLessThanWellFounded, WFMin
<1>2. PICK k \in T : \A j \in T : ~ j < k
  BY <1>1 DEF OpToRel
<1> QED
  BY <1>2

\* What the loop has counted after j, when it had counted c before.
CountOne(got, want, j, c) == IF c < Len(want) /\ got[j] = want[c + 1] THEN c + 1 ELSE c

Counts(m, got, want, k) ==
    /\ m \in [0..k -> 0..Len(want)]
    /\ m[0] = 0
    /\ \A j \in 1..k : m[j] = CountOne(got, want, j, m[j - 1])

LEMMA CountsExist ==
    ASSUME NEW got, NEW want, Len(got) \in Nat, Len(want) \in Nat
    PROVE  \E m : Counts(m, got, want, Len(got))
<1> DEFINE T == {k \in Nat : ~ \E m : Counts(m, got, want, k)}
<1> SUFFICES ASSUME T # {} PROVE FALSE
  OBVIOUS
<1>1. PICK k \in T : \A j \in T : k <= j
  BY LeastNumber
<1>2. k \in Nat /\ ~ \E m : Counts(m, got, want, k)
  OBVIOUS
<1>3. CASE k = 0
  <2> DEFINE z == [j \in 0..0 |-> 0]
  <2>1. z \in [0..0 -> 0..Len(want)] /\ z[0] = 0 /\ \A j \in 1..0 : FALSE
    OBVIOUS
  <2>2. Counts(z, got, want, 0)
    BY <2>1 DEF Counts
  <2> QED
    BY <2>2, <1>2, <1>3
<1>4. CASE k # 0
  <2>1. k - 1 \in Nat /\ ~ k <= k - 1
    BY <1>2, <1>4
  <2>2. k - 1 \notin T
    BY <2>1, <1>1
  <2>3. PICK m : Counts(m, got, want, k - 1)
    BY <2>1, <2>2
  <2> DEFINE x == CountOne(got, want, k, m[k - 1])
             z == [j \in 0..k |-> IF j < k THEN m[j] ELSE x]
  <2>4. m \in [0..(k - 1) -> 0..Len(want)] /\ m[0] = 0
    BY <2>3 DEF Counts
  <2>5. \A j \in 0..k : j < k => j \in 0..(k - 1)
    BY <1>2
  <2>6. m[k - 1] \in 0..Len(want)
    BY <2>1, <2>4
  <2>7. x \in 0..Len(want)
    BY <2>6 DEF CountOne
  <2>8. z[k] = x /\ k \in 0..k
    BY <1>2
  <2>9. \A j \in 0..(k - 1) : z[j] = m[j]
    BY <1>2
  <2> HIDE DEF x
  <2>10. z \in [0..k -> 0..Len(want)]
    BY <2>4, <2>5, <2>7
  <2> HIDE DEF z
  <2>11. z[0] = 0
    BY <2>1, <2>4, <2>9
  <2>12. ASSUME NEW j \in 1..k
         PROVE  z[j] = CountOne(got, want, j, z[j - 1])
    <3>1. j - 1 \in 0..(k - 1)
      BY <1>2
    <3>2. CASE j = k
      BY <3>1, <3>2, <2>8, <2>9 DEF x
    <3>3. CASE j # k
      <4>1. j \in 1..(k - 1) /\ j \in 0..(k - 1)
        BY <3>3, <1>2
      <4>2. m[j] = CountOne(got, want, j, m[j - 1])
        BY <4>1, <2>3 DEF Counts
      <4> QED
        BY <4>1, <4>2, <3>1, <2>9
    <3> QED
      BY <3>2, <3>3
  <2>13. Counts(z, got, want, k)
    BY <2>10, <2>11, <2>12 DEF Counts
  <2> QED
    BY <2>13, <1>2
<1> QED
  BY <1>3, <1>4

\* The loop does what it is written to do.
LEMMA MetAfterCounts ==
    ASSUME NEW got, NEW want, Len(got) \in Nat, Len(want) \in Nat
    PROVE  Counts(MetAfter(got, want), got, want, Len(got))
<1> DEFINE N == Len(got)
           Loop(m) == m = [j \in 0..N |-> IF j = 0 THEN 0 ELSE CountOne(got, want, j, m[j - 1])]
<1>1. PICK c : Counts(c, got, want, N)
  BY CountsExist
<1>2. Loop(c)
  <2>1. c \in [0..N -> 0..Len(want)] /\ c[0] = 0
    BY <1>1 DEF Counts
  <2>2. \A j \in 0..N : c[j] = IF j = 0 THEN 0 ELSE CountOne(got, want, j, c[j - 1])
    <3> TAKE j \in 0..N
    <3>1. CASE j = 0
      BY <3>1, <2>1
    <3>2. CASE j # 0
      <4>1. j \in 1..N
        BY <3>2
      <4> QED
        BY <4>1, <3>2, <1>1 DEF Counts
    <3> QED
      BY <3>1, <3>2
  <2>3. c = [j \in 0..N |-> c[j]]
    BY <2>1
  <2> QED
    BY <2>2, <2>3
<1>3. MetAfter(got, want) = CHOOSE m : Loop(m)
  BY DEF MetAfter, CountOne
<1> DEFINE m == MetAfter(got, want)
<1>4. Loop(m)
  BY <1>2, <1>3
<1> HIDE DEF m
<1>5. /\ DOMAIN m = 0..N /\ m[0] = 0
      /\ \A j \in 1..N : m[j] = CountOne(got, want, j, m[j - 1])
  BY <1>4
<1>6. \A j \in 0..N : m[j] \in 0..Len(want)
  <2> DEFINE T == {j \in 0..N : m[j] \notin 0..Len(want)}
  <2> SUFFICES ASSUME T # {} PROVE FALSE
    OBVIOUS
  <2>1. T \subseteq Nat
    OBVIOUS
  <2>2. PICK k \in T : \A j \in T : k <= j
    BY <2>1, LeastNumber
  <2>3. k # 0 /\ k \in 0..N /\ m[k] \notin 0..Len(want)
    BY <1>5
  <2>4. k \in 1..N /\ k - 1 \in 0..N /\ ~ k <= k - 1
    BY <2>3
  <2>5. m[k - 1] \in 0..Len(want)
    BY <2>2, <2>4
  <2> QED
    BY <2>3, <2>4, <2>5, <1>5 DEF CountOne
<1>7. m = [j \in 0..N |-> m[j]]
  BY <1>4
<1>8. m \in [0..N -> 0..Len(want)]
  BY <1>6, <1>7
<1> QED
  BY <1>5, <1>8 DEF Counts, m

\* f finds the first n of the wanted ones among the first k that were got.
Finds(f, got, want, n, k) ==
    /\ f \in [1..n -> 1..k]
    /\ \A i \in 1..n : got[f[i]] = want[i]
    /\ \A i, j \in 1..n : i < j => f[i] < f[j]

\* What the loop has counted is there.
LEMMA CountedIsFound ==
    ASSUME NEW got, NEW want, Len(got) \in Nat, Len(want) \in Nat,
           NEW m, Counts(m, got, want, Len(got)), NEW k \in 0..Len(got)
    PROVE  \E f : Finds(f, got, want, m[k], k)
<1> DEFINE N == Len(got)
           T == {j \in 0..N : ~ \E f : Finds(f, got, want, m[j], j)}
<1> SUFFICES ASSUME T # {} PROVE FALSE
  OBVIOUS
<1>0. \A j \in 0..N : m[j] \in 0..Len(want)
  BY DEF Counts
<1>1. T \subseteq Nat
  OBVIOUS
<1>2. PICK q \in T : \A j \in T : q <= j
  BY <1>1, LeastNumber
<1>3. q \in 0..N /\ ~ \E f : Finds(f, got, want, m[q], q)
  OBVIOUS
<1>4. CASE q = 0
  <2> DEFINE z == [i \in 1..0 |-> 0]
  <2>1. m[0] = 0
    BY DEF Counts
  <2>2. z \in [1..0 -> 1..0] /\ \A i \in 1..0 : FALSE
    OBVIOUS
  <2>3. Finds(z, got, want, 0, 0)
    BY <2>2 DEF Finds
  <2> QED
    BY <2>1, <2>3, <1>3, <1>4
<1>5. CASE q # 0
  <2>1. q \in 1..N /\ q - 1 \in 0..N /\ ~ q <= q - 1
    BY <1>3, <1>5
  <2> DEFINE c == m[q - 1]
  <2>2. PICK f : Finds(f, got, want, c, q - 1)
    BY <2>1, <1>2
  <2>3. m[q] = CountOne(got, want, q, c) /\ c \in 0..Len(want)
    BY <2>1, <1>0 DEF Counts
  <2> HIDE DEF c
  <2>4. f \in [1..c -> 1..(q - 1)] /\ \A i \in 1..c : got[f[i]] = want[i]
    BY <2>2 DEF Finds
  <2>5. \A i, j \in 1..c : i < j => f[i] < f[j]
    BY <2>2 DEF Finds
  <2>6. \A i \in 1..(q - 1) : i \in 1..q /\ i < q
    BY <2>1
  <2>7. CASE m[q] = c
    <3>1. f \in [1..c -> 1..q]
      BY <2>4, <2>6
    <3>2. Finds(f, got, want, c, q)
      BY <3>1, <2>4, <2>5 DEF Finds
    <3> QED
      BY <3>2, <2>7, <1>3
  <2>8. CASE m[q] # c
    <3>1. m[q] = c + 1 /\ got[q] = want[c + 1]
      BY <2>3, <2>8 DEF CountOne
    <3> DEFINE z == [i \in 1..(c + 1) |-> IF i = c + 1 THEN q ELSE f[i]]
    <3>2. \A i \in 1..(c + 1) : i # c + 1 => i \in 1..c
      BY <2>3
    <3>3. q \in 1..q /\ c + 1 \in 1..(c + 1)
      BY <2>1, <2>3
    <3>4. z[c + 1] = q /\ \A i \in 1..c : z[i] = f[i] /\ i \in 1..(c + 1)
      BY <3>3, <2>3
    <3>5. \A i \in 1..c : f[i] \in 1..q /\ f[i] < q
      BY <2>4, <2>6
    <3>6. z \in [1..(c + 1) -> 1..q]
      BY <3>2, <3>3, <3>5
    <3> HIDE DEF z
    <3>7. \A i \in 1..(c + 1) : got[z[i]] = want[i]
      BY <3>1, <3>2, <3>4, <2>4
    <3>8. ASSUME NEW i \in 1..(c + 1), NEW j \in 1..(c + 1), i < j
          PROVE  z[i] < z[j]
      <4>1. i \in 1..c
        BY <3>8, <2>3
      <4>2. CASE j = c + 1
        BY <4>1, <4>2, <3>4, <3>5
      <4>3. CASE j # c + 1
        BY <4>1, <4>3, <3>2, <3>4, <3>8, <2>5
      <4> QED
        BY <4>2, <4>3
    <3>9. Finds(z, got, want, c + 1, q)
      BY <3>6, <3>7, <3>8 DEF Finds
    <3> QED
      BY <3>1, <3>9, <1>3
  <2> QED
    BY <2>7, <2>8
<1> QED
  BY <1>4, <1>5

\* The count never falls.
LEMMA CountGrows ==
    ASSUME NEW got, NEW want, Len(got) \in Nat, Len(want) \in Nat,
           NEW m, Counts(m, got, want, Len(got)),
           NEW a \in 0..Len(got), NEW b \in 0..Len(got), a <= b
    PROVE  m[a] <= m[b]
<1> DEFINE N == Len(got)
           T == {j \in 0..N : a <= j /\ ~ m[a] <= m[j]}
<1> SUFFICES ASSUME T # {} PROVE FALSE
  OBVIOUS
<1>n. \A j \in 0..N : m[j] \in 0..Len(want)
  BY DEF Counts
<1>0. \A j \in 0..N : m[j] \in Nat
  BY <1>n
<1>1. T \subseteq Nat
  OBVIOUS
<1>2. PICK q \in T : \A j \in T : q <= j
  BY <1>1, LeastNumber
<1>3. q \in 0..N /\ a <= q /\ ~ m[a] <= m[q]
  OBVIOUS
<1>4. q # a
  BY <1>0, <1>3
<1>5. q \in 1..N /\ q - 1 \in 0..N /\ a <= q - 1 /\ ~ q <= q - 1
  BY <1>3, <1>4
<1>6. m[a] <= m[q - 1]
  BY <1>2, <1>5
<1>7. m[q - 1] <= m[q]
  <2>1. m[q] = CountOne(got, want, q, m[q - 1])
    BY <1>5 DEF Counts
  <2> QED
    BY <2>1, <1>0, <1>5 DEF CountOne
<1>8. m[a] \in Nat /\ m[q] \in Nat /\ m[q - 1] \in Nat
  BY <1>0, <1>3, <1>5
<1> QED
  BY <1>3, <1>6, <1>7, <1>8

\* What is there is counted.
LEMMA FoundIsCounted ==
    ASSUME NEW got, NEW want, Len(got) \in Nat, Len(want) \in Nat,
           NEW m, Counts(m, got, want, Len(got)),
           NEW f, Finds(f, got, want, Len(want), Len(got))
    PROVE  m[Len(got)] = Len(want)
<1> DEFINE N == Len(got)
           W == Len(want)
           T == {i \in 1..W : m[f[i]] < i}
<1>0. N \in Nat /\ W \in Nat /\ \A j \in 0..N : m[j] \in 0..W
  BY DEF Counts
<1>1. /\ \A i \in 1..W : f[i] \in 1..N /\ got[f[i]] = want[i]
      /\ \A i, j \in 1..W : i < j => f[i] < f[j]
  BY DEF Finds
<1>2. ASSUME T # {} PROVE FALSE
  <2>1. T \subseteq Nat
    OBVIOUS
  <2>2. PICK q \in T : \A j \in T : q <= j
    BY <2>1, <1>2, LeastNumber
  <2>3. q \in 1..W /\ m[f[q]] < q
    OBVIOUS
  <2> DEFINE p == f[q]
  <2>4. p \in 1..N /\ got[p] = want[q]
    BY <2>3, <1>1
  <2>5. m[p] < q
    BY <2>3
  <2> HIDE DEF p
  <2>6. p - 1 \in 0..N /\ p \in 0..N
    BY <2>4, <1>0
  <2>7. m[p - 1] \in 0..W /\ m[p] \in 0..W
    BY <2>6, <1>0
  <2>8. m[p - 1] >= q - 1
    <3>1. CASE q = 1
      BY <3>1, <2>7, <1>0
    <3>2. CASE q # 1
      <4>1. q - 1 \in 1..W /\ ~ q <= q - 1 /\ q - 1 < q
        BY <3>2, <2>3, <1>0
      <4>2. ~ m[f[q - 1]] < q - 1
        BY <4>1, <2>2
      <4>3. f[q - 1] \in 1..N /\ f[q - 1] < p
        BY <4>1, <2>3, <1>1 DEF p
      <4>4. f[q - 1] \in 0..N /\ f[q - 1] <= p - 1
        BY <4>3, <2>4, <1>0
      <4>5. m[f[q - 1]] <= m[p - 1]
        BY <4>4, <2>6, <1>0, CountGrows
      <4>6. m[f[q - 1]] \in 0..W
        BY <4>4, <1>0
      <4> QED
        BY <4>2, <4>5, <4>6, <2>3, <2>7, <1>0
    <3> QED
      BY <3>1, <3>2
  <2>9. m[p] = CountOne(got, want, p, m[p - 1])
    BY <2>4 DEF Counts
  <2>10. m[p - 1] <= m[p]
    BY <2>7, <2>9, <1>0 DEF CountOne
  <2>11. m[p - 1] = q - 1
    BY <2>3, <2>5, <2>7, <2>8, <2>10, <1>0
  <2>12. m[p] = q
    BY <2>3, <2>4, <2>9, <2>11, <1>0 DEF CountOne
  <2> QED
    BY <2>5, <2>12, <2>3, <1>0
<1>3. CASE W = 0
  <2>1. m[N] \in 0..W
    BY <1>0
  <2> QED
    BY <2>1, <1>3
<1>4. CASE W # 0
  <2>1. W \in 1..W
    BY <1>0, <1>4
  <2>2. f[W] \in 1..N /\ ~ m[f[W]] < W
    BY <2>1, <1>1, <1>2
  <2>3. f[W] \in 0..N /\ f[W] <= N /\ N \in 0..N
    BY <2>2, <1>0
  <2>4. m[f[W]] <= m[N]
    BY <2>3, <1>0, CountGrows
  <2>5. m[f[W]] \in 0..W /\ m[N] \in 0..W
    BY <2>3, <1>0
  <2> QED
    BY <2>2, <2>4, <2>5, <1>0
<1> QED
  BY <1>3, <1>4

\* inOrder looks for the wanted ones among those that were got.
LEMMA InOrderIsAmong ==
    ASSUME NEW got, NEW want, Len(got) \in Nat, DOMAIN got = 1..Len(got),
           Len(want) \in Nat, DOMAIN want = 1..Len(want)
    PROVE  InOrder(got, want) <=> Among(want, got)
<1> DEFINE m == MetAfter(got, want)
<1>1. Counts(m, got, want, Len(got))
  BY MetAfterCounts
<1>2. InOrder(got, want) <=> m[Len(got)] = Len(want)
  BY DEF InOrder
<1> HIDE DEF m
<1>3. Among(want, got) <=> \E f : Finds(f, got, want, Len(want), Len(got))
  BY DEF Among, Finds
<1>4. ASSUME m[Len(got)] = Len(want)
      PROVE  \E f : Finds(f, got, want, Len(want), Len(got))
  <2>1. Len(got) \in 0..Len(got)
    OBVIOUS
  <2>2. \E f : Finds(f, got, want, m[Len(got)], Len(got))
    BY <2>1, <1>1, CountedIsFound
  <2> QED
    BY <2>2, <1>4
<1>5. ASSUME NEW f, Finds(f, got, want, Len(want), Len(got))
      PROVE  m[Len(got)] = Len(want)
  BY <1>1, <1>5, FoundIsCounted
<1> QED
  BY <1>2, <1>3, <1>4, <1>5

----------------------------------------------------------------------------
(***************************************************************************)
(* An exchange is a run of Load and Select: what is proved of them holds   *)
(* of it.                                                                  *)
(***************************************************************************)

LEMMA ExchangeStepIsCorpusStep == [ExchangeNext]_allVars => [Next]_vars
<1> SUFFICES ASSUME ExchangeNext PROVE [Next]_vars
  BY DEF allVars
<1>1. CASE Step /\ UNCHANGED exchange
  BY <1>1 DEF Next
<1>2. CASE ClientStep
  BY <1>2 DEF ClientStep, Exercise, Pause, SendGroup, FetchLog, JudgeTest, DeleteScript
<1>3. CASE ProxyStep
  <2>1. ASSUME NEW n \in due, AnswersItself(n) \/ RequestFails(n) \/ ForwardsConditionally(n)
        PROVE  UNCHANGED vars
    BY <2>1 DEF AnswersItself, RequestFails, ForwardsConditionally, Answered
  <2>2. ASSUME NEW n \in due, NEW k \in {n, 0}, NEW interim \in BOOLEAN, Forwards(n, k, interim)
        PROVE  UNCHANGED vars
    BY <2>2 DEF Forwards, Answered
  <2>3. ASSUME NEW n \in DOMAIN obs, SendsAgain(n)
        PROVE  UNCHANGED vars
    BY <2>3 DEF SendsAgain
  <2> QED
    BY <1>3, <2>1, <2>2, <2>3 DEF ProxyStep
<1>4. CASE Over
  BY <1>4 DEF Over, Done
<1> QED
  BY <1>1, <1>2, <1>3, <1>4 DEF ExchangeNext

LEMMA ExchangeIInv == ExchangeSpec => []IInv
<1>1. ExchangeInit => IInv
  BY InitIInv DEF ExchangeInit
<1>2. IInv /\ [ExchangeNext]_allVars => IInv'
  BY ExchangeStepIsCorpusStep, NextIInv
<1> QED
  BY <1>1, <1>2, PTL DEF ExchangeSpec

\* Load leaves no invalid entry behind.
LEMMA EntriesStep == IInv /\ EntriesInv /\ [Next]_vars => EntriesInv'
<1> SUFFICES ASSUME IInv, EntriesInv, [Next]_vars PROVE EntriesInv'
  OBVIOUS
<1>1. TypeOK /\ GraphInv
  BY DEF IInv
<1>2. Len(entries) \in Nat /\ DOMAIN entries = 1..Len(entries) /\ next \in Nat \ {0}
  BY <1>1, CorpusAssumption DEF TypeOK, GraphInv
<1>3. \A i \in DOMAIN entries : i < next + 1 => i < next \/ i = next
  BY <1>2
<1>4. CASE AddTest
  <2>1. /\ phase = "adding" /\ phase' = "adding" /\ next' = next + 1
        /\ UNCHANGED <<entries, failed>> /\ Valid(entries[next])
        /\ tests' = Append(tests, entries[next].id)
        /\ next \in DOMAIN entries
    BY <1>2, <1>4 DEF AddTest, Adding
  <2>2. \A t \in ById' : t \in ById \/ t = entries[next].id
    <3>1. Len(tests) \in Nat /\ DOMAIN tests = 1..Len(tests)
      BY <1>1 DEF TypeOK
    <3>2. /\ DOMAIN tests' = 1..(Len(tests) + 1)
          /\ \A k \in 1..Len(tests) : tests'[k] = tests[k]
          /\ tests'[Len(tests) + 1] = entries[next].id
      <4>1. entries \in Seq(Entry)
        BY <1>1, CorpusAssumption DEF TypeOK
      <4>2. entries[next] \in Entry
        BY <4>1, <2>1
      <4>3. entries[next].id \in Ids
        BY <4>2 DEF Entry
      <4> QED
        BY <4>3, <2>1, <1>1 DEF TypeOK
    <3>3. \A k \in 1..(Len(tests) + 1) : k \in 1..Len(tests) \/ k = Len(tests) + 1
      BY <3>1
    <3> QED
      BY <3>1, <3>2, <3>3 DEF ById
  <2> QED
    BY <2>1, <2>2, <1>3 DEF EntriesInv
<1>5. CASE RefuseTest
  <2>1. ById' = ById
    BY <1>5 DEF RefuseTest, ById
  <2> QED
    BY <2>1, <1>5 DEF RefuseTest, Adding, EntriesInv
<1>6. CASE EndAdding
  <2>1. ById' = ById /\ UNCHANGED <<entries, failed>>
    BY <1>6 DEF EndAdding, graph, ById
  <2>2. /\ phase = "adding" /\ next > Len(entries) /\ phase' # "adding"
        /\ failed => phase' = "invalid"
    BY <1>6 DEF EndAdding
  <2>3. \A i \in DOMAIN entries : i < next
    BY <2>2, <1>2
  <2> QED
    BY <2>1, <2>2, <2>3 DEF EntriesInv
<1>7. CASE ~AddTest /\ ~RefuseTest /\ ~EndAdding /\ Step
  <2>1. VisitNext \/ VisitRequired \/ VisitReturns \/ Loaded \/ SelectFails \/ Select
           \/ ChooseNext \/ IncludeRequired \/ IncludeReturns \/ EndChoosing
    BY <1>7 DEF Step
  <2>2. UNCHANGED <<graph>> /\ phase \in {"checking", "loaded", "choosing"}
    BY <2>1 DEF VisitNext, VisitRequired, VisitReturns, Loaded, SelectFails, Select, ChooseNext,
                IncludeRequired, IncludeReturns, EndChoosing, Visiting, Choosing, Including
  <2>3. ~failed /\ phase # "adding"
    BY <2>2 DEF EntriesInv
  <2>4. ById' = ById /\ UNCHANGED <<entries, failed>>
    BY <2>2 DEF graph, ById
  <2> QED
    BY <2>3, <2>4 DEF EntriesInv
<1>8. CASE UNCHANGED vars
  BY <1>8 DEF vars, EntriesInv, ById
<1> QED
  BY <1>4, <1>5, <1>6, <1>7, <1>8 DEF Next, Step, Done

\* A test that was selected is one that Validate accepted.
LEMMA SelectedIsValid ==
    ASSUME IInv, EntriesInv, phase = "selected", Subject \in chosen
    PROVE  DefinitionOf(Subject) \in Definitions /\ Validate(DefinitionOf(Subject))
<1>1. TypeOK /\ GraphInv /\ ChooseInv
  BY DEF IInv
<1>2. Subject \in ById
  <2>1. Closed(ById)
    BY <1>1 DEF GraphInv, ChooseInv, Closed
  <2> QED
    BY <2>1, <1>1 DEF ChooseInv
<1> DEFINE i == CHOOSE i \in DOMAIN entries : entries[i].id = Subject
<1>3. i \in DOMAIN entries
  BY <1>2 DEF EntriesInv
<1>4. Valid(entries[i])
  BY <1>3 DEF EntriesInv
<1>5. entries[i] \in Entry
  <2>1. entries \in Seq(Entry)
    BY <1>1, CorpusAssumption DEF TypeOK
  <2> QED
    BY <2>1, <1>3
<1>6. DefinitionOf(Subject) = entries[i].def
  BY DEF DefinitionOf
<1> HIDE DEF i
<1> QED
  BY <1>4, <1>5, <1>6 DEF Valid, Entry

(***************************************************************************)
(* Test.Script: a step is answered as it is meant.                         *)
(***************************************************************************)

Playable == test \in Definitions /\ Validate(test)
LastRequest == CHOOSE k \in RequestSteps : \A m \in RequestSteps : m <= k

LEMMA StepFacts ==
    ASSUME Playable
    PROVE  /\ Len(test.steps) \in Nat /\ DOMAIN test.steps = 1..Len(test.steps)
           /\ RequestSteps \subseteq 1..Len(test.steps) /\ RequestSteps # {}
           /\ \A n \in RequestSteps : ValidRespondWith(test.steps[n], test.responses)
           /\ IsFiniteSet(DOMAIN test.responses)
<1>1. /\ Len(test.steps) \in Nat /\ DOMAIN test.steps = 1..Len(test.steps)
      /\ IsFiniteSet(DOMAIN test.responses)
  BY DefinitionsAssumption DEF Playable, IsList
<1>2. RequestSteps \subseteq 1..Len(test.steps)
  BY <1>1 DEF RequestSteps
<1>3. RequestSteps # {}
  BY DEF Playable, Validate, RequestSteps, IsRequest
<1>4. \A n \in RequestSteps : ValidRespondWith(test.steps[n], test.responses)
  BY DEF Playable, Validate, RequestSteps, ValidStep, ValidRequest
<1> QED
  BY <1>1, <1>2, <1>3, <1>4

\* Test.ResponseFor finds the one response that the author can mean.
LEMMA MeantIsResponse ==
    ASSUME Playable, NEW n \in RequestSteps
    PROVE  /\ Meant(n) = {ResponseOf(test, test.steps[n])}
           /\ ResponseOf(test, test.steps[n]) = NoName =>
                 test.steps[n].respondWith = NoName /\ DOMAIN test.responses \subseteq {NoName}
<1> DEFINE s == test.steps[n]
           R == DOMAIN test.responses
<1>1. ValidRespondWith(s, test.responses) /\ IsFiniteSet(R)
  BY StepFacts
<1>2. CASE s.respondWith # NoName
  BY <1>2 DEF Meant, ResponseOf
<1>3. CASE s.respondWith = NoName
  <2>1. Cardinality(R) <= 1
    BY <1>1, <1>3 DEF ValidRespondWith
  <2>2. Cardinality(R) \in Nat
    BY <1>1, FS_CardinalityType
  <2>3. Cardinality(R) = 0 \/ Cardinality(R) = 1
    BY <2>1, <2>2
  <2>4. CASE Cardinality(R) = 0
    <3>1. R = {}
      BY <2>4, <1>1, FS_EmptySet
    <3> QED
      BY <3>1, <2>4, <1>3 DEF Meant, ResponseOf
  <2>5. CASE Cardinality(R) = 1
    <3>1. PICK name : R = {name}
      BY <2>5, <1>1, FS_Singleton
    <3>2. ResponseOf(test, s) = CHOOSE m \in R : TRUE
      BY <2>5, <1>3 DEF ResponseOf
    <3>3. ResponseOf(test, s) = name
      BY <3>1, <3>2
    <3>4. Meant(n) = R
      BY <3>1, <1>3 DEF Meant
    <3> QED
      BY <3>1, <3>3, <3>4, <1>3
  <2> QED
    BY <2>3, <2>4, <2>5
<1> QED
  BY <1>2, <1>3

\* Either all request steps have a response or none has.
LEMMA NamedStepsFacts ==
    ASSUME Playable
    PROVE  \/ NamedSteps(test) = RequestSteps
           \/ /\ NamedSteps(test) = {}
              /\ \A n \in RequestSteps : ResponseOf(test, test.steps[n]) = NoName
<1>1. NamedSteps(test) = {n \in RequestSteps : ResponseOf(test, test.steps[n]) # NoName}
  BY DEF NamedSteps, RequestSteps
<1>2. CASE \A n \in RequestSteps : ResponseOf(test, test.steps[n]) # NoName
  BY <1>1, <1>2
<1>3. CASE \E n \in RequestSteps : ResponseOf(test, test.steps[n]) = NoName
  <2>1. PICK n \in RequestSteps : ResponseOf(test, test.steps[n]) = NoName
    BY <1>3
  <2>2. DOMAIN test.responses \subseteq {NoName}
    BY <2>1, MeantIsResponse
  <2>3. ASSUME NEW m \in RequestSteps
        PROVE  ResponseOf(test, test.steps[m]) = NoName
    <3>1. ValidRespondWith(test.steps[m], test.responses)
      BY StepFacts
    <3>2. test.steps[m].respondWith = NoName
      BY <3>1, <2>2 DEF ValidRespondWith
    <3>3. Meant(m) = {ResponseOf(test, test.steps[m])}
      BY MeantIsResponse
    <3>4. Meant(m) = {NoName}
      BY <3>2, <2>2 DEF Meant
    <3> QED
      BY <3>3, <3>4
  <2> QED
    BY <2>3, <1>1
<1> QED
  BY <1>2, <1>3

\* There is a last request step.
LEMMA LastRequestFacts ==
    ASSUME Playable
    PROVE  LastRequest \in RequestSteps
<1> DEFINE N == Len(test.steps)
           T == {j \in Nat : N - j \in RequestSteps}
<1>1. N \in Nat /\ RequestSteps \subseteq 1..N
  BY StepFacts
<1>2. PICK n \in RequestSteps : TRUE
  BY StepFacts
<1>3. N - n \in T
  BY <1>1, <1>2
<1>4. \E x \in T : \A y \in T : <<y, x>> \notin OpToRel(<, Nat)
  <2>1. T \subseteq Nat /\ T # {}
    BY <1>3
  <2> HIDE DEF T
  <2> QED
    BY <2>1, NatLessThanWellFounded, WFMin
<1>5. PICK x \in T : \A y \in T : ~ y < x
  BY <1>4 DEF OpToRel
<1>6. N - x \in RequestSteps
  OBVIOUS
<1>7. ASSUME NEW m \in RequestSteps PROVE m <= N - x
  <2>1. m \in 1..N
    BY <1>1
  <2>2. N - m \in Nat /\ N - (N - m) = m
    BY <2>1, <1>1
  <2>3. N - m \in T
    BY <2>2
  <2>4. x \in Nat /\ ~ N - m < x
    BY <2>3, <1>5
  <2> QED
    BY <2>1, <2>4, <1>1
<1> QED
  BY <1>6, <1>7 DEF LastRequest

LEMMA ServedIsMeant ==
    ASSUME Playable, NEW k
    PROVE  LET n == IF k \in RequestSteps THEN k ELSE LastRequest
           IN  Meant(n) = {ServedName(Script(test), k)}
<1> DEFINE n == IF k \in RequestSteps THEN k ELSE LastRequest
<1>1. n \in RequestSteps
  BY LastRequestFacts
<1> HIDE DEF n
<1>2. Meant(n) = {ResponseOf(test, test.steps[n])}
  BY <1>1, MeantIsResponse
<1>3. ServedName(Script(test), k) = ResponseOf(test, test.steps[n])
  <2>1. CASE NamedSteps(test) = RequestSteps
    <3>1. NamedSteps(test) # {}
      BY <2>1, StepFacts
    <3>2. /\ Script(test).steps = [i \in RequestSteps |-> ResponseOf(test, test.steps[i])]
          /\ Script(test).default = ResponseOf(test, test.steps[LastRequest])
      BY <2>1, <3>1 DEF Script, LastRequest
    <3> QED
      BY <3>2 DEF ServedName, n
  <2>2. CASE /\ NamedSteps(test) = {}
             /\ \A m \in RequestSteps : ResponseOf(test, test.steps[m]) = NoName
    <3>1. DOMAIN Script(test).steps = {} /\ Script(test).default = NoName
      BY <2>2 DEF Script
    <3> QED
      BY <3>1, <2>2, <1>1 DEF ServedName
  <2> QED
    BY <2>1, <2>2, NamedStepsFacts
<1> QED
  BY <1>2, <1>3 DEF n

(***************************************************************************)
(* The groups of sendSteps.                                                *)
(***************************************************************************)

\* The steps that are sent together from step i are neighbours, so the next
\* step after a group of k is the k-th after its first.
LEMMA GroupIsInterval ==
    ASSUME Playable, NEW i \in 1..Len(test.steps)
    PROVE  /\ Cardinality(Group(i)) \in Nat
           /\ i + Cardinality(Group(i)) <= Len(test.steps) + 1
           /\ Group(i) = i..(i + Cardinality(Group(i)) - 1)
<1> DEFINE N == Len(test.steps)
           c == Cardinality(Group(i))
<1>0. N \in Nat
  BY StepFacts
<1> HIDE DEF N
<1>i. i \in 1..N /\ i \in Int
  BY <1>0 DEF N
<1>1. Group(i) \subseteq i..N /\ \A n \in Group(i) : \A m \in i..n : m \in Group(i)
  <2>1. CASE test.steps[i].parallel
    BY <2>1, <1>0 DEF Group, N
  <2>2. CASE ~test.steps[i].parallel
    BY <2>2, <1>0, <1>i DEF Group
  <2> QED
    BY <2>1, <2>2
<1>2. ASSUME NEW b \in Int, b >= i - 1
      PROVE  IsFiniteSet(i..b) /\ Cardinality(i..b) = b - i + 1
  <2>1. IsFiniteSet(i..b) /\ Cardinality(i..b) = IF i > b THEN 0 ELSE b - i + 1
    BY <1>i, FS_Interval
  <2> QED
    BY <2>1, <1>2, <1>i
<1>3. IsFiniteSet(Group(i)) /\ c <= N - i + 1
  <2>1. IsFiniteSet(i..N) /\ Cardinality(i..N) = N - i + 1
    BY <1>0, <1>2, <1>i
  <2>2. IsFiniteSet(Group(i)) /\ Cardinality(Group(i)) <= Cardinality(i..N)
    BY <2>1, <1>1, FS_Subset
  <2> QED
    BY <2>1, <2>2
<1>4. c \in Nat
  BY <1>3, FS_CardinalityType
<1>5. ASSUME NEW n \in Group(i)
      PROVE  n \in i..(i + c - 1)
  <2>1. n \in Int /\ n >= i
    BY <1>1, <1>i
  <2>2. Cardinality(i..n) = n - i + 1 /\ i..n \subseteq Group(i)
    BY <2>1, <1>1, <1>2, <1>i
  <2>3. Cardinality(i..n) <= c
    BY <2>2, <1>3, FS_Subset
  <2> QED
    BY <2>1, <2>2, <2>3, <1>4, <1>i
<1>6. ASSUME NEW n \in i..(i + c - 1), n \notin Group(i)
      PROVE  FALSE
  <2>1. n \in Int /\ n >= i /\ n <= i + c - 1
    BY <1>4, <1>i
  <2>2. \A m \in Group(i) : m \in i..(n - 1)
    <3> TAKE m \in Group(i)
    <3>1. m \in Int /\ m >= i
      BY <1>1, <1>i
    <3>2. ~ n <= m
      BY <3>1, <2>1, <1>1, <1>6
    <3> QED
      BY <3>1, <3>2, <2>1, <1>i
  <2>3. IsFiniteSet(i..(n - 1)) /\ Cardinality(i..(n - 1)) = n - i
    <3>1. n - 1 \in Int /\ n - 1 >= i - 1 /\ (n - 1) - i + 1 = n - i
      BY <2>1, <1>i
    <3> QED
      BY <3>1, <1>2
  <2>4. c <= n - i
    BY <2>2, <2>3, FS_Subset
  <2> QED
    BY <2>1, <2>4, <1>4, <1>i
<1>7. Group(i) = i..(i + c - 1)
  BY <1>5, <1>6
<1>8. i + c <= N + 1
  BY <1>0, <1>3, <1>4, <1>i
<1> QED
  BY <1>4, <1>7, <1>8 DEF N

(***************************************************************************)
(* The steps of the exchange.                                              *)
(***************************************************************************)

\* What depends on nothing but the test.
LEMMA SameTest ==
    ASSUME UNCHANGED test
    PROVE  /\ RequestSteps' = RequestSteps
           /\ \A i : Group(i)' = Group(i)
           /\ \A m, n : Before(m, n)' = Before(m, n)
<1>1. RequestSteps' = RequestSteps /\ \A i : Group(i)' = Group(i)
  BY DEF RequestSteps, Group
<1> QED
  BY <1>1 DEF Before

LEMMA InitExchangeInv == ExchangeInit => EntriesInv /\ ExchangeInv
<1> SUFFICES ASSUME ExchangeInit PROVE EntriesInv /\ ExchangeInv
  OBVIOUS
<1>0. Init
  BY DEF ExchangeInit
<1>1. EntriesInv
  <2>1. entries \in Seq(Entry) /\ failed = FALSE /\ phase = "adding" /\ next = 1
    BY <1>0, CorpusAssumption DEF Init
  <2>2. ById = {}
    BY <1>0 DEF Init, ById
  <2>3. \A i \in DOMAIN entries : ~ i < next
    BY <2>1
  <2> QED
    BY <2>1, <2>2, <2>3 DEF EntriesInv
<1>2. /\ xpc = "idle" /\ log = <<>> /\ via = <<>> /\ due = {} /\ script = Nil /\ at = 1
      /\ obs = <<>> /\ outcome = "none" /\ DOMAIN log = {} /\ DOMAIN via = {}
  BY DEF ExchangeInit
<1>3. PlayInv /\ SeenInv
  BY <1>2 DEF PlayInv, SeenInv
<1>4. LogInv
  <2>1. Len(log) \in Nat /\ DOMAIN log = 1..Len(log)
    BY <1>2
  <2>2. log \in Seq({log[i] : i \in DOMAIN log})
    BY <1>2
  <2> QED
    BY <2>1, <2>2, <1>2 DEF LogInv, IsSeq
<1>5. SentInv /\ StepsArriveInOrder
  BY <1>2 DEF SentInv, StepsArriveInOrder
<1> QED
  BY <1>1, <1>3, <1>4, <1>5 DEF ExchangeInv

LEMMA ExerciseInv ==
    ASSUME IInv, EntriesInv, ExchangeInv, Exercise
    PROVE  ExchangeInv'
<1>1. /\ xpc = "idle" /\ phase = "selected" /\ Subject \in chosen
      /\ xpc' = "steps" /\ test' = DefinitionOf(Subject) /\ script' = Script(test')
      /\ obs' = [n \in DOMAIN test'.steps |-> NotSeen]
      /\ via' = [n \in DOMAIN test'.steps |-> 0]
      /\ UNCHANGED <<at, due, seen, outcome, log>>
  BY DEF Exercise
<1>2. PlayInv /\ SeenInv
  BY DEF ExchangeInv
<1>3. log' = <<>> /\ due' = {} /\ at' = 1 /\ outcome' = "none"
  BY <1>1, <1>2 DEF PlayInv, SeenInv
<1>4. test' \in Definitions /\ Validate(test')
  BY <1>1, SelectedIsValid
<1>5. Len(test'.steps) \in Nat
  BY <1>4, DefinitionsAssumption DEF IsList
<1>6. PlayInv'
  <2>1. at' \in 1..(Len(test'.steps) + 1)
    BY <1>3, <1>5
  <2>2. via' \in [DOMAIN test'.steps -> Nat] /\ DOMAIN obs' = DOMAIN test'.steps
    BY <1>1
  <2> QED
    BY <2>1, <2>2, <1>1, <1>3, <1>4 DEF PlayInv
<1>7. LogInv'
  <2>1. Len(log') \in Nat /\ DOMAIN log' = 1..Len(log') /\ DOMAIN log' = {}
    BY <1>3
  <2>2. log' \in Seq({log'[i] : i \in DOMAIN log'})
    BY <1>3
  <2> QED
    BY <2>1, <2>2 DEF LogInv, IsSeq
<1>8. SentInv' /\ StepsArriveInOrder'
  <2>1. \A n \in DOMAIN via' : via'[n] = 0
    BY <1>1
  <2>2. Len(log') = 0
    BY <1>3
  <2> QED
    BY <2>1, <2>2, <1>3 DEF SentInv, StepsArriveInOrder
<1>9. SeenInv'
  BY <1>1, <1>3 DEF SeenInv
<1> QED
  BY <1>6, <1>7, <1>8, <1>9 DEF ExchangeInv

\* The steps of the client that send nothing but move on.
LEMMA SendInv ==
    ASSUME ExchangeInv, Pause \/ SendGroup
    PROVE  ExchangeInv'
<1>1. /\ xpc = "steps" /\ due = {} /\ at <= Len(test.steps)
      /\ UNCHANGED <<xpc, test, obs, seen, outcome, script, log, via>>
  BY DEF Pause, SendGroup, Sending
<1>2. PlayInv /\ LogInv /\ SentInv /\ SeenInv /\ StepsArriveInOrder
  BY DEF ExchangeInv
<1>3. Playable /\ Len(test.steps) \in Nat
  BY <1>1, <1>2, DefinitionsAssumption DEF PlayInv, Playable, IsList
<1>4. at \in 1..Len(test.steps) /\ DOMAIN test.steps = 1..Len(test.steps)
  BY <1>1, <1>2, <1>3, StepFacts DEF PlayInv
<1>5. /\ RequestSteps' = RequestSteps
      /\ \A i : Group(i)' = Group(i)
      /\ \A m, n : Before(m, n)' = Before(m, n)
  BY <1>1, SameTest
<1>6. /\ due' \subseteq RequestSteps
      /\ at' \in 1..(Len(test.steps) + 1) /\ at' >= at
      /\ \A n \in due' : n < at'
      /\ due' # {} => \E i \in 1..(at' - 1) : due' \subseteq Group(i) /\ i..(at' - 1) \subseteq Group(i)
  <2>1. CASE Pause
    <3>1. due' = {} /\ at' = at + 1
      BY <2>1, <1>1 DEF Pause
    <3> QED
      BY <3>1, <1>3, <1>4
  <2>2. CASE SendGroup
    <3>1. due' = Group(at) /\ at' = at + Cardinality(Group(at)) /\ ~IsWait(test.steps[at])
      BY <2>2 DEF SendGroup
    <3>2. /\ Cardinality(Group(at)) \in Nat
          /\ at' <= Len(test.steps) + 1
          /\ Group(at) = at..(at' - 1)
      BY <3>1, <1>3, <1>4, GroupIsInterval
    <3>3. \A n \in Group(at) : n \in 1..Len(test.steps) /\ ~IsWait(test.steps[n])
      <4>1. CASE test.steps[at].parallel
        <5> TAKE n \in Group(at)
        <5>1. n \in at..Len(test.steps) /\ \A m \in at..n : ~IsWait(test.steps[m])
          BY <4>1 DEF Group
        <5>2. n \in at..n /\ n \in 1..Len(test.steps)
          BY <5>1, <1>3, <1>4
        <5> QED
          BY <5>1, <5>2
      <4>2. CASE ~test.steps[at].parallel
        BY <4>2, <3>1, <1>4 DEF Group
      <4> QED
        BY <4>1, <4>2
    <3>4. due' \subseteq RequestSteps
      BY <3>1, <3>3, <1>4 DEF RequestSteps
    <3>5. at' \in 1..(Len(test.steps) + 1) /\ at' >= at /\ \A n \in at..(at' - 1) : n < at'
      BY <3>1, <3>2, <1>3, <1>4
    <3>6. ASSUME due' # {}
          PROVE  at \in 1..(at' - 1)
      <4>1. at \in Int /\ at >= 1 /\ at' \in Int
        BY <3>5, <1>3, <1>4
      <4>2. \A a, b \in Int : a >= 1 /\ a..(b - 1) # {} => a \in 1..(b - 1)
        OBVIOUS
      <4>3. at..(at' - 1) # {}
        BY <3>1, <3>2, <3>6
      <4> QED
        BY <4>1, <4>2, <4>3
    <3> QED
      BY <3>1, <3>2, <3>4, <3>5, <3>6
  <2> QED
    BY <2>1, <2>2
<1>7. PlayInv'
  BY <1>1, <1>2, <1>5, <1>6 DEF PlayInv
<1>8. LogInv'
  BY <1>1, <1>2, <1>5 DEF LogInv
<1>9. SentInv'
  <2>1. \A n \in DOMAIN via : n \in Int
    BY <1>1, <1>2, <1>4 DEF PlayInv
  <2>2. \A n \in DOMAIN via : via[n] # 0 => n < at'
    BY <2>1, <1>1, <1>2, <1>4, <1>6 DEF SentInv
  <2> QED
    BY <2>2, <1>1, <1>2, <1>5, <1>6 DEF SentInv
<1>10. SeenInv' /\ StepsArriveInOrder'
  BY <1>1, <1>2, <1>5 DEF SeenInv, StepsArriveInOrder
<1> QED
  BY <1>7, <1>8, <1>9, <1>10 DEF ExchangeInv

LEMMA JudgeInv ==
    ASSUME ExchangeInv, FetchLog \/ JudgeTest \/ DeleteScript
    PROVE  ExchangeInv'
<1>1. /\ UNCHANGED <<test, at, due, obs, log, via>>
      /\ xpc # "idle" /\ xpc' \in {"judging", "judged", "done"}
      /\ script' \in {script, Nil}
      /\ outcome' # outcome => xpc' = "judged"
      /\ xpc' = "judging" => xpc = "steps" /\ seen' = log /\ due = {} /\ outcome' = outcome
      /\ xpc' # "judging" => xpc \in {"judging", "judged"} /\ seen' = seen
  BY DEF FetchLog, JudgeTest, DeleteScript
<1>2. PlayInv /\ LogInv /\ SentInv /\ SeenInv /\ StepsArriveInOrder
  BY DEF ExchangeInv
<1>3. /\ RequestSteps' = RequestSteps
      /\ \A i : Group(i)' = Group(i)
      /\ \A m, n : Before(m, n)' = Before(m, n)
  BY <1>1, SameTest
<1>4. PlayInv'
  BY <1>1, <1>2, <1>3 DEF PlayInv
<1>5. LogInv' /\ SentInv' /\ StepsArriveInOrder'
  BY <1>1, <1>2, <1>3 DEF LogInv, SentInv, StepsArriveInOrder
<1>6. SeenInv'
  <2>1. Len(log) \in 0..Len(log) /\ DOMAIN log = 1..Len(log)
    BY <1>2 DEF LogInv, IsSeq
  <2>2. CASE xpc' = "judging"
    BY <2>1, <2>2, <1>1, <1>2 DEF SeenInv
  <2>3. CASE xpc' # "judging"
    BY <2>3, <1>1, <1>2 DEF SeenInv
  <2> QED
    BY <2>2, <2>3
<1> QED
  BY <1>4, <1>5, <1>6 DEF ExchangeInv

\* A sequence with one more element.
LEMMA AppendFacts ==
    ASSUME NEW s, NEW e, IsSeq(s)
    PROVE  LET p == Append(s, e)
           IN  /\ IsSeq(p) /\ Len(p) = Len(s) + 1
               /\ \A i \in 1..Len(s) : p[i] = s[i]
               /\ p[Len(p)] = e
<1> DEFINE R == {s[i] : i \in DOMAIN s} \cup {e}
           p == Append(s, e)
<1>0. Len(s) \in Nat /\ DOMAIN s = 1..Len(s) /\ s \in Seq({s[i] : i \in DOMAIN s})
  BY DEF IsSeq
<1>1. \A i \in 1..Len(s) : s[i] \in R
  BY <1>0
<1>2. s \in Seq(R) /\ e \in R
  <2>1. s \in [1..Len(s) -> {s[i] : i \in DOMAIN s}]
    BY <1>0
  <2>2. s \in [1..Len(s) -> R]
    BY <2>1, <1>1
  <2> QED
    BY <2>2, <1>0
<1> HIDE DEF R
<1>3. /\ p \in Seq(R) /\ Len(p) = Len(s) + 1 /\ DOMAIN p = 1..(Len(s) + 1)
      /\ \A i \in 1..Len(s) : p[i] = s[i]
      /\ p[Len(s) + 1] = e
  BY <1>0, <1>2
<1> HIDE DEF p
<1>4. p \in [1..Len(p) -> {p[i] : i \in DOMAIN p}]
  <2>1. p \in [1..Len(p) -> R] /\ DOMAIN p = 1..Len(p)
    BY <1>3
  <2> QED
    BY <2>1
<1>5. Len(p) \in Nat /\ DOMAIN p = 1..Len(p)
  BY <1>0, <1>3
<1>6. p \in Seq({p[i] : i \in DOMAIN p})
  BY <1>4, <1>5
<1> QED
  BY <1>3, <1>5, <1>6 DEF p, IsSeq

\* What a request that reaches the origin adds to the log.
LEMMA ReachesFacts ==
    ASSUME ExchangeInv, xpc # "idle", NEW r, NEW k \in RequestSteps \cup {0}, Reaches(r, k),
           UNCHANGED <<test, script>>
    PROVE  /\ LogInv'
           /\ Len(log') = Len(log) + 1 /\ DOMAIN log \subseteq DOMAIN log'
           /\ \A i \in DOMAIN log : log'[i] = log[i]
<1>1. PlayInv /\ LogInv
  BY DEF ExchangeInv
<1>2. script = Script(test) /\ log' = Append(log, LogEntry(r, k))
  BY <1>1 DEF Reaches, PlayInv
<1> DEFINE e == LogEntry(r, k)
<1>3. e.step = k /\ e.response = ServedName(Script(test), k)
  BY <1>2 DEF LogEntry
<1> HIDE DEF e
<1>4. Len(log) \in Nat /\ DOMAIN log = 1..Len(log) /\ IsSeq(log)
  BY <1>1 DEF LogInv, IsSeq
<1> DEFINE p == Append(log, e)
<1>5. /\ IsSeq(p) /\ Len(p) = Len(log) + 1
      /\ \A i \in 1..Len(log) : p[i] = log[i]
      /\ p[Len(p)] = e
  BY <1>4, AppendFacts, Zenon
<1>6. log' = p
  BY <1>2 DEF e
<1> HIDE DEF p
<1>d. DOMAIN p = 1..(Len(log) + 1)
  BY <1>5 DEF IsSeq
<1>7. RequestSteps' = RequestSteps
  BY SameTest
<1>8. \A i \in 1..(Len(log) + 1) : i \in 1..Len(log) \/ i = Len(log) + 1
  BY <1>4
<1>9. LogInv'
  <2>1. \A i \in DOMAIN p : /\ p[i].step \in RequestSteps \cup {0}
                            /\ p[i].response = ServedName(Script(test), p[i].step)
    BY <1>1, <1>3, <1>4, <1>5, <1>8, <1>d DEF LogInv
  <2> QED
    BY <2>1, <1>5, <1>6, <1>7 DEF LogInv
<1>10. DOMAIN log \subseteq DOMAIN log'
  BY <1>4, <1>6, <1>d
<1> QED
  BY <1>4, <1>5, <1>6, <1>9, <1>10

\* Whatever the proxy does, only a step under way is answered, and by the last
\* request of the log if by one at all.
LEMMA AnswerInv ==
    ASSUME ExchangeInv, xpc # "idle", UNCHANGED <<xpc, test, at, seen, outcome>>,
           script' \in {script, Nil},
           due' \subseteq due, DOMAIN obs' = DOMAIN obs,
           LogInv', DOMAIN log \subseteq DOMAIN log', \A i \in DOMAIN log : log'[i] = log[i],
           via' \in [DOMAIN via -> Nat],
           \A n \in DOMAIN via : 
              \/ via'[n] = via[n]
              \/ n \in due /\ via'[n] = Len(log') /\ Len(log') > Len(log)
    PROVE  ExchangeInv'
<1>1. PlayInv /\ LogInv /\ SentInv /\ SeenInv /\ StepsArriveInOrder
  BY DEF ExchangeInv
<1>2. /\ RequestSteps' = RequestSteps
      /\ \A i : Group(i)' = Group(i)
      /\ \A m, n : Before(m, n)' = Before(m, n)
  BY SameTest
<1>3. Playable
  BY <1>1 DEF PlayInv, Playable
<1>4. Len(test.steps) \in Nat /\ DOMAIN test.steps = 1..Len(test.steps) /\ at \in 1..(Len(test.steps) + 1)
  BY <1>1, <1>3, StepFacts DEF PlayInv
<1>5. /\ Len(log) \in Nat /\ Len(log') \in Nat
      /\ DOMAIN log = 1..Len(log) /\ DOMAIN log' = 1..Len(log')
  BY <1>1 DEF LogInv, IsSeq
<1>6. Len(log) <= Len(log')
  <2>1. CASE Len(log) = 0
    BY <2>1, <1>5
  <2>2. CASE Len(log) # 0
    <3>1. Len(log) \in DOMAIN log'
      BY <2>2, <1>5
    <3> QED
      BY <3>1, <1>5
  <2> QED
    BY <2>1, <2>2
<1>7. DOMAIN via = 1..Len(test.steps) /\ \A n \in DOMAIN via : via[n] \in Nat /\ via'[n] \in Nat
  BY <1>1, <1>4 DEF PlayInv
<1>8. PlayInv'
  <2>1. DOMAIN via = DOMAIN test.steps
    BY <1>1 DEF PlayInv
  <2> QED
    BY <2>1, <1>1, <1>2 DEF PlayInv
<1>9. SentInv'
  <2>1. DOMAIN via' = DOMAIN via
    OBVIOUS
  <2>2. \A n \in DOMAIN via : via'[n] <= Len(log') /\ (via'[n] # 0 => n < at)
    <3> TAKE n \in DOMAIN via
    <3>1. via[n] <= Len(log) /\ (via[n] # 0 => n < at) /\ (n \in due => n < at)
      BY <1>1 DEF SentInv
    <3> QED
      BY <3>1, <1>5, <1>6, <1>7
  <2>3. ASSUME due' # {}
        PROVE  \E i \in 1..(at - 1) : due' \subseteq Group(i) /\ i..(at - 1) \subseteq Group(i)
    BY <2>3, <1>1 DEF SentInv
  <2>4. \A n \in due' : n < at
    BY <1>1 DEF SentInv
  <2> QED
    BY <2>1, <2>2, <2>3, <2>4, <1>2 DEF SentInv
<1>10. SeenInv'
  <2>1. ASSUME xpc \in {"judging", "judged", "done"}
        PROVE  /\ due' = {} /\ Len(seen) \in 0..Len(log') /\ DOMAIN seen = 1..Len(seen)
               /\ \A i \in DOMAIN seen : seen[i] = log'[i]
    <3>1. /\ due = {} /\ Len(seen) \in 0..Len(log) /\ DOMAIN seen = 1..Len(seen)
          /\ \A i \in DOMAIN seen : seen[i] = log[i]
      BY <2>1, <1>1 DEF SeenInv
    <3>2. Len(seen) \in 0..Len(log') /\ DOMAIN seen \subseteq DOMAIN log
      BY <3>1, <1>5, <1>6
    <3> QED
      BY <3>1, <3>2
  <2> QED
    BY <2>1, <1>1 DEF SeenInv
<1>11. StepsArriveInOrder'
  <2> SUFFICES ASSUME NEW m \in DOMAIN via, NEW n \in DOMAIN via, Before(m, n),
                      via'[m] # 0, via'[n] # 0
               PROVE  via'[m] < via'[n]
    BY <1>2 DEF StepsArriveInOrder
  <2>1. m \in Int /\ n \in Int /\ m < n
    BY <1>4, <1>7 DEF Before
  <2>2. /\ via[m] <= Len(log) /\ via[n] <= Len(log)
        /\ via'[n] # 0 => n < at
    <3>1. via[n] # 0 => n < at
      BY <1>1 DEF SentInv
    <3>2. n \in due => n < at
      BY <1>1 DEF SentInv
    <3> QED
      BY <3>1, <3>2, <1>1 DEF SentInv
  <2>3. m \notin due
    <3> SUFFICES ASSUME m \in due PROVE FALSE
      OBVIOUS
    <3>1. PICK i \in 1..(at - 1) : due \subseteq Group(i) /\ i..(at - 1) \subseteq Group(i)
      BY <1>1 DEF SentInv
    <3>2. i \in 1..Len(test.steps)
      BY <1>4
    <3>3. Group(i) = i..(i + Cardinality(Group(i)) - 1) /\ Cardinality(Group(i)) \in Nat
      BY <3>2, <1>3, GroupIsInterval
    <3>4. m \in i..(i + Cardinality(Group(i)) - 1)
      BY <3>1, <3>3
    <3>5. i \in 1..m
      BY <3>2, <3>3, <3>4, <2>1, <1>4
    <3>6. n \in i..(at - 1)
      BY <3>5, <2>1, <2>2, <1>4
    <3>7. {m, n} \subseteq Group(i)
      BY <3>1, <3>6
    <3> QED
      BY <3>5, <3>7 DEF Before
  <2>4. via'[m] = via[m]
    BY <2>3
  <2>5. CASE via'[n] = via[n]
    BY <2>4, <2>5, <1>1 DEF StepsArriveInOrder
  <2>6. CASE via'[n] # via[n]
    <3>1. via'[n] = Len(log') /\ Len(log') > Len(log)
      BY <2>6
    <3> QED
      BY <3>1, <2>2, <2>4, <1>5, <1>7
  <2> QED
    BY <2>5, <2>6
<1> QED
  BY <1>8, <1>9, <1>10, <1>11 DEF ExchangeInv

\* A step that the proxy answers by itself, or not at all.
LEMMA OwnAnswerInv ==
    ASSUME ExchangeInv, NEW n \in due, AnswersItself(n) \/ RequestFails(n)
    PROVE  ExchangeInv'
<1>1. /\ due' = due \ {n} /\ \E o : obs' = [obs EXCEPT ![n] = o]
      /\ UNCHANGED <<xpc, test, at, seen, outcome, script, log, via>>
  BY DEF AnswersItself, RequestFails, Answered
<1>2. PlayInv /\ LogInv
  BY DEF ExchangeInv
<1>3. xpc # "idle"
  BY <1>2 DEF PlayInv
<1>4. DOMAIN obs' = DOMAIN obs /\ due' \subseteq due
  BY <1>1
<1>5. LogInv'
  <2>1. RequestSteps' = RequestSteps
    BY <1>1, SameTest
  <2> QED
    BY <2>1, <1>1, <1>2 DEF LogInv
<1>6. via' \in [DOMAIN via -> Nat] /\ DOMAIN log \subseteq DOMAIN log'
  BY <1>1, <1>2, <1>3 DEF PlayInv
<1> QED
  BY <1>1, <1>3, <1>4, <1>5, <1>6, AnswerInv

\* A step that is answered by a request that reaches the origin.
LEMMA ForwardInv ==
    ASSUME ExchangeInv, NEW n \in due, NEW k \in {n, 0}, NEW r, Reaches(r, k),
           NEW o, Answered(n, o), via' = [via EXCEPT ![n] = Len(log) + 1]
    PROVE  ExchangeInv'
<1>1. /\ due' = due \ {n} /\ obs' = [obs EXCEPT ![n] = o]
      /\ UNCHANGED <<xpc, test, at, seen, outcome, script>>
  BY DEF Answered
<1>2. PlayInv /\ LogInv
  BY DEF ExchangeInv
<1>3. xpc # "idle" /\ n \in RequestSteps
  BY <1>2 DEF PlayInv
<1>4. k \in RequestSteps \cup {0}
  BY <1>3
<1>5. /\ LogInv'
      /\ Len(log') = Len(log) + 1 /\ DOMAIN log \subseteq DOMAIN log'
      /\ \A i \in DOMAIN log : log'[i] = log[i]
  BY <1>1, <1>3, <1>4, ReachesFacts
<1>6. Len(log) \in Nat /\ Len(log) + 1 > Len(log)
  BY <1>2 DEF LogInv, IsSeq
<1>7. /\ via' \in [DOMAIN via -> Nat]
      /\ \A m \in DOMAIN via : via'[m] = via[m] \/ (m \in due /\ via'[m] = Len(log) + 1)
  <2>1. via \in [DOMAIN via -> Nat]
    BY <1>2, <1>3 DEF PlayInv
  <2>2. Len(log) + 1 \in Nat
    BY <1>6
  <2> QED
    BY <2>1, <2>2
<1>8. DOMAIN obs' = DOMAIN obs /\ due' \subseteq due
  BY <1>1
<1> QED
  BY <1>1, <1>3, <1>5, <1>6, <1>7, <1>8, AnswerInv

LEMMA SendsAgainInv ==
    ASSUME ExchangeInv, NEW n \in DOMAIN obs, SendsAgain(n)
    PROVE  ExchangeInv'
<1>1. /\ xpc # "idle" /\ ~IsWait(test.steps[n])
      /\ UNCHANGED <<xpc, test, at, due, obs, seen, outcome, script, via>>
  BY DEF SendsAgain, client
<1>2. PlayInv
  BY DEF ExchangeInv
<1>3. n \in RequestSteps
  BY <1>1, <1>2 DEF PlayInv, RequestSteps
<1>4. PICK r : Reaches(r, n)
  BY DEF SendsAgain
<1>5. /\ LogInv' /\ DOMAIN log \subseteq DOMAIN log' /\ \A i \in DOMAIN log : log'[i] = log[i]
  BY <1>1, <1>3, <1>4, ReachesFacts
<1>6. via' \in [DOMAIN via -> Nat]
  BY <1>1, <1>2 DEF PlayInv
<1> QED
  BY <1>1, <1>5, <1>6, AnswerInv

LEMMA NextExchangeInv ==
    IInv /\ EntriesInv /\ ExchangeInv /\ [ExchangeNext]_allVars => ExchangeInv'
<1> SUFFICES ASSUME IInv, EntriesInv, ExchangeInv, [ExchangeNext]_allVars PROVE ExchangeInv'
  OBVIOUS
<1>1. CASE UNCHANGED exchange
  <2>1. UNCHANGED <<xpc, test, at, due, obs, seen, outcome, script, log, via>>
    BY <1>1 DEF exchange, client
  <2>2. /\ RequestSteps' = RequestSteps
        /\ \A i : Group(i)' = Group(i)
        /\ \A m, n : Before(m, n)' = Before(m, n)
    BY <2>1, SameTest
  <2>3. PlayInv'
    BY <2>1, <2>2 DEF ExchangeInv, PlayInv
  <2>4. LogInv' /\ SentInv' /\ SeenInv' /\ StepsArriveInOrder'
    BY <2>1, <2>2 DEF ExchangeInv, LogInv, SentInv, SeenInv, StepsArriveInOrder
  <2> QED
    BY <2>3, <2>4 DEF ExchangeInv
<1>2. CASE ClientStep
  BY <1>2, ExerciseInv, SendInv, JudgeInv DEF ClientStep
<1>3. CASE ProxyStep
  <2>1. ASSUME NEW n \in due, AnswersItself(n) \/ RequestFails(n)
        PROVE  ExchangeInv'
    BY <2>1, OwnAnswerInv
  <2>2. ASSUME NEW n \in due, ForwardsConditionally(n)
        PROVE  ExchangeInv'
    <3>1. /\ Reaches(Revalidates(RequestOf(n)), n) /\ \E o : Answered(n, o)
          /\ via' = [via EXCEPT ![n] = Len(log) + 1]
      BY <2>2 DEF ForwardsConditionally
    <3> QED
      BY <3>1, ForwardInv
  <2>3. ASSUME NEW n \in due, NEW k \in {n, 0}, NEW interim \in BOOLEAN, Forwards(n, k, interim)
        PROVE  ExchangeInv'
    <3>1. /\ Reaches(RequestOf(n), k) /\ \E o : Answered(n, o)
          /\ via' = [via EXCEPT ![n] = Len(log) + 1]
      BY <2>3 DEF Forwards
    <3> QED
      BY <3>1, ForwardInv
  <2>4. ASSUME NEW n \in DOMAIN obs, SendsAgain(n)
        PROVE  ExchangeInv'
    BY <2>4, SendsAgainInv
  <2> QED
    BY <1>3, <2>1, <2>2, <2>3, <2>4 DEF ProxyStep
<1> QED
  BY <1>1, <1>2, <1>3 DEF ExchangeNext, Over, allVars

(***************************************************************************)
(* What is judged: the first request of a step, which is in every longer   *)
(* log too.                                                                *)
(***************************************************************************)

LEMMA MinFacts ==
    ASSUME NEW S \in SUBSET Nat, NEW m \in S, \A i \in S : m <= i
    PROVE  Min(S) = m
<1>1. Min(S) \in S /\ \A i \in S : Min(S) <= i
  BY DEF Min
<1>2. m \in Nat /\ Min(S) \in Nat /\ m <= Min(S) /\ Min(S) <= m
  BY <1>1
<1> QED
  BY <1>2

LEMMA SameFirstRequest ==
    ASSUME ExchangeInv, outcome # "none", NEW n, ~NoEntries(LogStep(seen, n))
    PROVE  /\ ~NoEntries(LogStep(log, n))
           /\ LogStep(log, n)[Min(DOMAIN LogStep(log, n))]
                 = LogStep(seen, n)[Min(DOMAIN LogStep(seen, n))]
<1> DEFINE S == {i \in DOMAIN seen : seen[i].step = n}
           L == {i \in DOMAIN log : log[i].step = n}
<1>1. /\ Len(log) \in Nat /\ DOMAIN log = 1..Len(log)
      /\ Len(seen) \in 0..Len(log) /\ DOMAIN seen = 1..Len(seen)
      /\ \A i \in DOMAIN seen : seen[i] = log[i]
  BY DEF ExchangeInv, LogInv, IsSeq, SeenInv
<1>2. /\ LogStep(seen, n) = [i \in S |-> seen[i]] /\ LogStep(log, n) = [i \in L |-> log[i]]
      /\ DOMAIN LogStep(seen, n) = S /\ DOMAIN LogStep(log, n) = L
  BY DEF LogStep, Restrict
<1>3. S \subseteq Nat /\ L \subseteq Nat /\ S # {}
  BY <1>1, <1>2 DEF NoEntries
<1>4. S \subseteq L /\ \A i \in L : i \in S \/ i > Len(seen)
  BY <1>1
<1>5. \A i \in S : i <= Len(seen)
  BY <1>1
<1> HIDE DEF S, L
<1>6. \E m \in S : \A i \in S : <<i, m>> \notin OpToRel(<, Nat)
  BY <1>3, NatLessThanWellFounded, WFMin
<1>7. PICK m \in S : \A i \in S : ~ i < m
  BY <1>3, <1>6 DEF OpToRel
<1>8. Len(seen) \in Nat
  BY <1>1
<1>9. \A i \in S : m <= i
  BY <1>3, <1>7
<1>10. \A i \in L : m <= i
  BY <1>3, <1>4, <1>5, <1>8, <1>9
<1>11. Min(S) = m /\ Min(L) = m /\ m \in L
  BY <1>3, <1>4, <1>9, <1>10, MinFacts
<1>12. seen[m] = log[m]
  BY <1>1 DEF S
<1> QED
  BY <1>2, <1>11, <1>12 DEF NoEntries

LEMMA SameJudgment ==
    ASSUME ExchangeInv, outcome # "none", NEW e, NEW o, NEW n, ~NoEntries(LogStep(seen, n))
    PROVE  EvaluateStep(e, o, LogStep(seen, n)) <=> EvaluateStep(e, o, LogStep(log, n))
<1> DEFINE f == LogStep(seen, n)
           g == LogStep(log, n)
<1>1. ~NoEntries(f) /\ ~NoEntries(g) /\ g[Min(DOMAIN g)] = f[Min(DOMAIN f)]
  BY SameFirstRequest
<1> HIDE DEF f, g
<1>2. CheckForwarded(e.forwarded, f) <=> CheckForwarded(e.forwarded, g)
  BY <1>1 DEF CheckForwarded
<1>3. CheckForwardedHeaders(e, f) <=> CheckForwardedHeaders(e, g)
  BY <1>1 DEF CheckForwardedHeaders
<1> QED
  BY <1>2, <1>3 DEF EvaluateStep, f, g

(***************************************************************************)
(* The verdict.                                                            *)
(***************************************************************************)

LEMMA EmptyIsList == IsList(<<>>)
BY DEF IsList

\* What the origin writes has a list of interim responses.
LEMMA WrittenFacts ==
    ASSUME Playable, script = Script(test), NEW r, NEW k
    PROVE  /\ IsList(Written(r, k).interim)
           /\ [Written(r, k) EXCEPT !.interim = <<>>].interim = <<>>
<1> DEFINE resp == ServedResponse(script, k)
           w == Written(r, k)
<1>1. IsList(resp.interim)
  <2>1. script.responses = test.responses
    BY DEF Script
  <2>2. CASE ServedName(script, k) \in DOMAIN test.responses
    <3> DEFINE name == ServedName(script, k)
    <3>1. resp = test.responses[name]
      BY <2>1, <2>2 DEF ServedResponse
    <3>2. test.responses[name] # Nil
      BY <2>2 DEF Playable, Validate, ValidResponse
    <3>3. IsList(test.responses[name].interim)
      <4> HIDE DEF name
      <4>1. name \in DOMAIN test.responses
        BY <2>2 DEF name
      <4>2. test \in Definitions
        BY DEF Playable
      <4> QED
        BY <4>1, <4>2, <3>2, DefinitionsAssumption, Zenon
    <3> QED
      BY <3>1, <3>3
  <2>3. CASE ServedName(script, k) \notin DOMAIN test.responses
    <3>1. resp = ZeroResponse
      BY <2>1, <2>3 DEF ServedResponse
    <3>2. resp.interim = <<>>
      <4>1. ZeroResponse.interim = <<>>
        BY DEF ZeroResponse
      <4> QED
        BY <3>1, <4>1
    <3> QED
      BY <3>2, EmptyIsList, Zenon
  <2> QED
    BY <2>2, <2>3
<1>2. w.interim = [i \in DOMAIN resp.interim |-> resp.interim[i].status]
  BY DEF Written, OnWire
<1>3. [w EXCEPT !.interim = <<>>].interim = <<>>
  BY DEF Written, OnWire
<1> HIDE DEF resp, w
<1>4. IsList(w.interim)
  <2>1. DOMAIN w.interim = 1..Len(resp.interim) /\ Len(resp.interim) \in Nat
    BY <1>1, <1>2 DEF IsList
  <2>2. w.interim = [i \in 1..Len(resp.interim) |-> resp.interim[i].status]
    BY <1>1, <1>2 DEF IsList
  <2>3. Len(w.interim) = Len(resp.interim)
    BY <2>1, <2>2
  <2> QED
    BY <2>1, <2>3 DEF IsList
<1> QED
  BY <1>3, <1>4 DEF w

\* An answer with a list of interim responses, while steps are under way.
LEMMA AnsweredJudged ==
    ASSUME ExchangeInv, JudgedInv, NEW n \in due, NEW o, Answered(n, o), IsList(o.interim),
           stored' # Nil => IsList(stored'.interim)
    PROVE  JudgedInv'
<1>1. obs' = [obs EXCEPT ![n] = o] /\ UNCHANGED <<xpc, outcome>>
  BY DEF Answered
<1>2. outcome = "none"
  BY DEF ExchangeInv, SeenInv
<1>3. \A m \in DOMAIN obs' : IsList(obs'[m].interim)
  <2> TAKE m \in DOMAIN obs'
  <2>1. m \in DOMAIN obs /\ (obs'[m] = o \/ obs'[m] = obs[m])
    BY <1>1
  <2> QED
    BY <2>1 DEF JudgedInv
<1> QED
  BY <1>1, <1>2, <1>3 DEF JudgedInv

LEMMA NextJudgedInv ==
    ExchangeInv /\ JudgedInv /\ [ExchangeNext]_allVars => JudgedInv'
<1> SUFFICES ASSUME ExchangeInv, JudgedInv, [ExchangeNext]_allVars PROVE JudgedInv'
  OBVIOUS
<1>0. IsList(NotSeen.interim) /\ IsList(GatewayError.interim)
      /\ IsList([NotSeen EXCEPT !.err = TRUE].interim)
  BY EmptyIsList DEF NotSeen, GatewayError
<1>1. CASE UNCHANGED <<test, obs, seen, outcome, stored>>
  BY <1>1 DEF JudgedInv
<1>2. CASE Exercise
  <2>1. outcome' = "none" /\ stored' = stored
    BY <1>2 DEF Exercise, ExchangeInv, SeenInv
  <2>2. \A n \in DOMAIN obs' : obs'[n] = NotSeen
    BY <1>2 DEF Exercise
  <2> QED
    BY <2>1, <2>2, <1>0 DEF JudgedInv
<1>3. CASE FetchLog
  <2>1. outcome' = "none" /\ UNCHANGED <<obs, stored>>
    BY <1>3 DEF FetchLog, ExchangeInv, SeenInv
  <2> QED
    BY <2>1 DEF JudgedInv
<1>4. CASE JudgeTest
  <2>1. /\ outcome' = Verdict(test, Failures(test, obs, seen))
        /\ UNCHANGED <<test, obs, seen, stored>>
    BY <1>4 DEF JudgeTest
  <2> QED
    BY <2>1 DEF JudgedInv
<1>5. ASSUME NEW n \in due, AnswersItself(n) \/ RequestFails(n)
      PROVE  JudgedInv'
  <2>1. PICK o : Answered(n, o) /\ IsList(o.interim)
    BY <1>0, <1>5 DEF AnswersItself, RequestFails, JudgedInv
  <2>2. stored' = stored
    BY <1>5 DEF AnswersItself, RequestFails
  <2> QED
    BY <2>1, <2>2, AnsweredJudged DEF JudgedInv
<1>6. ASSUME NEW n \in due, script # Nil
      PROVE  Playable /\ script = Script(test)
  BY <1>6 DEF ExchangeInv, PlayInv, Playable
<1>7. ASSUME NEW n \in due, ForwardsConditionally(n)
      PROVE  JudgedInv'
  <2> DEFINE w == Written(Revalidates(RequestOf(n)), n)
  <2>1. /\ script # Nil
        /\ Answered(n, IF w.status = 304 THEN stored ELSE w)
        /\ stored' = IF w.status = 200 THEN w ELSE stored
    BY <1>7 DEF ForwardsConditionally, Reaches
  <2>2. IsList(w.interim)
    BY <2>1, <1>6, WrittenFacts
  <2>3. stored # Nil /\ IsList(stored.interim)
    BY <1>7 DEF ForwardsConditionally, JudgedInv
  <2> HIDE DEF w
  <2>4. IsList((IF w.status = 304 THEN stored ELSE w).interim) /\ IsList(stored'.interim)
    BY <2>1, <2>2, <2>3
  <2> QED
    BY <2>1, <2>4, AnsweredJudged
<1>8. ASSUME NEW n \in due, NEW k \in {n, 0}, NEW interim \in BOOLEAN, Forwards(n, k, interim)
      PROVE  JudgedInv'
  <2> DEFINE w == Written(RequestOf(n), k)
             v == [w EXCEPT !.interim = <<>>]
  <2>1. script # Nil
    BY <1>8 DEF Forwards, Reaches
  <2>2. IsList(w.interim) /\ IsList(v.interim)
    BY <2>1, <1>6, WrittenFacts, EmptyIsList
  <2>3. CASE ServedResponse(script, k).disconnect
    <3>1. Answered(n, GatewayError) /\ stored' = stored
      BY <2>3, <1>8 DEF Forwards
    <3> QED
      BY <3>1, <1>0, AnsweredJudged DEF JudgedInv
  <2>4. CASE ~ServedResponse(script, k).disconnect
    <3>1. /\ Answered(n, IF interim THEN w ELSE v)
          /\ stored' = IF w.status = 200 THEN w ELSE stored
      BY <2>4, <1>8 DEF Forwards
    <3> HIDE DEF w, v
    <3>2. IsList((IF interim THEN w ELSE v).interim)
      BY <2>2
    <3>3. stored' # Nil => IsList(stored'.interim)
      BY <3>1, <2>2 DEF JudgedInv
    <3> QED
      BY <3>1, <3>2, <3>3, AnsweredJudged
  <2> QED
    BY <2>3, <2>4
<1>9. CASE ProxyStep
  <2>1. ASSUME NEW n \in DOMAIN obs, SendsAgain(n)
        PROVE  JudgedInv'
    BY <2>1, <1>1 DEF SendsAgain, client
  <2> QED
    BY <1>5, <1>7, <1>8, <1>9, <2>1 DEF ProxyStep
<1>10. CASE Pause \/ SendGroup \/ DeleteScript
  BY <1>1, <1>10 DEF Pause, SendGroup, DeleteScript
<1>11. CASE UNCHANGED exchange
  BY <1>1, <1>11 DEF exchange, client
<1> QED
  BY <1>2, <1>3, <1>4, <1>9, <1>10, <1>11 DEF ExchangeNext, ClientStep, Over, allVars

\* A step is judged by what it asks for.
LEMMA JudgedAsMet ==
    ASSUME ExchangeInv, JudgedInv, outcome # "none", NEW n \in RequestSteps
    PROVE  EvaluateStep(test.steps[n].expect, obs[n], LogStep(seen, n)) <=> Met(n)
<1> DEFINE e == test.steps[n].expect
           o == obs[n]
           f == LogStep(seen, n)
           R == {i \in DOMAIN seen : seen[i].step = n}
<1>1. PlayInv /\ SeenInv
  BY DEF ExchangeInv
<1>2. xpc \in {"judged", "done"} /\ Playable
  BY <1>1 DEF SeenInv, PlayInv, Playable
<1>3. n \in DOMAIN test.steps /\ n \in DOMAIN obs /\ test.steps[n] # Nil
  BY <1>1, <1>2 DEF PlayInv, RequestSteps, Playable, Validate, ValidStep
<1>4. IsList(o.interim)
  BY <1>3 DEF JudgedInv
<1>5. CASE e = Nil
  BY <1>5 DEF EvaluateStep, Met
<1>6. CASE e # Nil
  <2>1. IsList(e.interim) /\ e.forwarded \in {"any", "yes", "no"}
    BY <1>2, <1>3, <1>6, DefinitionsAssumption DEF Playable
  <2>2. InOrder(o.interim, e.interim) <=> Among(e.interim, o.interim)
    BY <2>1, <1>4, InOrderIsAmong DEF IsList
  <2>3. DOMAIN f = R /\ \A i \in R : f[i] = seen[i]
    BY DEF LogStep, Restrict
  <2>4. CheckForwarded(e.forwarded, f) <=>
           /\ e.forwarded = "yes" => R # {}
           /\ e.forwarded = "no" => R = {}
    BY <2>1, <2>3 DEF CheckForwarded, NoEntries
  <2>5. CheckForwardedHeaders(e, f) <=>
           /\ HasForwardedHeaders(e) => R # {}
           /\ \A i \in R : (\A k \in R : i <= k) =>
                 /\ MatchAll(e.forwardedHeaders, seen[i].header)
                 /\ AbsentAll(e.forwardedAbsent, seen[i].header)
    <3>1. R \subseteq Nat
      BY <1>1, <1>2 DEF SeenInv, ExchangeInv, LogInv, IsSeq
    <3> HIDE DEF e, f, R
    <3>2. CASE R = {}
      BY <3>2, <2>3 DEF CheckForwardedHeaders, NoEntries
    <3>3. CASE R # {}
      <4>1. PICK m \in R : \A k \in R : m <= k
        BY <3>1, <3>3, LeastNumber
      <4>2. Min(R) = m
        BY <4>1, <3>1, MinFacts
      <4>3. \A i \in R : (\A k \in R : i <= k) => i = m
        BY <4>1, <3>1
      <4>4. ~HasForwardedHeaders(e) =>
               \A h : MatchAll(e.forwardedHeaders, h) /\ AbsentAll(e.forwardedAbsent, h)
        BY DEF HasForwardedHeaders, MatchAll, AbsentAll
      <4>5. f[Min(DOMAIN f)] = seen[m]
        BY <4>1, <4>2, <2>3
      <4> HIDE DEF R
      <4>6. CheckForwardedHeaders(e, f) <=>
               (HasForwardedHeaders(e) =>
                   /\ MatchAll(e.forwardedHeaders, seen[m].header)
                   /\ AbsentAll(e.forwardedAbsent, seen[m].header))
        BY <4>5, <3>3, <2>3 DEF CheckForwardedHeaders, NoEntries
      <4> QED
        BY <4>1, <4>3, <4>4, <4>6, <3>3
    <3> QED
      BY <3>2, <3>3
  <2>6. CheckStatus(e.status, o.status) <=> (e.status = {} \/ o.status \in e.status)
    BY DEF CheckStatus
  <2>7. CheckBody(e.body, o.body) <=> e.body \in {Nil, o.body}
    BY DEF CheckBody
  <2>8. Met(n) <=>
           /\ ~o.err
           /\ e.status = {} \/ o.status \in e.status
           /\ e.body \in {Nil, o.body}
           /\ MatchAll(e.headers, o.header) /\ AbsentAll(e.absent, o.header)
           /\ MatchAll(e.trailers, o.trailer)
           /\ Among(e.interim, o.interim)
           /\ e.forwarded = "yes" \/ HasForwardedHeaders(e) => R # {}
           /\ e.forwarded = "no" => R = {}
           /\ \A i \in R : (\A k \in R : i <= k) =>
                 /\ MatchAll(e.forwardedHeaders, seen[i].header)
                 /\ AbsentAll(e.forwardedAbsent, seen[i].header)
    BY <1>6 DEF Met
  <2>9. EvaluateStep(e, o, f) <=>
           /\ ~o.err
           /\ CheckStatus(e.status, o.status)
           /\ MatchAll(e.headers, o.header) /\ AbsentAll(e.absent, o.header)
           /\ MatchAll(e.trailers, o.trailer)
           /\ CheckBody(e.body, o.body)
           /\ InOrder(o.interim, e.interim)
           /\ CheckForwarded(e.forwarded, f)
           /\ CheckForwardedHeaders(e, f)
    BY <1>6 DEF EvaluateStep
  <2> HIDE DEF e, o, f, R
  <2>10. EvaluateStep(e, o, f) <=> Met(n)
    BY <2>2, <2>4, <2>5, <2>6, <2>7, <2>8, <2>9
  <2> QED
    BY <2>10 DEF e, o, f
<1> QED
  BY <1>5, <1>6

(***************************************************************************)
(* The theorems.                                                           *)
(***************************************************************************)

LEMMA ExchangeAlways == ExchangeSpec => [](IInv /\ EntriesInv /\ ExchangeInv)
<1>1. ExchangeInit => EntriesInv /\ ExchangeInv
  BY InitExchangeInv
<1>2. IInv /\ EntriesInv /\ ExchangeInv /\ [ExchangeNext]_allVars => EntriesInv' /\ ExchangeInv'
  BY EntriesStep, NextExchangeInv, ExchangeStepIsCorpusStep
<1> QED
  BY <1>1, <1>2, ExchangeIInv, PTL DEF ExchangeSpec

\* What is proved of Load and Select alone holds of the whole exchange, whose
\* runs check it: the other components do not touch the corpus.
THEOREM CorpusPromisesHold ==
    ExchangeSpec => [](TypeOK /\ AcceptedIsSound /\ RefusedIsCyclic /\ SelectionIsClosure)
<1>1. IInv => TypeOK /\ AcceptedIsSound /\ RefusedIsCyclic /\ SelectionIsClosure
  BY IInvIsEnough DEF IInv
<1> QED
  BY <1>1, ExchangeIInv, PTL

\* Every request that reaches the origin, in whatever order and however often
\* the proxy sends it, is answered with the response that the test means for
\* its step, or for the last request step when it carries no step number: for
\* every test that Validate accepts.
THEOREM OriginAnswersAsMeant == ExchangeSpec => []AnsweredAsMeant
<1>1. ExchangeInv => AnsweredAsMeant
  <2> SUFFICES ASSUME ExchangeInv, NEW i \in DOMAIN log
               PROVE  LET e == log[i]
                          n == IF e.step \in RequestSteps THEN e.step ELSE LastRequest
                      IN  Meant(n) = {e.response}
    BY DEF AnsweredAsMeant, LastRequest
  <2>1. PlayInv /\ LogInv
    BY DEF ExchangeInv
  <2>2. xpc # "idle"
    <3>1. DOMAIN <<>> = {}
      OBVIOUS
    <3> QED
      BY <3>1, <2>1 DEF PlayInv
  <2>3. Playable
    BY <2>1, <2>2 DEF PlayInv, Playable
  <2>4. log[i].response = ServedName(Script(test), log[i].step)
    BY <2>1 DEF LogInv
  <2> QED
    BY <2>3, <2>4, ServedIsMeant
<1> QED
  BY <1>1, ExchangeAlways, PTL

\* Of two steps that are not sent together, the request that answered the
\* earlier one reached the origin first, whatever else the proxy sends.
THEOREM OrderIsKept == ExchangeSpec => []StepsArriveInOrder
<1>1. ExchangeInv => StepsArriveInOrder
  BY DEF ExchangeInv
<1> QED
  BY <1>1, ExchangeAlways, PTL

\* What is said of a step that had reached the origin when the log was fetched
\* would be said with every later log too.
THEOREM VerdictIsTimeless == ExchangeSpec => []VerdictStands
<1>1. ExchangeInv => VerdictStands
  <2> SUFFICES ASSUME ExchangeInv, outcome # "none", NEW n \in RequestSteps,
                      ~NoEntries(LogStep(seen, n))
               PROVE  n \in Failures(test, obs, seen) <=> n \in Failures(test, obs, log)
    BY DEF VerdictStands
  <2>1. EvaluateStep(test.steps[n].expect, obs[n], LogStep(seen, n))
           <=> EvaluateStep(test.steps[n].expect, obs[n], LogStep(log, n))
    BY SameJudgment
  <2> QED
    BY <2>1 DEF Failures
<1> QED
  BY <1>1, ExchangeAlways, PTL

\* A test passes exactly when all that it expects was met, and is inconclusive
\* exactly when a step that arranges was not: whatever the proxy answered, and
\* for expectations of every kind.
THEOREM VerdictIsJust == ExchangeSpec => []VerdictIsEarned
<1>1. ExchangeInv /\ JudgedInv => VerdictIsEarned
  <2> SUFFICES ASSUME ExchangeInv, JudgedInv, outcome # "none"
               PROVE  LET unmet == {n \in RequestSteps : ~Met(n)}
                      IN  /\ outcome = "pass" <=> unmet = {}
                          /\ outcome = "inconclusive" <=> \E n \in unmet : test.steps[n].arrange
    BY DEF VerdictIsEarned
  <2> DEFINE unmet == {n \in RequestSteps : ~Met(n)}
  <2>1. Failures(test, obs, seen) = unmet
    <3>1. Failures(test, obs, seen) =
             {n \in RequestSteps : ~EvaluateStep(test.steps[n].expect, obs[n], LogStep(seen, n))}
      BY DEF Failures, RequestSteps
    <3> QED
      BY <3>1, JudgedAsMet
  <2>2. outcome = Verdict(test, unmet)
    BY <2>1 DEF JudgedInv
  <2> HIDE DEF unmet
  <2>3. /\ outcome = "pass" <=> unmet = {}
        /\ outcome = "inconclusive" <=> \E n \in unmet : test.steps[n].arrange
    BY <2>2 DEF Verdict
  <2> QED
    BY <2>3 DEF unmet
<1>2. ExchangeInit => JudgedInv
  BY DEF ExchangeInit, JudgedInv
<1>3. ExchangeInv /\ JudgedInv /\ [ExchangeNext]_allVars => JudgedInv'
  BY NextJudgedInv
<1> QED
  BY <1>1, <1>2, <1>3, ExchangeAlways, PTL DEF ExchangeSpec

(***************************************************************************)
(* What is sent can be sent: headers without malformed templates, and      *)
(* statuses that fit their places.                                         *)
(***************************************************************************)

\* Strings; the provers need to be told so of a literal.
Tokens == STRING \cup {Now, "text/plain"}
GoodValues == {v \in Seq(Tokens) : "${?" \notin ToSet(v)}
GoodHeaders == [Fields -> Seq(GoodValues)]

LEMMA NowIsGood == Now \in Tokens /\ Now # "${?"
<1>1. \A d \in ToSet(Dates) : d \in {"d1", "d2", "d3"}
  BY DEF ToSet, Dates
<1>2. Now # "${?"
  BY <1>1, NowAssumption
<1> QED
  BY <1>2 DEF Tokens

LEMMA GoodFacts ==
    ASSUME NEW h \in GoodHeaders
    PROVE  /\ \A f \in Fields : Get(h, f) \in GoodValues
           /\ \A f \in Fields, v \in GoodValues : Set(h, f, v) \in GoodHeaders
           /\ \A f \in Fields : Del(h, f) \in GoodHeaders
           /\ ~Malformed(h)
<1>1. <<>> \in GoodValues
  BY DEF GoodValues, ToSet
<1>2. ASSUME NEW f \in Fields PROVE Get(h, f) \in GoodValues
  <2>1. h[f] \in Seq(GoodValues)
    BY DEF GoodHeaders
  <2>2. h[f] # <<>> => h[f][1] \in GoodValues
    BY <2>1
  <2> QED
    BY <1>1, <2>2 DEF Get
<1>3. ASSUME NEW f \in Fields, NEW v \in GoodValues PROVE Set(h, f, v) \in GoodHeaders
  <2>1. <<v>> \in Seq(GoodValues)
    OBVIOUS
  <2> QED
    BY <2>1 DEF Set, GoodHeaders
<1>4. ASSUME NEW f \in Fields PROVE Del(h, f) \in GoodHeaders
  <2>1. <<>> \in Seq(GoodValues)
    OBVIOUS
  <2> QED
    BY <2>1 DEF Del, GoodHeaders
<1>5. ~Malformed(h)
  <2>1. \A f \in Fields : h[f] \in Seq(GoodValues)
    BY DEF GoodHeaders
  <2>2. \A f \in Fields : \A i \in DOMAIN h[f] : h[f][i] \in GoodValues
    BY <2>1
  <2> QED
    BY <2>2 DEF Malformed, GoodValues
<1> QED
  BY <1>2, <1>3, <1>4, <1>5

LEMMA NoHeaderIsGood == NoHeader \in GoodHeaders
<1>1. <<>> \in Seq(GoodValues)
  OBVIOUS
<1> QED
  BY <1>1 DEF NoHeader, GoodHeaders

LEMMA FunctionIsSeq ==
    ASSUME NEW S, NEW n \in Nat, NEW s \in [1..n -> S]
    PROVE  s \in Seq(S)
OBVIOUS

LEMMA ExpandIsGood ==
    ASSUME NEW v \in Seq(STRING), CheckTemplates(v)
    PROVE  Expand(v, Now) \in GoodValues
<1> DEFINE e == [i \in DOMAIN v |-> IF v[i] = "${now}" THEN Now ELSE v[i]]
<1>1. Expand(v, Now) = e
  BY DEF Expand
<1>2. \A i \in DOMAIN v : v[i] \in Tokens
  BY DEF Tokens
<1>3. \A i \in DOMAIN v : v[i] # "${?"
  BY DEF CheckTemplates, ToSet
<1>4. DOMAIN v = 1..Len(v) /\ Len(v) \in Nat
  OBVIOUS
<1>5. e \in Seq(Tokens) /\ \A i \in DOMAIN e : e[i] # "${?"
  <2>1. \A i \in DOMAIN v : e[i] \in Tokens /\ e[i] # "${?"
    BY <1>2, <1>3, NowIsGood
  <2>2. e = [i \in 1..Len(v) |-> e[i]] /\ DOMAIN e = 1..Len(v)
    BY <1>4
  <2> DEFINE n == Len(v)
  <2>3. n \in Nat /\ \A i \in 1..n : e[i] \in Tokens /\ e[i] # "${?"
    BY <2>1, <1>4
  <2> HIDE DEF e, n
  <2>4. e \in [1..n -> Tokens]
    BY <2>2, <2>3 DEF n
  <2>5. e \in Seq(Tokens)
    BY <2>3, <2>4, FunctionIsSeq
  <2> QED
    BY <2>2, <2>3, <2>5 DEF n
<1> HIDE DEF e
<1>6. "${?" \notin ToSet(e)
  BY <1>5 DEF ToSet
<1> QED
  BY <1>1, <1>5, <1>6 DEF GoodValues

\* Header.Add of one line, and of the first k lines in turn.
AddLine(h, line) == [h EXCEPT ![line.field] = Append(@, Expand(line.value, Now))]

Adds(m, lines, k) ==
    /\ m = [j \in 0..k |-> m[j]] /\ m[0] = NoHeader
    /\ \A j \in 1..k : m[j] = AddLine(m[j - 1], lines[j])

LEMMA AddsExist ==
    ASSUME NEW lines, Len(lines) \in Nat
    PROVE  \E m : m = [j \in 0..Len(lines) |-> IF j = 0 THEN NoHeader ELSE AddLine(m[j - 1], lines[j])]
<1> DEFINE T == {k \in Nat : ~ \E m : Adds(m, lines, k)}
<1>1. T = {}
  <2> SUFFICES ASSUME T # {} PROVE FALSE
    OBVIOUS
  <2>1. PICK k \in T : \A j \in T : k <= j
    BY LeastNumber
  <2>2. k \in Nat /\ ~ \E m : Adds(m, lines, k)
    OBVIOUS
  <2>3. CASE k = 0
    <3> DEFINE z == [j \in 0..0 |-> NoHeader]
    <3>1. DOMAIN z = 0..0 /\ z[0] = NoHeader /\ \A j \in 1..0 : FALSE
      OBVIOUS
    <3>2. Adds(z, lines, 0)
      BY <3>1 DEF Adds
    <3> QED
      BY <3>2, <2>2, <2>3
  <2>4. CASE k # 0
    <3>1. k - 1 \in Nat /\ ~ k <= k - 1
      BY <2>2, <2>4
    <3>2. PICK m : Adds(m, lines, k - 1)
      BY <3>1, <2>1
    <3> DEFINE x == AddLine(m[k - 1], lines[k])
               z == [j \in 0..k |-> IF j < k THEN m[j] ELSE x]
    <3>3. z[k] = x /\ DOMAIN z = 0..k /\ \A j \in 0..(k - 1) : z[j] = m[j]
      BY <2>2
    <3>4. z[0] = NoHeader
      BY <3>1, <3>2, <3>3 DEF Adds
    <3>5. ASSUME NEW j \in 1..k
          PROVE  z[j] = AddLine(z[j - 1], lines[j])
      <4>1. z[j - 1] = m[j - 1]
        BY <2>2, <3>3
      <4>2. CASE j = k
        BY <4>1, <4>2, <3>3
      <4>3. CASE j # k
        <5>1. j \in 1..(k - 1) /\ j \in 0..(k - 1)
          BY <4>3, <2>2
        <5> HIDE DEF z
        <5> QED
          BY <5>1, <4>1, <3>2, <3>3 DEF Adds
      <4> QED
        BY <4>2, <4>3
    <3> HIDE DEF z
    <3>6. Adds(z, lines, k)
      BY <3>3, <3>4, <3>5 DEF Adds
    <3> QED
      BY <3>6, <2>2
  <2> QED
    BY <2>3, <2>4
<1> DEFINE N == Len(lines)
<1>2. PICK m : Adds(m, lines, N)
  BY <1>1
<1>3. \A j \in 0..N : m[j] = IF j = 0 THEN NoHeader ELSE AddLine(m[j - 1], lines[j])
  <2> TAKE j \in 0..N
  <2>1. CASE j = 0
    BY <2>1, <1>2 DEF Adds
  <2>2. CASE j # 0
    <3>1. j \in 1..N
      BY <2>2
    <3> QED
      BY <3>1, <2>2, <1>2 DEF Adds
  <2> QED
    BY <2>1, <2>2
<1>4. m = [j \in 0..N |-> IF j = 0 THEN NoHeader ELSE AddLine(m[j - 1], lines[j])]
  <2> DEFINE b == [j \in 0..N |-> IF j = 0 THEN NoHeader ELSE AddLine(m[j - 1], lines[j])]
  <2>1. m = [j \in 0..N |-> m[j]] /\ DOMAIN b = 0..N
    BY <1>2 DEF Adds
  <2>2. \A j \in 0..N : m[j] = b[j]
    BY <1>3
  <2> QED
    BY <2>1, <2>2
<1> QED
  BY <1>4

LEMMA HeaderIsGood ==
    ASSUME NEW lines \in Seq(Lines), \A line \in ToSet(lines) : SendLine(line)
    PROVE  HeaderOf(lines, Now) \in GoodHeaders
<1> DEFINE N == Len(lines)
           Loop(m) == m = [j \in 0..N |-> IF j = 0 THEN NoHeader ELSE AddLine(m[j - 1], lines[j])]
           a == CHOOSE m : Loop(m)
<1>1. N \in Nat /\ DOMAIN lines = 1..N
  OBVIOUS
<1>2. Loop(a)
  <2>1. \E m : Loop(m)
    BY <1>1, AddsExist
  <2> HIDE DEF Loop
  <2> QED
    BY <2>1
<1>3. HeaderOf(lines, Now) = a[N]
  BY DEF HeaderOf, AddLine
<1> HIDE DEF a
<1>4. a[0] = NoHeader /\ \A j \in 1..N : a[j] = AddLine(a[j - 1], lines[j])
  BY <1>1, <1>2
<1>5. \A j \in 0..N : a[j] \in GoodHeaders
  <2> DEFINE T == {j \in 0..N : a[j] \notin GoodHeaders}
  <2> SUFFICES ASSUME T # {} PROVE FALSE
    OBVIOUS
  <2>1. T \subseteq Nat
    OBVIOUS
  <2>2. PICK k \in T : \A j \in T : k <= j
    BY <2>1, LeastNumber
  <2>3. k # 0
    BY <1>4, NoHeaderIsGood
  <2>4. k \in 1..N /\ k - 1 \in 0..N /\ ~ k <= k - 1
    BY <1>1, <2>3
  <2> DEFINE h == a[k - 1]
             line == lines[k]
             v == Expand(line.value, Now)
  <2>5. h \in GoodHeaders
    BY <2>2, <2>4
  <2>6. line \in Lines /\ SendLine(line)
    BY <1>1, <2>4 DEF ToSet
  <2>7. v \in GoodValues
    <3>1. line.value \in Seq(STRING) /\ CheckTemplates(line.value)
      BY <2>6 DEF Lines, SendLine
    <3> QED
      BY <3>1, ExpandIsGood
  <2>8. a[k] = AddLine(h, line)
    BY <1>4, <2>4
  <2> HIDE DEF h, v, line
  <2>9. [h EXCEPT ![line.field] = Append(@, v)] \in GoodHeaders
    <3>1. \A f \in Fields : h[f] \in Seq(GoodValues) /\ Append(h[f], v) \in Seq(GoodValues)
      BY <2>5, <2>7 DEF GoodHeaders
    <3> QED
      BY <2>5, <3>1 DEF GoodHeaders
  <2> QED
    BY <2>8, <2>9 DEF AddLine, v
<1> QED
  BY <1>1, <1>3, <1>5

LEMMA OneElement ==
    ASSUME NEW S, NEW t \in S
    PROVE  /\ <<t>> \in Seq(S)
           /\ \A i \in DOMAIN <<t>> : <<t>>[i] = t
<1>1. <<t>> \in Seq(S)
  OBVIOUS
<1>2. Len(<<t>>) = 1 /\ <<t>>[1] = t
  OBVIOUS
<1>3. DOMAIN <<t>> = 1..Len(<<t>>)
  BY <1>1
<1> QED
  BY <1>1, <1>2, <1>3

LEMMA TokenIsGood ==
    ASSUME NEW t \in Tokens, t # "${?"
    PROVE  <<t>> \in GoodValues
<1> DEFINE v == <<t>>
<1>1. v \in Seq(Tokens) /\ \A i \in DOMAIN v : v[i] = t
  BY OneElement
<1> HIDE DEF v
<1>2. "${?" \notin ToSet(v)
  BY <1>1 DEF ToSet
<1>3. v \in GoodValues
  BY <1>1, <1>2 DEF GoodValues
<1> QED
  BY <1>3 DEF v

\* The answer that build makes of a response that Validate accepts.
LEMMA BuildIsGood ==
    ASSUME NEW r, NEW resp, resp.headers \in Seq(Lines),
           \A line \in ToSet(resp.headers) : SendLine(line),
           resp.status = 0 \/ resp.status \in 200..999
    PROVE  /\ Build(r, resp, Now).header \in GoodHeaders
           /\ Build(r, resp, Now).status \in 200..999
<1> DEFINE g == HeaderOf(resp.headers, Now)
           h == Typed(g)
           status == IF resp.status = 0 THEN 200 ELSE resp.status
<1>1. g \in GoodHeaders
  BY HeaderIsGood
<1> HIDE DEF g
<1>2. h \in GoodHeaders
  <2>1. <<"text/plain">> \in GoodValues
    <3>1. "text/plain" \in Tokens /\ "text/plain" # "${?"
      BY DEF Tokens
    <3> QED
      BY <3>1, TokenIsGood
  <2>2. "Content-Type" \in Fields
    BY DEF Fields
  <2>3. Set(g, "Content-Type", <<"text/plain">>) \in GoodHeaders
    BY <1>1, <2>1, <2>2, GoodFacts
  <2> QED
    BY <1>1, <2>3 DEF Typed
<1> HIDE DEF h
<1>3. status \in 200..999
  OBVIOUS
<1> HIDE DEF status
<1>4. \A f \in Fields : Del(h, f) \in GoodHeaders
  BY <1>2, GoodFacts
<1>5. \A f, k \in Fields : Del(Del(h, f), k) \in GoodHeaders
  <2> SUFFICES ASSUME NEW f \in Fields, NEW k \in Fields PROVE Del(Del(h, f), k) \in GoodHeaders
    OBVIOUS
  <2> DEFINE d == Del(h, f)
  <2>1. d \in GoodHeaders
    BY <1>4
  <2> HIDE DEF d
  <2>2. Del(d, k) \in GoodHeaders
    BY <2>1, GoodFacts
  <2> QED
    BY <2>2 DEF d
<1>6. /\ "Content-Type" \in Fields /\ "Last-Modified" \in Fields /\ "Etag" \in Fields
  BY DEF Fields
<1>7. \A q, body : /\ ServeContent(q, h, body).header \in GoodHeaders
                   /\ ServeContent(q, h, body).status \in 200..999
  <2> TAKE q, body
  <2> DEFINE range == Get(q.header, "Range")
             refuses == Refuses(q, h)
             unchanged == Unchanged(q, h, Get(q.header, "If-None-Match"),
                                    Get(q.header, "If-Modified-Since"), Get(h, "Last-Modified"))
             reads == Reads(q)
             entire == range = <<>> \/ ~IfRangeHolds(q, h) \/ (range = <<"bytes", "out">> /\ body = "")
             inside == range = <<"bytes", "in">>
             refused == [status |-> 412, header |-> h, body |-> ""]
             kept == [status |-> 304, body |-> "",
                      header |-> IF h["Etag"] = <<>> THEN Del(h, "Content-Type")
                                 ELSE Del(Del(h, "Content-Type"), "Last-Modified")]
             all == [status |-> 200, header |-> h, body |-> body]
             part == [status |-> 206, header |-> h, body |-> "part"]
             none == [status |-> 416, header |-> Del(Del(h, "Etag"), "Last-Modified"), body |-> "error"]
             sc == ServeContent(q, h, body)
             Good(o) == o.header \in GoodHeaders /\ o.status \in 200..999
  <2>1. sc = IF refuses THEN refused
             ELSE IF unchanged THEN IF ~reads THEN refused ELSE kept
             ELSE IF entire THEN all ELSE IF inside THEN part ELSE none
    BY Zenon DEF ServeContent
  <2>2. Good(refused) /\ Good(all) /\ Good(part)
    BY <1>2
  <2>3. Good(kept) /\ Good(none)
    BY <1>4, <1>5, <1>6
  <2> HIDE DEF refuses, unchanged, reads, entire, inside, refused, kept, all, part, none, sc, Good
  <2>4. Good(sc)
    BY <2>1, <2>2, <2>3
  <2> QED
    BY <2>4 DEF Good, sc
<1> DEFINE served == ServeContent(WithoutIgnoredRange(r), h, ResponseBody(resp))
           unchanged == [status |-> 304, header |-> Del(h, "Content-Type"), body |-> ""]
           whole == [status |-> status, header |-> h, body |-> ResponseBody(resp)]
           out == Answer(r, resp, h)
<1>8. /\ served.header \in GoodHeaders /\ served.status \in 200..999
      /\ unchanged.header \in GoodHeaders /\ unchanged.status \in 200..999
      /\ whole.header \in GoodHeaders /\ whole.status \in 200..999
  BY <1>2, <1>3, <1>4, <1>6, <1>7
<1>9. out = IF resp.ranges /\ status = 200 THEN served
            ELSE IF ~resp.ignore /\ status = 200 /\ NotModified(r, h) THEN unchanged ELSE whole
  BY Zenon DEF Answer, status
<1> HIDE DEF served, unchanged, whole, out
<1>10. out.header \in GoodHeaders /\ out.status \in 200..999
  <2>1. out = served \/ out = unchanged \/ out = whole
    BY <1>9
  <2>2. CASE out = served
    BY <1>8, <2>2
  <2>3. CASE out = unchanged
    BY <1>8, <2>3
  <2>4. CASE out = whole
    BY <1>8, <2>4
  <2> QED
    BY <2>1, <2>2, <2>3, <2>4
<1> QED
  BY <1>10 DEF Build, out, h, g

\* What a message that was received is like.
GoodAnswer(o) ==
    /\ o.header \in GoodHeaders /\ o.trailer \in GoodHeaders
    /\ o.err \/ o.status \in 200..999
    /\ ToSet(o.interim) \subseteq 100..199 \ {101}

PlayedInv ==
    /\ \A n \in DOMAIN obs : obs[n] = NotSeen \/ GoodAnswer(obs[n])
    /\ stored # Nil => GoodAnswer(stored)
    /\ \A i \in DOMAIN log : log[i].header \in GoodHeaders

\* The response that the origin finds in the script of an accepted test.
LEMMA ServedIsGood ==
    ASSUME Playable, NEW k \in RequestSteps \cup {0}
    PROVE  LET sc   == Script(test)
               resp == ServedResponse(sc, k)
               name == ServedName(sc, k)
           IN  /\ resp.headers \in Seq(Lines) /\ resp.trailers \in Seq(Lines)
               /\ \A line \in ToSet(resp.headers) \cup ToSet(resp.trailers) : SendLine(line)
               /\ resp.status = 0 \/ resp.status \in 200..999
               /\ \A i \in DOMAIN resp.interim : resp.interim[i].status \in 100..199 \ {101}
               /\ \A i \in DOMAIN resp.interim :
                     /\ resp.interim[i].headers \in Seq(Lines)
                     /\ \A line \in ToSet(resp.interim[i].headers) : SendLine(line)
               /\ name = NoName \/ <<name>> \in GoodValues
<1> DEFINE sc == Script(test)
           resp == ServedResponse(sc, k)
           name == ServedName(sc, k)
<1>1. sc.responses = test.responses /\ test \in Definitions /\ Validate(test)
  BY DEF Script, Playable
<1>2. resp = IF name \in DOMAIN test.responses THEN test.responses[name] ELSE ZeroResponse
  BY <1>1 DEF ServedResponse
<1>3. name = NoName \/ name \in DOMAIN test.responses
  <2> DEFINE n == IF k \in RequestSteps THEN k ELSE LastRequest
  <2>1. n \in RequestSteps
    BY LastRequestFacts
  <2>2. Meant(n) = {name}
    BY ServedIsMeant
  <2> HIDE DEF n, name
  <2>3. ValidRespondWith(test.steps[n], test.responses)
    BY <2>1, StepFacts
  <2> QED
    BY <2>2, <2>3 DEF Meant, ValidRespondWith
<1> HIDE DEF resp, name, sc
<1>4. name \in DOMAIN test.responses => <<name>> \in GoodValues
  <2> SUFFICES ASSUME name \in DOMAIN test.responses PROVE <<name>> \in GoodValues
    OBVIOUS
  <2>1. name \in STRING \ {"${?"}
    BY <1>1, DefinitionsAssumption, Zenon
  <2>2. name \in Tokens /\ name # "${?"
    BY <2>1 DEF Tokens
  <2> QED
    BY <2>2, TokenIsGood
<1>5. CASE name \in DOMAIN test.responses
  <2>1. resp = test.responses[name]
    BY <1>2, <1>5
  <2>2. ValidResponse(test.responses[name])
    BY <1>1, <1>5 DEF Validate
  <2>3. test.responses[name] # Nil
    BY <2>2 DEF ValidResponse
  <2>4. test.responses[name].headers \in Seq(Lines) /\ test.responses[name].trailers \in Seq(Lines)
    BY <1>1, <1>5, <2>3, DefinitionsAssumption, Zenon
  <2>5. /\ \A line \in ToSet(resp.headers) \cup ToSet(resp.trailers) : SendLine(line)
        /\ resp.status = 0 \/ resp.status \in 200..999
        /\ \A early \in ToSet(resp.interim) :
              /\ early.status \in 100..199 \ {101}
              /\ \A line \in ToSet(early.headers) : SendLine(line)
    BY <2>1, <2>2 DEF ValidResponse
  <2>6. \A i \in DOMAIN resp.interim :
            /\ resp.interim[i].status \in 100..199 \ {101}
            /\ \A line \in ToSet(resp.interim[i].headers) : SendLine(line)
    <3>1. \A i \in DOMAIN resp.interim : resp.interim[i] \in ToSet(resp.interim)
      BY DEF ToSet
    <3> QED
      BY <2>5, <3>1, Zenon
  <2>7. \A i \in DOMAIN resp.interim : resp.interim[i].headers \in Seq(Lines)
    BY <1>1, <1>5, <2>1, <2>3, DefinitionsAssumption, Zenon
  <2>8. \A line \in ToSet(resp.headers) \cup ToSet(resp.trailers) : SendLine(line)
    BY <2>5
  <2>9. resp.status = 0 \/ resp.status \in 200..999
    BY <2>5
  <2>10. resp.headers \in Seq(Lines) /\ resp.trailers \in Seq(Lines)
    BY <2>1, <2>4
  <2>11. /\ \A i \in DOMAIN resp.interim : resp.interim[i].status \in 100..199 \ {101}
         /\ \A i \in DOMAIN resp.interim :
               /\ resp.interim[i].headers \in Seq(Lines)
               /\ \A line \in ToSet(resp.interim[i].headers) : SendLine(line)
    BY <2>6, <2>7, Zenon
  <2>12. <<name>> \in GoodValues
    BY <1>4, <1>5
  <2> QED
    BY <2>8, <2>9, <2>10, <2>11, <2>12 DEF resp, name, sc
<1>6. CASE name \notin DOMAIN test.responses
  <2>1. resp = ZeroResponse
    BY <1>2, <1>6
  <2>2. resp.headers = <<>> /\ resp.trailers = <<>> /\ resp.interim = <<>> /\ resp.status = 0
    BY <2>1 DEF ZeroResponse
  <2>3. <<>> \in Seq(Lines) /\ ToSet(<<>>) = {} /\ DOMAIN <<>> = {}
    BY DEF ToSet
  <2>4. name = NoName
    BY <1>3, <1>6
  <2> QED
    BY <2>2, <2>3, <2>4 DEF resp, name, sc
<1> QED
  BY <1>5, <1>6

LEMMA WrittenIsGood ==
    ASSUME Playable, script = Script(test), NEW r, NEW k \in RequestSteps \cup {0}
    PROVE  /\ GoodAnswer(Written(r, k))
           /\ GoodAnswer([Written(r, k) EXCEPT !.interim = <<>>])
<1> DEFINE resp == ServedResponse(Script(test), k)
           name == ServedName(Script(test), k)
           b == Build(r, resp, Now)
           out == Stamp(b, name)
           t == HeaderOf(resp.trailers, Now)
           w == Written(r, k)
<1>1. /\ resp.headers \in Seq(Lines) /\ resp.trailers \in Seq(Lines)
      /\ \A line \in ToSet(resp.headers) \cup ToSet(resp.trailers) : SendLine(line)
      /\ resp.status = 0 \/ resp.status \in 200..999
      /\ \A i \in DOMAIN resp.interim : resp.interim[i].status \in 100..199 \ {101}
      /\ \A i \in DOMAIN resp.interim :
            /\ resp.interim[i].headers \in Seq(Lines)
            /\ \A line \in ToSet(resp.interim[i].headers) : SendLine(line)
      /\ name = NoName \/ <<name>> \in GoodValues
  BY ServedIsGood, Zenon
<1> HIDE DEF resp, name
<1>2. b.header \in GoodHeaders /\ b.status \in 200..999
  BY <1>1, BuildIsGood
<1>3. t \in GoodHeaders
  BY <1>1, HeaderIsGood
<1>4. /\ w.err = FALSE /\ w.status = out.status /\ w.header = out.header /\ w.trailer = t
      /\ w.interim = [i \in DOMAIN resp.interim |-> resp.interim[i].status]
      /\ [w EXCEPT !.interim = <<>>].err = FALSE /\ [w EXCEPT !.interim = <<>>].status = out.status
      /\ [w EXCEPT !.interim = <<>>].header = out.header /\ [w EXCEPT !.interim = <<>>].trailer = t
      /\ [w EXCEPT !.interim = <<>>].interim = <<>>
  BY DEF Written, OnWire, Built, resp, name
<1>5. out.header \in GoodHeaders /\ out.status \in 200..999
  <2>1. CASE name = NoName
    BY <2>1, <1>2 DEF Stamp
  <2>2. CASE name # NoName
    <3>1. Set(b.header, "Mecone-Response", <<name>>) \in GoodHeaders
      <4>1. "Mecone-Response" \in Fields
        BY DEF Fields
      <4> HIDE DEF b
      <4> QED
        BY <4>1, <1>1, <1>2, <2>2, GoodFacts
    <3>2. out = [b EXCEPT !.header = Set(@, "Mecone-Response", <<name>>)]
      BY <2>2 DEF Stamp
    <3>3. DOMAIN b = {"status", "header", "body"}
      BY DEF Build, Answer, ServeContent
    <3> HIDE DEF b
    <3>4. out.header = Set(b.header, "Mecone-Response", <<name>>) /\ out.status = b.status
      BY <3>2, <3>3
    <3> QED
      BY <3>1, <3>4, <1>2
  <2> QED
    BY <2>1, <2>2
<1>6. ToSet(w.interim) \subseteq 100..199 \ {101}
  <2> HIDE DEF w
  <2>1. DOMAIN w.interim = DOMAIN resp.interim
    BY <1>4
  <2>2. \A i \in DOMAIN w.interim : w.interim[i] \in 100..199 \ {101}
    BY <1>1, <1>4
  <2> QED
    BY <2>2 DEF ToSet
<1>7. ToSet(<<>>) \subseteq 100..199 \ {101}
  BY DEF ToSet
<1> HIDE DEF w, t, out
<1>8. GoodAnswer(w)
  BY <1>3, <1>4, <1>5, <1>6 DEF GoodAnswer
<1> DEFINE v == [w EXCEPT !.interim = <<>>]
<1>9. GoodAnswer(v)
  <2>1. v.header \in GoodHeaders /\ v.trailer \in GoodHeaders /\ v.status \in 200..999 /\ v.interim = <<>>
    BY <1>3, <1>4, <1>5
  <2> HIDE DEF v
  <2> QED
    BY <2>1, <1>7 DEF GoodAnswer
<1> QED
  BY <1>8, <1>9 DEF w

\* What send asks for, and what a proxy makes of it to revalidate.
LEMMA RequestIsGood ==
    ASSUME Playable, NEW n \in RequestSteps
    PROVE  /\ RequestOf(n).header \in GoodHeaders
           /\ stored # Nil /\ GoodAnswer(stored) => Revalidates(RequestOf(n)).header \in GoodHeaders
<1> DEFINE s == test.steps[n]
<1>1. n \in DOMAIN test.steps /\ ~IsWait(s) /\ test \in Definitions /\ ValidStep(s, test.responses)
  BY DEF RequestSteps, Playable, Validate
<1>2. s # Nil /\ \A line \in ToSet(s.headers) : SendLine(line)
  BY <1>1 DEF ValidStep, ValidRequest
<1>3. s.headers \in Seq(Lines)
  BY <1>1, <1>2, DefinitionsAssumption, Zenon
<1>4. HeaderOf(s.headers, Now) \in GoodHeaders
  <2> HIDE DEF s
  <2> QED
    BY <1>2, <1>3, HeaderIsGood
<1> DEFINE q == RequestOf(n)
<1>5. q.header = HeaderOf(s.headers, Now) /\ DOMAIN q = {"method", "header"}
  BY DEF RequestOf
<1>6. ASSUME stored # Nil, GoodAnswer(stored)
      PROVE  Revalidates(q).header \in GoodHeaders
  <2> DEFINE v == Get(stored.header, "Etag")
  <2>1. stored.header \in GoodHeaders /\ "Etag" \in Fields /\ "If-None-Match" \in Fields
    BY <1>6 DEF GoodAnswer, Fields
  <2>2. v \in GoodValues
    BY <2>1, GoodFacts
  <2> HIDE DEF q
  <2>3. q.header \in GoodHeaders
    BY <1>4, <1>5
  <2>4. Revalidates(q).header = Set(q.header, "If-None-Match", v)
    BY <1>5 DEF Revalidates
  <2> HIDE DEF v
  <2> QED
    BY <2>1, <2>2, <2>3, <2>4, GoodFacts
<1> QED
  BY <1>4, <1>5, <1>6

\* A request that reaches the origin with a header without malformed templates.
LEMMA ReachesPlayed ==
    ASSUME ExchangeInv, PlayedInv, NEW r, NEW k, r.header \in GoodHeaders, Reaches(r, k)
    PROVE  \A i \in DOMAIN log' : log'[i].header \in GoodHeaders
<1>1. IsSeq(log) /\ Len(log) \in Nat /\ DOMAIN log = 1..Len(log)
  BY DEF ExchangeInv, LogInv, IsSeq
<1> DEFINE e == LogEntry(r, k)
           p == Append(log, e)
<1>2. log' = p
  BY DEF Reaches
<1>3. e.header = r.header
  BY DEF LogEntry
<1> HIDE DEF e
<1>4. /\ IsSeq(p) /\ Len(p) = Len(log) + 1
      /\ \A i \in 1..Len(log) : p[i] = log[i]
      /\ p[Len(p)] = e
  BY <1>1, AppendFacts, Zenon
<1> HIDE DEF p
<1>5. \A i \in DOMAIN p : i \in 1..Len(log) \/ i = Len(p)
  BY <1>1, <1>4 DEF IsSeq
<1>6. \A i \in DOMAIN p : p[i].header \in GoodHeaders
  BY <1>1, <1>3, <1>4, <1>5 DEF PlayedInv
<1> QED
  BY <1>2, <1>6

\* An answer that is one, while the log and what is stored stay good.
LEMMA AnsweredPlayed ==
    ASSUME PlayedInv, NEW n, NEW o, Answered(n, o), GoodAnswer(o),
           stored' # Nil => GoodAnswer(stored'),
           \A i \in DOMAIN log' : log'[i].header \in GoodHeaders
    PROVE  PlayedInv'
<1>1. obs' = [obs EXCEPT ![n] = o]
  BY DEF Answered
<1>2. ASSUME NEW m \in DOMAIN obs'
      PROVE  obs'[m] = NotSeen \/ GoodAnswer(obs'[m])
  <2>1. m \in DOMAIN obs /\ (obs'[m] = o \/ obs'[m] = obs[m])
    BY <1>1, <1>2
  <2> QED
    BY <2>1 DEF PlayedInv
<1> QED
  BY <1>2 DEF PlayedInv

LEMMA NextPlayedInv ==
    ExchangeInv /\ PlayedInv /\ [ExchangeNext]_allVars => PlayedInv'
<1> SUFFICES ASSUME ExchangeInv, PlayedInv, [ExchangeNext]_allVars PROVE PlayedInv'
  OBVIOUS
<1>0. GoodAnswer(GatewayError) /\ GoodAnswer([NotSeen EXCEPT !.err = TRUE])
  <2>1. ToSet(<<>>) \subseteq 100..199 \ {101}
    BY DEF ToSet
  <2> QED
    BY <2>1, NoHeaderIsGood DEF GoodAnswer, GatewayError, NotSeen
<1>1. CASE UNCHANGED <<obs, stored, log>>
  BY <1>1 DEF PlayedInv
<1>2. CASE Exercise
  <2>1. UNCHANGED <<stored, log>> /\ \A n \in DOMAIN obs' : obs'[n] = NotSeen
    BY <1>2 DEF Exercise
  <2> QED
    BY <2>1 DEF PlayedInv
<1>3. ASSUME NEW n \in due
      PROVE  n \in RequestSteps /\ Playable /\ (script # Nil => script = Script(test))
  <2>1. xpc # "idle"
    BY <1>3 DEF ExchangeInv, PlayInv
  <2> QED
    BY <1>3, <2>1 DEF ExchangeInv, PlayInv, Playable
<1>4. ASSUME NEW n \in due, AnswersItself(n) \/ RequestFails(n)
      PROVE  PlayedInv'
  <2>1. PICK o : Answered(n, o) /\ GoodAnswer(o)
    BY <1>0, <1>4 DEF AnswersItself, RequestFails, PlayedInv
  <2>2. UNCHANGED <<stored, log>>
    BY <1>4 DEF AnswersItself, RequestFails
  <2>3. (stored' # Nil => GoodAnswer(stored')) /\ \A i \in DOMAIN log' : log'[i].header \in GoodHeaders
    BY <2>2 DEF PlayedInv
  <2> QED
    BY <2>1, <2>3, AnsweredPlayed
<1>5. ASSUME NEW n \in due, ForwardsConditionally(n)
      PROVE  PlayedInv'
  <2> DEFINE r == Revalidates(RequestOf(n))
             w == Written(r, n)
  <2>1. /\ stored # Nil /\ script # Nil /\ Reaches(r, n)
        /\ Answered(n, IF w.status = 304 THEN stored ELSE w)
        /\ stored' = IF w.status = 200 THEN w ELSE stored
    BY <1>5 DEF ForwardsConditionally, Reaches
  <2>2. GoodAnswer(stored) /\ n \in RequestSteps /\ Playable /\ script = Script(test)
    BY <1>3, <2>1 DEF PlayedInv
  <2>3. r.header \in GoodHeaders
    BY <2>1, <2>2, RequestIsGood
  <2>4. GoodAnswer(w)
    BY <2>2, WrittenIsGood
  <2> HIDE DEF r, w
  <2>5. \A i \in DOMAIN log' : log'[i].header \in GoodHeaders
    BY <2>1, <2>3, ReachesPlayed
  <2>6. GoodAnswer(IF w.status = 304 THEN stored ELSE w)
    BY <2>2, <2>4
  <2>7. GoodAnswer(stored')
    BY <2>1, <2>2, <2>4
  <2> QED
    BY <2>1, <2>5, <2>6, <2>7, AnsweredPlayed
<1>6. ASSUME NEW n \in due, NEW k \in {n, 0}, NEW interim \in BOOLEAN, Forwards(n, k, interim)
      PROVE  PlayedInv'
  <2> DEFINE r == RequestOf(n)
             w == Written(r, k)
             v == [w EXCEPT !.interim = <<>>]
  <2>1. script # Nil /\ Reaches(r, k)
    BY <1>6 DEF Forwards, Reaches
  <2>2. n \in RequestSteps /\ k \in RequestSteps \cup {0} /\ Playable /\ script = Script(test)
    BY <1>3, <2>1
  <2>3. r.header \in GoodHeaders
    BY <2>2, RequestIsGood
  <2>4. GoodAnswer(w) /\ GoodAnswer(v)
    BY <2>2, WrittenIsGood
  <2>5. \A i \in DOMAIN log' : log'[i].header \in GoodHeaders
    <3> HIDE DEF r
    <3> QED
      BY <2>1, <2>3, ReachesPlayed
  <2>6. CASE ServedResponse(script, k).disconnect
    <3>1. Answered(n, GatewayError) /\ stored' = stored
      BY <2>6, <1>6 DEF Forwards
    <3>2. stored' # Nil => GoodAnswer(stored')
      BY <3>1 DEF PlayedInv
    <3> QED
      BY <3>1, <3>2, <2>5, <1>0, AnsweredPlayed
  <2>7. CASE ~ServedResponse(script, k).disconnect
    <3>1. /\ Answered(n, IF interim THEN w ELSE v)
          /\ stored' = IF w.status = 200 THEN w ELSE stored
      BY <2>7, <1>6 DEF Forwards
    <3> HIDE DEF w, v
    <3>2. GoodAnswer(IF interim THEN w ELSE v)
      BY <2>4
    <3>3. stored' # Nil => GoodAnswer(stored')
      BY <3>1, <2>4 DEF PlayedInv
    <3> QED
      BY <3>1, <3>2, <3>3, <2>5, AnsweredPlayed
  <2> QED
    BY <2>6, <2>7
<1>7. ASSUME NEW n \in DOMAIN obs, SendsAgain(n)
      PROVE  PlayedInv'
  <2>1. xpc # "idle" /\ ~IsWait(test.steps[n]) /\ UNCHANGED <<obs, stored>>
    BY <1>7 DEF SendsAgain, client
  <2>2. n \in RequestSteps /\ Playable
    BY <1>7, <2>1 DEF ExchangeInv, PlayInv, Playable, RequestSteps
  <2>3. PICK r : Reaches(r, n) /\ r.header \in GoodHeaders
    <3>1. RequestOf(n).header \in GoodHeaders
          /\ (stored # Nil => Revalidates(RequestOf(n)).header \in GoodHeaders)
      BY <2>2, RequestIsGood DEF PlayedInv
    <3> QED
      BY <1>7, <3>1 DEF SendsAgain
  <2>4. \A i \in DOMAIN log' : log'[i].header \in GoodHeaders
    BY <2>3, ReachesPlayed
  <2> QED
    BY <2>1, <2>4 DEF PlayedInv
<1>8. CASE ProxyStep
  BY <1>4, <1>5, <1>6, <1>7, <1>8 DEF ProxyStep
<1>9. CASE Pause \/ SendGroup \/ FetchLog \/ JudgeTest \/ DeleteScript
  BY <1>1, <1>9 DEF Pause, SendGroup, FetchLog, JudgeTest, DeleteScript
<1>10. CASE UNCHANGED exchange
  BY <1>1, <1>10 DEF exchange, client
<1> QED
  BY <1>2, <1>8, <1>9, <1>10 DEF ExchangeNext, ClientStep, Over, allVars

\* The response to an entry of the log is the one of its step.
LEMMA ResponseToEntry ==
    ASSUME ExchangeInv, NEW i \in DOMAIN log
    PROVE  /\ Playable /\ log[i].step \in RequestSteps \cup {0}
           /\ ResponseTo(log[i]) = ServedResponse(Script(test), log[i].step)
<1> DEFINE e == log[i]
           name == ServedName(Script(test), e.step)
<1>1. xpc # "idle"
  BY DEF ExchangeInv, PlayInv
<1>2. Playable
  BY <1>1 DEF ExchangeInv, PlayInv, Playable
<1>3. e.step \in RequestSteps \cup {0} /\ e.response = name
  BY DEF ExchangeInv, LogInv
<1>4. ServedResponse(Script(test), e.step) =
         IF name \in DOMAIN test.responses THEN test.responses[name] ELSE ZeroResponse
  BY DEF ServedResponse, Script
<1> QED
  BY <1>2, <1>3, <1>4 DEF ResponseTo

\* The interim responses of an accepted test have good headers.
LEMMA EarlyIsGood ==
    ASSUME Playable, NEW k \in RequestSteps \cup {0}, NEW resp, resp = ServedResponse(Script(test), k),
           NEW j \in DOMAIN resp.interim
    PROVE  HeaderOf(resp.interim[j].headers, Now) \in GoodHeaders
<1> DEFINE lines == resp.interim[j].headers
<1> DEFINE x == ServedResponse(Script(test), k)
<1>0. \A i \in DOMAIN x.interim :
          /\ x.interim[i].headers \in Seq(Lines)
          /\ \A line \in ToSet(x.interim[i].headers) : SendLine(line)
  BY ServedIsGood, Zenon
<1> HIDE DEF x
<1>1. \A i \in DOMAIN resp.interim :
          /\ resp.interim[i].headers \in Seq(Lines)
          /\ \A line \in ToSet(resp.interim[i].headers) : SendLine(line)
  <2>1. resp = x
    BY DEF x
  <2> QED
    BY <1>0, <2>1, Zenon
<1>2. lines \in Seq(Lines) /\ \A line \in ToSet(lines) : SendLine(line)
  BY <1>1
<1> HIDE DEF lines
<1>3. HeaderOf(lines, Now) \in GoodHeaders
  BY <1>2, HeaderIsGood
<1> QED
  BY <1>3 DEF lines

\* Validate reads every pattern that an accepted test expects.
LEMMA PatternsAreReadable ==
    ASSUME Playable, NEW n \in RequestSteps, test.steps[n].expect # Nil
    PROVE  LET e == test.steps[n].expect
           IN  Readable(e.headers) /\ Readable(e.trailers) /\ Readable(e.forwardedHeaders)
<1> DEFINE e == test.steps[n].expect
<1>1. ValidStep(test.steps[n], test.responses) /\ ~IsWait(test.steps[n])
  BY DEF RequestSteps, Playable, Validate
<1>2. ValidExpect(e)
  BY <1>1 DEF ValidStep, ValidRequest
<1> HIDE DEF e
<1>3. \A line \in ToSet(e.headers) \cup ToSet(e.trailers) \cup ToSet(e.forwardedHeaders) : ExpectLine(line)
  BY <1>2 DEF ValidExpect
<1>4. ASSUME NEW lines, \A line \in ToSet(lines) : ExpectLine(line)
      PROVE  Readable(lines)
  <2> SUFFICES ASSUME NEW i \in DOMAIN lines, IsPattern(lines[i].value)
               PROVE  Compiles(lines[i].value)
    BY Zenon DEF Readable
  <2> DEFINE line == lines[i]
  <2>1. ExpectLine(line)
    BY <1>4 DEF ToSet
  <2> HIDE DEF line
  <2>2. IsPattern(line.value) => Compiles(line.value)
    BY <2>1, Zenon DEF ExpectLine
  <2> QED
    BY <2>2 DEF line
<1>5. Readable(e.headers) /\ Readable(e.trailers) /\ Readable(e.forwardedHeaders)
  BY <1>3, <1>4
<1> QED
  BY <1>5 DEF e

\* A test that Load accepts can be played: neither the client nor the origin
\* ever sends a malformed template or a status that does not fit its place,
\* interim responses included, and no pattern is expected that cannot be read,
\* for every test that Validate accepts and whatever the proxy makes of it.
THEOREM AcceptedCanBePlayed == ExchangeSpec => []AcceptedIsPlayable
<1>1. ExchangeInv /\ PlayedInv => AcceptedIsPlayable
  <2> SUFFICES ASSUME ExchangeInv, PlayedInv, xpc # "idle"
               PROVE  /\ \A n \in RequestSteps : obs[n] # NotSeen =>
                            /\ ~Malformed(obs[n].header) /\ ~Malformed(obs[n].trailer)
                            /\ obs[n].err \/ obs[n].status \in 200..999
                            /\ ToSet(obs[n].interim) \subseteq 100..199 \ {101}
                      /\ \A i \in DOMAIN log :
                            /\ ~Malformed(log[i].header)
                            /\ LET early == ResponseTo(log[i]).interim
                               IN  \A k \in DOMAIN early : ~Malformed(HeaderOf(early[k].headers, Now))
                      /\ \A n \in RequestSteps :
                            LET e == test.steps[n].expect
                            IN  e # Nil => Readable(e.headers) /\ Readable(e.trailers)
                                              /\ Readable(e.forwardedHeaders)
    BY Zenon DEF AcceptedIsPlayable
  <2>1. \A h \in GoodHeaders : ~Malformed(h)
    BY GoodFacts
  <2>2. RequestSteps \subseteq DOMAIN obs
    BY DEF ExchangeInv, PlayInv, RequestSteps
  <2>3. \A n \in RequestSteps : obs[n] # NotSeen => GoodAnswer(obs[n])
    BY <2>2 DEF PlayedInv
  <2>4. \A i \in DOMAIN log : ~Malformed(log[i].header)
    BY <2>1 DEF PlayedInv
  <2>5. ASSUME NEW n \in RequestSteps, obs[n] # NotSeen
        PROVE  /\ ~Malformed(obs[n].header) /\ ~Malformed(obs[n].trailer)
               /\ obs[n].err \/ obs[n].status \in 200..999
               /\ ToSet(obs[n].interim) \subseteq 100..199 \ {101}
    <3> DEFINE o == obs[n]
    <3>1. GoodAnswer(o)
      BY <2>3, <2>5
    <3> HIDE DEF o
    <3>2. /\ ~Malformed(o.header) /\ ~Malformed(o.trailer)
          /\ o.err \/ o.status \in 200..999
          /\ ToSet(o.interim) \subseteq 100..199 \ {101}
      BY <3>1, <2>1 DEF GoodAnswer
    <3> QED
      BY <3>2 DEF o
  <2>6. ASSUME NEW i \in DOMAIN log, NEW k \in DOMAIN ResponseTo(log[i]).interim
        PROVE  ~Malformed(HeaderOf(ResponseTo(log[i]).interim[k].headers, Now))
    <3> DEFINE resp == ResponseTo(log[i])
               step == log[i].step
    <3>1. Playable /\ step \in RequestSteps \cup {0} /\ resp = ServedResponse(Script(test), step)
      BY ResponseToEntry
    <3>2. k \in DOMAIN resp.interim
      BY <2>6
    <3> HIDE DEF resp, step
    <3>3. HeaderOf(resp.interim[k].headers, Now) \in GoodHeaders
      BY <3>1, <3>2, EarlyIsGood
    <3> QED
      BY <3>3, <2>1 DEF resp
  <2>7. ASSUME NEW n \in RequestSteps, test.steps[n].expect # Nil
        PROVE  LET e == test.steps[n].expect
               IN  Readable(e.headers) /\ Readable(e.trailers) /\ Readable(e.forwardedHeaders)
    <3>1. Playable
      BY DEF ExchangeInv, PlayInv, Playable
    <3> QED
      BY <2>7, <3>1, PatternsAreReadable, Zenon
  <2> QED
    BY <2>4, <2>5, <2>6, <2>7, Zenon
<1>2. ExchangeInit => PlayedInv
  BY DEF ExchangeInit, PlayedInv
<1>3. ExchangeInv /\ PlayedInv /\ [ExchangeNext]_allVars => PlayedInv'
  BY NextPlayedInv
<1> QED
  BY <1>1, <1>2, <1>3, ExchangeAlways, PTL DEF ExchangeSpec

(***************************************************************************)
(* Lists of entity tags: what nextETag cuts off, and the quotes before a   *)
(* place.                                                                  *)
(***************************************************************************)

LEMMA SubSeqFacts ==
    ASSUME NEW S, NEW s \in Seq(S), NEW m \in 1..(Len(s) + 1), NEW n \in (m - 1)..Len(s)
    PROVE  /\ SubSeq(s, m, n) \in Seq(S) /\ Len(SubSeq(s, m, n)) = n - m + 1
           /\ DOMAIN SubSeq(s, m, n) = 1..(n - m + 1)
           /\ \A i \in 1..(n - m + 1) : SubSeq(s, m, n)[i] = s[m + i - 1]
OBVIOUS

\* Two sequences are the same when they agree at every place.
LEMMA SameAtEveryPlace ==
    ASSUME NEW S, NEW s \in Seq(S), NEW t \in Seq(S),
           Len(s) = Len(t), \A i \in 1..Len(s) : s[i] = t[i]
    PROVE  s = t
OBVIOUS

\* A part of what is left of a sequence is a part of the sequence.
LEMMA PartOfRest ==
    ASSUME NEW S, NEW s \in Seq(S), NEW p \in 0..Len(s),
           NEW i \in 1..(Len(s) - p + 1), NEW j \in (i - 1)..(Len(s) - p)
    PROVE  SubSeq(SubSeq(s, p + 1, Len(s)), i, j) = SubSeq(s, p + i, p + j)
<1> DEFINE t == SubSeq(s, p + 1, Len(s))
           u == SubSeq(t, i, j)
           v == SubSeq(s, p + i, p + j)
<1>1. Len(s) \in Nat /\ p + 1 \in 1..(Len(s) + 1) /\ Len(s) \in p..Len(s)
  OBVIOUS
<1>2. /\ t \in Seq(S) /\ Len(t) = Len(s) - p
      /\ \A k \in 1..(Len(s) - p) : t[k] = s[p + k]
  <2>1. /\ t \in Seq(S) /\ Len(t) = Len(s) - (p + 1) + 1
        /\ \A k \in 1..(Len(s) - (p + 1) + 1) : t[k] = s[p + 1 + k - 1]
    BY <1>1, SubSeqFacts
  <2> HIDE DEF t
  <2> QED
    BY <2>1, <1>1
<1> HIDE DEF t
<1>3. /\ u \in Seq(S) /\ Len(u) = j - i + 1
      /\ \A k \in 1..(j - i + 1) : u[k] = t[i + k - 1]
  BY <1>1, <1>2, SubSeqFacts
<1>4. /\ v \in Seq(S) /\ Len(v) = j - i + 1
      /\ \A k \in 1..(j - i + 1) : v[k] = s[p + i + k - 1]
  <2>1. /\ v \in Seq(S) /\ Len(v) = (p + j) - (p + i) + 1
        /\ \A k \in 1..((p + j) - (p + i) + 1) : v[k] = s[(p + i) + k - 1]
    BY <1>1, SubSeqFacts
  <2> HIDE DEF v
  <2> QED
    BY <2>1
<1> HIDE DEF u, v
<1>5. \A k \in 1..(j - i + 1) : u[k] = v[k]
  <2> TAKE k \in 1..(j - i + 1)
  <2>1. i + k - 1 \in 1..(Len(s) - p) /\ p + (i + k - 1) = p + i + k - 1
    BY <1>1
  <2> QED
    BY <2>1, <1>2, <1>3, <1>4
<1>6. u = v
  <2>1. Len(u) = Len(v) /\ \A k \in 1..Len(u) : u[k] = v[k]
    BY <1>3, <1>4, <1>5
  <2> QED
    BY <2>1, <1>3, <1>4, SameAtEveryPlace
<1> QED
  BY <1>6 DEF u, v, t

\* The quotes before a place, one place after the other.
LEMMA QuotesStep ==
    ASSUME NEW s
    PROVE  /\ QuotesBefore(s, 1) = 0
           /\ \A i \in Nat \ {0} :
                 /\ QuotesBefore(s, i) \in Nat
                 /\ QuotesBefore(s, i + 1) = QuotesBefore(s, i) + (IF s[i] = Quote THEN 1 ELSE 0)
<1> DEFINE Q(i) == {k \in 1..(i - 1) : s[k] = Quote}
<1>1. QuotesBefore(s, 1) = 0
  <2>1. Q(1) = {}
    OBVIOUS
  <2> QED
    BY <2>1, FS_EmptySet DEF QuotesBefore
<1>2. ASSUME NEW i \in Nat \ {0}
      PROVE  /\ QuotesBefore(s, i) \in Nat
             /\ QuotesBefore(s, i + 1) = QuotesBefore(s, i) + (IF s[i] = Quote THEN 1 ELSE 0)
  <2>1. IsFiniteSet(Q(i))
    <3>1. IsFiniteSet(1..(i - 1)) /\ Q(i) \subseteq 1..(i - 1)
      BY FS_Interval
    <3> QED
      BY <3>1, FS_Subset
  <2>2. Cardinality(Q(i)) \in Nat
    BY <2>1, FS_CardinalityType
  <2>3. Q(i + 1) = IF s[i] = Quote THEN Q(i) \cup {i} ELSE Q(i)
    <3>1. 1..(i + 1 - 1) = 1..(i - 1) \cup {i}
      OBVIOUS
    <3> QED
      BY <3>1
  <2>4. i \notin Q(i)
    OBVIOUS
  <2>5. Cardinality(Q(i) \cup {i}) = Cardinality(Q(i)) + 1
    BY <2>1, <2>4, FS_AddElement
  <2>6. QuotesBefore(s, i) = Cardinality(Q(i)) /\ QuotesBefore(s, i + 1) = Cardinality(Q(i + 1))
    BY DEF QuotesBefore
  <2> HIDE DEF Q
  <2> QED
    BY <2>2, <2>3, <2>5, <2>6
<1> QED
  BY <1>1, <1>2

\* There are never fewer quotes before a later place, and as many only when
\* there is none in between.
LEMMA QuotesGrow ==
    ASSUME NEW s, NEW i \in Nat \ {0}, NEW j \in Nat, i <= j
    PROVE  /\ QuotesBefore(s, i) <= QuotesBefore(s, j)
           /\ (\A k \in i..(j - 1) : s[k] # Quote) => QuotesBefore(s, i) = QuotesBefore(s, j)
<1> DEFINE Good(n) == /\ QuotesBefore(s, i) <= QuotesBefore(s, n)
                      /\ (\A k \in i..(n - 1) : s[k] # Quote) => QuotesBefore(s, i) = QuotesBefore(s, n)
           T == {n \in Nat : i <= n /\ ~Good(n)}
<1> SUFFICES ASSUME T # {} PROVE FALSE
  OBVIOUS
<1>1. T \subseteq Nat
  OBVIOUS
<1>2. PICK n \in T : \A m \in T : n <= m
  BY <1>1, LeastNumber
<1>3. n # i
  <2>1. QuotesBefore(s, i) \in Nat
    BY QuotesStep
  <2> QED
    BY <2>1
<1>4. n - 1 \in Nat \ {0} /\ i <= n - 1 /\ ~ n <= n - 1
  BY <1>3
<1>5. Good(n - 1)
  BY <1>2, <1>4
<1>6. /\ QuotesBefore(s, n - 1) \in Nat
      /\ QuotesBefore(s, n) = QuotesBefore(s, n - 1) + (IF s[n - 1] = Quote THEN 1 ELSE 0)
  <2> DEFINE m == n - 1
  <2>1. m \in Nat \ {0} /\ m + 1 = n
    BY <1>4
  <2> HIDE DEF m
  <2>2. /\ QuotesBefore(s, m) \in Nat
        /\ QuotesBefore(s, m + 1) = QuotesBefore(s, m) + (IF s[m] = Quote THEN 1 ELSE 0)
    BY <2>1, QuotesStep
  <2> QED
    BY <2>1, <2>2 DEF m
<1>7. QuotesBefore(s, i) \in Nat
  BY QuotesStep
<1>8. ASSUME \A k \in i..(n - 1) : s[k] # Quote
      PROVE  s[n - 1] # Quote /\ \A k \in i..(n - 1 - 1) : s[k] # Quote
  BY <1>4, <1>8
<1> DEFINE a == QuotesBefore(s, i)
           b == QuotesBefore(s, n - 1)
           c == QuotesBefore(s, n)
<1>9. a <= b /\ ((\A k \in i..(n - 1 - 1) : s[k] # Quote) => a = b)
  BY <1>5
<1> HIDE DEF a, b, c
<1>10. a <= c /\ ((\A k \in i..(n - 1) : s[k] # Quote) => a = c)
  BY <1>6, <1>7, <1>8, <1>9 DEF a, b, c
<1> QED
  BY <1>10 DEF a, c

\* The quotes of what is left of a sequence.
LEMMA QuotesOfRest ==
    ASSUME NEW S, NEW s \in Seq(S), NEW p \in 0..Len(s), NEW i \in 1..(Len(s) - p + 1)
    PROVE  QuotesBefore(s, p + i) = QuotesBefore(s, p + 1) + QuotesBefore(SubSeq(s, p + 1, Len(s)), i)
<1> DEFINE t == SubSeq(s, p + 1, Len(s))
           L == Len(s) - p + 1
           T == {n \in 1..L : QuotesBefore(s, p + n) # QuotesBefore(s, p + 1) + QuotesBefore(t, n)}
<1>1. Len(s) \in Nat /\ L \in Nat /\ p + 1 \in Nat \ {0}
  OBVIOUS
<1>2. \A k \in 1..(Len(s) - p) : t[k] = s[p + k]
  OBVIOUS
<1> HIDE DEF t
<1> SUFFICES ASSUME T # {} PROVE FALSE
  BY DEF t
<1>3. T \subseteq Nat
  OBVIOUS
<1>4. PICK n \in T : \A m \in T : n <= m
  BY <1>3, LeastNumber
<1>5. n # 1
  <2>1. QuotesBefore(t, 1) = 0 /\ QuotesBefore(s, p + 1) \in Nat
    BY <1>1, QuotesStep
  <2> QED
    BY <2>1
<1> DEFINE m == n - 1
<1>6. m \in 1..(Len(s) - p) /\ m \in 1..L /\ m \in Nat \ {0} /\ p + m \in Nat \ {0} /\ m + 1 = n /\ ~ n <= m
  BY <1>1, <1>5
<1>7. QuotesBefore(s, p + m) = QuotesBefore(s, p + 1) + QuotesBefore(t, m)
  BY <1>4, <1>6
<1> HIDE DEF m
<1>8. QuotesBefore(t, m) \in Nat /\ QuotesBefore(s, p + 1) \in Nat /\ QuotesBefore(s, p + m) \in Nat
  BY <1>1, <1>6, QuotesStep
<1>9. QuotesBefore(t, m + 1) = QuotesBefore(t, m) + (IF t[m] = Quote THEN 1 ELSE 0)
  BY <1>6, QuotesStep
<1>10. QuotesBefore(s, (p + m) + 1) = QuotesBefore(s, p + m) + (IF s[p + m] = Quote THEN 1 ELSE 0)
  BY <1>6, QuotesStep
<1>11. (p + m) + 1 = p + n
  BY <1>6
<1>12. t[m] = s[p + m]
  BY <1>2, <1>6
<1>13. QuotesBefore(s, p + n) = QuotesBefore(s, p + m) + (IF s[p + m] = Quote THEN 1 ELSE 0)
  BY <1>10, <1>11
<1>14. QuotesBefore(t, n) = QuotesBefore(t, m) + (IF s[p + m] = Quote THEN 1 ELSE 0)
  BY <1>6, <1>9, <1>12
<1>15. QuotesBefore(s, p + n) = QuotesBefore(s, p + 1) + QuotesBefore(t, n)
  BY <1>7, <1>8, <1>13, <1>14
<1> QED
  BY <1>15

LEMMA FirstOfFacts ==
    ASSUME NEW S, NEW s \in Seq(S), NEW F \in SUBSET DOMAIN s
    PROVE  /\ F = {} => FirstOf(s, F) = Len(s) + 1
           /\ F # {} => FirstOf(s, F) \in F /\ \A k \in F : FirstOf(s, F) <= k
<1>1. ASSUME F # {}
      PROVE  \E i \in F : \A k \in F : i <= k
  <2>1. F \subseteq Nat
    OBVIOUS
  <2> QED
    BY <1>1, <2>1, LeastNumber
<1> QED
  BY <1>1 DEF FirstOf

LEMMA TailIsRest ==
    ASSUME NEW S, NEW u \in Seq(S), u # <<>>
    PROVE  Tail(u) = SubSeq(u, 2, Len(u))
<1> DEFINE v == SubSeq(u, 2, Len(u))
<1>1. Len(u) \in Nat /\ Len(u) # 0
  OBVIOUS
<1>2. /\ Tail(u) \in Seq(S) /\ Len(Tail(u)) = Len(u) - 1
      /\ \A i \in 1..(Len(u) - 1) : Tail(u)[i] = u[i + 1]
  OBVIOUS
<1> DEFINE m == 2
           n == Len(u)
<1>3. m \in 1..(Len(u) + 1) /\ n \in (m - 1)..Len(u) /\ n - m + 1 = n - 1
  BY <1>1
<1>4. /\ v \in Seq(S) /\ Len(v) = n - 1
      /\ \A i \in 1..(n - 1) : v[i] = u[m + i - 1]
  <2> DEFINE w == SubSeq(u, m, n)
  <2> HIDE DEF m, n
  <2>1. /\ w \in Seq(S) /\ Len(w) = n - m + 1
        /\ \A i \in 1..(n - m + 1) : w[i] = u[m + i - 1]
    BY <1>3, SubSeqFacts
  <2>2. w = v
    BY DEF m, n
  <2> HIDE DEF w, v
  <2> QED
    BY <1>3, <2>1, <2>2
<1> HIDE DEF v
<1>5. \A i \in 1..(Len(u) - 1) : v[i] = Tail(u)[i]
  <2> TAKE i \in 1..(Len(u) - 1)
  <2>1. m + i - 1 = i + 1
    BY <1>1
  <2> QED
    BY <2>1, <1>2, <1>4
<1>7. v = Tail(u)
  BY <1>1, <1>2, <1>4, <1>5
<1> QED
  BY <1>7 DEF v

\* Where the next tag of a list would begin: after separators, and one weak
\* mark if there is one.
Begins(s, b) ==
    /\ b \in 1..(Len(s) + 1)
    /\ \A k \in 1..(b - 1) : s[k] = Separator \/ (k = b - 1 /\ s[k] = Weak)
    /\ b <= Len(s) /\ s[b] \in {Separator, Weak} => b > 1 /\ s[b - 1] = Weak

LEMMA TrimmedBegins ==
    ASSUME NEW S, NEW s \in Seq(S)
    PROVE  \E b : Begins(s, b) /\ TrimWeak(TrimLeft(s)) = SubSeq(s, b, Len(s))
<1> DEFINE F == {i \in DOMAIN s : s[i] # Separator}
           a == FirstOf(s, F)
           u == SubSeq(s, a, Len(s))
<1>1. Len(s) \in Nat /\ DOMAIN s = 1..Len(s) /\ F \in SUBSET DOMAIN s
  OBVIOUS
<1>2. TrimLeft(s) = u
  BY DEF TrimLeft
<1>3. /\ F = {} => a = Len(s) + 1
      /\ F # {} => a \in F /\ \A k \in F : a <= k
  BY <1>1, FirstOfFacts
<1> HIDE DEF a
<1>4. a \in 1..(Len(s) + 1) /\ (a <= Len(s) => s[a] # Separator)
  BY <1>1, <1>3
<1>5. \A k \in 1..(a - 1) : s[k] = Separator
  <2> SUFFICES ASSUME NEW k \in 1..(a - 1), s[k] # Separator PROVE FALSE
    OBVIOUS
  <2>1. k \in F /\ ~ a <= k
    BY <1>1, <1>4
  <2> QED
    BY <2>1, <1>3
<1>6. /\ u \in Seq(S) /\ Len(u) = Len(s) - a + 1
      /\ \A i \in 1..(Len(s) - a + 1) : u[i] = s[a + i - 1]
  <2>1. Len(s) \in (a - 1)..Len(s)
    BY <1>1, <1>4
  <2> QED
    BY <2>1, <1>4, SubSeqFacts
<1>7. CASE a <= Len(s) /\ s[a] = Weak
  <2>1. a + 1 \in 1..(Len(s) + 1) /\ 1 \in 1..(Len(s) - a + 1) /\ a + 1 - 1 = a
    BY <1>1, <1>4, <1>7
  <2>2. u[1] = Weak /\ u # <<>>
    <3>1. u[1] = s[a + 1 - 1]
      BY <1>6, <2>1
    <3>2. Len(u) # 0
      BY <1>1, <1>4, <1>6, <1>7
    <3> HIDE DEF u
    <3> QED
      BY <3>1, <3>2, <2>1, <1>7
  <2>3. TrimWeak(u) = SubSeq(s, a + 1, Len(s))
    <3>1. TrimWeak(u) = SubSeq(u, 2, Len(u))
      <4> HIDE DEF u
      <4> QED
        BY <2>2, <1>6, TailIsRest DEF TrimWeak
    <3> DEFINE p == a - 1
    <3>2. /\ p \in 0..Len(s) /\ 2 \in 1..(Len(s) - p + 1) /\ Len(u) \in (2 - 1)..(Len(s) - p)
          /\ p + 1 = a /\ p + 2 = a + 1 /\ p + Len(u) = Len(s)
      <4> HIDE DEF u
      <4> QED
        BY <1>1, <1>4, <1>6, <1>7
    <3> HIDE DEF p
    <3> DEFINE n == Len(u)
    <3>3. n \in (2 - 1)..(Len(s) - p)
      BY <3>2
    <3> HIDE DEF n
    <3>4. SubSeq(SubSeq(s, p + 1, Len(s)), 2, n) = SubSeq(s, p + 2, p + n)
      BY <3>2, <3>3, PartOfRest
    <3> QED
      BY <3>1, <3>2, <3>4 DEF n
  <2>4. Begins(s, a + 1)
    <3> DEFINE b == a + 1
    <3>1. b \in 1..(Len(s) + 1) /\ b > 1 /\ b - 1 = a
      BY <1>1, <1>4, <1>7
    <3> HIDE DEF b
    <3>2. ASSUME NEW k \in 1..(b - 1)
          PROVE  s[k] = Separator \/ (k = b - 1 /\ s[k] = Weak)
      <4>1. k \in 1..(a - 1) \/ k = a
        BY <1>4, <3>1, <3>2
      <4> QED
        BY <4>1, <1>5, <1>7, <3>1
    <3>3. s[b - 1] = Weak
      BY <1>7, <3>1
    <3>4. Begins(s, b)
      BY <3>1, <3>2, <3>3 DEF Begins
    <3> QED
      BY <3>4 DEF b
  <2> QED
    BY <1>2, <2>3, <2>4
<1>8. CASE ~(a <= Len(s) /\ s[a] = Weak)
  <2>1. TrimWeak(u) = u
    <3>1. ~(u # <<>> /\ u[1] = Weak)
      <4> SUFFICES ASSUME u # <<>>, u[1] = Weak PROVE FALSE
        OBVIOUS
      <4>1. Len(u) # 0
        BY <1>6
      <4>2. a <= Len(s)
        <5> HIDE DEF u
        <5> QED
          BY <4>1, <1>1, <1>4, <1>6
      <4>3. u[1] = s[a + 1 - 1] /\ a + 1 - 1 = a
        <5>1. 1 \in 1..(Len(s) - a + 1)
          BY <4>2, <1>1, <1>4
        <5> QED
          BY <5>1, <1>4, <1>6
      <4> QED
        BY <4>2, <4>3, <1>8
    <3> QED
      BY <3>1 DEF TrimWeak
  <2>2. Begins(s, a)
    BY <1>4, <1>5, <1>8 DEF Begins
  <2> QED
    BY <1>2, <2>1, <2>2
<1> QED
  BY <1>7, <1>8

\* The next tag of a list goes from where it begins to the next quote.
Cuts(s, b, n) ==
    \/ /\ n.ok
       /\ \E d \in (b + 1)..Len(s) :
             /\ s[b] = Quote /\ s[d] = Quote /\ \A k \in (b + 1)..(d - 1) : s[k] # Quote
             /\ n.tag = SubSeq(s, b, d) /\ n.rest = SubSeq(s, d + 1, Len(s))
    \/ /\ ~n.ok /\ n.rest = <<>>
       /\ \/ b > Len(s) \/ s[b] # Quote
          \/ \A k \in (b + 1)..Len(s) : s[k] # Quote

LEMMA NextETagCuts ==
    ASSUME NEW S, NEW s \in Seq(S)
    PROVE  \E b : Begins(s, b) /\ Cuts(s, b, NextETag(s))
<1>1. PICK b : Begins(s, b) /\ TrimWeak(TrimLeft(s)) = SubSeq(s, b, Len(s))
  BY TrimmedBegins
<1> DEFINE v == SubSeq(s, b, Len(s))
           F == {i \in DOMAIN v : i > 1 /\ v[i] = Quote}
           c == FirstOf(v, F)
           n == NextETag(s)
           p == b - 1
<1>2. n = CutTag(v)
  BY <1>1 DEF NextETag
<1>3. Len(s) \in Nat /\ b \in 1..(Len(s) + 1) /\ p \in 0..Len(s) /\ b = p + 1
  BY <1>1 DEF Begins
<1>4. /\ v \in Seq(S) /\ Len(v) = Len(s) - p /\ DOMAIN v = 1..(Len(s) - p)
      /\ \A i \in 1..(Len(s) - p) : v[i] = s[p + i]
  <2>1. Len(s) \in (b - 1)..Len(s)
    BY <1>3
  <2>2. /\ v \in Seq(S) /\ Len(v) = Len(s) - b + 1 /\ DOMAIN v = 1..(Len(s) - b + 1)
        /\ \A i \in 1..(Len(s) - b + 1) : v[i] = s[b + i - 1]
    BY <1>3, <2>1, SubSeqFacts
  <2> HIDE DEF v
  <2>3. Len(s) - b + 1 = Len(s) - p /\ \A i \in Nat : b + i - 1 = p + i
    BY <1>3
  <2> QED
    BY <2>2, <2>3
<1>5. v = SubSeq(s, p + 1, Len(s))
  BY <1>3
<1> HIDE DEF p, v
<1>6. /\ F = {} => c = Len(v) + 1
      /\ F # {} => c \in F /\ \A k \in F : c <= k
  BY <1>4, FirstOfFacts
<1>e. v # <<>> <=> b <= Len(s)
  BY <1>3, <1>4
<1>7. CASE v # <<>> /\ v[1] = Quote /\ c <= Len(v)
  <2>1. n = [ok |-> TRUE, tag |-> SubSeq(v, 1, c), rest |-> SubSeq(v, c + 1, Len(v))]
    BY <1>2, <1>7 DEF CutTag
  <2> HIDE DEF n
  <2>2. c \in F
    BY <1>6, <1>7, <1>4, <1>3
  <2>3. c \in 2..(Len(s) - p) /\ v[c] = Quote
    BY <2>2, <1>3, <1>4
  <2> HIDE DEF c
  <2> DEFINE d == p + c
  <2>4. d \in (b + 1)..Len(s) /\ d + 1 = p + (c + 1) /\ Len(v) = Len(s) - p /\ p + Len(v) = Len(s)
    BY <2>3, <1>3, <1>4
  <2>5. s[b] = Quote /\ s[d] = Quote
    <3>1. 1 \in 1..(Len(s) - p) /\ c \in 1..(Len(s) - p)
      BY <2>3, <1>3
    <3> QED
      BY <3>1, <2>3, <1>3, <1>4, <1>7
  <2>6. \A k \in (b + 1)..(d - 1) : s[k] # Quote
    <3> SUFFICES ASSUME NEW k \in (b + 1)..(d - 1), s[k] = Quote PROVE FALSE
      OBVIOUS
    <3> DEFINE i == k - p
    <3>1. i \in 1..(Len(s) - p) /\ i > 1 /\ p + i = k /\ ~ c <= i
      BY <1>3, <2>3, <2>4
    <3> HIDE DEF i
    <3>2. i \in F
      BY <3>1, <1>4
    <3> QED
      BY <3>1, <3>2, <2>2, <1>6 DEF c
  <2>7. SubSeq(v, 1, c) = SubSeq(s, b, d)
    <3>1. 1 \in 1..(Len(s) - p + 1) /\ c \in (1 - 1)..(Len(s) - p)
      BY <1>3, <2>3
    <3>2. SubSeq(SubSeq(s, p + 1, Len(s)), 1, c) = SubSeq(s, p + 1, p + c)
      BY <3>1, <1>3, PartOfRest
    <3> QED
      BY <3>2, <1>3, <1>5
  <2>8. SubSeq(v, c + 1, Len(v)) = SubSeq(s, d + 1, Len(s))
    <3> DEFINE m == Len(v)
               e == c + 1
    <3>1. e \in 1..(Len(s) - p + 1) /\ m \in (e - 1)..(Len(s) - p) /\ p + m = Len(s) /\ d + 1 = p + e
      BY <1>3, <2>3, <2>4
    <3> HIDE DEF m, e, d
    <3>2. SubSeq(SubSeq(s, p + 1, Len(s)), e, m) = SubSeq(s, p + e, p + m)
      BY <3>1, <1>3, PartOfRest
    <3> QED
      BY <3>1, <3>2, <1>5 DEF m, e
  <2> HIDE DEF d
  <2>9. n.ok /\ n.tag = SubSeq(s, b, d) /\ n.rest = SubSeq(s, d + 1, Len(s))
    BY <2>1, <2>7, <2>8
  <2>10. Cuts(s, b, n)
    BY <2>4, <2>5, <2>6, <2>9 DEF Cuts
  <2> QED
    BY <1>1, <2>10 DEF n
<1>8. CASE ~(v # <<>> /\ v[1] = Quote /\ c <= Len(v))
  <2>1. n = [ok |-> FALSE, tag |-> <<>>, rest |-> <<>>]
    BY <1>2, <1>8 DEF CutTag
  <2> HIDE DEF n
  <2>2. ~n.ok /\ n.rest = <<>>
    BY <2>1
  <2>3. ASSUME b <= Len(s), s[b] = Quote, NEW k \in (b + 1)..Len(s), s[k] = Quote
        PROVE  FALSE
    <3>1. v # <<>> /\ 1 \in 1..(Len(s) - p) /\ p + 1 = b
      BY <2>3, <1>3, <1>4, <1>e
    <3>2. v[1] = Quote
      BY <3>1, <2>3, <1>4
    <3> DEFINE i == k - p
    <3>3. i \in 1..(Len(s) - p) /\ i > 1 /\ p + i = k
      BY <2>3, <1>3
    <3> HIDE DEF i
    <3>4. i \in F
      BY <3>3, <2>3, <1>4
    <3>5. c <= Len(v)
      BY <3>4, <1>6, <1>4
    <3> QED
      BY <3>1, <3>2, <3>5, <1>8
  <2>4. b > Len(s) \/ s[b] # Quote \/ \A k \in (b + 1)..Len(s) : s[k] # Quote
    BY <2>3, <1>3
  <2>5. Cuts(s, b, n)
    BY <2>2, <2>4 DEF Cuts
  <2> QED
    BY <1>1, <2>5 DEF n
<1> QED
  BY <1>7, <1>8

\* The tag between the quotes at i and j, as Lists has it.
ListedAt(list, tag, i, j) ==
    /\ i < j /\ SubSeq(list, i, j) = tag
    /\ list[i] = Quote /\ list[j] = Quote
    /\ Outside(list, i) /\ QuotesBefore(list, j) = QuotesBefore(list, i) + 1
    /\ \A k \in 1..(i - 1) :
          Outside(list, k) => \/ list[k] \in {Separator, Quote}
                              \/ list[k] = Weak /\ list[k + 1] = Quote

LEMMA ListsIsListedAt ==
    ASSUME NEW s, NEW t
    PROVE  Lists(s, t) <=> \E i, j \in DOMAIN s : ListedAt(s, t, i, j)
BY DEF Lists, ListedAt

LEMMA Parity == 0 % 2 = 0 /\ 1 % 2 = 1 /\ \A n \in Nat : (2 + n) % 2 = n % 2
BY Z3

\* There is no quote before the place where the next tag begins.
LEMMA NoQuoteBefore ==
    ASSUME NEW s, NEW b, Len(s) \in Nat, Begins(s, b)
    PROVE  /\ \A k \in 1..(b - 1) : s[k] # Quote
           /\ \A k \in 1..b : QuotesBefore(s, k) = 0 /\ Outside(s, k)
<1>1. b \in 1..(Len(s) + 1)
  BY DEF Begins
<1>2. \A k \in 1..(b - 1) : s[k] # Quote
  BY DEF Begins, Quote, Separator, Weak
<1>3. ASSUME NEW k \in 1..b
      PROVE  QuotesBefore(s, k) = 0
  <2>1. 1 \in Nat \ {0} /\ k \in Nat /\ 1 <= k /\ \A m \in 1..(k - 1) : s[m] # Quote
    BY <1>1, <1>2
  <2>2. QuotesBefore(s, 1) = QuotesBefore(s, k)
    BY <2>1, QuotesGrow
  <2> QED
    BY <2>2, QuotesStep
<1> QED
  BY <1>2, <1>3, Parity DEF Outside

\* A list of which nextETag finds no tag has none.
LEMMA NothingListed ==
    ASSUME NEW S, NEW s \in Seq(S), NEW t, NEW b, Begins(s, b),
           \/ b > Len(s) \/ s[b] # Quote
           \/ \A k \in (b + 1)..Len(s) : s[k] # Quote
    PROVE  ~Lists(s, t)
<1> SUFFICES ASSUME NEW i \in DOMAIN s, NEW j \in DOMAIN s, ListedAt(s, t, i, j) PROVE FALSE
  BY ListsIsListedAt
<1>1. Len(s) \in Nat /\ DOMAIN s = 1..Len(s) /\ b \in 1..(Len(s) + 1)
  BY DEF Begins
<1>2. i < j /\ s[i] = Quote /\ s[j] = Quote
  BY DEF ListedAt
<1>3. /\ \A k \in 1..(b - 1) : s[k] # Quote
      /\ \A k \in 1..b : Outside(s, k)
  BY <1>1, NoQuoteBefore
<1>4. b <= i /\ b <= Len(s)
  BY <1>1, <1>2, <1>3
<1>5. CASE s[b] # Quote
  <2>1. b < i /\ b \in 1..(i - 1)
    BY <1>1, <1>2, <1>4, <1>5
  <2>2. s[b] \in {Separator, Quote} \/ (s[b] = Weak /\ s[b + 1] = Quote)
    <3>1. b \in 1..b
      BY <1>1
    <3> QED
      BY <3>1, <2>1, <1>3 DEF ListedAt
  <2>3. b > 1 /\ s[b - 1] = Weak
    BY <2>2, <1>4, <1>5 DEF Begins
  <2> DEFINE a == b - 1
  <2>4. a \in 1..(i - 1) /\ a \in 1..b /\ a + 1 = b
    BY <2>1, <2>3, <1>1
  <2>5. s[a] = Weak
    BY <2>3
  <2> HIDE DEF a
  <2>6. s[a] \in {Separator, Quote} \/ (s[a] = Weak /\ s[a + 1] = Quote)
    BY <2>4, <1>3 DEF ListedAt
  <2> QED
    BY <2>4, <2>5, <2>6, <1>5 DEF Weak, Separator, Quote
<1>6. CASE \A k \in (b + 1)..Len(s) : s[k] # Quote
  BY <1>6, <1>1, <1>2, <1>4
<1> QED
  BY <1>4, <1>5, <1>6, <1>1

\* A list is its first tag and the list that is left.
LEMMA OneTagListed ==
    ASSUME NEW S, NEW s \in Seq(S), NEW t, NEW b, Begins(s, b),
           NEW d \in (b + 1)..Len(s), s[b] = Quote, s[d] = Quote,
           \A k \in (b + 1)..(d - 1) : s[k] # Quote
    PROVE  Lists(s, t) <=> SubSeq(s, b, d) = t \/ Lists(SubSeq(s, d + 1, Len(s)), t)
<1> DEFINE r == SubSeq(s, d + 1, Len(s))
           L == Len(s) - d
<1>1. Len(s) \in Nat /\ DOMAIN s = 1..Len(s) /\ b \in 1..(Len(s) + 1) /\ L \in Nat /\ d \in 0..Len(s)
  BY DEF Begins
<1>2. /\ \A k \in 1..(b - 1) : s[k] # Quote
      /\ \A k \in 1..b : QuotesBefore(s, k) = 0 /\ Outside(s, k)
  BY <1>1, NoQuoteBefore
<1>3. QuotesBefore(s, b + 1) = 1
  <2>1. b \in Nat \ {0} /\ b \in 1..b
    BY <1>1
  <2>2. QuotesBefore(s, b + 1) = QuotesBefore(s, b) + (IF s[b] = Quote THEN 1 ELSE 0)
    BY <2>1, QuotesStep
  <2> QED
    BY <2>1, <2>2, <1>2
<1>4. \A k \in (b + 1)..d : QuotesBefore(s, k) = 1 /\ ~Outside(s, k)
  <2>1. ASSUME NEW k \in (b + 1)..d PROVE QuotesBefore(s, k) = 1
    <3>1. b + 1 \in Nat \ {0} /\ k \in Nat /\ b + 1 <= k /\ \A m \in (b + 1)..(k - 1) : s[m] # Quote
      BY <1>1
    <3>2. QuotesBefore(s, b + 1) = QuotesBefore(s, k)
      BY <3>1, QuotesGrow
    <3> QED
      BY <3>2, <1>3
  <2> QED
    BY <2>1, Parity DEF Outside
<1>5. QuotesBefore(s, d + 1) = 2
  <2>1. d \in Nat \ {0} /\ d \in (b + 1)..d
    BY <1>1
  <2>2. QuotesBefore(s, d + 1) = QuotesBefore(s, d) + (IF s[d] = Quote THEN 1 ELSE 0)
    BY <2>1, QuotesStep
  <2> QED
    BY <2>1, <2>2, <1>4
<1>6. /\ r \in Seq(S) /\ Len(r) = L /\ DOMAIN r = 1..L
      /\ \A i \in 1..L : r[i] = s[d + i]
  <2> DEFINE m == d + 1
  <2>1. m \in 1..(Len(s) + 1) /\ Len(s) \in (m - 1)..Len(s) /\ Len(s) - m + 1 = L
        /\ \A i \in Nat : m + i - 1 = d + i
    BY <1>1
  <2> DEFINE q == SubSeq(s, m, Len(s))
  <2> HIDE DEF m, L
  <2>2. /\ q \in Seq(S) /\ Len(q) = Len(s) - m + 1 /\ DOMAIN q = 1..(Len(s) - m + 1)
        /\ \A i \in 1..(Len(s) - m + 1) : q[i] = s[m + i - 1]
    BY <2>1, SubSeqFacts
  <2> HIDE DEF q
  <2>3. /\ q \in Seq(S) /\ Len(q) = L /\ DOMAIN q = 1..L
        /\ \A i \in 1..L : q[i] = s[d + i]
    <3>1. q \in Seq(S) /\ Len(q) = L /\ DOMAIN q = 1..L /\ \A i \in 1..L : q[i] = s[m + i - 1]
      BY <2>1, <2>2
    <3>2. ASSUME NEW i \in 1..L PROVE q[i] = s[d + i]
      <4>1. i \in Nat
        OBVIOUS
      <4>2. m + i - 1 = d + i
        BY <4>1, <2>1
      <4>3. q[i] = s[m + i - 1]
        BY <3>1
      <4> QED
        BY <4>2, <4>3
    <3> QED
      BY <3>1, <3>2
  <2> QED
    BY <2>3 DEF q, m
<1>7. \A i \in 1..(L + 1) : /\ QuotesBefore(r, i) \in Nat
                            /\ QuotesBefore(s, d + i) = 2 + QuotesBefore(r, i)
                            /\ Outside(s, d + i) <=> Outside(r, i)
  <2> TAKE i \in 1..(L + 1)
  <2>1. QuotesBefore(s, d + i) = QuotesBefore(s, d + 1) + QuotesBefore(r, i)
    BY <1>1, QuotesOfRest
  <2>2. QuotesBefore(r, i) \in Nat
    <3>1. i \in Nat \ {0}
      BY <1>1
    <3> HIDE DEF r
    <3> QED
      BY <3>1, QuotesStep
  <2> QED
    BY <2>1, <2>2, <1>5, Parity DEF Outside
<1>8. \A i, j \in 1..L : i < j => SubSeq(r, i, j) = SubSeq(s, d + i, d + j)
  <2> SUFFICES ASSUME NEW i \in 1..L, NEW j \in 1..L, i < j
               PROVE  SubSeq(r, i, j) = SubSeq(s, d + i, d + j)
    OBVIOUS
  <2>1. i \in 1..(Len(s) - d + 1) /\ j \in (i - 1)..(Len(s) - d)
    BY <1>1
  <2> QED
    BY <2>1, <1>1, PartOfRest
<1> HIDE DEF r, L
\* Before a place of the rest nothing but what may stand there.
<1> DEFINE Fine(u, k) == \/ u[k] \in {Separator, Quote}
                         \/ u[k] = Weak /\ u[k + 1] = Quote
<1>9. \A k \in 1..d : Outside(s, k) => Fine(s, k)
  <2> SUFFICES ASSUME NEW k \in 1..d, Outside(s, k) PROVE Fine(s, k)
    OBVIOUS
  <2>1. k \in 1..b
    BY <1>1, <1>4
  <2>2. CASE k = b
    BY <2>2
  <2>3. CASE k # b
    <3>1. k \in 1..(b - 1) /\ (k = b - 1 => k + 1 = b)
      BY <2>1, <2>3, <1>1
    <3>2. s[k] = Separator \/ (k = b - 1 /\ s[k] = Weak)
      BY <3>1 DEF Begins
    <3> QED
      BY <3>1, <3>2
  <2> QED
    BY <2>2, <2>3
<1>10. \A k \in 1..(L - 1) : Fine(s, d + k) <=> Fine(r, k)
  <2> SUFFICES ASSUME NEW k \in 1..(L - 1) PROVE Fine(s, d + k) <=> Fine(r, k)
    OBVIOUS
  <2>1. k \in 1..L /\ k + 1 \in 1..L /\ d + (k + 1) = (d + k) + 1
    BY <1>1
  <2>2. r[k] = s[d + k] /\ r[k + 1] = s[(d + k) + 1]
    BY <2>1, <1>6
  <2> QED
    BY <2>2
<1>11. ASSUME NEW i \in 1..L, NEW j \in 1..L
       PROVE  ListedAt(s, t, d + i, d + j) <=> ListedAt(r, t, i, j)
  <2>0. i \in Int /\ j \in Int /\ d \in Int
    OBVIOUS
  <2>1. r[i] = s[d + i] /\ r[j] = s[d + j]
    BY <1>6
  <2>a. d + i < d + j <=> i < j
    BY <2>0
  <2>2. i < j => SubSeq(r, i, j) = SubSeq(s, d + i, d + j)
    BY <1>8
  <2>3. /\ Outside(s, d + i) <=> Outside(r, i)
        /\ (QuotesBefore(s, d + j) = QuotesBefore(s, d + i) + 1 <=> QuotesBefore(r, j) = QuotesBefore(r, i) + 1)
    <3>1. i \in 1..(L + 1) /\ j \in 1..(L + 1)
      BY <1>1
    <3>2. /\ QuotesBefore(r, i) \in Nat /\ QuotesBefore(r, j) \in Nat
          /\ QuotesBefore(s, d + i) = 2 + QuotesBefore(r, i)
          /\ QuotesBefore(s, d + j) = 2 + QuotesBefore(r, j)
          /\ Outside(s, d + i) <=> Outside(r, i)
      BY <3>1, <1>7
    <3> QED
      BY <3>2
  <2>4. (\A k \in 1..(d + i - 1) : Outside(s, k) => Fine(s, k)) <=>
        (\A k \in 1..(i - 1) : Outside(r, k) => Fine(r, k))
    <3>1. ASSUME \A k \in 1..(d + i - 1) : Outside(s, k) => Fine(s, k), NEW k \in 1..(i - 1), Outside(r, k)
          PROVE  Fine(r, k)
      <4>1. d + k \in 1..(d + i - 1) /\ k \in 1..(L + 1) /\ k \in 1..(L - 1)
        BY <1>1, <3>1
      <4>2. Outside(s, d + k)
        BY <4>1, <1>7, <3>1
      <4>3. Fine(s, d + k)
        BY <4>1, <4>2, <3>1
      <4> HIDE DEF Fine
      <4> QED
        BY <4>1, <4>3, <1>10
    <3>2. ASSUME \A k \in 1..(i - 1) : Outside(r, k) => Fine(r, k), NEW k \in 1..(d + i - 1), Outside(s, k)
          PROVE  Fine(s, k)
      <4>1. CASE k \in 1..d
        BY <4>1, <1>9, <3>2
      <4>2. CASE k \notin 1..d
        <5> DEFINE m == k - d
        <5>1. m \in 1..(i - 1) /\ m \in 1..(L + 1) /\ m \in 1..(L - 1) /\ d + m = k
          BY <1>1, <3>2, <4>2
        <5> HIDE DEF m
        <5>2. Outside(r, m)
          BY <5>1, <1>7, <3>2
        <5>3. Fine(r, m)
          BY <5>1, <5>2, <3>2
        <5> HIDE DEF Fine
        <5> QED
          BY <5>1, <5>3, <1>10
      <4> QED
        BY <4>1, <4>2
    <3> HIDE DEF Fine
    <3> QED
      BY <3>1, <3>2
  <2> DEFINE m == d + i
             n == d + j
             Clear(u, k) == \A l \in 1..(k - 1) : Outside(u, l) => Fine(u, l)
  <2>5. Clear(s, m) <=> Clear(r, i)
    BY <2>4
  <2>6. \A u, k, l : ListedAt(u, t, k, l) <=>
          /\ k < l /\ SubSeq(u, k, l) = t /\ u[k] = Quote /\ u[l] = Quote
          /\ Outside(u, k) /\ QuotesBefore(u, l) = QuotesBefore(u, k) + 1 /\ Clear(u, k)
    BY DEF ListedAt
  <2>7. /\ r[i] = s[m] /\ r[j] = s[n] /\ (m < n <=> i < j)
        /\ i < j => SubSeq(r, i, j) = SubSeq(s, m, n)
        /\ Outside(s, m) <=> Outside(r, i)
        /\ QuotesBefore(s, n) = QuotesBefore(s, m) + 1 <=> QuotesBefore(r, j) = QuotesBefore(r, i) + 1
    BY <2>1, <2>a, <2>2, <2>3
  <2> HIDE DEF m, n, Clear
  <2>8. ListedAt(s, t, m, n) <=> ListedAt(r, t, i, j)
    <3>1. ListedAt(s, t, m, n) <=>
            /\ m < n /\ SubSeq(s, m, n) = t /\ s[m] = Quote /\ s[n] = Quote
            /\ Outside(s, m) /\ QuotesBefore(s, n) = QuotesBefore(s, m) + 1 /\ Clear(s, m)
      BY <2>6, Zenon
    <3>2. ListedAt(r, t, i, j) <=>
            /\ i < j /\ SubSeq(r, i, j) = t /\ r[i] = Quote /\ r[j] = Quote
            /\ Outside(r, i) /\ QuotesBefore(r, j) = QuotesBefore(r, i) + 1 /\ Clear(r, i)
      BY <2>6, Zenon
    <3>3. CASE i < j
      BY <3>1, <3>2, <3>3, <2>5, <2>7, Zenon
    <3>4. CASE ~(i < j)
      BY <3>1, <3>2, <3>4, <2>7, Zenon
    <3> QED
      BY <3>3, <3>4, Zenon
  <2> QED
    BY <2>8 DEF m, n
<1>12. ASSUME Lists(s, t) PROVE SubSeq(s, b, d) = t \/ Lists(r, t)
  <2>1. PICK i \in DOMAIN s, j \in DOMAIN s : ListedAt(s, t, i, j)
    BY <1>12, ListsIsListedAt
  <2>2. /\ i < j /\ SubSeq(s, i, j) = t /\ s[i] = Quote /\ s[j] = Quote
        /\ Outside(s, i) /\ QuotesBefore(s, j) = QuotesBefore(s, i) + 1
    BY <2>1 DEF ListedAt
  <2>3. CASE i = b
    <3>1. QuotesBefore(s, j) = 1
      <4>1. b \in 1..b
        BY <1>1
      <4> QED
        BY <4>1, <2>2, <2>3, <1>2
    <3>2. ~ d < j
      <4> SUFFICES ASSUME d < j PROVE FALSE
        OBVIOUS
      <4>1. d + 1 \in Nat \ {0} /\ j \in Nat /\ d + 1 <= j
        BY <1>1
      <4>2. QuotesBefore(s, d + 1) <= QuotesBefore(s, j)
        BY <4>1, QuotesGrow
      <4> QED
        BY <4>2, <3>1, <1>5
    <3>3. j = d
      BY <3>2, <2>2, <2>3, <1>1
    <3> QED
      BY <3>3, <2>2, <2>3
  <2>4. CASE i # b
    <3>1. i > d
      BY <2>2, <2>4, <1>1, <1>2, <1>4
    <3> DEFINE m == i - d
               n == j - d
    <3>2. m \in 1..L /\ n \in 1..L /\ d + m = i /\ d + n = j
      BY <3>1, <2>2, <1>1 DEF L
    <3> HIDE DEF m, n
    <3>3. ListedAt(r, t, m, n)
      BY <3>2, <2>1, <1>11
    <3> QED
      BY <3>2, <3>3, <1>6, ListsIsListedAt
  <2> QED
    BY <2>3, <2>4
<1>13. ASSUME SubSeq(s, b, d) = t PROVE Lists(s, t)
  <2>1. b \in DOMAIN s /\ d \in DOMAIN s /\ b < d /\ b \in 1..b /\ d \in (b + 1)..d
    BY <1>1
  <2>2. \A k \in 1..(b - 1) : Outside(s, k) => Fine(s, k)
    <3>1. \A k \in 1..(b - 1) : k \in 1..d
      BY <1>1
    <3> QED
      BY <3>1, <1>9
  <2>3. Outside(s, b) /\ QuotesBefore(s, d) = QuotesBefore(s, b) + 1
    BY <2>1, <1>2, <1>4
  <2>4. ListedAt(s, t, b, d)
    BY <2>1, <2>2, <2>3, <1>13 DEF ListedAt
  <2> QED
    BY <2>1, <2>4, ListsIsListedAt
<1>14. ASSUME Lists(r, t) PROVE Lists(s, t)
  <2>1. PICK i \in 1..L, j \in 1..L : ListedAt(r, t, i, j)
    BY <1>14, <1>6, ListsIsListedAt
  <2>2. ListedAt(s, t, d + i, d + j)
    BY <2>1, <1>11
  <2>3. d + i \in DOMAIN s /\ d + j \in DOMAIN s
    BY <1>1 DEF L
  <2> QED
    BY <2>2, <2>3, ListsIsListedAt
<1> QED
  BY <1>12, <1>13, <1>14 DEF r

LEMMA ListsUnfold ==
    ASSUME NEW S, NEW s \in Seq(S), NEW t
    PROVE  Lists(s, t) <=> NextETag(s).ok /\ (NextETag(s).tag = t \/ Lists(NextETag(s).rest, t))
<1>1. PICK b : Begins(s, b) /\ Cuts(s, b, NextETag(s))
  BY NextETagCuts
<1> DEFINE n == NextETag(s)
<1>2. Cuts(s, b, n)
  BY <1>1
<1> HIDE DEF n
<1>3. CASE n.ok
  <2>1. PICK d \in (b + 1)..Len(s) :
             /\ s[b] = Quote /\ s[d] = Quote /\ \A k \in (b + 1)..(d - 1) : s[k] # Quote
             /\ n.tag = SubSeq(s, b, d) /\ n.rest = SubSeq(s, d + 1, Len(s))
    BY <1>2, <1>3 DEF Cuts
  <2>2. Lists(s, t) <=> SubSeq(s, b, d) = t \/ Lists(SubSeq(s, d + 1, Len(s)), t)
    BY <1>1, <2>1, OneTagListed
  <2> QED
    BY <1>3, <2>1, <2>2 DEF n
<1>4. CASE ~n.ok
  <2>1. b > Len(s) \/ s[b] # Quote \/ \A k \in (b + 1)..Len(s) : s[k] # Quote
    BY <1>2, <1>4 DEF Cuts
  <2>2. ~Lists(s, t)
    BY <1>1, <2>1, NothingListed
  <2> QED
    BY <1>4, <2>2 DEF n
<1> QED
  BY <1>3, <1>4

\* What nextETag leaves of a rest of a list is a later rest of it.
LEMMA RestOfRest ==
    ASSUME NEW S, NEW s \in Seq(S), NEW i \in 1..(Len(s) + 1)
    PROVE  LET n == NextETag(SubSeq(s, i, Len(s)))
           IN  \E j \in 1..(Len(s) + 1) : n.rest = SubSeq(s, j, Len(s)) /\ (n.ok => j > i)
<1> DEFINE p == i - 1
           N == Len(s)
           u == SubSeq(s, p + 1, N)
           n == NextETag(u)
<1>1. N \in Nat /\ p \in 0..N /\ p + 1 = i /\ N - p \in Nat /\ p \in Int
  OBVIOUS
<1>2. u \in Seq(S) /\ Len(u) = N - p
  <2>1. N \in (i - 1)..N /\ N - i + 1 = N - p
    BY <1>1
  <2>2. SubSeq(s, i, N) \in Seq(S) /\ Len(SubSeq(s, i, N)) = N - i + 1
    BY <2>1, SubSeqFacts
  <2> QED
    BY <2>1, <2>2, <1>1
<1>3. u = SubSeq(s, i, Len(s))
  BY <1>1
<1> HIDE DEF p, u
<1>4. PICK b : Begins(u, b) /\ Cuts(u, b, n)
  BY <1>2, NextETagCuts
<1> HIDE DEF n
<1>5. b \in 1..(Len(u) + 1)
  BY <1>4 DEF Begins
<1>6. CASE n.ok
  <2>1. PICK d \in (b + 1)..Len(u) : n.rest = SubSeq(u, d + 1, Len(u))
    BY <1>4, <1>6 DEF Cuts
  <2> DEFINE e == d + 1
             m == Len(u)
             j == p + e
  <2>2. /\ e \in 1..(N - p + 1) /\ m \in (e - 1)..(N - p) /\ p + m = N
        /\ j \in 1..(N + 1) /\ j > i
    BY <1>1, <1>2, <1>5, <2>1
  <2>3. n.rest = SubSeq(u, e, m)
    BY <2>1
  <2> HIDE DEF e, m
  <2>4. SubSeq(SubSeq(s, p + 1, N), e, m) = SubSeq(s, p + e, p + m)
    BY <1>1, <2>2, PartOfRest
  <2>5. n.rest = SubSeq(s, j, Len(s)) /\ j \in 1..(Len(s) + 1)
    BY <2>2, <2>3, <2>4 DEF u
  <2> HIDE DEF j
  <2> QED
    BY <2>2, <2>5, <1>3 DEF n
<1>7. CASE ~n.ok
  <2>1. n.rest = <<>>
    BY <1>4, <1>7 DEF Cuts
  <2> DEFINE j == N + 1
             w == SubSeq(s, j, N)
  <2>2. j \in 1..(Len(s) + 1) /\ N \in (j - 1)..Len(s) /\ N - j + 1 = 0
    BY <1>1
  <2> HIDE DEF j, N
  <2>3. w \in Seq(S) /\ Len(w) = N - j + 1
    BY <2>2, SubSeqFacts DEF N
  <2>4. w = <<>>
    BY <2>2, <2>3
  <2>5. n.rest = SubSeq(s, j, Len(s))
    BY <2>1, <2>4 DEF N
  <2> QED
    BY <2>2, <2>5, <1>3, <1>7 DEF n
<1> QED
  BY <1>6, <1>7

\* The loop of etagListMatches (respond.go) finds a tag in a list exactly when
\* the list has it outside of all other quotes, for lists of every length.
THEOREM MatchesIsListed ==
    ASSUME NEW S, NEW s \in Seq(S), NEW etag
    PROVE  ETagListMatches(s, etag) <=> s = AnyETag \/ Lists(s, TrimWeak(etag))
<1> DEFINE t == TrimWeak(etag)
           N == Len(s)
           R(i) == SubSeq(s, i, Len(s))
           rests == {SubSeq(s, i, Len(s)) : i \in 1..(Len(s) + 1)}
           Found(f, l) == \E n \in {NextETag(l)} : n.ok /\ (n.tag = TrimWeak(etag) \/ f[n.rest])
           Loop(f) == f = [l \in rests |-> \E n \in {NextETag(l)} : n.ok /\ (n.tag = TrimWeak(etag) \/ f[n.rest])]
           found == CHOOSE f : Loop(f)
           g == [l \in rests |-> Lists(l, t)]
<1>1. N \in Nat
  OBVIOUS
<1>2. \A l \in rests : l \in Seq(S) /\ NextETag(l).rest \in rests
  <2> SUFFICES ASSUME NEW i \in 1..(Len(s) + 1)
               PROVE  R(i) \in Seq(S) /\ NextETag(R(i)).rest \in rests
    OBVIOUS
  <2>1. R(i) \in Seq(S)
    <3>1. Len(s) \in (i - 1)..Len(s)
      BY <1>1
    <3> QED
      BY <3>1, SubSeqFacts
  <2>2. PICK j \in 1..(Len(s) + 1) : NextETag(R(i)).rest = SubSeq(s, j, Len(s))
    BY RestOfRest, Zenon
  <2> QED
    BY <2>1, <2>2
<1>3. Loop(g)
  <2> HIDE DEF rests
  <2>1. ASSUME NEW l \in rests
        PROVE  Lists(l, t) <=> Found(g, l)
    <3>1. g[NextETag(l).rest] = Lists(NextETag(l).rest, t)
      BY <1>2
    <3>2. Lists(l, t) <=> NextETag(l).ok /\ (NextETag(l).tag = t \/ Lists(NextETag(l).rest, t))
      BY <1>2, ListsUnfold
    <3> HIDE DEF g, t
    <3> QED
      BY <3>1, <3>2 DEF t
  <2>2. \A l \in rests : Lists(l, t) = Found(g, l)
    BY <2>1 DEF Lists
  <2>3. g = [l \in rests |-> Found(g, l)]
    <3> HIDE DEF Found, t
    <3> QED
      BY <2>2, Zenon
  <2> QED
    BY <2>3
<1>4. Loop(found)
  <2> HIDE DEF Loop
  <2> QED
    BY <1>3
<1>5. ETagListMatches(s, etag) <=> s = AnyETag \/ found[s]
  BY DEF ETagListMatches
<1> HIDE DEF found, g
<1>6. \A l \in rests : found[l] <=> NextETag(l).ok /\ (NextETag(l).tag = t \/ found[NextETag(l).rest])
  <2> HIDE DEF rests
  <2> QED
    BY <1>4
<1> HIDE DEF Loop, t
<1>7. \A i \in 1..(Len(s) + 1) : found[R(i)] <=> Lists(R(i), t)
  <2> DEFINE T == {k \in 0..N : ~(found[R(N + 1 - k)] <=> Lists(R(N + 1 - k), t))}
  <2>1. ASSUME T # {} PROVE FALSE
    <3>1. T \subseteq Nat
      OBVIOUS
    <3>2. PICK k \in T : \A m \in T : k <= m
      BY <2>1, <3>1, LeastNumber
    <3> DEFINE i == N + 1 - k
               n == NextETag(R(i))
    <3>3. i \in 1..(Len(s) + 1) /\ N + 1 - i = k
      BY <1>1
    <3>4. ~(found[R(i)] <=> Lists(R(i), t))
      OBVIOUS
    <3> HIDE DEF i, T
    <3>5. PICK j \in 1..(Len(s) + 1) : n.rest = R(j) /\ (n.ok => j > i)
      BY <3>3, RestOfRest, Zenon
    <3>6. R(i) \in rests
      BY <3>3
    <3>7. found[R(i)] <=> n.ok /\ (n.tag = t \/ found[R(j)])
      <4> HIDE DEF R, rests
      <4> QED
        BY <3>5, <3>6, <1>6
    <3>8. Lists(R(i), t) <=> n.ok /\ (n.tag = t \/ Lists(R(j), t))
      <4> HIDE DEF R, rests
      <4> QED
        BY <3>5, <3>6, <1>2, ListsUnfold
    <3>9. n.ok => (found[R(j)] <=> Lists(R(j), t))
      <4> SUFFICES ASSUME n.ok PROVE found[R(j)] <=> Lists(R(j), t)
        OBVIOUS
      <4> DEFINE m == N + 1 - j
      <4>1. m \in 0..N /\ ~ k <= m /\ N + 1 - m = j
        BY <3>3, <3>5, <1>1
      <4> HIDE DEF m, n, R
      <4>2. m \notin T
        BY <4>1, <3>2
      <4> QED
        BY <4>1, <4>2 DEF T
    <3> HIDE DEF n, R
    <3> QED
      BY <3>4, <3>7, <3>8, <3>9
  <2>2. ASSUME NEW i \in 1..(Len(s) + 1) PROVE found[R(i)] <=> Lists(R(i), t)
    <3> DEFINE k == N + 1 - i
    <3>1. k \in 0..N /\ N + 1 - k = i
      BY <1>1
    <3> HIDE DEF k, R
    <3> QED
      BY <3>1, <2>1
  <2> QED
    BY <2>2
<1>8. s = R(1) /\ 1 \in 1..(Len(s) + 1)
  <2>1. s = R(1)
    OBVIOUS
  <2>2. 1 \in 1..(Len(s) + 1)
    BY <1>1
  <2> QED
    BY <2>1, <2>2
<1> HIDE DEF R
<1>9. found[s] <=> Lists(s, t)
  <2>1. found[R(1)] <=> Lists(R(1), t)
    BY <1>7, <1>8
  <2> QED
    BY <2>1, <1>8
<1> QED
  BY <1>5, <1>9 DEF t

(***************************************************************************)
(* The values of a field, joined, are one sequence of tokens.              *)
(***************************************************************************)

\* The first i of the sequences q, one after the other, for each i up to k.
Flats(m, q, k) ==
    /\ m = [i \in 1..k |-> m[i]]
    /\ \A i \in 1..k : m[i] = IF i = 1 THEN q[i] ELSE m[i - 1] \o q[i]

LEMMA FlatsExist ==
    ASSUME NEW q, NEW n \in Nat
    PROVE  \E m : Flats(m, q, n)
<1> DEFINE T == {k \in Nat : ~ \E m : Flats(m, q, k)}
<1> SUFFICES ASSUME T # {} PROVE FALSE
  OBVIOUS
<1>1. PICK k \in T : \A j \in T : k <= j
  BY LeastNumber
<1>2. k \in Nat /\ ~ \E m : Flats(m, q, k)
  OBVIOUS
<1>3. CASE k = 0
  <2> DEFINE z == [i \in 1..0 |-> q]
  <2>1. z = [i \in 1..0 |-> z[i]] /\ \A i \in 1..0 : FALSE
    OBVIOUS
  <2>2. Flats(z, q, 0)
    BY <2>1 DEF Flats
  <2> QED
    BY <2>2, <1>2, <1>3
<1>4. CASE k # 0
  <2>1. k - 1 \in Nat /\ ~ k <= k - 1
    BY <1>2, <1>4
  <2>2. PICK m : Flats(m, q, k - 1)
    BY <2>1, <1>1
  <2> DEFINE x == IF k = 1 THEN q[k] ELSE m[k - 1] \o q[k]
             z == [i \in 1..k |-> IF i < k THEN m[i] ELSE x]
  <2>3. z[k] = x /\ z = [i \in 1..k |-> z[i]] /\ \A i \in 1..(k - 1) : z[i] = m[i]
    <3> HIDE DEF x
    <3>1. k \in 1..k /\ \A i \in 1..(k - 1) : i \in 1..k /\ i < k
      BY <1>2, <1>4
    <3> QED
      BY <3>1
  <2> HIDE DEF z
  <2>4. ASSUME NEW i \in 1..k
        PROVE  z[i] = IF i = 1 THEN q[i] ELSE z[i - 1] \o q[i]
    <3>1. i # 1 => z[i - 1] = m[i - 1]
      <4>1. i # 1 => i - 1 \in 1..(k - 1)
        BY <1>2
      <4> QED
        BY <4>1, <2>3
    <3>2. CASE i = k
      BY <3>1, <3>2, <2>3
    <3>3. CASE i # k
      <4>1. i \in 1..(k - 1)
        BY <3>3, <1>2
      <4>2. m[i] = IF i = 1 THEN q[i] ELSE m[i - 1] \o q[i]
        BY <4>1, <2>2 DEF Flats
      <4> QED
        BY <4>1, <4>2, <3>1, <2>3
    <3> QED
      BY <3>2, <3>3
  <2>5. Flats(z, q, k)
    BY <2>3, <2>4 DEF Flats
  <2> QED
    BY <2>5, <1>2
<1> QED
  BY <1>3, <1>4

LEMMA ConcatFacts ==
    ASSUME NEW S, NEW a \in Seq(S), NEW b \in Seq(S)
    PROVE  a \o b \in Seq(S) /\ Len(a \o b) = Len(a) + Len(b)
OBVIOUS

LEMMA TailBehindOne ==
    ASSUME NEW S, NEW a \in Seq(S), NEW b \in Seq(S), Len(a) = 1
    PROVE  Tail(a \o b) = b
<1> DEFINE u == a \o b
<1>1. Len(b) \in Nat
  OBVIOUS
<1>2. u \in Seq(S) /\ Len(u) = 1 + Len(b) /\ \A i \in 1..Len(b) : u[i + 1] = b[i]
  <2>1. u \in Seq(S) /\ Len(u) = Len(a) + Len(b)
    BY ConcatFacts
  <2>2. \A i \in 1..(Len(a) + Len(b)) : u[i] = IF i <= Len(a) THEN a[i] ELSE b[i - Len(a)]
    BY ConcatProperties
  <2>3. ASSUME NEW i \in 1..Len(b) PROVE u[i + 1] = b[i]
    <3>1. i + 1 \in 1..(Len(a) + Len(b)) /\ ~ (i + 1 <= Len(a)) /\ (i + 1) - Len(a) = i
      BY <1>1
    <3> HIDE DEF u
    <3> QED
      BY <3>1, <2>2
  <2> QED
    BY <2>1, <2>3
<1> HIDE DEF u
<1>3. u # <<>>
  BY <1>1, <1>2
<1>4. /\ Tail(u) \in Seq(S) /\ Len(Tail(u)) = Len(u) - 1
      /\ \A i \in 1..(Len(u) - 1) : Tail(u)[i] = u[i + 1]
  BY <1>2, <1>3
<1>5. Len(Tail(u)) = Len(b) /\ \A i \in 1..Len(Tail(u)) : Tail(u)[i] = b[i]
  BY <1>1, <1>2, <1>4
<1>6. Tail(u) = b
  BY <1>4, <1>5, SameAtEveryPlace
<1> QED
  BY <1>6 DEF u

LEMMA SeqGrows ==
    ASSUME NEW A, NEW B, A \subseteq B, NEW s \in Seq(A)
    PROVE  s \in Seq(B)
<1>1. Len(s) \in Nat /\ s \in [1..Len(s) -> B]
  OBVIOUS
<1> DEFINE n == Len(s)
<1> HIDE DEF n
<1> QED
  BY <1>1, FunctionIsSeq

LEMMA FlattenUnfolds ==
    ASSUME NEW q, Len(q) \in Nat \ {0}
    PROVE  \E f : /\ FlattenSeq(q) = f[Len(q)]
                  /\ \A i \in 1..Len(q) : f[i] = IF i = 1 THEN q[i] ELSE f[i - 1] \o q[i]
<1> DEFINE N == Len(q)
           Loop(m) == m = [i \in 1..Len(q) |-> IF i = 1 THEN q[i] ELSE m[i - 1] \o q[i]]
           f == CHOOSE m : Loop(m)
<1>1. PICK m : Flats(m, q, N)
  BY FlatsExist
<1>2. Loop(m)
  <2> DEFINE e == [i \in 1..Len(q) |-> IF i = 1 THEN q[i] ELSE m[i - 1] \o q[i]]
  <2>1. m = [i \in 1..N |-> m[i]] /\ DOMAIN e = 1..N
    BY <1>1 DEF Flats
  <2>2. \A i \in 1..N : m[i] = e[i]
    BY <1>1 DEF Flats
  <2>3. m = e
    BY <2>1, <2>2
  <2> QED
    BY <2>3
<1>3. Loop(f)
  <2> HIDE DEF Loop
  <2> QED
    BY <1>2
<1>4. FlattenSeq(q) = f[N]
  BY DEF FlattenSeq
<1> HIDE DEF f
<1>5. \A i \in 1..N : f[i] = IF i = 1 THEN q[i] ELSE f[i - 1] \o q[i]
  BY <1>3
<1> QED
  BY <1>4, <1>5

LEMMA FlattenIsSeq ==
    ASSUME NEW S, NEW q, Len(q) \in Nat \ {0},
           \A i \in 1..Len(q) : q[i] \in Seq(S) /\ Len(q[i]) # 0
    PROVE  /\ FlattenSeq(q) \in Seq(S) /\ Len(FlattenSeq(q)) # 0
           /\ Len(q) = 1 => FlattenSeq(q) = q[1]
<1> DEFINE N == Len(q)
<1>4. PICK f : /\ FlattenSeq(q) = f[N]
               /\ \A i \in 1..N : f[i] = IF i = 1 THEN q[i] ELSE f[i - 1] \o q[i]
  BY FlattenUnfolds
<1>5. \A i \in 1..N : f[i] = IF i = 1 THEN q[i] ELSE f[i - 1] \o q[i]
  BY <1>4
<1>6. \A i \in 1..N : f[i] \in Seq(S) /\ Len(f[i]) # 0
  <2> DEFINE T == {i \in 1..N : ~(f[i] \in Seq(S) /\ Len(f[i]) # 0)}
  <2> SUFFICES ASSUME T # {} PROVE FALSE
    OBVIOUS
  <2>1. T \subseteq Nat
    OBVIOUS
  <2>2. PICK k \in T : \A i \in T : k <= i
    BY <2>1, LeastNumber
  <2>3. CASE k = 1
    BY <2>3, <1>5
  <2>4. CASE k # 1
    <3> DEFINE a == f[k - 1]
               b == q[k]
    <3>1. k - 1 \in 1..N /\ ~ k <= k - 1 /\ k \in 1..N
      BY <2>4
    <3>2. a \in Seq(S) /\ Len(a) # 0
      BY <3>1, <2>2
    <3>3. b \in Seq(S) /\ f[k] = a \o b
      BY <3>1, <2>4, <1>5
    <3> HIDE DEF a, b
    <3>4. f[k] \in Seq(S) /\ Len(f[k]) = Len(a) + Len(b)
      BY <3>2, <3>3, ConcatFacts
    <3>5. Len(a) \in Nat /\ Len(b) \in Nat
      BY <3>2, <3>3
    <3> QED
      BY <3>2, <3>4, <3>5
  <2> QED
    BY <2>3, <2>4
<1>7. N \in 1..N
  OBVIOUS
<1>8. N = 1 => f[N] = q[1]
  BY <1>5, <1>7
<1> QED
  BY <1>4, <1>6, <1>7, <1>8

LEMMA JoinIsList ==
    ASSUME NEW values \in Seq(GoodValues)
    PROVE  /\ Join(values) \in Seq(Tokens \cup {","})
           /\ Len(values) = 1 => Join(values) = values[1]
<1> DEFINE S == Tokens \cup {","}
           q == [i \in DOMAIN values |-> <<",">> \o values[i]]
           N == Len(values)
<1>1. N \in Nat /\ DOMAIN values = 1..N
  OBVIOUS
<1>2. CASE values = <<>>
  <2>1. <<>> \in Seq(S) /\ Len(<<>>) # 1
    OBVIOUS
  <2> QED
    BY <1>2, <2>1 DEF Join
<1>3. CASE values # <<>>
  <2>1. N \in Nat \ {0}
    BY <1>1, <1>3
  <2>2. ASSUME NEW i \in 1..N
        PROVE  q[i] \in Seq(S) /\ Len(q[i]) # 0 /\ Tail(q[i]) = values[i]
    <3> DEFINE v == values[i]
               c == <<",">>
    <3>1. v \in Seq(S)
      <4>1. v \in GoodValues
        BY <1>1
      <4>2. v \in Seq(Tokens)
        BY <4>1 DEF GoodValues
      <4>3. Tokens \subseteq S
        OBVIOUS
      <4> HIDE DEF v, S
      <4> QED
        BY <4>2, <4>3, SeqGrows
    <3>2. "," \in S
      OBVIOUS
    <3> HIDE DEF S
    <3>3. c \in Seq(S) /\ Len(c) = 1
      <4> DEFINE x == ","
      <4> HIDE DEF x
      <4>1. x \in S
        BY <3>2 DEF x
      <4>2. <<x>> \in Seq(S) /\ Len(<<x>>) = 1
        BY <4>1
      <4> QED
        BY <4>2 DEF x
    <3>4. q[i] = c \o v
      BY <1>1
    <3> HIDE DEF v, c, q
    <3>5. q[i] \in Seq(S) /\ Len(q[i]) = Len(c) + Len(v)
      BY <3>1, <3>3, <3>4, ConcatFacts
    <3>6. Len(v) \in Nat
      BY <3>1
    <3>7. Tail(c \o v) = v
      BY <3>1, <3>3, TailBehindOne
    <3> QED
      BY <3>3, <3>4, <3>5, <3>6, <3>7 DEF v
  <2>3. Len(q) = N
    <3>1. q = [i \in 1..N |-> q[i]] /\ DOMAIN q = 1..N
      BY <1>1
    <3>2. q \in [1..N -> Seq(S)]
      <4> HIDE DEF q, S
      <4> QED
        BY <2>2, <3>1
    <3>3. q \in Seq(Seq(S))
      <4> HIDE DEF q, N, S
      <4> QED
        BY <3>2, <1>1, FunctionIsSeq
    <3>4. DOMAIN q = 1..Len(q) /\ Len(q) \in Nat
      <4> HIDE DEF q, S
      <4> QED
        BY <3>3
    <3> HIDE DEF q, N
    <3> QED
      BY <3>1, <3>4, <1>1
  <2>4. Join(values) = Tail(FlattenSeq(q))
    BY <1>3 DEF Join
  <2> HIDE DEF q, N, S
  <2>5. /\ FlattenSeq(q) \in Seq(S) /\ Len(FlattenSeq(q)) # 0
        /\ Len(q) = 1 => FlattenSeq(q) = q[1]
    BY <2>1, <2>2, <2>3, FlattenIsSeq
  <2> DEFINE u == FlattenSeq(q)
  <2> HIDE DEF u
  <2>6. u \in Seq(S) /\ Len(u) # 0
    BY <2>5 DEF u
  <2>7. u # <<>>
    BY <2>6
  <2>8. Tail(u) \in Seq(S)
    BY <2>6, <2>7
  <2>9. N = 1 => Join(values) = values[1]
    <3> SUFFICES ASSUME N = 1 PROVE Join(values) = values[1]
      OBVIOUS
    <3>1. 1 \in 1..N
      OBVIOUS
    <3> QED
      BY <3>1, <2>2, <2>3, <2>4, <2>5
  <2> QED
    BY <2>4, <2>8, <2>9 DEF u, S, N
<1> QED
  BY <1>2, <1>3

(***************************************************************************)
(* What the origin answers, against what the request asks for.             *)
(***************************************************************************)

LEMMA NoEmptyTag ==
    ASSUME NEW S, NEW s \in Seq(S)
    PROVE  ~Lists(s, <<>>)
<1> SUFFICES ASSUME NEW i \in DOMAIN s, NEW j \in DOMAIN s, i < j, SubSeq(s, i, j) = <<>>
             PROVE  FALSE
  BY DEF Lists
<1>1. Len(s) \in Nat /\ DOMAIN s = 1..Len(s)
  OBVIOUS
<1>2. i \in 1..(Len(s) + 1) /\ j \in (i - 1)..Len(s)
  BY <1>1
<1>3. Len(SubSeq(s, i, j)) = j - i + 1
  BY <1>2, SubSeqFacts
<1>4. Len(<<>>) = 0
  OBVIOUS
<1> QED
  BY <1>1, <1>3, <1>4

\* The tag of a response is looked for as the property has it.
LEMMA TagIsMatched ==
    ASSUME NEW S, NEW inm \in Seq(S), NEW etag
    PROVE  /\ etag # <<>> /\ ETagListMatches(inm, etag) <=>
                 etag # <<>> /\ (inm = AnyETag \/ Lists(inm, TrimWeak(etag)))
           /\ inm = AnyETag \/ (etag # <<>> /\ ETagListMatches(inm, etag)) <=>
                 inm = AnyETag \/ Lists(inm, TrimWeak(etag))
<1>1. ETagListMatches(inm, etag) <=> inm = AnyETag \/ Lists(inm, TrimWeak(etag))
  BY MatchesIsListed
<1>2. etag = <<>> => ~Lists(inm, TrimWeak(etag))
  <2>1. TrimWeak(<<>>) = <<>>
    BY DEF TrimWeak
  <2> QED
    BY <2>1, NoEmptyTag
<1> QED
  BY <1>1, <1>2

\* The type that build adds changes none of the fields that conditions read.
LEMMA TypedKeeps ==
    ASSUME NEW h \in GoodHeaders
    PROVE  \A f \in {"Etag", "Last-Modified"} : Get(Typed(h), f) = Get(h, f)
<1> SUFFICES ASSUME NEW f \in {"Etag", "Last-Modified"} PROVE Typed(h)[f] = h[f]
  BY DEF Get
<1>1. f \in Fields /\ f # "Content-Type" /\ DOMAIN h = Fields
  BY DEF Fields, GoodHeaders
<1> QED
  BY <1>1 DEF Typed, Set

\* What CutTag takes for a tag at the start of s.
LEMMA CutsStrongTag ==
    ASSUME NEW S, NEW s \in Seq(S), NEW etag \in Seq(S)
    PROVE  /\ StrongMatch(s, etag) <=>
                 IsStrongTag(etag) /\ Len(etag) <= Len(s) /\ SubSeq(s, 1, Len(etag)) = etag
           /\ CutTag(s).ok => s[1] = Quote /\ Len(s) >= 2
<1> DEFINE found == {i \in DOMAIN s : i > 1 /\ s[i] = Quote}
           close == FirstOf(s, found)
           n == Len(etag)
<1>1. Len(s) \in Nat /\ DOMAIN s = 1..Len(s) /\ n \in Nat /\ DOMAIN etag = 1..n
  OBVIOUS
<1>2. /\ found = {} => close = Len(s) + 1
      /\ found # {} => close \in found /\ \A k \in found : close <= k
  <2>1. found \in SUBSET DOMAIN s
    OBVIOUS
  <2> HIDE DEF found
  <2> QED
    BY <2>1, FirstOfFacts
<1>3. CutTag(s) = IF s # <<>> /\ s[1] = Quote /\ close <= Len(s)
                  THEN [ok |-> TRUE, tag |-> SubSeq(s, 1, close), rest |-> SubSeq(s, close + 1, Len(s))]
                  ELSE [ok |-> FALSE, tag |-> <<>>, rest |-> <<>>]
  BY Zenon DEF CutTag
<1> HIDE DEF close
<1>4. /\ CutTag(s).ok <=> s # <<>> /\ s[1] = Quote /\ close <= Len(s)
      /\ CutTag(s).ok => CutTag(s).tag = SubSeq(s, 1, close)
  <2> DEFINE begins == s # <<>> /\ s[1] = Quote /\ close <= Len(s)
             c == CutTag(s)
             x == SubSeq(s, 1, close)
             y == SubSeq(s, close + 1, Len(s))
  <2>1. c = IF begins THEN [ok |-> TRUE, tag |-> x, rest |-> y]
            ELSE [ok |-> FALSE, tag |-> <<>>, rest |-> <<>>]
    BY <1>3
  <2> HIDE DEF begins, c, x, y
  <2>2. CASE begins
    <3>1. c = [ok |-> TRUE, tag |-> x, rest |-> y]
      BY <2>1, <2>2
    <3>2. c.ok = TRUE /\ c.tag = x
      BY <3>1
    <3> QED
      BY <2>2, <3>2 DEF begins, c, x
  <2>3. CASE ~begins
    <3>1. c = [ok |-> FALSE, tag |-> <<>>, rest |-> <<>>]
      BY <2>1, <2>3
    <3>2. c.ok = FALSE
      BY <3>1
    <3> QED
      BY <2>3, <3>2 DEF begins, c
  <2> QED
    BY <2>2, <2>3
<1>5. close <= Len(s) => close \in found /\ close \in 2..Len(s) /\ s[close] = Quote
                         /\ \A k \in 2..(close - 1) : s[k] # Quote
  <2> SUFFICES ASSUME close <= Len(s)
               PROVE  close \in found /\ close \in 2..Len(s) /\ s[close] = Quote
                         /\ \A k \in 2..(close - 1) : s[k] # Quote
    OBVIOUS
  <2>1. found # {}
    BY <1>1, <1>2
  <2>2. close \in found /\ \A k \in found : close <= k
    BY <1>2, <2>1
  <2>3. close \in 2..Len(s) /\ s[close] = Quote
    BY <1>1, <2>2
  <2>4. ASSUME NEW k \in 2..(close - 1) PROVE s[k] # Quote
    <3>1. k \in DOMAIN s /\ k > 1 /\ ~ close <= k
      BY <1>1, <2>3
    <3> QED
      BY <2>2, <3>1
  <2> QED
    BY <2>2, <2>3, <2>4
<1>6. CutTag(s).ok => s[1] = Quote /\ Len(s) >= 2
  BY <1>1, <1>4, <1>5
<1>7. ASSUME StrongMatch(s, etag)
      PROVE  IsStrongTag(etag) /\ n <= Len(s) /\ SubSeq(s, 1, n) = etag
  <2>1. CutTag(s).ok /\ etag = SubSeq(s, 1, close)
    BY <1>4, <1>7 DEF StrongMatch
  <2>2. s[1] = Quote /\ close \in 2..Len(s) /\ s[close] = Quote /\ \A k \in 2..(close - 1) : s[k] # Quote
    BY <1>4, <1>5, <2>1
  <2>3. n = close /\ \A i \in 1..close : etag[i] = s[i]
    <3> DEFINE one == 1
    <3>1. one \in 1..(Len(s) + 1) /\ close \in (one - 1)..Len(s) /\ close - one + 1 = close
      BY <1>1, <2>2
    <3>2. etag = SubSeq(s, one, close)
      BY <2>1
    <3> HIDE DEF one
    <3>3. /\ Len(SubSeq(s, one, close)) = close - one + 1
          /\ \A i \in 1..(close - one + 1) : SubSeq(s, one, close)[i] = s[one + i - 1]
      BY <3>1, SubSeqFacts
    <3>4. \A i \in 1..close : one + i - 1 = i
      BY <2>2 DEF one
    <3> QED
      BY <3>1, <3>2, <3>3, <3>4
  <2>4. IsStrongTag(etag)
    BY <2>2, <2>3 DEF IsStrongTag
  <2> QED
    BY <1>1, <2>1, <2>2, <2>3, <2>4
<1>8. ASSUME IsStrongTag(etag), n <= Len(s), SubSeq(s, 1, n) = etag
      PROVE  StrongMatch(s, etag)
  <2>1. /\ n >= 2 /\ etag[1] = Quote /\ etag[n] = Quote
        /\ \A k \in 2..(n - 1) : etag[k] # Quote
    BY <1>8 DEF IsStrongTag
  <2>2. \A i \in 1..n : etag[i] = s[i]
    <3> DEFINE one == 1
    <3>1. one \in 1..(Len(s) + 1) /\ n \in (one - 1)..Len(s) /\ n - one + 1 = n
      BY <1>1, <1>8, <2>1
    <3>2. etag = SubSeq(s, one, n)
      BY <1>8
    <3> HIDE DEF one, n
    <3>3. \A i \in 1..(n - one + 1) : SubSeq(s, one, n)[i] = s[one + i - 1]
      BY <3>1, SubSeqFacts
    <3>4. \A i \in 1..n : one + i - 1 = i
      BY <1>1 DEF one
    <3> QED
      BY <3>1, <3>2, <3>3, <3>4
  <2>3. n \in found
    BY <1>1, <1>8, <2>1, <2>2
  <2>4. close \in found /\ close <= n
    BY <1>2, <2>3
  <2>5. close \in Nat /\ close > 1 /\ s[close] = Quote
    BY <1>1, <2>4
  <2>6. close = n
    <3> SUFFICES ASSUME close # n PROVE FALSE
      OBVIOUS
    <3> HIDE DEF n, found
    <3>1. close \in 2..(n - 1) /\ close \in 1..n
      BY <1>1, <2>4, <2>5
    <3> QED
      BY <3>1, <2>1, <2>2, <2>5
  <2>7. s # <<>> /\ s[1] = Quote /\ close <= Len(s)
    BY <1>1, <1>8, <2>1, <2>2, <2>6
  <2> QED
    BY <1>4, <1>8, <2>6, <2>7 DEF StrongMatch
<1> QED
  BY <1>6, <1>7, <1>8

\* IfRangeHolds and IsOfVersion, for the values they look at.
RangeHolds(value, etag, modified) ==
    \/ value = <<>>
    \/ IF CutTag(TrimWeak(value)).ok THEN StrongMatch(value, etag)
       ELSE IsDate(value) /\ value = modified

OfVersion(value, etag, modified) ==
    \/ value = <<>>
    \/ IsStrongTag(etag) /\ Len(etag) <= Len(value) /\ SubSeq(value, 1, Len(etag)) = etag
    \/ IsDate(value) /\ value = modified

\* ServeContent looks at the If-Range of a request as the property has it.
LEMMA IfRangeIsOfVersion ==
    ASSUME NEW S, NEW value \in Seq(S), NEW etag \in Seq(S), NEW modified
    PROVE  RangeHolds(value, etag, modified) <=> OfVersion(value, etag, modified)
<1> DEFINE t == TrimWeak(value)
           strong == StrongMatch(value, etag)
           dated == IsDate(value) /\ value = modified
<1>1. strong <=> IsStrongTag(etag) /\ Len(etag) <= Len(value) /\ SubSeq(value, 1, Len(etag)) = etag
  BY CutsStrongTag
<1>2. value # <<>> /\ CutTag(t).ok => ~IsDate(value)
  <2> SUFFICES ASSUME value # <<>>, CutTag(t).ok PROVE ~IsDate(value)
    OBVIOUS
  <2>1. t \in Seq(S) /\ Len(t) <= Len(value)
    BY DEF TrimWeak
  <2> HIDE DEF t
  <2>2. Len(t) >= 2
    BY <2>1, CutsStrongTag, Zenon
  <2> DEFINE a == Len(t)
             b == Len(value)
  <2>3. a \in Nat /\ b \in Nat /\ a <= b /\ a >= 2
    BY <2>1, <2>2
  <2> HIDE DEF a, b
  <2>4. b # 1
    BY <2>3
  <2>5. Len(value) # 1
    BY <2>4 DEF b
  <2> QED
    BY <2>5 DEF IsDate
<1>3. strong => CutTag(t).ok
  <2> SUFFICES ASSUME strong PROVE CutTag(t).ok
    OBVIOUS
  <2>1. CutTag(value).ok
    BY DEF StrongMatch
  <2>2. value[1] = Quote
    BY <2>1, CutsStrongTag
  <2>3. Quote # Weak
    BY Zenon DEF Quote, Weak
  <2>4. t = value
    BY <2>2, <2>3 DEF TrimWeak
  <2> QED
    BY <2>1, <2>4
<1> HIDE DEF t, strong
<1>4. value = <<>> \/ (IF CutTag(t).ok THEN strong ELSE dated) <=> value = <<>> \/ strong \/ dated
  <2> HIDE DEF dated
  <2>1. value # <<>> /\ CutTag(t).ok => ~dated
    BY <1>2 DEF dated
  <2> QED
    BY <2>1, <1>3
<1> QED
  BY <1>1, <1>4 DEF t, strong, RangeHolds, OfVersion

\* ServeContent is given the fields of the request, but a range only when it is
\* one of bytes that a GET asks for.
LEMMA RangeIsKept ==
    ASSUME NEW e, e.header \in GoodHeaders
    PROVE  LET w == WithoutIgnoredRange([method |-> e.method, header |-> e.header])
               range == Get(e.header, "Range")
           IN  /\ w.method = e.method
               /\ \A f \in Fields \ {"Range"} : w.header[f] = e.header[f]
               /\ Get(w.header, "Range") = IF e.method = "GET" /\ IsBytesRange(range) THEN range ELSE <<>>
<1> DEFINE r == [method |-> e.method, header |-> e.header]
           w == WithoutIgnoredRange(r)
           range == Get(e.header, "Range")
<1>1. r.method = e.method /\ r.header = e.header
  OBVIOUS
<1>3. CASE e.method = "GET" /\ IsBytesRange(range)
  <2>1. w = r
    BY <1>1, <1>3 DEF WithoutIgnoredRange
  <2> HIDE DEF w, r
  <2> QED
    BY <2>1, <1>1, <1>3 DEF w, r
<1>4. CASE ~(e.method = "GET" /\ IsBytesRange(range))
  <2>1. w = [r EXCEPT !.header = Del(@, "Range")]
    BY <1>1, <1>4 DEF WithoutIgnoredRange
  <2>2. w.method = e.method /\ w.header = Del(e.header, "Range")
    BY <2>1
  <2> DEFINE d == Del(e.header, "Range")
  <2>3. /\ d["Range"] = <<>>
        /\ \A f \in Fields \ {"Range"} : d[f] = e.header[f]
    <3>1. DOMAIN e.header = Fields /\ "Range" \in Fields
      BY DEF GoodHeaders, Fields
    <3> QED
      BY <3>1 DEF Del
  <2> HIDE DEF w, r, d
  <2>4. w.header = d
    BY <2>2 DEF d
  <2>5. Get(w.header, "Range") = <<>>
    BY <2>3, <2>4 DEF Get
  <2>6. \A f \in Fields \ {"Range"} : w.header[f] = e.header[f]
    BY <2>3, <2>4
  <2> QED
    BY <2>2, <2>5, <2>6, <1>4 DEF w, r
<1> QED
  BY <1>3, <1>4

\* build answers a request as it asks.
LEMMA BuiltAsAsked ==
    ASSUME NEW e, e.header \in GoodHeaders, NEW resp, ~Disputed(e, resp),
           resp.headers \in Seq(Lines), \A line \in ToSet(resp.headers) : SendLine(line),
           resp.status = 0 \/ resp.status \in 200..999, resp.ranges => resp.status \in {0, 200}
    PROVE  LET status == Build([method |-> e.method, header |-> e.header], resp, Now).status
               yes == resp.status \in {0, 200} /\ ~resp.ignore /\ AsksNotTo(e, resp)
           IN  /\ status = 304 <=> resp.status = 304 \/ yes
               /\ resp.ranges => (status \in {206, 416} <=> ~yes /\ AsksForPart(e, resp))
<1> DEFINE r == [method |-> e.method, header |-> e.header]
           g == HeaderOf(resp.headers, Now)
           h == Typed(g)
           status == Build(r, resp, Now).status
           yes == resp.status \in {0, 200} /\ ~resp.ignore /\ AsksNotTo(e, resp)
           etag == Get(g, "Etag")
           since == Get(e.header, "If-Modified-Since")
           modified == Get(g, "Last-Modified")
           later == IsDate(since) /\ IsDate(modified) /\ DateOf(modified) <= DateOf(since)
<1>1. r.method = e.method /\ r.header = e.header
  OBVIOUS
<1>2. g \in GoodHeaders
  BY HeaderIsGood
<1>3. Get(h, "Etag") = etag /\ Get(h, "Last-Modified") = modified
  <2> HIDE DEF g
  <2> QED
    BY <1>2, TypedKeeps
<1>4. status = Answer(r, resp, h).status
  BY DEF Build
<1>5. "If-None-Match" \in Fields
  BY DEF Fields
<1>6. CASE resp.ranges
  <2> DEFINE w == WithoutIgnoredRange(r)
             inm == Get(e.header, "If-None-Match")
             asked == Get(e.header, "Range")
             range == Get(w.header, "Range")
             version == Get(e.header, "If-Range")
             same == Unchanged(w, h, inm, since, modified)
             body == ResponseBody(resp)
  <2>1. /\ w.method = e.method
        /\ \A f \in Fields \ {"Range"} : w.header[f] = e.header[f]
        /\ range = IF e.method = "GET" /\ IsBytesRange(asked) THEN asked ELSE <<>>
    BY RangeIsKept, Zenon
  <2>2. /\ Get(w.header, "If-None-Match") = inm
        /\ Get(w.header, "If-Modified-Since") = since
        /\ Get(w.header, "If-Range") = version
        /\ w.header["If-Match"] = e.header["If-Match"]
        /\ w.header["If-Unmodified-Since"] = e.header["If-Unmodified-Since"]
    <3>1. \A f \in {"If-None-Match", "If-Modified-Since", "If-Range", "If-Match", "If-Unmodified-Since"} :
             w.header[f] = e.header[f]
      <4> HIDE DEF w
      <4>1. \A f \in {"If-None-Match", "If-Modified-Since", "If-Range", "If-Match", "If-Unmodified-Since"} :
               f \in Fields \ {"Range"}
        BY DEF Fields
      <4> QED
        BY <2>1, <4>1
    <3> HIDE DEF w
    <3> QED
      BY <3>1 DEF Get
  <2>3. /\ ~resp.ignore /\ ~(Len(e.header["If-None-Match"]) > 1)
        /\ e.header["If-Match"] = <<>> /\ e.header["If-Unmodified-Since"] = <<>>
    BY <1>6 DEF Disputed
  <2>4. inm \in Seq(Tokens) /\ version \in Seq(Tokens) /\ etag \in Seq(Tokens)
    <3> DEFINE x == e.header
    <3>1. x \in GoodHeaders /\ "If-Range" \in Fields /\ "Etag" \in Fields
      BY DEF Fields
    <3> HIDE DEF x, g
    <3>2. /\ Get(x, "If-None-Match") \in GoodValues /\ Get(x, "If-Range") \in GoodValues
          /\ Get(g, "Etag") \in GoodValues
      BY <1>2, <1>5, <3>1, GoodFacts
    <3> QED
      BY <3>2 DEF x, GoodValues
  <2>5. Join(e.header["If-None-Match"]) = inm
    <3> DEFINE values == e.header["If-None-Match"]
    <3>1. values \in Seq(GoodValues) /\ ~(Len(values) > 1)
      BY <1>5, <2>3 DEF GoodHeaders
    <3>2. inm = IF values = <<>> THEN <<>> ELSE values[1]
      BY DEF Get
    <3> HIDE DEF values, inm
    <3>3. CASE values = <<>>
      BY <3>2, <3>3 DEF Join, values
    <3>4. CASE values # <<>>
      <4> DEFINE n == Len(values)
      <4>0. n \in Nat /\ n # 0 /\ ~(n > 1)
        <5> DEFINE S == GoodValues
        <5> HIDE DEF S
        <5>1. values \in Seq(S) /\ ~(Len(values) > 1)
          BY <3>1 DEF S
        <5> QED
          BY <5>1, <3>4
      <4> HIDE DEF n
      <4>1. Len(values) = 1
        <5>1. n = 1
          BY <4>0
        <5> QED
          BY <5>1 DEF n
      <4>2. Join(values) = values[1]
        BY <3>1, <4>1, JoinIsList, Zenon
      <4> QED
        BY <3>2, <3>4, <4>2 DEF values
    <3> QED
      BY <3>3, <3>4
  <2>6. AsksNotTo(e, resp) <=>
            /\ e.method \in {"GET", "HEAD"}
            /\ IF inm # <<>> THEN inm = AnyETag \/ Lists(inm, TrimWeak(etag)) ELSE later
    <3> HIDE DEF inm
    <3> QED
      BY <1>6, <2>5 DEF AsksNotTo
  <2>7. same <=> IF inm # <<>> THEN inm = AnyETag \/ (etag # <<>> /\ ETagListMatches(inm, etag))
                 ELSE e.method \in {"GET", "HEAD"} /\ later
    BY <1>3, <2>1 DEF Unchanged, Reads
  <2> HIDE DEF inm, later
  <2>8. inm = AnyETag \/ (etag # <<>> /\ ETagListMatches(inm, etag)) <=>
          inm = AnyETag \/ Lists(inm, TrimWeak(etag))
    <3> HIDE DEF etag
    <3> QED
      BY <2>4, TagIsMatched, Zenon
  <2>9. AsksNotTo(e, resp) <=> same /\ e.method \in {"GET", "HEAD"}
    <3> HIDE DEF same, etag
    <3>1. CASE inm = <<>>
      BY <2>6, <2>7, <3>1
    <3>2. CASE inm # <<>>
      BY <2>6, <2>7, <2>8, <3>2
    <3> QED
      BY <3>1, <3>2
  <2>10. resp.status \in {0, 200} /\ resp.status # 304
    BY <1>6
  <2>11. status = ServeContent(w, h, body).status
    BY <1>4, <1>6, <2>10 DEF Answer
  <2>12. ~Refuses(w, h)
    <3>1. Get(w.header, "If-Match") = <<>> /\ Get(w.header, "If-Unmodified-Since") = <<>>
      <4> HIDE DEF w
      <4> QED
        BY <2>2, <2>3 DEF Get
    <3>2. ~IsDate(<<>>)
      BY DEF IsDate
    <3> HIDE DEF w, h
    <3> QED
      BY <3>1, <3>2, Zenon DEF Refuses
  <2>13. IfRangeHolds(w, h) <=> IsOfVersion(e, resp)
    <3>1. IfRangeHolds(w, h) <=> RangeHolds(version, etag, modified)
      <4> HIDE DEF w, h, version, etag, modified
      <4> QED
        BY <1>3, <2>2, Zenon DEF IfRangeHolds, RangeHolds
    <3>2. IsOfVersion(e, resp) <=> OfVersion(version, etag, modified)
      BY Zenon DEF IsOfVersion, OfVersion
    <3> HIDE DEF w, h, version, etag, modified
    <3>3. RangeHolds(version, etag, modified) <=> OfVersion(version, etag, modified)
      BY <2>4, IfRangeIsOfVersion
    <3> QED
      BY <3>1, <3>2, <3>3, Zenon
  <2> DEFINE holds == IfRangeHolds(w, h)
             nothing == range = <<"bytes", "out">> /\ body = ""
             inside == range = <<"bytes", "in">>
  <2>14. status = IF same THEN IF e.method \in {"GET", "HEAD"} THEN 304 ELSE 412
                  ELSE IF range = <<>> \/ ~holds \/ nothing THEN 200 ELSE IF inside THEN 206 ELSE 416
    <3>1. Unchanged(w, h, Get(w.header, "If-None-Match"), Get(w.header, "If-Modified-Since"),
                    Get(h, "Last-Modified")) = same
      BY <1>3, <2>2
    <3>2. Reads(w) <=> e.method \in {"GET", "HEAD"}
      BY <2>1 DEF Reads
    <3> HIDE DEF w, h, body, same, status
    <3>3. ServeContent(w, h, body).status =
             IF same THEN IF Reads(w) THEN 304 ELSE 412
             ELSE IF range = <<>> \/ ~holds \/ nothing THEN 200 ELSE IF inside THEN 206 ELSE 416
      BY <2>12, <3>1 DEF ServeContent
    <3> QED
      BY <2>11, <3>2, <3>3
  <2>15. yes <=> same /\ e.method \in {"GET", "HEAD"}
    BY <2>3, <2>9, <2>10
  <2>16. AsksForPart(e, resp) <=>
            e.method = "GET" /\ IsBytesRange(asked) /\ holds /\ (body = "" => asked # <<"bytes", "out">>)
    <3> HIDE DEF asked, body, holds
    <3> QED
      BY <2>13, Zenon DEF AsksForPart, IsBytesRange, asked, body, holds
  <2>17. AsksForPart(e, resp) <=> e.method = "GET" /\ range # <<>> /\ holds /\ ~nothing
    <3>1. IsBytesRange(asked) => asked # <<>>
      <4> HIDE DEF asked
      <4> QED
        BY DEF IsBytesRange
    <3> HIDE DEF asked, body, holds, range
    <3> QED
      BY <2>1, <2>16, <3>1 DEF range
  <2>18. range # <<>> => e.method = "GET"
    BY <2>1
  <2> HIDE DEF same, yes, status, range, holds, nothing, inside
  <2>19. /\ status = 304 <=> resp.status = 304 \/ yes
         /\ status \in {206, 416} <=> ~yes /\ AsksForPart(e, resp)
    BY <2>10, <2>14, <2>15, <2>17, <2>18
  <2> QED
    BY <2>19 DEF status, yes
<1>7. CASE ~resp.ranges
  <2> DEFINE inm == Join(e.header["If-None-Match"])
             code == IF resp.status = 0 THEN 200 ELSE resp.status
  <2>1. inm \in Seq(Tokens \cup {","})
    <3> DEFINE values == e.header["If-None-Match"]
    <3>1. values \in Seq(GoodValues)
      BY <1>5 DEF GoodHeaders
    <3> HIDE DEF values
    <3>2. Join(values) \in Seq(Tokens \cup {","})
      BY <3>1, JoinIsList, Zenon
    <3> QED
      BY <3>2 DEF values
  <2>2. AsksNotTo(e, resp) <=>
            /\ e.method \in {"GET", "HEAD"}
            /\ IF inm # <<>> THEN etag # <<>> /\ (inm = AnyETag \/ Lists(inm, TrimWeak(etag))) ELSE later
    BY <1>7 DEF AsksNotTo
  <2>3. NotModified(r, h) <=>
            /\ e.method \in {"GET", "HEAD"}
            /\ IF inm # <<>> THEN etag # <<>> /\ ETagListMatches(inm, etag) ELSE later
    BY <1>1, <1>3 DEF NotModified
  <2> HIDE DEF etag, inm, later
  <2>4. etag # <<>> /\ ETagListMatches(inm, etag) <=>
          etag # <<>> /\ (inm = AnyETag \/ Lists(inm, TrimWeak(etag)))
    BY <2>1, TagIsMatched, Zenon
  <2>5. AsksNotTo(e, resp) <=> NotModified(r, h)
    <3>1. CASE inm = <<>>
      BY <2>2, <2>3, <3>1
    <3>2. CASE inm # <<>>
      BY <2>2, <2>3, <2>4, <3>2
    <3> QED
      BY <3>1, <3>2
  <2>6. status = IF ~resp.ignore /\ code = 200 /\ NotModified(r, h) THEN 304 ELSE code
    <3> HIDE DEF r, h, status
    <3> QED
      BY <1>4, <1>7 DEF Answer
  <2>7. (code = 200 <=> resp.status \in {0, 200}) /\ (code = 304 <=> resp.status = 304)
    OBVIOUS
  <2> HIDE DEF r, h, status, code
  <2>8. status = 304 <=> resp.status = 304 \/ yes
    BY <2>5, <2>6, <2>7, <1>7
  <2> QED
    BY <2>8, <1>7 DEF status, r
<1> QED
  BY <1>6, <1>7

\* A request that was answered was answered as build does for what the log has
\* of it, from the script of the test.
AskedInv ==
    \A i \in DOMAIN log :
        log[i].status # 0 =>
            log[i].status = Build([method |-> log[i].method, header |-> log[i].header],
                                  ServedResponse(Script(test), log[i].step), Now).status

LEMMA ReachesAsked ==
    ASSUME ExchangeInv, AskedInv, NEW r, NEW k, r = [method |-> r.method, header |-> r.header],
           script = Script(test), test' = test, Reaches(r, k)
    PROVE  AskedInv'
<1>1. IsSeq(log) /\ Len(log) \in Nat /\ DOMAIN log = 1..Len(log)
  BY DEF ExchangeInv, LogInv, IsSeq
<1> DEFINE sc == Script(test)
           resp == ServedResponse(sc, k)
           out == Build(r, resp, Now)
           e == LogEntry(r, k)
           p == Append(log, e)
           Fits(x) == x.status # 0 =>
                         x.status = Build([method |-> x.method, header |-> x.header],
                                          ServedResponse(sc, x.step), Now).status
<1>2. log' = p
  BY DEF Reaches
<1>3. Fits(e)
  <2>1. Stamp(out, ServedName(sc, k)).status = out.status
    <3> HIDE DEF out
    <3> QED
      BY DEF Stamp
  <2>2. e.step = k /\ e.method = r.method /\ e.header = r.header
    BY DEF LogEntry
  <2>3. e.status # 0 => e.status = Built(r, k).status
    BY DEF LogEntry
  <2>4. Built(r, k) = Stamp(out, ServedName(sc, k))
    BY DEF Built
  <2>5. [method |-> e.method, header |-> e.header] = r
    BY <2>2
  <2> HIDE DEF e
  <2> QED
    BY <2>1, <2>2, <2>3, <2>4, <2>5
<1> HIDE DEF e
<1>4. /\ IsSeq(p) /\ Len(p) = Len(log) + 1
      /\ \A i \in 1..Len(log) : p[i] = log[i]
      /\ p[Len(p)] = e
  BY <1>1, AppendFacts, Zenon
<1> HIDE DEF p
<1>5. \A i \in DOMAIN p : i \in 1..Len(log) \/ i = Len(p)
  BY <1>1, <1>4 DEF IsSeq
<1>6. \A i \in 1..Len(log) : Fits(log[i])
  BY <1>1 DEF AskedInv
<1> HIDE DEF Fits
<1>7. \A i \in DOMAIN p : Fits(p[i])
  BY <1>3, <1>4, <1>5, <1>6
<1> QED
  BY <1>2, <1>7 DEF AskedInv, Fits

LEMMA NextAskedInv ==
    ExchangeInv /\ AskedInv /\ [ExchangeNext]_allVars => AskedInv'
<1> SUFFICES ASSUME ExchangeInv, AskedInv, [ExchangeNext]_allVars PROVE AskedInv'
  OBVIOUS
<1>1. CASE UNCHANGED <<log, test>>
  BY <1>1 DEF AskedInv
<1>2. CASE Exercise
  <2>1. log = <<>> /\ log' = log
    BY <1>2 DEF Exercise, ExchangeInv, PlayInv
  <2> QED
    BY <2>1 DEF AskedInv
<1>3. ASSUME NEW n PROVE /\ RequestOf(n) = [method |-> RequestOf(n).method, header |-> RequestOf(n).header]
                         /\ LET r == Revalidates(RequestOf(n))
                            IN  r = [method |-> r.method, header |-> r.header]
  <2> DEFINE m == IF test.steps[n].method = NoName THEN "GET" ELSE test.steps[n].method
             h == HeaderOf(test.steps[n].headers, Now)
             v == Get(stored.header, "Etag")
  <2>1. RequestOf(n) = [method |-> m, header |-> h]
    BY DEF RequestOf
  <2> HIDE DEF m, h, v
  <2>2. Revalidates(RequestOf(n)) = [method |-> m, header |-> Set(h, "If-None-Match", v)]
    BY <2>1 DEF Revalidates, v
  <2> QED
    BY <2>1, <2>2
<1>4. ASSUME NEW n, NEW k, test' = test, xpc # "idle",
             Reaches(RequestOf(n), k) \/ Reaches(Revalidates(RequestOf(n)), k)
      PROVE  AskedInv'
  <2>1. script = Script(test)
    BY <1>4 DEF Reaches, ExchangeInv, PlayInv
  <2>2. PICK r : r = [method |-> r.method, header |-> r.header] /\ Reaches(r, k)
    BY <1>3, <1>4, Zenon
  <2> QED
    BY <2>1, <2>2, <1>4, ReachesAsked
<1>5. ASSUME NEW n \in due PROVE xpc # "idle"
  BY <1>5 DEF ExchangeInv, PlayInv
<1>6. ASSUME NEW n \in due, AnswersItself(n) \/ RequestFails(n) PROVE AskedInv'
  BY <1>1, <1>6 DEF AnswersItself, RequestFails, Answered
<1>7. ASSUME NEW n \in due, ForwardsConditionally(n) PROVE AskedInv'
  <2>1. test' = test /\ Reaches(Revalidates(RequestOf(n)), n)
    BY <1>7 DEF ForwardsConditionally, Answered
  <2> QED
    BY <2>1, <1>4, <1>5
<1>8. ASSUME NEW n \in due, NEW k, NEW interim, Forwards(n, k, interim) PROVE AskedInv'
  <2>1. test' = test /\ Reaches(RequestOf(n), k)
    BY <1>8 DEF Forwards, Answered
  <2> QED
    BY <2>1, <1>4, <1>5
<1>9. ASSUME NEW n, SendsAgain(n) PROVE AskedInv'
  <2>1. /\ test' = test /\ xpc # "idle"
        /\ Reaches(RequestOf(n), n) \/ Reaches(Revalidates(RequestOf(n)), n)
    BY <1>9 DEF SendsAgain, client
  <2> QED
    BY <2>1, <1>4
<1>10. CASE ProxyStep
  BY <1>6, <1>7, <1>8, <1>9, <1>10 DEF ProxyStep
<1>11. CASE Pause \/ SendGroup \/ FetchLog \/ JudgeTest \/ DeleteScript
  BY <1>1, <1>11 DEF Pause, SendGroup, FetchLog, JudgeTest, DeleteScript
<1>12. CASE UNCHANGED exchange
  BY <1>1, <1>12 DEF exchange, client
<1> QED
  BY <1>2, <1>10, <1>11, <1>12 DEF ExchangeNext, ClientStep, Over, allVars

\* The origin answers 304 to exactly the requests that ask for it, by lists of
\* entity tags of any length and make or by a date, and with a part of the body
\* to exactly those that ask for one, of the version that their If-Range names
\* (respond.go: build, notModified, etagListMatches and nextETag), for every test
\* that Load accepts and whatever a proxy makes of its requests.  With ranges this
\* is not said where documents and code disagree or the documents are silent
\* (Disputed): several fields of entity tags, ignore_conditionals, If-Match and
\* If-Unmodified-Since.
THEOREM AnsweredAsItAsks == ExchangeSpec => []AnsweredAsAsked
<1>1. ExchangeInv /\ PlayedInv /\ AskedInv => AnsweredAsAsked
  <2> SUFFICES ASSUME ExchangeInv, PlayedInv, AskedInv, NEW i \in DOMAIN log, log[i].status # 0,
                      ~Disputed(log[i], ResponseTo(log[i]))
               PROVE  LET e   == log[i]
                          r   == ResponseTo(e)
                          yes == r.status \in {0, 200} /\ ~r.ignore /\ AsksNotTo(e, r)
                      IN  /\ e.status = 304 <=> r.status = 304 \/ yes
                          /\ r.ranges => (e.status \in {206, 416} <=> ~yes /\ AsksForPart(e, r))
    BY DEF AnsweredAsAsked
  <2> DEFINE e == log[i]
             sc == Script(test)
             resp == ServedResponse(sc, e.step)
             name == ServedName(sc, e.step)
  <2>1. Playable /\ e.step \in RequestSteps \cup {0} /\ ResponseTo(e) = resp
    BY ResponseToEntry
  <2>2. Playable
    BY <2>1
  <2>3. e.step \in RequestSteps \cup {0}
    BY <2>1
  <2>4. resp = IF name \in DOMAIN test.responses THEN test.responses[name] ELSE ZeroResponse
    BY DEF ServedResponse, Script
  <2>5. ResponseTo(e) = resp /\ ~Disputed(e, resp)
    BY <2>1
  <2>6. /\ resp.headers \in Seq(Lines) /\ \A line \in ToSet(resp.headers) : SendLine(line)
        /\ resp.status = 0 \/ resp.status \in 200..999
    <3> DEFINE k == e.step
    <3> HIDE DEF k
    <3>1. k \in RequestSteps \cup {0}
      BY <2>3 DEF k
    <3>2. LET x == Script(test)
              y == ServedResponse(x, k)
              z == ServedName(x, k)
          IN  /\ y.headers \in Seq(Lines) /\ y.trailers \in Seq(Lines)
              /\ \A line \in ToSet(y.headers) \cup ToSet(y.trailers) : SendLine(line)
              /\ y.status = 0 \/ y.status \in 200..999
              /\ \A j \in DOMAIN y.interim : y.interim[j].status \in 100..199 \ {101}
              /\ \A j \in DOMAIN y.interim :
                    /\ y.interim[j].headers \in Seq(Lines)
                    /\ \A line \in ToSet(y.interim[j].headers) : SendLine(line)
              /\ z = NoName \/ <<z>> \in GoodValues
      BY <2>2, <3>1, ServedIsGood, Zenon
    <3>3. resp = ServedResponse(Script(test), k)
      BY DEF k
    <3> HIDE DEF resp
    <3> QED
      BY <3>2, <3>3
  <2>7. resp.ranges => resp.status \in {0, 200}
    <3> HIDE DEF resp, name, e
    <3>1. CASE name \in DOMAIN test.responses
      <4>1. ValidResponse(test.responses[name])
        BY <2>2, <3>1 DEF Playable, Validate
      <4> QED
        BY <3>1, <4>1, <2>4 DEF ValidResponse
    <3>2. CASE name \notin DOMAIN test.responses
      BY <3>2, <2>4 DEF ZeroResponse
    <3> QED
      BY <3>1, <3>2
  <2>8. e.header \in GoodHeaders
    BY DEF PlayedInv
  <2>9. e.status = Build([method |-> e.method, header |-> e.header], resp, Now).status
    BY DEF AskedInv
  <2> HIDE DEF e, resp
  <2> DEFINE yes == resp.status \in {0, 200} /\ ~resp.ignore /\ AsksNotTo(e, resp)
             status == Build([method |-> e.method, header |-> e.header], resp, Now).status
  <2>10. /\ status = 304 <=> resp.status = 304 \/ yes
         /\ resp.ranges => (status \in {206, 416} <=> ~yes /\ AsksForPart(e, resp))
    BY <2>5, <2>6, <2>7, <2>8, BuiltAsAsked
  <2> HIDE DEF status
  <2>11. e.status = status
    BY <2>9 DEF status
  <2>12. /\ e.status = 304 <=> resp.status = 304 \/ yes
         /\ resp.ranges => (e.status \in {206, 416} <=> ~yes /\ AsksForPart(e, resp))
    BY <2>10, <2>11
  <2> QED
    BY <2>5, <2>12 DEF e
<1>2. ExchangeInit => PlayedInv /\ AskedInv
  BY DEF ExchangeInit, PlayedInv, AskedInv
<1>3. ExchangeInv /\ PlayedInv /\ [ExchangeNext]_allVars => PlayedInv'
  BY NextPlayedInv
<1>4. ExchangeInv /\ AskedInv /\ [ExchangeNext]_allVars => AskedInv'
  BY NextAskedInv
<1> QED
  BY <1>1, <1>2, <1>3, <1>4, ExchangeAlways, PTL DEF ExchangeSpec

=============================================================================
