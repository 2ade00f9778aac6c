------------------------------- MODULE Corpus -------------------------------
(***************************************************************************)
(* Loading and selecting tests (pkg/corpus/corpus.go): every entry is      *)
(* validated and indexed, then a depth-first search accepts the "requires" *)
(* graph or finds a cycle in it, then Select closes the matching tests     *)
(* under "requires".                                                       *)
(*                                                                         *)
(* The recursive functions visit and include are run one call or return at *)
(* a time, over an explicit stack.                                         *)
(***************************************************************************)
EXTENDS Definition

CONSTANTS
    Ids,          \* the test ids the suites mention
    Definitions,  \* the responses and steps that a test may have
    Files         \* what the suite directories may hold: sequences of entries

\* An entry, and whether its identity, its references and its protocols are as
\* testdef.Validate and addTest want them.
Entry == [id : Ids, requires : Seq(Ids), ok : BOOLEAN, def : Definitions]

ASSUME CorpusAssumption == Files \subseteq Seq(Entry)

\* What the types of pkg/testdef say of every definition that a file can hold:
\* a map of responses by their names, lists of steps, lines and interim
\* responses, and a pointer to a Boolean for what is said of forwarding.  A name
\* is never taken for a template.
IsList(s) == Len(s) \in Nat /\ DOMAIN s = 1..Len(s)

ASSUME DefinitionsAssumption ==
    \A d \in Definitions :
        /\ IsFiniteSet(DOMAIN d.responses) /\ IsList(d.steps)
        /\ \A name \in DOMAIN d.responses : name \in STRING \ {"${?"}
        /\ \A name \in DOMAIN d.responses : d.responses[name] # Nil =>
              /\ d.responses[name].headers \in Seq(Lines) /\ d.responses[name].trailers \in Seq(Lines)
              /\ IsList(d.responses[name].interim)
              /\ \A k \in DOMAIN d.responses[name].interim :
                    d.responses[name].interim[k].headers \in Seq(Lines)
        /\ \A i \in DOMAIN d.steps : d.steps[i] # Nil => d.steps[i].headers \in Seq(Lines)
        /\ \A i \in DOMAIN d.steps : d.steps[i] # Nil /\ d.steps[i].expect # Nil =>
              /\ IsList(d.steps[i].expect.interim)
              /\ d.steps[i].expect.forwarded \in {"any", "yes", "no"}

VARIABLES
    entries,   \* the entries, in the order of directories and files
    phase,     \* where Load, and then Select, is
    next,      \* the index the current loop has reached
    failed,    \* some entry was refused
    tests,     \* Corpus.tests: the ids of the tests, in load order
    requires,  \* Requires of the tests in Corpus.byID
    state,     \* the map that visit shares
    stack,     \* the calls of visit, or of include, that are under way
    order,     \* history: the tests in the order in which visit finished them
    matched,   \* the tests that the filter matches
    chosen     \* the map that include fills

vars == <<entries, phase, next, failed, tests, requires, state, stack, order,
          matched, chosen>>

graph == <<entries, failed, tests, requires>>

Phases == {"adding", "checking", "loaded", "choosing", "selected",
           "invalid", "unknown", "cycle", "badfilter", "nomatch"}

\* A call of visit or include for a test, at the i-th test that it requires.
Frame == [test : Ids, i : Nat \ {0}]

ById == {tests[k] : k \in DOMAIN tests}
Needs(t) == {requires[t][i] : i \in DOMAIN requires[t]}
OnStack == {stack[k].test : k \in DOMAIN stack}

\* Every variable has its type, and visit and include are called only for
\* tests that byID holds.
TypeOK ==
    /\ entries \in Files
    /\ phase \in Phases
    /\ next \in Nat
    /\ failed \in BOOLEAN
    /\ tests \in Seq(Ids)
    /\ requires \in [Ids -> Seq(Ids)]
    /\ state \in [Ids -> {"new", "visiting", "visited"}]
    /\ stack \in Seq(Frame)
    /\ order \in Seq(Ids)
    /\ matched \subseteq Ids /\ chosen \subseteq Ids
    /\ OnStack \subseteq ById

Init ==
    /\ entries \in Files
    /\ phase = "adding"
    /\ next = 1
    /\ failed = FALSE
    /\ tests = <<>>
    /\ requires = [t \in Ids |-> <<>>]
    /\ state = [t \in Ids |-> "new"]
    /\ stack = <<>> /\ order = <<>>
    /\ matched = {} /\ chosen = {}

----------------------------------------------------------------------------
(***************************************************************************)
(* Load: add every entry, then checkRequires.                              *)
(***************************************************************************)

\* validatePrerequisites refuses a test that requires itself.
Valid(e) ==
    e.ok /\ (\A i \in DOMAIN e.requires : e.requires[i] # e.id) /\ Validate(e.def)

Adding == phase = "adding" /\ next <= Len(entries)

AddTest ==
    LET e == entries[next] IN
    /\ Adding
    /\ Valid(e) /\ e.id \notin ById
    /\ tests' = Append(tests, e.id)
    /\ requires' = [requires EXCEPT ![e.id] = e.requires]
    /\ next' = next + 1
    /\ UNCHANGED <<entries, phase, failed, state, stack, order, matched, chosen>>

\* The other entries are still looked at, so that every problem is reported.
RefuseTest ==
    LET e == entries[next] IN
    /\ Adding
    /\ ~Valid(e) \/ e.id \in ById
    /\ failed' = TRUE
    /\ next' = next + 1
    /\ UNCHANGED <<entries, phase, tests, requires, state, stack, order, matched, chosen>>

\* loadAll: the requirements are checked only when every entry is good, and
\* the search is made only when every required test is known.  Load refuses a
\* corpus without suites.
EndAdding ==
    /\ phase = "adding" /\ next > Len(entries)
    /\ phase' = IF failed \/ entries = <<>> THEN "invalid"
                ELSE IF \E t \in ById : ~ Needs(t) \subseteq ById THEN "unknown"
                ELSE "checking"
    /\ next' = 1
    /\ UNCHANGED <<graph, state, stack, order, matched, chosen>>

\* A call of visit that is neither cut short by a cycle nor by a visited test.
Enter(t) ==
    /\ state' = [state EXCEPT ![t] = "visiting"]
    /\ stack' = Append(stack, [test |-> t, i |-> 1])

Top == stack[Len(stack)]
Below == SubSeq(stack, 1, Len(stack) - 1)

\* The caller goes on with the next test that it requires.
Resumed(calls) ==
    IF calls = <<>> THEN calls ELSE [calls EXCEPT ![Len(calls)].i = @ + 1]

\* checkRequires calls visit for the next test.
VisitNext ==
    /\ phase = "checking" /\ stack = <<>> /\ next <= Len(tests)
    /\ IF state[tests[next]] = "visited"
       THEN UNCHANGED <<state, stack>>
       ELSE Enter(tests[next])
    /\ next' = next + 1
    /\ UNCHANGED <<graph, phase, order, matched, chosen>>

Visiting == phase = "checking" /\ stack # <<>>

\* Faulty variants: a test being visited is taken for one that was visited; a
\* test reached a second time is taken for a cycle; a test that was visited is
\* asked for again and again.
VisitRequiredIgnoresCycle ==
    /\ Visiting /\ Top.i <= Len(requires[Top.test])
    /\ LET d == requires[Top.test][Top.i] IN
       IF state[d] = "new" THEN Enter(d) /\ UNCHANGED phase
       ELSE stack' = Resumed(stack) /\ UNCHANGED <<state, phase>>
    /\ UNCHANGED <<graph, next, order, matched, chosen>>

VisitRequiredRefusesShared ==
    /\ Visiting /\ Top.i <= Len(requires[Top.test])
    /\ LET d == requires[Top.test][Top.i] IN
       IF state[d] = "new" THEN Enter(d) /\ UNCHANGED phase
       ELSE phase' = "cycle" /\ UNCHANGED <<state, stack>>
    /\ UNCHANGED <<graph, next, order, matched, chosen>>

VisitRequiredRepeats ==
    /\ Visiting /\ Top.i <= Len(requires[Top.test])
    /\ LET d == requires[Top.test][Top.i] IN
       CASE state[d] = "new"      -> Enter(d) /\ UNCHANGED phase
         [] state[d] = "visited"  -> UNCHANGED <<stack, state, phase>>
         [] state[d] = "visiting" -> phase' = "cycle" /\ UNCHANGED <<state, stack>>
    /\ UNCHANGED <<graph, next, order, matched, chosen>>

\* visit calls itself for the next required test.
VisitRequired ==
    /\ Visiting /\ Top.i <= Len(requires[Top.test])
    /\ LET d == requires[Top.test][Top.i] IN
       CASE state[d] = "new"      -> Enter(d) /\ UNCHANGED phase
         [] state[d] = "visited"  -> stack' = Resumed(stack) /\ UNCHANGED <<state, phase>>
         [] state[d] = "visiting" -> phase' = "cycle" /\ UNCHANGED <<state, stack>>
    /\ UNCHANGED <<graph, next, order, matched, chosen>>

VisitReturns ==
    /\ Visiting /\ Top.i > Len(requires[Top.test])
    /\ state' = [state EXCEPT ![Top.test] = "visited"]
    /\ stack' = Resumed(Below)
    /\ order' = Append(order, Top.test)
    /\ UNCHANGED <<graph, phase, next, matched, chosen>>

Loaded ==
    /\ phase = "checking" /\ stack = <<>> /\ next > Len(tests)
    /\ phase' = "loaded"
    /\ UNCHANGED <<graph, next, state, stack, order, matched, chosen>>

(***************************************************************************)
(* Select: choose, and the tests in load order.                            *)
(***************************************************************************)

\* checkFilter: the filter names an unknown suite or holds a bad pattern.
SelectFails ==
    /\ phase = "loaded"
    /\ phase' = "badfilter"
    /\ UNCHANGED <<graph, next, state, stack, order, matched, chosen>>

\* The filter matches any set of tests.
Select ==
    /\ phase = "loaded"
    /\ matched' \in SUBSET ById
    /\ phase' = "choosing"
    /\ next' = 1
    /\ UNCHANGED <<graph, state, stack, order, chosen>>

Choosing == phase = "choosing" /\ stack = <<>>

\* A call of include that is not cut short.
Include(t) ==
    /\ chosen' = chosen \cup {t}
    /\ stack' = Append(stack, [test |-> t, i |-> 1])

ChooseNext ==
    /\ Choosing /\ next <= Len(tests)
    /\ IF tests[next] \in matched \ chosen
       THEN Include(tests[next]) ELSE UNCHANGED <<chosen, stack>>
    /\ next' = next + 1
    /\ UNCHANGED <<graph, phase, state, order, matched>>

Including == phase = "choosing" /\ stack # <<>>

\* Faulty variant: only the tests that a matching one names are included.
IncludeRequiredOnce ==
    /\ Including /\ Top.i <= Len(requires[Top.test])
    /\ LET d == requires[Top.test][Top.i] IN
       chosen' = chosen \cup {d} /\ stack' = Resumed(stack)
    /\ UNCHANGED <<graph, phase, next, state, order, matched>>

IncludeRequired ==
    /\ Including /\ Top.i <= Len(requires[Top.test])
    /\ LET d == requires[Top.test][Top.i] IN
       IF d \in chosen THEN stack' = Resumed(stack) /\ UNCHANGED chosen
       ELSE Include(d)
    /\ UNCHANGED <<graph, phase, next, state, order, matched>>

IncludeReturns ==
    /\ Including /\ Top.i > Len(requires[Top.test])
    /\ stack' = Resumed(Below)
    /\ UNCHANGED <<graph, phase, next, state, order, matched, chosen>>

EndChoosing ==
    /\ Choosing /\ next > Len(tests)
    /\ phase' = IF chosen = {} THEN "nomatch" ELSE "selected"
    /\ UNCHANGED <<graph, next, state, stack, order, matched, chosen>>

----------------------------------------------------------------------------

Done ==
    /\ phase \in {"selected", "nomatch", "badfilter", "invalid", "unknown", "cycle"}
    /\ UNCHANGED vars

Step ==
    \/ AddTest \/ RefuseTest \/ EndAdding
    \/ VisitNext \/ VisitRequired \/ VisitReturns \/ Loaded
    \/ SelectFails \/ Select \/ ChooseNext \/ IncludeRequired \/ IncludeReturns \/ EndChoosing

Next == Step \/ Done

Spec == Init /\ [][Next]_vars /\ WF_vars(Step)

----------------------------------------------------------------------------
(***************************************************************************)
(* Properties.                                                             *)
(***************************************************************************)

\* Some of the tests in S require each other in a circle: every one of them
\* requires another one.
Circular(S) == S # {} /\ \A t \in S : Needs(t) \cap S # {}

Accepted == phase \in {"loaded", "choosing", "selected", "badfilter", "nomatch"}

OneTestPerId == \A j, k \in DOMAIN tests : tests[j] = tests[k] => j = k

\* corpus.go:233-296: in a corpus that Load accepts an id names one test, and
\* the requirements lead neither out of the corpus nor in a circle: the
\* scheduler's goroutines, which wait for the tests they require, cannot wait
\* for each other, and visit and include meet no test that is missing.
AcceptedIsSound ==
    Accepted =>
        /\ OneTestPerId
        /\ \A t \in ById : Needs(t) \subseteq ById
        /\ \A S \in SUBSET ById : ~Circular(S)

\* A corpus is refused for a cycle only when it has one: tests that share a
\* requirement are no cycle.
RefusedIsCyclic == phase = "cycle" => Circular(OnStack)

\* The set S has all the matching tests and all that its members require.
Closed(S) == matched \subseteq S /\ \A t \in S : Needs(t) \subseteq S

\* corpus.go:321: Select returns "the tests matching f, plus every test they
\* require", and no other test.
SelectionIsClosure ==
    phase \in {"selected", "nomatch"} =>
        Closed(chosen) /\ \A S \in SUBSET ById : Closed(S) => chosen \subseteq S

=============================================================================
