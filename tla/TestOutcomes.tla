---------------------------- MODULE TestOutcomes ----------------------------
(***************************************************************************)
(* What a run of the tests promises about their outcomes, whatever order   *)
(* and concurrency it uses: every test, over every protocol, is decided    *)
(* once; it is judged only when everything it requires has passed over the *)
(* same protocol, and skipped only for a reason.                           *)
(***************************************************************************)
EXTENDS Naturals, Sequences

CONSTANTS
    Tests,      \* the ids of the selected tests
    TestIds,    \* the ids a "requires" list may name
    Protos,     \* the client protocols
    Requires,   \* test -> the sequence of ids it requires
    RunsOver    \* test -> the protocols it applies to

Jobs == Tests \X Protos

Judged == {"pass", "fail", "inconclusive", "error"}
Outcomes == Judged \cup {"skipped"}

\* The number of prerequisites of job j, and the key of its i-th one.
Needs(j) == Len(Requires[j[1]])
DepKey(j, i) == <<Requires[j[1]][i], j[2]>>

VARIABLE outcome

Init == outcome = [j \in Jobs |-> "pending"]

Passed(k) == k \in Jobs /\ outcome[k] = "pass"

\* Prerequisite i of j rules it out: it was not selected or did not pass.
RuledOut(j, i) ==
    LET k == DepKey(j, i) IN k \notin Jobs \/ outcome[k] \in Outcomes \ {"pass"}

Skip(j) ==
    /\ outcome[j] = "pending"
    /\ \/ j[2] \notin RunsOver[j[1]]
       \/ \E i \in 1..Needs(j) :
              RuledOut(j, i) /\ \A h \in 1..(i - 1) : Passed(DepKey(j, h))
    /\ outcome' = [outcome EXCEPT ![j] = "skipped"]

Judge(j) ==
    /\ outcome[j] = "pending"
    /\ j[2] \in RunsOver[j[1]]
    /\ \A i \in 1..Needs(j) : Passed(DepKey(j, i))
    /\ \E o \in Judged : outcome' = [outcome EXCEPT ![j] = o]

Next == \E j \in Jobs : Skip(j) \/ Judge(j)

Spec == Init /\ [][Next]_outcome

=============================================================================
