------------------------------- MODULE Score --------------------------------
(***************************************************************************)
(* How a report scores and ranks its targets (pkg/report/report.go,        *)
(* targets.go), and the gate of "report -min-must" (pkg/cli/commands.go):  *)
(* Summarize goes through the results of each run, then the runs are       *)
(* ranked and held to the bar one by one.                                  *)
(*                                                                         *)
(* A result is its suite, its level and its outcome.                       *)
(***************************************************************************)
EXTENDS Integers, Sequences, FiniteSetsExt, Functions

CONSTANTS
    Suites,      \* the suites
    MaxRuns,     \* bound: the runs of a report
    MaxResults,  \* bound: the results of all its runs
    MinMust,     \* -min-must, in parts of a percent: any finite float64 is
    Parts        \* so many parts, and the quotients it is held against are exact here

ASSUME BoundsAssumption ==
    /\ MaxRuns \in Nat /\ MaxResults \in Nat /\ IsFiniteSet(Suites)
    /\ MinMust \in Int /\ Parts \in Nat \ {0}

Levels == {"must", "should", "may", "info"}
Scored == {"must", "should", "may"}
Outcomes == {"pass", "fail", "inconclusive", "skipped", "error"}

Rest == {"info", "inconclusive", "skipped", "error"}

Weight == [l \in Scored |-> IF l = "must" THEN 10 ELSE IF l = "should" THEN 4 ELSE 1]

\* A Summary: a tally for each level that is scored, and the other counts.
Tallies == [passed : Nat, total : Nat]
Summaries == [levels : [Scored -> Tallies], rest : [Rest -> Nat]]

NoTally == [passed |-> 0, total |-> 0]
NoSummary == [levels |-> [l \in Scored |-> NoTally], rest |-> [c \in Rest |-> 0]]

VARIABLES
    pc,       \* what is going on: "summarize", "gate" or "done"
    board,    \* the runs that were summarized
    overall,  \* Summarize's overall
    suites,   \* Summarize's suites
    index,    \* Summarize's index, from the name of a suite to its place
    results,  \* the results gone through, as how many there are of each kind
    ranking,  \* the runs as the table of targets shows them
    at,       \* the run that checkMinMust has reached
    gate      \* what checkMinMust returned

vars == <<pc, board, overall, suites, index, results, ranking, at, gate>>

Kinds == Suites \X Levels \X Outcomes
NoResults == [k \in Kinds |-> 0]
Runs == [error : BOOLEAN, overall : Summaries]

TypeOK ==
    /\ pc \in {"summarize", "gate", "done"}
    /\ board \in Seq(Runs)
    /\ overall \in Summaries
    /\ suites \in Seq(Summaries)
    /\ DOMAIN index \subseteq Suites
    /\ \A s \in DOMAIN index : index[s] \in DOMAIN suites
    /\ results \in [Kinds -> Nat]
    /\ ranking \in Seq(1..MaxRuns)
    /\ at \in 1..(MaxRuns + 1)
    /\ gate \in {"none", "met", "missed"}

Init ==
    /\ pc = "summarize" /\ board = <<>>
    /\ overall = NoSummary /\ suites = <<>> /\ index = <<>>
    /\ results = NoResults
    /\ ranking = <<>> /\ at = 1 /\ gate = "none"

----------------------------------------------------------------------------
(***************************************************************************)
(* Tallies and scores.                                                     *)
(***************************************************************************)

Counts(s, c) == [levels |-> s.levels, rest |-> [s.rest EXCEPT ![c] = @ + 1]]

\* Summary.add, for a result of level l and outcome o
Add(s, l, o) ==
    IF o \notin {"pass", "fail"} THEN Counts(s, o)
    ELSE IF l \notin Scored THEN Counts(s, "info")
    ELSE [levels |-> [s.levels EXCEPT ![l] =
                         [passed |-> @.passed + (IF o = "pass" THEN 1 ELSE 0),
                          total  |-> @.total + 1]],
          rest   |-> s.rest]

\* Summary.Scored
IsScored(s) == s.levels["must"].total + s.levels["should"].total + s.levels["may"].total > 0

Passed(s) ==
    Weight["must"] * s.levels["must"].passed + Weight["should"] * s.levels["should"].passed
        + Weight["may"] * s.levels["may"].passed

Tested(s) ==
    Weight["must"] * s.levels["must"].total + Weight["should"] * s.levels["should"].total
        + Weight["may"] * s.levels["may"].total

\* Faulty variant: failed MAY requirements are left out.
WeightedScoreForgivesMay(s) ==
    LET tested == Tested(s) - Weight["may"] * (s.levels["may"].total - s.levels["may"].passed)
    IN  IF tested = 0 THEN 0 ELSE (100 * Passed(s)) \div tested

\* Faulty variant: a mean of the levels, where a level without results is met.
WeightedScoreOfLevels(s) ==
    LET rate(t) == IF t.total = 0 THEN 100 ELSE (100 * t.passed) \div t.total
    IN  IF Tested(s) = 0 THEN 0
        ELSE MapThenSumSet(LAMBDA l : Weight[l] * rate(s.levels[l]), Scored) \div 15

WeightedScore(s) == IF Tested(s) = 0 THEN 0 ELSE (100 * Passed(s)) \div Tested(s)

(***************************************************************************)
(* Summarize, one result at a time.                                        *)
(***************************************************************************)

\* Faulty variant: only a new suite gets its first result.
AddResultOnce(s, l, o) ==
    /\ pc = "summarize" /\ Len(board) < MaxRuns
    /\ results' = [results EXCEPT ![<<s, l, o>>] = @ + 1]
    /\ overall' = Add(overall, l, o)
    /\ IF s \in DOMAIN index
       THEN UNCHANGED <<index, suites>>
       ELSE /\ suites' = Append(suites, Add(NoSummary, l, o))
            /\ index' = [k \in DOMAIN index \cup {s} |->
                            IF k = s THEN Len(suites) + 1 ELSE index[k]]
    /\ UNCHANGED <<pc, board, ranking, at, gate>>

AddResult(s, l, o) ==
    /\ pc = "summarize" /\ Len(board) < MaxRuns
    /\ results' = [results EXCEPT ![<<s, l, o>>] = @ + 1]
    /\ overall' = Add(overall, l, o)
    /\ IF s \in DOMAIN index
       THEN /\ suites' = [suites EXCEPT ![index[s]] = Add(@, l, o)]
            /\ UNCHANGED index
       ELSE /\ suites' = Append(suites, Add(NoSummary, l, o))
            /\ index' = [k \in DOMAIN index \cup {s} |->
                            IF k = s THEN Len(suites) + 1 ELSE index[k]]
    /\ UNCHANGED <<pc, board, ranking, at, gate>>

EndRun ==
    /\ pc = "summarize" /\ Len(board) < MaxRuns
    /\ board' = Append(board, [error |-> FALSE, overall |-> overall])
    /\ overall' = NoSummary /\ suites' = <<>> /\ index' = <<>>
    /\ results' = NoResults
    /\ UNCHANGED <<pc, ranking, at, gate>>

\* A target that could not be tested has an error and no results.
FailedRun ==
    /\ pc = "summarize" /\ Len(board) < MaxRuns
    /\ results = NoResults
    /\ board' = Append(board, [error |-> TRUE, overall |-> NoSummary])
    /\ UNCHANGED <<pc, overall, suites, index, results, ranking, at, gate>>

(***************************************************************************)
(* The ranking, and the gate.                                              *)
(***************************************************************************)

SortScore(run) == IF run.error \/ ~IsScored(run.overall) THEN -1 ELSE WeightedScore(run.overall)

\* byScoreDesc: the stable order.
Precedes(i, j) ==
    \/ SortScore(board[i]) > SortScore(board[j])
    \/ SortScore(board[i]) = SortScore(board[j]) /\ i < j

Rank ==
    /\ pc = "summarize" /\ results = NoResults
    /\ ranking' = [n \in DOMAIN board |->
                      CHOOSE i \in DOMAIN board :
                          Cardinality({j \in DOMAIN board : Precedes(j, i)}) = n - 1]
    /\ pc' = "gate"
    /\ UNCHANGED <<board, overall, suites, index, results, at, gate>>

\* Faulty variant: nothing tested is nothing failed.
MissesIfTested(run) ==
    \/ run.error
    \/ 100 * Parts * run.overall.levels["must"].passed < MinMust * run.overall.levels["must"].total

\* The rate of a run without results at this level is zero.
Misses(run) ==
    LET must == run.overall.levels["must"]
    IN  \/ run.error
        \/ IF must.total = 0 THEN 0 < MinMust ELSE 100 * Parts * must.passed < MinMust * must.total

\* checkMinMust, one run at a time
CheckRun ==
    /\ pc = "gate" /\ at <= Len(board) /\ MinMust > 0
    /\ IF Misses(board[at]) THEN gate' = "missed" /\ pc' = "done" ELSE UNCHANGED <<gate, pc>>
    /\ at' = at + 1
    /\ UNCHANGED <<board, overall, suites, index, results, ranking>>

GateMet ==
    /\ pc = "gate" /\ (at > Len(board) \/ MinMust <= 0)
    /\ gate' = "met" /\ pc' = "done"
    /\ UNCHANGED <<board, overall, suites, index, results, ranking, at>>

Done == pc = "done" /\ UNCHANGED vars

----------------------------------------------------------------------------

\* How many results the report has so far.
Count(s) ==
    MapThenSumSet(LAMBDA l : s.levels[l].total, Scored) + MapThenSumSet(LAMBDA c : s.rest[c], Rest)
Used == MapThenSumSet(LAMBDA i : Count(board[i].overall), DOMAIN board) + Count(overall)

Next ==
    \/ Used < MaxResults /\ \E s \in Suites, l \in Levels, o \in Outcomes : AddResult(s, l, o)
    \/ EndRun \/ FailedRun \/ Rank \/ CheckRun \/ GateMet \/ Done

Spec == Init /\ [][Next]_vars

----------------------------------------------------------------------------
(***************************************************************************)
(* Properties.                                                             *)
(***************************************************************************)

\* How many results there are of each level and outcome: of one suite, of all.
OfSuite(s) == [k \in Levels \X Outcomes |-> results[<<s, k[1], k[2]>>]]
OfAll == [k \in Levels \X Outcomes |-> SumFunction([s \in Suites |-> OfSuite(s)[k]])]

\* What a summary should be, counted from the numbers n of results.
Counted(n) ==
    [levels |-> [l \in Scored |-> [passed |-> n[<<l, "pass">>], total |-> n[<<l, "pass">>] + n[<<l, "fail">>]]],
     rest   |-> [c \in Rest |-> IF c = "info" THEN n[<<"info", "pass">>] + n[<<"info", "fail">>]
                                ELSE SumFunction([l \in Levels |-> n[<<l, c>>]])]]

\* Summarize gives every suite that has results one summary, which counts its
\* results and no others, and the overall summary counts all of them: only
\* passes and failures of a level are in its tally.
SummariesAreExact ==
    /\ overall = Counted(OfAll)
    /\ \A s \in Suites :
          IF \E l \in Levels, o \in Outcomes : results[<<s, l, o>>] > 0
          THEN s \in DOMAIN index /\ suites[index[s]] = Counted(OfSuite(s))
          ELSE s \notin DOMAIN index
    /\ Len(suites) = Cardinality(DOMAIN index)

\* The score is between 0 and 100, and it is 100 only for a target that has
\* passed everything conclusive: no failure is lost in the division.
FullScoreIsEarned ==
    /\ WeightedScore(overall) \in 0..100
    /\ WeightedScore(overall) = 100 <=>
          IsScored(overall) /\ \A l \in Scored : overall.levels[l].passed = overall.levels[l].total

\* A passed test never costs a target points and a failed one never earns it
\* any, whatever their levels; other outcomes do not move the score.
ScoreFollowsResults ==
    [][\A s \in Suites, l \in Levels, o \in Outcomes :
          AddResult(s, l, o) =>
              /\ o # "fail" => WeightedScore(overall') >= WeightedScore(overall)
              /\ o # "pass" => WeightedScore(overall') <= WeightedScore(overall)]_vars

\* One target that meets the bar does not hide another that does not, was not
\* tested, or has no result to show for the bar.
GateHoldsEveryRun ==
    pc = "done" /\ MinMust > 0 =>
        (gate = "met" <=>
            \A i \in DOMAIN board :
                /\ ~board[i].error
                /\ board[i].overall.levels["must"].total > 0
                /\ 100 * Parts * board[i].overall.levels["must"].passed
                       >= MinMust * board[i].overall.levels["must"].total)

=============================================================================
