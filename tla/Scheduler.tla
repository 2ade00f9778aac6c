----------------------------- MODULE Scheduler -----------------------------
(***************************************************************************)
(* How the client runs the selected tests (pkg/client/runner.go: Run,      *)
(* plan, execute, schedule): one goroutine per test and protocol, each     *)
(* waiting for the tests it requires, then for one of Concurrency slots.   *)
(* What a test does while it holds its slot is exercise, modelled in       *)
(* module TestRun; here it ends in any outcome.                            *)
(***************************************************************************)
EXTENDS Naturals, Sequences, FiniteSets

CONSTANTS
    Tests,        \* the ids of the tests handed to Run
    TestIds,      \* the ids a "requires" list may name
    Protos,       \* Options.Protocols
    Requires,     \* test -> the sequence of ids it requires
    RunsOver,     \* test -> the protocols it applies to
    Rank,         \* a topological order of "requires" (corpus.visit accepts no cycle)
    Concurrency   \* Options.Concurrency, at least 1 after withDefaults

ASSUME SchedulerAssumption ==
    /\ Tests \subseteq TestIds
    /\ Requires \in [Tests -> Seq(TestIds)]
    /\ RunsOver \in [Tests -> SUBSET Protos]
    /\ Rank \in [Tests -> Nat]
    /\ \A t \in Tests : \A i \in 1..Len(Requires[t]) :
           Requires[t][i] \in Tests => Rank[Requires[t][i]] < Rank[t]
    /\ Concurrency \in Nat \ {0}

\* plan: a job per test and protocol, found again by that pair.
Jobs == Tests \X Protos

Needs(j) == Len(Requires[j[1]])
DepKey(j, i) == <<Requires[j[1]][i], j[2]>>

VARIABLES
    phase,     \* where Run is
    canceled,  \* the run's context is done
    pc,        \* where each job's goroutine is
    dep,       \* how many prerequisites of the job are behind it, plus one
    sem,       \* the jobs that hold a slot
    ret,       \* what schedule returns for the job
    result,    \* job.result
    report     \* the results Run returns

vars == <<phase, canceled, pc, dep, sem, ret, result, report>>

----------------------------------------------------------------------------

Verdicts == {"pass", "fail", "inconclusive"}
Outcomes == Verdicts \cup {"error", "skipped"}

PC == {"new", "await", "upload", "exercise", "release", "return", "close", "done"}

TypeOK ==
    /\ phase \in {"handshake", "running", "reported", "failed"}
    /\ canceled \in BOOLEAN
    /\ pc \in [Jobs -> PC]
    /\ dep \in [Jobs -> Nat]
    /\ sem \subseteq Jobs
    /\ ret \in [Jobs -> Outcomes \cup {"none"}]
    /\ result \in [Jobs -> Outcomes \cup {"none"}]
    /\ report \in [Jobs -> Outcomes \cup {"none"}]
    /\ \A j \in Jobs : dep[j] \in 1..(Needs(j) + 1)
    /\ \A j \in Jobs : pc[j] = "done" => result[j] \in Outcomes

Init ==
    /\ phase = "handshake"
    /\ canceled = FALSE
    /\ pc = [j \in Jobs |-> "new"]
    /\ dep = [j \in Jobs |-> 1]
    /\ sem = {}
    /\ ret = [j \in Jobs |-> "none"]
    /\ result = [j \in Jobs |-> "none"]
    /\ report = [j \in Jobs |-> "none"]

Goto(j, place) == pc' = [pc EXCEPT ![j] = place]

\* schedule returns outcome o without a slot.
Return(j, o) ==
    /\ Goto(j, "return")
    /\ ret' = [ret EXCEPT ![j] = o]
    /\ UNCHANGED <<phase, canceled, dep, sem, result, report>>

(***************************************************************************)
(* Run: the handshake, then execute.                                       *)
(***************************************************************************)

Handshake ==
    /\ phase = "handshake" /\ ~canceled
    /\ phase' = "running"
    /\ UNCHANGED <<canceled, pc, dep, sem, ret, result, report>>

\* The origin cannot be reached, speaks another protocol version, or the
\* context is done: Run returns an error and no job exists.
HandshakeFails ==
    /\ phase = "handshake"
    /\ phase' = "failed"
    /\ UNCHANGED <<canceled, pc, dep, sem, ret, result, report>>

\* The user, or the deadline of the run, cancels the context.
Cancel ==
    /\ ~canceled /\ phase \in {"handshake", "running"}
    /\ canceled' = TRUE
    /\ UNCHANGED <<phase, pc, dep, sem, ret, result, report>>

\* wg.Wait, and the copy of the results in plan order.
Report ==
    /\ phase = "running"
    /\ \A j \in Jobs : pc[j] = "done"
    /\ phase' = "reported"
    /\ report' = result
    /\ UNCHANGED <<canceled, pc, dep, sem, ret, result>>

(***************************************************************************)
(* A job's goroutine: schedule.                                            *)
(***************************************************************************)

\* A test that does not apply to the protocol is skipped at once.
Begin(j) ==
    /\ phase = "running" /\ pc[j] = "new"
    /\ IF j[2] \notin RunsOver[j[1]]
       THEN Return(j, "skipped")
       ELSE /\ Goto(j, "await")
            /\ UNCHANGED <<phase, canceled, dep, sem, ret, result, report>>

Waiting(j) == pc[j] = "await" /\ dep[j] <= Needs(j)

\* The next prerequisite was not selected.
AwaitMissing(j) ==
    /\ Waiting(j)
    /\ DepKey(j, dep[j]) \notin Jobs
    /\ Return(j, "skipped")

\* Faulty variant: only a failed prerequisite rules the job out.
AwaitDoneOnlyFail(j) ==
    LET d == DepKey(j, dep[j]) IN
    /\ Waiting(j)
    /\ d \in Jobs /\ pc[d] = "done"
    /\ IF result[d] = "fail"
       THEN Return(j, "skipped")
       ELSE /\ dep' = [dep EXCEPT ![j] = @ + 1]
            /\ UNCHANGED <<phase, canceled, pc, sem, ret, result, report>>

\* <-d.done, and what its result means for this job.  The wait does not look
\* at the context.
AwaitDone(j) ==
    LET d == DepKey(j, dep[j]) IN
    /\ Waiting(j)
    /\ d \in Jobs /\ pc[d] = "done"
    /\ IF result[d] # "pass"
       THEN Return(j, "skipped")
       ELSE /\ dep' = [dep EXCEPT ![j] = @ + 1]
            /\ UNCHANGED <<phase, canceled, pc, sem, ret, result, report>>

Ready(j) == pc[j] = "await" /\ dep[j] > Needs(j)

\* The select on a free slot and on the context; when both are ready either
\* branch may be taken.
Acquire(j) ==
    /\ Ready(j)
    /\ Cardinality(sem) < Concurrency
    /\ sem' = sem \cup {j}
    /\ Goto(j, "upload")
    /\ UNCHANGED <<phase, canceled, dep, ret, result, report>>

\* Faulty variant: the wait for the prerequisites gives up as well.
CanceledWhileWaiting(j) ==
    /\ pc[j] = "await"
    /\ canceled
    /\ Return(j, "error")

CanceledBeforeStart(j) ==
    /\ Ready(j)
    /\ canceled
    /\ Return(j, "error")

\* exercise: PutScript fails for sure under a context that is done.
Upload(j) ==
    /\ pc[j] = "upload" /\ ~canceled
    /\ Goto(j, "exercise")
    /\ UNCHANGED <<phase, canceled, dep, sem, ret, result, report>>

\* Faulty variant: the upload is tried again whatever the context says.
UploadRetries(j) ==
    /\ pc[j] = "upload"
    /\ UNCHANGED vars

UploadFails(j) ==
    /\ pc[j] = "upload"
    /\ Goto(j, "release")
    /\ ret' = [ret EXCEPT ![j] = "error"]
    /\ UNCHANGED <<phase, canceled, dep, sem, result, report>>

\* The rest of exercise.
Exercise(j) ==
    /\ pc[j] = "exercise"
    /\ Goto(j, "release")
    /\ \E o \in Verdicts \cup {"error"} : ret' = [ret EXCEPT ![j] = o]
    /\ UNCHANGED <<phase, canceled, dep, sem, result, report>>

\* Faulty variant: the slot is never received back.
ReleaseNothing(j) ==
    /\ pc[j] = "release"
    /\ Goto(j, "return")
    /\ UNCHANGED <<phase, canceled, dep, sem, ret, result, report>>

\* The deferred receive gives the slot back before schedule returns.
Release(j) ==
    /\ pc[j] = "release"
    /\ sem' = sem \ {j}
    /\ Goto(j, "return")
    /\ UNCHANGED <<phase, canceled, dep, ret, result, report>>

\* j.result is assigned, and only then the deferred close wakes the waiters.
Assign(j) ==
    /\ pc[j] = "return"
    /\ result' = [result EXCEPT ![j] = ret[j]]
    /\ Goto(j, "close")
    /\ UNCHANGED <<phase, canceled, dep, sem, ret, report>>

Close(j) ==
    /\ pc[j] = "close"
    /\ Goto(j, "done")
    /\ UNCHANGED <<phase, canceled, dep, sem, ret, result, report>>

----------------------------------------------------------------------------

JobStep(j) ==
    \/ Begin(j) \/ AwaitMissing(j) \/ AwaitDone(j)
    \/ Acquire(j) \/ CanceledBeforeStart(j)
    \/ Upload(j) \/ UploadFails(j) \/ Exercise(j)
    \/ Release(j) \/ Assign(j) \/ Close(j)

\* Run has returned.
Returned == phase \in {"reported", "failed"} /\ UNCHANGED vars

Next ==
    \/ Handshake \/ HandshakeFails \/ Cancel \/ Report
    \/ \E j \in Jobs : JobStep(j)
    \/ Returned

\* Every goroutine that can go on does: the Go scheduler starves none, and
\* what exercise waits for is bounded by the client's timeout and by the
\* lengths of the waits.  Nothing makes a user cancel.
Fairness ==
    /\ WF_vars(Handshake \/ HandshakeFails) /\ WF_vars(Report)
    /\ \A j \in Jobs : WF_vars(JobStep(j))

Spec == Init /\ [][Next]_vars /\ Fairness

----------------------------------------------------------------------------
(***************************************************************************)
(* Properties.                                                             *)
(***************************************************************************)

Finished(k) == k \in Jobs /\ pc[k] = "done"

\* The jobs that schedule has let through to exercise.
Started(j) == pc[j] \in {"upload", "exercise", "release"}

\* runner.go:201-210: a test is exercised, and judged, only when every test it
\* requires was selected, has finished and passed over the same protocol.
RanAfterRequired ==
    \A j \in Jobs : Started(j) \/ ret[j] \in Verdicts =>
        \A i \in 1..Needs(j) :
            Finished(DepKey(j, i)) /\ result[DepKey(j, i)] = "pass"

\* runner.go:198-208: a test is skipped only because it does not apply to the
\* protocol, or because a test it requires was not selected or ended without
\* passing; being canceled, or waiting long, is no reason.
SkippedForReason ==
    \A j \in Jobs : result[j] = "skipped" =>
        \/ j[2] \notin RunsOver[j[1]]
        \/ \E i \in 1..Needs(j) :
               \/ DepKey(j, i) \notin Jobs
               \/ Finished(DepKey(j, i)) /\ result[DepKey(j, i)] # "pass"

\* runner.go:200: "a blocked job never holds a slot they need": the slots are
\* held by the jobs being exercised and by no other, never more than
\* Concurrency of them.
SlotsAreExercised ==
    /\ sem = {j \in Jobs : Started(j)}
    /\ Cardinality(sem) <= Concurrency

\* Job j can take a step now.
CanStep(j) ==
    \/ pc[j] \in {"new", "upload", "exercise", "release", "return", "close"}
    \/ Waiting(j) /\ (DepKey(j, dep[j]) \in Jobs => pc[DepKey(j, dep[j])] = "done")
    \/ Ready(j) /\ (canceled \/ Cardinality(sem) < Concurrency)

\* However few slots there are and however the tests depend on each other, the
\* jobs never all wait: while one is unfinished, some job can step.
NeverStuck ==
    phase = "running" /\ (\E j \in Jobs : pc[j] # "done") => \E j \in Jobs : CanStep(j)

\* What Run returns has a final outcome for every test over every protocol.
ReportComplete ==
    phase = "reported" => \A j \in Jobs : report[j] \in Outcomes /\ report[j] = ret[j]

\* The schedule implements the promise in module TestOutcomes, a job being
\* decided when its done channel is closed.
Promise == INSTANCE TestOutcomes
    WITH outcome <- [j \in Jobs |-> IF pc[j] = "done" THEN result[j] ELSE "pending"]

KeepsPromise == Promise!Spec

\* Run returns, canceled or not: every job is awaited by wg.Wait and each one
\* finishes.
RunReturns == <>(phase \in {"reported", "failed"})

=============================================================================
