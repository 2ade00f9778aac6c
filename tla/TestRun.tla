------------------------------ MODULE TestRun ------------------------------
(***************************************************************************)
(* One test from upload to clean-up: the client (pkg/client/runner.go:     *)
(* exercise, sendSteps, send), the proxy under test, and the origin, whose *)
(* handlers are those of module OriginStore.  The judge is                 *)
(* pkg/check/check.go: Evaluate and Verdict.                               *)
(*                                                                         *)
(* The proxy is not part of the repository.  It may answer a request by    *)
(* itself, forward it, forward it more than once, forward it after it has  *)
(* answered, keep or drop the step header, or never answer.                *)
(*                                                                         *)
(* The control requests (upload, log, delete) may fail or lose their       *)
(* answers.  They go straight to the origin (OriginControl) or, when none  *)
(* is given, through the proxy, which is then taken to pass each of them   *)
(* on once and as it is, and to store none of the answers.                 *)
(***************************************************************************)
EXTENDS OriginStore

CONSTANTS
    Plan,       \* the test's steps, in order
    TestId,     \* the fresh id of this run of the test (protocol.NewID)
    OtherId,    \* the id of some other client's test
    RunScript,  \* the test's script
    PutReq, LogReq, DelReq,  \* the client's control requests
    OtherReqs   \* the PUTs of other clients

\* The requests the proxy may send to the origin.
Forwards == Requests \ ({PutReq, LogReq, DelReq} \cup OtherReqs)

StepNumbers == 1..Len(Plan)

\* Whether a step is a wait, runs in parallel with its neighbours, only sets the
\* scene, and must be forwarded, as it must when forwarded headers are checked.
PlanStep == [wait : BOOLEAN, parallel : BOOLEAN, arrange : BOOLEAN,
             forwarded : {"yes", "no", "any"}]

ASSUME PlanAssumption ==
    /\ Plan \in Seq(PlanStep)
    /\ StepNumbers \subseteq Steps
    /\ {TestId, OtherId} \subseteq ValidIds /\ TestId # OtherId
    /\ RunScript \in Scripts
    /\ {PutReq, LogReq, DelReq} \cup OtherReqs \subseteq Requests
    /\ PutReq # LogReq /\ PutReq # DelReq /\ LogReq # DelReq
    /\ {PutReq, LogReq, DelReq} \cap OtherReqs = {}

VARIABLES
    cpc,       \* where exercise is
    at,        \* the index in Plan that sendSteps has reached
    obs,       \* what became of each step's request
    carries,   \* the step whose request the proxy is forwarding
    canceled,  \* the run's context is done
    outcome    \* the result of exercise

client == <<cpc, at, obs, canceled, outcome>>
proxy == <<carries>>
runVars == <<vars, client, proxy>>

----------------------------------------------------------------------------

Observed == {"good", "bad", "failed"}
Verdicts == {"pass", "fail", "inconclusive"}

RunTypeOK ==
    /\ TypeOK
    /\ cpc \in {"start", "uploading", "steps", "asking", "cleanup", "done"}
    /\ at \in 1..(Len(Plan) + 1)
    /\ obs \in [StepNumbers -> Observed \cup {"unsent", "sent"}]
    /\ carries \in [Forwards -> StepNumbers \cup {0}]
    /\ canceled \in BOOLEAN
    /\ outcome \in Verdicts \cup {"none", "error"}
    /\ cpc = "done" => outcome # "none"

RunInit ==
    /\ Init
    /\ cpc = "start"
    /\ at = 1
    /\ obs = [n \in StepNumbers |-> "unsent"]
    /\ carries = [r \in Forwards |-> 0]
    /\ canceled = FALSE
    /\ outcome = "none"

(***************************************************************************)
(* exercise: upload the script.                                            *)
(***************************************************************************)

Upload ==
    /\ cpc = "start" /\ ~canceled
    /\ PutArrive(PutReq, TestId, RunScript)
    /\ cpc' = "uploading"
    /\ UNCHANGED <<at, obs, canceled, outcome, proxy>>

UploadAcked ==
    /\ cpc = "uploading" /\ reply[PutReq].status = "stored"
    /\ cpc' = "steps"
    /\ UNCHANGED <<vars, at, obs, canceled, outcome, proxy>>

\* Faulty variant: the deletion is deferred before the upload is known to
\* have worked.
UploadFailsDeletes ==
    /\ (cpc = "start" /\ canceled) \/ cpc = "uploading"
    /\ cpc' = "cleanup"
    /\ outcome' = "error"
    /\ UNCHANGED <<vars, at, obs, canceled, proxy>>

\* The context is done, the control request timed out, or its answer was
\* lost, the origin having stored the script or not.  Nothing is deleted.
UploadFails ==
    /\ (cpc = "start" /\ canceled) \/ cpc = "uploading"
    /\ cpc' = "done"
    /\ outcome' = "error"
    /\ UNCHANGED <<vars, at, obs, canceled, proxy>>

(***************************************************************************)
(* sendSteps: wait steps, single requests and parallel groups.             *)
(***************************************************************************)

\* parallelEnd: the steps that sendStepGroup sends together from index i.
Group(i) ==
    IF Plan[i].parallel
    THEN {k \in i..Len(Plan) : \A m \in i..k : ~Plan[m].wait /\ Plan[m].parallel}
    ELSE {i}

Stepping == cpc = "steps" /\ at <= Len(Plan)

Pause ==
    /\ Stepping /\ Plan[at].wait
    /\ at' = at + 1
    /\ UNCHANGED <<vars, cpc, obs, canceled, outcome, proxy>>

\* sleep returns early: the remaining steps are not sent.
PauseCanceled ==
    /\ Stepping /\ Plan[at].wait
    /\ canceled
    /\ at' = Len(Plan) + 1
    /\ UNCHANGED <<vars, cpc, obs, canceled, outcome, proxy>>

SendGroup ==
    /\ Stepping /\ ~Plan[at].wait
    /\ obs[at] = "unsent"
    /\ obs' = [n \in StepNumbers |-> IF n \in Group(at) THEN "sent" ELSE obs[n]]
    /\ UNCHANGED <<vars, cpc, at, canceled, outcome, proxy>>

\* Faulty variant: the HTTP client has no timeout.
StepFailsOnlyCanceled(n) ==
    /\ obs[n] = "sent" /\ canceled
    /\ obs' = [obs EXCEPT ![n] = "failed"]
    /\ UNCHANGED <<vars, cpc, at, canceled, outcome, proxy>>

\* The client's timeout, a transport error or the context ends the request.
StepFails(n) ==
    /\ obs[n] = "sent"
    /\ obs' = [obs EXCEPT ![n] = "failed"]
    /\ UNCHANGED <<vars, cpc, at, canceled, outcome, proxy>>

\* wg.Wait of a parallel group, or the return of a single send.
GroupEnds ==
    /\ Stepping /\ ~Plan[at].wait
    /\ \A n \in Group(at) : obs[n] \in Observed
    /\ at' = at + Cardinality(Group(at))
    /\ UNCHANGED <<vars, cpc, obs, canceled, outcome, proxy>>

(***************************************************************************)
(* The proxy under test, seen from the client and from the origin.         *)
(***************************************************************************)

AnswersItself(n, o) ==
    /\ obs[n] = "sent"
    /\ obs' = [obs EXCEPT ![n] = o]
    /\ UNCHANGED <<vars, cpc, at, canceled, outcome, proxy>>

\* At once, again, or in the background after it has answered.
ForwardsStep(n, r, header) ==
    /\ obs[n] # "unsent"
    /\ TestGet(r, TestId, header) \/ NotFound(r, TestId)
    /\ carries' = [carries EXCEPT ![r] = n]
    /\ UNCHANGED client

\* The origin's answer reaches the client.
Relays(n, r, o) ==
    /\ obs[n] = "sent" /\ carries[r] = n
    /\ reply[r].status = "answered"
    /\ obs' = [obs EXCEPT ![n] = o]
    /\ UNCHANGED <<vars, cpc, at, canceled, outcome, carries>>

(***************************************************************************)
(* exercise: fetch the log and judge.                                      *)
(***************************************************************************)

\* Faulty variant: the context is not looked at.
AskLogRegardless ==
    /\ cpc = "steps" /\ at > Len(Plan)
    /\ LogGet(LogReq, TestId) \/ NotFound(LogReq, TestId)
    /\ cpc' = "asking"
    /\ UNCHANGED <<at, obs, canceled, outcome, proxy>>

AskLog ==
    /\ cpc = "steps" /\ at > Len(Plan) /\ ~canceled
    /\ LogGet(LogReq, TestId) \/ NotFound(LogReq, TestId)
    /\ cpc' = "asking"
    /\ UNCHANGED <<at, obs, canceled, outcome, proxy>>

CanceledAfterSteps ==
    /\ cpc = "steps" /\ at > Len(Plan) /\ canceled
    /\ cpc' = "cleanup"
    /\ outcome' = "error"
    /\ UNCHANGED <<vars, at, obs, canceled, proxy>>

\* Log.Step: the entries of a step.
Logged(log, n) == \E i \in DOMAIN log : log[i].step = n

\* Evaluate: the request steps that did not meet their expectations.
\* What evaluateStep asks of the headers and the body of the answer, and of the
\* forwarded headers, is in good and bad.
Unmet(log) ==
    {n \in StepNumbers : ~Plan[n].wait /\
        \/ obs[n] # "good"
        \/ Plan[n].forwarded = "yes" /\ ~Logged(log, n)
        \/ Plan[n].forwarded = "no" /\ Logged(log, n)}

Verdict(fails) ==
    IF \E n \in fails : Plan[n].arrange THEN "inconclusive"
    ELSE IF fails # {} THEN "fail" ELSE "pass"

\* Faulty variant: a log that could not be fetched is taken for empty.
LogFailsJudges ==
    /\ cpc = "asking"
    /\ outcome' = Verdict(Unmet(<<>>))
    /\ cpc' = "cleanup"
    /\ UNCHANGED <<vars, at, obs, canceled, proxy>>

\* 404, a timeout, a lost answer, or the context: nothing is judged.
LogFails ==
    /\ cpc = "asking"
    /\ outcome' = "error"
    /\ cpc' = "cleanup"
    /\ UNCHANGED <<vars, at, obs, canceled, proxy>>

JudgeLog ==
    /\ cpc = "asking" /\ reply[LogReq].status = "snapshot"
    /\ outcome' = Verdict(Unmet(reply[LogReq].log))
    /\ cpc' = "cleanup"
    /\ UNCHANGED <<vars, at, obs, canceled, proxy>>

\* The deferred DeleteScript, outside the run's context.
DeleteScript ==
    /\ cpc = "cleanup"
    /\ Delete(DelReq, TestId)
    /\ cpc' = "done"
    /\ UNCHANGED <<at, obs, canceled, outcome, proxy>>

\* Its error is ignored.
DeleteLost ==
    /\ cpc = "cleanup"
    /\ cpc' = "done"
    /\ UNCHANGED <<vars, at, obs, canceled, outcome, proxy>>

----------------------------------------------------------------------------

Cancel ==
    /\ ~canceled /\ cpc # "done"
    /\ canceled' = TRUE
    /\ UNCHANGED <<vars, cpc, at, obs, outcome, proxy>>

\* The handlers at the origin, another client's upload, and time go on by
\* themselves.
OriginGoesOn ==
    /\ \/ Put(PutReq) \/ LogSnapshot(LogReq)
       \/ \E r \in Forwards : TestNextSeq(r) \/ TestRecord(r) \/ TestAnswer(r) \/ TestGone(r)
       \/ \E r \in OtherReqs : PutArrive(r, OtherId, RunScript) \/ Put(r)
       \/ Tick
    /\ UNCHANGED <<client, proxy>>

ProxyStep ==
    \E n \in StepNumbers :
        \/ \E o \in {"good", "bad"} : AnswersItself(n, o)
        \/ \E r \in Forwards, o \in {"good", "bad"} : Relays(n, r, o)
        \/ \E r \in Forwards, header \in {n, 0} : ForwardsStep(n, r, header)

ClientStep ==
    \/ Upload \/ UploadAcked \/ UploadFails
    \/ Pause \/ PauseCanceled \/ SendGroup \/ GroupEnds
    \/ \E n \in StepNumbers : StepFails(n)
    \/ AskLog \/ CanceledAfterSteps \/ LogFails \/ JudgeLog
    \/ DeleteScript \/ DeleteLost

RunNext == ClientStep \/ ProxyStep \/ OriginGoesOn \/ Cancel

\* The client's goroutine goes on, its timeout ending what is not answered.
\* Nothing is asked of the proxy, the origin or other clients.
RunSpec == RunInit /\ [][RunNext]_runVars /\ WF_runVars(ClientStep)

----------------------------------------------------------------------------
(***************************************************************************)
(* Properties.                                                             *)
(***************************************************************************)

\* A test is judged only on full evidence: every request step was sent and
\* has ended, and the log is the one of this test's upload.  A script swept
\* away, a canceled wait or a lost log never ends in a verdict.
JudgedOnEvidence ==
    outcome \in Verdicts =>
        /\ \A n \in StepNumbers : ~Plan[n].wait => obs[n] \in Observed
        /\ reply[LogReq].status = "snapshot" /\ loc[LogReq].held = PutReq

\* A script whose deletion the origin has confirmed stays deleted: no step of
\* this test puts it back.
DeletedStaysDeleted ==
    reply[DelReq].status = "deleted" => tests[TestId] = NoEntry

\* docs/architecture.md, Judging: a canceled run is an error, "nothing was
\* learned about the proxy": a test whose context ends before its log is asked
\* for gets no verdict.
CanceledIsError ==
    [](canceled /\ cpc \in {"start", "uploading", "steps"} => [](outcome \notin Verdicts))

\* exercise returns, whatever the proxy and the origin do or fail to do.
ExerciseReturns == <>(cpc = "done")

=============================================================================
