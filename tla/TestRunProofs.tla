--------------------------- MODULE TestRunProofs ---------------------------
(***************************************************************************)
(* Proofs about TestRun, for every plan, every set of requests that the    *)
(* proxy and other clients send, and every TTL.                            *)
(***************************************************************************)
EXTENDS TestRun, OriginStoreProofs, FiniteSetTheorems

(***************************************************************************)
(* The inductive invariant.  What it says of the store comes on top of     *)
(* IInv of OriginStoreProofs, which carries over.                          *)
(***************************************************************************)

ClientTypeOK ==
    /\ cpc \in {"start", "uploading", "steps", "asking", "cleanup", "done"}
    /\ at \in 1..(Len(Plan) + 1)
    /\ obs \in [StepNumbers -> Observed \cup {"unsent", "sent"}]
    /\ carries \in [Forwards -> StepNumbers \cup {0}]
    /\ canceled \in BOOLEAN
    /\ outcome \in Verdicts \cup {"none", "error"}

\* Each request does what it was sent for: nobody but PutReq stores anything
\* under the test's id.
RolesInv ==
    /\ pc[PutReq] \in {"new", "putting", "replied"}
    /\ pc[LogReq] \in {"new", "reading", "replied"}
    /\ pc[DelReq] \in {"new", "replied"}
    /\ \A r \in Forwards : pc[r] # "putting"
    /\ pc[PutReq] = "putting" => loc[PutReq].id = TestId
    /\ \A r \in OtherReqs : pc[r] = "putting" => loc[r].id = OtherId
    /\ tests[TestId] \in {PutReq, NoEntry}
    /\ pc[LogReq] = "reading" \/ reply[LogReq].status = "snapshot" => loc[LogReq].held = PutReq

\* exercise goes on only after its upload was answered, so that it deletes what
\* no handler will store any more.
UploadInv ==
    /\ cpc \in {"steps", "asking", "cleanup"} => pc[PutReq] = "replied"
    /\ reply[DelReq].status = "deleted" => pc[PutReq] = "replied" /\ tests[TestId] = NoEntry

AllObserved == \A n \in StepNumbers : ~Plan[n].wait => obs[n] \in Observed

\* What is behind sendSteps has ended, unless a wait was cut short.
EvidenceInv ==
    /\ canceled \/ \A n \in 1..(at - 1) : ~Plan[n].wait => obs[n] \in Observed
    /\ cpc = "asking" \/ outcome \in Verdicts => AllObserved
    /\ cpc \in {"cleanup", "done"} <=> outcome # "none"
    /\ outcome \in Verdicts => reply[LogReq].status = "snapshot"

RInv == ClientTypeOK /\ RolesInv /\ UploadInv /\ EvidenceInv

----------------------------------------------------------------------------
(***************************************************************************)
(* Facts about the plan.                                                   *)
(***************************************************************************)

LEMMA PlanFacts ==
    /\ Len(Plan) \in Nat
    /\ {TestId, OtherId} \subseteq Ids
    /\ PutReq \in Requests /\ LogReq \in Requests /\ DelReq \in Requests
    /\ OtherReqs \subseteq Requests /\ Forwards \subseteq Requests
    /\ NoEntry \notin Requests
  BY PlanAssumption, ConstantsAssumption DEF Forwards

\* sendStepGroup sends neighbours, so the next step after a group of k is the
\* k-th after its first.
LEMMA GroupIsInterval ==
    ASSUME NEW i \in StepNumbers
    PROVE  /\ Cardinality(Group(i)) \in Nat
           /\ i + Cardinality(Group(i)) <= Len(Plan) + 1
           /\ \A n \in i..(i + Cardinality(Group(i)) - 1) : n \in Group(i)
<1> USE PlanFacts DEF StepNumbers
<1>1. Group(i) \subseteq i..Len(Plan)
  BY DEF Group
<1>2. \A n \in Group(i) : \A m \in i..n : m \in Group(i)
  BY <1>1 DEF Group
<1>3. ASSUME NEW b \in Int, b >= i - 1, Group(i) \subseteq i..b
      PROVE  IsFiniteSet(Group(i)) /\ Cardinality(Group(i)) \in Nat /\ Cardinality(Group(i)) <= b - i + 1
  <2>0. i \in Int
    OBVIOUS
  <2>1. IsFiniteSet(i..b) /\ Cardinality(i..b) = IF i > b THEN 0 ELSE b - i + 1
    BY <2>0, FS_Interval
  <2>2. IsFiniteSet(Group(i)) /\ Cardinality(Group(i)) <= Cardinality(i..b)
    BY <1>3, <2>1, FS_Subset
  <2>3. Cardinality(Group(i)) \in Nat
    BY <2>2, FS_CardinalityType
  <2> QED BY <1>3, <2>1, <2>2, <2>3
<1>4. Cardinality(Group(i)) \in Nat /\ i + Cardinality(Group(i)) <= Len(Plan) + 1
  BY <1>1, <1>3
<1>5. ASSUME NEW n \in i..(i + Cardinality(Group(i)) - 1), n \notin Group(i) PROVE FALSE
  <2>1. n \in Int /\ n >= i /\ n <= i + Cardinality(Group(i)) - 1
    BY <1>4
  <2>2. Group(i) \subseteq i..(n - 1)
    BY <1>1, <1>2, <1>5, <2>1
  <2>3. Cardinality(Group(i)) <= (n - 1) - i + 1
    BY <1>3, <2>1, <2>2
  <2> QED BY <1>4, <2>1, <2>3
<1> QED BY <1>4, <1>5

(***************************************************************************)
(* A test run is a run of the origin's store: what is proved of the store  *)
(* under arbitrary requests holds of it.                                   *)
(***************************************************************************)

LEMMA RunStepIsStoreStep == [RunNext]_runVars => [Next]_vars
<1> SUFFICES ASSUME RunNext PROVE [Next]_vars
  BY DEF runVars
<1> USE PlanFacts
<1>1. ASSUME ClientStep PROVE [Next]_vars
  <2>1. CASE Upload
    <3>1. PutArrive(PutReq, TestId, RunScript) /\ RunScript \in Scripts
      BY <2>1, PlanAssumption DEF Upload
    <3> QED BY <3>1 DEF Next, PutStep
  <2>2. CASE AskLog
    <3>1. LogGet(LogReq, TestId) \/ NotFound(LogReq, TestId)
      BY <2>2 DEF AskLog
    <3> QED BY <3>1 DEF Next, ControlStep
  <2>3. CASE DeleteScript
    <3>1. Delete(DelReq, TestId)
      BY <2>3 DEF DeleteScript
    <3> QED BY <3>1 DEF Next, ControlStep
  <2>4. CASE ~Upload /\ ~AskLog /\ ~DeleteScript
    <3>1. UNCHANGED vars
      BY <1>1, <2>4 DEF ClientStep, UploadAcked, UploadFails, Pause, PauseCanceled, SendGroup, GroupEnds,
             StepFails, CanceledAfterSteps, LogFails, JudgeLog, DeleteLost
    <3> QED BY <3>1
  <2> QED BY <2>1, <2>2, <2>3, <2>4
<1>2. ASSUME ProxyStep PROVE [Next]_vars
  <2>1. CASE UNCHANGED vars
    BY <2>1
  <2>2. CASE \E n \in StepNumbers, r \in Forwards : \E header \in {n, 0} : ForwardsStep(n, r, header)
    <3>1. PICK n \in StepNumbers, r \in Forwards : \E header \in {n, 0} : ForwardsStep(n, r, header)
      BY <2>2
    <3>2. PICK header \in {n, 0} : ForwardsStep(n, r, header)
      BY <3>1
    <3>3. header \in Steps
      BY PlanAssumption, ConstantsAssumption
    <3>4. TestGet(r, TestId, header) \/ NotFound(r, TestId)
      BY <3>2 DEF ForwardsStep
    <3> QED BY <3>3, <3>4 DEF Next, TestStep, ControlStep
  <2> QED BY <1>2, <2>1, <2>2 DEF ProxyStep, AnswersItself, Relays
<1>3. ASSUME OriginGoesOn PROVE [Next]_vars
  <2>1. CASE \E r \in OtherReqs : PutArrive(r, OtherId, RunScript)
    <3>1. PICK r \in OtherReqs : PutArrive(r, OtherId, RunScript)
      BY <2>1
    <3> QED BY <3>1, PlanAssumption DEF Next, PutStep
  <2>2. CASE ~\E r \in OtherReqs : PutArrive(r, OtherId, RunScript)
    BY <1>3, <2>2 DEF OriginGoesOn, Next, PutStep, ControlStep, TestStep
  <2> QED BY <2>1, <2>2
<1>4. ASSUME Cancel PROVE [Next]_vars
  BY <1>4 DEF Cancel
<1> QED BY <1>1, <1>2, <1>3, <1>4 DEF RunNext

\* The handlers of a test run are the origin's: with the client, the proxy and
\* the other clients hidden, a test run is a behaviour of OriginStore.
THEOREM RunImplementsStore == RunSpec => Spec
<1>1. RunInit => Init
  BY DEF RunInit
<1> QED BY <1>1, RunStepIsStoreStep, PTL DEF RunSpec, Spec

(***************************************************************************)
(* The invariant is inductive.                                             *)
(***************************************************************************)

LEMMA InitRInv == RunInit => RInv
<1> SUFFICES ASSUME RunInit PROVE RInv
  OBVIOUS
<1> USE PlanFacts DEF RunInit, Init, NoLocal
<1>1. ClientTypeOK
  <2>1. at \in 1..(Len(Plan) + 1)
    OBVIOUS
  <2>2. /\ obs \in [StepNumbers -> Observed \cup {"unsent", "sent"}]
        /\ carries \in [Forwards -> StepNumbers \cup {0}]
    OBVIOUS
  <2> QED BY <2>1, <2>2 DEF ClientTypeOK
<1>2. RolesInv
  BY DEF RolesInv
<1>3. UploadInv
  BY DEF UploadInv
<1>4. EvidenceInv
  BY DEF EvidenceInv, Verdicts
<1> QED BY <1>1, <1>2, <1>3, <1>4 DEF RInv

\* The client's own steps leave the requests alone.
LEMMA StoreUnchanged ==
    ASSUME RolesInv, UNCHANGED vars
    PROVE  RolesInv'
  BY DEF RolesInv, vars

LEMMA ClientStepRInv == ASSUME TypeOK, PointersInv, RInv, ClientStep PROVE RInv'
<1> USE PlanFacts, PlanAssumption DEF RInv, proxy
<1>1. ASSUME Upload PROVE RInv'
  <2> USE <1>1 DEF Upload, PutArrive
  <2>1. ClientTypeOK'
    BY DEF ClientTypeOK, Observed, Verdicts, StepNumbers
  <2>2. RolesInv'
    BY DEF TypeOK, RolesInv, NoLocal, Forwards
  <2>3. UploadInv'
    BY DEF TypeOK, PointersInv, RolesInv, UploadInv, Stored, vars
  <2>4. EvidenceInv'
    BY DEF TypeOK, ClientTypeOK, EvidenceInv, AllObserved, Observed, Verdicts, StepNumbers, vars
  <2> QED BY <2>1, <2>2, <2>3, <2>4
<1>2. ASSUME UploadAcked PROVE RInv'
  <2> USE <1>2 DEF UploadAcked
  <2>1. ClientTypeOK'
    BY DEF ClientTypeOK, Observed, Verdicts, StepNumbers
  <2>2. RolesInv'
    BY StoreUnchanged
  <2>3. UploadInv'
    BY DEF TypeOK, PointersInv, RolesInv, UploadInv, Stored, vars
  <2>4. EvidenceInv'
    BY DEF TypeOK, ClientTypeOK, EvidenceInv, AllObserved, Observed, Verdicts, StepNumbers, vars
  <2> QED BY <2>1, <2>2, <2>3, <2>4
<1>3. ASSUME UploadFails PROVE RInv'
  <2> USE <1>3 DEF UploadFails
  <2>1. ClientTypeOK'
    BY DEF ClientTypeOK, Observed, Verdicts, StepNumbers
  <2>2. RolesInv'
    BY StoreUnchanged
  <2>3. UploadInv'
    BY DEF TypeOK, PointersInv, RolesInv, UploadInv, Stored, vars
  <2>4. EvidenceInv'
    BY DEF TypeOK, ClientTypeOK, EvidenceInv, AllObserved, Observed, Verdicts, StepNumbers, vars
  <2> QED BY <2>1, <2>2, <2>3, <2>4
<1>4. ASSUME Pause PROVE RInv'
  <2> USE <1>4 DEF Pause
  <2>1. ClientTypeOK'
    BY DEF ClientTypeOK, Observed, Verdicts, StepNumbers, Stepping
  <2>2. RolesInv'
    BY StoreUnchanged
  <2>3. UploadInv'
    BY DEF TypeOK, PointersInv, RolesInv, UploadInv, Stored, vars, Stepping
  <2>4. EvidenceInv'
    BY DEF TypeOK, ClientTypeOK, EvidenceInv, AllObserved, Observed, Verdicts, StepNumbers, vars, Stepping
  <2> QED BY <2>1, <2>2, <2>3, <2>4
<1>5. ASSUME PauseCanceled PROVE RInv'
  <2> USE <1>5 DEF PauseCanceled
  <2>1. ClientTypeOK'
    BY DEF ClientTypeOK, Observed, Verdicts, StepNumbers, Stepping
  <2>2. RolesInv'
    BY StoreUnchanged
  <2>3. UploadInv'
    BY DEF TypeOK, PointersInv, RolesInv, UploadInv, Stored, vars, Stepping
  <2>4. EvidenceInv'
    BY DEF TypeOK, ClientTypeOK, EvidenceInv, AllObserved, Observed, Verdicts, StepNumbers, vars, Stepping
  <2> QED BY <2>1, <2>2, <2>3, <2>4
<1>6. ASSUME SendGroup PROVE RInv'
  <2> USE <1>6 DEF SendGroup
  <2>1. ClientTypeOK'
    BY DEF ClientTypeOK, Observed, Verdicts, StepNumbers, Stepping
  <2>2. RolesInv'
    BY StoreUnchanged
  <2>3. UploadInv'
    BY DEF TypeOK, PointersInv, RolesInv, UploadInv, Stored, vars, Stepping
  <2>4. EvidenceInv'
    BY DEF TypeOK, ClientTypeOK, EvidenceInv, AllObserved, Observed, Verdicts, StepNumbers, vars, Stepping, Group
  <2> QED BY <2>1, <2>2, <2>3, <2>4
<1>7. ASSUME GroupEnds PROVE RInv'
  <2> USE <1>7 DEF GroupEnds
  <2>0. /\ at \in StepNumbers /\ at' \in 1..(Len(Plan) + 1)
        /\ \A n \in 1..(at' - 1) : n < at \/ n \in Group(at)
    <3>1. at \in StepNumbers
      BY DEF ClientTypeOK, StepNumbers, Stepping
    <3> QED BY <3>1, GroupIsInterval DEF StepNumbers
  <2>1. ClientTypeOK'
    BY <2>0 DEF ClientTypeOK, Observed, Verdicts, StepNumbers, Stepping
  <2>2. RolesInv'
    BY StoreUnchanged
  <2>3. UploadInv'
    BY DEF TypeOK, PointersInv, RolesInv, UploadInv, Stored, vars, Stepping
  <2>4. EvidenceInv'
    BY <2>0 DEF TypeOK, ClientTypeOK, EvidenceInv, AllObserved, Observed, Verdicts, StepNumbers, vars, Stepping
  <2> QED BY <2>1, <2>2, <2>3, <2>4
<1>8. ASSUME NEW n \in StepNumbers, StepFails(n) PROVE RInv'
  <2> USE <1>8 DEF StepFails
  <2>1. ClientTypeOK'
    BY DEF ClientTypeOK, Observed, Verdicts, StepNumbers
  <2>2. RolesInv'
    BY StoreUnchanged
  <2>3. UploadInv'
    BY DEF TypeOK, PointersInv, RolesInv, UploadInv, Stored, vars
  <2>4. EvidenceInv'
    BY DEF TypeOK, ClientTypeOK, EvidenceInv, AllObserved, Observed, Verdicts, StepNumbers, vars
  <2> QED BY <2>1, <2>2, <2>3, <2>4
<1>9. ASSUME AskLog PROVE RInv'
  <2> USE <1>9 DEF AskLog, LogGet, NotFound, ReplyWith
  <2>1. ClientTypeOK'
    BY DEF ClientTypeOK, Observed, Verdicts, StepNumbers
  <2>2. RolesInv'
    <3>1. CASE LogGet(LogReq, TestId)
      <4>1. /\ tests[TestId] = PutReq /\ loc'[LogReq].held = PutReq
            /\ \A q \in Requests : q # LogReq => pc'[q] = pc[q] /\ loc'[q] = loc[q]
            /\ pc'[LogReq] = "reading" /\ UNCHANGED <<tests, reply>>
        BY <3>1 DEF TypeOK, RolesInv, NoLocal
      <4> QED BY <4>1 DEF RolesInv, Forwards
    <3>2. CASE NotFound(LogReq, TestId)
      <4>1. /\ reply'[LogReq].status = "notfound" /\ pc'[LogReq] = "replied"
            /\ \A q \in Requests : q # LogReq => pc'[q] = pc[q] /\ reply'[q] = reply[q]
            /\ UNCHANGED <<tests, loc>>
        BY <3>2 DEF TypeOK
      <4> QED BY <4>1 DEF RolesInv, Forwards
    <3> QED BY <3>1, <3>2
  <2>3. UploadInv'
    BY DEF TypeOK, PointersInv, RolesInv, UploadInv, Stored, vars
  <2>4. EvidenceInv'
    BY DEF TypeOK, ClientTypeOK, EvidenceInv, AllObserved, Observed, Verdicts, StepNumbers, vars
  <2> QED BY <2>1, <2>2, <2>3, <2>4
<1>10. ASSUME CanceledAfterSteps PROVE RInv'
  <2> USE <1>10 DEF CanceledAfterSteps
  <2>1. ClientTypeOK'
    BY DEF ClientTypeOK, Observed, Verdicts, StepNumbers
  <2>2. RolesInv'
    BY StoreUnchanged
  <2>3. UploadInv'
    BY DEF TypeOK, PointersInv, RolesInv, UploadInv, Stored, vars
  <2>4. EvidenceInv'
    BY DEF TypeOK, ClientTypeOK, EvidenceInv, AllObserved, Observed, Verdicts, StepNumbers, vars
  <2> QED BY <2>1, <2>2, <2>3, <2>4
<1>11. ASSUME LogFails PROVE RInv'
  <2> USE <1>11 DEF LogFails
  <2>1. ClientTypeOK'
    BY DEF ClientTypeOK, Observed, Verdicts, StepNumbers
  <2>2. RolesInv'
    BY StoreUnchanged
  <2>3. UploadInv'
    BY DEF TypeOK, PointersInv, RolesInv, UploadInv, Stored, vars
  <2>4. EvidenceInv'
    BY DEF TypeOK, ClientTypeOK, EvidenceInv, AllObserved, Observed, Verdicts, StepNumbers, vars
  <2> QED BY <2>1, <2>2, <2>3, <2>4
<1>12. ASSUME JudgeLog PROVE RInv'
  <2> USE <1>12 DEF JudgeLog
  <2>1. ClientTypeOK'
    BY DEF ClientTypeOK, Observed, Verdicts, StepNumbers, Verdict
  <2>2. RolesInv'
    BY StoreUnchanged
  <2>3. UploadInv'
    BY DEF TypeOK, PointersInv, RolesInv, UploadInv, Stored, vars
  <2>4. EvidenceInv'
    BY DEF TypeOK, ClientTypeOK, EvidenceInv, AllObserved, Observed, Verdicts, StepNumbers, vars, Verdict
  <2> QED BY <2>1, <2>2, <2>3, <2>4
<1>13. ASSUME DeleteScript PROVE RInv'
  <2> USE <1>13 DEF DeleteScript, Delete, ReplyWith
  <2>1. ClientTypeOK'
    BY DEF ClientTypeOK, Observed, Verdicts, StepNumbers
  <2>2. RolesInv'
    BY DEF TypeOK, RolesInv, NoLocal, Forwards
  <2>3. UploadInv'
    BY DEF TypeOK, PointersInv, RolesInv, UploadInv, Stored, vars
  <2>4. EvidenceInv'
    BY DEF TypeOK, ClientTypeOK, EvidenceInv, AllObserved, Observed, Verdicts, StepNumbers, vars
  <2> QED BY <2>1, <2>2, <2>3, <2>4
<1>14. ASSUME DeleteLost PROVE RInv'
  <2> USE <1>14 DEF DeleteLost
  <2>1. ClientTypeOK'
    BY DEF ClientTypeOK, Observed, Verdicts, StepNumbers
  <2>2. RolesInv'
    BY StoreUnchanged
  <2>3. UploadInv'
    BY DEF TypeOK, PointersInv, RolesInv, UploadInv, Stored, vars
  <2>4. EvidenceInv'
    BY DEF TypeOK, ClientTypeOK, EvidenceInv, AllObserved, Observed, Verdicts, StepNumbers, vars
  <2> QED BY <2>1, <2>2, <2>3, <2>4
<1> QED BY <1>1, <1>2, <1>3, <1>4, <1>5, <1>6, <1>7, <1>8, <1>9, <1>10, <1>11, <1>12, <1>13, <1>14 DEF ClientStep

LEMMA ProxyStepRInv == ASSUME TypeOK, RInv, ProxyStep PROVE RInv'
<1> USE PlanFacts, PlanAssumption DEF RInv, proxy, client
<1>1. ASSUME NEW n \in StepNumbers, NEW o \in {"good", "bad"},
             AnswersItself(n, o) \/ \E r \in Forwards : Relays(n, r, o)
      PROVE  RInv'
  <2> USE <1>1 DEF AnswersItself, Relays
  <2>1. ClientTypeOK'
    BY DEF ClientTypeOK, Observed
  <2>2. RolesInv' /\ UploadInv'
    BY StoreUnchanged DEF UploadInv, vars
  <2>3. EvidenceInv'
    <3>1. /\ obs[n] = "sent" /\ obs' = [obs EXCEPT ![n] = o]
          /\ UNCHANGED <<cpc, at, canceled, outcome, reply>>
      BY DEF vars
    <3> QED BY <3>1 DEF ClientTypeOK, EvidenceInv, AllObserved, Observed, Verdicts, StepNumbers
  <2> QED BY <2>1, <2>2, <2>3
<1>2. ASSUME NEW n \in StepNumbers, NEW r \in Forwards, NEW header, ForwardsStep(n, r, header)
      PROVE  RInv'
  <2> USE <1>2 DEF ForwardsStep, TestGet, NotFound, ReplyWith
  <2>1. ClientTypeOK'
    BY DEF ClientTypeOK
  <2>2. r \notin {PutReq, LogReq, DelReq} \cup OtherReqs
    BY DEF Forwards
  <2>3. RolesInv'
    BY <2>2 DEF TypeOK, RolesInv
  <2>4. UploadInv'
    BY <2>2 DEF TypeOK, UploadInv
  <2>5. EvidenceInv'
    BY <2>2 DEF TypeOK, EvidenceInv, AllObserved
  <2> QED BY <2>1, <2>3, <2>4, <2>5
<1> QED BY <1>1, <1>2 DEF ProxyStep

LEMMA OriginGoesOnRInv == ASSUME IInv, RInv, OriginGoesOn PROVE RInv'
<1> USE PlanFacts, PlanAssumption DEF RInv, proxy, client, IInv
<1>1. ClientTypeOK'
  BY DEF OriginGoesOn, ClientTypeOK
<1>2. ASSUME NEW r \in {PutReq} \cup OtherReqs, Put(r), UNCHANGED <<client, proxy>>
      PROVE  RolesInv' /\ UploadInv' /\ EvidenceInv'
  <2> USE <1>2 DEF Put, Kept, ReplyWith
  <2>1. loc[r].id = (IF r = PutReq THEN TestId ELSE OtherId) /\ loc[r].id \in Ids
    BY DEF RolesInv
  <2>2. tests' \in [Ids -> Requests \cup {NoEntry}] /\ tests'[TestId] \in {PutReq, NoEntry}
    BY <2>1 DEF TypeOK, RolesInv
  <2>3. r # PutReq /\ tests[TestId] = NoEntry => tests'[TestId] = NoEntry
    BY <2>1 DEF TypeOK
  <2>4. RolesInv'
    BY <2>2 DEF TypeOK, RolesInv, Forwards
  <2>5. UploadInv'
    BY <2>3 DEF TypeOK, UploadInv
  <2>6. EvidenceInv'
    BY DEF TypeOK, EvidenceInv, AllObserved
  <2> QED BY <2>4, <2>5, <2>6
<1>3. ASSUME LogSnapshot(LogReq), UNCHANGED <<client, proxy>>
      PROVE  RolesInv' /\ UploadInv' /\ EvidenceInv'
  BY <1>3 DEF LogSnapshot, ReplyWith, TypeOK, RolesInv, UploadInv, EvidenceInv, AllObserved, Forwards
<1>4. ASSUME NEW r \in Forwards, TestNextSeq(r) \/ TestRecord(r) \/ TestAnswer(r) \/ TestGone(r),
             UNCHANGED <<client, proxy>>
      PROVE  RolesInv' /\ UploadInv' /\ EvidenceInv'
  <2>1. r \notin {PutReq, LogReq, DelReq} \cup OtherReqs
    BY DEF Forwards
  <2>2. /\ UNCHANGED tests /\ pc'[r] # "putting"
        /\ \A q \in Requests : q # r => pc'[q] = pc[q] /\ loc'[q] = loc[q] /\ reply'[q] = reply[q]
    BY <1>4 DEF TypeOK, TestNextSeq, TestRecord, TestAnswer, TestGone, ReplyWith
  <2> QED BY <1>4, <2>1, <2>2 DEF RolesInv, UploadInv, EvidenceInv, AllObserved
<1>5. ASSUME NEW r \in OtherReqs, PutArrive(r, OtherId, RunScript), UNCHANGED <<client, proxy>>
      PROVE  RolesInv' /\ UploadInv' /\ EvidenceInv'
  BY <1>5 DEF PutArrive, NoLocal, TypeOK, RolesInv, UploadInv, EvidenceInv, AllObserved, Forwards
<1>6. ASSUME Tick, UNCHANGED <<client, proxy>>
      PROVE  RolesInv' /\ UploadInv' /\ EvidenceInv'
  BY <1>6 DEF Tick, RolesInv, UploadInv, EvidenceInv, AllObserved
<1> QED BY <1>1, <1>2, <1>3, <1>4, <1>5, <1>6 DEF OriginGoesOn

LEMMA NextRInv == IInv /\ RInv /\ [RunNext]_runVars => RInv'
<1> SUFFICES ASSUME IInv, RInv, [RunNext]_runVars PROVE RInv'
  OBVIOUS
<1>1. ASSUME Cancel \/ UNCHANGED runVars PROVE RInv'
  <2> USE <1>1 DEF RInv, Cancel, runVars, client, proxy
  <2>1. RolesInv' /\ UploadInv'
    BY StoreUnchanged DEF UploadInv, vars
  <2>2. ClientTypeOK' /\ EvidenceInv'
    BY DEF ClientTypeOK, EvidenceInv, AllObserved, vars
  <2> QED BY <2>1, <2>2
<1> QED BY <1>1, ClientStepRInv, ProxyStepRInv, OriginGoesOnRInv DEF RunNext, IInv

LEMMA RunInvariantHolds == RunSpec => [](IInv /\ RInv)
  BY RunImplementsStore, IInvHolds, InitRInv, NextRInv, PTL DEF RunSpec

(***************************************************************************)
(* The theorems.                                                           *)
(***************************************************************************)

\* The variables of the client, the proxy and the origin keep their types.
THEOREM RunTypeCorrect == RunSpec => []RunTypeOK
<1>1. IInv /\ RInv => RunTypeOK
  BY DEF IInv, RInv, ClientTypeOK, EvidenceInv, RunTypeOK
<1> QED BY <1>1, RunInvariantHolds, PTL

\* A verdict is given only on the log of this run's own upload, after every
\* request of the plan has ended, whatever the proxy, the origin's sweeps and
\* other clients did meanwhile.
THEOREM VerdictHasEvidence == RunSpec => []JudgedOnEvidence
<1>1. RInv => JudgedOnEvidence
  BY DEF RInv, RolesInv, EvidenceInv, AllObserved, JudgedOnEvidence
<1> QED BY <1>1, RunInvariantHolds, PTL

\* The deferred deletion is the last word on the test's id.
THEOREM DeletionIsFinal == RunSpec => []DeletedStaysDeleted
<1>1. RInv => DeletedStaysDeleted
  BY DEF RInv, UploadInv, DeletedStaysDeleted
<1> QED BY <1>1, RunInvariantHolds, PTL

\* Under a test run as under any other requests, the log that is judged is of
\* one upload, has every request that was answered, each under a number of its
\* own, and the script is not swept away before its time.
THEOREM StorePromisesHold ==
    RunSpec => /\ [](SeqsNameOneRequest /\ NoRequestLost /\ OneScriptPerLog)
               /\ AnsweredIsVisible /\ FreshScriptSurvives
  BY RunImplementsStore, UniqueSeqs, CompleteLog, UnmixedLog, VisibleAnswers, FreshSurvive, PTL

\* What a run canceled before it asked for its log can still become.
Doomed ==
    /\ canceled
    /\ cpc \in {"start", "uploading", "steps", "cleanup", "done"}
    /\ cpc \in {"cleanup", "done"} => outcome = "error"

LEMMA DoomedForGood == RInv /\ Doomed /\ [RunNext]_runVars => Doomed'
  BY DEF RInv, Doomed, RunNext, ClientStep, ProxyStep, OriginGoesOn, Cancel, Upload, UploadAcked,
         UploadFails, Pause, PauseCanceled, SendGroup, GroupEnds, StepFails, AskLog,
         CanceledAfterSteps, LogFails, JudgeLog, DeleteScript, DeleteLost, AnswersItself,
         Relays, ForwardsStep, runVars, client

\* A run whose context ends before the log is asked for never gets a verdict.
THEOREM CancelingIsNoVerdict == RunSpec => CanceledIsError
<1>1. IInv /\ RInv /\ canceled /\ cpc \in {"start", "uploading", "steps"} => Doomed
  BY DEF Doomed
<1>2. IInv /\ RInv /\ Doomed => outcome \notin Verdicts
  BY DEF RInv, EvidenceInv, Doomed, Verdicts
<1> QED BY <1>1, <1>2, DoomedForGood, RunInvariantHolds, PTL DEF RunSpec, CanceledIsError

=============================================================================
