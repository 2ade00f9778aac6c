-------------------------- MODULE SchedulerProofs --------------------------
(***************************************************************************)
(* Proofs about Scheduler, for every set of tests with acyclic             *)
(* requirements, every set of protocols and every number of slots.         *)
(***************************************************************************)
EXTENDS Scheduler, FiniteSetTheorems, WellFoundedInduction, TLAPS

\* Prerequisite i of job j was selected, has finished, and passed.
DepPassed(j, i) == Finished(DepKey(j, i)) /\ result[DepKey(j, i)] = "pass"

\* A job has passed prerequisites behind it, and all of them once it started.
DepsInv ==
    \A j \in Jobs :
        /\ \A i \in 1..(dep[j] - 1) : DepPassed(j, i)
        /\ Started(j) \/ ret[j] \in Verdicts \cup {"error"} =>
               dep[j] = Needs(j) + 1 /\ j[2] \in RunsOver[j[1]]
        /\ pc[j] = "await" => j[2] \in RunsOver[j[1]]

\* The outcome of a job moves from ret to result, and is read only then.
ResultInv ==
    \A j \in Jobs :
        /\ ret[j] \in Outcomes <=> pc[j] \in {"release", "return", "close", "done"}
        /\ pc[j] \in {"close", "done"} => result[j] = ret[j]
        /\ pc[j] \notin {"close", "done"} => result[j] = "none"
        /\ pc[j] = "release" => ret[j] # "skipped"

\* The prerequisite that a skipped job was skipped for.
SkipInv ==
    \A j \in Jobs : ret[j] = "skipped" =>
        \/ j[2] \notin RunsOver[j[1]]
        \/ /\ dep[j] \in 1..Needs(j)
           /\ \/ DepKey(j, dep[j]) \notin Jobs
              \/ Finished(DepKey(j, dep[j])) /\ result[DepKey(j, dep[j])] # "pass"

SlotInv == SlotsAreExercised /\ IsFiniteSet(sem)

\* Run reports what the finished jobs returned.
ReportInv ==
    phase = "reported" => report = result /\ \A j \in Jobs : pc[j] = "done"

IInv == TypeOK /\ DepsInv /\ ResultInv /\ SkipInv /\ SlotInv /\ ReportInv

(***************************************************************************)

LEMMA NeedsType == \A j \in Jobs : Needs(j) \in Nat
  BY SchedulerAssumption DEF Jobs, Needs

LEMMA InitIInv == Init => IInv
<1> SUFFICES ASSUME Init PROVE IInv
  OBVIOUS
<1>1. TypeOK
  <2>1. \A j \in Jobs : 1 \in 1..(Needs(j) + 1)
    BY NeedsType
  <2> QED BY <2>1 DEF Init, TypeOK, PC
<1>2. DepsInv /\ ResultInv /\ SkipInv /\ ReportInv
  BY DEF Init, DepsInv, ResultInv, SkipInv, ReportInv, Started, Outcomes, Verdicts
<1>3. SlotInv
  BY FS_EmptySet, SchedulerAssumption DEF Init, SlotInv, SlotsAreExercised, Started
<1> QED BY <1>1, <1>2, <1>3 DEF IInv

LEMMA DoneIsFinal ==
    ASSUME TypeOK, NEW j \in Jobs, JobStep(j)
    PROVE  \A k \in Jobs : /\ pc[k] = "done" => pc'[k] = "done" /\ result'[k] = result[k]
                           /\ k # j => /\ pc'[k] = pc[k] /\ dep'[k] = dep[k]
                                       /\ ret'[k] = ret[k] /\ result'[k] = result[k]
  BY DEF JobStep, TypeOK, Begin, AwaitMissing, AwaitDone, Acquire, CanceledBeforeStart,
         Upload, UploadFails, Exercise, Release, Assign, Close, Waiting, Ready, Return, Goto

LEMMA NextIInv == IInv /\ [Next]_vars => IInv'
<1> SUFFICES ASSUME IInv, [Next]_vars PROVE IInv'
  OBVIOUS
<1> USE NeedsType DEF IInv
<1>1. ASSUME NEW j \in Jobs, Begin(j) PROVE IInv'
  <2> USE <1>1 DEF Begin, Return, Goto
  <2>0. \A k \in Jobs : /\ pc[k] = "done" => pc'[k] = "done" /\ result'[k] = result[k]
                        /\ k # j => /\ pc'[k] = pc[k] /\ dep'[k] = dep[k]
                                    /\ ret'[k] = ret[k] /\ result'[k] = result[k]
    BY DoneIsFinal DEF JobStep
  <2>1. TypeOK'
    BY <2>0 DEF TypeOK, PC, Outcomes, Verdicts, ResultInv
  <2>2. DepsInv'
    BY <2>0 DEF TypeOK, DepsInv, DepPassed, Finished, Started, Verdicts, ResultInv
  <2>3. ResultInv'
    BY <2>0 DEF TypeOK, ResultInv, Outcomes, Verdicts
  <2>4. SkipInv'
    BY <2>0 DEF TypeOK, SkipInv, Finished, ResultInv
  <2>5. SlotInv'
    <3>1. sem' = sem /\ \A k \in Jobs : Started(k)' <=> Started(k)
      BY <2>0 DEF TypeOK, Started
    <3> QED BY <3>1 DEF SlotInv, SlotsAreExercised
  <2>6. ReportInv'
    BY DEF ReportInv, TypeOK
  <2> QED BY <2>1, <2>2, <2>3, <2>4, <2>5, <2>6
<1>2. ASSUME NEW j \in Jobs, AwaitMissing(j) PROVE IInv'
  <2> USE <1>2 DEF AwaitMissing, Waiting, Return, Goto
  <2>0. \A k \in Jobs : /\ pc[k] = "done" => pc'[k] = "done" /\ result'[k] = result[k]
                        /\ k # j => /\ pc'[k] = pc[k] /\ dep'[k] = dep[k]
                                    /\ ret'[k] = ret[k] /\ result'[k] = result[k]
    BY DoneIsFinal DEF JobStep
  <2>1. TypeOK'
    BY <2>0 DEF TypeOK, PC, Outcomes, Verdicts, ResultInv
  <2>2. DepsInv'
    BY <2>0 DEF TypeOK, DepsInv, DepPassed, Finished, Started, Verdicts, ResultInv
  <2>3. ResultInv'
    BY <2>0 DEF TypeOK, ResultInv, Outcomes, Verdicts
  <2>4. SkipInv'
    BY <2>0 DEF TypeOK, SkipInv, Finished, ResultInv
  <2>5. SlotInv'
    BY <2>0 DEF TypeOK, SlotInv, SlotsAreExercised, Started
  <2>6. ReportInv'
    BY DEF ReportInv, TypeOK
  <2> QED BY <2>1, <2>2, <2>3, <2>4, <2>5, <2>6
<1>3. ASSUME NEW j \in Jobs, AwaitDone(j) PROVE IInv'
  <2> USE <1>3 DEF AwaitDone, Waiting, Return, Goto
  <2>0. \A k \in Jobs : /\ pc[k] = "done" => pc'[k] = "done" /\ result'[k] = result[k]
                        /\ k # j => /\ pc'[k] = pc[k] /\ dep'[k] = dep[k]
                                    /\ ret'[k] = ret[k] /\ result'[k] = result[k]
    BY DoneIsFinal DEF JobStep
  <2>1. TypeOK'
    BY <2>0 DEF TypeOK, PC, Outcomes, Verdicts, ResultInv
  <2>2. DepsInv'
    BY <2>0 DEF TypeOK, DepsInv, DepPassed, Finished, Started, Verdicts, ResultInv
  <2>3. ResultInv'
    BY <2>0 DEF TypeOK, ResultInv, Outcomes, Verdicts
  <2>4. SkipInv'
    BY <2>0 DEF TypeOK, SkipInv, Finished, ResultInv
  <2>5. SlotInv'
    BY <2>0 DEF TypeOK, SlotInv, SlotsAreExercised, Started
  <2>6. ReportInv'
    BY DEF ReportInv, TypeOK
  <2> QED BY <2>1, <2>2, <2>3, <2>4, <2>5, <2>6
<1>4. ASSUME NEW j \in Jobs, Acquire(j) PROVE IInv'
  <2> USE <1>4 DEF Acquire, Ready, Goto
  <2>0. \A k \in Jobs : /\ pc[k] = "done" => pc'[k] = "done" /\ result'[k] = result[k]
                        /\ k # j => /\ pc'[k] = pc[k] /\ dep'[k] = dep[k]
                                    /\ ret'[k] = ret[k] /\ result'[k] = result[k]
    BY DoneIsFinal DEF JobStep
  <2>1. TypeOK'
    BY <2>0 DEF TypeOK, PC, Outcomes, Verdicts, ResultInv
  <2>2. DepsInv'
    BY <2>0 DEF TypeOK, DepsInv, DepPassed, Finished, Started, Verdicts, ResultInv
  <2>3. ResultInv'
    BY <2>0 DEF TypeOK, ResultInv, Outcomes, Verdicts
  <2>4. SkipInv'
    BY <2>0 DEF TypeOK, SkipInv, Finished, ResultInv
  <2>5. SlotInv'
    <3>1. \A k \in Jobs : Started(k)' <=> Started(k) \/ k = j
      BY <2>0 DEF TypeOK, Started
    <3>2. sem' = {k \in Jobs : Started(k)'}
      BY <3>1 DEF SlotInv, SlotsAreExercised
    <3>3. IsFiniteSet(sem) /\ Cardinality(sem) \in Nat
      BY FS_CardinalityType DEF SlotInv
    <3>4. IsFiniteSet(sem \cup {j}) /\ Cardinality(sem \cup {j}) \in {Cardinality(sem), Cardinality(sem) + 1}
      BY ONLY <3>3, FS_AddElement
    <3>5. IsFiniteSet(sem') /\ Cardinality(sem') <= Cardinality(sem) + 1 /\ Cardinality(sem) \in Nat
      BY <3>3, <3>4
    <3>6. Cardinality(sem') \in Nat
      BY <3>5, FS_CardinalityType
    <3>7. Cardinality(sem') <= Concurrency
      BY <3>5, <3>6, SchedulerAssumption
    <3> QED BY <3>2, <3>5, <3>7 DEF SlotInv, SlotsAreExercised
  <2>6. ReportInv'
    BY DEF ReportInv, TypeOK
  <2> QED BY <2>1, <2>2, <2>3, <2>4, <2>5, <2>6
<1>5. ASSUME NEW j \in Jobs, CanceledBeforeStart(j) PROVE IInv'
  <2> USE <1>5 DEF CanceledBeforeStart, Ready, Return, Goto
  <2>0. \A k \in Jobs : /\ pc[k] = "done" => pc'[k] = "done" /\ result'[k] = result[k]
                        /\ k # j => /\ pc'[k] = pc[k] /\ dep'[k] = dep[k]
                                    /\ ret'[k] = ret[k] /\ result'[k] = result[k]
    BY DoneIsFinal DEF JobStep
  <2>1. TypeOK'
    BY <2>0 DEF TypeOK, PC, Outcomes, Verdicts, ResultInv
  <2>2. DepsInv'
    BY <2>0 DEF TypeOK, DepsInv, DepPassed, Finished, Started, Verdicts, ResultInv
  <2>3. ResultInv'
    BY <2>0 DEF TypeOK, ResultInv, Outcomes, Verdicts
  <2>4. SkipInv'
    BY <2>0 DEF TypeOK, SkipInv, Finished, ResultInv
  <2>5. SlotInv'
    BY <2>0 DEF TypeOK, SlotInv, SlotsAreExercised, Started
  <2>6. ReportInv'
    BY DEF ReportInv, TypeOK
  <2> QED BY <2>1, <2>2, <2>3, <2>4, <2>5, <2>6
<1>6. ASSUME NEW j \in Jobs, Upload(j) PROVE IInv'
  <2> USE <1>6 DEF Upload, Goto
  <2>0. \A k \in Jobs : /\ pc[k] = "done" => pc'[k] = "done" /\ result'[k] = result[k]
                        /\ k # j => /\ pc'[k] = pc[k] /\ dep'[k] = dep[k]
                                    /\ ret'[k] = ret[k] /\ result'[k] = result[k]
    BY DoneIsFinal DEF JobStep
  <2>1. TypeOK'
    BY <2>0 DEF TypeOK, PC, Outcomes, Verdicts, ResultInv
  <2>2. DepsInv'
    BY <2>0 DEF TypeOK, DepsInv, DepPassed, Finished, Started, Verdicts, ResultInv
  <2>3. ResultInv'
    BY <2>0 DEF TypeOK, ResultInv, Outcomes, Verdicts
  <2>4. SkipInv'
    BY <2>0 DEF TypeOK, SkipInv, Finished, ResultInv
  <2>5. SlotInv'
    BY <2>0 DEF TypeOK, SlotInv, SlotsAreExercised, Started
  <2>6. ReportInv'
    BY DEF ReportInv, TypeOK
  <2> QED BY <2>1, <2>2, <2>3, <2>4, <2>5, <2>6
<1>7. ASSUME NEW j \in Jobs, UploadFails(j) PROVE IInv'
  <2> USE <1>7 DEF UploadFails, Goto
  <2>0. \A k \in Jobs : /\ pc[k] = "done" => pc'[k] = "done" /\ result'[k] = result[k]
                        /\ k # j => /\ pc'[k] = pc[k] /\ dep'[k] = dep[k]
                                    /\ ret'[k] = ret[k] /\ result'[k] = result[k]
    BY DoneIsFinal DEF JobStep
  <2>1. TypeOK'
    BY <2>0 DEF TypeOK, PC, Outcomes, Verdicts, ResultInv
  <2>2. DepsInv'
    BY <2>0 DEF TypeOK, DepsInv, DepPassed, Finished, Started, Verdicts, ResultInv
  <2>3. ResultInv'
    BY <2>0 DEF TypeOK, ResultInv, Outcomes, Verdicts
  <2>4. SkipInv'
    BY <2>0 DEF TypeOK, SkipInv, Finished, ResultInv
  <2>5. SlotInv'
    BY <2>0 DEF TypeOK, SlotInv, SlotsAreExercised, Started
  <2>6. ReportInv'
    BY DEF ReportInv, TypeOK
  <2> QED BY <2>1, <2>2, <2>3, <2>4, <2>5, <2>6
<1>8. ASSUME NEW j \in Jobs, Exercise(j) PROVE IInv'
  <2> USE <1>8 DEF Exercise, Goto
  <2>0. \A k \in Jobs : /\ pc[k] = "done" => pc'[k] = "done" /\ result'[k] = result[k]
                        /\ k # j => /\ pc'[k] = pc[k] /\ dep'[k] = dep[k]
                                    /\ ret'[k] = ret[k] /\ result'[k] = result[k]
    BY DoneIsFinal DEF JobStep
  <2>1. TypeOK'
    BY <2>0 DEF TypeOK, PC, Outcomes, Verdicts, ResultInv
  <2>2. DepsInv'
    BY <2>0 DEF TypeOK, DepsInv, DepPassed, Finished, Started, Verdicts, ResultInv
  <2>3. ResultInv'
    BY <2>0 DEF TypeOK, ResultInv, Outcomes, Verdicts
  <2>4. SkipInv'
    BY <2>0 DEF TypeOK, SkipInv, Finished, ResultInv, Verdicts
  <2>5. SlotInv'
    BY <2>0 DEF TypeOK, SlotInv, SlotsAreExercised, Started
  <2>6. ReportInv'
    BY DEF ReportInv, TypeOK
  <2> QED BY <2>1, <2>2, <2>3, <2>4, <2>5, <2>6
<1>9. ASSUME NEW j \in Jobs, Release(j) PROVE IInv'
  <2> USE <1>9 DEF Release, Goto
  <2>0. \A k \in Jobs : /\ pc[k] = "done" => pc'[k] = "done" /\ result'[k] = result[k]
                        /\ k # j => /\ pc'[k] = pc[k] /\ dep'[k] = dep[k]
                                    /\ ret'[k] = ret[k] /\ result'[k] = result[k]
    BY DoneIsFinal DEF JobStep
  <2>1. TypeOK'
    BY <2>0 DEF TypeOK, PC, Outcomes, Verdicts, ResultInv
  <2>2. DepsInv'
    BY <2>0 DEF TypeOK, DepsInv, DepPassed, Finished, Started, Verdicts, ResultInv
  <2>3. ResultInv'
    BY <2>0 DEF TypeOK, ResultInv, Outcomes, Verdicts
  <2>4. SkipInv'
    BY <2>0 DEF TypeOK, SkipInv, Finished, ResultInv
  <2>5. SlotInv'
    <3>1. \A k \in Jobs : Started(k)' <=> Started(k) /\ k # j
      BY <2>0 DEF TypeOK, Started
    <3>2. sem' = {k \in Jobs : Started(k)'}
      BY <3>1 DEF SlotInv, SlotsAreExercised
    <3>3. IsFiniteSet(sem) /\ Cardinality(sem) \in Nat
      BY FS_CardinalityType DEF SlotInv
    <3>4. IsFiniteSet(sem \ {j}) /\ Cardinality(sem \ {j}) \in {Cardinality(sem), Cardinality(sem) - 1}
      BY ONLY <3>3, FS_RemoveElement
    <3>5. IsFiniteSet(sem') /\ Cardinality(sem') <= Cardinality(sem) /\ Cardinality(sem) \in Nat
      BY <3>3, <3>4
    <3>6. Cardinality(sem') \in Nat
      BY <3>5, FS_CardinalityType
    <3>7. Cardinality(sem') <= Concurrency
      BY <3>5, <3>6, SchedulerAssumption DEF SlotInv, SlotsAreExercised
    <3> QED BY <3>2, <3>5, <3>7 DEF SlotInv, SlotsAreExercised
  <2>6. ReportInv'
    BY DEF ReportInv, TypeOK
  <2> QED BY <2>1, <2>2, <2>3, <2>4, <2>5, <2>6
<1>10. ASSUME NEW j \in Jobs, Assign(j) PROVE IInv'
  <2> USE <1>10 DEF Assign, Goto
  <2>0. \A k \in Jobs : /\ pc[k] = "done" => pc'[k] = "done" /\ result'[k] = result[k]
                        /\ k # j => /\ pc'[k] = pc[k] /\ dep'[k] = dep[k]
                                    /\ ret'[k] = ret[k] /\ result'[k] = result[k]
    BY DoneIsFinal DEF JobStep
  <2>1. TypeOK'
    BY <2>0 DEF TypeOK, PC, Outcomes, Verdicts, ResultInv
  <2>2. DepsInv'
    BY <2>0 DEF TypeOK, DepsInv, DepPassed, Finished, Started, Verdicts, ResultInv
  <2>3. ResultInv'
    BY <2>0 DEF TypeOK, ResultInv, Outcomes, Verdicts
  <2>4. SkipInv'
    BY <2>0 DEF TypeOK, SkipInv, Finished, ResultInv
  <2>5. SlotInv'
    BY <2>0 DEF TypeOK, SlotInv, SlotsAreExercised, Started
  <2>6. ReportInv'
    BY DEF ReportInv, TypeOK
  <2> QED BY <2>1, <2>2, <2>3, <2>4, <2>5, <2>6
<1>11. ASSUME NEW j \in Jobs, Close(j) PROVE IInv'
  <2> USE <1>11 DEF Close, Goto
  <2>0. \A k \in Jobs : /\ pc[k] = "done" => pc'[k] = "done" /\ result'[k] = result[k]
                        /\ k # j => /\ pc'[k] = pc[k] /\ dep'[k] = dep[k]
                                    /\ ret'[k] = ret[k] /\ result'[k] = result[k]
    BY DoneIsFinal DEF JobStep
  <2>1. TypeOK'
    BY <2>0 DEF TypeOK, PC, Outcomes, Verdicts, ResultInv
  <2>2. DepsInv'
    BY <2>0 DEF TypeOK, DepsInv, DepPassed, Finished, Started, Verdicts, ResultInv
  <2>3. ResultInv'
    BY <2>0 DEF TypeOK, ResultInv, Outcomes, Verdicts
  <2>4. SkipInv'
    BY <2>0 DEF TypeOK, SkipInv, Finished, ResultInv
  <2>5. SlotInv'
    BY <2>0 DEF TypeOK, SlotInv, SlotsAreExercised, Started
  <2>6. ReportInv'
    BY DEF ReportInv, TypeOK
  <2> QED BY <2>1, <2>2, <2>3, <2>4, <2>5, <2>6
<1>12. CASE Handshake \/ HandshakeFails \/ Cancel
  <2>1. UNCHANGED <<pc, dep, sem, ret, result, report>> /\ phase' \in {phase, "running", "failed"}
    BY <1>12 DEF Handshake, HandshakeFails, Cancel
  <2>2. canceled' \in BOOLEAN
    BY <1>12 DEF Handshake, HandshakeFails, Cancel, TypeOK
  <2>3. phase' \in {"handshake", "running", "reported", "failed"}
    BY <2>1 DEF TypeOK
  <2>4. TypeOK'
    BY <2>1, <2>2, <2>3 DEF TypeOK
  <2> QED BY <2>1, <2>4 DEF DepsInv, DepPassed, Finished, Started,
     ResultInv, SkipInv, SlotInv, SlotsAreExercised, ReportInv
<1>13. CASE Report
  BY <1>13 DEF Report, TypeOK, DepsInv, DepPassed, Finished, Started,
     ResultInv, SkipInv, SlotInv, SlotsAreExercised, ReportInv
<1>14. CASE UNCHANGED vars
  BY <1>14 DEF vars, TypeOK, DepsInv, DepPassed, Finished, Started,
     ResultInv, SkipInv, SlotInv, SlotsAreExercised, ReportInv
<1> QED
  BY <1>1, <1>2, <1>3, <1>4, <1>5, <1>6, <1>7, <1>8, <1>9, <1>10, <1>11, <1>12, <1>13, <1>14
  DEF Next, JobStep, Returned

LEMMA IInvHolds == Spec => []IInv
  BY InitIInv, NextIInv, PTL DEF Spec

\* Type correctness: no job finishes without an outcome.
THEOREM TypeCorrect == Spec => []TypeOK
<1>1. IInv => TypeOK
  BY DEF IInv
<1> QED BY IInvHolds, <1>1, PTL

\* A test is exercised only after all it requires has passed.
THEOREM RequiredFirst == Spec => []RanAfterRequired
<1>1. ASSUME IInv PROVE RanAfterRequired
  <2> SUFFICES ASSUME NEW j \in Jobs, Started(j) \/ ret[j] \in Verdicts,
                      NEW i \in 1..Needs(j)
               PROVE  DepPassed(j, i)
    BY DEF RanAfterRequired, DepPassed
  <2>1. dep[j] = Needs(j) + 1
    BY <1>1 DEF IInv, DepsInv
  <2>2. i \in 1..(dep[j] - 1)
    BY <2>1, NeedsType
  <2> QED BY <1>1, <2>2 DEF IInv, DepsInv
<1> QED BY IInvHolds, <1>1, PTL

\* A test is skipped only for one of schedule's reasons.
THEOREM ReasonedSkips == Spec => []SkippedForReason
<1>1. ASSUME IInv PROVE SkippedForReason
  BY <1>1 DEF IInv, SkippedForReason, SkipInv, ResultInv
<1> QED BY IInvHolds, <1>1, PTL

\* Slots are accounted for on every path through schedule.
THEOREM Slots == Spec => []SlotsAreExercised
<1>1. IInv => SlotsAreExercised
  BY DEF IInv, SlotInv
<1> QED BY IInvHolds, <1>1, PTL

\* The report is complete.
THEOREM CompleteReport == Spec => []ReportComplete
<1>1. ASSUME IInv PROVE ReportComplete
  BY <1>1 DEF IInv, ReportComplete, ReportInv, ResultInv, TypeOK
<1> QED BY IInvHolds, <1>1, PTL

(***************************************************************************)
(* Deadlock freedom: an unfinished job of least rank waits for no other    *)
(* unfinished job, so it can step, or every slot is taken by a job that    *)
(* can.                                                                    *)
(***************************************************************************)

LEMMA LeastRank ==
    ASSUME NEW U \in SUBSET Jobs, U # {}
    PROVE  \E j \in U : \A k \in U : ~(Rank[k[1]] < Rank[j[1]])
<1> DEFINE T == {Rank[j[1]] : j \in U}
<1>1. T \subseteq Nat /\ T # {}
  BY SchedulerAssumption DEF Jobs
<1>2. \E m \in T : \A n \in T : <<n, m>> \notin OpToRel(<, Nat)
  BY <1>1, NatLessThanWellFounded, WFMin
<1>3. \E m \in T : \A n \in T : ~(n < m)
  BY <1>1, <1>2 DEF OpToRel
<1> QED BY <1>3

\* The jobs never all wait for each other or for slots.
THEOREM DeadlockFree == Spec => []NeverStuck
<1>1. ASSUME IInv, phase = "running", \E j \in Jobs : pc[j] # "done"
      PROVE  \E j \in Jobs : CanStep(j)
  <2> DEFINE U == {j \in Jobs : pc[j] # "done"}
  <2>1. PICK j \in U : \A k \in U : ~(Rank[k[1]] < Rank[j[1]])
    BY <1>1, LeastRank
  <2>2. CASE pc[j] # "await"
    BY <1>1, <2>1, <2>2 DEF CanStep, IInv, TypeOK, PC
  <2>3. CASE Waiting(j)
    <3>1. dep[j] \in 1..Needs(j)
      BY <1>1, <2>1, <2>3, NeedsType DEF Waiting, IInv, TypeOK
    <3>2. DepKey(j, dep[j]) \in Jobs => Rank[DepKey(j, dep[j])[1]] < Rank[j[1]]
      BY <2>1, <3>1, SchedulerAssumption DEF Jobs, DepKey, Needs
    <3>3. DepKey(j, dep[j]) \in Jobs => pc[DepKey(j, dep[j])] = "done"
      BY <2>1, <3>2
    <3> QED BY <2>1, <2>3, <3>3 DEF CanStep
  <2>4. CASE Ready(j) /\ Cardinality(sem) < Concurrency
    BY <2>1, <2>4 DEF CanStep
  <2>5. CASE ~(Cardinality(sem) < Concurrency)
    <3>1. sem # {}
      <4>1. Cardinality({}) = 0 /\ 0 < Concurrency
        BY FS_EmptySet, SchedulerAssumption
      <4> QED BY <2>5, <4>1
    <3>2. \E k \in Jobs : Started(k)
      BY <1>1, <3>1 DEF IInv, SlotInv, SlotsAreExercised
    <3> QED BY <3>2 DEF Started, CanStep
  <2>6. Waiting(j) \/ Ready(j) \/ pc[j] # "await"
    BY <1>1, <2>1, NeedsType DEF Waiting, Ready, IInv, TypeOK
  <2> QED BY <2>2, <2>3, <2>4, <2>5, <2>6
<1>2. IInv => NeverStuck
  BY <1>1 DEF NeverStuck
<1> QED BY IInvHolds, <1>2, PTL

(***************************************************************************)
(* Refinement: the scheduler implements module TestOutcomes.               *)
(***************************************************************************)

\* However goroutines, slots and cancellation interleave, the outcomes come
\* about as TestOutcomes allows.
THEOREM Refinement == Spec => KeepsPromise
<1> DEFINE out == [j \in Jobs |-> IF pc[j] = "done" THEN result[j] ELSE "pending"]
<1>1. Init => Promise!Init
  BY DEF Init, Promise!Init, Promise!Jobs, Jobs
<1>2. ASSUME IInv, [Next]_vars PROVE [Promise!Next]_out
  <2>1. ASSUME NEW j \in Jobs, Close(j) PROVE Promise!Next
    <3> DEFINE o == result[j]
    <3>1. pc[j] = "close" /\ result[j] = ret[j] /\ ret[j] \in Outcomes
      BY <1>2, <2>1 DEF Close, IInv, ResultInv
    <3>2. out[j] = "pending" /\ out' = [out EXCEPT ![j] = o]
      BY <1>2, <2>1, <3>1 DEF Close, Goto, IInv, TypeOK
    <3>3. \A k : k \in Jobs /\ pc[k] = "done" /\ result[k] = "pass" => Promise!Passed(k)
      BY DEF Promise!Passed, Promise!Jobs, Jobs
    <3>4. \A i \in 1..(dep[j] - 1) : Promise!Passed(DepKey(j, i))
      BY <1>2, <3>3 DEF IInv, DepsInv, DepPassed, Finished
    <3>5. CASE o = "skipped"
      <4>1. CASE j[2] \notin RunsOver[j[1]]
        BY <3>2, <3>5, <4>1 DEF Promise!Next, Promise!Skip, Promise!Jobs, Jobs
      <4>2. CASE j[2] \in RunsOver[j[1]]
        <5>1. /\ dep[j] \in 1..Needs(j)
              /\ \/ DepKey(j, dep[j]) \notin Jobs
                 \/ Finished(DepKey(j, dep[j])) /\ result[DepKey(j, dep[j])] # "pass"
          BY <1>2, <3>1, <3>5, <4>2 DEF IInv, SkipInv
        <5>2. Promise!RuledOut(j, dep[j])
          BY <1>2, <5>1 DEF Promise!RuledOut, Promise!DepKey, Promise!Jobs, Promise!Outcomes,
             Promise!Judged, DepKey, Jobs, Finished, IInv, TypeOK, Outcomes, Verdicts
        <5> QED BY <3>2, <3>4, <3>5, <5>1, <5>2
            DEF Promise!Next, Promise!Skip, Promise!Jobs, Jobs, Promise!Needs, Needs,
                Promise!DepKey, DepKey
      <4> QED BY <4>1, <4>2
    <3>6. CASE o # "skipped"
      <4>1. o \in Promise!Judged /\ dep[j] = Needs(j) + 1 /\ j[2] \in RunsOver[j[1]]
        BY <1>2, <3>1, <3>6 DEF Promise!Judged, Outcomes, Verdicts, IInv, DepsInv
      <4>2. \A i \in 1..Needs(j) : Promise!Passed(DepKey(j, i))
        BY <3>4, <4>1, NeedsType
      <4> QED BY <3>2, <4>1, <4>2 DEF Promise!Next, Promise!Judge, Promise!Jobs, Jobs,
          Promise!Needs, Needs, Promise!DepKey, DepKey
    <3> QED BY <3>5, <3>6
  <2>2. ASSUME NEW j \in Jobs, JobStep(j), ~Close(j) PROVE out' = out
    BY <1>2, <2>2 DEF JobStep, IInv, TypeOK, Begin, AwaitMissing, AwaitDone, Acquire,
       CanceledBeforeStart, Upload, UploadFails, Exercise, Release, Assign, Waiting, Ready,
       Return, Goto
  <2>3. CASE Handshake \/ HandshakeFails \/ Cancel \/ Report \/ UNCHANGED vars
    BY <2>3 DEF Handshake, HandshakeFails, Cancel, Report, vars
  <2> QED BY <1>2, <2>1, <2>2, <2>3 DEF Next, Returned
<1> QED BY IInvHolds, <1>1, <1>2, PTL DEF Spec, KeepsPromise, Promise!Spec

=============================================================================
