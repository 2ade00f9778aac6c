--------------------------- MODULE CatalogProofs ---------------------------
(***************************************************************************)
(* Proofs about Catalog, for every set of configuration files, every       *)
(* number of slots and every number of ports.                              *)
(***************************************************************************)
EXTENDS Catalog, FiniteSetTheorems, TLAPS

(***************************************************************************)
(* The inductive invariant.                                                *)
(***************************************************************************)

\* Between Listen and the deferred call that closes the origin.
Listening == {"vars", "dir", "launch", "launching", "await", "exercise", "stop", "close"}

\* Between Start and Instance.Stop.
Launched == {"await", "exercise", "stop"}

\* The error or the results of the target are known.
Settled == {"stop", "close", "release", "done"}

\* Only what was accepted is run, and nobody acts before it is.
LoadInv ==
    /\ Targets \subseteq Names
    /\ phase \in {"running", "reported"} => Validate(config)
    /\ phase = "loading" =>
           \A t \in Names : pc[t] = "new" /\ origin[t] = NoPort /\ proxy[t] = "none" /\ left[t] = "none"
    /\ phase = "reported" => \A t \in Targets : pc[t] = "done"

\* A slot is held from Acquire to Release.
SlotInv ==
    /\ IsFiniteSet(sem) /\ Cardinality(sem) <= Slots
    /\ \A t \in Targets : t \in sem <=> pc[t] \notin {"new", "done"}

\* Each resource of a target is there between two places of its goroutine.
ResourceInv ==
    \A t \in Targets :
        /\ origin[t] # NoPort => pc[t] \in Listening
        /\ pc[t] \in Listening /\ ~canceled => origin[t] # NoPort
        /\ t \in dir => pc[t] \in {"launch", "launching"} \cup Launched
        /\ Alive(t) /\ left[t] = "none" => pc[t] \in Launched
        /\ left[t] # "none" => pc[t] \in Settled

\* Every target settles for an error or for results, once.
OutcomeInv ==
    \A t \in Targets :
        IF pc[t] \in Settled THEN t \in err <=> t \notin ran ELSE t \notin err /\ t \notin ran

IInv == TypeOK /\ LoadInv /\ SlotInv /\ ResourceInv /\ OutcomeInv

----------------------------------------------------------------------------
(***************************************************************************)
(* What Validate and the assumptions say of a target that is run.          *)
(***************************************************************************)

LEMMA SlotsType == file \in DOMAIN Catalogs => Slots \in Nat \ {0}
  BY CatalogAssumption DEF Slots, config, TargetConcurrency, DefaultTargetConcurrency

\* Nothing of a run changes with the steps of its goroutines.
LEMMA SameRun ==
    ASSUME UNCHANGED <<file, phase>>
    PROVE  /\ Targets' = Targets /\ Slots' = Slots
           /\ Validate(config)' = Validate(config)
  BY DEF Targets, Slots, config

\* A target that is run is one that its file lists.
LEMMA TargetIsListed ==
    ASSUME TypeOK, NEW t \in Targets
    PROVE  \E i \in DOMAIN config.targets : Target(t) = config.targets[i] /\ Target(t) # Nil
<1> DEFINE given == {g \in ToSet(config.targets) : g # Nil}
<1>1. t \in {g.name : g \in given} /\ Target(t) = CHOOSE g \in given : g.name = t
  BY DEF TypeOK, Targets, Target, ByName, config
<1>2. PICK g \in given : g.name = t
  BY <1>1
<1>3. Target(t) \in given
  BY <1>1, <1>2
<1> QED BY <1>3 DEF ToSet

LEMMA TargetIsValid ==
    ASSUME TypeOK, LoadInv, NEW t \in Targets
    PROVE  ValidTarget(Target(t))
<1>1. Validate(config)
  BY DEF LoadInv, Targets
<1> QED BY <1>1, TargetIsListed DEF Validate

\* A valid target has one section, so that the one that is used was checked.
LEMMA SectionIsValid ==
    ASSUME NEW g, ValidTarget(g)
    PROVE  /\ g.proxy # Nil => ValidProxy(g.proxy)
           /\ g.docker # Nil => ValidDocker(g.docker)
           /\ KindOf(g) = "process" => ValidProcess(g.process)
<1> DEFINE given == {s \in {"proxy", "docker", "process"} : g[s] # Nil}
<1>1. Cardinality(given) = 1 /\ IsFiniteSet(given)
  <2>1. IsFiniteSet({"proxy", "docker", "process"})
    <3>1. IsFiniteSet({"docker"})
      BY FS_Singleton
    <3>2. IsFiniteSet({"docker"} \cup {"process"})
      BY <3>1, FS_AddElement
    <3>3. IsFiniteSet(({"docker"} \cup {"process"}) \cup {"proxy"})
      BY <3>2, FS_AddElement
    <3>4. {"proxy", "docker", "process"} = ({"docker"} \cup {"process"}) \cup {"proxy"}
      OBVIOUS
    <3> QED BY <3>3, <3>4
  <2> QED BY <2>1, FS_Subset DEF ValidTarget
<1>2. PICK k : given = {k}
  BY <1>1, FS_Singleton
<1>3. ~(g.proxy # Nil /\ g.docker # Nil) /\ ~(g.proxy # Nil /\ g.process # Nil)
  BY <1>2
<1> QED BY <1>3 DEF ValidTarget, ValidKind, KindOf

\* The ports that a configuration names are ports of the machine, and every
\* proxy that is started can be stopped.
LEMMA TargetFacts ==
    ASSUME TypeOK, LoadInv, NEW t \in Targets
    PROVE  /\ OriginPorts(t) \subseteq Ports
           /\ OnNetwork(t) => Port(Target(t).docker) \in Ports
           /\ Stops(t)
<1>1. /\ Target(t).proxy # Nil => ValidProxy(Target(t).proxy)
      /\ Target(t).docker # Nil => ValidDocker(Target(t).docker)
      /\ KindOf(Target(t)) = "process" => ValidProcess(Target(t).process)
  BY TargetIsValid, SectionIsValid
<1>2. OriginPorts(t) \subseteq Ports
  <2>1. Target(t).proxy # Nil => Target(t).proxy.originPort \in 0..MaxPort
    BY <1>1 DEF ValidProxy
  <2>2. \A p \in 0..MaxPort : p > 0 => p \in Ports
    BY PortAssumption DEF Ports
  <2> QED BY <2>1, <2>2 DEF OriginPorts
<1>3. OnNetwork(t) => Port(Target(t).docker) \in Ports
  <2>1. ASSUME OnNetwork(t) PROVE Target(t).docker.port \in 0..MaxPort
    BY <1>1, <2>1 DEF OnNetwork, Joins, ValidDocker
  <2> QED BY <2>1, PortAssumption DEF Port, Ports
<1>4. Stops(t)
  BY <1>1 DEF Stops, IsProcess, ValidProcess
<1> QED BY <1>2, <1>3, <1>4

(***************************************************************************)
(* The invariant is inductive.                                             *)
(***************************************************************************)

LEMMA InitIInv == Init => IInv
<1> SUFFICES ASSUME Init PROVE IInv
  OBVIOUS
<1>1. Targets = {} /\ Slots \in Nat /\ file \in DOMAIN Catalogs
  BY SlotsType DEF Init, Targets
<1>2. IsFiniteSet(sem) /\ Cardinality(sem) <= Slots
  BY <1>1, FS_EmptySet DEF Init
<1>3. TypeOK
  BY <1>1, <1>2 DEF Init, TypeOK, PC
<1>4. LoadInv /\ SlotInv /\ ResourceInv /\ OutcomeInv
  BY <1>1, <1>2 DEF Init, LoadInv, SlotInv, ResourceInv, OutcomeInv
<1> QED BY <1>3, <1>4 DEF IInv

\* The steps of a target's goroutine.
LEMMA TargetStepIInv ==
    ASSUME IInv, NEW t \in Targets, TargetStep(t)
    PROVE  IInv'
<1> USE DEF IInv, Goto, lifecycle, outcome
<1>1. UNCHANGED <<file, phase>>
  BY DEF TargetStep, Acquire, CanceledBeforeStart, Listen, ListenFails, FreePort, FreePortFails,
         NetworkPort, NoPortNeeded, MakeDir, MakeDirFails, RunStart, Launch, LaunchFails,
         LaunchAborted, WaitReady, WaitFails, Exercise, ExerciseFails, Stop, StopFails,
         StopIsTrusted, CloseOrigin, Release
<1>2. /\ t \in Names /\ Targets \subseteq Names /\ Slots \in Nat /\ phase # "loading"
      /\ Targets' = Targets /\ Slots' = Slots /\ Validate(config)' = Validate(config)
  BY <1>1, SameRun, SlotsType DEF TypeOK, LoadInv, Targets
<1>3. /\ OriginPorts(t) \subseteq Ports /\ NoPort \notin Ports
      /\ OnNetwork(t) => Port(Target(t).docker) \in Ports
      /\ Stops(t)
  BY TargetFacts, PortAssumption DEF Ports, NoPort
<1>4. ASSUME Acquire(t) PROVE IInv'
  <2> USE <1>1, <1>2, <1>4 DEF Acquire
  <2>0. IsFiniteSet(sem') /\ Cardinality(sem') <= Slots
    <3>1. t \notin sem /\ IsFiniteSet(sem)
      BY DEF SlotInv
    <3>2. IsFiniteSet(sem \cup {t}) /\ Cardinality(sem \cup {t}) = Cardinality(sem) + 1
      BY <3>1, FS_AddElement
    <3>3. Cardinality(sem) \in Nat
      BY <3>1, FS_CardinalityType
    <3> QED BY <3>2, <3>3
  <2>1. TypeOK'
    BY <2>0 DEF TypeOK, PC
  <2>2. LoadInv'
    BY DEF TypeOK, LoadInv
  <2>3. SlotInv'
    BY <2>0 DEF TypeOK, SlotInv
  <2>4. ResourceInv'
    BY DEF TypeOK, ResourceInv, Alive, Listening, Launched, Settled
  <2>5. OutcomeInv'
    BY DEF TypeOK, OutcomeInv, Settled
  <2> QED BY <2>1, <2>2, <2>3, <2>4, <2>5
<1>5. ASSUME CanceledBeforeStart(t) PROVE IInv'
  <2> USE <1>1, <1>2, <1>5 DEF CanceledBeforeStart, Fails
  <2>1. TypeOK'
    BY DEF TypeOK, PC
  <2>2. LoadInv'
    BY DEF TypeOK, LoadInv
  <2>3. SlotInv'
    BY DEF TypeOK, SlotInv
  <2>4. ResourceInv'
    BY DEF TypeOK, ResourceInv, Alive, Listening, Launched, Settled
  <2>5. OutcomeInv'
    BY DEF TypeOK, OutcomeInv, Settled
  <2> QED BY <2>1, <2>2, <2>3, <2>4, <2>5
<1>6. ASSUME Listen(t) PROVE IInv'
  <2> USE <1>1, <1>2, <1>6 DEF Listen
  <2>1. TypeOK'
    BY <1>3 DEF TypeOK, PC
  <2>2. LoadInv'
    BY DEF TypeOK, LoadInv
  <2>3. SlotInv'
    BY DEF TypeOK, SlotInv
  <2>4. ResourceInv'
    BY <1>3 DEF TypeOK, ResourceInv, Alive, Listening, Launched, Settled
  <2>5. OutcomeInv'
    BY DEF TypeOK, OutcomeInv, Settled
  <2> QED BY <2>1, <2>2, <2>3, <2>4, <2>5
<1>7. ASSUME ListenFails(t) PROVE IInv'
  <2> USE <1>1, <1>2, <1>7 DEF ListenFails, Fails
  <2>1. TypeOK'
    BY DEF TypeOK, PC
  <2>2. LoadInv'
    BY DEF TypeOK, LoadInv
  <2>3. SlotInv'
    BY DEF TypeOK, SlotInv
  <2>4. ResourceInv'
    BY DEF TypeOK, ResourceInv, Alive, Listening, Launched, Settled
  <2>5. OutcomeInv'
    BY DEF TypeOK, OutcomeInv, Settled
  <2> QED BY <2>1, <2>2, <2>3, <2>4, <2>5
<1>8. ASSUME FreePort(t) PROVE IInv'
  <2> USE <1>1, <1>2, <1>8 DEF FreePort
  <2>1. TypeOK'
    BY <1>3 DEF TypeOK, PC
  <2>2. LoadInv'
    BY DEF TypeOK, LoadInv
  <2>3. SlotInv'
    BY DEF TypeOK, SlotInv
  <2>4. ResourceInv'
    BY <1>3 DEF TypeOK, ResourceInv, Alive, Listening, Launched, Settled
  <2>5. OutcomeInv'
    BY DEF TypeOK, OutcomeInv, Settled
  <2> QED BY <2>1, <2>2, <2>3, <2>4, <2>5
<1>9. ASSUME FreePortFails(t) PROVE IInv'
  <2> USE <1>1, <1>2, <1>9 DEF FreePortFails, Fails
  <2>1. TypeOK'
    BY DEF TypeOK, PC
  <2>2. LoadInv'
    BY DEF TypeOK, LoadInv
  <2>3. SlotInv'
    BY DEF TypeOK, SlotInv
  <2>4. ResourceInv'
    BY DEF TypeOK, ResourceInv, Alive, Listening, Launched, Settled
  <2>5. OutcomeInv'
    BY DEF TypeOK, OutcomeInv, Settled
  <2> QED BY <2>1, <2>2, <2>3, <2>4, <2>5
<1>10. ASSUME NetworkPort(t) PROVE IInv'
  <2> USE <1>1, <1>2, <1>10 DEF NetworkPort
  <2>1. TypeOK'
    BY <1>3 DEF TypeOK, PC
  <2>2. LoadInv'
    BY DEF TypeOK, LoadInv
  <2>3. SlotInv'
    BY DEF TypeOK, SlotInv
  <2>4. ResourceInv'
    BY <1>3 DEF TypeOK, ResourceInv, Alive, Listening, Launched, Settled
  <2>5. OutcomeInv'
    BY DEF TypeOK, OutcomeInv, Settled
  <2> QED BY <2>1, <2>2, <2>3, <2>4, <2>5
<1>11. ASSUME NoPortNeeded(t) PROVE IInv'
  <2> USE <1>1, <1>2, <1>11 DEF NoPortNeeded
  <2>1. TypeOK'
    BY DEF TypeOK, PC
  <2>2. LoadInv'
    BY DEF TypeOK, LoadInv
  <2>3. SlotInv'
    BY DEF TypeOK, SlotInv
  <2>4. ResourceInv'
    BY DEF TypeOK, ResourceInv, Alive, Listening, Launched, Settled
  <2>5. OutcomeInv'
    BY DEF TypeOK, OutcomeInv, Settled
  <2> QED BY <2>1, <2>2, <2>3, <2>4, <2>5
<1>12. ASSUME MakeDir(t) PROVE IInv'
  <2> USE <1>1, <1>2, <1>12 DEF MakeDir
  <2>1. TypeOK'
    BY DEF TypeOK, PC
  <2>2. LoadInv'
    BY DEF TypeOK, LoadInv
  <2>3. SlotInv'
    BY DEF TypeOK, SlotInv
  <2>4. ResourceInv'
    BY DEF TypeOK, ResourceInv, Alive, Listening, Launched, Settled
  <2>5. OutcomeInv'
    BY DEF TypeOK, OutcomeInv, Settled
  <2> QED BY <2>1, <2>2, <2>3, <2>4, <2>5
<1>13. ASSUME MakeDirFails(t) PROVE IInv'
  <2> USE <1>1, <1>2, <1>13 DEF MakeDirFails, Fails
  <2>1. TypeOK'
    BY DEF TypeOK, PC
  <2>2. LoadInv'
    BY DEF TypeOK, LoadInv
  <2>3. SlotInv'
    BY DEF TypeOK, SlotInv
  <2>4. ResourceInv'
    BY DEF TypeOK, ResourceInv, Alive, Listening, Launched, Settled
  <2>5. OutcomeInv'
    BY DEF TypeOK, OutcomeInv, Settled
  <2> QED BY <2>1, <2>2, <2>3, <2>4, <2>5
<1>14. ASSUME RunStart(t) PROVE IInv'
  <2> USE <1>1, <1>2, <1>14 DEF RunStart
  <2>1. TypeOK'
    BY DEF TypeOK, PC
  <2>2. LoadInv'
    BY DEF TypeOK, LoadInv
  <2>3. SlotInv'
    BY DEF TypeOK, SlotInv
  <2>4. ResourceInv'
    BY DEF TypeOK, ResourceInv, Alive, Listening, Launched, Settled
  <2>5. OutcomeInv'
    BY DEF TypeOK, OutcomeInv, Settled
  <2> QED BY <2>1, <2>2, <2>3, <2>4, <2>5
<1>15. ASSUME Launch(t) PROVE IInv'
  <2> USE <1>1, <1>2, <1>15 DEF Launch
  <2>1. TypeOK'
    BY DEF TypeOK, PC
  <2>2. LoadInv'
    BY DEF TypeOK, LoadInv
  <2>3. SlotInv'
    BY DEF TypeOK, SlotInv
  <2>4. ResourceInv'
    BY DEF TypeOK, ResourceInv, Alive, Listening, Launched, Settled
  <2>5. OutcomeInv'
    BY DEF TypeOK, OutcomeInv, Settled
  <2> QED BY <2>1, <2>2, <2>3, <2>4, <2>5
<1>16. ASSUME LaunchFails(t) PROVE IInv'
  <2> USE <1>1, <1>2, <1>16 DEF LaunchFails, Fails
  <2>1. TypeOK'
    BY DEF TypeOK, PC
  <2>2. LoadInv'
    BY DEF TypeOK, LoadInv
  <2>3. SlotInv'
    BY DEF TypeOK, SlotInv
  <2>4. ResourceInv'
    BY DEF TypeOK, ResourceInv, Alive, Listening, Launched, Settled
  <2>5. OutcomeInv'
    BY DEF TypeOK, OutcomeInv, Settled
  <2> QED BY <2>1, <2>2, <2>3, <2>4, <2>5
<1>17. ASSUME LaunchAborted(t) PROVE IInv'
  <2> USE <1>1, <1>2, <1>17 DEF LaunchAborted, Fails
  <2>1. TypeOK'
    BY DEF TypeOK, PC, Reasons
  <2>2. LoadInv'
    BY DEF TypeOK, LoadInv
  <2>3. SlotInv'
    BY DEF TypeOK, SlotInv
  <2>4. ResourceInv'
    BY DEF TypeOK, ResourceInv, Alive, Listening, Launched, Settled
  <2>5. OutcomeInv'
    BY DEF TypeOK, OutcomeInv, Settled
  <2> QED BY <2>1, <2>2, <2>3, <2>4, <2>5
<1>18. ASSUME WaitReady(t) PROVE IInv'
  <2> USE <1>1, <1>2, <1>18 DEF WaitReady
  <2>1. TypeOK'
    BY DEF TypeOK, PC
  <2>2. LoadInv'
    BY DEF TypeOK, LoadInv
  <2>3. SlotInv'
    BY DEF TypeOK, SlotInv
  <2>4. ResourceInv'
    BY DEF TypeOK, ResourceInv, Alive, Listening, Launched, Settled
  <2>5. OutcomeInv'
    BY DEF TypeOK, OutcomeInv, Settled
  <2> QED BY <2>1, <2>2, <2>3, <2>4, <2>5
<1>19. ASSUME WaitFails(t) PROVE IInv'
  <2> USE <1>1, <1>2, <1>19 DEF WaitFails, Fails
  <2>1. TypeOK'
    BY DEF TypeOK, PC
  <2>2. LoadInv'
    BY DEF TypeOK, LoadInv
  <2>3. SlotInv'
    BY DEF TypeOK, SlotInv
  <2>4. ResourceInv'
    BY DEF TypeOK, ResourceInv, Alive, Listening, Launched, Settled
  <2>5. OutcomeInv'
    BY DEF TypeOK, OutcomeInv, Settled
  <2> QED BY <2>1, <2>2, <2>3, <2>4, <2>5
<1>20. ASSUME Exercise(t) PROVE IInv'
  <2> USE <1>1, <1>2, <1>20 DEF Exercise
  <2>1. TypeOK'
    BY DEF TypeOK, PC, Answering
  <2>2. LoadInv'
    BY DEF TypeOK, LoadInv
  <2>3. SlotInv'
    BY DEF TypeOK, SlotInv
  <2>4. ResourceInv'
    BY DEF TypeOK, ResourceInv, Alive, Listening, Launched, Settled
  <2>5. OutcomeInv'
    BY DEF TypeOK, OutcomeInv, Settled
  <2> QED BY <2>1, <2>2, <2>3, <2>4, <2>5
<1>21. ASSUME ExerciseFails(t) PROVE IInv'
  <2> USE <1>1, <1>2, <1>21 DEF ExerciseFails, Fails
  <2>1. TypeOK'
    BY DEF TypeOK, PC
  <2>2. LoadInv'
    BY DEF TypeOK, LoadInv
  <2>3. SlotInv'
    BY DEF TypeOK, SlotInv
  <2>4. ResourceInv'
    BY DEF TypeOK, ResourceInv, Alive, Listening, Launched, Settled
  <2>5. OutcomeInv'
    BY DEF TypeOK, OutcomeInv, Settled
  <2> QED BY <2>1, <2>2, <2>3, <2>4, <2>5
<1>22. ASSUME Stop(t) PROVE IInv'
  <2> USE <1>1, <1>2, <1>22 DEF Stop
  <2>1. TypeOK'
    BY <1>3 DEF TypeOK, PC
  <2>2. LoadInv'
    BY DEF TypeOK, LoadInv
  <2>3. SlotInv'
    BY DEF TypeOK, SlotInv
  <2>4. ResourceInv'
    BY <1>3 DEF TypeOK, ResourceInv, Alive, Listening, Launched, Settled
  <2>5. OutcomeInv'
    BY DEF TypeOK, OutcomeInv, Settled
  <2> QED BY <2>1, <2>2, <2>3, <2>4, <2>5
<1>23. ASSUME StopFails(t) PROVE IInv'
  <2> USE <1>1, <1>2, <1>23 DEF StopFails
  <2>1. TypeOK'
    BY DEF TypeOK, PC, Reasons
  <2>2. LoadInv'
    BY DEF TypeOK, LoadInv
  <2>3. SlotInv'
    BY DEF TypeOK, SlotInv
  <2>4. ResourceInv'
    BY DEF TypeOK, ResourceInv, Alive, Listening, Launched, Settled
  <2>5. OutcomeInv'
    BY DEF TypeOK, OutcomeInv, Settled
  <2> QED BY <2>1, <2>2, <2>3, <2>4, <2>5
<1>24. ASSUME CloseOrigin(t) PROVE IInv'
  <2> USE <1>1, <1>2, <1>24 DEF CloseOrigin
  <2>1. TypeOK'
    BY DEF TypeOK, PC
  <2>2. LoadInv'
    BY DEF TypeOK, LoadInv
  <2>3. SlotInv'
    BY DEF TypeOK, SlotInv
  <2>4. ResourceInv'
    BY DEF TypeOK, ResourceInv, Alive, Listening, Launched, Settled
  <2>5. OutcomeInv'
    BY DEF TypeOK, OutcomeInv, Settled
  <2> QED BY <2>1, <2>2, <2>3, <2>4, <2>5
<1>25. ASSUME Release(t) PROVE IInv'
  <2> USE <1>1, <1>2, <1>25 DEF Release
  <2>0. IsFiniteSet(sem') /\ Cardinality(sem') <= Slots
    BY FS_RemoveElement, FS_CardinalityType, FS_Subset DEF SlotInv
  <2>1. TypeOK'
    BY <2>0 DEF TypeOK, PC
  <2>2. LoadInv'
    BY DEF TypeOK, LoadInv
  <2>3. SlotInv'
    BY <2>0 DEF TypeOK, SlotInv
  <2>4. ResourceInv'
    BY DEF TypeOK, ResourceInv, Alive, Listening, Launched, Settled
  <2>5. OutcomeInv'
    BY DEF TypeOK, OutcomeInv, Settled
  <2> QED BY <2>1, <2>2, <2>3, <2>4, <2>5
<1>26. ASSUME StopIsTrusted(t) PROVE IInv'
  <2> USE <1>1, <1>2, <1>26 DEF StopIsTrusted
  <2>1. TypeOK'
    BY DEF TypeOK, PC, Reasons
  <2>2. LoadInv'
    BY DEF TypeOK, LoadInv
  <2>3. SlotInv'
    BY DEF TypeOK, SlotInv
  <2>4. ResourceInv'
    BY DEF TypeOK, ResourceInv, Alive, Listening, Launched, Settled
  <2>5. OutcomeInv'
    BY DEF TypeOK, OutcomeInv, Settled
  <2> QED BY <2>1, <2>2, <2>3, <2>4, <2>5
<1> QED BY <1>4, <1>5, <1>6, <1>7, <1>8, <1>9, <1>10, <1>11, <1>12, <1>13, <1>14, <1>15, <1>16, <1>17, <1>18, <1>19, <1>20, <1>21, <1>22, <1>23, <1>24, <1>25, <1>26 DEF TargetStep

\* What the proxies and the context do by themselves.
LEMMA MachineIInv ==
    ASSUME IInv, NEW t \in Targets, Machine(t)
    PROVE  IInv'
<1> USE DEF IInv, Machine, ProxyBinds, ProxyExits, OriginCanceled, OriginBreaks, outcome
<1>1. /\ t \in Names /\ Targets \subseteq Names
      /\ Targets' = Targets /\ Slots' = Slots /\ Validate(config)' = Validate(config)
  BY SameRun DEF LoadInv
<1>2. TypeOK'
  BY <1>1 DEF TypeOK
<1>3. LoadInv'
  BY <1>1 DEF TypeOK, LoadInv, Targets
<1>4. SlotInv' /\ OutcomeInv'
  BY <1>1 DEF SlotInv, OutcomeInv
<1>5. ResourceInv'
  <2>1. Broken # NoPort /\ NoPort \notin Ports
    BY DEF Broken, NoPort, Ports
  <2> QED BY <1>1, <2>1 DEF TypeOK, ResourceInv, Alive
<1> QED BY <1>2, <1>3, <1>4, <1>5

LEMMA NextIInv == IInv /\ [Next]_vars => IInv'
<1> SUFFICES ASSUME IInv, [Next]_vars PROVE IInv'
  OBVIOUS
<1> USE DEF IInv, lifecycle, outcome
<1>1. ASSUME Load PROVE IInv'
  <2> USE <1>1 DEF Load
  <2>1. Targets = {} /\ Targets' \subseteq Names /\ Slots' = Slots
    BY CatalogAssumption DEF TypeOK, Targets, config, Slots
  <2>2. TypeOK'
    BY <2>1 DEF TypeOK
  <2>3. LoadInv'
    BY <2>1 DEF LoadInv, config
  <2>4. SlotInv'
    BY <2>1 DEF TypeOK, LoadInv, SlotInv
  <2>5. ResourceInv' /\ OutcomeInv'
    BY <2>1 DEF TypeOK, LoadInv, ResourceInv, OutcomeInv, Alive, Listening, Settled
  <2> QED BY <2>2, <2>3, <2>4, <2>5
<1>2. ASSUME LoadFails PROVE IInv'
  <2> USE <1>2 DEF LoadFails
  <2>1. Targets = {} /\ Targets' = {} /\ Slots' = Slots
    BY DEF TypeOK, Targets, config, Slots
  <2> QED BY <2>1 DEF TypeOK, LoadInv, SlotInv, ResourceInv, OutcomeInv
<1>3. ASSUME NEW t \in Names, TargetStep(t) \/ Machine(t) PROVE IInv'
  BY <1>3, TargetStepIInv, MachineIInv DEF TargetStep, Machine
<1>4. ASSUME Cancel PROVE IInv'
  <2> USE <1>4 DEF Cancel
  <2>1. Targets' = Targets /\ Slots' = Slots /\ Validate(config)' = Validate(config)
    BY SameRun
  <2>2. TypeOK'
    BY <2>1 DEF TypeOK
  <2>3. LoadInv' /\ SlotInv' /\ ResourceInv' /\ OutcomeInv'
    BY <2>1 DEF LoadInv, SlotInv, ResourceInv, OutcomeInv, Alive
  <2> QED BY <2>2, <2>3
<1>5. ASSUME Report PROVE IInv'
  <2> USE <1>5 DEF Report
  <2>1. Targets' = Targets /\ Slots' = Slots /\ Validate(config)' = Validate(config)
    BY DEF Targets, config, Slots
  <2>2. TypeOK'
    BY <2>1 DEF TypeOK
  <2>3. LoadInv' /\ SlotInv' /\ ResourceInv' /\ OutcomeInv'
    BY <2>1 DEF LoadInv, SlotInv, ResourceInv, OutcomeInv, Alive
  <2> QED BY <2>2, <2>3
<1>6. ASSUME UNCHANGED vars PROVE IInv'
  <2> USE <1>6 DEF vars
  <2>1. Targets' = Targets /\ Slots' = Slots /\ Validate(config)' = Validate(config)
    BY SameRun
  <2>2. TypeOK'
    BY <2>1 DEF TypeOK
  <2>3. LoadInv' /\ SlotInv' /\ ResourceInv' /\ OutcomeInv'
    BY <2>1 DEF LoadInv, SlotInv, ResourceInv, OutcomeInv, Alive
  <2> QED BY <2>2, <2>3
<1> QED BY <1>1, <1>2, <1>3, <1>4, <1>5, <1>6 DEF Next, Returned

LEMMA InvariantHolds == Spec => []IInv
  BY InitIInv, NextIInv, PTL DEF Spec

(***************************************************************************)
(* The theorems.                                                           *)
(***************************************************************************)

\* The variables of a catalog run keep their types: among others, every port
\* that an accepted configuration leads to is a port of the machine.
THEOREM TypeCorrect == Spec => []TypeOK
<1>1. IInv => TypeOK
  BY DEF IInv
<1> QED BY <1>1, InvariantHolds, PTL

\* The order of the deferred calls of test keeps the origin of a target open
\* for as long as its proxy runs.
THEOREM ProxyHasUpstream == Spec => []UpstreamOutlivesProxy
<1>1. IInv => UpstreamOutlivesProxy
  BY DEF IInv, ResourceInv, Launched, Listening, UpstreamOutlivesProxy
<1> QED BY <1>1, InvariantHolds, PTL

\* The targets that keep an origin or a proxy are among the holders of the
\* semaphore's slots, of which there are TargetConcurrency.
THEOREM LoadIsBounded == Spec => []BoundedLoad
<1>1. IInv => BoundedLoad
  <2> SUFFICES ASSUME IInv PROVE BoundedLoad
    OBVIOUS
  <2> DEFINE loaded == {t \in Targets : origin[t] # NoPort \/ (Alive(t) /\ left[t] = "none")}
  <2>1. loaded \subseteq sem
    BY DEF IInv, SlotInv, ResourceInv, Listening, Launched
  <2>2. Cardinality(loaded) <= Cardinality(sem) /\ Cardinality(loaded) \in Nat /\ Cardinality(sem) \in Nat
    BY <2>1, FS_Subset, FS_CardinalityType DEF IInv, SlotInv
  <2>3. Cardinality(loaded) <= Slots
    BY <2>2, SlotsType DEF IInv, TypeOK, SlotInv
  <2> QED BY <2>3 DEF BoundedLoad
<1> QED BY <1>1, InvariantHolds, PTL

\* Run leaves nothing behind that it could stop, on whatever path each of its
\* targets ended: every proxy that Validate accepts has a way to be stopped.
THEOREM RunCleansUp == Spec => []CleanAfterRun
<1>1. IInv => CleanAfterRun
  BY DEF IInv, TypeOK, LoadInv, SlotInv, ResourceInv, Listening, Launched, CleanAfterRun
<1> QED BY <1>1, InvariantHolds, PTL

\* A target that is done has an error or results, and never both.
THEOREM LifecycleFailureIsReported == Spec => []FailureIsReported
<1>1. IInv => FailureIsReported
  BY DEF IInv, OutcomeInv, Settled, FailureIsReported
<1> QED BY <1>1, InvariantHolds, PTL

\* Of every configuration that Validate accepts: one container on a docker
\* network binds all origins to every interface, and each target that is started
\* is told a host that leads there from the network that the target sees.
THEOREM OriginsAreReachable == Spec => []OriginIsReachable
<1>1. IInv => OriginIsReachable
  <2> SUFFICES ASSUME IInv PROVE OriginIsReachable
    OBVIOUS
  <2> DEFINE listen == ListenHost(config)
  <2>1. Leads(ControlHost(config), "machine", listen, config.os)
    BY DEF Leads, ControlHost, Loopback, AllInterfaces
  <2>2. ASSUME config.origin.listen \in {"", AllInterfaces}, config.origin.advertise = "",
               config.hostname, NEW t \in Targets
        PROVE  Leads(OriginHost(config, Target(t), config.os), Network(Target(t), config.os),
                     listen, config.os)
    <3> DEFINE d == Target(t).docker
               os == config.os
               host == OriginHost(config, Target(t), os)
    <3>1. Joins(Target(t)) => listen = AllInterfaces
      BY <2>2, TargetIsListed DEF IInv, ListenHost
    <3>2. listen \in {Loopback, AllInterfaces} /\ Loopback # AllInterfaces
      BY <2>2 DEF ListenHost, Loopback, AllInterfaces
    <3>3. CASE d = Nil \/ (NetworkMode(d, os) = "host" /\ os = "linux")
      <4>1. host = Loopback /\ Network(Target(t), os) = "machine"
        BY <2>2, <3>3 DEF OriginHost, Network
      <4> QED BY <4>1, <3>2 DEF Leads
    <3>4. CASE ~(d = Nil \/ (NetworkMode(d, os) = "host" /\ os = "linux")) /\ IsNamedNetwork(d, os)
      <4>1. host = Hostname /\ Network(Target(t), os) = "named"
        BY <2>2, <3>4 DEF OriginHost, Network
      <4>2. listen = AllInterfaces
        BY <3>1, <3>4 DEF Joins, JoinsNetwork, NetworkMode, IsNamedNetwork
      <4> QED BY <4>1, <4>2 DEF Leads
    <3>5. CASE ~(d = Nil \/ (NetworkMode(d, os) = "host" /\ os = "linux")) /\ ~IsNamedNetwork(d, os)
      <4>1. host = Gateway /\ Network(Target(t), os) = "gateway"
        BY <2>2, <3>5 DEF OriginHost, Network
      <4>2. os = "linux" => listen = AllInterfaces
        BY <3>1, <3>5 DEF Joins, JoinsNetwork, NetworkMode, IsNamedNetwork
      <4> QED BY <4>1, <4>2, <3>2 DEF Leads
    <3> QED BY <3>3, <3>4, <3>5
  <2> QED BY <2>1, <2>2 DEF OriginIsReachable
<1> QED BY <1>1, InvariantHolds, PTL

=============================================================================
