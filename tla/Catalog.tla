------------------------------ MODULE Catalog ------------------------------
(***************************************************************************)
(* A catalog run (pkg/orchestrate/orchestrate.go): the configuration is    *)
(* loaded, then one goroutine per target, TargetConcurrency of them at a   *)
(* time, each with an origin of its own and a proxy that pkg/target        *)
(* starts, waits for and stops.                                            *)
(*                                                                         *)
(* The machine is part of the model as far as the code relies on it: its   *)
(* TCP ports, and the processes and containers that were started.          *)
(***************************************************************************)
EXTENDS Config

CONSTANTS
    Names,      \* the names of targets
    Catalogs    \* the configuration files, each with the machine it is read on:
                \* its operating system, and whether it can tell its name

Ports == 1..MaxPort   \* the TCP ports of the machine
NoPort == 0           \* a port that is not pinned, or not chosen yet
Broken == -1          \* a listener that failed and was not closed by the run

\* The targets of each file by their names.
ByName ==
    [f \in DOMAIN Catalogs |->
        LET given == {t \in ToSet(Catalogs[f].targets) : t # Nil}
        IN  [name \in {t.name : t \in given} |-> CHOOSE t \in given : t.name = name]]

ASSUME PortAssumption == MaxPort \in Nat /\ ContainerPort \in Ports

ASSUME CatalogAssumption ==
    \A f \in DOMAIN Catalogs :
        /\ Catalogs[f].run.targets \in Int
        /\ Validate(Catalogs[f]) => DOMAIN ByName[f] \subseteq Names

VARIABLES
    file,      \* the configuration file, by its place in Catalogs
    phase,     \* where Load, and then Run, is
    canceled,  \* the context of the run is done
    pc,        \* where each target's goroutine is
    sem,       \* the targets that hold a slot
    origin,    \* the port each target's origin listens on, NoPort or Broken
    port,      \* Vars.ListenPort
    proxy,     \* the process or container of each target
    dir,       \* the targets whose work directory exists
    err,       \* the targets whose run.Error is set
    ran,       \* the targets whose run.Results are set
    via,       \* history: the targets whose proxy or origin answered the tests
    left       \* history: why a proxy was left alone

vars == <<file, phase, canceled, pc, sem, origin, port, proxy, dir, err, ran, via, left>>

\* What a goroutine leaves alone except where an action says otherwise.
lifecycle == <<origin, port, proxy, dir>>
outcome == <<err, ran, via, left>>

config == Catalogs[file]
Slots == TargetConcurrency(config)

\* The targets of a run, and what the configuration says of one.
Targets == IF phase \in {"running", "reported"} THEN DOMAIN ByName[file] ELSE {}
Target(t) == ByName[file][t]

IsManaged(t) == Managed(Target(t))
OnNetwork(t) == Joins(Target(t))
IsProcess(t) == KindOf(Target(t)) = "process"

\* A container with an address of its own.
HasAddress(t) ==
    KindOf(Target(t)) = "docker" /\ IsNamedNetwork(Target(t).docker, config.os)

\* A container whose port docker publishes, and so binds when it starts it.
Published(t) ==
    KindOf(Target(t)) = "docker" /\ NetworkMode(Target(t).docker, config.os) = "bridge"

\* "docker run" and a background start command return when the proxy runs.
StartReturns(t) == IF IsProcess(t) THEN Target(t).process.background ELSE IsManaged(t)

StopCommand(t) == IsProcess(t) /\ Target(t).process.stop # ""

\* Why a proxy was left alone: its stop failed, or a stop command that ended well
\* was trusted; its start was cut off by the context, or failed half way.
Reasons == {"stopFailed", "stopTrusted", "startAborted", "startFailed"}

\* originPort: the ports that the origin of a target may bind
OriginPorts(t) ==
    IF Target(t).proxy # Nil /\ Target(t).proxy.originPort > 0
    THEN {Target(t).proxy.originPort} ELSE Ports

----------------------------------------------------------------------------

PC == {"new", "listen", "vars", "dir", "launch", "launching", "await",
       "exercise", "stop", "close", "release", "done"}

TypeOK ==
    /\ file \in DOMAIN Catalogs
    /\ phase \in {"loading", "refused", "running", "reported"}
    /\ canceled \in BOOLEAN
    /\ pc \in [Names -> PC]
    /\ sem \subseteq Targets /\ Cardinality(sem) <= Slots
    /\ origin \in [Names -> Ports \cup {NoPort, Broken}]
    /\ port \in [Names -> Ports \cup {NoPort}]
    /\ proxy \in [Names -> {"none", "starting", "up", "gone"}]
    /\ dir \subseteq Targets
    /\ err \subseteq Targets /\ ran \subseteq Targets
    /\ via \in [Names -> SUBSET Targets]
    /\ left \in [Names -> Reasons \cup {"none"}]

Init ==
    /\ file \in DOMAIN Catalogs
    /\ phase = "loading"
    /\ canceled = FALSE
    /\ pc = [t \in Names |-> "new"]
    /\ sem = {}
    /\ origin = [t \in Names |-> NoPort]
    /\ port = [t \in Names |-> NoPort]
    /\ proxy = [t \in Names |-> "none"]
    /\ dir = {} /\ err = {} /\ ran = {}
    /\ via = [t \in Names |-> {}]
    /\ left = [t \in Names |-> "none"]

Alive(t) == proxy[t] \in {"starting", "up"}

\* The proxy of t holds a port of the machine, not of a docker network.
OnHost(t) == proxy[t] = "up" /\ ~HasAddress(t)

Bound(p) == \E t \in Names : origin[t] = p \/ (OnHost(t) /\ port[t] = p)

Goto(t, place) == pc' = [pc EXCEPT ![t] = place]

\* run.Error is set, and the deferred calls from the given place on are made.
Fails(t, place) ==
    /\ Goto(t, place)
    /\ err' = err \cup {t}

(***************************************************************************)
(* config.Load, and the beginning of Run.                                  *)
(***************************************************************************)

Load ==
    /\ phase = "loading"
    /\ Validate(config) /\ config.targets # <<>>
    /\ phase' = "running"
    /\ UNCHANGED <<file, canceled, pc, sem, lifecycle, outcome>>

LoadFails ==
    /\ phase = "loading"
    /\ ~Validate(config) \/ config.targets = <<>>
    /\ phase' = "refused"
    /\ UNCHANGED <<file, canceled, pc, sem, lifecycle, outcome>>

(***************************************************************************)
(* one: a slot, or the context.                                            *)
(***************************************************************************)

Acquire(t) ==
    /\ pc[t] = "new"
    /\ Cardinality(sem) < Slots
    /\ sem' = sem \cup {t}
    /\ Goto(t, "listen")
    /\ UNCHANGED <<file, phase, canceled, lifecycle, outcome>>

CanceledBeforeStart(t) ==
    /\ pc[t] = "new" /\ canceled
    /\ Fails(t, "done")
    /\ UNCHANGED <<file, phase, canceled, sem, lifecycle, ran, via, left>>

(***************************************************************************)
(* test: the origin's listener, and the port for the proxy.                *)
(***************************************************************************)

Listen(t) ==
    /\ pc[t] = "listen"
    /\ \E p \in OriginPorts(t) :
           /\ ~Bound(p)
           /\ origin' = [origin EXCEPT ![t] = p]
    /\ Goto(t, "vars")
    /\ UNCHANGED <<file, phase, canceled, sem, port, proxy, dir, outcome>>

\* The port is taken, or the machine has none left.
ListenFails(t) ==
    /\ pc[t] = "listen"
    /\ \A p \in OriginPorts(t) : Bound(p)
    /\ Fails(t, "release")
    /\ UNCHANGED <<file, phase, canceled, sem, lifecycle, ran, via, left>>

\* FreePort binds a port and closes it again, so it is free for anyone until
\* the proxy binds it.
FreePort(t) ==
    /\ pc[t] = "vars" /\ IsManaged(t) /\ ~OnNetwork(t)
    /\ \E p \in Ports : ~Bound(p) /\ port' = [port EXCEPT ![t] = p]
    /\ Goto(t, "dir")
    /\ UNCHANGED <<file, phase, canceled, sem, origin, proxy, dir, outcome>>

FreePortFails(t) ==
    /\ pc[t] = "vars" /\ IsManaged(t) /\ ~OnNetwork(t)
    /\ \A p \in Ports : Bound(p)
    /\ Fails(t, "close")
    /\ UNCHANGED <<file, phase, canceled, sem, lifecycle, ran, via, left>>

\* A container on a docker network listens on the port that the configuration
\* gives, the published port of network "bridge" included.
NetworkPort(t) ==
    /\ pc[t] = "vars" /\ OnNetwork(t)
    /\ port' = [port EXCEPT ![t] = Port(Target(t).docker)]
    /\ Goto(t, "dir")
    /\ UNCHANGED <<file, phase, canceled, sem, origin, proxy, dir, outcome>>

\* An unmanaged target is running somewhere already.
NoPortNeeded(t) ==
    /\ pc[t] = "vars" /\ ~IsManaged(t)
    /\ Goto(t, "await")
    /\ UNCHANGED <<file, phase, canceled, sem, lifecycle, outcome>>

(***************************************************************************)
(* target.Start: startDocker and startProcess.                             *)
(***************************************************************************)

\* workDir and renderFiles
MakeDir(t) ==
    /\ pc[t] = "dir"
    /\ dir' = dir \cup {t}
    /\ Goto(t, "launch")
    /\ UNCHANGED <<file, phase, canceled, sem, origin, port, proxy, outcome>>

\* The directory cannot be made, or a file cannot be rendered into it and it
\* is removed again.
MakeDirFails(t) ==
    /\ pc[t] = "dir"
    /\ Fails(t, "close")
    /\ UNCHANGED <<file, phase, canceled, sem, lifecycle, ran, via, left>>

\* Exec.Output: "docker run" and a background start command are waited for.
RunStart(t) ==
    /\ pc[t] = "launch" /\ ~canceled
    /\ StartReturns(t)
    /\ Goto(t, "launching")
    /\ UNCHANGED <<file, phase, canceled, sem, lifecycle, outcome>>

\* The foreground command has started, or the awaited one has ended well, which
\* "docker run" does only when it could publish the port.
Launch(t) ==
    /\ \/ pc[t] = "launch" /\ ~StartReturns(t) /\ ~canceled
       \/ pc[t] = "launching"
    /\ Published(t) => ~Bound(port[t])
    /\ proxy' = [proxy EXCEPT ![t] = IF Published(t) THEN "up" ELSE "starting"]
    /\ Goto(t, "await")
    /\ UNCHANGED <<file, phase, canceled, sem, origin, port, dir, outcome>>

\* The command cannot be started, as under a context that is done, or fails.
LaunchFails(t) ==
    /\ pc[t] \in {"launch", "launching"}
    /\ dir' = dir \ {t}
    /\ Fails(t, "close")
    /\ UNCHANGED <<file, phase, canceled, sem, origin, port, proxy, ran, via, left>>

\* The awaited command does not end well when its proxy is already on its way:
\* Start returns the error, and no Instance to stop.  Either the context has
\* killed the command, or a background start command has failed by itself.
LaunchAborted(t) ==
    /\ pc[t] = "launching"
    /\ \/ canceled /\ left' = [left EXCEPT ![t] = "startAborted"]
       \/ IsProcess(t) /\ left' = [left EXCEPT ![t] = "startFailed"]
    /\ proxy' = [proxy EXCEPT ![t] = "starting"]
    /\ dir' = dir \ {t}
    /\ Fails(t, "close")
    /\ UNCHANGED <<file, phase, canceled, sem, origin, port, ran, via>>

(***************************************************************************)
(* The proxy's own process: it binds its port, or exits when it cannot, or *)
(* exits by itself; exec.CommandContext kills a foreground one when the    *)
(* context is done.                                                        *)
(***************************************************************************)

ProxyBinds(t) ==
    /\ proxy[t] = "starting"
    /\ HasAddress(t) \/ ~Bound(port[t])
    /\ proxy' = [proxy EXCEPT ![t] = "up"]
    /\ UNCHANGED <<file, phase, canceled, pc, sem, origin, port, dir, outcome>>

ProxyExits(t) ==
    /\ Alive(t)
    /\ proxy' = [proxy EXCEPT ![t] = "gone"]
    /\ UNCHANGED <<file, phase, canceled, pc, sem, origin, port, dir, outcome>>

(***************************************************************************)
(* await and exercise.                                                     *)
(***************************************************************************)

\* Who answers a request to the base URL of t.
Answering(t) ==
    IF ~IsManaged(t) THEN {t}
    ELSE IF HasAddress(t) THEN {u \in {t} : proxy[u] = "up"}
    ELSE {u \in Targets : origin[u] = port[t] \/ (OnHost(u) /\ port[u] = port[t])}

\* What u may answer to the probe: the info endpoint is one of an origin,
\* whoever's that is; any other path may have any answer.
AnswersTo(u, path) ==
    IF path # "info" THEN {200, 404, 502} ELSE IF origin[u] \in Ports THEN {200} ELSE {502}

\* WaitReady has an answer that probe wants, and the settling is over.
WaitReady(t) ==
    /\ pc[t] = "await"
    /\ \E u \in Answering(t) :
          AnswersTo(u, Probe(Target(t)).path) \cap Probe(Target(t)).status # {}
    /\ Goto(t, "exercise")
    /\ UNCHANGED <<file, phase, canceled, sem, lifecycle, outcome>>

\* Faulty variants: the stop is deferred only once the target is ready; the
\* probe has no deadline.
WaitFailsNoStop(t) ==
    /\ pc[t] = "await"
    /\ Fails(t, "close")
    /\ UNCHANGED <<file, phase, canceled, sem, lifecycle, ran, via, left>>

WaitFailsOnlyCanceled(t) ==
    /\ pc[t] = "await" /\ canceled
    /\ Fails(t, "stop")
    /\ UNCHANGED <<file, phase, canceled, sem, lifecycle, ran, via, left>>

\* The deadline has passed, or the context ends the wait or the settling.
WaitFails(t) ==
    /\ pc[t] = "await"
    /\ Fails(t, "stop")
    /\ UNCHANGED <<file, phase, canceled, sem, lifecycle, ran, via, left>>

\* client.Run has returned results: they go into the run, canceled or not.
Exercise(t) ==
    /\ pc[t] = "exercise"
    /\ ran' = ran \cup {t}
    /\ via' = [via EXCEPT ![t] = Answering(t)]
    /\ Goto(t, "stop")
    /\ UNCHANGED <<file, phase, canceled, sem, lifecycle, err, left>>

\* Faulty variant: the error of client.Run is dropped.
ExerciseFailsUnnoticed(t) ==
    /\ pc[t] = "exercise"
    /\ Goto(t, "stop")
    /\ UNCHANGED <<file, phase, canceled, sem, lifecycle, outcome>>

\* No client for these protocols, or the handshake failed.
ExerciseFails(t) ==
    /\ pc[t] = "exercise"
    /\ Fails(t, "stop")
    /\ UNCHANGED <<file, phase, canceled, sem, lifecycle, ran, via, left>>

(***************************************************************************)
(* The deferred calls: Instance.Stop, then the origin, then the slot.      *)
(***************************************************************************)

\* A stop reaches the proxy: there is a process to signal, a container, or a
\* stop command that does not name a process that is gone.
Stops(t) ==
    IsProcess(t) /\ Target(t).process.background => Target(t).process.stop \notin {"", "${PID}"}

\* Faulty variant: the slot is given back before the origin is closed.
StopReleases(t) ==
    /\ pc[t] = "stop"
    /\ proxy' = [proxy EXCEPT ![t] = IF Alive(t) /\ Stops(t) THEN "gone" ELSE @]
    /\ dir' = dir \ {t}
    /\ sem' = sem \ {t}
    /\ Goto(t, "close")
    /\ UNCHANGED <<file, phase, canceled, origin, port, outcome>>

\* SIGTERM and, if need be, SIGKILL; a stop command that works, followed by
\* SIGKILL if need be; docker stop; nothing for an unmanaged target.
Stop(t) ==
    /\ pc[t] = "stop"
    /\ proxy' = [proxy EXCEPT ![t] = IF Alive(t) /\ Stops(t) THEN "gone" ELSE @]
    /\ dir' = dir \ {t}
    /\ Goto(t, "close")
    /\ UNCHANGED <<file, phase, canceled, sem, origin, port, outcome>>

\* A stop command or docker stop fails, or is cut off by the grace period:
\* stopRunning returns its error without waiting or killing.
StopFails(t) ==
    /\ pc[t] = "stop"
    /\ KindOf(Target(t)) = "docker" \/ StopCommand(t)
    /\ left' = [left EXCEPT ![t] = "stopFailed"]
    /\ dir' = dir \ {t}
    /\ Goto(t, "close")
    /\ UNCHANGED <<file, phase, canceled, sem, origin, port, proxy, err, ran, via>>

\* The stop command of a background process has ended well.  Nobody waits for the
\* proxy, or looks whether it has ended.
StopIsTrusted(t) ==
    /\ pc[t] = "stop"
    /\ IsProcess(t) /\ Target(t).process.background /\ Stops(t)
    /\ left' = [left EXCEPT ![t] = "stopTrusted"]
    /\ dir' = dir \ {t}
    /\ Goto(t, "close")
    /\ UNCHANGED <<file, phase, canceled, sem, origin, port, proxy, err, ran, via>>

CloseOrigin(t) ==
    /\ pc[t] = "close"
    /\ origin' = [origin EXCEPT ![t] = NoPort]
    /\ Goto(t, "release")
    /\ UNCHANGED <<file, phase, canceled, sem, port, proxy, dir, outcome>>

\* The origin's own context is done as soon as the run's is.
OriginCanceled(t) ==
    /\ canceled /\ origin[t] # NoPort
    /\ origin' = [origin EXCEPT ![t] = NoPort]
    /\ UNCHANGED <<file, phase, canceled, pc, sem, port, proxy, dir, outcome>>

\* The listener of an origin fails: Serve returns an error that nobody looks at.
OriginBreaks(t) ==
    /\ origin[t] \in Ports
    /\ origin' = [origin EXCEPT ![t] = Broken]
    /\ UNCHANGED <<file, phase, canceled, pc, sem, port, proxy, dir, outcome>>

Release(t) ==
    /\ pc[t] = "release"
    /\ sem' = sem \ {t}
    /\ Goto(t, "done")
    /\ UNCHANGED <<file, phase, canceled, lifecycle, outcome>>

Cancel ==
    /\ ~canceled /\ phase = "running"
    /\ canceled' = TRUE
    /\ UNCHANGED <<file, phase, pc, sem, lifecycle, outcome>>

\* wg.Wait
Report ==
    /\ phase = "running"
    /\ \A t \in Targets : pc[t] = "done"
    /\ phase' = "reported"
    /\ UNCHANGED <<file, canceled, pc, sem, lifecycle, outcome>>

----------------------------------------------------------------------------

TargetStep(t) ==
    /\ t \in Targets
    /\ \/ Acquire(t) \/ CanceledBeforeStart(t)
       \/ Listen(t) \/ ListenFails(t)
       \/ FreePort(t) \/ FreePortFails(t) \/ NetworkPort(t) \/ NoPortNeeded(t)
       \/ MakeDir(t) \/ MakeDirFails(t)
       \/ RunStart(t) \/ Launch(t) \/ LaunchFails(t) \/ LaunchAborted(t)
       \/ WaitReady(t) \/ WaitFails(t)
       \/ Exercise(t) \/ ExerciseFails(t)
       \/ Stop(t) \/ StopFails(t) \/ StopIsTrusted(t) \/ CloseOrigin(t) \/ Release(t)

Machine(t) ==
    /\ t \in Targets
    /\ ProxyBinds(t) \/ ProxyExits(t) \/ OriginCanceled(t) \/ OriginBreaks(t)

\* Run has returned; what was left alone goes on.
Returned == phase \in {"reported", "refused"} /\ UNCHANGED vars

Next ==
    \/ Load \/ LoadFails
    \/ \E t \in Names : TargetStep(t) \/ Machine(t)
    \/ Cancel \/ Report \/ Returned

\* The goroutine of t waits for a command that nothing is sure to end.  Output
\* waits for all who hold the command's output, and sets no WaitDelay: a proxy that
\* keeps the pipe of the command that started or stopped it keeps Output waiting,
\* also when the context has killed the command.  The container of a "docker run"
\* does not hold its pipe, and only the context ends a long one.
Blocked(t) ==
    /\ t \in Targets
    /\ \/ pc[t] = "launching" /\ (IsProcess(t) \/ ~canceled)
       \/ pc[t] = "stop" /\ StopCommand(t)

\* Other than that goroutines go on: the tests end, the probe has a deadline, and
\* stops have a grace period.
Fairness ==
    /\ WF_vars(Load \/ LoadFails) /\ WF_vars(Report)
    /\ \A t \in Names : WF_vars(~Blocked(t) /\ TargetStep(t))

Spec == Init /\ [][Next]_vars /\ Fairness

----------------------------------------------------------------------------
(***************************************************************************)
(* Properties.                                                             *)
(***************************************************************************)

\* orchestrate.go:110-126: the deferred calls stop the proxy before its origin,
\* so the origin of a proxy that was started and not yet stopped is not closed,
\* unless the run was canceled; nothing is said of one that broke by itself.
UpstreamOutlivesProxy ==
    \A t \in Targets :
        Alive(t) /\ left[t] = "none" /\ ~canceled => origin[t] # NoPort

\* orchestrate.go:74,92: no more than TargetConcurrency targets keep an origin
\* open or a proxy running at a time, not counting proxies left alone.
BoundedLoad ==
    Cardinality({t \in Targets :
        origin[t] # NoPort \/ (Alive(t) /\ left[t] = "none")}) <= Slots

\* When Run returns, on whatever path each target ended, no origin listens, no
\* work directory is left, and no proxy runs, but one that was left alone for one
\* of the Reasons.
CleanAfterRun ==
    phase = "reported" =>
        /\ dir = {} /\ sem = {}
        /\ \A t \in Targets : origin[t] = NoPort /\ (Alive(t) => left[t] # "none")

\* docs/architecture.md:204: a "lifecycle failure is never mistaken for a
\* pass": a finished target has results or an error, never both or neither.
FailureIsReported ==
    \A t \in Targets : pc[t] = "done" => (t \in err <=> t \notin ran)

\* The network that a managed target sees: the machine's own, or that of a
\* container behind docker's gateway or on a network with a name.
Network(t, os) ==
    IF t.docker = Nil \/ (NetworkMode(t.docker, os) = "host" /\ os = "linux") THEN "machine"
    ELSE IF IsNamedNetwork(t.docker, os) THEN "named" ELSE "gateway"

\* Within a network, a host leads to an origin that listens on the given interface
\* of the machine.  The loopback address is each network's own; docker's gateway is
\* one of the machine's interfaces, and leads to its loopback interface only where
\* docker runs in a virtual machine; on a named network Mecone is a container too,
\* known by its host name.
Leads(host, network, listen, os) ==
    CASE network = "machine" -> \/ host = listen /\ listen # AllInterfaces
                                \/ host = Loopback /\ listen = AllInterfaces
      [] network = "gateway" -> /\ host = Gateway
                                /\ \/ listen = AllInterfaces
                                   \/ listen = Loopback /\ os # "linux"
      [] network = "named"   -> host = Hostname /\ listen = AllInterfaces

\* docs/configuration.md:108-115: whatever targets a catalog mixes, every one that
\* is started is told a host that leads from its network to its origin, unless the
\* file itself names an interface or a host, or the machine has no name to tell.
\* pkg/orchestrate/orchestrate.go:166-167: the client reaches the control plane at
\* "the interface the origin bound", whichever the file names.
OriginIsReachable ==
    Targets # {} =>
        /\ Leads(ControlHost(config), "machine", ListenHost(config), config.os)
        /\ config.origin.listen \in {"", AllInterfaces} /\ config.origin.advertise = ""
              /\ config.hostname =>
              \A t \in Targets : IsManaged(t) =>
                  Leads(OriginHost(config, Target(t), config.os), Network(Target(t), config.os),
                        ListenHost(config), config.os)

\* Run returns for every target, canceled or not, whatever the proxies do, unless
\* a command that starts or stops one never ends.
CatalogReturns ==
    (\A t \in Names : []<>~Blocked(t)) => <>(phase \in {"reported", "refused"})

\* pkg/target/ready.go:36-37: "a port that something else claims first is a
\* startup failure, not a silent misconfiguration": the results of a target
\* come from its own proxy.
ClaimedPortIsStartupFailure ==
    \A t \in Targets : t \in ran => via[t] \subseteq {t}

\* docs/architecture.md:214-215: "canceling a run still stops what it started":
\* when a canceled run has returned, no proxy runs but one whose stop failed or was
\* trusted, or whose start had failed by itself.
CancelStillStops ==
    phase = "reported" /\ canceled =>
        \A t \in Targets : Alive(t) => left[t] \in {"stopFailed", "stopTrusted", "startFailed"}

\* docs/configuration.md:219-220: a foreground proxy is stopped with SIGTERM or
\* the stop command, "and SIGKILL five seconds later if it has not exited".
ForegroundIsKilled ==
    phase = "reported" /\ ~canceled =>
        \A t \in Targets : IsProcess(t) /\ ~StartReturns(t) => ~Alive(t)

=============================================================================
