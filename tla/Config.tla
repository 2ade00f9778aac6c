------------------------------- MODULE Config -------------------------------
(***************************************************************************)
(* The configuration of a catalog run (pkg/config): what Validate accepts, *)
(* and what the rest of the program reads from it, with the addresses that *)
(* pkg/target and pkg/orchestrate derive.                                  *)
(*                                                                         *)
(* A section that is not given is Nil.  Patterns and URLs are reduced to   *)
(* whether they are well formed: "?" is a malformed one, "" an unset one.  *)
(***************************************************************************)
EXTENDS Integers, Sequences, FiniteSets, SequencesExt

CONSTANTS
    Nil,
    MaxPort,        \* maxPort
    ContainerPort   \* DefaultContainerPort

DefaultTargetConcurrency == 10

\* The interfaces and hosts that the code names.
Loopback == "127.0.0.1"
AllInterfaces == "0.0.0.0"
Gateway == "host.docker.internal"
Hostname == "hostname"

----------------------------------------------------------------------------
(***************************************************************************)
(* Docker networks, and the machine's operating system.                    *)
(***************************************************************************)

JoinsNetwork(d) == d.network \notin {"", "host"}
Port(d) == IF d.port <= 0 THEN ContainerPort ELSE d.port
PullPolicy(d) == IF d.pull = "" THEN "missing" ELSE d.pull

NetworkMode(d, os) ==
    IF d.network # "" THEN d.network ELSE IF os = "linux" THEN "host" ELSE "bridge"

\* The container has an address of its own, not one of this machine.
IsNamedNetwork(d, os) == NetworkMode(d, os) \notin {"host", "bridge"}

\* Target.Kind and Target.Managed
KindOf(t) == IF t.docker # Nil THEN "docker" ELSE IF t.process # Nil THEN "process" ELSE "proxy"
Managed(t) == KindOf(t) # "proxy"
Joins(t) == t.docker # Nil /\ JoinsNetwork(t.docker)

(***************************************************************************)
(* Validate.                                                               *)
(***************************************************************************)

ValidProxy(p) == p.url \notin {"", "?"} /\ p.originPort \in 0..MaxPort

ValidFile(f, absolute) ==
    /\ (f.source = "") # (f.content = "")
    /\ f.target # "" /\ f.absolute = absolute

ValidDocker(d) ==
    /\ d.image # ""
    /\ PullPolicy(d) \in {"missing", "always", "never"}
    /\ d.port \in 0..MaxPort
    /\ \A i \in DOMAIN d.files : ValidFile(d.files[i], TRUE)

\* Faulty variant: a background start command needs no stop command.
ValidProcessUnstoppable(p) ==
    /\ p.start # ""
    /\ \A i \in DOMAIN p.files : ValidFile(p.files[i], FALSE)

\* A background start command leaves no process to signal or to name.
ValidProcess(p) ==
    /\ p.start # ""
    /\ p.background => p.stop \notin {"", "${PID}"}
    /\ \A i \in DOMAIN p.files : ValidFile(p.files[i], FALSE)

ValidReadiness(r) == r.status \subseteq 100..999 /\ r.timeout >= 0 /\ r.interval >= 0

\* Target.validateKind looks at the first section only.
ValidKind(t) ==
    IF t.proxy # Nil THEN ValidProxy(t.proxy)
    ELSE IF t.docker # Nil THEN ValidDocker(t.docker)
    ELSE t.process # Nil => ValidProcess(t.process)

ValidTarget(t) ==
    /\ t.name # "?"
    /\ Cardinality({s \in {"proxy", "docker", "process"} : t[s] # Nil}) = 1
    /\ ValidKind(t)
    /\ t.readiness # Nil => ValidReadiness(t.readiness)
    /\ t.settle >= 0

\* Run.validate: the protocols and the levels are known ones.
ValidRun(r) == r.known /\ r.timeout >= 0

Validate(c) ==
    /\ ValidRun(c.run)
    /\ \A i \in DOMAIN c.targets : c.targets[i] # Nil /\ ValidTarget(c.targets[i])
    /\ \A i, j \in DOMAIN c.targets : i # j => c.targets[i].name # c.targets[j].name

(***************************************************************************)
(* What is read from a configuration.                                      *)
(***************************************************************************)

TargetConcurrency(c) == IF c.run.targets <= 0 THEN DefaultTargetConcurrency ELSE c.run.targets

\* Target.Probe, over its defaults
Probe(t) ==
    LET r == t.readiness
    IN  IF r = Nil THEN [path |-> "info", status |-> {200}]
        ELSE [path   |-> IF r.path # "" THEN r.path ELSE "info",
              status |-> IF r.status # {} THEN r.status ELSE {200}]

\* Faulty variant: only the first target is looked at.
ListenHostOfFirst(c) ==
    IF c.origin.listen # "" THEN c.origin.listen
    ELSE IF c.targets # <<>> /\ Joins(c.targets[1]) THEN AllInterfaces ELSE Loopback

\* The interface of all origins: one container on a docker network is enough
\* to bind them everywhere.
ListenHost(c) ==
    IF c.origin.listen # "" THEN c.origin.listen
    ELSE IF \E i \in DOMAIN c.targets : Joins(c.targets[i]) THEN AllInterfaces ELSE Loopback

\* Options.controlHost
ControlHost(c) == IF ListenHost(c) # AllInterfaces THEN ListenHost(c) ELSE Loopback

\* target.OriginHost, unless the configuration advertises a host.  A machine that
\* cannot tell its name gives the loopback address instead.
OriginHost(c, t, os) ==
    IF c.origin.advertise # "" THEN c.origin.advertise
    ELSE IF t.docker = Nil THEN Loopback
    ELSE IF NetworkMode(t.docker, os) = "host" /\ os = "linux" THEN Loopback
    ELSE IF ~IsNamedNetwork(t.docker, os) THEN Gateway
    ELSE IF c.hostname THEN Hostname ELSE Loopback

=============================================================================
