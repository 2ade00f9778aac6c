----------------------------- MODULE MCCatalog -----------------------------
(***************************************************************************)
(* Values of the constants of Catalog for TLC: configuration files, to be  *)
(* run or to be refused.                                                   *)
(***************************************************************************)
EXTENDS Catalog

CONSTANTS a, b, c

----------------------------------------------------------------------------

Bare(name) ==
    [name |-> name, proxy |-> Nil, docker |-> Nil, process |-> Nil, readiness |-> Nil, settle |-> 0]

Process(stop, background) ==
    [start |-> "proxy", stop |-> stop, background |-> background, files |-> <<>>]
Container(network) ==
    [image |-> "proxy", network |-> network, port |-> 0, pull |-> "", files |-> <<>>]
Endpoint(pinned) == [url |-> "http", originPort |-> pinned]

ProcessTarget(name, stop, background) == [Bare(name) EXCEPT !.process = Process(stop, background)]
DockerTarget(name, network) == [Bare(name) EXCEPT !.docker = Container(network)]
ProxyTarget(name, pinned) == [Bare(name) EXCEPT !.proxy = Endpoint(pinned)]

\* A file that gives nothing but targets, and how many to test at a time.
Catalog(targets, slots) ==
    [os |-> "linux", hostname |-> TRUE, run |-> [targets |-> slots, known |-> TRUE, timeout |-> 0],
     origin |-> [listen |-> "", advertise |-> ""], targets |-> targets]

Probing(t, path, status) ==
    [t EXCEPT !.readiness = [path |-> path, status |-> status, timeout |-> 0, interval |-> 0]]

File(source, content, absolute) ==
    [source |-> source, content |-> content, target |-> "conf", absolute |-> absolute]

----------------------------------------------------------------------------
(***************************************************************************)
(* Files that are run.                                                     *)
(***************************************************************************)

\* A foreground process and two unmanaged proxies, the origin of one pinned, two
\* at a time; and a process and a container at once.
Three == Catalog(<< ProcessTarget(a, "", FALSE), ProxyTarget(b, 0), ProxyTarget(c, 1) >>, 2)
Two == Catalog(<< ProcessTarget(a, "", FALSE), DockerTarget(b, "") >>, 2)

\* A start command that returns, and a container on a docker network that binds
\* all origins everywhere.
Networked ==
    Catalog(<< Probing(ProcessTarget(a, "stop", TRUE), "/health", {404}), DockerTarget(b, "lab") >>, 0)

\* Containers that publish the same port, one after the other and at once.
Bridged(slots) == Catalog(<< DockerTarget(a, "bridge"), DockerTarget(b, "bridge") >>, slots)

\* Docker in a virtual machine.
Elsewhere ==
    [Catalog(<< DockerTarget(a, ""), DockerTarget(b, "host") >>, 1) EXCEPT !.os = "other"]

\* A machine that cannot tell its name.
Nameless == [Catalog(<< DockerTarget(a, "lab") >>, 1) EXCEPT !.hostname = FALSE]

\* The file names an interface and a host.
Named ==
    [Catalog(<< ProxyTarget(a, 0), DockerTarget(b, "lab") >>, 1)
        EXCEPT !.origin = [listen |-> "10.0.0.1", advertise |-> "mecone"]]

(***************************************************************************)
(* Files that are refused, or have nothing to run.                         *)
(***************************************************************************)

Refused == <<
    Catalog(<<>>, 1),
    Catalog(<< Nil >>, 1),
    Catalog(<< Bare(a) >>, 1),
    Catalog(<< ProxyTarget("?", 0) >>, 1),
    Catalog(<< ProxyTarget(a, 0), ProxyTarget(a, 1) >>, 1),
    Catalog(<< ProxyTarget(a, MaxPort + 1) >>, 1),
    Catalog(<< [ProxyTarget(a, 0) EXCEPT !.docker = Container("")] >>, 1),
    Catalog(<< ProcessTarget(a, "", TRUE) >>, 1),
    Catalog(<< ProcessTarget(a, "${PID}", TRUE) >>, 1),
    Catalog(<< [ProcessTarget(a, "", FALSE) EXCEPT !.process.files = << File("f", "", TRUE) >>] >>, 1),
    Catalog(<< [DockerTarget(a, "") EXCEPT !.docker.files = << File("f", "g", TRUE) >>] >>, 1),
    Catalog(<< [DockerTarget(a, "") EXCEPT !.docker.pull = "often"] >>, 1),
    Catalog(<< Probing(ProxyTarget(a, 0), "", {20}) >>, 1),
    Catalog(<< [ProxyTarget(a, 0) EXCEPT !.settle = -1] >>, 1),
    [Catalog(<< ProxyTarget(a, 0) >>, 1) EXCEPT !.run.known = FALSE] >>

MCCatalogs == << Three, Two, Networked, Bridged(1), Bridged(2), Elsewhere, Nameless, Named >> \o Refused

\* A process with a stop command, and a container.
MCStopped == << Catalog(<< ProcessTarget(a, "stop", FALSE), DockerTarget(b, "") >>, 2) >>

=============================================================================
