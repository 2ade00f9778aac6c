------------------------------ MODULE Command -------------------------------
(***************************************************************************)
(* The commands of mecone (pkg/cli, cmd/mecone): what each of them does in *)
(* which order, with the origin that "origin" and "run" serve in process   *)
(* (module OriginServer), up to the exit code.                             *)
(*                                                                         *)
(* "catalog" is what "run" and "client" do with a configuration file that  *)
(* names targets.  How the tests run is the subject of Scheduler, TestRun  *)
(* and Catalog: here they end, with results of some kind.                  *)
(***************************************************************************)
EXTENDS OriginServer

CONSTANT Requests   \* the sets of output files that a command line asks for

\* What client.output and execReport hand to writeFiles, in that order.
FilesOf(c) ==
    CASE c \in {"run", "client", "catalog"} -> <<"json", "yaml", "csv", "md">>
      [] c = "report"                       -> <<"csv", "md">>
      [] OTHER                              -> <<>>

Files == {"json", "yaml", "csv", "md"}

ASSUME RequestsAssumption == Requests \subseteq SUBSET Files

Commands == {"origin", "run", "client", "catalog", "report", "list", "version", "help", "unknown"}

VARIABLES
    cmd,      \* the command
    asked,    \* the files it is asked for
    mpc,      \* where it is
    todo,     \* the files that writeFiles has not reached
    files,    \* what is at each path
    out,      \* what is on stdout
    found,    \* what the last check of the results will say of them
    err,      \* the error the command returns
    signal,   \* SIGINT or SIGTERM has arrived
    exit      \* the exit code

main == <<cmd, asked, mpc, todo, files, out, found, err, exit>>
vars == <<server, main, signal>>

CommandTypeOK ==
    /\ ServerTypeOK
    /\ cmd \in Commands /\ asked \in SUBSET Files
    /\ mpc \in {"parse", "check", "listen", "announce", "serve", "select", "handshake",
                "testing", "read", "blank", "files", "render", "verdict", "stop", "join",
                "return", "exited"}
    /\ todo \in Seq(Files)
    /\ files \in [Files -> {"before", "torn", "written"}]
    /\ out \in {"none", "torn", "written"}
    /\ found \in {"nothing", "good", "bad"}
    /\ err \in {"none", "help", "usage", "failed", "unwritten", "targets"}
    /\ signal \in BOOLEAN
    /\ exit \in {"running", "exitOK", "exitFailure", "exitUsage"}

Init ==
    /\ ServerInit
    /\ cmd \in Commands
    /\ asked \in {r \in Requests : \A f \in r : \E i \in DOMAIN FilesOf(cmd) : FilesOf(cmd)[i] = f}
    /\ mpc = "parse" /\ todo = <<>>
    /\ files = [f \in Files |-> "before"]
    /\ out = "none" /\ found = "nothing" /\ err = "none"
    /\ signal = FALSE /\ exit = "running"

Goto(p) == mpc' = p /\ UNCHANGED <<server, cmd, asked, todo, files, out, found, err, signal, exit>>

\* The command is over, with error e.  "run" has an origin to stop once it
\* has started one.
EndsWith(e) ==
    /\ err' = e
    /\ mpc' = IF cmd = "run" /\ spc \notin {"new", "failed"} THEN "stop" ELSE "return"

Ends(e) == EndsWith(e) /\ UNCHANGED <<server, cmd, asked, todo, files, out, found, signal, exit>>

----------------------------------------------------------------------------
(***************************************************************************)
(* Before any work.                                                        *)
(***************************************************************************)

Parse ==
    /\ mpc = "parse" /\ cmd # "unknown"
    /\ Goto(CASE cmd = "origin"              -> "listen"
              [] cmd = "list"                -> "select"
              [] cmd \in {"version", "help"} -> "render"
              [] OTHER                       -> "check")

\* No command, an unknown one, flags that do not parse, or -h.  Only "report"
\* looks whether its usage could be written.
ParseFails ==
    /\ mpc = "parse"
    /\ \/ cmd # "help" /\ Ends("usage")
       \/ cmd \notin {"help", "unknown"} /\ Ends("help")
       \/ cmd = "report" /\ Ends("unwritten")

\* The configuration file, the format, and that there is something to test.
Check ==
    /\ mpc = "check"
    /\ cmd = "run" => "plain" \in Listeners
    /\ Goto(CASE cmd = "run"    -> "listen"
              [] cmd = "report" -> "read"
              [] OTHER          -> "select")

CheckFails == mpc = "check" /\ Ends("failed")

Listen ==
    /\ mpc = "listen"
    /\ Bind \/ ListenFails
    /\ UNCHANGED <<main, signal>>

\* Faulty variant: serveAndTest cancels octx when it has started the goroutine.
ListenedStops ==
    /\ mpc = "listen"
    /\ \/ spc = "failed" /\ Ends("failed")
       \/ /\ spc = "bound"
          /\ StopServing
          /\ mpc' = IF cmd = "origin" THEN "announce" ELSE "select"
          /\ UNCHANGED <<spc, lsn, gor, shut, busy, idx, expired, broke>>
          /\ UNCHANGED <<cmd, asked, todo, files, out, found, err, signal, exit>>

Listened ==
    /\ mpc = "listen"
    /\ \/ spc = "failed" /\ Ends("failed")
       \/ spc = "bound" /\ Goto(IF cmd = "origin" THEN "announce" ELSE "select")

(***************************************************************************)
(* The origin: runOrigin, and the goroutine of serveAndTest.               *)
(***************************************************************************)

Announce ==
    /\ mpc = "announce"
    /\ out' = "written" /\ mpc' = "serve"
    /\ UNCHANGED <<server, cmd, asked, todo, files, found, err, signal, exit>>

AnnounceFails ==
    /\ mpc = "announce"
    /\ Close
    /\ err' = "failed" /\ mpc' = "return"
    /\ UNCHANGED <<cmd, asked, todo, files, out, found, signal, exit>>

\* "run" serves as soon as its goroutine is scheduled, however late.
Serve ==
    /\ IF cmd = "origin" THEN mpc = "serve" ELSE mpc # "listen"
    /\ StartServe
    /\ UNCHANGED <<main, signal>>

Served == mpc = "serve" /\ spc = "returned" /\ Ends(IF ServeFailed THEN "failed" ELSE "none")

(***************************************************************************)
(* The tests: execClient, execCatalog, runList.                            *)
(***************************************************************************)

Select ==
    /\ mpc = "select"
    /\ Goto(CASE cmd = "list"    -> "render"
              [] cmd = "catalog" -> "testing"
              [] OTHER           -> "handshake")

\* A corpus that does not load, a filter that selects nothing, a bad protocol.
SelectFails == mpc = "select" /\ Ends("failed")

\* "run" asks the origin that it serves.
Handshake ==
    /\ mpc = "handshake"
    /\ cmd = "run" => gor["plain"] = "serving" /\ "plain" \notin shut
    /\ Goto("testing")

HandshakeFails == mpc = "handshake" /\ Ends("failed")

\* Tests that are canceled or that find no origin end too, as errors in the
\* results.
Tested ==
    /\ mpc = "testing"
    /\ found' \in {"good", "bad"}
    /\ todo' = FilesOf(cmd)
    /\ mpc' = IF cmd = "catalog" THEN "blank" ELSE "files"
    /\ UNCHANGED <<server, cmd, asked, files, out, err, signal, exit>>

Read ==
    /\ mpc = "read"
    /\ found' \in {"good", "bad"}
    /\ todo' = FilesOf(cmd)
    /\ mpc' = "files"
    /\ UNCHANGED <<server, cmd, asked, files, out, err, signal, exit>>

ReadFails == mpc = "read" /\ Ends("failed")

(***************************************************************************)
(* The output.                                                             *)
(***************************************************************************)

\* The line that separates the results from the progress.
Blank ==
    /\ mpc = "blank"
    /\ out' = "torn" /\ mpc' = "files"
    /\ UNCHANGED <<server, cmd, asked, todo, files, found, err, signal, exit>>

BlankFails == mpc = "blank" /\ Ends("unwritten")

\* A file that was not asked for has no path, and is passed over.
WriteFile ==
    /\ mpc = "files" /\ todo # <<>>
    /\ files' = IF Head(todo) \in asked THEN [files EXCEPT ![Head(todo)] = "written"] ELSE files
    /\ todo' = Tail(todo)
    /\ UNCHANGED <<server, cmd, asked, mpc, out, found, err, signal, exit>>

\* Faulty variant: writeFiles goes on with the next file.
WriteFileFailsGoesOn ==
    /\ mpc = "files" /\ todo # <<>> /\ Head(todo) \in asked
    /\ \E s \in {"before", "torn"} : files' = [files EXCEPT ![Head(todo)] = s]
    /\ todo' = Tail(todo)
    /\ UNCHANGED <<server, cmd, asked, mpc, out, found, err, signal, exit>>

\* The file cannot be opened, or it has been emptied and cannot be written.
WriteFileFails ==
    /\ mpc = "files" /\ todo # <<>> /\ Head(todo) \in asked
    /\ \E s \in {"before", "torn"} : files' = [files EXCEPT ![Head(todo)] = s]
    /\ EndsWith("unwritten")
    /\ UNCHANGED <<server, cmd, asked, todo, out, found, signal, exit>>

Written ==
    /\ mpc = "files" /\ todo = <<>>
    /\ Goto("render")

Render ==
    /\ mpc = "render"
    /\ out' = "written"
    /\ IF cmd \in {"catalog", "report"}
       THEN mpc' = "verdict" /\ UNCHANGED err
       ELSE EndsWith("none")
    /\ UNCHANGED <<server, cmd, asked, todo, files, found, signal, exit>>

RenderFails ==
    /\ mpc = "render"
    /\ out' \in {out, "torn"}
    /\ EndsWith("unwritten")
    /\ UNCHANGED <<server, cmd, asked, todo, files, found, signal, exit>>

\* catalogError, checkMinMust
Verdict == mpc = "verdict" /\ Ends(IF found = "bad" THEN "targets" ELSE "none")

(***************************************************************************)
(* The end.                                                                *)
(***************************************************************************)

\* Faulty variant: an error returns at once.
StopOnlyAfterSuccess ==
    /\ mpc = "stop"
    /\ StopServing
    /\ mpc' = IF err = "none" THEN "join" ELSE "return"
    /\ UNCHANGED <<spc, lsn, gor, shut, busy, idx, expired, broke>>
    /\ UNCHANGED <<cmd, asked, todo, files, out, found, err, signal, exit>>

Stop ==
    /\ mpc = "stop"
    /\ StopServing
    /\ mpc' = "join"
    /\ UNCHANGED <<spc, lsn, gor, shut, busy, idx, expired, broke>>
    /\ UNCHANGED <<cmd, asked, todo, files, out, found, err, signal, exit>>

\* Faulty variant: the error of Serve is dropped.
JoinDropsServeError ==
    /\ mpc = "join" /\ spc = "returned"
    /\ mpc' = "return"
    /\ UNCHANGED <<server, cmd, asked, todo, files, out, found, err, signal, exit>>

\* wg.Wait, errors.Join
Join ==
    /\ mpc = "join" /\ spc = "returned"
    /\ err' = IF err = "none" /\ ServeFailed THEN "failed" ELSE err
    /\ mpc' = "return"
    /\ UNCHANGED <<server, cmd, asked, todo, files, out, found, signal, exit>>

Exit ==
    /\ mpc = "return"
    /\ exit' = CASE err \in {"none", "help"} -> "exitOK" [] err = "usage" -> "exitUsage" [] OTHER -> "exitFailure"
    /\ mpc' = "exited"
    /\ UNCHANGED <<server, cmd, asked, todo, files, out, found, err, signal>>

\* The context of every command is done.
Signal ==
    /\ ~signal /\ mpc # "exited"
    /\ signal' = TRUE
    /\ StopServing
    /\ UNCHANGED <<spc, lsn, gor, shut, busy, idx, expired, broke, main>>

Exited == mpc = "exited" /\ UNCHANGED vars

----------------------------------------------------------------------------

MainStep ==
    \/ Parse \/ ParseFails \/ Check \/ CheckFails \/ Listen \/ Listened
    \/ Announce \/ AnnounceFails \/ Served
    \/ Select \/ SelectFails \/ Handshake \/ HandshakeFails \/ Tested \/ Read \/ ReadFails
    \/ Blank \/ BlankFails \/ WriteFile \/ WriteFileFails \/ Written \/ Render \/ RenderFails
    \/ Verdict \/ Stop \/ Join \/ Exit

ServerStep == Serve \/ (mpc # "exited" /\ Serving /\ UNCHANGED <<main, signal>>)

Next ==
    \/ MainStep \/ ServerStep \/ Signal \/ Exited
    \/ mpc # "exited" /\ Disturbs /\ UNCHANGED <<main, signal>>

(***************************************************************************)
(* The goroutines run, tests end (RunReturns of Scheduler, and for         *)
(* "catalog" CatalogReturns of Catalog, whose premise is that the programs *)
(* it starts let go of their output), and the limit on a shutdown passes.  *)
(* Nothing makes a handler end, a signal arrive or a listener break.       *)
(***************************************************************************)
Fairness == WF_vars(MainStep) /\ WF_vars(ServerStep)

Spec == Init /\ [][Next]_vars /\ Fairness

----------------------------------------------------------------------------
(***************************************************************************)
(* Properties.                                                             *)
(***************************************************************************)

\* A command that is over, whichever step of it failed, has left nothing that
\* listens and no goroutine that serves: Serve waits for both of its own,
\* Listen gives the first listener up when the second fails, and serveAndTest
\* stops its origin on every path.
NothingLeftServing ==
    mpc \in {"return", "exited"} =>
        \A l \in Listeners : lsn[l] # "open" /\ gor[l] \in {"none", "ended"}

\* Serve returns with a handler in flight only when the limit on the shutdown
\* has passed: the answers under way are not cut off by a signal.
GracefulUnlessLate == spc \in {"wait", "returned"} => busy = {} \/ expired

\* A listener that breaks before anybody asked the origin to stop fails the
\* command, even if its tests went through and their report was written; being
\* told to stop is no failure of "origin", whatever breaks during the shutdown.
BrokenOriginIsReported ==
    exit # "running" /\ spc = "returned" =>
        /\ broke => exit = "exitFailure"
        /\ cmd = "origin" /\ ~broke => exit = "exitOK"

\* The in-process origin is there for as long as the client of the same
\* process tests, unless a signal or a broken listener ends it.
OriginOutlivesClient ==
    cmd = "run" /\ mpc \in {"handshake", "testing"} /\ ~signal /\ ~broke =>
        spc \in {"bound", "serving"} /\ lsn["plain"] = "open"

\* A command that had results to report and exits with 0 has written every
\* file it was asked for and its summary, and found no target that failed.
SuccessIsComplete ==
    exit = "exitOK" /\ found # "nothing" =>
        /\ \A f \in asked : files[f] = "written"
        /\ out = "written"
        /\ cmd \in {"catalog", "report"} => found = "good"

\* Every command ends by itself but "origin", which ends after a signal or a
\* broken listener: handlers that never end do not keep it.
CommandEnds == (cmd # "origin" \/ signal \/ broke) ~> (mpc = "exited")

=============================================================================
