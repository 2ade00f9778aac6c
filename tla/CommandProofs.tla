--------------------------- MODULE CommandProofs ---------------------------
(***************************************************************************)
(* Proofs about Command and the OriginServer in it, for every choice of    *)
(* listeners and every choice of output files.                             *)
(***************************************************************************)
EXTENDS Command, TLAPS

(***************************************************************************)
(* The inductive invariant, first of the server by itself.                 *)
(***************************************************************************)

Unserved == {"new", "secure", "bound", "failed"}

\* Nothing of Serve has happened before it is called.
UnservedInv ==
    /\ spc \in Unserved =>
           /\ \A l \in Listeners : gor[l] = "none"
           /\ busy = {} /\ cause = "none" /\ ~expired
    /\ spc \notin Unserved => \A l \in Listeners : gor[l] # "none"
    /\ spc \in Unserved \cup {"serving"} => shut = {} /\ idx = 1

\* What is bound, and what of it is still open.
ListenerInv ==
    /\ spc = "new" => \A l \in Listeners : lsn[l] = "none"
    /\ spc = "secure" => \A l \in Listeners : lsn[l] = IF l = "plain" THEN "open" ELSE "none"
    /\ spc = "bound" => \A l \in Listeners : lsn[l] = "open"
    /\ spc = "failed" => \A l \in Listeners : lsn[l] # "open"
    /\ \A l \in Listeners :
           /\ gor[l] = "ended" => lsn[l] = "closed"
           /\ gor[l] = "serving" /\ l \in shut => lsn[l] = "closed"
           /\ gor[l] \in {"starting", "serving"} /\ l \notin shut => lsn[l] = "open"

\* Serve leaves its wait for a reason only, and remembers the first one.
CauseInv ==
    /\ spc \notin Unserved \cup {"serving"} => cause # "none"
    /\ \A l \in Listeners : gor[l] = "ended" => cause # "none"
    /\ spc \notin Unserved /\ stopped => cause # "none"
    /\ cause = "canceled" => stopped
    /\ cause = "failed" <=> broke

\* How far the shutdown has come.
ShutdownInv ==
    /\ \A i \in 1..(idx - 1) : Bindings[i] \in shut /\ (Bindings[i] \notin busy \/ expired)
    /\ spc = "draining" => idx <= Len(Bindings) /\ Bindings[idx] \in shut
    /\ spc \in {"wait", "returned"} => idx > Len(Bindings)
    /\ spc = "returned" => \A l \in Listeners : gor[l] = "ended"

ServerInv == ServerTypeOK /\ UnservedInv /\ ListenerInv /\ CauseInv /\ ShutdownInv

(***************************************************************************)
(* Then of the command.                                                    *)
(***************************************************************************)

Over == {"stop", "join", "return", "exited"}
Early == {"parse", "check", "listen", "announce", "serve", "select", "handshake", "testing", "read"}

\* Which commands have an origin, and how far it is while they are where.
OriginInv ==
    /\ cmd \notin {"origin", "run"} => spc = "new"
    /\ mpc \in {"parse", "check"} => spc = "new"
    /\ mpc = "listen" => spc \in Unserved /\ cmd \in {"origin", "run"}
    /\ mpc \in {"announce", "serve"} => cmd = "origin"
    /\ cmd = "origin" =>
           /\ mpc \in {"parse", "listen", "announce", "serve", "return", "exited"}
           /\ mpc = "announce" => spc = "bound"
           /\ mpc = "serve" => spc \notin {"new", "secure", "failed"}
    /\ cmd = "run" =>
           /\ mpc \in {"parse", "check", "listen", "select", "handshake", "testing", "files",
                       "render", "stop", "join", "return", "exited"}
           /\ mpc \notin {"parse", "check", "return", "exited"} => "plain" \in Listeners
           /\ mpc \notin {"parse", "check", "listen", "return", "exited"} =>
                  spc \notin {"new", "secure", "failed"}
           /\ stopped => signal \/ mpc \in {"join", "return", "exited"}
    /\ mpc \in {"stop", "join"} => cmd = "run"
    /\ mpc \in {"return", "exited"} => spc \in {"new", "failed", "returned"}

\* Errors of the command line come before there is an origin, and an origin
\* that broke is an error.
ErrorInv ==
    /\ err \in {"help", "usage"} => spc = "new" /\ mpc \in {"return", "exited"}
    /\ mpc \in {"return", "exited"} /\ spc = "returned" =>
           /\ broke => err \notin {"none", "help", "usage"}
           /\ cmd = "origin" /\ ~broke => err = "none"
    /\ IF mpc = "exited"
       THEN exit = CASE err \in {"none", "help"} -> "exitOK"
                     [] err = "usage"            -> "exitUsage"
                     [] OTHER                    -> "exitFailure"
       ELSE exit = "running"

\* What has been written when.
OutputInv ==
    /\ \A f \in asked : \E i \in DOMAIN FilesOf(cmd) : FilesOf(cmd)[i] = f
    /\ mpc \in Early => found = "nothing"
    /\ mpc = "blank" => cmd = "catalog"
    /\ mpc \in {"blank", "files"} =>
           \A f \in asked : files[f] = "written" \/ \E i \in 1..Len(todo) : todo[i] = f
    /\ mpc \in {"render", "verdict"} /\ found # "nothing" =>
           \A f \in asked : files[f] = "written"
    /\ mpc = "verdict" => out = "written"
    /\ mpc \in Over /\ err \in {"none", "help"} /\ found # "nothing" =>
           /\ \A f \in asked : files[f] = "written"
           /\ out = "written"
           /\ cmd \in {"catalog", "report"} => found = "good"

IInv == CommandTypeOK /\ ServerInv /\ OriginInv /\ ErrorInv /\ OutputInv

----------------------------------------------------------------------------
\* Bindings lists the listeners, each of them once.
LEMMA BindingsFacts ==
    /\ Len(Bindings) \in Nat
    /\ \A i \in 1..Len(Bindings) : Bindings[i] \in Listeners
    /\ \A l \in Listeners : \E i \in 1..Len(Bindings) : Bindings[i] = l
  BY ListenersAssumption DEF Bindings

LEMMA ServerInitInv == ServerInit => ServerInv
<1> SUFFICES ASSUME ServerInit PROVE ServerInv
  OBVIOUS
<1>1. ServerTypeOK
  <2>1. 1 \in 1..(Len(Bindings) + 1)
    BY BindingsFacts
  <2> QED BY <2>1 DEF ServerInit, ServerTypeOK
<1>2. UnservedInv /\ ListenerInv /\ CauseInv /\ ShutdownInv
  BY DEF ServerInit, UnservedInv, ListenerInv, CauseInv, ShutdownInv, Unserved
<1> QED BY <1>1, <1>2 DEF ServerInv

\* Every step of the server keeps its invariant.
LEMMA ServerStepInv ==
    ASSUME ServerInv, Bind \/ ListenFails \/ Close \/ StartServe \/ Serving \/ Disturbs
    PROVE  ServerInv'
<1> USE BindingsFacts, ListenersAssumption DEF ServerInv
<1>1. ASSUME BindPlain PROVE ServerInv'
  <2> USE <1>1 DEF BindPlain, Opened
  <2>1. ServerTypeOK'
    BY DEF ServerTypeOK
  <2>2. UnservedInv'
    BY DEF ServerTypeOK, UnservedInv, Unserved
  <2>3. ListenerInv'
    BY DEF ServerTypeOK, UnservedInv, ListenerInv, Unserved
  <2>4. CauseInv'
    BY DEF ServerTypeOK, UnservedInv, CauseInv, Unserved
  <2>5. ShutdownInv'
    BY DEF ServerTypeOK, UnservedInv, ShutdownInv, Unserved
  <2> QED BY <2>1, <2>2, <2>3, <2>4, <2>5
<1>2. ASSUME ListenFails PROVE ServerInv'
  <2> USE <1>2 DEF ListenFails
  <2>1. ServerTypeOK'
    BY DEF ServerTypeOK
  <2>2. UnservedInv'
    BY DEF ServerTypeOK, UnservedInv, Unserved
  <2>3. ListenerInv'
    BY DEF ServerTypeOK, UnservedInv, ListenerInv, Unserved
  <2>4. CauseInv'
    BY DEF ServerTypeOK, UnservedInv, CauseInv, Unserved
  <2>5. ShutdownInv'
    BY DEF ServerTypeOK, UnservedInv, ShutdownInv, Unserved
  <2> QED BY <2>1, <2>2, <2>3, <2>4, <2>5
<1>3. ASSUME BindSecure PROVE ServerInv'
  <2> USE <1>3 DEF BindSecure, Opened
  <2>1. ServerTypeOK'
    BY DEF ServerTypeOK
  <2>2. UnservedInv'
    BY DEF ServerTypeOK, UnservedInv, Unserved
  <2>3. ListenerInv'
    BY DEF ServerTypeOK, UnservedInv, ListenerInv, Unserved
  <2>4. CauseInv'
    BY DEF ServerTypeOK, UnservedInv, CauseInv, Unserved
  <2>5. ShutdownInv'
    BY DEF ServerTypeOK, UnservedInv, ShutdownInv, Unserved
  <2> QED BY <2>1, <2>2, <2>3, <2>4, <2>5
<1>4. ASSUME BindSecureFails PROVE ServerInv'
  <2> USE <1>4 DEF BindSecureFails, AllClosed
  <2>1. ServerTypeOK'
    BY DEF ServerTypeOK
  <2>2. UnservedInv'
    BY DEF ServerTypeOK, UnservedInv, Unserved
  <2>3. ListenerInv'
    BY DEF ServerTypeOK, UnservedInv, ListenerInv, Unserved
  <2>4. CauseInv'
    BY DEF ServerTypeOK, UnservedInv, CauseInv, Unserved
  <2>5. ShutdownInv'
    BY DEF ServerTypeOK, UnservedInv, ShutdownInv, Unserved
  <2> QED BY <2>1, <2>2, <2>3, <2>4, <2>5
<1>5. ASSUME Close PROVE ServerInv'
  <2> USE <1>5 DEF Close, AllClosed
  <2>1. ServerTypeOK'
    BY DEF ServerTypeOK
  <2>2. UnservedInv'
    BY DEF ServerTypeOK, UnservedInv, Unserved
  <2>3. ListenerInv'
    BY DEF ServerTypeOK, UnservedInv, ListenerInv, Unserved
  <2>4. CauseInv'
    BY DEF ServerTypeOK, UnservedInv, CauseInv, Unserved
  <2>5. ShutdownInv'
    BY DEF ServerTypeOK, UnservedInv, ShutdownInv, Unserved
  <2> QED BY <2>1, <2>2, <2>3, <2>4, <2>5
<1>6. ASSUME StartServe PROVE ServerInv'
  <2> USE <1>6 DEF StartServe, Canceled
  <2>1. ServerTypeOK'
    BY DEF ServerTypeOK
  <2>2. UnservedInv'
    BY DEF ServerTypeOK, UnservedInv, Unserved
  <2>3. ListenerInv'
    BY DEF ServerTypeOK, UnservedInv, ListenerInv, Unserved
  <2>4. CauseInv'
    BY DEF ServerTypeOK, UnservedInv, CauseInv, Unserved
  <2>5. ShutdownInv'
    BY DEF ServerTypeOK, UnservedInv, ShutdownInv, Unserved
  <2> QED BY <2>1, <2>2, <2>3, <2>4, <2>5
<1>7. ASSUME SeesDone PROVE ServerInv'
  <2> USE <1>7 DEF SeesDone
  <2>1. ServerTypeOK'
    BY DEF ServerTypeOK
  <2>2. UnservedInv'
    BY DEF ServerTypeOK, UnservedInv, Unserved
  <2>3. ListenerInv'
    BY DEF ServerTypeOK, UnservedInv, ListenerInv, Unserved
  <2>4. CauseInv'
    BY DEF ServerTypeOK, UnservedInv, CauseInv, Unserved
  <2>5. ShutdownInv'
    BY DEF ServerTypeOK, UnservedInv, ShutdownInv, Unserved
  <2> QED BY <2>1, <2>2, <2>3, <2>4, <2>5
<1>8. ASSUME ShutdownNext PROVE ServerInv'
  <2> USE <1>8 DEF ShutdownNext, Closed
  <2>0. Bindings[idx] \in Listeners
    BY DEF ServerTypeOK
  <2>1. ServerTypeOK'
    <3>1. lsn' \in [Listeners -> {"none", "open", "closed"}]
      BY DEF ServerTypeOK
    <3>2. shut' \subseteq Listeners
      BY <2>0 DEF ServerTypeOK
    <3> QED BY <3>1, <3>2 DEF ServerTypeOK
  <2>2. UnservedInv'
    BY <2>0 DEF ServerTypeOK, UnservedInv, Unserved
  <2>3. ListenerInv'
    BY <2>0 DEF ServerTypeOK, UnservedInv, ListenerInv, Unserved
  <2>4. CauseInv'
    BY <2>0 DEF ServerTypeOK, UnservedInv, CauseInv, Unserved
  <2>5. ShutdownInv'
    BY <2>0 DEF ServerTypeOK, UnservedInv, ShutdownInv, Unserved
  <2> QED BY <2>1, <2>2, <2>3, <2>4, <2>5
<1>9. ASSUME ShutdownEnds PROVE ServerInv'
  <2> USE <1>9 DEF ShutdownEnds
  <2>1. ServerTypeOK'
    BY DEF ServerTypeOK, ShutdownInv
  <2>2. UnservedInv'
    BY DEF ServerTypeOK, UnservedInv, Unserved
  <2>3. ListenerInv'
    BY DEF ServerTypeOK, UnservedInv, ListenerInv, Unserved
  <2>4. CauseInv'
    BY DEF ServerTypeOK, UnservedInv, CauseInv, Unserved
  <2>5. ShutdownInv'
    BY DEF ServerTypeOK, UnservedInv, ShutdownInv, Unserved
  <2> QED BY <2>1, <2>2, <2>3, <2>4, <2>5
<1>10. ASSUME Expire PROVE ServerInv'
  <2> USE <1>10 DEF Expire
  <2>1. ServerTypeOK'
    BY DEF ServerTypeOK
  <2>2. UnservedInv'
    BY DEF ServerTypeOK, UnservedInv, Unserved
  <2>3. ListenerInv'
    BY DEF ServerTypeOK, UnservedInv, ListenerInv, Unserved
  <2>4. CauseInv'
    BY DEF ServerTypeOK, UnservedInv, CauseInv, Unserved
  <2>5. ShutdownInv'
    BY DEF ServerTypeOK, UnservedInv, ShutdownInv, Unserved
  <2> QED BY <2>1, <2>2, <2>3, <2>4, <2>5
<1>11. ASSUME ShutdownDone PROVE ServerInv'
  <2> USE <1>11 DEF ShutdownDone
  <2>1. ServerTypeOK'
    BY DEF ServerTypeOK
  <2>2. UnservedInv'
    BY DEF ServerTypeOK, UnservedInv, Unserved
  <2>3. ListenerInv'
    BY DEF ServerTypeOK, UnservedInv, ListenerInv, Unserved
  <2>4. CauseInv'
    BY DEF ServerTypeOK, UnservedInv, CauseInv, Unserved
  <2>5. ShutdownInv'
    BY DEF ServerTypeOK, UnservedInv, ShutdownInv, Unserved
  <2> QED BY <2>1, <2>2, <2>3, <2>4, <2>5
<1>12. ASSUME ServeReturns PROVE ServerInv'
  <2> USE <1>12 DEF ServeReturns
  <2>1. ServerTypeOK'
    BY DEF ServerTypeOK
  <2>2. UnservedInv'
    BY DEF ServerTypeOK, UnservedInv, Unserved
  <2>3. ListenerInv'
    BY DEF ServerTypeOK, UnservedInv, ListenerInv, Unserved
  <2>4. CauseInv'
    BY DEF ServerTypeOK, UnservedInv, CauseInv, Unserved
  <2>5. ShutdownInv'
    BY DEF ServerTypeOK, UnservedInv, ShutdownInv, Unserved
  <2> QED BY <2>1, <2>2, <2>3, <2>4, <2>5
<1>13. ASSUME NEW l \in Listeners, Accepts(l) PROVE ServerInv'
  <2> USE <1>13 DEF Accepts, Closed
  <2>1. ServerTypeOK'
    BY DEF ServerTypeOK
  <2>2. UnservedInv'
    BY DEF ServerTypeOK, UnservedInv, Unserved
  <2>3. ListenerInv'
    BY DEF ServerTypeOK, UnservedInv, ListenerInv, Unserved
  <2>4. CauseInv'
    BY DEF ServerTypeOK, UnservedInv, CauseInv, Unserved
  <2>5. ShutdownInv'
    BY DEF ServerTypeOK, UnservedInv, ShutdownInv, Unserved
  <2> QED BY <2>1, <2>2, <2>3, <2>4, <2>5
<1>14. ASSUME NEW l \in Listeners, ServerClosed(l) PROVE ServerInv'
  <2> USE <1>14 DEF ServerClosed
  <2>1. ServerTypeOK'
    BY DEF ServerTypeOK
  <2>2. UnservedInv'
    BY DEF ServerTypeOK, UnservedInv, Unserved
  <2>3. ListenerInv'
    BY DEF ServerTypeOK, UnservedInv, ListenerInv, Unserved
  <2>4. CauseInv'
    BY DEF ServerTypeOK, UnservedInv, CauseInv, Unserved
  <2>5. ShutdownInv'
    BY DEF ServerTypeOK, UnservedInv, ShutdownInv, Unserved
  <2> QED BY <2>1, <2>2, <2>3, <2>4, <2>5
<1>15. ASSUME NEW l \in Listeners, Breaks(l) PROVE ServerInv'
  <2> USE <1>15 DEF Breaks, Closed, Canceled
  <2>1. ServerTypeOK'
    BY DEF ServerTypeOK
  <2>2. UnservedInv'
    BY DEF ServerTypeOK, UnservedInv, Unserved
  <2>3. ListenerInv'
    BY DEF ServerTypeOK, UnservedInv, ListenerInv, Unserved
  <2>4. CauseInv'
    BY DEF ServerTypeOK, UnservedInv, CauseInv, Unserved
  <2>5. ShutdownInv'
    BY DEF ServerTypeOK, UnservedInv, ShutdownInv, Unserved
  <2> QED BY <2>1, <2>2, <2>3, <2>4, <2>5
<1>16. ASSUME NEW l \in Listeners, Handles(l) PROVE ServerInv'
  <2> USE <1>16 DEF Handles
  <2>1. ServerTypeOK'
    BY DEF ServerTypeOK
  <2>2. UnservedInv'
    BY DEF ServerTypeOK, UnservedInv, Unserved
  <2>3. ListenerInv'
    BY DEF ServerTypeOK, UnservedInv, ListenerInv, Unserved
  <2>4. CauseInv'
    BY DEF ServerTypeOK, UnservedInv, CauseInv, Unserved
  <2>5. ShutdownInv'
    BY DEF ServerTypeOK, UnservedInv, ShutdownInv, Unserved
  <2> QED BY <2>1, <2>2, <2>3, <2>4, <2>5
<1>17. ASSUME NEW l \in Listeners, HandlerEnds(l) PROVE ServerInv'
  <2> USE <1>17 DEF HandlerEnds
  <2>1. ServerTypeOK'
    BY DEF ServerTypeOK
  <2>2. UnservedInv'
    BY DEF ServerTypeOK, UnservedInv, Unserved
  <2>3. ListenerInv'
    BY DEF ServerTypeOK, UnservedInv, ListenerInv, Unserved
  <2>4. CauseInv'
    BY DEF ServerTypeOK, UnservedInv, CauseInv, Unserved
  <2>5. ShutdownInv'
    BY DEF ServerTypeOK, UnservedInv, ShutdownInv, Unserved
  <2> QED BY <2>1, <2>2, <2>3, <2>4, <2>5
<1> QED BY <1>1, <1>2, <1>3, <1>4, <1>5, <1>6, <1>7, <1>8, <1>9, <1>10, <1>11, <1>12, <1>13, <1>14, <1>15, <1>16, <1>17 DEF Bind, Serving, Disturbs

\* Neither does the end of its context disturb it.
LEMMA StopServingInv ==
    ASSUME ServerInv, StopServing,
           UNCHANGED <<spc, lsn, gor, shut, busy, idx, expired, broke>>
    PROVE  ServerInv'
<1> USE DEF ServerInv, StopServing, Canceled
<1>1. ServerTypeOK'
  BY DEF ServerTypeOK
<1>2. UnservedInv' /\ ListenerInv'
  BY DEF ServerTypeOK, UnservedInv, ListenerInv, Unserved
<1>3. CauseInv'
  BY DEF ServerTypeOK, UnservedInv, CauseInv, Unserved
<1>4. ShutdownInv'
  BY DEF ShutdownInv
<1> QED BY <1>1, <1>2, <1>3, <1>4

\* A step that leaves the server alone keeps its invariant.
LEMMA ServerUnchangedInv == ServerInv /\ UNCHANGED server => ServerInv'
  BY DEF ServerInv, server, ServerTypeOK, UnservedInv, ListenerInv, CauseInv, ShutdownInv

LEMMA FilesFacts == \A c : FilesOf(c) \in Seq(Files)
<1>1. <<"json", "yaml", "csv", "md">> \in Seq(Files) /\ <<"csv", "md">> \in Seq(Files) /\ <<>> \in Seq(Files)
  BY DEF Files
<1> QED BY <1>1 DEF FilesOf

LEMMA InitIInv == Init => IInv
<1> SUFFICES ASSUME Init PROVE IInv
  OBVIOUS
<1>1. ServerInv
  BY ServerInitInv DEF Init
<1>2. CommandTypeOK
  <2>1. asked \in SUBSET Files /\ files \in [Files -> {"before", "torn", "written"}]
    BY RequestsAssumption DEF Init
  <2>2. <<>> \in Seq(Files)
    BY DEF Files
  <2> QED BY <1>1, <2>1, <2>2 DEF Init, CommandTypeOK, ServerInv
<1>3. OriginInv /\ ErrorInv
  BY DEF Init, ServerInit, OriginInv, ErrorInv, Commands, Unserved
<1>4. OutputInv
  BY DEF Init, OutputInv, Early, Over
<1> QED BY <1>1, <1>2, <1>3, <1>4 DEF IInv

\* The steps of the command itself.
LEMMA MainStepIInv == ASSUME IInv, MainStep PROVE IInv'
<1> USE DEF IInv
<1>1. ASSUME Parse PROVE IInv'
  <2> USE <1>1 DEF Parse, Goto
  <2>1. ServerInv'
    BY ServerUnchangedInv
  <2>2. CommandTypeOK'
    BY <2>1, FilesFacts DEF CommandTypeOK, ServerInv, server, Files
  <2>3. OriginInv'
    BY DEF CommandTypeOK, ServerTypeOK, Commands, OriginInv, server, Unserved
  <2>4. ErrorInv'
    BY DEF CommandTypeOK, ServerInv, CauseInv, OriginInv, ErrorInv, server, Unserved
  <2>5. OutputInv'
    BY DEF CommandTypeOK, OriginInv, ErrorInv, OutputInv, server, Early, Over
  <2> QED BY <2>1, <2>2, <2>3, <2>4, <2>5
<1>2. ASSUME ParseFails PROVE IInv'
  <2> USE <1>2 DEF ParseFails, Ends, EndsWith
  <2>1. ServerInv'
    BY ServerUnchangedInv
  <2>2. CommandTypeOK'
    BY <2>1, FilesFacts DEF CommandTypeOK, ServerInv, server, Files
  <2>3. OriginInv'
    BY DEF CommandTypeOK, ServerTypeOK, Commands, OriginInv, server, Unserved
  <2>4. ErrorInv'
    BY DEF CommandTypeOK, ServerInv, CauseInv, OriginInv, ErrorInv, server, Unserved
  <2>5. OutputInv'
    BY DEF CommandTypeOK, OriginInv, ErrorInv, OutputInv, server, Early, Over
  <2> QED BY <2>1, <2>2, <2>3, <2>4, <2>5
<1>3. ASSUME Check PROVE IInv'
  <2> USE <1>3 DEF Check, Goto
  <2>1. ServerInv'
    BY ServerUnchangedInv
  <2>2. CommandTypeOK'
    BY <2>1, FilesFacts DEF CommandTypeOK, ServerInv, server, Files
  <2>3. OriginInv'
    BY DEF CommandTypeOK, ServerTypeOK, Commands, OriginInv, server, Unserved
  <2>4. ErrorInv'
    BY DEF CommandTypeOK, ServerInv, CauseInv, OriginInv, ErrorInv, server, Unserved
  <2>5. OutputInv'
    BY DEF CommandTypeOK, OriginInv, ErrorInv, OutputInv, server, Early, Over
  <2> QED BY <2>1, <2>2, <2>3, <2>4, <2>5
<1>4. ASSUME CheckFails PROVE IInv'
  <2> USE <1>4 DEF CheckFails, Ends, EndsWith
  <2>1. ServerInv'
    BY ServerUnchangedInv
  <2>2. CommandTypeOK'
    BY <2>1, FilesFacts DEF CommandTypeOK, ServerInv, server, Files
  <2>3. OriginInv'
    BY DEF CommandTypeOK, ServerTypeOK, Commands, OriginInv, server, Unserved
  <2>4. ErrorInv'
    BY DEF CommandTypeOK, ServerInv, CauseInv, OriginInv, ErrorInv, server, Unserved
  <2>5. OutputInv'
    BY DEF CommandTypeOK, OriginInv, ErrorInv, OutputInv, server, Early, Over
  <2> QED BY <2>1, <2>2, <2>3, <2>4, <2>5
<1>5. ASSUME Listen PROVE IInv'
  <2> USE <1>5 DEF Listen, Bind, BindPlain, BindSecure, BindSecureFails, ListenFails
  <2>1. ServerInv'
    BY ServerStepInv DEF main
  <2>2. CommandTypeOK'
    BY <2>1, FilesFacts DEF CommandTypeOK, ServerInv, main, Files
  <2>3. OriginInv'
    BY DEF CommandTypeOK, ServerTypeOK, Commands, OriginInv, main, Unserved
  <2>4. ErrorInv'
    BY DEF CommandTypeOK, ServerInv, CauseInv, OriginInv, ErrorInv, main, Unserved
  <2>5. OutputInv'
    BY DEF CommandTypeOK, OriginInv, ErrorInv, OutputInv, main, Early, Over
  <2> QED BY <2>1, <2>2, <2>3, <2>4, <2>5
<1>6. ASSUME Listened PROVE IInv'
  <2> USE <1>6 DEF Listened, Goto, Ends, EndsWith
  <2>1. ServerInv'
    BY ServerUnchangedInv
  <2>2. CommandTypeOK'
    BY <2>1, FilesFacts DEF CommandTypeOK, ServerInv, server, Files
  <2>3. OriginInv'
    BY DEF CommandTypeOK, ServerTypeOK, Commands, OriginInv, server, Unserved
  <2>4. ErrorInv'
    BY DEF CommandTypeOK, ServerInv, CauseInv, OriginInv, ErrorInv, server, Unserved
  <2>5. OutputInv'
    BY DEF CommandTypeOK, OriginInv, ErrorInv, OutputInv, server, Early, Over
  <2> QED BY <2>1, <2>2, <2>3, <2>4, <2>5
<1>7. ASSUME Announce PROVE IInv'
  <2> USE <1>7 DEF Announce
  <2>1. ServerInv'
    BY ServerUnchangedInv
  <2>2. CommandTypeOK'
    BY <2>1, FilesFacts DEF CommandTypeOK, ServerInv, server, Files
  <2>3. OriginInv'
    BY DEF CommandTypeOK, ServerTypeOK, Commands, OriginInv, server, Unserved
  <2>4. ErrorInv'
    BY DEF CommandTypeOK, ServerInv, CauseInv, OriginInv, ErrorInv, server, Unserved
  <2>5. OutputInv'
    BY DEF CommandTypeOK, OriginInv, ErrorInv, OutputInv, server, Early, Over
  <2> QED BY <2>1, <2>2, <2>3, <2>4, <2>5
<1>8. ASSUME AnnounceFails PROVE IInv'
  <2> USE <1>8 DEF AnnounceFails, Close
  <2>1. ServerInv'
    BY ServerStepInv
  <2>2. CommandTypeOK'
    BY <2>1, FilesFacts DEF CommandTypeOK, ServerInv, Files
  <2>3. OriginInv'
    BY DEF CommandTypeOK, ServerTypeOK, Commands, OriginInv, Unserved
  <2>4. ErrorInv'
    BY DEF CommandTypeOK, ServerInv, CauseInv, OriginInv, ErrorInv, Unserved
  <2>5. OutputInv'
    BY DEF CommandTypeOK, OriginInv, ErrorInv, OutputInv, Early, Over
  <2> QED BY <2>1, <2>2, <2>3, <2>4, <2>5
<1>9. ASSUME Served PROVE IInv'
  <2> USE <1>9 DEF Served, Ends, EndsWith, ServeFailed
  <2>1. ServerInv'
    BY ServerUnchangedInv
  <2>2. CommandTypeOK'
    BY <2>1, FilesFacts DEF CommandTypeOK, ServerInv, server, Files
  <2>3. OriginInv'
    BY DEF CommandTypeOK, ServerTypeOK, Commands, OriginInv, server, Unserved
  <2>4. ErrorInv'
    BY DEF CommandTypeOK, ServerInv, CauseInv, OriginInv, ErrorInv, server, Unserved
  <2>5. OutputInv'
    BY DEF CommandTypeOK, OriginInv, ErrorInv, OutputInv, server, Early, Over
  <2> QED BY <2>1, <2>2, <2>3, <2>4, <2>5
<1>10. ASSUME Select PROVE IInv'
  <2> USE <1>10 DEF Select, Goto
  <2>1. ServerInv'
    BY ServerUnchangedInv
  <2>2. CommandTypeOK'
    BY <2>1, FilesFacts DEF CommandTypeOK, ServerInv, server, Files
  <2>3. OriginInv'
    BY DEF CommandTypeOK, ServerTypeOK, Commands, OriginInv, server, Unserved
  <2>4. ErrorInv'
    BY DEF CommandTypeOK, ServerInv, CauseInv, OriginInv, ErrorInv, server, Unserved
  <2>5. OutputInv'
    BY DEF CommandTypeOK, OriginInv, ErrorInv, OutputInv, server, Early, Over
  <2> QED BY <2>1, <2>2, <2>3, <2>4, <2>5
<1>11. ASSUME SelectFails PROVE IInv'
  <2> USE <1>11 DEF SelectFails, Ends, EndsWith
  <2>1. ServerInv'
    BY ServerUnchangedInv
  <2>2. CommandTypeOK'
    BY <2>1, FilesFacts DEF CommandTypeOK, ServerInv, server, Files
  <2>3. OriginInv'
    BY DEF CommandTypeOK, ServerTypeOK, Commands, OriginInv, server, Unserved
  <2>4. ErrorInv'
    BY DEF CommandTypeOK, ServerInv, CauseInv, OriginInv, ErrorInv, server, Unserved
  <2>5. OutputInv'
    BY DEF CommandTypeOK, OriginInv, ErrorInv, OutputInv, server, Early, Over
  <2> QED BY <2>1, <2>2, <2>3, <2>4, <2>5
<1>12. ASSUME Handshake PROVE IInv'
  <2> USE <1>12 DEF Handshake, Goto
  <2>1. ServerInv'
    BY ServerUnchangedInv
  <2>2. CommandTypeOK'
    BY <2>1, FilesFacts DEF CommandTypeOK, ServerInv, server, Files
  <2>3. OriginInv'
    BY DEF CommandTypeOK, ServerTypeOK, Commands, OriginInv, server, Unserved
  <2>4. ErrorInv'
    BY DEF CommandTypeOK, ServerInv, CauseInv, OriginInv, ErrorInv, server, Unserved
  <2>5. OutputInv'
    BY DEF CommandTypeOK, OriginInv, ErrorInv, OutputInv, server, Early, Over
  <2> QED BY <2>1, <2>2, <2>3, <2>4, <2>5
<1>13. ASSUME HandshakeFails PROVE IInv'
  <2> USE <1>13 DEF HandshakeFails, Ends, EndsWith
  <2>1. ServerInv'
    BY ServerUnchangedInv
  <2>2. CommandTypeOK'
    BY <2>1, FilesFacts DEF CommandTypeOK, ServerInv, server, Files
  <2>3. OriginInv'
    BY DEF CommandTypeOK, ServerTypeOK, Commands, OriginInv, server, Unserved
  <2>4. ErrorInv'
    BY DEF CommandTypeOK, ServerInv, CauseInv, OriginInv, ErrorInv, server, Unserved
  <2>5. OutputInv'
    BY DEF CommandTypeOK, OriginInv, ErrorInv, OutputInv, server, Early, Over
  <2> QED BY <2>1, <2>2, <2>3, <2>4, <2>5
<1>14. ASSUME Tested PROVE IInv'
  <2> USE <1>14 DEF Tested
  <2>1. ServerInv'
    BY ServerUnchangedInv
  <2>2. CommandTypeOK'
    BY <2>1, FilesFacts DEF CommandTypeOK, ServerInv, server, Files
  <2>3. OriginInv'
    BY DEF CommandTypeOK, ServerTypeOK, Commands, OriginInv, server, Unserved
  <2>4. ErrorInv'
    BY DEF CommandTypeOK, ServerInv, CauseInv, OriginInv, ErrorInv, server, Unserved
  <2>5. OutputInv'
    BY DEF CommandTypeOK, OriginInv, ErrorInv, OutputInv, server, Early, Over
  <2> QED BY <2>1, <2>2, <2>3, <2>4, <2>5
<1>15. ASSUME Read PROVE IInv'
  <2> USE <1>15 DEF Read
  <2>1. ServerInv'
    BY ServerUnchangedInv
  <2>2. CommandTypeOK'
    BY <2>1, FilesFacts DEF CommandTypeOK, ServerInv, server, Files
  <2>3. OriginInv'
    BY DEF CommandTypeOK, ServerTypeOK, Commands, OriginInv, server, Unserved
  <2>4. ErrorInv'
    BY DEF CommandTypeOK, ServerInv, CauseInv, OriginInv, ErrorInv, server, Unserved
  <2>5. OutputInv'
    BY DEF CommandTypeOK, OriginInv, ErrorInv, OutputInv, server, Early, Over
  <2> QED BY <2>1, <2>2, <2>3, <2>4, <2>5
<1>16. ASSUME ReadFails PROVE IInv'
  <2> USE <1>16 DEF ReadFails, Ends, EndsWith
  <2>1. ServerInv'
    BY ServerUnchangedInv
  <2>2. CommandTypeOK'
    BY <2>1, FilesFacts DEF CommandTypeOK, ServerInv, server, Files
  <2>3. OriginInv'
    BY DEF CommandTypeOK, ServerTypeOK, Commands, OriginInv, server, Unserved
  <2>4. ErrorInv'
    BY DEF CommandTypeOK, ServerInv, CauseInv, OriginInv, ErrorInv, server, Unserved
  <2>5. OutputInv'
    BY DEF CommandTypeOK, OriginInv, ErrorInv, OutputInv, server, Early, Over
  <2> QED BY <2>1, <2>2, <2>3, <2>4, <2>5
<1>17. ASSUME Blank PROVE IInv'
  <2> USE <1>17 DEF Blank
  <2>1. ServerInv'
    BY ServerUnchangedInv
  <2>2. CommandTypeOK'
    BY <2>1, FilesFacts DEF CommandTypeOK, ServerInv, server, Files
  <2>3. OriginInv'
    BY DEF CommandTypeOK, ServerTypeOK, Commands, OriginInv, server, Unserved
  <2>4. ErrorInv'
    BY DEF CommandTypeOK, ServerInv, CauseInv, OriginInv, ErrorInv, server, Unserved
  <2>5. OutputInv'
    BY DEF CommandTypeOK, OriginInv, ErrorInv, OutputInv, server, Early, Over
  <2> QED BY <2>1, <2>2, <2>3, <2>4, <2>5
<1>18. ASSUME BlankFails PROVE IInv'
  <2> USE <1>18 DEF BlankFails, Ends, EndsWith
  <2>1. ServerInv'
    BY ServerUnchangedInv
  <2>2. CommandTypeOK'
    BY <2>1, FilesFacts DEF CommandTypeOK, ServerInv, server, Files
  <2>3. OriginInv'
    BY DEF CommandTypeOK, ServerTypeOK, Commands, OriginInv, server, Unserved
  <2>4. ErrorInv'
    BY DEF CommandTypeOK, ServerInv, CauseInv, OriginInv, ErrorInv, server, Unserved
  <2>5. OutputInv'
    BY DEF CommandTypeOK, OriginInv, ErrorInv, OutputInv, server, Early, Over
  <2> QED BY <2>1, <2>2, <2>3, <2>4, <2>5
<1>19. ASSUME WriteFile PROVE IInv'
  <2> USE <1>19 DEF WriteFile
  <2>1. ServerInv'
    BY ServerUnchangedInv
  <2>2. CommandTypeOK'
    BY <2>1, FilesFacts DEF CommandTypeOK, ServerInv, server, Files
  <2>3. OriginInv'
    BY DEF CommandTypeOK, ServerTypeOK, Commands, OriginInv, server, Unserved
  <2>4. ErrorInv'
    BY DEF CommandTypeOK, ServerInv, CauseInv, OriginInv, ErrorInv, server, Unserved
  <2>5. OutputInv'
    <3>1. ASSUME NEW f \in asked
          PROVE  files'[f] = "written" \/ \E i \in 1..Len(todo') : todo'[i] = f
      <4>1. CASE files[f] = "written"
        BY <4>1 DEF CommandTypeOK
      <4>2. CASE files[f] # "written"
        <5>1. PICK i \in 1..Len(todo) : todo[i] = f
          BY <4>2 DEF OutputInv
        <5>2. CASE i = 1
          BY <5>1, <5>2 DEF CommandTypeOK
        <5>3. CASE i # 1
          <6>1. i - 1 \in 1..Len(todo') /\ todo'[i - 1] = f
            BY <5>1, <5>3 DEF CommandTypeOK
          <6> QED BY <6>1
        <5> QED BY <5>2, <5>3
      <4> QED BY <4>1, <4>2
    <3> QED BY <3>1 DEF OutputInv, Early, Over
  <2> QED BY <2>1, <2>2, <2>3, <2>4, <2>5
<1>20. ASSUME WriteFileFails PROVE IInv'
  <2> USE <1>20 DEF WriteFileFails, EndsWith
  <2>1. ServerInv'
    BY ServerUnchangedInv
  <2>2. CommandTypeOK'
    BY <2>1, FilesFacts DEF CommandTypeOK, ServerInv, server, Files
  <2>3. OriginInv'
    BY DEF CommandTypeOK, ServerTypeOK, Commands, OriginInv, server, Unserved
  <2>4. ErrorInv'
    BY DEF CommandTypeOK, ServerInv, CauseInv, OriginInv, ErrorInv, server, Unserved
  <2>5. OutputInv'
    BY DEF CommandTypeOK, OriginInv, ErrorInv, OutputInv, server, Early, Over
  <2> QED BY <2>1, <2>2, <2>3, <2>4, <2>5
<1>21. ASSUME Written PROVE IInv'
  <2> USE <1>21 DEF Written, Goto
  <2>1. ServerInv'
    BY ServerUnchangedInv
  <2>2. CommandTypeOK'
    BY <2>1, FilesFacts DEF CommandTypeOK, ServerInv, server, Files
  <2>3. OriginInv'
    BY DEF CommandTypeOK, ServerTypeOK, Commands, OriginInv, server, Unserved
  <2>4. ErrorInv'
    BY DEF CommandTypeOK, ServerInv, CauseInv, OriginInv, ErrorInv, server, Unserved
  <2>5. OutputInv'
    BY DEF CommandTypeOK, OriginInv, ErrorInv, OutputInv, server, Early, Over
  <2> QED BY <2>1, <2>2, <2>3, <2>4, <2>5
<1>22. ASSUME Render PROVE IInv'
  <2> USE <1>22 DEF Render, EndsWith
  <2>1. ServerInv'
    BY ServerUnchangedInv
  <2>2. CommandTypeOK'
    BY <2>1, FilesFacts DEF CommandTypeOK, ServerInv, server, Files
  <2>3. OriginInv'
    BY DEF CommandTypeOK, ServerTypeOK, Commands, OriginInv, server, Unserved
  <2>4. ErrorInv'
    BY DEF CommandTypeOK, ServerInv, CauseInv, OriginInv, ErrorInv, server, Unserved
  <2>5. OutputInv'
    BY DEF CommandTypeOK, OriginInv, ErrorInv, OutputInv, server, Early, Over
  <2> QED BY <2>1, <2>2, <2>3, <2>4, <2>5
<1>23. ASSUME RenderFails PROVE IInv'
  <2> USE <1>23 DEF RenderFails, EndsWith
  <2>1. ServerInv'
    BY ServerUnchangedInv
  <2>2. CommandTypeOK'
    BY <2>1, FilesFacts DEF CommandTypeOK, ServerInv, server, Files
  <2>3. OriginInv'
    BY DEF CommandTypeOK, ServerTypeOK, Commands, OriginInv, server, Unserved
  <2>4. ErrorInv'
    BY DEF CommandTypeOK, ServerInv, CauseInv, OriginInv, ErrorInv, server, Unserved
  <2>5. OutputInv'
    BY DEF CommandTypeOK, OriginInv, ErrorInv, OutputInv, server, Early, Over
  <2> QED BY <2>1, <2>2, <2>3, <2>4, <2>5
<1>24. ASSUME Verdict PROVE IInv'
  <2> USE <1>24 DEF Verdict, Ends, EndsWith
  <2>1. ServerInv'
    BY ServerUnchangedInv
  <2>2. CommandTypeOK'
    BY <2>1, FilesFacts DEF CommandTypeOK, ServerInv, server, Files
  <2>3. OriginInv'
    BY DEF CommandTypeOK, ServerTypeOK, Commands, OriginInv, server, Unserved
  <2>4. ErrorInv'
    BY DEF CommandTypeOK, ServerInv, CauseInv, OriginInv, ErrorInv, server, Unserved
  <2>5. OutputInv'
    BY DEF CommandTypeOK, OriginInv, ErrorInv, OutputInv, server, Early, Over
  <2> QED BY <2>1, <2>2, <2>3, <2>4, <2>5
<1>25. ASSUME Stop PROVE IInv'
  <2> USE <1>25 DEF Stop, StopServing, Canceled
  <2>1. ServerInv'
    BY StopServingInv
  <2>2. CommandTypeOK'
    BY <2>1, FilesFacts DEF CommandTypeOK, ServerInv, Files
  <2>3. OriginInv'
    BY DEF CommandTypeOK, ServerTypeOK, Commands, OriginInv, Unserved
  <2>4. ErrorInv'
    BY DEF CommandTypeOK, ServerInv, CauseInv, OriginInv, ErrorInv, Unserved
  <2>5. OutputInv'
    BY DEF CommandTypeOK, OriginInv, ErrorInv, OutputInv, Early, Over
  <2> QED BY <2>1, <2>2, <2>3, <2>4, <2>5
<1>26. ASSUME Join PROVE IInv'
  <2> USE <1>26 DEF Join, ServeFailed
  <2>1. ServerInv'
    BY ServerUnchangedInv
  <2>2. CommandTypeOK'
    BY <2>1, FilesFacts DEF CommandTypeOK, ServerInv, server, Files
  <2>3. OriginInv'
    BY DEF CommandTypeOK, ServerTypeOK, Commands, OriginInv, server, Unserved
  <2>4. ErrorInv'
    BY DEF CommandTypeOK, ServerInv, CauseInv, OriginInv, ErrorInv, server, Unserved
  <2>5. OutputInv'
    BY DEF CommandTypeOK, OriginInv, ErrorInv, OutputInv, server, Early, Over
  <2> QED BY <2>1, <2>2, <2>3, <2>4, <2>5
<1>27. ASSUME Exit PROVE IInv'
  <2> USE <1>27 DEF Exit
  <2>1. ServerInv'
    BY ServerUnchangedInv
  <2>2. CommandTypeOK'
    BY <2>1, FilesFacts DEF CommandTypeOK, ServerInv, server, Files
  <2>3. OriginInv'
    BY DEF CommandTypeOK, ServerTypeOK, Commands, OriginInv, server, Unserved
  <2>4. ErrorInv'
    BY DEF CommandTypeOK, ServerInv, CauseInv, OriginInv, ErrorInv, server, Unserved
  <2>5. OutputInv'
    BY DEF CommandTypeOK, OriginInv, ErrorInv, OutputInv, server, Early, Over
  <2> QED BY <2>1, <2>2, <2>3, <2>4, <2>5
<1> QED BY <1>1, <1>2, <1>3, <1>4, <1>5, <1>6, <1>7, <1>8, <1>9, <1>10, <1>11, <1>12, <1>13, <1>14, <1>15, <1>16, <1>17, <1>18, <1>19, <1>20, <1>21, <1>22, <1>23, <1>24, <1>25, <1>26, <1>27 DEF MainStep

\* What the server, the machine and the clients do by themselves.
LEMMA ServerStepIInv ==
    ASSUME IInv,
           \/ Serve
           \/ mpc # "exited" /\ (Serving \/ Disturbs) /\ UNCHANGED <<main, signal>>
    PROVE  IInv'
<1> USE DEF IInv, main
<1>1. ServerInv'
  BY ServerStepInv DEF Serve
<1>2. CommandTypeOK'
  BY <1>1 DEF Serve, CommandTypeOK, ServerInv
<1>3. OutputInv'
  BY DEF Serve, OutputInv
<1>4. ASSUME Serve PROVE OriginInv' /\ ErrorInv'
  BY <1>4 DEF Serve, StartServe, CommandTypeOK, Commands, OriginInv, ErrorInv, Unserved
<1>5. ASSUME Serving, UNCHANGED <<main, signal>> PROVE OriginInv' /\ ErrorInv'
  <2>1. /\ spc \notin Unserved \cup {"returned"}
        /\ spc' \notin Unserved
        /\ UNCHANGED <<stopped, cause, broke>>
    BY <1>5 DEF Serving, SeesDone, ShutdownNext, ShutdownEnds, Expire, ShutdownDone, ServeReturns,
                Accepts, ServerClosed, ServerInv, UnservedInv, ShutdownInv, Unserved
  <2> QED BY <1>5, <2>1 DEF OriginInv, ErrorInv, Unserved
<1>6. ASSUME Disturbs, UNCHANGED <<main, signal>> PROVE OriginInv' /\ ErrorInv'
  <2>1. UNCHANGED <<spc, stopped>> /\ (spc = "returned" => broke' = broke)
    BY <1>6 DEF Disturbs, Breaks, Handles, HandlerEnds, ServerInv, ShutdownInv
  <2> QED BY <1>6, <2>1 DEF OriginInv, ErrorInv, Unserved
<1> QED BY <1>1, <1>2, <1>3, <1>4, <1>5, <1>6

LEMMA NextIInv == IInv /\ [Next]_vars => IInv'
<1> SUFFICES ASSUME IInv, [Next]_vars PROVE IInv'
  OBVIOUS
<1>1. ASSUME MainStep PROVE IInv'
  BY <1>1, MainStepIInv
<1>2. ASSUME ServerStep \/ (mpc # "exited" /\ Disturbs /\ UNCHANGED <<main, signal>>) PROVE IInv'
  BY <1>2, ServerStepIInv DEF ServerStep
<1>3. ASSUME Signal PROVE IInv'
  <2> USE <1>3 DEF IInv, Signal, main
  <2>1. ServerInv'
    BY StopServingInv
  <2>2. CommandTypeOK'
    BY <2>1 DEF CommandTypeOK, ServerInv
  <2>3. OriginInv' /\ ErrorInv' /\ OutputInv'
    BY DEF OriginInv, ErrorInv, OutputInv, StopServing
  <2> QED BY <2>1, <2>2, <2>3
<1>4. ASSUME UNCHANGED vars PROVE IInv'
  <2> USE <1>4 DEF IInv, vars, main, server
  <2>1. ServerInv'
    BY ServerUnchangedInv
  <2>2. CommandTypeOK'
    BY <2>1 DEF CommandTypeOK, ServerInv
  <2>3. OriginInv' /\ ErrorInv' /\ OutputInv'
    BY DEF OriginInv, ErrorInv, OutputInv
  <2> QED BY <2>1, <2>2, <2>3
<1> QED BY <1>1, <1>2, <1>3, <1>4 DEF Next, Exited

LEMMA InvariantHolds == Spec => []IInv
  BY InitIInv, NextIInv, PTL DEF Spec

(***************************************************************************)
(* The theorems.                                                           *)
(***************************************************************************)

\* The variables of the command and of its server keep their types.
THEOREM TypeCorrect == Spec => []CommandTypeOK
<1>1. IInv => CommandTypeOK
  BY DEF IInv
<1> QED BY <1>1, InvariantHolds, PTL

\* Whichever step fails, and however the goroutines of Serve interleave with
\* the command, nothing listens or serves once the command returns.
THEOREM NothingStaysServing == Spec => []NothingLeftServing
<1>1. IInv => NothingLeftServing
  BY DEF IInv, OriginInv, ServerInv, UnservedInv, ListenerInv, ShutdownInv, Unserved, NothingLeftServing
<1> QED BY <1>1, InvariantHolds, PTL

\* shutdown has waited for the handlers of every server, unless its time
\* limit passed.
THEOREM ShutdownIsGraceful == Spec => []GracefulUnlessLate
<1>1. IInv => GracefulUnlessLate
  <2> SUFFICES ASSUME IInv, spc \in {"wait", "returned"}, ~expired PROVE busy = {}
    BY DEF GracefulUnlessLate
  <2>1. \A i \in 1..Len(Bindings) : Bindings[i] \notin busy
    BY BindingsFacts DEF IInv, ServerInv, ServerTypeOK, ShutdownInv
  <2> QED BY <2>1, BindingsFacts DEF IInv, ServerInv, ServerTypeOK
<1> QED BY <1>1, InvariantHolds, PTL

\* The error of the listener that broke first reaches the exit code, past the
\* goroutine, the context's cause and errors.Join; a stop never does.
THEOREM BrokenOriginFails == Spec => []BrokenOriginIsReported
<1>1. IInv => BrokenOriginIsReported
  BY DEF IInv, CommandTypeOK, ErrorInv, BrokenOriginIsReported
<1> QED BY <1>1, InvariantHolds, PTL

\* Nothing but a signal or a broken listener takes the origin away from the
\* client that tests it in the same process.
THEOREM OriginIsThereForClient == Spec => []OriginOutlivesClient
<1>1. IInv => OriginOutlivesClient
  BY DEF IInv, CommandTypeOK, ServerInv, ServerTypeOK, UnservedInv, ListenerInv, CauseInv, OriginInv,
         Unserved, OriginOutlivesClient
<1> QED BY <1>1, InvariantHolds, PTL

\* Exit code 0 after results means every file and the summary are written and
\* the verdict on the results is good.
THEOREM SuccessMeansComplete == Spec => []SuccessIsComplete
<1>1. IInv => SuccessIsComplete
  BY DEF IInv, CommandTypeOK, ErrorInv, OutputInv, Over, SuccessIsComplete
<1> QED BY <1>1, InvariantHolds, PTL

=============================================================================
