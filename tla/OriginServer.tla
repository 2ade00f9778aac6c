---------------------------- MODULE OriginServer ----------------------------
(***************************************************************************)
(* The origin as a server (pkg/origin/server.go): Listen binds up to two   *)
(* listeners, Serve runs a goroutine for each of them until its context is *)
(* done or one of them breaks, then shuts both down within a time limit.   *)
(*                                                                         *)
(* net/http is modelled as far as the code relies on it: Shutdown closes a *)
(* listener that is being served and waits for the handlers in flight, and *)
(* Serve on a server that was shut down closes its listener and returns.   *)
(* The key pair is the one that Listen has checked.                        *)
(***************************************************************************)
EXTENDS Naturals, Sequences

CONSTANT Listeners   \* those with an address in Options

ASSUME ListenersAssumption == Listeners \subseteq {"plain", "secure"}

VARIABLES
    spc,      \* where Listen, and then Serve, is
    lsn,      \* the listeners
    gor,      \* the goroutine that runs each binding
    shut,     \* the servers that Shutdown was called for
    busy,     \* the servers with a handler in flight
    idx,      \* the binding that shutdown has reached
    expired,  \* shutdownTimeout has passed
    stopped,  \* the context given to Serve is done
    cause,    \* context.Cause of the one that Serve derives from it
    broke     \* history: a listener broke while that context was not done

server == <<spc, lsn, gor, shut, busy, idx, expired, stopped, cause, broke>>

\* bindings: the cleartext server comes first.
Bindings ==
    (IF "plain" \in Listeners THEN <<"plain">> ELSE <<>>) \o
    (IF "secure" \in Listeners THEN <<"secure">> ELSE <<>>)

ServerTypeOK ==
    /\ spc \in {"new", "secure", "bound", "serving", "shutdown", "draining", "wait",
                "returned", "failed"}
    /\ lsn \in [Listeners -> {"none", "open", "closed"}]
    /\ gor \in [Listeners -> {"none", "starting", "serving", "ended"}]
    /\ shut \subseteq Listeners /\ busy \subseteq Listeners
    /\ idx \in 1..(Len(Bindings) + 1)
    /\ expired \in BOOLEAN /\ stopped \in BOOLEAN /\ broke \in BOOLEAN
    /\ cause \in {"none", "canceled", "failed"}

ServerInit ==
    /\ spc = "new"
    /\ lsn = [l \in Listeners |-> "none"]
    /\ gor = [l \in Listeners |-> "none"]
    /\ shut = {} /\ busy = {}
    /\ idx = 1
    /\ expired = FALSE /\ stopped = FALSE /\ broke = FALSE
    /\ cause = "none"

Opened(l) == [k \in Listeners |-> IF k = l THEN "open" ELSE lsn[k]]
Closed(l) == [k \in Listeners |-> IF k = l THEN "closed" ELSE lsn[k]]
AllClosed == [k \in Listeners |-> IF lsn[k] = "open" THEN "closed" ELSE lsn[k]]

\* The first reason to cancel a context is the one it keeps.
Canceled(why) == cause' = IF cause = "none" THEN why ELSE cause

----------------------------------------------------------------------------
(***************************************************************************)
(* Listen, and Close for a server that will not run.                       *)
(***************************************************************************)

BindPlain ==
    /\ spc = "new" /\ Listeners # {}
    /\ lsn' = Opened("plain")
    /\ spc' = "secure"
    /\ UNCHANGED <<gor, shut, busy, idx, expired, stopped, cause, broke>>

\* No address, a bad key pair, or a cleartext address that cannot be bound.
ListenFails ==
    /\ spc = "new"
    /\ spc' = "failed"
    /\ UNCHANGED <<lsn, gor, shut, busy, idx, expired, stopped, cause, broke>>

BindSecure ==
    /\ spc = "secure"
    /\ lsn' = Opened("secure")
    /\ spc' = "bound"
    /\ UNCHANGED <<gor, shut, busy, idx, expired, stopped, cause, broke>>

\* closeOnError gives the cleartext listener up.
BindSecureFails ==
    /\ spc = "secure" /\ "secure" \in Listeners
    /\ lsn' = AllClosed
    /\ spc' = "failed"
    /\ UNCHANGED <<gor, shut, busy, idx, expired, stopped, cause, broke>>

Close ==
    /\ spc = "bound"
    /\ lsn' = AllClosed
    /\ spc' = "failed"
    /\ UNCHANGED <<gor, shut, busy, idx, expired, stopped, cause, broke>>

(***************************************************************************)
(* Serve.                                                                  *)
(***************************************************************************)

\* A context that is already done cancels the derived one at once.
StartServe ==
    /\ spc = "bound"
    /\ gor' = [l \in Listeners |-> "starting"]
    /\ Canceled(IF stopped THEN "canceled" ELSE "none")
    /\ spc' = "serving"
    /\ UNCHANGED <<lsn, shut, busy, idx, expired, stopped, broke>>

\* http.Server.Serve in its goroutine, which may be late for the shutdown.
Accepts(l) ==
    /\ gor[l] = "starting"
    /\ IF l \in shut
       THEN lsn' = Closed(l) /\ gor' = [gor EXCEPT ![l] = "ended"]
       ELSE UNCHANGED lsn /\ gor' = [gor EXCEPT ![l] = "serving"]
    /\ UNCHANGED <<spc, shut, busy, idx, expired, stopped, cause, broke>>

\* The listener fails: binding.run cancels the other one too.
Breaks(l) ==
    /\ gor[l] = "serving" /\ l \notin shut
    /\ lsn' = Closed(l)
    /\ gor' = [gor EXCEPT ![l] = "ended"]
    /\ Canceled("failed")
    /\ broke' = (broke \/ ~stopped)
    /\ UNCHANGED <<spc, shut, busy, idx, expired, stopped>>

\* Serve returns ErrServerClosed, and its goroutine ends without canceling.
ServerClosed(l) ==
    /\ gor[l] = "serving" /\ l \in shut
    /\ gor' = [gor EXCEPT ![l] = "ended"]
    /\ UNCHANGED <<spc, lsn, shut, busy, idx, expired, stopped, cause, broke>>

\* A request arrives, on a connection that may outlive the listener; its
\* handler may take long, or never end.
Handles(l) ==
    /\ gor[l] \in {"serving", "ended"} /\ l \notin shut
    /\ busy' = busy \cup {l}
    /\ UNCHANGED <<spc, lsn, gor, shut, idx, expired, stopped, cause, broke>>

HandlerEnds(l) ==
    /\ l \in busy
    /\ busy' = busy \ {l}
    /\ UNCHANGED <<spc, lsn, gor, shut, idx, expired, stopped, cause, broke>>

SeesDone ==
    /\ spc = "serving" /\ cause # "none"
    /\ spc' = "shutdown"
    /\ UNCHANGED <<lsn, gor, shut, busy, idx, expired, stopped, cause, broke>>

\* Shutdown of the next server: a listener that it does not serve yet stays
\* open until its goroutine gets there.
ShutdownNext ==
    /\ spc = "shutdown" /\ idx <= Len(Bindings)
    /\ shut' = shut \cup {Bindings[idx]}
    /\ IF gor[Bindings[idx]] = "serving" THEN lsn' = Closed(Bindings[idx]) ELSE UNCHANGED lsn
    /\ spc' = "draining"
    /\ UNCHANGED <<gor, busy, idx, expired, stopped, cause, broke>>

\* Faulty variant: handlers in flight are not waited for.
ShutdownEndsAtOnce ==
    /\ spc = "draining"
    /\ idx' = idx + 1
    /\ spc' = "shutdown"
    /\ UNCHANGED <<lsn, gor, shut, busy, expired, stopped, cause, broke>>

\* Faulty variant: handlers are waited for as long as they take.
ShutdownEndsIdle ==
    /\ spc = "draining"
    /\ Bindings[idx] \notin busy
    /\ idx' = idx + 1
    /\ spc' = "shutdown"
    /\ UNCHANGED <<lsn, gor, shut, busy, expired, stopped, cause, broke>>

\* Shutdown returns when the handlers have, or with its context.
ShutdownEnds ==
    /\ spc = "draining"
    /\ Bindings[idx] \notin busy \/ expired
    /\ idx' = idx + 1
    /\ spc' = "shutdown"
    /\ UNCHANGED <<lsn, gor, shut, busy, expired, stopped, cause, broke>>

\* One time limit for both.
Expire ==
    /\ spc \in {"shutdown", "draining"} /\ ~expired
    /\ expired' = TRUE
    /\ UNCHANGED <<spc, lsn, gor, shut, busy, idx, stopped, cause, broke>>

ShutdownDone ==
    /\ spc = "shutdown" /\ idx > Len(Bindings)
    /\ spc' = "wait"
    /\ UNCHANGED <<lsn, gor, shut, busy, idx, expired, stopped, cause, broke>>

\* wg.Wait
ServeReturns ==
    /\ spc = "wait"
    /\ \A l \in Listeners : gor[l] = "ended"
    /\ spc' = "returned"
    /\ UNCHANGED <<lsn, gor, shut, busy, idx, expired, stopped, cause, broke>>

\* serveError: being told to stop is no error.
ServeFailed == cause = "failed"

\* The context given to Serve is done, and with it the derived one.
StopServing ==
    /\ stopped' = TRUE
    /\ IF spc \in {"new", "secure", "bound", "failed"} THEN UNCHANGED cause ELSE Canceled("canceled")

----------------------------------------------------------------------------

Bind == BindPlain \/ BindSecure \/ BindSecureFails

\* What the goroutines of Serve do by themselves.
Serving ==
    \/ SeesDone \/ ShutdownNext \/ ShutdownEnds \/ Expire \/ ShutdownDone \/ ServeReturns
    \/ \E l \in Listeners : Accepts(l) \/ ServerClosed(l)

\* What the machine and the clients do to it.
Disturbs == \E l \in Listeners : Breaks(l) \/ Handles(l) \/ HandlerEnds(l)

=============================================================================
