---------------------------- MODULE OriginStore ----------------------------
(***************************************************************************)
(* The scripted origin's state and the handlers that share it: the script  *)
(* store (pkg/origin/store.go), the control-plane handlers (control.go)    *)
(* and the handler of test requests (respond.go).                          *)
(*                                                                         *)
(* Every HTTP request is a process of its own, as net/http runs every      *)
(* handler in its own goroutine.  A step of a request is one critical      *)
(* section of the store's or an entry's mutex, so handlers interleave at   *)
(* exactly the points where the code holds no lock.  The *entry that a PUT *)
(* allocates is identified by that PUT request: a handler that looked an   *)
(* entry up keeps its pointer after the store has replaced or removed it.  *)
(***************************************************************************)
EXTENDS Integers, Sequences, FiniteSets

CONSTANTS
    Requests,   \* the HTTP requests that may ever reach the origin
    Ids,        \* the {id} path values they carry
    ValidIds,   \* those that protocol.ValidID accepts
    Steps,      \* the step numbers they carry; 0 for a header that is absent or no number
    Scripts,    \* the scripts a PUT body may hold
    Names,      \* the names of scripted responses
    TTL,        \* Options.ScriptTTL, in clock ticks
    MaxLog,     \* maxLogEntries
    MaxClock,   \* bound on the clock
    NoName,     \* the empty response name
    NoId,       \* no path value yet
    NoEntry,    \* a nil *entry
    Malformed   \* a PUT body that does not decode

ASSUME ConstantsAssumption ==
    /\ ValidIds \subseteq Ids
    /\ 0 \in Steps /\ Steps \subseteq Int
    /\ TTL \in Nat \ {0}
    /\ MaxLog \in Nat \ {0}
    /\ MaxClock \in Nat
    /\ NoName \notin Names
    /\ NoId \notin Ids
    /\ NoEntry \notin Requests
    /\ Malformed \notin Scripts

(***************************************************************************)
(* A script names a response for some steps, has a default name for the    *)
(* other ones, and defines how some names are answered: at once, after a   *)
(* delay, or by dropping the connection.                                   *)
(***************************************************************************)
Kinds == {"plain", "delayed", "disconnect"}

ASSUME ScriptsAssumption ==
    \A sc \in Scripts :
        /\ \A s \in DOMAIN sc.steps : sc.steps[s] \in Names \cup {NoName}
        /\ sc.default \in Names \cup {NoName}
        /\ \A n \in DOMAIN sc.responses : sc.responses[n] \in Kinds

(***************************************************************************)
(* ResponseFor: the name that answers a step, and the definition of that   *)
(* name; an undefined name is answered as the zero Response.               *)
(***************************************************************************)
ResponseFor(sc, step) ==
    IF step \in DOMAIN sc.steps THEN sc.steps[step] ELSE sc.default

KindOf(sc, name) ==
    IF name \in DOMAIN sc.responses THEN sc.responses[name] ELSE "plain"

VARIABLES
    tests,      \* store.tests: the entry stored under each id, or NoEntry
    lastSweep,  \* store.lastSweep; 0 is the zero time
    ent,        \* the entries, each named by the PUT that allocates it
    clock,      \* time.Now()
    pc,         \* where each request's handler is
    loc,        \* the local variables of each request's handler
    reply,      \* what each request was answered with
    lastPut     \* history: the latest time.Now() of the puts that were stored

vars == <<tests, lastSweep, ent, clock, pc, loc, reply, lastPut>>

----------------------------------------------------------------------------

LogEntry == [seq : Nat, step : Steps, response : Names \cup {NoName}, received : Nat]

\* An entry; "stored" is a history field: the clock when its put took effect.
Entry == [script : Scripts \cup {Malformed}, created : Nat, stored : Nat,
          seq : Nat, log : Seq(LogEntry)]

NewEntry(sc, now) ==
    [script |-> sc, created |-> now, stored |-> now, seq |-> 0, log |-> <<>>]

\* The local variables of a handler: the id in the path, the step in the
\* header, its time.Now(), the *entry it looked up, the number it was given.
Local == [id : Ids \cup {NoId}, step : Steps, now : Nat,
          held : Requests \cup {NoEntry}, seq : Nat]

NoLocal == [id |-> NoId, step |-> 0, now |-> 0, held |-> NoEntry, seq |-> 0]

\* Where a handler is between two critical sections.
PC == {"new", "putting", "reading", "got", "numbered", "logged", "replied"}

Status == {"none", "stored", "deleted", "badrequest", "notfound",
           "snapshot", "answered", "aborted", "gone"}

Reply == [status : Status, log : Seq(LogEntry)]

ReplyWith(r, status, log) ==
    /\ pc' = [pc EXCEPT ![r] = "replied"]
    /\ reply' = [reply EXCEPT ![r] = [status |-> status, log |-> log]]

\* Every variable has its type, a handler in serveTest or handleLog holds an
\* entry, and what the store holds is a script that decoded (handlePutScript).
TypeOK ==
    /\ tests \in [Ids -> Requests \cup {NoEntry}]
    /\ lastSweep \in Nat
    /\ ent \in [Requests -> Entry]
    /\ clock \in Nat
    /\ pc \in [Requests -> PC]
    /\ loc \in [Requests -> Local]
    /\ reply \in [Requests -> Reply]
    /\ lastPut \in Nat
    /\ \A r \in Requests : pc[r] \in {"got", "numbered", "logged", "reading"} =>
           loc[r].held \in Requests
    /\ \A id \in Ids : tests[id] # NoEntry => ent[tests[id]].script \in Scripts

\* newStore.  The zero time lies more than any TTL before the first request.
Init ==
    /\ tests = [id \in Ids |-> NoEntry]
    /\ lastSweep = 0
    /\ ent = [r \in Requests |-> NewEntry(Malformed, 0)]
    /\ clock = TTL + 1
    /\ pc = [r \in Requests |-> "new"]
    /\ loc = [r \in Requests |-> NoLocal]
    /\ reply = [r \in Requests |-> [status |-> "none", log |-> <<>>]]
    /\ lastPut = 0

----------------------------------------------------------------------------
(***************************************************************************)
(* PUT: handlePutScript.                                                   *)
(***************************************************************************)

\* An invalid id or a body that does not decode is answered 400.
PutReject(r, id, sc) ==
    /\ pc[r] = "new"
    /\ id \notin ValidIds \/ sc = Malformed
    /\ ReplyWith(r, "badrequest", <<>>)
    /\ UNCHANGED <<tests, lastSweep, ent, clock, loc, lastPut>>

\* time.Now() is evaluated before store.put waits for the store's lock.
PutArrive(r, id, sc) ==
    /\ pc[r] = "new"
    /\ id \in ValidIds /\ sc # Malformed
    /\ pc' = [pc EXCEPT ![r] = "putting"]
    /\ loc' = [loc EXCEPT ![r] = [NoLocal EXCEPT !.id = id, !.now = clock]]
    /\ ent' = [ent EXCEPT ![r] = NewEntry(sc, clock)]
    /\ UNCHANGED <<tests, lastSweep, clock, reply, lastPut>>

\* Faulty variant: an entry whose age is exactly TTL is taken for stale.
ExpiredEarly(id, now) == tests[id] # NoEntry /\ now - ent[tests[id]].created >= TTL

\* The entry under an id is stale for a sweep made at time now.
Expired(id, now) == tests[id] # NoEntry /\ now - ent[tests[id]].created > TTL

SweepDue(now) == now - lastSweep > TTL

\* The stored entries that a put made at time now leaves in place.
Kept(now) ==
    [id \in Ids |-> IF SweepDue(now) /\ Expired(id, now) THEN NoEntry ELSE tests[id]]

\* Faulty variant: lastSweep is set by every put, swept or not.
PutAlwaysMarksSweep(r) ==
    LET now == loc[r].now IN
    /\ pc[r] = "putting"
    /\ tests' = [Kept(now) EXCEPT ![loc[r].id] = r]
    /\ lastSweep' = now
    /\ ent' = [ent EXCEPT ![r].stored = clock]
    /\ lastPut' = IF now > lastPut THEN now ELSE lastPut
    /\ ReplyWith(r, "stored", <<>>)
    /\ UNCHANGED <<clock, loc>>

\* store.put: sweep when one is due, then store or replace the entry.
Put(r) ==
    LET now == loc[r].now IN
    /\ pc[r] = "putting"
    /\ tests' = [Kept(now) EXCEPT ![loc[r].id] = r]
    /\ lastSweep' = IF SweepDue(now) THEN now ELSE lastSweep
    /\ ent' = [ent EXCEPT ![r].stored = clock]
    /\ lastPut' = IF now > lastPut THEN now ELSE lastPut
    /\ ReplyWith(r, "stored", <<>>)
    /\ UNCHANGED <<clock, loc>>

(***************************************************************************)
(* DELETE: handleDeleteScript, store.remove.                               *)
(***************************************************************************)
Delete(r, id) ==
    /\ pc[r] = "new"
    /\ tests' = [tests EXCEPT ![id] = NoEntry]
    /\ ReplyWith(r, "deleted", <<>>)
    /\ UNCHANGED <<lastSweep, ent, clock, loc, lastPut>>

(***************************************************************************)
(* GET of a log: handleLog, store.get and entry.snapshot.                  *)
(***************************************************************************)
LogGet(r, id) ==
    /\ pc[r] = "new"
    /\ tests[id] # NoEntry
    /\ pc' = [pc EXCEPT ![r] = "reading"]
    /\ loc' = [loc EXCEPT ![r] = [NoLocal EXCEPT !.id = id, !.held = tests[id]]]
    /\ UNCHANGED <<tests, lastSweep, ent, clock, reply, lastPut>>

LogSnapshot(r) ==
    /\ pc[r] = "reading"
    /\ ReplyWith(r, "snapshot", ent[loc[r].held].log)
    /\ UNCHANGED <<tests, lastSweep, ent, clock, loc, lastPut>>

\* handleLog and serveTest both answer 404 for an id that has no entry.
NotFound(r, id) ==
    /\ pc[r] = "new"
    /\ tests[id] = NoEntry
    /\ ReplyWith(r, "notfound", <<>>)
    /\ UNCHANGED <<tests, lastSweep, ent, clock, loc, lastPut>>

(***************************************************************************)
(* A test request: serveTest.                                              *)
(***************************************************************************)

\* store.get, then time.Now() and the step header: nothing shared in between.
TestGet(r, id, step) ==
    /\ pc[r] = "new"
    /\ tests[id] # NoEntry
    /\ pc' = [pc EXCEPT ![r] = "got"]
    /\ loc' = [loc EXCEPT ![r] = [NoLocal EXCEPT !.id = id, !.step = step,
                                                 !.now = clock, !.held = tests[id]]]
    /\ UNCHANGED <<tests, lastSweep, ent, clock, reply, lastPut>>

\* Faulty variant: the number is derived from the log instead of a counter.
TestNextSeqFromLog(r) ==
    LET e == loc[r].held IN
    /\ pc[r] = "got"
    /\ pc' = [pc EXCEPT ![r] = "numbered"]
    /\ ent' = [ent EXCEPT ![e].seq = Len(ent[e].log) + 1]
    /\ loc' = [loc EXCEPT ![r].seq = Len(ent[e].log) + 1]
    /\ UNCHANGED <<tests, lastSweep, clock, reply, lastPut>>

\* entry.nextSeq
TestNextSeq(r) ==
    LET e == loc[r].held IN
    /\ pc[r] = "got"
    /\ pc' = [pc EXCEPT ![r] = "numbered"]
    /\ ent' = [ent EXCEPT ![e].seq = @ + 1]
    /\ loc' = [loc EXCEPT ![r].seq = ent[e].seq + 1]
    /\ UNCHANGED <<tests, lastSweep, clock, reply, lastPut>>

\* newLogEntry for request r
LogEntryOf(r) ==
    [seq |-> loc[r].seq, step |-> loc[r].step,
     response |-> ResponseFor(ent[loc[r].held].script, loc[r].step),
     received |-> loc[r].now]

ResponseKind(r) ==
    LET sc == ent[loc[r].held].script IN KindOf(sc, ResponseFor(sc, loc[r].step))

\* Faulty variant: the cap is off by one.
RecordCapOffByOne(e, le) ==
    ent' = [ent EXCEPT ![e].log = IF Len(@) < MaxLog - 1 THEN Append(@, le) ELSE @]

\* entry.record: a full log drops the entry.
Record(e, le) ==
    ent' = [ent EXCEPT ![e].log = IF Len(@) < MaxLog THEN Append(@, le) ELSE @]

\* Faulty variant: the entry is looked up again by id when it is recorded.
TestRecordLooksUpAgain(r) ==
    /\ pc[r] = "numbered"
    /\ IF tests[loc[r].id] # NoEntry
       THEN Record(tests[loc[r].id], LogEntryOf(r)) ELSE UNCHANGED ent
    /\ IF ResponseKind(r) = "disconnect"
       THEN ReplyWith(r, "aborted", <<>>)
       ELSE pc' = [pc EXCEPT ![r] = "logged"] /\ UNCHANGED reply
    /\ UNCHANGED <<tests, lastSweep, clock, loc, lastPut>>

\* A scripted disconnect aborts the connection once it is logged; any other
\* response is built and logged before any of it is written.
TestRecord(r) ==
    /\ pc[r] = "numbered"
    /\ Record(loc[r].held, LogEntryOf(r))
    /\ IF ResponseKind(r) = "disconnect"
       THEN ReplyWith(r, "aborted", <<>>)
       ELSE pc' = [pc EXCEPT ![r] = "logged"] /\ UNCHANGED reply
    /\ UNCHANGED <<tests, lastSweep, clock, loc, lastPut>>

\* Faulty variant: the answer may be written before the entry is logged.
TestAnswerUnlogged(r) ==
    /\ pc[r] \in {"numbered", "logged"}
    /\ ReplyWith(r, "answered", <<>>)
    /\ UNCHANGED <<tests, lastSweep, ent, clock, loc, lastPut>>

\* writeInterim and writeFinal, after the delay if there is one
TestAnswer(r) ==
    /\ pc[r] = "logged"
    /\ ReplyWith(r, "answered", <<>>)
    /\ UNCHANGED <<tests, lastSweep, ent, clock, loc, lastPut>>

\* The request's context ends during the delay: nothing is written.
TestGone(r) ==
    /\ pc[r] = "logged"
    /\ ResponseKind(r) = "delayed"
    /\ ReplyWith(r, "gone", <<>>)
    /\ UNCHANGED <<tests, lastSweep, ent, clock, loc, lastPut>>

----------------------------------------------------------------------------

Tick ==
    /\ clock < MaxClock
    /\ clock' = clock + 1
    /\ UNCHANGED <<tests, lastSweep, ent, pc, loc, reply, lastPut>>

PutStep(r) ==
    \/ \E id \in Ids, sc \in Scripts \cup {Malformed} :
           PutReject(r, id, sc) \/ PutArrive(r, id, sc)
    \/ Put(r)

ControlStep(r) ==
    \/ \E id \in Ids : Delete(r, id) \/ LogGet(r, id) \/ NotFound(r, id)
    \/ LogSnapshot(r)

TestStep(r) ==
    \/ \E id \in Ids, step \in Steps : TestGet(r, id, step)
    \/ TestNextSeq(r)
    \/ TestRecord(r)
    \/ TestAnswer(r)
    \/ TestGone(r)

Next ==
    \/ \E r \in Requests : PutStep(r) \/ ControlStep(r) \/ TestStep(r)
    \/ Tick

Spec == Init /\ [][Next]_vars

----------------------------------------------------------------------------
(***************************************************************************)
(* Properties.                                                             *)
(***************************************************************************)

\* The sequence numbers in a log.
SeqsIn(log) == {log[i].seq : i \in DOMAIN log}

\* A request that entry.nextSeq has numbered and entry.record has not seen.
InFlight(r, e) == pc[r] = "numbered" /\ loc[r].held = e

\* Every number an entry has handed out (store.go nextSeq, record: two
\* critical sections) names exactly one request: it is logged at most once,
\* and a request still between the two sections holds a number that neither
\* the log nor another such request has.
SeqsNameOneRequest ==
    \A e \in Requests :
        /\ \A i, j \in DOMAIN ent[e].log :
               ent[e].log[i].seq = ent[e].log[j].seq => i = j
        /\ \A q \in Requests : InFlight(q, e) =>
               /\ loc[q].seq \notin SeqsIn(ent[e].log)
               /\ \A p \in Requests : InFlight(p, e) /\ loc[p].seq = loc[q].seq => p = q

\* No request is lost: every number handed out is in the log, or still on its
\* way to it, unless the log has reached maxLogEntries.
NoRequestLost ==
    \A e \in Requests : \A n \in 1..ent[e].seq :
        \/ n \in SeqsIn(ent[e].log)
        \/ \E q \in Requests : InFlight(q, e) /\ loc[q].seq = n
        \/ Len(ent[e].log) = MaxLog

SnapshotHasAnswered ==
    \A r, q \in Requests :
        /\ reply[r].status = "none" /\ reply'[r].status = "snapshot"
        /\ reply[q].status = "answered" /\ loc[q].held = loc[r].held
        => \/ loc[q].seq \in SeqsIn(reply'[r].log)
           \/ Len(reply'[r].log) = MaxLog

\* respond.go:73: an entry "is visible once the client has the response".  A
\* log fetched after a request was answered, from the entry that served it,
\* has that request, unless the log is full.
AnsweredIsVisible == [][SnapshotHasAnswered]_vars

\* A log is about one upload: whatever was stored, replaced or deleted while
\* its requests were being served, a fetched log holds only requests that were
\* received since the upload and answered by the uploaded script.
OneScriptPerLog ==
    \A r \in Requests : reply[r].status = "snapshot" =>
        LET e == ent[loc[r].held] IN
        \A i \in DOMAIN reply[r].log :
            /\ reply[r].log[i].response = ResponseFor(e.script, reply[r].log[i].step)
            /\ reply[r].log[i].received >= e.created

OnlyStaleSwept ==
    \A id \in Ids : tests[id] # NoEntry /\ tests'[id] # tests[id] =>
        \/ clock - ent[tests[id]].created > TTL
        \/ \E r \in Requests : Delete(r, id)
        \/ \E r \in Requests : tests'[id] = r /\ pc[r] = "putting"

\* A put's sweep takes nothing that is younger than TTL: a script disappears
\* only by its own DELETE, by a PUT of the same id, or after TTL.
FreshScriptSurvives == [][OnlyStaleSwept]_vars

\* store.go:51-58 sweeps only during a put, and at most once per TTL, so an
\* abandoned script may outlive TTL; it never outlives 2 * TTL past the moment
\* it was stored, as of the latest put.
RetentionBound ==
    \A id \in Ids : tests[id] # NoEntry => lastPut - ent[tests[id]].stored <= 2 * TTL

\* pkg/protocol/log.go:38,41: a log is an "ordered record" of the requests
\* received, "in arrival order"; Mecone-Origin-Seq is that order
\* (protocol.go:42).
LogInArrivalOrder ==
    \A e \in Requests : \A i, j \in DOMAIN ent[e].log :
        i < j => ent[e].log[i].seq < ent[e].log[j].seq

=============================================================================
