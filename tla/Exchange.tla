------------------------------ MODULE Exchange ------------------------------
(***************************************************************************)
(* A test from its file to its verdict: module Corpus loads and selects    *)
(* it, then the client (pkg/client/runner.go) uploads its script and sends *)
(* its steps through a proxy, the origin (pkg/origin/respond.go) answers   *)
(* what the proxy forwards, and the client judges the answers and the      *)
(* origin's log.  Failures of the control plane, cancellation and the      *)
(* critical sections of the origin are left to module TestRun.             *)
(*                                                                         *)
(* The proxy is not part of the repository.  It stores answers; it may     *)
(* answer by itself, forward a request as it is or with a condition of its *)
(* own, drop the step number or the interim responses, fail, and send a    *)
(* request again at any later time.                                        *)
(***************************************************************************)
EXTENDS Corpus, Judge

CONSTANTS
    Subject,   \* the test whose exchange is followed
    Now,       \* the date of the exchange
    MaxLog     \* bound: the requests that reach the origin

ASSUME NowAssumption == Now \in ToSet(Dates)

VARIABLES
    xpc,      \* where exercise is
    test,     \* the test's definition
    at,       \* the index in the steps that sendSteps has reached
    due,      \* the steps whose requests are under way
    obs,      \* what the client saw of each step
    script,   \* the script the origin holds
    log,      \* the origin's log
    seen,     \* the log the client was given
    outcome,  \* the verdict
    stored,   \* what the proxy has stored
    via       \* history: the place in the log of the request that answered a step

client == <<xpc, test, at, due, obs, seen, outcome>>
exchange == <<client, script, log, stored, via>>
allVars == <<vars, exchange>>

NotSeen == [err |-> FALSE, status |-> 0, header |-> NoHeader, trailer |-> NoHeader,
            interim |-> <<>>, body |-> ""]

ExchangeInit ==
    /\ Init
    /\ xpc = "idle" /\ test = Nil /\ at = 1 /\ due = {} /\ obs = <<>>
    /\ script = Nil /\ log = <<>> /\ seen = <<>> /\ outcome = "none"
    /\ stored = Nil /\ via = <<>>

----------------------------------------------------------------------------
(***************************************************************************)
(* The client: exercise, sendSteps, sendStepGroup.                         *)
(***************************************************************************)

\* Corpus.Test
DefinitionOf(t) == entries[CHOOSE i \in DOMAIN entries : entries[i].id = t].def

Exercise ==
    /\ xpc = "idle" /\ phase = "selected" /\ Subject \in chosen
    /\ xpc' = "steps"
    /\ test' = DefinitionOf(Subject)
    /\ script' = Script(DefinitionOf(Subject))
    /\ obs' = [n \in DOMAIN test'.steps |-> NotSeen]
    /\ via' = [n \in DOMAIN test'.steps |-> 0]
    /\ UNCHANGED <<vars, at, due, seen, outcome, log, stored>>

Sending == xpc = "steps" /\ due = {} /\ at <= Len(test.steps)

\* The steps that are sent together from step i, with parallelEnd
Group(i) ==
    IF test.steps[i].parallel
    THEN {k \in i..Len(test.steps) :
             \A m \in i..k : ~IsWait(test.steps[m]) /\ test.steps[m].parallel}
    ELSE {i}

Pause ==
    /\ Sending /\ IsWait(test.steps[at])
    /\ at' = at + 1
    /\ UNCHANGED <<vars, xpc, test, due, obs, seen, outcome, script, log, stored, via>>

\* Faulty variant: the next group does not wait for a parallel one.
SendGroupEarly ==
    /\ xpc = "steps" /\ at <= Len(test.steps) /\ ~IsWait(test.steps[at])
    /\ due' = due \cup Group(at)
    /\ at' = at + Cardinality(Group(at))
    /\ UNCHANGED <<vars, xpc, test, obs, seen, outcome, script, log, stored, via>>

SendGroup ==
    /\ Sending /\ ~IsWait(test.steps[at])
    /\ due' = Group(at)
    /\ at' = at + Cardinality(Group(at))
    /\ UNCHANGED <<vars, xpc, test, obs, seen, outcome, script, log, stored, via>>

\* What send asks for: GET unless the step says otherwise.
RequestOf(n) ==
    LET s == test.steps[n]
    IN  [method |-> IF s.method = NoName THEN "GET" ELSE s.method,
         header |-> HeaderOf(s.headers, Now)]

FetchLog ==
    /\ xpc = "steps" /\ due = {} /\ at > Len(test.steps)
    /\ xpc' = "judging" /\ seen' = log
    /\ UNCHANGED <<vars, test, at, due, obs, outcome, script, log, stored, via>>

JudgeTest ==
    /\ xpc = "judging"
    /\ xpc' = "judged" /\ outcome' = Verdict(test, Failures(test, obs, seen))
    /\ UNCHANGED <<vars, test, at, due, obs, seen, script, log, stored, via>>

\* The deferred DeleteScript.
DeleteScript ==
    /\ xpc = "judged"
    /\ xpc' = "done" /\ script' = Nil
    /\ UNCHANGED <<vars, test, at, due, obs, seen, outcome, log, stored, via>>

(***************************************************************************)
(* The origin: serveTest, for a request r that carries step number k.      *)
(***************************************************************************)

\* The recorded answer is stamped with its name.
Stamp(out, name) ==
    IF name = NoName THEN out
    ELSE [out EXCEPT !.header = Set(@, "Mecone-Response", <<name>>)]

Built(r, k) == Stamp(Build(r, ServedResponse(script, k), Now), ServedName(script, k))

LogEntry(r, k) ==
    [step |-> k, response |-> ServedName(script, k), method |-> r.method, header |-> r.header,
     status |-> IF ServedResponse(script, k).disconnect THEN 0 ELSE Built(r, k).status]

NoBody(r, status) == r.method = "HEAD" \/ status \in {204, 304}

\* writeInterim and writeFinal: what is on the wire
OnWire(r, resp, out) ==
    [err     |-> FALSE,
     status  |-> out.status,
     header  |-> out.header,
     trailer |-> HeaderOf(resp.trailers, Now),
     interim |-> [i \in DOMAIN resp.interim |-> resp.interim[i].status],
     body    |-> IF NoBody(r, out.status) THEN "" ELSE out.body]

Written(r, k) == OnWire(r, ServedResponse(script, k), Built(r, k))

(***************************************************************************)
(* The proxy under test.                                                   *)
(***************************************************************************)

Reaches(r, k) == Len(log) < MaxLog /\ script # Nil /\ log' = Append(log, LogEntry(r, k))

Answered(n, o) ==
    /\ obs' = [obs EXCEPT ![n] = o]
    /\ due' = due \ {n}
    /\ UNCHANGED <<vars, xpc, test, at, seen, outcome, script>>

GatewayError == [NotSeen EXCEPT !.status = 504]

\* The header that a proxy sends to revalidate what it has stored.
Revalidates(r) == [r EXCEPT !.header = Set(@, "If-None-Match", Get(stored.header, "Etag"))]

AnswersItself(n) ==
    /\ n \in due
    /\ Answered(n, IF stored = Nil THEN GatewayError ELSE stored)
    /\ UNCHANGED <<log, stored, via>>

RequestFails(n) ==
    /\ n \in due
    /\ Answered(n, [NotSeen EXCEPT !.err = TRUE])
    /\ UNCHANGED <<log, stored, via>>

\* Forwards a request with step number k and relays the answer, all of it or
\* without the interim responses.
Forwards(n, k, interim) ==
    /\ n \in due
    /\ Reaches(RequestOf(n), k)
    /\ IF ServedResponse(script, k).disconnect
       THEN Answered(n, GatewayError) /\ UNCHANGED stored
       ELSE \E o \in {Written(RequestOf(n), k)} :
               /\ Answered(n, IF interim THEN o ELSE [o EXCEPT !.interim = <<>>])
               /\ stored' = IF o.status = 200 THEN o ELSE stored
    /\ via' = [via EXCEPT ![n] = Len(log) + 1]

\* Forwards a request with a condition of its own: a 304 lets it answer with
\* what it has stored.
ForwardsConditionally(n) ==
    /\ n \in due /\ stored # Nil /\ stored.header["Etag"] # <<>>
    /\ ~ServedResponse(script, n).disconnect
    /\ Reaches(Revalidates(RequestOf(n)), n)
    /\ \E o \in {Written(Revalidates(RequestOf(n)), n)} :
          /\ Answered(n, IF o.status = 304 THEN stored ELSE o)
          /\ stored' = IF o.status = 200 THEN o ELSE stored
    /\ via' = [via EXCEPT ![n] = Len(log) + 1]

\* Sends the request of an earlier step once more, in the background.
SendsAgain(n) ==
    /\ xpc # "idle" /\ n < at /\ ~IsWait(test.steps[n])
    /\ \/ Reaches(RequestOf(n), n)
       \/ stored # Nil /\ stored.header["Etag"] # <<>> /\ Reaches(Revalidates(RequestOf(n)), n)
    /\ UNCHANGED <<vars, client, script, stored, via>>

----------------------------------------------------------------------------

ClientStep == Exercise \/ Pause \/ SendGroup \/ FetchLog \/ JudgeTest \/ DeleteScript

ProxyStep ==
    \/ \E n \in due :
          \/ AnswersItself(n) \/ RequestFails(n) \/ ForwardsConditionally(n)
          \/ \E k \in {n, 0}, interim \in BOOLEAN : Forwards(n, k, interim)
    \/ \E n \in DOMAIN obs : SendsAgain(n)

\* Nothing is left to do for a test that is not followed.
Over ==
    /\ \/ xpc = "done"
       \/ xpc = "idle" /\ (phase = "selected" => Subject \notin chosen)
    /\ Done /\ UNCHANGED exchange

ExchangeNext ==
    \/ Step /\ UNCHANGED exchange
    \/ ClientStep \/ ProxyStep
    \/ Over

\* Load and Select go on, and so does the client, whose timeout ends a request.
ExchangeSpec ==
    /\ ExchangeInit /\ [][ExchangeNext]_allVars
    /\ WF_allVars(Step /\ UNCHANGED exchange)
    /\ WF_allVars(ClientStep \/ \E n \in due : RequestFails(n))

----------------------------------------------------------------------------
(***************************************************************************)
(* Properties.                                                             *)
(***************************************************************************)

RequestSteps == {n \in DOMAIN test.steps : ~IsWait(test.steps[n])}

\* The response that the author of the test means for a request step: the one
\* that it names, or else the only one.
Meant(n) ==
    LET s == test.steps[n]
    IN  IF s.respondWith # NoName THEN {s.respondWith}
        ELSE IF DOMAIN test.responses = {} THEN {NoName} ELSE DOMAIN test.responses

\* docs/writing-tests.md:74 and docs/architecture.md:91: a request that reaches
\* the origin is answered with the response that the test means for its step,
\* and one without a known step number with that of the last request step,
\* whatever waits there are between the steps.
AnsweredAsMeant ==
    \A i \in DOMAIN log :
        LET e == log[i]
            n == IF e.step \in RequestSteps THEN e.step
                 ELSE CHOOSE k \in RequestSteps : \A m \in RequestSteps : m <= k
        IN  Meant(n) = {e.response}

\* The tag between the quotes at i and j is one of a list: it stands outside
\* of all other quotes, and only commas and weak marks come before it.
QuotesBefore(list, i) == Cardinality({k \in 1..(i - 1) : list[k] = Quote})
Outside(list, i) == QuotesBefore(list, i) % 2 = 0
Lists(list, tag) ==
    \E i, j \in DOMAIN list :
        /\ i < j /\ SubSeq(list, i, j) = tag
        /\ list[i] = Quote /\ list[j] = Quote /\ Outside(list, i) /\ QuotesBefore(list, j) = QuotesBefore(list, i) + 1
        /\ \A k \in 1..(i - 1) :
              Outside(list, k) => \/ list[k] \in {Separator, Quote}
                                  \/ list[k] = Weak /\ list[k + 1] = Quote

\* The request e asks not to be sent what the response r would send: one of its
\* lists of tags has the tag of r or, when it has no such list, its date is not
\* before that of r.
AsksNotTo(e, r) ==
    LET inm   == Join(e.header["If-None-Match"])
        h     == HeaderOf(r.headers, Now)
        etag  == Get(h, "Etag")
        since == Get(e.header, "If-Modified-Since")
    IN  /\ e.method \in {"GET", "HEAD"}
        /\ IF inm # <<>>
           THEN (etag # <<>> \/ r.ranges) /\ (inm = AnyETag \/ Lists(inm, TrimWeak(etag)))
           ELSE /\ IsDate(since) /\ IsDate(Get(h, "Last-Modified"))
                /\ DateOf(Get(h, "Last-Modified")) <= DateOf(since)

\* An entity tag that is not a weak one.
IsStrongTag(s) ==
    /\ Len(s) >= 2 /\ s[1] = Quote /\ s[Len(s)] = Quote
    /\ \A k \in 2..(Len(s) - 1) : s[k] # Quote

\* The If-Range of e, if there is one, is that of the response r: it begins with
\* its tag, or is its date.
IsOfVersion(e, r) ==
    LET value == Get(e.header, "If-Range")
        h     == HeaderOf(r.headers, Now)
        etag  == Get(h, "Etag")
    IN  \/ value = <<>>
        \/ IsStrongTag(etag) /\ Len(etag) <= Len(value) /\ SubSeq(value, 1, Len(etag)) = etag
        \/ IsDate(value) /\ value = Get(h, "Last-Modified")

\* The request e asks for a part of the body of r: only a GET can, in bytes, and
\* only of the version it names.  An empty body has no parts.
AsksForPart(e, r) ==
    LET range == Get(e.header, "Range")
    IN  /\ e.method = "GET"
        /\ Len(range) = 2 /\ range[1] \in {"bytes", "Bytes"}
        /\ IsOfVersion(e, r)
        /\ ResponseBody(r) = "" => range # <<"bytes", "out">>

\* The response that answered a request of the log.
ResponseTo(e) ==
    IF e.response \in DOMAIN test.responses THEN test.responses[e.response] ELSE ZeroResponse

\* What the documents do not say of a response r with ranges, or say and the code
\* does not do: ignore_conditionals (see ConditionsAreIgnored) and several fields
\* of entity tags, of which http.ServeContent reads the first; and the conditions
\* of If-Match and If-Unmodified-Since, which only http.ServeContent looks at.
Disputed(e, r) ==
    /\ r.ranges
    /\ \/ r.ignore
       \/ Len(e.header["If-None-Match"]) > 1
       \/ e.header["If-Match"] # <<>>
       \/ e.header["If-Unmodified-Since"] # <<>>

\* docs/architecture.md:99-106: the origin answers 304 to exactly the requests
\* that ask not to be sent the response.  Only a 200 is conditional, and not one
\* that ignores conditions.  Else a response with ranges is answered in part, or
\* with 416, exactly when it is asked for a part, and of the version that an
\* If-Range names.
AnsweredAsAsked ==
    \A i \in DOMAIN log :
        LET e   == log[i]
            r   == ResponseTo(e)
            yes == r.status \in {0, 200} /\ ~r.ignore /\ AsksNotTo(e, r)
        IN  e.status # 0 /\ ~Disputed(e, r) =>
                /\ e.status = 304 <=> r.status = 304 \/ yes
                /\ r.ranges => (e.status \in {206, 416} <=> ~yes /\ AsksForPart(e, r))

\* docs/writing-tests.md:65: with ignore_conditionals the origin must "send 200
\* even when If-None-Match/If-Modified-Since match".
ConditionsAreIgnored ==
    \A i \in DOMAIN log : ResponseTo(log[i]).ignore => log[i].status # 304

\* The wanted interim responses are among those received, in their order.
Among(want, got) ==
    \E f \in [DOMAIN want -> DOMAIN got] :
        /\ \A i \in DOMAIN want : got[f[i]] = want[i]
        /\ \A i, j \in DOMAIN want : i < j => f[i] < f[j]

\* What step n asks for is what happened.
Met(n) ==
    LET e == test.steps[n].expect
        o == obs[n]
        reached == {i \in DOMAIN seen : seen[i].step = n}
    IN  /\ ~o.err
        /\ e # Nil =>
              /\ e.status = {} \/ o.status \in e.status
              /\ e.body \in {Nil, o.body}
              /\ MatchAll(e.headers, o.header) /\ AbsentAll(e.absent, o.header)
              /\ MatchAll(e.trailers, o.trailer)
              /\ Among(e.interim, o.interim)
              /\ e.forwarded = "yes" \/ HasForwardedHeaders(e) => reached # {}
              /\ e.forwarded = "no" => reached = {}
              /\ \A i \in reached : (\A k \in reached : i <= k) =>
                    /\ MatchAll(e.forwardedHeaders, seen[i].header)
                    /\ AbsentAll(e.forwardedAbsent, seen[i].header)

\* docs/architecture.md, Judging: a test passes when all that it expects was
\* met, is inconclusive when a step that arranges was not, and fails only when
\* the scene was set and some other step was not met.
VerdictIsEarned ==
    outcome # "none" =>
        LET unmet == {n \in RequestSteps : ~Met(n)}
        IN  /\ outcome = "pass" <=> unmet = {}
            /\ outcome = "inconclusive" <=> \E n \in unmet : test.steps[n].arrange

\* Once a request of a step is in the log that the client was given, nothing
\* that reaches the origin later would change what is said of that step: a
\* proxy that sends it again, or in the background, cannot make the verdict a
\* matter of when the log was fetched.  Only a step of which nothing was logged
\* can still turn.
VerdictStands ==
    outcome # "none" =>
        \A n \in RequestSteps : ~NoEntries(LogStep(seen, n)) =>
            (n \in Failures(test, obs, seen) <=> n \in Failures(test, obs, log))

\* A test that Load accepts can be played: what is sent, interim responses
\* included, has no malformed template and a status that fits its place, and what
\* is expected holds no pattern that cannot be read.  Nothing of this is checked
\* again, and a proxy would be blamed for it.
Malformed(h) == \E f \in Fields : \E i \in DOMAIN h[f] : "${?" \in ToSet(h[f][i])
Readable(lines) == \A i \in DOMAIN lines : IsPattern(lines[i].value) => Compiles(lines[i].value)
AcceptedIsPlayable ==
    xpc # "idle" =>
        /\ \A n \in RequestSteps : obs[n] # NotSeen =>
              /\ ~Malformed(obs[n].header) /\ ~Malformed(obs[n].trailer)
              /\ obs[n].err \/ obs[n].status \in 200..999
              /\ ToSet(obs[n].interim) \subseteq 100..199 \ {101}
        /\ \A i \in DOMAIN log :
              /\ ~Malformed(log[i].header)
              /\ LET early == ResponseTo(log[i]).interim
                 IN  \A k \in DOMAIN early : ~Malformed(HeaderOf(early[k].headers, Now))
        /\ \A n \in RequestSteps :
              LET e == test.steps[n].expect
              IN  e # Nil => Readable(e.headers) /\ Readable(e.trailers) /\ Readable(e.forwardedHeaders)

\* Steps m and n are not of one parallel group, and m comes first.
Before(m, n) == m < n /\ ~\E i \in 1..m : {m, n} \subseteq Group(i)

\* Steps reach the origin in the order of the test: of two steps that are not
\* sent together, the request that answered the earlier one came first.
StepsArriveInOrder ==
    \A m, n \in DOMAIN via :
        Before(m, n) /\ via[m] # 0 /\ via[n] # 0 => via[m] < via[n]

\* Load, Select and the exchange come to an end.
ExchangeEnds ==
    <>(\/ phase \in {"nomatch", "badfilter", "invalid", "unknown", "cycle"}
       \/ phase = "selected" /\ (Subject \in chosen => xpc = "done"))

=============================================================================
