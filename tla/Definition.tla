---------------------------- MODULE Definition -----------------------------
(***************************************************************************)
(* Test definitions (pkg/testdef) and what the client makes of them: the   *)
(* rules of Validate, and Test.Script, which tells the origin how to       *)
(* answer each step.                                                       *)
(*                                                                         *)
(* A header line is its field, whether it has a value, and the value as a  *)
(* sequence of tokens.  Some tokens stand for what the code looks for in a *)
(* value: "${now}" and "${?" for a good and a malformed date template, "~" *)
(* for the mark of a pattern and "(" for what regexp.Compile refuses.  The *)
(* field, the method and the URL "?" are malformed ones.                   *)
(***************************************************************************)
EXTENDS Integers, Sequences, FiniteSets, SequencesExt

CONSTANTS
    Nil,          \* a pointer that is nil
    MaxBodySize   \* maxBodySize

NoName == ""      \* unset, for the name of a response and for a method

----------------------------------------------------------------------------
(***************************************************************************)
(* Lines (checkLine), with the templates and patterns in their values.     *)
(***************************************************************************)

Lines == [field : STRING, has : BOOLEAN, value : Seq(STRING)]

CheckTemplates(value) == "${?" \notin ToSet(value)

\* A value with a malformed template is left untouched as a whole.
Expand(value, now) ==
    IF ~CheckTemplates(value) THEN value
    ELSE [i \in DOMAIN value |-> IF value[i] = "${now}" THEN now ELSE value[i]]

IsPattern(value) == value # <<>> /\ value[1] = "~"
Compiles(value) == "(" \notin ToSet(value)

SendLine(line) == line.field # "?" /\ line.has /\ CheckTemplates(line.value)
ExpectLine(line) == line.field # "?" /\ (IsPattern(line.value) => Compiles(line.value))
NameLine(line) == line.field # "?" /\ ~line.has

(***************************************************************************)
(* Responses.                                                              *)
(***************************************************************************)

\* Faulty variant: the interim responses are not looked at.
ValidResponseFinal(r) ==
    /\ r # Nil
    /\ r.status = 0 \/ r.status \in 200..999
    /\ r.body = "" \/ r.size = 0
    /\ r.size \in 0..MaxBodySize
    /\ r.ranges => r.status \in {0, 200}
    /\ r.delay >= 0
    /\ \A line \in ToSet(r.headers) \cup ToSet(r.trailers) : SendLine(line)

ValidResponse(r) ==
    /\ r # Nil
    /\ r.status = 0 \/ r.status \in 200..999
    /\ r.body = "" \/ r.size = 0
    /\ r.size \in 0..MaxBodySize
    /\ r.ranges => r.status \in {0, 200}
    /\ r.delay >= 0
    /\ \A line \in ToSet(r.headers) \cup ToSet(r.trailers) : SendLine(line)
    /\ \A early \in ToSet(r.interim) :
          /\ early.status \in 100..199 \ {101}
          /\ \A line \in ToSet(early.headers) : SendLine(line)

(***************************************************************************)
(* Steps.                                                                  *)
(***************************************************************************)

IsWait(s) == s.wait # Nil
IsRequest(s) == s # Nil /\ ~IsWait(s)

SendsRequest(s) ==
    \/ s.parallel \/ s.arrange
    \/ s.method # NoName \/ s.url # "" \/ s.headers # <<>>
    \/ s.respondWith # NoName \/ s.expect # Nil

ValidWait(s) == s.wait > 0 /\ ~SendsRequest(s)

ValidRespondWith(s, responses) ==
    IF s.respondWith # NoName THEN s.respondWith \in DOMAIN responses
    ELSE Cardinality(DOMAIN responses) <= 1

HasForwardedHeaders(e) == e.forwardedHeaders # <<>> \/ e.forwardedAbsent # <<>>

ValidExpect(e) ==
    /\ e.status \subseteq 100..999
    /\ ToSet(e.interim) \subseteq 100..199
    /\ ~(e.forwarded = "no" /\ HasForwardedHeaders(e))
    /\ \A line \in ToSet(e.headers) \cup ToSet(e.trailers)
                     \cup ToSet(e.forwardedHeaders) : ExpectLine(line)
    /\ \A line \in ToSet(e.absent) \cup ToSet(e.forwardedAbsent) : NameLine(line)

ValidRequest(s, responses) ==
    /\ s.method # "?" /\ s.url # "?"
    /\ \A line \in ToSet(s.headers) : SendLine(line)
    /\ ValidRespondWith(s, responses)
    /\ s.expect # Nil => ValidExpect(s.expect)

ValidStep(s, responses) ==
    /\ s # Nil
    /\ IF IsWait(s) THEN ValidWait(s) ELSE ValidRequest(s, responses)

\* Test.Validate, but for the identity, the references and the prerequisites,
\* which module Corpus looks at.
Validate(t) ==
    /\ \A name \in DOMAIN t.responses : name # "?" /\ ValidResponse(t.responses[name])
    /\ \A i \in DOMAIN t.steps : ValidStep(t.steps[i], t.responses)
    /\ \E i \in DOMAIN t.steps : IsRequest(t.steps[i])

----------------------------------------------------------------------------
(***************************************************************************)
(* Test.Script, and Script.ResponseFor at the origin.                      *)
(***************************************************************************)

\* Test.ResponseFor
ResponseOf(t, s) ==
    IF s.respondWith # NoName \/ Cardinality(DOMAIN t.responses) # 1 THEN s.respondWith
    ELSE CHOOSE name \in DOMAIN t.responses : TRUE

\* The request steps that have a response, by their position among all steps.
NamedSteps(t) ==
    {i \in DOMAIN t.steps : ~IsWait(t.steps[i]) /\ ResponseOf(t, t.steps[i]) # NoName}

\* Faulty variant: steps are numbered without the waits.
ScriptSkipsWaits(t) ==
    LET number(i) == Cardinality({k \in 1..i : ~IsWait(t.steps[k])})
    IN  [responses |-> t.responses,
         steps     |-> [n \in {number(i) : i \in NamedSteps(t)} |->
                          ResponseOf(t, t.steps[CHOOSE i \in NamedSteps(t) : number(i) = n])],
         default   |-> IF NamedSteps(t) = {} THEN NoName
                       ELSE LET last == CHOOSE i \in NamedSteps(t) : \A k \in NamedSteps(t) : k <= i
                            IN  ResponseOf(t, t.steps[last])]

Script(t) ==
    [responses |-> t.responses,
     steps     |-> [i \in NamedSteps(t) |-> ResponseOf(t, t.steps[i])],
     default   |-> IF NamedSteps(t) = {} THEN NoName
                   ELSE LET last == CHOOSE i \in NamedSteps(t) : \A k \in NamedSteps(t) : k <= i
                        IN  ResponseOf(t, t.steps[last])]

\* The zero Response: an empty 200.
ZeroResponse ==
    [status |-> 0, headers |-> <<>>, body |-> "", size |-> 0, interim |-> <<>>,
     trailers |-> <<>>, ignore |-> FALSE, ranges |-> FALSE, delay |-> 0,
     disconnect |-> FALSE]

ServedName(script, step) ==
    IF step \in DOMAIN script.steps THEN script.steps[step] ELSE script.default

ServedResponse(script, step) ==
    LET name == ServedName(script, step)
    IN  IF name \in DOMAIN script.responses THEN script.responses[name] ELSE ZeroResponse

=============================================================================
