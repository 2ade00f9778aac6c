------------------------------- MODULE Judge -------------------------------
(***************************************************************************)
(* How a test is judged (pkg/check/check.go): what the client saw of each  *)
(* step, and the origin's log of what reached it, against what the test    *)
(* expects.  Messages are left out: a check holds or it does not.          *)
(***************************************************************************)
EXTENDS Respond

\* Log.Step: the entries of step n, at their places in the log
LogStep(log, n) == Restrict(log, {i \in DOMAIN log : log[i].step = n})
NoEntries(forwarded) == DOMAIN forwarded = {}

\* regexp.MatchString: a pattern is not anchored
Occurs(pattern, value) ==
    \E i \in 0..(Len(value) - Len(pattern)) :
        SubSeq(value, i + 1, i + Len(pattern)) = pattern

MatchLine(line, h) ==
    LET got == Join(h[line.field])
    IN  /\ h[line.field] # <<>>
        /\ line.has =>
              IF IsPattern(line.value)
              THEN Compiles(line.value) /\ Occurs(Tail(line.value), got)
              ELSE got = line.value

MatchAll(lines, h) == \A i \in DOMAIN lines : MatchLine(lines[i], h)
AbsentAll(names, h) == \A i \in DOMAIN names : h[names[i].field] = <<>>

CheckStatus(want, got) == want = {} \/ got \in want
CheckBody(want, got) == want = Nil \/ got = want

\* Faulty variant: nothing may come between the wanted ones.
InOrderOnly(got, want) == Len(want) <= Len(got) /\ SubSeq(got, 1, Len(want)) = want

\* inOrder: how many of the wanted ones were met, after each that was got
MetAfter(got, want) ==
    LET met[j \in 0..Len(got)] ==
            IF j = 0 THEN 0
            ELSE IF met[j - 1] < Len(want) /\ got[j] = want[met[j - 1] + 1]
            THEN met[j - 1] + 1 ELSE met[j - 1]
    IN  met

InOrder(got, want) == MetAfter(got, want)[Len(got)] = Len(want)

CheckForwarded(want, forwarded) ==
    CASE want = "any" -> TRUE
      [] want = "yes" -> ~NoEntries(forwarded)
      [] want = "no"  -> NoEntries(forwarded)

\* Faulty variant: the last request of the step counts.
CheckForwardedHeadersLast(e, forwarded) ==
    HasForwardedHeaders(e) =>
        /\ ~NoEntries(forwarded)
        /\ LET h == forwarded[Max(DOMAIN forwarded)].header
           IN  MatchAll(e.forwardedHeaders, h) /\ AbsentAll(e.forwardedAbsent, h)

\* The first request of the step counts.
CheckForwardedHeaders(e, forwarded) ==
    HasForwardedHeaders(e) =>
        /\ ~NoEntries(forwarded)
        /\ LET h == forwarded[Min(DOMAIN forwarded)].header
           IN  MatchAll(e.forwardedHeaders, h) /\ AbsentAll(e.forwardedAbsent, h)

EvaluateStep(e, o, forwarded) ==
    /\ ~o.err
    /\ e # Nil =>
          /\ CheckStatus(e.status, o.status)
          /\ MatchAll(e.headers, o.header) /\ AbsentAll(e.absent, o.header)
          /\ MatchAll(e.trailers, o.trailer)
          /\ CheckBody(e.body, o.body)
          /\ InOrder(o.interim, e.interim)
          /\ CheckForwarded(e.forwarded, forwarded)
          /\ CheckForwardedHeaders(e, forwarded)

\* Evaluate: the request steps that failed.
Failures(t, obs, log) ==
    {n \in DOMAIN t.steps :
        ~IsWait(t.steps[n]) /\ ~EvaluateStep(t.steps[n].expect, obs[n], LogStep(log, n))}

Verdict(t, fails) ==
    IF \E n \in fails : t.steps[n].arrange THEN "inconclusive"
    ELSE IF fails # {} THEN "fail" ELSE "pass"

=============================================================================
