----------------------------- MODULE MCExchange -----------------------------
(***************************************************************************)
(* Values of the constants of Exchange and Corpus for TLC: the graphs of   *)
(* requirements that Load and Select are shown, and the tests whose        *)
(* exchange is followed.                                                   *)
(***************************************************************************)
EXTENDS Exchange

CONSTANTS t1, t2, t3, t4, t5, x

----------------------------------------------------------------------------
(***************************************************************************)
(* Parts of definitions.                                                   *)
(***************************************************************************)

Line(field, value) == [field |-> field, has |-> TRUE, value |-> value]
Name(field) == [field |-> field, has |-> FALSE, value |-> <<>>]

Tag(s) == <<Quote>> \o s \o <<Quote>>

NoExpect == [status |-> {}, headers |-> <<>>, absent |-> <<>>, trailers |-> <<>>, body |-> Nil,
             interim |-> <<>>, forwarded |-> "any", forwardedHeaders |-> <<>>,
             forwardedAbsent |-> <<>>]

MCGet == [wait |-> Nil, parallel |-> FALSE, arrange |-> FALSE, method |-> "", url |-> "",
          headers |-> <<>>, respondWith |-> "", expect |-> Nil]
MCWait == [MCGet EXCEPT !.wait = 1]

MCSends(h) == [MCGet EXCEPT !.headers = h]
MCExpects(s, e) == [s EXCEPT !.expect = e]
MCNamed(s, name) == [s EXCEPT !.respondWith = name]
MCTogether(s) == [s EXCEPT !.parallel = TRUE]
MCArranges(s) == [s EXCEPT !.arrange = TRUE]

MCTagged(value) == [ZeroResponse EXCEPT !.headers = <<Line("Etag", value)>>, !.body = "full"]
One(r) == [a |-> r]
Two(r, s) == [a |-> r, b |-> s]
Test(responses, steps) == [responses |-> responses, steps |-> steps]

Plain == Test(<<>>, <<MCGet>>)

----------------------------------------------------------------------------
(***************************************************************************)
(* Conditional requests and ranges: one request each.                      *)
(***************************************************************************)

\* Every list of up to four tokens against one tag, and longer lists against a
\* weak tag and one with a comma.
TagList(list, etag) ==
    Test(One(MCTagged(etag)), <<MCSends(<<Line("If-None-Match", list)>>)>>)

TagLists ==
    { TagList(list, Tag(<<"a">>)) : list \in BoundedSeq({",", Weak, Quote, "a"}, 4) } \cup
    { TagList(list, etag) :
        list \in { AnyETag, Tag(<<"b">>) \o <<",">> \o Tag(<<"a">>), Tag(<<"a", ",", "b">>),
                   <<",", Weak>> \o Tag(<<"b", ",">>) \o <<",", Weak>> \o Tag(<<"a">>),
                   <<"b", ",">> \o Tag(<<"a">>), Tag(<<"b">>) \o <<"b", ",">> \o Tag(<<"a">>) },
        etag \in {Tag(<<"a">>), <<Weak>> \o Tag(<<"a">>), Tag(<<"a", ",", "b">>)} }

\* Methods, dates, two lines of tags, ranges, and responses of every kind.
ConditionsOn(r, lines) ==
    { Test(One(r), <<[MCSends(h) EXCEPT !.method = method]>>) :
        method \in {"", "HEAD", "POST"}, h \in lines }

Dated == <<Line("Last-Modified", <<"d2">>)>>
DatedAndTagged == Dated \o <<Line("Etag", Tag(<<"a">>))>>

Since(d) == Line("If-Modified-Since", <<d>>)
NoneOf(tag) == Line("If-None-Match", Tag(<<tag>>))

Conditions ==
    UNION { ConditionsOn([ZeroResponse EXCEPT !.headers = h, !.body = "full", !.ignore = ignore,
                                              !.status = status],
                         { <<Since("d1")>>, <<Since("d2")>>, <<Since("${now}")>>, <<Since("a")>>,
                           <<NoneOf("b"), Since("d3")>>, <<NoneOf("b"), NoneOf("a")>>,
                           <<Line("If-None-Match", AnyETag)>> }) :
              h \in {<<>>, Dated, DatedAndTagged}, ignore \in BOOLEAN, status \in {0, 304, 404} }

Parts ==
    UNION { ConditionsOn([ZeroResponse EXCEPT !.headers = DatedAndTagged, !.size = 2,
                                              !.ignore = ignore, !.ranges = TRUE],
                         { <<Line("Range", <<unit, where>>)>> :
                              unit \in {"bytes", "Bytes", "seconds"}, where \in {"in", "out"} } \cup
                         { <<Line("Range", <<"bytes">>)>>, <<>>, <<NoneOf("b"), NoneOf("a")>>,
                           <<NoneOf("a"), Line("Range", <<"bytes", "in">>)>>,
                           <<Since("d1"), Line("Range", <<"bytes", "in">>)>> }) :
              ignore \in BOOLEAN }
    \cup
    UNION { ConditionsOn([ZeroResponse EXCEPT !.headers = h, !.size = size, !.ranges = TRUE],
                         { <<Line("Range", <<"bytes", where>>), Line(field, value)>> :
                              where \in {"in", "out", "?"}, field \in {"If-Range", "If-Match"},
                              value \in { Tag(<<"a">>), Tag(<<"b">>), <<Weak>> \o Tag(<<"a">>),
                                          Tag(<<"b">>) \o <<",">> \o Tag(<<"a">>), AnyETag,
                                          <<"d1">>, <<"d2">>, <<Quote, "a">> } } \cup
                         { <<Line("Range", <<"bytes", "in">>), Line("If-Unmodified-Since", <<d>>)>> :
                              d \in {"d1", "d2"} }) :
              h \in {<<>>, DatedAndTagged}, size \in {0, 2} }

----------------------------------------------------------------------------
(***************************************************************************)
(* Exchanges of several steps.                                             *)
(***************************************************************************)

FromOrigin == [NoExpect EXCEPT !.status = {200}, !.forwarded = "yes"]
FromCache == [NoExpect EXCEPT !.forwarded = "no", !.headers = <<Line("Mecone-Response", <<"a">>)>>]
NotConditional == [NoExpect EXCEPT !.forwardedAbsent = <<Name("If-None-Match")>>]
Conditional == [NoExpect EXCEPT !.forwardedHeaders = <<Line("If-None-Match", <<"~", "a">>)>>]

A == MCTagged(Tag(<<"a">>))
B == [MCTagged(Tag(<<"b">>)) EXCEPT !.headers = @ \o <<Line("X", <<"a">>), Line("X", <<"${now}">>)>>]

\* Something is stored, a wait, and it is used, revalidated or replaced.
Scenes ==
    { Test(Two(A, B), <<MCArranges(MCExpects(MCNamed(MCGet, "a"), FromOrigin)), MCWait,
                        MCExpects(MCNamed(MCGet, "b"), e)>>) :
        e \in {FromCache, NotConditional, Conditional,
               [NoExpect EXCEPT !.headers = <<Line("X", <<"a", ",", "d2">>)>>],
               [NoExpect EXCEPT !.absent = <<Name("X")>>, !.body = "full"]} }

\* Requests at once, then a third one; and steps without a response.
Parallels ==
    { Test(Two(A, B), <<MCTogether(MCNamed(MCGet, "a")), MCTogether(MCNamed(MCArranges(MCGet), "b")),
                        MCExpects(MCNamed(MCGet, "a"), FromCache)>>),
      Test(Two(A, B), <<MCWait, MCNamed(MCGet, "a"), MCNamed(MCGet, "b")>>),
      Test(One([A EXCEPT !.disconnect = TRUE]), <<MCWait, MCGet>>),
      Test(<<>>, <<MCWait, MCExpects(MCGet, FromOrigin), MCWait>>) }

\* Interim responses and trailers.
Interims ==
    { Test(One([ZeroResponse EXCEPT !.interim = sent, !.trailers = <<Line("X", <<"a">>)>>]),
           <<MCExpects(MCGet, [NoExpect EXCEPT !.interim = want, !.trailers = <<Name("X")>>])>>) :
        sent \in BoundedSeq({[status |-> c, headers |-> <<Line("X", <<"${now}">>)>>] : c \in {100, 102, 103}}, 3),
        want \in BoundedSeq({102, 103}, 2) }

----------------------------------------------------------------------------
(***************************************************************************)
(* Definitions that are refused.                                           *)
(***************************************************************************)

Odd ==
    { Test(One(r), <<MCGet>>) :
        r \in { Nil, [ZeroResponse EXCEPT !.status = 103], [ZeroResponse EXCEPT !.status = 1000],
                [ZeroResponse EXCEPT !.body = "full", !.size = 1],
                [ZeroResponse EXCEPT !.size = MaxBodySize + 1],
                [ZeroResponse EXCEPT !.ranges = TRUE, !.status = 404],
                [ZeroResponse EXCEPT !.delay = -1],
                [ZeroResponse EXCEPT !.headers = <<Line("X", <<"${?">>)>>],
                [ZeroResponse EXCEPT !.trailers = <<Name("X")>>],
                [ZeroResponse EXCEPT !.interim = <<[status |-> 101, headers |-> <<>>]>>],
                [ZeroResponse EXCEPT !.interim = <<[status |-> 200, headers |-> <<>>]>>],
                [ZeroResponse EXCEPT !.interim = <<[status |-> 103,
                                                    headers |-> <<Line("X", <<"${?">>)>>]>>] } }
    \cup
    { Test(Two(A, B), <<s, MCNamed(MCGet, "b")>>) :
        s \in { Nil, [MCWait EXCEPT !.wait = 0], [MCWait EXCEPT !.arrange = TRUE], MCGet,
                MCNamed(MCGet, "c"), [MCNamed(MCGet, "a") EXCEPT !.method = "?"],
                [MCNamed(MCGet, "a") EXCEPT !.url = "?"],
                MCNamed(MCSends(<<Line("?", <<"a">>)>>), "a"),
                MCNamed(MCSends(<<Line("X", <<"a", "${?">>)>>), "a") } }
    \cup
    { Test(One(A), <<MCExpects(MCGet, e)>>) :
        e \in { [NotConditional EXCEPT !.forwarded = "no"], [NoExpect EXCEPT !.status = {99}],
                [NoExpect EXCEPT !.interim = <<200>>], [NoExpect EXCEPT !.absent = <<Line("X", <<"a">>)>>],
                [NoExpect EXCEPT !.headers = <<Line("X", <<"~", "(">>)>>],
                [NoExpect EXCEPT !.trailers = <<Line("X", <<"~", "(">>)>>],
                [NoExpect EXCEPT !.forwardedHeaders = <<Line("X", <<"~", "(">>)>>] } }
    \cup { Test(<<>>, <<MCWait>>) }

Followed ==
    TagLists \cup Conditions \cup Parts \cup Scenes \cup Parallels \cup Interims \cup Odd

MCDefinitions == Followed \cup {Plain}

----------------------------------------------------------------------------
(***************************************************************************)
(* Corpora.                                                                *)
(***************************************************************************)

\* The requirements of one entry: at most two, in any order.
UpToTwo(S) == {<<>>} \cup {<<s>> : s \in S} \cup (S \X S)

MCEntry(t, deps) == [id |-> t, requires |-> deps, ok |-> TRUE, def |-> Plain]

\* Every graph over three tests, one unknown test among the required ones.
Graphs3 ==
    { << MCEntry(t1, q1), MCEntry(t2, q2), MCEntry(t3, q3) >> :
          q1 \in UpToTwo({t2, t3, x}), q2 \in UpToTwo({t1, t3}), q3 \in UpToTwo({t1, t2}) }

\* Entries that are refused: one of a taken id, one that is invalid, and one
\* that requires itself.
Refused ==
    { << MCEntry(t1, <<>>), MCEntry(t1, <<t2>>), MCEntry(t2, <<t1>>) >>,
      << MCEntry(t1, <<>>), [MCEntry(t2, <<t1>>) EXCEPT !.ok = FALSE] >>,
      << MCEntry(t1, <<t1>>), MCEntry(t2, <<>>) >> }

\* Four tests: a diamond, a chain and a cycle off a chain.
Graphs4 ==
    { << MCEntry(t1, <<t2, t3>>), MCEntry(t2, <<t4>>), MCEntry(t3, <<t4>>), MCEntry(t4, <<>>) >>,
      << MCEntry(t4, <<t3>>), MCEntry(t3, <<t2>>), MCEntry(t2, <<t1>>), MCEntry(t1, <<>>) >>,
      << MCEntry(t1, <<t2>>), MCEntry(t2, <<t3>>), MCEntry(t3, <<t4>>), MCEntry(t4, <<t2>>) >> }

\* One test, whose exchange is followed.
Single(definitions) == { << [MCEntry(t5, <<>>) EXCEPT !.def = d] >> : d \in definitions }

MCParts == Single(Parts)

MCFiles == {<<>>} \cup Graphs3 \cup Refused \cup Graphs4 \cup Single(Followed)

=============================================================================
