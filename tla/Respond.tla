------------------------------ MODULE Respond ------------------------------
(***************************************************************************)
(* The answer the origin builds for a request that reaches it              *)
(* (pkg/origin/respond.go: build): conditional requests and ranges.        *)
(*                                                                         *)
(* A header is the values of each field, in order; a value is a sequence   *)
(* of tokens.  An entity tag is what stands between two quotes.            *)
(***************************************************************************)
EXTENDS Definition

Fields == {"If-None-Match", "If-Modified-Since", "If-Match", "If-Unmodified-Since", "If-Range",
           "Range", "Etag", "Last-Modified", "Content-Type", "Mecone-Response", "X"}

NoHeader == [f \in Fields |-> <<>>]

\* Header.Add for each line
HeaderOf(lines, now) ==
    LET added[j \in 0..Len(lines)] ==
            IF j = 0 THEN NoHeader
            ELSE [added[j - 1] EXCEPT ![lines[j].field] = Append(@, Expand(lines[j].value, now))]
    IN  added[Len(lines)]

\* Header.Get and Header.Set
Get(h, f) == IF h[f] = <<>> THEN <<>> ELSE h[f][1]
Set(h, f, value) == [h EXCEPT ![f] = <<value>>]
Del(h, f) == [h EXCEPT ![f] = <<>>]

\* strings.Join: all values of a field, with a comma between them
Join(values) ==
    IF values = <<>> THEN <<>>
    ELSE Tail(FlattenSeq([i \in DOMAIN values |-> <<",">> \o values[i]]))

Quote == "q"
Weak == "W/"
AnyETag == <<"*">>
Separator == ","     \* blanks between tags are left out

\* http.ParseTime: the dates, in their order
Dates == <<"d1", "d2", "d3">>
IsDate(value) == Len(value) = 1 /\ value[1] \in ToSet(Dates)
DateOf(value) == CHOOSE k \in DOMAIN Dates : Dates[k] = value[1]

----------------------------------------------------------------------------
(***************************************************************************)
(* If-None-Match and If-Modified-Since (notModified).                      *)
(***************************************************************************)

TrimWeak(s) == IF s # <<>> /\ s[1] = Weak THEN Tail(s) ELSE s

\* The least of a set of positions, or one past the end of s.
FirstOf(s, found) ==
    IF found = {} THEN Len(s) + 1 ELSE CHOOSE i \in found : \A k \in found : i <= k

TrimLeft(s) ==
    SubSeq(s, FirstOf(s, {i \in DOMAIN s : s[i] # Separator}), Len(s))

\* Faulty variant: a comma ends a tag, within its quotes too.
CutTagAtComma(s) ==
    LET close == FirstOf(s, {i \in DOMAIN s : i > 1 /\ s[i] = ","})
    IN  IF s # <<>> /\ s[1] = Quote
        THEN [ok |-> TRUE, tag |-> SubSeq(s, 1, close - 1), rest |-> SubSeq(s, close + 1, Len(s))]
        ELSE [ok |-> FALSE, tag |-> <<>>, rest |-> <<>>]

\* The tag at the start of s, with its quotes, and what is left of s.
CutTag(s) ==
    LET close == FirstOf(s, {i \in DOMAIN s : i > 1 /\ s[i] = Quote})
    IN  IF s # <<>> /\ s[1] = Quote /\ close <= Len(s)
        THEN [ok |-> TRUE, tag |-> SubSeq(s, 1, close), rest |-> SubSeq(s, close + 1, Len(s))]
        ELSE [ok |-> FALSE, tag |-> <<>>, rest |-> <<>>]

NextETag(list) == CutTag(TrimWeak(TrimLeft(list)))

\* The loop of etagListMatches, for lists of each length in turn.
ETagListMatches(list, etag) ==
    LET rests == {SubSeq(list, i, Len(list)) : i \in 1..(Len(list) + 1)}
        found[l \in rests] ==
            \E n \in {NextETag(l)} : n.ok /\ (n.tag = TrimWeak(etag) \/ found[n.rest])
    IN  list = AnyETag \/ found[list]

\* If-None-Match takes precedence over If-Modified-Since.
NotModified(r, h) ==
    LET inm   == Join(r.header["If-None-Match"])
        since == Get(r.header, "If-Modified-Since")
        modified == Get(h, "Last-Modified")
    IN  /\ r.method \in {"GET", "HEAD"}
        /\ IF inm # <<>> THEN Get(h, "Etag") # <<>> /\ ETagListMatches(inm, Get(h, "Etag"))
           ELSE IsDate(since) /\ IsDate(modified) /\ DateOf(modified) <= DateOf(since)

(***************************************************************************)
(* Ranges.                                                                 *)
(***************************************************************************)

\* A range is its unit and what it asks for, which is "in" or "out" of the
\* body, or cannot be read.  Units are compared without regard to case.
IsBytesRange(value) == Len(value) = 2 /\ value[1] \in {"bytes", "Bytes"}

WithoutIgnoredRange(r) ==
    IF r.method = "GET" /\ IsBytesRange(Get(r.header, "Range")) THEN r
    ELSE [r EXCEPT !.header = Del(@, "Range")]

\* http.ServeContent, for the fields above: it takes the first of each.  A star
\* among the tags of an If-None-Match, which makes no list, is left out.
Reads(r) == r.method \in {"GET", "HEAD"}

\* etagStrongMatch: s begins with a tag, not a weak one, which is the given one.
StrongMatch(s, etag) == CutTag(s).ok /\ CutTag(s).tag = etag

\* The loop of checkIfMatch
IfMatches(list, etag) ==
    LET rests == {SubSeq(list, i, Len(list)) : i \in 1..(Len(list) + 1)}
        found[l \in rests] ==
            /\ TrimLeft(l) # <<>>
            /\ \/ TrimLeft(l)[1] = "*"
               \/ NextETag(l).ok /\ (StrongMatch(TrimLeft(l), etag) \/ found[NextETag(l).rest])
    IN  found[list]

\* If-Match takes precedence over If-Unmodified-Since.
Refuses(r, h) ==
    LET match    == Get(r.header, "If-Match")
        since    == Get(r.header, "If-Unmodified-Since")
        modified == Get(h, "Last-Modified")
    IN  IF match # <<>> THEN ~IfMatches(match, Get(h, "Etag"))
        ELSE IsDate(since) /\ IsDate(modified) /\ DateOf(modified) > DateOf(since)

Unchanged(r, h, inm, since, modified) ==
    IF inm # <<>> THEN inm = AnyETag \/ (Get(h, "Etag") # <<>> /\ ETagListMatches(inm, Get(h, "Etag")))
    ELSE Reads(r) /\ IsDate(since) /\ IsDate(modified) /\ DateOf(modified) <= DateOf(since)

\* checkIfRange: a tag, or else the very date of the response
IfRangeHolds(r, h) ==
    LET value == Get(r.header, "If-Range")
    IN  \/ value = <<>>
        \/ IF CutTag(TrimWeak(value)).ok THEN StrongMatch(value, Get(h, "Etag"))
           ELSE IsDate(value) /\ value = Get(h, "Last-Modified")

\* A range of an empty body is ignored.  The unit is "bytes" here, in this case only.
ServeContent(r, h, body) ==
    LET range == Get(r.header, "Range")
    IN  IF Refuses(r, h) THEN [status |-> 412, header |-> h, body |-> ""]
        ELSE IF Unchanged(r, h, Get(r.header, "If-None-Match"), Get(r.header, "If-Modified-Since"),
                          Get(h, "Last-Modified"))
        THEN IF ~Reads(r) THEN [status |-> 412, header |-> h, body |-> ""]
             ELSE [status |-> 304, body |-> "",
                   header |-> IF h["Etag"] = <<>> THEN Del(h, "Content-Type")
                              ELSE Del(Del(h, "Content-Type"), "Last-Modified")]
        ELSE IF range = <<>> \/ ~IfRangeHolds(r, h) \/ (range = <<"bytes", "out">> /\ body = "")
        THEN [status |-> 200, header |-> h, body |-> body]
        ELSE IF range = <<"bytes", "in">> THEN [status |-> 206, header |-> h, body |-> "part"]
        ELSE [status |-> 416, header |-> Del(Del(h, "Etag"), "Last-Modified"), body |-> "error"]

(***************************************************************************)
(* build.                                                                  *)
(***************************************************************************)

ResponseBody(resp) == IF resp.body # "" \/ resp.size <= 0 THEN resp.body ELSE "generated"

\* The header has a content type.
Typed(h) == IF Get(h, "Content-Type") = <<>> THEN Set(h, "Content-Type", <<"text/plain">>) ELSE h

Answer(r, resp, h) ==
    LET status == IF resp.status = 0 THEN 200 ELSE resp.status
    IN  IF resp.ranges /\ status = 200
        THEN ServeContent(WithoutIgnoredRange(r), h, ResponseBody(resp))
        ELSE IF ~resp.ignore /\ status = 200 /\ NotModified(r, h)
        THEN [status |-> 304, header |-> Del(h, "Content-Type"), body |-> ""]
        ELSE [status |-> status, header |-> h, body |-> ResponseBody(resp)]

Build(r, resp, now) == Answer(r, resp, Typed(HeaderOf(resp.headers, now)))

=============================================================================
