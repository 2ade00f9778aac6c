------------------------- MODULE OriginStoreProofs -------------------------
(***************************************************************************)
(* Proofs about OriginStore, for every set of requests, ids and scripts,   *)
(* every TTL and every log capacity.                                       *)
(***************************************************************************)
EXTENDS OriginStore, TLAPS

\* Request e is a PUT whose entry the store has taken.
Stored(e) == reply[e].status = "stored"

\* What the pointers in the store and in the handlers may refer to.
PointersInv ==
    /\ \A id \in Ids : tests[id] # NoEntry => Stored(tests[id])
    /\ \A r \in Requests : loc[r].held # NoEntry => Stored(loc[r].held)
    /\ \A r \in Requests : pc[r] \in {"got", "numbered", "logged", "reading"} =>
           loc[r].held # NoEntry
    /\ \A r \in Requests : reply[r].status = "none" <=> pc[r] # "replied"

\* An entry is blank until its PUT arrives, and final in script and creation
\* time from then on.
EntriesInv ==
    \A e \in Requests :
        /\ pc[e] = "putting" \/ Stored(e) =>
               /\ ent[e].script \in Scripts
               /\ ent[e].created <= clock
        /\ pc[e] = "putting" => loc[e].id \in Ids /\ loc[e].now = ent[e].created
        /\ Stored(e) => ent[e].created <= ent[e].stored /\ ent[e].stored <= clock
        /\ ~Stored(e) => ent[e].seq = 0 /\ ent[e].log = <<>>

\* The sweep keeps nothing stored more than TTL before it, and the latest put
\* is at most TTL after the latest sweep.
SweepInv ==
    /\ lastSweep <= clock
    /\ lastPut - lastSweep <= TTL
    /\ \A id \in Ids : tests[id] # NoEntry => lastSweep - ent[tests[id]].stored <= TTL

IInv == TypeOK /\ PointersInv /\ EntriesInv /\ SweepInv

(***************************************************************************)
(* Facts about the operators.                                              *)
(***************************************************************************)

\* ResponseFor answers every step of a decoded script with a known name or
\* with none (protocol.go:66-72).
LEMMA ResponseForType ==
    ASSUME NEW sc \in Scripts, NEW step
    PROVE  ResponseFor(sc, step) \in Names \cup {NoName}
  BY ScriptsAssumption DEF ResponseFor

\* The types of the parts of the state, read off TypeOK.
LEMMA FieldTypes ==
    ASSUME TypeOK
    PROVE  /\ \A id \in Ids : tests[id] \in Requests \cup {NoEntry}
           /\ \A r \in Requests : /\ loc[r].held \in Requests \cup {NoEntry}
                                  /\ loc[r].seq \in Nat
                                  /\ loc[r].step \in Steps
                                  /\ loc[r].now \in Nat
           /\ \A e \in Requests : /\ ent[e].created \in Nat
                                  /\ ent[e].stored \in Nat
                                  /\ ent[e].seq \in Nat
                                  /\ ent[e].log \in Seq(LogEntry)
  BY DEF TypeOK, Local, Entry

\* Updating one field of an entry gives an entry that keeps its other fields.
LEMMA EntrySeqUpdate ==
    ASSUME NEW x \in Entry, NEW n \in Nat
    PROVE  LET y == [x EXCEPT !.seq = n]
           IN  /\ y \in Entry
               /\ y.seq = n /\ y.log = x.log /\ y.script = x.script
               /\ y.created = x.created /\ y.stored = x.stored
  BY DEF Entry

LEMMA EntryLogUpdate ==
    ASSUME NEW x \in Entry, NEW l \in Seq(LogEntry)
    PROVE  LET y == [x EXCEPT !.log = l]
           IN  /\ y \in Entry
               /\ y.seq = x.seq /\ y.log = l /\ y.script = x.script
               /\ y.created = x.created /\ y.stored = x.stored
  BY DEF Entry

\* entry.nextSeq changes one counter, and one handler's copy of it.
NextSeqPost(r) ==
    LET e == loc[r].held IN
    /\ e \in Requests
    /\ ent' \in [Requests -> Entry] /\ loc' \in [Requests -> Local]
    /\ \A d \in Requests : d # e => ent'[d] = ent[d]
    /\ ent'[e].seq = ent[e].seq + 1
    /\ ent'[e].log = ent[e].log /\ ent'[e].script = ent[e].script
    /\ ent'[e].created = ent[e].created /\ ent'[e].stored = ent[e].stored
    /\ \A q \in Requests : q # r => loc'[q] = loc[q]
    /\ loc'[r].seq = ent[e].seq + 1 /\ loc'[r].held = e
    /\ loc'[r].now = loc[r].now /\ loc'[r].step = loc[r].step
    /\ loc'[r].id = loc[r].id
    /\ pc' = [pc EXCEPT ![r] = "numbered"] /\ pc[r] = "got"
    /\ UNCHANGED <<tests, lastSweep, clock, reply, lastPut>>

LEMMA NextSeqEffect ==
    ASSUME TypeOK, NEW r \in Requests, TestNextSeq(r)
    PROVE  NextSeqPost(r)
<1> DEFINE e == loc[r].held
<1>1. e \in Requests /\ ent[e] \in Entry /\ ent[e].seq + 1 \in Nat
  BY DEF TypeOK, TestNextSeq, Entry
<1>2. ent' = [ent EXCEPT ![e] = [ent[e] EXCEPT !.seq = ent[e].seq + 1]]
  BY <1>1 DEF TypeOK, TestNextSeq
<1>3. [ent[e] EXCEPT !.seq = ent[e].seq + 1] \in Entry
  BY <1>1, EntrySeqUpdate
<1>4. ent' \in [Requests -> Entry]
  BY <1>1, <1>2, <1>3 DEF TypeOK
<1>5. loc' = [loc EXCEPT ![r] = [loc[r] EXCEPT !.seq = ent[e].seq + 1]]
  BY DEF TypeOK, TestNextSeq
<1>6. loc[r] \in Local
  BY DEF TypeOK
<1>7. loc' \in [Requests -> Local]
  BY <1>1, <1>5, <1>6 DEF TypeOK, Local
<1>8. ent'[e] = [ent[e] EXCEPT !.seq = ent[e].seq + 1] /\ \A d \in Requests : d # e => ent'[d] = ent[d]
  BY <1>1, <1>2 DEF TypeOK
<1>9. loc'[r] = [loc[r] EXCEPT !.seq = ent[e].seq + 1] /\ \A q \in Requests : q # r => loc'[q] = loc[q]
  BY <1>5 DEF TypeOK
<1>10. /\ loc'[r].seq = ent[e].seq + 1 /\ loc'[r].held = e
       /\ loc'[r].now = loc[r].now /\ loc'[r].step = loc[r].step
       /\ loc'[r].id = loc[r].id
  BY <1>6, <1>9 DEF Local
<1>11. /\ pc' = [pc EXCEPT ![r] = "numbered"] /\ pc[r] = "got"
       /\ UNCHANGED <<tests, lastSweep, clock, reply, lastPut>>
  BY DEF TestNextSeq
<1>12. /\ ent'[e].seq = ent[e].seq + 1
       /\ ent'[e].log = ent[e].log /\ ent'[e].script = ent[e].script
       /\ ent'[e].created = ent[e].created /\ ent'[e].stored = ent[e].stored
  BY <1>1, <1>8, EntrySeqUpdate
<1> QED BY <1>1, <1>4, <1>7, <1>8, <1>9, <1>10, <1>11, <1>12 DEF NextSeqPost

\* entry.record changes one log: it gains one entry, or is full and stays.
RecordPost(r) ==
    LET e == loc[r].held IN
    /\ e \in Requests
    /\ LogEntryOf(r) \in LogEntry
    /\ ent' \in [Requests -> Entry]
    /\ \A d \in Requests : d # e => ent'[d] = ent[d]
    /\ ent'[e].log = IF Len(ent[e].log) < MaxLog
                     THEN Append(ent[e].log, LogEntryOf(r)) ELSE ent[e].log
    /\ ent'[e].seq = ent[e].seq /\ ent'[e].script = ent[e].script
    /\ ent'[e].created = ent[e].created /\ ent'[e].stored = ent[e].stored
    /\ pc[r] = "numbered" /\ pc'[r] \in {"logged", "replied"}
    /\ pc'[r] = "logged" => reply'[r] = reply[r]
    /\ pc'[r] = "replied" => reply'[r].status = "aborted"
    /\ \A q \in Requests : q # r => pc'[q] = pc[q] /\ reply'[q] = reply[q]
    /\ pc' \in [Requests -> PC] /\ reply' \in [Requests -> Reply]
    /\ UNCHANGED <<tests, lastSweep, clock, loc, lastPut>>

LEMMA RecordEffect ==
    ASSUME TypeOK, PointersInv, EntriesInv, NEW r \in Requests, TestRecord(r)
    PROVE  RecordPost(r)
<1> DEFINE e == loc[r].held
           le == LogEntryOf(r)
           l == IF Len(ent[e].log) < MaxLog THEN Append(ent[e].log, le) ELSE ent[e].log
<1>1. e \in Requests /\ ent[e] \in Entry /\ ent[e].log \in Seq(LogEntry)
  BY FieldTypes DEF TypeOK, TestRecord
<1>2. ResponseFor(ent[e].script, loc[r].step) \in Names \cup {NoName}
  BY <1>1, ResponseForType, ConstantsAssumption DEF EntriesInv, PointersInv
<1>3. le \in LogEntry
  BY <1>2, FieldTypes DEF LogEntryOf, LogEntry
<1>4. l \in Seq(LogEntry)
  BY <1>1, <1>3
<1>5. ent' = [ent EXCEPT ![e] = [ent[e] EXCEPT !.log = l]]
  BY <1>1 DEF TypeOK, TestRecord, Record
<1>6. [ent[e] EXCEPT !.log = l] \in Entry
  BY <1>1, <1>4, EntryLogUpdate
<1>7. ent'[e] = [ent[e] EXCEPT !.log = l] /\ \A d \in Requests : d # e => ent'[d] = ent[d]
  BY <1>1, <1>5 DEF TypeOK
<1>8. ent' \in [Requests -> Entry]
  BY <1>1, <1>5, <1>6 DEF TypeOK
<1> HIDE DEF le, l
<1>9. /\ ent'[e].log = l
      /\ ent'[e].seq = ent[e].seq /\ ent'[e].script = ent[e].script
      /\ ent'[e].created = ent[e].created /\ ent'[e].stored = ent[e].stored
  BY <1>1, <1>4, <1>7, EntryLogUpdate
<1>10. /\ pc[r] = "numbered"
       /\ UNCHANGED <<tests, lastSweep, clock, loc, lastPut>>
  BY DEF TestRecord
<1>11. /\ pc'[r] \in {"logged", "replied"}
       /\ pc'[r] = "logged" => reply'[r] = reply[r]
       /\ pc'[r] = "replied" => reply'[r].status = "aborted"
       /\ \A q \in Requests : q # r => pc'[q] = pc[q] /\ reply'[q] = reply[q]
       /\ pc' \in [Requests -> PC] /\ reply' \in [Requests -> Reply]
  <2>1. CASE ResponseKind(r) = "disconnect"
    <3>1. ReplyWith(r, "aborted", <<>>)
      BY <2>1 DEF TestRecord
    <3>2. pc' \in [Requests -> PC] /\ reply' \in [Requests -> Reply]
      BY <3>1 DEF TypeOK, ReplyWith, PC, Reply, Status
    <3> QED BY <3>1, <3>2 DEF TypeOK, ReplyWith
  <2>2. CASE ResponseKind(r) # "disconnect"
    <3>1. pc' = [pc EXCEPT ![r] = "logged"] /\ reply' = reply
      BY <2>2 DEF TestRecord
    <3> QED BY <3>1 DEF TypeOK, PC
  <2> QED BY <2>1, <2>2
<1> QED BY <1>1, <1>3, <1>7, <1>8, <1>9, <1>10, <1>11 DEF le, l, RecordPost

LEMMA InitIInv == Init => IInv
<1> SUFFICES ASSUME Init PROVE IInv
  OBVIOUS
<1> USE ConstantsAssumption DEF Init
<1>1. TypeOK
  BY DEF TypeOK, Entry, LogEntry, Local, NoLocal, NewEntry, PC, Reply, Status
<1>2. PointersInv
  BY DEF PointersInv, Stored, NoLocal
<1>3. EntriesInv
  BY DEF EntriesInv, Stored, NewEntry
<1>4. SweepInv
  BY DEF SweepInv
<1> QED BY <1>1, <1>2, <1>3, <1>4 DEF IInv

LEMMA NextIInv == IInv /\ [Next]_vars => IInv'
<1> SUFFICES ASSUME IInv, [Next]_vars PROVE IInv'
  OBVIOUS
<1> USE ConstantsAssumption DEF IInv
<1>1. ASSUME NEW r \in Requests, NEW id \in Ids, NEW sc \in Scripts \cup {Malformed}, PutReject(r, id, sc) PROVE IInv'
  <2> USE <1>1 DEF PutReject
  <2>1. TypeOK'
    <3>1. pc' \in [Requests -> PC] /\ reply' \in [Requests -> Reply]
      BY DEF TypeOK, ReplyWith, PC, Reply, Status
    <3>2. \A q \in Requests : pc'[q] \in {pc[q], "replied"}
      BY DEF TypeOK, ReplyWith
    <3> QED BY <3>1, <3>2 DEF TypeOK
  <2>2. PointersInv'
    BY FieldTypes DEF TypeOK, PointersInv, Stored, ReplyWith
  <2>3. EntriesInv'
    BY FieldTypes DEF TypeOK, EntriesInv, PointersInv, Stored, ReplyWith
  <2>4. SweepInv'
    BY FieldTypes DEF TypeOK, SweepInv, EntriesInv, PointersInv, Stored, ReplyWith
  <2> QED BY <2>1, <2>2, <2>3, <2>4
<1>2. ASSUME NEW r \in Requests, NEW id \in Ids, NEW sc \in Scripts \cup {Malformed}, PutArrive(r, id, sc) PROVE IInv'
  <2> USE <1>2 DEF PutArrive, NewEntry, NoLocal
  <2>1. TypeOK'
    <3>1. ent' \in [Requests -> Entry]
      BY DEF TypeOK, Entry, NewEntry
    <3>2. loc' \in [Requests -> Local]
      BY DEF TypeOK, Local, NoLocal
    <3> QED BY <3>1, <3>2, FieldTypes DEF TypeOK, PC, PointersInv, Stored, NewEntry
  <2>2. PointersInv'
    BY FieldTypes DEF TypeOK, PointersInv, Stored, ReplyWith
  <2>3. EntriesInv'
    BY FieldTypes DEF TypeOK, EntriesInv, PointersInv, Stored, ReplyWith
  <2>4. SweepInv'
    BY FieldTypes DEF TypeOK, SweepInv, EntriesInv, PointersInv, Stored, ReplyWith
  <2> QED BY <2>1, <2>2, <2>3, <2>4
<1>3. ASSUME NEW r \in Requests, Put(r) PROVE IInv'
  <2> USE <1>3 DEF Put, ReplyWith, Kept, Expired, SweepDue
  <2>1. TypeOK'
    <3>1. ent' \in [Requests -> Entry]
      BY DEF TypeOK, Entry
    <3>2. tests' \in [Ids -> Requests \cup {NoEntry}]
      BY FieldTypes DEF TypeOK
    <3>3. lastSweep' \in Nat /\ lastPut' \in Nat
      BY FieldTypes DEF TypeOK
    <3>4. pc' \in [Requests -> PC] /\ reply' \in [Requests -> Reply]
      BY DEF TypeOK, PC, Reply, Status
    <3>5. \A e \in Requests : ent'[e].script = ent[e].script
      BY DEF TypeOK, Entry
    <3>6. \A k \in Ids : tests'[k] \in {tests[k], NoEntry, r}
      BY DEF TypeOK
    <3> QED BY <3>1, <3>2, <3>3, <3>4, <3>5, <3>6, FieldTypes DEF TypeOK, EntriesInv
  <2>2. PointersInv'
    BY FieldTypes DEF TypeOK, PointersInv, Stored, ReplyWith
  <2>3. EntriesInv'
    BY FieldTypes DEF TypeOK, EntriesInv, PointersInv, Stored, ReplyWith
  <2>4. SweepInv'
    <3>1. \A e \in Requests : e # r => ent'[e] = ent[e]
      BY DEF TypeOK
    <3>2. ent'[r].stored = clock
      BY DEF TypeOK, Entry
    <3>3. r \notin {tests[k] : k \in Ids}
      BY FieldTypes DEF TypeOK, PointersInv, Stored
    <3>4. loc[r].now \in Nat /\ loc[r].now <= clock
      BY FieldTypes DEF EntriesInv
    <3>5. lastSweep' <= clock' /\ lastPut' - lastSweep' <= TTL
      BY <3>4 DEF TypeOK, SweepInv
    <3>6. ASSUME NEW k \in Ids, tests'[k] # NoEntry
          PROVE  lastSweep' - ent'[tests'[k]].stored <= TTL
      <4>1. CASE tests'[k] = r
        BY <4>1, <3>2, <3>4 DEF TypeOK, SweepInv
      <4>2. CASE tests'[k] # r
        <5>1. /\ tests'[k] = tests[k] /\ tests[k] \in Requests
              /\ SweepDue(loc[r].now) => loc[r].now - ent[tests[k]].created <= TTL
          BY <4>2, <3>6, <3>4, FieldTypes DEF TypeOK
        <5>2. ent[tests[k]].created <= ent[tests[k]].stored
          BY <5>1 DEF PointersInv, EntriesInv
        <5>3. ent'[tests'[k]] = ent[tests[k]]
          BY <5>1, <4>2, <3>1
        <5>4. lastSweep - ent[tests[k]].stored <= TTL /\ ent[tests[k]].stored \in Nat
          BY <5>1, <3>6, FieldTypes DEF SweepInv
        <5>5. ent[tests[k]].created \in Nat /\ ent[tests[k]].stored \in Nat
          BY <5>1, FieldTypes
        <5>6. CASE SweepDue(loc[r].now)
          <6>1. lastSweep' = loc[r].now /\ loc[r].now - ent[tests[k]].created <= TTL
            BY <5>1, <5>6
          <6>2. loc[r].now - ent[tests[k]].stored <= TTL
            <7>1. TTL \in Nat
              BY ConstantsAssumption
            <7> QED BY ONLY <7>1, <6>1, <5>2, <5>5, <3>4
          <6> QED BY <6>1, <6>2, <5>3
        <5>7. CASE ~SweepDue(loc[r].now)
          BY <5>3, <5>4, <5>7
        <5> QED BY <5>6, <5>7
      <4> QED BY <4>1, <4>2
    <3> QED BY <3>5, <3>6 DEF SweepInv
  <2> QED BY <2>1, <2>2, <2>3, <2>4
<1>4. ASSUME NEW r \in Requests, NEW id \in Ids, Delete(r, id) PROVE IInv'
  <2> USE <1>4 DEF Delete
  <2>1. TypeOK'
    <3>1. pc' \in [Requests -> PC] /\ reply' \in [Requests -> Reply]
      BY DEF TypeOK, ReplyWith, PC, Reply, Status
    <3>2. \A q \in Requests : pc'[q] \in {pc[q], "replied"}
      BY DEF TypeOK, ReplyWith
    <3> QED BY <3>1, <3>2, FieldTypes DEF TypeOK
  <2>2. PointersInv'
    BY FieldTypes DEF TypeOK, PointersInv, Stored, ReplyWith
  <2>3. EntriesInv'
    BY FieldTypes DEF TypeOK, EntriesInv, PointersInv, Stored, ReplyWith
  <2>4. SweepInv'
    BY FieldTypes DEF TypeOK, SweepInv, EntriesInv, PointersInv, Stored, ReplyWith
  <2> QED BY <2>1, <2>2, <2>3, <2>4
<1>5. ASSUME NEW r \in Requests, NEW id \in Ids, LogGet(r, id) PROVE IInv'
  <2> USE <1>5 DEF LogGet, NoLocal
  <2>1. TypeOK'
    <3>1. loc' \in [Requests -> Local]
      BY FieldTypes DEF TypeOK, Local
    <3> QED BY <3>1, FieldTypes DEF TypeOK, PC, PointersInv
  <2>2. PointersInv'
    BY FieldTypes DEF TypeOK, PointersInv, Stored, ReplyWith
  <2>3. EntriesInv'
    BY FieldTypes DEF TypeOK, EntriesInv, PointersInv, Stored, ReplyWith
  <2>4. SweepInv'
    BY FieldTypes DEF TypeOK, SweepInv, EntriesInv, PointersInv, Stored, ReplyWith
  <2> QED BY <2>1, <2>2, <2>3, <2>4
<1>6. ASSUME NEW r \in Requests, NEW id \in Ids, NotFound(r, id) PROVE IInv'
  <2> USE <1>6 DEF NotFound
  <2>1. TypeOK'
    <3>1. pc' \in [Requests -> PC] /\ reply' \in [Requests -> Reply]
      BY DEF TypeOK, ReplyWith, PC, Reply, Status
    <3>2. \A q \in Requests : pc'[q] \in {pc[q], "replied"}
      BY DEF TypeOK, ReplyWith
    <3> QED BY <3>1, <3>2 DEF TypeOK
  <2>2. PointersInv'
    BY FieldTypes DEF TypeOK, PointersInv, Stored, ReplyWith
  <2>3. EntriesInv'
    BY FieldTypes DEF TypeOK, EntriesInv, PointersInv, Stored, ReplyWith
  <2>4. SweepInv'
    BY FieldTypes DEF TypeOK, SweepInv, EntriesInv, PointersInv, Stored, ReplyWith
  <2> QED BY <2>1, <2>2, <2>3, <2>4
<1>7. ASSUME NEW r \in Requests, LogSnapshot(r) PROVE IInv'
  <2> USE <1>7 DEF LogSnapshot
  <2>1. TypeOK'
    <3>1. pc' \in [Requests -> PC] /\ reply' \in [Requests -> Reply]
      BY FieldTypes DEF TypeOK, ReplyWith, PC, Reply, Status
    <3>2. \A q \in Requests : pc'[q] \in {pc[q], "replied"}
      BY DEF TypeOK, ReplyWith
    <3> QED BY <3>1, <3>2, FieldTypes DEF TypeOK
  <2>2. PointersInv'
    BY FieldTypes DEF TypeOK, PointersInv, Stored, ReplyWith
  <2>3. EntriesInv'
    BY FieldTypes DEF TypeOK, EntriesInv, PointersInv, Stored, ReplyWith
  <2>4. SweepInv'
    BY FieldTypes DEF TypeOK, SweepInv, EntriesInv, PointersInv, Stored, ReplyWith
  <2> QED BY <2>1, <2>2, <2>3, <2>4
<1>8. ASSUME NEW r \in Requests, NEW id \in Ids, NEW step \in Steps, TestGet(r, id, step) PROVE IInv'
  <2> USE <1>8 DEF TestGet, NoLocal
  <2>1. TypeOK'
    <3>1. loc' \in [Requests -> Local]
      BY FieldTypes DEF TypeOK, Local
    <3> QED BY <3>1, FieldTypes DEF TypeOK, PC, PointersInv
  <2>2. PointersInv'
    BY FieldTypes DEF TypeOK, PointersInv, Stored, ReplyWith
  <2>3. EntriesInv'
    BY FieldTypes DEF TypeOK, EntriesInv, PointersInv, Stored, ReplyWith
  <2>4. SweepInv'
    BY FieldTypes DEF TypeOK, SweepInv, EntriesInv, PointersInv, Stored, ReplyWith
  <2> QED BY <2>1, <2>2, <2>3, <2>4
<1>9. ASSUME NEW r \in Requests, TestNextSeq(r) PROVE IInv'
  <2>0. NextSeqPost(r)
    BY <1>9, NextSeqEffect
  <2>1. TypeOK'
    BY <2>0, FieldTypes DEF NextSeqPost, TypeOK, PC
  <2>2. PointersInv'
    <3>1. UNCHANGED <<tests, reply>>
      BY <2>0 DEF NextSeqPost
    <3>2. \A q \in Requests : loc'[q].held = loc[q].held
      BY <2>0 DEF NextSeqPost
    <3>3. /\ loc[r].held \in Requests /\ pc[r] = "got" /\ pc'[r] = "numbered"
          /\ \A q \in Requests : q # r => pc'[q] = pc[q]
      BY <2>0 DEF NextSeqPost, TypeOK
    <3> QED BY <3>1, <3>2, <3>3 DEF PointersInv, Stored
  <2>3. EntriesInv'
    BY <2>0, FieldTypes DEF NextSeqPost, TypeOK, PointersInv, EntriesInv, Stored
  <2>4. SweepInv'
    BY <2>0, FieldTypes DEF NextSeqPost, TypeOK, PointersInv, SweepInv, Stored
  <2> QED BY <2>1, <2>2, <2>3, <2>4
<1>10. ASSUME NEW r \in Requests, TestRecord(r) PROVE IInv'
  <2>0. RecordPost(r)
    BY <1>10, RecordEffect
  <2>1. TypeOK'
    BY <2>0, FieldTypes DEF RecordPost, TypeOK
  <2>2. PointersInv'
    <3>1. \A q \in Requests : reply'[q].status = "stored" <=> reply[q].status = "stored"
      BY <2>0 DEF RecordPost, PointersInv
    <3>2. \A q \in Requests : reply'[q].status = "none" <=> pc'[q] # "replied"
      BY <2>0 DEF RecordPost, PointersInv
    <3>3. tests' = tests /\ loc' = loc /\ \A q \in Requests : pc'[q] \in {pc[q], "logged", "replied"}
      BY <2>0 DEF RecordPost
    <3>4. \A q \in Requests : pc'[q] \in {"got", "numbered", "logged", "reading"} => loc[q].held # NoEntry
      BY <2>0 DEF RecordPost, PointersInv
    <3> QED BY <3>1, <3>2, <3>3, <3>4, FieldTypes DEF PointersInv, Stored
  <2>3. EntriesInv'
    BY <2>0, FieldTypes DEF RecordPost, TypeOK, PointersInv, EntriesInv, Stored
  <2>4. SweepInv'
    BY <2>0, FieldTypes DEF RecordPost, TypeOK, PointersInv, SweepInv, Stored
  <2> QED BY <2>1, <2>2, <2>3, <2>4
<1>11. ASSUME NEW r \in Requests, TestAnswer(r) PROVE IInv'
  <2> USE <1>11 DEF TestAnswer
  <2>1. TypeOK'
    <3>1. pc' \in [Requests -> PC] /\ reply' \in [Requests -> Reply]
      BY DEF TypeOK, ReplyWith, PC, Reply, Status
    <3>2. \A q \in Requests : pc'[q] \in {pc[q], "replied"}
      BY DEF TypeOK, ReplyWith
    <3> QED BY <3>1, <3>2 DEF TypeOK
  <2>2. PointersInv'
    BY FieldTypes DEF TypeOK, PointersInv, Stored, ReplyWith
  <2>3. EntriesInv'
    BY FieldTypes DEF TypeOK, EntriesInv, PointersInv, Stored, ReplyWith
  <2>4. SweepInv'
    BY FieldTypes DEF TypeOK, SweepInv, EntriesInv, PointersInv, Stored, ReplyWith
  <2> QED BY <2>1, <2>2, <2>3, <2>4
<1>12. ASSUME NEW r \in Requests, TestGone(r) PROVE IInv'
  <2> USE <1>12 DEF TestGone
  <2>1. TypeOK'
    <3>1. pc' \in [Requests -> PC] /\ reply' \in [Requests -> Reply]
      BY DEF TypeOK, ReplyWith, PC, Reply, Status
    <3>2. \A q \in Requests : pc'[q] \in {pc[q], "replied"}
      BY DEF TypeOK, ReplyWith
    <3> QED BY <3>1, <3>2 DEF TypeOK
  <2>2. PointersInv'
    BY FieldTypes DEF TypeOK, PointersInv, Stored, ReplyWith
  <2>3. EntriesInv'
    BY FieldTypes DEF TypeOK, EntriesInv, PointersInv, Stored, ReplyWith
  <2>4. SweepInv'
    BY FieldTypes DEF TypeOK, SweepInv, EntriesInv, PointersInv, Stored, ReplyWith
  <2> QED BY <2>1, <2>2, <2>3, <2>4
<1>13. CASE Tick
  BY <1>13 DEF Tick, TypeOK, PointersInv, EntriesInv, SweepInv, Stored, Entry
<1>14. CASE UNCHANGED vars
  BY <1>14 DEF vars, TypeOK, PointersInv, EntriesInv, SweepInv, Stored
<1> QED
  BY <1>1, <1>2, <1>3, <1>4, <1>5, <1>6, <1>7, <1>8, <1>9, <1>10, <1>11, <1>12, <1>13, <1>14
  DEF Next, PutStep, ControlStep, TestStep

(***************************************************************************)
(* Retention: the type invariant and the bound on the age of a script.     *)
(***************************************************************************)

LEMMA IInvHolds == Spec => []IInv
  BY InitIInv, NextIInv, PTL DEF Spec

\* Type correctness of the origin: no handler ever works on a missing entry or
\* on a body that did not decode.
THEOREM TypeCorrect == Spec => []TypeOK
<1>1. IInv => TypeOK
  BY DEF IInv
<1> QED BY IInvHolds, <1>1, PTL

\* store.put's lazy sweep, for every TTL: as of the latest put, no script in
\* the store was stored more than 2 * TTL ago.
THEOREM Retention == Spec => []RetentionBound
<1>1. ASSUME IInv PROVE RetentionBound
  <2> SUFFICES ASSUME NEW id \in Ids, tests[id] # NoEntry
               PROVE  lastPut - ent[tests[id]].stored <= 2 * TTL
    BY DEF RetentionBound
  <2>1. tests[id] \in Requests /\ ent[tests[id]].stored \in Nat
    BY <1>1, FieldTypes DEF IInv
  <2>2. lastPut - lastSweep <= TTL /\ lastSweep - ent[tests[id]].stored <= TTL
    BY <1>1 DEF IInv, SweepInv
  <2> QED BY <1>1, <2>1, <2>2, ConstantsAssumption DEF IInv, TypeOK
<1> QED BY IInvHolds, <1>1, PTL

(***************************************************************************)
(* The request log.                                                        *)
(***************************************************************************)

\* Everything in a log was numbered by its entry, received since the upload
\* and answered by the uploaded script; a log never exceeds its capacity.
LogInv ==
    \A e \in Requests :
        /\ Len(ent[e].log) <= MaxLog
        /\ \A i \in DOMAIN ent[e].log :
               /\ ent[e].log[i].seq \in 1..ent[e].seq
               /\ ent[e].log[i].response = ResponseFor(ent[e].script, ent[e].log[i].step)
               /\ ent[e].log[i].received >= ent[e].created

\* What a handler on its way to entry.record holds.
NumberedInv ==
    \A q \in Requests :
        /\ pc[q] = "numbered" => loc[q].seq \in 1..ent[loc[q].held].seq
        /\ pc[q] \in {"got", "numbered"} => loc[q].now >= ent[loc[q].held].created

\* What a handler past entry.record, or past entry.snapshot, can rely on.
LoggedInv ==
    \A q \in Requests :
        /\ pc[q] = "logged" \/ reply[q].status = "answered" =>
               /\ loc[q].held # NoEntry
               /\ \/ loc[q].seq \in SeqsIn(ent[loc[q].held].log)
                  \/ Len(ent[loc[q].held].log) = MaxLog
        /\ reply[q].status = "snapshot" => loc[q].held # NoEntry

LInv == /\ LogInv /\ NumberedInv /\ LoggedInv
        /\ SeqsNameOneRequest /\ NoRequestLost /\ OneScriptPerLog

\* A step of request r that neither numbers nor logs a request.
Quiet(r) ==
    /\ \A e \in Requests : ent'[e].seq = ent[e].seq /\ ent'[e].log = ent[e].log
    /\ \A e \in Requests : Stored(e) =>
           ent'[e].script = ent[e].script /\ ent'[e].created = ent[e].created
    /\ \A q \in Requests : q # r => loc'[q] = loc[q] /\ pc'[q] = pc[q] /\ reply'[q] = reply[q]
    /\ pc[r] # "numbered" /\ pc'[r] \notin {"numbered", "logged"}
    /\ pc'[r] = "got" => loc'[r].now >= ent'[loc'[r].held].created
    /\ reply'[r].status = "answered" => pc[r] = "logged" /\ loc'[r] = loc[r]
    /\ reply'[r].status = "snapshot" =>
           /\ loc'[r] = loc[r] /\ loc[r].held # NoEntry
           /\ reply'[r].log = ent[loc[r].held].log

LEMMA QuietLInv ==
    ASSUME IInv, LInv, NEW r \in Requests, Quiet(r)
    PROVE  LInv'
<1> USE DEF LInv, IInv
<1>1. /\ \A q \in Requests : loc[q].held \in Requests \cup {NoEntry}
      /\ \A q \in Requests : loc[q].held # NoEntry => Stored(loc[q].held)
      /\ \A e \in Requests : ~Stored(e) => ent[e].log = <<>>
  BY FieldTypes DEF PointersInv, EntriesInv
<1>2. LogInv'
  BY <1>1 DEF LogInv, Quiet
<1>3. NumberedInv'
  BY <1>1 DEF NumberedInv, Quiet, PointersInv
<1>4. LoggedInv'
  BY <1>1 DEF LoggedInv, Quiet, SeqsIn
<1>5. SeqsNameOneRequest'
  BY DEF SeqsNameOneRequest, InFlight, Quiet, SeqsIn
<1>6. NoRequestLost'
  BY DEF NoRequestLost, InFlight, Quiet, SeqsIn
<1>7. OneScriptPerLog'
  BY <1>1 DEF OneScriptPerLog, LogInv, LoggedInv, Quiet
<1> QED BY <1>2, <1>3, <1>4, <1>5, <1>6, <1>7


\* Every step of a request but nextSeq and record is quiet.
LEMMA QuietSteps ==
    ASSUME IInv, NEW r \in Requests,
           PutStep(r) \/ ControlStep(r) \/ TestStep(r),
           ~TestNextSeq(r), ~TestRecord(r)
    PROVE  Quiet(r)
<1> USE DEF IInv
<1>0. reply[r].status \notin {"answered", "snapshot"} \/ pc[r] = "replied"
  BY DEF PointersInv
<1>1. ASSUME NEW id \in Ids, NEW sc \in Scripts \cup {Malformed}, PutReject(r, id, sc) PROVE Quiet(r)
  BY <1>1 DEF PutReject, ReplyWith, Quiet, TypeOK
<1>2. ASSUME NEW id \in Ids, NEW sc \in Scripts \cup {Malformed}, PutArrive(r, id, sc) PROVE Quiet(r)
  <2>1. ~Stored(r) /\ ent[r].seq = 0 /\ ent[r].log = <<>>
    BY <1>2 DEF PutArrive, PointersInv, EntriesInv, Stored
  <2>2. ent' = [ent EXCEPT ![r] = NewEntry(sc, clock)]
    BY <1>2 DEF PutArrive
  <2>3. \A e \in Requests : ent'[e].seq = ent[e].seq /\ ent'[e].log = ent[e].log
    BY <2>1, <2>2 DEF TypeOK, NewEntry
  <2>4. \A e \in Requests : Stored(e) => ent'[e] = ent[e]
    BY <2>1, <2>2 DEF TypeOK
  <2> QED BY <1>2, <1>0, <2>3, <2>4 DEF PutArrive, Quiet, TypeOK
<1>3. CASE Put(r)
  <2>1. \A e \in Requests : /\ ent'[e].seq = ent[e].seq /\ ent'[e].log = ent[e].log
                            /\ ent'[e].script = ent[e].script
                            /\ ent'[e].created = ent[e].created
    BY <1>3 DEF Put, TypeOK, Entry
  <2> QED BY <1>3, <2>1 DEF Put, ReplyWith, Quiet, TypeOK
<1>4. ASSUME NEW id \in Ids, Delete(r, id) PROVE Quiet(r)
  BY <1>4 DEF Delete, ReplyWith, Quiet, TypeOK
<1>5. ASSUME NEW id \in Ids, LogGet(r, id) PROVE Quiet(r)
  BY <1>5, <1>0 DEF LogGet, Quiet, TypeOK
<1>6. ASSUME NEW id \in Ids, NotFound(r, id) PROVE Quiet(r)
  BY <1>6 DEF NotFound, ReplyWith, Quiet, TypeOK
<1>7. CASE LogSnapshot(r)
  BY <1>7 DEF LogSnapshot, ReplyWith, Quiet, TypeOK, PointersInv
<1>8. ASSUME NEW id \in Ids, NEW step \in Steps, TestGet(r, id, step) PROVE Quiet(r)
  <2>1. loc'[r].now = clock /\ loc'[r].held = tests[id]
    BY <1>8 DEF TestGet, TypeOK, NoLocal
  <2>2. ent'[tests[id]].created <= clock
    BY <1>8, FieldTypes DEF TestGet, PointersInv, EntriesInv
  <2>3. tests[id] \in Requests /\ ent'[tests[id]].created \in Nat
    BY <1>8, FieldTypes DEF TestGet
  <2>4. loc'[r].now >= ent'[loc'[r].held].created
    BY <2>1, <2>2, <2>3 DEF TypeOK
  <2> QED BY <1>8, <1>0, <2>4 DEF TestGet, Quiet, TypeOK
<1>9. CASE TestAnswer(r)
  BY <1>9 DEF TestAnswer, ReplyWith, Quiet, TypeOK
<1>10. CASE TestGone(r)
  BY <1>10 DEF TestGone, ReplyWith, Quiet, TypeOK
<1> QED
  BY <1>1, <1>2, <1>3, <1>4, <1>5, <1>6, <1>7, <1>8, <1>9, <1>10
  DEF PutStep, ControlStep, TestStep

\* nextSeq hands out a number that no request of the entry has.
LEMMA NextSeqLInv ==
    ASSUME IInv, LInv, NEW r \in Requests, TestNextSeq(r)
    PROVE  LInv'
<1> DEFINE e == loc[r].held
<1> USE DEF LInv, IInv
<1>0. NextSeqPost(r)
  BY NextSeqEffect
<1>1. /\ e \in Requests /\ \A d \in Requests : ent[d].seq \in Nat
      /\ \A q \in Requests : loc[q].held \in Requests \cup {NoEntry} /\ loc[q].seq \in Nat
  BY <1>0, FieldTypes DEF NextSeqPost
<1>2. \A d \in Requests : /\ ent'[d].log = ent[d].log /\ ent'[d].script = ent[d].script
                          /\ ent'[d].created = ent[d].created
                          /\ ent'[d].seq = IF d = e THEN ent[d].seq + 1 ELSE ent[d].seq
  BY <1>0 DEF NextSeqPost
<1>3. /\ \A q \in Requests : loc'[q].held = loc[q].held /\ loc'[q].now = loc[q].now
      /\ \A q \in Requests : q # r => loc'[q].seq = loc[q].seq /\ pc'[q] = pc[q]
      /\ loc'[r].seq = ent[e].seq + 1 /\ pc[r] = "got" /\ pc'[r] = "numbered" /\ reply' = reply
  BY <1>0 DEF NextSeqPost, TypeOK
<1>4. reply[r].status = "none"
  BY <1>3 DEF PointersInv
<1>5. LogInv'
  <2>1. \A d \in Requests : 1..ent[d].seq \subseteq 1..ent'[d].seq
    BY <1>1, <1>2
  <2> QED BY <1>2, <2>1 DEF LogInv
<1>6. NumberedInv'
  BY <1>1, <1>2, <1>3 DEF NumberedInv, PointersInv
<1>7. LoggedInv'
  BY <1>1, <1>2, <1>3, <1>4 DEF LoggedInv, SeqsIn
<1>8. ent[e].seq + 1 \notin SeqsIn(ent[e].log)
  BY <1>1 DEF SeqsIn, LogInv
<1>9. \A q \in Requests : InFlight(q, e) => loc[q].seq # ent[e].seq + 1
  BY <1>1 DEF InFlight, NumberedInv
<1>10. SeqsNameOneRequest'
  BY <1>1, <1>2, <1>3, <1>8, <1>9 DEF SeqsNameOneRequest, InFlight, SeqsIn
<1>11. NoRequestLost'
  <2> SUFFICES ASSUME NEW d \in Requests, NEW n \in 1..ent'[d].seq
               PROVE  \/ n \in SeqsIn(ent[d].log)
                      \/ \E q \in Requests : InFlight(q, d)' /\ loc'[q].seq = n
                      \/ Len(ent[d].log) = MaxLog
    BY <1>2 DEF NoRequestLost, SeqsIn
  <2>1. CASE d = e /\ n = ent[e].seq + 1
    BY <2>1, <1>3 DEF InFlight
  <2>2. CASE ~(d = e /\ n = ent[e].seq + 1)
    <3>1. n \in 1..ent[d].seq
      BY <2>2, <1>1, <1>2
    <3> QED BY <3>1, <1>3 DEF NoRequestLost, InFlight
  <2> QED BY <2>1, <2>2
<1>12. OneScriptPerLog'
  BY <1>1, <1>2, <1>3 DEF OneScriptPerLog, LoggedInv
<1> QED BY <1>5, <1>6, <1>7, <1>10, <1>11, <1>12


\* record moves one number from the handlers in flight to the log, or drops it
\* because the log is full.
LEMMA RecordLInv ==
    ASSUME IInv, LInv, NEW r \in Requests, TestRecord(r)
    PROVE  LInv'
<1> DEFINE e == loc[r].held
           le == LogEntryOf(r)
           full == ~(Len(ent[e].log) < MaxLog)
<1> USE DEF LInv, IInv
<1>0. RecordPost(r)
  BY RecordEffect
<1>1. /\ e \in Requests /\ le \in LogEntry
      /\ \A d \in Requests : ent[d].log \in Seq(LogEntry) /\ ent[d].seq \in Nat
      /\ \A q \in Requests : loc[q].held \in Requests \cup {NoEntry} /\ loc[q].seq \in Nat
  BY <1>0, FieldTypes DEF RecordPost
<1>2. /\ le.seq = loc[r].seq /\ le.received = loc[r].now
      /\ le.response = ResponseFor(ent[e].script, le.step)
  BY DEF LogEntryOf
<1> HIDE DEF le
<1>3. /\ \A d \in Requests : /\ ent'[d].seq = ent[d].seq /\ ent'[d].script = ent[d].script
                             /\ ent'[d].created = ent[d].created
      /\ \A d \in Requests : d # e => ent'[d].log = ent[d].log
      /\ full => ent'[e].log = ent[e].log
      /\ ~full => ent'[e].log = Append(ent[e].log, le)
  BY <1>0 DEF RecordPost, le
<1>4. /\ loc' = loc /\ pc[r] = "numbered" /\ pc'[r] \in {"logged", "replied"}
      /\ \A q \in Requests : q # r => pc'[q] = pc[q] /\ reply'[q] = reply[q]
      /\ reply'[r].status \in {"none", "aborted"} /\ reply[r].status = "none"
  BY <1>0 DEF RecordPost, PointersInv
<1>5. full => Len(ent[e].log) = MaxLog
  BY <1>1, ConstantsAssumption DEF LogInv
<1>6. ASSUME ~full
       PROVE  /\ DOMAIN ent[e].log = 1..Len(ent[e].log)
              /\ DOMAIN ent'[e].log = 1..(Len(ent[e].log) + 1)
              /\ Len(ent'[e].log) = Len(ent[e].log) + 1
              /\ Len(ent[e].log) \in Nat /\ Len(ent[e].log) < MaxLog
              /\ \A i \in DOMAIN ent[e].log : ent'[e].log[i] = ent[e].log[i]
              /\ ent'[e].log[Len(ent[e].log) + 1] = le
              /\ \A k \in DOMAIN ent'[e].log :
                     k \in DOMAIN ent[e].log \/ k = Len(ent[e].log) + 1
              /\ SeqsIn(ent'[e].log) = SeqsIn(ent[e].log) \cup {le.seq}
  <2>1. ent[e].log \in Seq(LogEntry) /\ ent'[e].log = Append(ent[e].log, le)
    BY <1>6, <1>1, <1>3
  <2>2. Len(ent[e].log) \in Nat /\ Len(ent[e].log) < MaxLog
    BY <1>6, <2>1
  <2> DEFINE log == ent[e].log
             new == ent'[e].log
  <2>3. log \in Seq(LogEntry) /\ le \in LogEntry /\ new = Append(log, le)
    BY <1>1, <2>1
  <2> HIDE DEF log, new
  <2>4. /\ DOMAIN log = 1..Len(log) /\ DOMAIN new = 1..(Len(log) + 1)
        /\ Len(new) = Len(log) + 1
        /\ \A i \in DOMAIN log : new[i] = log[i]
        /\ new[Len(log) + 1] = le
    BY ONLY <2>3
  <2>5. Len(log) \in Nat
    BY ONLY <2>3
  <2>6. \A k \in DOMAIN new : k \in DOMAIN log \/ k = Len(log) + 1
    BY ONLY <2>4, <2>5
  <2>7. SeqsIn(new) = SeqsIn(log) \cup {le.seq}
    <3>1. SeqsIn(new) \subseteq SeqsIn(log) \cup {le.seq}
      BY ONLY <2>4, <2>6 DEF SeqsIn
    <3>2. DOMAIN log \subseteq DOMAIN new /\ Len(log) + 1 \in DOMAIN new
      BY ONLY <2>4, <2>5
    <3>3. SeqsIn(log) \cup {le.seq} \subseteq SeqsIn(new)
      BY ONLY <2>4, <3>2 DEF SeqsIn
    <3> QED BY <3>1, <3>3
  <2> QED BY <2>2, <2>4, <2>6, <2>7 DEF log, new
<1> HIDE DEF full
<1>7. \A d \in Requests :
         /\ SeqsIn(ent[d].log) \subseteq SeqsIn(ent'[d].log)
         /\ SeqsIn(ent'[d].log) \subseteq SeqsIn(ent[d].log) \cup {loc[r].seq}
         /\ d # e => SeqsIn(ent'[d].log) = SeqsIn(ent[d].log)
         /\ Len(ent[d].log) = MaxLog => Len(ent'[d].log) = MaxLog
  <2>1. CASE full
    BY <2>1, <1>3
  <2>2. CASE ~full
    <3>1. SeqsIn(ent'[e].log) = SeqsIn(ent[e].log) \cup {loc[r].seq} /\ Len(ent[e].log) # MaxLog
      BY <2>2, <1>2, <1>6, ConstantsAssumption
    <3> QED BY <3>1, <1>3
  <2> QED BY <2>1, <2>2
<1>8. loc[r].seq \in SeqsIn(ent'[e].log) \/ Len(ent'[e].log) = MaxLog
  BY <1>2, <1>3, <1>5, <1>6
<1>9. LogInv'
  <2>1. ASSUME NEW d \in Requests, d # e \/ full
        PROVE  ent'[d].log = ent[d].log
    BY <2>1, <1>3
  <2>2. ASSUME ~full PROVE Len(ent'[e].log) <= MaxLog
    BY <2>2, <1>6, ConstantsAssumption
  <2>3. ASSUME ~full, NEW i \in DOMAIN ent'[e].log
        PROVE  /\ ent'[e].log[i].seq \in 1..ent[e].seq
               /\ ent'[e].log[i].response = ResponseFor(ent[e].script, ent'[e].log[i].step)
               /\ ent'[e].log[i].received >= ent[e].created
    <3>1. CASE i \in DOMAIN ent[e].log
      BY <2>3, <3>1, <1>1, <1>6 DEF LogInv
    <3>2. CASE i \notin DOMAIN ent[e].log
      <4>1. ent'[e].log[i] = le
        BY <2>3, <3>2, <1>6
      <4> QED BY <4>1, <1>1, <1>2, <1>4 DEF NumberedInv
    <3> QED BY <3>1, <3>2
  <2> QED BY <2>1, <2>2, <2>3, <1>3 DEF LogInv
<1>10. NumberedInv'
  BY <1>1, <1>3, <1>4 DEF NumberedInv, PointersInv
<1>11. LoggedInv'
  BY <1>1, <1>4, <1>7, <1>8, ConstantsAssumption DEF LoggedInv, PointersInv
<1>12. ASSUME NEW d \in Requests, NEW i \in DOMAIN ent'[d].log, NEW j \in DOMAIN ent'[d].log,
              ent'[d].log[i].seq = ent'[d].log[j].seq
       PROVE  i = j
  <2>1. CASE d # e \/ full
    BY <2>1, <1>12, <1>3 DEF SeqsNameOneRequest
  <2>2. CASE d = e /\ ~full
    <3>1. loc[r].seq \notin SeqsIn(ent[e].log)
      BY <1>1, <1>4 DEF SeqsNameOneRequest, InFlight
    <3>2. \A k \in DOMAIN ent[e].log : ent[e].log[k].seq # le.seq
      BY <3>1, <1>2 DEF SeqsIn
    <3>3. \A k \in DOMAIN ent'[e].log :
             \/ k \in DOMAIN ent[e].log /\ ent'[e].log[k] = ent[e].log[k]
             \/ k = Len(ent[e].log) + 1 /\ ent'[e].log[k] = le
      BY <2>2, <1>6
    <3> DEFINE old == ent[e].log
               new == ent'[e].log
    <3>4. /\ i \in DOMAIN new /\ j \in DOMAIN new
          /\ new[i].seq = new[j].seq
      BY <2>2, <1>12
    <3>5. \A k, m \in DOMAIN old : old[k].seq = old[m].seq => k = m
      BY <1>1 DEF SeqsNameOneRequest
    <3> HIDE DEF old, new
    <3>6. \A k \in DOMAIN new : \/ k \in DOMAIN old /\ new[k] = old[k]
                                \/ k = Len(old) + 1 /\ new[k] = le
      BY ONLY <3>3 DEF old, new
    <3>7. \A k \in DOMAIN old : old[k].seq # le.seq
      BY ONLY <3>2 DEF old
    <3> QED BY ONLY <3>4, <3>5, <3>6, <3>7
  <2> QED BY <2>1, <2>2
<1>13. SeqsNameOneRequest'
  <2>1. \A d, q \in Requests : InFlight(q, d)' => InFlight(q, d) /\ q # r
    BY <1>4 DEF InFlight
  <2>2. InFlight(r, e)
    BY <1>4 DEF InFlight
  <2>3. ASSUME NEW d \in Requests, NEW q \in Requests, InFlight(q, d)'
        PROVE  loc[q].seq \notin SeqsIn(ent'[d].log)
    <3>1. InFlight(q, d) /\ q # r
      BY <2>1, <2>3
    <3>2. loc[q].seq \notin SeqsIn(ent[d].log)
      BY <3>1 DEF SeqsNameOneRequest
    <3>3. d = e => loc[q].seq # loc[r].seq
      BY <3>1, <2>2 DEF SeqsNameOneRequest
    <3> QED BY <3>2, <3>3, <1>7
  <2> QED BY <1>12, <1>4, <2>1, <2>3 DEF SeqsNameOneRequest
<1>14. NoRequestLost'
  <2> SUFFICES ASSUME NEW d \in Requests, NEW n \in 1..ent[d].seq
               PROVE  \/ n \in SeqsIn(ent'[d].log)
                      \/ \E q \in Requests : InFlight(q, d)' /\ loc'[q].seq = n
                      \/ Len(ent'[d].log) = MaxLog
    BY <1>3 DEF NoRequestLost
  <2>1. CASE n \in SeqsIn(ent[d].log) \/ Len(ent[d].log) = MaxLog
    BY <2>1, <1>7
  <2>2. CASE \E q \in Requests : InFlight(q, d) /\ loc[q].seq = n
    <3> PICK q \in Requests : InFlight(q, d) /\ loc[q].seq = n
      BY <2>2
    <3>1. CASE q = r
      BY <3>1, <1>8 DEF InFlight
    <3>2. CASE q # r
      BY <3>2, <1>4 DEF InFlight
    <3> QED BY <3>1, <3>2
  <2> QED BY <2>1, <2>2 DEF NoRequestLost
<1>15. OneScriptPerLog'
  BY <1>1, <1>3, <1>4 DEF OneScriptPerLog, LoggedInv
<1> QED BY <1>9, <1>10, <1>11, <1>13, <1>14, <1>15


LEMMA InitLInv == Init => LInv
<1> SUFFICES ASSUME Init PROVE LInv
  OBVIOUS
<1>1. /\ \A r \in Requests : ent[r].log = <<>> /\ ent[r].seq = 0
      /\ \A r \in Requests : pc[r] = "new" /\ reply[r].status = "none"
  BY DEF Init, NewEntry
<1>2. LogInv /\ NumberedInv /\ LoggedInv
  BY <1>1, ConstantsAssumption DEF LogInv, NumberedInv, LoggedInv
<1>3. SeqsNameOneRequest /\ NoRequestLost /\ OneScriptPerLog
  BY <1>1 DEF SeqsNameOneRequest, NoRequestLost, OneScriptPerLog, InFlight
<1> QED BY <1>2, <1>3 DEF LInv

LEMMA NextLInv == IInv /\ LInv /\ [Next]_vars => LInv'
<1> SUFFICES ASSUME IInv, LInv, [Next]_vars PROVE LInv'
  OBVIOUS
<1>1. ASSUME NEW r \in Requests, PutStep(r) \/ ControlStep(r) \/ TestStep(r)
      PROVE  LInv'
  <2>1. CASE TestNextSeq(r)
    BY <2>1, NextSeqLInv
  <2>2. CASE TestRecord(r)
    BY <2>2, RecordLInv
  <2>3. CASE ~TestNextSeq(r) /\ ~TestRecord(r)
    BY <1>1, <2>3, QuietSteps, QuietLInv
  <2> QED BY <2>1, <2>2, <2>3
<1>2. CASE UNCHANGED <<tests, lastSweep, ent, pc, loc, reply, lastPut>>
  BY <1>2 DEF LInv, LogInv, NumberedInv, LoggedInv, SeqsNameOneRequest,
              NoRequestLost, OneScriptPerLog, InFlight, SeqsIn
<1> QED BY <1>1, <1>2 DEF Next, Tick, vars

LEMMA InvHolds == Spec => [](IInv /\ LInv)
  BY InitIInv, NextIInv, InitLInv, NextLInv, PTL DEF Spec

\* Every sequence number names one request, however handlers interleave
\* between nextSeq and record.
THEOREM UniqueSeqs == Spec => []SeqsNameOneRequest
<1>1. LInv => SeqsNameOneRequest
  BY DEF LInv
<1> QED BY InvHolds, <1>1, PTL

\* Only a full log loses a request, for every capacity.
THEOREM CompleteLog == Spec => []NoRequestLost
<1>1. LInv => NoRequestLost
  BY DEF LInv
<1> QED BY InvHolds, <1>1, PTL

\* A fetched log never mixes two uploads of one id.
THEOREM UnmixedLog == Spec => []OneScriptPerLog
<1>1. LInv => OneScriptPerLog
  BY DEF LInv
<1> QED BY InvHolds, <1>1, PTL

\* A log fetched after an answer was written shows that answer.
THEOREM VisibleAnswers == Spec => AnsweredIsVisible
<1>1. ASSUME IInv, LInv, [Next]_vars PROVE [SnapshotHasAnswered]_vars
  <2> SUFFICES ASSUME NEW r \in Requests, NEW q \in Requests,
                      reply[r].status = "none", reply'[r].status = "snapshot",
                      reply[q].status = "answered", loc[q].held = loc[r].held
               PROVE  \/ loc[q].seq \in SeqsIn(reply'[r].log)
                      \/ Len(reply'[r].log) = MaxLog
    BY DEF SnapshotHasAnswered
  <2>1. PICK p \in Requests : PutStep(p) \/ ControlStep(p) \/ TestStep(p)
    BY <1>1 DEF Next, Tick, vars
  <2>2. ~TestNextSeq(p)
    <3> SUFFICES ASSUME TestNextSeq(p) PROVE reply' = reply
      OBVIOUS
    <3> QED BY DEF TestNextSeq
  <2>3. ~TestRecord(p)
    <3> SUFFICES ASSUME TestRecord(p)
                 PROVE  \A x \in Requests : reply'[x] = reply[x] \/ reply'[x].status = "aborted"
      OBVIOUS
    <3>1. RecordPost(p)
      BY <1>1, RecordEffect DEF IInv
    <3> QED BY <3>1 DEF RecordPost
  <2>4. Quiet(p)
    BY <1>1, <2>1, <2>2, <2>3, QuietSteps
  <2>5. p = r
    BY <2>4 DEF Quiet
  <2>6. reply'[r].log = ent[loc[r].held].log
    BY <2>4, <2>5 DEF Quiet
  <2> QED BY <1>1, <2>6 DEF LInv, LoggedInv
<1> QED BY InvHolds, <1>1, PTL DEF Spec, AnsweredIsVisible

\* A put's sweep never takes a script that is younger than TTL, even when the
\* put read the clock long before it got the store's lock.
THEOREM FreshSurvive == Spec => FreshScriptSurvives
<1>1. ASSUME IInv, [Next]_vars PROVE [OnlyStaleSwept]_vars
  <2> SUFFICES ASSUME NEW id \in Ids, tests[id] # NoEntry, tests'[id] # tests[id]
               PROVE  \/ clock - ent[tests[id]].created > TTL
                      \/ \E r \in Requests : Delete(r, id)
                      \/ \E r \in Requests : tests'[id] = r /\ pc[r] = "putting"
    BY DEF OnlyStaleSwept
  <2>1. PICK r \in Requests : Put(r) \/ \E k \in Ids : Delete(r, k)
    BY <1>1 DEF Next, PutStep, ControlStep, TestStep, Tick, vars, PutReject, PutArrive,
       LogGet, NotFound, LogSnapshot, TestGet, TestNextSeq, TestRecord, TestAnswer, TestGone
  <2>2. CASE \E k \in Ids : Delete(r, k)
    <3>1. PICK k \in Ids : Delete(r, k)
      BY <2>2
    <3>2. k = id
      BY <1>1, <3>1 DEF Delete, IInv, TypeOK
    <3> QED BY <3>1, <3>2
  <2>3. CASE Put(r)
    <3>1. CASE tests'[id] = r
      BY <3>1, <2>3 DEF Put
    <3>2. CASE tests'[id] # r
      <4>1. loc[r].now - ent[tests[id]].created > TTL
        BY <1>1, <3>2, <2>3 DEF Put, Kept, Expired, IInv, TypeOK
      <4>2. loc[r].now <= clock /\ loc[r].now \in Nat
        BY <1>1, <2>3, FieldTypes DEF Put, IInv, EntriesInv
      <4>3. ent[tests[id]].created \in Nat /\ clock \in Nat
        BY <1>1, FieldTypes DEF IInv, TypeOK
      <4> QED BY <4>1, <4>2, <4>3, ConstantsAssumption
    <3> QED BY <3>1, <3>2
  <2> QED BY <2>1, <2>2, <2>3
<1> QED BY IInvHolds, <1>1, PTL DEF Spec, FreshScriptSurvives

=============================================================================
