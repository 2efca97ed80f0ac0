------------------------ MODULE StatusRecorderProofs ------------------------
(***************************************************************************)
(* Proofs about StatusRecorder for every set of statuses, every sequence   *)
(* of calls and every clock.                                               *)
(***************************************************************************)
EXTENDS StatusRecorder, TLAPS

\* The call under way is one that sends no final header.
Passive == call.op = "none" \/ (call.op = "header" /\ Provisional(call.status))

\* Status: while no final header is out, nothing but the call under way has noted
\* one; once it is out, it is the one noted.
StatusKnown ==
    ~ahead =>
        /\ conn = "open" /\ sent = 0 /\ Passive =>
              rec.status = 0 /\ rec.headerAt = 0 /\ rec.firstWriteAt = 0
        /\ conn = "open" /\ sent = 0 /\ ~Passive =>
              rec.status = call.status /\ (call.op = "header" => rec.firstWriteAt = 0)
        /\ sent # 0 /\ conn # "over" => rec.status = sent
        /\ sent # 0 => StatusOrOK = sent

\* Time of the header: it is noted before the writer gets it.
HeaderKnown ==
    /\ rec.status # 0 => rec.headerAt # 0
    /\ call.op = "header" /\ ~Provisional(call.status) => rec.headerAt # 0
    /\ sent # 0 /\ conn # "over" => rec.headerAt # 0
    /\ sent # 0 => rec.headerAt <= sentAt

\* Time of the first write: it is noted before the writer gets it, and after a
\* header that went out by itself.
WriteKnown ==
    /\ call.op \in {"write", "flush", "copy"} =>
          rec.status # 0 /\ rec.firstWriteAt # 0 /\ call.status = 200
    /\ pushedAt # 0 => sent # 0 /\ rec.firstWriteAt # 0 /\ rec.firstWriteAt <= pushedAt
    /\ sent # 0 /\ rec.firstWriteAt # 0 /\ ~ahead => sentAt <= rec.firstWriteAt \/ sentAt = pushedAt

\* The inductive invariant.
IInv == TypeOK /\ StatusKnown /\ HeaderKnown /\ WriteKnown

Recs == [status : Nat, headerAt : Nat, firstWriteAt : Nat]

\* What markHeader does to each field.
LEMMA MarkHeader ==
    ASSUME NEW r \in Recs, NEW s \in Nat, NEW t \in Nat
    PROVE  /\ markHeader(r, s, t) \in Recs
           /\ Provisional(s) => markHeader(r, s, t) = r
           /\ markHeader(r, s, t).firstWriteAt = r.firstWriteAt
           /\ ~Provisional(s) =>
                /\ markHeader(r, s, t).status = (IF r.status = 0 THEN s ELSE r.status)
                /\ markHeader(r, s, t).headerAt = (IF r.headerAt = 0 THEN t ELSE r.headerAt)
BY DEF markHeader, Recs

\* What the opening of Write, Flush and ReadFrom does to each field.
LEMMA MarkedFields ==
    ASSUME NEW r \in Recs, NEW t \in Nat
    PROVE  /\ Marked(r, t) \in Recs
           /\ Marked(r, t).status = (IF r.status = 0 THEN 200 ELSE r.status)
           /\ Marked(r, t).headerAt = (IF r.status = 0 /\ r.headerAt = 0 THEN t ELSE r.headerAt)
           /\ Marked(r, t).firstWriteAt = (IF r.firstWriteAt = 0 THEN t ELSE r.firstWriteAt)
<1>1. ~Provisional(200)
    BY DEF Provisional
<1>2. ASSUME NEW q \in Recs
      PROVE  /\ markFirstWrite(q, t) \in Recs
             /\ markFirstWrite(q, t).status = q.status
             /\ markFirstWrite(q, t).headerAt = q.headerAt
             /\ markFirstWrite(q, t).firstWriteAt =
                    (IF q.firstWriteAt = 0 THEN t ELSE q.firstWriteAt)
    BY DEF markFirstWrite, Recs
<1>3. CASE r.status = 0
  <2>1. Marked(r, t) = markFirstWrite(markHeader(r, 200, t), t)
    BY <1>3 DEF Marked
  <2>2. /\ markHeader(r, 200, t) \in Recs
        /\ markHeader(r, 200, t).firstWriteAt = r.firstWriteAt
        /\ markHeader(r, 200, t).status = 200
        /\ markHeader(r, 200, t).headerAt = (IF r.headerAt = 0 THEN t ELSE r.headerAt)
    <3>1. PICK s \in Nat : s = 200
      OBVIOUS
    <3>2. ~Provisional(s)
      BY <1>1, <3>1
    <3>3. /\ markHeader(r, s, t) \in Recs
          /\ markHeader(r, s, t).firstWriteAt = r.firstWriteAt
          /\ markHeader(r, s, t).status = (IF r.status = 0 THEN s ELSE r.status)
          /\ markHeader(r, s, t).headerAt = (IF r.headerAt = 0 THEN t ELSE r.headerAt)
      BY <3>2, MarkHeader
    <3>. QED  BY <1>3, <3>1, <3>3
  <2>. QED  BY <2>1, <2>2, <1>2, <1>3
<1>4. CASE r.status # 0
  <2>1. Marked(r, t) = markFirstWrite(r, t)
    BY <1>4 DEF Marked
  <2>. QED  BY <2>1, <1>2, <1>4
<1>. QED  BY <1>3, <1>4

\* A record of the recorder, seen field by field.
LEMMA RecTyped ==
    ASSUME TypeOK
    PROVE  /\ rec \in Recs /\ rec.status \in Nat
           /\ rec.headerAt \in 0..MaxTime /\ rec.firstWriteAt \in 0..MaxTime
           /\ MaxTime \in Nat /\ now \in Nat /\ now >= 1 /\ now <= MaxTime
           /\ sent \in Nat /\ sentAt \in Nat /\ pushedAt \in Nat
BY TimeBound DEF TypeOK, Recs

\* A recorder whose instants have come is a recorder within the bound.
LEMMA TypedRec ==
    ASSUME NEW r \in Recs, r.headerAt <= MaxTime, r.firstWriteAt <= MaxTime
    PROVE  r \in [status : Nat, headerAt : 0..MaxTime, firstWriteAt : 0..MaxTime]
<1>1. r = [status |-> r.status, headerAt |-> r.headerAt, firstWriteAt |-> r.firstWriteAt]
    BY DEF Recs
<1>2. r.status \in Nat /\ r.headerAt \in 0..MaxTime /\ r.firstWriteAt \in 0..MaxTime
    BY TimeBound DEF Recs
<1>. QED  BY <1>1, <1>2

\* A new recorder in front of a new response.
LEMMA InitIInv == Init => IInv
<1>. SUFFICES ASSUME Init PROVE IInv
    OBVIOUS
<1>1. MaxTime \in Nat /\ 1 \in 1..MaxTime /\ 0 \in 0..MaxTime /\ 0 <= 1
    BY TimeBound
<1>2. rec \in [status : Nat, headerAt : 0..MaxTime, firstWriteAt : 0..MaxTime]
    BY <1>1 DEF Init
<1>3. rec.status = 0 /\ rec.headerAt = 0 /\ rec.firstWriteAt = 0 /\ now = 1
    BY DEF Init
<1>4. sent = 0 /\ sentAt = 0 /\ pushedAt = 0 /\ 0 \in Nat /\ ahead \in BOOLEAN
    BY DEF Init
<1>5. /\ conn = "open" /\ call.op = "none" /\ flusher \in BOOLEAN /\ hijacker \in BOOLEAN
      /\ call \in [op : {"none", "header", "write", "flush", "copy"}, status : Nat]
    BY DEF Init, NoCall
<1>6. TypeOK
    BY <1>1, <1>2, <1>3, <1>4, <1>5, Zenon DEF TypeOK
<1>7. StatusKnown /\ HeaderKnown /\ WriteKnown
    BY <1>3, <1>4, <1>5 DEF StatusKnown, HeaderKnown, WriteKnown, Passive
<1>. QED  BY <1>6, <1>7 DEF IInv

\* One step per call of the handler, then the writer, the end and the clock.
LEMMA StepIInv == IInv /\ [Next]_vars => IInv'
<1>. SUFFICES ASSUME IInv, [Next]_vars PROVE IInv'
    OBVIOUS
<1>. USE DEF IInv
<1>0. /\ rec \in Recs /\ rec.status \in Nat
      /\ rec.headerAt \in 0..MaxTime /\ rec.firstWriteAt \in 0..MaxTime
      /\ MaxTime \in Nat /\ now \in Nat /\ now >= 1 /\ now <= MaxTime
      /\ sent \in Nat /\ sentAt \in Nat /\ pushedAt \in Nat
      /\ rec.headerAt <= now /\ rec.firstWriteAt <= now /\ sentAt <= now /\ pushedAt <= now
    BY RecTyped DEF TypeOK
<1>c. call.op \in {"none", "header", "write", "flush", "copy"} /\ call.status \in Nat
    BY DEF TypeOK
<1>v. ~Provisional(200) /\ Valid(200) /\ \A s \in Nat : Provisional(s) => Valid(s)
    BY DEF Provisional, Valid
<1>n. NoCall.op = "none" /\ NoCall \in [op : {"none", "header", "write", "flush", "copy"}, status : Nat]
    BY DEF NoCall
<1>1. ASSUME NEW s \in Codes, WriteHeader(s) PROVE IInv'
  <2>0. /\ s \in Nat /\ call.op = "none" /\ call'.op = "header" /\ call'.status = s
        /\ call' \in [op : {"none", "header", "write", "flush", "copy"}, status : Nat]
        /\ conn # "over" /\ UNCHANGED <<flusher, hijacker, sent, sentAt, pushedAt, conn, now, ahead>>
        /\ rec' = markHeader(rec, s, now)
    BY <1>1, CodesAreNumbers DEF WriteHeader, Note, NoCall
  <2>a. /\ markHeader(rec, s, now) \in Recs
        /\ Provisional(s) => markHeader(rec, s, now) = rec
        /\ markHeader(rec, s, now).firstWriteAt = rec.firstWriteAt
        /\ ~Provisional(s) =>
             /\ markHeader(rec, s, now).status = (IF rec.status = 0 THEN s ELSE rec.status)
             /\ markHeader(rec, s, now).headerAt = (IF rec.headerAt = 0 THEN now ELSE rec.headerAt)
    <3>1. rec \in Recs /\ s \in Nat /\ now \in Nat
      BY <1>0, <2>0
    <3>. QED  BY <3>1, MarkHeader, Zenon
  <2>1. /\ rec' \in Recs
        /\ rec'.firstWriteAt = rec.firstWriteAt
        /\ Provisional(s) => rec' = rec
        /\ ~Provisional(s) =>
              /\ rec'.status = (IF rec.status = 0 THEN s ELSE rec.status)
              /\ rec'.headerAt = (IF rec.headerAt = 0 THEN now ELSE rec.headerAt)
    BY <2>a, <2>0
  <2>2. rec' \in [status : Nat, headerAt : 0..MaxTime, firstWriteAt : 0..MaxTime]
    BY <2>1, <1>0, TypedRec
  <2>3. TypeOK'
    BY <1>0, <2>0, <2>1, <2>2 DEF TypeOK
  <2>4. StatusKnown'
    BY <1>0, <2>0, <2>1 DEF StatusKnown, StatusOrOK, Passive
  <2>5. HeaderKnown'
    BY <1>0, <2>0, <2>1 DEF HeaderKnown
  <2>6. WriteKnown'
    BY <1>0, <2>0, <2>1 DEF WriteKnown
  <2>. QED  BY <2>3, <2>4, <2>5, <2>6
<1>2. CASE Write \/ Flush \/ ReadFrom
  <2>0. /\ call.op = "none" /\ call'.op \in {"write", "flush", "copy"} /\ call'.status = 200
        /\ call' \in [op : {"none", "header", "write", "flush", "copy"}, status : Nat]
        /\ conn # "over" /\ UNCHANGED <<flusher, hijacker, sent, sentAt, pushedAt, conn, now, ahead>>
        /\ rec' = Marked(rec, now)
    BY <1>2 DEF Write, Flush, ReadFrom, Note, NoCall
  <2>a. /\ Marked(rec, now) \in Recs
        /\ Marked(rec, now).status = (IF rec.status = 0 THEN 200 ELSE rec.status)
        /\ Marked(rec, now).headerAt = (IF rec.status = 0 /\ rec.headerAt = 0 THEN now ELSE rec.headerAt)
        /\ Marked(rec, now).firstWriteAt = (IF rec.firstWriteAt = 0 THEN now ELSE rec.firstWriteAt)
    <3>1. rec \in Recs /\ now \in Nat
      BY <1>0
    <3>. QED  BY <3>1, MarkedFields, Zenon
  <2>1. /\ rec' \in Recs
        /\ rec'.status = (IF rec.status = 0 THEN 200 ELSE rec.status)
        /\ rec'.headerAt = (IF rec.status = 0 /\ rec.headerAt = 0 THEN now ELSE rec.headerAt)
        /\ rec'.firstWriteAt = (IF rec.firstWriteAt = 0 THEN now ELSE rec.firstWriteAt)
    BY <2>a, <2>0
  <2>2. rec' \in [status : Nat, headerAt : 0..MaxTime, firstWriteAt : 0..MaxTime]
    BY <1>0, <2>1, TypedRec
  <2>3. TypeOK'
    BY <1>0, <2>0, <2>1, <2>2 DEF TypeOK
  <2>4. StatusKnown'
    BY <1>0, <1>v, <2>0, <2>1 DEF StatusKnown, StatusOrOK, Passive
  <2>5. HeaderKnown'
    BY <1>0, <2>0, <2>1 DEF HeaderKnown
  <2>6. WriteKnown'
    BY <1>0, <2>0, <2>1 DEF WriteKnown
  <2>. QED  BY <2>3, <2>4, <2>5, <2>6
<1>3. CASE PassHeader
  <2>0. /\ call.op = "header" /\ call' = NoCall /\ call'.op = "none"
        /\ UNCHANGED <<rec, flusher, hijacker, conn, now>> /\ pushedAt' = pushedAt
    BY <1>3, <1>n DEF PassHeader, Passed, Refuse
  <2>1. CASE /\ ~Provisional(call.status) /\ sent = 0 /\ conn = "open"
             /\ sent' = call.status /\ sentAt' = now /\ ahead' = ahead /\ call.status # 0
    <3>1. TypeOK'
      BY <1>0, <1>c, <1>n, <2>0, <2>1 DEF TypeOK
    <3>2. StatusKnown'
      BY <1>0, <1>c, <2>0, <2>1 DEF StatusKnown, StatusOrOK, Passive
    <3>3. HeaderKnown'
      BY <1>0, <2>0, <2>1 DEF HeaderKnown
    <3>4. WriteKnown'
      BY <1>0, <2>0, <2>1 DEF StatusKnown, WriteKnown, Passive
    <3>. QED  BY <3>1, <3>2, <3>3, <3>4
  <2>2. CASE /\ UNCHANGED <<sent, sentAt, ahead>>
             /\ Provisional(call.status) \/ sent # 0 \/ conn # "open"
    <3>1. TypeOK'
      BY <1>0, <1>c, <1>n, <2>0, <2>2 DEF TypeOK
    <3>2. StatusKnown'
      BY <1>0, <1>c, <2>0, <2>2 DEF StatusKnown, StatusOrOK, Passive
    <3>3. HeaderKnown'
      BY <1>0, <2>0, <2>2 DEF HeaderKnown
    <3>4. WriteKnown'
      BY <1>0, <2>0, <2>2 DEF WriteKnown
    <3>. QED  BY <3>1, <3>2, <3>3, <3>4
  <2>3. CASE UNCHANGED <<sent, sentAt>> /\ ahead' = TRUE
    <3>1. TypeOK'
      BY <1>0, <1>c, <1>n, <2>0, <2>3 DEF TypeOK
    <3>2. StatusKnown'
      BY <2>3 DEF StatusKnown
    <3>3. HeaderKnown'
      BY <1>0, <2>0, <2>3 DEF HeaderKnown
    <3>4. WriteKnown'
      BY <1>0, <2>0, <2>3 DEF WriteKnown
    <3>. QED  BY <3>1, <3>2, <3>3, <3>4
  <2>4. ASSUME Valid(call.status), ~Provisional(call.status), Take(call.status), ahead' = ahead
        PROVE  IInv'
    <3>1. call.status # 0
      BY <2>4, <1>c DEF Valid
    <3>2. CASE sent = 0 /\ conn = "open"
      BY <2>4, <3>1, <3>2, <2>1 DEF Take
    <3>3. CASE ~(sent = 0 /\ conn = "open")
      BY <2>4, <3>3, <2>2 DEF Take
    <3>. QED  BY <3>2, <3>3
  <2>5. ASSUME Refuse, Unheard PROVE IInv'
    <3>1. CASE sent = 0 /\ conn = "open"
      BY <2>5, <3>1, <2>3 DEF Refuse, Unheard
    <3>2. CASE ~(sent = 0 /\ conn = "open")
      <4>1. ahead' = ahead
        BY <2>5, <3>2 DEF Unheard, TypeOK
      <4>. QED  BY <2>5, <3>2, <4>1, <2>2 DEF Refuse
    <3>. QED  BY <3>1, <3>2
  <2>6. CASE Provisional(call.status) /\ Refuse /\ ahead' = ahead
    BY <2>6, <2>2 DEF Refuse
  <2>. QED  BY <1>3, <2>4, <2>5, <2>6 DEF PassHeader, Heard
<1>4. CASE PassWrite
  <2>1. TypeOK'
    BY <1>0, <1>c, <1>v, <1>n, <1>4 DEF TypeOK, PassWrite, Passed, Push, Take, Heard
  <2>2. StatusKnown'
    BY <1>0, <1>c, <1>v, <1>n, <1>4 DEF StatusKnown, HeaderKnown, WriteKnown, StatusOrOK, Passive, PassWrite, Passed, Push, Take, Heard
  <2>3. HeaderKnown'
    BY <1>0, <1>c, <1>v, <1>n, <1>4 DEF HeaderKnown, WriteKnown, PassWrite, Passed, Push, Take, Heard
  <2>4. WriteKnown'
    BY <1>0, <1>c, <1>v, <1>n, <1>4 DEF StatusKnown, WriteKnown, Passive, PassWrite, Passed, Push, Take, Heard
  <2>. QED  BY <2>1, <2>2, <2>3, <2>4
<1>5. CASE PassFlush
  <2>1. CASE flusher /\ Passed("flush") /\ Push /\ Heard
    <3>0. /\ call.op = "flush" /\ call' = NoCall /\ call'.op = "none" /\ ahead' = ahead
          /\ UNCHANGED <<rec, flusher, hijacker, conn, now>>
          /\ Push
      BY <2>1, <1>n DEF Passed, Heard
    <3>1. TypeOK'
      BY <1>0, <1>c, <1>n, <3>0 DEF TypeOK, Push, Take
    <3>2. StatusKnown'
      BY <1>0, <1>c, <1>v, <3>0 DEF StatusKnown, HeaderKnown, WriteKnown, StatusOrOK, Passive, Push, Take
    <3>3. HeaderKnown'
      BY <1>0, <1>c, <1>v, <3>0 DEF HeaderKnown, WriteKnown, Push, Take
    <3>4. WriteKnown'
      BY <1>0, <1>c, <1>v, <3>0 DEF StatusKnown, WriteKnown, Passive, Push, Take
    <3>. QED  BY <3>1, <3>2, <3>3, <3>4
  <2>2. CASE Passed("flush") /\ Refuse /\ Unheard
    <3>0. /\ call.op = "flush" /\ call' = NoCall /\ call'.op = "none"
          /\ UNCHANGED <<rec, flusher, hijacker, conn, now, sent, sentAt, pushedAt>>
          /\ ahead' = (ahead \/ (conn = "open" /\ sent = 0)) /\ ahead' \in BOOLEAN
      BY <2>2, <1>n DEF Passed, Refuse, Unheard
    <3>1. TypeOK'
      BY <1>0, <1>c, <1>n, <3>0 DEF TypeOK
    <3>2. StatusKnown'
      BY <1>0, <1>c, <1>v, <3>0 DEF StatusKnown, HeaderKnown, WriteKnown, StatusOrOK, Passive
    <3>3. HeaderKnown'
      BY <1>0, <1>c, <1>v, <3>0 DEF HeaderKnown, WriteKnown
    <3>4. WriteKnown'
      BY <1>0, <1>c, <1>v, <3>0 DEF StatusKnown, WriteKnown, Passive
    <3>. QED  BY <3>1, <3>2, <3>3, <3>4
  <2>. QED  BY <1>5, <2>1, <2>2 DEF PassFlush
<1>6. CASE SourceYields
  <2>1. TypeOK'
    BY <1>0, <1>c, <1>v, <1>n, <1>6 DEF TypeOK, SourceYields, Push, Take
  <2>2. StatusKnown'
    BY <1>0, <1>c, <1>v, <1>n, <1>6 DEF StatusKnown, HeaderKnown, WriteKnown, StatusOrOK, Passive, SourceYields, Push, Take
  <2>3. HeaderKnown'
    BY <1>0, <1>c, <1>v, <1>n, <1>6 DEF HeaderKnown, WriteKnown, SourceYields, Push, Take
  <2>4. WriteKnown'
    BY <1>0, <1>c, <1>v, <1>n, <1>6 DEF StatusKnown, WriteKnown, Passive, SourceYields, Push, Take
  <2>. QED  BY <2>1, <2>2, <2>3, <2>4
<1>7. CASE SourceEnds
  <2>1. TypeOK'
    BY <1>0, <1>c, <1>v, <1>n, <1>7 DEF TypeOK, SourceEnds, Passed, Refuse, Unheard
  <2>2. StatusKnown'
    BY <1>0, <1>c, <1>v, <1>n, <1>7 DEF StatusKnown, HeaderKnown, WriteKnown, StatusOrOK, Passive, SourceEnds, Passed, Refuse, Unheard
  <2>3. HeaderKnown'
    BY <1>0, <1>c, <1>v, <1>n, <1>7 DEF HeaderKnown, WriteKnown, SourceEnds, Passed, Refuse, Unheard
  <2>4. WriteKnown'
    BY <1>0, <1>c, <1>v, <1>n, <1>7 DEF StatusKnown, WriteKnown, Passive, SourceEnds, Passed, Refuse, Unheard
  <2>. QED  BY <2>1, <2>2, <2>3, <2>4
<1>8. CASE Hijack
  <2>1. TypeOK'
    BY <1>0, <1>c, <1>v, <1>n, <1>8 DEF TypeOK, Hijack, Refuse
  <2>2. StatusKnown'
    BY <1>0, <1>c, <1>v, <1>n, <1>8 DEF StatusKnown, HeaderKnown, WriteKnown, StatusOrOK, Passive, Hijack, Refuse
  <2>3. HeaderKnown'
    BY <1>0, <1>c, <1>v, <1>n, <1>8 DEF HeaderKnown, WriteKnown, Hijack, Refuse
  <2>4. WriteKnown'
    BY <1>0, <1>c, <1>v, <1>n, <1>8 DEF StatusKnown, WriteKnown, Passive, Hijack, Refuse
  <2>. QED  BY <2>1, <2>2, <2>3, <2>4
<1>9. CASE Return
  <2>1. TypeOK'
    BY <1>0, <1>c, <1>v, <1>n, <1>9 DEF TypeOK, Return, Take
  <2>2. StatusKnown'
    BY <1>0, <1>c, <1>v, <1>n, <1>9 DEF StatusKnown, HeaderKnown, WriteKnown, StatusOrOK, Passive, Return, Take
  <2>3. HeaderKnown'
    BY <1>0, <1>c, <1>v, <1>n, <1>9 DEF HeaderKnown, WriteKnown, Return, Take
  <2>4. WriteKnown'
    BY <1>0, <1>c, <1>v, <1>n, <1>9 DEF StatusKnown, WriteKnown, Passive, Return, Take
  <2>. QED  BY <2>1, <2>2, <2>3, <2>4
<1>10. CASE Abort
  <2>1. TypeOK'
    BY <1>0, <1>c, <1>v, <1>n, <1>10 DEF TypeOK, Abort, Refuse
  <2>2. StatusKnown'
    BY <1>0, <1>c, <1>v, <1>n, <1>10 DEF StatusKnown, HeaderKnown, WriteKnown, StatusOrOK, Passive, Abort, Refuse
  <2>3. HeaderKnown'
    BY <1>0, <1>c, <1>v, <1>n, <1>10 DEF HeaderKnown, WriteKnown, Abort, Refuse
  <2>4. WriteKnown'
    BY <1>0, <1>c, <1>v, <1>n, <1>10 DEF StatusKnown, WriteKnown, Passive, Abort, Refuse
  <2>. QED  BY <2>1, <2>2, <2>3, <2>4
<1>11. CASE Tick
    BY <1>0, <1>11 DEF Tick, TypeOK, StatusKnown, HeaderKnown, WriteKnown, StatusOrOK, Passive, Refuse
<1>12. CASE UNCHANGED vars
    BY <1>12 DEF vars, TypeOK, StatusKnown, HeaderKnown, WriteKnown, StatusOrOK, Passive
<1>. QED  BY <1>1, <1>2, <1>3, <1>4, <1>5, <1>6, <1>7, <1>8, <1>9, <1>10, <1>11, <1>12 DEF Next

\* The relations between recorder and writer hold in every reachable state.
LEMMA Invariant == Spec => []IInv
BY InitIInv, StepIInv, PTL DEF Spec

\* Every reachable state of recorder and writer is well typed, for every bound.
THEOREM TypeCorrect == Spec => []TypeOK
<1>1. IInv => TypeOK
    BY DEF IInv
<1>. QED  BY <1>1, Invariant, PTL

\* The status StatusOrOK reports is the one the writer sent, in whatever order
\* the handler made its calls, unless the writer took nothing of a call noted.
THEOREM StatusIsSent == Spec => []RecordedIsSent
<1>1. IInv => RecordedIsSent
    BY DEF IInv, StatusKnown, RecordedIsSent
<1>. QED  BY <1>1, Invariant, PTL

\* Provisional responses leave no status and no time behind.
THEOREM ProvisionalUnseen == Spec => []NothingBeforeFinal
<1>1. IInv => NothingBeforeFinal
    BY DEF IInv, StatusKnown, Passive, NoCall, NothingBeforeFinal, FirstByte
<1>. QED  BY <1>1, Invariant, PTL

\* The time FirstByteSince reports is never later than the first bytes, or than
\* the header of a response without any, and not before a header that went out in
\* a call of its own, however long the writer takes for each call.
THEOREM FirstByteInTime == Spec => []FirstByteBracketed
<1>1. IInv => FirstByteBracketed
    BY DEF IInv, HeaderKnown, WriteKnown, FirstByteBracketed, FirstByte
<1>. QED  BY <1>1, Invariant, PTL
=============================================================================
