--------------------------- MODULE StatusRecorder ---------------------------
(***************************************************************************)
(* StatusRecorder (internal/infra/http/status_recorder.go) between one     *)
(* handler and net/http's response writer.  The handler makes its calls in *)
(* any order.  In each, the recorder first notes status and time and then *)
(* passes the call on: two steps, with time for the clock to move on in    *)
(* between, and the writer decides what really becomes of the call.        *)
(*                                                                         *)
(* Time 0 is Go's zero Time.  The two clock readings of one Write, Flush   *)
(* or ReadFrom are one instant: the first is headerAt, which nobody is     *)
(* told once the second, firstWriteAt, is noted.  A provisional response   *)
(* changes nothing that is modelled of the writer.                         *)
(***************************************************************************)
EXTENDS Naturals

CONSTANTS
    Codes,      \* the statuses a handler passes to WriteHeader
    MaxTime     \* bound of the clock

ASSUME CodesAreNumbers == Codes \subseteq Nat
ASSUME TimeBound == MaxTime \in Nat \ {0}

VARIABLES
    rec,        \* the recorder: status, headerAt, firstWriteAt
    flusher,    \* the writer implements http.Flusher
    hijacker,   \* the writer implements http.Hijacker
    sent,       \* the writer: the final status it has taken, 0 for none, ...
    sentAt,     \* ... when, and when it took ...
    pushedAt,   \* ... the first body bytes or flush
    conn,       \* open, hijacked, or over (the handler returned or was aborted)
    call,       \* the call noted and not yet passed on, with the status it is to send
    now,
    ahead       \* history: a call was noted of which the writer took nothing

vars == <<rec, flusher, hijacker, sent, sentAt, pushedAt, conn, call, now, ahead>>

NoCall == [op |-> "none", status |-> 0]

Provisional(s) == s >= 100 /\ s < 200 /\ s # 101
\* What net/http's WriteHeader takes without a panic.
Valid(s) == s >= 100 /\ s <= 999

Init ==
    /\ rec = [status |-> 0, headerAt |-> 0, firstWriteAt |-> 0]
    /\ flusher \in BOOLEAN /\ hijacker \in BOOLEAN
    /\ sent = 0 /\ sentAt = 0 /\ pushedAt = 0
    /\ conn = "open" /\ call = NoCall /\ now = 1 /\ ahead = FALSE

----------------------------------------------------------------------------
(* The recorder *)

\* Mutant: the provisional statuses are noted like any other.
EveryHeader(r, s, t) ==
    [r EXCEPT !.status = IF @ = 0 THEN s ELSE @, !.headerAt = IF @ = 0 THEN t ELSE @]

\* Mutant: the last status wins.
LastHeader(r, s, t) ==
    IF Provisional(s) THEN r
    ELSE [r EXCEPT !.status = s, !.headerAt = IF @ = 0 THEN t ELSE @]

markHeader(r, s, t) ==
    IF Provisional(s) THEN r
    ELSE [r EXCEPT !.status = IF @ = 0 THEN s ELSE @, !.headerAt = IF @ = 0 THEN t ELSE @]

\* Mutant: every write is taken for the first.
markLastWrite(r, t) == [r EXCEPT !.firstWriteAt = t]

markFirstWrite(r, t) == [r EXCEPT !.firstWriteAt = IF @ = 0 THEN t ELSE @]

\* The opening of Write, Flush and ReadFrom.
Marked(r, t) == markFirstWrite(IF r.status = 0 THEN markHeader(r, 200, t) ELSE r, t)

\* The first-byte time FirstByteSince reports, 0 for none.
FirstByte == IF rec.firstWriteAt # 0 THEN rec.firstWriteAt ELSE rec.headerAt

StatusOrOK == IF rec.status = 0 THEN 200 ELSE rec.status

----------------------------------------------------------------------------
(* net/http's writer.  External. *)

\* The final header: the first one on an open connection counts.
Take(s) ==
    /\ sent' = IF sent = 0 /\ conn = "open" THEN s ELSE sent
    /\ sentAt' = IF sent = 0 /\ conn = "open" THEN now ELSE sentAt

\* Body bytes, or a flush, with the implicit header in front.
Push ==
    /\ Take(200)
    /\ pushedAt' = IF pushedAt = 0 /\ conn = "open" THEN now ELSE pushedAt

Refuse == UNCHANGED <<sent, sentAt, pushedAt>>
\* A call the writer refuses was noted in vain, unless a header is out already.
Unheard == ahead' = (ahead \/ (conn = "open" /\ sent = 0))
Heard == UNCHANGED ahead

----------------------------------------------------------------------------
(* The handler's calls: what the recorder notes, ... *)

Note(op, status, noted) ==
    /\ conn # "over" /\ call = NoCall
    /\ rec' = noted /\ call' = [op |-> op, status |-> status]
    /\ UNCHANGED <<flusher, hijacker, sent, sentAt, pushedAt, conn, now, ahead>>

WriteHeader(s) == Note("header", s, markHeader(rec, s, now))
Write          == Note("write", 200, Marked(rec, now))
Flush          == Note("flush", 200, Marked(rec, now))
ReadFrom       == Note("copy", 200, Marked(rec, now))

(* ... and what the writer does when the call is passed on. *)

Passed(op) ==
    /\ call.op = op /\ call' = NoCall
    /\ UNCHANGED <<rec, flusher, hijacker, conn, now>>

\* An invalid status makes the writer panic, unless it has a header already; the
\* handler may recover and go on.
PassHeader ==
    /\ Passed("header")
    /\ \/ Valid(call.status) /\ ~Provisional(call.status) /\ Take(call.status) /\ UNCHANGED pushedAt /\ Heard
       \/ Provisional(call.status) /\ Refuse /\ Heard
       \/ ~Valid(call.status) /\ Refuse /\ Unheard

PassWrite == Passed("write") /\ Push /\ Heard

PassFlush ==
    /\ Passed("flush")
    /\ \/ flusher /\ Push /\ Heard
       \/ ~flusher /\ Refuse /\ Unheard

\* The writer's own ReadFrom, or io.Copy, writes what the source yields, ...
SourceYields ==
    /\ call.op = "copy" /\ Push
    /\ UNCHANGED <<rec, flusher, hijacker, conn, call, now, ahead>>

\* ... and at its end, or its error, ReadFrom returns.
SourceEnds == Passed("copy") /\ Refuse /\ Unheard

\* Nothing is noted: what the handler writes on the connection from now on, a 101
\* of the reverse proxy too, does not pass the recorder.
Hijack ==
    /\ conn = "open" /\ call = NoCall
    /\ conn' = IF hijacker THEN "hijacked" ELSE conn
    /\ Refuse /\ UNCHANGED <<rec, flusher, hijacker, call, now, ahead>>

\* The handler returns, and the server writes the header of a silent handler.
Return ==
    /\ conn # "over" /\ call = NoCall
    /\ Take(200) /\ conn' = "over"
    /\ UNCHANGED <<rec, flusher, hijacker, pushedAt, call, now, ahead>>

\* The handler, the source of its copy, or the writer refusing its status panics:
\* the server closes the connection.
Abort ==
    /\ conn # "over" /\ conn' = "over"
    /\ \/ call.op \in {"none", "copy"}
       \/ call.op = "header" /\ ~Valid(call.status) /\ sent = 0
    /\ Refuse /\ UNCHANGED <<rec, flusher, hijacker, call, now, ahead>>

Tick ==
    /\ conn # "over" /\ now < MaxTime /\ now' = now + 1
    /\ Refuse /\ UNCHANGED <<rec, flusher, hijacker, conn, call, ahead>>

Next ==
    \/ \E s \in Codes : WriteHeader(s)
    \/ Write \/ Flush \/ ReadFrom
    \/ PassHeader \/ PassWrite \/ PassFlush \/ SourceYields \/ SourceEnds
    \/ Hijack \/ Return \/ Abort \/ Tick

Spec == Init /\ [][Next]_vars

----------------------------------------------------------------------------
(* Properties *)

\* The state is well typed, and no time is later than the clock.
TypeOK ==
    /\ rec \in [status : Nat, headerAt : 0..MaxTime, firstWriteAt : 0..MaxTime]
    /\ flusher \in BOOLEAN /\ hijacker \in BOOLEAN
    /\ sent \in Nat /\ sentAt \in 0..MaxTime /\ pushedAt \in 0..MaxTime
    /\ conn \in {"open", "hijacked", "over"}
    /\ call \in [op : {"none", "header", "write", "flush", "copy"}, status : Nat]
    /\ now \in 1..MaxTime /\ ahead \in BOOLEAN
    /\ rec.headerAt <= now /\ rec.firstWriteAt <= now /\ sentAt <= now /\ pushedAt <= now

\* The recorded status is the one the client got, whichever way the response was
\* begun: an explicit header after any number of provisional ones, a superfluous
\* second header, an implicit 200 of Write, Flush or ReadFrom, a handler that wrote
\* nothing at all, calls after Hijack.  Only a note the writer did not follow - a
\* status it refuses, a flush it cannot do, a source that yields nothing - can
\* differ from what is sent later.
RecordedIsSent == sent # 0 /\ ~ahead => StatusOrOK = sent

\* "do not let them become the request's final status or first-response timestamp"
\* (markHeader): as long as the writer has taken provisional responses only, and
\* no other call is under way, there is neither a status nor a first-byte time.
NothingBeforeFinal ==
    conn = "open" /\ sent = 0 /\ call = NoCall /\ ~ahead => rec.status = 0 /\ FirstByte = 0

\* The time is noted before the writer is called, so the first-byte time is an
\* early estimate: never later than the first bytes the writer took, whoever
\* brought them, nor, of a response without a body, than its header.  How early is
\* bounded only where the header went out in a call of its own: the body's first
\* byte is then not timed before the header.  A header that goes out with the first
\* bytes may well be later than the time noted.
FirstByteBracketed ==
    /\ pushedAt # 0 => FirstByte # 0 /\ FirstByte <= pushedAt
    /\ sent # 0 /\ rec.firstWriteAt = 0 => FirstByte <= sentAt
    /\ pushedAt # 0 /\ ~ahead => sentAt <= FirstByte \/ sentAt = pushedAt
============================================================================
