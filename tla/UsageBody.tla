----------------------------- MODULE UsageBody -----------------------------
(***************************************************************************)
(* completionUsageBody: the reader that hands a response body to its       *)
(* caller and to the usage observer (completion_usage.go).                 *)
(*                                                                         *)
(* The source is the environment: it cuts the body into reads as it likes, *)
(* and ends with EOF, alone or together with the last bytes, or with an    *)
(* error; an end is final.  A body that has a terminal callback and no     *)
(* declared length is read through a bufio.Reader, so that its end is seen *)
(* with its last byte.  The symbols of a stream are observed one by one,   *)
(* one step each.                                                          *)
(***************************************************************************)
EXTENDS UsageObserver

CONSTANTS
    Configs,     \* the calls of the exported constructors:
                 \*   [streaming, format, hooks, length]
    Chunks,      \* what one read of the source brings, for each kind of body
    MaxBody      \* bound: the length of a body of each kind

Errors == {"none", "eof", "error"}

ASSUME ConfigsAreCalls ==
    /\ Configs # {}
    /\ Configs \subseteq [streaming : BOOLEAN, format : {"completions", "responses"},
                          hooks : (SUBSET {"usage", "terminal", "evidence"}) \ {{}},
                          length : Int]
ASSUME ChunksAreBytes == Chunks \in [BOOLEAN -> SUBSET Seq(Symbols)]
ASSUME BodyBound == MaxBody \in [BOOLEAN -> Nat]

VARIABLES
    config,      \* how the body was wrapped
    o,           \* observer
    src,         \* the source: open, at EOF, or failed (closed included)
    ahead,       \* lookahead's buffer
    pending,     \* lookahead's error, not yet returned
    pc,          \* idle (between reads), observe, settle
    chunk,       \* the bytes of this read not yet observed
    n, err,      \* what this read returns
    remaining, expectedLengthBad,
    given,       \* history: the bytes handed to the caller and observed
    produced,    \* history: how many bytes the source has brought
    ended        \* history: the source has said EOF

vars == <<config, o, src, ahead, pending, pc, chunk, n, err, remaining,
          expectedLengthBad, given, produced, ended>>

hasExpectedLength == ~config.streaming /\ "terminal" \in config.hooks /\ config.length >= 0
lookahead == ~config.streaming /\ "terminal" \in config.hooks /\ config.length < 0

\* observeCompletionUsageBody
Init ==
    /\ config \in Configs
    /\ o = newCompletionUsageObserver(config.streaming, config.format, config.hooks,
             IF ~config.streaming /\ config.length \in 1..MaxJSON THEN config.length ELSE 0)
    /\ remaining = IF hasExpectedLength THEN config.length ELSE -1
    /\ expectedLengthBad = FALSE
    /\ src = "open" /\ ahead = <<>> /\ pending = "none"
    /\ pc = "idle" /\ chunk = <<>> /\ n = 0 /\ err = "none"
    /\ given = <<>> /\ produced = 0 /\ ended = FALSE

----------------------------------------------------------------------------
(* Read *)

\* One Read of the source brings c and e.  External.
SourceRead(c, e) ==
    /\ IF src = "open" THEN produced + Len(c) <= MaxBody[config.streaming]
                       ELSE c = <<>> /\ e = src
    /\ src' = IF e = "none" THEN src ELSE e
    /\ produced' = produced + Len(c)
    /\ ended' = (ended \/ e = "eof")

Bring == Chunks[config.streaming] \cup {<<>>}

\* Mutant: EOF is acted on before the bytes that came with it are observed.
FinishFirst(c, e) ==
    /\ pc = "idle" /\ pc' = "observe"
    /\ chunk' = c /\ n' = Len(c) /\ err' = e
    /\ o' = IF e = "eof" /\ ~hasExpectedLength THEN Finish(o) ELSE o
    /\ UNCHANGED <<config, remaining, expectedLengthBad, given>>

\* The read has its bytes and its error.
Got(c, e) ==
    /\ pc = "idle" /\ pc' = "observe"
    /\ chunk' = c /\ n' = Len(c) /\ err' = e
    /\ UNCHANGED <<config, o, remaining, expectedLengthBad, given>>

ReadSource ==
    /\ ~lookahead
    /\ \E c \in Bring, e \in Errors : SourceRead(c, e) /\ Got(c, e)
    /\ UNCHANGED <<ahead, pending>>

\* lookahead.Read: what is buffered, else the error kept from the last fill, ...
ReadAhead ==
    /\ lookahead
    /\ \/ /\ ahead # <<>>
          /\ \E k \in 1..Len(ahead) :
                /\ Got(SubSeq(ahead, 1, k), "none")
                /\ ahead' = SubSeq(ahead, k + 1, Len(ahead))
          /\ UNCHANGED pending
       \/ /\ ahead = <<>> /\ pending # "none"
          /\ Got(<<>>, pending)
          /\ pending' = "none" /\ UNCHANGED ahead
    /\ UNCHANGED <<src, produced, ended>>

\* ... else one read of the source: straight into the caller's buffer when that
\* is no smaller than the lookahead's, or into the lookahead's.
ReadThrough ==
    /\ lookahead /\ ahead = <<>> /\ pending = "none"
    /\ \E c \in Bring, e \in Errors :
          /\ SourceRead(c, e)
          /\ \/ Got(c, e) /\ UNCHANGED <<ahead, pending>>
             \/ \E k \in 1..Len(c) :
                   /\ Got(SubSeq(c, 1, k), "none")
                   /\ ahead' = SubSeq(c, k + 1, Len(c)) /\ pending' = e

\* observer.Observe of a stream, byte by byte.
ObserveSSE ==
    /\ pc = "observe" /\ chunk # <<>> /\ config.streaming /\ ~Deaf(o)
    /\ o' = ObserveByte(o, Head(chunk))
    /\ given' = Append(given, Head(chunk)) /\ chunk' = Tail(chunk)
    /\ UNCHANGED <<config, src, ahead, pending, pc, n, err, remaining, expectedLengthBad,
                   produced, ended>>

\* Observe returns: nothing is left, the observer is at its end, or the bytes are
\* those of a plain body, taken at once.
Observed ==
    /\ pc = "observe" /\ pc' = "settle"
    /\ \/ (chunk = <<>> \/ Deaf(o)) /\ UNCHANGED o
       \/ chunk # <<>> /\ ~Deaf(o) /\ ~config.streaming /\ o' = observeJSON(o, chunk)
    /\ given' = given \o chunk /\ chunk' = <<>>
    /\ UNCHANGED <<config, src, ahead, pending, n, err, remaining, expectedLengthBad,
                   produced, ended>>

\* The declared length is the end, unless an error or a surplus came with it; a
\* surplus in a later read comes too late.
observeExpectedLength ==
    /\ pc = "settle" /\ hasExpectedLength /\ pc' = "idle"
    /\ \/ /\ expectedLengthBad
          /\ UNCHANGED <<o, remaining, expectedLengthBad>>
       \/ /\ ~expectedLengthBad /\ n > remaining
          /\ expectedLengthBad' = TRUE /\ UNCHANGED <<o, remaining>>
       \/ /\ ~expectedLengthBad /\ n <= remaining
          /\ remaining' = remaining - n
          /\ IF remaining' = 0 /\ err # "error"
               THEN o' = Finish(o) /\ UNCHANGED expectedLengthBad
               ELSE expectedLengthBad' = (err = "eof") /\ UNCHANGED o
    /\ UNCHANGED <<config, src, ahead, pending, chunk, n, err, given, produced, ended>>

\* Mutant: an EOF that comes with the last bytes is missed.
FinishOnEmptyRead ==
    /\ pc = "settle" /\ ~hasExpectedLength /\ pc' = "idle"
    /\ IF err = "eof" /\ n = 0 THEN o' = Finish(o)
                              ELSE UNCHANGED o /\ ~(lookahead /\ err = "none" /\ n > 0)
    /\ UNCHANGED <<config, src, ahead, pending, chunk, n, err, remaining, expectedLengthBad,
                   given, produced, ended>>

\* Without a declared length the end is EOF.
Settle ==
    /\ pc = "settle" /\ ~hasExpectedLength /\ pc' = "idle"
    /\ IF err = "eof" THEN o' = Finish(o)
                      ELSE UNCHANGED o /\ ~(lookahead /\ err = "none" /\ n > 0)
    /\ UNCHANGED <<config, src, ahead, pending, chunk, n, err, remaining, expectedLengthBad,
                   given, produced, ended>>

\* lookahead.Peek(1) after a read without an error: it fills an empty buffer (the
\* empty reads before a fill are left out), and takes the error it meets.
Peek ==
    /\ pc = "settle" /\ lookahead /\ err = "none" /\ n > 0 /\ pc' = "idle"
    /\ \/ /\ ahead # <<>> \/ pending # "none"
          /\ o' = IF ahead = <<>> /\ pending = "eof" THEN Finish(o) ELSE o
          /\ pending' = IF ahead = <<>> THEN "none" ELSE pending
          /\ UNCHANGED <<ahead, src, produced, ended>>
       \/ /\ ahead = <<>> /\ pending = "none"
          /\ \E c \in Bring, e \in Errors :
                /\ c # <<>> \/ e # "none"
                /\ SourceRead(c, e)
                /\ ahead' = c
                /\ pending' = IF c = <<>> THEN "none" ELSE e
                /\ o' = IF c = <<>> /\ e = "eof" THEN Finish(o) ELSE o
    /\ UNCHANGED <<config, chunk, n, err, remaining, expectedLengthBad, given>>

\* The caller closes the body, at any moment: the source reads no more.
Close ==
    /\ src # "error" /\ src' = "error"
    /\ UNCHANGED <<config, o, ahead, pending, pc, chunk, n, err, remaining,
                   expectedLengthBad, given, produced, ended>>

Next == ReadSource \/ ReadAhead \/ ReadThrough \/ ObserveSSE \/ Observed
        \/ observeExpectedLength \/ Settle \/ Peek \/ Close

Spec == Init /\ [][Next]_vars

----------------------------------------------------------------------------
(* Properties *)

\* The state is well typed, and no more is expected than was declared.
TypeOK ==
    /\ config \in Configs
    /\ src \in {"open", "eof", "error"} /\ pending \in Errors /\ err \in Errors
    /\ pc \in {"idle", "observe", "settle"}
    /\ ahead \in Seq(Symbols) /\ chunk \in Seq(Symbols) /\ given \in Seq(Symbols)
    /\ n \in Nat /\ produced \in Nat
    /\ remaining \in (IF hasExpectedLength THEN 0..config.length ELSE {-1})
    /\ expectedLengthBad \in BOOLEAN /\ ended \in BOOLEAN
    /\ o.line \in Seq(Symbols) /\ o.eventData \in Seq(Symbols) /\ o.jsonBody \in Seq(Symbols)
    /\ o.terminals \in Nat

\* What the observer keeps of a body stays within its limits, whatever the body
\* and however it is cut: the line, the event, the JSON text.
BuffersBounded ==
    /\ Len(o.line) <= SSELimit
    /\ Len(o.eventData) <= SSELimit
    /\ Len(o.jsonBody) <= MaxJSON

\* The JSON text fits the capacity the doubling loop has reserved, and that is
\* never more than the limit.  A declared length is no bound: a surplus that comes
\* with the last bytes is kept like them, and the buffer grows for it.
CapacityBounded ==
    /\ Len(o.jsonBody) <= o.capacity
    /\ o.capacity <= MaxJSON

\* A callback is made at most once, and none but those asked for: not by Finish
\* at EOF after Finish at the declared length, not at EOF after [DONE].
CallbacksOnce ==
    /\ Len(o.usages) <= (IF "usage" \in config.hooks THEN 1 ELSE 0)
    /\ Len(o.evidences) <= (IF "evidence" \in config.hooks THEN 1 ELSE 0)
    /\ o.terminals <= (IF "terminal" \in config.hooks THEN 1 ELSE 0)

\* When a read returns and the source has said EOF with nothing left to hand
\* over, the report has been made: a caller that stops at the last byte, without
\* the extra read that would return EOF, misses nothing.  A body with a declared
\* length is reported with the read that brings its last byte, EOF or not, unless
\* that read fails; one that is not as long as declared is not reported at all.
CompleteBodyReported ==
    /\ pc = "idle" /\ ahead = <<>>
    /\ IF hasExpectedLength
         THEN Len(given) = config.length /\ (ended \/ (given # <<>> /\ err # "error"))
         ELSE ended
    => o.finished

\* The durations of a reported usage are durations: a timing that does not fit is
\* refused, as a negative one is (completion_usage_test.go, "invalid timing").
TimingsNotNegative ==
    \A i \in DOMAIN o.usages : o.usages[i].itl >= 0 /\ o.usages[i].gen >= 0

----------------------------------------------------------------------------
(* Refinement *)

\* The source has said EOF, and no byte is left in the read or in the lookahead.
HandedOver == ended /\ Len(given) = produced

\* The observer implements the contract of the whole body.
Contract == INSTANCE UsageContract
                WITH body <- given, ended <- HandedOver, reported <- o.finished,
                     usages <- o.usages, evidences <- o.evidences, terminals <- o.terminals

\* Whatever the cuts, the limits and the ends, what the callbacks are told is the
\* verdict on the whole body: at most once, only when every byte up to EOF or up to
\* the declared length has been handed over, and for a stream the terminal callback
\* at the blank line after [DONE].  A body found longer than declared in the read
\* that reaches the length is not reported; a surplus in a later read comes after
\* the report.
ReportsWholeBody == Contract!Spec
============================================================================
