--------------------------- MODULE UsageContract ---------------------------
(***************************************************************************)
(* What observing a body promises its callbacks, stated over the whole     *)
(* body and without the observer's buffers: the reads, their cuts and the  *)
(* limits at which the observer gives up do not show, except that an event *)
(* or a body past a limit counts as malformed.                             *)
(***************************************************************************)
EXTENDS UsageDecode

CONSTANTS SSELimit, MaxJSON

VARIABLES
    config,       \* [streaming, format, hooks, length]
    body,         \* the body handed over so far
    ended,        \* the source has said EOF, and all it brought is handed over
    reported,     \* the verdict has been given
    usages, evidences, terminals    \* the callbacks made

vars == <<config, body, ended, reported, usages, evidences, terminals>>

----------------------------------------------------------------------------
(* The meaning of a stream *)

\* s cut behind every element of sep: the pieces that such an element ends, without
\* it, and the rest.
Split(s, sep) ==
    LET upTo[i \in 0..Len(s)] ==
          IF i = 0 THEN [ended |-> <<>>, rest |-> <<>>]
          ELSE IF s[i] \in sep
            THEN [ended |-> Append(upTo[i - 1].ended, upTo[i - 1].rest), rest |-> <<>>]
          ELSE [ended |-> upTo[i - 1].ended, rest |-> Append(upTo[i - 1].rest, s[i])]
    IN upTo[Len(s)]

\* The lines of a stream end with a line feed, its events with a blank line.
Lines(b) == Split(b, {"nl"})
Blank == {<<>>, <<"cr">>}
Events(b) == Split(Lines(b).ended, Blank)

\* At the end of the stream its rest is a line, too, and the rest of the lines an
\* event.
AllEvents(b) ==
    LET events == Split(Append(Lines(b).ended, Lines(b).rest), Blank)
    IN Append(events.ended, events.rest)

\* The data lines of an event, joined.
EventData(event) ==
    LET data[k \in 0..Len(event)] ==
          IF k = 0 THEN <<>>
          ELSE IF ~IsData(event[k]) THEN data[k - 1]
          ELSE data[k - 1] \o (IF \E j \in 1..(k - 1) : IsData(event[j]) THEN <<"nl">> ELSE <<>>)
                           \o DataOf(TrimCR(event[k]))
    IN data[Len(event)]

TooLong(event) ==
    \/ \E i \in DOMAIN event : Len(event[i]) > SSELimit
    \/ Len(EventData(event)) > SSELimit

IsDone(event) == ~TooLong(event) /\ TrimSpace(EventData(event)) = <<"done">>

\* The events before [DONE].
Counted(events) == {i \in DOMAIN events : \A j \in 1..i : ~IsDone(events[j])}

\* A stream has said [DONE] when the blank line after it has come.
SaysDone(b) == \E i \in DOMAIN Events(b).ended : IsDone(Events(b).ended[i])

EventVerdict(event, format) ==
    LET data == TrimSpace(EventData(event))
    IN IF TooLong(event) THEN Malformed
       ELSE IF MentionsUsage(data) THEN decodeCompletionUsageEvidence(data, TRUE, format)
       ELSE Unavailable

\* Exactly one usage event, nothing malformed and nothing too long make the usage
\* available.
Summary(verdicts) ==
    LET of(outcome) == {i \in DOMAIN verdicts : verdicts[i].outcome = outcome}
    IN IF of("malformed") # {} \/ \E i, j \in of("available") : i # j THEN Malformed
       ELSE IF of("available") = {} THEN Unavailable
       ELSE verdicts[CHOOSE i \in of("available") : TRUE]

EventsVerdict(events, format) ==
    Summary([i \in Counted(events) |-> EventVerdict(events[i], format)])

StreamVerdict(b, format) == EventsVerdict(AllEvents(b), format)

PlainVerdict(b, format) ==
    IF Len(b) > MaxJSON THEN Malformed
    ELSE IF b = <<>> THEN Unavailable
    ELSE decodeCompletionUsageEvidence(b, FALSE, format)

Verdict == IF config.streaming THEN StreamVerdict(body, config.format)
                               ELSE PlainVerdict(body, config.format)

\* A body is complete when EOF is said and nothing is left to hand over; one with
\* a declared length and someone to notify, when exactly that length is handed over.
Complete ==
    IF ~config.streaming /\ "terminal" \in config.hooks /\ config.length >= 0
      THEN Len(body) = config.length ELSE ended

Asked(hook, calls) == IF hook \in config.hooks THEN calls ELSE <<>>
Once == IF "terminal" \in config.hooks THEN 1 ELSE 0

----------------------------------------------------------------------------
Init ==
    /\ body = <<>> /\ ended = FALSE /\ reported = FALSE
    /\ usages = <<>> /\ evidences = <<>> /\ terminals = 0

\* Bytes are handed over, the last ones perhaps together with the end, and none
\* behind it; a stream is terminal as soon as it has said [DONE].  Bytes that follow
\* the report are possible only behind a declared length.
Hand ==
    /\ ~ended /\ ended' \in BOOLEAN
    /\ Len(body) < Len(body') /\ SubSeq(body', 1, Len(body)) = body
    /\ terminals' = IF config.streaming /\ SaysDone(body') THEN Once ELSE terminals
    /\ UNCHANGED <<config, reported, usages, evidences>>

\* The source ends, with no more bytes.
End == ~ended /\ ended' = TRUE
       /\ UNCHANGED <<config, body, reported, usages, evidences, terminals>>

Told(found) ==
    /\ usages' = IF found.outcome = "available" THEN Asked("usage", <<found.usage>>) ELSE <<>>
    /\ evidences' = Asked("evidence", <<found>>)
    /\ terminals' = Once

\* The one report of a body; it may come with the end of the source.
Report ==
    /\ ~reported /\ reported'
    /\ UNCHANGED <<config, body>> /\ (ended => ended')
    /\ Complete'
    /\ Told(Verdict)

Next == Hand \/ End \/ Report
Spec == Init /\ [][Next]_vars
============================================================================
