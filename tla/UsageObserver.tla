--------------------------- MODULE UsageObserver ---------------------------
(***************************************************************************)
(* CompletionUsageObserver (internal/infra/openai/completion_usage.go): a  *)
(* record o of its fields, and the methods as operators from the record    *)
(* before the call to the record after it.  The callbacks it has made are  *)
(* the fields usages, evidences and terminals.  Every symbol counts one    *)
(* towards the limits.                                                     *)
(***************************************************************************)
EXTENDS UsageDecode

CONSTANTS
    SSELimit,    \* maximumCompletionUsageSSEBytes
    MaxJSON      \* maximumCompletionUsageJSONBytes

ASSUME SSELimitIsNumber == SSELimit \in Nat /\ SSELimit >= 2
ASSUME MaxJSONIsNumber == MaxJSON \in Nat /\ MaxJSON >= 2

\* newCompletionUsageObserver, with the capacity reserved for a declared length.
newCompletionUsageObserver(streaming, format, hooks, capacity) ==
    [streaming |-> streaming, format |-> format, hooks |-> hooks,
     finished |-> FALSE, terminalSeen |-> FALSE,
     terminalNotified |-> FALSE, evidenceNotified |-> FALSE,
     candidate |-> NoUsage, candidateValid |-> FALSE, candidateInvalid |-> FALSE,
     jsonBody |-> <<>>, capacity |-> capacity, jsonLimited |-> FALSE,
     line |-> <<>>, eventData |-> <<>>, eventLimited |-> FALSE, eventHasData |-> FALSE,
     usages |-> <<>>, evidences |-> <<>>, terminals |-> 0]

----------------------------------------------------------------------------
(* Callbacks *)

emit(o, usage) ==
    IF "usage" \in o.hooks THEN [o EXCEPT !.usages = Append(@, usage)] ELSE o

notifyTerminal(o) ==
    IF o.terminalNotified THEN o
    ELSE [o EXCEPT !.terminalNotified = TRUE,
                   !.terminals = IF "terminal" \in o.hooks THEN @ + 1 ELSE @]

emitEvidence(o, evidence) ==
    IF o.evidenceNotified THEN o
    ELSE [o EXCEPT !.evidenceNotified = TRUE,
                   !.evidences = IF "evidence" \in o.hooks THEN Append(@, evidence) ELSE @]

----------------------------------------------------------------------------
(* Streams *)

\* What the event's data says of the usage.
EventEvidence(o, data) ==
    IF o.eventHasData /\ ~o.eventLimited /\ MentionsUsage(data)
      THEN decodeCompletionUsageEvidence(data, TRUE, o.format) ELSE Unavailable

\* A second usage, a malformed one or an event past a limit spoils the candidate
\* for good.
Noted(o, found) ==
    LET available == found.outcome = "available"
    IN [o EXCEPT !.candidate = IF available /\ ~o.candidateValid THEN found.usage ELSE @,
                 !.candidateValid = @ \/ available,
                 !.candidateInvalid = @ \/ o.eventLimited \/ found.outcome = "malformed"
                                        \/ (available /\ o.candidateValid),
                 !.eventData = <<>>, !.eventLimited = FALSE, !.eventHasData = FALSE]

finishEvent(o, data) ==
    IF o.eventHasData /\ ~o.eventLimited /\ data = <<"done">>
      THEN notifyTerminal([Noted(o, Unavailable) EXCEPT !.terminalSeen = TRUE])
      ELSE Noted(o, EventEvidence(o, data))

finishSSEEvent(o) == finishEvent(o, TrimSpace(o.eventData))

\* Mutant: the line feed that joins two data lines is not counted.
JoinNotCounted(o, data) ==
    IF Len(o.eventData) + Len(data) > SSELimit
      THEN [o EXCEPT !.eventData = <<>>, !.eventLimited = TRUE]
      ELSE [o EXCEPT !.eventData = @ \o (IF o.eventHasData THEN <<"nl">> ELSE <<>>) \o data,
                     !.eventHasData = TRUE]

\* One more data line of the event.
addData(o, data) ==
    LET joined == (IF o.eventHasData THEN <<"nl">> ELSE <<>>) \o data
    IN IF Len(o.eventData) + Len(joined) > SSELimit
         THEN [o EXCEPT !.eventData = <<>>, !.eventLimited = TRUE]
         ELSE [o EXCEPT !.eventData = @ \o joined, !.eventHasData = TRUE]

processLine(o, line) ==
    IF line = <<>> THEN finishSSEEvent(o)
    ELSE IF o.eventLimited \/ ~IsData(line) THEN o
    ELSE addData(o, DataOf(line))

processSSELine(o) == processLine([o EXCEPT !.line = <<>>], TrimCR(o.line))

\* One turn of Observe's loop over the bytes of a stream.
ObserveByte(o, value) ==
    IF value = "nl" THEN processSSELine(o)
    ELSE IF Len(o.line) < SSELimit THEN [o EXCEPT !.line = Append(@, value)]
    ELSE [o EXCEPT !.eventLimited = TRUE]

\* The report: the usage, the evidence, and then the terminal callback.
report(o, evidence) ==
    notifyTerminal(
      emitEvidence(IF evidence.outcome = "available" THEN emit(o, evidence.usage) ELSE o,
                   evidence))

finishStreaming(o) ==
    report([o EXCEPT !.finished = TRUE],
           IF o.candidateInvalid THEN Malformed
           ELSE IF o.candidateValid THEN Evidence("available", o.candidate)
           ELSE Unavailable)

----------------------------------------------------------------------------
(* Plain JSON bodies *)

\* Mutant: the doubling loop without the clamp.
UnclampedGrown(capacity, required) ==
    LET grow[c \in Nat] == IF c >= required THEN c ELSE grow[2 * c]
    IN grow[IF capacity = 0 THEN 1 ELSE capacity]

\* The doubling loop, from the capacity the buffer has.
Grown(capacity, required) ==
    LET grow[c \in Nat] == IF c >= required THEN c
                           ELSE IF c >= MaxJSON \div 2 THEN MaxJSON
                           ELSE grow[2 * c]
    IN grow[IF capacity = 0 THEN 1 ELSE capacity]

\* A body past the limit is given up, and its buffer dropped, for good.
observeJSON(o, chunk) ==
    LET required == Len(o.jsonBody) + Len(chunk)
    IN IF o.jsonLimited THEN o
       ELSE IF required > MaxJSON
         THEN [o EXCEPT !.jsonBody = <<>>, !.capacity = 0, !.jsonLimited = TRUE]
       ELSE [o EXCEPT !.jsonBody = @ \o chunk,
                      !.capacity = IF required > @ THEN Grown(@, required) ELSE @]

\* Observe ignores what follows the end.
Deaf(o) == o.finished \/ o.terminalSeen

\* A stream may end without the last line feed or the last blank line.
lastLine(o) == IF ~o.terminalSeen /\ o.line # <<>> THEN processSSELine(o) ELSE o
lastEvent(o) == IF ~o.terminalSeen /\ (o.eventHasData \/ o.eventLimited)
                  THEN finishSSEEvent(o) ELSE o

\* Mutant: Finish does not remember that it ran.
FinishAgain(o) ==
    IF o.streaming THEN [finishStreaming(lastEvent(lastLine(o))) EXCEPT !.finished = FALSE]
    ELSE report(o, decodeCompletionUsageEvidence(o.jsonBody, FALSE, o.format))

Finish(o) ==
    IF o.finished THEN o
    ELSE IF o.streaming THEN finishStreaming(lastEvent(lastLine(o)))
    ELSE report([o EXCEPT !.finished = TRUE],
                IF o.jsonLimited THEN Malformed
                ELSE IF o.jsonBody = <<>> THEN Unavailable
                ELSE decodeCompletionUsageEvidence(o.jsonBody, FALSE, o.format))
============================================================================
