---------------------------- MODULE UsageDecode ----------------------------
(***************************************************************************)
(* What the usage observer (internal/infra/openai/completion_usage.go)     *)
(* reads out of one JSON document, and the symbols a body is made of.      *)
(*                                                                         *)
(* A symbol stands for the bytes the observer tells apart: "nl", "cr" and  *)
(* "sp" for one byte each, "data" for the field name data:, "done" for     *)
(* [DONE], "text" for anything else that is no JSON, and a name in Docs    *)
(* for a whole JSON document, whose content Content gives:                 *)
(*   json     json.Unmarshal accepts it, choices aside;                    *)
(*   mentions the bytes "usage", quotes included, occur in it;             *)
(*   choices  the choices field: absent, an empty array, some elements, or *)
(*            other (null or no array, which the field's UnmarshalJSON     *)
(*            refuses);                                                    *)
(*   last     type is response.completed (Responses events only);          *)
(*   usage    the usage object is there and not null;                      *)
(*   out, in  its completion (output) and prompt (input) token counts;     *)
(*   itl, gen the two timings, in half nanoseconds.                        *)
(* A field that may be missing is a set of at most one number.             *)
(***************************************************************************)
EXTENDS Integers, Sequences

CONSTANTS
    Content,     \* the documents that can occur: [Docs -> document]
    IntBits,     \* width of an int64 without its sign (63 in the code)
    Mantissa     \* significant bits of a float64 (53 in the code)

Docs == DOMAIN Content
Symbols == {"nl", "cr", "sp", "data", "done", "text"} \cup Docs
Space == {"nl", "cr", "sp"}

NoUsage == [completion |-> 0, prompt |-> 0, itl |-> 0, gen |-> 0]
Evidence(outcome, usage) == [outcome |-> outcome, usage |-> usage]
Unavailable == Evidence("unavailable", NoUsage)
Malformed == Evidence("malformed", NoUsage)

----------------------------------------------------------------------------
(* Numbers *)

\* x > 0 to the nearest multiple of unit, ties to even.
RoundTo(x, unit) ==
    LET up == \/ 2 * (x % unit) > unit
              \/ 2 * (x % unit) = unit /\ (x \div unit) % 2 = 1
    IN (IF up THEN x \div unit + 1 ELSE x \div unit) * unit

\* The float64 nearest to x > 0: Mantissa significant bits.  External: the
\* arithmetic of the language.
Float(x) ==
    RoundTo(x, 2^(CHOOSE k \in 0..IntBits + 2 :
                    /\ x < 2^(Mantissa + k)
                    /\ \A j \in 0..k-1 : x >= 2^(Mantissa + j)))

MaxInt == 2^IntBits - 1

\* time.Duration(f) on amd64, which the image is built for: a float that no
\* int64 holds becomes the smallest int64.  External.
ToInt(f) == IF f > MaxInt THEN -(2^IntBits) ELSE f

\* math.Ceil of half nanoseconds.
Ceil(x) == (x + 1) \div 2

\* A timing as a duration, {} when it is refused.  float64(math.MaxInt64) is
\* itself rounded.
millisecondsDuration(value) ==
    IF value <= 0 THEN {}
    ELSE {ToInt(Ceil(f)) : f \in {f \in {Float(value)} : f <= Float(2 * MaxInt)}}

----------------------------------------------------------------------------
(* One document *)

The(option) == CHOOSE v \in option : TRUE
Durations(times) == UNION {millisecondsDuration(t) : t \in times}
Positive(counts) == IF \E c \in counts : c > 0 THEN The(counts) ELSE 0
OrZero(option) == IF option = {} THEN 0 ELSE The(option)

\* A stream reports usage in a last chunk without choices, a plain body beside
\* its choices.
decodeCompletionsUsageEvidence(doc, streaming) ==
    IF ~doc.json \/ doc.choices = "other" THEN Malformed
    ELSE IF ~doc.usage \/ (doc.out # {} /\ streaming /\ doc.choices = "some") THEN Unavailable
    ELSE IF \/ doc.out = {}
            \/ doc.choices # (IF streaming THEN "empty" ELSE "some")
            \/ \E c \in doc.out : c < 0
            \/ \E t \in doc.itl \cup doc.gen : Durations({t}) = {} THEN Malformed
    ELSE Evidence("available", [completion |-> The(doc.out), prompt |-> Positive(doc.in),
                                itl |-> OrZero(Durations(doc.itl)),
                                gen |-> OrZero(Durations(doc.gen))])

decodeResponsesUsageEvidence(doc, streaming) ==
    IF ~doc.json THEN Malformed
    ELSE IF (streaming /\ ~doc.last) \/ ~doc.usage THEN Unavailable
    ELSE IF doc.out = {} \/ \E c \in doc.out : c < 0 THEN Malformed
    ELSE Evidence("available", [NoUsage EXCEPT !.completion = The(doc.out),
                                               !.prompt = Positive(doc.in)])

----------------------------------------------------------------------------
(* Bytes *)

\* What json.Unmarshal makes of these bytes: a document with white space around
\* it, or an error.  External.
Parsed(bytes) ==
    LET kept == SelectSeq(bytes, LAMBDA b : b \notin Space)
    IN IF Len(kept) = 1 /\ kept[1] \in Docs THEN kept[1] ELSE "text"

decodeDocument(name, streaming, format) ==
    IF name \notin Docs THEN Malformed
    ELSE IF format = "responses" THEN decodeResponsesUsageEvidence(Content[name], streaming)
    ELSE decodeCompletionsUsageEvidence(Content[name], streaming)

decodeCompletionUsageEvidence(bytes, streaming, format) ==
    decodeDocument(Parsed(bytes), streaming, format)

\* bytes.Contains(data, `"usage"`)
MentionsUsage(bytes) ==
    \E i \in DOMAIN bytes : bytes[i] \in Docs /\ Content[bytes[i]].mentions

\* bytes.TrimSpace
TrimSpace(bytes) ==
    LET solid == {i \in DOMAIN bytes : bytes[i] \notin Space}
    IN IF solid = {} THEN <<>>
       ELSE SubSeq(bytes, CHOOSE i \in solid : \A j \in solid : i <= j,
                          CHOOSE i \in solid : \A j \in solid : i >= j)

\* A line without the carriage return of its line end.
TrimCR(line) ==
    IF line # <<>> /\ line[Len(line)] = "cr" THEN SubSeq(line, 1, Len(line) - 1) ELSE line

IsData(line) == line # <<>> /\ line[1] = "data"

\* What a data line carries: the field name and one space are dropped.
DataOf(line) ==
    IF Len(line) > 1 /\ line[2] = "sp" THEN SubSeq(line, 3, Len(line)) ELSE Tail(line)
============================================================================
