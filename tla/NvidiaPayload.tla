---------------------------- MODULE NvidiaPayload ----------------------------
(***************************************************************************)
(* GPU evidence as the report sees it: what report.go makes of the JSON    *)
(* that a payload source hands over.                                       *)
(*                                                                         *)
(* A JSON document is abstracted to what the code asks of it: whether it   *)
(* parses to an object, what it holds under "evidence_list", "evidences"   *)
(* and "evidence", and whose nonce it carries.                             *)
(***************************************************************************)
EXTENDS Naturals

\* What can be under a key that should hold an array; "holed" is an array with
\* a null or empty element.
List == {"absent", "null", "notArray", "empty", "holed", "full"}

\* "template" is the text ${nonce}, "request" the nonce the source was asked
\* for, "fixed" any other.
PayloadNonce == {"absent", "template", "request", "fixed"}

Payload == [json          : {"blank", "invalid", "object"},
            evidence_list : List,
            evidences     : List,
            evidence      : {"absent", "blank", "text"},
            nonce         : PayloadNonce]

\* The answer of a payload URL: wrap says that the payload is a string under
\* "nvidia_payload".
Response == [wrap : BOOLEAN, payload : Payload]

Bad == [ok |-> FALSE, list |-> "absent", nonce |-> "absent"]
Good(list, nonce) == [ok |-> TRUE, list |-> list, nonce |-> nonce]

\* strings.ReplaceAll of ${nonce}, done for the configured payload only.
ReplaceNonce(p) == IF p.nonce = "template" THEN [p EXCEPT !.nonce = "request"] ELSE p

\* The document in the shape of a report: a complete envelope keeps the nonce
\* that it brings, the other shapes are given the request's.
normalizeNVIDIAPayload(p) ==
    CASE p.json # "object"           -> Bad
      [] p.json = "object" /\ p.evidence_list # "absent"
           -> Good(p.evidence_list, IF p.nonce = "absent" THEN "request" ELSE p.nonce)
      [] p.json = "object" /\ p.evidence_list = "absent" /\ p.evidences # "absent"
           -> Good(p.evidences, "request")
      [] p.json = "object" /\ p.evidence_list = "absent" /\ p.evidences = "absent"
           /\ p.evidence = "text"
           -> Good("full", "request")
      [] OTHER                       -> Bad

\* An array with at least one element, none of them null or empty.
requireNonEmptyNVIDIAEvidence(list) == list = "full"

\* Mutant: only the absence of the list is noticed.
LaxNormalize(p, required) ==
    LET n == normalizeNVIDIAPayload(p)
    IN IF n.ok /\ required /\ n.list \in {"absent", "null"} THEN Bad ELSE n

\* Service.normalizeNVIDIAPayload.
Normalize(p, required) ==
    LET n == normalizeNVIDIAPayload(p)
    IN IF n.ok /\ required /\ ~requireNonEmptyNVIDIAEvidence(n.list) THEN Bad ELSE n

\* The payload in the answer of a payload URL, if there is one.
extractNVIDIAPayloadResponse(response) ==
    LET p == response.payload
    IN IF response.wrap
         THEN [ok |-> p.json # "blank", payload |-> p]
         ELSE [ok |-> p.json = "object" /\ (\/ p.evidence_list # "absent"
                                            \/ p.evidences # "absent"
                                            \/ p.evidence = "text"),
               payload |-> p]

\* marshalNVIDIAPayload over at least one GPU.
NativePayload == [json |-> "object", evidence_list |-> "full", evidences |-> "absent",
                  evidence |-> "absent", nonce |-> "request"]

\* emptyNVIDIAPayload.
EmptyPayload == Good("empty", "request")
=============================================================================
