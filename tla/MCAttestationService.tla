------------------------ MODULE MCAttestationService ------------------------
(***************************************************************************)
(* Instances of AttestationService for TLC.                                *)
(***************************************************************************)
EXTENDS AttestationService, TLC

Ask(version, algo, n) == [version |-> version, algo |-> algo, nonce |-> n]

\* Both versions, with and without the client's nonce.
Challenges == {Ask(2, "ecdsa", "n1"), Ask(2, "", ""), Ask(0, "ecdsa", "n1")}

\* One of each version.
Plainest == {Ask(2, "", ""), Ask(1, "ecdsa", "n1")}

\* One request that is answered, and every reason to refuse one.
Parameters == {Ask(1, "ed25519", ""), Ask(2, "ecdsa", "n2"), Ask(1, "other", "n1"),
               Ask(1, "", "short"), Ask(1, "", "notHex"), Ask(3, "", "")}

\* What main configures: native evidence, required.
Production == {[source |-> "native", url |-> FALSE, command |-> FALSE, required |-> TRUE]}

EveryConfig == [source : {"native", "static", "file"}, url : BOOLEAN, command : BOOLEAN,
                required : BOOLEAN]

\* NVML with each fallback after it, and a payload file before it.
Fallbacks == {[source |-> "native", url |-> u, command |-> c, required |-> TRUE] :
                u \in BOOLEAN, c \in BOOLEAN}
             \cup {[source |-> "file", url |-> FALSE, command |-> TRUE, required |-> FALSE]}

\* An unusable document, and every list under each of the keys.
Documents ==
    {[json |-> j, evidence_list |-> "absent", evidences |-> "absent", evidence |-> "absent",
      nonce |-> "absent"] : j \in {"blank", "invalid", "object"}}
    \cup
    {[json |-> "object", evidence_list |-> l, evidences |-> "absent", evidence |-> "absent",
      nonce |-> n] : l \in List, n \in {"absent", "template", "fixed"}}
    \cup
    {[json |-> "object", evidence_list |-> "absent", evidences |-> l, evidence |-> e,
      nonce |-> "absent"] : l \in List, e \in {"absent", "blank", "text"}}

\* One of each verdict: refused, empty, complete.
FewDocuments ==
    {p \in Documents : /\ p.json = "object" => p.evidence_list \in {"empty", "full"}
                       /\ p.json # "invalid" /\ p.nonce = "absent"}

Symmetry == Permutations(Req) \cup Permutations(Cert)
=============================================================================
