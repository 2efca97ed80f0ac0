------------------------- MODULE AttestationService -------------------------
(***************************************************************************)
(* The attestation report: Service in internal/runtime/attestation, with   *)
(* the certificate handling of cmd/phala-tail around it.                   *)
(*                                                                         *)
(* Generate runs concurrently for several requests and leaves the process  *)
(* at each of its steps: it reads the certificate file, asks dstack for a  *)
(* quote and for its info, and asks NVML for one report per GPU.  Meanwhile*)
(* the certificate and key files are replaced one by one, outside services *)
(* fail, and the process is restarted, which makes new signing keys.       *)
(***************************************************************************)
EXTENDS NvidiaPayload

CONSTANTS
    Req,          \* report requests
    Shapes,       \* what they ask for: [version, algo, nonce]
    Cert,         \* the public keys that certificates hold
    Modes,        \* TLS deployments: subset of {"plain", "ingress", "owner"}
    Configs,      \* [source, url, command, required]: where GPU evidence comes from
    Payloads,     \* documents that the sources other than NVML hand over
    MaxGPU,       \* bound: GPUs in the machine
    MaxBoots      \* bound: starts of the process

ClientNonce == {"n1", "n2"}      \* 32 bytes in hex
BadNonce == {"notHex", "short"}

ASSUME ShapesTyped ==
    Shapes \subseteq [version : Nat, algo : {"", "ecdsa", "ed25519", "other"},
                      nonce : {""} \cup ClientNonce \cup BadNonce]
ASSUME ShapesExist == Shapes # {}
ASSUME ModesKnown == Modes \subseteq {"plain", "ingress", "owner"}
ASSUME ConfigsTyped ==
    Configs \subseteq [source : {"native", "static", "file"}, url : BOOLEAN,
                       command : BOOLEAN, required : BOOLEAN]
ASSUME PayloadsTyped == Payloads \subseteq Payload
ASSUME Bounds == MaxGPU \in Nat \ {0} /\ MaxBoots \in Nat \ {0}

NoCert == "no certificate"
ASSUME CertsAreKeys == NoCert \notin Cert /\ "unusable" \notin Cert

VARIABLES
    mode, config,      \* the environment of the process, fixed
    up,                \* the process runs
    boot,              \* how many times it has been started
    file,              \* the key in TLS_CERT_PATH; "unusable" if missing or no certificate
    key,               \* whose private key is in TLS_KEY_PATH
    snapshot,          \* Config.TLSCertSPKISHA256
    listener,          \* the leaf certificate the TLS listener serves, per boot
    pc, req,           \* where each Generate is, and its request
    loc,               \* its local variables
    answer,            \* what it returned
    seen               \* history: what the certificate file held while it ran

env == <<mode, config, up, boot, snapshot, listener>>
files == <<file, key>>
vars == <<env, files, pc, req, loc, answer, seen>>

Steps == {"validate", "resolve", "quote", "info", "payload", "collect", "gpu", "fallback",
          "assemble"}

NoNonce == [by |-> "none", id |-> "none"]
NoAddress == [algo |-> "none", boot |-> 0]
NoData == [first |-> <<"none", NoAddress, NoCert>>, second |-> NoNonce]
NoPayload == [list |-> "absent", nonce |-> "absent", of |-> "none", count |-> 0, gpus |-> {}]
NoLocals == [nonce |-> NoNonce, fp |-> NoCert, quote |-> NoData, count |-> 0, next |-> 0,
             gpus |-> {}, nvidia |-> NoPayload]
NoAnswer == [status |-> 0, boot |-> 0, version |-> 0, address |-> NoAddress, nonce |-> NoNonce,
             fp |-> NoCert, quote |-> NoData, nvidia |-> NoPayload]

Init ==
    /\ mode \in Modes /\ config \in Configs
    /\ up = FALSE /\ boot = 0 /\ snapshot = NoCert
    /\ listener = [b \in 1..MaxBoots |-> NoCert]
    /\ file \in (IF mode = "plain" THEN {"unusable"} ELSE {"unusable"} \cup Cert)
    /\ key \in (IF mode = "owner" THEN Cert ELSE {NoCert})
    /\ pc = [r \in Req |-> "idle"]
    /\ req = [r \in Req |-> CHOOSE s \in Shapes : TRUE]
    /\ loc = [r \in Req |-> NoLocals]
    /\ answer = [r \in Req |-> NoAnswer]
    /\ seen = [r \in Req |-> {}]

----------------------------------------------------------------------------
(* The process and its files *)

\* Mutant: a pair that cannot be loaded only costs the TLS listener.
LenientBoot ==
    /\ ~up /\ boot < MaxBoots /\ up' = TRUE /\ boot' = boot + 1
    /\ \/ /\ mode = "owner" /\ file \in Cert /\ key = file
          /\ snapshot' = file
          /\ listener' = [listener EXCEPT ![boot + 1] = file]
       \/ /\ mode # "owner" \/ file \notin Cert \/ key # file
          /\ snapshot' = NoCert
          /\ UNCHANGED listener
    /\ UNCHANGED <<mode, config, files, pc, req, loc, answer, seen>>

\* Mutant: a fingerprint is loaded whenever a certificate is configured.
SnapshotAlways ==
    /\ ~up /\ boot < MaxBoots /\ up' = TRUE /\ boot' = boot + 1
    /\ mode = "owner" => file \in Cert /\ key = file
    /\ snapshot' = IF file \in Cert THEN file ELSE NoCert
    /\ listener' = IF mode = "owner" THEN [listener EXCEPT ![boot + 1] = file] ELSE listener
    /\ UNCHANGED <<mode, config, files, pc, req, loc, answer, seen>>

\* loadTLSConfig, attestationConfigFromEnv and NewService with its new signers.
\* With a private key, the pair must match, and the listener and the report get
\* the same certificate; without one, there is no snapshot.
Boot ==
    /\ ~up /\ boot < MaxBoots /\ up' = TRUE /\ boot' = boot + 1
    /\ \/ /\ mode = "owner" /\ file \in Cert /\ key = file
          /\ snapshot' = file
          /\ listener' = [listener EXCEPT ![boot + 1] = file]
       \/ /\ mode # "owner"
          /\ snapshot' = NoCert
          /\ UNCHANGED listener
    /\ UNCHANGED <<mode, config, files, pc, req, loc, answer, seen>>

\* The process ends, by a signal or a crash, and every Generate with it.
Stop ==
    /\ up /\ up' = FALSE
    /\ pc' = [r \in Req |-> IF pc[r] \in Steps THEN "lost" ELSE pc[r]]
    /\ loc' = [r \in Req |-> NoLocals]
    /\ UNCHANGED <<mode, config, boot, snapshot, listener, files, req, answer, seen>>

\* Somebody replaces, damages or removes the certificate file.
ReplaceCertificate(x) ==
    /\ mode # "plain" /\ file # x /\ file' = x
    /\ seen' = [r \in Req |-> IF pc[r] \in Steps THEN seen[r] \cup {x} ELSE seen[r]]
    /\ UNCHANGED <<env, key, pc, req, loc, answer>>

\* ... and, with another write, the key file.
ReplaceKey(c) ==
    /\ mode = "owner" /\ key # c /\ key' = c
    /\ UNCHANGED <<env, file, pc, req, loc, answer, seen>>

----------------------------------------------------------------------------
(* Generate *)

Goto(r, from, to) == pc[r] = from /\ pc' = [pc EXCEPT ![r] = to]

\* Return an error: badRequestError is a 400, any other error a 500.
Fail(r, from, status) ==
    /\ Goto(r, from, "done")
    /\ answer' = [answer EXCEPT ![r].status = status]
    /\ loc' = [loc EXCEPT ![r] = NoLocals]

\* What every step of Generate leaves alone.
Elsewhere == UNCHANGED <<env, files, req, seen>>

Arrive(r, s) ==
    /\ up /\ Goto(r, "idle", "validate")
    /\ req' = [req EXCEPT ![r] = s]
    /\ seen' = [seen EXCEPT ![r] = {file}]
    /\ UNCHANGED <<env, files, loc, answer>>

Version(s) == IF s.version = 0 THEN 1 ELSE s.version

\* Signers.Context: the signing keys live as long as the process.
Context(algo) == [algo |-> IF algo = "" THEN "ecdsa" ELSE algo, boot |-> boot]

\* parseNonce: 32 random bytes for an empty parameter.
parseNonce(r) == IF req[r].nonce = "" THEN [by |-> "random", id |-> r]
                                      ELSE [by |-> "client", id |-> req[r].nonce]

Acceptable(s) ==
    /\ Version(s) \in {1, 2}
    /\ s.algo # "other"
    /\ s.nonce \notin BadNonce

\* Version, algorithm and nonce are checked before anything is asked outside.
Validate(r) ==
    /\ \/ ~Acceptable(req[r]) /\ Fail(r, "validate", 400)
       \/ /\ Acceptable(req[r]) /\ Goto(r, "validate", "resolve")
          /\ loc' = [loc EXCEPT ![r].nonce = parseNonce(r)]
          /\ UNCHANGED answer
    /\ Elsewhere

\* ResolveSPKIFingerprint: a path that is not set counts as a missing file.
ResolveSPKIFingerprint == IF mode # "plain" /\ file \in Cert THEN file ELSE NoCert

\* Mutant: the certificate file comes before the snapshot.
FileFirst(r) ==
    LET found == IF ResolveSPKIFingerprint # NoCert THEN ResolveSPKIFingerprint ELSE snapshot
    IN /\ IF Version(req[r]) = 2 /\ found = NoCert
            THEN Fail(r, "resolve", 400)
            ELSE /\ Goto(r, "resolve", "quote")
                 /\ loc' = [loc EXCEPT ![r].fp = IF Version(req[r]) = 2 THEN found ELSE NoCert]
                 /\ UNCHANGED answer
       /\ Elsewhere

\* Mutant: a certificate file that cannot be read is an error in every mode.
FileNeeded(r) ==
    /\ IF Version(req[r]) = 2 /\ ResolveSPKIFingerprint = NoCert
         THEN Fail(r, "resolve", 400)
         ELSE /\ Goto(r, "resolve", "quote")
              /\ loc' = [loc EXCEPT ![r].fp =
                   CASE Version(req[r]) = 1    -> NoCert
                     [] snapshot # NoCert      -> snapshot
                     [] OTHER                  -> ResolveSPKIFingerprint]
              /\ UNCHANGED answer
    /\ Elsewhere

\* The fingerprint of a version 2 report: the snapshot, else the file.
Resolve(r) ==
    LET found == IF snapshot # NoCert THEN snapshot ELSE ResolveSPKIFingerprint
    IN /\ IF Version(req[r]) = 2 /\ found = NoCert
            THEN Fail(r, "resolve", 400)
            ELSE /\ Goto(r, "resolve", "quote")
                 /\ loc' = [loc EXCEPT ![r].fp = IF Version(req[r]) = 2 THEN found ELSE NoCert]
                 /\ UNCHANGED answer
       /\ Elsewhere

\* Mutant: the second half is left zero when the client sent no nonce.
ReportDataWithoutNonce(address, n, cert) ==
    [first |-> <<IF cert # NoCert THEN "digest" ELSE "padded", address, cert>>,
     second |-> IF n.by = "client" THEN n ELSE NoNonce]

\* The 64 bytes of report data: the address, or a digest of the address and the
\* fingerprint, then the nonce.  The digest is injective on what occurs.
buildReportData(address, n, cert) ==
    [first |-> <<IF cert # NoCert THEN "digest" ELSE "padded", address, cert>>,
     second |-> n]

\* buildReportData, and DstackClient.GetQuote with its answer: the quote is
\* identified with the report data it is over.  A document without a quote is
\* taken for an answer too.
GetQuote(r) ==
    /\ \/ Fail(r, "quote", 500)
       \/ /\ Goto(r, "quote", "info")
          /\ \E d \in {NoData, buildReportData(Context(req[r].algo), loc[r].nonce, loc[r].fp)} :
               loc' = [loc EXCEPT ![r].quote = d]
          /\ UNCHANGED answer
    /\ Elsewhere

\* Mutant: dstack is asked again, from the quote on, until it answers.
InfoRetried(r) ==
    /\ \/ Goto(r, "info", "quote") /\ UNCHANGED <<loc, answer>>
       \/ Goto(r, "info", "payload") /\ UNCHANGED <<loc, answer>>
    /\ Elsewhere

\* DstackClient.Info.
Info(r) ==
    /\ \/ Fail(r, "info", 500)
       \/ Goto(r, "info", "payload") /\ UNCHANGED <<loc, answer>>
    /\ Elsewhere

----------------------------------------------------------------------------
(* nvidiaPayload *)

\* Service.normalizeNVIDIAPayload on what a source gave, and its result.
Settle(r, from, of, p) ==
    LET n == Normalize(p, config.required)
    IN \/ ~n.ok /\ Fail(r, from, 500)
       \/ /\ n.ok /\ Goto(r, from, "assemble")
          /\ loc' = [loc EXCEPT ![r].nvidia = [list |-> n.list, nonce |-> n.nonce, of |-> of,
                                               count |-> loc[r].count, gpus |-> loc[r].gpus]]
          /\ UNCHANGED answer

\* A configured payload or payload file comes first; a blank file is none.
Configured(r) ==
    /\ \/ /\ config.source = "native"
          /\ Goto(r, "payload", "collect") /\ UNCHANGED <<loc, answer>>
       \/ /\ config.source = "file"
          /\ \/ Fail(r, "payload", 500)
             \/ Goto(r, "payload", "collect") /\ UNCHANGED <<loc, answer>>
       \/ /\ config.source \in {"static", "file"}
          /\ \E p \in {q \in Payloads : q.json # "blank"} :
               Settle(r, "payload", "configured", ReplaceNonce(p))
    /\ Elsewhere

\* Collect opens NVML and counts the GPUs; no GPU is an error.
Collect(r) ==
    /\ \/ Goto(r, "collect", "fallback") /\ UNCHANGED loc
       \/ \E n \in 1..MaxGPU :
            /\ Goto(r, "collect", "gpu")
            /\ loc' = [loc EXCEPT ![r].count = n, ![r].next = 0, ![r].gpus = {}]
    /\ UNCHANGED answer /\ Elsewhere

\* collectNVIDIAEvidenceForGPU: a report of GPU i over the request's nonce.
Evidence(r, i) == [gpu |-> i, nonce |-> loc[r].nonce]

\* The evidence of the next GPU is appended.
AppendEvidence(r) ==
    /\ loc[r].next < loc[r].count
    /\ Goto(r, "gpu", "gpu")
    /\ loc' = [loc EXCEPT ![r].next = loc[r].next + 1,
                          ![r].gpus = loc[r].gpus \cup {Evidence(r, loc[r].next)}]
    /\ UNCHANGED answer

\* Mutant: a failure ends the loop, and what there is goes out.
PartialEvidence(r) ==
    /\ AppendEvidence(r) \/ Settle(r, "gpu", "native", NativePayload)
    /\ Elsewhere

\* Collect's loop: one report per GPU; the first failure, or a cancelled
\* request, ends it.  Then the envelope is built and normalized.
CollectGPU(r) ==
    /\ \/ AppendEvidence(r)
       \/ /\ loc[r].next < loc[r].count
          /\ Goto(r, "gpu", "fallback")
          /\ loc' = [loc EXCEPT ![r].count = 0, ![r].next = 0, ![r].gpus = {}]
          /\ UNCHANGED answer
       \/ /\ loc[r].next = loc[r].count
          /\ Settle(r, "gpu", "native", NativePayload)
    /\ Elsewhere

\* fetchNVIDIAPayload: the request fails, or its answer holds a payload or none.
Fetch(r) ==
    \/ Fail(r, "fallback", 500)
    \/ \E p \in Payloads, wrap \in BOOLEAN :
         LET x == extractNVIDIAPayloadResponse([wrap |-> wrap, payload |-> p])
         IN IF x.ok THEN Settle(r, "fallback", "url", x.payload) ELSE Fail(r, "fallback", 500)

\* runNVIDIACommand: it fails or times out, or prints a payload.
RunCommand(r) ==
    \/ Fail(r, "fallback", 500)
    \/ \E p \in Payloads : Settle(r, "fallback", "command", p)

\* NVML failed: the URL, else the command, else an error if evidence is required.
Fallback(r) ==
    /\ \/ config.url /\ Fetch(r)
       \/ ~config.url /\ config.command /\ RunCommand(r)
       \/ ~config.url /\ ~config.command /\ config.required /\ Fail(r, "fallback", 500)
       \/ /\ ~config.url /\ ~config.command /\ ~config.required
          /\ Goto(r, "fallback", "assemble")
          /\ loc' = [loc EXCEPT ![r].nvidia = [list |-> EmptyPayload.list,
                       nonce |-> EmptyPayload.nonce, of |-> "empty", count |-> 0, gpus |-> {}]]
          /\ UNCHANGED answer
    /\ Elsewhere

----------------------------------------------------------------------------
\* The report as it is built from the locals and a fingerprint.
Report(r, cert) ==
    [status |-> 200, boot |-> boot, version |-> Version(req[r]),
     address |-> Context(req[r].algo), nonce |-> loc[r].nonce, fp |-> cert,
     quote |-> loc[r].quote, nvidia |-> loc[r].nvidia]

\* Mutant: the fingerprint is looked up again for the report.
LookUpAgain(r) ==
    /\ Goto(r, "assemble", "done")
    /\ answer' = [answer EXCEPT ![r] = Report(r,
         CASE Version(req[r]) = 1 -> NoCert
           [] snapshot # NoCert   -> snapshot
           [] OTHER               -> ResolveSPKIFingerprint)]
    /\ loc' = [loc EXCEPT ![r] = NoLocals]
    /\ Elsewhere

\* The report is assembled and returned.
Assemble(r) ==
    /\ Goto(r, "assemble", "done")
    /\ answer' = [answer EXCEPT ![r] = Report(r, loc[r].fp)]
    /\ loc' = [loc EXCEPT ![r] = NoLocals]
    /\ Elsewhere

Generate(r) ==
    \/ Validate(r) \/ Resolve(r) \/ GetQuote(r) \/ Info(r)
    \/ Configured(r) \/ Collect(r) \/ CollectGPU(r) \/ Fallback(r)
    \/ Assemble(r)

\* The last start of the process has ended.
Over == boot = MaxBoots /\ ~up /\ UNCHANGED vars

Next ==
    \/ Boot \/ Stop
    \/ \E x \in Cert \cup {"unusable"} : ReplaceCertificate(x)
    \/ \E c \in Cert : ReplaceKey(c)
    \/ \E r \in Req : Generate(r) \/ \E s \in Shapes : Arrive(r, s)
    \/ Over

Spec == Init /\ [][Next]_vars

\* The calls that have no deadline of their own: NVML's, and the pipe of an
\* evidence command, which outlives the killed command in any child of it.
NoDeadline(r) ==
    \/ pc[r] \in {"collect", "gpu"}
    \/ pc[r] = "fallback" /\ ~config.url /\ config.command

\* Files are read, dstack and the payload URL answer or time out.  Nothing is
\* assumed of the driver or of the command.
Fairness == \A r \in Req : WF_vars(~NoDeadline(r) /\ Generate(r))
FairSpec == Spec /\ Fairness

----------------------------------------------------------------------------
(* Properties *)

Reports == {r \in Req : answer[r].status = 200}

Nonces == [by : {"none", "random", "client"}, id : {"none"} \cup ClientNonce \cup Req]
Addresses == [algo : {"none", "ecdsa", "ed25519"}, boot : 0..MaxBoots]
Certs == Cert \cup {NoCert}
Data == [first : {"none", "padded", "digest"} \X Addresses \X Certs, second : Nonces]
Evidences == SUBSET [gpu : Nat, nonce : Nonces]
Sources == {"none", "configured", "native", "url", "command", "empty"}
ReportPayloads == [list : List, nonce : PayloadNonce, of : Sources, count : 0..MaxGPU,
                   gpus : Evidences]
Locals == [nonce : Nonces, fp : Certs, quote : Data, count : 0..MaxGPU, next : 0..MaxGPU,
           gpus : Evidences, nvidia : ReportPayloads]
Answers == [status : {0, 200, 400, 500}, boot : 0..MaxBoots, version : Nat,
            address : Addresses, nonce : Nonces, fp : Certs, quote : Data,
            nvidia : ReportPayloads]

\* The state is well typed; a process in owner mode has a listener certificate.
TypeOK ==
    /\ mode \in Modes /\ config \in Configs /\ up \in BOOLEAN /\ boot \in 0..MaxBoots
    /\ file \in Cert \cup {"unusable"} /\ key \in Certs /\ snapshot \in Certs
    /\ listener \in [1..MaxBoots -> Certs]
    /\ up /\ mode = "owner" => boot > 0 /\ listener[boot] # NoCert
    /\ pc \in [Req -> {"idle", "done", "lost"} \cup Steps]
    /\ req \in [Req -> Shapes]
    /\ loc \in [Req -> Locals]
    /\ answer \in [Req -> Answers]
    /\ seen \in [Req -> SUBSET (Cert \cup {"unusable"})]

\* The quote of a report is over the address, the nonce and the fingerprint that
\* the report shows, and a fingerprint is shown exactly in version 2, however the
\* certificate changes while the quote and the evidence are fetched.  (That dstack
\* sends a quote at all is not checked: see GetQuote.)
QuoteBindsReport ==
    \A r \in Reports :
      LET a == answer[r]
      IN /\ a.quote # NoData =>
              /\ a.quote.first = <<IF a.version = 2 THEN "digest" ELSE "padded", a.address, a.fp>>
              /\ a.quote.second = a.nonce
         /\ a.version = 2 <=> a.fp # NoCert

\* When TAIL owns TLS, a version 2 report names the certificate that the listener
\* of its own process serves, even after the files were replaced and across
\* restarts.
ReportNamesListener ==
    \A r \in Reports : mode = "owner" /\ answer[r].version = 2
                         => answer[r].fp = listener[answer[r].boot]

\* With an external ingress, a version 2 report names a certificate that was in
\* the file while the report was made: a renewal shows in every later report.
ReportFollowsRenewal ==
    \A r \in Reports : mode = "ingress" /\ answer[r].version = 2 => answer[r].fp \in seen[r]

\* A version 2 request that is well formed is refused only when there was no
\* usable certificate file; never when TAIL owns TLS.
RefusalJustified ==
    \A r \in Req : answer[r].status = 400 /\ Acceptable(req[r])
                     => /\ Version(req[r]) = 2 /\ mode # "owner"
                        /\ seen[r] \cap {"unusable"} # {}

\* A quote answers one challenge: two requests share one only if their clients
\* sent the same nonce to the same process.
QuoteAnswersOneChallenge ==
    \A r, q \in Reports :
      r # q /\ answer[r].quote = answer[q].quote /\ answer[r].quote # NoData
        => /\ req[r].nonce = req[q].nonce /\ req[r].nonce \in ClientNonce
           /\ answer[r].boot = answer[q].boot

\* Native evidence holds one report for every GPU that NVML counted, each over
\* the request's own nonce: none is missing, stale or from another request.
EvidenceComplete ==
    \A r \in Reports :
      LET p == answer[r].nvidia
      IN p.of = "native" => /\ p.count > 0 /\ p.nonce = "request"
                            /\ p.gpus = {[gpu |-> i, nonce |-> answer[r].nonce] :
                                           i \in 0..(p.count - 1)}

\* With required evidence no report goes out with an empty, null or holed list,
\* whichever source it came from; without fallbacks it is the native one.
RequiredEvidence ==
    \A r \in Reports : config.required =>
      /\ answer[r].nvidia.list = "full"
      /\ config.source = "native" /\ ~config.url /\ ~config.command
           => answer[r].nvidia.of = "native"

\* Every report that was asked for is answered, or its process ends: whatever
\* dstack, the payload URL or the files do, nobody waits for ever, unless a call
\* without a deadline never returns.
ReportEnds ==
    \A r \in Req : ([]<>~NoDeadline(r)) => (pc[r] \in Steps ~> pc[r] \notin Steps)
=============================================================================
