-------------------------- MODULE AttestationProofs --------------------------
(***************************************************************************)
(* Proofs about AttestationService for any requests, certificates, modes,  *)
(* configurations, GPUs and number of starts.                              *)
(***************************************************************************)
EXTENDS AttestationService, TLAPS

Validated == Steps \ {"validate"}
Resolved == Validated \ {"resolve"}
Quoted == Resolved \ {"quote"}

\* What the process knows of the certificates in each deployment.
Deployment ==
    /\ mode = "plain" => file = "unusable"
    /\ mode # "owner" => snapshot = NoCert
    /\ up => boot > 0
    /\ up /\ mode = "owner" => snapshot = listener[boot] /\ snapshot # NoCert

\* One evidence for each of the first n GPUs.
First(n, nonce) == {[gpu |-> i, nonce |-> nonce] : i \in 0..(n - 1)}

\* The fingerprint c is right for request r, in a process whose listener serves l.
RightCert(r, c, l) ==
    IF Version(req[r]) = 2
      THEN /\ c \in Cert
           /\ mode = "owner" => c = l
           /\ mode # "owner" => c \in seen[r]
      ELSE c = NoCert

\* Native evidence p is complete and over the nonce n.
Complete(p, n) ==
    p.of = "native" => p.count > 0 /\ p.nonce = "request" /\ p.gpus = First(p.count, n)

\* What Generate's locals hold, step by step.
Progress(r) ==
    /\ pc[r] \in Steps => up /\ file \in seen[r] /\ answer[r] = NoAnswer
    /\ pc[r] \in {"idle", "lost"} => answer[r] = NoAnswer
    /\ pc[r] \in Validated => Acceptable(req[r]) /\ loc[r].nonce = parseNonce(r)
    /\ pc[r] \in Resolved => RightCert(r, loc[r].fp, snapshot)
    /\ pc[r] \in Quoted =>
         loc[r].quote \in {NoData, buildReportData(Context(req[r].algo), loc[r].nonce, loc[r].fp)}
    /\ pc[r] = "gpu" => /\ loc[r].count > 0 /\ loc[r].next <= loc[r].count
                        /\ loc[r].gpus = First(loc[r].next, loc[r].nonce)
    /\ pc[r] = "assemble" => Complete(loc[r].nvidia, loc[r].nonce)

\* What a report that went out says.
Reported(r) ==
    LET a == answer[r]
    IN a.status = 200 =>
         /\ Acceptable(req[r]) /\ a.version = Version(req[r])
         /\ a.boot \in 1..boot /\ a.address.boot = a.boot
         /\ a.nonce = parseNonce(r)
         /\ RightCert(r, a.fp, listener[a.boot])
         /\ a.quote \in {NoData, buildReportData(a.address, a.nonce, a.fp)}
         /\ Complete(a.nvidia, a.nonce)

\* A refusal of an acceptable request.
Refused(r) ==
    answer[r].status = 400 /\ Acceptable(req[r])
      => Version(req[r]) = 2 /\ mode # "owner" /\ "unusable" \in seen[r]

ReqInv(r) == Progress(r) /\ Reported(r) /\ Refused(r)

IInv == TypeOK /\ Deployment /\ \A r \in Req : ReqInv(r)

----------------------------------------------------------------------------
(* Types *)

\* The empty values are well typed.
LEMMA EmptyTypes == NoLocals \in Locals /\ NoAnswer \in Answers
<1>1. NoNonce \in Nonces /\ NoAddress \in Addresses /\ NoCert \in Certs
    BY Bounds DEF NoNonce, Nonces, NoAddress, Addresses, Certs
<1>2. NoData \in Data
    BY <1>1 DEF NoData, Data
<1>3. NoPayload \in ReportPayloads
    BY Bounds DEF NoPayload, ReportPayloads, List, PayloadNonce, Sources, Evidences
<1>4. 0 \in 0..MaxGPU /\ 0 \in 0..MaxBoots /\ {} \in Evidences
    BY Bounds DEF Evidences
<1>. QED
    BY <1>1, <1>2, <1>3, <1>4 DEF NoLocals, Locals, NoAnswer, Answers

\* Acceptable requests have a nonce and an algorithm of the right kind.
LEMMA RequestTypes ==
    ASSUME TypeOK, NEW r \in Req, Acceptable(req[r])
    PROVE  /\ parseNonce(r) \in Nonces
           /\ Context(req[r].algo) \in Addresses
           /\ Version(req[r]) \in {1, 2}
<1>1. req[r] \in [version : Nat, algo : {"", "ecdsa", "ed25519", "other"},
                  nonce : {""} \cup ClientNonce \cup BadNonce]
    BY ShapesTyped DEF TypeOK
<1>2. req[r].nonce \in {""} \cup ClientNonce
    BY <1>1 DEF Acceptable
<1>3. parseNonce(r) \in Nonces
    BY <1>2 DEF parseNonce, Nonces
<1>4. Context(req[r].algo) \in Addresses
    BY <1>1 DEF Acceptable, Context, Addresses, TypeOK
<1>. QED  BY <1>3, <1>4 DEF Acceptable

\* Returning an error keeps the types.
LEMMA FailTypes ==
    ASSUME TypeOK, NEW r \in Req, NEW from \in Steps, NEW status \in {400, 500},
           Fail(r, from, status)
    PROVE  /\ pc' \in [Req -> {"idle", "done", "lost"} \cup Steps]
           /\ loc' \in [Req -> Locals]
           /\ answer' \in [Req -> Answers]
<1>1. pc' \in [Req -> {"idle", "done", "lost"} \cup Steps]
    BY DEF TypeOK, Fail, Goto
<1>2. loc' \in [Req -> Locals]
    BY EmptyTypes DEF TypeOK, Fail
<1>3. answer' \in [Req -> Answers]
  <2>0. answer[r] \in Answers
    BY DEF TypeOK
  <2>1. [answer[r] EXCEPT !.status = status] \in Answers
    BY <2>0 DEF Answers
  <2>. QED  BY <2>1 DEF TypeOK, Fail
<1>. QED  BY <1>1, <1>2, <1>3

\* Normalization gives a list and a nonce, and passes a native payload.
LEMMA NormalizeTypes ==
    ASSUME NEW p \in Payload, NEW required \in BOOLEAN
    PROVE  /\ Normalize(p, required).list \in List
           /\ Normalize(p, required).nonce \in PayloadNonce
<1>1. /\ normalizeNVIDIAPayload(p).list \in List
      /\ normalizeNVIDIAPayload(p).nonce \in PayloadNonce
    BY DEF normalizeNVIDIAPayload, Payload, Good, Bad, List, PayloadNonce
<1>. QED
    BY <1>1 DEF Normalize, Bad, List, PayloadNonce

\* Settle keeps the types.
LEMMA SettleTypes ==
    ASSUME TypeOK, NEW r \in Req, NEW from \in Steps, NEW of \in Sources, NEW p \in Payload,
           Settle(r, from, of, p)
    PROVE  /\ pc' \in [Req -> {"idle", "done", "lost"} \cup Steps]
           /\ loc' \in [Req -> Locals]
           /\ answer' \in [Req -> Answers]
<1> DEFINE n == Normalize(p, config.required)
           new == [list |-> n.list, nonce |-> n.nonce, of |-> of, count |-> loc[r].count,
                   gpus |-> loc[r].gpus]
<1>1. CASE Fail(r, from, 500)
    BY <1>1, FailTypes
<1>2. CASE ~Fail(r, from, 500)
  <2>1. /\ Goto(r, from, "assemble")
        /\ loc' = [loc EXCEPT ![r].nvidia = new]
        /\ UNCHANGED answer
    BY <1>2 DEF Settle
  <2>2. config.required \in BOOLEAN
    BY ConfigsTyped DEF TypeOK
  <2>3. n.list \in List /\ n.nonce \in PayloadNonce
    BY <2>2, NormalizeTypes
  <2>4. loc[r] \in Locals
    BY DEF TypeOK
  <2>5. new \in ReportPayloads
    BY <2>3, <2>4 DEF ReportPayloads, Locals
  <2>6. [loc[r] EXCEPT !.nvidia = new] \in Locals
    BY <2>4, <2>5 DEF Locals
  <2>7. loc' \in [Req -> Locals]
    BY <2>1, <2>6 DEF TypeOK
  <2>8. pc' \in [Req -> {"idle", "done", "lost"} \cup Steps]
    BY <2>1 DEF TypeOK, Goto, Steps
  <2>. QED  BY <2>1, <2>7, <2>8 DEF TypeOK
<1>. QED  BY <1>1, <1>2

\* Every step of Generate keeps the types.
LEMMA GenerateTypes ==
    ASSUME TypeOK, NEW r \in Req, Progress(r), Generate(r)
    PROVE  /\ pc' \in [Req -> {"idle", "done", "lost"} \cup Steps]
           /\ loc' \in [Req -> Locals]
           /\ answer' \in [Req -> Answers]
<1> DEFINE Goal == /\ pc' \in [Req -> {"idle", "done", "lost"} \cup Steps]
                   /\ loc' \in [Req -> Locals]
                   /\ answer' \in [Req -> Answers]
<1>0. /\ loc[r] \in Locals /\ loc \in [Req -> Locals]
      /\ answer[r] \in Answers /\ answer \in [Req -> Answers]
      /\ pc \in [Req -> {"idle", "done", "lost"} \cup Steps]
    BY DEF TypeOK
<1>a. ASSUME NEW from \in Steps, NEW status \in {400, 500}, Fail(r, from, status) PROVE Goal
    BY <1>a, FailTypes
<1>b. ASSUME NEW from \in Steps, NEW of \in Sources, NEW p \in Payload, Settle(r, from, of, p)
      PROVE  Goal
    BY <1>b, SettleTypes
<1>c. ASSUME NEW from \in Steps, NEW to \in {"done"} \cup Steps, Goto(r, from, to)
      PROVE  pc' \in [Req -> {"idle", "done", "lost"} \cup Steps]
    BY <1>0, <1>c DEF Goto
<1>d. ASSUME NEW from \in Steps, NEW to \in Steps, Goto(r, from, to), UNCHANGED <<loc, answer>>
      PROVE  Goal
    BY <1>0, <1>c, <1>d
<1>1. CASE Validate(r)
  <2>1. CASE Acceptable(req[r])
    <3>1. [loc[r] EXCEPT !.nonce = parseNonce(r)] \in Locals
      BY <1>0, <2>1, RequestTypes DEF Locals
    <3>2. Goto(r, "validate", "resolve") /\ loc' = [loc EXCEPT ![r].nonce = parseNonce(r)]
          /\ UNCHANGED answer
      BY <1>1, <2>1 DEF Validate
    <3>3. loc' \in [Req -> Locals]
      BY <1>0, <3>1, <3>2
    <3>. QED  BY <1>0, <1>c, <3>2, <3>3 DEF Steps
  <2>2. CASE ~Acceptable(req[r])
    BY <1>1, <1>a, <2>2 DEF Validate, Steps
  <2>. QED  BY <2>1, <2>2
<1>2. CASE Resolve(r)
  <2>1. CASE Fail(r, "resolve", 400)
    BY <1>a, <2>1 DEF Steps
  <2>2. CASE ~Fail(r, "resolve", 400)
    <3>1. PICK c \in Certs : /\ Goto(r, "resolve", "quote")
                             /\ loc' = [loc EXCEPT ![r].fp = c]
                             /\ UNCHANGED answer
      BY <1>2, <2>2 DEF Resolve, ResolveSPKIFingerprint, TypeOK, Certs
    <3>2. [loc[r] EXCEPT !.fp = c] \in Locals
      BY <1>0 DEF Locals
    <3>3. loc' \in [Req -> Locals]
      BY <1>0, <3>1, <3>2
    <3>. QED  BY <1>0, <1>c, <3>1, <3>3 DEF Steps
  <2>. QED  BY <2>1, <2>2
<1>3. CASE GetQuote(r)
  <2>1. CASE Fail(r, "quote", 500)
    BY <1>a, <2>1 DEF Steps
  <2>2. CASE ~Fail(r, "quote", 500)
    <3>1. PICK d \in {NoData, buildReportData(Context(req[r].algo), loc[r].nonce, loc[r].fp)} :
            Goto(r, "quote", "info") /\ loc' = [loc EXCEPT ![r].quote = d] /\ UNCHANGED answer
      BY <1>3, <2>2 DEF GetQuote
    <3>2. Acceptable(req[r])
      BY <3>1 DEF Goto, Progress, Validated, Steps
    <3>3. Context(req[r].algo) \in Addresses /\ loc[r].nonce \in Nonces /\ loc[r].fp \in Certs
      BY <1>0, <3>2, RequestTypes DEF Locals
    <3>4. d \in Data
      <4>1. buildReportData(Context(req[r].algo), loc[r].nonce, loc[r].fp) \in Data
        BY <3>3 DEF buildReportData, Data
      <4>. QED  BY <3>1, <4>1, EmptyTypes DEF NoLocals, Locals
    <3>5. [loc[r] EXCEPT !.quote = d] \in Locals
      BY <1>0, <3>4 DEF Locals
    <3>6. loc' \in [Req -> Locals]
      BY <1>0, <3>1, <3>5
    <3>. QED  BY <1>0, <1>c, <3>1, <3>6 DEF Steps
  <2>. QED  BY <2>1, <2>2
<1>4. CASE Info(r)
    BY <1>4, <1>a, <1>d DEF Info, Steps
<1>5. CASE Configured(r)
  <2>1. CASE Fail(r, "payload", 500)
    BY <1>a, <2>1 DEF Steps
  <2>2. CASE Goto(r, "payload", "collect") /\ UNCHANGED <<loc, answer>>
    BY <1>d, <2>2 DEF Steps
  <2>3. ASSUME NEW p \in Payloads, Settle(r, "payload", "configured", ReplaceNonce(p))
        PROVE  Goal
    <3>1. ReplaceNonce(p) \in Payload
      BY PayloadsTyped DEF ReplaceNonce, Payload, PayloadNonce
    <3>. QED  BY <1>b, <2>3, <3>1 DEF Steps, Sources
  <2>. QED  BY <1>5, <2>1, <2>2, <2>3 DEF Configured
<1>6. CASE Collect(r)
  <2>1. CASE Goto(r, "collect", "fallback") /\ UNCHANGED loc
    BY <1>6, <1>d, <2>1 DEF Collect, Steps
  <2>2. ASSUME NEW n \in 1..MaxGPU, Goto(r, "collect", "gpu"),
               loc' = [loc EXCEPT ![r].count = n, ![r].next = 0, ![r].gpus = {}]
        PROVE  Goal
    <3>0. n \in 0..MaxGPU /\ 0 \in 0..MaxGPU /\ {} \in Evidences
      BY Bounds DEF Evidences
    <3>1. [loc[r] EXCEPT !.count = n, !.next = 0, !.gpus = {}] \in Locals
      BY <1>0, <3>0 DEF Locals
    <3>2. loc' = [loc EXCEPT ![r] = [loc[r] EXCEPT !.count = n, !.next = 0, !.gpus = {}]]
      BY <1>0, <2>2
    <3>3. loc' \in [Req -> Locals]
      BY <1>0, <3>1, <3>2
    <3>. QED  BY <1>0, <1>6, <1>c, <2>2, <3>3 DEF Collect, Steps
  <2>. QED  BY <1>6, <2>1, <2>2 DEF Collect
<1>7. CASE CollectGPU(r)
  <2>1. CASE AppendEvidence(r)
    <3> DEFINE l == [loc[r] EXCEPT !.next = loc[r].next + 1,
                                   !.gpus = loc[r].gpus \cup {Evidence(r, loc[r].next)}]
    <3>1. loc[r].next + 1 \in 0..MaxGPU /\ loc[r].next \in Nat
      BY <1>0, <2>1, Bounds DEF AppendEvidence, Locals
    <3>2. Evidence(r, loc[r].next) \in [gpu : Nat, nonce : Nonces]
      BY <1>0, <3>1 DEF Evidence, Locals
    <3>3. loc[r].gpus \cup {Evidence(r, loc[r].next)} \in Evidences
      BY <1>0, <3>2 DEF Locals, Evidences
    <3>4. l \in Locals
      BY <1>0, <3>1, <3>3 DEF Locals
    <3>5. loc' = [loc EXCEPT ![r] = l]
      BY <1>0, <2>1 DEF AppendEvidence
    <3>6. loc' \in [Req -> Locals]
      BY <1>0, <3>4, <3>5
    <3>. QED  BY <1>0, <1>c, <2>1, <3>6 DEF AppendEvidence, Steps
  <2>2. CASE /\ Goto(r, "gpu", "fallback")
             /\ loc' = [loc EXCEPT ![r].count = 0, ![r].next = 0, ![r].gpus = {}]
             /\ UNCHANGED answer
    <3>0. 0 \in 0..MaxGPU /\ 0 \in 0..MaxGPU /\ {} \in Evidences
      BY Bounds DEF Evidences
    <3>1. [loc[r] EXCEPT !.count = 0, !.next = 0, !.gpus = {}] \in Locals
      BY <1>0, <3>0 DEF Locals
    <3>2. loc' = [loc EXCEPT ![r] = [loc[r] EXCEPT !.count = 0, !.next = 0, !.gpus = {}]]
      BY <1>0, <2>2
    <3>3. loc' \in [Req -> Locals]
      BY <1>0, <3>1, <3>2
    <3>. QED  BY <1>0, <1>c, <2>2, <3>3 DEF Steps
  <2>3. CASE Settle(r, "gpu", "native", NativePayload)
    <3>1. NativePayload \in Payload
      BY DEF NativePayload, Payload, List, PayloadNonce
    <3>. QED  BY <1>b, <2>3, <3>1 DEF Steps, Sources
  <2>. QED  BY <1>7, <2>1, <2>2, <2>3 DEF CollectGPU
<1>8. CASE Fallback(r)
  <2>1. CASE Fail(r, "fallback", 500)
    BY <1>a, <2>1 DEF Steps
  <2>2. ASSUME NEW p \in Payloads, NEW of \in {"url", "command"}, Settle(r, "fallback", of, p)
        PROVE  Goal
    BY <1>b, <2>2, PayloadsTyped DEF Steps, Sources
  <2>3. CASE Fetch(r)
    BY <2>1, <2>2, <2>3 DEF Fetch, extractNVIDIAPayloadResponse
  <2>4. CASE RunCommand(r)
    BY <2>1, <2>2, <2>4 DEF RunCommand
  <2>5. ASSUME NEW x \in ReportPayloads, Goto(r, "fallback", "assemble"),
               loc' = [loc EXCEPT ![r].nvidia = x], UNCHANGED answer
        PROVE  Goal
    <3>1. [loc[r] EXCEPT !.nvidia = x] \in Locals
      BY <1>0 DEF Locals
    <3>2. loc' \in [Req -> Locals]
      BY <1>0, <2>5, <3>1
    <3>. QED  BY <1>0, <1>c, <2>5, <3>2 DEF Steps
  <2>6. [list |-> EmptyPayload.list, nonce |-> EmptyPayload.nonce, of |-> "empty", count |-> 0,
         gpus |-> {}] \in ReportPayloads
    BY Bounds DEF EmptyPayload, Good, ReportPayloads, List, PayloadNonce, Sources, Evidences
  <2>. QED  BY <1>8, <2>1, <2>3, <2>4, <2>5, <2>6 DEF Fallback
<1>9. CASE Assemble(r)
  <2>1. Acceptable(req[r])
    BY <1>9 DEF Assemble, Goto, Progress, Validated, Steps
  <2>2. Report(r, loc[r].fp) \in Answers
    <3>1. Context(req[r].algo) \in Addresses /\ Version(req[r]) \in Nat
      BY <2>1, RequestTypes
    <3>2. boot \in 0..MaxBoots
      BY DEF TypeOK
    <3>. QED  BY <1>0, <3>1, <3>2 DEF Report, Answers, Locals
  <2>3. answer' \in [Req -> Answers]
    BY <1>0, <1>9, <2>2 DEF Assemble
  <2>4. loc' \in [Req -> Locals]
    BY <1>0, <1>9, EmptyTypes DEF Assemble
  <2>. QED  BY <1>9, <1>c, <2>3, <2>4 DEF Assemble, Steps
<1>. QED
    BY <1>1, <1>2, <1>3, <1>4, <1>5, <1>6, <1>7, <1>8, <1>9 DEF Generate

----------------------------------------------------------------------------
(* The inductive invariant *)

\* The initial state satisfies the inductive invariant.
LEMMA InitIInv == Init => IInv
<1> SUFFICES ASSUME Init PROVE IInv
    OBVIOUS
<1>1. TypeOK
  <2>1. 0 \in 0..MaxBoots
    BY Bounds
  <2>2. req \in [Req -> Shapes]
    BY ShapesExist DEF Init
  <2>3. loc \in [Req -> Locals] /\ answer \in [Req -> Answers]
    BY EmptyTypes DEF Init
  <2>. QED  BY <2>1, <2>2, <2>3 DEF Init, TypeOK, Certs
<1>2. Deployment
    BY DEF Init, Deployment
<1>3. ASSUME NEW r \in Req PROVE ReqInv(r)
  <2>1. pc[r] = "idle" /\ answer[r] = NoAnswer
    BY DEF Init
  <2>. QED  BY <2>1 DEF ReqInv, Progress, Reported, Refused, NoAnswer, Steps, Validated, Resolved, Quoted
<1>. QED  BY <1>1, <1>2, <1>3 DEF IInv

\* A request that does not move keeps its invariant while nothing around it does.
LEMMA StillInv ==
    ASSUME NEW q \in Req, ReqInv(q), UNCHANGED <<env, file>>, req'[q] = req[q],
           seen'[q] = seen[q], pc'[q] = pc[q], loc'[q] = loc[q], answer'[q] = answer[q]
    PROVE  ReqInv(q)'
<1>0. UNCHANGED <<mode, up, boot, snapshot, listener, file>>
    BY DEF env
<1>1. Acceptable(req[q])' <=> Acceptable(req[q])
    BY <1>0 DEF Acceptable, Version
<1>2. parseNonce(q)' = parseNonce(q)
    BY <1>0 DEF parseNonce
<1>3. RightCert(q, loc[q].fp, snapshot)' <=> RightCert(q, loc[q].fp, snapshot)
    BY <1>0 DEF RightCert, Version
<1>4. RightCert(q, answer[q].fp, listener[answer[q].boot])'
        <=> RightCert(q, answer[q].fp, listener[answer[q].boot])
    BY <1>0 DEF RightCert, Version
<1>5. buildReportData(Context(req[q].algo), loc[q].nonce, loc[q].fp)'
        = buildReportData(Context(req[q].algo), loc[q].nonce, loc[q].fp)
    BY <1>0 DEF buildReportData, Context
<1>6. buildReportData(answer[q].address, answer[q].nonce, answer[q].fp)'
        = buildReportData(answer[q].address, answer[q].nonce, answer[q].fp)
    BY DEF buildReportData
<1>7. /\ First(loc[q].next, loc[q].nonce)' = First(loc[q].next, loc[q].nonce)
      /\ Complete(loc[q].nvidia, loc[q].nonce)' <=> Complete(loc[q].nvidia, loc[q].nonce)
      /\ Complete(answer[q].nvidia, answer[q].nonce)' <=> Complete(answer[q].nvidia, answer[q].nonce)
    BY DEF First, Complete
<1>8. Version(req[q])' = Version(req[q])
    BY <1>0 DEF Version
<1>9. Progress(q)'
    BY <1>0, <1>1, <1>2, <1>3, <1>5, <1>7 DEF ReqInv, Progress
<1>10. Reported(q)'
    BY <1>0, <1>1, <1>2, <1>4, <1>6, <1>7, <1>8 DEF ReqInv, Reported
<1>11. Refused(q)'
    BY <1>0, <1>1, <1>8 DEF ReqInv, Refused
<1>. QED  BY <1>9, <1>10, <1>11 DEF ReqInv

\* A step of Generate moves one request only.
LEMMA GenerateLocal ==
    ASSUME TypeOK, NEW r \in Req, Generate(r), NEW q \in Req, q # r
    PROVE  pc'[q] = pc[q] /\ loc'[q] = loc[q] /\ answer'[q] = answer[q] /\ Elsewhere
<1> USE DEF TypeOK, Goto, Fail
<1>1. CASE Validate(r)
    BY <1>1 DEF Validate
<1>2. CASE Resolve(r)
    BY <1>2 DEF Resolve
<1>3. CASE GetQuote(r)
    BY <1>3 DEF GetQuote
<1>4. CASE Info(r)
    BY <1>4 DEF Info
<1>5. CASE Configured(r)
    BY <1>5 DEF Configured, Settle
<1>6. CASE Collect(r)
    BY <1>6 DEF Collect
<1>7. CASE CollectGPU(r)
  <2>1. CASE AppendEvidence(r)
    BY <1>7, <2>1 DEF CollectGPU, AppendEvidence
  <2>2. CASE Settle(r, "gpu", "native", NativePayload)
    BY <1>7, <2>2 DEF CollectGPU, Settle
  <2>3. CASE Goto(r, "gpu", "fallback")
             /\ loc' = [loc EXCEPT ![r].count = 0, ![r].next = 0, ![r].gpus = {}]
             /\ UNCHANGED answer
    BY <1>7, <2>3 DEF CollectGPU
  <2>. QED  BY <1>7, <2>1, <2>2, <2>3 DEF CollectGPU
<1>8. CASE Fallback(r)
  <2> DEFINE Goal == pc'[q] = pc[q] /\ loc'[q] = loc[q] /\ answer'[q] = answer[q]
  <2>0. Elsewhere
    BY <1>8 DEF Fallback
  <2>1. CASE Fail(r, "fallback", 500)
    BY <2>0, <2>1
  <2>2. ASSUME NEW p \in Payloads, NEW of, Settle(r, "fallback", of, p) PROVE Goal
    BY <2>2 DEF Settle
  <2>3. CASE Fetch(r)
    BY <2>0, <2>1, <2>2, <2>3 DEF Fetch, extractNVIDIAPayloadResponse
  <2>4. CASE RunCommand(r)
    BY <2>0, <2>1, <2>2, <2>4 DEF RunCommand
  <2>5. ASSUME NEW x, Goto(r, "fallback", "assemble"), loc' = [loc EXCEPT ![r].nvidia = x],
               UNCHANGED answer
        PROVE  Goal
    BY <2>5
  <2>. QED  BY <1>8, <2>0, <2>1, <2>3, <2>4, <2>5 DEF Fallback
<1>9. CASE Assemble(r)
    BY <1>9 DEF Assemble
<1>. QED
    BY <1>1, <1>2, <1>3, <1>4, <1>5, <1>6, <1>7, <1>8, <1>9 DEF Generate

\* An error answer keeps the invariant of its request, if a 400 is justified.
LEMMA FailInv ==
    ASSUME TypeOK, NEW r \in Req, ReqInv(r), Elsewhere,
           NEW from \in Steps, NEW status \in {400, 500}, Fail(r, from, status),
           status = 400 /\ Acceptable(req[r])
             => Version(req[r]) = 2 /\ mode # "owner" /\ "unusable" \in seen[r]
    PROVE  ReqInv(r)'
<1>1. pc'[r] = "done" /\ answer'[r].status = status
    BY DEF TypeOK, Fail, Goto, Answers
<1>2. Progress(r)'
    BY <1>1 DEF Progress, Steps, Validated, Resolved, Quoted
<1>3. Reported(r)'
    BY <1>1 DEF Reported
<1>4. Refused(r)'
    BY <1>1 DEF Refused, Elsewhere, env, Acceptable, Version
<1>. QED  BY <1>2, <1>3, <1>4 DEF ReqInv

\* A step inside Generate that writes no answer keeps the invariant of its
\* request, if what holds at its new place holds.
LEMMA AdvanceInv ==
    ASSUME TypeOK, NEW r \in Req, ReqInv(r), Elsewhere,
           NEW from \in Steps, NEW to \in Validated, Goto(r, from, to), UNCHANGED answer,
           Acceptable(req[r]), loc'[r].nonce = parseNonce(r),
           to \in Resolved => RightCert(r, loc'[r].fp, snapshot),
           to \in Quoted => loc'[r].quote \in {NoData, buildReportData(Context(req[r].algo), loc'[r].nonce, loc'[r].fp)},
           to = "gpu" => /\ loc'[r].count > 0 /\ loc'[r].next <= loc'[r].count
                         /\ loc'[r].gpus = First(loc'[r].next, loc'[r].nonce),
           to = "assemble" => Complete(loc'[r].nvidia, loc'[r].nonce)
    PROVE  ReqInv(r)'
<1>0. UNCHANGED <<mode, up, boot, snapshot, listener, file, req, seen>>
    BY DEF Elsewhere, env, files
<1>1. pc[r] = from /\ pc'[r] = to
    BY DEF TypeOK, Goto
<1>2. up /\ file \in seen[r] /\ answer[r] = NoAnswer
    BY <1>1 DEF ReqInv, Progress
<1>3. Acceptable(req[r])'
    BY <1>0 DEF Acceptable, Version
<1>4. parseNonce(r)' = parseNonce(r)
    BY <1>0 DEF parseNonce
<1>5. to \in Resolved => RightCert(r, loc[r].fp, snapshot)'
    BY <1>0 DEF RightCert, Version
<1>6. buildReportData(Context(req[r].algo), loc[r].nonce, loc[r].fp)'
        = buildReportData(Context(req[r].algo), loc'[r].nonce, loc'[r].fp)
    BY <1>0 DEF buildReportData, Context
<1>7. First(loc[r].next, loc[r].nonce)' = First(loc'[r].next, loc'[r].nonce)
    BY DEF First
<1>8. to = "assemble" => Complete(loc[r].nvidia, loc[r].nonce)'
    BY DEF Complete, First
<1>9. Progress(r)'
    BY <1>0, <1>1, <1>2, <1>3, <1>4, <1>5, <1>6, <1>7, <1>8
       DEF Progress, Validated, Steps
<1>10. answer'[r].status = 0
    BY <1>2 DEF NoAnswer
<1>. QED  BY <1>9, <1>10 DEF ReqInv, Reported, Refused

\* Once there is a quote, a step that leaves nonce, fingerprint and quote alone
\* keeps the invariant, if its evidence is right.
LEMMA KeepInv ==
    ASSUME TypeOK, NEW r \in Req, ReqInv(r), Elsewhere,
           NEW from \in Quoted, NEW to \in Quoted, Goto(r, from, to), UNCHANGED answer,
           loc'[r].nonce = loc[r].nonce, loc'[r].fp = loc[r].fp, loc'[r].quote = loc[r].quote,
           to = "gpu" => /\ loc'[r].count > 0 /\ loc'[r].next <= loc'[r].count
                         /\ loc'[r].gpus = First(loc'[r].next, loc'[r].nonce),
           to = "assemble" => Complete(loc'[r].nvidia, loc'[r].nonce)
    PROVE  ReqInv(r)'
<1>1. pc[r] = from
    BY DEF Goto
<1>2. from \in Steps /\ to \in Validated /\ from \in Validated /\ from \in Resolved
    BY DEF Quoted, Resolved, Validated
<1>3. /\ Acceptable(req[r]) /\ loc'[r].nonce = parseNonce(r)
      /\ RightCert(r, loc'[r].fp, snapshot)
      /\ loc'[r].quote \in {NoData, buildReportData(Context(req[r].algo), loc'[r].nonce, loc'[r].fp)}
    BY <1>1, <1>2 DEF ReqInv, Progress
<1>. QED  BY <1>2, <1>3, AdvanceInv

\* A payload that does not come from NVML, or that is complete, settles well.
LEMMA SettleInv ==
    ASSUME TypeOK, NEW r \in Req, ReqInv(r), Elsewhere,
           NEW from \in Quoted, NEW of, NEW p, Settle(r, from, of, p),
           of = "native" =>
             /\ loc[r].count > 0 /\ loc[r].gpus = First(loc[r].count, loc[r].nonce)
             /\ Normalize(p, config.required).nonce = "request"
    PROVE  ReqInv(r)'
<1> DEFINE n == Normalize(p, config.required)
           new == [list |-> n.list, nonce |-> n.nonce, of |-> of, count |-> loc[r].count,
                   gpus |-> loc[r].gpus]
<1>0. from \in Steps
    BY DEF Quoted, Resolved, Validated
<1>1. CASE Fail(r, from, 500)
    BY <1>0, <1>1, FailInv
<1>2. CASE ~Fail(r, from, 500)
  <2>1. Goto(r, from, "assemble") /\ loc' = [loc EXCEPT ![r].nvidia = new] /\ UNCHANGED answer
    BY <1>2 DEF Settle
  <2>2. loc[r] \in Locals /\ loc \in [Req -> Locals]
    BY DEF TypeOK
  <2>3. loc'[r] = [loc[r] EXCEPT !.nvidia = new]
    BY <2>1, <2>2
  <2>4. /\ loc'[r].nonce = loc[r].nonce /\ loc'[r].fp = loc[r].fp
        /\ loc'[r].quote = loc[r].quote /\ loc'[r].nvidia = new
    BY <2>2, <2>3 DEF Locals
  <2>5. Complete(new, loc[r].nonce)
    BY DEF Complete
  <2>6. Complete(loc'[r].nvidia, loc'[r].nonce)
    BY <2>4, <2>5
  <2>7. "assemble" \in Quoted
    BY DEF Quoted, Resolved, Validated, Steps
  <2>. QED  BY <2>1, <2>4, <2>6, <2>7, KeepInv
<1>. QED  BY <1>1, <1>2

\* Appending the evidence of the next GPU extends the list by that GPU.
LEMMA FirstExtends ==
    ASSUME NEW n \in Nat, NEW nonce
    PROVE  First(n + 1, nonce) = First(n, nonce) \cup {[gpu |-> n, nonce |-> nonce]}
<1>1. 0..((n + 1) - 1) = 0..(n - 1) \cup {n}
    OBVIOUS
<1>. QED  BY <1>1 DEF First

\* Assembling the report keeps the invariant: what the report says is what the
\* locals held.
LEMMA AssembleInv ==
    ASSUME IInv, NEW r \in Req, Assemble(r)
    PROVE  ReqInv(r)'
<1>a. UNCHANGED <<mode, up, boot, snapshot, listener, file, req, seen>>
    BY DEF Assemble, Elsewhere, env, files
<1>b. pc[r] = "assemble" /\ pc'[r] = "done" /\ answer'[r] = Report(r, loc[r].fp)
  <2>1. pc \in [Req -> {"idle", "done", "lost"} \cup Steps] /\ answer \in [Req -> Answers]
    BY DEF IInv, TypeOK
  <2>. QED  BY <2>1 DEF Assemble, Goto
<1>0. /\ UNCHANGED <<mode, up, boot, snapshot, listener, file, req, seen>>
      /\ pc[r] = "assemble" /\ pc'[r] = "done" /\ answer'[r] = Report(r, loc[r].fp)
    BY <1>a, <1>b
<1>1. /\ Acceptable(req[r]) /\ loc[r].nonce = parseNonce(r)
      /\ RightCert(r, loc[r].fp, snapshot)
      /\ loc[r].quote \in {NoData, buildReportData(Context(req[r].algo), loc[r].nonce, loc[r].fp)}
      /\ Complete(loc[r].nvidia, loc[r].nonce) /\ up
    BY <1>0 DEF IInv, ReqInv, Progress, Quoted, Resolved, Validated, Steps
<1>2. /\ answer'[r].status = 200 /\ answer'[r].boot = boot
      /\ answer'[r].version = Version(req[r]) /\ answer'[r].address = Context(req[r].algo)
      /\ answer'[r].nonce = loc[r].nonce /\ answer'[r].fp = loc[r].fp
      /\ answer'[r].quote = loc[r].quote /\ answer'[r].nvidia = loc[r].nvidia
    BY <1>0 DEF Report
<1>3. Reported(r)'
  <2>1. Acceptable(req[r])' /\ parseNonce(r)' = parseNonce(r) /\ Version(req[r])' = Version(req[r])
    BY <1>0, <1>1 DEF Acceptable, Version, parseNonce
  <2>2. boot \in 1..boot /\ Context(req[r].algo).boot = boot
    <3>1. boot \in Nat /\ boot > 0
      BY <1>1, Bounds DEF IInv, TypeOK, Deployment
    <3>. QED  BY <3>1 DEF Context
  <2>3. RightCert(r, answer[r].fp, listener[answer[r].boot])'
    BY <1>0, <1>1, <1>2 DEF RightCert, Version, IInv, Deployment
  <2>4. buildReportData(answer[r].address, answer[r].nonce, answer[r].fp)'
          = buildReportData(Context(req[r].algo), loc[r].nonce, loc[r].fp)
    BY <1>2 DEF buildReportData
  <2>5. Complete(answer[r].nvidia, answer[r].nonce)'
    BY <1>1, <1>2 DEF Complete, First
  <2>. QED  BY <1>0, <1>1, <1>2, <2>1, <2>2, <2>3, <2>4, <2>5 DEF Reported
<1>4. Progress(r)'
    BY <1>0 DEF Progress, Steps, Validated, Resolved, Quoted
<1>5. Refused(r)'
    BY <1>2 DEF Refused
<1>. QED  BY <1>3, <1>4, <1>5 DEF ReqInv

\* Every step of Generate keeps the invariant of its request.
LEMMA GenerateInv ==
    ASSUME IInv, NEW r \in Req, Generate(r)
    PROVE  ReqInv(r)'
<1>0. /\ TypeOK /\ ReqInv(r) /\ loc \in [Req -> Locals] /\ loc[r] \in Locals
      /\ pc \in [Req -> {"idle", "done", "lost"} \cup Steps]
    BY DEF IInv, TypeOK
<1>a. ASSUME NEW from \in Steps, Fail(r, from, 500), Elsewhere PROVE ReqInv(r)'
    BY <1>0, <1>a, FailInv
<1>b. {"info", "payload", "collect", "gpu", "fallback", "assemble"} = Quoted
    BY DEF Quoted, Resolved, Validated, Steps
<1>c. Quoted \subseteq Steps
    BY DEF Quoted, Resolved, Validated
<1>1. CASE Validate(r)
  <2>1. CASE ~Acceptable(req[r])
    <3>1. Fail(r, "validate", 400) /\ Elsewhere
      BY <1>1, <2>1 DEF Validate
    <3>. QED  BY <1>0, <2>1, <3>1, FailInv DEF Steps
  <2>2. CASE Acceptable(req[r])
    <3>1. /\ Goto(r, "validate", "resolve") /\ loc' = [loc EXCEPT ![r].nonce = parseNonce(r)]
          /\ UNCHANGED answer /\ Elsewhere
      BY <1>1, <2>2 DEF Validate
    <3>2. loc'[r].nonce = parseNonce(r)
      BY <1>0, <3>1 DEF Locals
    <3>3. /\ "validate" \in Steps /\ "resolve" \in Validated
          /\ "resolve" \notin Resolved /\ "resolve" \notin Quoted
      BY DEF Steps, Validated, Resolved, Quoted
    <3>. QED  BY <1>0, <2>2, <3>1, <3>2, <3>3, AdvanceInv
  <2>. QED  BY <2>1, <2>2
<1>2. CASE Resolve(r)
  <2> DEFINE found == IF snapshot # NoCert THEN snapshot ELSE ResolveSPKIFingerprint
  <2>0. pc[r] = "resolve" /\ Elsewhere
    BY <1>2 DEF Resolve, Fail, Goto
  <2>1. /\ Acceptable(req[r]) /\ loc[r].nonce = parseNonce(r)
        /\ file \in seen[r] /\ up
    BY <1>0, <2>0 DEF ReqInv, Progress, Validated, Steps
  <2>2. /\ file \in Cert \cup {"unusable"} /\ snapshot \in Certs
        /\ mode = "owner" => snapshot # NoCert
        /\ mode # "owner" => snapshot = NoCert
    BY <2>1 DEF IInv, TypeOK, Deployment
  <2>3. CASE Version(req[r]) = 2 /\ found = NoCert
    <3>1. Fail(r, "resolve", 400)
      BY <1>2, <2>3 DEF Resolve
    <3>2. snapshot = NoCert /\ ResolveSPKIFingerprint = NoCert /\ mode # "owner"
      BY <2>2, <2>3
    <3>3. CASE "unusable" \in seen[r]
      BY <1>0, <2>0, <2>3, <3>1, <3>2, <3>3, FailInv DEF Steps
    <3>4. CASE "unusable" \notin seen[r]
      <4>1. file \in Cert
        BY <2>1, <2>2, <3>4
      <4>2. mode = "plain"
        BY <3>2, <4>1, CertsAreKeys DEF ResolveSPKIFingerprint
      <4>3. file = "unusable"
        BY <4>2 DEF IInv, Deployment
      <4>. QED  BY <4>1, <4>3, CertsAreKeys
    <3>. QED  BY <3>3, <3>4
  <2>4. CASE ~(Version(req[r]) = 2 /\ found = NoCert)
    <3> DEFINE c == IF Version(req[r]) = 2 THEN found ELSE NoCert
    <3>1. Goto(r, "resolve", "quote") /\ loc' = [loc EXCEPT ![r].fp = c] /\ UNCHANGED answer
      BY <1>2, <2>4 DEF Resolve
    <3>2. loc'[r].fp = c /\ loc'[r].nonce = loc[r].nonce
      BY <1>0, <3>1 DEF Locals
    <3>3. RightCert(r, c, snapshot)
      BY <2>1, <2>2, <2>4 DEF RightCert, ResolveSPKIFingerprint, Certs
    <3>4. "resolve" \in Steps /\ "quote" \in Validated /\ "quote" \notin Quoted
      BY DEF Steps, Validated, Resolved, Quoted
    <3>. QED  BY <1>0, <2>0, <2>1, <3>1, <3>2, <3>3, <3>4, AdvanceInv
  <2>. QED  BY <2>3, <2>4
<1>3. CASE GetQuote(r)
  <2>0. pc[r] = "quote" /\ Elsewhere
    BY <1>3 DEF GetQuote, Fail, Goto
  <2>1. CASE Fail(r, "quote", 500)
    BY <1>a, <2>0, <2>1 DEF Steps
  <2>2. CASE ~Fail(r, "quote", 500)
    <3>1. PICK d \in {NoData, buildReportData(Context(req[r].algo), loc[r].nonce, loc[r].fp)} :
            Goto(r, "quote", "info") /\ loc' = [loc EXCEPT ![r].quote = d] /\ UNCHANGED answer
      BY <1>3, <2>2 DEF GetQuote
    <3>2. loc'[r].quote = d /\ loc'[r].nonce = loc[r].nonce /\ loc'[r].fp = loc[r].fp
      <4>1. loc'[r] = [loc[r] EXCEPT !.quote = d]
        BY <1>0, <3>1
      <4>. QED  BY <1>0, <4>1 DEF Locals
    <3>3. /\ Acceptable(req[r]) /\ loc[r].nonce = parseNonce(r)
          /\ RightCert(r, loc[r].fp, snapshot)
      BY <1>0, <2>0 DEF ReqInv, Progress, Validated, Resolved, Steps
    <3>4. loc'[r].quote \in {NoData, buildReportData(Context(req[r].algo), loc'[r].nonce, loc'[r].fp)}
      BY <3>1, <3>2
    <3>5. "quote" \in Steps /\ "info" \in Validated
      BY DEF Steps, Validated
    <3>6. /\ loc'[r].nonce = parseNonce(r) /\ RightCert(r, loc'[r].fp, snapshot)
      BY <3>2, <3>3
    <3>. QED  BY <1>0, <2>0, <3>1, <3>3, <3>4, <3>5, <3>6, AdvanceInv
  <2>. QED  BY <2>1, <2>2
<1>4. CASE Info(r)
  <2>0. Elsewhere
    BY <1>4 DEF Info
  <2>1. CASE Fail(r, "info", 500)
    BY <1>a, <1>b, <1>c, <2>0, <2>1
  <2>2. CASE Goto(r, "info", "payload") /\ UNCHANGED <<loc, answer>>
    BY <1>0, <1>b, <2>0, <2>2, KeepInv
  <2>. QED  BY <1>4, <2>1, <2>2 DEF Info
<1>5. CASE Configured(r)
  <2>0. Elsewhere
    BY <1>5 DEF Configured
  <2>1. CASE Fail(r, "payload", 500)
    BY <1>a, <1>b, <1>c, <2>0, <2>1
  <2>2. CASE Goto(r, "payload", "collect") /\ UNCHANGED <<loc, answer>>
    BY <1>0, <1>b, <2>0, <2>2, KeepInv
  <2>3. ASSUME NEW p, Settle(r, "payload", "configured", ReplaceNonce(p)) PROVE ReqInv(r)'
    BY <1>0, <1>b, <2>0, <2>3, SettleInv
  <2>. QED  BY <1>5, <2>1, <2>2, <2>3 DEF Configured
<1>6. CASE Collect(r)
  <2>0. Elsewhere /\ UNCHANGED answer
    BY <1>6 DEF Collect
  <2>1. CASE Goto(r, "collect", "fallback") /\ UNCHANGED loc
    BY <1>0, <1>b, <2>0, <2>1, KeepInv
  <2>2. ASSUME NEW n \in 1..MaxGPU, Goto(r, "collect", "gpu"),
               loc' = [loc EXCEPT ![r].count = n, ![r].next = 0, ![r].gpus = {}]
        PROVE  ReqInv(r)'
    <3>1. loc'[r] = [loc[r] EXCEPT !.count = n, !.next = 0, !.gpus = {}]
      BY <1>0, <2>2
    <3>2. /\ loc'[r].nonce = loc[r].nonce /\ loc'[r].fp = loc[r].fp
          /\ loc'[r].quote = loc[r].quote /\ loc'[r].count = n
          /\ loc'[r].next = 0 /\ loc'[r].gpus = {}
      BY <1>0, <3>1 DEF Locals
    <3>3. First(0, loc'[r].nonce) = {}
      BY DEF First
    <3>4. n > 0 /\ 0 <= n
      BY Bounds
    <3>. QED  BY <1>0, <1>b, <2>0, <2>2, <3>2, <3>3, <3>4, KeepInv
  <2>. QED  BY <1>6, <2>1, <2>2 DEF Collect
<1>7. CASE CollectGPU(r)
  <2>0. Elsewhere
    BY <1>7 DEF CollectGPU
  <2>1. CASE AppendEvidence(r)
    <3> DEFINE l == [loc[r] EXCEPT !.next = loc[r].next + 1,
                                   !.gpus = loc[r].gpus \cup {Evidence(r, loc[r].next)}]
    <3>0. /\ pc[r] = "gpu" /\ Goto(r, "gpu", "gpu") /\ UNCHANGED answer
          /\ loc[r].next < loc[r].count /\ loc'[r] = l
      BY <1>0, <2>1 DEF AppendEvidence, Goto
    <3>1. loc[r].next \in Nat /\ loc[r].count \in Nat
      BY <1>0, Bounds DEF Locals
    <3>2. /\ loc'[r].nonce = loc[r].nonce /\ loc'[r].fp = loc[r].fp
          /\ loc'[r].quote = loc[r].quote /\ loc'[r].count = loc[r].count
          /\ loc'[r].next = loc[r].next + 1
          /\ loc'[r].gpus = loc[r].gpus \cup {Evidence(r, loc[r].next)}
      BY <1>0, <3>0 DEF Locals
    <3>3. loc[r].gpus = First(loc[r].next, loc[r].nonce) /\ loc[r].count > 0
      BY <1>0, <3>0 DEF ReqInv, Progress
    <3>4. loc'[r].gpus = First(loc'[r].next, loc'[r].nonce)
      BY <3>1, <3>2, <3>3, FirstExtends DEF Evidence
    <3>5. loc'[r].count > 0 /\ loc'[r].next <= loc'[r].count
      BY <3>0, <3>1, <3>2, <3>3
    <3>. QED  BY <1>0, <1>b, <2>0, <3>0, <3>2, <3>4, <3>5, KeepInv
  <2>2. CASE /\ Goto(r, "gpu", "fallback")
             /\ loc' = [loc EXCEPT ![r].count = 0, ![r].next = 0, ![r].gpus = {}]
             /\ UNCHANGED answer
    <3>1. loc'[r] = [loc[r] EXCEPT !.count = 0, !.next = 0, !.gpus = {}]
      BY <1>0, <2>2
    <3>2. /\ loc'[r].nonce = loc[r].nonce /\ loc'[r].fp = loc[r].fp
          /\ loc'[r].quote = loc[r].quote
      BY <1>0, <3>1 DEF Locals
    <3>. QED  BY <1>0, <1>b, <2>0, <2>2, <3>2, KeepInv
  <2>3. CASE loc[r].next = loc[r].count /\ Settle(r, "gpu", "native", NativePayload)
    <3>1. pc[r] = "gpu"
      BY <2>3 DEF Settle, Fail, Goto
    <3>2. loc[r].count > 0 /\ loc[r].gpus = First(loc[r].count, loc[r].nonce)
      BY <1>0, <2>3, <3>1 DEF ReqInv, Progress
    <3>3. Normalize(NativePayload, config.required).nonce = "request"
      BY DEF Normalize, normalizeNVIDIAPayload, NativePayload, Good, Bad,
             requireNonEmptyNVIDIAEvidence
    <3>. QED  BY <1>0, <1>b, <2>0, <2>3, <3>2, <3>3, SettleInv
  <2>. QED  BY <1>7, <2>1, <2>2, <2>3 DEF CollectGPU
<1>8. CASE Fallback(r)
  <2>0. Elsewhere
    BY <1>8 DEF Fallback
  <2>1. CASE Fail(r, "fallback", 500)
    BY <1>a, <1>b, <1>c, <2>0, <2>1
  <2>2. ASSUME NEW p, NEW of \in {"url", "command"}, Settle(r, "fallback", of, p)
        PROVE  ReqInv(r)'
    BY <1>0, <1>b, <2>0, <2>2, SettleInv
  <2>3. CASE Fetch(r)
    BY <2>1, <2>2, <2>3 DEF Fetch, extractNVIDIAPayloadResponse
  <2>4. CASE RunCommand(r)
    BY <2>1, <2>2, <2>4 DEF RunCommand
  <2>5. ASSUME NEW x, x.of = "empty", Goto(r, "fallback", "assemble"),
               loc' = [loc EXCEPT ![r].nvidia = x], UNCHANGED answer
        PROVE  ReqInv(r)'
    <3>1. /\ loc'[r].nonce = loc[r].nonce /\ loc'[r].fp = loc[r].fp
          /\ loc'[r].quote = loc[r].quote /\ loc'[r].nvidia = x
      BY <1>0, <2>5 DEF Locals
    <3>2. Complete(loc'[r].nvidia, loc'[r].nonce)
      BY <2>5, <3>1 DEF Complete
    <3>. QED  BY <1>0, <1>b, <2>0, <2>5, <3>1, <3>2, KeepInv
  <2>. QED  BY <1>8, <2>1, <2>3, <2>4, <2>5 DEF Fallback
<1>9. CASE Assemble(r)
    BY <1>9, AssembleInv
<1>. QED
    BY <1>1, <1>2, <1>3, <1>4, <1>5, <1>6, <1>7, <1>8, <1>9 DEF Generate

\* What a request has written off, or not begun, survives a change of process.
LEMMA RestInv ==
    ASSUME TypeOK, NEW q \in Req, ReqInv(q), pc'[q] \notin Steps,
           pc'[q] = "done" => pc[q] = "done", pc[q] = "done" => pc'[q] = "done",
           answer'[q] = answer[q], UNCHANGED <<mode, req, seen>>,
           boot' \in Nat, boot <= boot',
           \A b \in 1..boot : listener'[b] = listener[b]
    PROVE  ReqInv(q)'
<1>0. boot \in Nat
    BY Bounds DEF TypeOK
<1>1. Progress(q)'
  <2>1. pc'[q] \in {"idle", "lost"} => answer'[q] = NoAnswer
    BY DEF ReqInv, Progress, TypeOK
  <2>2. "gpu" \in Steps /\ "assemble" \in Steps
    BY DEF Steps
  <2>. QED  BY <2>1, <2>2 DEF Progress, Validated, Resolved, Quoted
<1>2. Reported(q)'
  <2>1. CASE answer[q].status # 200
    BY <2>1 DEF Reported
  <2>2. CASE answer[q].status = 200
    <3>1. /\ Acceptable(req[q]) /\ answer[q].version = Version(req[q])
          /\ answer[q].boot \in 1..boot /\ answer[q].address.boot = answer[q].boot
          /\ answer[q].nonce = parseNonce(q)
          /\ RightCert(q, answer[q].fp, listener[answer[q].boot])
          /\ answer[q].quote \in {NoData, buildReportData(answer[q].address, answer[q].nonce, answer[q].fp)}
          /\ Complete(answer[q].nvidia, answer[q].nonce)
      BY <2>2 DEF ReqInv, Reported
    <3>2. Acceptable(req[q])' /\ parseNonce(q)' = parseNonce(q) /\ Version(req[q])' = Version(req[q])
      BY <3>1 DEF Acceptable, Version, parseNonce
    <3>3. answer'[q].boot \in 1..boot'
      BY <1>0, <3>1
    <3>4. RightCert(q, answer[q].fp, listener[answer[q].boot])'
      BY <3>1 DEF RightCert, Version
    <3>5. buildReportData(answer[q].address, answer[q].nonce, answer[q].fp)'
            = buildReportData(answer[q].address, answer[q].nonce, answer[q].fp)
      BY DEF buildReportData
    <3>6. Complete(answer[q].nvidia, answer[q].nonce)'
      BY <3>1 DEF Complete, First
    <3>. QED  BY <3>1, <3>2, <3>3, <3>4, <3>5, <3>6 DEF Reported
  <2>. QED  BY <2>1, <2>2
<1>3. Refused(q)'
    BY DEF ReqInv, Refused, Acceptable, Version
<1>. QED  BY <1>1, <1>2, <1>3 DEF ReqInv

\* A new certificate file only adds to what the running requests have seen.
LEMMA ReplaceInv ==
    ASSUME TypeOK, NEW q \in Req, ReqInv(q), NEW x \in Cert \cup {"unusable"},
           ReplaceCertificate(x)
    PROVE  ReqInv(q)'
<1>0. /\ UNCHANGED <<mode, up, boot, snapshot, listener, pc, req, loc, answer>>
      /\ file' = x /\ seen[q] \subseteq seen'[q]
      /\ pc[q] \in Steps => x \in seen'[q]
    BY DEF ReplaceCertificate, env, TypeOK
<1>1. RightCert(q, loc[q].fp, snapshot) => RightCert(q, loc[q].fp, snapshot)'
    BY <1>0 DEF RightCert, Version
<1>2. RightCert(q, answer[q].fp, listener[answer[q].boot])
        => RightCert(q, answer[q].fp, listener[answer[q].boot])'
    BY <1>0 DEF RightCert, Version
<1>3. /\ Acceptable(req[q])' <=> Acceptable(req[q])
      /\ parseNonce(q)' = parseNonce(q)
      /\ Version(req[q])' = Version(req[q])
    BY <1>0 DEF Acceptable, Version, parseNonce
<1>4. /\ buildReportData(Context(req[q].algo), loc[q].nonce, loc[q].fp)'
           = buildReportData(Context(req[q].algo), loc[q].nonce, loc[q].fp)
      /\ buildReportData(answer[q].address, answer[q].nonce, answer[q].fp)'
           = buildReportData(answer[q].address, answer[q].nonce, answer[q].fp)
    BY <1>0 DEF buildReportData, Context
<1>5. /\ First(loc[q].next, loc[q].nonce)' = First(loc[q].next, loc[q].nonce)
      /\ Complete(loc[q].nvidia, loc[q].nonce)' <=> Complete(loc[q].nvidia, loc[q].nonce)
      /\ Complete(answer[q].nvidia, answer[q].nonce)' <=> Complete(answer[q].nvidia, answer[q].nonce)
    BY <1>0 DEF First, Complete
<1>6. Progress(q)'
    BY <1>0, <1>1, <1>3, <1>4, <1>5 DEF ReqInv, Progress
<1>7. Reported(q)'
    BY <1>0, <1>2, <1>3, <1>4, <1>5 DEF ReqInv, Reported
<1>8. Refused(q)'
    BY <1>0, <1>3 DEF ReqInv, Refused
<1>. QED  BY <1>6, <1>7, <1>8 DEF ReqInv

\* A request that arrives has only seen the certificate file as it is.
LEMMA ArriveInv ==
    ASSUME IInv, NEW r \in Req, NEW s \in Shapes, Arrive(r, s)
    PROVE  ReqInv(r)'
<1>1. /\ pc[r] = "idle" /\ pc'[r] = "validate" /\ up' /\ file' = file /\ seen'[r] = {file}
      /\ answer' = answer
    BY DEF IInv, TypeOK, Arrive, Goto, env, files
<1>2. answer[r] = NoAnswer
    BY <1>1 DEF IInv, ReqInv, Progress
<1>3. Progress(r)'
    BY <1>1, <1>2 DEF Progress, Validated, Resolved, Quoted, Steps
<1>4. answer'[r].status = 0
    BY <1>1, <1>2 DEF NoAnswer
<1>. QED  BY <1>3, <1>4 DEF ReqInv, Reported, Refused

\* Every step keeps the inductive invariant.
LEMMA NextIInv == IInv /\ [Next]_vars => IInv'
<1> SUFFICES ASSUME IInv, [Next]_vars PROVE IInv'
    OBVIOUS
<1>0. TypeOK /\ Deployment /\ \A q \in Req : ReqInv(q)
    BY DEF IInv
<1>1. CASE Boot
  <2>0. /\ ~up /\ boot < MaxBoots /\ up' = TRUE /\ boot' = boot + 1
        /\ UNCHANGED <<mode, config, files, pc, req, loc, answer, seen>>
        /\ boot \in 0..MaxBoots /\ boot + 1 \in 1..MaxBoots
    BY <1>0, <1>1, Bounds DEF Boot, TypeOK
  <2>1. /\ snapshot' \in Certs /\ listener' \in [1..MaxBoots -> Certs]
        /\ mode # "owner" => snapshot' = NoCert
        /\ mode = "owner" => snapshot' = listener'[boot + 1] /\ snapshot' # NoCert
        /\ \A b \in 1..boot : listener'[b] = listener[b]
    <3>0. /\ boot + 1 \in 1..MaxBoots /\ listener \in [1..MaxBoots -> Certs]
          /\ NoCert \in Certs /\ Cert \subseteq Certs /\ \A b \in 1..boot : b # boot + 1
      BY <1>0, <2>0 DEF TypeOK, Certs
    <3>1. CASE mode = "owner"
      <4>1. /\ file \in Cert /\ snapshot' = file
            /\ listener' = [listener EXCEPT ![boot + 1] = file]
        BY <1>1, <3>1 DEF Boot
      <4>2. file # NoCert
        BY <4>1, CertsAreKeys
      <4>. QED  BY <2>0, <3>0, <3>1, <4>1, <4>2
    <3>2. CASE mode # "owner"
      <4>1. snapshot' = NoCert /\ listener' = listener
        BY <1>1, <3>2 DEF Boot
      <4>. QED  BY <3>0, <3>2, <4>1
    <3>. QED  BY <3>1, <3>2
  <2>2. TypeOK'
    BY <1>0, <2>0, <2>1 DEF TypeOK, files
  <2>3. Deployment'
    BY <1>0, <2>0, <2>1 DEF Deployment, files
  <2>4. ASSUME NEW q \in Req PROVE ReqInv(q)'
    <3>1. pc[q] \notin Steps
      BY <1>0, <2>0 DEF ReqInv, Progress
    <3>2. boot' \in Nat /\ boot <= boot'
      BY <2>0
    <3>. QED  BY <1>0, <2>0, <2>1, <3>1, <3>2, RestInv
  <2>. QED  BY <2>2, <2>3, <2>4 DEF IInv
<1>2. CASE Stop
  <2>0. /\ up' = FALSE /\ loc' = [r \in Req |-> NoLocals]
        /\ pc' = [r \in Req |-> IF pc[r] \in Steps THEN "lost" ELSE pc[r]]
        /\ UNCHANGED <<mode, config, boot, snapshot, listener, files, req, answer, seen>>
    BY <1>2 DEF Stop
  <2>1. TypeOK'
    BY <1>0, <2>0, EmptyTypes DEF TypeOK, files
  <2>2. Deployment'
    BY <1>0, <2>0 DEF Deployment, files
  <2>3. ASSUME NEW q \in Req PROVE ReqInv(q)'
    <3>1. pc'[q] = IF pc[q] \in Steps THEN "lost" ELSE pc[q]
      BY <2>0
    <3>2. /\ pc'[q] \notin Steps /\ (pc'[q] = "done" => pc[q] = "done")
          /\ (pc[q] = "done" => pc'[q] = "done")
      BY <3>1 DEF Steps
    <3>3. boot' \in Nat /\ boot <= boot' /\ \A b \in 1..boot : listener'[b] = listener[b]
      BY <1>0, <2>0, Bounds DEF TypeOK
    <3>. QED  BY <1>0, <2>0, <3>2, <3>3, RestInv
  <2>. QED  BY <2>1, <2>2, <2>3 DEF IInv
<1>3. ASSUME NEW x \in Cert \cup {"unusable"}, ReplaceCertificate(x) PROVE IInv'
  <2>1. TypeOK'
    BY <1>0, <1>3 DEF TypeOK, ReplaceCertificate, env
  <2>2. Deployment'
    BY <1>0, <1>3 DEF Deployment, ReplaceCertificate, env
  <2>. QED  BY <1>0, <1>3, <2>1, <2>2, ReplaceInv DEF IInv
<1>4. ASSUME NEW c \in Cert, ReplaceKey(c) PROVE IInv'
  <2>0. UNCHANGED <<mode, config, up, boot, snapshot, listener, file, pc, req, loc, answer, seen>>
    BY <1>4 DEF ReplaceKey, env
  <2>1. TypeOK'
    BY <1>0, <1>4, <2>0 DEF TypeOK, ReplaceKey, Certs
  <2>2. Deployment'
    BY <1>0, <2>0 DEF Deployment
  <2>3. ASSUME NEW q \in Req PROVE ReqInv(q)'
    BY <1>0, <1>4, <2>0, StillInv DEF ReplaceKey
  <2>. QED  BY <2>1, <2>2, <2>3 DEF IInv
<1>5. ASSUME NEW r \in Req, NEW s \in Shapes, Arrive(r, s) PROVE IInv'
  <2>0. /\ UNCHANGED <<env, files, loc, answer>>
        /\ pc' = [pc EXCEPT ![r] = "validate"] /\ req' = [req EXCEPT ![r] = s]
        /\ seen' = [seen EXCEPT ![r] = {file}]
    BY <1>5 DEF Arrive, Goto
  <2>1. TypeOK'
    BY <1>0, <2>0 DEF TypeOK, env, files, Steps
  <2>2. Deployment'
    BY <1>0, <2>0 DEF Deployment, env, files
  <2>3. ASSUME NEW q \in Req, q # r PROVE ReqInv(q)'
    <3>1. pc'[q] = pc[q] /\ req'[q] = req[q] /\ seen'[q] = seen[q] /\ ReqInv(q)
      BY <1>0, <2>0, <2>3 DEF TypeOK
    <3>2. UNCHANGED <<env, file, loc, answer>>
      BY <2>0 DEF files
    <3>. QED  BY <3>1, <3>2, StillInv
  <2>4. ReqInv(r)'
    BY <1>5, ArriveInv
  <2>. QED  BY <2>1, <2>2, <2>3, <2>4 DEF IInv
<1>6. ASSUME NEW r \in Req, Generate(r) PROVE IInv'
  <2>0. Elsewhere
    BY <1>6 DEF Generate, Validate, Resolve, GetQuote, Info, Configured, Collect, CollectGPU,
       Fallback, Assemble
  <2>1. TypeOK'
    <3>1. Progress(r)
      BY <1>0 DEF ReqInv
    <3>2. /\ pc' \in [Req -> {"idle", "done", "lost"} \cup Steps]
          /\ loc' \in [Req -> Locals] /\ answer' \in [Req -> Answers]
      BY <1>0, <1>6, <3>1, GenerateTypes
    <3>. QED  BY <1>0, <2>0, <3>2 DEF TypeOK, Elsewhere, env, files
  <2>2. Deployment'
    BY <1>0, <2>0 DEF Deployment, Elsewhere, env, files
  <2>3. ASSUME NEW q \in Req, q # r PROVE ReqInv(q)'
    <3>1. pc'[q] = pc[q] /\ loc'[q] = loc[q] /\ answer'[q] = answer[q]
      BY <1>0, <1>6, <2>3, GenerateLocal
    <3>2. UNCHANGED <<env, file, req, seen>>
      BY <2>0 DEF Elsewhere, files
    <3>. QED  BY <1>0, <3>1, <3>2, StillInv
  <2>4. ReqInv(r)'
    BY <1>6, GenerateInv
  <2>. QED  BY <2>1, <2>2, <2>3, <2>4 DEF IInv
<1>7. CASE UNCHANGED vars
  <2>1. UNCHANGED <<mode, config, up, boot, snapshot, listener, file, key, pc, req, loc, answer, seen>>
    BY <1>7 DEF vars, env, files
  <2>2. TypeOK' /\ Deployment'
    BY <1>0, <2>1 DEF TypeOK, Deployment
  <2>3. ASSUME NEW q \in Req PROVE ReqInv(q)'
    <3>1. UNCHANGED <<env, file, req, seen>>
      BY <2>1 DEF env
    <3>. QED  BY <1>0, <2>1, <3>1, StillInv
  <2>. QED  BY <2>2, <2>3 DEF IInv
<1>. QED
    BY <1>1, <1>2, <1>3, <1>4, <1>5, <1>6, <1>7 DEF Next, Over

----------------------------------------------------------------------------
(* Theorems *)

\* The inductive invariant holds in every reachable state.
THEOREM Invariance == Spec => []IInv
  BY InitIInv, NextIInv, PTL DEF Spec

\* Generate, the starts of the process and the file changes keep the state well
\* typed, and a process that owns TLS serves a certificate.
THEOREM TypeCorrect == Spec => []TypeOK
<1>1. IInv => TypeOK
  BY DEF IInv
<1>. QED  BY <1>1, Invariance, PTL

\* Every quote that Generate returns is over the address, nonce and fingerprint
\* of its report, whatever happened between the steps.
THEOREM BindingCorrect == Spec => []QuoteBindsReport
<1>1. IInv => QuoteBindsReport
  <2> SUFFICES ASSUME IInv, NEW r \in Req, answer[r].status = 200
               PROVE  LET a == answer[r]
                      IN /\ a.quote # NoData =>
                              /\ a.quote.first = <<IF a.version = 2 THEN "digest" ELSE "padded",
                                                   a.address, a.fp>>
                              /\ a.quote.second = a.nonce
                         /\ a.version = 2 <=> a.fp # NoCert
    BY DEF QuoteBindsReport, Reports
  <2>1. /\ answer[r].version = Version(req[r])
        /\ RightCert(r, answer[r].fp, listener[answer[r].boot])
        /\ answer[r].quote \in {NoData, buildReportData(answer[r].address, answer[r].nonce, answer[r].fp)}
    BY DEF IInv, ReqInv, Reported
  <2>2. answer[r].version = 2 <=> answer[r].fp # NoCert
    BY <2>1, CertsAreKeys DEF RightCert
  <2>. QED  BY <2>1, <2>2 DEF buildReportData
<1>. QED  BY <1>1, Invariance, PTL

\* The report of a process that owns TLS names the certificate that its listener
\* serves, not the one that is in the file by now.
THEOREM ListenerNamed == Spec => []ReportNamesListener
<1>1. IInv => ReportNamesListener
  BY DEF IInv, ReqInv, Reported, RightCert, ReportNamesListener, Reports
<1>. QED  BY <1>1, Invariance, PTL

\* With an external ingress Generate names a certificate that was in the file
\* during the request.
THEOREM RenewalFollowed == Spec => []ReportFollowsRenewal
<1>1. IInv => ReportFollowsRenewal
  BY DEF IInv, ReqInv, Reported, RightCert, ReportFollowsRenewal, Reports
<1>. QED  BY <1>1, Invariance, PTL

\* Generate refuses an acceptable request only for want of a usable certificate
\* file, and never when TAIL owns TLS.
THEOREM RefusalsJustified == Spec => []RefusalJustified
<1>1. IInv => RefusalJustified
  BY DEF IInv, ReqInv, Refused, RefusalJustified
<1>. QED  BY <1>1, Invariance, PTL

\* Collect's native evidence covers every GPU exactly once, over the request's
\* nonce, or the report does not use it.
THEOREM EvidenceCorrect == Spec => []EvidenceComplete
<1>1. IInv => EvidenceComplete
  BY DEF IInv, ReqInv, Reported, Complete, First, EvidenceComplete, Reports
<1>. QED  BY <1>1, Invariance, PTL

\* Two reports share a quote only if their clients sent the same nonce to the
\* same process: random nonces and new signing keys keep the others apart.
THEOREM OneChallenge == Spec => []QuoteAnswersOneChallenge
<1>1. IInv => QuoteAnswersOneChallenge
  <2> SUFFICES ASSUME IInv, NEW r \in Req, NEW q \in Req, r # q,
                      answer[r].status = 200, answer[q].status = 200,
                      answer[r].quote = answer[q].quote, answer[r].quote # NoData
               PROVE  /\ req[r].nonce = req[q].nonce /\ req[r].nonce \in ClientNonce
                      /\ answer[r].boot = answer[q].boot
    BY DEF QuoteAnswersOneChallenge, Reports
  <2>1. ASSUME NEW x \in {r, q}
        PROVE  /\ Acceptable(req[x])
               /\ answer[x].quote \in {NoData, buildReportData(answer[x].address, answer[x].nonce, answer[x].fp)}
               /\ answer[x].nonce = parseNonce(x) /\ answer[x].address.boot = answer[x].boot
    BY DEF IInv, ReqInv, Reported
  <2>2. answer[r].nonce = answer[q].nonce /\ answer[r].address = answer[q].address
    BY <2>1 DEF buildReportData
  <2>3. parseNonce(r) = parseNonce(q)
    BY <2>1, <2>2
  <2>4. req[r].nonce # "" /\ req[q].nonce # "" /\ req[r].nonce = req[q].nonce
    BY <2>3 DEF parseNonce
  <2>5. req[r].nonce \in ClientNonce
    <3>1. req[r] \in Shapes
      BY DEF IInv, TypeOK
    <3>2. req[r].nonce \in {""} \cup ClientNonce \cup BadNonce
      BY <3>1, ShapesTyped
    <3>3. req[r].nonce \notin BadNonce
      BY <2>1 DEF Acceptable
    <3>. QED  BY <2>4, <3>2, <3>3
  <2>6. answer[r].boot = answer[r].address.boot /\ answer[q].boot = answer[q].address.boot
    BY <2>1
  <2>7. answer[r].boot = answer[q].boot
    BY <2>2, <2>6
  <2>. QED  BY <2>4, <2>5, <2>7
<1>. QED  BY <1>1, Invariance, PTL

----------------------------------------------------------------------------
(* Required evidence *)

\* The evidence p may go out under this configuration.
Fit(p) ==
    config.required =>
      /\ p.list = "full"
      /\ config.source = "native" /\ ~config.url /\ ~config.command => p.of = "native"

\* What is about to be assembled, and what has been reported, may go out.
FitInv ==
    \A r \in Req : /\ pc[r] = "assemble" => Fit(loc[r].nvidia)
                   /\ answer[r].status = 200 => Fit(answer[r].nvidia)

\* Required evidence is a full list once it is normalized.
LEMMA NormalizedFull ==
    ASSUME NEW p, Normalize(p, TRUE).ok
    PROVE  Normalize(p, TRUE).list = "full"
BY DEF Normalize, Bad, requireNonEmptyNVIDIAEvidence

\* An error answers no report and leaves nothing to assemble.
LEMMA FailFit ==
    ASSUME TypeOK, NEW r \in Req, NEW from, NEW status \in {400, 500}, Fail(r, from, status)
    PROVE  pc'[r] # "assemble" /\ answer'[r].status # 200
BY DEF TypeOK, Fail, Goto, Answers

\* A payload that settles is fit, if the configuration allows its source.
LEMMA SettleFit ==
    ASSUME TypeOK, NEW r \in Req, FitInv, NEW from, NEW of, NEW p, Settle(r, from, of, p),
           \/ of = "native" \/ config.source # "native" \/ config.url \/ config.command,
           UNCHANGED config
    PROVE  /\ pc'[r] = "assemble" => Fit(loc[r].nvidia)'
           /\ answer'[r].status = 200 => Fit(answer[r].nvidia)'
<1> DEFINE n == Normalize(p, config.required)
           new == [list |-> n.list, nonce |-> n.nonce, of |-> of, count |-> loc[r].count,
                   gpus |-> loc[r].gpus]
<1>1. CASE Fail(r, from, 500)
    BY <1>1, FailFit
<1>2. CASE ~Fail(r, from, 500)
  <2>1. n.ok /\ loc' = [loc EXCEPT ![r].nvidia = new] /\ UNCHANGED answer
    BY <1>2 DEF Settle
  <2>2. loc[r] \in Locals /\ loc \in [Req -> Locals]
    BY DEF TypeOK
  <2>3. loc'[r].nvidia = new
    BY <2>1, <2>2 DEF Locals
  <2>4. config.required \in BOOLEAN
    BY ConfigsTyped DEF TypeOK
  <2>5. Fit(new)
    <3>1. SUFFICES ASSUME config.required = TRUE PROVE n.list = "full"
      BY <2>4 DEF Fit
    <3>. QED  BY <2>1, <3>1, NormalizedFull
  <2>6. Fit(loc[r].nvidia)'
    BY <2>3, <2>5 DEF Fit
  <2>7. answer'[r].status = 200 => Fit(answer[r].nvidia)'
    BY <2>1 DEF FitInv, Fit
  <2>. QED  BY <2>6, <2>7
<1>. QED  BY <1>1, <1>2

\* Every step of Generate keeps its request fit.
LEMMA GenerateFit ==
    ASSUME IInv, FitInv, NEW r \in Req, Generate(r)
    PROVE  /\ pc'[r] = "assemble" => Fit(loc[r].nvidia)'
           /\ answer'[r].status = 200 => Fit(answer[r].nvidia)'
<1> DEFINE Goal == /\ pc'[r] = "assemble" => Fit(loc[r].nvidia)'
                   /\ answer'[r].status = 200 => Fit(answer[r].nvidia)'
<1>0. /\ TypeOK /\ loc \in [Req -> Locals] /\ loc[r] \in Locals
      /\ pc \in [Req -> {"idle", "done", "lost"} \cup Steps] /\ answer \in [Req -> Answers]
    BY DEF IInv, TypeOK
<1>1. UNCHANGED config
    BY DEF Generate, Validate, Resolve, GetQuote, Info, Configured, Collect, CollectGPU,
       Fallback, Assemble, Elsewhere, env
<1>2. ASSUME NEW from, NEW status \in {400, 500}, Fail(r, from, status) PROVE Goal
    BY <1>0, <1>2, FailFit
<1>3. ASSUME NEW from, NEW to, Goto(r, from, to), to # "assemble", UNCHANGED answer PROVE Goal
    BY <1>0, <1>1, <1>3 DEF Goto, FitInv, Fit
<1>4. CASE Validate(r)
    BY <1>2, <1>3, <1>4 DEF Validate
<1>5. CASE Resolve(r)
    BY <1>2, <1>3, <1>5 DEF Resolve
<1>6. CASE GetQuote(r)
    BY <1>2, <1>3, <1>6 DEF GetQuote
<1>7. CASE Info(r)
    BY <1>2, <1>3, <1>7 DEF Info
<1>8. CASE Configured(r)
  <2>1. CASE Fail(r, "payload", 500)
    BY <1>2, <2>1
  <2>2. CASE Goto(r, "payload", "collect") /\ UNCHANGED <<loc, answer>>
    BY <1>3, <2>2
  <2>3. ASSUME NEW p, config.source \in {"static", "file"},
               Settle(r, "payload", "configured", ReplaceNonce(p))
        PROVE  Goal
    BY <1>0, <1>1, <2>3, SettleFit
  <2>. QED  BY <1>8, <2>1, <2>2, <2>3 DEF Configured
<1>9. CASE Collect(r)
    BY <1>3, <1>9 DEF Collect
<1>10. CASE CollectGPU(r)
  <2>1. CASE AppendEvidence(r)
    BY <1>3, <2>1 DEF AppendEvidence
  <2>2. CASE Goto(r, "gpu", "fallback") /\ UNCHANGED answer
    BY <1>3, <2>2
  <2>3. CASE Settle(r, "gpu", "native", NativePayload)
    BY <1>0, <1>1, <2>3, SettleFit
  <2>. QED  BY <1>10, <2>1, <2>2, <2>3 DEF CollectGPU
<1>11. CASE Fallback(r)
  <2>1. CASE Fail(r, "fallback", 500)
    BY <1>2, <2>1
  <2>2. ASSUME NEW p, NEW of, config.url \/ config.command, Settle(r, "fallback", of, p)
        PROVE  Goal
    BY <1>0, <1>1, <2>2, SettleFit
  <2>3. CASE config.url /\ Fetch(r)
    BY <2>1, <2>2, <2>3 DEF Fetch, extractNVIDIAPayloadResponse
  <2>4. CASE config.command /\ RunCommand(r)
    BY <2>1, <2>2, <2>4 DEF RunCommand
  <2>5. CASE ~config.required /\ UNCHANGED answer
    BY <1>1, <2>5 DEF Fit
  <2>. QED  BY <1>11, <2>1, <2>3, <2>4, <2>5 DEF Fallback
<1>12. CASE Assemble(r)
  <2>1. pc[r] = "assemble" /\ pc'[r] = "done" /\ answer'[r] = Report(r, loc[r].fp)
    BY <1>0, <1>12 DEF Assemble, Goto
  <2>2. answer'[r].nvidia = loc[r].nvidia
    BY <2>1 DEF Report
  <2>. QED  BY <1>1, <2>1, <2>2 DEF FitInv, Fit
<1>. QED
    BY <1>4, <1>5, <1>6, <1>7, <1>8, <1>9, <1>10, <1>11, <1>12 DEF Generate

\* Every step of the process keeps what goes out fit.
LEMMA NextFit == IInv /\ FitInv /\ [Next]_vars => FitInv'
<1> SUFFICES ASSUME IInv, FitInv, [Next]_vars PROVE FitInv'
    OBVIOUS
<1>0. TypeOK
    BY DEF IInv
<1>1. ASSUME NEW r \in Req, Generate(r) PROVE FitInv'
  <2>1. UNCHANGED config
    BY <1>1 DEF Generate, Validate, Resolve, GetQuote, Info, Configured, Collect, CollectGPU,
       Fallback, Assemble, Elsewhere, env
  <2>2. ASSUME NEW q \in Req
        PROVE  /\ pc'[q] = "assemble" => Fit(loc[q].nvidia)'
               /\ answer'[q].status = 200 => Fit(answer[q].nvidia)'
    <3>1. CASE q = r
      BY <1>1, <3>1, GenerateFit
    <3>2. CASE q # r
      <4>1. pc'[q] = pc[q] /\ loc'[q] = loc[q] /\ answer'[q] = answer[q]
        BY <1>0, <1>1, <3>2, GenerateLocal
      <4>. QED  BY <2>1, <4>1 DEF FitInv, Fit
    <3>. QED  BY <3>1, <3>2
  <2>. QED  BY <2>2 DEF FitInv
<1>2. CASE Stop
    BY <1>0, <1>2 DEF Stop, FitInv, Fit, TypeOK
<1>3. ASSUME NEW r \in Req, NEW s \in Shapes, Arrive(r, s) PROVE FitInv'
    BY <1>0, <1>3 DEF Arrive, Goto, FitInv, Fit, TypeOK, env
<1>4. CASE UNCHANGED <<config, pc, loc, answer>>
    BY <1>4 DEF FitInv, Fit
<1>. QED
    BY <1>1, <1>2, <1>3, <1>4 DEF Next, Boot, ReplaceCertificate, ReplaceKey, Over, vars, env

\* When evidence is required no report goes out with an empty, null or holed
\* list from any source, and without fallbacks none but NVML's own.
THEOREM RequiredEvidenceHeld == Spec => []RequiredEvidence
<1>1. Init => FitInv
    BY DEF Init, FitInv, NoAnswer
<1>2. FitInv => RequiredEvidence
    BY DEF FitInv, Fit, RequiredEvidence, Reports
<1>. QED  BY <1>1, <1>2, InitIInv, NextIInv, NextFit, PTL DEF Spec
=============================================================================
