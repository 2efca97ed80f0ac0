------------------------- MODULE HealthCheckProofs -------------------------
(***************************************************************************)
(* Proofs about HealthCheck for every set of certificates, every name in   *)
(* them, every value of LISTEN and every renewal.                          *)
(***************************************************************************)
EXTENDS HealthCheck, TLAPS

\* What the probe knows of the listener and the file: both histories contain the
\* present, and from the handshake on the served certificate is the expected one.
Seen ==
    probe # "idle" =>
        /\ Serving \subseteq served
        /\ expected \in inFile
        /\ probe \in {"request", "healthy"} => (IF tls THEN expected \in served
                                                       ELSE "plain" \in served)
        /\ probe \in {"readKey", "handshake"} => tls

\* As long as nothing stood in the way, nothing does, and the probe has read what
\* the listener serves.
Undisturbed == clean /\ probe \in Probing => Fit /\ (tls => expected = certFile)

\* The inductive invariant.
IInv == TypeOK /\ Seen /\ Undisturbed /\ FailureJustified

\* The address the probe dials reaches a server bound to LISTEN.
LEMMA DialReaches ==
    ASSUME NEW l \in Listens, l # "noport"
    PROVE  healthcheckDialAddress(l) \in Reached(l) /\ healthcheckDialAddress(l) # "none"
BY ListensExist DEF healthcheckDialAddress, Reached, ListenKinds

\* Every certificate has its key.
LEMMA KeysExist == \A c \in Certs : KeyOf[c] \in Keys
BY DEF Keys

\* A fresh pair of processes satisfies the invariant.
LEMMA InitIInv == Init => IInv
<1>. SUFFICES ASSUME Init PROVE IInv
    OBVIOUS
<1>1. keyFile \in Keys
    BY KeysExist DEF Init
<1>2. TypeOK
  <2>1. tls \in BOOLEAN /\ listen \in Listens /\ certFile \in Certs
    BY DEF Init
  <2>2. writes \in 0..MaxWrites
    BY WriteBound DEF Init
  <2>3. server = "down" /\ probe = "idle" /\ clean = FALSE
    BY DEF Init
  <2>4. expired \subseteq Certs /\ inFile \subseteq Certs /\ served \subseteq Certs \cup {"plain"}
    BY DEF Init
  <2>. QED  BY <1>1, <2>1, <2>2, <2>3, <2>4, Zenon DEF TypeOK
<1>3. Seen /\ Undisturbed /\ FailureJustified
    BY DEF Init, Seen, Undisturbed, FailureJustified
<1>. QED  BY <1>2, <1>3 DEF IInv

\* Replacing the certificate or its key.
LEMMA WriteIInv ==
    IInv /\ ((\E c \in Certs : WriteCert(c)) \/ (\E k \in Keys : WriteKey(k))) => IInv'
<1>1. ASSUME IInv, NEW c \in Certs, WriteCert(c) PROVE IInv'
  <2>1. TypeOK'
    BY <1>1, WriteBound DEF WriteCert, IInv, TypeOK
  <2>2. Seen'
    BY <1>1 DEF WriteCert, IInv, Seen, Serving
  <2>3. Undisturbed' /\ FailureJustified'
    BY <1>1 DEF WriteCert, IInv, Undisturbed, FailureJustified, Fit, Nameable
  <2>. QED  BY <2>1, <2>2, <2>3 DEF IInv
<1>2. ASSUME IInv, NEW k \in Keys, WriteKey(k) PROVE IInv'
  <2>1. TypeOK'
    BY <1>2, WriteBound DEF WriteKey, IInv, TypeOK
  <2>2. Seen'
    BY <1>2 DEF WriteKey, IInv, Seen, Serving
  <2>3. Undisturbed' /\ FailureJustified'
    BY <1>2 DEF WriteKey, IInv, Undisturbed, FailureJustified, Fit, Nameable
  <2>. QED  BY <2>1, <2>2, <2>3 DEF IInv
<1>. QED  BY <1>1, <1>2

\* A certificate's time is over.
LEMMA ExpireIInv == IInv /\ (\E c \in Certs : Expire(c)) => IInv'
<1>. SUFFICES ASSUME IInv, NEW c \in Certs, Expire(c) PROVE IInv'
    OBVIOUS
<1>1. TypeOK'
    BY DEF Expire, IInv, TypeOK
<1>2. Seen'
    BY DEF Expire, IInv, Seen, Serving
<1>3. Undisturbed' /\ FailureJustified'
    BY DEF Expire, IInv, Undisturbed, FailureJustified, Fit, Nameable
<1>. QED  BY <1>1, <1>2, <1>3 DEF IInv

\* The server starts and stops.
LEMMA ServerIInv == IInv /\ (BootCert \/ BootKey \/ Stop) => IInv'
<1>1. ASSUME IInv, BootCert PROVE IInv'
  <2>1. TypeOK'
    BY <1>1 DEF BootCert, IInv, TypeOK
  <2>2. Seen'
    BY <1>1 DEF BootCert, IInv, Seen, Serving
  <2>3. Undisturbed' /\ FailureJustified'
    BY <1>1 DEF BootCert, IInv, Undisturbed, FailureJustified, Fit, Nameable
  <2>. QED  BY <2>1, <2>2, <2>3 DEF IInv
<1>2. ASSUME IInv, BootKey PROVE IInv'
  <2>1. TypeOK'
    BY <1>2 DEF BootKey, IInv, TypeOK
  <2>2. Seen'
    BY <1>2 DEF BootKey, IInv, Seen, Serving
  <2>3. Undisturbed' /\ FailureJustified'
    BY <1>2 DEF BootKey, IInv, Undisturbed, FailureJustified, Fit, Nameable
  <2>. QED  BY <2>1, <2>2, <2>3 DEF IInv
<1>3. ASSUME IInv, Stop PROVE IInv'
  <2>1. TypeOK'
    BY <1>3 DEF Stop, IInv, TypeOK
  <2>2. Seen'
    BY <1>3 DEF Stop, IInv, Seen, Serving
  <2>3. Undisturbed' /\ FailureJustified'
    BY <1>3 DEF Stop, IInv, Undisturbed, FailureJustified
  <2>. QED  BY <2>1, <2>2, <2>3 DEF IInv
<1>. QED  BY <1>1, <1>2, <1>3

\* The probe starts.
LEMMA StartIInv == IInv /\ Start => IInv'
<1>. SUFFICES ASSUME IInv, Start PROVE IInv'
    OBVIOUS
<1>1. /\ probe' \in {"failed", "readKey", "dial"}
      /\ probe' = "failed" => listen = "noport"
      /\ probe' = "readKey" => tls
    BY DialReaches DEF Start, IInv, TypeOK
<1>2. Serving \subseteq Certs \cup {"plain"}
    BY DEF Serving, IInv, TypeOK
<1>3. Fit \in BOOLEAN
    BY DEF Fit
<1>4. /\ UNCHANGED <<tls, listen, certFile, keyFile, writes, expired, server, booted>>
      /\ expected' = certFile /\ inFile' = {certFile} /\ served' = Serving
      /\ clean' = Fit
    BY DEF Start
<1>5. Fit' = Fit /\ Serving' = Serving
    BY <1>4 DEF Fit, Serving, Nameable
<1>6. TypeOK'
    BY <1>1, <1>2, <1>3, <1>4 DEF IInv, TypeOK, Probing, Verdicts
<1>7. Seen'
    BY <1>1, <1>4, <1>5 DEF Seen
<1>8. Undisturbed' /\ FailureJustified'
  <2>1. probe' = "failed" => ~Fit
    BY <1>1 DEF Fit
  <2>. QED  BY <1>4, <1>5, <2>1 DEF Undisturbed, FailureJustified
<1>. QED  BY <1>6, <1>7, <1>8 DEF IInv

\* The probe goes on, or gives up.
LEMMA ProbeIInv == IInv /\ (ProbeStep \/ Timeout) => IInv'
<1>. SUFFICES ASSUME IInv, ProbeStep \/ Timeout PROVE IInv'
    OBVIOUS
<1>1. /\ UNCHANGED <<tls, listen, certFile, keyFile, writes, expired, server, booted,
                     inFile, served>>
      /\ expected' = expected /\ probe # "idle" /\ probe' # "idle"
    BY DEF ProbeStep, Timeout, ReadKey, Dial, Handshake, Request, Left
<1>2. Fit' = Fit /\ Serving' = Serving
    BY <1>1 DEF Fit, Serving, Nameable
<1>3. probe' \in Probing \cup Verdicts /\ clean' \in BOOLEAN
    BY DEF ProbeStep, Timeout, ReadKey, Dial, Handshake, Request, Probing, Verdicts,
           IInv, TypeOK
<1>4. TypeOK'
    BY <1>1, <1>3 DEF IInv, TypeOK
<1>5. Seen'
  <2>1. probe' \in {"readKey", "handshake"} => tls
    BY DEF ProbeStep, Timeout, ReadKey, Dial, Handshake, Request, IInv, Seen
  <2>2. CASE probe' \in {"request", "healthy"}
    <3>1. \/ probe = "request"
          \/ probe = "handshake" /\ server = "up" /\ booted = expected
          \/ probe = "dial" /\ server = "up" /\ ~tls
      BY <2>2 DEF ProbeStep, Timeout, ReadKey, Dial, Handshake, Request
    <3>2. probe \in {"handshake"} => tls
      BY DEF IInv, Seen
    <3>. QED  BY <1>1, <1>2, <2>1, <3>1, <3>2 DEF IInv, Seen, Serving
  <2>3. CASE probe' \notin {"request", "healthy"}
    BY <1>1, <1>2, <2>1, <2>3 DEF IInv, Seen
  <2>. QED  BY <2>2, <2>3
<1>6. Undisturbed' /\ FailureJustified'
  <2>. SUFFICES ASSUME clean', ProbeStep
                PROVE  Fit /\ (tls => expected = certFile) /\ probe' # "failed"
    BY <1>1, <1>2, <1>3 DEF Undisturbed, FailureJustified, Timeout
  <2>1. clean /\ probe \in Probing
    BY DEF ProbeStep, ReadKey, Dial, Handshake, Request, Probing
  <2>2. Fit /\ (tls => expected = certFile)
    BY <2>1 DEF IInv, Undisturbed
  <2>3. healthcheckDialAddress(listen) \in Reached(listen)
    BY <2>2, DialReaches DEF IInv, TypeOK, Fit
  <2>4. probe \in {"readKey", "handshake"} => tls
    BY DEF IInv, Seen
  <2>5. CASE ReadKey
    BY <2>2, <2>4, <2>5 DEF ReadKey, Fit
  <2>6. CASE Dial
    BY <2>2, <2>3, <2>6 DEF Dial, Fit
  <2>7. CASE Handshake
    BY <2>2, <2>4, <2>7 DEF Handshake, Fit, Verified
  <2>8. CASE \E code \in Codes : Request(code)
    BY <2>2, <2>8 DEF Request, Fit
  <2>. QED  BY <2>2, <2>5, <2>6, <2>7, <2>8 DEF ProbeStep
<1>. QED  BY <1>4, <1>5, <1>6 DEF IInv

----------------------------------------------------------------------------
(* The theorems *)

\* The inductive invariant holds of every run of server and probes.
LEMMA Inductive == Spec => []IInv
<1>1. IInv /\ [Next]_vars => IInv'
  <2>1. IInv /\ UNCHANGED vars => IInv'
    BY DEF vars, IInv, TypeOK, Seen, Undisturbed, FailureJustified, Serving, Fit, Nameable
  <2>. QED  BY <2>1, WriteIInv, ExpireIInv, ServerIInv, StartIInv, ProbeIInv DEF Next
<1>. QED  BY InitIInv, <1>1, PTL DEF Spec

\* The state is well typed (runHealthcheckWithConfig, loadTLSConfig).
THEOREM TypeCorrect == Spec => []TypeOK
<1>1. IInv => TypeOK
    BY DEF IInv
<1>. QED  BY Inductive, <1>1, PTL

\* A healthy verdict is about a certificate that was in the file and was served
\* during the probe (healthcheckTLSConfig's VerifyConnection).
THEOREM HealthyIsServed == Spec => []HealthyMeansServed
<1>1. IInv => HealthyMeansServed
    BY DEF IInv, Seen, HealthyMeansServed
<1>. QED  BY Inductive, <1>1, PTL

\* A probe of a healthy server that nothing disturbs does not fail
\* (runHealthcheckWithConfig, healthcheckDialAddress, healthcheckServerName).
THEOREM FailuresJustified == Spec => []FailureJustified
<1>1. IInv => FailureJustified
    BY DEF IInv
<1>. QED  BY Inductive, <1>1, PTL
============================================================================
