---------------------------- MODULE HealthCheck ----------------------------
(***************************************************************************)
(* The health check command (cmd/phala-tail/healthcheck.go) beside the     *)
(* server it probes: two processes with the same environment, the same     *)
(* certificate and key files, and a renewal that replaces the files while  *)
(* both run.  Each reads the certificate and then the key.  The server     *)
(* serves what it read when it started (loadTLSConfig); the probe compares *)
(* what the listener presents with what it has just read itself.           *)
(*                                                                         *)
(* Nobody but the server listens on the address.  Names of different       *)
(* entries of a certificate differ.                                        *)
(***************************************************************************)
EXTENDS Integers, Sequences

CONSTANTS
    Certs,       \* certificates
    KeyOf,       \* the key each was issued for
    San,         \* its names: [dns : a sequence of kinds of entries, ip : BOOLEAN]
    Public,      \* those that chain to a system root without the configured chain
    Listens,     \* the values of LISTEN, by kind
    Codes,       \* the statuses a listener can answer /healthz with
    MaxWrites    \* bound: how often a file is replaced

Keys == {KeyOf[c] : c \in Certs}
DnsKinds == {"plain", "padded", "wildcard", "blank"}
ListenKinds == {"noport", "empty", "any4", "mapped4", "any6", "zeros6", "address"}

ASSUME CertsExist == Certs # {}
ASSUME SansAreNames == San \in [Certs -> [dns : Seq(DnsKinds), ip : BOOLEAN]]
ASSUME ListensExist == Listens # {} /\ Listens \subseteq ListenKinds
ASSUME CodesAreNumbers == Codes \subseteq Nat
ASSUME WriteBound == MaxWrites \in Nat

VARIABLES
    tls,             \* TLS_CERT_PATH and TLS_KEY_PATH are set
    listen,          \* LISTEN
    certFile, keyFile, writes,
    expired,         \* the certificates whose time is over
    server, booted,  \* the server process, and the certificate it has read
    probe, expected, \* the probe, and the certificate it has read
    inFile, served,  \* history: certificates in the file, and certificates (or
                     \* "plain") the listener served, at some time of the probe
    clean            \* history: nothing stood in the way of the probe so far

vars == <<tls, listen, certFile, keyFile, writes, expired, server, booted, probe, expected,
          inFile, served, clean>>

Probing == {"readKey", "dial", "handshake", "request"}
Verdicts == {"healthy", "failed"}

----------------------------------------------------------------------------
(* Names and addresses *)

\* The first plain name, else a name below the first wildcard, else an address.
healthcheckServerName(san) ==
    LET named == {i \in DOMAIN san.dns : san.dns[i] \in {"plain", "padded"}}
        first == CHOOSE i \in named : \A j \in named : i <= j
    IN IF named # {} THEN san.dns[first]
       ELSE IF \E i \in DOMAIN san.dns : san.dns[i] = "wildcard" THEN "wildcard"
       ELSE IF san.ip THEN "ip"
       ELSE "none"

\* leaf.VerifyHostname: a name that had to be trimmed is not the certificate's.
Nameable(c) == healthcheckServerName(San[c]) \notin {"none", "padded"}

\* Mutant: a wildcard address is dialled as it stands.
DialAsWritten(l) == IF l = "noport" THEN "none" ELSE l

\* The address to dial: an unspecified address becomes the loopback of its family.
healthcheckDialAddress(l) ==
    CASE l = "noport"                          -> "none"
      [] l \in {"empty", "any4", "mapped4"}    -> "127.0.0.1"
      [] l \in {"any6", "zeros6"}              -> "::1"
      [] OTHER                                 -> l

\* The addresses that reach a server bound to l.  External.
Reached(l) ==
    CASE l \in {"any4", "mapped4"}             -> {"127.0.0.1"}
      [] l \in {"empty", "any6", "zeros6"}     -> {"127.0.0.1", "::1"}
      [] OTHER                                 -> {l}

\* What the listener serves: a certificate, "plain", or nothing.
Serving == IF server # "up" THEN {} ELSE IF tls THEN {booted} ELSE {"plain"}

\* A probe that started now and was left alone would succeed.
Fit ==
    /\ server = "up" /\ listen # "noport"
    /\ tls => /\ booted = certFile /\ keyFile = KeyOf[certFile]
              /\ certFile \notin expired /\ Nameable(certFile)

Init ==
    /\ tls \in BOOLEAN /\ listen \in Listens
    /\ certFile \in Certs /\ keyFile = KeyOf[certFile] /\ writes = 0 /\ expired = {}
    /\ server = "down" /\ booted = "none"
    /\ probe = "idle" /\ expected = "none"
    /\ inFile = {} /\ served = {} /\ clean = FALSE

----------------------------------------------------------------------------
(* Renewal, time and the server *)

\* The certificate is replaced, then or later its key: by whoever renews them.
WriteCert(c) ==
    /\ writes < MaxWrites /\ writes' = writes + 1
    /\ certFile' = c /\ inFile' = inFile \cup {c}
    /\ clean' = (clean /\ c = certFile)
    /\ UNCHANGED <<tls, listen, keyFile, expired, server, booted, probe, expected, served>>

WriteKey(k) ==
    /\ writes < MaxWrites /\ writes' = writes + 1
    /\ keyFile' = k /\ clean' = (clean /\ k = keyFile)
    /\ UNCHANGED <<tls, listen, certFile, expired, server, booted, probe, expected, inFile, served>>

Expire(c) ==
    /\ c \notin expired /\ expired' = expired \cup {c}
    /\ clean' = (clean /\ c # certFile)
    /\ UNCHANGED <<tls, listen, certFile, keyFile, writes, server, booted, probe, expected,
                   inFile, served>>

\* loadTLSConfig in the server: the certificate, ...
BootCert ==
    /\ server = "down" /\ server' = "booting" /\ booted' = certFile
    /\ UNCHANGED <<tls, listen, certFile, keyFile, writes, expired, probe, expected,
                   inFile, served, clean>>

\* ... the key, which has to match, and the listener.
BootKey ==
    /\ server = "booting"
    /\ server' = IF tls /\ keyFile # KeyOf[booted] THEN "down" ELSE "up"
    /\ served' = IF server' = "up" THEN served \cup (IF tls THEN {booted} ELSE {"plain"})
                                   ELSE served
    /\ UNCHANGED <<tls, listen, certFile, keyFile, writes, expired, booted, probe, expected,
                   inFile, clean>>

Stop ==
    /\ server = "up" /\ server' = "down" /\ clean' = FALSE
    /\ UNCHANGED <<tls, listen, certFile, keyFile, writes, expired, booted, probe, expected,
                   inFile, served>>

----------------------------------------------------------------------------
(* The probe *)

Left == UNCHANGED <<tls, listen, certFile, keyFile, writes, expired, server, booted, inFile, served>>

\* Mutant: the certificate read by an earlier probe is kept.
StartUnread ==
    /\ probe \in {"idle"} \cup Verdicts
    /\ probe' = IF tls THEN "readKey" ELSE "dial"
    /\ UNCHANGED expected
    /\ inFile' = {certFile} /\ served' = Serving /\ clean' = Fit
    /\ UNCHANGED <<tls, listen, certFile, keyFile, writes, expired, server, booted>>

\* runHealthcheckWithConfig up to the certificate file.
Start ==
    /\ probe \in {"idle"} \cup Verdicts
    /\ probe' = CASE healthcheckDialAddress(listen) = "none" -> "failed"
                  [] tls /\ healthcheckDialAddress(listen) # "none" -> "readKey"
                  [] OTHER -> "dial"
    /\ expected' = certFile
    /\ inFile' = {certFile} /\ served' = Serving /\ clean' = Fit
    /\ UNCHANGED <<tls, listen, certFile, keyFile, writes, expired, server, booted>>

\* The key file, and healthcheckTLSConfig on the pair.
ReadKey ==
    /\ probe = "readKey"
    /\ probe' = IF keyFile = KeyOf[expected] /\ Nameable(expected) THEN "dial" ELSE "failed"
    /\ UNCHANGED <<expected, clean>> /\ Left

Dial ==
    /\ probe = "dial"
    /\ probe' = IF server = "up" /\ healthcheckDialAddress(listen) \in Reached(listen)
                  THEN (IF tls THEN "handshake" ELSE "request") ELSE "failed"
    /\ UNCHANGED <<expected, clean>> /\ Left

\* The chain leads to a system root or to a configured certificate, the leaf itself
\* included; it is in its time and has the name asked for.
Verified(c) == (c \in Public \/ c = expected) /\ c \notin expired /\ San[c] = San[expected]

\* Mutant: VerifyConnection is left out.
AnyPeer ==
    /\ probe = "handshake"
    /\ probe' = IF server = "up" /\ Verified(booted) THEN "request" ELSE "failed"
    /\ UNCHANGED <<expected, clean>> /\ Left

\* The handshake, and VerifyConnection: the very certificate that was read.
Handshake ==
    /\ probe = "handshake"
    /\ probe' = IF server = "up" /\ Verified(booted) /\ booted = expected
                  THEN "request" ELSE "failed"
    /\ UNCHANGED <<expected, clean>> /\ Left

\* GET /healthz, redirects not followed.  A server that stops cuts the request.
Request(code) ==
    /\ probe = "request"
    /\ probe' = IF server = "up" /\ code >= 200 /\ code < 300 THEN "healthy" ELSE "failed"
    /\ clean' = (clean /\ code >= 200 /\ code < 300)
    /\ UNCHANGED expected /\ Left

\* Mutant: only the dial has a timeout.
DialTimeout ==
    /\ probe = "dial" /\ probe' = "failed" /\ clean' = FALSE
    /\ UNCHANGED expected /\ Left

\* The five seconds of the client, the context and the dialer are over.
Timeout ==
    /\ probe \in {"dial", "handshake", "request"} /\ probe' = "failed" /\ clean' = FALSE
    /\ UNCHANGED expected /\ Left

ProbeStep == ReadKey \/ Dial \/ Handshake \/ \E code \in Codes : Request(code)

Next ==
    \/ \E c \in Certs : WriteCert(c) \/ Expire(c)
    \/ \E k \in Keys : WriteKey(k)
    \/ BootCert \/ BootKey \/ Stop
    \/ Start \/ ProbeStep \/ Timeout

Spec == Init /\ [][Next]_vars

\* Reading a file comes to an end, and the timer fires.  Nothing is assumed of the
\* network or the server.
Fairness == WF_vars(ReadKey) /\ WF_vars(Timeout)
FairSpec == Spec /\ Fairness

----------------------------------------------------------------------------
(* Properties *)

\* The state is well typed, and a certificate has been read where one is used.
TypeOK ==
    /\ tls \in BOOLEAN /\ listen \in Listens
    /\ certFile \in Certs /\ keyFile \in Keys /\ writes \in 0..MaxWrites
    /\ expired \subseteq Certs
    /\ server \in {"down", "booting", "up"} /\ (server # "down" => booted \in Certs)
    /\ probe \in {"idle"} \cup Probing \cup Verdicts
    /\ (probe # "idle" => expected \in Certs)
    /\ inFile \subseteq Certs /\ served \subseteq Certs \cup {"plain"}
    /\ clean \in BOOLEAN

\* A healthy verdict is about this server and these files: during the probe the
\* file held, and the listener served, one and the same certificate.  A listener
\* that was not restarted after a renewal never passes, not even when old and new
\* certificate share their key and their names.
HealthyMeansServed ==
    probe = "healthy" => IF tls THEN inFile \cap served # {} ELSE "plain" \in served

\* A probe fails only for a reason: had the server been up with the certificate
\* of the files, in its time and with a usable name, and had nothing changed, timed
\* out or answered otherwise meanwhile, it would have passed.  The renewal that
\* replaces one file after the other is a reason.
FailureJustified == probe = "failed" => ~clean

\* Every probe comes to a verdict, also of a server that accepts and is silent.
ProbeEnds == probe \in Probing ~> probe \in Verdicts
============================================================================
