----------------------------- MODULE TailHandler -----------------------------
(***************************************************************************)
(* The TAIL handler serving concurrent requests (internal/app/tail/        *)
(* handler.go).  Each request runs in a goroutine of its own; the three    *)
(* counters are atomics shared by all of them, so every Add and every Load *)
(* is a step of its own.  The proxy, its transport, the backend and the    *)
(* client connection are the environment: the proxy fails before or after  *)
(* the response header, the client sends what cannot be read, stalls or    *)
(* disconnects at any moment, and the server notices a disconnect some     *)
(* time later.                                                             *)
(*                                                                         *)
(* A member of Req is one request, from its arrival to the return (or the  *)
(* panic) of its handler.                                                  *)
(***************************************************************************)
EXTENDS TailRoute, FiniteSets

CONSTANTS
    Req,            \* the requests of a run
    Shapes,         \* the requests that can arrive (TailRoute's records)
    BackendCodes,   \* the statuses the backend answers with
    HasReporter,    \* FALSE: the handler was built without an attestation service
    MaxResend       \* bound: how often the transport replays one request

ASSUME ShapesExist == Shapes # {}
ASSUME ShapesAreRequests ==
    \A s \in Shapes : s.target \in Seq(STRING) /\ s.auths \in Seq(STRING)
ASSUME ReqFinite == IsFiniteSet(Req)
ASSUME CodesAreNumbers == BackendCodes \subseteq Nat
ASSUME ResendBound == MaxResend \in Nat
ASSUME ReporterFlag == HasReporter \in BOOLEAN

VARIABLES
    req,          \* the request each member of Req turned out to be
    pc,           \* where its goroutine is
    ctx,          \* its context: live, canceled (the client) or deadline (RequestTimeout)
    client,       \* its client: reading, stalled (open, not reading) or gone
    wire,         \* how often its bytes reached the backend
    reply,        \* what was written to the client, and by whom
    inflight, forwarded, unavailable,     \* Handler's counters
    scrape,       \* what a /pig/metrics request has loaded so far
    earlier,      \* history: the scrapes already over when a scrape arrived
    fault         \* history: what made the proxy give up before a header came

vars == <<req, pc, ctx, client, wire, reply, inflight, forwarded, unavailable,
          scrape, earlier, fault>>
history == <<earlier, fault>>
counters == <<inflight, forwarded, unavailable>>

NoReply == [from |-> "none", code |-> 0]
NoLoad == [inflight |-> 0, forwarded |-> 0, unavailable |-> 0]

\* The goroutine is between inflight.Add(1) and the deferred inflight.Add(-1).
Inside == {"addForwarded", "send", "await", "stream", "error", "addUnavailable", "refuse",
           "leave", "abort"}
\* ... and has also passed forwarded.Add(1).
Proxying == Inside \ {"addForwarded"}
Over == {"done", "aborted"}
Loading == {"loadInflight", "loadForwarded", "loadUnavailable"}
Running == Inside \cup Loading \cup {"serve", "addInflight", "attestation"}

\* ServeHTTP's decision for each request that can arrive.
Routes == [s \in Shapes |-> Route(s)]
Scraping(r) == Routes[req[r]].do = "metrics"

Init ==
    /\ req = [r \in Req |-> CHOOSE s \in Shapes : TRUE]
    /\ pc = [r \in Req |-> "idle"]
    /\ ctx = [r \in Req |-> "live"]
    /\ client = [r \in Req |-> "reading"]
    /\ wire = [r \in Req |-> 0]
    /\ reply = [r \in Req |-> NoReply]
    /\ inflight = 0 /\ forwarded = 0 /\ unavailable = 0
    /\ scrape = [r \in Req |-> NoLoad]
    /\ earlier = [r \in Req |-> {}]
    /\ fault = [r \in Req |-> "none"]

Goto(r, from, to) == pc[r] = from /\ pc' = [pc EXCEPT ![r] = to]
Write(r, from, code) == reply' = [reply EXCEPT ![r] = [from |-> from, code |-> code]]

----------------------------------------------------------------------------
(* ServeHTTP, attestation, metrics *)

\* The server accepted and parsed a request.  External.
Arrive(r, s) ==
    /\ Goto(r, "idle", "serve")
    /\ req' = [req EXCEPT ![r] = s]
    /\ earlier' = [earlier EXCEPT ![r] = IF Routes[s].do = "metrics"
                                           THEN {q \in Req : pc[q] = "done" /\ Scraping(q)}
                                           ELSE {}]
    /\ UNCHANGED <<ctx, client, wire, reply, scrape, fault>> /\ UNCHANGED counters

ServeHTTP(r) ==
    LET route == Routes[req[r]]
    IN /\ \/ /\ route.do = "reply"
             /\ Goto(r, "serve", "done")
             /\ Write(r, "tail", route.code)
          \/ /\ route.do = "forward"     /\ Goto(r, "serve", "addInflight") /\ UNCHANGED reply
          \/ /\ route.do = "metrics"     /\ Goto(r, "serve", "loadInflight") /\ UNCHANGED reply
          \/ /\ route.do = "attestation" /\ Goto(r, "serve", "attestation") /\ UNCHANGED reply
       /\ UNCHANGED <<req, ctx, client, wire, scrape, history>> /\ UNCHANGED counters

\* The statuses attestation can answer: without a reporter 404; a version that
\* is no number 400; otherwise Generate's verdict.
AttestationCodes(s) ==
    CASE ~HasReporter                          -> {404}
      [] HasReporter /\ s.version = "garbage"  -> {400}
      [] OTHER                                 -> {200, 400, 500}

attestation(r) ==
    /\ Goto(r, "attestation", "done")
    /\ \E code \in AttestationCodes(req[r]) : Write(r, "tail", code)
    /\ UNCHANGED <<req, ctx, client, wire, scrape, history>> /\ UNCHANGED counters

\* metrics loads the three counters one after the other.
LoadInflight(r) ==
    /\ Goto(r, "loadInflight", "loadForwarded")
    /\ scrape' = [scrape EXCEPT ![r].inflight = inflight]
    /\ UNCHANGED <<req, ctx, client, wire, reply, history>> /\ UNCHANGED counters

LoadForwarded(r) ==
    /\ Goto(r, "loadForwarded", "loadUnavailable")
    /\ scrape' = [scrape EXCEPT ![r].forwarded = forwarded]
    /\ UNCHANGED <<req, ctx, client, wire, reply, history>> /\ UNCHANGED counters

LoadUnavailable(r) ==
    /\ Goto(r, "loadUnavailable", "done")
    /\ scrape' = [scrape EXCEPT ![r].unavailable = unavailable]
    /\ Write(r, "tail", 200)
    /\ UNCHANGED <<req, ctx, client, wire, history>> /\ UNCHANGED counters

----------------------------------------------------------------------------
(* forward *)

\* Mutant: the increment is forgotten.
NoAddInflight(r) ==
    /\ Goto(r, "addInflight", "addForwarded")
    /\ UNCHANGED <<req, ctx, client, wire, reply, scrape, history>> /\ UNCHANGED counters

AddInflight(r) ==
    /\ Goto(r, "addInflight", "addForwarded")
    /\ inflight' = inflight + 1
    /\ UNCHANGED <<req, ctx, client, wire, reply, forwarded, unavailable, scrape, history>>

\* Mutant: a request is counted as forwarded only once it is known to be
\* answerable, that is, not when its client or its time is gone already.
LateAddForwarded(r) ==
    /\ Goto(r, "addForwarded", "send")
    /\ forwarded' = IF ctx[r] = "live" THEN forwarded + 1 ELSE forwarded
    /\ UNCHANGED <<req, ctx, client, wire, reply, inflight, unavailable, scrape, history>>

AddForwarded(r) ==
    /\ Goto(r, "addForwarded", "send")
    /\ forwarded' = forwarded + 1
    /\ UNCHANGED <<req, ctx, client, wire, reply, inflight, unavailable, scrape, history>>

\* Mutant: inflight.Add(-1) as a plain last statement instead of a defer: the
\* panic of an aborted copy skips it.
PlainLeave(r) ==
    /\ \/ Goto(r, "leave", "done")    /\ inflight' = inflight - 1
       \/ Goto(r, "abort", "aborted") /\ UNCHANGED inflight
    /\ UNCHANGED <<req, ctx, client, wire, reply, forwarded, unavailable, scrape, history>>

\* The deferred inflight.Add(-1), on return and while a panic unwinds.
Leave(r) ==
    /\ \/ Goto(r, "leave", "done")
       \/ Goto(r, "abort", "aborted")
    /\ inflight' = inflight - 1
    /\ UNCHANGED <<req, ctx, client, wire, reply, forwarded, unavailable, scrape, history>>

\* The steps of ErrorHandler.
ErrorStep(r, from, to) ==
    /\ Goto(r, from, to)
    /\ UNCHANGED <<req, ctx, client, wire, inflight, forwarded, scrape, history>>

\* Mutant: any ended context is taken for a disconnect.
QuietErrorHandler(r) ==
    /\ ErrorStep(r, "error", IF ctx[r] # "live" THEN "leave" ELSE "addUnavailable")
    /\ UNCHANGED <<reply, unavailable>>

\* Mutant: the failure is counted before the disconnect test.
EagerErrorHandler(r) ==
    /\ ErrorStep(r, "error", IF ctx[r] = "canceled" THEN "leave" ELSE "refuse")
    /\ unavailable' = unavailable + 1 /\ UNCHANGED reply

\* Mutant: the disconnect test is dropped.
CountingErrorHandler(r) ==
    ErrorStep(r, "error", "addUnavailable") /\ UNCHANGED <<reply, unavailable>>

\* Mutant: a failed request is offered to the backend once more.
RetryingErrorHandler(r) ==
    /\ ErrorStep(r, "error", IF ctx[r] = "canceled" THEN "leave"
                             ELSE IF ctx[r] = "live" /\ wire[r] = 1 THEN "send"
                             ELSE "addUnavailable")
    /\ UNCHANGED <<reply, unavailable>>

\* The proxy's ErrorHandler returns if by now the client is known to have gone;
\* otherwise the failure is counted, and then answered, whatever becomes of the
\* client after the test.
ErrorHandler(r) ==
    /\ ErrorStep(r, "error", IF ctx[r] = "canceled" THEN "leave" ELSE "addUnavailable")
    /\ UNCHANGED <<reply, unavailable>>

AddUnavailable(r) ==
    /\ ErrorStep(r, "addUnavailable", "refuse")
    /\ unavailable' = unavailable + 1 /\ UNCHANGED reply

WriteUnavailable(r) ==
    /\ ErrorStep(r, "refuse", "leave")
    /\ Write(r, "proxy", 503) /\ UNCHANGED unavailable

----------------------------------------------------------------------------
(* httputil.ReverseProxy and http.Transport, from how forward uses them.    *)
(* External.                                                                *)

ProxyStep(r, from, to) ==
    /\ Goto(r, from, to)
    /\ UNCHANGED <<req, ctx, client, scrape, earlier>> /\ UNCHANGED counters

\* No response header will come: the proxy calls its ErrorHandler.
GiveUp(r, from, cause) ==
    /\ ProxyStep(r, from, "error")
    /\ fault' = [fault EXCEPT ![r] = cause]

\* The request goes out over a connection to the backend.
Send(r) ==
    /\ ctx[r] = "live"
    /\ ProxyStep(r, "send", "await")
    /\ wire' = [wire EXCEPT ![r] = @ + 1]
    /\ UNCHANGED <<reply, fault>>

\* No connection could be had.
DialFails(r) == GiveUp(r, "send", "dial") /\ UNCHANGED <<wire, reply>>

\* The client's body cannot be read to its end, because its chunks are malformed
\* or the client left in the middle: the transport has nothing to send on.  The
\* context may well be live.
UploadFails(r) ==
    /\ req[r].body
    /\ GiveUp(r, "send", "upload") \/ GiveUp(r, "await", "upload")
    /\ UNCHANGED <<wire, reply>>

\* The connection broke before a response header came, or what came is none: the
\* transport replays what it may, and gives up on the rest.
ConnectionLost(r) ==
    /\ \/ GiveUp(r, "await", "lost")
       \/ /\ Replayable(req[r]) /\ wire[r] <= MaxResend /\ ctx[r] = "live"
          /\ ProxyStep(r, "await", "send") /\ UNCHANGED fault
    /\ UNCHANGED <<wire, reply>>

\* A response header arrives and is copied to the client, status unchanged.
Answer(r) ==
    /\ ProxyStep(r, "await", "stream")
    /\ \E code \in BackendCodes : Write(r, "backend", code)
    /\ UNCHANGED <<wire, fault>>

\* The body has been copied to its end: blocked while the client does not read.
StreamEnds(r) ==
    /\ client[r] # "stalled"
    /\ ProxyStep(r, "stream", "leave")
    /\ UNCHANGED <<wire, reply, fault>>

\* The backend's body, or the client's connection, fails in the middle of the
\* copy: the proxy panics with http.ErrAbortHandler.
StreamBreaks(r) ==
    /\ client[r] # "stalled"
    /\ ProxyStep(r, "stream", "abort")
    /\ UNCHANGED <<wire, reply, fault>>

\* The context has ended: the transport gives up waiting, a body read fails.  A
\* copy blocked in a Write to a stalled client does not see it.
ContextEnds(r) ==
    /\ ctx[r] # "live"
    /\ \/ GiveUp(r, "send", "context")
       \/ GiveUp(r, "await", "context")
       \/ client[r] # "stalled" /\ ProxyStep(r, "stream", "abort") /\ UNCHANGED fault
    /\ UNCHANGED <<wire, reply>>

----------------------------------------------------------------------------
(* The client's connection and the clock *)

ClientStep(r, from, to) ==
    /\ client[r] \in from /\ client' = [client EXCEPT ![r] = to]
    /\ UNCHANGED <<req, pc, ctx, wire, reply, scrape, history>> /\ UNCHANGED counters

Stall(r) == pc[r] = "stream" /\ ClientStep(r, {"reading"}, "stalled")
Resume(r) == ClientStep(r, {"stalled"}, "reading")
Disconnect(r) == pc[r] \in Inside /\ ClientStep(r, {"reading", "stalled"}, "gone")

EndContext(r, cause) ==
    /\ ctx[r] = "live" /\ ctx' = [ctx EXCEPT ![r] = cause]
    /\ UNCHANGED <<req, pc, client, wire, reply, scrape, history>> /\ UNCHANGED counters

\* The server's background read sees the end of the connection.
NoticeDisconnect(r) == pc[r] \in Inside /\ client[r] = "gone" /\ EndContext(r, "canceled")

\* Mutant: a timeout for the response header only.
HeaderTimeout(r) == pc[r] \in Inside \ {"stream"} /\ EndContext(r, "deadline")

\* context.WithTimeout(r.Context(), RequestTimeout) runs out.
Timeout(r) == pc[r] \in Inside /\ EndContext(r, "deadline")

----------------------------------------------------------------------------
HandlerStep(r) ==
    \/ ServeHTTP(r) \/ LoadInflight(r) \/ LoadForwarded(r) \/ LoadUnavailable(r)
    \/ AddInflight(r) \/ AddForwarded(r) \/ Leave(r)
    \/ ErrorHandler(r) \/ AddUnavailable(r) \/ WriteUnavailable(r)

Transport(r) ==
    \/ Send(r) \/ DialFails(r) \/ UploadFails(r) \/ ConnectionLost(r) \/ Answer(r)
    \/ StreamEnds(r) \/ StreamBreaks(r)

Environment(r) ==
    \/ Stall(r) \/ Resume(r) \/ Disconnect(r) \/ NoticeDisconnect(r)

\* Every request of the run is over; a server waits here for the next one.
AllOver == (\A r \in Req : pc[r] \in Over) /\ UNCHANGED vars

Next ==
    \/ \E r \in Req : \/ \E s \in Shapes : Arrive(r, s)
                      \/ HandlerStep(r) \/ attestation(r) \/ Transport(r)
                      \/ ContextEnds(r) \/ Timeout(r) \/ Environment(r)
    \/ AllOver

Spec == Init /\ [][Next]_vars

\* A runnable goroutine runs, the transport reacts to an ended context, and the
\* timer fires.  Nothing is assumed of the backend or of the client.
Fairness ==
    \A r \in Req : WF_vars(HandlerStep(r)) /\ WF_vars(ContextEnds(r)) /\ WF_vars(Timeout(r))

FairSpec == Spec /\ Fairness

----------------------------------------------------------------------------
(* Properties *)

\* The state is well typed; the gauge tail_inflight is never negative.
TypeOK ==
    /\ req \in [Req -> Shapes]
    /\ pc \in [Req -> {"idle"} \cup Running \cup Over]
    /\ ctx \in [Req -> {"live", "canceled", "deadline"}]
    /\ client \in [Req -> {"reading", "stalled", "gone"}]
    /\ wire \in [Req -> Nat]
    /\ reply \in [Req -> [from : {"none", "tail", "proxy", "backend"}, code : Nat]]
    /\ inflight \in Nat /\ forwarded \in Nat /\ unavailable \in Nat
    /\ scrape \in [Req -> [inflight : Nat, forwarded : Nat, unavailable : Nat]]
    /\ earlier \in [Req -> SUBSET Req]
    /\ fault \in [Req -> {"none", "dial", "upload", "lost", "context"}]

\* tail_inflight is at every moment the number of goroutines inside forward,
\* whichever way they leave it: a return, an error, or the panic of an aborted
\* copy (handler.go, forward).
InflightExact == inflight = Cardinality({r \in Req : pc[r] \in Inside})

\* tail_forwarded_total counts every request that got as far as the proxy, and
\* tail_transport_unavailable_total every 503 of the error handler: it never
\* lags behind the answers clients have, and is ahead of them by exactly the
\* goroutines that have counted a failure and not yet written its 503, however
\* many requests fail at once and whoever disconnects in that window.
Forwarding(r) == Routes[req[r]].do = "forward" /\ pc[r] \in Proxying \cup Over
Refused(r) == reply[r] = [from |-> "proxy", code |-> 503]
TotalsExact ==
    /\ forwarded = Cardinality({r \in Req : Forwarding(r)})
    /\ unavailable = Cardinality({r \in Req : Refused(r) \/ pc[r] = "refuse"})

\* A forwarded request whose handler returns without having written anything
\* belongs to a client that has gone: a backend failure or a timeout never
\* becomes an empty 200 to a client that is still there.
SilentOnlyToGone ==
    \A r \in Req :
        pc[r] = "done" /\ reply[r].from = "none" => client[r] = "gone"

\* A 503 of the error handler has one of four causes: no connection to the
\* backend, a broken one, no answer within RequestTimeout, or an upload that the
\* client itself left unreadable - the last is no fault of the backend, and the
\* counter does not tell it from the others.  What never becomes a 503, nor is
\* counted, is a request whose round trip was cancelled because its client had hung
\* up, however the disconnect, the timer and the failure race.
UnavailableHasCause ==
    \A r \in Req : Refused(r) \/ pc[r] = "refuse" =>
        \/ fault[r] \in {"dial", "lost"}
        \/ fault[r] = "upload" /\ req[r].body
        \/ fault[r] = "context" /\ ctx[r] = "deadline"

\* The allowlist of the documentation and the route tests.
Listed(s) ==
    \/ s.target \in Management
    \/ s.target = Models /\ s.method = "GET"
    \/ s.method = "POST" /\ s.target \in {<<"v1", n>> : n \in {"completions", "responses",
                                            "systemone", "embeddings"}}
                                         \cup {<<"v1", "chat", "completions">>}

\* What reaches the backend was authenticated by exactly one matching
\* Authorization value and was spelled by the client exactly as an allowlisted
\* route is written: no dot segment, empty segment, escape or absolute form is
\* folded into a route on the way (canonical, authorized).
OnlyListedSpellings ==
    \A r \in Req : wire[r] > 0 =>
        LET s == req[r]
        IN /\ s.auths = <<Token>> /\ s.form = "origin"
           /\ Listed(s) /\ s.target \notin {PigMetrics, Upstream, Report}
           /\ Outbound(s).path = IF s.target = V1Metrics THEN Metrics ELSE s.target

\* The backend gets the one credential the caller presented, even if the caller
\* lists Authorization in Connection; of the other headers it gets those that are
\* neither listed there, nor hop-by-hop, nor the proxy's to drop, and all of
\* those (forward strips, the proxy cleans, Rewrite sets, in this order).
CredentialSurvives ==
    \A r \in Req : wire[r] > 0 =>
        LET s == req[r]
            header == Outbound(s).header
            dropped == s.connection \cup HopByHop \cup ForwardedBy
        IN /\ DOMAIN header = {"Authorization"} \cup (s.headers \ dropped)
           /\ header["Authorization"] = s.auths /\ Len(s.auths) = 1

\* docs/production.md: query strings of the two Governor routes pass unchanged.
GovernorQueryKept ==
    \A r \in Req : wire[r] > 0 /\ req[r].target \in {Profile, Policy} =>
                      Outbound(req[r]).query = req[r].query

\* A request with a body - every generation, every PATCH of the policy - is put
\* on the wire at most once: TAIL itself never retries, and the transport may
\* not.
BodyAtMostOnce == \A r \in Req : req[r].body => wire[r] <= 1

\* What TAIL answers of itself, against the contract in docs/runtime.md and the
\* route tests: everything outside the allowlist is 404, authenticated or not;
\* on the allowlist nothing but 401 is said without the credential; 405 only to
\* an authenticated caller of a management path, and to anyone on /healthz.
DocumentedReplies ==
    \A r \in Req : reply[r].from = "tail" =>
        LET s == req[r]
            code == reply[r].code
            known == s.auths = <<Token>>
            plain == s.form = "origin"
        IN /\ plain /\ s.target = Healthz => code = IF s.method = "GET" THEN 200 ELSE 405
           /\ plain /\ Listed(s) /\ ~known => code = 401
           /\ plain /\ s.target \in Management /\ known /\ s.method \notin Allowed(s.target) => code = 405
           /\ ~plain \/ (s.target # Healthz /\ ~Listed(s)) => code = 404

\* A scrape that starts after another has ended never shows a smaller total: a
\* decrease would read as a counter reset.  And although the counters of a scrape
\* are loaded one by one while requests come and go, the failures one scrape
\* shows are all among the forwards the next one shows.
ScrapesMonotone ==
    \A q, r \in Req :
        q \in earlier[r] /\ pc[r] = "done" =>
           /\ scrape[q].forwarded <= scrape[r].forwarded
           /\ scrape[q].unavailable <= scrape[r].unavailable
           /\ scrape[q].unavailable <= scrape[r].forwarded

\* Every request that enters forward leaves it - by answer, failure or timeout -
\* even if the backend never says anything, unless its client stays connected
\* without reading: RequestTimeout does not interrupt a blocked write.
EveryForwardEnds ==
    \A r \in Req : (<>[](client[r] # "stalled")) => (pc[r] \in Inside ~> pc[r] \in Over)

----------------------------------------------------------------------------
(* What forward promises *)

PhaseOf(r) ==
    CASE pc[r] = "addForwarded"                               -> "entered"
      [] pc[r] \in {"send", "await", "stream", "error"}       -> "forwarding"
      [] pc[r] = "addUnavailable"                             -> "refusing"
      [] pc[r] = "refuse"                                     -> "refused"
      [] pc[r] \in {"leave", "abort"}                         -> "leaving"
      [] pc[r] \in Over /\ Routes[req[r]].do = "forward"      -> "over"
      [] OTHER                                                -> "waiting"

AnswerOf(r) == IF reply[r].from = "tail" THEN "none" ELSE reply[r].from

Phases == [r \in Req |-> PhaseOf(r)]
Answers == [r \in Req |-> AnswerOf(r)]
Gone == {r \in Req : ctx[r] = "canceled"}

Contract == INSTANCE ForwardContract WITH phase <- Phases, answer <- Answers, gone <- Gone

\* The handler with its proxy, transport, clients and timers implements
\* ForwardContract: every step of every request is one of its steps, or none.
KeepsContract == Contract!Spec
=============================================================================
