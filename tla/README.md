# TAIL: a verification project

TAIL is the thin, authenticated front of one inference backend: a reverse proxy
with a fixed allowlist, a handful of management routes, an attestation report
and a process that starts, drains and stops. This directory holds TLA+ modules
that model it, TLC configurations that check them on small instances, and
TLAPS proofs of the properties that matter most.

## 1. Inventory

| Component | State | Operations | Interacts with |
| --- | --- | --- | --- |
| Routing (`internal/app/tail/handler.go`, `internal/infra/http/headers.go`) | none | `canonical`, `authorized`, `generation`, dispatch, `RemoveHopByHopHeaders`, `Rewrite` | decides what the handler does and what the backend sees |
| Handler (`handler.go`) | `inflight`, `forwarded`, `unavailable` (atomics) | `ServeHTTP`, `forward`, `ErrorHandler`, `metrics`, `attestation` | one goroutine per request; `httputil.ReverseProxy`, `http.Transport`, the backend, the client |
| Process (`cmd/phala-tail/main.go`) | signal context, `http.Server`, channel `stopped` | `run`: set-up, listen, cancel, wait; the stopper: `Shutdown`, `Close` | two goroutines, signals, connections |
| Attestation service (`internal/runtime/attestation/report.go`, `signing.go`, `tls.go`, `nvidia.go`) | signing keys and configuration of one process | `Generate` | certificate file, dstack, NVML, fallback sources; concurrent calls |
| dstack client (`dstack.go`) | none | `GetQuote`, `Info` | one HTTP call each, 3 s timeout |
| NVML collector (`nvidia_nvml.go`, `nvidia_stub.go`) | none | `Collect` | one driver call per GPU, no timeout |
| TLS snapshot (`cmd/phala-tail/tls.go`) | the certificate the listener serves | `loadTLSConfig` | certificate and key files |
| Usage observer (`internal/infra/openai/completion_usage.go`) | SSE/JSON buffers, candidate usage | `Read`, `Observe`, `Finish` | a response body; not wired into the handler at this commit |
| Status recorder (`internal/infra/http/status_recorder.go`) | status, time stamps | `WriteHeader`, `Write`, ... | not wired in at this commit |
| Health check (`cmd/phala-tail/healthcheck.go`) | none | one request to the own listener | certificate file, listener |
| Error bodies (`internal/infra/openai/response.go`), image smoke test, build files | none | | |

What is hard: handlers run concurrently and leave `forward` by a return, an
error or a panic; the context of a request ends by a disconnect or by the
request timeout, and the error handler looks at it some time after the failure;
the transport may replay a request; the server stops while requests run, while
it is only starting, or because the listener failed; certificates are renewed
while a report is being put together from four outside sources; a restart
changes the signing keys; a response body is cut into reads anywhere, ends with
its last bytes or after them, and outgrows the observer's buffers; the health
check and the server read the same files at different times. The list with its lines is under "hazards" in
`PROJECT.json`.

What makes the parts correct: the counters are exact; nobody who is still there
is left without an answer, and a request cancelled for a client that hung up is not
counted as a backend that is unavailable; what was checked is what is sent; a body is never sent twice; the process always ends
after a signal, never before its requests do except after the grace period; a
report's quote is over exactly what the report shows; the certificate it names
is the one that is served; evidence is complete; the usage that is reported is
that of the whole body, once, however it was read; a recorded status is the one
that was sent; a healthy verdict is about the certificate that is in the files
and on the listener.

## 2. Modules

| Module | Models | Uses |
| --- | --- | --- |
| `TailRoute` | the pure decisions about one request and the outbound request | SequencesExt |
| `TailHandler` | concurrent requests, counters, proxy, timeouts, clients | `TailRoute` |
| `ForwardContract` | what `forward` promises, abstractly | |
| `MCTailHandler` | instances: request shapes, symmetry | `TailHandler` |
| `TailHandlerProofs` | proofs | `TailHandler`, TLAPS |
| `ForwardProofs` | `TailHandler` implements `ForwardContract` | `TailHandlerProofs` |
| `RouteProofs` | proofs about routing, and about scrapes | `TailHandlerProofs` |
| `TailServer` | `run` and its stopper | |
| `TailServerProofs` | proofs | `TailServer`, TLAPS |
| `NvidiaPayload` | what `report.go` makes of an evidence document | |
| `AttestationService` | `Generate`, certificate files, restarts | `NvidiaPayload` |
| `MCAttestationService` | instances | `AttestationService` |
| `AttestationProofs` | proofs | `AttestationService`, TLAPS |
| `UsageDecode` | one JSON document: usage, counts, timings | |
| `UsageObserver` | `CompletionUsageObserver` and its callbacks | `UsageDecode` |
| `UsageBody` | the reader around source and observer, and the mapping to `UsageContract` | `UsageObserver` |
| `UsageContract` | what observing a body promises, over the whole body | `UsageDecode` |
| `MCUsage` | instances | `UsageBody` |
| `UsageProofs` | proofs | `UsageBody`, TLAPS |
| `HealthCheck` | the probe beside the server | |
| `MCHealthCheck` | instance: four certificates | `HealthCheck` |
| `HealthCheckProofs` | proofs | `HealthCheck`, TLAPS |
| `StatusRecorder` | the recorder in front of a response writer | |
| `StatusRecorderProofs` | proofs | `StatusRecorder`, TLAPS |

### TailRoute and TailHandler

A request is a record of what the code tells apart: form and spelling of its
target (a sequence of segments, some of them escaped), query, method,
`Authorization` values, header names, `Connection` tokens, body. `canonical`,
`authorized`, `generation`, `public`, `Management` and `Route` follow the
functions of the same names. The request that goes out is made in the order of
the code: `Handed` is the clone that `ServeHTTP` gives to `forward`,
`RemoveHopByHopHeaders` strips it, `ProxyClean` is what `httputil.ReverseProxy`
removes before it calls `Rewrite`, and `Rewrite` has the last word; `Outbound` is
the four of them. `Decode`, `Clean`, `ProxyClean` and `Replayable` stand for
`net/url`, `path.Clean`, the proxy's cleaning and the replay rule of
`http.Transport`, and are external. The empty path and fragments cannot arrive in a parsed request and are
left out of `canonical`; a clean rooted path is the sequence of its segments.

`TailHandler` gives each request a program counter. `AddInflight`,
`AddForwarded`, `Leave` and the three `Load` actions are the atomic operations
of `forward` and `metrics`, each a step, because goroutines interleave between
them. `Leave` is the deferred decrement: it runs from `leave` (return) and from
`abort` (the panic `http.ErrAbortHandler`). The error handler is
three steps: `ErrorHandler` is the test of the context, made when it runs and not
when the failure happened; `AddUnavailable` counts and `WriteUnavailable` answers.
Between any two of them the client may leave, the timer may fire and a scrape may
load, so the counter runs ahead of the answers by the goroutines in that window,
and a client that is noticed to have gone after the test still gets its 503
written. The environment: `Send`, `DialFails`, `UploadFails` (the client's request
body cannot be read, which ends `RoundTrip` with a live context),
`ConnectionLost` (with replay), `Answer`, `StreamEnds`,
`StreamBreaks`, `ContextEnds` for proxy and transport; `Stall`, `Resume`,
`Disconnect`, and `NoticeDisconnect`, the moment the server cancels the
context; `Timeout`. `earlier` and `fault` are history variables for the
properties.

`ForwardContract` says the same of `forward` without the proxy: a request
enters and is counted, gets the backend's answer, a 503 or, if its client is
known to have left, none, and leaves the gauge once. A 503 is decided on while the
client is not known to be gone, counted, and then given, even to a client that
leaves in between. The mapping
(`Contract`) reads the phase off the program counter, the answer off who wrote
it, and takes a client for gone when the context says so, since that is what
`ErrorHandler` tests.

### TailServer

`main` and `stopper` are the program counters of `run` and of the goroutine it
starts. `ListenAndServe` is split where the other goroutine can come in between:
the test of `inShutdown`, the open socket, the registration of the listener, the
accept loop. `Shutdown` is split the same way: the flag, the closing of the
listener, waiting for `Serve`, polling connections. A signal that comes after
`cancel()` has restored the default action kills the process.

### AttestationService and NvidiaPayload

`Generate` is one action per outside call: `Validate`, `Resolve` (snapshot or
file), `GetQuote`, `Info`, `Configured`, `Collect`, `CollectGPU` (once per GPU),
`Fallback`, `Assemble`. A quote is identified with the report data it is over; a
signing address with its algorithm and the start of the process that made the
keys; a certificate with its public key, which is all that the fingerprint sees;
random nonces never collide. `buildReportData`'s length checks cannot fail on
the addresses of `signing.go` and on a parsed nonce. `Boot` is a successful
start (with a key that does not match, the process does not start), `Stop` ends
it and every call in progress, `ReplaceCertificate` and `ReplaceKey` are
independent writes by somebody else. `NvidiaPayload` abstracts a JSON document
to what is under the keys the code looks at. A configured payload
that is a complete envelope keeps a nonce of its own; `main` configures none.
`GetQuote` also takes a 2xx document without a quote for an answer, as `Decode`
does: such a report leaves with an empty quote, and the two properties about
quotes speak of the others.

### UsageDecode, UsageObserver, UsageBody

A body is a sequence of symbols: line feed, carriage return, space, `data:`,
`[DONE]`, other text, and whole JSON documents, each a record of the fields the
decoders look at. The cut of a read falls between symbols, so a document is
never cut in two; the field name of a line, its space and its document may come
in three reads. A symbol counts one towards a limit. `UsageDecode` follows the
two decoders' order of tests. Timings are half nanoseconds, rounded to a
mantissa as `float64` does; `ToInt` is the conversion of an out-of-range float on
amd64, which the language leaves to the implementation.

`UsageObserver` is a record with the fields of the Go struct and one operator
per method. `UsageBody` makes them a state machine: `ReadSource`, `ReadAhead` and
`ReadThrough` are the ways a `Read` gets its bytes (the last two are
`bufio.Reader`), `ObserveSSE` handles one byte of a stream, `Observed` a plain
chunk, and `observeExpectedLength`, `Settle` and `Peek` are the three endings of
`Read`. The source may end with its last bytes, after them, or fail; an end is
final. `Close` may come at any moment. `given`, `produced` and `ended` are history
variables; `HandedOver` says that the source has said EOF and that every byte it
brought has been handed to the caller.

`UsageContract` knows only the body handed over so far and whether it is complete:
for a body with a declared length and a terminal callback when exactly that length
is handed over, for any other when it is `HandedOver`. A report is allowed only
then, and no byte may follow the end, so a reader that finished before it had
observed the bytes of its last read would break the contract.

Three consequences of the code that the model shows. A surplus that arrives in the
same read as the last declared byte suppresses the report, and that is what
`TestCompletionUsageBodyKnownLengthOverrunDoesNotNotifyTerminal` tests; a
surplus in a later read comes after the report, which the code has made at the
declared length as its neighbouring tests demand, and cannot take it back. Only a
body with a terminal callback is reported at its declared length, any other one at
EOF. And the JSON buffer is bounded by its limit only: a surplus is observed before
the declared length is compared, and the buffer grows for it.

### HealthCheck

Server and probe are two processes that read certificate and key, one file
after the other, while `WriteCert` and `WriteKey` replace them. `BootCert` and
`BootKey` are `loadTLSConfig` in the server; `Start` and `ReadKey` are the same
function in the probe, followed by `healthcheckTLSConfig`. `Dial`, `Handshake`,
`Request` and `Timeout` are the one request. A certificate is its key, its names
and whether it chains to a system root by itself; names are kinds (plain, in need
of trimming, wildcard, blank). `inFile`, `served` and `clean` record what was the
case during the probe.

### StatusRecorder

The handler's calls come in any order, and each is two steps: `WriteHeader`,
`Write`, `Flush` and `ReadFrom` note status and times in the recorder, and
`PassHeader`, `PassWrite`, `PassFlush`, `SourceYields` and `SourceEnds` pass the
call on to a model of `net/http`'s writer, which takes the first final header of
an open connection, sends an implicit 200 before bytes and flushes, and panics on
a status it does not know. The clock may move between the two, so a time that was
noted is an early estimate: a header that goes out with the first bytes may be
later than the first-byte time, and `FirstByteBracketed` says what is left. `ahead`
records that a call was noted of which the writer took nothing: a flush without a
`Flusher`, a `ReadFrom` whose source yielded nothing, a refused status. A status
noted that way can differ from the one sent later. The 101 of `ReverseProxy` is written
on the hijacked connection and does not pass the recorder.

## 3. Runs

| Run | Instance | Shows |
| --- | --- | --- |
| `handler_traffic` | 3 requests: generations and scrapes | `TypeOK`, `InflightExact`, `TotalsExact`, `ScrapesMonotone` |
| `handler_forwards` | 2 requests of every replay class, fair | `SilentOnlyToGone`, `UnavailableHasCause`, `BodyAtMostOnce`, `EveryForwardEnds`, `KeepsContract` |
| `handler_routing` | 1 request of every spelling, method, credential | `OnlyListedSpellings`, `CredentialSurvives`, `DocumentedReplies` |
| `governor_query` | 1 request | violated: the query of the policy route is not passed on unchanged |
| `server_life` | 3 connections, 2 signals, fair | `TypeOK`, `NothingActiveAtExit`, `CutOnlyAfterGrace`, `SuccessOnlyOnSignal`, `NoAcceptWhileDraining`, `AlwaysEnds` |
| `report_binding` | 2 reports, 2 certificates, 2 starts, 3 deployments | `TypeOK`, `QuoteBindsReport`, `ReportNamesListener`, `ReportFollowsRenewal`, `RefusalJustified`, `QuoteAnswersOneChallenge` |
| `report_evidence` | 2 reports, up to 3 GPUs, every configuration, every kind of document | `EvidenceComplete`, `RequiredEvidence` |
| `report_ends` | 2 reports, every fallback, fair | `ReportEnds` |
| `usage_body` | streams up to 8 and plain bodies up to 7 symbols, 10 ways to wrap them | `BuffersBounded`, `CapacityBounded`, `CallbacksOnce`, `CompleteBodyReported`, `ReportsWholeBody` |
| `usage_timing` | plain bodies with timings around the limit | violated: a reported timing is negative |
| `healthcheck` | 4 certificates, 2 file writes, 3 addresses, fair | `TypeOK`, `HealthyMeansServed`, `FailureJustified`, `ProbeEnds` |
| `status_recorder` | 7 statuses, 5 instants | `RecordedIsSent`, `NothingBeforeFinal`, `FirstByteBracketed` |

Bounds. Three requests are enough for a scrape to overlap another one and a
request that is leaving; the counters' races need two. Requests do not influence
each other outside the counters, so forwarding is checked with two and routing
with one. `MaxResend` bounds the transport's replays: one replay
already shows a second delivery. Two signals cover one that is caught and one
that is not. Two certificates and two starts let a report, a
renewal and a restart happen in every order. Three GPUs allow the first, a
middle and the last to fail.

In `usage_body` the limits are 3 symbols for a line or an event and 5 for a JSON
text, so that a line, a joined event and a body each end below, at and above
their limit; 8 symbols hold two events or an event and `[DONE]`; the declared
lengths lie below, at and beyond the limit and the body. `usage_timing` uses 6-bit
integers and a mantissa of 4 bits: what matters is that the mantissa is shorter
than the integer. In `healthcheck` two writes are a complete renewal or two
halves of different ones; the four certificates share key and names, differ in
the key, or have no usable name. Five instants are enough for a provisional
response, a header, a source that waits and a second write to lie apart.

Symmetry is used where requests (and certificates) are interchangeable and no
liveness property is checked.

Fairness. In `TailHandler`: a runnable goroutine runs (`HandlerStep`), the
transport reacts to an ended context (`ContextEnds`) and the timer fires
(`Timeout`). Nothing is assumed of the backend, the client or the server's
detection of a disconnect. `EveryForwardEnds` excludes a client that stays
connected and never reads: no write timeout is set, and the request timeout does
not interrupt a blocked write. In `TailServer`: both goroutines run, the accept
loop notices a closed listener, and the grace timer fires; handlers, clients and
signals owe nothing. `Poll` needs no fairness because `Expire` ends the wait.
In `AttestationService`: a step of `Generate` is taken, unless it waits for
something without a deadline (`NoDeadline`): the driver, and the evidence command,
which is killed at its timeout while a child of it may keep the pipe open that
`Output` reads. File reads end; dstack and the payload URL have client timeouts.
`ReportEnds` is the promise that remains. In `HealthCheck`: reading a file ends,
and the timer fires; nothing is assumed of the network or the server.

Deadlock is checked in every run but `status_recorder`, where a response may be
over: a finished instance of the handler, the server or the service loops in
`AllOver` or `Over`, and a body can always be read again.

Two refinements are checked: `KeepsContract` (the handler implements
`ForwardContract`) and `ReportsWholeBody` (reader and observer implement
`UsageContract`, which sees the whole body at once: its lines, its events up to
`[DONE]`, and exactly one usage among them, or the one JSON text).

Every property has a mutant in `PROJECT.json`: a plausible bug in the code that
the run detects.

## 4. Proofs

The constants are arbitrary except for the named assumptions in the modules:
`Req` finite, statuses and bounds natural numbers, certificates distinct from
the markers "no certificate" and "unusable", targets and credentials of request
shapes finite sequences of strings (`ShapesAreRequests`).

Four definitions are recursive functions: `kept` in `Clean`, `grow` in `Grown`,
`upTo` in `Split` and `data` in `EventData`. Where a proof is about every length
or every capacity, it takes a least counterexample, which exists because `<` is
well founded on the naturals (`LeastNat`). The first use is that the function
exists at all (`KeptExists`, `DoublesExists`, `SplitExists`, `DataExists`), the
next ones are facts about its values.

`TailHandlerProofs` shows the safety invariants of the first two runs for every
set of requests and shapes. Alone they are not inductive. `IInv` adds where a
request can be given what it was routed to (`OnRoute`), what has been written at
each point (`ReplyFollows`), why the proxy gave up (`CauseKnown`), and that a
request that has not been sent has not been sent (`NotYetSent`). The counting
parts use the cardinality theorems: a step changes the counted set by one
element or not at all (`CountingKept`, `QuietSets`, `CountingStep`); everything
else is local to the request that moves (`LocalStep`, `TypeStep`).

`RouteProofs` begins with `path.Clean`: every value of `kept` is a path of plain
segments (`KeptPlain`), and on a path of plain segments it is the path so far
(`PlainKept`). So `Clean` leaves exactly the root and the paths without empty,
"." and ".." segments alone (`CleanExactly`), cleaning twice is cleaning once
(`CleanTwice`), and `canonical` accepts exactly the clean targets whose segments
are literal (`CanonicalExactly`). `ForwardedRoute` and `AnsweredRoute` say which
requests `ServeHTTP` forwards and which it answers, and with what. `RouteInv`
carries that into the states: only what was routed to `forward` is ever on the
wire, and an answer of TAIL to a request that is not forwarded is the one decided
on. The three properties of `handler_routing` follow for every set of shapes;
`OutboundHeader` follows the header through stripping, cleaning and rewriting.
`ScrapesMonotone` needs three more facts (`ScrapeInv`): what a scrape has loaded is
at most the counter, an earlier scrape is over, and the loads of the later one are
in order. That a later scrape shows at least as many forwards as an earlier one
showed failures rests on `FailuresForwarded`: among the counted requests, the
failed ones are a subset of the forwarded ones.

`TailServerProofs` needs the phases of the shutdown (`Phases`: what `main` can
still be doing at each point of the stopper, and that `Serve` has returned once
polling begins), the causes (`Causes`: the context ends by a signal or after
`ListenAndServe` has returned, so `ErrServerClosed` implies a signal) and the
state of connections when polling ends (`Connections`).
`NoAcceptWhileDraining` is an action property and follows from `Phases`.

`AttestationProofs` covers `report_binding` and `report_evidence` for any
requests, certificates, GPUs and starts. The properties speak of finished
reports, so `IInv` has to say what `Generate`'s locals hold on the way there
(`Progress`): after validation the nonce, after resolution a fingerprint that is
right for the deployment (`RightCert`), after the quote the report data it is
over, in the GPU loop one evidence for each GPU before the loop index
(`FirstExtends` is the step of that loop). `Deployment` ties the snapshot to the
listener of the running process; `Reported` and `Refused` are what survives in
the answers. A step of one request leaves the others alone (`GenerateLocal`,
`StillInv`); within a request, `FailInv`, `AdvanceInv`, `KeepInv` and `SettleInv`
treat the kinds of step and `GenerateInv` collects them. A restart only keeps
requests that are not running (`RestInv`). `RequiredEvidence` has an invariant of
its own (`FitInv`): the evidence a call holds, wherever it is between its sources
and its report, fits what the configuration requires.

`ForwardProofs` takes `TailHandlerProofs`' invariant and shows that the initial
states map to initial states of `ForwardContract` and that every action of one
request maps to one of its actions or to a stutter; `ReplyFollows` is what makes
an answer the first one. The contract's `gone` is the context's, so the test of
`ErrorHandler` is where it decides; the count and the answer that follow ask for
nothing more of the client.

`UsageProofs` holds for any content, chunks, limits of at least two and declared
lengths. Of the observer between two calls it keeps `Good`: buffers within their
limits, the JSON text within its capacity and the capacity within the limit
(`GrownFits`: from one on, doubling ends at or above what is required and never
above the limit), the terminal callback at most once and remembered, no usage or evidence
before `Finish` and at most one of each after it; one lemma per method shows that
the method keeps it. Of the reader it keeps `Ends` (an end of the source that is
not reported yet is being returned, or is kept by the look-ahead behind bytes to
hand over, or belongs to a body of the wrong length), `Reads` (what the read in
progress holds) and `Counts` (`remaining` against what was handed over). Two more
invariants stand beside it: `Due` (a declared length that was reached without an
error has been acted on), for the second half of `CompleteBodyReported`, and
`Accounted` (every byte the source brought is handed over, in the read under way or
in the look-ahead), from which a reader that returns EOF has handed everything
over.

`ReportsWhole`, in the same module, is the refinement `ReportsWholeBody`. For a
plain body the invariant is `Whole`: until the report, the observer has kept
exactly what was handed over, or that is past the limit. `PlainSteps` sorts the
reader's steps into those that only see the end of the source, those that hand
bytes over and those that finish, the last with the length or the EOF that makes
the body complete; each is a step of the contract or a stutter (`PlainContract`).
`EndStands` and `SourceStands` say that a body handed over to its end is so for
good, and that it is not while bytes are still to be observed.

For a stream the contract cuts the whole body, while the observer sees one symbol
after the other. So the first lemmas say what one more symbol does to the cut:
it goes into the last line, or ends it, and a blank line ends the event
(`SplitAppend`, `ViewByte`, `ViewLineFeed`, `ViewEnd`); events that have ended
stay as they are (`ViewGrows`); one more line of an event adds its data
(`EventDataAppend`). The invariant `Followed` relates the observer to that cut:
before `[DONE]` (`Follows`) its line is the last line unless that is too long, its
event data is that of the lines since the last blank one unless they are too long
(`AtLine`, `InEvent`), and its candidate sums up the verdicts on the ended events
(`Candidate`); from `[DONE]` on (`Heard`) the candidate is that of the events
before it and the terminal callback has been made. `EventEnds`, `LineEnds` and
`ByteWatched` carry it through `finishSSEEvent`, `processSSELine` and the loop of
`Observe`; `LastOfStream` shows that what `Finish` does with an unfinished line
and event gives the contract's verdict on the whole stream, and `StreamContract`
that every step is one of the contract's or a stutter.

`HealthCheckProofs` keeps `Seen` (the expected certificate is in `inFile`, what is
served is in `served`, and from the request on they are the same certificate) and
`Undisturbed` (as long as `clean` holds, everything the next step tests is in
order).

`StatusRecorderProofs` keeps three relations between recorder, call under way and
writer: `StatusKnown` (as long as nothing was noted in vain, only the call under way
can have noted a status the writer does not have), `HeaderKnown` (a header is timed
before the writer gets it) and `WriteKnown` (so is the first write, and after a
header that went out by itself).

Only model-checked: liveness (`EveryForwardEnds`, `AlwaysEnds`, `ReportEnds`,
`ProbeEnds`), which needs fairness. Every safety invariant, action property and
refinement that a passing run checks is proved.

## 5. Findings

`governor_query`: `docs/production.md` promises for both Governor routes that
query strings pass unchanged. `Rewrite` restores the raw query for the profile
route only, so a query that does not parse is altered on the policy route.

`usage_timing`: `millisecondsDuration` compares with `float64(math.MaxInt64)`,
which is 2^63, one more than the largest duration. A timing of exactly 2^63
nanoseconds (`mean_itl_ms` 9223372036854.775) passes and overflows in the
conversion; on amd64 the callback gets a negative duration, which
`completion_usage_test.go` ("invalid timing") takes for one to be refused.
`>=` would refuse it.

## 6. Limits of the code, and what is not modelled

`ErrorHandler` looks at the context only, not at the error. So
`tail_transport_unavailable_total` also counts requests whose upload the client
itself left unreadable (malformed chunks, say), and the client gets a 503 for them;
`UnavailableHasCause` lists that cause beside those of the backend. A client that
hangs up in the middle of its upload is such a case, too, if the error handler
runs before the server has cancelled the context.

Not modelled:

* Half-closed client connections, 1xx responses, HTTP/2 and an upload that
  stalls: they belong to `net/http`, and the code does not treat them specially.
* `New`'s validation of its configuration, `Close`, logging, the text of
  replies.
* The C shim around NVML, the rewriting of GPU certificate chains, endpoint
  selection and JSON framing of the dstack client.
* `scripts/image-smoke.py` and the build files.
* `CompletionUsageContentTypeEligible` (string comparison), `TerminalSeen` and
  `Unwrap` (accessors), JSON documents cut in two by a read (the observer looks
  at no byte of them before the end).
* Neither the usage observer nor the status recorder is wired into the handler
  at this commit, so they are not composed with it.

## 7. Plan

1. Composition of observer, recorder and handler, if the code comes to use them.
