------------------------------ MODULE TailRoute ------------------------------
(***************************************************************************)
(* What TAIL decides about one request before any counter or connection is *)
(* touched: canonical, authorized, generation and the dispatch of          *)
(* Handler.ServeHTTP, and the request that forward and the proxy's Rewrite *)
(* put on the wire (internal/app/tail/handler.go, infra/http/headers.go).  *)
(*                                                                         *)
(* A request s is a record                                                 *)
(*   form       the request-target form: origin, absolute or asterisk      *)
(*   target     the path as the client spelled it, split at "/"            *)
(*   query      "none", "clean" or "unparsable" (url.ParseQuery fails)     *)
(*   method     the HTTP method                                            *)
(*   auths      the values of the Authorization header, in order           *)
(*   headers    the names of the other headers present                     *)
(*   connection the names listed in Connection                             *)
(*   body, key  whether it has a body, and an Idempotency-Key              *)
(*   version    the report version asked for: absent, a number or garbage  *)
(***************************************************************************)
EXTENDS Naturals, Sequences, SequencesExt

\* The one credential, and every other value an Authorization header can hold.
Token == "Bearer TOKEN"

----------------------------------------------------------------------------
(* Paths *)

\* Percent-decoding of one segment.  Two of the spellings are needless escapes
\* (the decoded text needs none), one is the escape its text requires.
Decode(seg) ==
    CASE seg = "%6dodels" -> "models"
      [] seg = "%2e%2e"   -> ".."
      [] seg = "a%20b"    -> "a b"
      [] OTHER            -> seg

\* The default encoding of a decoded segment (url.URL.EscapedPath).
Encode(seg) == IF seg = "a b" THEN "a%20b" ELSE seg

DecodePath(raw) == [i \in 1..Len(raw) |-> Decode(raw[i])]
EncodePath(path) == [i \in 1..Len(path) |-> Encode(path[i])]

\* path.Clean of a rooted path: empty and "." segments vanish, ".." drops the
\* segment before it, and nothing at all is the root.
CleanSegment(kept, seg) ==
    CASE seg \in {"", "."} -> kept
      [] seg = ".."        -> IF kept = <<>> THEN kept ELSE Front(kept)
      [] OTHER             -> Append(kept, seg)
Clean(path) ==
    LET kept[i \in 0..Len(path)] == IF i = 0 THEN <<>> ELSE CleanSegment(kept[i - 1], path[i])
    IN IF kept[Len(path)] = <<>> THEN <<"">> ELSE kept[Len(path)]

\* What the server's URL parser makes of the spelling: Path is decoded, and
\* RawPath is kept only when the default encoding would not give it back.
URLPath(s) == DecodePath(s.target)
RawPath(s) == IF EncodePath(URLPath(s)) = s.target THEN <<>> ELSE s.target
EscapedPath(s) == IF RawPath(s) # <<>> THEN RawPath(s) ELSE EncodePath(URLPath(s))

\* Mutant: the decoded path decides, whatever its spelling.
LenientCanonical(s) == s.form = "origin" /\ Clean(URLPath(s)) = URLPath(s)

canonical(s) ==
    /\ s.form = "origin"
    /\ RawPath(s) = <<>>
    /\ Clean(URLPath(s)) = URLPath(s)
    /\ EscapedPath(s) = URLPath(s)
    /\ s.target = URLPath(s)

----------------------------------------------------------------------------
(* Routes *)

Healthz     == <<"healthz">>
PigMetrics  == <<"pig", "metrics">>
V1Metrics   == <<"v1", "metrics">>
Metrics     == <<"metrics">>
Upstream    == <<"v1", "upstream-status">>
Policy      == <<"admin", "v1", "predictive-policy">>
Profile     == <<"admin", "v1", "predictive-profile">>
Report      == <<"v1", "attestation", "report">>
Models      == <<"v1", "models">>

generation(p) ==
    p \in {<<"v1", "chat", "completions">>, <<"v1", "completions">>, <<"v1", "responses">>}

Management == {PigMetrics, V1Metrics, Upstream, Policy, Profile, Report}

public(s) ==
    \/ /\ \/ generation(URLPath(s))
          \/ URLPath(s) \in {<<"v1", "systemone">>, <<"v1", "embeddings">>}
       /\ s.method = "POST"
    \/ URLPath(s) = Models /\ s.method = "GET"

authorized(s) == Len(s.auths) = 1 /\ s.auths[1] = Token

\* The management methods that are not answered 405.
Allowed(p) == IF p = Policy THEN {"GET", "PATCH"} ELSE {"GET"}

Reply(code)  == [do |-> "reply", code |-> code]
Do(what)     == [do |-> what, code |-> 0]

\* The switch over the management paths, for an authenticated request.
ManagementRoute(s) ==
    LET p == URLPath(s)
    IN CASE s.method \notin Allowed(p)             -> Reply(405)
         [] s.method \in Allowed(p) /\ p = Report     -> Do("attestation")
         [] s.method \in Allowed(p) /\ p = Upstream   -> Reply(503)
         [] s.method \in Allowed(p) /\ p = PigMetrics -> Do("metrics")
         [] OTHER                                  -> Do("forward")

\* Mutant: a wrong method on a management path is answered before the caller
\* has authenticated.
MethodFirst(s) ==
    LET p == URLPath(s)
    IN IF ~canonical(s) THEN Reply(404)
       ELSE IF p = Healthz THEN Reply(IF s.method = "GET" THEN 200 ELSE 405)
       ELSE IF p \notin Management /\ ~public(s) THEN Reply(404)
       ELSE IF p \in Management /\ s.method \notin Allowed(p) THEN Reply(405)
       ELSE IF ~authorized(s) THEN Reply(401)
       ELSE IF p \in Management THEN ManagementRoute(s) ELSE Do("forward")

\* Handler.ServeHTTP up to the point where a reply is written or the request is
\* handed to forward, metrics or attestation.
Route(s) ==
    LET p == URLPath(s)
    IN IF ~canonical(s) THEN Reply(404)
       ELSE IF p = Healthz THEN Reply(IF s.method = "GET" THEN 200 ELSE 405)
       ELSE IF p \notin Management /\ ~public(s) THEN Reply(404)
       ELSE IF ~authorized(s) THEN Reply(401)
       ELSE IF p \in Management THEN ManagementRoute(s) ELSE Do("forward")

----------------------------------------------------------------------------
(* The outbound request *)

HopByHop == {"Connection", "Proxy-Connection", "Keep-Alive", "Proxy-Authenticate",
             "Proxy-Authorization", "Te", "Trailer", "Transfer-Encoding", "Upgrade"}

\* The header of a request: the values of every name present.  Of the values
\* only those of Authorization matter.
Header(s) ==
    [n \in s.headers \cup (IF s.auths = <<>> THEN {} ELSE {"Authorization"})
                     \cup (IF s.connection = {} THEN {} ELSE {"Connection"})
       |-> IF n = "Authorization" THEN s.auths ELSE <<"value">>]

Del(header, names) == Restrict(header, DOMAIN header \ names)
Set(header, name, value) ==
    [n \in DOMAIN header \cup {name} |-> IF n = name THEN <<value>> ELSE header[n]]

\* RemoveHopByHopHeaders: the names Connection lists, then the fixed ones.
RemoveHopByHopHeaders(header, connection) == Del(Del(header, connection), HopByHop)

\* The request ServeHTTP hands to forward: a clone in which /v1/metrics has
\* become /metrics.
Handed(s) ==
    [path |-> IF URLPath(s) = V1Metrics THEN Metrics ELSE URLPath(s),
     method |-> s.method, query |-> s.query, header |-> Header(s)]

\* httputil.ReverseProxy, before Rewrite, drops query parameters that do not
\* parse, and the headers by which proxies name the client.  External.
ForwardedBy == {"Forwarded", "X-Forwarded-For", "X-Forwarded-Host", "X-Forwarded-Proto"}
ProxyClean(m) ==
    [m EXCEPT !.query = IF @ = "unparsable" THEN "cleaned" ELSE @,
              !.header = Del(@, ForwardedBy)]

\* The proxy's Rewrite, given the request it was handed and the one to send: the
\* profile query is restored, and Authorization is overwritten.
Rewrite(in, out) ==
    [out EXCEPT !.query = IF in.path = Profile THEN in.query ELSE @,
                !.header = Set(@, "Authorization", Token)]

\* Mutant: what Connection lists is removed from the outgoing request, after
\* Rewrite has set the credential.
StripLast(s) ==
    LET in == Handed(s)
    IN [Rewrite(in, ProxyClean(in)) EXCEPT !.header = RemoveHopByHopHeaders(@, s.connection)]

\* What goes to the backend: forward strips the hop-by-hop headers of its clone,
\* the proxy cleans its copy of that, and Rewrite has the last word.
Outbound(s) ==
    LET in == [Handed(s) EXCEPT !.header = RemoveHopByHopHeaders(@, s.connection)]
    IN Rewrite(in, ProxyClean(in))

\* http.Transport sends a request again over a fresh connection only if it has
\* no body to rewind and its method or an Idempotency-Key makes it safe.
\* External.
Replayable(s) == ~s.body /\ (s.method = "GET" \/ s.key)
=============================================================================
