---------------------------- MODULE MCTailHandler ----------------------------
(***************************************************************************)
(* Instances of TailHandler for TLC.                                       *)
(***************************************************************************)
EXTENDS TailHandler, TLC

\* An authenticated request in origin form with no special header.
Plain(method, target, body) ==
    [form |-> "origin", target |-> target, query |-> "none", method |-> method,
     auths |-> <<Token>>, headers |-> {}, connection |-> {},
     body |-> body, key |-> FALSE, version |-> "absent"]

\* For the interleavings of forwards and scrapes.
Traffic == { Plain("POST", <<"v1", "completions">>, TRUE), Plain("GET", PigMetrics, FALSE) }

\* A generation, and a discovery the transport may replay.
Forwards == { Plain("POST", <<"v1", "completions">>, TRUE), Plain("GET", Models, FALSE) }

\* For the routing: every route and its neighbours, in every spelling, with
\* every kind of credential and method.
Spellings ==
    { <<"">>, <<"*">>, Healthz, <<"healthz", "">>, PigMetrics, V1Metrics, Metrics, Upstream, Policy,
      Profile, <<"admin", "v1", "other">>, Report, Models, <<"v1", "%6dodels">>,
      <<"v1", "", "models">>, <<"v1", ".", "models">>, <<"v1", "x", "..", "models">>,
      <<"v1", "x", "%2e%2e", "models">>, <<"v1", "models", "">>, <<"v1", "a%20b">>,
      <<"v1", "completions">>, <<"v1", "chat", "completions">>, <<"v1", "responses">>,
      <<"v1", "systemone">>, <<"v1", "embeddings">>, <<"v1", "embeddings", "">>,
      <<"..", "v1", "metrics">> }

AllShapes ==
    [form : {"origin", "absolute"}, target : Spellings, query : {"none", "unparsable"},
     method : {"GET", "POST", "PATCH"},
     auths : {<<>>, <<Token>>, <<"other">>, <<Token, Token>>, <<"other", Token>>},
     headers : {{}, {"Accept", "Te", "X-Trace", "X-Forwarded-For"}},
     connection : {{}, {"X-Trace", "Authorization"}},
     body : {FALSE}, key : {FALSE}, version : {"absent"}]
    \cup [form : {"origin"}, target : {Report}, query : {"clean"}, method : {"GET"},
          auths : {<<Token>>}, headers : {{}}, connection : {{}}, body : {FALSE},
          key : {FALSE}, version : {"1", "2", "garbage"}]
    \cup [form : {"origin"}, target : {<<"v1", "systemone">>}, query : {"clean"}, method : {"POST"},
          auths : {<<Token>>}, headers : {{}}, connection : {{}}, body : BOOLEAN,
          key : {TRUE}, version : {"absent"}]

Symmetry == Permutations(Req)
=============================================================================
