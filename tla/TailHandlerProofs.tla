-------------------------- MODULE TailHandlerProofs --------------------------
(***************************************************************************)
(* Proofs about TailHandler for every set of requests, every set of        *)
(* request shapes and every replay bound.                                  *)
(***************************************************************************)
EXTENDS TailHandler, FiniteSetTheorems, TLAPS

\* A goroutine is only where ServeHTTP's decision sends it.
OnRoute ==
    \A r \in Req :
        /\ pc[r] \in Inside \cup {"addInflight"} => Routes[req[r]].do = "forward"
        /\ pc[r] \in Loading => Routes[req[r]].do = "metrics"
        /\ pc[r] = "attestation" => Routes[req[r]].do = "attestation"

\* Nothing is written before the response header, a copy in progress is a copy of
\* the backend's answer, and the proxy answers only what forward handed to it.
Unwritten == {"idle", "serve", "addInflight", "addForwarded", "send", "await", "error",
              "addUnavailable", "refuse", "attestation"} \cup Loading
ReplyFollows ==
    \A r \in Req :
        /\ pc[r] \in Unwritten => reply[r] = NoReply
        /\ pc[r] \in {"stream", "abort", "aborted"} => reply[r].from = "backend"
        /\ pc[r] = "leave" /\ reply[r].from = "none" => client[r] = "gone"
        /\ reply[r].from = "proxy" => pc[r] \in {"leave", "done"} /\ Routes[req[r]].do = "forward"

\* A context is canceled by a disconnect, and an error has a cause.  Past the
\* disconnect test, an ended context is an expired one, and stays so.
CauseKnown ==
    \A r \in Req :
        /\ ctx[r] = "canceled" => client[r] = "gone"
        /\ pc[r] \in {"error", "addUnavailable"} =>
              \/ fault[r] \in {"dial", "lost"}
              \/ fault[r] = "upload" /\ req[r].body
              \/ fault[r] = "context" /\ ctx[r] # "live"
        /\ pc[r] = "addUnavailable" /\ fault[r] = "context" => ctx[r] = "deadline"

\* Nothing is on the wire before the proxy runs, and a request with a body is not
\* offered again.
NotYetSent ==
    \A r \in Req :
        /\ pc[r] \in {"idle", "serve", "addInflight", "addForwarded"} => wire[r] = 0
        /\ pc[r] = "send" /\ req[r].body => wire[r] = 0

\* The facts about single requests, and the three sets the counters count.
Local == /\ OnRoute /\ ReplyFollows /\ CauseKnown /\ NotYetSent
         /\ SilentOnlyToGone /\ UnavailableHasCause /\ BodyAtMostOnce
InsideSet == {r \in Req : pc[r] \in Inside}
ForwardSet == {r \in Req : Forwarding(r)}
UnavailableSet == {r \in Req : Refused(r) \/ pc[r] = "refuse"}

\* The inductive invariant: the counters count their sets, and the facts about
\* single requests say which sets a step of a request can enter or leave.
IInv == TypeOK /\ Local /\ InflightExact /\ TotalsExact

----------------------------------------------------------------------------
\* The status in a routing decision is a number (Route, ManagementRoute).
LEMMA RouteType ==
    ASSUME NEW s \in Shapes
    PROVE  /\ Routes[s] = Route(s)
           /\ Routes[s].code \in Nat
<1>1. Routes[s] = Route(s)
    BY DEF Routes
<1>2. ManagementRoute(s).code \in Nat
    BY DEF ManagementRoute, Reply, Do
<1>3. Route(s).code \in Nat
    BY <1>2 DEF Route, Reply, Do
<1>. QED  BY <1>1, <1>3

\* Every status attestation writes is a number.
LEMMA AttestationCodesType ==
    ASSUME NEW s PROVE AttestationCodes(s) \subseteq Nat
BY DEF AttestationCodes

\* What is written to a client is a sender and a status.
LEMMA WriteType ==
    ASSUME TypeOK, NEW r \in Req, NEW from \in {"none", "tail", "proxy", "backend"},
           NEW code \in Nat, Write(r, from, code)
    PROVE  reply' \in [Req -> [from : {"none", "tail", "proxy", "backend"}, code : Nat]]
<1>1. [from |-> from, code |-> code] \in [from : {"none", "tail", "proxy", "backend"}, code : Nat]
    OBVIOUS
<1>. QED  BY <1>1 DEF TypeOK, Write

\* The three counted sets are subsets of the finite set Req.
LEMMA SetsFinite ==
    /\ IsFiniteSet(InsideSet) /\ IsFiniteSet(ForwardSet) /\ IsFiniteSet(UnavailableSet)
    /\ Cardinality(InsideSet) \in Nat
    /\ Cardinality(ForwardSet) \in Nat
    /\ Cardinality(UnavailableSet) \in Nat
<1>1. /\ InsideSet \in SUBSET Req
      /\ ForwardSet \in SUBSET Req
      /\ UnavailableSet \in SUBSET Req
    BY DEF InsideSet, ForwardSet, UnavailableSet
<1>2. IsFiniteSet(InsideSet) /\ IsFiniteSet(ForwardSet) /\ IsFiniteSet(UnavailableSet)
    BY <1>1, FS_Subset, ReqFinite
<1>. QED  BY <1>2, FS_CardinalityType

\* The initial state satisfies the inductive invariant.
LEMMA InitIInv == Init => IInv
<1> SUFFICES ASSUME Init PROVE IInv
    OBVIOUS
<1>1. (CHOOSE s \in Shapes : TRUE) \in Shapes
    BY ShapesExist
<1>2. TypeOK
    BY <1>1 DEF Init, TypeOK, Running, Over, NoReply, NoLoad
<1>3. Local
    BY <1>1 DEF Init, Local, OnRoute, ReplyFollows, CauseKnown, NotYetSent, SilentOnlyToGone,
        UnavailableHasCause, BodyAtMostOnce, Inside, Loading, NoReply, Unwritten, Refused
<1>4. InsideSet = {} /\ ForwardSet = {} /\ UnavailableSet = {}
    BY DEF Init, InsideSet, ForwardSet, UnavailableSet, Forwarding, Refused, Inside, Proxying, Over, NoReply
<1>5. InflightExact /\ TotalsExact
    BY <1>4, FS_EmptySet DEF Init, InflightExact, TotalsExact, InsideSet, ForwardSet, UnavailableSet
<1>. QED  BY <1>2, <1>3, <1>5 DEF IInv

----------------------------------------------------------------------------
\* A step that moves no request into or out of a counted set and leaves the
\* counters alone keeps the counting exact.
LEMMA CountingKept ==
    ASSUME InflightExact, TotalsExact, UNCHANGED counters,
           InsideSet' = InsideSet, ForwardSet' = ForwardSet, UnavailableSet' = UnavailableSet
    PROVE  InflightExact' /\ TotalsExact'
BY DEF counters, InflightExact, TotalsExact, InsideSet, ForwardSet, UnavailableSet

\* What one request's goroutine, proxy, client and clock can do.
Step(r) ==
    \/ \E s \in Shapes : Arrive(r, s)
    \/ HandlerStep(r) \/ attestation(r) \/ Transport(r)
    \/ ContextEnds(r) \/ Timeout(r) \/ Environment(r)

\* The steps that touch no counter.
QuietStep(r) ==
    \/ \E s \in Shapes : Arrive(r, s)
    \/ ErrorHandler(r) \/ WriteUnavailable(r)
    \/ ServeHTTP(r) \/ LoadInflight(r) \/ LoadForwarded(r) \/ LoadUnavailable(r)
    \/ attestation(r) \/ Transport(r) \/ ContextEnds(r) \/ Timeout(r) \/ Environment(r)

\* Every step keeps the facts about single requests: it changes one request, and
\* its guards give that request's facts again.
LEMMA LocalStep ==
    ASSUME TypeOK, Local, NEW r \in Req, Step(r)
    PROVE  Local'
<1> USE DEF TypeOK, Local, OnRoute, ReplyFollows, CauseKnown, NotYetSent, SilentOnlyToGone,
        UnavailableHasCause, BodyAtMostOnce, Running, Over, Inside, Proxying, Loading,
        NoReply, Unwritten, Goto, Write, counters, history, Refused
<1>1. CASE \E s \in Shapes : Arrive(r, s)
    BY <1>1 DEF Arrive
<1>2. CASE AddInflight(r)
    BY <1>2 DEF AddInflight
<1>3. CASE AddForwarded(r)
    BY <1>3 DEF AddForwarded
<1>4. CASE Leave(r)
  <2>1. CASE Goto(r, "leave", "done")
    BY <1>4, <2>1 DEF Leave
  <2>2. CASE Goto(r, "abort", "aborted")
    BY <1>4, <2>2 DEF Leave
  <2>. QED  BY <1>4, <2>1, <2>2 DEF Leave
<1>5. CASE ErrorHandler(r)
  <2>1. CASE ctx[r] = "canceled"
    BY <1>5, <2>1 DEF ErrorHandler, ErrorStep
  <2>2. CASE ctx[r] # "canceled"
    BY <1>5, <2>2 DEF ErrorHandler, ErrorStep
  <2>. QED  BY <1>5, <2>1, <2>2
<1>23. CASE AddUnavailable(r)
    BY <1>23 DEF AddUnavailable, ErrorStep
<1>24. CASE WriteUnavailable(r)
  <2>0. /\ reply'[r].from = "proxy" /\ \A q \in Req \ {r} : reply'[q] = reply[q]
        /\ pc[r] = "refuse" /\ pc'[r] = "leave" /\ \A q \in Req \ {r} : pc'[q] = pc[q]
        /\ UNCHANGED <<req, fault, ctx, client, wire>>
    BY <1>24 DEF WriteUnavailable, ErrorStep
  <2>1. OnRoute'
    BY <2>0
  <2>2. ReplyFollows'
    BY <2>0
  <2>3. CauseKnown'
    BY <2>0
  <2>4. NotYetSent'
    BY <2>0
  <2>5. SilentOnlyToGone'
    BY <2>0
  <2>6. UnavailableHasCause'
    BY <2>0
  <2>7. BodyAtMostOnce'
    BY <2>0
  <2>. QED  BY <2>1, <2>2, <2>3, <2>4, <2>5, <2>6, <2>7
<1>6. CASE ServeHTTP(r)
  <2>1. CASE Routes[req[r]].do = "reply"
    <3>0. /\ reply'[r].from = "tail" /\ \A q \in Req \ {r} : reply'[q] = reply[q]
          /\ pc' = [pc EXCEPT ![r] = "done"] /\ UNCHANGED <<req, fault, ctx, client>>
      BY <1>6, <2>1 DEF ServeHTTP
    <3>1. OnRoute'
      BY <1>6, <2>1 DEF ServeHTTP
    <3>2. ReplyFollows'
      BY <3>0
    <3>3. CauseKnown'
      BY <1>6, <2>1 DEF ServeHTTP
    <3>4. NotYetSent'
      BY <1>6, <2>1 DEF ServeHTTP
    <3>5. SilentOnlyToGone'
      BY <1>6, <2>1 DEF ServeHTTP
    <3>6. UnavailableHasCause'
      BY <3>0
    <3>7. BodyAtMostOnce'
      BY <1>6, <2>1 DEF ServeHTTP
    <3>. QED  BY <3>1, <3>2, <3>3, <3>4, <3>5, <3>6, <3>7
  <2>2. CASE Routes[req[r]].do # "reply"
    BY <1>6, <2>2 DEF ServeHTTP
  <2>. QED  BY <1>6, <2>1, <2>2
<1>7. CASE attestation(r)
    BY <1>7 DEF attestation
<1>8. CASE LoadInflight(r)
    BY <1>8 DEF LoadInflight
<1>9. CASE LoadForwarded(r)
    BY <1>9 DEF LoadForwarded
<1>10. CASE LoadUnavailable(r)
    BY <1>10 DEF LoadUnavailable
<1>11. CASE Send(r)
    BY <1>11 DEF Send, ProxyStep
<1>12. CASE DialFails(r)
    BY <1>12 DEF DialFails, GiveUp, ProxyStep
<1>25. CASE UploadFails(r)
  <2>1. CASE GiveUp(r, "send", "upload")
    BY <1>25, <2>1 DEF UploadFails, GiveUp, ProxyStep
  <2>2. CASE GiveUp(r, "await", "upload")
    BY <1>25, <2>2 DEF UploadFails, GiveUp, ProxyStep
  <2>. QED  BY <1>25, <2>1, <2>2 DEF UploadFails
<1>13. CASE ConnectionLost(r)
  <2>1. CASE GiveUp(r, "await", "lost")
    BY <1>13, <2>1 DEF ConnectionLost, GiveUp, ProxyStep, Replayable
  <2>2. CASE ProxyStep(r, "await", "send") /\ Replayable(req[r]) /\ UNCHANGED fault
    BY <1>13, <2>2 DEF ConnectionLost, GiveUp, ProxyStep, Replayable
  <2>. QED  BY <1>13, <2>1, <2>2 DEF ConnectionLost
<1>14. CASE Answer(r)
    BY <1>14 DEF Answer, ProxyStep
<1>15. CASE StreamEnds(r)
    BY <1>15 DEF StreamEnds, ProxyStep
<1>16. CASE StreamBreaks(r)
    BY <1>16 DEF StreamBreaks, ProxyStep
<1>17. CASE ContextEnds(r)
  <2>1. CASE GiveUp(r, "send", "context")
    BY <1>17, <2>1 DEF ContextEnds, GiveUp, ProxyStep
  <2>2. CASE GiveUp(r, "await", "context")
    BY <1>17, <2>2 DEF ContextEnds, GiveUp, ProxyStep
  <2>3. CASE ProxyStep(r, "stream", "abort") /\ UNCHANGED fault
    BY <1>17, <2>3 DEF ContextEnds, GiveUp, ProxyStep
  <2>. QED  BY <1>17, <2>1, <2>2, <2>3 DEF ContextEnds
<1>18. CASE Stall(r)
    BY <1>18 DEF Stall, ClientStep
<1>19. CASE Resume(r)
    BY <1>19 DEF Resume, ClientStep
<1>20. CASE Disconnect(r)
    BY <1>20 DEF Disconnect, ClientStep
<1>21. CASE NoticeDisconnect(r)
    BY <1>21 DEF NoticeDisconnect, EndContext
<1>22. CASE Timeout(r)
    BY <1>22 DEF Timeout, EndContext
<1>. QED
    BY <1>1, <1>2, <1>3, <1>4, <1>5, <1>6, <1>7, <1>8, <1>9, <1>10, <1>11, <1>12,
       <1>13, <1>14, <1>15, <1>16, <1>17, <1>18, <1>19, <1>20, <1>21, <1>22, <1>23, <1>24, <1>25
       DEF Step, HandlerStep, Transport, Environment

\* Every step keeps the types, the gauge inflight apart: only the exact count
\* says that its decrement stays a natural number.
LEMMA TypeStep ==
    ASSUME TypeOK, NEW r \in Req, Step(r), inflight' \in Nat
    PROVE  TypeOK'
<1> USE DEF TypeOK, Running, Over, Inside, Loading, Goto, Write, counters, history
<1>1. CASE \E s \in Shapes : Arrive(r, s)
    BY <1>1 DEF Arrive
<1>2. CASE AddInflight(r)
    BY <1>2 DEF AddInflight
<1>3. CASE AddForwarded(r)
    BY <1>3 DEF AddForwarded
<1>4. CASE Leave(r)
  <2>1. CASE Goto(r, "leave", "done")
    BY <1>4, <2>1 DEF Leave
  <2>2. CASE Goto(r, "abort", "aborted")
    BY <1>4, <2>2 DEF Leave
  <2>. QED  BY <1>4, <2>1, <2>2 DEF Leave
<1>5. CASE ErrorHandler(r) \/ AddUnavailable(r)
    BY <1>5 DEF ErrorHandler, AddUnavailable, ErrorStep
<1>23. CASE WriteUnavailable(r)
  <2>1. reply' \in [Req -> [from : {"none", "tail", "proxy", "backend"}, code : Nat]]
    <3>1. Write(r, "proxy", 503)
      BY <1>23 DEF WriteUnavailable
    <3>. QED  BY <3>1, WriteType
  <2>. QED  BY <1>23, <2>1 DEF WriteUnavailable, ErrorStep
<1>6. CASE ServeHTTP(r)
  <2>1. CASE Goto(r, "serve", "done") /\ Write(r, "tail", Routes[req[r]].code)
    <3>1. Routes[req[r]].code \in Nat
      BY RouteType
    <3>2. reply' \in [Req -> [from : {"none", "tail", "proxy", "backend"}, code : Nat]]
      <4>1. Write(r, "tail", Routes[req[r]].code)
        BY <2>1
      <4>. QED  BY <3>1, <4>1, WriteType
    <3>3. pc' \in [Req -> {"idle"} \cup Running \cup Over]
      BY <2>1
    <3>. QED  BY <1>6, <3>2, <3>3 DEF ServeHTTP
  <2>2. CASE Goto(r, "serve", "addInflight") /\ UNCHANGED reply
    BY <1>6, <2>2 DEF ServeHTTP
  <2>3. CASE Goto(r, "serve", "loadInflight") /\ UNCHANGED reply
    BY <1>6, <2>3 DEF ServeHTTP
  <2>4. CASE Goto(r, "serve", "attestation") /\ UNCHANGED reply
    BY <1>6, <2>4 DEF ServeHTTP
  <2>. QED  BY <1>6, <2>1, <2>2, <2>3, <2>4 DEF ServeHTTP
<1>7. CASE attestation(r)
    BY <1>7, AttestationCodesType DEF attestation
<1>8. CASE LoadInflight(r)
    BY <1>8 DEF LoadInflight
<1>9. CASE LoadForwarded(r)
    BY <1>9 DEF LoadForwarded
<1>10. CASE LoadUnavailable(r)
  <2>1. scrape' \in [Req -> [inflight : Nat, forwarded : Nat, unavailable : Nat]]
    BY <1>10 DEF LoadUnavailable
  <2>2. pc' \in [Req -> {"idle"} \cup Running \cup Over]
    BY <1>10 DEF LoadUnavailable
  <2>3. reply' \in [Req -> [from : {"none", "tail", "proxy", "backend"}, code : Nat]]
    BY <1>10 DEF LoadUnavailable
  <2>. QED  BY <1>10, <2>1, <2>2, <2>3 DEF LoadUnavailable
<1>11. CASE Send(r)
    BY <1>11 DEF Send, ProxyStep
<1>12. CASE DialFails(r)
    BY <1>12 DEF DialFails, GiveUp, ProxyStep
<1>25. CASE UploadFails(r)
  <2>1. CASE GiveUp(r, "send", "upload")
    BY <1>25, <2>1 DEF UploadFails, GiveUp, ProxyStep
  <2>2. CASE GiveUp(r, "await", "upload")
    BY <1>25, <2>2 DEF UploadFails, GiveUp, ProxyStep
  <2>. QED  BY <1>25, <2>1, <2>2 DEF UploadFails
<1>13. CASE ConnectionLost(r)
  <2>1. CASE GiveUp(r, "await", "lost")
    BY <1>13, <2>1 DEF ConnectionLost, GiveUp, ProxyStep
  <2>2. CASE ProxyStep(r, "await", "send") /\ Replayable(req[r]) /\ UNCHANGED fault
    BY <1>13, <2>2 DEF ConnectionLost, GiveUp, ProxyStep
  <2>. QED  BY <1>13, <2>1, <2>2 DEF ConnectionLost
<1>14. CASE Answer(r)
    BY <1>14, CodesAreNumbers DEF Answer, ProxyStep
<1>15. CASE StreamEnds(r)
    BY <1>15 DEF StreamEnds, ProxyStep
<1>16. CASE StreamBreaks(r)
    BY <1>16 DEF StreamBreaks, ProxyStep
<1>17. CASE ContextEnds(r)
  <2>1. CASE GiveUp(r, "send", "context")
    BY <1>17, <2>1 DEF ContextEnds, GiveUp, ProxyStep
  <2>2. CASE GiveUp(r, "await", "context")
    BY <1>17, <2>2 DEF ContextEnds, GiveUp, ProxyStep
  <2>3. CASE ProxyStep(r, "stream", "abort") /\ UNCHANGED fault
    BY <1>17, <2>3 DEF ContextEnds, GiveUp, ProxyStep
  <2>. QED  BY <1>17, <2>1, <2>2, <2>3 DEF ContextEnds
<1>18. CASE Stall(r)
    BY <1>18 DEF Stall, ClientStep
<1>19. CASE Resume(r)
    BY <1>19 DEF Resume, ClientStep
<1>20. CASE Disconnect(r)
    BY <1>20 DEF Disconnect, ClientStep
<1>21. CASE NoticeDisconnect(r)
    BY <1>21 DEF NoticeDisconnect, EndContext
<1>22. CASE Timeout(r)
    BY <1>22 DEF Timeout, EndContext
<1>. QED
    BY <1>1, <1>2, <1>3, <1>4, <1>5, <1>6, <1>7, <1>8, <1>9, <1>10, <1>11, <1>12,
       <1>13, <1>14, <1>15, <1>16, <1>17, <1>18, <1>19, <1>20, <1>21, <1>22, <1>23, <1>25
       DEF Step, HandlerStep, Transport, Environment

\* A quiet step moves no request into or out of a counted set.
LEMMA QuietSets ==
    ASSUME TypeOK, Local, NEW r \in Req, QuietStep(r)
    PROVE  /\ InsideSet' = InsideSet /\ ForwardSet' = ForwardSet
           /\ UnavailableSet' = UnavailableSet
           /\ UNCHANGED counters
<1> USE DEF TypeOK, Local, OnRoute, ReplyFollows, Running, Over, Inside, Proxying, Loading,
        NoReply, Unwritten, Goto, Write, counters, history,
        InsideSet, ForwardSet, Forwarding, UnavailableSet, Refused
<1>1. CASE \E s \in Shapes : Arrive(r, s)
    BY <1>1 DEF Arrive
<1>2. CASE ServeHTTP(r)
  <2>1. CASE Routes[req[r]].do = "reply"
    BY <1>2, <2>1 DEF ServeHTTP
  <2>2. CASE Routes[req[r]].do # "reply"
    BY <1>2, <2>2 DEF ServeHTTP
  <2>. QED  BY <2>1, <2>2
<1>3. CASE attestation(r)
    BY <1>3 DEF attestation
<1>4. CASE LoadInflight(r)
    BY <1>4 DEF LoadInflight
<1>5. CASE LoadForwarded(r)
    BY <1>5 DEF LoadForwarded
<1>6. CASE LoadUnavailable(r)
    BY <1>6 DEF LoadUnavailable
<1>7. CASE Send(r)
    BY <1>7 DEF Send, ProxyStep
<1>8. CASE DialFails(r)
    BY <1>8 DEF DialFails, GiveUp, ProxyStep
<1>19. CASE UploadFails(r)
    BY <1>19 DEF UploadFails, GiveUp, ProxyStep
<1>20. CASE ErrorHandler(r)
    BY <1>20 DEF ErrorHandler, ErrorStep
<1>21. CASE WriteUnavailable(r)
  <2>1. UnavailableSet' = UnavailableSet
    BY <1>21 DEF WriteUnavailable, ErrorStep
  <2>2. InsideSet' = InsideSet /\ ForwardSet' = ForwardSet /\ UNCHANGED counters
    BY <1>21 DEF WriteUnavailable, ErrorStep
  <2>. QED  BY <2>1, <2>2
<1>9. CASE ConnectionLost(r)
  <2>1. CASE GiveUp(r, "await", "lost")
    BY <1>9, <2>1 DEF ConnectionLost, GiveUp, ProxyStep
  <2>2. CASE ProxyStep(r, "await", "send") /\ Replayable(req[r]) /\ UNCHANGED fault
    BY <1>9, <2>2 DEF ConnectionLost, GiveUp, ProxyStep
  <2>. QED  BY <1>9, <2>1, <2>2 DEF ConnectionLost
<1>10. CASE Answer(r)
    BY <1>10 DEF Answer, ProxyStep
<1>11. CASE StreamEnds(r)
    BY <1>11 DEF StreamEnds, ProxyStep
<1>12. CASE StreamBreaks(r)
    BY <1>12 DEF StreamBreaks, ProxyStep
<1>13. CASE ContextEnds(r)
  <2>1. CASE GiveUp(r, "send", "context")
    BY <1>13, <2>1 DEF ContextEnds, GiveUp, ProxyStep
  <2>2. CASE GiveUp(r, "await", "context")
    BY <1>13, <2>2 DEF ContextEnds, GiveUp, ProxyStep
  <2>3. CASE ProxyStep(r, "stream", "abort") /\ UNCHANGED fault
    BY <1>13, <2>3 DEF ContextEnds, GiveUp, ProxyStep
  <2>. QED  BY <1>13, <2>1, <2>2, <2>3 DEF ContextEnds
<1>14. CASE Stall(r)
    BY <1>14 DEF Stall, ClientStep
<1>15. CASE Resume(r)
    BY <1>15 DEF Resume, ClientStep
<1>16. CASE Disconnect(r)
    BY <1>16 DEF Disconnect, ClientStep
<1>17. CASE NoticeDisconnect(r)
    BY <1>17 DEF NoticeDisconnect, EndContext
<1>18. CASE Timeout(r)
    BY <1>18 DEF Timeout, EndContext
<1>. QED
    BY <1>1, <1>2, <1>3, <1>4, <1>5, <1>6, <1>7, <1>8, <1>9, <1>10, <1>11, <1>12,
       <1>13, <1>14, <1>15, <1>16, <1>17, <1>18, <1>19, <1>20, <1>21 DEF QuietStep, Transport, Environment

----------------------------------------------------------------------------
\* A step that counts: one set gains or loses exactly the request that moves.
LEMMA CountingStep ==
    ASSUME IInv, NEW r \in Req,
           AddInflight(r) \/ AddForwarded(r) \/ Leave(r) \/ AddUnavailable(r)
    PROVE  inflight' \in Nat /\ InflightExact' /\ TotalsExact'
<1> USE DEF IInv, TypeOK, Local, OnRoute, ReplyFollows, Running, Over, Inside, Proxying, Loading,
        NoReply, Unwritten, Goto, Write, history
<1>0. /\ inflight = Cardinality(InsideSet)
      /\ forwarded = Cardinality(ForwardSet)
      /\ unavailable = Cardinality(UnavailableSet)
    BY DEF InflightExact, TotalsExact, InsideSet, ForwardSet, UnavailableSet
<1> DEFINE Exact == /\ inflight' = Cardinality(InsideSet')
                    /\ forwarded' = Cardinality(ForwardSet')
                    /\ unavailable' = Cardinality(UnavailableSet')
<1>1. SUFFICES inflight' \in Nat /\ Exact
    BY DEF InflightExact, TotalsExact, InsideSet, ForwardSet, UnavailableSet
<1>2. CASE AddInflight(r)
  <2>1. /\ InsideSet' = InsideSet \cup {r} /\ r \notin InsideSet
        /\ ForwardSet' = ForwardSet /\ UnavailableSet' = UnavailableSet
    BY <1>2 DEF AddInflight, InsideSet, ForwardSet, Forwarding, UnavailableSet, Refused
  <2>2. Cardinality(InsideSet') = Cardinality(InsideSet) + 1
    BY <2>1, SetsFinite, FS_AddElement
  <2>. QED  BY <1>0, <1>2, <2>1, <2>2 DEF AddInflight
<1>3. CASE AddForwarded(r)
  <2>1. /\ InsideSet' = InsideSet
        /\ ForwardSet' = ForwardSet \cup {r} /\ r \notin ForwardSet
        /\ UnavailableSet' = UnavailableSet
    BY <1>3 DEF AddForwarded, InsideSet, ForwardSet, Forwarding, UnavailableSet, Refused
  <2>2. Cardinality(ForwardSet') = Cardinality(ForwardSet) + 1
    BY <2>1, SetsFinite, FS_AddElement
  <2>. QED  BY <1>0, <1>3, <2>1, <2>2 DEF AddForwarded
<1>4. CASE Leave(r)
  <2>1. /\ InsideSet' = InsideSet \ {r} /\ r \in InsideSet
        /\ ForwardSet' = ForwardSet /\ UnavailableSet' = UnavailableSet
    BY <1>4 DEF Leave, InsideSet, ForwardSet, Forwarding, UnavailableSet, Refused
  <2>2. /\ IsFiniteSet(InsideSet')
        /\ Cardinality(InsideSet') = Cardinality(InsideSet) - 1
    BY <2>1, SetsFinite, FS_RemoveElement
  <2>3. Cardinality(InsideSet') \in Nat
    BY <2>2, FS_CardinalityType
  <2>. QED  BY <1>0, <1>4, <2>1, <2>2, <2>3 DEF Leave
<1>5. CASE AddUnavailable(r)
  <2>1. InsideSet' = InsideSet /\ ForwardSet' = ForwardSet
    BY <1>5 DEF AddUnavailable, ErrorStep, InsideSet, ForwardSet, Forwarding
  <2>2. UnavailableSet' = UnavailableSet \cup {r} /\ r \notin UnavailableSet
    BY <1>5 DEF AddUnavailable, ErrorStep, UnavailableSet, Refused
  <2>3. Cardinality(UnavailableSet') = Cardinality(UnavailableSet) + 1
    BY <2>2, SetsFinite, FS_AddElement
  <2>. QED  BY <1>0, <1>5, <2>1, <2>3 DEF AddUnavailable, ErrorStep
<1>. QED  BY <1>2, <1>3, <1>4, <1>5

\* The invariant is inductive.
LEMMA NextIInv == IInv /\ [Next]_vars => IInv'
<1> SUFFICES ASSUME IInv, [Next]_vars PROVE IInv'
    OBVIOUS
<1>1. CASE UNCHANGED vars
    BY <1>1 DEF vars, counters, history, IInv, TypeOK, Local, OnRoute, ReplyFollows, CauseKnown,
        NotYetSent, SilentOnlyToGone, UnavailableHasCause, BodyAtMostOnce, InflightExact,
        TotalsExact, Forwarding, Refused
<1>2. ASSUME NEW r \in Req, Step(r) PROVE IInv'
  <2>1. TypeOK /\ Local /\ InflightExact /\ TotalsExact
    BY DEF IInv
  <2>2. CASE QuietStep(r)
    <3>1. /\ InsideSet' = InsideSet /\ ForwardSet' = ForwardSet
          /\ UnavailableSet' = UnavailableSet /\ UNCHANGED counters
      BY <2>1, <2>2, QuietSets
    <3>2. InflightExact' /\ TotalsExact'
      BY <2>1, <3>1, CountingKept
    <3>3. inflight' \in Nat
      BY <2>1, <3>1 DEF counters, TypeOK
    <3>. QED  BY <1>2, <2>1, <3>2, <3>3, TypeStep, LocalStep DEF IInv
  <2>3. CASE AddInflight(r) \/ AddForwarded(r) \/ Leave(r) \/ AddUnavailable(r)
    <3>1. inflight' \in Nat /\ InflightExact' /\ TotalsExact'
      BY <2>3, CountingStep
    <3>. QED  BY <1>2, <2>1, <3>1, TypeStep, LocalStep DEF IInv
  <2>. QED  BY <1>2, <2>2, <2>3 DEF Step, QuietStep, HandlerStep
<1>. QED  BY <1>1, <1>2 DEF Next, Step, AllOver

\* The inductive invariant holds in every reachable state.
THEOREM Invariance == Spec => []IInv
BY InitIInv, NextIInv, PTL DEF Spec

\* The handler's state is well typed; in particular the gauge tail_inflight is
\* never negative.
THEOREM TypeCorrect == Spec => []TypeOK
<1>1. IInv => TypeOK
    BY DEF IInv
<1>. QED  BY <1>1, Invariance, PTL

\* tail_inflight is the number of goroutines inside forward, for any number of
\* concurrent requests and on every way out, the panic of an aborted copy
\* included.
THEOREM InflightCorrect == Spec => []InflightExact
<1>1. IInv => InflightExact
    BY DEF IInv
<1>. QED  BY <1>1, Invariance, PTL

\* tail_forwarded_total is the number of requests that got to the proxy, and
\* tail_transport_unavailable_total the number of 503 answers of the error handler
\* plus the goroutines between counting one and writing it.
THEOREM TotalsCorrect == Spec => []TotalsExact
<1>1. IInv => TotalsExact
    BY DEF IInv
<1>. QED  BY <1>1, Invariance, PTL

\* Only a client that has gone is left without an answer.
THEOREM NobodyLeftSilent == Spec => []SilentOnlyToGone
<1>1. IInv => SilentOnlyToGone
    BY DEF IInv, Local
<1>. QED  BY <1>1, Invariance, PTL

\* Whatever the error handler counts and answers 503 was given up for want of a
\* connection, of an answer, of time or of a readable upload, never because it was
\* cancelled for a client that hung up.
THEOREM BlameCorrect == Spec => []UnavailableHasCause
<1>1. IInv => UnavailableHasCause
    BY DEF IInv, Local
<1>. QED  BY <1>1, Invariance, PTL

\* A request with a body reaches the backend at most once, whatever the replay
\* bound of the transport.
THEOREM NoSecondDelivery == Spec => []BodyAtMostOnce
<1>1. IInv => BodyAtMostOnce
    BY DEF IInv, Local
<1>. QED  BY <1>1, Invariance, PTL
=============================================================================
