---------------------------- MODULE ForwardProofs ----------------------------
(***************************************************************************)
(* TailHandler implements ForwardContract, for every set of requests and   *)
(* request shapes: the refinement mapping of TailHandler takes initial     *)
(* states to initial states and every step to a step or to none.           *)
(***************************************************************************)
EXTENDS TailHandlerProofs

\* One request's view of a step that leaves all other requests alone.
Alone(r) ==
    \A q \in Req \ {r} :
        pc'[q] = pc[q] /\ req'[q] = req[q] /\ reply'[q] = reply[q] /\ ctx'[q] = ctx[q]

\* Such a step changes the abstract state at that request only.
LEMMA OneRequest ==
    ASSUME NEW r \in Req, Alone(r)
    PROVE  /\ Phases' = [Phases EXCEPT ![r] = PhaseOf(r)']
           /\ Answers' = [Answers EXCEPT ![r] = AnswerOf(r)']
           /\ Gone' \ {r} = Gone \ {r}
<1>1. \A q \in Req \ {r} : PhaseOf(q)' = PhaseOf(q) /\ AnswerOf(q)' = AnswerOf(q)
    BY DEF Alone, PhaseOf, AnswerOf
<1>. QED  BY <1>1 DEF Phases, Answers, Gone, Alone

\* A step that one request does not notice either is a stuttering step.
LEMMA Unnoticed ==
    ASSUME NEW r \in Req, Alone(r), UNCHANGED counters,
           PhaseOf(r)' = PhaseOf(r), AnswerOf(r)' = AnswerOf(r),
           ctx'[r] = "canceled" <=> ctx[r] = "canceled"
    PROVE  UNCHANGED Contract!vars
<1>1. Phases' = [Phases EXCEPT ![r] = PhaseOf(r)'] /\ Answers' = [Answers EXCEPT ![r] = AnswerOf(r)']
    BY OneRequest
<1>2. Phases' = Phases /\ Answers' = Answers
    BY <1>1 DEF Phases, Answers
<1>3. Gone' = Gone
    BY DEF Gone, Alone
<1>. QED  BY <1>2, <1>3 DEF Contract!vars, counters

\* Initial states map to initial states.
LEMMA InitContract == Init => Contract!Init
BY DEF Init, Contract!Init, Phases, Answers, Gone, PhaseOf, AnswerOf, NoReply, Over

\* Every step of a request is a step of the contract, or none.
LEMMA StepContract ==
    ASSUME TypeOK, Local, NEW r \in Req, Step(r)
    PROVE  Contract!Next \/ UNCHANGED Contract!vars
<1>. USE DEF Goto, Write, Over
<1>t. /\ pc \in [Req -> {"idle"} \cup Running \cup Over] /\ req \in [Req -> Shapes]
      /\ ctx \in [Req -> {"live", "canceled", "deadline"}]
      /\ reply \in [Req -> [from : {"none", "tail", "proxy", "backend"}, code : Nat]]
    BY DEF TypeOK
<1>p. Phases[r] = PhaseOf(r) /\ Answers[r] = AnswerOf(r) /\ (r \in Gone <=> ctx[r] = "canceled")
    BY DEF Phases, Answers, Gone
<1>1. CASE \E s \in Shapes : Arrive(r, s)
  <2>1. Alone(r) /\ UNCHANGED <<counters, ctx, reply>> /\ pc[r] = "idle" /\ pc'[r] = "serve"
    BY <1>1, <1>t DEF Arrive, Alone, counters
  <2>2. PhaseOf(r)' = PhaseOf(r) /\ AnswerOf(r)' = AnswerOf(r)
    BY <2>1 DEF PhaseOf, AnswerOf
  <2>. QED  BY <2>1, <2>2, Unnoticed
<1>2. CASE ServeHTTP(r)
  <2>1. /\ Alone(r) /\ UNCHANGED <<counters, ctx, req>> /\ pc[r] = "serve" /\ reply[r].from = "none"
        /\ reply'[r].from \in {"none", "tail"}
        /\ \/ pc'[r] \in {"addInflight", "loadInflight", "attestation"}
           \/ pc'[r] = "done" /\ Routes[req[r]].do # "forward"
    BY <1>2, <1>t DEF ServeHTTP, Alone, counters, Local, ReplyFollows, Unwritten, NoReply
  <2>2. PhaseOf(r)' = PhaseOf(r) /\ AnswerOf(r)' = AnswerOf(r)
    BY <2>1 DEF PhaseOf, AnswerOf
  <2>. QED  BY <2>1, <2>2, Unnoticed
<1>3. CASE attestation(r) \/ LoadInflight(r) \/ LoadForwarded(r) \/ LoadUnavailable(r)
  <2>1. /\ Alone(r) /\ UNCHANGED <<counters, ctx, req>> /\ reply[r].from = "none"
        /\ reply'[r].from \in {"none", "tail"}
        /\ pc[r] \in Loading \cup {"attestation"} /\ pc'[r] \in Loading \cup {"done"}
        /\ Routes[req[r]].do # "forward"
    BY <1>3, <1>t DEF attestation, LoadInflight, LoadForwarded, LoadUnavailable, Loading, Alone,
                      counters, Local, ReplyFollows, Unwritten, NoReply, OnRoute
  <2>2. PhaseOf(r)' = PhaseOf(r) /\ AnswerOf(r)' = AnswerOf(r)
    BY <2>1 DEF PhaseOf, AnswerOf, Loading
  <2>. QED  BY <2>1, <2>2, Unnoticed
<1>4. CASE AddInflight(r)
  <2>1. /\ Alone(r) /\ pc[r] = "addInflight" /\ pc'[r] = "addForwarded"
        /\ UNCHANGED <<ctx, reply, forwarded, unavailable>> /\ inflight' = inflight + 1
    BY <1>4, <1>t DEF AddInflight, Alone
  <2>2. PhaseOf(r) = "waiting" /\ PhaseOf(r)' = "entered" /\ AnswerOf(r)' = AnswerOf(r)
    BY <2>1 DEF PhaseOf, AnswerOf
  <2>3. Phases' = [Phases EXCEPT ![r] = "entered"] /\ Answers' = Answers /\ Gone' = Gone
    BY <2>1, <2>2, OneRequest DEF Answers, AnswerOf, Gone
  <2>4. Contract!Enter(r)
    BY <1>p, <2>1, <2>2, <2>3 DEF Contract!Enter, Contract!Move
  <2>. QED  BY <2>4 DEF Contract!Next
<1>5. CASE AddForwarded(r)
  <2>1. /\ Alone(r) /\ pc[r] = "addForwarded" /\ pc'[r] = "send"
        /\ UNCHANGED <<ctx, reply, inflight, unavailable>> /\ forwarded' = forwarded + 1
    BY <1>5, <1>t DEF AddForwarded, Alone
  <2>2. PhaseOf(r) = "entered" /\ PhaseOf(r)' = "forwarding"
    BY <2>1 DEF PhaseOf
  <2>3. Phases' = [Phases EXCEPT ![r] = "forwarding"] /\ Answers' = Answers /\ Gone' = Gone
    BY <2>1, <2>2, OneRequest DEF Answers, AnswerOf, Gone
  <2>4. Contract!Forward(r)
    BY <1>p, <2>1, <2>2, <2>3 DEF Contract!Forward, Contract!Move
  <2>. QED  BY <2>4 DEF Contract!Next
<1>6. CASE Leave(r)
  <2>1. /\ Alone(r) /\ pc[r] \in {"leave", "abort"} /\ pc'[r] \in {"done", "aborted"}
        /\ UNCHANGED <<req, ctx, reply, forwarded, unavailable>> /\ inflight' = inflight - 1
    BY <1>6, <1>t DEF Leave, Alone
  <2>2. Routes[req[r]].do = "forward"
    BY <2>1 DEF Local, OnRoute, Inside
  <2>3. PhaseOf(r) = "leaving" /\ PhaseOf(r)' = "over"
    BY <2>1, <2>2 DEF PhaseOf
  <2>4. Phases' = [Phases EXCEPT ![r] = "over"] /\ Answers' = Answers /\ Gone' = Gone
    BY <2>1, <2>3, OneRequest DEF Answers, AnswerOf, Gone
  <2>5. Contract!Leave(r)
    BY <1>p, <2>1, <2>3, <2>4 DEF Contract!Leave, Contract!Move
  <2>. QED  BY <2>5 DEF Contract!Next
<1>7. CASE ErrorHandler(r)
  <2>1. /\ Alone(r) /\ pc[r] = "error" /\ reply[r].from = "none"
        /\ pc'[r] = IF ctx[r] = "canceled" THEN "leave" ELSE "addUnavailable"
        /\ UNCHANGED <<req, ctx, reply, inflight, forwarded, unavailable>>
    BY <1>7, <1>t DEF ErrorHandler, ErrorStep, Alone, Local, ReplyFollows, Unwritten, NoReply
  <2>2. PhaseOf(r) = "forwarding" /\ AnswerOf(r) = "none"
    BY <2>1 DEF PhaseOf, AnswerOf
  <2>3. Answers' = Answers /\ Gone' = Gone
    BY <2>1 DEF Answers, AnswerOf, Gone
  <2>4. CASE ctx[r] = "canceled"
    <3>1. Phases' = [Phases EXCEPT ![r] = "leaving"]
      BY <2>1, <2>4, OneRequest DEF PhaseOf
    <3>2. Contract!Abandon(r)
      BY <1>p, <2>1, <2>2, <2>3, <2>4, <3>1 DEF Contract!Abandon, Contract!Move
    <3>. QED  BY <3>2 DEF Contract!Next
  <2>5. CASE ctx[r] # "canceled"
    <3>1. Phases' = [Phases EXCEPT ![r] = "refusing"]
      BY <2>1, <2>5, OneRequest DEF PhaseOf
    <3>2. Contract!Refuse(r)
      BY <1>p, <2>1, <2>2, <2>3, <2>5, <3>1 DEF Contract!Refuse, Contract!Move
    <3>. QED  BY <3>2 DEF Contract!Next
  <2>. QED  BY <2>4, <2>5
<1>15. CASE AddUnavailable(r)
  <2>1. /\ Alone(r) /\ pc[r] = "addUnavailable" /\ pc'[r] = "refuse"
        /\ UNCHANGED <<ctx, reply, inflight, forwarded>> /\ unavailable' = unavailable + 1
    BY <1>15, <1>t DEF AddUnavailable, ErrorStep, Alone
  <2>2. PhaseOf(r) = "refusing" /\ PhaseOf(r)' = "refused"
    BY <2>1 DEF PhaseOf
  <2>3. Phases' = [Phases EXCEPT ![r] = "refused"] /\ Answers' = Answers /\ Gone' = Gone
    BY <2>1, <2>2, OneRequest DEF Answers, AnswerOf, Gone
  <2>4. Contract!Count(r)
    BY <1>p, <2>1, <2>2, <2>3 DEF Contract!Count, Contract!Move
  <2>. QED  BY <2>4 DEF Contract!Next
<1>16. CASE WriteUnavailable(r)
  <2>1. /\ Alone(r) /\ pc[r] = "refuse" /\ pc'[r] = "leave" /\ reply[r].from = "none"
        /\ UNCHANGED <<ctx, inflight, forwarded, unavailable>> /\ reply'[r].from = "proxy"
    BY <1>16, <1>t DEF WriteUnavailable, ErrorStep, Alone, Local, ReplyFollows, Unwritten, NoReply
  <2>2. /\ PhaseOf(r) = "refused" /\ PhaseOf(r)' = "leaving"
        /\ AnswerOf(r) = "none" /\ AnswerOf(r)' = "proxy"
    BY <2>1 DEF PhaseOf, AnswerOf
  <2>3. /\ Phases' = [Phases EXCEPT ![r] = "leaving"]
        /\ Answers' = [Answers EXCEPT ![r] = "proxy"] /\ Gone' = Gone
    BY <2>1, <2>2, OneRequest DEF Gone
  <2>4. Contract!Tell(r)
    BY <1>p, <2>1, <2>2, <2>3 DEF Contract!Tell, Contract!Move, Contract!Give
  <2>. QED  BY <2>4 DEF Contract!Next
<1>8. CASE Send(r) \/ DialFails(r) \/ UploadFails(r) \/ ConnectionLost(r)
  <2>1. /\ Alone(r) /\ UNCHANGED <<counters, ctx, req, reply>>
        /\ pc[r] \in {"send", "await"} /\ pc'[r] \in {"send", "await", "error"}
    BY <1>8, <1>t DEF Send, DialFails, UploadFails, ConnectionLost, GiveUp, ProxyStep, Alone, counters
  <2>2. PhaseOf(r)' = PhaseOf(r) /\ AnswerOf(r)' = AnswerOf(r)
    BY <2>1 DEF PhaseOf, AnswerOf
  <2>. QED  BY <2>1, <2>2, Unnoticed
<1>9. CASE Answer(r)
  <2>1. /\ Alone(r) /\ pc[r] = "await" /\ pc'[r] = "stream" /\ reply[r].from = "none"
        /\ UNCHANGED <<req, ctx, inflight, forwarded, unavailable>> /\ reply'[r].from = "backend"
    BY <1>9, <1>t DEF Answer, ProxyStep, Alone, counters, Local, ReplyFollows, Unwritten, NoReply
  <2>2. /\ PhaseOf(r) = "forwarding" /\ PhaseOf(r)' = "forwarding"
        /\ AnswerOf(r) = "none" /\ AnswerOf(r)' = "backend"
    BY <2>1 DEF PhaseOf, AnswerOf
  <2>3. Phases' = Phases /\ Answers' = [Answers EXCEPT ![r] = "backend"] /\ Gone' = Gone
    <3>1. /\ Phases' = [Phases EXCEPT ![r] = "forwarding"]
          /\ Answers' = [Answers EXCEPT ![r] = "backend"]
      BY <2>1, <2>2, OneRequest
    <3>2. Phases' = Phases
      BY <1>p, <2>2, <3>1 DEF Phases
    <3>. QED  BY <2>1, <3>1, <3>2 DEF Gone
  <2>4. Contract!Answer(r)
    BY <1>p, <2>1, <2>2, <2>3 DEF Contract!Answer, Contract!Give
  <2>. QED  BY <2>4 DEF Contract!Next
<1>10. CASE /\ StreamEnds(r) \/ StreamBreaks(r) \/ ContextEnds(r)
            /\ pc[r] = "stream"
  <2>1. /\ Alone(r) /\ pc'[r] \in {"leave", "abort"} /\ reply[r].from = "backend"
        /\ UNCHANGED <<req, ctx, reply, inflight, forwarded, unavailable>>
    BY <1>10, <1>t DEF StreamEnds, StreamBreaks, ContextEnds, GiveUp, ProxyStep, Alone, counters,
                       Local, ReplyFollows
  <2>2. PhaseOf(r) = "forwarding" /\ PhaseOf(r)' = "leaving" /\ AnswerOf(r) = "backend"
    BY <1>10, <2>1 DEF PhaseOf, AnswerOf
  <2>3. Phases' = [Phases EXCEPT ![r] = "leaving"] /\ Answers' = Answers /\ Gone' = Gone
    BY <2>1, <2>2, OneRequest DEF Answers, AnswerOf, Gone
  <2>4. Contract!EndCopy(r)
    BY <1>p, <2>1, <2>2, <2>3 DEF Contract!EndCopy, Contract!Move
  <2>. QED  BY <2>4 DEF Contract!Next
<1>11. CASE ContextEnds(r) /\ pc[r] # "stream"
  <2>1. /\ Alone(r) /\ UNCHANGED <<counters, ctx, req, reply>>
        /\ pc[r] \in {"send", "await"} /\ pc'[r] = "error"
    BY <1>11, <1>t DEF ContextEnds, GiveUp, ProxyStep, Alone, counters
  <2>2. PhaseOf(r)' = PhaseOf(r) /\ AnswerOf(r)' = AnswerOf(r)
    BY <2>1 DEF PhaseOf, AnswerOf
  <2>. QED  BY <2>1, <2>2, Unnoticed
<1>12. CASE Timeout(r) \/ Stall(r) \/ Resume(r) \/ Disconnect(r)
  <2>1. /\ Alone(r) /\ UNCHANGED <<counters, req, reply, pc>>
        /\ ctx'[r] = "canceled" <=> ctx[r] = "canceled"
    BY <1>12, <1>t DEF Timeout, EndContext, Stall, Resume, Disconnect, ClientStep, Alone, counters
  <2>2. PhaseOf(r)' = PhaseOf(r) /\ AnswerOf(r)' = AnswerOf(r)
    BY <2>1 DEF PhaseOf, AnswerOf
  <2>. QED  BY <2>1, <2>2, Unnoticed
<1>13. CASE NoticeDisconnect(r)
  <2>1. /\ Alone(r) /\ UNCHANGED <<pc, req, reply, inflight, forwarded, unavailable>>
        /\ ctx[r] = "live" /\ ctx' = [ctx EXCEPT ![r] = "canceled"]
    BY <1>13, <1>t DEF NoticeDisconnect, EndContext, Alone, counters
  <2>2. Phases' = Phases /\ Answers' = Answers
    BY <2>1 DEF Phases, Answers, PhaseOf, AnswerOf
  <2>3. Gone' = Gone \cup {r}
    BY <1>t, <2>1 DEF Gone
  <2>4. Contract!HangUp(r)
    BY <1>p, <2>1, <2>2, <2>3 DEF Contract!HangUp
  <2>. QED  BY <2>4 DEF Contract!Next
<1>14. (StreamEnds(r) \/ StreamBreaks(r)) => pc[r] = "stream"
    BY DEF StreamEnds, StreamBreaks, ProxyStep
<1>. QED  BY <1>1, <1>2, <1>3, <1>4, <1>5, <1>6, <1>7, <1>8, <1>9, <1>10, <1>11, <1>12, <1>13, <1>14, <1>15, <1>16
          DEF Step, HandlerStep, Transport, Environment

\* TailHandler implements ForwardContract: each request taken in is counted once,
\* answered at most once and taken out once, and a 503 decided on is counted once
\* and then given, even if its client leaves in between.
THEOREM Refinement == Spec => KeepsContract
<1>1. IInv /\ [Next]_vars => [Contract!Next]_Contract!vars
  <2>. SUFFICES ASSUME IInv, [Next]_vars PROVE Contract!Next \/ UNCHANGED Contract!vars
      OBVIOUS
  <2>1. ASSUME NEW r \in Req, Step(r) PROVE Contract!Next \/ UNCHANGED Contract!vars
      BY <2>1, StepContract DEF IInv
  <2>2. CASE UNCHANGED vars
      BY <2>2 DEF vars, Contract!vars, Phases, Answers, Gone, PhaseOf, AnswerOf
  <2>. QED  BY <2>1, <2>2 DEF Next, Step, AllOver
<1>. QED  BY <1>1, InitContract, Invariance, PTL DEF Spec, KeepsContract, Contract!Spec
=============================================================================
