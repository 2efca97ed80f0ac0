--------------------------- MODULE ForwardContract ---------------------------
(***************************************************************************)
(* What forward promises of every request it takes in, in whatever order   *)
(* requests overlap, backends fail, clients leave and timers fire: the     *)
(* request is counted when it enters; it is given one answer, the          *)
(* backend's or a 503, or none if its client was known to have left when   *)
(* no answer came; a 503 is decided on, counted once and then given, even  *)
(* if the client leaves in between; and the request is taken out of the    *)
(* gauge once.  A copy that breaks off is not answered again and not       *)
(* counted as unavailable.                                                 *)
(*                                                                         *)
(* TailHandler implements this specification (Contract in that module).    *)
(***************************************************************************)
EXTENDS Naturals

CONSTANT Req

VARIABLES
    phase,       \* waiting, entered, forwarding, refusing, refused, leaving, over
    answer,      \* none, backend or proxy (the 503)
    gone,        \* the requests whose client is known to have left
    inflight, forwarded, unavailable

vars == <<phase, answer, gone, inflight, forwarded, unavailable>>

Init ==
    /\ phase = [r \in Req |-> "waiting"] /\ answer = [r \in Req |-> "none"]
    /\ gone = {} /\ inflight = 0 /\ forwarded = 0 /\ unavailable = 0

Move(r, from, to) == phase[r] = from /\ phase' = [phase EXCEPT ![r] = to]
Give(r, from) == answer[r] = "none" /\ answer' = [answer EXCEPT ![r] = from]

Enter(r) ==
    /\ Move(r, "waiting", "entered") /\ inflight' = inflight + 1
    /\ UNCHANGED <<answer, gone, forwarded, unavailable>>

Forward(r) ==
    /\ Move(r, "entered", "forwarding") /\ forwarded' = forwarded + 1
    /\ UNCHANGED <<answer, gone, inflight, unavailable>>

\* The backend's answer reaches the client; its body is still to be copied.
Answer(r) ==
    /\ phase[r] = "forwarding" /\ Give(r, "backend")
    /\ UNCHANGED <<phase, gone, inflight, forwarded, unavailable>>

\* The copy has ended, whole or broken off.
EndCopy(r) ==
    /\ answer[r] = "backend" /\ Move(r, "forwarding", "leaving")
    /\ UNCHANGED <<answer, gone, inflight, forwarded, unavailable>>

\* No answer came: a client that is there is to be told, ...
Refuse(r) ==
    /\ r \notin gone /\ answer[r] = "none" /\ Move(r, "forwarding", "refusing")
    /\ UNCHANGED <<answer, gone, inflight, forwarded, unavailable>>

\* ... and a client that has left is not.
Abandon(r) ==
    /\ r \in gone /\ answer[r] = "none" /\ Move(r, "forwarding", "leaving")
    /\ UNCHANGED <<answer, gone, inflight, forwarded, unavailable>>

\* The refusal is counted, and only then given.
Count(r) ==
    /\ Move(r, "refusing", "refused") /\ unavailable' = unavailable + 1
    /\ UNCHANGED <<answer, gone, inflight, forwarded>>

Tell(r) ==
    /\ Give(r, "proxy") /\ Move(r, "refused", "leaving")
    /\ UNCHANGED <<gone, inflight, forwarded, unavailable>>

Leave(r) ==
    /\ Move(r, "leaving", "over") /\ inflight' = inflight - 1
    /\ UNCHANGED <<answer, gone, forwarded, unavailable>>

HangUp(r) ==
    /\ r \notin gone /\ gone' = gone \cup {r}
    /\ UNCHANGED <<phase, answer, inflight, forwarded, unavailable>>

Next ==
    \E r \in Req : \/ Enter(r) \/ Forward(r) \/ Answer(r) \/ EndCopy(r)
                   \/ Refuse(r) \/ Abandon(r) \/ Count(r) \/ Tell(r)
                   \/ Leave(r) \/ HangUp(r)

Spec == Init /\ [][Next]_vars
=============================================================================
