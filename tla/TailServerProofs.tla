--------------------------- MODULE TailServerProofs ---------------------------
(***************************************************************************)
(* Proofs about TailServer for any set of connections and any number of    *)
(* signals.                                                                *)
(***************************************************************************)
EXTENDS TailServer, TLAPS

Draining == {"drain", "cut", "stopped"}

\* How far Shutdown has come, and what main can still be doing then.
Phases ==
    /\ stopper = "none" => ~inShutdown /\ ~tracked /\ main \in {"setup"} \cup Ended
                           /\ \A c \in Conn : conn[c] = "none"
    /\ main = "setup" => stopper = "none"
    /\ stopper = "wait" => ~inShutdown
    /\ stopper \in {"close", "join"} \cup Draining => inShutdown
    /\ stopper \in {"join"} \cup Draining => ~tracked
    /\ stopper \in Draining => main # "serve"
    /\ main = "serve" /\ ~tracked => inShutdown
    /\ main = "exit" => stopper \in {"none", "stopped"}

\* What the return value of ListenAndServe says about the shutdown.
Causes ==
    /\ inShutdown => notified
    /\ notified => signals > 0 \/ main \in {"wait"} \cup Ended
    /\ err = "closed" => signals > 0
    /\ main \in {"setup", "listen", "bound", "serve"} => err = "none"
    /\ main \in {"returned", "wait"} => err # "none"

\* What the connections can be in the end phase.
Connections ==
    /\ stopper = "stopped" => \A c \in Conn : conn[c] \notin {"new", "active", "idle"}
    /\ stopper = "cut" => expired
    /\ CutOnlyAfterGrace

IInv == TypeOK /\ Phases /\ Causes /\ Connections /\ SuccessOnlyOnSignal

\* The initial state satisfies the inductive invariant.
LEMMA InitIInv == Init => IInv
<1> SUFFICES ASSUME Init PROVE IInv
    OBVIOUS
<1> USE DEF Init, Ended, Draining
<1>0. 0 \in 0..MaxSignals
    BY SignalBound
<1>1. TypeOK
    BY <1>0 DEF TypeOK
<1>2. Phases
    BY DEF Phases
<1>3. Causes
    BY DEF Causes
<1>4. Connections
    BY DEF Connections, CutOnlyAfterGrace
<1>5. SuccessOnlyOnSignal
    BY DEF SuccessOnlyOnSignal
<1>. QED  BY <1>1, <1>2, <1>3, <1>4, <1>5 DEF IInv

\* Every step keeps the inductive invariant.
LEMMA NextIInv == IInv /\ [Next]_vars => IInv'
<1> SUFFICES ASSUME IInv, [Next]_vars PROVE IInv'
    OBVIOUS
<1> USE SignalBound DEF IInv, TypeOK, Phases, Causes, Connections, CutOnlyAfterGrace,
        SuccessOnlyOnSignal, Draining, Ended
<1>1. CASE SetupFails
    BY <1>1 DEF SetupFails
<1>2. CASE Setup
    BY <1>2 DEF Setup
<1>3. CASE Listen
    BY <1>3 DEF Listen, Returned
<1>4. CASE Track
    BY <1>4 DEF Track, Returned
<1>5. CASE ServeEnds
    BY <1>5 DEF ServeEnds, Returned
<1>6. CASE Cancel
    BY <1>6 DEF Cancel
<1>7. CASE Exit
    BY <1>7 DEF Exit
<1>8. CASE Shutdown
    BY <1>8 DEF Shutdown, StopperStep
<1>9. CASE CloseListener
    BY <1>9 DEF CloseListener, StopperStep
<1>10. CASE JoinServe
    BY <1>10 DEF JoinServe, StopperStep
<1>11. CASE Poll
    BY <1>11 DEF Poll, StopperStep
<1>12. CASE Expire
    BY <1>12 DEF Expire, StopperStep
<1>13. CASE Close
    BY <1>13 DEF Close, StopperStep
<1>14. CASE Signal
  <2>0. signals' \in 0..MaxSignals
    BY <1>14 DEF Signal
  <2>1. TypeOK'
    <3>1. main' \in {"setup", "listen", "bound", "serve", "returned", "wait"} \cup Ended
      BY <1>14 DEF Signal
    <3>2. notified' \in BOOLEAN
      BY <1>14 DEF Signal
    <3>. QED  BY <1>14, <2>0, <3>1, <3>2 DEF Signal, Running
  <2>2. Phases'
    BY <1>14 DEF Signal, Running
  <2>3. Causes'
    BY <1>14 DEF Signal, Running
  <2>4. Connections'
    BY <1>14 DEF Signal, Running
  <2>5. SuccessOnlyOnSignal'
    BY <1>14 DEF Signal, Running
  <2>. QED  BY <2>1, <2>2, <2>3, <2>4, <2>5
<1>15. ASSUME NEW c \in Conn, Accept(c) PROVE IInv'
    BY <1>15 DEF Accept, ConnStep, Running
<1>16. ASSUME NEW c \in Conn, Request(c) PROVE IInv'
    BY <1>16 DEF Request, ConnStep, Running
<1>17. ASSUME NEW c \in Conn, Finish(c) PROVE IInv'
    BY <1>17 DEF Finish, ConnStep, Running
<1>18. ASSUME NEW c \in Conn, HangUp(c) PROVE IInv'
    BY <1>18 DEF HangUp, ConnStep, Running
<1>19. CASE UNCHANGED vars
    BY <1>19 DEF vars
<1>. QED
    BY <1>1, <1>2, <1>3, <1>4, <1>5, <1>6, <1>7, <1>8, <1>9, <1>10, <1>11, <1>12,
       <1>13, <1>14, <1>15, <1>16, <1>17, <1>18, <1>19 DEF Next, MainStep, StopperNext, ClientStep, Over

\* The inductive invariant holds in every reachable state.
THEOREM Invariance == Spec => []IInv
  BY InitIInv, NextIInv, PTL DEF Spec

\* A server that is set up has a stopper, and the state is well typed.
THEOREM TypeCorrect == Spec => []TypeOK
<1>1. IInv => TypeOK
  BY DEF IInv
<1>. QED  BY <1>1, Invariance, PTL

\* run returns only when no request is being served any more.
THEOREM ExitAfterDrain == Spec => []NothingActiveAtExit
<1>1. IInv => NothingActiveAtExit
  BY DEF IInv, Phases, Connections, NothingActiveAtExit
<1>. QED  BY <1>1, Invariance, PTL

\* Close cuts requests off only after the grace period of Shutdown.
THEOREM GraceRespected == Spec => []CutOnlyAfterGrace
<1>1. IInv => CutOnlyAfterGrace
  BY DEF IInv, Connections
<1>. QED  BY <1>1, Invariance, PTL

\* run returns nil only for a stop that a signal asked for.
THEOREM SuccessNeedsSignal == Spec => []SuccessOnlyOnSignal
<1>1. IInv => SuccessOnlyOnSignal
  BY DEF IInv
<1>. QED  BY <1>1, Invariance, PTL

\* No connection is accepted once Shutdown has joined Serve.
THEOREM DrainOnlyShrinks == Spec => NoAcceptWhileDraining
<1>1. ASSUME IInv, [Next]_vars, NEW c \in Conn,
             stopper \in {"drain", "cut", "stopped"}, conn[c] = "none"
      PROVE  conn'[c] = "none"
  <2>1. main # "serve"
    BY <1>1 DEF IInv, Phases, Draining
  <2>2. conn \in [Conn -> {"none", "new", "active", "idle", "closed", "cut"}]
    BY <1>1 DEF IInv, TypeOK
  <2>3. CASE Poll \/ Close
    BY <1>1, <2>2, <2>3 DEF Poll, Close
  <2>4. CASE ClientStep
    <3>1. PICK d \in Conn : Accept(d) \/ Request(d) \/ Finish(d) \/ HangUp(d)
      BY <2>4 DEF ClientStep
    <3>2. ~Accept(d)
      BY <2>1 DEF Accept
    <3>. QED  BY <1>1, <2>2, <3>1, <3>2 DEF Request, Finish, HangUp, ConnStep
  <2>5. CASE ~(Poll \/ Close) /\ ~ClientStep
    <3>1. conn' = conn
      BY <1>1, <2>5 DEF Next, MainStep, StopperNext, Over, vars, SetupFails, Setup, Listen,
         Track, Cancel, Exit, ServeEnds, Shutdown, CloseListener, JoinServe, Expire, Signal
    <3>. QED  BY <1>1, <3>1
  <2>. QED  BY <2>3, <2>4, <2>5
<1>2. IInv /\ [Next]_vars
        => [\A c \in Conn : stopper \in {"drain", "cut", "stopped"} /\ conn[c] = "none"
                              => conn'[c] = "none"]_vars
  BY <1>1
<1>. QED  BY <1>2, Invariance, PTL DEF Spec, NoAcceptWhileDraining
=============================================================================
