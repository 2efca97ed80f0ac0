------------------------------ MODULE TailServer ------------------------------
(***************************************************************************)
(* The life of the TAIL process: run in cmd/phala-tail/main.go.            *)
(*                                                                         *)
(* Two goroutines share an http.Server: main calls ListenAndServe and then *)
(* waits; the stopper waits for the signal context, calls Shutdown with a  *)
(* five second grace, falls back on Close, and closes the channel stopped. *)
(* Signals, listener failures, clients and handlers act at any moment.     *)
(* http.Server and os/signal are external: their steps are taken from how  *)
(* run uses them, split wherever another goroutine can come in between.    *)
(***************************************************************************)
EXTENDS Naturals

CONSTANTS
    Conn,          \* the connections clients open
    MaxSignals     \* bound: the signals a run receives

ASSUME SignalBound == MaxSignals \in Nat

VARIABLES
    main,          \* where run is
    stopper,       \* where the goroutine it starts is
    notified,      \* the signal context is done
    catching,      \* signals are delivered to the context, not to the default action
    signals,       \* signals received so far
    inShutdown,    \* Server.inShutdown
    tracked,       \* the listener is open and tracked by the server
    err,           \* what ListenAndServe (or the set-up) returned
    expired,       \* the grace period ran out
    conn           \* the state of each connection

vars == <<main, stopper, notified, catching, signals, inShutdown, tracked, err, expired, conn>>

Ended == {"exit", "killed"}

Init ==
    /\ main = "setup" /\ stopper = "none"
    /\ notified = FALSE /\ catching = TRUE /\ signals = 0
    /\ inShutdown = FALSE /\ tracked = FALSE /\ err = "none" /\ expired = FALSE
    /\ conn = [c \in Conn |-> "none"]

----------------------------------------------------------------------------
(* main *)

\* loadTLSConfig, NewService and New: run returns the first error.
SetupFails ==
    /\ main = "setup" /\ main' = "exit" /\ err' = "setup"
    /\ UNCHANGED <<stopper, notified, catching, signals, inShutdown, tracked, expired, conn>>

\* Mutant: the stopper is never started.
NoStopper ==
    /\ main = "setup" /\ main' = "listen"
    /\ UNCHANGED <<stopper, notified, catching, signals, inShutdown, tracked, err, expired, conn>>

\* Everything is built: the stopper is started and ListenAndServe is called.
Setup ==
    /\ main = "setup" /\ main' = "listen" /\ stopper' = "wait"
    /\ UNCHANGED <<notified, catching, signals, inShutdown, tracked, err, expired, conn>>

Returned(e) == main' = "returned" /\ err' = e

\* Server.ListenAndServe up to the open socket.  External.
Listen ==
    /\ main = "listen"
    /\ \/ inShutdown /\ Returned("closed")
       \/ ~inShutdown /\ Returned("listen")
       \/ ~inShutdown /\ main' = "bound" /\ UNCHANGED err
    /\ UNCHANGED <<stopper, notified, catching, signals, inShutdown, tracked, expired, conn>>

\* Server.Serve registers its listener, unless a shutdown came first.  External.
Track ==
    /\ main = "bound"
    /\ IF inShutdown
         THEN Returned("closed") /\ UNCHANGED tracked
         ELSE main' = "serve" /\ tracked' = TRUE /\ UNCHANGED err
    /\ UNCHANGED <<stopper, notified, catching, signals, inShutdown, expired, conn>>

\* The accept loop ends: the listener was closed, or failed for good.  External.
ServeEnds ==
    /\ main = "serve"
    /\ \/ ~tracked /\ Returned("closed")
       \/ tracked /\ Returned(IF inShutdown THEN "closed" ELSE "accept")
    /\ tracked' = FALSE
    /\ UNCHANGED <<stopper, notified, catching, signals, inShutdown, expired, conn>>

\* Mutant: the context is left to the deferred cancel, after the wait.
LateCancel ==
    /\ main = "returned" /\ main' = "wait"
    /\ UNCHANGED <<stopper, notified, catching, signals, inShutdown, tracked, err, expired, conn>>

\* cancel(): wakes the stopper, and gives signals back their default action.
Cancel ==
    /\ main = "returned" /\ main' = "wait"
    /\ notified' = TRUE /\ catching' = FALSE
    /\ UNCHANGED <<stopper, signals, inShutdown, tracked, err, expired, conn>>

\* Mutant: run returns without waiting for the stopper.
NoWait ==
    /\ main = "wait" /\ main' = "exit"
    /\ err' = IF err = "closed" THEN "none" ELSE err
    /\ UNCHANGED <<stopper, notified, catching, signals, inShutdown, tracked, expired, conn>>

\* Mutant: run swallows the listener's error.
QuietExit ==
    /\ main = "wait" /\ stopper = "stopped" /\ main' = "exit" /\ err' = "none"
    /\ UNCHANGED <<stopper, notified, catching, signals, inShutdown, tracked, expired, conn>>

\* <-stopped, and run returns: nil for ErrServerClosed, else the error.
Exit ==
    /\ main = "wait" /\ stopper = "stopped" /\ main' = "exit"
    /\ err' = IF err = "closed" THEN "none" ELSE err
    /\ UNCHANGED <<stopper, notified, catching, signals, inShutdown, tracked, expired, conn>>

----------------------------------------------------------------------------
(* The stopper *)

StopperStep(from, to) == main \notin Ended /\ stopper = from /\ stopper' = to

\* Mutant: the stopper goes straight to Close.
AbruptShutdown ==
    /\ StopperStep("wait", "cut") /\ notified
    /\ inShutdown' = TRUE /\ tracked' = FALSE
    /\ UNCHANGED <<main, notified, catching, signals, err, expired, conn>>

\* Mutant: the stopper waits for the connections before it closes the listener.
DrainFirst ==
    /\ StopperStep("wait", "drain") /\ notified
    /\ UNCHANGED <<main, notified, catching, signals, inShutdown, tracked, err, expired, conn>>

\* <-ctx.Done(), then Shutdown raises its flag.
Shutdown ==
    /\ StopperStep("wait", "close") /\ notified
    /\ inShutdown' = TRUE
    /\ UNCHANGED <<main, notified, catching, signals, tracked, err, expired, conn>>

\* Shutdown closes the tracked listener.  External.
CloseListener ==
    /\ StopperStep("close", "join") /\ tracked' = FALSE
    /\ UNCHANGED <<main, notified, catching, signals, inShutdown, err, expired, conn>>

\* ... and waits until Serve has returned.  External.
JoinServe ==
    /\ StopperStep("join", "drain") /\ main # "serve"
    /\ UNCHANGED <<main, notified, catching, signals, inShutdown, tracked, err, expired, conn>>

\* Shutdown polls: idle connections are closed, new ones once they are old
\* enough, and it returns when none is left.  External.
Poll ==
    /\ \E old \in SUBSET {c \in Conn : conn[c] = "new"} :
         LET left == {c \in Conn : conn[c] = "active" \/ (conn[c] = "new" /\ c \notin old)}
         IN /\ conn' = [c \in Conn |-> IF conn[c] \in {"new", "idle"} /\ c \notin left
                                         THEN "closed" ELSE conn[c]]
            /\ StopperStep("drain", IF left = {} THEN "stopped" ELSE "drain")
    /\ UNCHANGED <<main, notified, catching, signals, inShutdown, tracked, err, expired>>

\* The five seconds are over: Shutdown returns the context's error.
Expire ==
    /\ StopperStep("drain", "cut") /\ expired' = TRUE
    /\ UNCHANGED <<main, notified, catching, signals, inShutdown, tracked, err, conn>>

\* server.Close(): every connection is closed, those with a request included;
\* then close(stopped).
Close ==
    /\ StopperStep("cut", "stopped")
    /\ conn' = [c \in Conn |-> CASE conn[c] = "active"          -> "cut"
                                 [] conn[c] \in {"new", "idle"} -> "closed"
                                 [] OTHER                       -> conn[c]]
    /\ UNCHANGED <<main, notified, catching, signals, inShutdown, tracked, err, expired>>

----------------------------------------------------------------------------
(* Signals, clients and handlers *)

Running == main \notin Ended

\* SIGINT or SIGTERM: caught it ends the context, uncaught the process.
Signal ==
    /\ Running /\ signals < MaxSignals /\ signals' = signals + 1
    /\ IF catching THEN notified' = TRUE /\ UNCHANGED main
                   ELSE main' = "killed" /\ UNCHANGED notified
    /\ UNCHANGED <<stopper, catching, inShutdown, tracked, err, expired, conn>>

ConnStep(c, from, to) ==
    /\ Running /\ conn[c] = from /\ conn' = [conn EXCEPT ![c] = to]
    /\ UNCHANGED <<main, stopper, notified, catching, signals, inShutdown, tracked, err, expired>>

\* The accept loop registers a connection, possibly one it took from the socket
\* just before the listener was closed.
Accept(c) == main = "serve" /\ ConnStep(c, "none", "new")
\* A request arrives on it.
Request(c) == ConnStep(c, "new", "active") \/ ConnStep(c, "idle", "active")
\* Its handler returns: the connection is kept only while no shutdown is on.
Finish(c) == ConnStep(c, "active", IF inShutdown THEN "closed" ELSE "idle")
\* The client hangs up between requests.
HangUp(c) == ConnStep(c, "new", "closed") \/ ConnStep(c, "idle", "closed")

----------------------------------------------------------------------------
MainStep == SetupFails \/ Setup \/ Listen \/ Track \/ Cancel \/ Exit
StopperNext == Shutdown \/ CloseListener \/ JoinServe \/ Poll \/ Expire \/ Close
ClientStep == \E c \in Conn : Accept(c) \/ Request(c) \/ Finish(c) \/ HangUp(c)

Over == main \in Ended /\ UNCHANGED vars

Next == MainStep \/ ServeEnds \/ StopperNext \/ Signal \/ ClientStep \/ Over

Spec == Init /\ [][Next]_vars

\* Runnable goroutines run, the accept loop sees that its listener is closed, and
\* the grace timer fires.  Nothing is assumed of handlers, clients or signals.
Fairness ==
    /\ WF_vars(MainStep)
    /\ WF_vars(~tracked /\ ServeEnds)
    /\ WF_vars(Shutdown) /\ WF_vars(CloseListener) /\ WF_vars(JoinServe)
    /\ WF_vars(Expire) /\ WF_vars(Close)

FairSpec == Spec /\ Fairness

----------------------------------------------------------------------------
(* Properties *)

\* The state is well typed, and a server that is set up has a stopper.
TypeOK ==
    /\ main \in {"setup", "listen", "bound", "serve", "returned", "wait"} \cup Ended
    /\ stopper \in {"none", "wait", "close", "join", "drain", "cut", "stopped"}
    /\ stopper = "none" => main \in {"setup"} \cup Ended
    /\ notified \in BOOLEAN /\ catching \in BOOLEAN /\ signals \in 0..MaxSignals
    /\ inShutdown \in BOOLEAN /\ tracked \in BOOLEAN /\ expired \in BOOLEAN
    /\ err \in {"none", "setup", "listen", "accept", "closed"}
    /\ conn \in [Conn -> {"none", "new", "active", "idle", "closed", "cut"}]

\* When run returns, no request is still being served: it was answered, or cut
\* off by Close.  The return of ListenAndServe alone says nothing of the kind.
NothingActiveAtExit == main = "exit" => \A c \in Conn : conn[c] # "active"

\* A request is cut off only after its whole grace period.
CutOnlyAfterGrace == \A c \in Conn : conn[c] = "cut" => expired

\* run reports success only for a stop that a signal asked for: the cancel() that
\* main calls on every return of ListenAndServe never passes for one.
SuccessOnlyOnSignal == main = "exit" /\ err = "none" => signals > 0

\* Once Shutdown has joined Serve, no connection is accepted: the set that it
\* polls can only shrink.  In particular a signal that arrives between Listen
\* and Serve does not leave an accept loop behind.
NoAcceptWhileDraining ==
    [][\A c \in Conn : stopper \in {"drain", "cut", "stopped"} /\ conn[c] = "none"
                         => conn'[c] = "none"]_vars

\* A signal ends the process, whatever the handlers do, and so does any failure
\* to listen: neither goroutine waits for the other for ever.
AlwaysEnds == (notified \/ main = "returned") ~> main \in Ended
=============================================================================
