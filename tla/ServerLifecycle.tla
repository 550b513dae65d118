--------------------------- MODULE ServerLifecycle ---------------------------
(***************************************************************************)
(* The end of a TSymbiote server (adapter or web UI): ListenAndServe of    *)
(* src/api/shared/tsymbiote/server.go with the WebsocketManager of         *)
(* websocket.go next to it.  On a signal the main goroutine drains the     *)
(* HTTP requests, then the websocket sessions, both within one context of  *)
(* ServerDrainPeriod seconds, logs the node out of the tailnet with what   *)
(* is left of that context, and exits.  A request that upgrades to a       *)
(* websocket leaves the sight of http.Server at once, but is known to the  *)
(* manager, by its WaitGroup, only from the handler's first RunWSFunc on.  *)
(***************************************************************************)
EXTENDS Naturals

CONSTANTS
    Conns,          \* the connections clients make
    LogoutFlag      \* --logout

ASSUME LogoutAssumption == LogoutFlag \in BOOLEAN

\* In seconds.
ServerDrainPeriod == 5 + 1
ServerHardShutdownTimeout == 3

VARIABLES
    main,           \* where ListenAndServe is
    listening,      \* the listener accepts connections
    cancelled,      \* wsCtx is cancelled
    conn,           \* conn[c]: "none", "active" (in a handler, known to http.Server),
                    \* "hijacked" (upgraded, the handler still runs, none of its goroutines
                    \* does), "starting" (both do), "session" (the handler has returned,
                    \* goroutines run), "ended"
    wg,             \* the manager's WaitGroup.Wait: "no", "waits", "woken" (the group became
                    \* empty, Wait has not run since), "returned"
    late,           \* connections with a goroutine started after it had returned
    clock,          \* seconds since the signal
    wake,           \* when the current Sleep ends
    httpFailed,     \* HTTP().Shutdown returned an error
    wsFailed,       \* the manager's Shutdown returned an error
    loggedOut       \* the node is logged out of the tailnet

vars == <<main, listening, cancelled, conn, wg, late, clock, wake,
          httpFailed, wsFailed, loggedOut>>

outcome == <<httpFailed, wsFailed, loggedOut>>

MainStates == {"serving", "http", "httpNap", "wait", "waitNap", "logout", "closed", "killed",
               "crashed"}
ConnStates == {"none", "active", "hijacked", "starting", "session", "ended"}

TypeOK ==
    /\ main \in MainStates
    /\ listening \in BOOLEAN /\ cancelled \in BOOLEAN
    /\ wg \in {"no", "waits", "woken", "returned"}
    /\ conn \in [Conns -> ConnStates]
    /\ late \subseteq Conns
    /\ clock \in Nat
    /\ wake \in 0..(ServerDrainPeriod + 2 * ServerHardShutdownTimeout)
    /\ httpFailed \in BOOLEAN /\ wsFailed \in BOOLEAN /\ loggedOut \in BOOLEAN

Init ==
    /\ main = "serving" /\ listening = TRUE /\ cancelled = FALSE
    /\ conn = [c \in Conns |-> "none"]
    /\ wg = "no" /\ late = {}
    /\ clock = 0 /\ wake = 0
    /\ httpFailed = FALSE /\ wsFailed = FALSE /\ loggedOut = FALSE

Running == main \notin {"closed", "killed", "crashed"}

\* gracefulctx is done.
Expired == clock >= ServerDrainPeriod

-----------------------------------------------------------------------------
(* Connections                                                             *)

\* The connections some goroutine of which is counted by the WaitGroup.
InGroup(c) == conn[c] \in {"starting", "session"}
GroupEmpty == \A c \in Conns : ~InGroup(c)

ConnMoves(c, from, to) ==
    /\ Running
    /\ conn[c] = from /\ conn' = [conn EXCEPT ![c] = to]
    /\ UNCHANGED <<main, listening, cancelled, clock, wake, outcome>>

Accept(c) == listening /\ ConnMoves(c, "none", "active") /\ UNCHANGED <<wg, late>>

Replies(c) == ConnMoves(c, "active", "ended") /\ UNCHANGED <<wg, late>>

\* websocketRequest hijacks the connection, then calls the handler.
Upgrades(c) == ConnMoves(c, "active", "hijacked") /\ UNCHANGED <<wg, late>>

\* The handler (after dialling the adapters, in the web UI) calls RunWSFunc, once for each of
\* its goroutines.
RunsFunc(c) ==
    /\ ConnMoves(c, "hijacked", "starting") \/ ConnMoves(c, "starting", "starting")
    /\ late' = IF wg = "returned" THEN late \union {c} ELSE late
    /\ UNCHANGED wg

\* The handler returns and leaves its goroutines running.
HandlerReturns(c) == ConnMoves(c, "starting", "session") /\ UNCHANGED <<wg, late>>

\* The handler returns without a goroutine: it called RunWSFunc never, or all have ended.
GivesUp(c) == ConnMoves(c, "hijacked", "ended") /\ UNCHANGED <<wg, late>>

\* The last goroutine of c returns.  If it was the last of the group, a Wait is woken.
LeavesGroup(c, from, to) ==
    /\ ConnMoves(c, from, to)
    /\ wg' = IF wg = "waits" /\ \A d \in Conns \ {c} : ~InGroup(d) THEN "woken" ELSE wg
    /\ UNCHANGED late

\* Between two calls of RunWSFunc, ...
FuncsReturn(c) == LeavesGroup(c, "starting", "hijacked")

\* ... or when all were made.
SessionEnds(c) == LeavesGroup(c, "session", "ended")

-----------------------------------------------------------------------------
(* ListenAndServe after the signal                                         *)

\* A shutdown that leaves the listener open.
SignalKeepsListening ==
    /\ main = "serving"
    /\ main' = "http"
    /\ UNCHANGED <<listening, cancelled, conn, wg, late, clock, wake, outcome>>

\* SIGTERM: HTTP().Shutdown closes the listener first.
Signal ==
    /\ main = "serving"
    /\ main' = "http" /\ listening' = FALSE
    /\ UNCHANGED <<cancelled, conn, wg, late, clock, wake, outcome>>

\* HTTP().Shutdown runs wsGracefulFunc in a goroutine of its own.
CancelSessions ==
    /\ Running /\ main # "serving" /\ ~cancelled
    /\ cancelled' = TRUE
    /\ UNCHANGED <<main, listening, conn, wg, late, clock, wake, outcome>>

\* No connection is in a handler: HTTP().Shutdown returns nil.
HttpDrained ==
    /\ main = "http" /\ \A c \in Conns : conn[c] # "active"
    /\ main' = "wait"
    /\ UNCHANGED <<listening, cancelled, conn, wg, late, clock, wake, outcome>>

\* HTTP().Shutdown with a context that has no deadline.
HttpNeverTimesOut == FALSE /\ UNCHANGED vars

HttpTimesOut ==
    /\ main = "http" /\ Expired
    /\ main' = "httpNap" /\ httpFailed' = TRUE
    /\ wake' = clock + ServerHardShutdownTimeout
    /\ UNCHANGED <<listening, cancelled, conn, wg, late, clock, wsFailed, loggedOut>>

\* Sleeping is over; go on with the next phase.
NapEnds ==
    /\ clock >= wake
    /\ \/ main = "httpNap" /\ main' = "wait"
       \/ main = "waitNap" /\ main' = "logout"
    /\ UNCHANGED <<listening, cancelled, conn, wg, late, clock, wake, outcome>>

\* The goroutine that Shutdown starts runs as long as the process does.
Waiting == main \in {"wait", "waitNap", "logout"}

\* A Wait that does not look at the sessions.
WaitsForNobody ==
    /\ Waiting /\ wg = "no"
    /\ wg' = "returned"
    /\ UNCHANGED <<main, listening, cancelled, conn, late, clock, wake, outcome>>

WaitBegins ==
    /\ Waiting /\ wg = "no"
    /\ wg' = IF GroupEmpty THEN "returned" ELSE "waits"
    /\ UNCHANGED <<main, listening, cancelled, conn, late, clock, wake, outcome>>

\* A woken Wait returns if the group is still empty ...
WaitReturns ==
    /\ Waiting /\ wg = "woken" /\ GroupEmpty
    /\ wg' = "returned"
    /\ UNCHANGED <<main, listening, cancelled, conn, late, clock, wake, outcome>>

\* ... and panics ("WaitGroup is reused before previous Wait has returned") if a handler
\* called RunWSFunc in between.
WaitPanics ==
    /\ Waiting /\ wg = "woken" /\ ~GroupEmpty
    /\ main' = "crashed"
    /\ UNCHANGED <<listening, cancelled, conn, wg, late, clock, wake, outcome>>

WsDrained ==
    /\ main = "wait" /\ wg = "returned"
    /\ main' = "logout"
    /\ UNCHANGED <<listening, cancelled, conn, wg, late, clock, wake, outcome>>

\* A main goroutine that sleeps and waits once more.
WsWaitsAgain ==
    /\ main = "wait" /\ Expired
    /\ main' = "httpNap" /\ wsFailed' = TRUE
    /\ wake' = clock + ServerHardShutdownTimeout
    /\ UNCHANGED <<listening, cancelled, conn, wg, late, clock, httpFailed, loggedOut>>

WsTimesOut ==
    /\ main = "wait" /\ Expired
    /\ main' = "waitNap" /\ wsFailed' = TRUE
    /\ wake' = clock + ServerHardShutdownTimeout
    /\ UNCHANGED <<listening, cancelled, conn, wg, late, clock, httpFailed, loggedOut>>

\* Local().Logout(gracefulctx) can succeed only while the context lasts; then exit.
Logout ==
    /\ main = "logout"
    /\ loggedOut' \in {FALSE, LogoutFlag /\ ~Expired}
    /\ main' = "closed"
    /\ UNCHANGED <<listening, cancelled, conn, wg, late, clock, wake, httpFailed, wsFailed>>

\* A second signal is no longer caught.
SecondSignal ==
    /\ Running /\ main # "serving"
    /\ main' = "killed"
    /\ UNCHANGED <<listening, cancelled, conn, wg, late, clock, wake, outcome>>

\* What main is waiting for has happened: it moves before the next second.
Due ==
    \/ main \in {"http", "wait", "logout"} /\ Expired
    \/ main \in {"httpNap", "waitNap"} /\ clock >= wake

Tick ==
    /\ Running /\ main # "serving" /\ ~Due
    /\ clock' = clock + 1
    /\ UNCHANGED <<main, listening, cancelled, conn, wg, late, wake, outcome>>

ConnStep == \E c \in Conns : Accept(c) \/ Replies(c) \/ Upgrades(c) \/ RunsFunc(c)
                             \/ HandlerReturns(c) \/ GivesUp(c) \/ FuncsReturn(c)
                             \/ SessionEnds(c)
WaitStep == WaitBegins \/ WaitReturns \/ WaitPanics
MainStep == HttpDrained \/ HttpTimesOut \/ NapEnds \/ WsDrained \/ WsTimesOut \/ Logout

Next == ConnStep \/ Signal \/ CancelSessions \/ MainStep \/ WaitStep
        \/ SecondSignal \/ Tick

Spec == Init /\ [][Next]_vars

\* Time passes and the main goroutine runs; nothing is assumed of the requests and
\* the sessions, which may hang.
Fairness == WF_vars(Tick) /\ WF_vars(MainStep) /\ WF_vars(CancelSessions)

FairSpec == Spec /\ Fairness

-----------------------------------------------------------------------------
(* Properties                                                              *)

\* However requests and sessions hang, the shutdown takes at most the drain period
\* and the two sleeps after a failed drain.
ShutdownBounded == clock <= ServerDrainPeriod + 2 * ServerHardShutdownTimeout

\* The end of every sleep within the bound, too.
LifecycleInv == TypeOK /\ ShutdownBounded

\* After the signal the process ends.
Exits == main # "serving" ~> ~Running

\* A drain that reported success has cut nothing off: HTTP().Shutdown no request, and the
\* manager's Shutdown no goroutine of a connection but of one that called RunWSFunc after
\* Wait had returned.
WaitsForRequests ==
    /\ main \notin {"serving", "http", "killed"} /\ ~httpFailed =>
          \A c \in Conns : conn[c] # "active"
    /\ main \in {"logout", "closed"} /\ ~wsFailed =>
          \A c \in Conns : InGroup(c) => c \in late

-----------------------------------------------------------------------------
(* Why they hold: an inductive invariant.                                  *)

\* Each phase ends at the latest at its own second.
PhaseTimes ==
    /\ main = "serving" => clock = 0
    /\ main = "http" => clock <= ServerDrainPeriod
    /\ main = "httpNap" => clock <= wake /\ wake <= ServerDrainPeriod + ServerHardShutdownTimeout
    /\ main = "wait" => clock <= ServerDrainPeriod + ServerHardShutdownTimeout
    /\ main = "waitNap" => clock <= wake /\ wake <= ServerDrainPeriod + 2 * ServerHardShutdownTimeout

\* What each phase knows of the ones before it.
PhaseFacts ==
    /\ main # "serving" => ~listening
    /\ main = "httpNap" => httpFailed
    /\ main = "waitNap" => wsFailed
    /\ main \in {"logout", "closed"} /\ ~wsFailed => wg = "returned"
    /\ wg = "returned" => \A c \in Conns : InGroup(c) => c \in late
    /\ httpFailed \/ wsFailed => Expired
    /\ main # "closed" => ~loggedOut

\* A failed drain has used up the context that Logout is then called with (server.go:175).
FailedDrainStaysIn == httpFailed \/ wsFailed => ~loggedOut

IInv == TypeOK /\ PhaseTimes /\ PhaseFacts /\ ShutdownBounded /\ WaitsForRequests
        /\ FailedDrainStaysIn

-----------------------------------------------------------------------------
(* What the documentation says and the code does not do.                   *)

\* src/README.md:76 and 102: "--logout  Logout on exit (default true)".  Logout is called with
\* a context under which it can succeed, also when a request or a session that hangs has made
\* a drain fail.
LogsOutOnExit ==
    LogoutFlag /\ main = "logout" /\ (httpFailed \/ wsFailed)
        /\ (\E c \in Conns : conn[c] \in {"active", "session"}) => ~Expired
=============================================================================
