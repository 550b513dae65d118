----------------------- MODULE ServerLifecycleProofs -----------------------
(***************************************************************************)
(* The shutdown of a server, for any number of connections.                *)
(***************************************************************************)
EXTENDS ServerLifecycle, TLAPS

LEMMA IInvInit == Init => IInv
  <1> SUFFICES ASSUME Init PROVE IInv
    OBVIOUS
  <1>1. TypeOK
    <2>1. wake \in 0..(ServerDrainPeriod + 2 * ServerHardShutdownTimeout)
      BY DEF Init, ServerDrainPeriod, ServerHardShutdownTimeout
    <2>2. conn \in [Conns -> ConnStates]
      BY DEF Init, ConnStates
    <2> QED
      BY <2>1, <2>2 DEF Init, TypeOK, MainStates
  <1> QED
    BY <1>1 DEF Init, IInv, PhaseTimes, PhaseFacts, ShutdownBounded, WaitsForRequests,
               FailedDrainStaysIn, ServerDrainPeriod, ServerHardShutdownTimeout, Expired

\* Types.
LEMMA TypeStep == TypeOK /\ PhaseTimes /\ [Next]_vars => TypeOK'
  <1> SUFFICES ASSUME TypeOK, PhaseTimes, [Next]_vars PROVE TypeOK'
    OBVIOUS
  <1> USE LogoutAssumption
      DEF TypeOK, MainStates, ConnStates, outcome, ServerDrainPeriod, ServerHardShutdownTimeout
  <1>1. ASSUME NEW c \in Conns, Accept(c) \/ Replies(c) \/ Upgrades(c) \/ HandlerReturns(c)
                                \/ GivesUp(c)
        PROVE  TypeOK'
    BY <1>1 DEF Accept, Replies, Upgrades, HandlerReturns, GivesUp, ConnMoves
  <1>2. ASSUME NEW c \in Conns, RunsFunc(c) \/ FuncsReturn(c) \/ SessionEnds(c)
        PROVE  TypeOK'
    BY <1>2 DEF RunsFunc, FuncsReturn, SessionEnds, LeavesGroup, ConnMoves
  <1>3. CASE Signal \/ CancelSessions \/ WaitStep \/ SecondSignal
    BY <1>3 DEF Signal, CancelSessions, WaitStep, WaitBegins, WaitReturns, WaitPanics,
                SecondSignal
  <1>4. CASE HttpDrained \/ NapEnds \/ WsDrained
    BY <1>4 DEF HttpDrained, NapEnds, WsDrained
  <1>5. CASE HttpTimesOut \/ WsTimesOut
    <2>1. wake' \in 0..(ServerDrainPeriod + 2 * ServerHardShutdownTimeout)
      BY <1>5 DEF HttpTimesOut, WsTimesOut, PhaseTimes
    <2> QED
      BY <1>5, <2>1 DEF HttpTimesOut, WsTimesOut
  <1>6. CASE Logout
    <2>1. loggedOut' \in BOOLEAN
      BY <1>6 DEF Logout
    <2> QED
      BY <1>6, <2>1 DEF Logout
  <1>7. CASE Tick
    BY <1>7 DEF Tick
  <1>8. CASE UNCHANGED vars
    BY <1>8 DEF vars
  <1> QED
    BY <1>1, <1>2, <1>3, <1>4, <1>5, <1>6, <1>7, <1>8 DEF Next, ConnStep, MainStep

\* Time: a phase whose end is due is left before the next second.
LEMMA TimeStep ==
    TypeOK /\ PhaseTimes /\ ShutdownBounded /\ [Next]_vars => PhaseTimes' /\ ShutdownBounded'
  <1> SUFFICES ASSUME TypeOK, PhaseTimes, ShutdownBounded, [Next]_vars
               PROVE  PhaseTimes' /\ ShutdownBounded'
    OBVIOUS
  <1> USE DEF TypeOK, PhaseTimes, ShutdownBounded, ServerDrainPeriod,
              ServerHardShutdownTimeout, Expired
  <1>1. CASE ConnStep
    <2>1. UNCHANGED <<main, clock, wake>>
      BY <1>1 DEF ConnStep, Accept, Replies, Upgrades, RunsFunc, HandlerReturns, GivesUp,
                  FuncsReturn, SessionEnds, LeavesGroup, ConnMoves
    <2> QED
      BY <2>1
  <1>2. CASE Signal \/ CancelSessions \/ WaitStep \/ SecondSignal
    BY <1>2 DEF Signal, CancelSessions, WaitStep, WaitBegins, WaitReturns, WaitPanics,
                SecondSignal
  <1>3. CASE HttpDrained \/ NapEnds \/ WsDrained
    BY <1>3 DEF HttpDrained, NapEnds, WsDrained
  <1>4. CASE HttpTimesOut \/ WsTimesOut
    BY <1>4 DEF HttpTimesOut, WsTimesOut
  <1>5. CASE Logout
    BY <1>5 DEF Logout
  <1>6. CASE Tick
    BY <1>6 DEF Tick, Due, Running, MainStates
  <1>7. CASE UNCHANGED vars
    BY <1>7 DEF vars
  <1> QED
    BY <1>1, <1>2, <1>3, <1>4, <1>5, <1>6, <1>7 DEF Next, MainStep

\* What each phase knows.
LEMMA FactsStep ==
    TypeOK /\ PhaseTimes /\ PhaseFacts /\ WaitsForRequests /\ FailedDrainStaysIn /\ [Next]_vars
        => PhaseFacts' /\ WaitsForRequests' /\ FailedDrainStaysIn'
  <1> SUFFICES ASSUME TypeOK, PhaseTimes, PhaseFacts, WaitsForRequests, FailedDrainStaysIn,
                      [Next]_vars
               PROVE  PhaseFacts' /\ WaitsForRequests' /\ FailedDrainStaysIn'
    OBVIOUS
  <1> USE DEF PhaseFacts, WaitsForRequests, FailedDrainStaysIn, InGroup, outcome
  <1>1. ASSUME NEW c \in Conns, ConnMoves(c, "none", "active"), listening,
               UNCHANGED <<wg, late>>
        PROVE  PhaseFacts' /\ WaitsForRequests' /\ FailedDrainStaysIn'
    BY <1>1 DEF ConnMoves, TypeOK, Expired
  <1>2. ASSUME NEW c \in Conns, Replies(c) \/ Upgrades(c) \/ HandlerReturns(c) \/ GivesUp(c)
                                \/ FuncsReturn(c) \/ SessionEnds(c)
        PROVE  PhaseFacts' /\ WaitsForRequests' /\ FailedDrainStaysIn'
    <2>1. wg' = "returned" => wg = "returned"
      BY <1>2 DEF Replies, Upgrades, HandlerReturns, GivesUp, FuncsReturn, SessionEnds,
                  LeavesGroup
    <2>2. wg = "returned" => wg' = "returned"
      BY <1>2 DEF Replies, Upgrades, HandlerReturns, GivesUp, FuncsReturn, SessionEnds,
                  LeavesGroup
    <2>3. \A d \in Conns : /\ InGroup(d)' => InGroup(d)
                           /\ conn'[d] = "active" => conn[d] = "active"
      BY <1>2 DEF Replies, Upgrades, HandlerReturns, GivesUp, FuncsReturn, SessionEnds,
                  LeavesGroup, ConnMoves, TypeOK
    <2>4. UNCHANGED <<main, listening, late, clock, httpFailed, wsFailed, loggedOut>>
      BY <1>2 DEF Replies, Upgrades, HandlerReturns, GivesUp, FuncsReturn, SessionEnds,
                  LeavesGroup, ConnMoves
    <2> QED
      BY <2>1, <2>2, <2>3, <2>4 DEF Expired
  <1>3. ASSUME NEW c \in Conns, RunsFunc(c)
        PROVE  PhaseFacts' /\ WaitsForRequests' /\ FailedDrainStaysIn'
    BY <1>3 DEF RunsFunc, ConnMoves, TypeOK, Expired
  <1>4. CASE Signal
    BY <1>4 DEF Signal, Expired
  <1>5. CASE CancelSessions \/ WaitStep
    BY <1>5 DEF CancelSessions, WaitStep, WaitBegins, WaitReturns, WaitPanics, Waiting,
                GroupEmpty, Running, Expired
  <1>6. CASE SecondSignal
    BY <1>6 DEF SecondSignal, Running, Expired
  <1>7. CASE HttpDrained \/ NapEnds \/ WsDrained
    BY <1>7 DEF HttpDrained, NapEnds, WsDrained, Expired
  <1>8. CASE HttpTimesOut \/ WsTimesOut
    BY <1>8 DEF HttpTimesOut, WsTimesOut, Expired
  <1>9. CASE Logout
    <2>1. loggedOut' => ~Expired
      BY <1>9 DEF Logout
    <2> QED
      BY <1>9, <2>1 DEF Logout, Expired
  <1>10. CASE Tick
    <2>1. Expired => Expired'
      BY <1>10 DEF Tick, Expired, TypeOK, ServerDrainPeriod
    <2> QED
      BY <1>10, <2>1 DEF Tick
  <1>11. CASE UNCHANGED vars
    BY <1>11 DEF vars, Expired
  <1> QED
    BY <1>1, <1>2, <1>3, <1>4, <1>5, <1>6, <1>7, <1>8, <1>9, <1>10, <1>11
       DEF Next, ConnStep, MainStep, Accept

LEMMA IInvHolds == Spec => []IInv
  <1>1. IInv /\ [Next]_vars => IInv'
    BY TypeStep, TimeStep, FactsStep DEF IInv
  <1> QED
    BY <1>1, IInvInit, PTL DEF Spec

\* However requests and sessions hang, the exit comes within the drain period and the
\* two sleeps of ListenAndServe.
THEOREM Bounded == Spec => []LifecycleInv
  BY IInvHolds, PTL DEF IInv, LifecycleInv

\* A drain that reported success cut nothing off: no request, and no session but of a
\* connection that called RunWSFunc after the wait for the sessions had returned.
THEOREM DrainsAreTrue == Spec => []WaitsForRequests
  BY IInvHolds, PTL DEF IInv

\* Why LogsOutOnExit fails, for any number of connections: a server one of whose drains has
\* failed stays logged in, since the drain has used up the context of Logout (server.go:175).
THEOREM FailedDrainNeverLogsOut == Spec => []FailedDrainStaysIn
  BY IInvHolds, PTL DEF IInv

-----------------------------------------------------------------------------
(* Why the process exits                                                   *)

Limit == ServerDrainPeriod + 2 * ServerHardShutdownTimeout

\* The phases that ListenAndServe has before it.
PhasesLeft ==
    CASE main = "serving" -> 6
      [] main = "http" -> 5
      [] main = "httpNap" -> 4
      [] main = "wait" -> 3
      [] main = "waitNap" -> 2
      [] main = "logout" -> 1
      [] OTHER -> 0

\* Seconds and phases.
StepsLeft == (Limit - clock) + PhasesLeft

LEMMA StepsLeftNat == LifecycleInv => StepsLeft \in Nat
  BY DEF LifecycleInv, TypeOK, ShutdownBounded, StepsLeft, Limit, PhasesLeft, MainStates,
         ServerDrainPeriod, ServerHardShutdownTimeout

LEMMA StepsLeftStep ==
  ASSUME LifecycleInv, LifecycleInv', [Next]_vars
  PROVE  /\ Tick \/ MainStep => StepsLeft' < StepsLeft
         /\ StepsLeft' <= StepsLeft
  <1>a. /\ clock \in 0..12 /\ clock' \in 0..12
        /\ main \in MainStates /\ main' \in MainStates
    BY DEF LifecycleInv, TypeOK, ShutdownBounded, ServerDrainPeriod, ServerHardShutdownTimeout
  <1>b. PhasesLeft \in Nat /\ PhasesLeft' \in Nat
    BY DEF PhasesLeft
  <1>c. /\ StepsLeft = (12 - clock) + PhasesLeft
        /\ StepsLeft' = (12 - clock') + PhasesLeft'
    BY DEF StepsLeft, Limit, ServerDrainPeriod, ServerHardShutdownTimeout
  <1>d. \A c \in 0..12 : \A p, q \in Nat :
            p < q => /\ (12 - c) + p < (12 - c) + q
                     /\ (12 - c) + p <= (12 - c) + q
    OBVIOUS
  <1>1. CASE Tick
    <2>1. clock' = clock + 1 /\ PhasesLeft' = PhasesLeft
      BY <1>1 DEF Tick, PhasesLeft
    <2> QED
      BY <2>1, <1>a, <1>b, <1>c
  <1>2. CASE MainStep
    <2>1. clock' = clock /\ PhasesLeft' < PhasesLeft
      <3> USE DEF PhasesLeft
      <3>1. CASE HttpDrained \/ HttpTimesOut
        BY <3>1 DEF HttpDrained, HttpTimesOut
      <3>2. CASE NapEnds
        BY <3>2 DEF NapEnds
      <3>3. CASE WsDrained \/ WsTimesOut
        BY <3>3 DEF WsDrained, WsTimesOut
      <3>4. CASE Logout
        BY <3>4 DEF Logout
      <3> QED
        BY <1>2, <3>1, <3>2, <3>3, <3>4 DEF MainStep
    <2> QED
      BY <2>1, <1>a, <1>b, <1>c, <1>d
  <1>3. CASE ConnStep \/ CancelSessions \/ WaitBegins \/ WaitReturns \/ UNCHANGED vars
    <2>1. UNCHANGED <<main, clock>>
      BY <1>3 DEF ConnStep, Accept, Replies, Upgrades, RunsFunc, HandlerReturns, GivesUp,
                  FuncsReturn, SessionEnds, LeavesGroup, ConnMoves, CancelSessions,
                  WaitBegins, WaitReturns, vars
    <2>2. StepsLeft' = StepsLeft
      BY <2>1 DEF StepsLeft, PhasesLeft, Limit
    <2>3. CASE Tick \/ MainStep
      BY <1>1, <1>2, <2>3
    <2> QED
      BY <2>2, <2>3, <1>a, <1>b, <1>c
  <1>4. CASE Signal \/ SecondSignal \/ WaitPanics
    <2>1. clock' = clock /\ PhasesLeft' < PhasesLeft
      BY <1>4, <1>a DEF Signal, SecondSignal, WaitPanics, Waiting, Running, MainStates,
                        PhasesLeft
    <2> QED
      BY <2>1, <1>a, <1>b, <1>c, <1>d
  <1> QED
    <2>1. CASE MainStep \/ Tick
      BY <2>1, <1>1, <1>2
    <2> QED
      BY <2>1, <1>3, <1>4 DEF Next, WaitStep

\* From anywhere in ListenAndServe the end is a number of seconds and phases away, of which
\* each second and each phase takes one and nothing that requests, sessions or signals do
\* adds one.  As long as time passes and the main goroutine runs, this is why Exits holds.
THEOREM ExitNearer ==
  Spec => /\ [](StepsLeft \in Nat)
          /\ [][StepsLeft' <= StepsLeft /\ (Tick \/ MainStep => StepsLeft' < StepsLeft)]_vars
  <1>1. LifecycleInv /\ LifecycleInv' /\ [Next]_vars =>
            [StepsLeft' <= StepsLeft /\ (Tick \/ MainStep => StepsLeft' < StepsLeft)]_vars
    BY StepsLeftStep
  <1> QED
    BY <1>1, StepsLeftNat, Bounded, PTL DEF Spec
=============================================================================
