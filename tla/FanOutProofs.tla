----------------------------- MODULE FanOutProofs -----------------------------
(***************************************************************************)
(* What a fan-out handler replies, for any number of targets.              *)
(***************************************************************************)
EXTENDS FanOut, TLAPS

\* Results are records with the fields one expects.
LEMMA ResultFields ==
  /\ \A t \in Targets, e \in {"none", "some"}, d \in {"none", "part", "whole"} :
        /\ Result(t, e, d) \in Results
        /\ Result(t, e, d).target = t /\ Result(t, e, d).error = e /\ Result(t, e, d).data = d
  /\ \A r \in Results : r.target \in Targets /\ r.error \in {"none", "some"}
                        /\ r.data \in {"none", "part", "whole"}
  BY DEF Result, Results

\* What is kept of a result is a result for the same target.
LEMMA KeptFields ==
  ASSUME NEW r \in Results
  PROVE  /\ Kept(r) \in Results
         /\ Kept(r).target = r.target
         /\ handler # "PeerMap" => Kept(r).error = r.error
         /\ handler # "Pprof" => Kept(r).data = r.data
  BY ResultFields DEF Kept

\* A result gathered is that of some target.
LEMMA GatheredTargets ==
  ASSUME TypeOK, Progress
  PROVE  DOMAIN results = 1..Len(results) /\ 1..Len(results) \subseteq Targets
  <1>1. DOMAIN results = 1..Len(results) /\ Len(results) \in Nat
    BY DEF TypeOK
  <1>2. Len(results) <= n /\ n \in 0..MaxTargets
    BY DEF TypeOK, Progress
  <1> QED
    BY <1>1, <1>2, TargetsAssumption DEF Targets

LEMMA IInvInit == Init => IInv
  <1> SUFFICES ASSUME Init PROVE IInv
    OBVIOUS
  <1>1. TypeOK
    <2>1. n \in 0..MaxTargets /\ results \in Seq(Results) /\ closed \subseteq Targets
      BY TargetsAssumption DEF Init
    <2>2. result \in [Targets -> Results]
      BY ResultFields DEF Init
    <2> QED
      BY <2>1, <2>2 DEF Init, TypeOK
  <1>2. InHand
    BY ResultFields DEF Init, InHand
  <1>3. TellsHowItWent /\ CrashForCause /\ Progress /\ Taken /\ Files
    BY TargetsAssumption DEF Init, TellsHowItWent, CrashForCause, Progress, Taken, Files
  <1> QED
    BY <1>1, <1>2, <1>3 DEF IInv

-----------------------------------------------------------------------------
(* The input                                                               *)

LEMMA RefuseStep == ASSUME IInv, Refuse PROVE IInv'
  BY DEF IInv, Refuse, TypeOK, TellsHowItWent, CrashForCause, InHand, Progress, Taken, Files, Turn

LEMMA FanStep == ASSUME IInv, NEW k \in 0..MaxTargets, Fan(k) PROVE IInv'
  <1> USE TargetsAssumption
  <1>0. phase = "reading" /\ results = <<>> /\ step = "receive" /\ n = 0 /\ ~crashed
    BY DEF IInv, Fan, Progress, CrashForCause
  <1>1. TypeOK'
    BY DEF IInv, Fan, TypeOK, Targets
  <1>2. TellsHowItWent' /\ CrashForCause' /\ Taken' /\ Files'
    BY <1>0 DEF IInv, Fan, TellsHowItWent, CrashForCause, Taken, Files
  <1>3. InHand'
    <2>1. \A t \in Targets : caller[t] = "none"
      BY <1>0 DEF IInv, InHand, TypeOK
    <2> QED
      BY <1>0, <2>1 DEF IInv, Fan, InHand, TypeOK, Targets
  <1>4. Progress'
    BY <1>0 DEF IInv, Fan, Progress
  <1> QED
    BY <1>1, <1>2, <1>3, <1>4 DEF IInv

-----------------------------------------------------------------------------
(* The goroutine of a target                                               *)

\* A call that returns a result that tells how it went.
LEMMA ReturnStep ==
  ASSUME IInv, NEW t \in Targets, NEW r \in Results,
         NEW o \in {"failed", "broken", "whole"}, NEW at \in {"sends", "sendsFirst"},
         CallReturns(t, o, at, r), UNCHANGED crashed,
         r.target = t, r.error = "some" <=> o \in {"failed", "broken"}, r.data = "whole" <=> o = "whole",
         at = "sendsFirst" => handler = "RelativeJSON" /\ o = "broken"
  PROVE  IInv'
  <1>0. /\ ~crashed /\ caller[t] = "calling" /\ outcome[t] = "none"
        /\ caller' = [caller EXCEPT ![t] = at]
        /\ result' = [result EXCEPT ![t] = r]
        /\ outcome' = [outcome EXCEPT ![t] = o]
        /\ UNCHANGED <<handler, phase, n, closed, step, taken, results, file>>
    BY DEF CallReturns, gatherer, IInv, InHand
  <1>1. TypeOK'
    BY <1>0 DEF IInv, TypeOK
  <1>2. \A i \in DOMAIN results : i \in Targets /\ i # t
    BY <1>0, GatheredTargets DEF IInv, Progress
  <1>3. TellsHowItWent' /\ CrashForCause' /\ Files'
    BY <1>0, <1>2 DEF IInv, TypeOK, TellsHowItWent, CrashForCause, Files, Targets
  <1>4. InHand'
    BY <1>0 DEF IInv, TypeOK, InHand
  <1>5. Progress'
    BY <1>0 DEF IInv, TypeOK, Progress, Turn, Targets
  <1>6. Taken'
    BY <1>0 DEF IInv, TypeOK, Progress, Taken, Turn, Targets
  <1> QED
    BY <1>1, <1>3, <1>4, <1>5, <1>6 DEF IInv

LEMMA OddStep == ASSUME IInv, NEW t \in Targets, Odd(t) PROVE IInv'
  <1>0. /\ handler = "PeerMap" /\ caller[t] = "calling" /\ t \in 1..n /\ outcome[t] = "none"
        /\ crashed' = TRUE
        /\ caller' = [caller EXCEPT ![t] = "ended"]
        /\ result' = result
        /\ outcome' = [outcome EXCEPT ![t] = "odd"]
        /\ UNCHANGED <<handler, phase, n, closed, step, taken, results, file>>
    BY DEF Odd, CallReturns, gatherer, IInv, InHand, TypeOK, Targets
  <1>1. TypeOK'
    BY <1>0 DEF IInv, TypeOK
  <1>2. \A i \in DOMAIN results : i \in Targets /\ i # t
    BY <1>0, GatheredTargets DEF IInv, Progress
  <1>3. TellsHowItWent' /\ Files'
    BY <1>0, <1>2 DEF IInv, TypeOK, TellsHowItWent, Files, Targets
  <1>4. CrashForCause'
    BY <1>0 DEF IInv, TypeOK, CrashForCause
  <1>5. InHand'
    BY <1>0 DEF IInv, TypeOK, InHand
  <1>6. Progress'
    BY <1>0 DEF IInv, TypeOK, Progress, Turn, Targets
  <1>7. Taken'
    BY <1>0 DEF IInv, TypeOK, Progress, Taken, Turn, Targets
  <1> QED
    BY <1>1, <1>3, <1>4, <1>5, <1>6, <1>7 DEF IInv

LEMMA SendsAgainStep == ASSUME IInv, NEW t \in Targets, SendsAgain(t) PROVE IInv'
  <1>0. /\ handler = "RelativeJSON" /\ outcome[t] = "broken" /\ t \in 1..n
        /\ caller[t] = "sendsAgain"
        /\ crashed' = TRUE
        /\ caller' = [caller EXCEPT ![t] = "ended"]
        /\ UNCHANGED <<handler, phase, n, closed, step, taken, results, file, result, outcome>>
    BY DEF SendsAgain, gatherer, IInv, InHand, TypeOK, Targets
  <1>1. TypeOK'
    BY <1>0 DEF IInv, TypeOK
  <1>2. TellsHowItWent' /\ Files' /\ CrashForCause' /\ Taken'
    BY <1>0 DEF IInv, TellsHowItWent, Files, CrashForCause, Taken, Turn
  <1>3. InHand'
    BY <1>0 DEF IInv, TypeOK, InHand
  <1>4. Progress'
    BY <1>0 DEF IInv, TypeOK, Progress, Turn, Targets
  <1> QED
    BY <1>1, <1>2, <1>3, <1>4 DEF IInv

LEMMA CallerStep == ASSUME IInv, NEW t \in Targets, Caller(t) PROVE IInv'
  <1>1. CASE Fails(t)
    BY <1>1, ResultFields, ReturnStep DEF Fails
  <1>2. CASE Whole(t)
    BY <1>2, ResultFields, ReturnStep DEF Whole
  <1>3. CASE Breaks(t)
    <2> DEFINE at == IF handler = "RelativeJSON" THEN "sendsFirst" ELSE "sends"
    <2>1. PICK d \in {"none", "part"} : CallReturns(t, "broken", at, Result(t, "some", d))
      BY <1>3 DEF Breaks, Salvaged
    <2>2. /\ at \in {"sends", "sendsFirst"} /\ UNCHANGED crashed
          /\ at = "sendsFirst" => handler = "RelativeJSON"
      BY <1>3 DEF Breaks
    <2> HIDE DEF at
    <2> QED
      BY <2>1, <2>2, ResultFields, ReturnStep
  <1> QED
    BY <1>1, <1>2, <1>3, OddStep, SendsAgainStep DEF Caller

-----------------------------------------------------------------------------
(* The handler                                                             *)

\* The target whose turn it is.
LEMMA TurnIsTarget ==
  ASSUME TypeOK, NEW s, Gathering(s)
  PROVE  Turn \in Targets /\ Turn \in 1..n /\ Len(results) < n /\ phase = "gathering" /\ step = s
  BY TargetsAssumption DEF TypeOK, Gathering, Turn, Targets

LEMMA ReceiveStep == ASSUME IInv, Receive PROVE IInv'
  <1>0. /\ Turn \in Targets /\ Len(results) < n /\ phase = "gathering"
        /\ caller[Turn] \in {"sends", "sendsFirst"}
        /\ step' = "close" /\ taken' = result[Turn]
        /\ caller' = [caller EXCEPT ![Turn] = IF @ = "sends" THEN "ended" ELSE "sendsAgain"]
        /\ UNCHANGED <<handler, phase, n, closed, results, file, crashed, result, outcome>>
    BY TurnIsTarget DEF IInv, Receive
  <1>1. TypeOK'
    BY <1>0 DEF IInv, TypeOK
  <1>2. TellsHowItWent' /\ Files' /\ CrashForCause'
    BY <1>0 DEF IInv, TellsHowItWent, Files, CrashForCause
  <1>3. InHand'
    BY <1>0 DEF IInv, TypeOK, InHand
  <1>4. Progress'
    BY <1>0 DEF IInv, TypeOK, Progress, Turn, Targets
  <1>5. Taken'
    BY <1>0 DEF IInv, TypeOK, InHand, Taken, Turn
  <1> QED
    BY <1>1, <1>2, <1>3, <1>4, <1>5 DEF IInv

LEMMA CloseStep == ASSUME IInv, Close PROVE IInv'
  <1>0. /\ Turn \in Targets /\ Len(results) < n /\ phase = "gathering"
        /\ step = "close" /\ step' = "append" /\ closed' = closed \union {Turn}
        /\ UNCHANGED <<handler, phase, n, caller, result, taken, results, file, crashed, outcome>>
    BY TurnIsTarget DEF IInv, Close
  <1>1. TypeOK'
    BY <1>0 DEF IInv, TypeOK
  <1>2. TellsHowItWent' /\ Files' /\ CrashForCause' /\ InHand' /\ Taken'
    BY <1>0 DEF IInv, TellsHowItWent, Files, CrashForCause, InHand, Taken, Turn
  <1>3. Progress'
    BY <1>0 DEF IInv, TypeOK, Progress, Turn
  <1> QED
    BY <1>1, <1>2, <1>3 DEF IInv

LEMMA AddStep == ASSUME IInv, Add PROVE IInv'
  <1> DEFINE m == Len(results)
  <1>0. /\ Turn \in Targets /\ Turn = m + 1 /\ m \in Nat /\ m < n /\ n \in Nat
        /\ phase = "gathering"
        /\ step = "append" /\ step' = "receive"
        /\ results' = Append(results, Kept(taken))
        /\ UNCHANGED <<handler, phase, n, caller, result, closed, taken, crashed, outcome>>
    BY TurnIsTarget DEF IInv, TypeOK, Add, Turn
  <1>1. /\ taken \in Results /\ taken.target = Turn
        /\ outcome[Turn] \in {"failed", "broken", "whole"}
        /\ taken.error = "some" <=> outcome[Turn] \in {"failed", "broken"}
        /\ taken.data = "whole" <=> outcome[Turn] = "whole"
    BY <1>0 DEF IInv, Taken
  <1>2. /\ Kept(taken) \in Results /\ Kept(taken).target = Turn
        /\ handler # "PeerMap" => Kept(taken).error = taken.error
        /\ handler # "Pprof" => Kept(taken).data = taken.data
    BY <1>1, KeptFields
  <1>3. /\ results' \in Seq(Results) /\ Len(results') = Turn
        /\ results'[Turn] = Kept(taken)
        /\ \A i \in 1..m : results'[i] = results[i]
    BY <1>0, <1>2 DEF IInv, TypeOK
  <1>4. /\ file' \in [Targets -> {"none", "kept", "failed"}]
        /\ \A t \in Targets \ {Turn} : file'[t] = file[t]
        /\ handler = "Pprof" => (file'[Turn] # "none" <=> taken.error = "none")
    <2>1. file[Turn] = "none"
      BY <1>0 DEF IInv, TypeOK, Files
    <2>2. CASE handler = "Pprof" /\ taken.error = "none"
      <3>1. PICK s \in {"kept", "failed"} : file' = [file EXCEPT ![Turn] = s]
        BY <1>1, <2>2 DEF Add
      <3> QED
        BY <1>0, <2>2, <3>1 DEF IInv, TypeOK
    <2>3. CASE ~(handler = "Pprof" /\ taken.error = "none")
      <3>1. UNCHANGED file
        BY <2>3 DEF Add
      <3> QED
        BY <2>1, <2>3, <3>1 DEF IInv, TypeOK
    <2> QED
      BY <2>2, <2>3
  <1>5. TypeOK'
    BY <1>0, <1>1, <1>3, <1>4 DEF IInv, TypeOK
  <1>6. TellsHowItWent'
    <2> SUFFICES ASSUME NEW i \in 1..Turn
                 PROVE  /\ results'[i].target = i
                        /\ outcome[i] \in {"failed", "broken", "whole"}
                        /\ handler # "PeerMap" =>
                              (results'[i].error = "some" <=> outcome[i] \in {"failed", "broken"})
                        /\ handler # "Pprof" => (results'[i].data = "whole" <=> outcome[i] = "whole")
                        /\ handler = "Pprof" => (file'[i] # "none" <=> outcome[i] = "whole")
      BY <1>0, <1>3 DEF TellsHowItWent
    <2>1. CASE i = Turn
      <3>1. results'[i] = Kept(taken)
        BY <2>1, <1>3
      <3>2. /\ handler # "PeerMap" => results'[i].error = taken.error
            /\ handler # "Pprof" => results'[i].data = taken.data
            /\ results'[i].target = i
        BY <3>1, <2>1, <1>2
      <3>3. handler = "Pprof" => (file'[i] # "none" <=> outcome[i] = "whole")
        BY <2>1, <1>1, <1>4, ResultFields
      <3> QED
        BY <3>2, <3>3, <2>1, <1>1
    <2>2. CASE i # Turn
      <3>1. i \in 1..m /\ i \in Targets
        BY <2>2, <1>0, TargetsAssumption DEF Targets
      <3> QED
        BY <3>1, <2>2, <1>0, <1>3, <1>4 DEF IInv, TypeOK, TellsHowItWent
    <2> QED
      BY <2>1, <2>2
  <1>7. CrashForCause' /\ InHand'
    BY <1>0 DEF IInv, CrashForCause, InHand
  <1>8. Progress'
    <2>1. \A t \in 1..Turn : caller[t] \in {"sendsAgain", "ended"} /\ t \in closed
      BY <1>0 DEF IInv, Progress
    <2> QED
      BY <2>1, <1>0, <1>3 DEF Progress
  <1>9. Taken'
    BY <1>0 DEF Taken
  <1>10. Files'
    BY <1>0, <1>3, <1>4 DEF IInv, Files, Targets
  <1> QED
    BY <1>5, <1>6, <1>7, <1>8, <1>9, <1>10 DEF IInv

LEMMA ReplyStep == ASSUME IInv, Reply PROVE IInv'
  <1>0. /\ phase = "gathering" /\ phase' = "replied" /\ Len(results) + 1 > n
        /\ UNCHANGED <<handler, n, caller, result, closed, step, taken, results, file, crashed, outcome>>
    BY DEF Reply, Turn
  <1>1. TypeOK'
    BY <1>0 DEF IInv, TypeOK
  <1>2. TellsHowItWent' /\ Files' /\ CrashForCause' /\ InHand' /\ Taken'
    BY <1>0 DEF IInv, TellsHowItWent, Files, CrashForCause, InHand, Taken, Turn
  <1>3. Progress'
    <2>1. Len(results) = n /\ step = "receive"
      BY <1>0 DEF IInv, TypeOK, Progress
    <2> QED
      BY <1>0, <2>1 DEF IInv, TypeOK, Progress, Turn
  <1> QED
    BY <1>1, <1>2, <1>3 DEF IInv

-----------------------------------------------------------------------------
LEMMA IInvStep == IInv /\ [Next]_vars => IInv'
  <1> SUFFICES ASSUME IInv, [Next]_vars PROVE IInv'
    OBVIOUS
  <1>1. CASE Gatherer
    BY <1>1, ReceiveStep, CloseStep, AddStep, ReplyStep DEF Gatherer
  <1>2. CASE UNCHANGED vars
    BY <1>2 DEF IInv, vars, TypeOK, TellsHowItWent, CrashForCause, InHand, Progress, Taken, Files, Turn
  <1> QED
    BY <1>1, <1>2, RefuseStep, FanStep, CallerStep DEF Next

LEMMA IInvHolds == Spec => []IInv
  BY IInvInit, IInvStep, PTL DEF Spec

\* What is still to be received is on its way, as long as the process lives: a goroutine
\* whose turn has not been is calling, or at its send.
LEMMA AheadStep == IInv /\ Ahead /\ [Next]_vars => Ahead'
  <1> SUFFICES ASSUME IInv, Ahead, [Next]_vars, phase' = "gathering", ~crashed',
                      NEW t \in 1..n', t > Turn' \/ (t = Turn' /\ step' = "receive")
               PROVE  caller'[t] \in {"calling", "sends", "sendsFirst"}
    BY DEF Ahead
  <1> USE DEF IInv, TypeOK, Ahead, Targets
  <1>0. n' \in 0..MaxTargets /\ n' \in Nat /\ t \in Targets /\ Turn \in Nat /\ t \in Nat
    <2>1. TypeOK'
      BY IInvStep
    <2> QED
      BY <2>1, TargetsAssumption DEF Turn
  <1>1. ASSUME NEW k \in 0..MaxTargets, Fan(k) PROVE caller'[t] = "calling"
    BY <1>1, <1>0 DEF Fan
  <1>2. ASSUME NEW s \in Targets, Fails(s) \/ Whole(s) \/ Breaks(s)
        PROVE  caller'[t] \in {"calling", "sends", "sendsFirst"}
    <2>1. /\ \E at \in {"sends", "sendsFirst"} : caller' = [caller EXCEPT ![s] = at]
          /\ ~crashed /\ UNCHANGED gatherer
      BY <1>2 DEF Fails, Whole, Breaks, CallReturns
    <2> QED
      BY <2>1, <1>0 DEF gatherer, Turn
  <1>3. ASSUME NEW s \in Targets PROVE ~Odd(s) /\ ~SendsAgain(s)
    BY DEF Odd, SendsAgain
  <1>4. CASE Receive
    <2>1. /\ Turn \in Targets /\ step = "receive" /\ step' = "close" /\ ~crashed /\ phase = "gathering"
          /\ caller' = [caller EXCEPT ![Turn] = IF @ = "sends" THEN "ended" ELSE "sendsAgain"]
          /\ UNCHANGED <<n, results>>
      BY <1>4, TurnIsTarget DEF Receive, Gathering
    <2>2. t > Turn
      BY <2>1 DEF Turn
    <2> QED
      BY <1>0, <2>1, <2>2
  <1>5. CASE Close
    <2>1. /\ step = "close" /\ step' = "append" /\ ~crashed /\ phase = "gathering"
          /\ UNCHANGED <<n, results, caller>>
      BY <1>5 DEF Close, Gathering
    <2> QED
      BY <1>0, <2>1 DEF Turn
  <1>6. CASE Add
    <2>1. /\ ~crashed /\ phase = "gathering" /\ results' = Append(results, Kept(taken))
          /\ UNCHANGED <<n, caller>>
      BY <1>6 DEF Add, Gathering
    <2>2. Turn' = Turn + 1
      <3>1. taken \in Results
        BY <1>6 DEF Add, Gathering, Taken
      <3>2. Kept(taken) \in Results
        BY <3>1, KeptFields
      <3> QED
        BY <2>1, <3>2 DEF Turn
    <2>3. t > Turn
      BY <1>0, <2>2
    <2> QED
      BY <1>0, <2>1, <2>3
  <1>7. CASE Refuse \/ Reply
    BY <1>7 DEF Refuse, Reply
  <1>8. CASE UNCHANGED vars
    BY <1>8, <1>0 DEF vars, Turn
  <1> QED
    BY <1>1, <1>2, <1>3, <1>4, <1>5, <1>6, <1>7, <1>8 DEF Next, Caller, Gatherer

LEMMA AheadHolds == Spec => []Ahead
  <1>1. Init => Ahead
    BY DEF Init, Ahead
  <1> QED
    BY <1>1, AheadStep, IInvHolds, PTL DEF Spec

\* Types, for any number of targets.
THEOREM Typing == Spec => []TypeOK
  BY IInvHolds, PTL DEF IInv

\* The i-th result of a reply is that of the i-th target, and tells how its call went.
THEOREM RepliesTell == Spec => []TellsHowItWent
  BY IInvHolds, PTL DEF IInv

\* A goroutine that panics does so for one of two causes.
THEOREM CrashCauses == Spec => []CrashForCause
  BY IInvHolds, PTL DEF IInv

\* A reply waits for every goroutine, and the handler only for goroutines that are still
\* going to send: neither is left alone at a channel (but for RelativeJSON's second sends).
THEOREM AllGathered == Spec => []GatherInv
  <1>1. IInv => NobodyBehind
    BY DEF IInv, TypeOK, Progress, NobodyBehind
  <1>2. IInv /\ Ahead => WaitsForLiving
    <2> SUFFICES ASSUME IInv, Ahead, Gathering("receive")
                 PROVE  caller[Turn] \in {"calling", "sends", "sendsFirst"}
      BY DEF WaitsForLiving
    <2>1. Turn \in 1..n
      BY TurnIsTarget DEF IInv
    <2> QED
      BY <2>1 DEF Ahead, Gathering
  <1>3. IInv /\ Ahead => GatherInv
    BY <1>1, <1>2 DEF IInv, GatherInv
  <1> QED
    BY <1>3, IInvHolds, AheadHolds, PTL

-----------------------------------------------------------------------------
(* A request is a set of calls and one reply.                              *)

\* What the reply says of a target whose result was gathered.
LEMMA ReplySays ==
  ASSUME IInv, NEW i \in DOMAIN results
  PROVE  Says(results[i]) = [target |-> i, answer |-> Request!Said(outcome[i])]
  <1>1. results[i] \in Results /\ results[i].target = i
    BY DEF IInv, TypeOK, TellsHowItWent
  <1>2. Came(results[i]) <=> outcome[i] = "whole"
    <2>1. CASE handler = "PeerMap"
      BY <2>1 DEF IInv, TellsHowItWent, Came
    <2>2. CASE handler # "PeerMap"
      BY <2>2, <1>1, ResultFields DEF IInv, TellsHowItWent, Came
    <2> QED
      BY <2>1, <2>2
  <1> QED
    BY <1>1, <1>2 DEF Says, Request!Said

\* A call returns while its request is open.
LEMMA CallIsOpen ==
  ASSUME IInv, NEW t \in Targets, caller[t] = "calling"
  PROVE  phase = "gathering" /\ t \in 1..n /\ outcome[t] = "none"
  <1>1. phase # "reading" /\ t <= n /\ outcome[t] = "none" /\ t \in Nat /\ t >= 1 /\ n \in Nat
    BY TargetsAssumption DEF IInv, InHand, TypeOK, Targets
  <1>2. phase # "refused"
    BY <1>1 DEF IInv, Progress
  <1>3. phase # "replied"
    BY <1>1 DEF IInv, Progress
  <1> QED
    BY <1>1, <1>2, <1>3 DEF IInv, TypeOK

\* Each of the six handlers implements Gather: every call settles once, while the request
\* is open, and one reply, made when all have, tells of each (ping.go:108, goroutines.go:69,
\* passthrough.go:85 and the same loop of the others).
THEOREM Gathers == Spec => OneReply
  <1>1. Init => Request!GInit
    BY DEF Init, Request!GInit
  <1>2. IInv /\ IInv' /\ [Next]_vars => [Request!GNext]_(Request!gvars)
    <2> SUFFICES ASSUME IInv, IInv', [Next]_vars PROVE [Request!GNext]_(Request!gvars)
      OBVIOUS
    <2>a. ASSUME UNCHANGED <<phase, n, outcome, crashed, handler>>,
                 results' = results \/ phase # "replied"
          PROVE  UNCHANGED Request!gvars
      BY <2>a DEF Request!gvars, Says, Came
    <2>1. CASE Refuse
      BY <2>1 DEF Refuse, Request!GNext, Request!Decline
    <2>2. ASSUME NEW k \in 0..MaxTargets, Fan(k) PROVE Request!GNext
      <3>1. Request!Ask(k)
        BY <2>2 DEF Fan, Request!Ask
      <3>2. k \in Targets \union {0}
        BY TargetsAssumption DEF Targets
      <3> QED
        BY <3>1, <3>2 DEF Request!GNext
    <2>3. ASSUME NEW t \in Targets, Fails(t) \/ Whole(t) \/ Breaks(t) \/ Odd(t)
          PROVE  Request!GNext
      <3>1. /\ caller[t] = "calling" /\ ~crashed
            /\ UNCHANGED <<phase, n, results, handler>>
            /\ \/ /\ \E o \in {"failed", "broken", "whole"} : outcome' = [outcome EXCEPT ![t] = o]
                  /\ UNCHANGED crashed
               \/ outcome' = [outcome EXCEPT ![t] = "odd"] /\ crashed' = TRUE
        BY <2>3 DEF Fails, Whole, Breaks, Odd, CallReturns, gatherer
      <3>2. phase = "gathering" /\ t \in 1..n /\ outcome[t] = "none"
        BY <3>1, CallIsOpen
      <3>3. Request!Settle(t)
        BY <3>1, <3>2 DEF Request!Settle
      <3> QED
        BY <3>3 DEF Request!GNext
    <2>4. ASSUME NEW t \in Targets, SendsAgain(t) PROVE Request!GNext
      <3>1. /\ ~crashed /\ crashed' = TRUE /\ caller[t] = "sendsAgain"
            /\ UNCHANGED <<phase, n, results, handler, outcome>>
        BY <2>4 DEF SendsAgain, gatherer
      <3>2. t \in 1..n /\ outcome[t] = "broken"
        BY <3>1, TargetsAssumption DEF IInv, InHand, TypeOK, Targets
      <3>3. UNCHANGED <<phase, n, outcome, (IF phase # "replied" THEN <<>>
                                            ELSE [i \in DOMAIN results |-> Says(results[i])])>>
        BY <3>1 DEF Says, Came
      <3>4. Request!Die
        BY <3>1, <3>2, <3>3 DEF Request!Die
      <3> QED
        BY <3>4 DEF Request!GNext
    <2>5. CASE Receive \/ Close \/ Add
      BY <2>5, <2>a DEF Receive, Close, Add, Gathering
    <2>6. CASE Reply
      <3>1. /\ phase = "gathering" /\ ~crashed /\ phase' = "replied"
            /\ UNCHANGED <<n, outcome, crashed, results, handler>>
        BY <2>6 DEF Reply
      <3>2. DOMAIN results = 1..n
        <4>1. Len(results) = n
          BY <3>1 DEF IInv, Progress
        <4> QED
          BY <4>1 DEF IInv, TypeOK
      <3>3. \A i \in 1..n : outcome[i] \in {"failed", "broken", "whole"}
        BY <3>2 DEF IInv, TellsHowItWent
      <3>4. \A i \in 1..n : Says(results[i])' = [target |-> i, answer |-> Request!Said(outcome[i])]
        <4>1. \A i \in 1..n : Says(results[i])' = Says(results[i])
          BY <3>1 DEF Says, Came
        <4> QED
          BY <4>1, <3>2, ReplySays
      <3>5. [i \in DOMAIN results |-> Says(results[i])]'
              = [i \in 1..n |-> [target |-> i, answer |-> Request!Said(outcome[i])]]
        BY <3>1, <3>2, <3>4
      <3>6. Request!Answer
        BY <3>1, <3>3, <3>5 DEF Request!Answer
      <3> QED
        BY <3>6 DEF Request!GNext
    <2>7. CASE UNCHANGED vars
      BY <2>7, <2>a DEF vars
    <2> QED
      BY <2>1, <2>2, <2>3, <2>4, <2>5, <2>6, <2>7 DEF Next, Caller, Gatherer
  <1> QED
    BY <1>1, <1>2, IInvHolds, PTL DEF Spec, OneReply, Request!GSpec
=============================================================================
