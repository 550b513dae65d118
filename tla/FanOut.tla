------------------------------- MODULE FanOut -------------------------------
(***************************************************************************)
(* One request to a handler of the web UI that asks every target and       *)
(* gathers the answers: RelativeJSON (passthrough.go), Ping, QueryDNS,     *)
(* Goroutines, Pprof and PeerMap of src/api/webui/tsymbiotewebui.  Each    *)
(* starts a goroutine with an unbuffered channel per target, receives from *)
(* the channels in the order of the targets, and closes each.  What they   *)
(* do with an answer that breaks off, or is not what they expect, differs. *)
(***************************************************************************)
EXTENDS Naturals, Sequences

CONSTANT MaxTargets         \* bound: targets of the request

ASSUME TargetsAssumption == MaxTargets \in Nat

VARIABLES
    handler,        \* the handler that got the request
    phase,          \* the handler: reading its input, gathering, done
    n,              \* the number of targets
    caller,         \* caller[t]: the goroutine of target t
    result,         \* result[t]: what the goroutine has in hand
    closed,         \* the targets whose channel the handler has closed
    step,           \* gathering: to receive, to close, or to append
    taken,          \* the result received last
    results,        \* those gathered so far
    file,           \* file[t]: the profile that Pprof keeps of t
    crashed,        \* a panic outside of the handler's own goroutine: the process ends
    outcome         \* outcome[t]: how the call of t went (history)

vars == <<handler, phase, n, caller, result, closed, step, taken, results, file, crashed, outcome>>

Targets == 1..MaxTargets
Handlers == {"RelativeJSON", "Ping", "QueryDNS", "Goroutines", "Pprof", "PeerMap"}

\* The result of t: whether it has an error, and none, a part, or all of the answer.
Result(t, e, d) == [target |-> t, error |-> e, data |-> d]
Results == [target : Targets, error : {"none", "some"}, data : {"none", "part", "whole"}]
Nothing == [target |-> 0]

TypeOK ==
    /\ handler \in Handlers
    /\ phase \in {"reading", "gathering", "replied", "refused"}
    /\ n \in 0..MaxTargets
    /\ caller \in [Targets -> {"none", "calling", "sends", "sendsFirst", "sendsAgain", "ended"}]
    /\ result \in [Targets -> Results]
    /\ closed \subseteq Targets
    /\ step \in {"receive", "close", "append"}
    /\ taken \in Results \union {Nothing}
    /\ results \in Seq(Results)
    /\ file \in [Targets -> {"none", "kept", "failed"}]
    /\ crashed \in BOOLEAN
    /\ outcome \in [Targets -> {"none", "failed", "broken", "odd", "whole"}]

Init ==
    /\ handler \in Handlers
    /\ phase = "reading" /\ n = 0
    /\ caller = [t \in Targets |-> "none"]
    /\ result = [t \in Targets |-> Result(t, "none", "none")]
    /\ closed = {} /\ step = "receive" /\ taken = Nothing /\ results = <<>>
    /\ file = [t \in Targets |-> "none"]
    /\ crashed = FALSE
    /\ outcome = [t \in Targets |-> "none"]

gatherer == <<phase, n, closed, step, taken, results, file>>

-----------------------------------------------------------------------------
(* The input                                                               *)

\* It cannot be decoded; PeerMap: the device list cannot be had.
Refuse ==
    /\ phase = "reading" /\ phase' = "refused"
    /\ UNCHANGED <<handler, n, caller, result, closed, step, taken, results, file, crashed, outcome>>

\* A loop that counts one channel too many.
FanOneMore(k) ==
    /\ phase = "reading" /\ phase' = "gathering"
    /\ n' = k + 1
    /\ caller' = [t \in Targets |-> IF t <= k THEN "calling" ELSE "none"]
    /\ UNCHANGED <<handler, result, closed, step, taken, results, file, crashed, outcome>>

Fan(k) ==
    /\ phase = "reading" /\ phase' = "gathering"
    /\ n' = k
    /\ caller' = [t \in Targets |-> IF t <= k THEN "calling" ELSE "none"]
    /\ UNCHANGED <<handler, result, closed, step, taken, results, file, crashed, outcome>>

-----------------------------------------------------------------------------
(* The goroutine of a target                                               *)

\* The call of t goes as o says; the goroutine is to send r next.
CallReturns(t, o, at, r) ==
    /\ ~crashed
    /\ caller[t] = "calling" /\ caller' = [caller EXCEPT ![t] = at]
    /\ result' = [result EXCEPT ![t] = r]
    /\ outcome' = [outcome EXCEPT ![t] = o]
    /\ UNCHANGED <<handler, gatherer>>

\* An error path that returns without a result.
FailsSilently(t) ==
    CallReturns(t, "failed", "ended", Result(t, "some", "none")) /\ UNCHANGED crashed

\* No adapter is known for the host, it cannot be reached, replies with another
\* status, or not in time; or the browser went away.
Fails(t) == CallReturns(t, "failed", "sends", Result(t, "some", "none")) /\ UNCHANGED crashed

Whole(t) == CallReturns(t, "whole", "sends", Result(t, "none", "whole")) /\ UNCHANGED crashed

\* What a handler may keep of an answer that is not whole: QueryDNS decodes into the
\* result it is about to send, Goroutines sends what it has read.
Salvaged == IF handler \in {"QueryDNS", "Goroutines"} THEN {"none", "part"} ELSE {"none"}

\* The missing return of RelativeJSON, in every handler.
BreaksOn(t) ==
    /\ \E d \in Salvaged : CallReturns(t, "broken", "sendsFirst", Result(t, "some", d))
    /\ UNCHANGED crashed

\* The answer breaks off (the adapter ends, the deadline passes) or cannot be decoded.
\* RelativeJSON goes on after it has sent the error.
Breaks(t) ==
    /\ \E d \in Salvaged :
           CallReturns(t, "broken", IF handler = "RelativeJSON" THEN "sendsFirst" ELSE "sends",
                       Result(t, "some", d))
    /\ UNCHANGED crashed

\* A status without the fields that PeerMap asserts to be there: the assertion panics.
Odd(t) ==
    /\ handler = "PeerMap"
    /\ CallReturns(t, "odd", "ended", result[t])
    /\ crashed' = TRUE

\* RelativeJSON's second send: the channel has been closed, or is while it waits.
SendsAgain(t) ==
    /\ ~crashed
    /\ caller[t] = "sendsAgain" /\ t \in closed
    /\ caller' = [caller EXCEPT ![t] = "ended"]
    /\ crashed' = TRUE
    /\ UNCHANGED <<handler, gatherer, result, outcome>>

-----------------------------------------------------------------------------
(* The handler                                                             *)

\* The target whose channel is next.
Turn == Len(results) + 1

Gathering(s) == phase = "gathering" /\ ~crashed /\ Turn <= n /\ step = s

\* A receive takes whatever goroutine is first: one channel for all of them.
ReceiveFirst ==
    /\ Gathering("receive") /\ step' = "close"
    /\ \E t \in Targets :
        /\ caller[t] \in {"sends", "sendsFirst"}
        /\ taken' = result[t]
        /\ caller' = [caller EXCEPT ![t] = IF @ = "sends" THEN "ended" ELSE "sendsAgain"]
    /\ UNCHANGED <<handler, phase, n, closed, results, file, crashed, result, outcome>>

\* The goroutine and the handler meet at the channel.
Receive ==
    /\ Gathering("receive") /\ step' = "close"
    /\ caller[Turn] \in {"sends", "sendsFirst"}
    /\ taken' = result[Turn]
    /\ caller' = [caller EXCEPT ![Turn] = IF @ = "sends" THEN "ended" ELSE "sendsAgain"]
    /\ UNCHANGED <<handler, phase, n, closed, results, file, crashed, result, outcome>>

Close ==
    /\ Gathering("close") /\ step' = "append"
    /\ closed' = closed \union {Turn}
    /\ UNCHANGED <<handler, phase, n, caller, result, taken, results, file, crashed, outcome>>

\* What becomes of the result r: PeerMap forgets the error, Pprof replies without the data.
Kept(r) ==
    IF handler = "PeerMap" THEN Result(r.target, "none", r.data)
    ELSE IF handler = "Pprof" THEN Result(r.target, r.error, "none")
    ELSE r

\* Pprof first writes the profile to a file; that a write failed is noted in a result
\* that nobody reads.
Add ==
    /\ Gathering("append") /\ step' = "receive"
    /\ results' = Append(results, Kept(taken))
    /\ IF handler = "Pprof" /\ taken.error = "none"
       THEN \E s \in {"kept", "failed"} : file' = [file EXCEPT ![taken.target] = s]
       ELSE UNCHANGED file
    /\ UNCHANGED <<handler, phase, n, caller, result, closed, taken, crashed, outcome>>

\* A loop that gives up at the first error.
ReplyAtError ==
    /\ phase = "gathering" /\ ~crashed
    /\ Turn > n \/ (step = "receive" /\ \E i \in DOMAIN results : results[i].error = "some")
    /\ phase' = "replied"
    /\ UNCHANGED <<handler, n, caller, result, closed, step, taken, results, file, crashed, outcome>>

Reply ==
    /\ phase = "gathering" /\ ~crashed
    /\ Turn > n
    /\ phase' = "replied"
    /\ UNCHANGED <<handler, n, caller, result, closed, step, taken, results, file, crashed, outcome>>

-----------------------------------------------------------------------------
Caller(t) == Fails(t) \/ Whole(t) \/ Breaks(t) \/ Odd(t) \/ SendsAgain(t)

Gatherer == Receive \/ Close \/ Add \/ Reply

Next ==
    \/ Refuse \/ \E k \in 0..MaxTargets : Fan(k)
    \/ \E t \in Targets : Caller(t)
    \/ Gatherer

Spec == Init /\ [][Next]_vars

\* Every call has a deadline, and the goroutines run.
FairSpec == Spec /\ WF_vars(Gatherer) /\ \A t \in Targets : WF_vars(Caller(t))

-----------------------------------------------------------------------------
(* Properties                                                              *)

\* Whatever the order in which the calls return, the i-th result is that of the i-th
\* target, and tells how its call went: an error exactly if the call failed or broke
\* off, all of the answer exactly if it came whole.  Two handlers tell less: PeerMap
\* leaves out the error, and Pprof puts the answer into a file, of which it says
\* nothing when that fails.
TellsHowItWent ==
    \A i \in DOMAIN results :
        /\ results[i].target = i
        /\ outcome[i] \in {"failed", "broken", "whole"}
        /\ handler # "PeerMap" => (results[i].error = "some" <=> outcome[i] \in {"failed", "broken"})
        /\ handler # "Pprof" => (results[i].data = "whole" <=> outcome[i] = "whole")
        /\ handler = "Pprof" => (file[i] # "none" <=> outcome[i] = "whole")

\* A reply leaves no goroutine behind, nor one that could send to nobody, but for
\* RelativeJSON's that send a second time.
NobodyBehind ==
    phase = "replied" =>
        /\ \A t \in 1..n : caller[t] = "ended" \/ (caller[t] = "sendsAgain" /\ t \in closed)
        /\ Len(results) = n

\* The handler never waits at a channel for a goroutine that will not send to it any more:
\* every path of a goroutine sends once (ping.go:63-104), and a result is taken once.
WaitsForLiving == Gathering("receive") => caller[Turn] \in {"calling", "sends", "sendsFirst"}

GatherInv == TypeOK /\ NobodyBehind /\ WaitsForLiving

\* Every handler implements Gather: with its goroutines, channels and the order it receives
\* in hidden, a request is a set of calls, and one reply about each of them.
Came(r) == IF handler = "PeerMap" THEN r.data = "whole" ELSE r.error = "none"
Says(r) == [target |-> r.target, answer |-> IF Came(r) THEN "whole" ELSE "missing"]
Request == INSTANCE Gather WITH
               asked <- n, dead <- crashed,
               reply <- IF phase # "replied" THEN <<>>
                        ELSE [i \in DOMAIN results |-> Says(results[i])]
OneReply == Request!GSpec

\* The process only ends because of an answer that PeerMap did not expect or
\* RelativeJSON could not decode.
CrashForCause ==
    crashed => \E t \in 1..n : \/ handler = "PeerMap" /\ outcome[t] = "odd"
                               \/ handler = "RelativeJSON" /\ outcome[t] = "broken"

\* Every request is answered, or the process ends; and one whose answer RelativeJSON
\* could not decode ends it, however the reply and the second send race.
Finishes ==
    /\ phase = "gathering" ~> phase = "replied" \/ crashed
    /\ \A t \in Targets : handler = "RelativeJSON" /\ outcome[t] = "broken" ~> crashed

-----------------------------------------------------------------------------
(* Why the safety properties hold: an inductive invariant.                 *)

\* A goroutine's result tells how its call went.
InHand ==
    \A t \in Targets :
        /\ result[t].target = t
        /\ caller[t] \in {"none", "calling"} <=> outcome[t] = "none"
        /\ caller[t] # "none" => phase # "reading" /\ t <= n
        /\ caller[t] \in {"sends", "sendsFirst"} =>
              /\ outcome[t] \in {"failed", "broken", "whole"}
              /\ result[t].error = "some" <=> outcome[t] \in {"failed", "broken"}
              /\ result[t].data = "whole" <=> outcome[t] = "whole"
        /\ caller[t] \in {"sendsFirst", "sendsAgain"} =>
              handler = "RelativeJSON" /\ outcome[t] = "broken"

\* Who has been received, and whose channel is closed.
Progress ==
    /\ phase \in {"reading", "refused"} => results = <<>> /\ step = "receive" /\ n = 0
    /\ phase # "gathering" => step = "receive"
    /\ phase = "replied" => Len(results) = n
    /\ Len(results) <= n /\ (step # "receive" => Len(results) < n)
    /\ \A t \in 1..Len(results) : caller[t] \in {"sendsAgain", "ended"} /\ t \in closed
    /\ step # "receive" => caller[Turn] \in {"sendsAgain", "ended"}
    /\ step = "append" => Turn \in closed

\* The result in the handler's hand.
Taken ==
    step # "receive" =>
        /\ taken \in Results /\ taken.target = Turn
        /\ outcome[Turn] \in {"failed", "broken", "whole"}
        /\ taken.error = "some" <=> outcome[Turn] \in {"failed", "broken"}
        /\ taken.data = "whole" <=> outcome[Turn] = "whole"

\* Files are only written for the results gathered.
Files == \A t \in Targets : file[t] # "none" => t <= Len(results)

\* The goroutines not yet received from, while the process lives.
Ahead ==
    phase = "gathering" /\ ~crashed =>
        \A t \in 1..n : t > Turn \/ (t = Turn /\ step = "receive")
                         => caller[t] \in {"calling", "sends", "sendsFirst"}

IInv == TypeOK /\ TellsHowItWent /\ CrashForCause /\ InHand /\ Progress /\ Taken /\ Files
=============================================================================
