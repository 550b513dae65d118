------------------------ MODULE CommandConsoleProofs ------------------------
(***************************************************************************)
(* Titles, outputs and streams, for any number of commands.                *)
(***************************************************************************)
EXTENDS CommandConsole, TLAPS

LEMMA Requested ==
  ASSUME NEW r \in Requests
  PROVE  /\ r.nr \in Commands /\ r.kind \in {"hosts", "ping", "pprof", "files"}
         /\ [r EXCEPT !.kind = "files"] \in Requests /\ [r EXCEPT !.kind = "files"].nr = r.nr
         /\ [r EXCEPT !.kind = "files"].kind = "files"
  BY DEF Requests

\* What is left of the stream: its socket was open and is being closed, or it is lost.
LEMMA Hanging ==
  ASSUME IInv
  PROVE  /\ Hung \in [Commands -> SocketStates] /\ Left \subseteq Commands /\ lost \subseteq Left
         /\ \A s \in Commands : /\ Hung[s] = "none" <=> sock[s] = "none"
                                /\ Hung[s] \in {"connecting", "open"} => s \in Left
  <1>1. \A s \in Commands : sock[s] \in {"connecting", "open"} => s \in {ws} \union lost
    BY DEF IInv, NoHiddenStream
  <1>2. ws # 0 => ws \in Commands
    BY MaxAssumption DEF IInv, TypeOK, Commands
  <1>3. CASE ws # 0 /\ sock[ws] = "open"
    BY <1>1, <1>2, <1>3 DEF Hung, Left, IInv, TypeOK, SocketStates
  <1>4. CASE ws # 0 /\ sock[ws] = "connecting"
    BY <1>1, <1>2, <1>4 DEF Hung, Left, IInv, TypeOK, SocketStates
  <1>5. CASE ~(ws # 0 /\ sock[ws] \in {"connecting", "open"})
    <2>1. Hung = sock /\ Left = lost
      BY <1>5 DEF Hung, Left
    <2>2. \A s \in Commands : sock[s] \in {"connecting", "open"} => s \in lost
      BY <1>1, <1>5, MaxAssumption DEF Commands
    <2> QED
      BY <2>1, <2>2 DEF IInv, TypeOK
  <1> QED
    BY <1>3, <1>4, <1>5

\* cancelStreaming keeps what the invariant says of sockets.
LEMMA CancelKeeps ==
  ASSUME IInv, CancelStreaming, given' \in Nat, given' >= given
  PROVE  /\ NoHiddenStream' /\ PaneOfStream' /\ Newest' /\ Watched'
         /\ \A c \in Commands : c > given' => sock'[c] = "none"
         /\ sock' \in [Commands -> SocketStates] /\ lost' \subseteq Commands
         /\ ws' = 0 /\ streaming' = FALSE /\ interval' = FALSE /\ pong' = "zero"
         /\ UNCHANGED <<pane, owed, mute>>
  <1>0. /\ ws' = 0 /\ streaming' = FALSE /\ interval' = FALSE /\ pong' = "zero"
        /\ sock' = Hung /\ lost' = Left /\ UNCHANGED <<pane, owed, mute>>
    BY DEF CancelStreaming
  <1>1. NoHiddenStream' /\ Newest' /\ Watched'
    BY <1>0, Hanging DEF NoHiddenStream, Newest, Watched
  <1>2. PaneOfStream'
    BY <1>0, Hanging DEF IInv, TypeOK, PaneOfStream
  <1>3. \A c \in Commands : c > given' => sock'[c] = "none"
    BY <1>0, Hanging, MaxAssumption DEF IInv, TypeOK, Unborn, Commands
  <1> QED
    BY <1>0, <1>1, <1>2, <1>3, Hanging

-----------------------------------------------------------------------------
(* Commands and answers                                                    *)

LEMMA AskStep ==
  ASSUME IInv, NEW k \in {"hosts", "ping", "pprof"}, Ask(k)
  PROVE  IInv'
  <1> DEFINE r == [nr |-> given + 1, kind |-> k]
  <1>0. /\ ~loading /\ given < MaxCommands /\ given' = given + 1 /\ title' = given + 1
        /\ excuse' = "none" /\ loading' = TRUE /\ pending' = pending \union {r}
        /\ output' = output /\ CancelStreaming
    BY DEF Ask
  <1>1. given \in Nat /\ given' \in Commands /\ r \in Requests /\ r.nr = given'
    BY <1>0, MaxAssumption DEF IInv, TypeOK, Commands, Requests
  <1>2. pending = {}
    BY <1>0 DEF IInv, Serialized
  <1>3. given' >= given /\ given' \in Nat
    BY <1>0, <1>1
  <1>4. TypeOK'
    <2>1. /\ given' \in 0..MaxCommands /\ title' \in 0..given' /\ output' \in 0..given'
          /\ 0 \in 0..given' /\ excuse' \in {"none", "unanswered", "overtaken"}
          /\ loading' \in BOOLEAN /\ pending' \subseteq Requests
      BY <1>0, <1>1, <1>2, MaxAssumption DEF IInv, TypeOK
    <2>2. pane \subseteq Commands /\ owed \subseteq Commands /\ mute \subseteq Commands
      BY DEF IInv, TypeOK
    <2> QED
      BY <1>0, <1>3, <2>1, <2>2, CancelKeeps DEF TypeOK
  <1>5. Serialized' /\ Headed' /\ Waiting'
    BY <1>0, <1>1, <1>2 DEF Serialized, Headed, Waiting
  <1>6. Unborn'
    BY <1>0, <1>1, <1>2, <1>3, CancelKeeps DEF Unborn
  <1> QED
    BY <1>3, <1>4, <1>5, <1>6, <1>0, CancelKeeps DEF IInv

LEMMA AskNobodyStep == ASSUME IInv, AskNobody PROVE IInv'
  <1>0. /\ ~loading /\ given < MaxCommands /\ given' = given + 1 /\ title' = given + 1
        /\ excuse' = "unanswered" /\ UNCHANGED <<output, loading, pending>> /\ CancelStreaming
    BY DEF AskNobody
  <1>1. given \in Nat /\ given' \in Nat /\ given' >= given /\ pending = {}
    BY <1>0, MaxAssumption DEF IInv, TypeOK, Serialized
  <1>2. TypeOK'
    <2>1. /\ given' \in 0..MaxCommands /\ title' \in 0..given' /\ output' \in 0..given'
          /\ 0 \in 0..given' /\ excuse' \in {"none", "unanswered", "overtaken"}
          /\ loading' \in BOOLEAN /\ pending' \subseteq Requests
      BY <1>0, <1>1, MaxAssumption DEF IInv, TypeOK
    <2>2. pane \subseteq Commands /\ owed \subseteq Commands /\ mute \subseteq Commands
      BY DEF IInv, TypeOK
    <2> QED
      BY <1>0, <1>1, <2>1, <2>2, CancelKeeps DEF TypeOK
  <1>3. Serialized' /\ Headed' /\ Waiting'
    BY <1>0, <1>1 DEF IInv, Serialized, Headed, Waiting
  <1>4. Unborn'
    BY <1>0, <1>1, CancelKeeps DEF Unborn
  <1> QED
    BY <1>0, <1>1, <1>2, <1>3, <1>4, CancelKeeps DEF IInv

LEMMA CancelStep == ASSUME IInv, Cancel PROVE IInv'
  <1>0. CancelStreaming /\ UNCHANGED <<given, title, output, excuse, loading, pending>>
    BY DEF Cancel, panel
  <1>1. given \in Nat /\ given' >= given
    BY <1>0, MaxAssumption DEF IInv, TypeOK
  <1>2. TypeOK'
    <2>1. /\ given' \in 0..MaxCommands /\ title' \in 0..given' /\ output' \in 0..given'
          /\ 0 \in 0..given' /\ excuse' \in {"none", "unanswered", "overtaken"}
          /\ loading' \in BOOLEAN /\ pending' \subseteq Requests
      BY <1>0, <1>1, MaxAssumption DEF IInv, TypeOK
    <2>2. pane \subseteq Commands /\ owed \subseteq Commands /\ mute \subseteq Commands
      BY DEF IInv, TypeOK
    <2> QED
      BY <1>0, <1>1, <2>1, <2>2, CancelKeeps DEF TypeOK
  <1>3. Serialized' /\ Headed' /\ Waiting'
    BY <1>0 DEF IInv, Serialized, Headed, Waiting
  <1>4. Unborn'
    BY <1>0, <1>1, CancelKeeps DEF IInv, Unborn
  <1> QED
    BY <1>0, <1>1, <1>2, <1>3, <1>4, CancelKeeps DEF IInv

LEMMA ReplyStep ==
  ASSUME IInv, NEW r \in pending, Reply(r)
  PROVE  IInv'
  <1>0. UNCHANGED <<given, title, ws, streaming, interval, pong, sock, pane, owed, mute, lost>>
    BY DEF Reply, Answer, Profiled, Fail, stream, refs
  <1>1. /\ loading /\ pending = {r} /\ r \in Requests /\ r.nr <= given
        /\ title = r.nr \/ excuse = "overtaken"
    BY DEF IInv, TypeOK, Serialized, Unborn, Waiting
  <1>2. r.nr \in Commands /\ r.nr \in 0..given
    <2>1. r.nr \in Commands /\ given \in Nat
      <3>1. r.nr \in Commands
        BY <1>1, Requested
      <3>2. given \in Nat
        BY MaxAssumption DEF IInv, TypeOK
      <3> QED
        BY <3>1, <3>2
    <2> QED
      BY <1>1, <2>1, MaxAssumption DEF Commands
  <1>3. NoHiddenStream' /\ PaneOfStream' /\ Newest' /\ Watched'
    BY <1>0 DEF IInv, NoHiddenStream, PaneOfStream, Newest, Watched
  <1>4. CASE Profiled(r)
    <2> DEFINE q == [r EXCEPT !.kind = "files"]
    <2>1. pending' = {q} /\ q \in Requests /\ q.nr = r.nr /\ UNCHANGED <<output, excuse, loading>>
      BY <1>1, <1>4, Requested DEF Profiled
    <2> HIDE DEF q
    <2>2. TypeOK'
      BY <1>0, <2>1 DEF IInv, TypeOK
    <2>3. Serialized' /\ Headed' /\ Waiting' /\ Unborn'
      BY <1>0, <1>1, <2>1 DEF IInv, Serialized, Headed, Waiting, Unborn
    <2> QED
      BY <1>3, <2>2, <2>3 DEF IInv
  <1>5. CASE Answer(r) \/ Fail(r)
    <2>1. pending' = {} /\ loading' = FALSE
      BY <1>1, <1>5 DEF Answer, Fail
    <2>2. TypeOK'
      BY <1>0, <1>2, <1>5, <2>1 DEF IInv, TypeOK, Answer, Fail
    <2>3. Headed'
      BY <1>0, <1>1, <1>5 DEF Headed, Answer, Fail
    <2>4. Serialized' /\ Waiting' /\ Unborn'
      BY <1>0, <2>1 DEF IInv, Serialized, Waiting, Unborn
    <2> QED
      BY <1>3, <2>2, <2>3, <2>4 DEF IInv
  <1> QED
    BY <1>4, <1>5 DEF Reply

-----------------------------------------------------------------------------
(* Streams                                                                 *)

LEMMA StartStreamStep == ASSUME IInv, StartStream PROVE IInv'
  <1> DEFINE c == given + 1
  <1>0. /\ given < MaxCommands /\ given' = c /\ title' = c /\ output' = c
        /\ excuse' = IF loading THEN "overtaken" ELSE "none"
        /\ ws' = c /\ streaming' = TRUE /\ interval' = TRUE /\ pong' = "zero"
        /\ sock' = [Hung EXCEPT ![c] = "connecting"] /\ lost' = Left /\ pane' = {}
        /\ UNCHANGED <<loading, pending, owed, mute>>
    BY DEF StartStream, Connect
  <1>1. given \in Nat /\ c \in Commands /\ c \in 0..c
    BY <1>0, MaxAssumption DEF IInv, TypeOK, Commands
  <1>2. /\ sock'[c] = "connecting" /\ \A s \in Commands \ {c} : sock'[s] = Hung[s]
        /\ sock' \in [Commands -> SocketStates]
    BY <1>0, <1>1, Hanging DEF SocketStates
  <1>3. TypeOK'
    BY <1>0, <1>1, <1>2, Hanging, MaxAssumption DEF IInv, TypeOK
  <1>4. Serialized' /\ Headed'
    BY <1>0 DEF IInv, Serialized, Headed
  <1>5. Waiting'
    BY <1>0 DEF IInv, Serialized, Waiting
  <1>6. NoHiddenStream' /\ PaneOfStream'
    BY <1>0, <1>2, Hanging DEF NoHiddenStream, PaneOfStream
  <1>7. \A s \in Commands : s > c => s > given /\ s # c
    BY <1>1 DEF Commands
  <1>8. Unborn'
    <2>1. \A s \in Commands : s > c => sock'[s] = "none"
      BY <1>2, <1>7, Hanging DEF IInv, Unborn
    <2>2. ASSUME NEW r \in pending PROVE r.nr <= c
      <3>1. r \in Requests /\ r.nr <= given
        BY DEF IInv, TypeOK, Unborn
      <3>2. r.nr \in Commands
        BY <3>1, Requested
      <3> QED
        BY <1>1, <3>1, <3>2, MaxAssumption DEF Commands
    <2> QED
      BY <1>0, <2>1, <2>2 DEF Unborn
  <1>9. Newest' /\ Watched'
    <2>1. \A s \in Commands : sock'[s] # "none" => s <= c
      BY <1>1, <1>2, Hanging DEF IInv, Unborn, Commands
    <2>2. c # 0
      BY <1>1
    <2> QED
      BY <1>0, <1>2, <2>1, <2>2 DEF Newest, Watched
  <1> QED
    BY <1>3, <1>4, <1>5, <1>6, <1>8, <1>9 DEF IInv

\* What a socket or the timer does leaves the commands alone.
LEMMA CommandsKept ==
  ASSUME IInv, UNCHANGED panel
  PROVE  /\ Serialized' /\ Headed' /\ Waiting'
         /\ UNCHANGED <<given, title, output, excuse, loading, pending>>
         /\ title' \in 0..given' /\ output' \in 0..given' /\ given' \in 0..MaxCommands
         /\ excuse' \in {"none", "unanswered", "overtaken"}
         /\ loading' \in BOOLEAN /\ pending' \subseteq Requests
         /\ \A r \in pending' : r.nr <= given'
  BY DEF panel, IInv, TypeOK, Serialized, Headed, Waiting, Unborn

LEMMA SocketStep ==
  ASSUME IInv, NEW s \in Commands, Socket(s)
  PROVE  IInv'
  <1>0. UNCHANGED panel
    BY DEF Socket, Opens, Message, Pong, Closes, ServerCloses, Silence
  <1>1. /\ sock' \in [Commands -> SocketStates]
        /\ \A t \in Commands : sock'[t] = "none" <=> sock[t] = "none"
        /\ \A t \in Commands : sock'[t] \in {"connecting", "open"}
                                   => sock[t] \in {"connecting", "open"}
    <2>1. CASE sock' = [sock EXCEPT ![s] = "open"] /\ sock[s] = "connecting"
      BY <2>1 DEF IInv, TypeOK, SocketStates
    <2>2. CASE /\ sock' = [sock EXCEPT ![s] = "closing"] \/ sock' = [sock EXCEPT ![s] = "closed"]
               /\ sock[s] # "none"
      BY <2>2 DEF IInv, TypeOK, SocketStates
    <2>3. CASE sock' = sock
      BY <2>3 DEF IInv, TypeOK
    <2> QED
      BY <2>1, <2>2, <2>3 DEF Socket, Opens, Message, Pong, Closes, ServerCloses, Silence
  <1>2. /\ lost \subseteq lost' /\ lost' \subseteq lost \union {ws}
        /\ ws' = ws \/ (ws' = 0 /\ sock' = [sock EXCEPT ![s] = "closed"] /\ (ws = s \/ ws \in lost'))
        /\ ws # 0 => ws \in Commands
    BY MaxAssumption DEF Socket, Opens, Message, Pong, Closes, ServerCloses, Silence, refs, IInv, TypeOK, Commands
  <1>3. lost' \subseteq Commands
    BY <1>2 DEF Socket, Opens, Message, Pong, Closes, ServerCloses, Silence, refs, IInv, TypeOK
  <1>4. /\ pane' \subseteq Commands /\ owed' \subseteq Commands /\ mute' \subseteq Commands
        /\ pong' \in {"zero", "heard", "late"} /\ streaming' \in BOOLEAN /\ interval' \in BOOLEAN
    BY DEF Socket, Opens, Message, Pong, Closes, ServerCloses, Silence, refs, IInv, TypeOK
  <1>5. TypeOK'
    BY <1>0, <1>1, <1>2, <1>3, <1>4, CommandsKept, MaxAssumption DEF IInv, TypeOK
  <1>6. NoHiddenStream'
    <2> SUFFICES ASSUME NEW t \in Commands, sock'[t] \in {"connecting", "open"}
                 PROVE  t \in {ws'} \union lost'
      BY DEF NoHiddenStream
    <2>1. t \in {ws} \union lost
      BY <1>1 DEF IInv, NoHiddenStream
    <2>2. t = s => sock' # [sock EXCEPT ![s] = "closed"]
      BY DEF IInv, TypeOK
    <2> QED
      BY <1>2, <2>1, <2>2
  <1>7. PaneOfStream'
    <2> SUFFICES ASSUME NEW p \in pane' \ lost', NEW t \in Commands, sock[t] # "none"
                 PROVE  t <= p
      BY <1>1 DEF PaneOfStream
    <2>1. pane' = {} \/ pane' = pane \/ (pane' = pane \union {s} /\ sock[s] = "open")
      BY DEF Socket, Opens, Message, Pong, Closes, ServerCloses, Silence
    <2>2. CASE p \in pane
      BY <1>2, <2>2 DEF IInv, PaneOfStream
    <2>3. CASE p = s /\ sock[s] = "open"
      <3>1. s = ws /\ ws # 0
        BY <1>2, <2>3, MaxAssumption DEF IInv, NoHiddenStream, Commands
      <3> QED
        BY <2>3, <3>1 DEF IInv, Newest
    <2> QED
      BY <2>1, <2>2, <2>3
  <1>8. Unborn' /\ Newest'
    BY <1>0, <1>1, <1>2, CommandsKept DEF IInv, Unborn, Newest
  <1>9. Watched'
    BY DEF Socket, Opens, Message, Pong, Closes, ServerCloses, Silence, refs, IInv, Watched
  <1> QED
    BY <1>0, <1>5, <1>6, <1>7, <1>8, <1>9, CommandsKept DEF IInv

LEMMA TimerStep == ASSUME IInv, Elapse \/ Tick PROVE IInv'
  <1>0. /\ UNCHANGED panel /\ UNCHANGED <<pane, mute, lost>>
    BY DEF Elapse, Tick
  <1>1. ws # 0 => ws \in Commands
    BY MaxAssumption DEF IInv, TypeOK, Commands
  <1>2. /\ sock' \in [Commands -> SocketStates]
        /\ \A t \in Commands : sock'[t] = "none" => sock[t] = "none"
        /\ \A t \in Commands : sock'[t] \in {"connecting", "open"} => sock[t] = sock'[t]
        /\ ws' = ws \/ (ws' = 0 /\ sock'[ws] \notin {"connecting", "open"})
    BY <1>1 DEF Elapse, Tick, IInv, TypeOK, SocketStates
  <1>3. \A t \in Commands : sock[t] = "none" => sock'[t] = "none"
    BY <1>1 DEF Elapse, Tick, IInv, TypeOK, SocketStates, Newest
  <1>4. /\ owed' \subseteq Commands /\ pong' \in {"zero", "heard", "late"}
        /\ streaming' \in BOOLEAN /\ interval' \in BOOLEAN
    BY <1>1 DEF Elapse, Tick, IInv, TypeOK
  <1>5. TypeOK'
    BY <1>0, <1>1, <1>2, <1>4, CommandsKept, MaxAssumption DEF IInv, TypeOK
  <1>6. NoHiddenStream'
    BY <1>0, <1>1, <1>2 DEF IInv, NoHiddenStream
  <1>7. PaneOfStream' /\ Unborn' /\ Newest'
    <2>1. \A t \in Commands : sock'[t] = "none" <=> sock[t] = "none"
      BY <1>2, <1>3
    <2>2. PaneOfStream'
      BY <1>0, <2>1 DEF IInv, PaneOfStream
    <2>3. Unborn'
      BY <1>0, <2>1, CommandsKept DEF IInv, Unborn
    <2>4. Newest'
      BY <1>1, <1>2, <2>1 DEF IInv, Newest
    <2> QED
      BY <2>2, <2>3, <2>4
  <1>8. Watched'
    BY DEF Elapse, Tick, IInv, Watched
  <1> QED
    BY <1>0, <1>5, <1>6, <1>7, <1>8, CommandsKept DEF IInv

-----------------------------------------------------------------------------
(* Theorems                                                                *)

LEMMA IInvInit == Init => IInv
  <1> SUFFICES ASSUME Init PROVE IInv
    OBVIOUS
  <1>1. TypeOK
    <2>1. 0 \in 0..MaxCommands /\ 0 \in 0..0 /\ given = 0
      BY MaxAssumption DEF Init
    <2>2. sock \in [Commands -> SocketStates]
      BY DEF Init, SocketStates
    <2> QED
      BY <2>1, <2>2 DEF Init, TypeOK
  <1>2. \A c \in Commands : sock[c] = "none"
    BY DEF Init
  <1>3. /\ loading = FALSE /\ pending = {} /\ output = title /\ ws = 0 /\ streaming = FALSE
        /\ pane = {}
    BY DEF Init
  <1> QED
    BY <1>1, <1>2, <1>3 DEF IInv, Serialized, Headed, NoHiddenStream, PaneOfStream, Watched, Unborn,
         Waiting, Newest

LEMMA IInvStep == IInv /\ [Next]_vars => IInv'
  <1> SUFFICES ASSUME IInv, [Next]_vars PROVE IInv'
    OBVIOUS
  <1>1. CASE Next
    <2>1. CASE User
      BY <2>1, AskStep, AskNobodyStep, StartStreamStep, CancelStep DEF User
    <2>2. ASSUME NEW r \in pending, Reply(r) PROVE IInv'
      BY <2>2, ReplyStep
    <2>3. ASSUME NEW s \in Commands, Socket(s) PROVE IInv'
      BY <2>3, SocketStep
    <2> QED
      BY <1>1, <2>1, <2>2, <2>3, TimerStep DEF Next
  <1>2. CASE UNCHANGED vars
    <2>1. UNCHANGED <<given, title, output, excuse, loading, pending, ws, streaming, interval, pong,
                      sock, pane, owed, mute, lost>>
      BY <1>2 DEF vars, panel, refs
    <2> QED
      BY <2>1 DEF IInv, TypeOK, Serialized, Headed, NoHiddenStream, PaneOfStream, Watched, Unborn,
         Waiting, Newest
  <1> QED
    BY <1>1, <1>2

\* The invariant of the page.
THEOREM IInvHolds == Spec => []IInv
  BY IInvInit, IInvStep, PTL DEF Spec

\* statusLoading keeps the commands of App.tsx from overtaking one another, and lastCommand
\* names the command whose answer is in outputData, but for the two reasons that Headed gives.
THEOREM TitlesTrue == Spec => []CommandsInStep
  <1>1. IInv => CommandsInStep
    BY DEF IInv, CommandsInStep
  <1> QED
    BY <1>1, IInvHolds, PTL

\* A socket that wsRef does not name brings nothing, unless cancelStreaming met it while it
\* connected, or the onclose of an earlier one took it for its own; and what streamData
\* shows is of the stream that was started last, but for the same reasons.  isStreaming is
\* on exactly while there is a current socket, and the interval of pings runs then.
THEOREM StreamsKnown == Spec => []StreamsInStep
  <1>1. IInv => StreamsInStep
    BY DEF IInv, StreamsInStep
  <1> QED
    BY <1>1, IInvHolds, PTL

\* A socket that wsRef has left, because it was cancelled, replaced, closed or too long silent,
\* is never its socket again: what DeadNoticed and Cancel have done stays done.
THEOREM GivenUpForGood ==
  ASSUME NEW s \in Commands
  PROVE  Spec => [](sock[s] # "none" /\ ws # s => [](sock[s] # "none" /\ ws # s))
  <1> DEFINE P == sock[s] # "none" /\ ws # s
  <1>1. IInv /\ P /\ [Next]_vars => P'
    <2> SUFFICES ASSUME IInv, P, [Next]_vars PROVE P'
      OBVIOUS
    <2>0. s # 0 /\ Hung[s] # "none"
      BY Hanging, MaxAssumption DEF Commands
    <2>1. CASE StartStream
      <3>1. given + 1 \in Commands /\ sock[given + 1] = "none"
        BY <2>1, MaxAssumption DEF StartStream, IInv, TypeOK, Unborn, Commands
      <3>2. s # given + 1
        BY <3>1
      <3>3. ws' = given + 1 /\ sock' = [Hung EXCEPT ![given + 1] = "connecting"]
        BY <2>1 DEF StartStream, Connect
      <3> QED
        BY <2>0, <3>2, <3>3, Hanging
    <2>2. ASSUME CancelStreaming PROVE P'
      BY <2>0, <2>2 DEF CancelStreaming
    <2>3. CASE (\E k \in {"hosts", "ping", "pprof"} : Ask(k)) \/ AskNobody \/ Cancel
      BY <2>2, <2>3 DEF Ask, AskNobody, Cancel
    <2>4. ASSUME NEW r \in pending, Reply(r) PROVE P'
      BY <2>4 DEF Reply, Answer, Profiled, Fail, stream, refs
    <2>5. ASSUME NEW t \in Commands, Socket(t) PROVE P'
      <3>1. ws' = ws \/ ws' = 0
        BY <2>5 DEF Socket, Opens, Message, Pong, Closes, ServerCloses, Silence, refs
      <3>2. \/ sock' = sock
            \/ \E c \in {"open", "closing", "closed"} : sock' = [sock EXCEPT ![t] = c]
        BY <2>5 DEF Socket, Opens, Message, Pong, Closes, ServerCloses, Silence
      <3>3. sock'[s] # "none"
        BY <3>2 DEF IInv, TypeOK
      <3> QED
        BY <2>0, <3>1, <3>3
    <2>6. CASE Elapse \/ Tick
      <3>1. ws' = ws \/ ws' = 0
        BY <2>6 DEF Elapse, Tick
      <3>2. sock' = sock \/ sock' = [sock EXCEPT ![ws] = "closing"]
        BY <2>6 DEF Elapse, Tick
      <3>3. sock'[s] # "none"
        BY <3>2 DEF IInv, TypeOK
      <3> QED
        BY <2>0, <3>1, <3>3
    <2>7. CASE UNCHANGED vars
      BY <2>7 DEF vars, refs
    <2> QED
      BY <2>1, <2>3, <2>4, <2>5, <2>6, <2>7 DEF Next, User
  <1> HIDE DEF P
  <1>2. Spec => [](P => []P)
    BY <1>1, IInvInit, IInvStep, PTL DEF Spec
  <1> QED
    BY <1>2 DEF P
=============================================================================
