--------------------------- MODULE CommandConsole ---------------------------
(***************************************************************************)
(* The commands of the page (web-ui/src/App.tsx) and its log and event     *)
(* streams (web-ui/src/hooks/useWebSocketLogs.ts).  Commands ask the       *)
(* server and show the answer when it comes; streams open a websocket and  *)
(* show what arrives.  The page has one output, one title over it, and one *)
(* reference to a socket, although the browser goes on to deliver the      *)
(* events of earlier ones.  A handler runs to its end, and the page is     *)
(* drawn again before the next; what it does after an await is a handler   *)
(* of its own.                                                             *)
(***************************************************************************)
EXTENDS Naturals

CONSTANT MaxCommands    \* bound: commands given

ASSUME MaxAssumption == MaxCommands \in Nat

\* Commands are numbered as they are given; 0 is none.  A socket has the number of the
\* command that made it.
Commands == 1..MaxCommands
Requests == [nr : Commands, kind : {"hosts", "ping", "pprof", "files"}]

VARIABLES
    given,      \* the number of commands so far
    title,      \* lastCommand
    output,     \* the command whose answer is in outputData
    excuse,     \* why the title may be of another command than the output (history)
    loading,    \* statusLoading
    pending,    \* requests without an answer
    sock,       \* the state of each socket
    ws,         \* wsRef, 0 for null
    streaming,  \* isStreaming
    interval,   \* pingIntervalRef
    pong,       \* lastPongTime: zero, of late, or too long ago
    pane,       \* the sockets that streamData has something of
    owed,       \* sockets with a ping to be answered
    mute,       \* sockets whose connection died unnoticed
    lost        \* sockets the page forgot and did not close (history)

panel == <<given, title, output, excuse, loading, pending>>
refs == <<ws, streaming, interval, pong>>
vars == <<panel, refs, sock, pane, owed, mute, lost>>

SocketStates == {"none", "connecting", "open", "closing", "closed"}

TypeOK ==
    /\ given \in 0..MaxCommands /\ title \in 0..given /\ output \in 0..given
    /\ excuse \in {"none", "unanswered", "overtaken"}
    /\ loading \in BOOLEAN /\ pending \subseteq Requests
    /\ sock \in [Commands -> SocketStates]
    /\ ws \in 0..given /\ streaming \in BOOLEAN /\ interval \in BOOLEAN
    /\ pong \in {"zero", "heard", "late"}
    /\ pane \subseteq Commands /\ owed \subseteq Commands
    /\ mute \subseteq Commands /\ lost \subseteq Commands

Init ==
    /\ given = 0 /\ title = 0 /\ output = 0 /\ excuse = "none"
    /\ loading = FALSE /\ pending = {}
    /\ sock = [c \in Commands |-> "none"]
    /\ ws = 0 /\ streaming = FALSE /\ interval = FALSE /\ pong = "zero"
    /\ pane = {} /\ owed = {} /\ mute = {} /\ lost = {}

-----------------------------------------------------------------------------
(* cancelStreaming                                                         *)

\* Without closing the socket.
Forgotten == sock

\* A socket is closed if it is open; one that is still connecting is not.
Hung == IF ws # 0 /\ sock[ws] = "open" THEN [sock EXCEPT ![ws] = "closing"] ELSE sock

Left == IF ws # 0 /\ sock[ws] = "connecting" THEN lost \union {ws} ELSE lost

CancelStreaming ==
    /\ ws' = 0 /\ streaming' = FALSE /\ interval' = FALSE /\ pong' = "zero"
    /\ sock' = Hung /\ lost' = Left
    /\ UNCHANGED <<pane, owed, mute>>

\* The button beside the title.
Cancel == streaming /\ CancelStreaming /\ UNCHANGED panel

-----------------------------------------------------------------------------
(* Commands that ask and show the answer                                   *)

\* A command whose button does not wait for the last answer.
AskAtOnce(k) ==
    /\ given < MaxCommands /\ given' = given + 1
    /\ title' = given + 1 /\ excuse' = "none"
    /\ loading' = TRUE /\ pending' = pending \union {[nr |-> given + 1, kind |-> k]}
    /\ UNCHANGED output
    /\ CancelStreaming

\* The button is off while an answer is out.  The running stream is cancelled, and the
\* title changed, whatever comes of the command.
Ask(k) ==
    /\ ~loading /\ given < MaxCommands /\ given' = given + 1
    /\ title' = given + 1 /\ excuse' = "none"
    /\ loading' = TRUE /\ pending' = pending \union {[nr |-> given + 1, kind |-> k]}
    /\ UNCHANGED output
    /\ CancelStreaming

\* None of the selected hosts is online: there is nobody to ask.
AskNobody ==
    /\ ~loading /\ given < MaxCommands /\ given' = given + 1
    /\ title' = given + 1 /\ excuse' = "unanswered"
    /\ UNCHANGED <<output, loading, pending>>
    /\ CancelStreaming

stream == <<refs, sock, pane, owed, mute, lost>>

\* Shows nothing but the title.
AnswerUnseen(r) ==
    /\ pending' = pending \ {r} /\ loading' = FALSE
    /\ UNCHANGED <<given, title, output, excuse, stream>>

\* The answer replaces what is shown, whatever that is.
Answer(r) ==
    /\ r.kind # "pprof"
    /\ output' = r.nr
    /\ pending' = pending \ {r} /\ loading' = FALSE
    /\ UNCHANGED <<given, title, excuse, stream>>

\* A profile was taken, and is fetched; files that cannot be are shown as errors.
Profiled(r) ==
    /\ r.kind = "pprof"
    /\ pending' = (pending \ {r}) \union {[r EXCEPT !.kind = "files"]}
    /\ UNCHANGED <<given, title, output, excuse, loading, stream>>

\* The request failed.  What is shown stays; but a ping shows the error.
Fail(r) ==
    /\ r.kind \in {"hosts", "pprof"}
    /\ pending' = pending \ {r} /\ loading' = FALSE
    /\ excuse' = IF title = r.nr THEN "unanswered" ELSE excuse
    /\ UNCHANGED <<given, title, output, stream>>

-----------------------------------------------------------------------------
(* Streams                                                                 *)

\* The pane is not emptied.
ConnectOnTop(c) ==
    /\ ws' = c /\ streaming' = TRUE /\ interval' = TRUE /\ pong' = "zero"
    /\ sock' = [Hung EXCEPT ![c] = "connecting"] /\ lost' = Left
    /\ UNCHANGED <<pane, owed, mute>>

\* startStream: what was running is cancelled, and a socket made.  The constructor throws
\* only on a URL that is none, which the page's own (api.ts:396-401) cannot be, so the code
\* that catches it (useWebSocketLogs.ts:241-244) has no action.
Connect(c) ==
    /\ ws' = c /\ streaming' = TRUE /\ interval' = TRUE /\ pong' = "zero"
    /\ sock' = [Hung EXCEPT ![c] = "connecting"] /\ lost' = Left
    /\ pane' = {}
    /\ UNCHANGED <<owed, mute>>

\* fetchLogs, fetchBusEvents.  The button is off while a stream is running, not while an
\* answer is out.
StartStream ==
    /\ ~streaming /\ given < MaxCommands /\ given' = given + 1
    /\ title' = given + 1 /\ output' = given + 1
    /\ excuse' = IF loading THEN "overtaken" ELSE "none"
    /\ Connect(given + 1)
    /\ UNCHANGED <<loading, pending>>

\* onopen
Opens(s) ==
    /\ sock[s] = "connecting" /\ sock' = [sock EXCEPT ![s] = "open"]
    /\ pane' = {}
    /\ UNCHANGED <<panel, refs, owed, mute, lost>>

\* onmessage: a line, or the notice that a host is gone.
Message(s) ==
    /\ sock[s] = "open" /\ s \notin mute
    /\ pane' = pane \union {s}
    /\ UNCHANGED <<panel, refs, sock, owed, mute, lost>>

\* onmessage: one time for all sockets.
Pong(s) ==
    /\ sock[s] = "open" /\ s \in owed \ mute
    /\ owed' = owed \ {s} /\ pong' = "heard"
    /\ UNCHANGED <<panel, ws, streaming, interval, sock, pane, mute, lost>>

\* The reference goes, and the page is not told.
ClosesUntold(s) ==
    /\ sock[s] \in {"connecting", "open", "closing"} /\ sock' = [sock EXCEPT ![s] = "closed"]
    /\ ws' = 0 /\ pong' = "zero" /\ lost' = IF ws \notin {s, 0} THEN lost \union {ws} ELSE lost
    /\ UNCHANGED <<panel, streaming, interval, pane, owed, mute>>

\* onclose: if there is a current socket the stream is over, whichever socket it was.
Closes(s) ==
    /\ sock[s] \in {"connecting", "open", "closing"} /\ sock' = [sock EXCEPT ![s] = "closed"]
    /\ IF ws = 0
       THEN UNCHANGED <<refs, lost>>
       ELSE /\ ws' = 0 /\ streaming' = FALSE /\ pong' = "zero" /\ UNCHANGED interval
            /\ lost' = IF ws # s THEN lost \union {ws} ELSE lost
    /\ UNCHANGED <<panel, pane, owed, mute>>

\* The server begins to close, or the connection dies and nobody is told.
ServerCloses(s) ==
    /\ sock[s] = "open" /\ s \notin mute /\ sock' = [sock EXCEPT ![s] = "closing"]
    /\ UNCHANGED <<panel, refs, pane, owed, mute, lost>>

Silence(s) ==
    /\ sock[s] = "open" /\ s \notin mute /\ mute' = mute \union {s}
    /\ UNCHANGED <<panel, refs, sock, pane, owed, lost>>

\* Ten seconds without a pong.
Elapse ==
    /\ pong = "heard" /\ pong' = "late"
    /\ UNCHANGED <<panel, ws, streaming, interval, sock, pane, owed, mute, lost>>

\* A tick that does not ask whether there is a socket.
TickUnguarded ==
    /\ interval /\ owed' = owed \union {ws}
    /\ UNCHANGED <<panel, refs, sock, pane, mute, lost>>

\* A tick that takes no time of the first ping.
TickUntimed ==
    /\ interval /\ ws # 0 /\ pong # "late"
    /\ sock[ws] = "open" /\ owed' = owed \union {ws}
    /\ UNCHANGED <<panel, refs, sock, pane, mute, lost>>

\* The interval: a stream that is silent is given up, else pinged.
Tick ==
    /\ interval /\ ws # 0
    /\ \/ /\ pong = "late"
          /\ ws' = 0 /\ streaming' = FALSE /\ pong' = "zero"
          /\ sock' = IF sock[ws] = "closed" THEN sock ELSE [sock EXCEPT ![ws] = "closing"]
          /\ UNCHANGED <<interval, owed>>
       \/ /\ pong # "late" /\ sock[ws] = "open"
          /\ owed' = owed \union {ws} /\ pong' = "heard"
          /\ UNCHANGED <<ws, streaming, interval, sock>>
    /\ UNCHANGED <<panel, pane, mute, lost>>

-----------------------------------------------------------------------------
User == (\E k \in {"hosts", "ping", "pprof"} : Ask(k)) \/ AskNobody \/ StartStream \/ Cancel
Reply(r) == Answer(r) \/ Profiled(r) \/ Fail(r)
Socket(s) == Opens(s) \/ Message(s) \/ Pong(s) \/ Closes(s) \/ ServerCloses(s) \/ Silence(s)

Next ==
    \/ User
    \/ \E r \in pending : Reply(r)
    \/ \E s \in Commands : Socket(s)
    \/ Elapse \/ Tick

Spec == Init /\ [][Next]_vars

\* Every request has an answer in the end, the timer goes on, time passes, and the
\* browser ends the sockets that connect or are being closed.
Fairness ==
    /\ WF_vars(Tick) /\ WF_vars(ws \in mute /\ Elapse)
    /\ \A c \in Commands : WF_vars(sock[c] # "open" /\ (Opens(c) \/ Closes(c)))

FairSpec == Spec /\ Fairness

-----------------------------------------------------------------------------
(* Properties                                                              *)

\* One answer at a time, across all commands, and "Loading..." exactly while it is out:
\* every path through a handler, a failure included, ends with the buttons on.
Serialized ==
    /\ loading <=> pending # {}
    /\ \A r, q \in pending : r = q

\* The output is that of the command in the title, unless that command had no answer, or
\* was a stream that was started while an earlier command waited for its own.
Headed == ~loading => output = title \/ excuse # "none"

\* Every socket that still brings data is the current one, which can be cancelled; but
\* for those that were cancelled while connecting, or were current when an earlier
\* socket's close was reported.
NoHiddenStream == \A s \in Commands : sock[s] \in {"connecting", "open"} => s \in {ws} \union lost

\* The pane has nothing of a stream that was replaced, with the same exceptions.
PaneOfStream == \A s \in pane \ lost : \A t \in Commands : sock[t] # "none" => t <= s

\* Commands and titles, over any order of answers and failures.
CommandsInStep == Serialized /\ Headed

\* There is a stream to cancel exactly while there is a current socket, and then the timer
\* runs that gives it up when it falls silent: an earlier socket's close takes both or none.
Watched == (streaming <=> ws # 0) /\ (ws # 0 => interval)

\* Streams and their pane, over any order in which sockets open, close and are replaced.
StreamsInStep == TypeOK /\ NoHiddenStream /\ PaneOfStream /\ Watched

\* A stream whose connection died in silence does not stay on the page for ever.
DeadNoticed == \A s \in Commands : ws = s /\ s \in mute ~> ws # s

-----------------------------------------------------------------------------
(* Why the safety properties hold: an inductive invariant.                 *)

\* What has not been given does not exist.
Unborn ==
    /\ \A c \in Commands : c > given => sock[c] = "none"
    /\ \A r \in pending : r.nr <= given

\* The command that waits is in the title, or a stream was started meanwhile.
Waiting == \A r \in pending : title = r.nr \/ excuse = "overtaken"

\* The current socket is the newest.
Newest ==
    ws # 0 => sock[ws] # "none" /\ \A t \in Commands : sock[t] # "none" => t <= ws

IInv ==
    /\ TypeOK /\ Serialized /\ Headed /\ NoHiddenStream /\ PaneOfStream
    /\ Watched /\ Unborn /\ Waiting /\ Newest
=============================================================================
