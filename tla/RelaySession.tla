---------------------------- MODULE RelaySession ----------------------------
(***************************************************************************)
(* One RelativeWebsocket session of the web UI server                      *)
(* (src/api/webui/tsymbiotewebui/websocket.go): a browser asks for the log *)
(* stream of several hosts, the handler dials the adapter of each one and  *)
(* starts                                                                  *)
(*   - one adapterWebsocketReader per host, which puts each line it reads  *)
(*     into the channel msg and, when its socket dies, its name into dead; *)
(*   - one clientWebsocketReader, which answers the browser's pings;       *)
(*   - one clientWebsocketWriter, which alone receives from msg and dead   *)
(*     and writes to the browser, and which pings the adapters from        *)
(*     goroutines of their own.                                            *)
(* Both channels have the capacity of the list of hosts.  A message is     *)
(* modelled by who it is from and its number, the text is left out.        *)
(***************************************************************************)
EXTENDS Naturals, Sequences, FiniteSets

CONSTANTS
    Targets,        \* the hosts named by the query parameter (without duplicates)
    Client,         \* the browser
    MaxEvents,      \* bound: messages read, from the hosts and the browser, and ticks together
    MaxTicks        \* bound: ticks of the 5 s ping ticker

ASSUME TargetsAssumption == IsFiniteSet(Targets) /\ Targets # {} /\ Client \notin Targets
ASSUME BoundsAssumption == MaxEvents \in Nat /\ MaxTicks \in Nat

VARIABLES
    phase,          \* "dial" while the handler dials, then "run" or "aborted"
    conn,           \* conn[t]: the socket to the adapter of t
    reader,         \* reader[t]: where the adapter reader of t is
    client,         \* where the client reader is
    ws,             \* the browser's socket: "open", "failed" (a write failed), "closed"
    writer,         \* where the client writer is
    announcing,     \* the host (a set of at most one) the writer is about to announce as closed
    living,         \* livingAdapters
    msg, dead,      \* the two channels
    pinging,        \* pinging[t]: ping goroutines of t that have not returned
    failing,        \* failing[t]: ping goroutines of t about to send to dead
    ticks,          \* ticks seen so far (bounded by MaxTicks)
    shutdown,       \* the server's websocket context is cancelled
    clientDeath,    \* clientDeathCtx is cancelled
    closeSent,      \* closeClientFunc ran: the writer closes the browser (a failed write is logged)
    got,            \* got[s]: messages read from s so far
    given,          \* given[s]: messages of s written to the browser
    told,           \* hosts whose "websocket closed" was written to the browser
    pingFailed,     \* hosts a ping of which has failed
    read            \* messages read from any source so far

sockets == <<conn, ws>>
channels == <<msg, dead>>
pingers == <<pinging, failing, ticks, pingFailed>>
signals == <<shutdown, clientDeath, closeSent>>
history == <<got, given, told, read>>
vars == <<phase, sockets, reader, client, writer, announcing, living, channels,
          pingers, signals, history>>

Sources == Targets \union {Client}

WithinBounds == read + ticks < MaxEvents

ReadsFrom(s) ==
    /\ WithinBounds /\ read' = read + 1
    /\ got' = [got EXCEPT ![s] = @ + 1]

\* A socket to an adapter on which a write has failed is mute: gorilla keeps the error and
\* refuses every later frame, the close frame as well, though the socket stays open and its
\* reader goes on.  It is closing once a close frame went out (later frames are refused too).
ConnStates == {"none", "open", "mute", "closing", "closed"}

\* make(chan ..., len(targets)), for both channels.
MsgCap == Cardinality(Targets)
OneLess == Cardinality(Targets) - 1     \* an off-by-one in that capacity
DeadCap == Cardinality(Targets)

Data(s, n) == [kind |-> "data", from |-> s, n |-> n]
Notice(t) == [kind |-> "closed", from |-> t, n |-> 0]
Message == [kind : {"data"}, from : Sources, n : Nat]
           \union [kind : {"closed"}, from : Targets, n : {0}]

TypeOK ==
    /\ phase \in {"dial", "run", "aborted"}
    /\ conn \in [Targets -> ConnStates]
    /\ reader \in [Targets -> {"idle", "top", "reading", "send", "dead", "done"}]
    /\ client \in {"idle", "top", "reading", "send", "done"}
    /\ ws \in {"open", "failed", "closed"}
    /\ writer \in {"idle", "select", "notify", "done"}
    /\ announcing \subseteq Targets
    /\ living \subseteq Targets
    /\ msg \in Seq(Message) /\ Len(msg) <= MsgCap
    /\ dead \in Seq(Targets) /\ Len(dead) <= DeadCap
    /\ pinging \in [Targets -> Nat]
    /\ failing \in [Targets -> Nat]
    /\ ticks \in 0..MaxTicks /\ read \in 0..MaxEvents
    /\ shutdown \in BOOLEAN /\ clientDeath \in BOOLEAN /\ closeSent \in BOOLEAN
    /\ got \in [Sources -> Nat]
    /\ given \in [Sources -> Nat]
    /\ told \subseteq Targets
    /\ pingFailed \subseteq Targets

Init ==
    /\ phase = "dial"
    /\ conn = [t \in Targets |-> "none"]
    /\ reader = [t \in Targets |-> "idle"]
    /\ client = "idle" /\ ws = "open"
    /\ writer = "idle" /\ announcing = {} /\ living = {}
    /\ msg = <<>> /\ dead = <<>>
    /\ pinging = [t \in Targets |-> 0] /\ failing = [t \in Targets |-> 0]
    /\ ticks = 0 /\ read = 0 /\ pingFailed = {}
    /\ shutdown = FALSE /\ clientDeath = FALSE /\ closeSent = FALSE
    /\ got = [s \in Sources |-> 0] /\ given = [s \in Sources |-> 0] /\ told = {}

-----------------------------------------------------------------------------
(* The handler: dial every adapter, then start the goroutines.  A failure  *)
(* returns at once and leaves the sockets as they are.                     *)

Dial(t) ==
    /\ phase = "dial" /\ conn[t] = "none"
    /\ conn' = [conn EXCEPT ![t] = "open"]
    /\ UNCHANGED <<phase, ws, reader, client, writer, announcing, living, channels,
                   pingers, signals, history>>

\* The host has no known adapter, or dialling it fails.
DialFails(t) ==
    /\ phase = "dial" /\ conn[t] = "none"
    /\ phase' = "aborted"
    /\ UNCHANGED <<sockets, reader, client, writer, announcing, living, channels,
                   pingers, signals, history>>

Start ==
    /\ phase = "dial" /\ \A t \in Targets : conn[t] = "open"
    /\ phase' = "run"
    /\ reader' = [t \in Targets |-> "top"]
    /\ client' = "top"
    /\ writer' = "select"
    /\ living' = Targets
    /\ UNCHANGED <<sockets, announcing, channels, pingers, signals, history>>

-----------------------------------------------------------------------------
(* adapterWebsocketReader                                                  *)

ReaderVars(t, from, to) == reader[t] = from /\ reader' = [reader EXCEPT ![t] = to]

\* select at the head of the loop: return (and close) on shutdown, else ReadMessage.
ReaderTop(t) ==
    /\ IF shutdown
       THEN ReaderVars(t, "top", "done") /\ conn' = [conn EXCEPT ![t] = "closed"]
       ELSE ReaderVars(t, "top", "reading") /\ UNCHANGED conn
    /\ UNCHANGED <<phase, ws, client, writer, announcing, living, channels,
                   pingers, signals, history>>

ReaderReads(t) ==
    /\ ReaderVars(t, "reading", "send") /\ ReadsFrom(t)
    /\ UNCHANGED <<phase, sockets, client, writer, announcing, living, channels,
                   pingers, signals, given, told>>

\* ReadMessage fails: the adapter closed, the read deadline passed, or TCP broke.
ReadFails(t) ==
    /\ ReaderVars(t, "reading", "dead")
    /\ UNCHANGED <<phase, sockets, client, writer, announcing, living, channels,
                   pingers, signals, history>>

\* A send into an unbounded queue.
ReaderSendsUnbounded(t) ==
    /\ ReaderVars(t, "send", "top")
    /\ msg' = Append(msg, Data(t, got[t]))
    /\ UNCHANGED <<phase, sockets, client, writer, announcing, living, dead,
                   pingers, signals, history>>

ReaderSends(t) ==
    /\ Len(msg) < MsgCap
    /\ ReaderVars(t, "send", "top")
    /\ msg' = Append(msg, Data(t, got[t]))
    /\ UNCHANGED <<phase, sockets, client, writer, announcing, living, dead,
                   pingers, signals, history>>

\* dead <- target, then the deferred conn.Close().
ReaderDies(t) ==
    /\ Len(dead) < DeadCap
    /\ ReaderVars(t, "dead", "done")
    /\ dead' = Append(dead, t)
    /\ conn' = [conn EXCEPT ![t] = "closed"]
    /\ UNCHANGED <<phase, ws, client, writer, announcing, living, msg,
                   pingers, signals, history>>

-----------------------------------------------------------------------------
(* clientWebsocketReader                                                   *)

ClientTop ==
    /\ client = "top"
    /\ IF shutdown \/ clientDeath
       THEN client' = "done" /\ ws' = "closed"
       ELSE client' = "reading" /\ UNCHANGED ws
    /\ UNCHANGED <<phase, conn, reader, writer, announcing, living, channels,
                   pingers, signals, history>>

ClientPings ==
    /\ client = "reading" /\ ReadsFrom(Client)
    /\ client' = "send"
    /\ UNCHANGED <<phase, sockets, reader, writer, announcing, living, channels,
                   pingers, signals, given, told>>

\* Anything but the text "ping" is dropped.
ClientIgnored ==
    /\ client = "reading"
    /\ client' = "top"
    /\ UNCHANGED <<phase, sockets, reader, writer, announcing, living, channels,
                   pingers, signals, history>>

\* The browser is gone or silent for 6 s: deathFunc(), then the deferred Close().
ClientReadFails ==
    /\ client = "reading"
    /\ client' = "done" /\ ws' = "closed" /\ clientDeath' = TRUE
    /\ UNCHANGED <<phase, conn, reader, writer, announcing, living, channels,
                   pingers, shutdown, closeSent, history>>

ClientPongs ==
    /\ client = "send" /\ Len(msg) < MsgCap
    /\ client' = "top"
    /\ msg' = Append(msg, Data(Client, got[Client]))
    /\ UNCHANGED <<phase, sockets, reader, writer, announcing, living, dead,
                   pingers, signals, history>>

-----------------------------------------------------------------------------
(* clientWebsocketWriter.  Its select takes any case that is ready.         *)

\* closeReadersFunc writes a close frame to every adapter still in the map.  Where the write
\* fails the error is only logged, and a mute or closing socket takes no frame any more.
CloseReaders ==
    \E failed \in SUBSET living :
        conn' = [t \in Targets |->
                    IF t \in living /\ conn[t] = "open"
                    THEN IF t \in failed THEN "mute" ELSE "closing"
                    ELSE conn[t]]

\* After the select: with no adapter left, close the browser's socket and return.
\* (The first form closes one adapter too early.)
EndOfLoopEarly(left) ==
    IF Cardinality(left) <= 1
    THEN writer' = "done" /\ closeSent' = TRUE
    ELSE writer' = "select" /\ UNCHANGED closeSent

EndOfLoop(left) ==
    IF left = {}
    THEN writer' = "done" /\ closeSent' = TRUE
    ELSE writer' = "select" /\ UNCHANGED closeSent

\* A writer whose select has no case for the shutdown of the server.
WriterIgnoresShutdown == FALSE /\ UNCHANGED vars

WriterShutdown ==
    /\ writer = "select" /\ shutdown
    /\ CloseReaders
    /\ writer' = "done" /\ closeSent' = TRUE
    /\ UNCHANGED <<phase, ws, reader, client, announcing, living, channels,
                   pingers, shutdown, clientDeath, history>>

\* A writer that returns on the browser's death without closing the adapters.
WriterJustReturns ==
    /\ writer = "select" /\ clientDeath
    /\ writer' = "done"
    /\ UNCHANGED <<phase, sockets, reader, client, announcing, living, channels,
                   pingers, signals, history>>

WriterClientDeath ==
    /\ writer = "select" /\ clientDeath
    /\ CloseReaders
    /\ writer' = "done"
    /\ UNCHANGED <<phase, ws, reader, client, announcing, living, channels,
                   pingers, signals, history>>

\* The ticker: one ping goroutine per living adapter.
WriterTick ==
    /\ writer = "select" /\ WithinBounds /\ ticks < MaxTicks
    /\ ticks' = ticks + 1
    /\ pinging' = [t \in Targets |-> IF t \in living THEN pinging[t] + 1 ELSE pinging[t]]
    /\ EndOfLoop(living)
    /\ UNCHANGED <<phase, sockets, reader, client, announcing, living, channels,
                   failing, pingFailed, shutdown, clientDeath, history>>

\* adapter := <-dead: forget the adapter and prepare its notice ...
WriterTakesDead ==
    /\ writer = "select" /\ dead # <<>>
    /\ dead' = Tail(dead)
    /\ living' = living \ {Head(dead)}
    /\ announcing' = {Head(dead)}
    /\ writer' = "notify"
    /\ UNCHANGED <<phase, sockets, reader, client, msg, pingers, signals, history>>

\* A writer that writes the notice itself, past the lines still in msg.
WriterNotifiesAtOnce ==
    /\ writer = "notify" /\ ws = "open"
    /\ told' = told \union announcing
    /\ announcing' = {}
    /\ EndOfLoop(living)
    /\ UNCHANGED <<phase, sockets, reader, client, living, channels,
                   pingers, shutdown, clientDeath, got, given, read>>

\* ... and send the notice to msg, of which the writer is the only receiver.
WriterNotifies ==
    /\ writer = "notify" /\ Len(msg) < MsgCap
    /\ \E t \in announcing : msg' = Append(msg, Notice(t))
    /\ announcing' = {}
    /\ EndOfLoop(living)
    /\ UNCHANGED <<phase, sockets, reader, client, living, dead,
                   pingers, shutdown, clientDeath, history>>

\* What the browser has received once m is written to it.
Written(m) ==
    IF m.kind = "data"
    THEN given' = [given EXCEPT ![m.from] = m.n] /\ UNCHANGED told
    ELSE told' = told \union {m.from} /\ UNCHANGED given

WriterWrites ==
    /\ writer = "select" /\ msg # <<>> /\ ws = "open"
    /\ Written(Head(msg))
    /\ msg' = Tail(msg)
    /\ EndOfLoop(living)
    /\ UNCHANGED <<phase, sockets, reader, client, announcing, living, dead,
                   pingers, shutdown, clientDeath, got, read>>

\* The write fails (as does every later one): deathFunc(); continue.
WriterWriteFails ==
    /\ writer = "select" /\ msg # <<>>
    /\ msg' = Tail(msg)
    /\ ws' = IF ws = "open" THEN "failed" ELSE ws
    /\ clientDeath' = TRUE
    /\ UNCHANGED <<phase, conn, reader, client, writer, announcing, living, dead,
                   pingers, shutdown, closeSent, history>>

-----------------------------------------------------------------------------
(* The ping goroutines                                                     *)

PingOk(t) ==
    /\ pinging[t] > 0 /\ conn[t] = "open"
    /\ pinging' = [pinging EXCEPT ![t] = @ - 1]
    /\ UNCHANGED <<phase, sockets, reader, client, writer, announcing, living,
                   channels, failing, ticks, pingFailed, signals, history>>

\* The ping is refused on a mute, closing or closed socket.  On an open one the write fails,
\* and with it the close frame that follows; or only the lock on writes was not had in
\* time, and the close frame still goes out.
PingFails(t) ==
    /\ pinging[t] > 0
    /\ pinging' = [pinging EXCEPT ![t] = @ - 1]
    /\ failing' = [failing EXCEPT ![t] = @ + 1]
    /\ pingFailed' = pingFailed \union {t}
    /\ \E after \in IF conn[t] = "open" THEN {"mute", "closing"} ELSE {conn[t]} :
           conn' = [conn EXCEPT ![t] = after]
    /\ UNCHANGED <<phase, ws, reader, client, writer, announcing, living,
                   channels, ticks, signals, history>>

PingAnnounces(t) ==
    /\ failing[t] > 0 /\ Len(dead) < DeadCap
    /\ failing' = [failing EXCEPT ![t] = @ - 1]
    /\ dead' = Append(dead, t)
    /\ UNCHANGED <<phase, sockets, reader, client, writer, announcing, living, msg,
                   pinging, ticks, pingFailed, signals, history>>

-----------------------------------------------------------------------------
\* http.Server.Shutdown runs wsCancel.
Shutdown ==
    /\ ~shutdown
    /\ shutdown' = TRUE
    /\ UNCHANGED <<phase, sockets, reader, client, writer, announcing, living,
                   channels, pingers, clientDeath, closeSent, history>>

AdapterReader(t) == ReaderTop(t) \/ ReaderReads(t) \/ ReadFails(t)
                    \/ ReaderSends(t) \/ ReaderDies(t)
ClientReturns == ClientPings \/ ClientIgnored \/ ClientReadFails
ClientReader == ClientTop \/ ClientReturns \/ ClientPongs
WriterStops == WriterShutdown \/ WriterClientDeath
Writer == WriterStops \/ WriterTick \/ WriterTakesDead \/ WriterNotifies
          \/ WriterWrites \/ WriterWriteFails
Pinger(t) == PingOk(t) \/ PingFails(t) \/ PingAnnounces(t)

Next ==
    \/ \E t \in Targets : Dial(t) \/ DialFails(t) \/ AdapterReader(t) \/ Pinger(t)
    \/ Start \/ ClientReader \/ Writer \/ Shutdown

Spec == Init /\ [][Next]_vars

\* Go runs every goroutine that can run.  A read from an adapter returns for certain only
\* once a close frame went out: a live adapter always has a reader for it and closes
\* (internal/websocket.go:51), and from one that is gone TCP gives up.  On a mute socket
\* nothing ends the read but the deadline set by an earlier pong, if there was one (96-99).
\* A read from the browser always returns, within its 6 s deadline.
ReaderGoesOn(t) == ReaderTop(t) \/ ReaderSends(t) \/ ReaderDies(t)
                   \/ (conn[t] = "closing" /\ (ReaderReads(t) \/ ReadFails(t)))

Fairness ==
    /\ \A t \in Targets : WF_vars(ReaderGoesOn(t)) /\ WF_vars(Pinger(t))
    /\ WF_vars(ClientReader) /\ WF_vars(Writer)
    /\ WF_vars(Start \/ \E t \in Targets : Dial(t) \/ DialFails(t))

FairSpec == Spec /\ Fairness

-----------------------------------------------------------------------------
(* Properties                                                              *)

MsgFull == Len(msg) = MsgCap
DeadFull == Len(dead) = DeadCap

\* The session implements the merged stream of FanIn: whatever the scheduling
\* of the readers, the writer and the ping goroutines, the browser receives the
\* lines of each host in order, none twice and none skipped, and "websocket
\* closed" after the last line of a host whose socket died (reader: line, then
\* dead <- target; writer: dead, then notice through the same channel).
Stream == INSTANCE FanIn WITH accepted <- got, suspect <- pingFailed
MergesInOrder == Stream!FSpec

\* The writer drops an adapter, and closes the browser when none is left, only
\* after the adapter's reader has ended or a ping to it has failed: no live host
\* is forgotten, and the browser is closed early only by a shutdown.
ClosedForCause ==
    /\ \A t \in Targets :
        phase = "run" /\ t \notin living => reader[t] = "done" \/ t \in pingFailed
    /\ closeSent => shutdown \/ \A t \in Targets : reader[t] = "done" \/ t \in pingFailed

\* When the writer has returned, for whatever reason, no adapter is left that could still be
\* told and was not: its socket is closed, or a close frame went out, or it takes no frame
\* any more.  The last can only be said of a host a ping of which had failed, or of one that
\* was in the map when closeReadersFunc ran (line 203).
NobodyLeftOpen ==
    writer = "done" =>
        \A t \in Targets :
            /\ conn[t] # "open"
            /\ conn[t] = "mute" => t \in pingFailed \union living

\* The capacity of dead is enough for the readers: as long as no ping has failed,
\* a reader that has to announce its death never waits.
DeadNeverBlocksReaders ==
    pingFailed = {} => \A t \in Targets : reader[t] = "dead" => ~DeadFull

\* The writer heeds a shutdown or the browser's death, unless it is stuck sending
\* a notice into the full channel that only itself empties.
StopHeeded ==
    phase = "run" /\ (shutdown \/ clientDeath)
        ~> writer = "done" \/ (writer = "notify" /\ MsgFull)

\* Once the writer has returned, the adapter readers end, except those that wait for room
\* in a channel that nobody empties any more and those on a mute socket, over which their
\* adapter could not be told to close.
ReadersSettle ==
    writer = "done" ~>
        [](\A t \in Targets :
              \/ reader[t] = "done"
              \/ reader[t] = "send" /\ MsgFull
              \/ reader[t] = "dead" /\ DeadFull
              \/ conn[t] = "mute")

-----------------------------------------------------------------------------
(* Why the stream is merged in order: an inductive invariant.              *)

\* Enqueued[s] messages of s have entered msg: all that were read, save the one
\* that its reader still holds.
Sending(s) == IF s = Client THEN client = "send" ELSE reader[s] = "send"
Enqueued == [s \in Sources |-> IF Sending(s) THEN got[s] - 1 ELSE got[s]]

\* The channel q holds, for each source s, exactly the messages numbered from
\* g[s]+1 to h[s], in this order.
Ordered(q, g, h) ==
    /\ \A s \in Sources : g[s] <= h[s]
    /\ \A i \in 1..Len(q) : q[i].kind = "data" =>
           g[q[i].from] < q[i].n /\ q[i].n <= h[q[i].from]
    /\ \A i, j \in 1..Len(q) :
           i < j /\ q[i].kind = "data" /\ q[j].kind = "data" /\ q[i].from = q[j].from
               => q[i].n < q[j].n
    /\ \A s \in Sources : \A n \in (g[s] + 1)..h[s] :
           \E i \in 1..Len(q) : q[i] = Data(s, n)

\* No goroutine runs before the handler has dialled every adapter.
NotStarted ==
    phase # "run" =>
        /\ \A t \in Targets : reader[t] = "idle"
        /\ client = "idle" /\ writer = "idle" /\ ~closeSent
        /\ pingFailed = {} /\ \A t \in Targets : pinging[t] = 0

\* A message in a reader's hand has been read.
InHand == \A s \in Sources : Sending(s) => got[s] > 0

\* Until a write to the browser fails, nothing has been lost.
NothingLost == ws = "open" => Ordered(msg, given, Enqueued)

\* t is somewhere on its way from dead to the browser.
Announced(t) ==
    \/ t \in told \union announcing
    \/ \E i \in 1..Len(dead) : dead[i] = t
    \/ \E i \in 1..Len(msg) : msg[i] = Notice(t)

\* Only a reader that has ended announces a host none of whose pings failed, and
\* nothing of that host follows its notice.
DeathIsFinal ==
    /\ \A t \in Targets : failing[t] > 0 => t \in pingFailed
    /\ \A t \in Targets \ pingFailed :
        /\ Announced(t) => reader[t] = "done"
        /\ \A i \in 1..Len(msg) : msg[i].kind = "data" /\ msg[i].from = t =>
               t \notin told /\ \A j \in 1..(i - 1) : msg[j] # Notice(t)

IInv == TypeOK /\ NotStarted /\ InHand /\ NothingLost /\ DeathIsFinal /\ ClosedForCause

\* A reader that has ended has closed its socket, every host was dialled before any
\* goroutine ran, and after a failed ping a socket is open no more.
EndedIsClosed ==
    /\ \A t \in Targets : reader[t] = "done" => conn[t] = "closed"
    /\ phase = "run" => \A t \in Targets : conn[t] # "none"
    /\ \A t \in pingFailed : conn[t] # "open"

\* Nobody receives from the full channel msg: the writer, its only receiver, has returned or
\* is sending to it itself (line 267).
Abandoned == writer \in {"notify", "done"} /\ MsgFull

\* While no ping has failed, dead holds a host at most once: its reader put it there when
\* it ended.
DeadOnce == pingFailed = {} => \A i, j \in 1..Len(dead) : i # j => dead[i] # dead[j]

-----------------------------------------------------------------------------
(* What the source's comments say and the code does not do.                *)

\* The comments of websocket.go:62 and 225: the adapter sockets are closed once the
\* browser's socket has died.
ClientDeathKillsAdapters ==
    phase = "run" /\ clientDeath ~> \A t \in Targets : conn[t] # "open"
=============================================================================
