--------------------------- MODULE AdapterSession ---------------------------
(***************************************************************************)
(* One streaming session of an adapter: Logs and BusEvents of              *)
(* src/api/adapter/tsymbioteadapter, over WebsocketReader and              *)
(* WebsocketWriter of src/api/adapter/internal.  Three goroutines share    *)
(* the websocket to the web UI:                                            *)
(*   - the producer takes lines from the local tailscaled and sends each   *)
(*     one on an unbuffered channel;                                       *)
(*   - the writer receives them and writes them to the socket;             *)
(*   - the reader waits for the socket to die and then cancels wsDeathCtx. *)
(* Lines are numbered.  bus selects the producer: the events of the IPN    *)
(* bus, each marshalled into memory of its own, or the daemon's log, whose *)
(* lines lie in the buffer of a bufio.Scanner.                             *)
(***************************************************************************)
EXTENDS Naturals

CONSTANT
    MaxLines        \* bound: lines the producer takes

ASSUME LinesAssumption == MaxLines \in Nat

VARIABLES
    bus,            \* TRUE: the handler is BusEvents, FALSE: Logs
    reader,         \* "top" of its loop, "reading" in ReadMessage, "done"
    writer,         \* "select", "write" with a line in hand, "done"
    producer,       \* "open", "scan", "send" with a line in hand, "done"
    shutdown,       \* the server's websocket context is cancelled
    death,          \* wsDeathCtx is cancelled
    out,            \* what the socket still takes: "ok", frames are written; "closing", a
                    \* close frame went out; "broken", a write failed.  Save in "ok", gorilla
                    \* refuses every later frame, a close frame as well.
    wsClosed,       \* r.WS.Close() was called
    scanned,        \* lines taken by the producer so far
    given,          \* number of the last line written to the socket, 0 if none
    lost,           \* lines the writer took and could not write
    torn,           \* the line in the writer's hand was overwritten under it
    tornOut         \* an overwritten line was written to the socket

vars == <<bus, reader, writer, producer, shutdown, death, out, wsClosed,
          scanned, given, lost, torn, tornOut>>

socket == <<out, wsClosed>>
lines == <<scanned, given, lost, torn, tornOut>>

TypeOK ==
    /\ bus \in BOOLEAN
    /\ reader \in {"top", "reading", "done"}
    /\ writer \in {"select", "write", "done"}
    /\ producer \in {"open", "scan", "send", "done"}
    /\ shutdown \in BOOLEAN /\ death \in BOOLEAN
    /\ out \in {"ok", "closing", "broken"} /\ wsClosed \in BOOLEAN
    /\ scanned \in 0..MaxLines /\ given \in 0..MaxLines /\ lost \in 0..1
    /\ torn \in BOOLEAN /\ tornOut \in BOOLEAN

\* The server may be shutting down before the session's goroutines run.
Init ==
    /\ bus \in BOOLEAN
    /\ reader = "top" /\ writer = "select" /\ producer = "open"
    /\ shutdown \in BOOLEAN
    /\ death = FALSE /\ out = "ok" /\ wsClosed = FALSE
    /\ scanned = 0 /\ given = 0 /\ lost = 0
    /\ torn = FALSE /\ tornOut = FALSE

\* CloseWebsocket: the close frame goes out, or the write fails and that is only logged.
CloseWebsocket ==
    out' \in IF out = "ok" THEN {"broken"} \union (IF wsClosed THEN {} ELSE {"closing"})
            ELSE {out}

-----------------------------------------------------------------------------
(* logStreamScannerFunc, busEventsIterFunc                                 *)

Opens ==
    /\ producer = "open" /\ (bus \/ ~death)
    /\ producer' = "scan"
    /\ UNCHANGED <<bus, reader, writer, shutdown, death, socket, lines>>

\* TailDaemonLogs fails, on its own or because wsDeathCtx is cancelled.
OpenFails ==
    /\ producer = "open" /\ ~bus
    /\ producer' = "done" /\ CloseWebsocket
    /\ UNCHANGED <<bus, reader, writer, shutdown, death, wsClosed, lines>>

\* An event source that marshals every event into the same memory.
ScansIntoOneBuffer ==
    /\ producer = "scan" /\ scanned < MaxLines
    /\ producer' = "send"
    /\ scanned' = scanned + 1
    /\ torn' \in {torn, writer = "write"}
    /\ UNCHANGED <<bus, reader, writer, shutdown, death, socket, given, lost, tornOut>>

\* Scan, or the next event.  The scanner reuses its buffer, so the line the
\* writer still holds may be overwritten.
Scans ==
    /\ producer = "scan" /\ scanned < MaxLines
    /\ producer' = "send"
    /\ scanned' = scanned + 1
    /\ \/ UNCHANGED torn
       \/ ~bus /\ writer = "write" /\ torn' = TRUE
    /\ UNCHANGED <<bus, reader, writer, shutdown, death, socket, given, lost, tornOut>>

\* A log or a bus opened with a context that nobody cancels.
NeverEnds == FALSE /\ UNCHANGED vars

\* The log or the iterator of the bus ends, at its end or because the context is
\* cancelled, and nothing is said to anybody.
SourceEnds ==
    /\ producer = "scan"
    /\ producer' = "done"
    /\ UNCHANGED <<bus, reader, writer, shutdown, death, socket, lines>>

\* The iterator yields an error (of the bus or of the cancelled context), or an
\* event cannot be marshalled.
BusFails ==
    /\ producer = "scan" /\ bus
    /\ producer' = "done" /\ CloseWebsocket
    /\ UNCHANGED <<bus, reader, writer, shutdown, death, wsClosed, lines>>

\* wsMessage is unbuffered: the send and the writer's receive are one step.
\* (HandOverUnguarded does not wait for the writer to be receiving.)
HandOverUnguarded ==
    /\ producer = "send" /\ writer # "done"
    /\ producer' = "scan" /\ writer' = "write" /\ torn' = FALSE
    /\ UNCHANGED <<bus, reader, shutdown, death, socket, scanned, given, lost, tornOut>>

HandOver ==
    /\ producer = "send" /\ writer = "select"
    /\ producer' = "scan" /\ writer' = "write" /\ torn' = FALSE
    /\ UNCHANGED <<bus, reader, shutdown, death, socket, scanned, given, lost, tornOut>>

-----------------------------------------------------------------------------
(* WebsocketWriter                                                         *)

\* The number of the line in the writer's hand.
InWriter == IF producer = "send" THEN scanned - 1 ELSE scanned

Writes ==
    /\ writer = "write" /\ out = "ok" /\ ~wsClosed
    /\ writer' = "select"
    /\ given' = InWriter
    /\ tornOut' = (tornOut \/ torn)
    /\ UNCHANGED <<bus, reader, producer, shutdown, death, socket, scanned, lost, torn>>

\* A writer that goes on after a failed write.
WriteFailsAndGoesOn ==
    /\ writer = "write"
    /\ writer' = "select" /\ lost' = lost + 1
    /\ UNCHANGED <<bus, reader, producer, shutdown, death, socket, scanned, given, torn, tornOut>>

\* The write fails, as CloseWebsocket after it does: no close frame goes out.  The writer
\* returns without calling wsDeathFunc, so the reader is not told either.
WriteFails ==
    /\ writer = "write"
    /\ out' = IF out = "ok" THEN "broken" ELSE out
    /\ writer' = "done" /\ lost' = lost + 1
    /\ UNCHANGED <<bus, reader, producer, shutdown, death, wsClosed, scanned, given, torn, tornOut>>

WriterShutdown ==
    /\ writer = "select" /\ shutdown
    /\ writer' = "done" /\ CloseWebsocket
    /\ UNCHANGED <<bus, reader, producer, shutdown, death, wsClosed, lines>>

\* A writer without the case for wsDeathCtx.
WriterIgnoresDeath == FALSE /\ UNCHANGED vars

WriterDeath ==
    /\ writer = "select" /\ death
    /\ writer' = "done"
    /\ UNCHANGED <<bus, reader, producer, shutdown, death, socket, lines>>

-----------------------------------------------------------------------------
(* WebsocketReader                                                         *)

\* Return on shutdown (without wsDeathFunc), else read.
ReaderTop ==
    /\ reader = "top"
    /\ IF shutdown \/ death
       THEN reader' = "done" /\ wsClosed' = TRUE
       ELSE reader' = "reading" /\ UNCHANGED wsClosed
    /\ UNCHANGED <<bus, writer, producer, shutdown, death, out, lines>>

\* A message from the web UI is ignored.
ReaderReads ==
    /\ reader = "reading"
    /\ reader' = "top"
    /\ UNCHANGED <<bus, writer, producer, shutdown, death, socket, lines>>

\* Within ReadMessage the ping handler answers a ping.  When the pong cannot be written the
\* close frame that follows cannot either, unless only the lock on writes was late.
PongFails ==
    /\ reader = "reading" /\ out = "ok"
    /\ out' \in {"broken", "closing"}
    /\ UNCHANGED <<bus, reader, writer, producer, shutdown, death, wsClosed, lines>>

\* The web UI closed or vanished: wsDeathFunc(), then the deferred Close().
ReadFails ==
    /\ reader = "reading"
    /\ reader' = "done" /\ wsClosed' = TRUE /\ death' = TRUE
    /\ UNCHANGED <<bus, writer, producer, shutdown, out, lines>>

-----------------------------------------------------------------------------
Shutdown ==
    /\ ~shutdown
    /\ shutdown' = TRUE
    /\ UNCHANGED <<bus, reader, writer, producer, death, socket, lines>>

Producer == Opens \/ OpenFails \/ Scans \/ SourceEnds \/ BusFails
Writer == Writes \/ WriteFails \/ WriterShutdown \/ WriterDeath
Reader == ReaderTop \/ ReaderReads \/ PongFails \/ ReadFails

Next == Producer \/ HandOver \/ Writer \/ Reader \/ Shutdown

Spec == Init /\ [][Next]_vars

\* Opening returns; a scan returns for certain only once wsDeathCtx is cancelled
\* (the next line of an idle log may never come).  A read returns once a close frame went
\* out: the web UI closes when its reader comes to the frame, and TCP gives up one that is
\* gone.  (That its reader comes to it is an assumption here: a relay session that is stuck
\* on its own channel, RelaySession, leaves it unread.)
Fairness ==
    /\ WF_vars(Opens \/ OpenFails)
    /\ WF_vars(death /\ (Scans \/ SourceEnds \/ BusFails))
    /\ WF_vars(HandOver \/ Writer)
    /\ WF_vars(ReaderTop)
    /\ SF_vars(out = "closing" /\ ReadFails)

FairSpec == Spec /\ Fairness

-----------------------------------------------------------------------------
(* Properties                                                              *)

\* The types, and: every line the producer took is in one hand, was written, or was the single
\* line the writer lost when the socket took no more: none is skipped or written twice, and
\* after a lost one nothing is written (the writer has returned, the socket refuses frames).
\* A message of the bus is written as it was marshalled.  Nothing of the kind is said of a
\* line of the log: scanner.Bytes() (logs.go:42) is only good until the next Scan, which
\* another goroutine may run while the line is being written.
LinesAccounted ==
    /\ TypeOK
    /\ scanned = given + lost + (IF producer = "send" THEN 1 ELSE 0)
                             + (IF writer = "write" THEN 1 ELSE 0)
    /\ lost > 0 => writer = "done" /\ out # "ok"
    /\ torn \/ tornOut => ~bus

\* Lines come out in the order they were taken, each one after the line before it.
InOrder == [][given' # given => given' = given + 1]_vars

\* The session is a stream of one source, as FanIn promises: the web UI receives the lines
\* that were taken from the local tailscaled, in order, each once and without a gap.  The
\* relay at the other end implements the same specification.
Local == "tailscaled"
Stream == INSTANCE FanIn WITH
              Sources <- {Local},
              accepted <- [s \in {Local} |-> scanned],
              given <- [s \in {Local} |-> given],
              told <- {}, suspect <- {}
OneStream == Stream!FSpec

\* Once a close frame went out or the socket has died, the reader and the writer return and
\* the socket is closed.  After a shutdown the writer returns, and so does the reader unless a
\* write had failed: over a broken socket the web UI cannot be told, and the reader stays in
\* its read until the web UI goes away or the deadline set by its last ping passes.
SocketEnds ==
    /\ (out = "closing" \/ death) ~> (reader = "done" /\ writer = "done" /\ wsClosed)
    /\ shutdown ~> writer = "done" /\ ((reader = "done" /\ wsClosed) \/ out = "broken")

\* The producer outlives the writer in two ways only: at a send nobody receives, or
\* waiting for a line because wsDeathCtx was not cancelled.
ProducerSettles ==
    writer = "done" /\ reader = "done" ~>
        [](\/ producer \in {"send", "done"}
           \/ producer = "scan" /\ ~death)

\* The comment of logs.go:28: once the socket has died the producer returns.
DeathEndsProducer == death ~> producer = "done"
=============================================================================
