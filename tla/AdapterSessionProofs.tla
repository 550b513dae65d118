------------------------ MODULE AdapterSessionProofs ------------------------
(***************************************************************************)
(* The lines of a streaming session, for both producers and any number of  *)
(* lines.                                                                  *)
(***************************************************************************)
EXTENDS AdapterSession, TLAPS

\* While the writer holds a line nothing has been lost, and it is the line after the
\* last one written.
LEMMA InHandIsNext ==
  ASSUME LinesAccounted, writer = "write"
  PROVE  lost = 0 /\ InWriter = given + 1 /\ InWriter \in 0..MaxLines
  <1>1. lost = 0
    BY DEF LinesAccounted, TypeOK
  <1> QED
    BY <1>1, LinesAssumption DEF LinesAccounted, TypeOK, InWriter

\* Every step of every goroutine keeps the lines accounted for.
LEMMA AccountedStep == LinesAccounted /\ [Next]_vars => LinesAccounted'
  <1> SUFFICES ASSUME LinesAccounted, [Next]_vars PROVE LinesAccounted'
    OBVIOUS
  <1> USE LinesAssumption DEF LinesAccounted, TypeOK, lines, socket
  <1>1. CASE Opens
    BY <1>1 DEF Opens
  <1>2. CASE OpenFails
    BY <1>2 DEF OpenFails, CloseWebsocket
  <1>3. CASE Scans
    <2>1. scanned' \in 0..MaxLines /\ scanned' = scanned + 1
      BY <1>3 DEF Scans
    <2>2. torn' \in BOOLEAN
      BY <1>3 DEF Scans
    <2> QED
      BY <1>3, <2>1, <2>2 DEF Scans
  <1>4. CASE SourceEnds
    BY <1>4 DEF SourceEnds
  <1>5. CASE BusFails
    BY <1>5 DEF BusFails, CloseWebsocket
  <1>6. CASE HandOver
    <2>1. /\ scanned = given + lost + (IF producer' = "send" THEN 1 ELSE 0)
                                    + (IF writer' = "write" THEN 1 ELSE 0)
          /\ lost = 0
      BY <1>6 DEF HandOver
    <2> QED
      BY <1>6, <2>1 DEF HandOver
  <1>7. CASE Writes
    <2>1. lost = 0 /\ InWriter = given + 1 /\ InWriter \in 0..MaxLines
      BY <1>7, InHandIsNext DEF Writes
    <2>2. given' = given + 1 /\ given' \in 0..MaxLines
      BY <1>7, <2>1 DEF Writes
    <2>3. (tornOut \/ torn) \in BOOLEAN
      OBVIOUS
    <2> QED
      BY <1>7, <2>1, <2>2, <2>3 DEF Writes
  <1>8. CASE WriteFails
    <2>1. lost = 0
      BY <1>8, InHandIsNext DEF WriteFails
    <2> QED
      BY <1>8, <2>1 DEF WriteFails
  <1>9. CASE WriterShutdown
    BY <1>9 DEF WriterShutdown, CloseWebsocket
  <1>10. CASE WriterDeath
    BY <1>10 DEF WriterDeath
  <1>11. CASE ReaderTop
    BY <1>11 DEF ReaderTop
  <1>12. CASE ReaderReads
    BY <1>12 DEF ReaderReads
  <1>13. CASE ReadFails
    BY <1>13 DEF ReadFails
  <1>14. CASE Shutdown
    BY <1>14 DEF Shutdown
  <1>15. CASE UNCHANGED vars
    BY <1>15 DEF vars
  <1>16. CASE PongFails
    BY <1>16 DEF PongFails
  <1> QED
    BY <1>1, <1>2, <1>3, <1>4, <1>5, <1>6, <1>7, <1>8, <1>9, <1>10, <1>11, <1>12, <1>13,
       <1>14, <1>15, <1>16 DEF Next, Producer, Writer, Reader

LEMMA AccountedInit == Init => LinesAccounted
  <1> SUFFICES ASSUME Init PROVE LinesAccounted
    OBVIOUS
  <1>1. scanned \in 0..MaxLines /\ given \in 0..MaxLines /\ lost \in 0..1
    BY LinesAssumption DEF Init
  <1>2. TypeOK
    BY <1>1 DEF Init, TypeOK
  <1> QED
    BY <1>2 DEF Init, LinesAccounted

\* Types: every goroutine is at a line it has, and no counter leaves its range.
THEOREM Typing == Spec => []TypeOK
  <1>1. LinesAccounted => TypeOK
    BY DEF LinesAccounted
  <1> QED
    BY <1>1, AccountedInit, AccountedStep, PTL DEF Spec

\* Each line taken is in a hand, was written, or is the one line a failed write cost, after
\* which the writer has returned and the socket takes no frame, a close frame included
\* (internal/websocket.go:25-29, 62-66); and no event of the bus was overwritten.
THEOREM Accounting == Spec => []LinesAccounted
  BY AccountedInit, AccountedStep, PTL DEF Spec

\* Only a write gives a line, and it gives the one after the last.
LEMMA GivenByWrites ==
  ASSUME LinesAccounted, [Next]_vars
  PROVE  \/ given' = given
         \/ given' = given + 1 /\ given < scanned /\ scanned' = scanned
  <1>1. CASE Writes
    <2>1. InWriter = given + 1 /\ InWriter <= scanned
      BY <1>1, InHandIsNext, LinesAssumption
         DEF Writes, InWriter, LinesAccounted, TypeOK
    <2> QED
      BY <1>1, <2>1, LinesAssumption DEF Writes, LinesAccounted, TypeOK
  <1>2. CASE ~Writes
    BY <1>2 DEF Next, Producer, Opens, OpenFails, Scans, SourceEnds, BusFails, HandOver, Writer,
                WriteFails, WriterShutdown, WriterDeath, Reader, ReaderTop, ReaderReads,
                PongFails, ReadFails, Shutdown, vars, lines
  <1> QED
    BY <1>1, <1>2

\* Only a scan takes a line, one at a time.
LEMMA ScannedByScans ==
  ASSUME [Next]_vars
  PROVE  \/ scanned' = scanned
         \/ scanned' = scanned + 1 /\ given' = given
  BY DEF Next, Producer, Opens, OpenFails, Scans, SourceEnds, BusFails, HandOver, Writer, Writes,
         WriteFails, WriterShutdown, WriterDeath, Reader, ReaderTop, ReaderReads,
         PongFails, ReadFails,
         Shutdown, vars, lines

\* The writer writes the lines one after the other in the order the producer took them.
THEOREM WritesInOrder == Spec => InOrder
  <1>1. LinesAccounted /\ [Next]_vars => [given' # given => given' = given + 1]_vars
    BY GivenByWrites
  <1> QED
    BY <1>1, AccountedInit, AccountedStep, PTL DEF Spec, InOrder

\* A session of an adapter implements the stream of FanIn, as the relay does at the other
\* end (RelaySessionProofs!Merges): a scan accepts a line, a write (internal/websocket.go:24)
\* delivers the next one, and every other step of the three goroutines changes neither.
THEOREM Streams == Spec => OneStream
  <1>1. Init => Stream!FInit
    BY DEF Init, Stream!FInit
  <1>2. LinesAccounted /\ [Next]_vars => [Stream!FNext]_(Stream!fvars)
    <2> SUFFICES ASSUME LinesAccounted, [Next]_vars PROVE [Stream!FNext]_(Stream!fvars)
      OBVIOUS
    <2>1. CASE given' # given
      <3>1. given' = given + 1 /\ given < scanned /\ scanned' = scanned
        BY <2>1, GivenByWrites
      <3>2. Stream!Deliver(Local)
        BY <3>1 DEF Stream!Deliver
      <3> QED
        BY <3>2 DEF Stream!FNext
    <2>2. CASE given' = given /\ scanned' # scanned
      <3>1. scanned' = scanned + 1
        BY <2>2, ScannedByScans
      <3>2. Stream!Accept(Local)
        BY <2>2, <3>1 DEF Stream!Accept
      <3> QED
        BY <3>2 DEF Stream!FNext
    <2>3. CASE given' = given /\ scanned' = scanned
      BY <2>3 DEF Stream!fvars
    <2> QED
      BY <2>1, <2>2, <2>3
  <1> QED
    BY <1>1, <1>2, AccountedInit, AccountedStep, PTL DEF Spec, OneStream, Stream!FSpec
=============================================================================
