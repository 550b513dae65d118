------------------------- MODULE RelaySessionProofs -------------------------
(***************************************************************************)
(* What holds of RelaySession for every list of hosts and every bound.     *)
(***************************************************************************)
EXTENDS RelaySession, FiniteSetTheorems, TLAPS

\* The channel capacity, len(targets), is a positive number.
LEMMA CapIsPositive == MsgCap \in Nat /\ MsgCap > 0 /\ DeadCap = MsgCap
  <1>1. Cardinality(Targets) \in Nat
    BY TargetsAssumption, FS_CardinalityType
  <1>2. Cardinality(Targets) # 0
    BY TargetsAssumption, FS_EmptySet
  <1> QED
    BY <1>1, <1>2 DEF MsgCap, DeadCap

-----------------------------------------------------------------------------
\* Every action keeps the variables in their types and both channels within the
\* capacity they were made with.
THEOREM Typing == Spec => []TypeOK
  <1>1. Init => TypeOK
    <2> SUFFICES ASSUME Init PROVE TypeOK
      OBVIOUS
    <2>1. msg \in Seq(Message) /\ Len(msg) <= MsgCap
      BY CapIsPositive DEF Init
    <2>2. dead \in Seq(Targets) /\ Len(dead) <= DeadCap
      BY CapIsPositive DEF Init
    <2>3. ticks \in 0..MaxTicks /\ read \in 0..MaxEvents
      BY BoundsAssumption DEF Init
    <2>4. got \in [Sources -> Nat] /\ given \in [Sources -> Nat]
      BY DEF Init
    <2>5. pinging \in [Targets -> Nat] /\ failing \in [Targets -> Nat]
      BY DEF Init
    <2>6. conn \in [Targets -> ConnStates]
      BY DEF Init, ConnStates
    <2>7. reader \in [Targets -> {"idle", "top", "reading", "send", "dead", "done"}]
      BY DEF Init
    <2> QED
      BY <2>1, <2>2, <2>3, <2>4, <2>5, <2>6, <2>7 DEF Init, TypeOK
  <1>2. TypeOK /\ [Next]_vars => TypeOK'
    <2> SUFFICES ASSUME TypeOK, [Next]_vars PROVE TypeOK'
      OBVIOUS
    <2> USE CapIsPositive DEF TypeOK, ConnStates, sockets, channels, pingers, signals, history
    <2>1. ASSUME NEW t \in Targets, Dial(t) PROVE TypeOK'
      BY <2>1 DEF Dial
    <2>2. ASSUME NEW t \in Targets, DialFails(t) PROVE TypeOK'
      BY <2>2 DEF DialFails
    <2>3. CASE Start
      BY <2>3 DEF Start
    <2>4. ASSUME NEW t \in Targets, ReaderTop(t) PROVE TypeOK'
      BY <2>4 DEF ReaderTop, ReaderVars
    <2>5. ASSUME NEW t \in Targets, ReaderReads(t) PROVE TypeOK'
      BY <2>5, BoundsAssumption DEF ReaderReads, ReaderVars, ReadsFrom, WithinBounds, Sources
    <2>6. ASSUME NEW t \in Targets, ReadFails(t) PROVE TypeOK'
      BY <2>6 DEF ReadFails, ReaderVars
    <2>7. ASSUME NEW t \in Targets, ReaderSends(t) PROVE TypeOK'
      BY <2>7 DEF ReaderSends, ReaderVars, Message, Data, Sources
    <2>8. ASSUME NEW t \in Targets, ReaderDies(t) PROVE TypeOK'
      BY <2>8 DEF ReaderDies, ReaderVars
    <2>9. CASE ClientTop
      BY <2>9 DEF ClientTop
    <2>10. CASE ClientReturns
      <3>1. CASE ClientPings
        BY <3>1, BoundsAssumption DEF ClientPings, ReadsFrom, WithinBounds, Sources
      <3>2. CASE ClientIgnored
        BY <3>2 DEF ClientIgnored
      <3>3. CASE ClientReadFails
        BY <3>3 DEF ClientReadFails
      <3> QED
        BY <2>10, <3>1, <3>2, <3>3 DEF ClientReturns
    <2>11. CASE ClientPongs
      BY <2>11 DEF ClientPongs, Message, Data, Sources
    <2>12. CASE WriterStops
      BY <2>12 DEF WriterStops, WriterShutdown, WriterClientDeath, CloseReaders
    <2>13. CASE WriterTick
      <3>1. ticks' \in 0..MaxTicks
        BY <2>13, BoundsAssumption DEF WriterTick
      <3>2. pinging' \in [Targets -> Nat]
        BY <2>13 DEF WriterTick
      <3>3. writer' \in {"select", "done"} /\ closeSent' \in BOOLEAN
        BY <2>13 DEF WriterTick, EndOfLoop
      <3> QED
        BY <2>13, <3>1, <3>2, <3>3 DEF WriterTick
    <2>14. CASE WriterTakesDead
      BY <2>14 DEF WriterTakesDead
    <2>15. CASE WriterNotifies
      <3>1. \A t \in Targets : Notice(t) \in Message
        BY DEF Notice, Message
      <3>2. PICK t \in announcing : msg' = Append(msg, Notice(t))
        BY <2>15 DEF WriterNotifies
      <3>3. msg' \in Seq(Message) /\ Len(msg') <= MsgCap
        BY <2>15, <3>1, <3>2 DEF WriterNotifies
      <3>4. writer' \in {"select", "done"} /\ closeSent' \in BOOLEAN
        BY <2>15 DEF WriterNotifies, EndOfLoop
      <3> QED
        BY <2>15, <3>3, <3>4 DEF WriterNotifies
    <2>16. CASE WriterWrites
      <3>1. Head(msg) \in Message /\ Tail(msg) \in Seq(Message) /\ Len(Tail(msg)) <= MsgCap
        BY <2>16 DEF WriterWrites
      <3>2. given' \in [Sources -> Nat] /\ told' \subseteq Targets
        BY <2>16, <3>1 DEF WriterWrites, Written, Message
      <3> QED
        BY <2>16, <3>1, <3>2 DEF WriterWrites, EndOfLoop
    <2>17. CASE WriterWriteFails
      BY <2>17 DEF WriterWriteFails
    <2>18. ASSUME NEW t \in Targets, Pinger(t) PROVE TypeOK'
      <3>1. CASE PingOk(t)
        BY <3>1 DEF PingOk
      <3>2. CASE PingFails(t)
        <4>1. PICK after \in {"mute", "closing", conn[t]} : conn' = [conn EXCEPT ![t] = after]
          BY <3>2 DEF PingFails
        <4>2. conn' \in [Targets -> ConnStates]
          BY <4>1
        <4> QED
          BY <3>2, <4>2 DEF PingFails
      <3>3. CASE PingAnnounces(t)
        BY <3>3 DEF PingAnnounces
      <3> QED
        BY <2>18, <3>1, <3>2, <3>3 DEF Pinger
    <2>19. CASE Shutdown
      BY <2>19 DEF Shutdown
    <2>20. CASE UNCHANGED vars
      BY <2>20 DEF vars
    <2> QED
      BY <2>1, <2>2, <2>3, <2>4, <2>5, <2>6, <2>7, <2>8, <2>9, <2>10, <2>11, <2>12,
         <2>13, <2>14, <2>15, <2>16, <2>17, <2>18, <2>19, <2>20
         DEF Next, AdapterReader, ClientReader, Writer
  <1> QED
    BY <1>1, <1>2, PTL DEF Spec

-----------------------------------------------------------------------------
(* The channel keeps the lines of every host in order.                     *)

\* Sending the next message of s keeps the channel ordered.
LEMMA OrderedAppendData ==
  ASSUME NEW q \in Seq(Message), NEW g \in [Sources -> Nat], NEW h \in [Sources -> Nat],
         NEW s \in Sources, Ordered(q, g, h)
  PROVE  Ordered(Append(q, Data(s, h[s] + 1)), g, [h EXCEPT ![s] = @ + 1])
  <1> DEFINE m == Data(s, h[s] + 1)
             p == Append(q, m)
             k == [h EXCEPT ![s] = @ + 1]
  <1>1. m.kind = "data" /\ m.from = s /\ m.n = h[s] + 1
    BY DEF Data
  <1>2. /\ Len(p) = Len(q) + 1 /\ Len(q) \in Nat
        /\ \A i \in 1..Len(q) : p[i] = q[i]
        /\ p[Len(q) + 1] = m
    OBVIOUS
  <1>3. \A i \in 1..Len(q) : q[i] \in Message
    OBVIOUS
  <1>4. \A r \in Sources :
           /\ g[r] \in Nat /\ h[r] \in Nat /\ k[r] \in Nat
           /\ k[r] = IF r = s THEN h[r] + 1 ELSE h[r]
           /\ h[r] <= k[r]
    OBVIOUS
  <1>5. \A i \in 1..Len(q) : q[i].kind = "data" => q[i].from \in Sources /\ q[i].n \in Nat
    BY <1>3 DEF Message, Sources
  <1> HIDE DEF m, p, k
  <1>6. \A r \in Sources : g[r] <= k[r]
    BY <1>4 DEF Ordered
  <1>7. ASSUME NEW i \in 1..Len(p), p[i].kind = "data"
        PROVE  g[p[i].from] < p[i].n /\ p[i].n <= k[p[i].from]
    <2>1. CASE i \in 1..Len(q)
      <3>1. p[i] = q[i] /\ q[i].from \in Sources /\ q[i].n \in Nat
        BY <2>1, <1>7, <1>2, <1>5
      <3>2. g[q[i].from] < q[i].n /\ q[i].n <= h[q[i].from]
        BY <2>1, <3>1, <1>7 DEF Ordered
      <3>3. h[q[i].from] <= k[q[i].from]
        BY <3>1, <1>4
      <3> QED
        BY <3>1, <3>2, <3>3, <1>4
    <2>2. CASE i = Len(q) + 1
      BY <2>2, <1>1, <1>2, <1>4 DEF Ordered
    <2> QED
      BY <1>2, <2>1, <2>2
  <1>8. ASSUME NEW i \in 1..Len(p), NEW j \in 1..Len(p), i < j,
               p[i].kind = "data", p[j].kind = "data", p[i].from = p[j].from
        PROVE  p[i].n < p[j].n
    <2>1. i \in 1..Len(q)
      BY <1>2, <1>8
    <2>2. CASE j \in 1..Len(q)
      BY <2>1, <2>2, <1>8, <1>2 DEF Ordered
    <2>3. CASE j = Len(q) + 1
      BY <2>1, <2>3, <1>8, <1>1, <1>2, <1>5 DEF Ordered
    <2> QED
      BY <1>2, <2>2, <2>3
  <1>9. ASSUME NEW r \in Sources, NEW n \in (g[r] + 1)..k[r]
        PROVE  \E i \in 1..Len(p) : p[i] = Data(r, n)
    <2>1. CASE n <= h[r]
      <3>1. PICK i \in 1..Len(q) : q[i] = Data(r, n)
        BY <2>1, <1>9, <1>4 DEF Ordered
      <3>2. i \in 1..Len(p) /\ p[i] = q[i]
        BY <1>2
      <3> QED
        BY <3>1, <3>2
    <2>2. CASE r = s /\ n = h[s] + 1
      <3>1. p[Len(q) + 1] = Data(r, n)
        BY <2>2, <1>2 DEF m
      <3>2. Len(q) + 1 \in 1..Len(p)
        BY <1>2
      <3> QED
        BY <3>1, <3>2
    <2> QED
      BY <2>1, <2>2, <1>4, <1>9
  <1> QED
    BY <1>6, <1>7, <1>8, <1>9 DEF Ordered, m, p, k

\* A notice in the channel is not part of any host's lines.
LEMMA OrderedAppendNotice ==
  ASSUME NEW q \in Seq(Message), NEW g \in [Sources -> Nat], NEW h \in [Sources -> Nat],
         NEW t \in Targets, Ordered(q, g, h)
  PROVE  Ordered(Append(q, Notice(t)), g, h)
  <1> DEFINE p == Append(q, Notice(t))
  <1>1. /\ Len(p) = Len(q) + 1 /\ Len(q) \in Nat
        /\ \A i \in 1..Len(q) : p[i] = q[i]
        /\ p[Len(q) + 1] = Notice(t)
    OBVIOUS
  <1>2. Notice(t).kind # "data"
    BY DEF Notice
  <1> HIDE DEF p
  <1>3. \A i \in 1..Len(p) : p[i].kind = "data" => i \in 1..Len(q) /\ p[i] = q[i]
    BY <1>1, <1>2
  <1>4. \A s \in Sources : \A n \in (g[s] + 1)..h[s] : \E i \in 1..Len(p) : p[i] = Data(s, n)
    <2> SUFFICES ASSUME NEW s \in Sources, NEW n \in (g[s] + 1)..h[s]
                 PROVE  \E i \in 1..Len(p) : p[i] = Data(s, n)
      OBVIOUS
    <2>1. PICK i \in 1..Len(q) : q[i] = Data(s, n)
      BY DEF Ordered
    <2> QED
      BY <2>1, <1>1
  <1>5. \A s \in Sources : g[s] <= h[s]
    BY DEF Ordered
  <1>6. \A i \in 1..Len(p) : p[i].kind = "data" =>
           g[p[i].from] < p[i].n /\ p[i].n <= h[p[i].from]
    BY <1>3 DEF Ordered
  <1>7. \A i, j \in 1..Len(p) :
           i < j /\ p[i].kind = "data" /\ p[j].kind = "data" /\ p[i].from = p[j].from
               => p[i].n < p[j].n
    BY <1>3 DEF Ordered
  <1> QED
    BY <1>4, <1>5, <1>6, <1>7 DEF Ordered, p

\* Receiving from the channel: a line is the next one of its host.
LEMMA OrderedTail ==
  ASSUME NEW q \in Seq(Message), q # <<>>, NEW g \in [Sources -> Nat],
         NEW h \in [Sources -> Nat], Ordered(q, g, h)
  PROVE  /\ q[1].kind = "closed" => Ordered(Tail(q), g, h)
         /\ q[1].kind = "data" =>
                /\ q[1].from \in Sources /\ q[1].n = g[q[1].from] + 1
                /\ q[1].n <= h[q[1].from]
                /\ Ordered(Tail(q), [g EXCEPT ![q[1].from] = q[1].n], h)
  <1> DEFINE p == Tail(q)
             m == q[1]
  <1>1. /\ Len(p) = Len(q) - 1 /\ Len(q) \in Nat /\ Len(q) > 0
        /\ \A i \in 1..Len(p) : p[i] = q[i + 1] /\ i + 1 \in 1..Len(q)
        /\ m \in Message /\ 1 \in 1..Len(q)
    OBVIOUS
  <1>2. \A i \in 1..Len(q) : q[i] \in Message
    OBVIOUS
  <1>3. \A i \in 1..Len(q) : q[i].kind = "data" => q[i].from \in Sources /\ q[i].n \in Nat
    BY <1>2 DEF Message, Sources
  <1> HIDE DEF p
  <1>4. \A i \in 1..Len(q) : i = 1 \/ (i - 1 \in 1..Len(p) /\ p[i - 1] = q[i])
    BY <1>1
  <1>5. ASSUME m.kind = "closed" PROVE Ordered(p, g, h)
    <2>1. \A i \in 1..Len(p) : p[i].kind = "data" =>
             g[p[i].from] < p[i].n /\ p[i].n <= h[p[i].from]
      BY <1>1 DEF Ordered
    <2>2. \A i, j \in 1..Len(p) :
             i < j /\ p[i].kind = "data" /\ p[j].kind = "data" /\ p[i].from = p[j].from
                 => p[i].n < p[j].n
      <3> SUFFICES ASSUME NEW i \in 1..Len(p), NEW j \in 1..Len(p), i < j,
                          p[i].kind = "data", p[j].kind = "data", p[i].from = p[j].from
                   PROVE  p[i].n < p[j].n
        OBVIOUS
      <3>1. i + 1 < j + 1
        OBVIOUS
      <3> QED
        BY <1>1, <3>1 DEF Ordered
    <2>3. ASSUME NEW s \in Sources, NEW n \in (g[s] + 1)..h[s]
          PROVE  \E i \in 1..Len(p) : p[i] = Data(s, n)
      <3>1. PICK i \in 1..Len(q) : q[i] = Data(s, n)
        BY <2>3 DEF Ordered
      <3>2. q[i].kind = "data"
        BY <3>1 DEF Data
      <3> QED
        BY <3>1, <3>2, <1>4, <1>5
    <2> QED
      BY <2>1, <2>2, <2>3 DEF Ordered
  <1>6. ASSUME m.kind = "data"
        PROVE  /\ m.from \in Sources /\ m.n = g[m.from] + 1
               /\ m.n <= h[m.from]
               /\ Ordered(p, [g EXCEPT ![m.from] = m.n], h)
    <2>1. m.from \in Sources /\ m.n \in Nat
      BY <1>6, <1>1, <1>3
    <2>2. g[m.from] < m.n /\ m.n <= h[m.from]
      BY <1>6, <1>1 DEF Ordered
    <2>3. \A j \in 1..Len(q) : j > 1 /\ q[j].kind = "data" /\ q[j].from = m.from => m.n < q[j].n
      BY <1>6, <1>1 DEF Ordered
    <2>4. m.n = g[m.from] + 1
      <3>1. g[m.from] + 1 \in (g[m.from] + 1)..h[m.from]
        BY <2>1, <2>2
      <3>2. PICK j \in 1..Len(q) : q[j] = Data(m.from, g[m.from] + 1)
        BY <2>1, <3>1 DEF Ordered
      <3>3. q[j].kind = "data" /\ q[j].from = m.from /\ q[j].n = g[m.from] + 1
        BY <3>2 DEF Data
      <3>4. j = 1 \/ j > 1
        BY <1>1
      <3> QED
        BY <2>1, <2>2, <2>3, <3>3, <3>4
    <2> DEFINE f == [g EXCEPT ![m.from] = m.n]
    <2>5. \A s \in Sources : f[s] = IF s = m.from THEN m.n ELSE g[s]
      OBVIOUS
    <2> HIDE DEF f
    <2>6. \A s \in Sources : f[s] <= h[s]
      BY <2>2, <2>5 DEF Ordered
    <2>7. \A i \in 1..Len(p) : p[i].kind = "data" =>
             f[p[i].from] < p[i].n /\ p[i].n <= h[p[i].from]
      <3> SUFFICES ASSUME NEW i \in 1..Len(p), p[i].kind = "data"
                   PROVE  f[p[i].from] < p[i].n /\ p[i].n <= h[p[i].from]
        OBVIOUS
      <3>1. i + 1 \in 1..Len(q) /\ i + 1 > 1 /\ p[i] = q[i + 1]
        BY <1>1
      <3>2. g[p[i].from] < p[i].n /\ p[i].n <= h[p[i].from] /\ p[i].from \in Sources
        BY <3>1, <1>3 DEF Ordered
      <3> QED
        BY <3>1, <3>2, <2>3, <2>5
    <2>8. \A i, j \in 1..Len(p) :
             i < j /\ p[i].kind = "data" /\ p[j].kind = "data" /\ p[i].from = p[j].from
                 => p[i].n < p[j].n
      <3> SUFFICES ASSUME NEW i \in 1..Len(p), NEW j \in 1..Len(p), i < j,
                          p[i].kind = "data", p[j].kind = "data", p[i].from = p[j].from
                   PROVE  p[i].n < p[j].n
        OBVIOUS
      <3>1. i + 1 < j + 1
        OBVIOUS
      <3> QED
        BY <1>1, <3>1 DEF Ordered
    <2>9. ASSUME NEW s \in Sources, NEW n \in (f[s] + 1)..h[s]
          PROVE  \E i \in 1..Len(p) : p[i] = Data(s, n)
      <3>1. n \in (g[s] + 1)..h[s] /\ ~(s = m.from /\ n = m.n)
        BY <2>9, <2>1, <2>2, <2>5
      <3>2. PICK i \in 1..Len(q) : q[i] = Data(s, n)
        BY <3>1, <2>9 DEF Ordered
      <3>3. q[i].from = s /\ q[i].n = n
        BY <3>2 DEF Data
      <3> QED
        BY <3>1, <3>2, <3>3, <1>4
    <2>10. Ordered(p, f, h)
      BY <2>6, <2>7, <2>8, <2>9 DEF Ordered
    <2> QED
      BY <2>1, <2>2, <2>4, <2>10 DEF f
  <1> QED
    BY <1>5, <1>6 DEF p

-----------------------------------------------------------------------------
(* The conjuncts of IInv, one lemma each.                                  *)

LEMMA NotStartedStep == TypeOK /\ NotStarted /\ [Next]_vars => NotStarted'
  <1> SUFFICES ASSUME TypeOK, NotStarted, [Next]_vars PROVE NotStarted'
    OBVIOUS
  <1> USE DEF NotStarted, TypeOK, pingers, signals
  <1>1. ASSUME NEW t \in Targets, Dial(t) \/ DialFails(t) PROVE NotStarted'
    BY <1>1 DEF Dial, DialFails
  <1>2. CASE Start
    BY <1>2 DEF Start
  <1>3. ASSUME NEW t \in Targets, AdapterReader(t) PROVE NotStarted'
    BY <1>3 DEF AdapterReader, ReaderTop, ReaderReads, ReadFails, ReaderSends, ReaderDies,
                ReaderVars
  <1>4. CASE ClientReader
    BY <1>4 DEF ClientReader, ClientTop, ClientReturns, ClientPings, ClientIgnored,
                ClientReadFails, ClientPongs
  <1>5. CASE Writer
    BY <1>5 DEF Writer, WriterStops, WriterShutdown, WriterClientDeath, WriterTick,
                WriterTakesDead, WriterNotifies, WriterWrites, WriterWriteFails
  <1>6. ASSUME NEW t \in Targets, Pinger(t) PROVE NotStarted'
    BY <1>6 DEF Pinger, PingOk, PingFails, PingAnnounces
  <1>7. CASE Shutdown \/ UNCHANGED vars
    BY <1>7 DEF Shutdown, vars
  <1> QED
    BY <1>1, <1>2, <1>3, <1>4, <1>5, <1>6, <1>7 DEF Next

LEMMA InHandStep == TypeOK /\ NotStarted /\ InHand /\ [Next]_vars => InHand'
  <1> SUFFICES ASSUME TypeOK, NotStarted, InHand, [Next]_vars PROVE InHand'
    OBVIOUS
  <1> USE TargetsAssumption DEF InHand, Sending, history, Sources, TypeOK
  <1>1. ASSUME NEW t \in Targets, Dial(t) \/ DialFails(t) PROVE InHand'
    BY <1>1 DEF Dial, DialFails
  <1>2. CASE Start
    BY <1>2 DEF Start
  <1>3. ASSUME NEW t \in Targets, AdapterReader(t) PROVE InHand'
    <2>1. CASE ReaderTop(t) \/ ReadFails(t) \/ ReaderSends(t) \/ ReaderDies(t)
      BY <2>1 DEF ReaderTop, ReadFails, ReaderSends, ReaderDies, ReaderVars
    <2>2. CASE ReaderReads(t)
      BY <2>2 DEF ReaderReads, ReaderVars, ReadsFrom
    <2> QED
      BY <1>3, <2>1, <2>2 DEF AdapterReader
  <1>4. CASE ClientReader
    <2>1. CASE ClientTop \/ ClientIgnored \/ ClientReadFails \/ ClientPongs
      BY <2>1 DEF ClientTop, ClientIgnored, ClientReadFails, ClientPongs
    <2>2. CASE ClientPings
      BY <2>2 DEF ClientPings, ReadsFrom
    <2> QED
      BY <1>4, <2>1, <2>2 DEF ClientReader, ClientReturns
  <1>5. CASE Writer
    BY <1>5 DEF Writer, WriterStops, WriterShutdown, WriterClientDeath, WriterTick,
                WriterTakesDead, WriterNotifies, WriterWrites, WriterWriteFails
  <1>6. ASSUME NEW t \in Targets, Pinger(t) PROVE InHand'
    BY <1>6 DEF Pinger, PingOk, PingFails, PingAnnounces
  <1>7. CASE Shutdown \/ UNCHANGED vars
    BY <1>7 DEF Shutdown, vars
  <1> QED
    BY <1>1, <1>2, <1>3, <1>4, <1>5, <1>6, <1>7 DEF Next

\* Enqueued counts messages.
LEMMA EnqueuedType == TypeOK /\ InHand => Enqueued \in [Sources -> Nat]
  BY DEF TypeOK, InHand, Enqueued

LEMMA NothingLostStep ==
    TypeOK /\ NotStarted /\ InHand /\ NothingLost /\ [Next]_vars => NothingLost'
  <1> SUFFICES ASSUME TypeOK, NotStarted, InHand, NothingLost, [Next]_vars, ws' = "open"
               PROVE  Ordered(msg', given', Enqueued')
    BY DEF NothingLost
  <1>a. Enqueued \in [Sources -> Nat] /\ Client \in Sources /\ Client \notin Targets
        /\ Targets \subseteq Sources
    BY EnqueuedType, TargetsAssumption DEF Sources
  <1>b. msg \in Seq(Message) /\ given \in [Sources -> Nat] /\ got \in [Sources -> Nat]
        /\ reader \in [Targets -> {"idle", "top", "reading", "send", "dead", "done"}]
    BY DEF TypeOK
  <1>c. ASSUME ws = "open" PROVE Ordered(msg, given, Enqueued)
    BY <1>c DEF NothingLost
  \* A step that neither touches the channel nor what has been enqueued or given.
  <1>d. ASSUME ws = "open", UNCHANGED <<msg, given>>, Enqueued' = Enqueued
        PROVE  Ordered(msg', given', Enqueued')
    BY <1>c, <1>d
  <1>1. ASSUME NEW t \in Targets, Dial(t) \/ DialFails(t)
        PROVE  Ordered(msg', given', Enqueued')
    <2>1. ws = "open" /\ UNCHANGED <<msg, given, got, reader, client>>
      BY <1>1 DEF Dial, DialFails, sockets, channels, history
    <2> QED
      BY <2>1, <1>d DEF Enqueued, Sending
  <1>2. CASE Start
    <2>1. ws = "open" /\ UNCHANGED <<msg, given, got>>
      BY <1>2 DEF Start, sockets, channels, history
    <2>2. \A s \in Sources : ~Sending(s) /\ ~Sending(s)'
      BY <1>2 DEF Start, NotStarted, Sending, Sources
    <2> QED
      BY <2>1, <2>2, <1>d DEF Enqueued
  <1>3. ASSUME NEW t \in Targets, AdapterReader(t)
        PROVE  Ordered(msg', given', Enqueued')
    <2>1. CASE ReaderTop(t) \/ ReadFails(t) \/ ReaderDies(t)
      <3>1. ws = "open" /\ UNCHANGED <<msg, given, got, client>>
        BY <2>1 DEF ReaderTop, ReadFails, ReaderDies, sockets, channels, history
      <3>2. \A s \in Sources : Sending(s)' = Sending(s)
        BY <2>1, <1>b DEF ReaderTop, ReadFails, ReaderDies, ReaderVars, Sending, Sources
      <3> QED
        BY <3>1, <3>2, <1>d DEF Enqueued
    <2>2. CASE ReaderReads(t)
      <3>1. ws = "open" /\ UNCHANGED <<msg, given>>
        BY <2>2 DEF ReaderReads, sockets, channels, history
      <3>2. \A s \in Sources : s # t => Sending(s)' = Sending(s) /\ got'[s] = got[s]
        BY <2>2, <1>b DEF ReaderReads, ReaderVars, ReadsFrom, Sending, Sources
      <3>3. ~Sending(t) /\ Sending(t)' /\ got'[t] = got[t] + 1 /\ got[t] \in Nat
        BY <2>2, <1>a, <1>b DEF ReaderReads, ReaderVars, ReadsFrom, Sending
      <3> QED
        BY <3>1, <3>2, <3>3, <1>d DEF Enqueued
    <2>3. CASE ReaderSends(t)
      <3>1. /\ ws = "open" /\ UNCHANGED <<given, got>>
            /\ msg' = Append(msg, Data(t, got[t]))
        BY <2>3 DEF ReaderSends, sockets, channels, history
      <3>2. \A s \in Sources : s # t => Sending(s)' = Sending(s)
        BY <2>3, <1>b DEF ReaderSends, ReaderVars, Sending, Sources
      <3>3. Sending(t) /\ ~Sending(t)' /\ got[t] \in Nat
        BY <2>3, <1>a, <1>b DEF ReaderSends, ReaderVars, Sending
      <3>4. Enqueued[t] + 1 = got[t]
        BY <3>3, <1>a DEF Enqueued
      <3>5. Enqueued' = [Enqueued EXCEPT ![t] = @ + 1]
        BY <3>1, <3>2, <3>3, <1>a DEF Enqueued
      <3> QED
        BY <3>1, <3>4, <3>5, <1>a, <1>b, <1>c, OrderedAppendData
    <2> QED
      BY <1>3, <2>1, <2>2, <2>3 DEF AdapterReader
  <1>4. CASE ClientReader
    <2>1. CASE ClientTop \/ ClientIgnored \/ ClientReadFails
      <3>1. ws = "open" /\ UNCHANGED <<msg, given, got, reader>>
        BY <2>1 DEF ClientTop, ClientIgnored, ClientReadFails, sockets, channels, history
      <3>2. \A s \in Sources : Sending(s)' = Sending(s)
        BY <2>1, <3>1 DEF ClientTop, ClientIgnored, ClientReadFails, Sending
      <3> QED
        BY <3>1, <3>2, <1>d DEF Enqueued
    <2>2. CASE ClientPings
      <3>1. ws = "open" /\ UNCHANGED <<msg, given, reader>>
        BY <2>2 DEF ClientPings, sockets, channels, history
      <3>2. \A s \in Sources : s # Client => Sending(s)' = Sending(s) /\ got'[s] = got[s]
        BY <2>2, <1>b, <3>1 DEF ClientPings, ReadsFrom, Sending
      <3>3. ~Sending(Client) /\ Sending(Client)' /\ got'[Client] = got[Client] + 1
            /\ got[Client] \in Nat
        BY <2>2, <1>a, <1>b DEF ClientPings, ReadsFrom, Sending
      <3> QED
        BY <3>1, <3>2, <3>3, <1>d DEF Enqueued
    <2>3. CASE ClientPongs
      <3>1. /\ ws = "open" /\ UNCHANGED <<given, got, reader>>
            /\ msg' = Append(msg, Data(Client, got[Client]))
        BY <2>3 DEF ClientPongs, sockets, channels, history
      <3>2. \A s \in Sources : s # Client => Sending(s)' = Sending(s)
        BY <3>1 DEF Sending
      <3>3. Sending(Client) /\ ~Sending(Client)' /\ got[Client] \in Nat
        BY <2>3, <1>a, <1>b DEF ClientPongs, Sending
      <3>4. Enqueued[Client] + 1 = got[Client]
        BY <3>3, <1>a DEF Enqueued
      <3>5. \A s \in Sources :
               Enqueued'[s] = IF s = Client THEN Enqueued[s] + 1 ELSE Enqueued[s]
        BY <3>1, <3>2, <3>3, <3>4 DEF Enqueued
      <3>6. Enqueued' = [Enqueued EXCEPT ![Client] = @ + 1]
        BY <3>5, <1>a DEF Enqueued
      <3> QED
        BY <3>1, <3>4, <3>6, <1>a, <1>b, <1>c, OrderedAppendData
    <2> QED
      BY <1>4, <2>1, <2>2, <2>3 DEF ClientReader, ClientReturns
  <1>5. CASE Writer
    <2>1. UNCHANGED <<got, reader, client>> /\ Enqueued' = Enqueued
      BY <1>5 DEF Writer, WriterStops, WriterShutdown, WriterClientDeath, WriterTick,
           WriterTakesDead, WriterNotifies, WriterWrites, WriterWriteFails, history,
           Enqueued, Sending
    <2>2. CASE WriterStops \/ WriterTick \/ WriterTakesDead
      <3>1. ws = "open" /\ UNCHANGED <<msg, given>>
        BY <2>2 DEF WriterStops, WriterShutdown, WriterClientDeath, WriterTick,
             WriterTakesDead, sockets, channels, history
      <3> QED
        BY <3>1, <2>1, <1>d
    <2>3. CASE WriterNotifies
      <3>1. ws = "open" /\ UNCHANGED given
        BY <2>3 DEF WriterNotifies, sockets, history
      <3>2. PICK t \in Targets : msg' = Append(msg, Notice(t))
        BY <2>3 DEF WriterNotifies, TypeOK
      <3> QED
        BY <3>1, <3>2, <2>1, <1>a, <1>b, <1>c, OrderedAppendNotice
    <2>4. CASE WriterWrites
      <3>1. ws = "open" /\ msg # <<>> /\ Written(msg[1]) /\ msg' = Tail(msg)
        BY <2>4 DEF WriterWrites
      <3>2. Ordered(msg, given, Enqueued)
        BY <3>1, <1>c
      <3>3. CASE msg[1].kind = "data"
        <4>1. Ordered(Tail(msg), [given EXCEPT ![msg[1].from] = msg[1].n], Enqueued)
          BY <3>1, <3>2, <3>3, <1>a, <1>b, OrderedTail
        <4>2. given' = [given EXCEPT ![msg[1].from] = msg[1].n]
          BY <3>1, <3>3 DEF Written
        <4> QED
          BY <4>1, <4>2, <3>1, <2>1
      <3>4. CASE msg[1].kind = "closed"
        BY <3>1, <3>2, <3>4, <2>1, <1>a, <1>b, OrderedTail DEF Written
      <3>5. msg[1] \in Message
        BY <3>1, <1>b
      <3> QED
        BY <3>3, <3>4, <3>5 DEF Message
    <2>5. CASE WriterWriteFails
      BY <2>5 DEF WriterWriteFails
    <2> QED
      BY <1>5, <2>2, <2>3, <2>4, <2>5 DEF Writer
  <1>6. ASSUME NEW t \in Targets, Pinger(t) PROVE Ordered(msg', given', Enqueued')
    <2>1. ws = "open" /\ UNCHANGED <<msg, given, got, reader, client>>
      BY <1>6 DEF Pinger, PingOk, PingFails, PingAnnounces, sockets, channels, history
    <2> QED
      BY <2>1, <1>d DEF Enqueued, Sending
  <1>7. CASE Shutdown \/ UNCHANGED vars
    <2>1. ws = "open" /\ UNCHANGED <<msg, given, got, reader, client>>
      BY <1>7 DEF Shutdown, vars, sockets, channels, history
    <2> QED
      BY <2>1, <1>d DEF Enqueued, Sending
  <1> QED
    BY <1>1, <1>2, <1>3, <1>4, <1>5, <1>6, <1>7 DEF Next

\* A reader that has ended stays ended, a ping that has failed stays failed.
LEMMA DoneStays ==
    TypeOK /\ NotStarted /\ [Next]_vars =>
        /\ \A t \in Targets : reader[t] = "done" => reader'[t] = "done"
        /\ pingFailed \subseteq pingFailed'
  <1> SUFFICES ASSUME TypeOK, NotStarted, [Next]_vars
               PROVE  /\ \A t \in Targets : reader[t] = "done" => reader'[t] = "done"
                      /\ pingFailed \subseteq pingFailed'
    OBVIOUS
  <1> DEFINE Goal == /\ \A t \in Targets : reader[t] = "done" => reader'[t] = "done"
                     /\ pingFailed \subseteq pingFailed'
  <1> USE DEF pingers
  <1>1. ASSUME NEW t \in Targets, Dial(t) \/ DialFails(t) PROVE Goal
    BY <1>1 DEF Dial, DialFails
  <1>2. CASE Start
    BY <1>2 DEF Start, NotStarted
  <1>3. ASSUME NEW t \in Targets, AdapterReader(t) PROVE Goal
    BY <1>3 DEF AdapterReader, ReaderTop, ReaderReads, ReadFails, ReaderSends, ReaderDies,
                ReaderVars, TypeOK
  <1>4. CASE ClientReader
    BY <1>4 DEF ClientReader, ClientTop, ClientReturns, ClientPings, ClientIgnored,
                ClientReadFails, ClientPongs
  <1>5. CASE Writer
    BY <1>5 DEF Writer, WriterStops, WriterShutdown, WriterClientDeath, WriterTick,
                WriterTakesDead, WriterNotifies, WriterWrites, WriterWriteFails
  <1>6. ASSUME NEW t \in Targets, Pinger(t) PROVE Goal
    BY <1>6 DEF Pinger, PingOk, PingFails, PingAnnounces
  <1>7. CASE Shutdown \/ UNCHANGED vars
    BY <1>7 DEF Shutdown, vars
  <1> QED
    BY <1>1, <1>2, <1>3, <1>4, <1>5, <1>6, <1>7 DEF Next

\* What DeathIsFinal says of one host.
Final(t) ==
    /\ Announced(t) => reader[t] = "done"
    /\ \A i \in 1..Len(msg) : msg[i].kind = "data" /\ msg[i].from = t =>
           t \notin told /\ \A j \in 1..(i - 1) : msg[j] # Notice(t)

LEMMA DeathIsFinalStep ==
    TypeOK /\ NotStarted /\ DeathIsFinal /\ [Next]_vars => DeathIsFinal'
  <1> SUFFICES ASSUME TypeOK, NotStarted, DeathIsFinal, [Next]_vars PROVE DeathIsFinal'
    OBVIOUS
  <1>a. /\ msg \in Seq(Message) /\ dead \in Seq(Targets)
        /\ failing \in [Targets -> Nat] /\ pinging \in [Targets -> Nat]
        /\ Len(msg) \in Nat /\ Len(dead) \in Nat
        /\ \A i \in 1..Len(msg) : msg[i] \in Message
    BY DEF TypeOK
  <1>b. \A t \in Targets : failing[t] > 0 => t \in pingFailed
    BY DEF DeathIsFinal
  <1>c. \A t \in Targets \ pingFailed : Final(t)
    BY DEF DeathIsFinal, Final
  <1>d. /\ \A t \in Targets : reader[t] = "done" => reader'[t] = "done"
        /\ pingFailed \subseteq pingFailed'
    BY DoneStays
  <1>1. \A t \in Targets : failing'[t] > 0 => t \in pingFailed'
    <2>1. CASE UNCHANGED <<failing, pingFailed>>
      BY <2>1, <1>b
    <2>2. ASSUME NEW t \in Targets, PingFails(t)
          PROVE  \A u \in Targets : failing'[u] > 0 => u \in pingFailed'
      BY <2>2, <1>a, <1>b DEF PingFails
    <2>3. ASSUME NEW t \in Targets, PingAnnounces(t)
          PROVE  \A u \in Targets : failing'[u] > 0 => u \in pingFailed'
      BY <2>3, <1>a, <1>b DEF PingAnnounces
    <2>4. \/ UNCHANGED <<failing, pingFailed>>
          \/ \E t \in Targets : PingFails(t) \/ PingAnnounces(t)
      BY DEF Next, Dial, DialFails, Start, AdapterReader, ReaderTop, ReaderReads,
             ReadFails, ReaderSends, ReaderDies, ClientReader, ClientReturns, ClientTop,
             ClientPings, ClientIgnored, ClientReadFails, ClientPongs, Writer, WriterStops,
             WriterShutdown, WriterClientDeath, WriterTick, WriterTakesDead,
             WriterNotifies, WriterWrites, WriterWriteFails, Pinger, PingOk, Shutdown,
             vars, pingers
    <2> QED
      BY <2>1, <2>2, <2>3, <2>4
  <1>2. ASSUME NEW t \in Targets, t \notin pingFailed' PROVE Final(t)'
    <2>a. t \notin pingFailed /\ Final(t)
      BY <1>2, <1>c, <1>d
    <2>b. t # Client
      BY TargetsAssumption
    \* A step that leaves the channels and what the browser was told alone.
    <2>c. ASSUME UNCHANGED <<msg, dead, announcing, told>> PROVE Final(t)'
      BY <2>a, <2>c, <1>d DEF Final, Announced
    \* A new message at the end of msg that is not a line of t that t could not send.
    <2>d. ASSUME NEW m \in Message, msg' = Append(msg, m), UNCHANGED <<dead, told>>,
                 announcing' \subseteq announcing, m = Notice(t) => t \in announcing,
                 m.kind = "data" /\ m.from = t => ~Announced(t)
          PROVE  Final(t)'
      <3>1. /\ Len(msg') = Len(msg) + 1 /\ msg'[Len(msg) + 1] = m
            /\ \A i \in 1..Len(msg) : msg'[i] = msg[i]
        BY <2>d, <1>a
      <3>2. \A i \in 1..Len(msg') : i \in 1..Len(msg) \/ i = Len(msg) + 1
        BY <3>1, <1>a
      <3>3. Announced(t)' => Announced(t)
        BY <2>d, <3>1, <3>2 DEF Announced
      <3>4. ASSUME NEW i \in 1..Len(msg'), msg'[i].kind = "data", msg'[i].from = t
            PROVE  t \notin told' /\ \A j \in 1..(i - 1) : msg'[j] # Notice(t)
        <4>1. \A j \in 1..(i - 1) : j \in 1..Len(msg) /\ msg'[j] = msg[j]
          BY <3>1, <1>a
        <4>2. CASE i \in 1..Len(msg)
          BY <4>1, <4>2, <3>1, <3>4, <2>a, <2>d DEF Final
        <4>3. CASE i = Len(msg) + 1
          BY <4>1, <4>3, <3>1, <3>4, <2>d DEF Announced
        <4> QED
          BY <4>2, <4>3, <3>2
      <3> QED
        BY <3>3, <3>4, <2>a, <1>d DEF Final
    \* The oldest message leaves msg; if it is the notice of t, t may have been told.
    <2>e. ASSUME msg # <<>>, msg' = Tail(msg), UNCHANGED <<dead, announcing>>,
                 t \in told' => t \in told \/ msg[1] = Notice(t)
          PROVE  Final(t)'
      <3>1. /\ Len(msg') = Len(msg) - 1 /\ 1 \in 1..Len(msg)
            /\ \A i \in 1..Len(msg') : i + 1 \in 1..Len(msg) /\ msg'[i] = msg[i + 1]
        BY <2>e, <1>a
      <3>2. Announced(t)' => Announced(t)
        BY <2>e, <3>1 DEF Announced
      <3>3. ASSUME NEW i \in 1..Len(msg'), msg'[i].kind = "data", msg'[i].from = t
            PROVE  t \notin told' /\ \A j \in 1..(i - 1) : msg'[j] # Notice(t)
        <4>1. /\ i + 1 \in 1..Len(msg) /\ msg[i + 1].kind = "data" /\ msg[i + 1].from = t
          BY <3>1, <3>3
        <4>2. t \notin told /\ \A j \in 1..((i + 1) - 1) : msg[j] # Notice(t)
          BY <4>1, <2>a DEF Final
        <4>3. 1 \in 1..((i + 1) - 1)
          <5>1. i \in Int /\ i >= 1
            OBVIOUS
          <5> QED
            BY <5>1
        <4>4. ASSUME NEW j \in 1..(i - 1)
              PROVE  j + 1 \in 1..((i + 1) - 1) /\ msg'[j] = msg[j + 1]
          <5>1. j \in 1..Len(msg') /\ j + 1 \in 1..((i + 1) - 1)
            BY <1>a, <3>1
          <5> QED
            BY <5>1, <3>1
        <4> QED
          BY <4>2, <4>3, <4>4, <2>e
      <3> QED
        BY <3>2, <3>3, <2>a, <1>d DEF Final
    \* A host is put into dead: another one, or t whose reader has ended.
    <2>f. ASSUME NEW u \in Targets, dead' = Append(dead, u),
                 UNCHANGED <<msg, announcing, told>>, u = t => reader'[t] = "done"
          PROVE  Final(t)'
      <3>1. \A i \in 1..Len(dead') : dead'[i] = u \/ (i \in 1..Len(dead) /\ dead'[i] = dead[i])
        BY <2>f, <1>a
      <3>2. Announced(t)' => Announced(t) \/ u = t
        BY <2>f, <3>1 DEF Announced
      <3> QED
        BY <3>2, <2>a, <2>f, <1>d DEF Final
    <2> USE DEF channels, history
    <2>1. ASSUME NEW u \in Targets, Dial(u) \/ DialFails(u) PROVE Final(t)'
      BY <2>1, <2>c DEF Dial, DialFails
    <2>2. CASE Start
      BY <2>2, <2>c DEF Start
    <2>3. ASSUME NEW u \in Targets, AdapterReader(u) PROVE Final(t)'
      <3>1. CASE ReaderTop(u) \/ ReaderReads(u) \/ ReadFails(u)
        BY <3>1, <2>c DEF ReaderTop, ReaderReads, ReadFails
      <3>2. CASE ReaderSends(u)
        <4>1. msg' = Append(msg, Data(u, got[u])) /\ UNCHANGED <<dead, told, announcing>>
              /\ reader[u] = "send"
          BY <3>2 DEF ReaderSends, ReaderVars
        <4>2. Data(u, got[u]) \in Message
          BY DEF Data, Message, TypeOK, Sources
        <4>3. Data(u, got[u]) # Notice(t) /\ Data(u, got[u]).from = u
          BY DEF Data, Notice
        <4>4. u = t => ~Announced(t)
          BY <4>1, <2>a DEF Final
        <4> QED
          BY <4>1, <4>2, <4>3, <4>4, <2>d
      <3>3. CASE ReaderDies(u)
        <4>1. dead' = Append(dead, u) /\ UNCHANGED <<msg, announcing, told>>
              /\ reader'[u] = "done"
          BY <3>3 DEF ReaderDies, ReaderVars, TypeOK
        <4> QED
          BY <4>1, <2>f
      <3> QED
        BY <2>3, <3>1, <3>2, <3>3 DEF AdapterReader
    <2>4. CASE ClientReader
      <3>1. CASE ClientTop \/ ClientReturns
        BY <3>1, <2>c DEF ClientTop, ClientReturns, ClientPings, ClientIgnored,
                          ClientReadFails
      <3>2. CASE ClientPongs
        <4>1. msg' = Append(msg, Data(Client, got[Client]))
              /\ UNCHANGED <<dead, told, announcing>>
          BY <3>2 DEF ClientPongs
        <4>2. Data(Client, got[Client]) \in Message
          BY DEF Data, Message, TypeOK, Sources
        <4>3. Data(Client, got[Client]) # Notice(t) /\ Data(Client, got[Client]).from = Client
          BY DEF Data, Notice
        <4> QED
          BY <4>1, <4>2, <4>3, <2>b, <2>d
      <3> QED
        BY <2>4, <3>1, <3>2 DEF ClientReader
    <2>5. CASE Writer
      <3>1. CASE WriterStops \/ WriterTick
        BY <3>1, <2>c DEF WriterStops, WriterShutdown, WriterClientDeath, WriterTick
      <3>2. CASE WriterTakesDead
        <4>1. /\ dead # <<>> /\ dead' = Tail(dead) /\ announcing' = {dead[1]}
              /\ UNCHANGED <<msg, told>>
          BY <3>2 DEF WriterTakesDead
        <4>2. /\ 1 \in 1..Len(dead)
              /\ \A i \in 1..Len(dead') : i + 1 \in 1..Len(dead) /\ dead'[i] = dead[i + 1]
          BY <4>1, <1>a
        <4>3. Announced(t)' => Announced(t)
          BY <4>1, <4>2 DEF Announced
        <4> QED
          BY <4>1, <4>3, <2>a, <1>d DEF Final
      <3>3. CASE WriterNotifies
        <4>1. PICK u \in announcing : msg' = Append(msg, Notice(u))
          BY <3>3 DEF WriterNotifies
        <4>2. Notice(u) \in Message /\ Notice(u).kind # "data" /\ (Notice(u) = Notice(t) => u = t)
          BY <4>1 DEF Notice, Message, TypeOK
        <4>3. UNCHANGED <<dead, told>> /\ announcing' \subseteq announcing
          BY <3>3 DEF WriterNotifies
        <4> QED
          BY <4>1, <4>2, <4>3, <2>d
      <3>4. CASE WriterWrites
        <4>1. msg # <<>> /\ msg' = Tail(msg) /\ Written(msg[1]) /\ UNCHANGED <<dead, announcing>>
          BY <3>4 DEF WriterWrites
        <4>2. msg[1] \in Message
          BY <4>1, <1>a
        <4>3. t \in told' => t \in told \/ msg[1] = Notice(t)
          BY <4>1, <4>2 DEF Written, Message, Notice
        <4> QED
          BY <4>1, <4>3, <2>e
      <3>5. CASE WriterWriteFails
        BY <3>5, <2>e DEF WriterWriteFails
      <3> QED
        BY <2>5, <3>1, <3>2, <3>3, <3>4, <3>5 DEF Writer
    <2>6. ASSUME NEW u \in Targets, Pinger(u) PROVE Final(t)'
      <3>1. CASE PingOk(u) \/ PingFails(u)
        BY <3>1, <2>c DEF PingOk, PingFails
      <3>2. CASE PingAnnounces(u)
        <4>1. u # t
          BY <3>2, <1>b, <2>a DEF PingAnnounces
        <4> QED
          BY <3>2, <4>1, <2>f DEF PingAnnounces
      <3> QED
        BY <2>6, <3>1, <3>2 DEF Pinger
    <2>7. CASE Shutdown \/ UNCHANGED vars
      BY <2>7, <2>c DEF Shutdown, vars
    <2> QED
      BY <2>1, <2>2, <2>3, <2>4, <2>5, <2>6, <2>7 DEF Next
  <1> QED
    BY <1>1, <1>2 DEF DeathIsFinal, Final

\* ClosedForCause is kept: a host leaves the map only when it was taken out of
\* dead, where only an ended reader or a failed ping puts it.
LEMMA ClosedForCauseStep ==
    TypeOK /\ NotStarted /\ DeathIsFinal /\ ClosedForCause /\ [Next]_vars => ClosedForCause'
  <1> SUFFICES ASSUME TypeOK, NotStarted, DeathIsFinal, ClosedForCause, [Next]_vars
               PROVE  ClosedForCause'
    OBVIOUS
  <1>a. /\ \A t \in Targets : reader[t] = "done" => reader'[t] = "done"
        /\ pingFailed \subseteq pingFailed'
    BY DoneStays
  \* A step that drops no host and closes nothing.
  <1>b. ASSUME UNCHANGED <<phase, living, closeSent>>, shutdown => shutdown'
        PROVE  ClosedForCause'
    BY <1>a, <1>b DEF ClosedForCause
  <1>c. ASSUME phase' = phase, phase = "run", living' = living, EndOfLoop(living),
               shutdown' = shutdown
        PROVE  ClosedForCause'
    <2>1. \A t \in Targets : t \notin living => reader[t] = "done" \/ t \in pingFailed
      BY <1>c DEF ClosedForCause
    <2>2. closeSent' => closeSent \/ living = {}
      BY <1>c DEF EndOfLoop
    <2> QED
      BY <1>a, <1>c, <2>1, <2>2 DEF ClosedForCause
  <1> USE DEF signals
  <1>1. ASSUME NEW t \in Targets, Dial(t) \/ DialFails(t) PROVE ClosedForCause'
    BY <1>1, <1>a DEF Dial, DialFails, ClosedForCause
  <1>2. CASE Start
    BY <1>2 DEF Start, NotStarted, ClosedForCause
  <1>3. ASSUME NEW t \in Targets, AdapterReader(t) PROVE ClosedForCause'
    BY <1>3, <1>b DEF AdapterReader, ReaderTop, ReaderReads, ReadFails, ReaderSends, ReaderDies
  <1>4. CASE ClientReader
    BY <1>4, <1>b DEF ClientReader, ClientTop, ClientReturns, ClientPings, ClientIgnored,
                      ClientReadFails, ClientPongs
  <1>5. CASE Writer
    <2>a. phase = "run"
      BY <1>5 DEF NotStarted, Writer, WriterStops, WriterShutdown, WriterClientDeath,
           WriterTick, WriterTakesDead, WriterNotifies, WriterWrites, WriterWriteFails
    <2>1. CASE WriterShutdown
      BY <2>1, <1>a DEF WriterShutdown, ClosedForCause
    <2>2. CASE WriterClientDeath \/ WriterWriteFails
      BY <2>2, <1>b DEF WriterClientDeath, WriterWriteFails
    <2>3. CASE WriterTick
      BY <2>3, <2>a, <1>c DEF WriterTick
    <2>4. CASE WriterTakesDead
      <3>1. /\ dead # <<>> /\ living' = living \ {dead[1]}
            /\ UNCHANGED <<phase, closeSent, shutdown, reader, pingFailed>>
        BY <2>4 DEF WriterTakesDead, pingers
      <3>2. 1 \in 1..Len(dead) /\ dead[1] \in Targets
        BY <3>1 DEF TypeOK
      <3>3. Announced(dead[1])
        BY <3>2 DEF Announced
      <3>4. reader[dead[1]] = "done" \/ dead[1] \in pingFailed
        BY <3>2, <3>3 DEF DeathIsFinal
      <3> QED
        BY <3>1, <3>4 DEF ClosedForCause
    <2>5. CASE WriterNotifies
      BY <2>5, <2>a, <1>c DEF WriterNotifies
    <2>6. CASE WriterWrites
      BY <2>6, <2>a, <1>c DEF WriterWrites
    <2> QED
      BY <1>5, <2>1, <2>2, <2>3, <2>4, <2>5, <2>6 DEF Writer, WriterStops
  <1>6. ASSUME NEW t \in Targets, Pinger(t) PROVE ClosedForCause'
    BY <1>6, <1>b DEF Pinger, PingOk, PingFails, PingAnnounces
  <1>7. CASE Shutdown \/ UNCHANGED vars
    BY <1>7, <1>b DEF Shutdown, vars
  <1> QED
    BY <1>1, <1>2, <1>3, <1>4, <1>5, <1>6, <1>7 DEF Next

-----------------------------------------------------------------------------
\* The invariant behind the merged stream holds in every state of every session.
THEOREM Invariance == Spec => []IInv
  <1>1. Init => NotStarted /\ InHand /\ NothingLost /\ DeathIsFinal /\ ClosedForCause
    <2> SUFFICES ASSUME Init
                 PROVE  NotStarted /\ InHand /\ NothingLost /\ DeathIsFinal /\ ClosedForCause
      OBVIOUS
    <2>1. NotStarted /\ InHand /\ ClosedForCause
      BY DEF Init, NotStarted, InHand, Sending, Sources, ClosedForCause
    <2>2. \A s \in Sources : Enqueued[s] = 0 /\ given[s] = 0
      BY DEF Init, Enqueued, Sending, Sources
    <2>3. NothingLost
      BY <2>2 DEF Init, NothingLost, Ordered
    <2>4. DeathIsFinal
      BY DEF Init, DeathIsFinal, Announced
    <2> QED
      BY <2>1, <2>3, <2>4
  <1>2. TypeOK /\ NotStarted /\ InHand /\ NothingLost /\ DeathIsFinal /\ ClosedForCause
        /\ [Next]_vars
            => (NotStarted /\ InHand /\ NothingLost /\ DeathIsFinal /\ ClosedForCause)'
    BY NotStartedStep, InHandStep, NothingLostStep, DeathIsFinalStep, ClosedForCauseStep
  <1> QED
    BY <1>1, <1>2, Typing, PTL DEF Spec, IInv

\* The writer drops a host, and closes the browser's socket, only for a cause: the
\* reader of the host has ended or a ping to it failed, or the server shuts down.
THEOREM ClosesForCause == Spec => []ClosedForCause
  BY Invariance, PTL DEF IInv

-----------------------------------------------------------------------------
\* When the notice of a host none of whose pings failed is written to the browser,
\* every line of the host has been.
LEMMA NoticeComesLast ==
  ASSUME IInv, ws = "open", msg # <<>>, NEW t \in Targets \ pingFailed, msg[1] = Notice(t)
  PROVE  given[t] = got[t]
  <1>1. /\ msg \in Seq(Message) /\ given \in [Sources -> Nat] /\ got \in [Sources -> Nat]
        /\ Len(msg) \in Nat /\ 1 \in 1..Len(msg) /\ t \in Sources /\ t # Client
    BY TargetsAssumption DEF IInv, TypeOK, Sources
  <1>2. reader[t] = "done"
    BY <1>1 DEF IInv, DeathIsFinal, Announced
  <1>3. Enqueued[t] = got[t]
    BY <1>1, <1>2 DEF Enqueued, Sending
  <1>4. Ordered(msg, given, Enqueued)
    BY DEF IInv, NothingLost
  <1>5. given[t] <= got[t]
    BY <1>1, <1>3, <1>4 DEF Ordered
  <1>6. ASSUME given[t] < got[t] PROVE FALSE
    <2>1. given[t] + 1 \in (given[t] + 1)..got[t]
      BY <1>1, <1>6
    <2>2. PICK i \in 1..Len(msg) : msg[i] = Data(t, given[t] + 1)
      BY <2>1, <1>1, <1>3, <1>4 DEF Ordered
    <2>3. msg[i].kind = "data" /\ msg[i].from = t /\ i # 1
      BY <2>2 DEF Data, Notice
    <2>4. \A j \in 1..(i - 1) : msg[j] # Notice(t)
      BY <2>3 DEF IInv, DeathIsFinal
    <2>5. 1 \in 1..(i - 1)
      BY <1>1, <2>3
    <2> QED
      BY <2>4, <2>5
  <1> QED
    BY <1>1, <1>5, <1>6

\* Every session, for any hosts and any scheduling, is a merged stream: the lines of
\* a host reach the browser once, in order, without a gap, and its notice last.
THEOREM Merges == Spec => MergesInOrder
  <1>1. Init => Stream!FInit
    BY DEF Init, Stream!FInit
  <1>2. IInv /\ [Next]_vars => [Stream!FNext]_(Stream!fvars)
    <2> SUFFICES ASSUME IInv, [Next]_vars PROVE [Stream!FNext]_(Stream!fvars)
      OBVIOUS
    <2>a. /\ TypeOK /\ NotStarted /\ DeathIsFinal
          /\ Targets \subseteq Sources /\ Client \in Sources /\ Client \notin Targets
      BY TargetsAssumption DEF IInv, Sources
    <2>b. ASSUME UNCHANGED <<history, pingFailed>> PROVE [Stream!FNext]_(Stream!fvars)
      BY <2>b DEF history, Stream!fvars
    <2> USE DEF pingers
    <2>1. ASSUME NEW t \in Targets, Dial(t) \/ DialFails(t)
          PROVE  [Stream!FNext]_(Stream!fvars)
      BY <2>1, <2>b DEF Dial, DialFails
    <2>2. CASE Start
      BY <2>2, <2>b DEF Start
    <2>3. ASSUME NEW t \in Targets, AdapterReader(t) PROVE [Stream!FNext]_(Stream!fvars)
      <3>1. CASE ReaderTop(t) \/ ReadFails(t) \/ ReaderSends(t) \/ ReaderDies(t)
        BY <3>1, <2>b DEF ReaderTop, ReadFails, ReaderSends, ReaderDies
      <3>2. CASE ReaderReads(t)
        <4>1. t \notin told \ pingFailed
          BY <3>2, <2>a DEF ReaderReads, ReaderVars, DeathIsFinal, Announced
        <4>2. Stream!Accept(t)
          BY <3>2, <4>1 DEF ReaderReads, ReadsFrom, Stream!Accept
        <4> QED
          BY <4>2, <2>a DEF Stream!FNext
      <3> QED
        BY <2>3, <3>1, <3>2 DEF AdapterReader
    <2>4. CASE ClientReader
      <3>1. CASE ClientTop \/ ClientIgnored \/ ClientReadFails \/ ClientPongs
        BY <3>1, <2>b DEF ClientTop, ClientIgnored, ClientReadFails, ClientPongs
      <3>2. CASE ClientPings
        <4>1. Client \notin told \ pingFailed
          BY <2>a DEF TypeOK
        <4>2. Stream!Accept(Client)
          BY <3>2, <4>1 DEF ClientPings, ReadsFrom, Stream!Accept
        <4> QED
          BY <4>2, <2>a DEF Stream!FNext
      <3> QED
        BY <2>4, <3>1, <3>2 DEF ClientReader, ClientReturns
    <2>5. CASE Writer
      <3>1. CASE WriterStops \/ WriterTick \/ WriterTakesDead \/ WriterNotifies \/ WriterWriteFails
        BY <3>1, <2>b DEF WriterStops, WriterShutdown, WriterClientDeath, WriterTick,
                          WriterTakesDead, WriterNotifies, WriterWriteFails
      <3>2. CASE WriterWrites
        <4>1. /\ msg # <<>> /\ ws = "open" /\ Written(msg[1])
              /\ UNCHANGED <<got, pingFailed>>
          BY <3>2 DEF WriterWrites
        <4>2. /\ msg \in Seq(Message) /\ msg[1] \in Message /\ 1 \in 1..Len(msg)
              /\ given \in [Sources -> Nat] /\ got \in [Sources -> Nat]
          BY <4>1, <2>a DEF TypeOK
        <4>3. CASE msg[1].kind = "data"
          <5> DEFINE s == msg[1].from
          <5>1. Enqueued \in [Sources -> Nat] /\ Ordered(msg, given, Enqueued)
            BY <4>1, EnqueuedType DEF IInv, NothingLost
          <5>2. s \in Sources /\ msg[1].n = given[s] + 1 /\ msg[1].n <= Enqueued[s]
            BY <4>1, <4>2, <4>3, <5>1, OrderedTail
          <5>3. Enqueued[s] <= got[s]
            BY <4>2, <5>2 DEF Enqueued
          <5>4. given[s] < got[s]
            BY <4>2, <5>1, <5>2, <5>3
          <5>5. s \notin told \ pingFailed
            BY <4>2, <4>3, <2>a DEF DeathIsFinal, TypeOK
          <5>6. given' = [given EXCEPT ![s] = @ + 1] /\ told' = told
            BY <4>1, <4>3, <5>2 DEF Written
          <5>7. Stream!Deliver(s)
            BY <4>1, <5>4, <5>5, <5>6 DEF Stream!Deliver
          <5> QED
            BY <5>2, <5>7 DEF Stream!FNext
        <4>4. CASE msg[1].kind = "closed"
          <5>1. msg[1].from \in Targets /\ msg[1] = Notice(msg[1].from)
            BY <4>2, <4>4 DEF Message, Notice
          <5>2. msg[1].from \in pingFailed \/ given[msg[1].from] = got[msg[1].from]
            BY <4>1, <5>1, NoticeComesLast
          <5>3. Stream!Tell(msg[1].from)
            BY <4>1, <4>4, <5>2 DEF Written, Stream!Tell
          <5> QED
            BY <2>a, <5>1, <5>3 DEF Stream!FNext
        <4> QED
          BY <4>2, <4>3, <4>4 DEF Message
      <3> QED
        BY <2>5, <3>1, <3>2 DEF Writer
    <2>6. ASSUME NEW t \in Targets, Pinger(t) PROVE [Stream!FNext]_(Stream!fvars)
      <3>1. CASE PingOk(t) \/ PingAnnounces(t)
        BY <3>1, <2>b DEF PingOk, PingAnnounces
      <3>2. CASE PingFails(t)
        <4>1. Stream!Suspect(t)
          BY <3>2 DEF PingFails, history, Stream!Suspect
        <4> QED
          BY <4>1, <2>a DEF Stream!FNext
      <3> QED
        BY <2>6, <3>1, <3>2 DEF Pinger
    <2>7. CASE Shutdown \/ UNCHANGED vars
      BY <2>7, <2>b DEF Shutdown, vars
    <2> QED
      BY <2>1, <2>2, <2>3, <2>4, <2>5, <2>6, <2>7 DEF Next
  <1> QED
    BY <1>1, <1>2, Invariance, PTL DEF Spec, MergesInOrder, Stream!FSpec

-----------------------------------------------------------------------------
LEMMA DeadOnceStep == TypeOK /\ DeathIsFinal /\ DeadOnce /\ [Next]_vars => DeadOnce'
  <1> SUFFICES ASSUME TypeOK, DeathIsFinal, DeadOnce, [Next]_vars, pingFailed' = {}
               PROVE  DeadOnce'
    BY DEF DeadOnce
  <1> USE DEF sockets, channels, pingers, signals, history
  <1>a. dead \in Seq(Targets)
    BY DEF TypeOK
  <1>b. UNCHANGED <<dead, pingFailed>> => DeadOnce'
    BY DEF DeadOnce
  <1>1. ASSUME NEW t \in Targets, Dial(t) \/ DialFails(t) PROVE DeadOnce'
    BY <1>1, <1>b DEF Dial, DialFails
  <1>2. CASE Start \/ Shutdown \/ ClientReader
    BY <1>2, <1>b DEF Start, Shutdown, ClientReader, ClientReturns, ClientTop, ClientPings,
                      ClientIgnored, ClientReadFails, ClientPongs
  <1>3. ASSUME NEW t \in Targets, AdapterReader(t) PROVE DeadOnce'
    <2>1. CASE ReaderTop(t) \/ ReaderReads(t) \/ ReadFails(t) \/ ReaderSends(t)
      BY <2>1, <1>b DEF ReaderTop, ReaderReads, ReadFails, ReaderSends
    <2>2. CASE ReaderDies(t)
      <3>1. dead' = Append(dead, t) /\ pingFailed = {} /\ reader[t] = "dead"
        BY <2>2 DEF ReaderDies, ReaderVars
      <3>2. \A i \in 1..Len(dead) : dead[i] # t
        BY <3>1 DEF DeathIsFinal, Announced
      <3> QED
        BY <1>a, <3>1, <3>2 DEF DeadOnce
    <2> QED
      BY <1>3, <2>1, <2>2 DEF AdapterReader
  <1>4. CASE Writer
    <2>1. CASE WriterTakesDead
      <3>1. dead # <<>> /\ dead' = Tail(dead) /\ pingFailed = {}
        BY <2>1 DEF WriterTakesDead
      <3> QED
        BY <1>a, <3>1 DEF DeadOnce
    <2>2. CASE WriterStops \/ WriterTick \/ WriterNotifies \/ WriterWrites \/ WriterWriteFails
      BY <2>2, <1>b DEF WriterStops, WriterShutdown, WriterClientDeath, WriterTick,
                        WriterNotifies, WriterWrites, WriterWriteFails
    <2> QED
      BY <1>4, <2>1, <2>2 DEF Writer
  <1>5. ASSUME NEW t \in Targets, Pinger(t) PROVE DeadOnce'
    <2>1. CASE PingOk(t)
      BY <2>1, <1>b DEF PingOk
    <2>2. CASE PingFails(t)
      BY <2>2 DEF PingFails
    <2>3. CASE PingAnnounces(t)
      BY <2>3 DEF PingAnnounces, DeathIsFinal, TypeOK
    <2> QED
      BY <1>5, <2>1, <2>2, <2>3 DEF Pinger
  <1>6. CASE UNCHANGED vars
    BY <1>6, <1>b DEF vars
  <1> QED
    BY <1>1, <1>2, <1>3, <1>4, <1>5, <1>6 DEF Next

\* The hosts in dead are not the one whose reader is about to be, and each is there once:
\* there is room for one more.
LEMMA RoomForTheDead == TypeOK /\ DeathIsFinal /\ DeadOnce => DeadNeverBlocksReaders
  <1> SUFFICES ASSUME TypeOK, DeathIsFinal, DeadOnce, pingFailed = {},
                      NEW t \in Targets, reader[t] = "dead"
               PROVE  ~DeadFull
    BY DEF DeadNeverBlocksReaders
  <1> DEFINE others == Targets \ {t}
             at == 1..Len(dead)
  <1>1. dead \in Seq(Targets) /\ Len(dead) \in Nat
    BY DEF TypeOK
  <1>2. \A i \in at : dead[i] \in others
    BY <1>1 DEF DeathIsFinal, Announced
  <1>3. [i \in at |-> dead[i]] \in Injection(at, others)
    BY <1>2 DEF DeadOnce, Injection, IsInjective
  <1>4. IsFiniteSet(others) /\ Cardinality(others) = Cardinality(Targets) - 1
    BY TargetsAssumption, FS_RemoveElement
  <1>5. Cardinality(at) <= Cardinality(others)
    BY <1>3, <1>4, FS_Injection
  <1>6. Cardinality(at) = Len(dead)
    <2>1. Cardinality(at) = IF 1 > Len(dead) THEN 0 ELSE Len(dead) - 1 + 1
      BY <1>1, 1 \in Int, Len(dead) \in Int, FS_Interval, Zenon
    <2> HIDE DEF at
    <2> QED
      BY <1>1, <2>1
  <1>7. Cardinality(Targets) \in Nat
    BY CapIsPositive DEF MsgCap
  <1>8. Len(dead) <= Cardinality(Targets) - 1
    BY <1>4, <1>5, <1>6
  <1> QED
    BY <1>1, <1>7, <1>8 DEF DeadFull, DeadCap

\* For any hosts: as long as no ping has failed, a reader that has to announce its death
\* finds room in the channel dead, which has one place per host (websocket.go:131).
THEOREM ReadersAnnounce == Spec => []DeadNeverBlocksReaders
  <1>1. Init => DeadOnce
    BY DEF Init, DeadOnce
  <1>2. IInv /\ DeadOnce /\ [Next]_vars => DeadOnce'
    BY DeadOnceStep DEF IInv
  <1>3. IInv /\ DeadOnce => DeadNeverBlocksReaders
    BY RoomForTheDead DEF IInv
  <1> QED
    BY <1>1, <1>2, <1>3, Invariance, PTL DEF Spec

-----------------------------------------------------------------------------
(* What the writer leaves behind.                                          *)

\* A socket is dialled before the goroutines run, and closed when its reader ends.
LEMMA EndedIsClosedStep == TypeOK /\ NotStarted /\ EndedIsClosed /\ [Next]_vars => EndedIsClosed'
  <1> SUFFICES ASSUME TypeOK, NotStarted, EndedIsClosed, [Next]_vars PROVE EndedIsClosed'
    OBVIOUS
  <1> USE DEF TypeOK, EndedIsClosed, sockets, channels, pingers, signals, history
  <1>a. UNCHANGED <<phase, conn, reader, pingFailed>> => EndedIsClosed'
    OBVIOUS
  <1>1. ASSUME NEW t \in Targets, Dial(t) \/ DialFails(t) PROVE EndedIsClosed'
    BY <1>1 DEF Dial, DialFails, NotStarted
  <1>2. CASE Start
    BY <1>2 DEF Start
  <1>3. CASE Shutdown \/ ClientReader
    BY <1>3, <1>a DEF Shutdown, ClientReader, ClientReturns, ClientTop, ClientPings,
                      ClientIgnored, ClientReadFails, ClientPongs
  <1>4. ASSUME NEW t \in Targets, AdapterReader(t) PROVE EndedIsClosed'
    BY <1>4 DEF AdapterReader, ReaderTop, ReaderReads, ReadFails, ReaderSends, ReaderDies,
                ReaderVars
  <1>5. CASE Writer
    <2>1. CASE WriterStops
      BY <2>1 DEF WriterStops, WriterShutdown, WriterClientDeath, CloseReaders
    <2>2. CASE WriterTick \/ WriterTakesDead \/ WriterNotifies \/ WriterWrites \/ WriterWriteFails
      BY <2>2, <1>a DEF WriterTick, WriterTakesDead, WriterNotifies, WriterWrites,
                        WriterWriteFails
    <2> QED
      BY <1>5, <2>1, <2>2 DEF Writer
  <1>6. ASSUME NEW t \in Targets, Pinger(t) PROVE EndedIsClosed'
    <2>1. CASE PingOk(t) \/ PingAnnounces(t)
      BY <2>1, <1>a DEF PingOk, PingAnnounces
    <2>2. CASE PingFails(t)
      BY <2>2 DEF PingFails
    <2> QED
      BY <1>6, <2>1, <2>2 DEF Pinger
  <1>7. CASE UNCHANGED vars
    BY <1>7, <1>a DEF vars
  <1> QED
    BY <1>1, <1>2, <1>3, <1>4, <1>5, <1>6, <1>7 DEF Next

\* At the end of the loop with no host left, every host was dropped: for the end of its
\* reader, which closed the socket, or for a failed ping.
LEMMA DroppedIsClosed ==
  ASSUME NotStarted, ClosedForCause, EndedIsClosed, writer # "idle",
         NEW t \in Targets \ living
  PROVE  conn[t] # "open" /\ (conn[t] = "mute" => t \in pingFailed)
  BY DEF NotStarted, ClosedForCause, EndedIsClosed

LEMMA NobodyLeftOpenStep ==
  TypeOK /\ NotStarted /\ ClosedForCause /\ EndedIsClosed /\ NobodyLeftOpen /\ [Next]_vars
      => NobodyLeftOpen'
  <1> SUFFICES ASSUME TypeOK, NotStarted, ClosedForCause, EndedIsClosed, NobodyLeftOpen,
                      [Next]_vars
               PROVE  NobodyLeftOpen'
    OBVIOUS
  <1> USE DEF NobodyLeftOpen, sockets, channels, pingers, signals, history
  <1>a. UNCHANGED <<conn, writer, living, pingFailed>> => NobodyLeftOpen'
    OBVIOUS
  <1>b. ASSUME EndOfLoop(living), UNCHANGED <<conn, living, pingFailed>>, writer # "idle"
        PROVE  NobodyLeftOpen'
    <2>1. writer' = "done" => living = {}
      BY <1>b DEF EndOfLoop
    <2> QED
      BY <1>b, <2>1, DroppedIsClosed
  <1>1. ASSUME NEW t \in Targets, Dial(t) \/ DialFails(t) PROVE NobodyLeftOpen'
    BY <1>1 DEF Dial, DialFails, NotStarted
  <1>2. CASE Start
    BY <1>2 DEF Start
  <1>3. CASE Shutdown \/ ClientReader
    BY <1>3, <1>a DEF Shutdown, ClientReader, ClientReturns, ClientTop, ClientPings,
                      ClientIgnored, ClientReadFails, ClientPongs
  <1>4. ASSUME NEW t \in Targets, AdapterReader(t) PROVE NobodyLeftOpen'
    <2>1. CASE ReaderReads(t) \/ ReadFails(t) \/ ReaderSends(t)
      BY <2>1, <1>a DEF ReaderReads, ReadFails, ReaderSends
    <2>2. CASE ReaderTop(t) \/ ReaderDies(t)
      BY <2>2 DEF ReaderTop, ReaderDies, TypeOK
    <2> QED
      BY <1>4, <2>1, <2>2 DEF AdapterReader
  <1>5. CASE Writer
    <2>1. CASE WriterStops
      <3>1. /\ writer = "select" /\ CloseReaders
            /\ UNCHANGED <<living, pingFailed>>
        BY <2>1 DEF WriterStops, WriterShutdown, WriterClientDeath
      <3>2. \A t \in living : conn'[t] # "open"
        BY <3>1, TypeOK DEF CloseReaders, TypeOK
      <3>3. \A t \in Targets \ living : conn'[t] = conn[t]
        BY <3>1 DEF CloseReaders
      <3> QED
        BY <3>1, <3>2, <3>3, DroppedIsClosed
    <2>2. CASE WriterTick \/ WriterNotifies \/ WriterWrites
      BY <2>2, <1>b DEF WriterTick, WriterNotifies, WriterWrites
    <2>3. CASE WriterTakesDead
      BY <2>3 DEF WriterTakesDead
    <2>4. CASE WriterWriteFails
      BY <2>4, <1>a DEF WriterWriteFails
    <2> QED
      BY <1>5, <2>1, <2>2, <2>3, <2>4 DEF Writer
  <1>6. ASSUME NEW t \in Targets, Pinger(t) PROVE NobodyLeftOpen'
    <2>1. CASE PingOk(t) \/ PingAnnounces(t)
      BY <2>1, <1>a DEF PingOk, PingAnnounces
    <2>2. CASE PingFails(t)
      BY <2>2 DEF PingFails, TypeOK
    <2> QED
      BY <1>6, <2>1, <2>2 DEF Pinger
  <1>7. CASE UNCHANGED vars
    BY <1>7, <1>a DEF vars
  <1> QED
    BY <1>1, <1>2, <1>3, <1>4, <1>5, <1>6, <1>7 DEF Next

\* For any hosts, however the writer comes to return (websocket.go:203-228, 287) and whichever
\* close frames fail: no adapter is left that could still be told and was not, and those that
\* cannot be told are hosts a ping of which had failed or that were still in the map.
THEOREM LeavesNobodyOpen == Spec => []NobodyLeftOpen
  <1>1. Init => EndedIsClosed /\ NobodyLeftOpen
    BY DEF Init, EndedIsClosed, NobodyLeftOpen
  <1>2. IInv /\ EndedIsClosed /\ NobodyLeftOpen /\ [Next]_vars
            => (EndedIsClosed /\ NobodyLeftOpen)'
    BY EndedIsClosedStep, NobodyLeftOpenStep DEF IInv
  <1> QED
    BY <1>1, <1>2, Invariance, PTL DEF Spec

\* The exceptions that StopHeeded and ReadersSettle make are for ever: once the writer sends
\* to its own full channel (websocket.go:267) or has returned with the channel full, nobody
\* receives any more, and a reader at its send (149) never gets past it.
THEOREM StuckForGood ==
  ASSUME NEW t \in Targets
  PROVE  Spec => /\ [](Abandoned => []Abandoned)
                 /\ [](Abandoned /\ reader[t] = "send" => [](reader[t] = "send"))
  <1>1. IInv /\ Abandoned /\ [Next]_vars =>
            Abandoned' /\ (reader[t] = "send" => (reader[t] = "send")')
    <2> SUFFICES ASSUME TypeOK, NotStarted, Abandoned, [Next]_vars
                 PROVE  /\ UNCHANGED <<writer, msg>>
                        /\ reader[t] = "send" => reader'[t] = "send"
      BY DEF IInv, Abandoned, MsgFull
    <2>1. writer # "select" /\ writer # "idle" /\ ~(Len(msg) < MsgCap)
      BY CapIsPositive DEF Abandoned, MsgFull
    <2> USE DEF TypeOK, sockets, channels, pingers, signals, history
    <2>2. ASSUME NEW s \in Targets, Dial(s) \/ DialFails(s) \/ Pinger(s)
          PROVE  UNCHANGED <<writer, msg, reader>>
      BY <2>2 DEF Dial, DialFails, Pinger, PingOk, PingFails, PingAnnounces
    <2>3. ASSUME NEW s \in Targets, AdapterReader(s)
          PROVE  /\ UNCHANGED <<writer, msg>>
                 /\ reader[t] = "send" => reader'[t] = "send"
      BY <2>3, <2>1 DEF AdapterReader, ReaderTop, ReaderReads, ReadFails, ReaderSends,
                        ReaderDies, ReaderVars
    <2>4. CASE Shutdown \/ ClientReader \/ UNCHANGED vars
      BY <2>4, <2>1 DEF Shutdown, ClientReader, ClientReturns, ClientTop, ClientPings,
                        ClientIgnored, ClientReadFails, ClientPongs, vars
    <2>5. ~Writer
      BY <2>1 DEF Writer, WriterStops, WriterShutdown, WriterClientDeath, WriterTick,
                  WriterTakesDead, WriterNotifies, WriterWrites, WriterWriteFails
    <2>6. ~Start
      BY <2>1 DEF Start, NotStarted
    <2> QED
      BY <2>2, <2>3, <2>4, <2>5, <2>6 DEF Next
  <1> QED
    BY <1>1, Invariance, PTL DEF Spec
=============================================================================
