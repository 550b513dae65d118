------------------------- MODULE HostDirectoryProofs -------------------------
(***************************************************************************)
(* The two maps of the host directory, for any adapters, hosts and peer    *)
(* map requests.                                                           *)
(***************************************************************************)
EXTENDS HostDirectory, TLAPS

\* A step of one goroutine leaves the others where they are.
LEMMA GoesCall ==
  ASSUME TypeOK, NEW r \in Requests, NEW a \in Adapters, NEW from, NEW to \in Calls,
         Goes(r, a, from, to)
  PROVE  /\ call[r][a] = from
         /\ call' \in [Requests -> [Adapters -> Calls]]
         /\ call'[r][a] = to
         /\ \A s \in Requests, b \in Adapters : s # r \/ b # a => call'[s][b] = call[s][b]
  BY DEF TypeOK, Goes

\* Where each call may be.
LEMMA InCalls ==
  /\ Idle \in Calls /\ Calling \in Calls
  /\ \A h \in Hosts : /\ At("answered", h) \in Calls /\ At("stored", h) \in Calls
                      /\ At("found", h) \in Calls /\ At("deleted", h) \in Calls
  BY DEF Calls, Idle, Calling, At

\* The excuse of LookupsAgree outlives a step that keeps the goroutines between the two
\* deletes where they are.
LEMMA LookupsStay ==
  ASSUME LookupsAgree, UNCHANGED <<adapters, hosts, raced>>,
         \A s \in Requests, b \in Adapters :
            call[s][b].at = "deleted" => call'[s][b] = call[s][b]
  PROVE  LookupsAgree'
  <1> SUFFICES ASSUME NEW h \in Hosts, hosts[h] \in Adapters \ raced, adapters[hosts[h]] # h
               PROVE  \E s \in Requests : call'[s][hosts[h]] = At("deleted", h)
    BY DEF LookupsAgree
  <1>1. PICK s \in Requests : call[s][hosts[h]] = At("deleted", h)
    BY DEF LookupsAgree
  <1>2. call'[s][hosts[h]] = call[s][hosts[h]]
    BY <1>1 DEF At
  <1> QED
    BY <1>1, <1>2

LEMMA IInvInit == Init => IInv
  <1> SUFFICES ASSUME Init PROVE IInv
    OBVIOUS
  <1>1. TypeOK
    <2>1. moves \in 0..MaxMoves
      BY BoundsAssumption DEF Init
    <2>2. call \in [Requests -> [Adapters -> Calls]]
      BY InCalls DEF Init
    <2>3. been \in [Adapters -> SUBSET Hosts]
      BY DEF Init
    <2>4. adapters \in [Adapters -> Hosts \union {NoHost}]
          /\ hosts \in [Hosts -> Adapters \union {NoAdapter}]
      BY DEF Init
    <2> QED
      BY <2>1, <2>2, <2>3, <2>4 DEF Init, TypeOK
  <1>2. EntriesWereTrue /\ LookupsAgree
    BY NoneAssumption DEF Init, EntriesWereTrue, LookupsAgree
  <1>3. HandsWereTrue /\ HandsAgree
    BY DEF Init, HandsWereTrue, HandsAgree, Storing, Deleting, Idle
  <1> QED
    BY <1>1, <1>2, <1>3 DEF IInv

\* The adapters move and settle: the maps and the goroutines stay.
LEMMA EnvironmentStep ==
  ASSUME IInv, \/ \E a \in Adapters : Moves(a)
               \/ Settle
  PROVE  IInv'
  <1>1. ASSUME NEW a \in Adapters, Moves(a) PROVE IInv'
    <2> PICK h \in Hosts \ {host[a]} : /\ host' = [host EXCEPT ![a] = h]
                                       /\ been' = [been EXCEPT ![a] = @ \union {h}]
      BY <1>1 DEF Moves
    <2>1. /\ moves' \in 0..MaxMoves
          /\ UNCHANGED <<settled, devices, up, adapters, hosts, call, raced>>
      BY <1>1, BoundsAssumption DEF Moves, IInv, TypeOK
    <2>2. TypeOK'
      BY <2>1 DEF IInv, TypeOK
    <2>3. \A b \in Adapters : been[b] \subseteq been'[b] /\ host'[b] \in been'[b]
      BY DEF IInv, TypeOK, HandsWereTrue
    <2>4. EntriesWereTrue'
      BY <2>1, <2>3 DEF IInv, TypeOK, EntriesWereTrue
    <2>5. HandsWereTrue'
      BY <2>1, <2>3 DEF IInv, TypeOK, HandsWereTrue
    <2>6. HandsAgree' /\ LookupsAgree'
      BY <2>1 DEF IInv, HandsAgree, LookupsAgree, Storing, Deleting
    <2> QED
      BY <2>2, <2>4, <2>5, <2>6 DEF IInv
  <1>2. CASE Settle
    BY <1>2 DEF Settle, IInv, TypeOK, EntriesWereTrue, HandsWereTrue, HandsAgree, LookupsAgree,
                Storing, Deleting
  <1> QED
    BY <1>1, <1>2

\* A peer map starts its goroutines from Idle, so none with anything in hand is lost.
LEMMA PeerMapStep ==
  ASSUME IInv, NEW r \in Requests, PeerMap(r)
  PROVE  IInv'
  <1>1. PICK list \in SUBSET Adapters :
          call' = [call EXCEPT ![r] = [a \in Adapters |-> IF a \in list THEN Calling ELSE Idle]]
    BY DEF PeerMap
  <1>2. UNCHANGED <<host, been, settled, devices, up, moves, adapters, hosts, raced>>
    BY DEF PeerMap, environment
  <1>3. call' \in [Requests -> [Adapters -> Calls]]
    BY <1>1, InCalls DEF IInv, TypeOK
  <1>4. \A s \in Requests, a \in Adapters :
          \/ call'[s][a] = call[s][a]
          \/ call'[s][a] \in {Calling, Idle} /\ call[s][a] = Idle
    BY <1>1 DEF PeerMap, IInv, TypeOK
  <1>5. \A s \in Requests, a \in Adapters :
          call[s][a].at \in {"answered", "stored", "found", "deleted"} \/
          call'[s][a].at \in {"answered", "stored", "found", "deleted"}
            => call'[s][a] = call[s][a]
    BY <1>4 DEF Calling, Idle
  <1>6. TypeOK'
    BY <1>2, <1>3 DEF IInv, TypeOK
  <1>7. EntriesWereTrue' /\ HandsWereTrue'
    BY <1>2, <1>5 DEF IInv, EntriesWereTrue, HandsWereTrue
  <1>8. HandsAgree'
    BY <1>2, <1>5 DEF IInv, HandsAgree, Storing, Deleting
  <1>9. LookupsAgree'
    BY <1>2, <1>5, LookupsStay DEF IInv
  <1> QED
    BY <1>6, <1>7, <1>8, <1>9 DEF IInv

\* A call that is answered or fails to be: nothing is in either kind of hand yet.
LEMMA CallStep ==
  ASSUME IInv, NEW r \in Requests, NEW a \in Adapters, Answers(r, a) \/ Garbles(r, a)
  PROVE  IInv'
  <1>1. PICK to \in {Idle, At("answered", host[a])} : Goes(r, a, Calling, to)
    BY DEF Answers, Garbles
  <1>2. UNCHANGED <<host, been, settled, devices, up, moves, adapters, hosts, raced>>
    BY DEF Answers, Garbles, environment
  <1>3. host[a] \in Hosts /\ to \in Calls
    BY InCalls DEF IInv, TypeOK
  <1>4. /\ call[r][a] = Calling /\ call'[r][a] = to
        /\ call' \in [Requests -> [Adapters -> Calls]]
        /\ \A s \in Requests, b \in Adapters : s # r \/ b # a => call'[s][b] = call[s][b]
    BY <1>1, <1>3, GoesCall DEF IInv
  <1>5. \A s \in Requests, b \in Adapters :
          call[s][b].at \in {"stored", "found", "deleted"} \/
          call'[s][b].at \in {"stored", "found", "deleted"} => call'[s][b] = call[s][b]
    BY <1>4 DEF Calling, Idle, At
  <1>6. TypeOK' /\ EntriesWereTrue'
    BY <1>2, <1>4 DEF IInv, TypeOK, EntriesWereTrue
  <1>7. HandsWereTrue'
    BY <1>2, <1>4 DEF IInv, HandsWereTrue, Idle, At
  <1>8. HandsAgree'
    BY <1>2, <1>5 DEF IInv, HandsAgree, Storing, Deleting
  <1>9. LookupsAgree'
    BY <1>2, <1>5, LookupsStay DEF IInv
  <1> QED
    BY <1>6, <1>7, <1>8, <1>9 DEF IInv

\* SetKnownHost, first half.
LEMMA StoreAdapterStep ==
  ASSUME IInv, NEW r \in Requests, NEW a \in Adapters, StoreAdapter(r, a)
  PROVE  IInv'
  <1>1. PICK h \in Hosts : /\ Goes(r, a, At("answered", h), At("stored", h))
                           /\ adapters' = [adapters EXCEPT ![a] = h]
                           /\ raced' = IF Deleting(a) \/ adapters[a] \notin {h, NoHost}
                                       THEN raced \union {a} ELSE raced
    BY DEF StoreAdapter
  <1>2. UNCHANGED <<host, been, settled, devices, up, moves, hosts>>
    BY DEF StoreAdapter, environment
  <1>3. /\ call[r][a] = At("answered", h) /\ call'[r][a] = At("stored", h)
        /\ call' \in [Requests -> [Adapters -> Calls]]
        /\ \A s \in Requests, b \in Adapters : s # r \/ b # a => call'[s][b] = call[s][b]
    BY <1>1, InCalls, GoesCall DEF IInv
  <1>4. adapters'[a] = h /\ \A b \in Adapters : b # a => adapters'[b] = adapters[b]
    BY <1>1 DEF IInv, TypeOK
  <1>5. h \in been[a]
    BY <1>3 DEF IInv, HandsWereTrue, At
  <1>6. TypeOK'
    BY <1>1, <1>2, <1>3 DEF IInv, TypeOK
  <1>7. EntriesWereTrue'
    BY <1>2, <1>4, <1>5 DEF IInv, EntriesWereTrue
  <1>8. HandsWereTrue'
    BY <1>2, <1>3, <1>5 DEF IInv, HandsWereTrue, At
  <1>9. a \notin raced' => ~Deleting(a) /\ adapters[a] \in {h, NoHost} /\ a \notin raced
    BY <1>1
  <1>10. raced \subseteq raced'
    BY <1>1
  <1>11. HandsAgree'
    <2> SUFFICES ASSUME NEW b \in Adapters \ raced'
                 PROVE  /\ ~(Storing(b)' /\ Deleting(b)')
                        /\ \A s \in Requests :
                             /\ call'[s][b].at = "stored" => adapters'[b] = call'[s][b].host
                             /\ call'[s][b].at = "found" =>
                                    adapters'[b] \in {call'[s][b].host, NoHost}
      BY DEF HandsAgree
    <2>1. CASE b # a
      BY <2>1, <1>3, <1>4, <1>10 DEF IInv, HandsAgree, Storing, Deleting
    <2>2. CASE b = a
      <3>1. \A s \in Requests : call[s][a].at \notin {"found", "deleted"}
        BY <2>2, <1>9 DEF Deleting
      <3>2. \A s \in Requests : call'[s][a].at \notin {"found", "deleted"}
        BY <3>1, <1>3 DEF At
      <3>3. \A s \in Requests : call'[s][a].at = "stored" => call'[s][a].host = h
        <4> SUFFICES ASSUME NEW s \in Requests, call'[s][a].at = "stored"
                     PROVE  call'[s][a].host = h
          OBVIOUS
        <4>1. CASE s = r
          BY <4>1, <1>3 DEF At
        <4>2. CASE s # r
          <5>1. call[s][a].at = "stored" /\ call'[s][a] = call[s][a]
            BY <4>2, <1>3
          <5>2. adapters[a] = call[s][a].host /\ adapters[a] \in {h, NoHost}
            BY <5>1, <2>2, <1>9 DEF IInv, HandsAgree
          <5>3. call[s][a].host # NoHost
            BY <5>1, NoneAssumption DEF IInv, TypeOK, Calls, Idle, Calling
          <5> QED
            BY <5>1, <5>2, <5>3
        <4> QED
          BY <4>1, <4>2
      <3> QED
        BY <2>2, <3>2, <3>3, <1>4 DEF Deleting
    <2> QED
      BY <2>1, <2>2
  <1>12. LookupsAgree'
    <2> SUFFICES ASSUME NEW k \in Hosts, hosts[k] \in Adapters \ raced'
                 PROVE  \/ adapters'[hosts[k]] = k
                        \/ \E s \in Requests : call'[s][hosts[k]] = At("deleted", k)
      BY <1>2 DEF LookupsAgree
    <2>1. \/ adapters[hosts[k]] = k
          \/ \E s \in Requests : call[s][hosts[k]] = At("deleted", k)
      BY <1>10 DEF IInv, LookupsAgree
    <2>2. CASE hosts[k] # a
      BY <2>1, <2>2, <1>3, <1>4
    <2>3. CASE hosts[k] = a
      <3>1. adapters[a] = k
        BY <2>1, <2>3, <1>9 DEF Deleting, At
      <3> QED
        BY <3>1, <2>3, <1>4, <1>9, NoneAssumption
    <2> QED
      BY <2>2, <2>3
  <1> QED
    BY <1>6, <1>7, <1>8, <1>11, <1>12 DEF IInv

\* SetKnownHost, second half: the entry just written names an adapter whose own entry
\* still names the host, unless it raced.
LEMMA StoreHostStep ==
  ASSUME IInv, NEW r \in Requests, NEW a \in Adapters, StoreHost(r, a)
  PROVE  IInv'
  <1>1. PICK h \in Hosts : /\ Goes(r, a, At("stored", h), Idle)
                           /\ hosts' = [hosts EXCEPT ![h] = a]
    BY DEF StoreHost
  <1>2. UNCHANGED <<host, been, settled, devices, up, moves, adapters, raced>>
    BY DEF StoreHost, environment
  <1>3. /\ call[r][a] = At("stored", h) /\ call'[r][a] = Idle
        /\ call' \in [Requests -> [Adapters -> Calls]]
        /\ \A s \in Requests, b \in Adapters : s # r \/ b # a => call'[s][b] = call[s][b]
    BY <1>1, InCalls, GoesCall DEF IInv
  <1>4. hosts'[h] = a /\ \A k \in Hosts : k # h => hosts'[k] = hosts[k]
    BY <1>1 DEF IInv, TypeOK
  <1>5. \A s \in Requests, b \in Adapters :
          call'[s][b].at \in {"answered", "stored", "found", "deleted"} =>
              call'[s][b] = call[s][b]
    BY <1>3 DEF Idle
  <1>6. h \in been[a] /\ (a \notin raced => adapters[a] = h)
    BY <1>3 DEF IInv, HandsWereTrue, HandsAgree, At
  <1>7. TypeOK'
    BY <1>1, <1>2, <1>3 DEF IInv, TypeOK
  <1>8. EntriesWereTrue'
    BY <1>2, <1>4, <1>6 DEF IInv, EntriesWereTrue
  <1>9. HandsWereTrue'
    BY <1>2, <1>5 DEF IInv, HandsWereTrue
  <1>10. HandsAgree'
    BY <1>2, <1>5 DEF IInv, HandsAgree, Storing, Deleting
  <1>11. LookupsAgree'
    <2> SUFFICES ASSUME NEW k \in Hosts, hosts'[k] \in Adapters \ raced
                 PROVE  \/ adapters[hosts'[k]] = k
                        \/ \E s \in Requests : call'[s][hosts'[k]] = At("deleted", k)
      BY <1>2 DEF LookupsAgree
    <2>1. CASE k = h
      BY <2>1, <1>4, <1>6
    <2>2. CASE k # h
      <3>1. CASE adapters[hosts[k]] = k
        BY <3>1, <2>2, <1>4
      <3>2. ASSUME NEW s \in Requests, call[s][hosts[k]] = At("deleted", k)
            PROVE  call'[s][hosts[k]] = At("deleted", k)
        BY <3>2, <2>2, <1>3, <1>4 DEF At
      <3> QED
        BY <3>1, <3>2, <2>2, <1>4 DEF IInv, LookupsAgree
    <2> QED
      BY <2>1, <2>2
  <1> QED
    BY <1>7, <1>8, <1>9, <1>10, <1>11 DEF IInv

\* DeleteAdapter, the lookup.
LEMMA FindHostStep ==
  ASSUME IInv, NEW r \in Requests, NEW a \in Adapters, FindHost(r, a)
  PROVE  IInv'
  <1>1. /\ adapters[a] = NoHost => Goes(r, a, Calling, Idle)
        /\ adapters[a] # NoHost => Goes(r, a, Calling, At("found", adapters[a]))
        /\ raced' = IF adapters[a] # NoHost /\ Storing(a) THEN raced \union {a} ELSE raced
    BY DEF FindHost
  <1>2. UNCHANGED <<host, been, settled, devices, up, moves, adapters, hosts>>
    BY DEF FindHost, environment
  <1>3. adapters[a] # NoHost => adapters[a] \in Hosts
    BY DEF IInv, TypeOK
  <1>4. /\ call[r][a] = Calling
        /\ call'[r][a] = IF adapters[a] = NoHost THEN Idle ELSE At("found", adapters[a])
        /\ call' \in [Requests -> [Adapters -> Calls]]
        /\ \A s \in Requests, b \in Adapters : s # r \/ b # a => call'[s][b] = call[s][b]
    <2>1. CASE adapters[a] = NoHost
      BY <2>1, <1>1, InCalls, GoesCall DEF IInv
    <2>2. CASE adapters[a] # NoHost
      BY <2>2, <1>1, <1>3, InCalls, GoesCall DEF IInv
    <2> QED
      BY <2>1, <2>2
  <1>5. \A s \in Requests, b \in Adapters :
          /\ call[s][b].at \in {"stored", "deleted"} => call'[s][b] = call[s][b]
          /\ call'[s][b].at \in {"answered", "stored", "deleted"} => call'[s][b] = call[s][b]
          /\ b # a => call'[s][b] = call[s][b]
    BY <1>4 DEF Calling, Idle, At
  <1>6. raced \subseteq raced' /\ raced' \subseteq Adapters
    BY <1>1 DEF IInv, TypeOK
  <1>7. TypeOK' /\ EntriesWereTrue'
    BY <1>2, <1>4, <1>6 DEF IInv, TypeOK, EntriesWereTrue
  <1>8. HandsWereTrue'
    BY <1>2, <1>5 DEF IInv, HandsWereTrue
  <1>9. HandsAgree'
    <2> SUFFICES ASSUME NEW b \in Adapters \ raced'
                 PROVE  /\ ~(Storing(b)' /\ Deleting(b)')
                        /\ \A s \in Requests :
                             /\ call'[s][b].at = "stored" => adapters[b] = call'[s][b].host
                             /\ call'[s][b].at = "found" =>
                                    adapters[b] \in {call'[s][b].host, NoHost}
      BY <1>2 DEF HandsAgree
    <2>1. CASE b # a
      BY <2>1, <1>5, <1>6 DEF IInv, HandsAgree, Storing, Deleting
    <2>2. CASE b = a /\ adapters[a] = NoHost
      BY <2>2, <1>4, <1>5, <1>6 DEF IInv, HandsAgree, Storing, Deleting, Idle
    <2>3. CASE b = a /\ adapters[a] # NoHost
      <3>1. ~Storing(a)
        BY <2>3, <1>1
      <3>2. ~Storing(a)'
        BY <3>1, <1>5 DEF Storing
      <3>3. \A s \in Requests : call'[s][a].at = "found" =>
                                  adapters[a] \in {call'[s][a].host, NoHost}
        BY <2>3, <1>4, <1>6 DEF IInv, HandsAgree, At
      <3> QED
        BY <2>3, <3>2, <3>3 DEF Storing
    <2> QED
      BY <2>1, <2>2, <2>3
  <1>10. LookupsAgree'
    <2> SUFFICES ASSUME NEW h \in Hosts, hosts[h] \in Adapters \ raced'
                 PROVE  \/ adapters[hosts[h]] = h
                        \/ \E s \in Requests : call'[s][hosts[h]] = At("deleted", h)
      BY <1>2 DEF LookupsAgree
    <2>1. \A s \in Requests : call[s][hosts[h]] = At("deleted", h) =>
                                 call'[s][hosts[h]] = At("deleted", h)
      BY <1>5 DEF At
    <2> QED
      BY <2>1, <1>6 DEF IInv, LookupsAgree
  <1> QED
    BY <1>7, <1>8, <1>9, <1>10 DEF IInv

\* DeleteAdapter, its first delete: the adapter's entry goes, and the host's follows.
LEMMA DeleteEntryStep ==
  ASSUME IInv, NEW r \in Requests, NEW a \in Adapters, DeleteEntry(r, a)
  PROVE  IInv'
  <1>1. PICK h \in Hosts : /\ Goes(r, a, At("found", h), At("deleted", h))
                           /\ adapters' = [adapters EXCEPT ![a] = NoHost]
    BY DEF DeleteEntry
  <1>2. UNCHANGED <<host, been, settled, devices, up, moves, hosts, raced>>
    BY DEF DeleteEntry, environment
  <1>3. /\ call[r][a] = At("found", h) /\ call'[r][a] = At("deleted", h)
        /\ call' \in [Requests -> [Adapters -> Calls]]
        /\ \A s \in Requests, b \in Adapters : s # r \/ b # a => call'[s][b] = call[s][b]
    BY <1>1, InCalls, GoesCall DEF IInv
  <1>4. adapters'[a] = NoHost /\ \A b \in Adapters : b # a => adapters'[b] = adapters[b]
    BY <1>1 DEF IInv, TypeOK
  <1>5. \A s \in Requests, b \in Adapters :
          /\ call'[s][b].at \in {"answered", "stored", "found"} => call'[s][b] = call[s][b]
          /\ call'[s][b].at \in {"found", "deleted"} => call[s][b].at \in {"found", "deleted"}
          /\ call[s][b].at = "deleted" => call'[s][b] = call[s][b]
    BY <1>3 DEF At
  <1>6. TypeOK'
    BY <1>1, <1>2, <1>3 DEF IInv, TypeOK
  <1>7. EntriesWereTrue' /\ HandsWereTrue'
    BY <1>2, <1>4, <1>5 DEF IInv, EntriesWereTrue, HandsWereTrue
  <1>8. HandsAgree'
    <2> SUFFICES ASSUME NEW b \in Adapters \ raced
                 PROVE  /\ ~(Storing(b)' /\ Deleting(b)')
                        /\ \A s \in Requests :
                             /\ call'[s][b].at = "stored" => adapters'[b] = call'[s][b].host
                             /\ call'[s][b].at = "found" =>
                                    adapters'[b] \in {call'[s][b].host, NoHost}
      BY <1>2 DEF HandsAgree
    <2>1. ~(Storing(b)' /\ Deleting(b)')
      BY <1>5 DEF IInv, HandsAgree, Storing, Deleting
    <2>2. CASE b # a
      BY <2>1, <2>2, <1>4, <1>5 DEF IInv, HandsAgree
    <2>3. CASE b = a
      <3>1. Deleting(a)'
        BY <1>3 DEF Deleting, At
      <3>2. \A s \in Requests : call'[s][a].at # "stored"
        BY <3>1, <2>1, <2>3 DEF Storing
      <3> QED
        BY <2>1, <2>3, <3>2, <1>4
    <2> QED
      BY <2>2, <2>3
  <1>9. LookupsAgree'
    <2> SUFFICES ASSUME NEW k \in Hosts, hosts[k] \in Adapters \ raced
                 PROVE  \/ adapters'[hosts[k]] = k
                        \/ \E s \in Requests : call'[s][hosts[k]] = At("deleted", k)
      BY <1>2 DEF LookupsAgree
    <2>1. ASSUME NEW s \in Requests, call[s][hosts[k]] = At("deleted", k)
          PROVE  call'[s][hosts[k]] = At("deleted", k)
      BY <2>1, <1>5 DEF At
    <2>2. CASE adapters[hosts[k]] = k /\ hosts[k] # a
      BY <2>2, <1>4
    <2>3. CASE adapters[hosts[k]] = k /\ hosts[k] = a
      <3>1. adapters[a] \in {h, NoHost}
        BY <2>3, <1>3 DEF IInv, HandsAgree, At
      <3>2. k = h
        BY <3>1, <2>3, NoneAssumption
      <3> QED
        BY <3>2, <2>3, <1>3
    <2> QED
      BY <2>1, <2>2, <2>3 DEF IInv, LookupsAgree
  <1> QED
    BY <1>6, <1>7, <1>8, <1>9 DEF IInv

\* DeleteAdapter, its second delete.
LEMMA DeleteHostStep ==
  ASSUME IInv, NEW r \in Requests, NEW a \in Adapters, DeleteHost(r, a)
  PROVE  IInv'
  <1>1. PICK h \in Hosts : /\ Goes(r, a, At("deleted", h), Idle)
                           /\ hosts' = [hosts EXCEPT ![h] = NoAdapter]
    BY DEF DeleteHost
  <1>2. UNCHANGED <<host, been, settled, devices, up, moves, adapters, raced>>
    BY DEF DeleteHost, environment
  <1>3. /\ call[r][a] = At("deleted", h) /\ call'[r][a] = Idle
        /\ call' \in [Requests -> [Adapters -> Calls]]
        /\ \A s \in Requests, b \in Adapters : s # r \/ b # a => call'[s][b] = call[s][b]
    BY <1>1, InCalls, GoesCall DEF IInv
  <1>4. hosts'[h] = NoAdapter /\ \A k \in Hosts : k # h => hosts'[k] = hosts[k]
    BY <1>1 DEF IInv, TypeOK
  <1>5. \A s \in Requests, b \in Adapters :
          call'[s][b].at \in {"answered", "stored", "found", "deleted"} =>
              call'[s][b] = call[s][b]
    BY <1>3 DEF Idle
  <1>6. TypeOK'
    BY <1>1, <1>2, <1>3 DEF IInv, TypeOK
  <1>7. EntriesWereTrue' /\ HandsWereTrue'
    BY <1>2, <1>4, <1>5 DEF IInv, EntriesWereTrue, HandsWereTrue
  <1>8. HandsAgree'
    BY <1>2, <1>5 DEF IInv, HandsAgree, Storing, Deleting
  <1>9. LookupsAgree'
    <2> SUFFICES ASSUME NEW k \in Hosts, hosts'[k] \in Adapters \ raced
                 PROVE  \/ adapters[hosts'[k]] = k
                        \/ \E s \in Requests : call'[s][hosts'[k]] = At("deleted", k)
      BY <1>2 DEF LookupsAgree
    <2>1. k # h /\ hosts'[k] = hosts[k]
      BY <1>4, NoneAssumption
    <2>2. ASSUME NEW s \in Requests, call[s][hosts[k]] = At("deleted", k)
          PROVE  call'[s][hosts[k]] = At("deleted", k)
      BY <2>1, <2>2, <1>3 DEF At
    <2> QED
      BY <2>1, <2>2 DEF IInv, LookupsAgree
  <1> QED
    BY <1>6, <1>7, <1>8, <1>9 DEF IInv

LEMMA IInvStep == IInv /\ [Next]_vars => IInv'
  <1> SUFFICES ASSUME IInv, [Next]_vars PROVE IInv'
    OBVIOUS
  <1>1. CASE UNCHANGED vars
    BY <1>1 DEF vars, environment, IInv, TypeOK, EntriesWereTrue, HandsWereTrue, HandsAgree,
                LookupsAgree, Storing, Deleting
  <1>2. ASSUME NEW r \in Requests, NEW a \in Adapters, Goroutine(r, a) PROVE IInv'
    BY <1>2, CallStep, StoreAdapterStep, StoreHostStep, FindHostStep, DeleteEntryStep,
       DeleteHostStep DEF Goroutine
  <1> QED
    BY <1>1, <1>2, EnvironmentStep, PeerMapStep DEF Next

LEMMA IInvHolds == Spec => []IInv
  BY IInvInit, IInvStep, PTL DEF Spec

\* Whatever store or delete of client.go comes between two others, the sync.Maps hold names
\* of the right kind, and GetHost and GetAdapter only ever return pairs that were true at
\* some time.
THEOREM EntriesTrue == Spec => []DirectoryInv
  BY IInvHolds, PTL DEF IInv, DirectoryInv

\* The two maps agree on every adapter that was never stored and deleted at once.
THEOREM Agreement == Spec => []LookupsAgree
  BY IInvHolds, PTL DEF IInv

\* With no goroutine of peermap.go under way, the two-way mapping that client.go promises
\* is there for every adapter that did not race: its host's entry is that of its own.
THEOREM TwoWayUnlessRaced ==
  Spec => [](Running = {} =>
                \A h \in Hosts : hosts[h] \in Adapters \ raced => adapters[hosts[h]] = h)
  <1>1. ASSUME IInv, Running = {}, NEW h \in Hosts, hosts[h] \in Adapters \ raced
        PROVE  adapters[hosts[h]] = h
    <2>1. ASSUME NEW r \in Requests PROVE call[r][hosts[h]] = Idle
      <3> DEFINE c == <<r, hosts[h]>>
      <3>1. c \in Requests \X Adapters /\ c \notin Running
        BY <1>1
      <3> QED
        BY <3>1 DEF Running
    <2>2. \A r \in Requests : call[r][hosts[h]] # At("deleted", h)
      BY <2>1 DEF Idle, At
    <2> QED
      BY <1>1, <2>2 DEF IInv, LookupsAgree
  <1>2. IInv => (Running = {} =>
                   \A h \in Hosts : hosts[h] \in Adapters \ raced => adapters[hosts[h]] = h)
    BY <1>1
  <1> QED
    BY <1>2, IInvHolds, PTL

-----------------------------------------------------------------------------
(* What later peer maps repair stays repaired                              *)

LEMMA HandFields ==
  /\ Idle.at = "idle" /\ Calling.at = "calling"
  /\ \A p, h : At(p, h).at = p /\ At(p, h).host = h
  BY DEF Idle, Calling, At

\* What a goroutine may have in hand before and after a step of its own.
LEMMA HandMoves ==
  ASSUME IInv, NEW r \in Requests, NEW a \in Adapters, Goroutine(r, a)
  PROVE  /\ UNCHANGED <<host, been, settled, devices, up, moves>>
         /\ \A s \in Requests, b \in Adapters : s # r \/ b # a => call'[s][b] = call[s][b]
         /\ \/ call'[r][a] = Idle
            \/ /\ call[r][a] = Calling /\ a \in up
               /\ call'[r][a] = At("answered", host[a])
            \/ /\ call[r][a] = Calling /\ (a \notin up \/ ~settled)
               /\ adapters[a] # NoHost /\ call'[r][a] = At("found", adapters[a])
            \/ \E h \in Hosts : call[r][a] = At("answered", h) /\ call'[r][a] = At("stored", h)
            \/ \E h \in Hosts : call[r][a] = At("found", h) /\ call'[r][a] = At("deleted", h)
  <1>0. TypeOK
    BY DEF IInv
  <1>1. UNCHANGED <<host, been, settled, devices, up, moves>>
    BY DEF Goroutine, Answers, Garbles, StoreAdapter, StoreHost, FindHost, DeleteEntry,
           DeleteHost, environment
  <1>2. ASSUME Answers(r, a) PROVE /\ call[r][a] = Calling /\ a \in up
                                   /\ call'[r][a] = At("answered", host[a])
                                   /\ \A s \in Requests, b \in Adapters :
                                         s # r \/ b # a => call'[s][b] = call[s][b]
    <2>1. host[a] \in Hosts
      BY <1>0 DEF TypeOK
    <2> QED
      BY <1>0, <1>2, <2>1, InCalls, GoesCall DEF Answers
  <1>3. ASSUME Garbles(r, a)
        PROVE  /\ call'[r][a] = Idle
               /\ \A s \in Requests, b \in Adapters : s # r \/ b # a => call'[s][b] = call[s][b]
    BY <1>0, <1>3, InCalls, GoesCall DEF Garbles
  <1>4. ASSUME StoreAdapter(r, a)
        PROVE  /\ \E h \in Hosts : call[r][a] = At("answered", h) /\ call'[r][a] = At("stored", h)
               /\ \A s \in Requests, b \in Adapters : s # r \/ b # a => call'[s][b] = call[s][b]
    BY <1>0, <1>4, InCalls, GoesCall DEF StoreAdapter
  <1>5. ASSUME StoreHost(r, a) \/ DeleteHost(r, a)
        PROVE  /\ call'[r][a] = Idle
               /\ \A s \in Requests, b \in Adapters : s # r \/ b # a => call'[s][b] = call[s][b]
    <2>1. PICK from : Goes(r, a, from, Idle)
      BY <1>5 DEF StoreHost, DeleteHost
    <2> QED
      BY <1>0, <2>1, InCalls, GoesCall
  <1>6. ASSUME FindHost(r, a)
        PROVE  /\ \/ call'[r][a] = Idle
                  \/ /\ call[r][a] = Calling /\ (a \notin up \/ ~settled)
                     /\ adapters[a] # NoHost /\ call'[r][a] = At("found", adapters[a])
               /\ \A s \in Requests, b \in Adapters : s # r \/ b # a => call'[s][b] = call[s][b]
    <2>1. CASE adapters[a] = NoHost
      BY <1>0, <1>6, <2>1, InCalls, GoesCall DEF FindHost
    <2>2. CASE adapters[a] # NoHost
      <3>1. adapters[a] \in Hosts
        BY <1>0, <2>2 DEF TypeOK
      <3> QED
        BY <1>0, <1>6, <2>2, <3>1, InCalls, GoesCall DEF FindHost
    <2> QED
      BY <2>1, <2>2
  <1>7. ASSUME DeleteEntry(r, a)
        PROVE  /\ \E h \in Hosts : call[r][a] = At("found", h) /\ call'[r][a] = At("deleted", h)
               /\ \A s \in Requests, b \in Adapters : s # r \/ b # a => call'[s][b] = call[s][b]
    BY <1>0, <1>7, InCalls, GoesCall DEF DeleteEntry
  <1> QED
    BY <1>1, <1>2, <1>3, <1>4, <1>5, <1>6, <1>7 DEF Goroutine

LEMMA AfterSettledStep == IInv /\ AfterSettled /\ [Next]_vars => AfterSettled'
  <1> SUFFICES ASSUME IInv, AfterSettled, [Next]_vars PROVE AfterSettled'
    OBVIOUS
  <1>1. ASSUME NEW a \in Adapters, Moves(a) PROVE AfterSettled'
    BY <1>1 DEF Moves, AfterSettled
  <1>2. CASE Settle
    <2>1. call' = call /\ \A r \in Requests, a \in Adapters : <<r, a>> \notin Running
      BY <1>2 DEF Settle
    <2>2. ASSUME NEW r \in Requests, NEW a \in Adapters PROVE call'[r][a] = Idle
      <3>1. <<r, a>> \in Requests \X Adapters /\ <<r, a>> \notin Running
        BY <2>1
      <3> QED
        BY <2>1, <3>1 DEF Running
    <2> QED
      BY <2>2 DEF AfterSettled, Idle
  <1>3. ASSUME NEW r \in Requests, PeerMap(r) PROVE AfterSettled'
    <2>1. PICK list \in SUBSET Adapters :
            /\ settled => list = devices
            /\ call' = [call EXCEPT ![r] = [a \in Adapters |-> IF a \in list THEN Calling ELSE Idle]]
      BY <1>3 DEF PeerMap
    <2>2. UNCHANGED <<settled, devices, up, host>>
      BY <1>3 DEF PeerMap, environment
    <2>3. \A s \in Requests, a \in Adapters :
            \/ call'[s][a] = call[s][a] \/ call'[s][a] = Idle
            \/ call'[s][a] = Calling /\ a \in list
      BY <2>1 DEF IInv, TypeOK
    <2> QED
      BY <2>1, <2>2, <2>3 DEF AfterSettled, Calling, Idle
  <1>4. ASSUME NEW r \in Requests, NEW a \in Adapters, Goroutine(r, a) PROVE AfterSettled'
    <2>1. /\ UNCHANGED <<host, settled, devices, up>>
          /\ \A s \in Requests, b \in Adapters : s # r \/ b # a => call'[s][b] = call[s][b]
      BY <1>4, HandMoves
    <2>2. settled => /\ call'[r][a].at \in {"answered", "stored"} =>
                            a \in up /\ call'[r][a].host = host[a]
                     /\ call'[r][a].at \in {"found", "deleted"} => a \in devices \ up
                     /\ call'[r][a].at = "calling" => a \in devices
      <3>1. \/ call'[r][a] = Idle
            \/ call[r][a] = Calling /\ a \in up /\ call'[r][a] = At("answered", host[a])
            \/ /\ call[r][a] = Calling /\ (a \notin up \/ ~settled)
               /\ call'[r][a] = At("found", adapters[a])
            \/ \E h \in Hosts : call[r][a] = At("answered", h) /\ call'[r][a] = At("stored", h)
            \/ \E h \in Hosts : call[r][a] = At("found", h) /\ call'[r][a] = At("deleted", h)
        BY <1>4, HandMoves
      <3> QED
        BY <3>1, HandFields DEF AfterSettled
    <2> QED
      BY <2>1, <2>2 DEF AfterSettled
  <1>5. CASE UNCHANGED vars
    BY <1>5 DEF vars, environment, AfterSettled
  <1> QED
    BY <1>1, <1>2, <1>3, <1>4, <1>5 DEF Next

\* Once those that do not answer are forgotten, they stay so, and a host that can be called
\* goes on to be.
LEMMA ForgottenStep ==
  ASSUME IInv, AfterSettled, Forgotten, [Next]_vars
  PROVE  /\ UNCHANGED <<settled, devices, up, host>> /\ Forgotten'
         /\ \A h \in Hosts : hosts'[h] # hosts[h] => hosts'[h] \in up /\ host[hosts'[h]] = h
  <1>1. CASE \/ \E b \in Adapters : Moves(b)
             \/ Settle
    BY <1>1 DEF Forgotten, Moves, Settle
  <1>2. ASSUME NEW r \in Requests, PeerMap(r)
        PROVE  /\ UNCHANGED <<settled, devices, up, host, adapters, hosts>>
               /\ \A b \in Adapters : ~Deleting(b) => ~Deleting(b)'
    <2>1. \A s \in Requests, b \in Adapters :
            call'[s][b] = call[s][b] \/ call'[s][b] = Idle \/ call'[s][b] = Calling
      BY <1>2 DEF PeerMap, IInv, TypeOK
    <2> QED
      BY <1>2, <2>1 DEF PeerMap, environment, Deleting, Idle, Calling
  <1>3. ASSUME NEW r \in Requests, NEW a \in Adapters, Goroutine(r, a)
        PROVE  /\ UNCHANGED <<settled, devices, up, host>> /\ Forgotten'
               /\ \A h \in Hosts : hosts'[h] # hosts[h] => hosts'[h] \in up /\ host[hosts'[h]] = h
    <2>1. UNCHANGED <<settled, devices, up, host>>
      BY <1>3, HandMoves
    <2>2. settled /\ call[r][a].at \notin {"found", "deleted"}
      BY DEF AfterSettled, Forgotten, Deleting
    <2>3. \A s \in Requests, b \in devices \ up : call'[s][b].at \notin {"found", "deleted"}
      <3>1. ASSUME call'[r][a].at \in {"found", "deleted"} PROVE a \in devices /\ adapters[a] # NoHost /\ a \notin up
        <4>1. \/ call'[r][a] = Idle
              \/ call[r][a] = Calling /\ a \in up /\ call'[r][a] = At("answered", host[a])
              \/ /\ call[r][a] = Calling /\ (a \notin up \/ ~settled) /\ adapters[a] # NoHost
                 /\ call'[r][a] = At("found", adapters[a])
              \/ \E h \in Hosts : call[r][a] = At("answered", h) /\ call'[r][a] = At("stored", h)
              \/ \E h \in Hosts : call[r][a] = At("found", h) /\ call'[r][a] = At("deleted", h)
          BY <1>3, HandMoves
        <4>2. call[r][a] = Calling /\ a \notin up /\ adapters[a] # NoHost
          BY <2>2, <3>1, <4>1, HandFields
        <4> QED
          BY <2>2, <4>2, HandFields DEF AfterSettled
      <3>2. a \in devices \ up => call'[r][a].at \notin {"found", "deleted"}
        BY <3>1 DEF Forgotten
      <3> QED
        <4>1. \A s \in Requests, b \in Adapters : s # r \/ b # a => call'[s][b] = call[s][b]
          BY <1>3, HandMoves
        <4>2. devices \subseteq Adapters
          BY DEF IInv, TypeOK
        <4>3. \A s \in Requests, b \in devices \ up : call[s][b].at \notin {"found", "deleted"}
          BY DEF Forgotten, Deleting
        <4> QED
          BY <3>2, <4>1, <4>2, <4>3
    <2>4. \A b \in devices \ up : adapters'[b] = NoHost
      <3>1. CASE StoreAdapter(r, a)
        <4>1. a \in up
          BY <2>2, <3>1 DEF StoreAdapter, Goes, At, AfterSettled
        <4> QED
          BY <3>1, <4>1 DEF StoreAdapter, Forgotten, IInv, TypeOK
      <3>2. CASE ~StoreAdapter(r, a)
        <4>1. ~DeleteEntry(r, a)
          BY <2>2, HandFields DEF DeleteEntry, Goes
        <4> QED
          BY <1>3, <3>2, <4>1
          DEF Goroutine, Answers, Garbles, StoreHost, FindHost, DeleteHost, Forgotten
      <3> QED
        BY <3>1, <3>2
    <2>5. Forgotten'
      BY <2>1, <2>3, <2>4 DEF Forgotten, Deleting
    <2>6. ASSUME NEW h \in Hosts, hosts'[h] # hosts[h]
          PROVE  hosts'[h] \in up /\ host[hosts'[h]] = h
      <3>1. ~DeleteHost(r, a)
        BY <2>2, HandFields DEF DeleteHost, Goes
      <3>2. StoreHost(r, a)
        BY <1>3, <2>6, <3>1
        DEF Goroutine, Answers, Garbles, StoreAdapter, FindHost, DeleteEntry
      <3>3. PICK k \in Hosts : /\ call[r][a] = At("stored", k)
                               /\ hosts' = [hosts EXCEPT ![k] = a]
        BY <3>2 DEF StoreHost, Goes
      <3>4. a \in up /\ k = host[a]
        BY <2>2, <3>3 DEF AfterSettled, At
      <3>5. h = k /\ hosts'[h] = a
        BY <2>6, <3>3 DEF IInv, TypeOK
      <3> QED
        BY <3>4, <3>5
    <2> QED
      BY <2>1, <2>5, <2>6
  <1>4. CASE UNCHANGED vars
    BY <1>4 DEF vars, environment, Forgotten, Deleting
  <1>5. ASSUME NEW r \in Requests, PeerMap(r) PROVE Forgotten'
    BY <1>2, <1>5 DEF Forgotten, IInv, TypeOK
  <1> QED
    BY <1>1, <1>2, <1>3, <1>4, <1>5 DEF Next

\* Why Heals and Forgets hold, apart from the fairness of the peer maps: when adapters and
\* devices no longer change, and those that do not answer have been deleted, no peer map of
\* peermap.go undoes it, nor what SetKnownHost has stored since.
THEOREM StaysHealed ==
  ASSUME NEW a \in Adapters
  PROVE  Spec => [](Forgotten /\ a \in up /\ Callable(a) => [](Forgotten /\ a \in up /\ Callable(a)))
  <1> DEFINE P == Forgotten /\ a \in up /\ Callable(a)
  <1>1. IInv /\ AfterSettled /\ P /\ [Next]_vars => P'
    <2> SUFFICES ASSUME IInv, AfterSettled, P, [Next]_vars PROVE P'
      OBVIOUS
    <2>1. /\ UNCHANGED <<settled, devices, up, host>> /\ Forgotten'
          /\ \A h \in Hosts : hosts'[h] # hosts[h] => hosts'[h] \in up /\ host[hosts'[h]] = h
      BY ForgottenStep
    <2>2. host[a] \in Hosts
      BY DEF IInv, TypeOK
    <2> QED
      BY <2>1, <2>2 DEF Callable
  <1>2. Init => AfterSettled
    BY DEF Init, AfterSettled
  <1> HIDE DEF P
  <1>3. Spec => [](P => []P)
    BY <1>1, <1>2, IInvInit, IInvStep, AfterSettledStep, PTL DEF Spec
  <1> QED
    BY <1>3 DEF P

\* And each adapter that answers does store what makes its host callable: the second store of
\* SetKnownHost is enough, whatever was there.
THEOREM StoringHeals ==
  Spec => [][\A r \in Requests, a \in Adapters :
                settled /\ StoreHost(r, a) => a \in up /\ Callable(a)']_vars
  <1>1. ASSUME IInv, AfterSettled, NEW r \in Requests, NEW a \in Adapters, settled, StoreHost(r, a)
        PROVE  a \in up /\ Callable(a)'
    <2>1. PICK k \in Hosts : /\ call[r][a] = At("stored", k)
                             /\ hosts' = [hosts EXCEPT ![k] = a]
      BY <1>1 DEF StoreHost, Goes
    <2>2. UNCHANGED <<host, up>>
      BY <1>1 DEF StoreHost, environment
    <2>3. a \in up /\ k = host[a]
      BY <1>1, <2>1 DEF AfterSettled, At
    <2>4. hosts'[host[a]] = a
      BY <1>1, <2>1, <2>3 DEF IInv, TypeOK
    <2> QED
      BY <2>2, <2>3, <2>4 DEF Callable
  <1>2. IInv /\ AfterSettled => \A r \in Requests, a \in Adapters :
                                   settled /\ StoreHost(r, a) => a \in up /\ Callable(a)'
    BY <1>1
  <1>3. Init => AfterSettled
    BY DEF Init, AfterSettled
  <1> QED
    BY <1>2, <1>3, IInvInit, IInvStep, AfterSettledStep, PTL DEF Spec
=============================================================================
