---------------------------- MODULE HostDirectory ----------------------------
(***************************************************************************)
(* Which adapter answers for which host: the Client of                     *)
(* src/api/webui/client/client.go keeps two sync.Maps, one from adapters   *)
(* to hosts and one from hosts to adapters.  Every PeerMap request         *)
(* (src/api/webui/tsymbiotewebui/peermap.go) calls each adapter on the     *)
(* device list from a goroutine of its own, which stores the pair          *)
(* (SetKnownHost) when the adapter answers and deletes it (DeleteAdapter)  *)
(* when the call fails.  A sync.Map makes each store, load and delete      *)
(* atomic; the two halves of a pair are updated one after the other.       *)
(***************************************************************************)
EXTENDS Naturals, FiniteSets

CONSTANTS
    Adapters, Hosts,
    Requests,               \* PeerMap requests that may be under way at once
    NoAdapter, NoHost,      \* the absence of an entry
    MaxMoves,               \* bound: adapters that come to serve another host
    MaxCalls                \* bound: goroutines at once

ASSUME NoneAssumption == NoAdapter \notin Adapters /\ NoHost \notin Hosts
ASSUME BoundsAssumption == MaxMoves \in Nat /\ MaxCalls \in Nat

VARIABLES
    host,           \* host[a]: the host that a runs beside
    been,           \* been[a]: those it has run beside so far
    settled,        \* from now on adapters neither come, go, move nor time out
    devices,        \* once settled: the adapters on the device list
    up,             \* once settled: those that answer
    moves,          \* moves so far
    adapters,       \* Client.adapters
    hosts,          \* Client.hosts
    call,           \* call[r][a]: the goroutine of request r for adapter a
    raced           \* adapters with a store and a delete under way at once, or
                    \* stored for a second host

environment == <<host, been, settled, devices, up, moves>>
vars == <<environment, adapters, hosts, call, raced>>

\* Where a goroutine is, and the host it has in hand.
Idle == [at |-> "idle", host |-> NoHost]
Calling == [at |-> "calling", host |-> NoHost]
At(p, h) == [at |-> p, host |-> h]
Calls == {Idle, Calling}
         \union [at : {"answered", "stored", "found", "deleted"}, host : Hosts]

TypeOK ==
    /\ host \in [Adapters -> Hosts]
    /\ settled \in BOOLEAN /\ devices \subseteq Adapters /\ up \subseteq devices
    /\ moves \in 0..MaxMoves
    /\ adapters \in [Adapters -> Hosts \union {NoHost}]
    /\ hosts \in [Hosts -> Adapters \union {NoAdapter}]
    /\ call \in [Requests -> [Adapters -> Calls]]
    /\ been \in [Adapters -> SUBSET Hosts]
    /\ raced \subseteq Adapters

Init ==
    /\ host \in [Adapters -> Hosts]
    /\ been = [a \in Adapters |-> {host[a]}]
    /\ settled = FALSE /\ devices = Adapters /\ up = Adapters /\ moves = 0
    /\ adapters = [a \in Adapters |-> NoHost]
    /\ hosts = [h \in Hosts |-> NoAdapter]
    /\ call = [r \in Requests |-> [a \in Adapters |-> Idle]]
    /\ raced = {}

Running == {c \in Requests \X Adapters : call[c[1]][c[2]] # Idle}

-----------------------------------------------------------------------------
(* The adapters                                                            *)

\* a comes back under its name beside another host, or its host is renamed.
Moves(a) ==
    /\ ~settled /\ moves < MaxMoves
    /\ \E h \in Hosts \ {host[a]} :
        /\ host' = [host EXCEPT ![a] = h]
        /\ been' = [been EXCEPT ![a] = @ \union {h}]
    /\ moves' = moves + 1
    /\ UNCHANGED <<settled, devices, up, adapters, hosts, call, raced>>

\* At a moment without a peer map under way.
Settle ==
    /\ Running = {}
    /\ ~settled /\ settled' = TRUE
    /\ devices' \in SUBSET Adapters
    /\ up' \in SUBSET devices'
    /\ UNCHANGED <<host, been, moves, adapters, hosts, call, raced>>

-----------------------------------------------------------------------------
(* PeerMap                                                                 *)

\* GetDevicesWithTag, then one goroutine per adapter on the list.
PeerMap(r) ==
    /\ \A a \in Adapters : call[r][a] = Idle
    /\ \E list \in SUBSET Adapters :
        /\ settled => list = devices
        /\ Cardinality(Running) + Cardinality(list) <= MaxCalls
        /\ call' = [call EXCEPT ![r] =
                       [a \in Adapters |-> IF a \in list THEN Calling ELSE Idle]]
    /\ UNCHANGED <<environment, adapters, hosts, raced>>

\* The goroutine of r for a goes from one place to the next.
Goes(r, a, from, to) == call[r][a] = from /\ call' = [call EXCEPT ![r][a] = to]

Answers(r, a) ==
    /\ a \in up /\ Goes(r, a, Calling, At("answered", host[a]))
    /\ UNCHANGED <<environment, adapters, hosts, raced>>

\* The answer cannot be decoded: an error in the reply, and nothing else.
Garbles(r, a) ==
    /\ ~settled /\ Goes(r, a, Calling, Idle)
    /\ UNCHANGED <<environment, adapters, hosts, raced>>

-----------------------------------------------------------------------------
(* SetKnownHost(host, adapter)                                             *)

Storing(a) == \E r \in Requests : call[r][a].at = "stored"
Deleting(a) == \E r \in Requests : call[r][a].at \in {"found", "deleted"}

\* The pair is stored under the name of another goroutine's adapter: a loop
\* variable shared by the goroutines.
StoreAdapterOfLoop(r, a) ==
    \E h \in Hosts, b \in Adapters :
        /\ Goes(r, a, At("answered", h), At("stored", h))
        /\ adapters' = [adapters EXCEPT ![b] = h]
        /\ raced' = IF Deleting(a) \/ adapters[a] \notin {h, NoHost}
                    THEN raced \union {a} ELSE raced
        /\ UNCHANGED <<environment, hosts>>

StoreAdapter(r, a) ==
    \E h \in Hosts :
        /\ Goes(r, a, At("answered", h), At("stored", h))
        /\ adapters' = [adapters EXCEPT ![a] = h]
        /\ raced' = IF Deleting(a) \/ adapters[a] \notin {h, NoHost}
                    THEN raced \union {a} ELSE raced
        /\ UNCHANGED <<environment, hosts>>

\* An entry is kept once it is there.
StoreHostOnce(r, a) ==
    \E h \in Hosts :
        /\ Goes(r, a, At("stored", h), Idle)
        /\ hosts' = [hosts EXCEPT ![h] = IF @ = NoAdapter THEN a ELSE @]
        /\ UNCHANGED <<environment, adapters, raced>>

StoreHost(r, a) ==
    \E h \in Hosts :
        /\ Goes(r, a, At("stored", h), Idle)
        /\ hosts' = [hosts EXCEPT ![h] = a]
        /\ UNCHANGED <<environment, adapters, raced>>

-----------------------------------------------------------------------------
(* DeleteAdapter(adapter)                                                  *)

\* A DeleteAdapter that ignores whether GetHost found an entry.
FindHostUnchecked(r, a) ==
    /\ a \notin up \/ ~settled
    /\ Goes(r, a, Calling, At("found", adapters[a]))
    /\ UNCHANGED <<environment, adapters, hosts, raced>>

\* The call fails: the adapter is down, slower than a second, or the browser went
\* away.  Then GetHost: DeleteAdapter gives up if there is no entry.
FindHost(r, a) ==
    /\ a \notin up \/ ~settled
    /\ IF adapters[a] = NoHost
       THEN Goes(r, a, Calling, Idle)
       ELSE Goes(r, a, Calling, At("found", adapters[a]))
    /\ raced' = IF adapters[a] # NoHost /\ Storing(a) THEN raced \union {a} ELSE raced
    /\ UNCHANGED <<environment, adapters, hosts>>

DeleteEntry(r, a) ==
    \E h \in Hosts :
        /\ Goes(r, a, At("found", h), At("deleted", h))
        /\ adapters' = [adapters EXCEPT ![a] = NoHost]
        /\ UNCHANGED <<environment, hosts, raced>>

\* The entry of the adapter is deleted, that of its host is forgotten about.
DeleteHalf(r, a) ==
    \E h \in Hosts :
        /\ Goes(r, a, At("deleted", h), Idle)
        /\ UNCHANGED <<environment, adapters, hosts, raced>>

\* Whatever adapter the host's entry names by now.
DeleteHost(r, a) ==
    \E h \in Hosts :
        /\ Goes(r, a, At("deleted", h), Idle)
        /\ hosts' = [hosts EXCEPT ![h] = NoAdapter]
        /\ UNCHANGED <<environment, adapters, raced>>

-----------------------------------------------------------------------------
Goroutine(r, a) ==
    \/ Answers(r, a) \/ Garbles(r, a)
    \/ StoreAdapter(r, a) \/ StoreHost(r, a)
    \/ FindHost(r, a) \/ DeleteEntry(r, a) \/ DeleteHost(r, a)

Next ==
    \/ \E a \in Adapters : Moves(a)
    \/ Settle
    \/ \E r \in Requests : PeerMap(r) \/ \E a \in Adapters : Goroutine(r, a)

Spec == Init /\ [][Next]_vars

\* Every goroutine runs (a call returns within its second), and browsers that look
\* at the map ask for it again.
FairSpec ==
    /\ Spec
    /\ \A r \in Requests : WF_vars(PeerMap(r)) /\ \A a \in Adapters : WF_vars(Goroutine(r, a))

-----------------------------------------------------------------------------
(* Properties                                                              *)

\* However the requests interleave, an entry of either map (what GetHost and
\* GetAdapter return) is a pair that was true at some time.
EntriesWereTrue ==
    /\ \A a \in Adapters : adapters[a] # NoHost => adapters[a] \in been[a]
    /\ \A h \in Hosts : hosts[h] # NoAdapter => h \in been[hosts[h]]

\* The maps hold what their readers expect of them, over any interleaving of requests.
DirectoryInv == TypeOK /\ EntriesWereTrue

\* GetAdapter and GetHost agree on every adapter that was never stored and deleted at
\* once and never moved: its host's entry names it only while its own entry names the
\* host, but for the moment between the two deletes.
LookupsAgree ==
    \A h \in Hosts :
        hosts[h] \in Adapters \ raced =>
            \/ adapters[hosts[h]] = h
            \/ \E r \in Requests : call[r][hosts[h]] = At("deleted", h)

\* Once things have settled, later peer maps repair whatever races left behind: a
\* host with an adapter that answers can be called, through such an adapter.
Heals ==
    settled ~> [](\A a \in up : hosts[host[a]] \in up /\ host[hosts[host[a]]] = host[a])

\* And an adapter that stays on the device list without answering is forgotten, in
\* both maps unless it raced (then DeleteAdapter no longer knows of its host).
Forgets ==
    settled ~> [](\A a \in devices \ up :
                     /\ adapters[a] = NoHost
                     /\ a \notin raced => \A h \in Hosts : hosts[h] # a)

-----------------------------------------------------------------------------
(* Why the safety properties hold: an inductive invariant.                 *)

\* The hosts in the hands of goroutines were true too.
HandsWereTrue ==
    /\ \A a \in Adapters : host[a] \in been[a]
    /\ \A r \in Requests, a \in Adapters :
           call[r][a].at \in {"answered", "stored"} => call[r][a].host \in been[a]

\* An adapter that has not raced is in one kind of hand at a time, and its entry is
\* the one that the hand stored, or found.
HandsAgree ==
    \A a \in Adapters \ raced :
        /\ ~(Storing(a) /\ Deleting(a))
        /\ \A r \in Requests :
            /\ call[r][a].at = "stored" => adapters[a] = call[r][a].host
            /\ call[r][a].at = "found" => adapters[a] \in {call[r][a].host, NoHost}

\* Once things have settled, whoever stores is one that answers, beside its present host,
\* and whoever deletes is one that does not.
AfterSettled ==
    settled => \A r \in Requests, a \in Adapters :
        /\ call[r][a].at \in {"answered", "stored"} => a \in up /\ call[r][a].host = host[a]
        /\ call[r][a].at \in {"found", "deleted"} => a \in devices \ up
        /\ call[r][a].at = "calling" => a \in devices

\* Those that do not answer are forgotten, and nobody is about to delete what they left.
Forgotten == settled /\ \A a \in devices \ up : adapters[a] = NoHost /\ ~Deleting(a)

\* The host of a can be called, through an adapter that answers.
Callable(a) == hosts[host[a]] \in up /\ host[hosts[host[a]]] = host[a]

IInv == TypeOK /\ EntriesWereTrue /\ HandsWereTrue /\ HandsAgree /\ LookupsAgree

-----------------------------------------------------------------------------
(* What the source's comments say and the code does not do.                *)

\* The comment of client.go:18, "a two way mapping": when no request is under way,
\* each host's adapter is an adapter of that host.
TwoWayMapping ==
    (\A r \in Requests, a \in Adapters : call[r][a] = Idle) =>
        \A h \in Hosts : hosts[h] # NoAdapter => adapters[hosts[h]] = h
=============================================================================
