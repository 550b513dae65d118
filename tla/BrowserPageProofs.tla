-------------------------- MODULE BrowserPageProofs --------------------------
(***************************************************************************)
(* The selection, the tabs and the height of the page, for any machines,   *)
(* any map of them and any window.                                         *)
(***************************************************************************)
EXTENDS BrowserPage, FiniteSetTheorems, TLAPS

-----------------------------------------------------------------------------
(* Selection                                                               *)

\* What is listed is of the map.
LEMMA ListedAreNodes == ReachableTargets \subseteq TargetNodes
  BY DEF ReachableTargets

LEMMA SelStart ==
  ASSUME SelInit
  PROVE  SelInv
  BY DEF SelInit, SelInv, SelTypeOK, ReachableTargets, TargetNodes

\* The new map is not one anything could have been selected on.
LEMMA LoadStep ==
  ASSUME SelInv, Load
  PROVE  SelInv'
  <1>1. selectedTargets = {}
    BY DEF SelInv, SelTypeOK, TargetNodes, Load
  <1>2. /\ fetched' = "done" /\ due' = Effects
        /\ edges' \in SUBSET Wires /\ nodes' = {w[2] : w \in edges'} /\ offline' \subseteq nodes'
        /\ hosts' \subseteq Hosts /\ selectedHosts' = hosts'
        /\ selectedTargets' = selectedTargets /\ hideOfflinePeers' = hideOfflinePeers
    BY DEF Load
  <1>3. nodes' \subseteq Machines /\ \A e \in edges' : e[2] \in nodes'
    BY <1>2 DEF Wires
  <1>4. "reachable" \in due'
    BY <1>2 DEF Effects
  <1> QED
    BY <1>1, <1>2, <1>3, <1>4 DEF SelInv, SelTypeOK

\* Effects leave no peer selected that is not listed.
LEMMA SettleStep ==
  ASSUME SelInv, Settle
  PROVE  SelInv'
  <1> DEFINE all == IF "all" \in due /\ nodes # {} /\ hosts # {} THEN AllTargets ELSE selectedTargets
             seen == IF "offline" \in due THEN WithoutHidden(all) ELSE all
  <1>1. /\ due' = {} /\ UNCHANGED <<map, selectedHosts, hideOfflinePeers>>
        /\ selectedTargets' = IF "reachable" \in due THEN seen \intersect ReachableTargets ELSE seen
    BY DEF Settle
  <1>2. "reachable" \in due
    BY DEF Settle, SelInv, SelTypeOK, Effects
  <1>3. TargetNodes' = TargetNodes /\ ReachableTargets' = ReachableTargets
    BY <1>1 DEF TargetNodes, ReachableTargets, IsOnline, map
  <1>4. selectedTargets' \subseteq ReachableTargets
    BY <1>1, <1>2
  <1>5. SelTypeOK'
    BY <1>1, <1>3, <1>4, ListedAreNodes DEF SelInv, SelTypeOK, map
  <1> QED
    BY <1>3, <1>4, <1>5 DEF SelInv

\* A handler that changes the hosts has the cleanup after it.
LEMMA HostStep ==
  ASSUME SelInv, NEW H \in SUBSET hosts, SelectHosts(H), selectedTargets' \subseteq TargetNodes
  PROVE  SelInv'
  <1>1. /\ selectedHosts' = H /\ due' = {"reachable"} /\ UNCHANGED <<map, hideOfflinePeers>>
    BY DEF SelectHosts
  <1>2. TargetNodes' = TargetNodes
    BY <1>1 DEF TargetNodes, map
  <1> QED
    BY <1>1, <1>2 DEF SelInv, SelTypeOK, map

\* A handler that changes the peers takes them from the list.
LEMMA TargetStep ==
  ASSUME SelInv, NEW T \in SUBSET ReachableTargets, SelectTargets(T)
  PROVE  SelInv'
  <1>1. /\ selectedTargets' = T /\ UNCHANGED <<map, selectedHosts, hideOfflinePeers, due>>
    BY DEF SelectTargets
  <1>2. TargetNodes' = TargetNodes /\ ReachableTargets' = ReachableTargets
    BY <1>1 DEF TargetNodes, ReachableTargets, IsOnline, map
  <1> QED
    BY <1>1, <1>2, ListedAreNodes DEF SelInv, SelTypeOK, map

\* With nothing due, what is selected is listed.
LEMMA SelectedListed ==
  ASSUME SelInv, due = {}
  PROVE  selectedTargets \subseteq ReachableTargets
  BY DEF SelInv

LEMMA SelStep ==
  ASSUME SelInv, [SelNext]_selVars
  PROVE  SelInv'
  <1>1. CASE Load
    BY <1>1, LoadStep
  <1>2. CASE LoadFails
    BY <1>2 DEF LoadFails, SelInv, SelTypeOK, ReachableTargets, TargetNodes, IsOnline
  <1>3. CASE Settle
    BY <1>3, SettleStep
  <1>4. ASSUME NEW h \in hosts, ToggleHost(h)
        PROVE  SelInv'
    <2> DEFINE H == IF h \in selectedHosts THEN selectedHosts \ {h} ELSE selectedHosts \union {h}
    <2>1. H \in SUBSET hosts
      BY DEF SelInv, SelTypeOK
    <2>2. SelectHosts(H) /\ selectedTargets' = selectedTargets
      BY <1>4 DEF ToggleHost
    <2>3. selectedTargets' \subseteq TargetNodes
      BY <2>2 DEF SelInv, SelTypeOK
    <2> QED
      BY <2>1, <2>2, <2>3, HostStep
  <1>5. ASSUME NEW h \in hosts, FilterToHost(h)
        PROVE  SelInv'
    <2>1. SelectHosts({h}) /\ selectedTargets' \subseteq TargetNodes
      BY <1>5 DEF FilterToHost, SelInv, SelTypeOK
    <2> QED
      BY <2>1, HostStep
  <1>6. ASSUME NEW t \in TargetList, ToggleTarget(t)
        PROVE  SelInv'
    <2> DEFINE T == IF t \in selectedTargets THEN selectedTargets \ {t} ELSE selectedTargets \union {t}
    <2>1. SelectTargets(T) /\ due = {} /\ t \in ReachableTargets
      BY <1>6 DEF ToggleTarget, TargetList
    <2>2. T \in SUBSET ReachableTargets
      BY <2>1, SelectedListed
    <2> QED
      BY <2>1, <2>2, TargetStep
  <1>7. CASE ToggleAllHosts
    <2> DEFINE H == IF Cardinality(selectedHosts) = Cardinality(hosts) THEN {} ELSE hosts
    <2>1. SelectHosts(H) /\ selectedTargets' \subseteq TargetNodes
      BY <1>7 DEF ToggleAllHosts, SelInv, SelTypeOK
    <2> QED
      BY <2>1, HostStep
  <1>8. CASE ToggleAllTargets
    <2> DEFINE T == IF Cardinality(selectedTargets) = Cardinality(ReachableTargets)
                    THEN {} ELSE ReachableTargets
    <2>1. SelectTargets(T)
      BY <1>8 DEF ToggleAllTargets
    <2> QED
      BY <2>1, TargetStep
  <1>9. CASE ToggleHideOffline
    <2>1. "reachable" \in due' /\ due' = Effects
      BY <1>9 DEF ToggleHideOffline, Effects
    <2> QED
      BY <1>9, <2>1 DEF ToggleHideOffline, SelInv, SelTypeOK, TargetNodes, map
  <1>10. CASE Reset \/ HandleResetKey
    <2>1. SelectHosts(hosts) /\ selectedTargets' \subseteq TargetNodes
      BY <1>10 DEF Reset, HandleResetKey, SelectEverything
    <2> QED
      BY <2>1, HostStep
  <1>11. CASE UNCHANGED selVars
    BY <1>11 DEF selVars, map, SelInv, SelTypeOK, ReachableTargets, TargetNodes, IsOnline
  <1> QED
    BY <1>1, <1>2, <1>3, <1>4, <1>5, <1>6, <1>7, <1>8, <1>9, <1>10, <1>11 DEF SelNext

\* Once the effects have run no peer is selected that is not on the list, in every map and
\* after any clicks and keys; and all that is selected is of the map.
THEOREM SelectionListed == SelSpec => []SelInv
  BY SelStart, SelStep, PTL DEF SelSpec

\* A set and a subset of it of the same size are the same.
LEMMA SameSize ==
  ASSUME NEW S, IsFiniteSet(S), NEW T \in SUBSET S
  PROVE  Cardinality(T) = Cardinality(S) <=> T = S
  BY FS_Subset

\* Comparing sizes is as good as comparing the sets, for any number of hosts and peers.
THEOREM AllAreAll == SelSpec => AllMeansAll
  <1> DEFINE Means ==
        /\ ToggleAllTargets =>
             selectedTargets' = IF selectedTargets = ReachableTargets THEN {} ELSE ReachableTargets
        /\ ToggleAllHosts =>
             selectedHosts' = IF selectedHosts = hosts THEN {} ELSE hosts
  <1>1. ASSUME SelInv
        PROVE  Means
    <2>1. IsFiniteSet(hosts) /\ IsFiniteSet(ReachableTargets)
      <3>1. hosts \subseteq Machines /\ ReachableTargets \subseteq Machines
        BY <1>1, ListedAreNodes DEF SelInv, SelTypeOK, TargetNodes, Machines
      <3> QED
        BY <3>1, FS_Subset, MachinesAssumption DEF Machines
    <2>2. ASSUME ToggleAllTargets
          PROVE  selectedTargets' = IF selectedTargets = ReachableTargets THEN {} ELSE ReachableTargets
      <3>1. selectedTargets \in SUBSET ReachableTargets
        BY <1>1, <2>2, SelectedListed DEF ToggleAllTargets
      <3>2. Cardinality(selectedTargets) = Cardinality(ReachableTargets)
              <=> selectedTargets = ReachableTargets
        BY <2>1, <3>1, SameSize
      <3> QED
        BY <2>2, <3>2 DEF ToggleAllTargets, SelectTargets
    <2>3. ASSUME ToggleAllHosts
          PROVE  selectedHosts' = IF selectedHosts = hosts THEN {} ELSE hosts
      <3>1. selectedHosts \in SUBSET hosts
        BY <1>1 DEF SelInv, SelTypeOK
      <3>2. Cardinality(selectedHosts) = Cardinality(hosts) <=> selectedHosts = hosts
        BY <2>1, <3>1, SameSize
      <3> QED
        BY <2>3, <3>2 DEF ToggleAllHosts, SelectHosts
    <2> QED
      BY <2>2, <2>3
  <1>2. SelInv => [Means]_selVars
    BY <1>1
  <1> QED
    BY <1>2, SelectionListed, PTL DEF AllMeansAll

\* The pairs asked are the edges of selected hosts to what is drawn, between machines that
\* are online.
LEMMA AskedAreDrawn ==
  ASSUME SelInv
  PROVE  Combinations =
            {e \in DrawnEdges : e[2] \in DrawnNodes /\ IsOnline(e[1]) /\ IsOnline(e[2])}
  <1>1. edges \subseteq Wires /\ \A e \in edges : e[2] \in nodes
    BY DEF SelInv, SelTypeOK
  <1>2. \A e \in edges : e = <<e[1], e[2]>> /\ e[1] \in Hosts /\ e[2] \in Machines /\ e[1] # e[2]
    BY <1>1 DEF Wires
  <1>3. ASSUME NEW e \in Combinations
        PROVE  e \in DrawnEdges /\ e[2] \in DrawnNodes /\ IsOnline(e[1]) /\ IsOnline(e[2])
    <2>1. e \in edges /\ e[1] \in OnlineHosts /\ e[2] \in TargetsOf(e[1])
      BY <1>3 DEF Combinations
    <2>2. e[1] \in selectedHosts /\ IsOnline(e[1]) /\ IsOnline(e[2])
          /\ e[2] \in selectedTargets \union selectedHosts
      BY <2>1 DEF OnlineHosts, TargetsOf
    <2> QED
      BY <1>1, <2>1, <2>2 DEF DrawnEdges, DrawnNodes
  <1>4. ASSUME NEW e \in DrawnEdges, e[2] \in DrawnNodes, IsOnline(e[1]), IsOnline(e[2])
        PROVE  e \in Combinations
    <2>1. e \in edges /\ e[1] \in OnlineHosts /\ e[2] \in selectedTargets \union selectedHosts
      BY <1>4 DEF DrawnEdges, DrawnNodes, OnlineHosts
    <2>2. e[2] \in selectedHosts => e[2] \in OnlineHosts \ {e[1]} /\ Joined(e[1], e[2])
      BY <1>2, <1>4, <2>1 DEF OnlineHosts, Joined
    <2>3. e[2] \in TargetsOf(e[1])
      BY <1>4, <2>1, <2>2 DEF TargetsOf
    <2>4. e \in OnlineHosts \X Machines
      BY <1>2, <2>1
    <2> QED
      BY <2>1, <2>3, <2>4 DEF Combinations
  <1> QED
    BY <1>3, <1>4

\* A selected host that is somebody's peer is drawn, and one that is nobody's is not.
LEMMA AskedAreSeen ==
  ASSUME SelInv
  PROVE  /\ {e \in Combinations : e[1] \in nodes} =
               {e \in Seen : IsOnline(e[1]) /\ IsOnline(e[2])}
         /\ {e \in Combinations : e[1] \notin nodes} =
               {e \in DrawnEdges : e[1] \notin nodes /\ e[2] \in DrawnNodes /\ IsOnline(e[2])}
  <1>1. \A e \in Combinations :
          e \in DrawnEdges /\ e[2] \in DrawnNodes /\ IsOnline(e[1]) /\ IsOnline(e[2])
    BY AskedAreDrawn
  <1>2. \A e \in DrawnEdges : e[2] \in DrawnNodes /\ IsOnline(e[1]) /\ IsOnline(e[2])
                            => e \in Combinations
    BY AskedAreDrawn
  <1>3. \A e \in DrawnEdges : e[1] \in nodes <=> e[1] \in DrawnNodes
    BY DEF DrawnEdges, DrawnNodes
  <1>4. \A e \in DrawnEdges : e \in Seen <=> e[1] \in nodes /\ e[2] \in DrawnNodes
    BY <1>3 DEF Seen
  <1>5. Seen \subseteq DrawnEdges
    BY DEF Seen
  <1>6. \A m : m \notin nodes => IsOnline(m)
    BY DEF SelInv, SelTypeOK, IsOnline
  <1>7. {e \in Combinations : e[1] \in nodes} =
          {e \in Seen : IsOnline(e[1]) /\ IsOnline(e[2])}
    BY <1>1, <1>2, <1>4, <1>5
  <1>8. {e \in Combinations : e[1] \notin nodes} =
          {e \in DrawnEdges : e[1] \notin nodes /\ e[2] \in DrawnNodes /\ IsOnline(e[2])}
    BY <1>1, <1>2, <1>6
  <1> QED
    BY <1>7, <1>8

\* If the button is on, some selected host has an edge to a peer or host that is selected.
LEMMA SomethingToAsk ==
  ASSUME SelInv, due = {}, hideOfflinePeers, OnlineHosts = selectedHosts, ~PingDisabled
  PROVE  Combinations # {}
  <1>1. \A e \in edges : e = <<e[1], e[2]>> /\ e[2] \in Machines
    BY DEF SelInv, SelTypeOK, Wires
  <1>2. CASE selectedTargets # {}
    <2>1. PICK t \in selectedTargets : t \in ReachableTargets
      BY <1>2, SelectedListed
    <2>2. PICK h \in selectedHosts : <<h, t>> \in edges /\ IsOnline(t)
      BY <2>1 DEF ReachableTargets
    <2>3. t \in TargetsOf(h) /\ t \in Machines
      BY <1>1, <2>1, <2>2 DEF TargetsOf
    <2>4. <<h, t>> \in Combinations
      BY <2>2, <2>3 DEF Combinations
    <2> QED
      BY <2>4
  <1>3. CASE selectedTargets = {}
    <2>1. PICK h \in selectedHosts, g \in selectedHosts : h # g /\ Joined(h, g)
      BY <1>3 DEF PingDisabled, SelectedHostsHaveEdges
    <2>2. g \in TargetsOf(h) /\ h \in TargetsOf(g)
      BY <2>1 DEF TargetsOf, Joined
    <2>3. h \in Machines /\ g \in Machines
      BY DEF SelInv, SelTypeOK, Machines
    <2>4. <<h, g>> \in edges => <<h, g>> \in Combinations
      BY <2>2, <2>3 DEF Combinations
    <2>5. <<g, h>> \in edges => <<g, h>> \in Combinations
      BY <2>2, <2>3 DEF Combinations
    <2> QED
      BY <2>1, <2>4, <2>5 DEF Joined
  <1> QED
    BY <1>2, <1>3

\* On every map and after any selection the ping asks for what is seen, and besides for the
\* edges of selected hosts that are not drawn because nobody reports them.
THEOREM PingsDrawn == SelSpec => []PingsAsDrawn
  <1>1. SelInv => PingsAsDrawn
    BY AskedAreSeen, SomethingToAsk DEF PingsAsDrawn
  <1> QED
    BY <1>1, SelectionListed, PTL

-----------------------------------------------------------------------------
(* Outputs                                                                 *)

\* Every list of tabs is a sequence of hosts that have results.
LEMMA TabsAreHosts ==
  ASSUME NEW tabs \in TabLists
  PROVE  /\ tabs # <<>> => 1 \in DOMAIN tabs
         /\ \A i \in DOMAIN tabs : tabs[i] \in TabHosts
  <1>1. PICK n \in 0..Cardinality(TabHosts) : tabs \in [1..n -> TabHosts]
    BY DEF TabLists
  <1>2. Cardinality(TabHosts) \in Nat
    BY FS_CardinalityType, TabsAssumption
  <1>3. n = 0 => tabs = <<>>
    BY <1>1
  <1>4. n # 0 => 1 \in 1..n
    BY <1>2
  <1> QED
    BY <1>1, <1>3, <1>4

PanelSafe == PanelTypeOK /\ TabShown /\ Titled

LEMMA PanelStart ==
  ASSUME PanelInit
  PROVE  PanelSafe
  <1>1. <<>> \in TabLists
    <2>1. Cardinality(TabHosts) \in Nat
      BY FS_CardinalityType, TabsAssumption
    <2>2. 0 \in 0..Cardinality(TabHosts) /\ <<>> \in [1..0 -> TabHosts]
      BY <2>1
    <2> QED
      BY <2>2 DEF TabLists
  <1> QED
    BY <1>1 DEF PanelInit, PanelSafe, PanelTypeOK, TabShown, Titled, NoCommand, Titles

\* Whatever is shown first, its first host is the tab.
LEMMA ShowsTab ==
  ASSUME PanelTypeOK, NEW c \in Titles, NEW tabs \in TabLists, Show(c, tabs)
  PROVE  /\ outputData' \in [of : Titles \union {NoCommand}, tabs : TabLists]
         /\ selectedOutputHost' \in TabHosts \union {NoTab}
         /\ TabShown' /\ outputData'.of = c
  <1>1. /\ outputData' = [of |-> c, tabs |-> tabs]
        /\ selectedOutputHost' = IF tabs = <<>> THEN selectedOutputHost ELSE tabs[1]
    BY DEF Show
  <1>2. tabs # <<>> => 1 \in DOMAIN tabs /\ tabs[1] \in TabHosts
    BY TabsAreHosts
  <1> QED
    BY <1>1, <1>2 DEF PanelTypeOK, TabShown, Tabs

\* Fields that some view handles as what they ought to be.
ListFields == {"responses", "resolvers", "AdvertiseRoutes", "AdvertiseTags", "Shares", "Nameservers",
               "SearchDomains", "MatchDomains", "Control", "Wildcards", "CertDomains", "Health"}
TextFields == {"Hostname", "ControlURL", "ETag"}

AsKnown(d) ==
    /\ \A f \in ListFields : In(d, f) \in Lists
    /\ \A f \in TextFields : In(d, f) \in Texts
    /\ In(d, "Domains") \in Maps
    /\ "crash" \notin DOMAIN d

\* No command has a result with such a field that is something else.
LEMMA ResultsAreAsKnown ==
  ASSUME NEW command \in Titles, NEW d \in ResultsOf(command)
  PROVE  AsKnown(d)
  <1> USE DEF AsKnown, ListFields, TextFields, In, Lists, Texts, Maps, Parts
  <1>1. CASE command = "Status"
    <2>1. d \in [Version : Texts, CertDomains : Lists, Health : Lists, Self : Parts, User : Maps, Peer : Maps]
      BY <1>1 DEF ResultsOf
    <2>2. DOMAIN d = {"Version", "CertDomains", "Health", "Self", "User", "Peer"}
      BY <2>1
    <2> QED
      BY <2>1, <2>2
  <1>2. CASE command = "QueryDNS"
    <2>1. d \in [header : {"map"}, responses : Lists, resolvers : Lists]
      BY <1>2 DEF ResultsOf
    <2>2. DOMAIN d = {"header", "responses", "resolvers"}
      BY <2>1
    <2> QED
      BY <2>1, <2>2
  <1>3. CASE command = "Pprof"
    <2>1. d \in [data : {"map"}, hostname : {"text"}, pprofType : {"text"}]
      BY <1>3 DEF ResultsOf
    <2>2. DOMAIN d = {"data", "hostname", "pprofType"}
      BY <2>1
    <2> QED
      BY <2>1, <2>2
  <1>4. CASE command = "Goroutines"
    <2>1. d \in [string : {"text"}]
      BY <1>4 DEF ResultsOf
    <2>2. DOMAIN d = {"string"}
      BY <2>1
    <2> QED
      BY <2>1, <2>2
  <1>5. CASE command = "Prefs"
    <2>1. d \in [Hostname : Texts, ControlURL : Texts, AdvertiseRoutes : Lists, AdvertiseTags : Lists, Persist : Parts]
      BY <1>5 DEF ResultsOf
    <2>2. DOMAIN d = {"Hostname", "ControlURL", "AdvertiseRoutes", "AdvertiseTags", "Persist"}
      BY <2>1
    <2> QED
      BY <2>1, <2>2
  <1>6. CASE command = "DriveShares"
    BY <1>6 DEF ResultsOf
  <1>7. CASE command = "DNSConfig"
    <2>1. d \in [Nameservers : Lists, SearchDomains : Lists, MatchDomains : Lists]
      BY <1>7 DEF ResultsOf
    <2>2. DOMAIN d = {"Nameservers", "SearchDomains", "MatchDomains"}
      BY <2>1
    <2> QED
      BY <2>1, <2>2
  <1>8. CASE command = "ServeConfig"
    <2>1. d \in [TCP : Maps, Web : Maps, Services : Maps, AllowFunnel : Maps, Foreground : Maps, ETag : Texts]
      BY <1>8 DEF ResultsOf
    <2>2. DOMAIN d = {"TCP", "Web", "Services", "AllowFunnel", "Foreground", "ETag"}
      BY <2>1
    <2> QED
      BY <2>1, <2>2
  <1>9. CASE command = "AppConnRoutes"
    <2>1. d \in [Control : Lists, Wildcards : Lists, Domains : Maps]
      BY <1>9 DEF ResultsOf
    <2>2. DOMAIN d = {"Control", "Wildcards", "Domains"}
      BY <2>1
    <2> QED
      BY <2>1, <2>2
  <1>10. CASE command = "Ping"
    <2>1. d \in [peer : Lists \union {"map"}] \/ d \in [{} -> Lists]
      BY <1>10 DEF ResultsOf
    <2>2. DOMAIN d = {"peer"} \/ DOMAIN d = {}
      BY <2>1
    <2> QED
      BY <2>2
  <1>11. CASE command \in {"Logs", "BusEvents"}
    <2>1. d \in [streaming : {"flag"}]
      BY <1>11 DEF ResultsOf
    <2>2. DOMAIN d = {"streaming"}
      BY <2>1
    <2> QED
      BY <2>2
  <1> QED
    BY <1>1, <1>2, <1>3, <1>4, <1>5, <1>6, <1>7, <1>8, <1>9, <1>10, <1>11 DEF Titles

\* A list, a map and a text are shown without throwing.
LEMMA PiecesAreShown ==
  ASSUME NEW d, AsKnown(d)
  PROVE  /\ \A f \in ListFields : "crash" \notin Listed(d, f)
         /\ \A f \in TextFields : "crash" \notin Written(d, f)
         /\ \A f : f # "crash" => "crash" \notin Section(d, f) /\ "crash" \notin Keyed(d, f)
  <1>1. \A f \in ListFields : f # "crash" /\ In(d, f) # "text"
    BY DEF AsKnown, ListFields, Lists
  <1>2. \A f \in TextFields : f # "crash" /\ In(d, f) \notin {"map", "nomap"}
    BY DEF AsKnown, TextFields, Texts
  <1>3. \A f : f # "crash" => "crash" \notin Section(d, f) /\ "crash" \notin Keyed(d, f)
    BY DEF Section, Keyed
  <1>4. \A f \in ListFields : "crash" \notin Listed(d, f)
    BY <1>1 DEF Listed
  <1>5. \A f \in TextFields : "crash" \notin Written(d, f)
    BY <1>2, <1>3 DEF Written
  <1> QED
    BY <1>3, <1>4, <1>5

\* No view throws on the result of any command.
LEMMA NoViewThrows ==
  ASSUME NEW view \in Titles, NEW command \in Titles, NEW d \in ResultsOf(command)
  PROVE  "crash" \notin Content(view, d)
  <1>1. AsKnown(d)
    BY ResultsAreAsKnown
  <1>2. /\ \A f \in ListFields : "crash" \notin Listed(d, f)
        /\ \A f \in TextFields : "crash" \notin Written(d, f)
        /\ \A f : f # "crash" => "crash" \notin Section(d, f) /\ "crash" \notin Keyed(d, f)
    BY <1>1, PiecesAreShown
  <1>3. "crash" \notin PingResultsContent(d)
    BY <1>1 DEF AsKnown, PingResultsContent, OrNone
  <1>4. "crash" \notin QueryDNSResultsContent(d)
    BY <1>2 DEF QueryDNSResultsContent, ListFields
  <1>5. "crash" \notin PprofResultsContent(d) /\ "crash" \notin GoroutinesResultsContent(d)
        /\ "crash" \notin StreamResultsContent(d)
    BY DEF PprofResultsContent, GoroutinesResultsContent, StreamResultsContent
  <1>6. "crash" \notin PrefsResultsContent(d)
    BY <1>2 DEF PrefsResultsContent, ListFields, TextFields
  <1>7. "crash" \notin DriveSharesResultsContent(d)
    BY <1>1 DEF DriveSharesResultsContent, AsKnown, ListFields, Lists
  <1>8. "crash" \notin DNSConfigResultsContent(d)
    BY <1>2 DEF DNSConfigResultsContent, ListFields, OrNone
  <1>9. "crash" \notin ServeConfigResultsContent(d)
    <2>1. In(d, "ETag") \in {"absent", "text"}
      BY <1>1 DEF AsKnown, TextFields, Texts
    <2>2. "crash" \notin UNION {Keyed(d, f) : f \in {"TCP", "Web", "Services", "AllowFunnel", "Foreground"}}
      BY <1>2
    <2> QED
      BY <1>2, <2>1, <2>2 DEF ServeConfigResultsContent, OrNone
  <1>10. "crash" \notin AppConnRoutesResultsContent(d)
    <2>1. In(d, "Domains") \notin {"text", "list"}
      BY <1>1 DEF AsKnown, Maps
    <2> QED
      BY <1>2, <2>1 DEF AppConnRoutesResultsContent, ListFields, OrNone
  <1>11. "crash" \notin StatusResultsContent(d)
    BY <1>2 DEF StatusResultsContent, ListFields
  <1> QED
    BY <1>3, <1>4, <1>5, <1>6, <1>7, <1>8, <1>9, <1>10, <1>11 DEF Content

\* A command's own view has something to say of each of its results; a query's has its
\* header, which every answer carries.
LEMMA NoViewSilent ==
  ASSUME NEW command \in Titles, NEW d \in ResultsOf(command)
  PROVE  Content(command, d) # {}
  <1>1. \A X : OrNone(X) # {}
    BY DEF OrNone
  <1>2. CASE command = "QueryDNS"
    <2>1. d \in [header : {"map"}, responses : Lists, resolvers : Lists]
      BY <1>2 DEF ResultsOf
    <2>2. In(d, "header") = "map"
      BY <2>1 DEF In
    <2> QED
      BY <1>2, <2>2 DEF Content, QueryDNSResultsContent
  <1>3. CASE command = "DriveShares"
    <2>1. In(d, "Shares") \in Lists
      BY ResultsAreAsKnown DEF AsKnown, ListFields
    <2> QED
      BY <1>3, <2>1 DEF Content, DriveSharesResultsContent, Lists
  <1>4. CASE command \in {"Ping", "DNSConfig", "AppConnRoutes"}
    BY <1>1, <1>4 DEF Content, PingResultsContent, DNSConfigResultsContent, AppConnRoutesResultsContent
  <1>5. CASE command = "ServeConfig"
    BY <1>1, <1>5 DEF Content, ServeConfigResultsContent
  <1>6. CASE command \in {"Pprof", "Goroutines", "Logs", "BusEvents", "Prefs", "Status"}
    BY <1>6 DEF Content, PprofResultsContent, GoroutinesResultsContent, StreamResultsContent,
                PrefsResultsContent, StatusResultsContent
  <1> QED
    BY <1>2, <1>3, <1>4, <1>5, <1>6 DEF Titles

LEMMA SafeFits == PanelSafe => PanelInv
  <1>1. Crashing = {}
    BY NoViewThrows DEF Crashing
  <1>2. Silent = {}
    BY NoViewSilent DEF Silent
  <1> QED
    BY <1>1, <1>2 DEF PanelSafe, PanelInv, ViewFits

\* The remainder, also of the position before the first, is that of a tab.
LEMMA KeyFindsTab ==
  ASSUME PanelSafe, NEW shift \in BOOLEAN, HandleTabKey(shift)
  PROVE  /\ UNCHANGED <<lastCommand, outputData, asked, dialogs, showRawJson>>
         /\ selectedOutputHost' \in Tabs
  <1> DEFINE n == Len(outputData.tabs)
             next == IF shift THEN (TabIndex - 1 + n) % n ELSE (TabIndex + 1) % n
  <1>1. /\ n > 1 /\ selectedOutputHost' = outputData.tabs[next + 1]
        /\ UNCHANGED <<lastCommand, outputData, asked, dialogs, showRawJson>>
    BY DEF HandleTabKey
  <1>2. n \in Nat /\ DOMAIN outputData.tabs = 1..n
    <2>1. PICK k \in 0..Cardinality(TabHosts) : outputData.tabs \in [1..k -> TabHosts]
      BY DEF PanelSafe, PanelTypeOK, TabLists
    <2>2. k \in Nat
      BY FS_CardinalityType, TabsAssumption
    <2>3. outputData.tabs \in Seq(TabHosts)
      BY <2>1, <2>2
    <2> QED
      BY <2>3
  <1>3. TabIndex \in Int
    <2>1. CASE selectedOutputHost \notin Tabs
      BY <2>1 DEF TabIndex
    <2>2. CASE selectedOutputHost \in Tabs
      <3>1. PICK i \in 1..n : outputData.tabs[i] = selectedOutputHost
        BY <1>2, <2>2 DEF Tabs
      <3>2. i - 1 \in 0..n - 1 /\ (i - 1) + 1 = i
        BY <1>2, <3>1
      <3>3. \E j \in 0..n - 1 : outputData.tabs[j + 1] = selectedOutputHost
        BY <3>1, <3>2
      <3>4. TabIndex \in 0..n - 1
        BY <2>2, <3>3 DEF TabIndex
      <3> QED
        BY <1>2, <3>4
    <2> QED
      BY <2>1, <2>2
  <1>4. next \in 0..n - 1
    <2>1. \A k \in Int : k % n \in 0..n - 1
      <3> HIDE DEF n
      <3> QED
        BY <1>1, <1>2, SMT
    <2>2. TabIndex - 1 + n \in Int /\ TabIndex + 1 \in Int
      BY <1>2, <1>3
    <2>3. CASE shift
      BY <2>1, <2>2, <2>3
    <2>4. CASE ~shift
      BY <2>1, <2>2, <2>4
    <2> QED
      BY <2>3, <2>4
  <1>5. next + 1 \in 1..n
    BY <1>2, <1>4
  <1> QED
    BY <1>1, <1>2, <1>5 DEF Tabs

LEMMA PanelStep ==
  ASSUME PanelSafe, [PanelNext]_panelVars
  PROVE  PanelSafe'
  <1> USE DEF PanelSafe, PanelTypeOK, TabShown, Titled, Tabs
  <1>1. ASSUME NEW c \in Titles, Request(c) \/ NobodyOnline(c)
        PROVE  PanelSafe'
    <2>1. /\ c \in Titles \ Streams /\ lastCommand' = c /\ dialogs' \subseteq Dialogs
          /\ UNCHANGED <<outputData, selectedOutputHost, showRawJson>>
          /\ \/ asked' = c
             \/ asked' = asked /\ asked = NoCommand /\ c # "Ping"
      BY <1>1 DEF Request, NobodyOnline, Give
    <2>2. NoCommand \notin Titles
      BY DEF NoCommand, Titles
    <2> QED
      BY <2>1, <2>2
  <1>2. ASSUME NEW tabs \in TabLists, AnswerCame(tabs)
        PROVE  PanelSafe'
    <2>1. /\ asked \in Titles /\ asked' = NoCommand /\ Show(asked, tabs)
          /\ UNCHANGED <<lastCommand, showRawJson>> /\ dialogs' \subseteq Dialogs
      BY <1>2 DEF AnswerCame
    <2>2. /\ outputData' \in [of : Titles \union {NoCommand}, tabs : TabLists]
          /\ selectedOutputHost' \in TabHosts \union {NoTab}
          /\ TabShown' /\ outputData'.of = asked
      BY <2>1, ShowsTab
    <2>3. lastCommand' = "Ping" => asked = "Ping"
      BY <1>2, <2>1 DEF AnswerCame, Streams
    <2> QED
      BY <2>1, <2>2, <2>3
  <1>3. CASE AnswerFailed
    BY <1>3 DEF AnswerFailed, Streams
  <1>4. ASSUME NEW tabs \in TabLists, NEW c \in Streams, Stream(c, tabs)
        PROVE  PanelSafe'
    <2>1. c \in Titles /\ c # "Ping"
      BY DEF Streams, Titles
    <2>2. /\ lastCommand' = c /\ Show(c, tabs) /\ UNCHANGED <<asked, dialogs, showRawJson>>
      BY <1>4 DEF Stream
    <2>3. /\ outputData' \in [of : Titles \union {NoCommand}, tabs : TabLists]
          /\ selectedOutputHost' \in TabHosts \union {NoTab} /\ TabShown'
      BY <2>1, <2>2, ShowsTab
    <2> QED
      BY <2>1, <2>2, <2>3
  <1>5. ASSUME NEW k \in Dialogs, OpenDialog(k) \/ CloseDialog(k)
        PROVE  PanelSafe'
    BY <1>5 DEF OpenDialog, CloseDialog
  <1>6. CASE HandleEscapeKey
    BY <1>6 DEF HandleEscapeKey
  <1>7. ASSUME NEW h \in Tabs, ClickTab(h)
        PROVE  PanelSafe'
    <2>1. h \in TabHosts
      BY TabsAreHosts
    <2> QED
      BY <1>7, <2>1 DEF ClickTab
  <1>8. ASSUME NEW shift \in BOOLEAN, HandleTabKey(shift)
        PROVE  PanelSafe'
    <2>1. /\ UNCHANGED <<lastCommand, outputData, asked, dialogs, showRawJson>>
          /\ selectedOutputHost' \in Tabs
      BY <1>8, KeyFindsTab
    <2>2. Tabs \subseteq TabHosts
      BY TabsAreHosts
    <2> QED
      BY <2>1, <2>2
  <1>9. CASE ToggleRawJson
    BY <1>9 DEF ToggleRawJson
  <1>10. CASE UNCHANGED panelVars
    BY <1>10 DEF panelVars
  <1> QED
    BY <1>1, <1>2, <1>3, <1>4, <1>5, <1>6, <1>7, <1>8, <1>9, <1>10 DEF PanelNext

\* One of the tabs is chosen as long as there are any, and what is in it can be shown by
\* the view of the last command, whatever failed, came late or was for other hosts.
THEOREM PanelShows == PanelSpec => []PanelInv
  BY PanelStart, PanelStep, SafeFits, PTL DEF PanelSpec

-----------------------------------------------------------------------------
(* Height                                                                  *)

LEMMA HeightStart ==
  ASSUME HeightInit
  PROVE  HeightInv
  <1>1. innerHeight \in Nat /\ MinHeight \in Nat
    BY HeightAssumption DEF HeightInit
  <1>2. innerHeight \div 2 \in Nat
    BY <1>1, SMT
  <1> QED
    BY <1>1, <1>2 DEF HeightInit, HeightInv, HeightTypeOK

LEMMA HeightStep ==
  ASSUME HeightInv, [HeightNext]_heightVars
  PROVE  HeightInv'
  <1> USE HeightAssumption DEF HeightInv, HeightTypeOK
  <1>1. CASE Restore
    BY <1>1 DEF Restore, TargetHeight
  <1>2. CASE Minimize
    BY <1>2 DEF Minimize
  <1>3. CASE HandleSpacebarKey
    BY <1>1, <1>3 DEF HandleSpacebarKey
  <1>4. CASE HandleResizeStart \/ HandleResizeEnd
    BY <1>4 DEF HandleResizeStart, HandleResizeEnd
  <1>5. ASSUME NEW h \in 0..innerHeight, HandleResizeMove(h)
        PROVE  HeightInv'
    BY <1>5 DEF HandleResizeMove
  <1>6. ASSUME NEW w \in Windows, WindowResized(w)
        PROVE  HeightInv'
    BY <1>6 DEF WindowResized
  <1>7. CASE UNCHANGED heightVars
    BY <1>7 DEF heightVars
  <1> QED
    BY <1>1, <1>2, <1>3, <1>4, <1>5, <1>6, <1>7 DEF HeightNext, ToggleMinimizePanel

\* Minimised by one of the two and restored by either, the panel has the height it had; for
\* any window and whatever was dragged in between.
THEOREM HeightComesBack == HeightSpec => PanelRestores
  <1> DEFINE Back ==
        statusPanelHeight <= MinHeight /\ (ToggleMinimizePanel \/ HandleSpacebarKey) =>
          /\ saved # 0 => statusPanelHeight' = saved
          /\ innerHeight \div 2 > MinHeight => statusPanelHeight' > MinHeight
  <1>1. ASSUME HeightInv, statusPanelHeight <= MinHeight, ToggleMinimizePanel \/ HandleSpacebarKey
        PROVE  /\ saved # 0 => statusPanelHeight' = saved
               /\ innerHeight \div 2 > MinHeight => statusPanelHeight' > MinHeight
    <2>1. ~(statusPanelHeight > MinHeight)
      BY <1>1, HeightAssumption DEF HeightInv, HeightTypeOK
    <2>2. Restore
      BY <1>1, <2>1 DEF ToggleMinimizePanel, Minimize, HandleSpacebarKey
    <2>3. statusPanelHeight' = TargetHeight
      BY <2>2 DEF Restore
    <2> QED
      BY <1>1, <2>3, HeightAssumption DEF TargetHeight, HeightInv, HeightTypeOK
  <1>2. HeightInv => [Back]_heightVars
    BY <1>1
  <1> QED
    BY <1>2, HeightStart, HeightStep, PTL DEF HeightSpec, PanelRestores

-----------------------------------------------------------------------------
(* The page                                                                *)

\* A behaviour of the page is one of each of its parts: what the modules of the parts
\* promise holds of the page.
THEOREM PageIsItsParts == PageSpec => Spec /\ SelSpec /\ PanelSpec /\ HeightSpec
  <1>1. PageInit => Init /\ SelInit /\ PanelInit /\ HeightInit
    BY DEF PageInit
  <1>2. [PageNext]_pageVars =>
          [Next]_vars /\ [SelNext]_selVars /\ [PanelNext]_panelVars /\ [HeightNext]_heightVars
    BY DEF PageNext, pageVars
  <1> QED
    BY <1>1, <1>2, PTL DEF PageSpec, Spec, SelSpec, PanelSpec, HeightSpec
=============================================================================
