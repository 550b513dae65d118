---------------------------- MODULE PeerSelection ----------------------------
(***************************************************************************)
(* Which hosts and peers of the map are selected, drawn and pinged         *)
(* (web-ui/src/App.tsx, hooks/useOnlineFilter.ts, SidebarPanel.tsx).  The  *)
(* map is fetched once.  A handler changes a selection; the effects that   *)
(* depend on what it changed run after the page was drawn and before the   *)
(* next handler, in the order they are written, and correct the selected   *)
(* peers.  Lists and sizes are compared, never the sets.                   *)
(***************************************************************************)
EXTENDS Naturals, FiniteSets

CONSTANTS
    Hosts,      \* machines that may run an adapter
    Peers       \* the other machines of the tailnet

ASSUME MachinesAssumption == IsFiniteSet(Hosts \union Peers) /\ Hosts \intersect Peers = {}

Machines == Hosts \union Peers

\* A host reports its peers, which it is not one of.
Wires == {w \in Hosts \X Machines : w[1] # w[2]}

VARIABLES
    fetched,            \* loading and error: "loading", "error" or "done"
    hosts, nodes,       \* the machines the page knows as hosts, and as peers of some host
    edges,              \* pairs of a host and a peer of it
    offline,            \* nodes whose status says so
    selectedHosts, selectedTargets,
    hideOfflinePeers,
    due                 \* effects whose dependencies changed

map == <<fetched, hosts, nodes, edges, offline>>
selVars == <<map, selectedHosts, selectedTargets, hideOfflinePeers, due>>

Effects == {"all", "offline", "reachable"}

SelInit ==
    /\ fetched = "loading"
    /\ hosts = {} /\ nodes = {} /\ edges = {} /\ offline = {}
    /\ selectedHosts = {} /\ selectedTargets = {}
    /\ hideOfflinePeers = TRUE /\ due = {}

-----------------------------------------------------------------------------
(* What follows from the selection                                         *)

\* A machine no host has a status of counts as online.
IsOnline(m) == m \notin offline

TargetNodes == nodes \ hosts

\* The peers the page lists: those of a selected host, without the offline ones if they
\* are hidden.
ReachableTargets ==
    {t \in TargetNodes : /\ \E h \in selectedHosts : <<h, t>> \in edges
                         /\ hideOfflinePeers => IsOnline(t)}

-----------------------------------------------------------------------------
(* The map, and the effects                                                *)

\* The server answers with the hosts it knows and the peers that the adapters reported.
\* Without peers the list of nodes is null, which the page takes for an error.
Load ==
    /\ due = {} /\ fetched = "loading" /\ fetched' = "done"
    /\ edges' \in SUBSET Wires \ {{}} /\ nodes' = {w[2] : w \in edges'}
    /\ offline' \in SUBSET nodes'
    /\ hosts' \in SUBSET Hosts /\ selectedHosts' = hosts'
    /\ due' = Effects
    /\ UNCHANGED <<selectedTargets, hideOfflinePeers>>

LoadFails ==
    /\ due = {} /\ fetched = "loading" /\ fetched' = "error"
    /\ UNCHANGED <<hosts, nodes, edges, offline, selectedHosts, selectedTargets, hideOfflinePeers, due>>

\* Select all targets, online ones if the others are hidden.
AllTargets == {t \in TargetNodes : hideOfflinePeers => IsOnline(t)}

\* Deselect the offline peers if they are hidden.
WithoutHidden(T) == IF hideOfflinePeers THEN {t \in T : IsOnline(t)} ELSE T

\* The effects: select all once there are nodes and hosts, deselect the offline peers, and
\* clean up those that are not reachable.
Settle ==
    /\ due # {} /\ due' = {}
    /\ LET all == IF "all" \in due /\ nodes # {} /\ hosts # {} THEN AllTargets ELSE selectedTargets
           seen == IF "offline" \in due THEN WithoutHidden(all) ELSE all
       IN selectedTargets' = IF "reachable" \in due THEN seen \intersect ReachableTargets ELSE seen
    /\ UNCHANGED <<map, selectedHosts, hideOfflinePeers>>

-----------------------------------------------------------------------------
(* Handlers                                                                *)

\* A change of the selected hosts, even to an equal set, is a new list of reachable peers.
SelectHosts(H) ==
    /\ selectedHosts' = H /\ due' = {"reachable"}
    /\ UNCHANGED <<map, hideOfflinePeers>>

SelectTargets(T) ==
    /\ selectedTargets' = T
    /\ UNCHANGED <<map, selectedHosts, hideOfflinePeers, due>>

\* A search only shortens the lists that are shown.
HostList == hosts
TargetList == ReachableTargets

ToggleHost(h) ==
    /\ due = {} /\ h \in HostList
    /\ SelectHosts(IF h \in selectedHosts THEN selectedHosts \ {h} ELSE selectedHosts \union {h})
    /\ UNCHANGED selectedTargets

ToggleAllHosts ==
    /\ due = {}
    /\ SelectHosts(IF Cardinality(selectedHosts) = Cardinality(hosts) THEN {} ELSE hosts)
    /\ UNCHANGED selectedTargets

\* The peer's box is on the list of those that are reachable.
ToggleTarget(t) ==
    /\ due = {} /\ t \in TargetList
    /\ SelectTargets(IF t \in selectedTargets
                     THEN selectedTargets \ {t} ELSE selectedTargets \union {t})

\* A button that deselects as soon as some peer is selected.
ToggleAllIfAny ==
    /\ due = {} /\ ReachableTargets # {}
    /\ SelectTargets(IF selectedTargets # {} THEN {} ELSE ReachableTargets)

\* The button is off when no peer is reachable.
ToggleAllTargets ==
    /\ due = {} /\ ReachableTargets # {}
    /\ SelectTargets(IF Cardinality(selectedTargets) = Cardinality(ReachableTargets)
                     THEN {} ELSE ReachableTargets)

\* Every effect depends on the box: the peers are selected anew, whatever was unticked.
ToggleHideOffline ==
    /\ due = {} /\ hideOfflinePeers' = ~hideOfflinePeers /\ due' = Effects
    /\ UNCHANGED <<map, selectedHosts, selectedTargets>>

\* Hosts that are all selected already are no change.
ResetUnnoticed ==
    /\ due = {} /\ selectedHosts' = hosts /\ selectedTargets' = TargetNodes
    /\ due' = IF selectedHosts = hosts THEN {} ELSE {"reachable"}
    /\ UNCHANGED <<map, hideOfflinePeers>>

\* All peers are selected, and it is left to the effect to take out those that cannot be.
SelectEverything == due = {} /\ SelectHosts(hosts) /\ selectedTargets' = TargetNodes

\* The button and the key R, which have a copy of the code each.
Reset == SelectEverything
HandleResetKey == SelectEverything

-----------------------------------------------------------------------------
(* What is drawn, and what is pinged                                       *)

DrawnEdges == {e \in edges : e[1] \in selectedHosts}

DrawnNodes ==
    {n \in nodes : n \in selectedHosts \/ (n \in selectedTargets /\ selectedHosts # {})}

Joined(h, g) == <<h, g>> \in edges \/ <<g, h>> \in edges

SelectedHostsHaveEdges == \E h, g \in selectedHosts : h # g /\ Joined(h, g)

\* An edge is seen between two nodes that are.
Seen == {e \in DrawnEdges : {e[1], e[2]} \subseteq DrawnNodes}

\* Without a request that is out; that is the console's.
PingDisabled == selectedHosts = {} \/ (selectedTargets = {} /\ ~SelectedHostsHaveEdges)

OnlineHosts == {h \in selectedHosts : IsOnline(h)}

\* The peers only.
PeersOnly(h) == {t \in selectedTargets : IsOnline(t)}

TargetsOf(h) ==
    {t \in selectedTargets : IsOnline(t)} \union {g \in OnlineHosts \ {h} : Joined(h, g)}

\* getTargetedCombinations, of the hosts and peers that are online.
Combinations == {e \in OnlineHosts \X Machines : e[2] \in TargetsOf(e[1]) /\ e \in edges}

\* The menu of a drawn node offers it for hosts.
FilterToHost(h) ==
    /\ due = {} /\ h \in hosts \intersect DrawnNodes
    /\ SelectHosts({h})
    /\ UNCHANGED selectedTargets

-----------------------------------------------------------------------------
SelNext ==
    \/ Load \/ LoadFails \/ Settle
    \/ \E h \in hosts : ToggleHost(h) \/ FilterToHost(h)
    \/ \E t \in TargetList : ToggleTarget(t)
    \/ ToggleAllHosts \/ ToggleAllTargets \/ ToggleHideOffline \/ Reset \/ HandleResetKey

SelSpec == SelInit /\ [][SelNext]_selVars

-----------------------------------------------------------------------------
(* Properties                                                              *)

SelTypeOK ==
    /\ fetched \in {"loading", "error", "done"}
    /\ hosts \subseteq Hosts /\ nodes \subseteq Machines /\ edges \subseteq Wires
    /\ offline \subseteq nodes /\ \A e \in edges : e[2] \in nodes
    /\ fetched # "done" => hosts = {} /\ nodes = {}
    /\ selectedHosts \subseteq hosts /\ selectedTargets \subseteq TargetNodes
    /\ hideOfflinePeers \in BOOLEAN /\ due \in {{}, {"reachable"}, Effects}

\* Whatever the selection went through, once the effects have run no peer is selected that
\* is not on the list: none that no selected host can reach, and none that is hidden.
\* The code keeps this only by effects that run at the right changes.
SelInv == SelTypeOK /\ ("reachable" \notin due => selectedTargets \subseteq ReachableTargets)

\* "Select All" selects all and "Deselect All" none, though the code compares only the
\* sizes of a list and of a set that was chosen from an earlier list.
AllMeansAll ==
    [][/\ ToggleAllTargets =>
             selectedTargets' = IF selectedTargets = ReachableTargets THEN {} ELSE ReachableTargets
       /\ ToggleAllHosts =>
             selectedHosts' = IF selectedHosts = hosts THEN {} ELSE hosts]_selVars

\* The ping asks for exactly the edges that are seen between machines that are online,
\* though the two are computed apart.  The one exception are the hosts that are nobody's
\* peer: the server makes nodes of peers only (peermap.go:89-106), so such a host, as the
\* only adapter always is, is not drawn, and its edges to what is drawn are asked for
\* unseen.  With offline peers hidden and the selected hosts online, the button is never on
\* with nothing to ask.
PingsAsDrawn ==
    /\ {e \in Combinations : e[1] \in nodes} =
          {e \in Seen : IsOnline(e[1]) /\ IsOnline(e[2])}
    /\ {e \in Combinations : e[1] \notin nodes} =
          {e \in DrawnEdges : e[1] \notin nodes /\ e[2] \in DrawnNodes /\ IsOnline(e[2])}
    /\ due = {} /\ hideOfflinePeers /\ OnlineHosts = selectedHosts /\ ~PingDisabled
          => Combinations # {}
=============================================================================
