----------------------------- MODULE BrowserPage -----------------------------
(***************************************************************************)
(* The page (web-ui/src/App.tsx), whose parts keep their state apart: the  *)
(* commands and their streams, the selection, the panel of outputs and its *)
(* height.  What a part reads of another is left open in its module (a     *)
(* command finds somebody online or nobody, an answer is of any hosts), so *)
(* a behaviour of the page is, for each part, one of the part's module     *)
(* with the steps of the others between; those change nothing of it.  The  *)
(* parts are explored side by side: each behaviour is of one of them, and  *)
(* in the others nothing varies.                                           *)
(***************************************************************************)
EXTENDS CommandConsole, PeerSelection, OutputPanel, PanelHeight

VARIABLE part   \* the part whose behaviour this is

pageVars == <<part, vars, selVars, panelVars, heightVars>>

PageInit ==
    /\ part \in {"commands", "selection", "outputs", "height"}
    /\ Init /\ SelInit /\ PanelInit /\ HeightInit
    /\ part # "height" => \A w \in Windows : innerHeight <= w

PageNext ==
    /\ UNCHANGED part
    /\ \/ part = "commands" /\ Next /\ UNCHANGED <<selVars, panelVars, heightVars>>
       \/ part = "selection" /\ SelNext /\ UNCHANGED <<vars, panelVars, heightVars>>
       \/ part = "outputs" /\ PanelNext /\ UNCHANGED <<vars, selVars, heightVars>>
       \/ part = "height" /\ HeightNext /\ UNCHANGED <<vars, selVars, panelVars>>

\* The fairness is that of the timer and the sockets; the user need not do anything.
PageSpec == PageInit /\ [][PageNext]_pageVars /\ Fairness
=============================================================================
