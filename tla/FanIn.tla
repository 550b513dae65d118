------------------------------- MODULE FanIn -------------------------------
(***************************************************************************)
(* What a stream of lines promises to whoever is behind it, at both ends:  *)
(* a relay session of the web UI to the browser (the lines of several      *)
(* hosts), a session of an adapter to the web UI (the lines of one).       *)
(* The order between hosts is free.  Each host's lines come once, in their *)
(* order and without a gap, and "websocket closed" is said of a host only  *)
(* after its last line, unless the host was given up on suspicion (a ping  *)
(* to it failed) while it could still talk.                                *)
(***************************************************************************)
EXTENDS Naturals

CONSTANT Sources    \* who is read from: hosts, and the browser, whose pings are answered

VARIABLES
    accepted,       \* accepted[s]: lines read from s
    given,          \* given[s]: lines of s the one behind has received
    told,           \* sources said to have closed
    suspect         \* sources given up on suspicion

fvars == <<accepted, given, told, suspect>>

FInit ==
    /\ accepted = [s \in Sources |-> 0]
    /\ given = [s \in Sources |-> 0]
    /\ told = {}
    /\ suspect = {}

\* A source that was told closed, and was not merely suspected, has no more to say.
Accept(s) ==
    /\ s \notin told \ suspect
    /\ accepted' = [accepted EXCEPT ![s] = @ + 1]
    /\ UNCHANGED <<given, told, suspect>>

Deliver(s) ==
    /\ s \notin told \ suspect
    /\ given[s] < accepted[s]
    /\ given' = [given EXCEPT ![s] = @ + 1]
    /\ UNCHANGED <<accepted, told, suspect>>

Tell(s) ==
    /\ s \in suspect \/ given[s] = accepted[s]
    /\ told' = told \union {s}
    /\ UNCHANGED <<accepted, given, suspect>>

Suspect(s) ==
    /\ suspect' = suspect \union {s}
    /\ UNCHANGED <<accepted, given, told>>

FNext == \E s \in Sources : Accept(s) \/ Deliver(s) \/ Tell(s) \/ Suspect(s)

FSpec == FInit /\ [][FNext]_fvars
=============================================================================
