------------------------------- MODULE Gather -------------------------------
(***************************************************************************)
(* What a page may expect of a request that asks several targets: as many  *)
(* calls as it named targets, each of which comes to something once, and,  *)
(* when every one has, a single reply that says of each target, in the     *)
(* order in which they were asked, whether its answer came whole.  How the *)
(* calls run, who waits for whom, and what is kept meanwhile, is not said. *)
(* An answer that is not what was expected may end the process.            *)
(***************************************************************************)
EXTENDS Naturals

CONSTANT Targets    \* the numbers targets may have: 1..MaxTargets

VARIABLES
    phase,          \* "reading" the request, "gathering", "replied", "refused"
    asked,          \* the number of targets
    outcome,        \* outcome[t]: what the call of t came to
    reply,          \* the reply, <<>> before there is one
    dead            \* the process has ended

gvars == <<phase, asked, outcome, reply, dead>>

GInit ==
    /\ phase = "reading" /\ asked = 0
    /\ outcome = [t \in Targets |-> "none"]
    /\ reply = <<>> /\ dead = FALSE

Ask(k) ==
    /\ phase = "reading" /\ phase' = "gathering"
    /\ asked' = k
    /\ UNCHANGED <<outcome, reply, dead>>

Decline ==
    /\ phase = "reading" /\ phase' = "refused"
    /\ UNCHANGED <<asked, outcome, reply, dead>>

\* A call ends: while the request is open, and once.
Settle(t) ==
    /\ phase = "gathering" /\ ~dead
    /\ t \in 1..asked /\ outcome[t] = "none"
    /\ \/ /\ \E o \in {"failed", "broken", "whole"} : outcome' = [outcome EXCEPT ![t] = o]
          /\ UNCHANGED dead
       \/ outcome' = [outcome EXCEPT ![t] = "odd"] /\ dead' = TRUE
    /\ UNCHANGED <<phase, asked, reply>>

\* An answer that could not be decoded is fatal, sooner or later.
Die ==
    /\ ~dead /\ \E t \in 1..asked : outcome[t] = "broken"
    /\ dead' = TRUE
    /\ UNCHANGED <<phase, asked, outcome, reply>>

Said(o) == IF o = "whole" THEN "whole" ELSE "missing"

Answer ==
    /\ phase = "gathering" /\ ~dead
    /\ \A t \in 1..asked : outcome[t] \in {"failed", "broken", "whole"}
    /\ phase' = "replied"
    /\ reply' = [i \in 1..asked |-> [target |-> i, answer |-> Said(outcome[i])]]
    /\ UNCHANGED <<asked, outcome, dead>>

GNext ==
    \/ \E k \in Targets \union {0} : Ask(k)
    \/ Decline \/ Die \/ Answer
    \/ \E t \in Targets : Settle(t)

GSpec == GInit /\ [][GNext]_gvars
=============================================================================
