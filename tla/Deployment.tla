----------------------------- MODULE Deployment -----------------------------
(***************************************************************************)
(* What whoever asks for a deployment may expect: that what is deployed    *)
(* is one of the specs that were asked for, none older than the last that  *)
(* was reported as available, and that a report is true when it is made.   *)
(* From where the one that deploys knows the spec, how often it deploys,   *)
(* and what it does about failures, is not said; that it may deploy an     *)
(* outdated spec, as long as no newer one was reported, is.                *)
(***************************************************************************)
EXTENDS Naturals

\* A spec has the number of the request that asked for it, and that of its owner is the
\* number of the request that created the owner.
None == [owner |-> 0, of |-> 0]

VARIABLES
    wanted,         \* the spec that is asked for, or None
    newest,         \* the number of requests so far
    have,           \* the spec that is deployed, or None
    told,           \* the spec last reported as available
    lost            \* somebody else removed what was deployed

dvars == <<wanted, newest, have, told, lost>>

DInit == wanted = None /\ newest = 0 /\ have = None /\ told = 0 /\ lost = FALSE

\* Whoever is not there is created by the first request.
Request ==
    /\ newest' = newest + 1
    /\ wanted' = [owner |-> IF wanted = None THEN newest + 1 ELSE wanted.owner, of |-> newest + 1]
    /\ UNCHANGED <<have, told, lost>>

Withdraw == wanted' = None /\ UNCHANGED <<newest, have, told, lost>>

\* Not before what was reported; and what has the number of the spec that is asked for, is it.
Deploy(s) ==
    /\ told <= s.of /\ s.of <= newest /\ 0 < s.owner /\ s.owner <= s.of
    /\ s.of = wanted.of => s = wanted
    /\ have' = s /\ lost' = FALSE
    /\ UNCHANGED <<wanted, newest, told>>

\* What belongs to nobody goes.
Collect == have.owner # wanted.owner /\ have' = None /\ UNCHANGED <<wanted, newest, told, lost>>

Remove == have' = None /\ lost' = TRUE /\ UNCHANGED <<wanted, newest, told>>

Report ==
    /\ wanted # None /\ (have = wanted \/ lost)
    /\ told' = wanted.of
    /\ UNCHANGED <<wanted, newest, have, lost>>

DNext ==
    \/ Request \/ Withdraw \/ Collect \/ Remove \/ Report
    \/ \E u, g \in 1..newest : Deploy([owner |-> u, of |-> g])

DSpec == DInit /\ [][DNext]_dvars
=============================================================================
