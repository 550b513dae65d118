------------------------- MODULE TSymbioteController -------------------------
(***************************************************************************)
(* The controller that keeps a stateful set with the web UI for a          *)
(* TSymbiote (operator/internal/controller/tsymbiote/                      *)
(* tsymbiote_controller.go), and reports on it in the resource's status.   *)
(* It reads the resource from a cache that follows the API server, and     *)
(* writes the status of the copy it has read, which the API server refuses *)
(* when the resource has changed since.  A stateful set whose owner is     *)
(* gone is deleted by the API server, some time later.                     *)
(***************************************************************************)
EXTENDS Naturals

CONSTANTS
    MaxGenerations, \* bound: times the resource is created or edited
    MaxMishaps      \* bound: failures of the API, crashes, stateful sets deleted by hand

ASSUME CtrlBoundsAssumption == MaxGenerations \in Nat /\ MaxMishaps \in Nat

VARIABLES
    resource,           \* the TSymbiote at the API server
    generations,        \* the number of specs so far, by which they are told apart
    sts,                \* the stateful set: whom it belongs to, and the spec it was built from
    cachedResource,
    stsEvent,           \* the manager has not been told of a change of the stateful set
    managing,           \* whether the operator runs
    due,                \* the resource is in the work queue
    doing,              \* the reconcile under way, and its copy of the resource
    claimed,            \* the generation last reported as Available (history)
    removed,            \* the stateful set was deleted by hand since it was applied (history)
    mishaps

ctrlCluster == <<resource, generations, sts, stsEvent>>
ctrlHistory == <<claimed, removed>>
ctrlVars == <<ctrlCluster, cachedResource, managing, due, doing, ctrlHistory, mishaps>>

\* A uid is the generation the resource was created with; a version is counted by every
\* write to it, of the status too.
Conditions == {"Progressing", "Available", "Degraded"}
Resources == [uid : Nat, generation : Nat, version : Nat, conditions : SUBSET Conditions]
Gone == [uid |-> 0, generation |-> 0, version |-> 0, conditions |-> {}]
NoSts == [owner |-> 0, of |-> 0]

\* buildStatefulSet, with its owner.
Desired(o) == [owner |-> o.uid, of |-> o.generation]

StsBecomes(s) == sts' = s /\ stsEvent' = (stsEvent \/ s # sts)

Idle == [at |-> "idle", copy |-> Gone]
Now(s, o) == [at |-> s, copy |-> o]

CtrlInit ==
    /\ resource = Gone /\ generations = 0 /\ sts = NoSts
    /\ cachedResource = Gone /\ stsEvent = FALSE
    /\ managing = TRUE /\ due = FALSE /\ doing = Idle
    /\ claimed = 0 /\ removed = FALSE /\ mishaps = 0

\* One more of what goes wrong.
Mishap == mishaps < MaxMishaps /\ mishaps' = mishaps + 1

-----------------------------------------------------------------------------
(* The cluster                                                             *)

NextGeneration == generations < MaxGenerations /\ generations' = generations + 1

CreateResource ==
    /\ resource = Gone /\ NextGeneration
    /\ resource' = [uid |-> generations + 1, generation |-> generations + 1,
                    version |-> 1, conditions |-> {}]
    /\ UNCHANGED <<sts, stsEvent, cachedResource, managing, due, doing, ctrlHistory, mishaps>>

EditResource ==
    /\ resource # Gone /\ NextGeneration
    /\ resource' = [resource EXCEPT !.generation = generations + 1, !.version = @ + 1]
    /\ UNCHANGED <<sts, stsEvent, cachedResource, managing, due, doing, ctrlHistory, mishaps>>

DeleteResource ==
    /\ resource # Gone /\ resource' = Gone
    /\ UNCHANGED <<generations, sts, stsEvent, cachedResource, managing, due, doing, ctrlHistory,
                   mishaps>>

\* The garbage collector: the owner is gone, or another of its name is there.
CollectSts ==
    /\ sts # NoSts /\ sts.owner # resource.uid
    /\ StsBecomes(NoSts)
    /\ UNCHANGED <<resource, generations, cachedResource, managing, due, doing, ctrlHistory, mishaps>>

\* Somebody else deletes the stateful set.
RemoveSts ==
    /\ sts # NoSts /\ Mishap
    /\ StsBecomes(NoSts) /\ removed' = TRUE
    /\ UNCHANGED <<resource, generations, cachedResource, managing, due, doing, claimed>>

-----------------------------------------------------------------------------
(* The manager                                                             *)

\* For: every change of a resource queues it, one of its status too.
SeesResource ==
    /\ managing /\ cachedResource # resource
    /\ cachedResource' = resource /\ due' = TRUE
    /\ UNCHANGED <<ctrlCluster, managing, doing, ctrlHistory, mishaps>>

\* Owns: so does every change of its stateful set.
SeesSts ==
    /\ managing /\ stsEvent
    /\ stsEvent' = FALSE /\ due' = TRUE
    /\ UNCHANGED <<resource, generations, sts, cachedResource, managing, doing, ctrlHistory, mishaps>>

OperatorEnds ==
    /\ managing /\ Mishap /\ managing' = FALSE
    /\ due' = FALSE /\ doing' = Idle
    /\ UNCHANGED <<ctrlCluster, cachedResource, ctrlHistory>>

\* The caches are filled, and whatever is in them is new to the controller.
OperatorStarts ==
    /\ ~managing /\ managing' = TRUE
    /\ cachedResource' = resource /\ stsEvent' = FALSE
    /\ due' = (resource # Gone \/ sts # NoSts)
    /\ UNCHANGED <<resource, generations, sts, doing, ctrlHistory, mishaps>>

-----------------------------------------------------------------------------
(* Reconcile                                                               *)

\* After an error the resource is queued again.
Errs == doing' = Idle /\ due' = TRUE

\* The API server takes an update only of the version it has.
Current(o) == resource.uid = o.uid /\ resource.version = o.version

\* The resource after a condition was set.  Nothing is written if it was there as it is.
WithCondition(c) ==
    IF c \in resource.conditions THEN resource
    ELSE [resource EXCEPT !.conditions = @ \union {c}, !.version = @ + 1]

\* The resource is read, and given a status if it has none yet.
TakeResource ==
    /\ managing /\ due /\ doing = Idle /\ due' = FALSE
    /\ doing' = IF cachedResource = Gone THEN Idle
                ELSE Now(IF cachedResource.conditions = {} THEN "init" ELSE "apply", cachedResource)
    /\ UNCHANGED <<ctrlCluster, cachedResource, managing, ctrlHistory, mishaps>>

\* A failure to write the first status ends the reconcile without an error.
InitAndForget ==
    /\ doing.at = "init"
    /\ \/ /\ Current(doing.copy) /\ resource' = WithCondition("Progressing")
          /\ \/ doing' = Now("refetch", resource') /\ UNCHANGED mishaps
             \/ Mishap /\ doing' = Idle
       \/ ~Current(doing.copy) /\ doing' = Idle /\ UNCHANGED <<resource, mishaps>>
       \/ Mishap /\ doing' = Idle /\ UNCHANGED resource
    /\ UNCHANGED <<generations, sts, stsEvent, cachedResource, managing, due, ctrlHistory>>

\* The first status; an error may hide that it was written.
InitStatus ==
    /\ doing.at = "init"
    /\ \/ /\ Current(doing.copy) /\ resource' = WithCondition("Progressing")
          /\ \/ doing' = Now("refetch", resource') /\ UNCHANGED <<due, mishaps>>
             \/ Mishap /\ Errs
       \/ ~Current(doing.copy) /\ Errs /\ UNCHANGED <<resource, mishaps>>
       \/ Mishap /\ Errs /\ UNCHANGED resource
    /\ UNCHANGED <<generations, sts, stsEvent, cachedResource, managing, ctrlHistory>>

\* The resource is read again, from the cache, which need not have seen the update.
Refetch ==
    /\ doing.at = "refetch"
    /\ doing' = IF cachedResource = Gone THEN Now("blame", doing.copy)
                ELSE Now("apply", cachedResource)
    /\ UNCHANGED <<ctrlCluster, cachedResource, managing, due, ctrlHistory, mishaps>>

\* ApplyWithOwnerRef, which replaces what is there; it may fail before or after its effect.
ApplySts ==
    /\ doing.at = "apply"
    /\ \/ /\ StsBecomes(Desired(doing.copy)) /\ removed' = FALSE
          /\ \/ doing' = Now("report", doing.copy) /\ UNCHANGED mishaps
             \/ doing' = Now("blame", doing.copy) /\ Mishap
       \/ Mishap /\ doing' = Now("blame", doing.copy) /\ UNCHANGED <<sts, stsEvent, removed>>
    /\ UNCHANGED <<resource, generations, cachedResource, managing, due, claimed>>

\* UpdateStatusError: a failure to report the failure is only logged.  Another message is
\* another version.
ReportFailure ==
    /\ doing.at = "blame"
    /\ \/ /\ Current(doing.copy) /\ UNCHANGED mishaps
          /\ \/ resource' = WithCondition("Degraded")
             \/ /\ "Degraded" \in resource.conditions
                /\ resource' = [resource EXCEPT !.version = @ + 1]
       \/ ~Current(doing.copy) /\ UNCHANGED <<resource, mishaps>>
       \/ Mishap /\ UNCHANGED resource
    /\ Errs
    /\ UNCHANGED <<generations, sts, stsEvent, cachedResource, managing, ctrlHistory>>

\* A patch of the status, which is taken whatever version the copy has.
PatchReady ==
    /\ doing.at = "report"
    /\ \/ /\ resource # Gone
          /\ resource' = WithCondition("Available") /\ claimed' = resource.generation
          /\ \/ doing' = Idle /\ UNCHANGED <<due, mishaps>>
             \/ Mishap /\ Errs
       \/ resource = Gone /\ Errs /\ UNCHANGED <<resource, claimed, mishaps>>
       \/ Mishap /\ Errs /\ UNCHANGED <<resource, claimed>>
    /\ UNCHANGED <<generations, sts, stsEvent, cachedResource, managing, removed>>

\* The status says Available.  Degraded, if it was set, stays.
ReportReady ==
    /\ doing.at = "report"
    /\ \/ /\ Current(doing.copy)
          /\ resource' = WithCondition("Available") /\ claimed' = resource.generation
          /\ \/ doing' = Idle /\ UNCHANGED <<due, mishaps>>
             \/ Mishap /\ Errs
       \/ ~Current(doing.copy) /\ Errs /\ UNCHANGED <<resource, claimed, mishaps>>
       \/ Mishap /\ Errs /\ UNCHANGED <<resource, claimed>>
    /\ UNCHANGED <<generations, sts, stsEvent, cachedResource, managing, removed>>

-----------------------------------------------------------------------------
Users == CreateResource \/ EditResource \/ DeleteResource \/ RemoveSts
CtrlManager == SeesResource \/ SeesSts \/ OperatorEnds \/ OperatorStarts
CtrlReconcile == InitStatus \/ Refetch \/ ApplySts \/ ReportFailure \/ ReportReady

CtrlNext == Users \/ CollectSts \/ CtrlManager \/ TakeResource \/ CtrlReconcile

CtrlSpec == CtrlInit /\ [][CtrlNext]_ctrlVars

\* The operator is restarted and runs, its cache follows, the garbage collector does its
\* work.
CtrlFairness ==
    /\ WF_ctrlVars(OperatorStarts) /\ WF_ctrlVars(TakeResource) /\ WF_ctrlVars(CtrlReconcile)
    /\ WF_ctrlVars(SeesResource) /\ WF_ctrlVars(SeesSts) /\ WF_ctrlVars(CollectSts)

-----------------------------------------------------------------------------
(* Properties                                                              *)

CtrlTypeOK ==
    /\ resource \in Resources /\ cachedResource \in Resources
    /\ generations \in 0..MaxGenerations /\ claimed \in 0..MaxGenerations
    /\ sts \in [owner : Nat, of : Nat] /\ stsEvent \in BOOLEAN
    /\ managing \in BOOLEAN /\ due \in BOOLEAN /\ removed \in BOOLEAN
    /\ doing \in [at : {"idle", "init", "refetch", "apply", "blame", "report"}, copy : Resources]
    /\ mishaps \in 0..MaxMishaps

\* A spec that was reported as Available has its stateful set, and keeps it until the spec
\* is edited or somebody deletes the set: no reconcile, whatever its cache has, reports for
\* a spec it has not applied, nor goes back to an earlier spec or an earlier owner.
AvailableIsTrue ==
    resource # Gone /\ claimed = resource.generation => sts = Desired(resource) \/ removed

CtrlInv == CtrlTypeOK /\ AvailableIsTrue

\* Once nobody changes anything any more, and nothing fails, the stateful set becomes what
\* the spec says, and is reported as available; or it goes with its owner.
InStep ==
    IF resource = Gone THEN sts = NoSts
    ELSE sts = Desired(resource) /\ "Available" \in resource.conditions

Settles == <>[]InStep

\* A controller that waits for nothing has nothing left to do: when no event is on its way,
\* its queue is empty and its cache is not behind, the stateful set is what the spec says,
\* and was reported.  No failure, lost answer or refused update ends a reconcile for good,
\* and no edit or deletion that came during one is missed.
QuietIsDone ==
    managing /\ ~due /\ doing = Idle /\ ~stsEvent /\ cachedResource = resource /\ resource # Gone
        => InStep

\* The controller implements a deployment: every stateful set it applies was asked for, and
\* none goes back before a spec that was reported as Available, however old the copy a
\* reconcile works on, and whoever deletes and creates the resource in between.
Rollout == INSTANCE Deployment
             WITH wanted <- Desired(resource), newest <- generations,
                  have <- sts, told <- claimed, lost <- removed

OneDeployment == Rollout!DSpec

-----------------------------------------------------------------------------
(* Why Available is true: an inductive invariant.                          *)

\* What is known of a resource o that was read when the resource is r, and there have been
\* g specs.
CopyOf(o, r, g) ==
    /\ o.generation <= g /\ o.uid <= g
    /\ (o.generation = 0 <=> o = Gone) /\ (o.uid = 0 <=> o = Gone)
    /\ o.uid = r.uid =>
          /\ o.version <= r.version
          /\ o.version = r.version => o.generation = r.generation
    /\ o.generation = r.generation => o.uid = r.uid

\* The resource has the newest spec.
Copies ==
    /\ \A o \in {resource, cachedResource, doing.copy} : CopyOf(o, resource, generations)
    /\ resource # Gone => resource.generation = generations
    /\ ~managing => doing = Idle
    /\ doing.at # "idle" => doing.copy # Gone

\* As long as it is the same resource, the cache does not fall behind the reconcile.
CacheAhead ==
    doing.copy # Gone /\ doing.copy.uid = resource.uid =>
        cachedResource.generation >= doing.copy.generation

\* What was applied is there when it is reported.
Applied == doing.at = "report" /\ doing.copy.uid = resource.uid => sts = Desired(doing.copy) \/ removed

\* Once a spec is reported, nothing earlier is read.
Newer ==
    /\ claimed <= generations
    /\ resource # Gone /\ claimed = resource.generation =>
           /\ cachedResource.generation = claimed
           /\ doing.at # "idle" => doing.copy.generation = claimed

\* Until it is reported, what was applied is there, or the controller will hear of it.
Reported == doing.at = "report" /\ ~due /\ ~stsEvent => sts = Desired(doing.copy)

\* No copy of a resource is older than the spec last reported, nor names an owner that is
\* younger than itself.
NothingEarlier ==
    /\ cachedResource # Gone => cachedResource.generation >= claimed
    /\ doing.at # "idle" => doing.copy.generation >= claimed
    /\ \A o \in {resource, cachedResource, doing.copy} : o.uid <= o.generation

CtrlIInv == CtrlInv /\ Copies /\ CacheAhead /\ Applied /\ Newer
=============================================================================
