-------------------------- MODULE SecretsController --------------------------
(***************************************************************************)
(* How a pod gets its auth key: the webhook that injects the adapter into  *)
(* a pod and names the secret it wants (operator/internal/webhook/core/v1/ *)
(* pod_webhook.go), and the controller that makes a device key and applies *)
(* the secret (operator/internal/controller/secrets/secrets_controller.go).*)
(* The controller reads pods and secrets from a cache that follows the API *)
(* server, is called again after an error, and may crash at any point; the *)
(* API server deletes a secret whose owner is gone, some time later.       *)
(***************************************************************************)
EXTENDS Naturals, FiniteSets

CONSTANTS
    Names,          \* names of pods; a stateful set gives a new pod the old name
    NoSecret,
    MaxPods,        \* bound: pods created
    MaxFaults,      \* bound: failures, crashes, and reads of a cache that lags
    MaxRestarts     \* bound: containers that end by themselves

ASSUME BoundsAssumption == MaxPods \in Nat /\ MaxFaults \in Nat /\ MaxRestarts \in Nat

\* Pods are numbered as they are created; 0 is no pod.  A key is the pod it was made for
\* and its number among those.
Pods == 1..MaxPods
Keys == [for : Pods, nr : Nat \ {0}]
Secrets == [key : Keys, owner : Pods]
ASSUME NoSecretAssumption == NoSecret \notin Secrets

VARIABLES
    pod, secret,            \* the API server: the pod of a name, and its secret
    created,                \* the number of pods so far
    injected,               \* pods with both labels, and so with the name of a secret
    cachedPod, cachedSecret,
    up,                     \* whether the operator runs
    queue,                  \* names to be reconciled
    worker,                 \* the reconcile under way
    made,                   \* made[p]: keys made for p
    excused,                \* excused[p]: causes for another key (history)
    misled,                 \* pods that were taken for served because of an earlier
                            \* pod's secret (history)
    running,                \* pods whose container is logged in
    used,                   \* keys that have been used: they are for one login
    restarted,              \* pods whose container ended by itself
    refused,                \* <<p, s>>: p was refused with the key in secret s (history)
    faults, restarts

cluster == <<pod, secret, created, injected>>
cache == <<cachedPod, cachedSecret>>
containers == <<running, used, restarted, refused, restarts>>
vars == <<cluster, cache, up, queue, worker, made, excused, misled, containers, faults>>

Resting == [at |-> "idle"]
At(s, n, p) == [at |-> s, name |-> n, pod |-> p]

TypeOK ==
    /\ pod \in [Names -> Pods \union {0}] /\ secret \in [Names -> Secrets \union {NoSecret}]
    /\ created \in 0..MaxPods /\ injected \subseteq 1..created
    /\ cachedPod \in [Names -> Pods \union {0}]
    /\ cachedSecret \in [Names -> Secrets \union {NoSecret}]
    /\ up \in BOOLEAN /\ queue \subseteq Names
    /\ worker \in {Resting}
                  \union [at : {"check", "generate", "apply"}, name : Names, pod : Pods]
    /\ made \in [Pods -> Nat] /\ excused \in [Pods -> Nat] /\ misled \subseteq Pods
    /\ running \subseteq 1..created /\ used \subseteq Keys /\ restarted \subseteq 1..created
    /\ refused \subseteq Pods \X Secrets
    /\ faults \in 0..MaxFaults /\ restarts \in 0..MaxRestarts

Init ==
    /\ pod = [n \in Names |-> 0] /\ secret = [n \in Names |-> NoSecret]
    /\ created = 0 /\ injected = {}
    /\ cachedPod = pod /\ cachedSecret = secret
    /\ up = TRUE /\ queue = {} /\ worker = Resting
    /\ made = [p \in Pods |-> 0] /\ excused = [p \in Pods |-> 0]
    /\ misled = {}
    /\ running = {} /\ used = {} /\ restarted = {} /\ refused = {}
    /\ faults = 0 /\ restarts = 0

\* One more of what goes wrong.
Fault == faults < MaxFaults /\ faults' = faults + 1
Excuse(p) == excused' = [excused EXCEPT ![p] = @ + 1]

-----------------------------------------------------------------------------
(* The cluster                                                             *)

\* A labelled pod is created and the webhook fills it in: the adapter or the web UI gets
\* its key from the secret named after the pod.  Its failure is ignored, so a pod may go
\* without when the operator is down, or slow.
Create(n) ==
    /\ pod[n] = 0 /\ created < MaxPods
    /\ created' = created + 1
    /\ pod' = [pod EXCEPT ![n] = created + 1]
    /\ \/ up /\ injected' = injected \union {created + 1}
       \/ UNCHANGED injected
    /\ UNCHANGED <<secret, cache, up, queue, worker, made, excused, misled, containers, faults>>

Delete(n) ==
    /\ pod[n] # 0
    /\ pod' = [pod EXCEPT ![n] = 0]
    /\ running' = running \ {pod[n]}
    /\ UNCHANGED <<secret, created, injected, cache, up, queue, worker, made, excused, misled,
                   used, restarted, refused, restarts, faults>>

\* The garbage collector: the pod that owns the secret is gone.
Collect(n) ==
    /\ secret[n] # NoSecret /\ secret[n].owner # pod[n]
    /\ secret' = [secret EXCEPT ![n] = NoSecret]
    /\ UNCHANGED <<pod, created, injected, cache, up, queue, worker, made, excused, misled,
                   containers, faults>>

\* The container of the pod starts, which it cannot without the secret, and logs in
\* with the key that it finds there.
Starts(n) ==
    /\ pod[n] \in injected \ running /\ secret[n] # NoSecret
    /\ LET k == secret[n].key IN
        IF k \in used
        THEN refused' = refused \union {<<pod[n], secret[n]>>} /\ UNCHANGED <<running, used>>
        ELSE running' = running \union {pod[n]} /\ used' = used \union {k} /\ UNCHANGED refused
    /\ UNCHANGED <<cluster, cache, up, queue, worker, made, excused, misled, restarted, restarts, faults>>

\* The container ends, and is to start anew.
Ends(n) ==
    /\ pod[n] \in running /\ restarts < MaxRestarts
    /\ running' = running \ {pod[n]}
    /\ restarted' = restarted \union {pod[n]}
    /\ restarts' = restarts + 1
    /\ UNCHANGED <<cluster, cache, up, queue, worker, made, excused, misled, used, refused, faults>>

-----------------------------------------------------------------------------
(* The manager: caches, queue, crashes                                     *)

\* watchFilter: pods with both labels, before or after the change.
Enqueued(n, ps) == IF ps \intersect injected # {} THEN queue \union {n} ELSE queue

SeesPod(n) ==
    /\ up /\ cachedPod[n] # pod[n]
    /\ cachedPod' = [cachedPod EXCEPT ![n] = pod[n]]
    /\ queue' = Enqueued(n, {cachedPod[n], pod[n]})
    /\ UNCHANGED <<cluster, cachedSecret, up, worker, made, excused, misled, containers, faults>>

SeesSecret(n) ==
    /\ up /\ cachedSecret[n] # secret[n]
    /\ cachedSecret' = [cachedSecret EXCEPT ![n] = secret[n]]
    /\ UNCHANGED <<cluster, cachedPod, up, queue, worker, made, excused, misled, containers, faults>>

\* The status of the pod changes, or the cache resynchronises, as it does now and then.
PodEvent(n) ==
    /\ up /\ n \notin queue
    /\ cachedPod[n] \in injected /\ queue' = queue \union {n}
    /\ UNCHANGED <<cluster, cache, up, worker, made, excused, misled, containers, faults>>

\* A key in hand is lost.
Crash ==
    /\ up /\ Fault /\ up' = FALSE
    /\ queue' = {} /\ worker' = Resting
    /\ IF worker.at = "apply" THEN Excuse(worker.pod) ELSE UNCHANGED excused
    /\ UNCHANGED <<cluster, cache, made, misled, containers>>

\* main: the caches are filled, and every pod is new to the controller.
Restart ==
    /\ ~up /\ up' = TRUE
    /\ cachedPod' = pod /\ cachedSecret' = secret
    /\ queue' = {n \in Names : pod[n] \in injected}
    /\ UNCHANGED <<cluster, worker, made, excused, misled, containers, faults>>

-----------------------------------------------------------------------------
(* Reconcile                                                               *)

working == <<cluster, cache, up, containers>>

\* The reconcile returns; after an error the name is queued again.
Returns == worker' = Resting
Fails == Returns /\ queue' = queue \union {worker.name}

\* Whatever pod is there, with a secret or without.
TakeUnchecked(n) ==
    /\ up /\ worker = Resting /\ n \in queue
    /\ queue' = queue \ {n} /\ worker' = At("check", n, cachedPod[n])
    /\ UNCHANGED <<working, made, excused, misled, faults>>

\* The pod is read, and the name of its secret looked for.  Without it there is an error,
\* and the name is queued again: no change.
Take(n) ==
    /\ up /\ worker = Resting /\ n \in queue
    /\ IF cachedPod[n] = 0
       THEN queue' = queue \ {n} /\ UNCHANGED worker
       ELSE /\ cachedPod[n] \in injected
            /\ queue' = queue \ {n} /\ worker' = At("check", n, cachedPod[n])
    /\ UNCHANGED <<working, made, excused, misled, faults>>

\* A reconcile that does not look for the secret.
CheckNothing ==
    /\ worker.at = "check"
    /\ worker' = [worker EXCEPT !.at = "generate"]
    /\ UNCHANGED <<working, queue, made, excused, misled, faults>>

\* The secret is there although the cache has none, or the pod is gone.
Behind == secret[worker.name] # NoSecret \/ pod[worker.name] # worker.pod

\* Whether the secret exists, and so has its key.  That it does not may be old news, and
\* so may the pod be.  (A lag counts as a fault while there is something to catch up with.)
Check ==
    /\ worker.at = "check"
    /\ IF cachedSecret[worker.name] # NoSecret
       THEN /\ Returns /\ UNCHANGED <<excused, faults>>
            /\ misled' = IF cachedSecret[worker.name].owner = worker.pod
                         THEN misled ELSE misled \union {worker.pod}
       ELSE /\ worker' = [worker EXCEPT !.at = "generate"]
            /\ IF Behind THEN Excuse(worker.pod) ELSE UNCHANGED excused
            /\ IF Behind /\ cachedPod[worker.name] = worker.pod THEN Fault ELSE UNCHANGED faults
            /\ UNCHANGED misled
    /\ UNCHANGED <<working, queue, made>>

\* A failure of which the queue is not told.
GenerateSwallows ==
    /\ worker.at = "generate"
    /\ \/ /\ made' = [made EXCEPT ![worker.pod] = @ + 1]
          /\ worker' = [worker EXCEPT !.at = "apply"]
          /\ UNCHANGED <<queue, excused, faults>>
       \/ /\ made' = [made EXCEPT ![worker.pod] = @ + 1]
          /\ Fault /\ Excuse(worker.pod) /\ Returns /\ UNCHANGED queue
       \/ Fault /\ Returns /\ UNCHANGED <<queue, made, excused>>
    /\ UNCHANGED <<working, misled>>

\* GenerateDeviceKey makes a key, whose answer may be lost, or none.
Generate ==
    /\ worker.at = "generate"
    /\ \/ /\ made' = [made EXCEPT ![worker.pod] = @ + 1]
          /\ worker' = [worker EXCEPT !.at = "apply"]
          /\ UNCHANGED <<queue, excused, faults>>
       \/ /\ made' = [made EXCEPT ![worker.pod] = @ + 1]
          /\ Fault /\ Excuse(worker.pod) /\ Fails
       \/ Fault /\ Fails /\ UNCHANGED <<made, excused>>
    /\ UNCHANGED <<working, misled>>

\* A key that is made once and kept.
FirstSecret == [key |-> [for |-> 1, nr |-> 1], owner |-> worker.pod]

\* The secret with the key last made, owned by the pod it was made for.
NewSecret == [key |-> [for |-> worker.pod, nr |-> made[worker.pod]], owner |-> worker.pod]

\* A patch that replaces what is there; it may fail, before or after its effect.
Apply ==
    /\ worker.at = "apply"
    /\ \/ /\ secret' = [secret EXCEPT ![worker.name] = NewSecret]
          /\ Returns /\ UNCHANGED <<queue, excused, faults>>
       \/ /\ secret' = [secret EXCEPT ![worker.name] = NewSecret]
          /\ Fault /\ Fails /\ UNCHANGED excused
       \/ Fault /\ Excuse(worker.pod) /\ Fails /\ UNCHANGED secret
    /\ UNCHANGED <<pod, created, injected, cache, up, made, misled, containers>>

-----------------------------------------------------------------------------
Kubernetes(n) == Create(n) \/ Delete(n) \/ Collect(n) \/ Starts(n) \/ Ends(n)
Manager(n) == SeesPod(n) \/ SeesSecret(n) \/ PodEvent(n) \/ Take(n)
Reconcile == Check \/ Generate \/ Apply

Next == (\E n \in Names : Kubernetes(n) \/ Manager(n)) \/ Crash \/ Restart \/ Reconcile

Spec == Init /\ [][Next]_vars

\* The operator is restarted and runs, its cache follows, the garbage collector does
\* its work, and containers are started again and again.
Fairness ==
    /\ WF_vars(Restart) /\ WF_vars(Reconcile)
    /\ \A n \in Names :
        /\ WF_vars(SeesPod(n)) /\ WF_vars(SeesSecret(n)) /\ WF_vars(PodEvent(n))
        /\ SF_vars(Take(n)) /\ WF_vars(Collect(n)) /\ WF_vars(Starts(n))

FairSpec == Spec /\ Fairness

-----------------------------------------------------------------------------
(* Properties                                                              *)

\* No key is made in vain: however reconciles, events, crashes and the cache interleave,
\* a pod has one key, and one more for each time a key was lost, or the controller
\* looked at a cache that was behind.
KeysAccountedFor == \A p \in Pods : made[p] <= 1 + excused[p]

KeysInv == TypeOK /\ KeysAccountedFor

\* Without waiting for another event: when the controller has nothing to do, a pod that
\* it knows of has its secret, unless the secret of an earlier pod of that name was still
\* there (then nothing tells the controller that it was deleted).
NobodyForgotten ==
    \A n \in Names :
        (up /\ worker = Resting /\ n \notin queue /\ cachedPod[n] = pod[n] /\ pod[n] \in injected)
            => \/ secret[n] # NoSecret /\ secret[n].owner = pod[n]
               \/ pod[n] \in misled

\* A container is refused its login for two reasons only: it has been logged in before (its
\* one-time key is used up, README.md:9), or it started while the secret of an earlier pod
\* of its name had not been collected yet.  In its own secret a new pod finds a fresh key,
\* however often the controller made one.
RefusedForCause == \A r \in refused : r[1] \in restarted \/ r[2].owner # r[1]

\* A pod into which the adapter was injected runs in the end, if it stays, and unless
\* its container has ended.
Served ==
    \A n \in Names, p \in Pods :
        pod[n] = p /\ p \in injected ~> p \in running \union restarted \/ pod[n] # p

-----------------------------------------------------------------------------
(* Why the safety properties hold: an inductive invariant.                 *)

OwnerOf(s) == IF s = NoSecret THEN 0 ELSE s.owner
Working(n) == worker # Resting /\ worker.name = n

\* What the controller does for a name goes forward, from pod to pod.
Forward ==
    /\ \A n \in Names :
        /\ pod[n] <= created /\ cachedPod[n] <= created
        /\ OwnerOf(secret[n]) <= created /\ OwnerOf(cachedSecret[n]) <= created
        /\ pod[n] # 0 => OwnerOf(secret[n]) <= pod[n] /\ cachedPod[n] <= pod[n]
        /\ cachedPod[n] # 0 => OwnerOf(secret[n]) <= cachedPod[n]
    /\ worker # Resting =>
        /\ worker.pod <= created /\ worker.pod \in injected
        /\ pod[worker.name] # 0 => worker.pod <= pod[worker.name]
        /\ cachedPod[worker.name] # 0 => worker.pod <= cachedPod[worker.name]
        /\ OwnerOf(secret[worker.name]) <= worker.pod

\* A pod has one name.
OneName ==
    \A n \in Names : pod[n] # 0 =>
        /\ \A m \in Names : pod[m] = pod[n] \/ cachedPod[m] = pod[n] => m = n
        /\ worker # Resting /\ worker.pod = pod[n] => worker.name = n

\* A pod that has no key, neither in its secret nor on the way, was made none that is not
\* excused.
KeysPlaced ==
    /\ \A n \in Names : pod[n] # 0 /\ OwnerOf(secret[n]) # pod[n]
                            /\ ~(worker.at = "apply" /\ worker.pod = pod[n])
                         => made[pod[n]] <= excused[pod[n]]
    /\ worker.at = "generate" => made[worker.pod] <= excused[worker.pod]
    /\ worker.at = "apply" => made[worker.pod] # 0
    /\ \A p \in Pods : p > created => made[p] = 0

\* The secret of a pod that is there stays.
SecretStays ==
    \A n \in Names : pod[n] # 0 /\ OwnerOf(cachedSecret[n]) = pod[n]
                         => OwnerOf(secret[n]) = pod[n]

\* A pod that the controller knows of is queued, being worked on, served, or misled.
Known ==
    \A n \in Names :
        up /\ cachedPod[n] = pod[n] /\ pod[n] \in injected =>
            \/ n \in queue
            \/ Working(n) /\ worker.pod = pod[n]
            \/ OwnerOf(secret[n]) = pod[n]
            \/ pod[n] \in misled

IInv ==
    /\ TypeOK /\ KeysAccountedFor /\ Forward /\ OneName /\ KeysPlaced /\ SecretStays
    /\ Known /\ (worker # Resting => up)

\* A key is in the secret of the pod that it was made for, under that pod's name, and once
\* it is used it was that pod which used it.
KeysOfTheirPods ==
    /\ \A n \in Names : secret[n] # NoSecret => secret[n].key.for = secret[n].owner
    /\ \A n, m \in Names : pod[m] # 0 /\ OwnerOf(secret[n]) = pod[m] => m = n
    /\ \A k \in used : k.for <= created
    /\ \A n \in Names, k \in used :
           pod[n] # 0 /\ k.for = pod[n] => pod[n] \in running \union restarted

-----------------------------------------------------------------------------
(* What the documentation says and the code does not do.                   *)

\* operator/README.md:6 "supplies ephemeral credentials at pod creation time", and :9
\* "If a container exits and is restarted, but the pod itself has not been recreated, the
\* credentials are now invalid": for a new pod they are valid.
FreshCredentials == \A r \in refused : r[1] \in restarted
=============================================================================
