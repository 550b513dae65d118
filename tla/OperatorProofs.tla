--------------------------- MODULE OperatorProofs ---------------------------
(***************************************************************************)
(* The operator's controllers, each by an inductive invariant: keys and    *)
(* secrets, for any names, pods, faults and restarts; and what a TSymbiote *)
(* is told, for any number of specs and mishaps.                           *)
(***************************************************************************)
EXTENDS Operator, TLAPS

\* The owner of a secret, or 0.
LEMMA Owners ==
  /\ OwnerOf(NoSecret) = 0
  /\ \A s \in Secrets : s # NoSecret /\ s.key \in Keys /\ OwnerOf(s) = s.owner /\ OwnerOf(s) \in Pods
  /\ \A s \in Secrets \union {NoSecret} : OwnerOf(s) \in Nat
  BY NoSecretAssumption, BoundsAssumption DEF OwnerOf, Secrets, Pods

\* What a worker has in hand.
LEMMA WorkerFields ==
  ASSUME TypeOK
  PROVE  /\ worker # Resting => /\ worker.at \in {"check", "generate", "apply"}
                                /\ worker.name \in Names /\ worker.pod \in Pods
                                /\ worker = [at |-> worker.at, name |-> worker.name, pod |-> worker.pod]
         /\ worker.at # "idle" => worker # Resting
  BY DEF TypeOK, Resting

\* Pods are numbers.
LEMMA Numbers ==
  ASSUME TypeOK
  PROVE  /\ created \in Nat
         /\ \A p \in Pods : p \in Nat /\ p # 0 /\ made[p] \in Nat /\ excused[p] \in Nat
         /\ \A n \in Names : /\ pod[n] \in Nat /\ cachedPod[n] \in Nat
                             /\ pod[n] # 0 => pod[n] \in Pods
                             /\ cachedPod[n] # 0 => cachedPod[n] \in Pods
                             /\ OwnerOf(secret[n]) \in Nat /\ OwnerOf(cachedSecret[n]) \in Nat
         /\ \A p \in injected : p \in Pods
  <1>1. created \in Nat /\ 1..created \subseteq Pods
    BY BoundsAssumption DEF TypeOK, Pods
  <1>2. \A p \in Pods : p \in Nat /\ p # 0 /\ made[p] \in Nat /\ excused[p] \in Nat
    BY BoundsAssumption DEF TypeOK, Pods
  <1>3. \A n \in Names : /\ pod[n] \in Pods \union {0} /\ cachedPod[n] \in Pods \union {0}
                         /\ secret[n] \in Secrets \union {NoSecret}
                         /\ cachedSecret[n] \in Secrets \union {NoSecret}
    BY DEF TypeOK
  <1>4. injected \subseteq 1..created
    BY DEF TypeOK
  <1> QED
    BY <1>1, <1>2, <1>3, <1>4, Owners

LEMMA IInvInit == Init => IInv
  <1> SUFFICES ASSUME Init PROVE IInv
    OBVIOUS
  <1>1. TypeOK
    BY BoundsAssumption DEF Init, TypeOK
  <1>2. worker.at = "idle" /\ worker = Resting
    BY DEF Init, Resting
  <1>3. \A n \in Names : /\ pod[n] = 0 /\ cachedPod[n] = 0
                         /\ OwnerOf(secret[n]) = 0 /\ OwnerOf(cachedSecret[n]) = 0
    BY Owners DEF Init
  <1>4. \A p \in Pods : made[p] = 0 /\ excused[p] = 0
    BY DEF Init
  <1>5. created = 0 /\ injected = {}
    BY DEF Init
  <1>6. KeysAccountedFor
    BY <1>4 DEF KeysAccountedFor
  <1>7. Forward /\ OneName /\ SecretStays /\ Known
    BY <1>2, <1>3, <1>5 DEF Forward, OneName, SecretStays, Known
  <1>8. KeysPlaced
    BY <1>2, <1>3, <1>4 DEF KeysPlaced
  <1> QED
    BY <1>1, <1>2, <1>6, <1>7, <1>8 DEF IInv

-----------------------------------------------------------------------------
(* The cluster                                                             *)

LEMMA CreateStep == ASSUME IInv, NEW n \in Names, Create(n) PROVE IInv'
  <1> DEFINE q == created + 1
  <1>0. /\ pod[n] = 0 /\ created < MaxPods /\ created' = q /\ q \in Pods
        /\ pod' = [pod EXCEPT ![n] = q] /\ injected \subseteq injected' /\ injected' \subseteq injected \union {q}
        /\ UNCHANGED <<secret, cachedPod, cachedSecret, up, queue, worker, made, excused, misled,
                       running, used, restarted, refused, restarts, faults>>
    BY BoundsAssumption DEF Create, cache, containers, IInv, TypeOK, Pods
  <1>1. TypeOK'
    BY <1>0, BoundsAssumption DEF IInv, TypeOK, Pods
  <1>2. KeysAccountedFor' /\ (worker # Resting => up)'
    BY <1>0 DEF IInv, KeysAccountedFor
  <1>3. pod'[n] = q /\ \A m \in Names \ {n} : pod'[m] = pod[m]
    BY <1>0 DEF IInv, TypeOK
  <1>4. \A m \in Names : pod[m] < q /\ cachedPod[m] < q /\ OwnerOf(secret[m]) < q
                         /\ OwnerOf(cachedSecret[m]) < q
    BY Numbers DEF IInv, Forward
  <1>5. worker # Resting => worker.pod < q
    BY Numbers, WorkerFields DEF IInv, Forward
  <1>6. Forward'
    BY <1>0, <1>3, <1>4, <1>5, Numbers, WorkerFields DEF IInv, Forward
  <1>7. OneName'
    BY <1>0, <1>3, <1>4, <1>5, Numbers, WorkerFields DEF IInv, OneName
  <1>8. KeysPlaced'
    <2>1. ~(worker.at # "idle" /\ worker.pod = q)
      BY <1>5, WorkerFields, Numbers, <1>0 DEF IInv
    <2>2. made[q] <= excused[q]
      BY <1>0, Numbers DEF IInv, KeysPlaced
    <2> QED
      BY <1>0, <1>3, <2>1, <2>2, Numbers DEF IInv, KeysPlaced
  <1>9. SecretStays'
    BY <1>0, <1>3, <1>4 DEF IInv, SecretStays
  <1>10. Known'
    BY <1>0, <1>3, <1>4, Numbers DEF IInv, Known, Working
  <1> QED
    BY <1>1, <1>2, <1>6, <1>7, <1>8, <1>9, <1>10 DEF IInv

LEMMA DeleteStep == ASSUME IInv, NEW n \in Names, Delete(n) PROVE IInv'
  <1>0. /\ pod[n] # 0 /\ pod' = [pod EXCEPT ![n] = 0] /\ running' \subseteq running
        /\ UNCHANGED <<secret, created, injected, cachedPod, cachedSecret, up, queue, worker, made,
                       excused, misled, used, restarted, refused, restarts, faults>>
    BY DEF Delete, cache
  <1>1. pod'[n] = 0 /\ \A m \in Names \ {n} : pod'[m] = pod[m]
    BY <1>0 DEF IInv, TypeOK
  <1>2. TypeOK' /\ KeysAccountedFor' /\ (worker # Resting => up)'
    BY <1>0 DEF IInv, TypeOK, KeysAccountedFor
  <1>3. Forward'
    BY <1>0, <1>1, Numbers DEF IInv, Forward
  <1>4. OneName' /\ KeysPlaced' /\ SecretStays'
    BY <1>0, <1>1 DEF IInv, OneName, KeysPlaced, SecretStays
  <1>5. Known'
    BY <1>0, <1>1, Numbers DEF IInv, Known, Working
  <1> QED
    BY <1>2, <1>3, <1>4, <1>5 DEF IInv

LEMMA CollectStep == ASSUME IInv, NEW n \in Names, Collect(n) PROVE IInv'
  <1>0. /\ secret[n] # NoSecret /\ secret[n].owner # pod[n]
        /\ secret' = [secret EXCEPT ![n] = NoSecret]
        /\ UNCHANGED <<pod, created, injected, cachedPod, cachedSecret, up, queue, worker, made,
                       excused, misled, running, used, restarted, refused, restarts, faults>>
    BY DEF Collect, cache, containers
  <1>1. OwnerOf(secret'[n]) = 0 /\ \A m \in Names \ {n} : secret'[m] = secret[m]
    BY <1>0, Owners DEF IInv, TypeOK
  <1>2. OwnerOf(secret[n]) # pod[n]
    BY <1>0, Owners DEF IInv, TypeOK
  <1>3. TypeOK' /\ KeysAccountedFor' /\ (worker # Resting => up)'
    BY <1>0 DEF IInv, TypeOK, KeysAccountedFor
  <1>4. Forward'
    BY <1>0, <1>1, Numbers, WorkerFields DEF IInv, Forward
  <1>5. OneName'
    BY <1>0 DEF IInv, OneName
  <1>6. KeysPlaced' /\ SecretStays'
    BY <1>0, <1>1, <1>2 DEF IInv, KeysPlaced, SecretStays
  <1>7. Known'
    BY <1>0, <1>1, <1>2 DEF IInv, Known, Working
  <1> QED
    BY <1>3, <1>4, <1>5, <1>6, <1>7 DEF IInv

\* Containers do not touch what the controller works with.
LEMMA ContainerStep ==
  ASSUME IInv, NEW n \in Names, Starts(n) \/ Ends(n)
  PROVE  IInv'
  <1>0. UNCHANGED <<pod, secret, created, injected, cachedPod, cachedSecret, up, queue, worker, made,
                    excused, misled, faults>>
    BY DEF Starts, Ends, cluster, cache
  <1>1. TypeOK'
    <2>1. CASE Starts(n)
      <3>1. /\ pod[n] \in 1..created /\ pod[n] \in Pods
            /\ secret[n] \in Secrets /\ secret[n].key \in Keys
        BY <2>1, Owners, Numbers DEF IInv, TypeOK, Starts
      <3>2. running' \subseteq 1..created /\ used' \subseteq Keys /\ refused' \subseteq Pods \X Secrets
            /\ UNCHANGED <<restarted, restarts>>
        <4>1. CASE secret[n].key \in used
          <5>1. /\ refused' = refused \union {<<pod[n], secret[n]>>}
                /\ UNCHANGED <<running, used, restarted, restarts>>
            BY <2>1, <4>1 DEF Starts
          <5> QED
            BY <3>1, <5>1 DEF IInv, TypeOK
        <4>2. CASE secret[n].key \notin used
          BY <2>1, <3>1, <4>2 DEF IInv, TypeOK, Starts
        <4> QED
          BY <4>1, <4>2
      <3> QED
        BY <1>0, <3>2 DEF IInv, TypeOK
    <2>2. CASE Ends(n)
      <3>1. restarts' \in 0..MaxRestarts
        BY <2>2, BoundsAssumption DEF IInv, TypeOK, Ends
      <3> QED
        BY <1>0, <2>2, <3>1 DEF IInv, TypeOK, Ends
    <2> QED
      BY <2>1, <2>2
  <1>2. KeysAccountedFor' /\ Forward' /\ OneName' /\ KeysPlaced' /\ SecretStays' /\ Known'
        /\ (worker # Resting => up)'
    BY <1>0 DEF IInv, KeysAccountedFor, Forward, OneName, KeysPlaced, SecretStays, Known, Working
  <1> QED
    BY <1>1, <1>2 DEF IInv

-----------------------------------------------------------------------------
(* The manager                                                             *)

LEMMA SeesPodStep == ASSUME IInv, NEW n \in Names, SeesPod(n) PROVE IInv'
  <1>0. /\ cachedPod' = [cachedPod EXCEPT ![n] = pod[n]]
        /\ queue \subseteq queue' /\ queue' \subseteq queue \union {n}
        /\ pod[n] \in injected => n \in queue'
        /\ UNCHANGED <<pod, secret, created, injected, cachedSecret, up, worker, made, excused, misled,
                       running, used, restarted, refused, restarts, faults>>
    BY DEF SeesPod, Enqueued, cluster, containers
  <1>1. cachedPod'[n] = pod[n] /\ \A m \in Names \ {n} : cachedPod'[m] = cachedPod[m]
    BY <1>0 DEF IInv, TypeOK
  <1>2. TypeOK' /\ KeysAccountedFor' /\ (worker # Resting => up)'
    BY <1>0 DEF IInv, TypeOK, KeysAccountedFor
  <1>3. Forward'
    BY <1>0, <1>1, Numbers, WorkerFields DEF IInv, Forward
  <1>4. OneName' /\ KeysPlaced' /\ SecretStays'
    BY <1>0, <1>1 DEF IInv, OneName, KeysPlaced, SecretStays
  <1>5. Known'
    BY <1>0, <1>1 DEF IInv, Known, Working
  <1> QED
    BY <1>2, <1>3, <1>4, <1>5 DEF IInv

LEMMA SeesSecretStep == ASSUME IInv, NEW n \in Names, SeesSecret(n) PROVE IInv'
  <1>0. /\ cachedSecret' = [cachedSecret EXCEPT ![n] = secret[n]]
        /\ UNCHANGED <<pod, secret, created, injected, cachedPod, up, queue, worker, made, excused,
                       misled, running, used, restarted, refused, restarts, faults>>
    BY DEF SeesSecret, cluster, containers
  <1>1. cachedSecret'[n] = secret[n] /\ \A m \in Names \ {n} : cachedSecret'[m] = cachedSecret[m]
    BY <1>0 DEF IInv, TypeOK
  <1>2. TypeOK' /\ KeysAccountedFor' /\ (worker # Resting => up)'
    BY <1>0 DEF IInv, TypeOK, KeysAccountedFor
  <1>3. Forward' /\ SecretStays'
    BY <1>0, <1>1 DEF IInv, Forward, SecretStays
  <1>4. OneName' /\ KeysPlaced' /\ Known'
    BY <1>0 DEF IInv, OneName, KeysPlaced, Known, Working
  <1> QED
    BY <1>2, <1>3, <1>4 DEF IInv

LEMMA PodEventStep == ASSUME IInv, NEW n \in Names, PodEvent(n) PROVE IInv'
  <1>0. /\ queue' = queue \union {n}
        /\ UNCHANGED <<pod, secret, created, injected, cachedPod, cachedSecret, up, worker, made,
                       excused, misled, running, used, restarted, refused, restarts, faults>>
    BY DEF PodEvent, cluster, cache, containers
  <1>1. TypeOK'
    BY <1>0 DEF IInv, TypeOK
  <1>2. KeysAccountedFor' /\ Forward' /\ OneName' /\ KeysPlaced' /\ SecretStays' /\ Known'
        /\ (worker # Resting => up)'
    BY <1>0 DEF IInv, KeysAccountedFor, Forward, OneName, KeysPlaced, SecretStays, Known, Working
  <1> QED
    BY <1>1, <1>2 DEF IInv

\* One more excuse.
LEMMA ExcuseFields ==
  ASSUME TypeOK, NEW p \in Pods, Excuse(p)
  PROVE  /\ excused' \in [Pods -> Nat] /\ excused'[p] = excused[p] + 1
         /\ \A o \in Pods \ {p} : excused'[o] = excused[o]
  BY DEF TypeOK, Excuse

\* One more fault.
LEMMA FaultCount == ASSUME TypeOK, Fault PROVE faults' \in 0..MaxFaults
  BY BoundsAssumption DEF TypeOK, Fault

LEMMA CrashStep == ASSUME IInv, Crash PROVE IInv'
  <1>0. /\ up' = FALSE /\ queue' = {} /\ worker' = Resting /\ Fault
        /\ UNCHANGED <<pod, secret, created, injected, cachedPod, cachedSecret, made, misled,
                       running, used, restarted, refused, restarts>>
    BY DEF Crash, cluster, cache, containers
  <1>1. /\ excused' \in [Pods -> Nat] /\ \A p \in Pods : excused'[p] >= excused[p]
        /\ worker.at = "apply" => excused'[worker.pod] = excused[worker.pod] + 1
    <2>1. CASE worker.at = "apply"
      <3>1. worker.pod \in Pods /\ Excuse(worker.pod)
        BY <2>1, WorkerFields DEF Crash, IInv
      <3> QED
        BY <3>1, ExcuseFields, Numbers DEF IInv
    <2>2. CASE worker.at # "apply"
      BY <2>2, Numbers DEF Crash, IInv, TypeOK
    <2> QED
      BY <2>1, <2>2
  <1>2. worker'.at = "idle"
    BY <1>0 DEF Resting
  <1>3. TypeOK'
    BY <1>0, <1>1, FaultCount DEF IInv, TypeOK
  <1>4. KeysAccountedFor'
    BY <1>0, <1>1, Numbers DEF IInv, KeysAccountedFor
  <1>5. Forward' /\ OneName' /\ SecretStays' /\ Known' /\ (worker # Resting => up)'
    BY <1>0, <1>2 DEF IInv, Forward, OneName, SecretStays, Known
  <1>6. KeysPlaced'
    <2>1. \A p \in Pods : p > created => made[p] = 0
      BY DEF IInv, KeysPlaced
    <2>2. ASSUME NEW n \in Names, pod[n] # 0, OwnerOf(secret[n]) # pod[n]
          PROVE  made[pod[n]] <= excused'[pod[n]]
      <3>1. pod[n] \in Pods /\ made[pod[n]] <= 1 + excused[pod[n]]
        BY <2>2, Numbers DEF IInv, KeysAccountedFor
      <3>2. CASE worker.at = "apply" /\ worker.pod = pod[n]
        BY <3>1, <3>2, <1>1, Numbers DEF IInv
      <3>3. CASE ~(worker.at = "apply" /\ worker.pod = pod[n])
        BY <3>1, <3>3, <2>2, <1>1, Numbers DEF IInv, KeysPlaced
      <3> QED
        BY <3>2, <3>3
    <2> QED
      BY <1>0, <1>2, <2>1, <2>2 DEF KeysPlaced
  <1> QED
    BY <1>3, <1>4, <1>5, <1>6 DEF IInv

LEMMA RestartStep == ASSUME IInv, Restart PROVE IInv'
  <1>0. /\ ~up /\ up' = TRUE /\ cachedPod' = pod /\ cachedSecret' = secret
        /\ queue' = {n \in Names : pod[n] \in injected}
        /\ UNCHANGED <<pod, secret, created, injected, worker, made, excused, misled,
                       running, used, restarted, refused, restarts, faults>>
    BY DEF Restart, cluster, containers
  <1>1. worker = Resting
    BY <1>0 DEF IInv
  <1>2. TypeOK' /\ KeysAccountedFor' /\ (worker # Resting => up)'
    BY <1>0 DEF IInv, TypeOK, KeysAccountedFor
  <1>3. Forward'
    BY <1>0, <1>1, Numbers DEF IInv, Forward
  <1>4. OneName' /\ KeysPlaced' /\ SecretStays' /\ Known'
    BY <1>0, <1>1 DEF IInv, OneName, KeysPlaced, SecretStays, Known
  <1> QED
    BY <1>2, <1>3, <1>4 DEF IInv

-----------------------------------------------------------------------------
(* Reconcile                                                               *)

LEMMA TakeStep == ASSUME IInv, NEW n \in Names, Take(n) PROVE IInv'
  <1>0. /\ up /\ worker = Resting /\ n \in queue /\ queue' = queue \ {n}
        /\ UNCHANGED <<pod, secret, created, injected, cachedPod, cachedSecret, up, made, excused,
                       misled, running, used, restarted, refused, restarts, faults>>
    BY DEF Take, working, cluster, cache, containers
  <1>1. CASE cachedPod[n] = 0
    <2>1. worker' = Resting
      BY <1>0, <1>1 DEF Take
    <2>2. TypeOK' /\ KeysAccountedFor' /\ Forward' /\ OneName' /\ KeysPlaced' /\ SecretStays'
          /\ (worker # Resting => up)'
      BY <1>0, <2>1 DEF IInv, TypeOK, KeysAccountedFor, Forward, OneName, KeysPlaced, SecretStays
    <2>3. Known'
      BY <1>0, <1>1, <2>1, Numbers DEF IInv, Known, Working
    <2> QED
      BY <2>2, <2>3 DEF IInv
  <1>2. CASE cachedPod[n] # 0
    <2>1. /\ worker' = At("check", n, cachedPod[n]) /\ cachedPod[n] \in injected
          /\ cachedPod[n] \in Pods
      BY <1>0, <1>2, Numbers DEF Take, IInv
    <2>2. /\ worker'.at = "check" /\ worker'.name = n /\ worker'.pod = cachedPod[n]
          /\ worker' # Resting /\ worker.at = "idle"
      BY <1>0, <2>1 DEF At, Resting
    <2>3. TypeOK'
      BY <1>0, <2>1 DEF IInv, TypeOK, At
    <2>4. Forward'
      BY <1>0, <1>2, <2>1, <2>2, Numbers DEF IInv, Forward
    <2>5. OneName'
      BY <1>0, <2>2 DEF IInv, OneName
    <2>6. KeysAccountedFor' /\ KeysPlaced' /\ SecretStays' /\ (worker # Resting => up)'
      BY <1>0, <2>2 DEF IInv, KeysAccountedFor, KeysPlaced, SecretStays
    <2>7. Known'
      BY <1>0, <2>2 DEF IInv, Known, Working
    <2> QED
      BY <2>3, <2>4, <2>5, <2>6, <2>7 DEF IInv
  <1> QED
    BY <1>1, <1>2

\* A reconcile that goes on keeps its name and its pod.
LEMMA Continues ==
  ASSUME TypeOK, worker # Resting, NEW s \in {"generate", "apply"},
         worker' = [worker EXCEPT !.at = s]
  PROVE  /\ worker'.at = s /\ worker'.name = worker.name /\ worker'.pod = worker.pod
         /\ worker' # Resting
         /\ worker' \in {Resting}
                \union [at : {"check", "generate", "apply"}, name : Names, pod : Pods]
  BY DEF TypeOK, Resting

LEMMA CheckStep == ASSUME IInv, Check PROVE IInv'
  <1> DEFINE n == worker.name
             p == worker.pod
  <1>0. /\ worker.at = "check" /\ worker # Resting /\ n \in Names /\ p \in Pods /\ up
        /\ UNCHANGED <<pod, secret, created, injected, cachedPod, cachedSecret, up, queue, made,
                       running, used, restarted, refused, restarts>>
    BY WorkerFields DEF Check, working, cluster, cache, containers, IInv
  <1>1. CASE cachedSecret[n] # NoSecret
    <2>1. /\ worker' = Resting /\ UNCHANGED <<excused, faults>>
          /\ misled' = IF cachedSecret[n].owner = p THEN misled ELSE misled \union {p}
      BY <1>1 DEF Check, Returns
    <2>2. worker'.at = "idle"
      BY <2>1 DEF Resting
    <2>3. OwnerOf(cachedSecret[n]) = cachedSecret[n].owner
      BY <1>0, <1>1, Owners DEF IInv, TypeOK
    <2>4. misled' \in SUBSET Pods /\ misled \subseteq misled'
          /\ (cachedSecret[n].owner # p => p \in misled')
      BY <1>0, <2>1 DEF IInv, TypeOK
    <2>5. TypeOK'
      BY <1>0, <2>1, <2>4 DEF IInv, TypeOK
    <2>6. KeysAccountedFor' /\ Forward' /\ OneName' /\ KeysPlaced' /\ SecretStays'
          /\ (worker # Resting => up)'
      BY <1>0, <2>1, <2>2 DEF IInv, KeysAccountedFor, Forward, OneName, KeysPlaced, SecretStays
    <2>7. Known'
      <3> SUFFICES ASSUME NEW m \in Names, cachedPod[m] = pod[m], pod[m] \in injected, m \notin queue
                   PROVE  OwnerOf(secret[m]) = pod[m] \/ pod[m] \in misled'
        BY <1>0, <2>1 DEF Known
      <3>1. CASE m = n /\ p = pod[m]
        BY <3>1, <1>0, <2>3, <2>4, Numbers DEF IInv, SecretStays
      <3>2. CASE ~(m = n /\ p = pod[m])
        BY <3>2, <1>0, <2>4 DEF IInv, Known, Working
      <3> QED
        BY <3>1, <3>2
    <2> QED
      BY <2>5, <2>6, <2>7 DEF IInv
  <1>2. CASE cachedSecret[n] = NoSecret
    <2>1. worker' = [worker EXCEPT !.at = "generate"] /\ UNCHANGED misled
      BY <1>2 DEF Check
    <2>2. faults' \in 0..MaxFaults
      BY <1>2, FaultCount DEF Check, IInv, TypeOK
    <2>3. /\ excused' \in [Pods -> Nat] /\ \A o \in Pods : excused'[o] >= excused[o]
          /\ Behind => excused'[p] = excused[p] + 1
      <3>1. CASE Behind
        BY <3>1, <1>0, <1>2, ExcuseFields, Numbers DEF Check, IInv
      <3>2. CASE ~Behind
        BY <3>2, <1>2, Numbers DEF Check, IInv, TypeOK
      <3> QED
        BY <3>1, <3>2
    <2>4. /\ worker'.at = "generate" /\ worker'.name = n /\ worker'.pod = p /\ worker' # Resting
          /\ worker' \in {Resting}
                \union [at : {"check", "generate", "apply"}, name : Names, pod : Pods]
      BY <1>0, <2>1, Continues DEF IInv
    <2>5. TypeOK'
      BY <1>0, <2>1, <2>2, <2>3, <2>4 DEF IInv, TypeOK
    <2>6. KeysAccountedFor'
      BY <1>0, <2>3, Numbers DEF IInv, KeysAccountedFor
    <2>7. Forward' /\ OneName' /\ SecretStays' /\ Known' /\ (worker # Resting => up)'
      BY <1>0, <2>1, <2>4 DEF IInv, Forward, OneName, SecretStays, Known, Working
    <2>8. made[p] <= excused'[p]
      <3>1. CASE Behind
        BY <3>1, <1>0, <2>3, Numbers DEF IInv, KeysAccountedFor
      <3>2. CASE ~Behind
        <4>1. secret[n] = NoSecret /\ pod[n] = p /\ OwnerOf(secret[n]) = 0
          BY <3>2, Owners DEF Behind
        <4>2. made[p] <= excused[p]
          BY <4>1, <1>0, Numbers DEF IInv, KeysPlaced
        <4> QED
          BY <4>2, <1>0, <2>3, Numbers DEF IInv
      <3> QED
        BY <3>1, <3>2
    <2>9. KeysPlaced'
      <3>1. ASSUME NEW m \in Names, pod[m] # 0, OwnerOf(secret[m]) # pod[m]
            PROVE  made[pod[m]] <= excused'[pod[m]]
        BY <3>1, <1>0, <2>3, Numbers DEF IInv, KeysPlaced
      <3> QED
        BY <1>0, <2>4, <2>8, <3>1 DEF IInv, KeysPlaced
    <2> QED
      BY <2>5, <2>6, <2>7, <2>9 DEF IInv
  <1> QED
    BY <1>1, <1>2

\* A reconcile that failed: another try is queued.
LEMMA FailsFields ==
  ASSUME TypeOK, worker # Resting, Fails
  PROVE  /\ worker' = Resting /\ worker'.at = "idle"
         /\ queue \subseteq queue' /\ queue' \subseteq Names /\ worker.name \in queue'
         /\ worker' \in {Resting}
                \union [at : {"check", "generate", "apply"}, name : Names, pod : Pods]
  BY WorkerFields DEF Fails, Returns, TypeOK, Resting

LEMMA GenerateStep == ASSUME IInv, Generate PROVE IInv'
  <1> DEFINE n == worker.name
             p == worker.pod
  <1>0. /\ worker.at = "generate" /\ worker # Resting /\ n \in Names /\ p \in Pods /\ up
        /\ UNCHANGED <<pod, secret, created, injected, cachedPod, cachedSecret, up, misled,
                       running, used, restarted, refused, restarts>>
    BY WorkerFields DEF Generate, working, cluster, cache, containers, IInv
  <1>1. made[p] <= excused[p] /\ made[p] \in Nat /\ excused[p] \in Nat /\ p <= created
    BY <1>0, Numbers DEF IInv, KeysPlaced, Forward
  <1>2. ASSUME made' = [made EXCEPT ![p] = @ + 1]
        PROVE  /\ made' \in [Pods -> Nat] /\ made'[p] = made[p] + 1
               /\ \A o \in Pods \ {p} : made'[o] = made[o]
    BY <1>0, <1>1, <1>2 DEF IInv, TypeOK
  <1>3. CASE /\ made' = [made EXCEPT ![p] = @ + 1]
             /\ worker' = [worker EXCEPT !.at = "apply"]
             /\ UNCHANGED <<queue, excused, faults>>
    <2>1. /\ worker'.at = "apply" /\ worker'.name = n /\ worker'.pod = p /\ worker' # Resting
          /\ worker' \in {Resting}
                \union [at : {"check", "generate", "apply"}, name : Names, pod : Pods]
      BY <1>0, <1>3, Continues DEF IInv
    <2>2. TypeOK'
      BY <1>0, <1>2, <1>3, <2>1 DEF IInv, TypeOK
    <2>3. KeysAccountedFor'
      BY <1>1, <1>2, <1>3 DEF IInv, KeysAccountedFor
    <2>4. Forward' /\ OneName' /\ SecretStays' /\ Known' /\ (worker # Resting => up)'
      BY <1>0, <1>3, <2>1 DEF IInv, Forward, OneName, SecretStays, Known, Working
    <2>5. KeysPlaced'
      <3>1. ASSUME NEW m \in Names, pod[m] # 0, OwnerOf(secret[m]) # pod[m], p # pod[m]
            PROVE  made'[pod[m]] <= excused[pod[m]]
        BY <3>1, <1>0, <1>2, <1>3, Numbers DEF IInv, KeysPlaced
      <3>2. made'[p] # 0
        BY <1>1, <1>2, <1>3
      <3>3. \A o \in Pods : o > created => made'[o] = 0
        BY <1>1, <1>2, <1>3, Numbers DEF IInv, KeysPlaced
      <3> QED
        BY <1>0, <1>3, <2>1, <3>1, <3>2, <3>3 DEF KeysPlaced
    <2> QED
      BY <2>2, <2>3, <2>4, <2>5 DEF IInv
  <1>4. CASE made' = [made EXCEPT ![p] = @ + 1] /\ Fault /\ Excuse(p) /\ Fails
    <2>1. TypeOK'
      BY <1>0, <1>2, <1>4, FailsFields, FaultCount, ExcuseFields DEF IInv, TypeOK
    <2>2. /\ excused'[p] = excused[p] + 1
          /\ \A o \in Pods \ {p} : excused'[o] = excused[o]
      BY <1>0, <1>4, ExcuseFields DEF IInv
    <2>3. KeysAccountedFor'
      BY <1>1, <1>2, <1>4, <2>2 DEF IInv, KeysAccountedFor
    <2>4. Forward' /\ OneName' /\ SecretStays' /\ Known' /\ (worker # Resting => up)'
      BY <1>0, <1>4, FailsFields DEF IInv, Forward, OneName, SecretStays, Known, Working
    <2>5. KeysPlaced'
      <3>1. ASSUME NEW m \in Names, pod[m] # 0, OwnerOf(secret[m]) # pod[m]
            PROVE  made'[pod[m]] <= excused'[pod[m]]
        <4>1. CASE pod[m] = p
          BY <4>1, <1>1, <1>2, <1>4, <2>2
        <4>2. CASE pod[m] # p
          BY <4>2, <3>1, <1>0, <1>2, <1>4, <2>2, Numbers DEF IInv, KeysPlaced
        <4> QED
          BY <4>1, <4>2
      <3>2. \A o \in Pods : o > created => made'[o] = 0
        BY <1>1, <1>2, <1>4, Numbers DEF IInv, KeysPlaced
      <3> QED
        BY <1>0, <1>4, FailsFields, <3>1, <3>2 DEF IInv, KeysPlaced
    <2> QED
      BY <2>1, <2>3, <2>4, <2>5 DEF IInv
  <1>5. CASE Fault /\ Fails /\ UNCHANGED <<made, excused>>
    <2>1. TypeOK'
      BY <1>0, <1>5, FailsFields, FaultCount DEF IInv, TypeOK
    <2>2. KeysAccountedFor' /\ Forward' /\ OneName' /\ SecretStays' /\ Known'
          /\ (worker # Resting => up)'
      BY <1>0, <1>5, FailsFields DEF IInv, KeysAccountedFor, Forward, OneName, SecretStays, Known, Working
    <2>3. KeysPlaced'
      BY <1>0, <1>5, FailsFields DEF IInv, KeysPlaced
    <2> QED
      BY <2>1, <2>2, <2>3 DEF IInv
  <1> QED
    BY <1>3, <1>4, <1>5 DEF Generate

LEMMA ApplyStep == ASSUME IInv, Apply PROVE IInv'
  <1> DEFINE n == worker.name
             p == worker.pod
  <1>0. /\ worker.at = "apply" /\ worker # Resting /\ n \in Names /\ p \in Pods /\ up
        /\ UNCHANGED <<pod, created, injected, cachedPod, cachedSecret, up, made, misled,
                       running, used, restarted, refused, restarts>>
    BY WorkerFields DEF Apply, cache, containers, IInv
  <1>1. /\ worker' = Resting /\ worker'.at = "idle" /\ queue \subseteq queue' /\ queue' \subseteq Names
        /\ worker' \in {Resting}
                \union [at : {"check", "generate", "apply"}, name : Names, pod : Pods]
    BY <1>0, FailsFields DEF Apply, Returns, IInv, TypeOK, Resting
  <1>2. faults' \in 0..MaxFaults
    BY FaultCount DEF Apply, IInv, TypeOK
  <1>3. p \in Nat /\ made[p] \in Nat /\ made[p] # 0 /\ OwnerOf(secret[n]) <= p /\ p <= created
    BY <1>0, Numbers DEF IInv, KeysPlaced, Forward
  <1>4. CASE secret' = [secret EXCEPT ![n] = NewSecret] /\ UNCHANGED excused
    <2>1. NewSecret \in Secrets /\ NewSecret.owner = p
      BY <1>0, <1>3 DEF NewSecret, Secrets, Keys
    <2>2. OwnerOf(secret'[n]) = p /\ \A m \in Names \ {n} : secret'[m] = secret[m]
      BY <1>0, <1>4, <2>1, Owners DEF IInv, TypeOK
    <2>3. TypeOK'
      BY <1>0, <1>1, <1>2, <1>4, <2>1 DEF IInv, TypeOK
    <2>4. KeysAccountedFor' /\ OneName' /\ (worker # Resting => up)'
      BY <1>0, <1>1, <1>4 DEF IInv, KeysAccountedFor, OneName
    <2>5. Forward'
      BY <1>0, <1>1, <1>3, <2>2, Numbers DEF IInv, Forward
    <2>6. \A m \in Names : pod[m] # 0 /\ OwnerOf(secret[m]) = pod[m] => OwnerOf(secret'[m]) = pod[m]
      BY <1>0, <1>3, <2>2, Numbers DEF IInv, Forward
    <2>7. \A m \in Names : pod[m] # 0 /\ p = pod[m] => OwnerOf(secret'[m]) = pod[m]
      BY <1>0, <2>2 DEF IInv, OneName
    <2>8. KeysPlaced'
      BY <1>0, <1>1, <1>4, <2>6, <2>7 DEF IInv, KeysPlaced
    <2>9. SecretStays'
      BY <1>0, <2>6 DEF IInv, SecretStays
    <2>10. Known'
      <3>1. \A m \in Names : pod[m] \in injected => pod[m] # 0
        BY Numbers DEF IInv
      <3> QED
        BY <1>0, <1>1, <2>6, <2>7, <3>1 DEF IInv, Known, Working
    <2> QED
      BY <2>3, <2>4, <2>5, <2>8, <2>9, <2>10 DEF IInv
  <1>5. CASE Excuse(p) /\ Fails /\ UNCHANGED secret
    <2>1. /\ excused' \in [Pods -> Nat] /\ excused'[p] = excused[p] + 1
          /\ \A o \in Pods \ {p} : excused'[o] = excused[o]
      BY <1>0, <1>5, ExcuseFields DEF IInv
    <2>2. TypeOK'
      BY <1>0, <1>1, <1>2, <1>5, <2>1 DEF IInv, TypeOK
    <2>3. KeysAccountedFor'
      <3> SUFFICES ASSUME NEW o \in Pods PROVE made[o] <= 1 + excused'[o]
        BY <1>0 DEF KeysAccountedFor
      <3>1. made[o] <= 1 + excused[o] /\ made[o] \in Nat /\ excused[o] \in Nat
        BY Numbers DEF IInv, KeysAccountedFor
      <3> QED
        BY <2>1, <3>1
    <2>4. Forward' /\ OneName' /\ SecretStays' /\ Known' /\ (worker # Resting => up)'
      BY <1>0, <1>1, <1>5, FailsFields DEF IInv, Forward, OneName, SecretStays, Known, Working
    <2>5. KeysPlaced'
      <3>1. ASSUME NEW m \in Names, pod[m] # 0, OwnerOf(secret[m]) # pod[m]
            PROVE  made[pod[m]] <= excused'[pod[m]]
        <4>1. CASE pod[m] = p
          BY <4>1, <1>0, <2>1, Numbers DEF IInv, KeysAccountedFor
        <4>2. CASE pod[m] # p
          BY <4>2, <3>1, <1>0, <2>1, Numbers DEF IInv, KeysPlaced
        <4> QED
          BY <4>1, <4>2
      <3> QED
        BY <1>0, <1>1, <1>5, <3>1 DEF IInv, KeysPlaced
    <2> QED
      BY <2>2, <2>3, <2>4, <2>5 DEF IInv
  <1> QED
    BY <1>4, <1>5 DEF Apply

-----------------------------------------------------------------------------
(* Theorems                                                                *)

LEMMA IInvStep == IInv /\ [Next]_vars => IInv'
  <1> SUFFICES ASSUME IInv, [Next]_vars PROVE IInv'
    OBVIOUS
  <1>1. CASE Next
    <2>1. ASSUME NEW n \in Names, Kubernetes(n) PROVE IInv'
      BY <2>1, CreateStep, DeleteStep, CollectStep, ContainerStep DEF Kubernetes
    <2>2. ASSUME NEW n \in Names, Manager(n) PROVE IInv'
      BY <2>2, SeesPodStep, SeesSecretStep, PodEventStep, TakeStep DEF Manager
    <2>3. CASE Reconcile
      BY <2>3, CheckStep, GenerateStep, ApplyStep DEF Reconcile
    <2> QED
      BY <1>1, <2>1, <2>2, <2>3, CrashStep, RestartStep DEF Next
  <1>2. CASE UNCHANGED vars
    <2>1. UNCHANGED <<pod, secret, created, injected, cachedPod, cachedSecret, up, queue, worker,
                      made, excused, misled, running, used, restarted, refused, restarts, faults>>
      BY <1>2 DEF vars, cluster, cache, containers
    <2> QED
      BY <2>1 DEF IInv, TypeOK, KeysAccountedFor, Forward, OneName, KeysPlaced, SecretStays, Known, Working
  <1> QED
    BY <1>1, <1>2

\* The invariant of the controller, its cache and the cluster.
THEOREM IInvHolds == Spec => []IInv
  BY IInvInit, IInvStep, PTL DEF Spec

\* Types: the worker has a pod and a name wherever it acts on them, and only pods that
\* were created run, whatever the webhook and the garbage collector do.
THEOREM Typing == Spec => []TypeOK
  <1>1. IInv => TypeOK
    BY DEF IInv
  <1> QED
    BY <1>1, IInvHolds, PTL

\* GenerateDeviceKey is called once for a pod, and once more for each key that was lost,
\* or that a cache behind the API server made it ask for.
THEOREM KeysAccounted == Spec => []KeysInv
  <1>1. IInv => KeysInv
    BY DEF IInv, KeysInv
  <1> QED
    BY <1>1, IInvHolds, PTL

\* Reconcile returns without an error only for a pod that has its secret, or when it saw
\* the secret of an earlier pod: no crash, failure or old cache loses a pod.
THEOREM Remembered == Spec => []NobodyForgotten
  <1>1. IInv => NobodyForgotten
    <2> SUFFICES ASSUME IInv, NEW n \in Names, up, worker = Resting, n \notin queue,
                        cachedPod[n] = pod[n], pod[n] \in injected, pod[n] \notin misled
                 PROVE  secret[n] # NoSecret /\ secret[n].owner = pod[n]
      BY DEF NobodyForgotten
    <2>1. OwnerOf(secret[n]) = pod[n] /\ pod[n] # 0
      BY Numbers DEF IInv, Known, Working
    <2> QED
      BY <2>1 DEF OwnerOf
  <1> QED
    BY <1>1, IInvHolds, PTL

-----------------------------------------------------------------------------
(* Who is refused.                                                         *)

LEMMA KeysOfTheirPodsStep ==
  IInv /\ KeysOfTheirPods /\ [Next]_vars => KeysOfTheirPods'
  <1> SUFFICES ASSUME IInv, KeysOfTheirPods, [Next]_vars PROVE KeysOfTheirPods'
    OBVIOUS
  <1> USE DEF KeysOfTheirPods, working, cluster, cache, containers
  <1>a. TypeOK /\ Forward /\ OneName
    BY DEF IInv
  <1>b. UNCHANGED <<pod, secret, created, running, used, restarted>> => KeysOfTheirPods'
    OBVIOUS
  <1>1. ASSUME NEW n \in Names, Create(n) PROVE KeysOfTheirPods'
    <2>1. /\ pod' = [pod EXCEPT ![n] = created + 1] /\ created' = created + 1
          /\ UNCHANGED <<secret, running, used, restarted>>
      BY <1>1 DEF Create
    <2>2. \A m \in Names : OwnerOf(secret[m]) < created + 1 /\ OwnerOf(secret[m]) \in Nat
      BY <1>a, Numbers DEF Forward
    <2>3. \A k \in used : k.for \in Nat /\ k.for < created + 1
      BY <1>a, Numbers DEF TypeOK, Keys, Pods
    <2>4. \A m \in Names : pod'[m] = IF m = n THEN created + 1 ELSE pod[m]
      BY <1>a, <2>1 DEF TypeOK
    <2> QED
      BY <2>1, <2>2, <2>3, <2>4, Numbers, <1>a
  <1>2. ASSUME NEW n \in Names, Delete(n) PROVE KeysOfTheirPods'
    <2>1. /\ pod' = [pod EXCEPT ![n] = 0] /\ running' = running \ {pod[n]} /\ pod[n] # 0
          /\ UNCHANGED <<secret, created, used, restarted>>
      BY <1>2 DEF Delete
    <2>2. \A m \in Names : pod'[m] = IF m = n THEN 0 ELSE pod[m]
      BY <1>a, <2>1 DEF TypeOK
    <2>3. \A m \in Names : m # n => pod[m] # pod[n]
      BY <1>a, <2>1 DEF OneName
    <2> QED
      BY <2>1, <2>2, <2>3
  <1>3. ASSUME NEW n \in Names, Collect(n) PROVE KeysOfTheirPods'
    <2>1. /\ secret' = [secret EXCEPT ![n] = NoSecret]
          /\ UNCHANGED <<pod, created, running, used, restarted>>
      BY <1>3 DEF Collect
    <2>2. \A m \in Names : secret'[m] = IF m = n THEN NoSecret ELSE secret[m]
      BY <1>a, <2>1 DEF TypeOK
    <2> QED
      BY <2>1, <2>2, Owners
  <1>4. ASSUME NEW n \in Names, Starts(n) PROVE KeysOfTheirPods'
    <2>1. /\ pod[n] # 0 /\ secret[n] # NoSecret /\ secret[n] \in Secrets
          /\ UNCHANGED <<pod, secret, created, restarted>>
      BY <1>4, <1>a, Numbers DEF Starts, TypeOK, Pods
    <2>2. CASE secret[n].key \in used
      BY <1>4, <1>b, <2>2 DEF Starts
    <2>3. CASE secret[n].key \notin used
      <3>1. running' = running \union {pod[n]} /\ used' = used \union {secret[n].key}
        BY <1>4, <2>3 DEF Starts
      <3>2. secret[n].key.for = OwnerOf(secret[n]) /\ OwnerOf(secret[n]) <= created
        BY <2>1, <1>a DEF Forward, OwnerOf
      <3>3. \A m \in Names : pod[m] # 0 /\ pod[m] = secret[n].key.for => m = n
        BY <3>2
      <3> QED
        BY <2>1, <3>1, <3>2, <3>3
    <2> QED
      BY <2>2, <2>3
  <1>5. ASSUME NEW n \in Names, Ends(n) PROVE KeysOfTheirPods'
    BY <1>5 DEF Ends
  <1>6. ASSUME NEW n \in Names, Manager(n) PROVE KeysOfTheirPods'
    BY <1>6, <1>b DEF Manager, SeesPod, SeesSecret, PodEvent, Take
  <1>7. CASE Crash \/ Restart
    BY <1>7, <1>b DEF Crash, Restart
  <1>8. CASE Check \/ Generate
    BY <1>8, <1>b DEF Check, Generate
  <1>9. CASE Apply
    <2>1. /\ worker.name \in Names /\ worker.pod \in Pods /\ worker # Resting
          /\ UNCHANGED <<pod, created, running, used, restarted>>
      BY <1>9, <1>a, WorkerFields DEF Apply
    <2>2. CASE secret' = secret
      BY <2>1, <2>2, <1>b
    <2>3. CASE secret' = [secret EXCEPT ![worker.name] = NewSecret]
      <3>1. NewSecret.key.for = worker.pod /\ NewSecret.owner = worker.pod
        BY DEF NewSecret
      <3>2. OwnerOf(NewSecret) \in {0, worker.pod}
        BY <3>1 DEF OwnerOf
      <3>3. \A m \in Names : secret'[m] = IF m = worker.name THEN NewSecret ELSE secret[m]
        BY <1>a, <2>3 DEF TypeOK
      <3>4. \A m \in Names : pod[m] # 0 /\ worker.pod = pod[m] => m = worker.name
        BY <1>a, <2>1 DEF OneName
      <3> QED
        BY <2>1, <3>1, <3>2, <3>3, <3>4
    <2> QED
      BY <1>9, <2>2, <2>3 DEF Apply
  <1>10. CASE UNCHANGED vars
    BY <1>10, <1>b DEF vars
  <1> QED
    BY <1>1, <1>2, <1>3, <1>4, <1>5, <1>6, <1>7, <1>8, <1>9, <1>10
       DEF Next, Kubernetes, Reconcile

\* The one-time key of a pod's own secret works when its container first starts
\* (operator/README.md:6), for any pods, lags of the cache, lost answers and crashes: who is
\* refused has been logged in before, or was given what an earlier pod left.
THEOREM RefusedOnlyForCause == Spec => []RefusedForCause
  <1>1. Init => KeysOfTheirPods /\ RefusedForCause
    <2> SUFFICES ASSUME Init PROVE KeysOfTheirPods
      BY DEF Init, RefusedForCause
    <2>1. \A n \in Names : pod[n] = 0 /\ secret[n] = NoSecret
      BY DEF Init
    <2> QED
      BY <2>1 DEF Init, KeysOfTheirPods
  <1>2. IInv /\ KeysOfTheirPods /\ RefusedForCause /\ [Next]_vars => RefusedForCause'
    <2> SUFFICES ASSUME IInv, KeysOfTheirPods, RefusedForCause, [Next]_vars
                 PROVE  RefusedForCause'
      OBVIOUS
    <2> USE DEF RefusedForCause, working, cluster, cache, containers
    <2>1. ASSUME NEW n \in Names, Starts(n) PROVE RefusedForCause'
      <3>1. /\ pod[n] # 0 /\ pod[n] \notin running /\ secret[n] # NoSecret
            /\ restarted' = restarted
        BY <2>1, Numbers DEF Starts, IInv, Pods
      <3>2. CASE secret[n].key \in used
        <4>1. refused' = refused \union {<<pod[n], secret[n]>>}
          BY <2>1, <3>2 DEF Starts
        <4>2. secret[n].owner = pod[n] => pod[n] \in restarted
          BY <3>1, <3>2 DEF KeysOfTheirPods
        <4> QED
          BY <3>1, <4>1, <4>2
      <3>3. CASE secret[n].key \notin used
        BY <2>1, <3>3 DEF Starts
      <3> QED
        BY <3>2, <3>3
    <2>2. ASSUME NEW n \in Names, Create(n) \/ Delete(n) \/ Collect(n) \/ Ends(n) \/ Manager(n)
          PROVE  RefusedForCause'
      BY <2>2 DEF Create, Delete, Collect, Ends, Manager, SeesPod, SeesSecret, PodEvent, Take
    <2>3. CASE Crash \/ Restart \/ Reconcile \/ UNCHANGED vars
      BY <2>3 DEF Crash, Restart, Reconcile, Check, Generate, Apply, vars
    <2> QED
      BY <2>1, <2>2, <2>3 DEF Next, Kubernetes
  <1> QED
    BY <1>1, <1>2, IInvHolds, KeysOfTheirPodsStep, PTL DEF Spec

-----------------------------------------------------------------------------
(* The TSymbiote controller                                                *)

LEMMA Fields ==
  /\ Gone \in Resources /\ Gone.uid = 0 /\ Gone.generation = 0
  /\ Idle.at = "idle" /\ Idle.copy = Gone
  /\ \A o \in Resources : o.uid \in Nat /\ o.generation \in Nat /\ o.version \in Nat
  /\ \A s, o : Now(s, o).at = s /\ Now(s, o).copy = o
  /\ \A o : Desired(o).owner = o.uid /\ Desired(o).of = o.generation
  BY DEF Gone, Idle, Resources, Now, Desired

\* r with only its status, and so its version, changed.
SameSpec(r, q) ==
  /\ q \in Resources /\ q.uid = r.uid /\ q.generation = r.generation
  /\ q = r \/ q.version = r.version + 1

\* A status update writes no spec.
LEMMA Bumped ==
  ASSUME NEW r \in Resources, NEW cs \in SUBSET Conditions
  PROVE  SameSpec(r, [r EXCEPT !.conditions = cs, !.version = @ + 1])
  <1> DEFINE q == [r EXCEPT !.conditions = cs, !.version = r.version + 1]
  <1>1. r.version \in Nat /\ r.version + 1 \in Nat
    BY DEF Resources
  <1>2. q \in Resources /\ q.uid = r.uid /\ q.generation = r.generation /\ q.version = r.version + 1
    BY <1>1 DEF Resources
  <1> QED
    BY <1>2 DEF SameSpec

LEMMA OnlyItsStatus ==
  ASSUME resource \in Resources, NEW c \in Conditions
  PROVE  SameSpec(resource, WithCondition(c))
  <1>1. resource.conditions \union {c} \in SUBSET Conditions
    BY DEF Resources, Conditions
  <1>2. CASE c \in resource.conditions
    BY <1>2 DEF WithCondition, SameSpec
  <1>3. CASE c \notin resource.conditions
    BY <1>1, <1>3, Bumped DEF WithCondition
  <1> QED
    BY <1>2, <1>3

\* Copies of a resource whose status is written.
LEMMA CopiesKept ==
  ASSUME NEW r \in Resources, NEW q \in Resources, NEW g \in Nat, SameSpec(r, q), r # Gone,
         CopyOf(r, r, g), NEW o \in Resources, CopyOf(o, r, g)
  PROVE  q # Gone /\ CopyOf(o, q, g) /\ CopyOf(q, q, g)
  <1> r.uid # 0 /\ r.generation # 0
    BY DEF CopyOf
  <1>1. q # Gone
    BY Fields DEF SameSpec
  <1> QED
    BY <1>1, Fields DEF CopyOf, SameSpec

LEMMA CtrlIInvInit == CtrlInit => CtrlIInv
  <1> SUFFICES ASSUME CtrlInit PROVE CtrlIInv
    OBVIOUS
  <1>1. CtrlTypeOK
    <2>1. Idle \in [at : {"idle", "init", "refetch", "apply", "blame", "report"}, copy : Resources]
      BY Fields DEF Idle
    <2>2. NoSts \in [owner : Nat, of : Nat]
      BY DEF NoSts
    <2>3. resource \in Resources /\ cachedResource \in Resources
      BY Fields DEF CtrlInit
    <2>4. 0 \in 0..MaxGenerations /\ 0 \in 0..MaxMishaps
      BY CtrlBoundsAssumption
    <2> QED
      BY <2>1, <2>2, <2>3, <2>4 DEF CtrlInit, CtrlTypeOK
  <1>2. CopyOf(Gone, Gone, 0)
    BY Fields DEF CopyOf, Gone
  <1>3. /\ resource = Gone /\ cachedResource = Gone /\ generations = 0 /\ claimed = 0
        /\ doing = Idle /\ doing.copy = Gone /\ doing.at = "idle"
    BY Fields DEF CtrlInit
  <1>4. Copies
    BY <1>2, <1>3 DEF Copies
  <1> QED
    BY <1>1, <1>3, <1>4 DEF CtrlIInv, CtrlInv, AvailableIsTrue, CacheAhead, Applied, Newer

\* The values of a state in which the invariant holds.
LEMMA CtrlValues ==
  ASSUME CtrlIInv
  PROVE  /\ resource \in Resources /\ cachedResource \in Resources /\ doing.copy \in Resources
         /\ doing \in [at : {"idle", "init", "refetch", "apply", "blame", "report"}, copy : Resources]
         /\ generations \in Nat /\ claimed \in Nat /\ claimed <= MaxGenerations /\ generations <= MaxGenerations
         /\ CopyOf(resource, resource, generations)
         /\ CopyOf(cachedResource, resource, generations)
         /\ CopyOf(doing.copy, resource, generations)
         /\ resource # Gone => resource.generation = generations
         /\ ~managing => doing = Idle
         /\ doing.at # "idle" => doing.copy # Gone
  BY CtrlBoundsAssumption DEF CtrlIInv, CtrlInv, CtrlTypeOK, Copies

\* A status is written, or is not, and the reconcile ends, or reads the resource again.
LEMMA StatusKeeps ==
  ASSUME CtrlIInv,
         resource' = resource \/ (resource # Gone /\ SameSpec(resource, resource')),
         UNCHANGED <<generations, sts, stsEvent, cachedResource, managing, removed>>,
         due' \in BOOLEAN, mishaps' \in 0..MaxMishaps,
         doing.at # "idle",
         \/ doing' = Idle
         \/ doing' = Now("refetch", resource') /\ Current(doing.copy),
         \/ claimed' = claimed
         \/ /\ claimed' = resource.generation /\ doing' = Idle
            /\ doing.at = "report" /\ Current(doing.copy)
  PROVE  CtrlIInv'
  <1>1. /\ resource' \in Resources /\ CopyOf(resource', resource', generations)
        /\ CopyOf(cachedResource, resource', generations)
        /\ resource' = Gone <=> resource = Gone
        /\ resource'.uid = resource.uid /\ resource'.generation = resource.generation
    <2>1. CASE resource' = resource
      BY <2>1, CtrlValues
    <2>2. CASE resource # Gone /\ SameSpec(resource, resource')
      <3>1. resource' \in Resources
        BY <2>2 DEF SameSpec
      <3>2. resource' # Gone /\ CopyOf(cachedResource, resource', generations)
            /\ CopyOf(resource', resource', generations)
        BY <2>2, <3>1, CtrlValues, CopiesKept
      <3> QED
        BY <2>2, <3>1, <3>2 DEF SameSpec
    <2> QED
      BY <2>1, <2>2
  <1>2. managing /\ doing.copy # Gone
    BY CtrlValues, Fields
  <1>3. Current(doing.copy) => /\ doing.copy.uid = resource.uid
                               /\ doing.copy.generation = resource.generation
                               /\ resource # Gone /\ cachedResource.generation = resource.generation
    <2> SUFFICES ASSUME Current(doing.copy)
                 PROVE  /\ doing.copy.uid = resource.uid
                        /\ doing.copy.generation = resource.generation
                        /\ resource # Gone /\ cachedResource.generation = resource.generation
      OBVIOUS
    <2>1. doing.copy.uid = resource.uid /\ doing.copy.generation = resource.generation
      BY CtrlValues DEF Current, CopyOf
    <2>2. resource # Gone
      BY <1>2, <2>1, CtrlValues, Fields DEF CopyOf
    <2>3. cachedResource.generation >= doing.copy.generation
      BY <1>2, <2>1 DEF CtrlIInv, CacheAhead
    <2> QED
      BY <2>1, <2>2, <2>3, CtrlValues, Fields DEF CopyOf
  <1>4. /\ doing' \in [at : {"idle", "init", "refetch", "apply", "blame", "report"}, copy : Resources]
        /\ doing'.copy = Gone \/ doing'.copy = resource'
        /\ doing'.at # "report" /\ (doing'.at # "idle" => doing'.copy # Gone)
        /\ doing'.copy # Gone => Current(doing.copy)
        /\ doing'.at # "idle" => Current(doing.copy) /\ doing'.copy = resource'
    <2>1. CASE doing' = Idle
      BY <2>1, Fields DEF Idle
    <2>2. CASE doing' = Now("refetch", resource') /\ Current(doing.copy)
      BY <1>1, <1>3, <2>2, Fields DEF Now
    <2> QED
      BY <2>1, <2>2
  <1>5. CtrlTypeOK'
    <2>1. claimed' \in 0..MaxGenerations
      BY <1>1, <1>3, CtrlValues, Fields, CtrlBoundsAssumption DEF CopyOf
    <2> QED
      BY <1>1, <1>4, <2>1 DEF CtrlIInv, CtrlInv, CtrlTypeOK
  <1>6. CopyOf(Gone, resource', generations)
    BY <1>1, CtrlValues, Fields DEF CopyOf, Gone
  <1>7. Copies'
    BY <1>1, <1>2, <1>4, <1>6, CtrlValues DEF Copies
  <1>8. CacheAhead' /\ Applied'
    BY <1>1, <1>3, <1>4, Fields, CtrlValues DEF CacheAhead, Applied
  <1>9. AvailableIsTrue'
    <2>1. CASE claimed' = claimed
      BY <1>1, <2>1 DEF CtrlIInv, CtrlInv, AvailableIsTrue, Desired
    <2>2. CASE claimed' = resource.generation /\ doing.at = "report" /\ Current(doing.copy)
      BY <1>1, <1>3, <2>2 DEF CtrlIInv, Applied, AvailableIsTrue, Desired
    <2> QED
      BY <2>1, <2>2
  <1>10. Newer'
    <2>1. CASE claimed' = claimed
      BY <1>1, <1>3, <1>4, <2>1 DEF CtrlIInv, Newer
    <2>2. CASE claimed' = resource.generation /\ doing' = Idle /\ Current(doing.copy)
      BY <1>1, <1>3, <2>2, Fields, CtrlValues DEF Newer
    <2> QED
      BY <2>1, <2>2
  <1> QED
    BY <1>5, <1>7, <1>8, <1>9, <1>10 DEF CtrlIInv, CtrlInv

LEMMA UsersKeep == CtrlIInv /\ (Users \/ CollectSts) => CtrlIInv'
  <1> SUFFICES ASSUME CtrlIInv, Users \/ CollectSts PROVE CtrlIInv'
    OBVIOUS
  <1>1. CASE CreateResource
    <2>1. /\ generations' = generations + 1 /\ generations + 1 \in 0..MaxGenerations
          /\ resource = Gone
          /\ UNCHANGED <<sts, stsEvent, cachedResource, managing, due, doing, claimed, removed, mishaps>>
      BY <1>1, CtrlValues, CtrlBoundsAssumption
      DEF CreateResource, NextGeneration, ctrlHistory, CtrlIInv, CtrlInv, CtrlTypeOK
    <2>2. /\ resource' \in Resources /\ resource' # Gone
          /\ resource'.uid = generations + 1 /\ resource'.generation = generations + 1
          /\ resource'.version = 1
      BY <1>1, CtrlValues, Fields DEF CreateResource, Resources
    <2>3. CtrlTypeOK'
      BY <2>1, <2>2 DEF CtrlTypeOK, CtrlIInv, CtrlInv
    <2>4. Copies'
      BY CtrlValues, <2>1, <2>2, Fields DEF Copies, CopyOf, CtrlIInv
    <2>5. doing.copy.uid <= generations /\ doing.copy.generation <= generations
          /\ cachedResource.generation <= generations
      BY CtrlValues DEF CopyOf
    <2>6. CacheAhead' /\ Applied'
      BY CtrlValues, <2>1, <2>2, <2>5, Fields DEF CacheAhead, Applied
    <2>7. claimed <= generations
      BY DEF CtrlIInv, Newer
    <2>8. Newer' /\ AvailableIsTrue'
      BY CtrlValues, <2>1, <2>2, <2>7, Fields DEF Newer, AvailableIsTrue
    <2> QED
      BY <2>3, <2>4, <2>6, <2>8 DEF CtrlIInv, CtrlInv
  <1>2. CASE EditResource
    <2>1. /\ generations' = generations + 1 /\ generations + 1 \in 0..MaxGenerations
          /\ resource # Gone
          /\ UNCHANGED <<sts, stsEvent, cachedResource, managing, due, doing, claimed, removed, mishaps>>
      BY <1>2, CtrlValues, CtrlBoundsAssumption
      DEF EditResource, NextGeneration, ctrlHistory, CtrlIInv, CtrlInv, CtrlTypeOK
    <2>2. /\ resource' \in Resources
          /\ resource'.uid = resource.uid /\ resource'.generation = generations + 1
          /\ resource'.version = resource.version + 1
      <3>1. resource.version \in Nat /\ resource.version + 1 \in Nat /\ generations + 1 \in Nat
        BY CtrlValues, Fields
      <3>2. resource' = [resource EXCEPT !.generation = generations + 1, !.version = resource.version + 1]
        BY <1>2 DEF EditResource
      <3> QED
        BY <3>1, <3>2, CtrlValues DEF Resources
    <2>3. resource' # Gone
      BY <2>2, CtrlValues, Fields
    <2>4. CtrlTypeOK'
      BY <2>1, <2>2 DEF CtrlTypeOK, CtrlIInv, CtrlInv
    <2>5. Copies'
      BY CtrlValues, <2>1, <2>2, <2>3, Fields DEF Copies, CopyOf
    <2>6. CacheAhead' /\ Applied' /\ Newer' /\ AvailableIsTrue'
      BY CtrlValues, <2>1, <2>2, <2>3, Fields, CtrlBoundsAssumption
      DEF CacheAhead, Applied, Newer, AvailableIsTrue, CopyOf, CtrlIInv, CtrlInv, CtrlTypeOK
    <2> QED
      BY <2>4, <2>5, <2>6 DEF CtrlIInv, CtrlInv
  <1>3. CASE DeleteResource
    <2>1. /\ resource # Gone /\ resource' = Gone
          /\ UNCHANGED <<generations, sts, stsEvent, cachedResource, managing, due, doing, claimed, removed, mishaps>>
      BY <1>3 DEF DeleteResource, ctrlHistory
    <2>2. CtrlTypeOK'
      BY <2>1, Fields DEF CtrlTypeOK, CtrlIInv, CtrlInv
    <2>3. Copies'
      BY CtrlValues, <2>1, Fields DEF Copies, CopyOf
    <2>4. CacheAhead' /\ Applied' /\ Newer' /\ AvailableIsTrue'
      BY CtrlValues, <2>1, Fields
      DEF CacheAhead, Applied, Newer, AvailableIsTrue, CopyOf, CtrlIInv, CtrlInv
    <2> QED
      BY <2>2, <2>3, <2>4 DEF CtrlIInv, CtrlInv
  <1>4. CASE RemoveSts
    <2>1. /\ sts' = NoSts /\ stsEvent' \in BOOLEAN /\ removed' = TRUE /\ mishaps' \in 0..MaxMishaps
          /\ UNCHANGED <<resource, generations, cachedResource, managing, due, doing, claimed>>
      BY <1>4, CtrlBoundsAssumption DEF RemoveSts, Mishap, StsBecomes, CtrlTypeOK, CtrlIInv, CtrlInv
    <2>2. NoSts \in [owner : Nat, of : Nat]
      BY DEF NoSts
    <2> QED
      BY <2>1, <2>2
      DEF CtrlTypeOK, Copies, CacheAhead, Applied, Newer, AvailableIsTrue, CtrlIInv, CtrlInv
  <1>5. CASE CollectSts
    <2>1. /\ sts.owner # resource.uid /\ sts' = NoSts /\ stsEvent' \in BOOLEAN
          /\ UNCHANGED <<resource, generations, cachedResource, managing, due, doing, claimed, removed, mishaps>>
      BY <1>5 DEF CollectSts, StsBecomes, ctrlHistory, CtrlTypeOK, CtrlIInv, CtrlInv
    <2>2. NoSts \in [owner : Nat, of : Nat]
      BY DEF NoSts
    <2>3. Desired(resource).owner = resource.uid /\ Desired(doing.copy).owner = doing.copy.uid
      BY Fields
    <2>4. AvailableIsTrue' /\ Applied'
      BY <2>1, <2>3 DEF Applied, AvailableIsTrue, CtrlIInv, CtrlInv
    <2> QED
      BY <2>1, <2>2, <2>4 DEF CtrlTypeOK, Copies, CacheAhead, Newer, CtrlIInv, CtrlInv
  <1> QED
    BY <1>1, <1>2, <1>3, <1>4, <1>5 DEF Users

LEMMA ManagerKeeps == CtrlIInv /\ (CtrlManager \/ TakeResource) => CtrlIInv'
  <1> SUFFICES ASSUME CtrlIInv, CtrlManager \/ TakeResource PROVE CtrlIInv'
    OBVIOUS
  <1>1. CASE SeesResource
    <2>1. /\ cachedResource' = resource /\ due' = TRUE
          /\ UNCHANGED <<resource, generations, sts, stsEvent, managing, doing, claimed, removed, mishaps>>
      BY <1>1 DEF SeesResource, ctrlCluster, ctrlHistory
    <2>2. CtrlTypeOK'
      BY <2>1, CtrlValues DEF CtrlTypeOK, CtrlIInv, CtrlInv
    <2>3. Copies'
      BY <2>1, CtrlValues DEF Copies
    <2>4. CacheAhead' /\ Newer'
      BY <2>1, CtrlValues, Fields DEF CacheAhead, Newer, CopyOf, CtrlIInv
    <2> QED
      BY <2>1, <2>2, <2>3, <2>4 DEF Applied, AvailableIsTrue, CtrlIInv, CtrlInv
  <1>2. CASE SeesSts
    BY <1>2 DEF SeesSts, ctrlHistory, CtrlTypeOK, Copies, CacheAhead, Applied, Newer, AvailableIsTrue,
                CtrlIInv, CtrlInv
  <1>3. CASE OperatorEnds
    <2>1. /\ managing' = FALSE /\ due' = FALSE /\ doing' = Idle /\ mishaps' \in 0..MaxMishaps
          /\ UNCHANGED <<resource, generations, sts, stsEvent, cachedResource, claimed, removed>>
      BY <1>3, CtrlBoundsAssumption
      DEF OperatorEnds, Mishap, ctrlCluster, ctrlHistory, CtrlTypeOK, CtrlIInv, CtrlInv
    <2>2. Idle \in [at : {"idle", "init", "refetch", "apply", "blame", "report"}, copy : Resources]
      BY Fields DEF Idle
    <2>3. CtrlTypeOK'
      BY <2>1, <2>2 DEF CtrlTypeOK, CtrlIInv, CtrlInv
    <2>4. CopyOf(Gone, resource, generations)
      BY CtrlValues, Fields DEF CopyOf
    <2>5. Copies'
      BY <2>1, <2>4, CtrlValues, Fields DEF Copies
    <2> QED
      BY <2>1, <2>3, <2>5, Fields DEF CacheAhead, Newer, Applied, AvailableIsTrue, CtrlIInv, CtrlInv
  <1>4. CASE OperatorStarts
    <2>1. /\ cachedResource' = resource /\ due' \in BOOLEAN /\ stsEvent' = FALSE /\ managing' = TRUE
          /\ UNCHANGED <<resource, generations, sts, doing, claimed, removed, mishaps>>
      BY <1>4 DEF OperatorStarts, ctrlHistory
    <2>2. doing = Idle
      BY <1>4, CtrlValues DEF OperatorStarts
    <2>3. CtrlTypeOK'
      BY <2>1, CtrlValues DEF CtrlTypeOK, CtrlIInv, CtrlInv
    <2>4. Copies'
      BY <2>1, CtrlValues DEF Copies
    <2> QED
      BY <2>1, <2>2, <2>3, <2>4, Fields
      DEF CacheAhead, Newer, Applied, AvailableIsTrue, CtrlIInv, CtrlInv
  <1>5. CASE TakeResource
    <2>1. /\ due' = FALSE /\ managing
          /\ UNCHANGED <<resource, generations, sts, stsEvent, cachedResource, managing, claimed, removed, mishaps>>
      BY <1>5 DEF TakeResource, ctrlCluster, ctrlHistory
    <2>2. \/ doing' = Idle
          \/ /\ cachedResource # Gone
             /\ \E s \in {"init", "apply"} : doing' = Now(s, cachedResource)
      BY <1>5 DEF TakeResource
    <2>3. /\ doing' \in [at : {"idle", "init", "refetch", "apply", "blame", "report"}, copy : Resources]
          /\ \/ doing'.copy = Gone /\ doing'.at = "idle"
             \/ doing'.copy = cachedResource /\ cachedResource # Gone
          /\ doing'.at # "report"
      BY <2>2, CtrlValues, Fields DEF Now, Idle
    <2>4. CtrlTypeOK'
      BY <2>1, <2>3 DEF CtrlTypeOK, CtrlIInv, CtrlInv
    <2>5. CopyOf(Gone, resource, generations)
      BY CtrlValues, Fields DEF CopyOf
    <2>6. Copies'
      BY <2>1, <2>3, <2>5, CtrlValues DEF Copies
    <2>7. CacheAhead' /\ Newer'
      BY <2>1, <2>3, CtrlValues, Fields DEF CacheAhead, Newer, CtrlIInv
    <2> QED
      BY <2>1, <2>3, <2>4, <2>6, <2>7 DEF Applied, AvailableIsTrue, CtrlIInv, CtrlInv
  <1> QED
    BY <1>1, <1>2, <1>3, <1>4, <1>5 DEF CtrlManager

LEMMA ReconcileKeeps == CtrlIInv /\ CtrlReconcile => CtrlIInv'
  <1> SUFFICES ASSUME CtrlIInv, CtrlReconcile PROVE CtrlIInv'
    OBVIOUS
  <1>t. due \in BOOLEAN /\ mishaps \in 0..MaxMishaps /\ mishaps \in Nat
    BY CtrlBoundsAssumption DEF CtrlIInv, CtrlInv, CtrlTypeOK
  <1>m. Mishap => mishaps' \in 0..MaxMishaps
    BY <1>t, CtrlBoundsAssumption DEF Mishap
  <1>r. doing.at # "idle" /\ Current(doing.copy) => resource # Gone
    BY CtrlValues, Fields DEF Current, CopyOf
  <1>w. \A c \in Conditions : SameSpec(resource, WithCondition(c))
    BY CtrlValues, OnlyItsStatus
  <1>c. "Progressing" \in Conditions /\ "Degraded" \in Conditions /\ "Available" \in Conditions
    BY DEF Conditions
  <1>1. CASE InitStatus
    <2>1. /\ UNCHANGED <<generations, sts, stsEvent, cachedResource, managing, removed, claimed>>
          /\ doing.at # "idle"
      BY <1>1 DEF InitStatus, ctrlHistory
    <2>2. resource' = resource \/ (resource # Gone /\ SameSpec(resource, resource'))
      BY <1>1, <1>r, <1>w, <1>c, <2>1 DEF InitStatus
    <2>3. \/ doing' = Idle
          \/ doing' = Now("refetch", resource') /\ Current(doing.copy)
      BY <1>1 DEF InitStatus, Errs
    <2>4. due' \in BOOLEAN /\ mishaps' \in 0..MaxMishaps
      BY <1>1, <1>t, <1>m DEF InitStatus, Errs
    <2> QED
      BY <2>1, <2>2, <2>3, <2>4, StatusKeeps
  <1>2. CASE Refetch
    <2>1. /\ UNCHANGED <<resource, generations, sts, stsEvent, cachedResource, managing, due, claimed,
                         removed, mishaps>>
          /\ doing.at # "idle"
      BY <1>2 DEF Refetch, ctrlCluster, ctrlHistory
    <2>2. \/ doing' = Now("blame", doing.copy)
          \/ cachedResource # Gone /\ doing' = Now("apply", cachedResource)
      BY <1>2 DEF Refetch
    <2>3. /\ doing' \in [at : {"idle", "init", "refetch", "apply", "blame", "report"}, copy : Resources]
          /\ doing'.copy = doing.copy \/ doing'.copy = cachedResource
          /\ doing'.at # "report" /\ doing'.copy # Gone
      BY <2>1, <2>2, CtrlValues, Fields DEF Now
    <2>4. CtrlTypeOK'
      BY <2>1, <2>3 DEF CtrlTypeOK, CtrlIInv, CtrlInv
    <2>5. Copies'
      BY <2>1, <2>3, CtrlValues, Fields DEF Copies
    <2>6. CacheAhead' /\ Newer'
      BY <2>1, <2>3, CtrlValues, Fields DEF CacheAhead, Newer, CtrlIInv
    <2> QED
      BY <2>1, <2>3, <2>4, <2>5, <2>6 DEF Applied, AvailableIsTrue, CtrlIInv, CtrlInv
  <1>3. CASE ApplySts
    <2>1. /\ UNCHANGED <<resource, generations, cachedResource, managing, due, claimed>>
          /\ doing.at # "idle"
      BY <1>3 DEF ApplySts
    <2>2. mishaps' \in 0..MaxMishaps
      BY <1>3, <1>t, <1>m DEF ApplySts
    <2>3. \/ doing' = Now("report", doing.copy)
          \/ doing' = Now("blame", doing.copy)
      BY <1>3 DEF ApplySts
    <2>4. \/ sts' = Desired(doing.copy) /\ stsEvent' \in BOOLEAN /\ removed' = FALSE
          \/ UNCHANGED <<sts, stsEvent, removed>> /\ doing' = Now("blame", doing.copy)
      BY <1>3 DEF ApplySts, StsBecomes, CtrlIInv, CtrlInv, CtrlTypeOK
    <2>5. /\ doing' \in [at : {"idle", "init", "refetch", "apply", "blame", "report"}, copy : Resources]
          /\ doing'.copy = doing.copy
          /\ doing'.at = "report" => sts' = Desired(doing.copy)
      BY <2>3, <2>4, CtrlValues, Fields DEF Now
    <2>6. Desired(doing.copy) \in [owner : Nat, of : Nat]
      BY CtrlValues, Fields DEF Desired
    <2>7. CtrlTypeOK'
      BY <2>1, <2>2, <2>4, <2>5, <2>6 DEF CtrlTypeOK, CtrlIInv, CtrlInv
    <2>8. Copies'
      BY <2>1, <2>5, CtrlValues, Fields DEF Copies
    <2>9. CacheAhead' /\ Newer' /\ Applied'
      BY <2>1, <2>5 DEF CacheAhead, Newer, Applied, CtrlIInv
    <2>10. resource # Gone /\ claimed = resource.generation => Desired(doing.copy) = Desired(resource)
      BY <2>1, CtrlValues DEF Desired, CopyOf, Newer, CtrlIInv
    <2>11. AvailableIsTrue'
      BY <2>1, <2>4, <2>10 DEF AvailableIsTrue, CtrlIInv, CtrlInv
    <2> QED
      BY <2>7, <2>8, <2>9, <2>11 DEF CtrlIInv, CtrlInv
  <1>4. CASE ReportFailure
    <2>1. /\ UNCHANGED <<generations, sts, stsEvent, cachedResource, managing, removed, claimed>>
          /\ doing.at # "idle" /\ doing' = Idle /\ due' = TRUE
      BY <1>4 DEF ReportFailure, ctrlHistory, Errs
    <2>2. resource' = resource \/ (resource # Gone /\ SameSpec(resource, resource'))
      <3>1. CASE Current(doing.copy) /\ resource' = [resource EXCEPT !.version = @ + 1]
        <4>1. resource.version \in Nat /\ resource.version + 1 \in Nat
          BY CtrlValues, Fields
        <4>2. resource' = [resource EXCEPT !.version = resource.version + 1]
          BY <3>1
        <4>3. /\ resource' \in Resources /\ resource'.uid = resource.uid
              /\ resource'.generation = resource.generation /\ resource'.version = resource.version + 1
          BY <4>1, <4>2, CtrlValues DEF Resources
        <4> QED
          BY <1>r, <2>1, <3>1, <4>3 DEF SameSpec
      <3> QED
        BY <1>4, <1>r, <1>w, <1>c, <2>1, <3>1 DEF ReportFailure
    <2>3. mishaps' \in 0..MaxMishaps
      BY <1>4, <1>t, <1>m DEF ReportFailure
    <2> QED
      BY <2>1, <2>2, <2>3, StatusKeeps
  <1>5. CASE ReportReady
    <2>1. /\ UNCHANGED <<generations, sts, stsEvent, cachedResource, managing, removed>>
          /\ doing.at = "report" /\ doing' = Idle
      BY <1>5 DEF ReportReady, Errs
    <2>2. resource' = resource \/ (resource # Gone /\ SameSpec(resource, resource'))
      BY <1>5, <1>r, <1>w, <1>c, <2>1 DEF ReportReady
    <2>3. claimed' = claimed \/ (claimed' = resource.generation /\ Current(doing.copy))
      BY <1>5 DEF ReportReady
    <2>4. due' \in BOOLEAN /\ mishaps' \in 0..MaxMishaps
      BY <1>5, <1>t, <1>m DEF ReportReady, Errs
    <2> QED
      BY <2>1, <2>2, <2>3, <2>4, StatusKeeps
  <1> QED
    BY <1>1, <1>2, <1>3, <1>4, <1>5 DEF CtrlReconcile

LEMMA CtrlIInvStep == CtrlIInv /\ [CtrlNext]_ctrlVars => CtrlIInv'
  <1> SUFFICES ASSUME CtrlIInv, [CtrlNext]_ctrlVars PROVE CtrlIInv'
    OBVIOUS
  <1>1. CASE CtrlNext
    BY <1>1, UsersKeep, ManagerKeeps, ReconcileKeeps DEF CtrlNext
  <1>2. CASE UNCHANGED ctrlVars
    BY <1>2 DEF ctrlVars, ctrlCluster, ctrlHistory, CtrlIInv, CtrlInv, CtrlTypeOK, AvailableIsTrue,
                Copies, CacheAhead, Applied, Newer
  <1> QED
    BY <1>1, <1>2

\* ReportReady, with an update the API server refuses when the resource has changed since, and
\* the cache it has all its copies from: whoever is told that a spec is available, has what
\* that spec asks for, until the spec or the stateful set is changed by somebody else.
THEOREM AvailableHolds == CtrlSpec => []CtrlInv
  <1>1. CtrlIInv => CtrlInv
    BY DEF CtrlIInv
  <1> QED
    BY <1>1, CtrlIInvInit, CtrlIInvStep, PTL DEF CtrlSpec

\* No reconcile ends, and no event is consumed, without the work done or queued again.
LEMMA QuietStep ==
  CtrlIInv /\ Reported /\ QuietIsDone /\ [CtrlNext]_ctrlVars => (Reported /\ QuietIsDone)'
  <1> SUFFICES ASSUME CtrlIInv, Reported, QuietIsDone, [CtrlNext]_ctrlVars
               PROVE  Reported' /\ QuietIsDone'
    OBVIOUS
  <1> USE DEF ctrlHistory, ctrlCluster
  <1>a. /\ Idle.at = "idle" /\ stsEvent \in BOOLEAN /\ due \in BOOLEAN
        /\ \A s, o : Now(s, o).at = s /\ Now(s, o).copy = o
    BY Fields DEF CtrlIInv, CtrlInv, CtrlTypeOK
  <1>b. \A s : StsBecomes(s) => sts' = s /\ (stsEvent' \/ UNCHANGED <<sts, stsEvent>>)
    BY <1>a DEF StsBecomes
  <1>q. ~(managing' /\ ~due' /\ doing' = Idle /\ ~stsEvent' /\ cachedResource' = resource'
            /\ resource' # Gone) => QuietIsDone'
    BY DEF QuietIsDone
  <1>r. due' \/ doing'.at # "report" => Reported'
    BY DEF Reported
  <1>1. CASE CreateResource \/ EditResource
    <2>1. /\ UNCHANGED <<sts, stsEvent, cachedResource, due, doing>>
          /\ resource'.generation = generations + 1
      <3>1. CASE CreateResource
        BY <3>1 DEF CreateResource
      <3>2. CASE EditResource
        <4>1. resource' = [resource EXCEPT !.generation = generations + 1, !.version = resource.version + 1]
              /\ UNCHANGED <<sts, stsEvent, cachedResource, due, doing>>
          BY <3>2 DEF EditResource
        <4> QED
          BY <4>1, CtrlValues DEF Resources
      <3> QED
        BY <1>1, <3>1, <3>2
    <2>2. cachedResource'.generation # resource'.generation
      BY <2>1, CtrlValues, Fields DEF CopyOf
    <2> QED
      BY <2>1, <2>2, <1>q DEF Reported
  <1>2. CASE DeleteResource
    BY <1>2, <1>q DEF DeleteResource, Reported
  <1>3. CASE RemoveSts \/ CollectSts
    <2>1. /\ stsEvent' /\ UNCHANGED <<due, doing>>
      BY <1>3, <1>b DEF RemoveSts, CollectSts, StsBecomes
    <2> QED
      BY <2>1, <1>q DEF Reported
  <1>4. CASE SeesResource \/ SeesSts
    BY <1>4, <1>q, <1>r DEF SeesResource, SeesSts
  <1>5. CASE OperatorEnds
    BY <1>5, <1>a, <1>q, <1>r DEF OperatorEnds
  <1>6. CASE OperatorStarts
    <2>1. doing' = Idle /\ (due' \/ resource' = Gone)
      BY <1>6, CtrlValues DEF OperatorStarts
    <2> QED
      BY <2>1, <1>a, <1>q, <1>r
  <1>7. CASE TakeResource
    <2>1. UNCHANGED <<resource, cachedResource>>
      BY <1>7 DEF TakeResource
    <2>2. \/ doing' = Idle /\ cachedResource = Gone
          \/ \E s \in {"init", "apply"} : doing' = Now(s, cachedResource)
      BY <1>7 DEF TakeResource
    <2>3. /\ doing'.at # "report"
          /\ doing' = Idle => cachedResource' = Gone
      BY <2>1, <2>2, <1>a
    <2> QED
      BY <2>1, <2>3, <1>q, <1>r
  <1>8. CASE InitStatus
    <2>1. due' \/ doing' = Now("refetch", resource')
      BY <1>8 DEF InitStatus, Errs
    <2> QED
      BY <2>1, <1>a, <1>q, <1>r
  <1>9. CASE Refetch
    <2>1. doing' = Now("blame", doing.copy) \/ doing' = Now("apply", cachedResource)
      BY <1>9 DEF Refetch
    <2> QED
      BY <2>1, <1>a, <1>q, <1>r
  <1>10. CASE ApplySts
    <2>1. \/ doing' = Now("report", doing.copy) /\ sts' = Desired(doing.copy)
          \/ doing' = Now("blame", doing.copy)
      BY <1>10 DEF ApplySts, StsBecomes
    <2> QED
      BY <2>1, <1>a, <1>q DEF Reported
  <1>11. CASE ReportFailure
    BY <1>11, <1>q, <1>r DEF ReportFailure, Errs
  <1>12. CASE ReportReady
    <2>1. /\ doing.at = "report" /\ doing' = Idle /\ UNCHANGED <<sts, stsEvent>>
          /\ due' \/ /\ Current(doing.copy) /\ resource' = WithCondition("Available")
                     /\ UNCHANGED due
      BY <1>12 DEF ReportReady, Errs
    <2>2. CASE ~due' /\ ~stsEvent'
      <3>1. sts' = Desired(doing.copy)
        BY <2>1, <2>2, <1>a DEF Reported
      <3>2. Current(doing.copy) /\ resource' = WithCondition("Available")
        BY <2>1, <2>2
      <3>3. doing.copy.uid = resource.uid /\ doing.copy.generation = resource.generation
        BY <3>2, CtrlValues DEF Current, CopyOf
      <3>4. resource'.uid = resource.uid /\ resource'.generation = resource.generation
        BY <3>2, CtrlValues, OnlyItsStatus DEF SameSpec, Conditions
      <3>5. "Available" \in resource'.conditions
        <4>1. CASE "Available" \in resource.conditions
          BY <3>2, <4>1 DEF WithCondition
        <4>2. CASE "Available" \notin resource.conditions
          <5>1. resource' = [resource EXCEPT !.conditions = resource.conditions \union {"Available"},
                                             !.version = resource.version + 1]
            BY <3>2, <4>2 DEF WithCondition
          <5> QED
            BY <5>1, CtrlValues DEF Resources
        <4> QED
          BY <4>1, <4>2
      <3>6. sts' = Desired(resource')
        BY <3>1, <3>3, <3>4 DEF Desired
      <3> QED
        BY <2>1, <3>5, <3>6, <1>a, <1>r DEF QuietIsDone, InStep
    <2>3. CASE due' \/ stsEvent'
      BY <2>1, <2>3, <1>a, <1>q, <1>r DEF Reported
    <2> QED
      BY <2>2, <2>3
  <1>13. CASE UNCHANGED ctrlVars
    BY <1>13 DEF ctrlVars, Reported, QuietIsDone, InStep
  <1> QED
    BY <1>1, <1>2, <1>3, <1>4, <1>5, <1>6, <1>7, <1>8, <1>9, <1>10, <1>11, <1>12, <1>13
       DEF CtrlNext, Users, CtrlManager, CtrlReconcile

\* Whatever fails, is edited, deleted or answered late: a reconciler at rest, with a cache that
\* is not behind, has applied and reported the present spec.  With the fairness of the manager
\* this is why Settles holds: it can come to rest nowhere else.
THEOREM RestsWhenDone == CtrlSpec => []QuietIsDone
  <1>1. CtrlInit => CtrlIInv /\ Reported /\ QuietIsDone
    <2> SUFFICES ASSUME CtrlInit PROVE Reported /\ QuietIsDone
      BY CtrlIInvInit
    <2> QED
      BY Fields DEF CtrlInit, Reported, QuietIsDone
  <1>2. CtrlIInv /\ [CtrlNext]_ctrlVars => CtrlIInv'
    BY CtrlIInvStep
  <1> QED
    BY <1>1, <1>2, QuietStep, PTL DEF CtrlSpec

\* What is read is the resource, or what the cache has, which does not go back behind a report.
LEMMA NothingEarlierStep ==
  CtrlIInv /\ NothingEarlier /\ [CtrlNext]_ctrlVars => NothingEarlier'
  <1> SUFFICES ASSUME CtrlIInv, NothingEarlier, [CtrlNext]_ctrlVars PROVE NothingEarlier'
    OBVIOUS
  <1> USE DEF ctrlHistory, ctrlCluster, NothingEarlier
  <1>a. /\ Idle.at = "idle" /\ Idle.copy = Gone /\ Gone.uid <= Gone.generation
        /\ \A s, o : Now(s, o).at = s /\ Now(s, o).copy = o
    BY Fields
  <1>b. resource # Gone => resource.generation >= claimed
    BY CtrlValues DEF CtrlIInv, Newer
  <1>1. CASE CreateResource
    <2>1. /\ resource' = [uid |-> generations + 1, generation |-> generations + 1,
                          version |-> 1, conditions |-> {}]
          /\ UNCHANGED <<cachedResource, doing, claimed>>
      BY <1>1 DEF CreateResource
    <2>2. resource'.uid <= resource'.generation
      BY <2>1, CtrlValues
    <2> QED
      BY <2>1, <2>2
  <1>2. CASE EditResource
    <2>1. /\ resource' = [resource EXCEPT !.generation = generations + 1,
                                          !.version = resource.version + 1]
          /\ UNCHANGED <<cachedResource, doing, claimed>>
      BY <1>2 DEF EditResource
    <2>2. resource'.uid = resource.uid /\ resource'.generation = generations + 1
      BY <2>1, CtrlValues DEF Resources
    <2>3. resource'.uid <= resource'.generation
      BY <2>2, CtrlValues, Fields DEF CopyOf
    <2> QED
      BY <2>1, <2>3
  <1>3. CASE DeleteResource
    BY <1>3, <1>a DEF DeleteResource
  <1>4. CASE RemoveSts \/ CollectSts \/ SeesSts
    BY <1>4 DEF RemoveSts, CollectSts, SeesSts
  <1>5. CASE SeesResource \/ OperatorStarts
    BY <1>5, <1>b DEF SeesResource, OperatorStarts
  <1>6. CASE OperatorEnds
    BY <1>6, <1>a DEF OperatorEnds
  <1>7. CASE TakeResource
    <2>1. /\ UNCHANGED <<resource, cachedResource, claimed>>
          /\ \/ doing' = Idle
             \/ /\ cachedResource # Gone
                /\ \E s \in {"init", "apply"} : doing' = Now(s, cachedResource)
      BY <1>7 DEF TakeResource
    <2> QED
      BY <2>1, <1>a
  <1>8. CASE InitStatus \/ ReportFailure \/ ReportReady
    <2>1. /\ doing.at # "idle" /\ UNCHANGED cachedResource
          /\ claimed' = claimed \/ (claimed' = resource.generation /\ Current(doing.copy))
          /\ doing' = Idle \/ (doing' = Now("refetch", resource') /\ Current(doing.copy) /\ UNCHANGED claimed)
      BY <1>8 DEF InitStatus, ReportFailure, ReportReady, Errs
    <2>2. resource'.uid = resource.uid /\ resource'.generation = resource.generation
      <3>1. CASE \E c \in Conditions : resource' = WithCondition(c)
        BY <3>1, CtrlValues, OnlyItsStatus DEF SameSpec
      <3>2. CASE resource' = [resource EXCEPT !.version = @ + 1]
        BY <3>2, CtrlValues DEF Resources
      <3>3. CASE resource' = resource
        BY <3>3
      <3> QED
        BY <1>8, <3>1, <3>2, <3>3 DEF InitStatus, ReportFailure, ReportReady, Conditions
    <2>3. doing.copy.uid = resource.uid /\ doing.copy # Gone =>
              cachedResource.generation >= doing.copy.generation
      BY DEF CtrlIInv, CacheAhead
    <2>4. Current(doing.copy) =>
            /\ doing.copy.uid = resource.uid /\ doing.copy.generation = resource.generation
            /\ doing.copy # Gone /\ resource # Gone
      BY <2>1, CtrlValues, Fields DEF Current, CopyOf
    <2>5. cachedResource # Gone => cachedResource.generation >= claimed'
      BY <2>1, <2>3, <2>4
    <2>6. doing'.at # "idle" => doing'.copy.generation >= claimed'
      BY <2>1, <2>2, <2>4, <1>a
    <2>7. doing'.copy = Gone \/ doing'.copy = resource'
      BY <2>1, <1>a
    <2> QED
      BY <2>1, <2>2, <2>5, <2>6, <2>7, <1>a
  <1>9. CASE Refetch
    <2>1. /\ UNCHANGED <<resource, cachedResource, claimed>> /\ doing.at # "idle"
          /\ \/ doing' = Now("blame", doing.copy)
             \/ cachedResource # Gone /\ doing' = Now("apply", cachedResource)
      BY <1>9 DEF Refetch
    <2> QED
      BY <2>1, <1>a
  <1>10. CASE ApplySts
    <2>1. /\ UNCHANGED <<resource, cachedResource, claimed>> /\ doing.at # "idle"
          /\ doing' = Now("report", doing.copy) \/ doing' = Now("blame", doing.copy)
      BY <1>10 DEF ApplySts
    <2> QED
      BY <2>1, <1>a
  <1>11. CASE UNCHANGED ctrlVars
    BY <1>11 DEF ctrlVars
  <1> QED
    BY <1>1, <1>2, <1>3, <1>4, <1>5, <1>6, <1>7, <1>8, <1>9, <1>10, <1>11
       DEF CtrlNext, Users, CtrlManager, CtrlReconcile

\* The abstract variables, and a status update, which no rollout sees.
LEMMA SpecUnseen ==
  ASSUME UNCHANGED <<generations, sts, claimed, removed>>, Desired(resource') = Desired(resource)
  PROVE  UNCHANGED Rollout!dvars
  BY DEF Rollout!dvars, Desired

\* Any step of the controller is one of the deployment, or none.
LEMMA RolloutStep ==
  CtrlIInv /\ NothingEarlier /\ [CtrlNext]_ctrlVars => [Rollout!DNext]_(Rollout!dvars)
  <1> SUFFICES ASSUME CtrlIInv, NothingEarlier, [CtrlNext]_ctrlVars
               PROVE  [Rollout!DNext]_(Rollout!dvars)
    OBVIOUS
  <1> USE DEF ctrlHistory, ctrlCluster
  <1>g. Desired(Gone) = Rollout!None /\ (Desired(resource) = Rollout!None <=> resource = Gone)
    BY CtrlValues, Fields DEF Desired, Rollout!None, CopyOf
  <1>s. ASSUME NEW c \in Conditions, resource' = WithCondition(c)
        PROVE  Desired(resource') = Desired(resource)
    BY <1>s, CtrlValues, OnlyItsStatus DEF SameSpec, Desired
  <1>c. "Progressing" \in Conditions /\ "Degraded" \in Conditions /\ "Available" \in Conditions
    BY DEF Conditions
  <1>1. CASE CreateResource
    <2>1. /\ generations' = generations + 1 /\ resource = Gone
          /\ resource'.uid = generations + 1 /\ resource'.generation = generations + 1
          /\ UNCHANGED <<sts, claimed, removed>>
      BY <1>1 DEF CreateResource, NextGeneration
    <2>2. Desired(resource') = [owner |-> generations + 1, of |-> generations + 1]
      BY <2>1 DEF Desired
    <2>3. Rollout!Request
      BY <1>g, <2>1, <2>2 DEF Rollout!Request, Desired
    <2> QED
      BY <2>3 DEF Rollout!DNext
  <1>2. CASE EditResource
    <2>1. /\ generations' = generations + 1 /\ resource # Gone
          /\ resource' = [resource EXCEPT !.generation = generations + 1,
                                          !.version = resource.version + 1]
          /\ UNCHANGED <<sts, claimed, removed>>
      BY <1>2 DEF EditResource, NextGeneration
    <2>2. resource'.uid = resource.uid /\ resource'.generation = generations + 1
      BY <2>1, CtrlValues DEF Resources
    <2>3. Desired(resource') = [owner |-> Desired(resource).owner, of |-> generations + 1]
      BY <2>2 DEF Desired
    <2>4. Rollout!Request
      BY <1>g, <2>1, <2>3 DEF Rollout!Request, Desired
    <2> QED
      BY <2>4 DEF Rollout!DNext
  <1>3. CASE DeleteResource
    <2>1. Rollout!Withdraw
      BY <1>3, <1>g DEF DeleteResource, Rollout!Withdraw, Desired
    <2> QED
      BY <2>1 DEF Rollout!DNext
  <1>4. CASE RemoveSts
    <2>1. Rollout!Remove
      BY <1>4 DEF RemoveSts, StsBecomes, NoSts, Rollout!Remove, Rollout!None, Desired
    <2> QED
      BY <2>1 DEF Rollout!DNext
  <1>5. CASE CollectSts
    <2>1. Rollout!Collect
      BY <1>5 DEF CollectSts, StsBecomes, NoSts, Rollout!Collect, Rollout!None, Desired
    <2> QED
      BY <2>1 DEF Rollout!DNext
  <1>6. CASE CtrlManager \/ TakeResource \/ Refetch
    BY <1>6, SpecUnseen
    DEF CtrlManager, SeesResource, SeesSts, OperatorEnds, OperatorStarts, TakeResource, Refetch
  <1>7. CASE InitStatus
    BY <1>7, <1>s, <1>c, SpecUnseen DEF InitStatus
  <1>8. CASE ApplySts
    <2>1. CASE UNCHANGED <<sts, removed>>
      BY <1>8, <2>1, SpecUnseen DEF ApplySts
    <2>2. CASE sts' = Desired(doing.copy) /\ removed' = FALSE
      <3> DEFINE o == doing.copy
      <3>1. o # Gone /\ UNCHANGED <<resource, generations, claimed>> /\ o \in Resources
        BY <1>8, CtrlValues DEF ApplySts
      <3>2. /\ claimed <= o.generation /\ o.generation <= generations
            /\ o.uid <= o.generation /\ o.uid # 0 /\ o.generation # 0
        BY <1>8, <3>1, CtrlValues DEF ApplySts, NothingEarlier, CopyOf
      <3>3. o.uid \in 1..generations /\ o.generation \in 1..generations /\ 0 < o.uid
        BY <3>1, <3>2, CtrlValues, Fields
      <3>4. o.generation = resource.generation => Desired(o) = Desired(resource)
        BY CtrlValues DEF CopyOf, Desired
      <3>5. Desired(o) = [owner |-> o.uid, of |-> o.generation]
        BY DEF Desired
      <3>6. Rollout!Deploy([owner |-> o.uid, of |-> o.generation])
        BY <2>2, <3>1, <3>2, <3>3, <3>4, <3>5, Fields DEF Rollout!Deploy, Desired
      <3> QED
        BY <3>3, <3>6 DEF Rollout!DNext
    <2> QED
      BY <1>8, <2>1, <2>2 DEF ApplySts, StsBecomes
  <1>9. CASE ReportFailure
    <2>1. Desired(resource') = Desired(resource)
      <3>1. CASE resource' = [resource EXCEPT !.version = @ + 1]
        BY <3>1, CtrlValues DEF Resources, Desired
      <3> QED
        BY <1>9, <1>s, <1>c, <3>1 DEF ReportFailure
    <2> QED
      BY <1>9, <2>1, SpecUnseen DEF ReportFailure
  <1>10. CASE ReportReady
    <2>1. CASE UNCHANGED <<resource, claimed>>
      BY <1>10, <2>1, SpecUnseen DEF ReportReady
    <2>2. CASE /\ Current(doing.copy) /\ resource' = WithCondition("Available")
               /\ claimed' = resource.generation
      <3>1. UNCHANGED <<generations, sts, removed>> /\ doing.at = "report"
        BY <1>10 DEF ReportReady
      <3>2. Desired(resource') = Desired(resource)
        BY <1>s, <1>c, <2>2
      <3>3. doing.copy.uid = resource.uid /\ doing.copy.generation = resource.generation
        BY <2>2, CtrlValues DEF Current, CopyOf
      <3>4. sts = Desired(resource) \/ removed
        BY <3>1, <3>3 DEF CtrlIInv, Applied, Desired
      <3>5. resource # Gone
        BY <3>1, <3>3, CtrlValues, Fields DEF CopyOf
      <3>6. Rollout!Report
        BY <1>g, <2>2, <3>1, <3>2, <3>4, <3>5, Fields DEF Rollout!Report, Desired
      <3> QED
        BY <3>6 DEF Rollout!DNext
    <2> QED
      BY <1>10, <2>1, <2>2 DEF ReportReady
  <1>11. CASE UNCHANGED ctrlVars
    BY <1>11, SpecUnseen DEF ctrlVars
  <1> QED
    BY <1>1, <1>2, <1>3, <1>4, <1>5, <1>6, <1>7, <1>8, <1>9, <1>10, <1>11
       DEF CtrlNext, Users, CtrlReconcile

\* Reconcile implements the abstract Deployment: however old the cache it reads from, and
\* whatever fails, crashes, or is deleted and created again meanwhile, ApplyWithOwnerRef never
\* goes back before a spec that ReportReady has reported.
THEOREM RollsForward == CtrlSpec => OneDeployment
  <1>1. CtrlInit => Rollout!DInit
    BY DEF CtrlInit, Rollout!DInit, Rollout!None, NoSts, Desired, Gone
  <1>2. CtrlInit => CtrlIInv /\ NothingEarlier
    <2> SUFFICES ASSUME CtrlInit PROVE NothingEarlier
      BY CtrlIInvInit
    <2> QED
      BY Fields DEF CtrlInit, NothingEarlier
  <1> QED
    BY <1>1, <1>2, CtrlIInvStep, NothingEarlierStep, RolloutStep, PTL
       DEF CtrlSpec, OneDeployment, Rollout!DSpec

-----------------------------------------------------------------------------
(* The process                                                             *)

\* A behaviour of the operator is one of each of its controllers: what is proved of either
\* holds of the process that runs both.
THEOREM OperatorIsItsControllers == OperatorSpec => Spec /\ CtrlSpec
  <1>1. OperatorInit => Init /\ CtrlInit
    BY DEF OperatorInit
  <1>2. [OperatorNext]_operatorVars => [Next]_vars /\ [CtrlNext]_ctrlVars
    BY DEF OperatorNext, operatorVars
  <1> QED
    BY <1>1, <1>2, PTL DEF OperatorSpec, Spec, CtrlSpec
=============================================================================
