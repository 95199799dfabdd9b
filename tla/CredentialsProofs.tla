------------------------- MODULE CredentialsProofs --------------------------
(***************************************************************************)
(* Theorems of Credentials, for all plans, generations and budgets.        *)
(***************************************************************************)
EXTENDS Credentials, FiniteSetTheorems, TLAPS

(* The resource, its copies and the budget are well-formed.                *)
KubeShape ==
  /\ {cr, cache, obj} \subseteq Object(Status)
  /\ cacheFresh \in BOOLEAN /\ objFresh \in BOOLEAN
  /\ queued \in BOOLEAN /\ timer \in BOOLEAN
  /\ left \in [Disturbances -> Nat]
  /\ plan \in Plans /\ allowed \in Budgets

(* Every copy is of a spec the user has asked for, and no disturbance      *)
(* happens more often than allowed.                                        *)
Asked ==
  /\ {cr.gen, cache.gen, obj.gen} \subseteq DOMAIN plan
  /\ \A k \in Disturbances : left[k] <= allowed[k]

(* The rest is well-formed.                                                *)
PassShape ==
  /\ pc \in {"idle", "fetched", "release", "reget", "admitted", "auth",
             "keystore", "deploy", "gate", "server", "refetch", "record"}
  /\ mine \in [name: Names, hash: {0} \cup Passwords]

ClusterShape ==
  /\ {auth, authSeen, keystore, sts} \subseteq Secrets
  /\ pods \in [hash: {0} \cup Passwords, pw: {0} \cup Passwords]
  /\ volume \in {0} \cup Passwords
  /\ workload \in [there: BOOLEAN, owner: Owners, secret: Names]

(* What RetainedUsable assumes.                                            *)
Undisturbed ==
  /\ Retained /\ Automatic
  /\ Unspent("lag") /\ Unspent("other") /\ Unspent("external")

(* A secret that is to be retained never has an owner that could take it   *)
(* along, so it is there as long as somebody needs it.                     *)
Conserved ==
  Undisturbed =>
    /\ auth.owner = 0
    /\ volume # 0 => auth.there /\ auth.pw = volume

IInv == KubeShape /\ Asked /\ PassShape /\ ClusterShape /\ Conserved

-----------------------------------------------------------------------------
(* What the operators return.                                              *)

(* A plan asks for something in each of its generations.                   *)
LEMMA PlanShape ==
  ASSUME plan \in Plans
  PROVE  \E n \in 1 .. MaxGen : plan \in [1 .. n -> Wishes]
  BY PlansAssumption

LEMMA BoundTypes ==
  /\ MaxGen \in Nat \ {0}
  /\ \A b \in Budgets : b \in [Disturbances -> Nat]
  /\ {"server", "other", "crash", "lag", "external", "conn", "kube",
      "report", "pod"} = Disturbances
  BY BoundsAssumption DEF Disturbances

(* No generation belongs to more resources than there are generations.     *)
LEMMA IncarnationType ==
  ASSUME NEW g \in 1 .. MaxGen
  PROVE  Incarnation(g) \in 1 .. g
<1> DEFINE S == {h \in 1 .. g : h = 1 \/ plan[h].renewed}
<1>1. g \in Nat /\ g >= 1 /\ 1 \in Int
  BY BoundTypes
<1>2. IsFiniteSet(1 .. g) /\ Cardinality(1 .. g) = g
  BY <1>1, FS_Interval
<1>3. S \subseteq 1 .. g /\ {1} \subseteq S
  BY <1>1
<1>4. IsFiniteSet(S) /\ Cardinality(S) <= g
  BY <1>2, <1>3, FS_Subset
<1>5. Cardinality({1}) = 1 /\ Cardinality({1}) <= Cardinality(S)
  BY <1>3, <1>4, FS_Singleton, FS_Subset
<1>6. Cardinality(S) \in Nat
  BY <1>4, FS_CardinalityType
<1> QED BY <1>1, <1>4, <1>5, <1>6 DEF Incarnation

(* Seven passwords are enough to find one that nobody knows.               *)
LEMMA FreshType == Fresh \in Generated
<1>1. \A a, b, c, d, e, f :
        \E p \in Generated : p \notin {a, b, c, d, e, f}
  BY DEF Generated
<1> QED BY <1>1 DEF Fresh

(* A resource created with a generation is older than any of its specs.    *)
LEMMA OwnerType ==
  ASSUME KubeShape, NEW secret \in Secrets, NEW r \in BOOLEAN
  PROVE  /\ me \in 1 .. MaxGen /\ me \in Owners
         /\ OwnerOf(secret, r) \in Owners
         /\ r /\ secret.owner = 0 => OwnerOf(secret, r) = 0
<1>1. obj.gen \in 1 .. MaxGen
  BY DEF KubeShape, Object
<1>2. me \in 1 .. MaxGen
  BY <1>1, IncarnationType, BoundTypes DEF me
<1> QED BY <1>2, BoundTypes DEF OwnerOf, Owners, Secrets

LEMMA NoSecret ==
  /\ Absent \in Secrets
  /\ Stopped \in [hash: {0} \cup Passwords, pw: {0} \cup Passwords]
  /\ Nothing \in [name: Names, hash: {0} \cup Passwords]
  /\ [there |-> FALSE, owner |-> 0, secret |-> ""]
       \in [there: BOOLEAN, owner: Owners, secret: Names]
  BY BoundTypes DEF Absent, Secrets, Owners, Stopped, Nothing, Names

(* What is written to a secret is a password.                              *)
LEMMA ChosenType ==
  ASSUME NEW seen \in Secrets
  PROVE  Chosen(seen) \in {0} \cup Passwords
  BY FreshType DEF Chosen, Passwords, Secrets

(* The wish of a pass is one of the plan.                                  *)
LEMMA WishType ==
  ASSUME KubeShape, Asked
  PROVE  wished \in Wishes
  BY PlanShape DEF KubeShape, Asked, wished

-----------------------------------------------------------------------------
(* What a step does to the resource, its copies and the budget.            *)

Paying == left' = left \/ \E k \in Disturbances : Spend(k)

(* What is unspent after a step was unspent before it.                     *)
LEMMA Paid ==
  ASSUME KubeShape, Asked, Paying, allowed' = allowed
  PROVE  /\ left' \in [Disturbances -> Nat]
         /\ \A k \in Disturbances :
              /\ left'[k] <= allowed'[k]
              /\ Unspent(k)' => Unspent(k) /\ ~Spend(k)
<1>1. allowed \in [Disturbances -> Nat]
  BY BoundTypes DEF KubeShape
<1>2. CASE left' = left
  BY <1>1, <1>2 DEF KubeShape, Asked, Unspent, Spend
<1>3. ASSUME NEW d \in Disturbances, Spend(d)
      PROVE  /\ left' \in [Disturbances -> Nat]
             /\ \A k \in Disturbances :
                  /\ left'[k] <= allowed'[k]
                  /\ Unspent(k)' => Unspent(k) /\ ~Spend(k)
  BY <1>1, <1>3 DEF KubeShape, Asked, Unspent, Spend
<1> QED BY <1>2, <1>3 DEF Paying

(* A step of the operator writes the resource in hand, if anything, and    *)
(* has the copy it had, the cached one, or none.                           *)
Handles ==
  /\ cr' \in {cr, Released(obj), Guarded(obj), Recorded(obj)}
  /\ obj' \in {obj, cache, Created("")}
  /\ cache' = cache
  /\ {cacheFresh, objFresh, queued, timer}' \subseteq BOOLEAN
  /\ Paying
  /\ UNCHANGED given

LEMMA WriteEffect ==
  ASSUME KubeShape, NEW new, TryWrite(new)
  PROVE  cr' \in {cr, new} /\ cacheFresh' \in BOOLEAN
<1>1. CASE objFresh
  <2>1. cr' = new /\ cacheFresh' = (cacheFresh /\ new = cr)
    BY <1>1 DEF TryWrite, Write
  <2> QED BY <2>1, Zenon
<1>2. CASE ~objFresh
  BY <1>2 DEF TryWrite, KubeShape
<1> QED BY <1>1, <1>2

LEMMA ReturnEffect ==
  ASSUME KubeShape, NEW r \in BOOLEAN, Return(r)
  PROVE  /\ obj' = Created("") /\ objFresh' \in BOOLEAN
         /\ timer' \in BOOLEAN
<1>1. obj' = Created("") /\ objFresh' = FALSE /\ timer' = (timer \/ r)
  BY DEF Return, Forget
<1> QED BY <1>1, Zenon

LEMMA ReadEffect ==
  ASSUME KubeShape, ReadCache
  PROVE  obj' = cache /\ objFresh' \in BOOLEAN /\ Paying
  BY BoundTypes DEF KubeShape, ReadCache, Paying

LEMMA NoticeEffect ==
  ASSUME Notice
  PROVE  queued' \in BOOLEAN
  BY Zenon DEF Notice

LEMMA RetainEffect ==
  ASSUME NEW r, Retain(r)
  PROVE  Paying
  BY BoundTypes DEF Retain, Paying

(* The steps that end a pass.                                              *)
LEMMA EndsHandle ==
  ASSUME KubeShape,
         \/ CleanUpOnDeleteFails \/ Release \/ RejectExternal
         \/ SecretFails \/ KeystoreFails \/ DeployFails \/ GateWaits
         \/ ServerFails \/ Record
  PROVE  Handles
<1>1. CASE CleanUpOnDeleteFails \/ RejectExternal
  <2>1. /\ Return(TRUE) /\ Notice /\ Paying
        /\ UNCHANGED <<cr, cache, cacheFresh, given>>
    BY <1>1, RetainEffect, BoundTypes
       DEF CleanUpOnDeleteFails, RejectExternal, CleanUp, Paying
  <2> QED BY <2>1, ReturnEffect, NoticeEffect DEF Handles, KubeShape
<1>2. CASE Release \/ Record
  <2>1. /\ (TryWrite(Released(obj)) \/ TryWrite(Recorded(obj)))
        /\ Return(~objFresh)
        /\ UNCHANGED <<cache, queued, left, given>>
    BY <1>2 DEF Release, Record
  <2> QED BY <2>1, ReturnEffect, WriteEffect DEF Handles, KubeShape, Paying
<1>3. CASE SecretFails \/ KeystoreFails \/ DeployFails \/ GateWaits
           \/ ServerFails
  <2>1. /\ Return(TRUE) /\ Paying
        /\ UNCHANGED <<cr, cache, cacheFresh, queued, given>>
    BY <1>3, RetainEffect, BoundTypes
       DEF SecretFails, KeystoreFails, DeployFails, GateWaits, ServerFails,
           Paying
  <2> QED BY <2>1, ReturnEffect DEF Handles, KubeShape
<1> QED BY <1>1, <1>2, <1>3

(* The steps that go on with the copy in hand, or a new one.               *)
LEMMA GoesOnHandle ==
  ASSUME KubeShape,
         \/ Fetch \/ CleanUpOnDelete \/ AddFinalizer \/ ReGet
         \/ DisableDatabase \/ PrepareExternal \/ KeepInternal
         \/ UseReferenced \/ UseExisting \/ WriteSecret
         \/ EnsureKeystore \/ DeployDatabase \/ DeployServer \/ Refetch
  PROVE  Handles
<1>1. CASE Fetch \/ ReGet \/ Refetch
  <2>1. /\ UNCHANGED <<cr, cache, cacheFresh, timer, given>>
        /\ queued' \in {queued, FALSE}
        /\ ReadCache \/ UNCHANGED <<obj, objFresh, left>>
    BY <1>1 DEF Fetch, ReGet, Refetch
  <2> QED BY <2>1, ReadEffect DEF Handles, KubeShape, Paying
<1>2. CASE AddFinalizer
  <2>1. /\ TryWrite(Guarded(obj)) /\ UNCHANGED <<cache, queued, left, given>>
        /\ Return(TRUE) \/ UNCHANGED <<obj, objFresh, timer>>
    BY <1>2 DEF AddFinalizer, Goto
  <2> QED BY <2>1, ReturnEffect, WriteEffect DEF Handles, KubeShape, Paying
<1>3. CASE \/ CleanUpOnDelete \/ DisableDatabase \/ PrepareExternal
           \/ WriteSecret \/ EnsureKeystore \/ DeployDatabase
           \/ DeployServer
  <2>1. /\ UNCHANGED <<cr, cache, cacheFresh, obj, objFresh, timer, given>>
        /\ Notice /\ Paying
    BY <1>3, RetainEffect, BoundTypes
       DEF CleanUpOnDelete, DisableDatabase, PrepareExternal, WriteSecret,
           EnsureKeystore, DeployDatabase, DeployServer, Goto, CleanUp, Paying
  <2> QED BY <2>1, NoticeEffect DEF Handles, KubeShape
<1>4. CASE KeepInternal \/ UseReferenced \/ UseExisting
  <2>1. /\ UNCHANGED <<cr, cache, cacheFresh, obj, objFresh, queued, timer,
                       given>>
        /\ Paying
    BY <1>4, BoundTypes
       DEF KeepInternal, UseReferenced, UseExisting, ReadSecret, Goto, Paying
  <2> QED BY <2>1 DEF Handles, KubeShape
<1> QED BY <1>1, <1>2, <1>3, <1>4

(* What is written is well-formed and of the same generation.              *)
LEMMA WrittenShape ==
  ASSUME KubeShape, PassShape, NEW new \in {Released(obj), Guarded(obj),
                                           Recorded(obj)}
  PROVE  new \in Object(Status) /\ new.gen = obj.gen
  BY DEF KubeShape, PassShape, Object, Released, Guarded, Recorded, Status

(* A new resource asks for the first spec of the plan.                     *)
LEMMA CreatedShape ==
  ASSUME plan \in Plans
  PROVE  /\ Created("") \in Object(Status) /\ Created("").gen = 1
         /\ 1 \in DOMAIN plan
<1>1. 1 \in 1 .. MaxGen /\ 1 \in DOMAIN plan
  BY PlanShape, BoundTypes
<1> QED BY <1>1 DEF Created, Object, Status, Names

LEMMA HandlesStep ==
  ASSUME KubeShape, Asked, PassShape, Handles
  PROVE  KubeShape' /\ Asked'
<1>1. /\ {cr, cache, obj}' \subseteq Object(Status)
      /\ {cr.gen, cache.gen, obj.gen}' \subseteq DOMAIN plan
  BY WrittenShape, CreatedShape DEF KubeShape, Asked, Handles
<1> QED BY <1>1, Paid DEF KubeShape, Asked, Handles, given

(* What users, the watch and a restart do.                                 *)
LEMMA EnvironmentStep ==
  ASSUME KubeShape, Asked, Environment
  PROVE  KubeShape' /\ Asked' /\ Paying /\ UNCHANGED given
<1>1. CASE Crash \/ Cluster \/ SecretLost \/ PodsFail
  <2>1. /\ cr' = cr /\ cache' \in {cache, cr}
        /\ obj' \in {obj, Created("")}
        /\ {cacheFresh, objFresh, timer}' \subseteq BOOLEAN
        /\ Paying /\ UNCHANGED given
    BY <1>1, BoundTypes
       DEF Crash, Restart, Cluster, SecretDelivered, PodsStart,
           CollectSecrets, CollectWorkloads, SecretLost, PodsFail, KubeShape,
           Paying, given
  <2>2. queued' \in BOOLEAN
    <3>1. CASE SecretDelivered
      <4>1. queued' = (queued \/ Concerns(authSeen, auth))
        BY <3>1 DEF SecretDelivered
      <4> QED BY <4>1, Zenon
    <3>2. CASE CollectSecrets \/ CollectWorkloads \/ SecretLost
      BY <3>2, NoticeEffect DEF CollectSecrets, CollectWorkloads, SecretLost
    <3>3. CASE Crash \/ PodsStart \/ PodsFail
      BY <3>3 DEF Crash, Restart, PodsStart, PodsFail
    <3> QED BY <1>1, <3>1, <3>2, <3>3 DEF Cluster
  <2>3. /\ {cr, cache, obj}' \subseteq Object(Status)
        /\ {cr.gen, cache.gen, obj.gen}' \subseteq DOMAIN plan
    BY <2>1, CreatedShape DEF KubeShape, Asked
  <2> QED BY <2>1, <2>2, <2>3, Paid DEF KubeShape, Asked, given
<1>2. CASE UNCHANGED credVars /\ (WatchDelivers \/ TimerFires \/ Resync)
  <2>1. UNCHANGED <<given, left>> /\ Paying
    BY <1>2 DEF credVars, WatchDelivers, TimerFires, Resync, Paying
  <2> QED BY <1>2, <2>1 DEF KubeShape, Asked, WatchDelivers, TimerFires,
                            Resync, given
<1>3. CASE User /\ UNCHANGED credVars
  <2>1. /\ cr' \in Object(Status) /\ cr'.gen \in DOMAIN plan
        /\ UNCHANGED <<cache, obj, queued, timer, left, given>>
        /\ cacheFresh' = FALSE /\ objFresh' = FALSE
    <3>1. CASE UserEdits /\ Planned(cr'.gen, FALSE)
      BY <1>3, <3>1, BoundTypes DEF KubeShape, UserEdits, Overwrite, Edited,
         Object, Planned, credVars
    <3>2. CASE UserDeletes
      BY <1>3, <3>2 DEF KubeShape, Asked, UserDeletes, Overwrite, Condemned,
         Object, credVars
    <3>3. CASE UserRecreates /\ Planned(cr'.gen, TRUE)
      <4>1. cr' = [Created("") EXCEPT !.gen = cr.gen + 1]
            /\ cr.gen < MaxGen
            /\ UNCHANGED <<cache, obj, queued, timer, left>>
            /\ cacheFresh' = FALSE /\ objFresh' = FALSE
        BY <3>3 DEF UserRecreates, Overwrite
      <4>2. cr.gen \in 1 .. MaxGen
        BY DEF KubeShape, Object
      <4>3. cr.gen + 1 \in 1 .. MaxGen
        <5>1. cr.gen < MaxGen /\ MaxGen \in Nat
          BY <4>1, BoundTypes
        <5> QED BY <4>2, <5>1
      <4>4. cr' \in Object(Status)
        BY <4>1, <4>3, CreatedShape DEF Object, KubeShape
      <4> QED BY <1>3, <3>3, <4>1, <4>4 DEF Planned, credVars
    <3> QED BY <1>3, <3>1, <3>2, <3>3 DEF User
  <2> QED BY <2>1 DEF KubeShape, Asked, Paying, given
<1> QED BY <1>1, <1>2, <1>3 DEF Environment

-----------------------------------------------------------------------------
(* What a step does to the pass and to the cluster.                        *)
LEMMA PassStep ==
  ASSUME KubeShape, Asked, PassShape, ClusterShape, Next
  PROVE  PassShape'
<1> USE DEF PassShape
<1>1. CASE \/ CleanUpOnDeleteFails \/ Release \/ RejectExternal
           \/ SecretFails \/ KeystoreFails \/ DeployFails \/ GateWaits
           \/ ServerFails \/ Record \/ Crash
  BY <1>1, NoSecret
     DEF CleanUpOnDeleteFails, Release, RejectExternal, SecretFails,
         KeystoreFails, DeployFails, GateWaits, ServerFails, Record, Crash,
         Return
<1>2. CASE \/ Fetch \/ CleanUpOnDelete \/ AddFinalizer \/ ReGet
           \/ DisableDatabase \/ PrepareExternal \/ KeepInternal
           \/ EnsureKeystore \/ DeployDatabase \/ DeployServer \/ Refetch
  BY <1>2, NoSecret
     DEF Fetch, CleanUpOnDelete, AddFinalizer, ReGet, DisableDatabase,
         PrepareExternal, KeepInternal, EnsureKeystore, DeployDatabase,
         DeployServer, Refetch, Goto, Return
<1>3. CASE UseReferenced \/ UseExisting
  <2>1. CASE UseReferenced
    BY <2>1 DEF UseReferenced, Goto, Names, Passwords
  <2>2. CASE UseExisting
    <3>1. PICK seen \in {auth, authSeen} :
            mine' = [name |-> "auth", hash |-> seen.pw]
      BY <2>2 DEF UseExisting
    <3>2. seen.pw \in {0} \cup Passwords
      BY <3>1 DEF ClusterShape, Secrets
    <3> QED BY <2>2, <3>1, <3>2 DEF UseExisting, Goto, Names
  <2> QED BY <1>3, <2>1, <2>2
<1>4. CASE WriteSecret
  <2>1. PICK seen \in {auth, authSeen} :
          mine' = [name |-> "auth", hash |-> Chosen(seen)]
    BY <1>4 DEF WriteSecret
  <2>2. Chosen(seen) \in {0} \cup Passwords
    BY <2>1, ChosenType DEF ClusterShape
  <2> QED BY <1>4, <2>1, <2>2 DEF WriteSecret, Goto, Names
<1>5. CASE Cluster \/ SecretLost \/ PodsFail \/ UNCHANGED credVars
  BY <1>5 DEF Cluster, SecretDelivered, PodsStart, CollectSecrets,
     CollectWorkloads, SecretLost, PodsFail, credVars
<1> QED BY <1>1, <1>2, <1>3, <1>4, <1>5 DEF Next, Reconcile, Environment

(* A step replaces the secrets and the workloads by others of their shape. *)
LEMMA ClusterStep ==
  ASSUME KubeShape, Asked, PassShape, ClusterShape, Next
  PROVE  ClusterShape'
<1> USE DEF ClusterShape
<1>1. CASE \/ Fetch \/ Release \/ AddFinalizer \/ ReGet \/ KeepInternal
           \/ UseReferenced \/ UseExisting \/ SecretFails \/ KeystoreFails
           \/ DeployFails \/ GateWaits \/ ServerFails \/ Refetch
           \/ Record \/ Crash \/ UNCHANGED credVars
  BY <1>1 DEF Fetch, Release, AddFinalizer, ReGet, KeepInternal,
     UseReferenced, UseExisting, SecretFails, KeystoreFails, DeployFails,
     GateWaits, ServerFails, Refetch, Record, Crash, credVars, cluster,
     secrets
<1>2. CASE \/ CleanUpOnDelete \/ CleanUpOnDeleteFails \/ DisableDatabase
           \/ PrepareExternal \/ RejectExternal
  BY <1>2, NoSecret DEF CleanUpOnDelete, CleanUpOnDeleteFails,
     DisableDatabase, PrepareExternal, RejectExternal, CleanUp, Undeploy
<1>3. CASE WriteSecret
  <2>1. PICK seen \in {auth, authSeen}, r \in BOOLEAN :
          auth' = [there |-> TRUE, owner |-> OwnerOf(auth, r),
                   pw |-> Chosen(seen)]
    BY <1>3 DEF WriteSecret
  <2>2. auth' \in Secrets
    BY <2>1, OwnerType, ChosenType DEF Secrets
  <2> QED BY <1>3, <2>2 DEF WriteSecret
<1>4. CASE EnsureKeystore
  <2>1. PICK r \in BOOLEAN :
          keystore' = [there |-> TRUE, owner |-> OwnerOf(keystore, r),
                       pw |-> 0]
    BY <1>4 DEF EnsureKeystore
  <2>2. keystore' \in Secrets
    BY <2>1, OwnerType DEF Secrets
  <2> QED BY <1>4, <2>2 DEF EnsureKeystore
<1>5. CASE DeployDatabase
  <2>1. sts' \in Secrets
    BY <1>5, OwnerType, NoSecret DEF DeployDatabase, Secrets, PassShape
  <2> QED BY <1>5, <2>1 DEF DeployDatabase, secrets
<1>6. CASE DeployServer
  <2>1. ResolvedName \in Names
    BY DEF ResolvedName, KubeShape, Object, Status, Names
  <2>2. workload' \in [there: BOOLEAN, owner: Owners, secret: Names]
    BY <1>6, <2>1, OwnerType, NoSecret DEF DeployServer
  <2> QED BY <1>6, <2>2 DEF DeployServer, secrets
<1>7. CASE SecretDelivered \/ SecretLost
  BY <1>7, NoSecret DEF SecretDelivered, SecretLost
<1>8. CASE PodsStart \/ PodsFail
  <2>1. sts.pw \in {0} \cup Passwords /\ auth.pw \in {0} \cup Passwords
    BY DEF Secrets
  <2>2. CASE PodsStart
    BY <2>1, <2>2 DEF PodsStart, secrets
  <2>3. CASE PodsFail
    BY <2>3, NoSecret DEF PodsFail, secrets
  <2> QED BY <1>8, <2>2, <2>3
<1>9. CASE CollectSecrets \/ CollectWorkloads
  <2>1. CASE CollectSecrets
    BY <2>1, NoSecret DEF CollectSecrets, Kept
  <2>2. CASE CollectWorkloads
    <3>1. /\ sts' \in {sts, Absent} /\ pods' \in {pods, Stopped}
          /\ workload' \in
               {workload, [there |-> FALSE, owner |-> 0, secret |-> ""]}
          /\ UNCHANGED <<secrets, volume>>
      BY <2>2 DEF CollectWorkloads, Kept
    <3> QED BY <3>1, NoSecret DEF secrets
  <2> QED BY <1>9, <2>1, <2>2
<1> QED BY <1>1, <1>2, <1>3, <1>4, <1>5, <1>6, <1>7, <1>8, <1>9
        DEF Next, Reconcile, Environment, Cluster

-----------------------------------------------------------------------------
(* The two safety properties.                                              *)

(* Under the premises of RetainedUsable no step has had them fail yet, and *)
(* the storage of every spec is to be retained.                            *)
LEMMA StillUndisturbed ==
  ASSUME KubeShape, Asked, Paying, UNCHANGED given, Undisturbed'
  PROVE  /\ Undisturbed
         /\ ~Spend("lag") /\ ~Spend("other") /\ ~Spend("external")
         /\ wished.retain = TRUE /\ wished.auth \in {"none", "ref"}
         /\ \A r \in BOOLEAN : Retain(r) => r
<1>1. /\ Retained /\ Automatic
      /\ Unspent("lag") /\ Unspent("other") /\ Unspent("external")
      /\ ~Spend("lag") /\ ~Spend("other") /\ ~Spend("external")
  <2>1. Retained /\ Automatic
    BY DEF Undisturbed, Retained, Uniform, Automatic, given
  <2>2. {"lag", "other", "external"} \subseteq Disturbances
    BY BoundTypes
  <2> QED BY <2>1, <2>2, Paid DEF Undisturbed, given
<1>2. obj.gen \in DOMAIN plan /\ 1 \in DOMAIN plan
  BY CreatedShape DEF KubeShape, Asked
<1>3. plan[obj.gen].retain = plan[1].retain /\ plan[1].retain
      /\ plan[obj.gen].auth \in {"none", "ref"}
  BY <1>1, <1>2 DEF Retained, Uniform, Automatic
<1>4. wished.retain = TRUE
  BY <1>3, WishType DEF wished, Wishes
<1>5. \A r \in BOOLEAN : Retain(r) => r
  BY <1>1, <1>4 DEF Retain
<1> QED BY <1>1, <1>3, <1>4, <1>5 DEF Undisturbed, wished

(* A step deletes the secret, gives it an owner or starts the volume with  *)
(* another password only where the premises exclude it.                    *)
LEMMA ConservedStep ==
  ASSUME IInv, Next, Paying, UNCHANGED given
  PROVE  Conserved'
<1> SUFFICES ASSUME Undisturbed'
             PROVE  /\ auth'.owner = 0
                    /\ volume' # 0 => auth'.there /\ auth'.pw = volume'
  BY DEF Conserved
<1>1. /\ ~Spend("lag") /\ ~Spend("other") /\ ~Spend("external")
      /\ wished.retain = TRUE /\ wished.auth \in {"none", "ref"}
      /\ \A r \in BOOLEAN : Retain(r) => r
  BY StillUndisturbed DEF IInv
<1>2. auth.owner = 0 /\ (volume # 0 => auth.there /\ auth.pw = volume)
  BY StillUndisturbed DEF IInv, Conserved
<1>3. CASE UNCHANGED <<auth, volume>>
  BY <1>2, <1>3
<1>4. CASE CleanUpOnDelete \/ CleanUpOnDeleteFails
  <2>1. UNCHANGED <<auth, volume>>
    BY <1>1, <1>4 DEF CleanUpOnDelete, CleanUpOnDeleteFails
  <2> QED BY <1>3, <2>1
<1>5. CASE DisableDatabase \/ PrepareExternal \/ RejectExternal
  <2>1. UNCHANGED <<auth, volume>>
    BY <1>1, <1>5 DEF DisableDatabase, PrepareExternal, RejectExternal,
       CleanUp
  <2> QED BY <1>3, <2>1
<1>6. CASE WriteSecret
  <2>1. PICK seen \in {auth, authSeen}, r \in BOOLEAN :
          /\ \/ seen = auth /\ Retain(r)
             \/ seen # auth /\ r = wished.retain /\ Spend("lag")
          /\ wished.auth = "none" => ~seen.there
          /\ auth' = [there |-> TRUE, owner |-> OwnerOf(auth, r),
                      pw |-> Chosen(seen)]
    BY <1>6 DEF WriteSecret
  <2>2. seen = auth /\ r /\ ~auth.there /\ volume' = volume
    BY <1>1, <1>6, <2>1 DEF WriteSecret
  <2>3. OwnerOf(auth, r) = 0
    BY <1>2, <2>2, OwnerType DEF IInv, ClusterShape
  <2> QED BY <1>2, <2>1, <2>2, <2>3
<1>7. CASE SecretLost
  BY <1>1, <1>7 DEF SecretLost
<1>8. CASE PodsStart
  BY <1>2, <1>8 DEF PodsStart, secrets
<1>9. CASE CollectSecrets
  <2>1. auth' = auth /\ volume' = volume
    BY <1>2, <1>9 DEF CollectSecrets, Kept, Orphan
  <2> QED BY <1>3, <2>1
<1>10. CASE \/ Fetch \/ Release \/ AddFinalizer \/ ReGet \/ KeepInternal
            \/ UseReferenced \/ UseExisting \/ SecretFails \/ EnsureKeystore
            \/ KeystoreFails \/ DeployDatabase \/ DeployFails \/ GateWaits
            \/ DeployServer \/ ServerFails \/ Refetch \/ Record \/ Crash
            \/ SecretDelivered \/ CollectWorkloads \/ PodsFail
            \/ UNCHANGED credVars
  <2>1. UNCHANGED <<auth, volume>>
    BY <1>10 DEF Fetch, Release, AddFinalizer, ReGet, KeepInternal,
       UseReferenced, UseExisting, SecretFails, EnsureKeystore,
       KeystoreFails, DeployDatabase, DeployFails, GateWaits, DeployServer,
       ServerFails, Refetch, Record, Crash, SecretDelivered,
       CollectWorkloads, PodsFail, credVars, cluster, secrets
  <2> QED BY <1>3, <2>1
<1> QED BY <1>4, <1>5, <1>6, <1>7, <1>8, <1>9, <1>10
        DEF Next, Reconcile, Environment, Cluster

(* Every step keeps the invariant.                                         *)
LEMMA KubeStep ==
  ASSUME IInv, Next
  PROVE  KubeShape' /\ Asked' /\ Paying /\ UNCHANGED given
<1>1. CASE Reconcile
  BY <1>1, EndsHandle, GoesOnHandle, HandlesStep
     DEF IInv, Reconcile, Handles
<1>2. CASE Environment
  BY <1>2, EnvironmentStep DEF IInv
<1> QED BY <1>1, <1>2 DEF Next

LEMMA InitInvariant == Init => IInv
<1> SUFFICES ASSUME Init PROVE IInv
  OBVIOUS
<1>1. KubeShape /\ Asked
  <2>1. /\ cr = Created("") /\ cache = Created("") /\ obj = Created("")
        /\ {cacheFresh, objFresh, queued, timer} \subseteq BOOLEAN
        /\ left \in Budgets /\ plan \in Plans /\ allowed = left
    BY DEF Init, KubeInit
  <2>2. left \in [Disturbances -> Nat]
    BY <2>1, BoundTypes
  <2>3. KubeShape
    BY <2>1, <2>2, CreatedShape DEF KubeShape
  <2>4. ASSUME NEW k \in Disturbances
        PROVE  left[k] <= allowed[k]
    <3>1. left[k] \in Nat /\ allowed = left
      BY <2>1, <2>2
    <3> QED BY <3>1
  <2> QED BY <2>1, <2>3, <2>4, CreatedShape DEF Asked
<1>2. PassShape /\ ClusterShape
  BY NoSecret DEF Init, PassShape, ClusterShape
<1>3. Conserved
  BY DEF Init, Conserved, Absent
<1> QED BY <1>1, <1>2, <1>3 DEF IInv

LEMMA NextInvariant == IInv /\ [Next]_vars => IInv'
<1> SUFFICES ASSUME IInv, [Next]_vars PROVE IInv'
  OBVIOUS
<1>1. CASE Next
  <2>1. KubeShape' /\ Asked' /\ Paying /\ UNCHANGED given
    BY <1>1, KubeStep
  <2> QED BY <1>1, <2>1, PassStep, ClusterStep, ConservedStep DEF IInv
<1>2. CASE UNCHANGED vars
  BY <1>2 DEF vars, kubeVars, credVars, given, cluster, secrets, IInv,
     KubeShape, Asked, PassShape, ClusterShape, Conserved, Undisturbed,
     Retained, Uniform, Automatic, Unspent
<1> QED BY <1>1, <1>2

(* Secrets, workloads and the copies of the resource keep their shape      *)
(* whatever the user asks for.                                             *)
THEOREM TypeCorrect == Spec => []TypeOK
<1>1. IInv => TypeOK
  BY DEF IInv, TypeOK, KubeShape, PassShape, ClusterShape
<1> QED BY <1>1, InitInvariant, NextInvariant, PTL DEF Spec

(* The password of a retained volume stays in the secret, for any history  *)
(* of disabling, deleting and creating, any number of crashes and failed   *)
(* calls of ensureAuthenticationSecret and its clean-ups.                  *)
THEOREM RetainedStaysUsable == Spec => []RetainedUsable
<1>1. IInv => RetainedUsable
  BY DEF IInv, Conserved, Undisturbed, RetainedUsable
<1> QED BY <1>1, InitInvariant, NextInvariant, PTL DEF Spec

(* The steps that write the secret write the password it has, or the one   *)
(* in the spec.                                                            *)
LEMMA PersistsStep ==
  ASSUME IInv, [Next]_vars, auth.there, auth'.there, Unspent("lag")'
  PROVE  auth'.pw \in {auth.pw, Inline}
<1>1. CASE Next
  <2>1. ~Spend("lag")
    BY <1>1, KubeStep, Paid, BoundTypes DEF IInv, given
  <2>2. CASE WriteSecret
    <3>1. PICK seen \in {auth, authSeen}, r \in BOOLEAN :
            /\ \/ seen = auth /\ Retain(r)
               \/ seen # auth /\ r = wished.retain /\ Spend("lag")
            /\ auth' = [there |-> TRUE, owner |-> OwnerOf(auth, r),
                        pw |-> Chosen(seen)]
      BY <2>2 DEF WriteSecret
    <3> QED BY <2>1, <3>1 DEF Chosen
  <2>3. CASE auth' \in {auth, Absent}
    BY <2>3 DEF Absent
  <2>4. CASE \/ CleanUpOnDelete \/ CleanUpOnDeleteFails \/ DisableDatabase
             \/ PrepareExternal \/ RejectExternal \/ SecretLost
             \/ CollectSecrets
    BY <2>3, <2>4 DEF CleanUpOnDelete, CleanUpOnDeleteFails,
       DisableDatabase, PrepareExternal, RejectExternal, CleanUp, SecretLost,
       CollectSecrets, Kept
  <2>5. CASE \/ Fetch \/ Release \/ AddFinalizer \/ ReGet \/ KeepInternal
             \/ UseReferenced \/ UseExisting \/ SecretFails
             \/ EnsureKeystore \/ KeystoreFails \/ DeployDatabase
             \/ DeployFails \/ GateWaits \/ DeployServer \/ ServerFails
             \/ Refetch \/ Record \/ Crash \/ SecretDelivered \/ PodsStart
             \/ CollectWorkloads \/ PodsFail \/ UNCHANGED credVars
    BY <2>3, <2>5 DEF Fetch, Release, AddFinalizer, ReGet, KeepInternal,
       UseReferenced, UseExisting, SecretFails, EnsureKeystore,
       KeystoreFails, DeployDatabase, DeployFails, GateWaits, DeployServer,
       ServerFails, Refetch, Record, Crash, SecretDelivered, PodsStart,
       CollectWorkloads, PodsFail, credVars, cluster, secrets
  <2> QED BY <1>1, <2>2, <2>4, <2>5
          DEF Next, Reconcile, Environment, Cluster
<1>2. CASE UNCHANGED vars
  BY <1>2 DEF vars, credVars, cluster, secrets
<1> QED BY <1>1, <1>2

(* No password somebody may use is replaced unasked, however often the     *)
(* platform is reconciled, edited, deleted and created again.              *)
THEOREM PasswordsPersist == Spec => Persists
<1>1. IInv /\ [Next]_vars =>
        [/\ auth.there /\ auth'.there /\ Unspent("lag")'
         => auth'.pw \in {auth.pw, Inline}]_vars
  BY PersistsStep
<1> QED BY <1>1, InitInvariant, NextInvariant, PTL DEF Spec, Persists
=============================================================================
