---------------------------- MODULE Credentials ----------------------------
(***************************************************************************)
(* The credential secrets of one database of an AxonOpsPlatform, over the  *)
(* life of the platform: switched off and on, made external, deleted and   *)
(* created again.  TimeSeries and Search are handled by twin code; this    *)
(* module is either of them.                                               *)
(*                                                                         *)
(* The user's wish for each generation says where the database runs, how   *)
(* its credentials are given and whether its StorageClass retains volumes. *)
(* A wish with renewed set is a new resource of the same name, created     *)
(* after the one before it was deleted.  The owner of a child is the       *)
(* number of its resource among those of the name, 0 when it has none.     *)
(*                                                                         *)
(* Passwords are numbers and a hash is the password it was taken from.     *)
(* The status is abstracted to the secret name it records; conditions,     *)
(* pausing, certificates and the dashboard are in Platform.  A volume      *)
(* keeps the password its database first started with, and the operator    *)
(* never deletes a volume.  The referenced secret always exists.           *)
(***************************************************************************)
EXTENDS KubeObject, FiniteSets

CONSTANT Plans   \* what a user may ask for: the wish of each generation

Modes == {"internal", "external", "off",
          "gone"}        \* the whole block is taken out of the spec
Auths == {"none", "user", "both", "ref"}
Wishes == [mode: Modes, auth: Auths, retain: BOOLEAN, renewed: BOOLEAN]

ASSUME PlansAssumption ==
  /\ Plans # {}
  /\ \A p \in Plans : \E n \in 1 .. MaxGen : p \in [1 .. n -> Wishes]

VARIABLES
  pc,        \* where the running reconciliation is
  mine,      \* what ensureAuthenticationSecret returned to it
  plan,      \* the user's wishes, never changes
  allowed,   \* the budget there was at first, never changes
  auth,      \* the secret <name>-<component>-auth
  authSeen,  \* the informer's copy of it
  keystore,  \* the secret <name>-<component>-keystore-password
  sts,       \* the StatefulSet of the database and its checksum/auth
  pods,      \* the checksum and the password its pods run with
  volume,    \* the password on the volume, 0 = never started
  workload   \* the server's StatefulSet and the secret it refers to

given == <<plan, allowed>>
secrets == <<auth, authSeen, keystore>>
cluster == <<secrets, sts, pods, volume, workload>>
credVars == <<pc, mine, given, cluster>>
vars == <<kubeVars, credVars>>

Inline == 1            \* the password given in the spec
Referenced == 2        \* the password in the user's own secret
Generated == 3 .. 9    \* more than can be in use at a time
Passwords == {Inline, Referenced} \cup Generated

Names == {"", "auth", "ref"}
Status == Names
Owners == 0 .. MaxGen
Secrets == [there: BOOLEAN, owner: Owners, pw: {0} \cup Passwords]
Absent == [there |-> FALSE, owner |-> 0, pw |-> 0]
Stopped == [hash |-> 0, pw |-> 0]
Nothing == [name |-> "", hash |-> 0]

TypeOK ==
  /\ {cr, cache, obj} \subseteq Object(Status)
  /\ cacheFresh \in BOOLEAN /\ objFresh \in BOOLEAN
  /\ queued \in BOOLEAN /\ timer \in BOOLEAN
  /\ left \in [Disturbances -> Nat]
  /\ pc \in {"idle", "fetched", "release", "reget", "admitted", "auth",
             "keystore", "deploy", "gate", "server", "refetch", "record"}
  /\ mine \in [name: Names, hash: {0} \cup Passwords]
  /\ plan \in Plans /\ allowed \in Budgets
  /\ {auth, authSeen, keystore, sts} \subseteq Secrets
  /\ pods \in [hash: {0} \cup Passwords, pw: {0} \cup Passwords]
  /\ volume \in {0} \cup Passwords
  /\ workload \in [there: BOOLEAN, owner: Owners, secret: Names]

Init ==
  /\ KubeInit("")
  /\ pc = "idle" /\ mine = Nothing
  /\ plan \in Plans /\ allowed = left
  /\ auth = Absent /\ authSeen = Absent /\ keystore = Absent
  /\ sts = Absent /\ pods = Stopped /\ volume = 0
  /\ workload = [there |-> FALSE, owner |-> 0, secret |-> ""]

-----------------------------------------------------------------------------
(* The UID of the resource that generation g belongs to: the first, the    *)
(* second, ... of its name.                                                *)
Incarnation(g) == Cardinality({h \in 1 .. g : h = 1 \/ plan[h].renewed})

wished == plan[obj.gen]
me == Incarnation(obj.gen)

(* The answers shouldRetainCredentials may give: a StorageClass that       *)
(* cannot be read counts as one that deletes.                              *)
Retain(r) ==
  \/ r = wished.retain /\ left' = left
  \/ r = FALSE /\ Spend("other")

(* SetControllerReference refuses a child another resource controls.       *)
Foreign(child) == child.there /\ child.owner \notin {0, me}

(* Mutants: a secret always belongs to the platform; its owner is not      *)
(* revised; a generation is taken for a UID.                               *)
OwnerAlways(secret, retain) == me
OwnerKept(secret, retain) ==
  IF secret.there THEN secret.owner ELSE IF retain THEN 0 ELSE me
OwnerAhead(secret, retain) == IF retain THEN 0 ELSE obj.gen + 1

(* Whom a secret belongs to once it has been written.                      *)
OwnerOf(secret, retain) ==
  IF ~retain THEN me
             ELSE IF secret.owner = me THEN 0 ELSE secret.owner

(* A generated password is one that nobody knows yet.                      *)
Fresh ==
  CHOOSE p \in Generated :
    p \notin {auth.pw, authSeen.pw, sts.pw, pods.hash, pods.pw, volume}

(* A change of a child is an event for the resource that owns it, also a   *)
(* change the informer sees the end of only.                               *)
Concerns(old, new) == new # old /\ (old.owner # 0 \/ new.owner # 0)

Notice ==
  queued' = (queued \/ Concerns(sts, sts') \/ Concerns(workload, workload')
             \/ Concerns(keystore, keystore') \/ Concerns(auth, auth'))

(* Return from Reconcile; requeue: RequeueAfter > 0 or an error.           *)
Return(requeue) ==
  /\ Forget(requeue, "")
  /\ pc' = "idle" /\ mine' = Nothing

(* The reconciliation goes on at step p.                                   *)
Goto(p) ==
  /\ pc' = p
  /\ UNCHANGED <<obj, objFresh, timer>>

(* r.Get at the top of Reconcile; a resource that is gone, or going and    *)
(* already released, is none of our business.                              *)
Fetch ==
  /\ pc = "idle" /\ queued
  /\ queued' = FALSE
  /\ IF cache.live /\ (cache.deleting => cache.finalizer)
       THEN ReadCache /\ pc' = "fetched"
       ELSE pc' = pc /\ UNCHANGED <<obj, objFresh, left>>
  /\ UNCHANGED <<cr, cache, cacheFresh, timer, mine, given, cluster>>

-----------------------------------------------------------------------------
(* Deletion: credentials whose volumes go as well are deleted by hand,     *)
(* since a secret that was once retained has no owner.                     *)
CleanUpOnDelete ==
  /\ pc = "fetched" /\ obj.deleting
  /\ \E r \in BOOLEAN :
       /\ IF wished.mode = "gone" THEN r /\ left' = left ELSE Retain(r)
       /\ IF r THEN UNCHANGED <<auth, keystore>>
               ELSE auth' = Absent /\ keystore' = Absent
  /\ Goto("release")
  /\ UNCHANGED <<cr, cache, cacheFresh, mine, given, authSeen, sts, pods,
                 volume, workload>>
  /\ Notice

(* A call fails, before or after the first secret is gone.                 *)
CleanUpOnDeleteFails ==
  /\ pc = "fetched" /\ obj.deleting
  /\ Spend("kube")
  /\ \/ auth' = auth
     \/ wished.mode # "gone" /\ ~wished.retain /\ auth' = Absent
  /\ Return(TRUE)
  /\ UNCHANGED <<cr, cache, cacheFresh, given, authSeen, keystore, sts, pods,
                 volume, workload>>
  /\ Notice

Released(o) == [o EXCEPT !.finalizer = FALSE, !.live = FALSE]
Guarded(o) == [o EXCEPT !.finalizer = TRUE]

Release ==
  /\ pc = "release"
  /\ TryWrite(Released(obj))
  /\ Return(~objFresh)
  /\ UNCHANGED <<cache, queued, left, given, cluster>>

(* The first pass puts the finalizer on, reads the resource again, and     *)
(* goes on with what it read.                                              *)
AddFinalizer ==
  /\ pc = "fetched" /\ ~obj.deleting /\ ~obj.finalizer
  /\ TryWrite(Guarded(obj))
  /\ IF objFresh THEN Goto("reget") /\ mine' = mine ELSE Return(TRUE)
  /\ UNCHANGED <<cache, queued, left, given, cluster>>

ReGet ==
  /\ pc = "reget"
  /\ ReadCache
  /\ pc' = "admitted"
  /\ UNCHANGED <<cr, cache, cacheFresh, queued, timer, mine, given, cluster>>

Admitted ==
  \/ pc = "fetched" /\ ~obj.deleting /\ obj.finalizer
  \/ pc = "admitted"

-----------------------------------------------------------------------------
(* The passwords of the pods and the volume stay when the workload goes.   *)
Undeploy == sts' = Absent /\ pods' = Stopped

(* cleanupInternal...Resources: the workload goes, and the credentials     *)
(* with it unless the volumes are kept.                                    *)
CleanUp ==
  \E r \in BOOLEAN :
    /\ Retain(r)
    /\ Undeploy
    /\ IF r THEN UNCHANGED <<auth, keystore>>
            ELSE auth' = Absent /\ keystore' = Absent
    /\ UNCHANGED <<authSeen, volume, workload>>

DisableDatabase ==
  /\ Admitted /\ wished.mode \in {"off", "gone"}
  /\ CleanUp /\ Notice
  /\ Goto("gate")
  /\ UNCHANGED <<cr, cache, cacheFresh, mine, given>>

(* An external database needs no workload of ours ...                      *)
PrepareExternal ==
  /\ Admitted /\ wished.mode = "external" /\ wished.auth # "none"
  /\ CleanUp /\ Notice
  /\ Goto("auth")
  /\ UNCHANGED <<cr, cache, cacheFresh, mine, given>>

(* ... but credentials, or the pass ends here.                             *)
RejectExternal ==
  /\ Admitted /\ wished.mode = "external" /\ wished.auth = "none"
  /\ CleanUp /\ Notice
  /\ Return(TRUE)
  /\ UNCHANGED <<cr, cache, cacheFresh, given>>

KeepInternal ==
  /\ Admitted /\ wished.mode = "internal"
  /\ Goto("auth")
  /\ UNCHANGED <<cr, cache, cacheFresh, queued, left, mine, given, cluster>>

-----------------------------------------------------------------------------
(* ensureAuthenticationSecret.                                             *)
UseReferenced ==
  /\ pc = "auth" /\ wished.auth = "ref"
  /\ mine' = [name |-> "ref", hash |-> Referenced]
  /\ Goto(IF wished.mode = "internal" THEN "keystore" ELSE "gate")
  /\ UNCHANGED <<cr, cache, cacheFresh, queued, left, given, cluster>>

(* r.Get of the secret: the informer may be behind.                        *)
ReadSecret(seen) ==
  \/ seen = auth /\ left' = left
  \/ seen = authSeen /\ authSeen # auth /\ Spend("lag")

(* A secret that exists is used as it is when the spec gives nothing.      *)
UseExisting ==
  /\ pc = "auth" /\ wished.auth = "none"
  /\ \E seen \in {auth, authSeen} :
       /\ ReadSecret(seen) /\ seen.there
       /\ mine' = [name |-> "auth", hash |-> seen.pw]
  /\ Goto("keystore")
  /\ UNCHANGED <<cr, cache, cacheFresh, queued, given, cluster>>

(* Mutant: the password is generated anew on every pass.                   *)
ChosenAnew(seen) == IF wished.auth = "both" THEN Inline ELSE Fresh

(* The password to write, given the secret that was read.                  *)
Chosen(seen) ==
  IF wished.auth = "both" THEN Inline
                          ELSE IF seen.there THEN seen.pw ELSE Fresh

(* The secret is read, and written by a second read and a create or an     *)
(* update; the informer has caught up by then.                             *)
WriteSecret ==
  /\ pc = "auth" /\ wished.auth # "ref"
  /\ \E seen \in {auth, authSeen}, r \in BOOLEAN :
       /\ \/ seen = auth /\ Retain(r)
          \/ seen # auth /\ r = wished.retain /\ Spend("lag")
       /\ wished.auth = "none" => ~seen.there
       /\ Foreign(auth) => r
       /\ auth' = [there |-> TRUE, owner |-> OwnerOf(auth, r),
                   pw |-> Chosen(seen)]
       /\ mine' = [name |-> "auth", hash |-> Chosen(seen)]
  /\ Goto(IF wished.mode = "internal" THEN "keystore" ELSE "gate")
  /\ UNCHANGED <<cr, cache, cacheFresh, given, authSeen, keystore, sts, pods,
                 volume, workload>>
  /\ Notice

(* A call fails, the informer is still behind at the second read, or the   *)
(* secret belongs to a resource that is gone.                              *)
SecretFails ==
  /\ pc = "auth"
  /\ \/ Spend("kube")
     \/ /\ authSeen # auth /\ wished.auth # "ref"
        /\ wished.auth = "none" => ~authSeen.there
        /\ Spend("lag")
     \/ Foreign(auth) /\ wished.auth \in {"user", "both"} /\ Retain(FALSE)
  /\ Return(TRUE)
  /\ UNCHANGED <<cr, cache, cacheFresh, queued, given, cluster>>

(* ensureKeystorePasswordSecret keeps the password, but always writes the  *)
(* secret, so that its owner follows the StorageClass.                     *)
EnsureKeystore ==
  /\ pc = "keystore"
  /\ \E r \in BOOLEAN :
       /\ Retain(r)
       /\ Foreign(keystore) => r
       /\ keystore' = [there |-> TRUE, owner |-> OwnerOf(keystore, r),
                       pw |-> 0]
  /\ Goto("deploy")
  /\ UNCHANGED <<cr, cache, cacheFresh, mine, given, auth, authSeen, sts,
                 pods, volume, workload>>
  /\ Notice

KeystoreFails ==
  /\ pc = "keystore"
  /\ \/ Spend("kube")
     \/ Foreign(keystore) /\ Retain(FALSE)
  /\ Return(TRUE)
  /\ UNCHANGED <<cr, cache, cacheFresh, queued, given, cluster>>

(* The StatefulSet always refers to the managed secret; only its checksum  *)
(* is that of the secret in use.                                           *)
DeployDatabase ==
  /\ pc = "deploy" /\ ~Foreign(sts)
  /\ sts' = [there |-> TRUE, owner |-> me, pw |-> mine.hash]
  /\ Goto("gate")
  /\ UNCHANGED <<cr, cache, cacheFresh, left, mine, given, secrets, pods,
                 volume, workload>>
  /\ Notice

DeployFails ==
  /\ pc = "deploy"
  /\ \/ Spend("kube")
     \/ Foreign(sts) /\ left' = left
  /\ Return(TRUE)
  /\ UNCHANGED <<cr, cache, cacheFresh, queued, given, cluster>>

-----------------------------------------------------------------------------
(* The server waits for an internal database.                              *)
DatabaseReady == wished.mode = "internal" => sts.there /\ pods # Stopped

GateWaits ==
  /\ pc = "gate" /\ ~DatabaseReady
  /\ Return(TRUE)
  /\ UNCHANGED <<cr, cache, cacheFresh, queued, left, given, cluster>>

(* resolveSecretName: the spec, else the status the previous pass left,    *)
(* else the managed secret.                                                *)
ResolvedName ==
  IF wished.mode # "gone" /\ wished.auth = "ref" THEN "ref"
  ELSE IF obj.status # "" THEN obj.status ELSE "auth"

DeployServer ==
  /\ pc = "gate" /\ DatabaseReady /\ ~Foreign(workload)
  /\ workload' = [there |-> TRUE, owner |-> me, secret |-> ResolvedName]
  /\ Goto("refetch")
  /\ UNCHANGED <<cr, cache, cacheFresh, left, mine, given, secrets, sts, pods,
                 volume>>
  /\ Notice

ServerFails ==
  /\ pc = "gate" /\ DatabaseReady
  /\ \/ Spend("kube")
     \/ Foreign(workload) /\ left' = left
  /\ Return(TRUE)
  /\ UNCHANGED <<cr, cache, cacheFresh, queued, given, cluster>>

Refetch ==
  /\ pc = "refetch"
  /\ ReadCache
  /\ pc' = "record"
  /\ UNCHANGED <<cr, cache, cacheFresh, queued, timer, mine, given, cluster>>

Recorded(o) == [o EXCEPT !.status = mine.name]

Record ==
  /\ pc = "record"
  /\ TryWrite(Recorded(obj))
  /\ Return(~objFresh)
  /\ UNCHANGED <<cache, queued, left, given, cluster>>

-----------------------------------------------------------------------------
(* Around the operator.                                                    *)

(* The informer catches up with the secret.                                *)
SecretDelivered ==
  /\ authSeen # auth
  /\ authSeen' = auth
  /\ queued' = (queued \/ Concerns(authSeen, auth))
  /\ UNCHANGED <<cr, cache, cacheFresh, obj, objFresh, timer, left, pc, mine,
                 given, auth, keystore, sts, pods, volume, workload>>

(* Somebody deletes the managed secret.                                    *)
SecretLost ==
  /\ auth.there
  /\ Spend("external")
  /\ auth' = Absent
  /\ UNCHANGED <<cr, cache, cacheFresh, obj, objFresh, timer, pc, mine, given,
                 authSeen, keystore, sts, pods, volume, workload>>
  /\ Notice

(* The pods of the newest StatefulSet start with the password the managed  *)
(* secret holds now; without the secret they do not start.                 *)
PodsStart ==
  /\ sts.there /\ auth.there /\ keystore.there
  /\ pods.hash # sts.pw
  /\ pods' = [hash |-> sts.pw, pw |-> auth.pw]
  /\ volume' = IF volume = 0 THEN auth.pw ELSE volume
  /\ queued' = TRUE
  /\ UNCHANGED <<cr, cache, cacheFresh, obj, objFresh, timer, left, pc, mine,
                 given, secrets, sts, workload>>

PodsFail ==
  /\ pods # Stopped
  /\ Spend("pod")
  /\ pods' = Stopped
  /\ queued' = TRUE
  /\ UNCHANGED <<cr, cache, cacheFresh, obj, objFresh, timer, pc, mine, given,
                 secrets, sts, volume, workload>>

(* The owner of a child is gone.                                           *)
Orphan(child) ==
  /\ child.there /\ child.owner # 0
  /\ ~cr.live \/ child.owner # Incarnation(cr.gen)

Kept(child) == IF Orphan(child) THEN Absent ELSE child

(* The garbage collector takes what a deleted resource owned.              *)
CollectSecrets ==
  /\ Orphan(auth) \/ Orphan(keystore)
  /\ auth' = Kept(auth) /\ keystore' = Kept(keystore)
  /\ UNCHANGED <<cr, cache, cacheFresh, obj, objFresh, timer, left, pc, mine,
                 given, authSeen, sts, pods, volume, workload>>
  /\ Notice

CollectWorkloads ==
  /\ Orphan(sts) \/ Orphan(workload)
  /\ sts' = Kept(sts)
  /\ pods' = IF Orphan(sts) THEN Stopped ELSE pods
  /\ workload' = IF Orphan(workload)
                   THEN [there |-> FALSE, owner |-> 0, secret |-> ""]
                   ELSE workload
  /\ UNCHANGED <<cr, cache, cacheFresh, obj, objFresh, timer, left, pc, mine,
                 given, secrets, volume>>
  /\ Notice

(* The user creates the resource again, with the next spec.                *)
UserRecreates ==
  /\ ~cr.live /\ cr.gen < MaxGen
  /\ Overwrite([Created("") EXCEPT !.gen = cr.gen + 1])

(* Generation g is submitted the way the plan says.                        *)
Planned(g, renewed) == g \in DOMAIN plan /\ plan[g].renewed = renewed

Crash ==
  /\ Restart("")
  /\ pc' = "idle" /\ mine' = Nothing
  /\ UNCHANGED <<given, cluster>>

(* One step of Reconcile.                                                  *)
Reconcile ==
  \/ Fetch \/ CleanUpOnDelete \/ CleanUpOnDeleteFails \/ Release
  \/ AddFinalizer \/ ReGet
  \/ DisableDatabase \/ PrepareExternal \/ RejectExternal \/ KeepInternal
  \/ UseReferenced \/ UseExisting \/ WriteSecret \/ SecretFails
  \/ EnsureKeystore \/ KeystoreFails \/ DeployDatabase \/ DeployFails
  \/ GateWaits \/ DeployServer \/ ServerFails \/ Refetch \/ Record

(* The other controllers of the cluster, and the informer.                 *)
Cluster ==
  \/ SecretDelivered \/ PodsStart \/ CollectSecrets \/ CollectWorkloads

User ==
  \/ UserEdits /\ Planned(cr'.gen, FALSE)
  \/ UserDeletes
  \/ UserRecreates /\ Planned(cr'.gen, TRUE)

Environment ==
  \/ /\ User \/ WatchDelivers \/ TimerFires \/ Resync
     /\ UNCHANGED credVars
  \/ Crash \/ Cluster \/ SecretLost \/ PodsFail

Next == Reconcile \/ Environment

Spec == Init /\ [][Next]_vars

(* The worker keeps running, the watches keep delivering, timers fire, the *)
(* garbage collector collects and pods that can start do.                  *)
Fairness ==
  /\ WF_vars(Reconcile)
  /\ WF_vars(WatchDelivers /\ UNCHANGED credVars)
  /\ WF_vars(TimerFires /\ UNCHANGED credVars)
  /\ WF_vars(SecretDelivered)
  /\ WF_vars(PodsStart)
  /\ WF_vars(CollectSecrets)
  /\ WF_vars(CollectWorkloads)

FairSpec == Spec /\ Fairness

-----------------------------------------------------------------------------
(* What must hold.                                                         *)
asked == plan[cr.gen]
Unspent(k) == left[k] = allowed[k]

(* The user never names a password and always asks for the same kind of    *)
(* storage.                                                                *)
Automatic == \A g \in DOMAIN plan : plan[g].auth \in {"none", "ref"}
Uniform == \A g, h \in DOMAIN plan : plan[g].retain = plan[h].retain
Retained == Uniform /\ plan[1].retain

(* However often the database is switched off, made external, deleted and  *)
(* created again, and wherever the operator crashes or fails: the password *)
(* of a retained volume stays in the secret (credential-retention.feature) *)
(* unless a read misled the operator.                                      *)
RetainedUsable ==
  /\ Retained /\ Automatic /\ volume # 0
  /\ Unspent("lag") /\ Unspent("other") /\ Unspent("external")
  => auth.there /\ auth.pw = volume

(* A password that somebody may use is never replaced in the secret, but   *)
(* by the one the spec gives, unless the informer hid the secret           *)
(* (authentication-lifecycle.feature: no regeneration).                    *)
Persists ==
  [][/\ auth.there /\ auth'.there /\ Unspent("lag")'
     => auth'.pw \in {auth.pw, Inline}]_vars

(* What the operator cannot bring to rest: an internal database with a     *)
(* secret of the user's, an external one without credentials, and an       *)
(* external one whose managed secret every pass deletes and writes again.  *)
Attainable ==
  CASE asked.mode = "internal" -> asked.auth # "ref"
    [] asked.mode = "external" ->
         asked.auth # "none" /\ (asked.auth = "ref" \/ asked.retain)
    [] OTHER -> TRUE

(* The owner a secret should have by the StorageClass of generation g.     *)
OwnerBy(g) == IF plan[g].retain THEN 0 ELSE Incarnation(cr.gen)
Owned(secret) == secret.owner = OwnerBy(cr.gen)

(* A secret that is there is used unwritten when the spec gives nothing:   *)
(* its owner is that of some StorageClass the resource has had.  When the  *)
(* StorageClass changes the owner is not revised, and this is where the    *)
(* code does not keep what credential-retention.feature:34 says of it.     *)
OwnedOnce(secret) == \E g \in 1 .. cr.gen : secret.owner = OwnerBy(g)

DatabaseServed ==
  /\ auth.there /\ keystore.there /\ sts.there
  /\ auth.pw = sts.pw /\ pods = [hash |-> sts.pw, pw |-> sts.pw]
  /\ asked.auth = "both" => auth.pw = Inline
  /\ Unspent("other") =>
       /\ Owned(keystore)
       /\ IF asked.auth = "none" THEN OwnedOnce(auth) ELSE Owned(auth)

Swept ==
  /\ ~sts.there
  /\ ~asked.retain => ~auth.there /\ ~keystore.there

InPlace ==
  /\ workload.there
  /\ workload.secret = IF cr.status = "" THEN "auth" ELSE cr.status
  /\ CASE asked.mode = "internal" -> DatabaseServed /\ cr.status = "auth"
       [] asked.mode = "external" /\ asked.auth = "ref" ->
            Swept /\ cr.status = "ref"
       [] asked.mode = "external" /\ asked.auth # "ref" ->
            ~sts.there /\ auth.there /\ cr.status = "auth"
       [] OTHER -> Swept /\ cr.status = ""

(* A secret that is retained has no owner, and no event tells of its loss. *)
Watched == Unspent("external") \/ ~asked.retain

(* In the end the database runs with the password in the secret, that is   *)
(* the one asked for, the server refers to the secret in use, and secrets  *)
(* are owned, kept and deleted as the StorageClass says, but for the owner *)
(* of an auth secret that OwnedOnce speaks of.                             *)
Converges ==
  <>[](/\ cr.live /\ ~cr.deleting /\ Attainable /\ Watched => InPlace
       /\ ~cr.live => ~sts.there /\ ~workload.there)

-----------------------------------------------------------------------------
(* What the repository promises and the code does not keep.                *)

(* Pods started for the user's own secret run with its password            *)
(* (authentication-lifecycle.feature, secretRef).                          *)
ReferencedIsUsed == pods.hash = Referenced => pods.pw = Referenced
=============================================================================
