------------------------------ MODULE Recreate ------------------------------
(***************************************************************************)
(* The controllers that update by deleting and creating: silence windows,  *)
(* scheduled repairs and scheduled backups.  The AxonOps API has no update *)
(* for them, so an edit is a DELETE of the object with the id in the       *)
(* status and a POST of a new one.  The three differ in the id:            *)
(*   silence - the operator generates a new one for every POST;            *)
(*   backup  - the operator keeps the one it generated first;              *)
(*   repair  - the server generates it, and the operator looks for it by   *)
(*             the tag of the spec, which every version of it carries.     *)
(*                                                                         *)
(* connectionRef, clusterName and clusterType may be edited like any other *)
(* field, and every call of a pass goes to the cluster its copy names.     *)
(***************************************************************************)
EXTENDS KubeObject, FiniteSets

CONSTANTS
  Setups,      \* a controller, the user's plan and a budget: alternatives
  MaxId,       \* ids 1 .. MaxId; 0 is the empty id
  Clusters,    \* the clusters whose objects a spec may name
  ConnStates   \* the states the referenced AxonOpsConnection goes through

(* A spec asks for an object, for none (a silence that is not active), or  *)
(* is refused by the validation (of a repair or a backup).                 *)
Wishes == {"object", "none", "invalid"}

ASSUME RecreateAssumption ==
  /\ \A s \in Setups :
       /\ s.flavour \in {"silence", "backup", "repair"}
       /\ s.plan \in [1 .. MaxGen -> Wishes]
       /\ s.flavour = "silence" => \A g \in 1 .. MaxGen : s.plan[g] # "invalid"
       /\ s.flavour # "silence" => \A g \in 1 .. MaxGen : s.plan[g] # "none"
       /\ s.place \in [1 .. MaxGen -> Clusters]
       /\ s.budget \in Budgets
  /\ MaxId \in Nat
  /\ ConnStates \subseteq {"up", "paused", "broken"}

VARIABLES
  setup,       \* the controller, what each edit asks for and in which
               \* cluster, the budget
  pc,          \* where the running reconciliation is
  newId,       \* syncedID, the id to record
  syncGen,     \* syncedGeneration, the generation that was created
  objects,     \* objects[t][i]: the generation object i of cluster t was
               \* built from, 0 = no object
  minted,      \* the ids 1 .. minted have been generated
  conn         \* the AxonOpsConnection: up, paused, or not resolvable

ownVars == <<setup, pc, newId, syncGen, objects, minted, conn>>
vars == <<kubeVars, ownVars>>

flavour == setup.flavour
plan == setup.plan
place == setup.place

Ids == 1 .. MaxId
Status == [conds: SUBSET {"Ready", "Failed", "Paused"}, obsGen: 0 .. MaxGen,
           id: 0 .. MaxId]
NoStatus == [conds |-> {}, obsGen |-> 0, id |-> 0]

TypeOK ==
  /\ cr \in Object(Status)
  /\ cache \in Object(Status)
  /\ obj \in Object(Status)
  /\ cacheFresh \in BOOLEAN /\ objFresh \in BOOLEAN
  /\ queued \in BOOLEAN /\ timer \in BOOLEAN
  /\ left \in [Disturbances -> Nat]
  /\ setup \in Setups
  /\ pc \in {"idle", "fetched", "drift", "replace", "create", "lookup",
             "refetch", "record", "release"}
  /\ newId \in 0 .. MaxId
  /\ syncGen \in 0 .. MaxGen
  /\ objects \in [Clusters -> [Ids -> 0 .. MaxGen]]
  /\ minted \in 0 .. MaxId
  /\ conn \in ConnStates

Init ==
  /\ KubeInit(NoStatus)
  /\ setup \in Setups
  /\ left = setup.budget
  /\ pc = "idle" /\ newId = 0 /\ syncGen = 0
  /\ objects = [t \in Clusters |-> [i \in Ids |-> 0]]
  /\ minted = 0
  /\ conn \in ConnStates

-----------------------------------------------------------------------------
(* Return from Reconcile; requeue: RequeueAfter > 0 or an error.           *)
Return(requeue) ==
  /\ Forget(requeue, NoStatus)
  /\ pc' = "idle" /\ newId' = 0 /\ syncGen' = 0

Guarded(o) == [o EXCEPT !.finalizer = TRUE]
Released(o) == [o EXCEPT !.finalizer = FALSE, !.live = FALSE]
Paused(o) == [o EXCEPT !.status.conds = @ \cup {"Paused"}]
Forgotten(o) == [o EXCEPT !.status.id = 0]

(* Ready stays, and the generation counts as observed.                     *)
Failing(o) ==
  [o EXCEPT !.status = [conds |-> @.conds \cup {"Failed"}, obsGen |-> o.gen,
                        id |-> @.id]]

(* The cluster whose objects a pass over o works on.                       *)
At(o) == place[o.gen]

(* The guard of the short cut: this generation has been synced before.     *)
AlreadySynced(o) ==
  /\ "Ready" \in o.status.conds
  /\ o.status.obsGen = o.gen
  /\ o.status.id # 0

(* r.Get at the top of Reconcile, with its early returns.                  *)
Fetch ==
  /\ pc = "idle" /\ queued
  /\ queued' = FALSE
  /\ IF cache.live /\ (cache.deleting => cache.finalizer)
       THEN ReadCache /\ pc' = "fetched"
       ELSE pc' = pc /\ UNCHANGED <<obj, objFresh, left>>
  /\ UNCHANGED <<cr, cache, cacheFresh, timer, setup, newId, syncGen,
                 objects, minted, conn>>

AddFinalizer ==
  /\ pc = "fetched" /\ ~obj.deleting /\ ~obj.finalizer
  /\ TryWrite(Guarded(obj))
  /\ Return(~objFresh)
  /\ UNCHANGED <<cache, queued, left, setup, objects, minted, conn>>

Syncing == pc = "fetched" /\ ~obj.deleting /\ obj.finalizer

(* Mutually exclusive fields: say so, if the API server takes it, and wait *)
(* for another spec.                                                       *)
RejectSpec ==
  /\ Syncing /\ plan[obj.gen] = "invalid"
  /\ TryReport(Failing(obj), {})
  /\ Return(FALSE)
  /\ UNCHANGED <<cache, queued, setup, objects, minted, conn>>

Accepted == Syncing /\ plan[obj.gen] # "invalid"

SkipPaused ==
  /\ Accepted /\ conn = "paused"
  /\ TryWrite(Paused(obj))
  /\ Return(~objFresh)
  /\ UNCHANGED <<cache, queued, left, setup, objects, minted, conn>>

ResolveFails ==
  /\ Accepted /\ conn = "broken"
  /\ TryReport(Failing(obj), {})
  /\ Return(TRUE)
  /\ UNCHANGED <<cache, queued, setup, objects, minted, conn>>

Resolve ==
  /\ Accepted /\ conn = "up"
  /\ pc' = IF AlreadySynced(obj) THEN "drift" ELSE "replace"
  /\ UNCHANGED <<kubeVars, setup, newId, syncGen, objects, minted, conn>>

-----------------------------------------------------------------------------
(* checkDrift: the list cannot be fetched; a condition says so.            *)
DriftCheckFails ==
  /\ pc = "drift"
  /\ \E k \in {"server", "other"} : TryReport(obj, {k})
  /\ Return(TRUE)
  /\ UNCHANGED <<cache, queued, setup, objects, minted, conn>>

(* Mutant: the next drift check is not scheduled.                          *)
SkipSyncedForGood ==
  /\ pc = "drift" /\ objects[At(obj)][obj.status.id] # 0
  /\ Return(FALSE)
  /\ UNCHANGED <<cr, cache, cacheFresh, queued, left, setup, objects, minted,
                 conn>>

SkipSynced ==
  /\ pc = "drift" /\ objects[At(obj)][obj.status.id] # 0
  /\ Return(TRUE)
  /\ UNCHANGED <<cr, cache, cacheFresh, queued, left, setup, objects, minted,
                 conn>>

DriftDetected ==
  /\ pc = "drift" /\ objects[At(obj)][obj.status.id] = 0
  /\ TryWrite(Forgotten(obj))
  /\ IF objFresh
       THEN /\ obj' = Forgotten(obj) /\ pc' = "replace"
            /\ UNCHANGED <<objFresh, timer, newId, syncGen>>
       ELSE Return(TRUE)
  /\ UNCHANGED <<cache, queued, left, setup, objects, minted, conn>>

-----------------------------------------------------------------------------
(* A backup's payload needs a secret that cannot be read.                  *)
PayloadFails ==
  /\ pc = "replace" /\ flavour = "backup"
  /\ TryReport(Failing(obj), {"kube"})
  /\ Return(TRUE)
  /\ UNCHANGED <<cache, queued, setup, objects, minted, conn>>

(* The object with the id in the status, if there is one, is gone from the *)
(* cluster o names now; one that cluster does not have is as good as gone. *)
Without(o) ==
  [objects EXCEPT ![At(o)] =
     [i \in Ids |-> IF i = o.status.id THEN 0 ELSE @[i]]]

(* Mutant: the old silence is deleted only if a new one follows.           *)
RemoveOldIfActive ==
  /\ pc = "replace"
  /\ objects' = IF plan[obj.gen] = "object" THEN Without(obj) ELSE objects
  /\ pc' = "create"
  /\ UNCHANGED <<kubeVars, setup, newId, syncGen, minted, conn>>

(* The old object is deleted before the new one is created.                *)
RemoveOld ==
  /\ pc = "replace"
  /\ objects' = Without(obj)
  /\ pc' = "create"
  /\ UNCHANGED <<kubeVars, setup, newId, syncGen, minted, conn>>

(* That fails, having taken effect or not; only a 5xx answer keeps the new *)
(* object from being created.                                              *)
RemoveOldFails(k) ==
  /\ pc = "replace" /\ obj.status.id # 0
  /\ Spend(k)
  /\ objects' \in {objects, Without(obj)}
  /\ IF k = "server"
       THEN Return(TRUE)
       ELSE /\ pc' = "create"
            /\ UNCHANGED <<obj, objFresh, timer, newId, syncGen>>
  /\ UNCHANGED <<cr, cache, cacheFresh, queued, setup, minted, conn>>

KeepsId(o) == flavour = "backup" /\ o.status.id # 0

(* The id of the object the POST creates.                                  *)
ObjectId(o) == IF KeepsId(o) THEN o.status.id ELSE minted + 1

(* The cluster o names stores the object built from o.                     *)
StoreObject(o) ==
  /\ ObjectId(o) \in Ids
  /\ objects' = [objects EXCEPT ![At(o)][ObjectId(o)] = o.gen]
  /\ minted' = IF KeepsId(o) THEN minted ELSE minted + 1

(* The POST succeeds.  Its answer does not tell the id of a repair.        *)
Create ==
  /\ pc = "create" /\ plan[obj.gen] = "object"
  /\ StoreObject(obj)
  /\ IF flavour = "repair"
       THEN pc' = "lookup" /\ newId' = 0
       ELSE pc' = "refetch" /\ newId' = ObjectId(obj)
  /\ syncGen' = obj.gen
  /\ UNCHANGED <<kubeVars, setup, conn>>

(* An inactive silence is not created.                                     *)
CreateNone ==
  /\ pc = "create" /\ plan[obj.gen] = "none"
  /\ newId' = 0 /\ syncGen' = obj.gen
  /\ pc' = "refetch"
  /\ UNCHANGED <<kubeVars, setup, objects, minted, conn>>

(* The POST fails, the server having stored the object or not.  Only a 5xx *)
(* answer is retried, whether the failure could be reported or not.        *)
CreateFails(k) ==
  /\ pc = "create" /\ plan[obj.gen] = "object"
  /\ StoreObject(obj) \/ UNCHANGED <<objects, minted>>
  /\ TryReport(Failing(obj), {k})
  /\ Return(k = "server")
  /\ UNCHANGED <<cache, queued, setup, conn>>

(* findRepairIDByTag: the first repair of the list with the tag, in the    *)
(* order the server likes, or none.                                        *)
Lookup ==
  /\ pc = "lookup"
  /\ LET tagged == {i \in Ids : objects[At(obj)][i] # 0}
     IN newId' \in IF tagged = {} THEN {0} ELSE tagged
  /\ pc' = "refetch"
  /\ UNCHANGED <<kubeVars, setup, syncGen, objects, minted, conn>>

(* The list cannot be fetched: again in 10 s, the id not recorded.         *)
LookupFails ==
  /\ pc = "lookup"
  /\ \E k \in {"server", "other"} : Spend(k)
  /\ Return(TRUE)
  /\ UNCHANGED <<cr, cache, cacheFresh, queued, setup, objects, minted, conn>>

Refetch ==
  /\ pc = "refetch"
  /\ ReadCache
  /\ pc' = "record"
  /\ UNCHANGED <<cr, cache, cacheFresh, queued, timer, setup, newId, syncGen,
                 objects, minted, conn>>

(* Mutant: the recorded generation is one ahead.                           *)
SyncedAhead(o) ==
  [o EXCEPT !.status = [conds |-> {"Ready"}, obsGen |-> syncGen + 1,
                        id |-> newId]]

(* Mutant: the generation of the re-fetched copy is recorded.              *)
SyncedRefetched(o) ==
  [o EXCEPT !.status = [conds |-> (@.conds \cup {"Ready"}) \ {"Failed"},
                        obsGen |-> o.gen, id |-> newId]]

Synced(o) ==
  [o EXCEPT !.status = [conds |-> (@.conds \cup {"Ready"}) \ {"Failed"},
                        obsGen |-> syncGen, id |-> newId]]

(* The status update; LastSyncTime counts seconds, so it makes a new       *)
(* version or not when nothing else changes.                               *)
Record ==
  /\ pc = "record"
  /\ TryStamp(Synced(obj))
  /\ Return(~objFresh)
  /\ UNCHANGED <<cache, queued, left, setup, objects, minted, conn>>

-----------------------------------------------------------------------------
(* handleDeletion                                                          *)
Deleting == pc = "fetched" /\ obj.deleting

DeleteUnresolved ==
  /\ Deleting /\ conn # "up"
  /\ Return(TRUE)
  /\ UNCHANGED <<cr, cache, cacheFresh, queued, left, setup, objects, minted,
                 conn>>

(* The DELETE is answered, or there is no id to delete.                    *)
DeleteObject ==
  /\ Deleting /\ conn = "up"
  /\ objects' = Without(obj)
  /\ pc' = "release"
  /\ UNCHANGED <<kubeVars, setup, newId, syncGen, minted, conn>>

(* The DELETE fails, having taken effect or not.  Only a 5xx answer keeps  *)
(* the finalizer on.                                                       *)
DeleteFails(k) ==
  /\ Deleting /\ conn = "up" /\ obj.status.id # 0
  /\ Spend(k)
  /\ objects' \in {objects, Without(obj)}
  /\ IF k = "server"
       THEN Return(TRUE)
       ELSE /\ pc' = "release"
            /\ UNCHANGED <<obj, objFresh, timer, newId, syncGen>>
  /\ UNCHANGED <<cr, cache, cacheFresh, queued, setup, minted, conn>>

Release ==
  /\ pc = "release"
  /\ TryWrite(Released(obj))
  /\ Return(~objFresh)
  /\ UNCHANGED <<cache, queued, left, setup, objects, minted, conn>>

-----------------------------------------------------------------------------
(* Writes whose error Reconcile returns: the finalizer, the pause, the     *)
(* drift, the record of a sync, and the finalizer again.                   *)
Writing ==
  \/ pc = "fetched" /\ ~obj.deleting /\ ~obj.finalizer
  \/ Accepted /\ conn = "paused"
  \/ pc = "drift" /\ objects[At(obj)][obj.status.id] = 0
  \/ pc \in {"record", "release"}

(* Such a write fails, and not by a conflict: the pass ends in a back-off. *)
WriteFails ==
  /\ Writing
  /\ Spend("kube")
  /\ Return(TRUE)
  /\ UNCHANGED <<cr, cache, cacheFresh, queued, setup, objects, minted, conn>>

-----------------------------------------------------------------------------
(* The process dies wherever it is; what it had in memory is gone.         *)
Crash ==
  /\ Restart(NoStatus)
  /\ pc' = "idle" /\ newId' = 0 /\ syncGen' = 0
  /\ UNCHANGED <<setup, objects, minted, conn>>

ConnChanges ==
  /\ Spend("conn")
  /\ conn' \in ConnStates \ {conn}
  /\ UNCHANGED <<cr, cache, cacheFresh, obj, objFresh, queued, timer, setup,
                 pc, newId, syncGen, objects, minted>>

(* Somebody deletes an object in the AxonOps console.                      *)
ExternalDelete ==
  /\ Spend("external")
  /\ \E t \in Clusters, i \in Ids :
       objects[t][i] # 0 /\ objects' = [objects EXCEPT ![t][i] = 0]
  /\ UNCHANGED <<cr, cache, cacheFresh, obj, objFresh, queued, timer, setup,
                 pc, newId, syncGen, minted, conn>>

(* One step of Reconcile: up to the decision what to do, checkDrift, the   *)
(* replacement of the object, and handleDeletion.                          *)
Admit ==
  \/ Fetch \/ AddFinalizer \/ RejectSpec \/ SkipPaused \/ ResolveFails
  \/ Resolve

CheckDrift == DriftCheckFails \/ SkipSynced \/ DriftDetected

Replace ==
  \/ PayloadFails \/ RemoveOld \/ Create \/ CreateNone
  \/ Lookup \/ LookupFails \/ Refetch \/ Record
  \/ \E k \in {"server", "other"} : RemoveOldFails(k) \/ CreateFails(k)

HandleDeletion ==
  \/ DeleteUnresolved \/ DeleteObject \/ Release
  \/ \E k \in {"server", "other"} : DeleteFails(k)

Reconcile == Admit \/ CheckDrift \/ Replace \/ HandleDeletion \/ WriteFails

Environment ==
  \/ KubeEnvironment /\ UNCHANGED ownVars
  \/ Crash \/ ConnChanges \/ ExternalDelete

Next == Reconcile \/ Environment

Spec == Init /\ [][Next]_vars

(* The worker keeps running, the watch keeps delivering, timers fire.      *)
Fairness ==
  /\ WF_vars(Reconcile)
  /\ WF_vars(WatchDelivers /\ UNCHANGED ownVars)
  /\ WF_vars(TimerFires /\ UNCHANGED ownVars)

FairSpec == Spec /\ Fairness

-----------------------------------------------------------------------------
(* What must hold.                                                         *)

(* A resource that says Ready, not Failed, for its current generation has  *)
(* that generation in its cluster, or somebody deleted it there.  For      *)
(* repairs the tag decides which object that is.                           *)
ReadyIsPushed ==
  /\ flavour # "repair"
  /\ cr.live /\ AlreadySynced(cr) /\ "Failed" \notin cr.status.conds
  => objects[At(cr)][cr.status.id] \in {0, cr.gen}

(* Somebody knows that object i of cluster t is ours: the status does, for *)
(* the cluster the spec names, or the running sync, for the cluster it     *)
(* has posted to.                                                          *)
Tracked(t, i) ==
  \/ cr.live /\ cr.status.id = i /\ t = At(cr)
  \/ newId = i /\ t = place[syncGen]

(* A step that leaves an object in a cluster the spec no longer names: an  *)
(* edit of the cluster, or the record of a push that such an edit overtook.*)
MovesAway ==
  \/ At(cr)' # At(cr)
  \/ pc = "record" /\ place[syncGen] # At(cr)

(* No disturbance of kind k has happened yet.                              *)
Unspent(k) == left[k] = setup.budget[k]

(* Without stale reads and unanswered calls, a silence or a backup is      *)
(* orphaned only when a POST fails, the process dies, the record of a sync *)
(* is refused, or an edit names another cluster: any other edit, drift     *)
(* handling and the deletion forget an id only when its object is gone, so *)
(* no edit within a cluster leaves two of them.                            *)
OrphansOnlyByLoss ==
  [][flavour # "repair" /\ Unspent("lag")' /\ Unspent("other")' =>
       \A t \in Clusters, i \in Ids : objects'[t][i] # 0 /\ ~Tracked(t, i)' =>
         \/ objects[t][i] # 0 /\ ~Tracked(t, i)
         \/ \E k \in {"server", "crash"} : left'[k] # left[k]
         \/ pc = "record" /\ (~objFresh \/ left'["kube"] # left["kube"])
         \/ MovesAway]_vars

(* The object in the resource's cluster is what the last spec asks for.    *)
InSync ==
  CASE plan[cr.gen] = "object" -> cr.status.id # 0
                                  /\ objects[At(cr)][cr.status.id] = cr.gen
    [] plan[cr.gen] = "none" -> cr.status.id = 0
    [] OTHER -> TRUE

(* While the API answers and the connection stays up, an edited silence or *)
(* backup ends up as the last spec wants it, wherever the process dies or  *)
(* a write of the resource fails between the DELETE and the status update; *)
(* for a backup the secrets can be read, too.  Once the connection stays   *)
(* usable, a deleted resource goes away.                                   *)
Converges ==
  /\ /\ flavour # "repair" /\ conn = "up"
     /\ \A k \in {"server", "other", "conn"} : left[k] = 0
     /\ flavour = "silence" \/ left["kube"] = 0
     => <>[](cr.live /\ ~cr.deleting => InSync)
  /\ <>[](cr.live /\ cr.deleting => conn # "up")

(* Whatever else fails between the DELETE and the POST, the resource ends  *)
(* up with an object in its cluster or with a status that tells why not.   *)
(* When the update that would tell fails, that is only logged, and after a *)
(* final refusal of the POST nothing tries again: a resource whose report  *)
(* was lost is left out.                                                   *)
GapsClose ==
  <>[](/\ cr.live /\ ~cr.deleting /\ plan[cr.gen] = "object"
       /\ Unspent("report")
       => \/ cr.status.id # 0 /\ objects[At(cr)][cr.status.id] # 0
          \/ {"Failed", "Paused"} \cap cr.status.conds # {})

-----------------------------------------------------------------------------
(* The controllers as mirrors: a spec is being sent from the POST, or the  *)
(* decision against one, to the status update, the search by tag included. *)
Claimed ==
  IF cr.live /\ AlreadySynced(cr) /\ "Failed" \notin cr.status.conds
    THEN cr.gen ELSE 0

Sending == IF pc \in {"lookup", "refetch", "record"} THEN syncGen ELSE 0

M == INSTANCE Mirror WITH life <- Life, gen <- cr.gen, sent <- Sending,
                          claim <- Claimed

(* Delete and recreate is a way of mirroring: no object is created for a   *)
(* resource without the finalizer, and what a pass, a lookup and a         *)
(* re-fetch later is recorded as the newest spec was sent as that.         *)
Mirrors == M!Spec
=============================================================================
