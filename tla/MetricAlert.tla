----------------------------- MODULE MetricAlert ----------------------------
(***************************************************************************)
(* The AxonOpsMetricAlert and AxonOpsLogAlert controllers: one custom      *)
(* resource of either kind, mirrored as one alert rule on the AxonOps      *)
(* server.  The rule's id lives in status.syncedAlertID; nothing else ties *)
(* the two together.  A log alert has no dashboard panel to look up.       *)
(*                                                                         *)
(* A reconciliation is cut where other actors can come in between: at each *)
(* read of the resource, each call to the AxonOps API and each write of    *)
(* the resource.  One worker serves the controller, so there is one        *)
(* reconciliation at a time.                                               *)
(*                                                                         *)
(* connectionRef, clusterName and clusterType may be edited like any other *)
(* field, and they select the rules a pass works on: place[g] is what the  *)
(* g-th spec names, and the same id may have a rule in several places.     *)
(***************************************************************************)
EXTENDS KubeObject

CONSTANTS
  Kinds,       \* the kinds of alert: "metric", "log"
  MaxId,       \* rule ids the run may generate: 1 .. MaxId; 0 is the empty id
  Clusters,    \* the clusters whose rules a spec may name
  Places,      \* the clusters that generations 1 .. MaxGen name: alternatives
  ConnStates   \* the states the referenced AxonOpsConnection goes through

ASSUME AlertAssumption ==
  /\ Kinds \subseteq {"metric", "log"} /\ Kinds # {}
  /\ MaxId \in Nat
  /\ Places \subseteq [1 .. MaxGen -> Clusters]
  /\ ConnStates \subseteq {"up", "paused", "broken"}
  /\ ConnStates # {}

VARIABLES
  pc,          \* where the running reconciliation is
  newId,       \* the id the API call returned, until it is recorded
  syncGen,     \* syncedGeneration, the generation that was pushed
  rules,       \* rules[t][i]: the generation rule i of cluster t was built
               \* from, 0 = no rule
  minted,      \* uuid.New has produced the ids 1 .. minted
  conn,        \* the AxonOpsConnection: up, paused, or not resolvable
  kind,        \* which of the two controllers this is, never changes
  place,       \* place[g]: the cluster generation g names, never changes
  allowed      \* the budget there was at first, never changes

given == <<kind, place, allowed>>
alertVars == <<pc, newId, syncGen, rules, minted, conn, given>>
vars == <<kubeVars, alertVars>>

Ids == 1 .. MaxId
Conditions == {"Ready", "Failed", "Progressing", "Paused",
               "DriftCheckFailed", "DriftDetected"}
Status == [conds: SUBSET Conditions, obsGen: 0 .. MaxGen, id: 0 .. MaxId]
NoStatus == [conds |-> {}, obsGen |-> 0, id |-> 0]

TypeOK ==
  /\ cr \in Object(Status)
  /\ cache \in Object(Status)
  /\ obj \in Object(Status)
  /\ cacheFresh \in BOOLEAN /\ objFresh \in BOOLEAN
  /\ queued \in BOOLEAN /\ timer \in BOOLEAN
  /\ left \in [Disturbances -> Nat]
  /\ pc \in {"idle", "fetched", "drift", "sync", "refetch", "record",
             "release"}
  /\ newId \in 0 .. MaxId
  /\ syncGen \in 0 .. MaxGen
  /\ rules \in [Clusters -> [Ids -> 0 .. MaxGen]]
  /\ minted \in 0 .. MaxId
  /\ conn \in ConnStates
  /\ kind \in Kinds /\ place \in Places
  /\ allowed \in [Disturbances -> Nat]

Init ==
  /\ KubeInit(NoStatus)
  /\ pc = "idle" /\ newId = 0 /\ syncGen = 0
  /\ rules = [t \in Clusters |-> [i \in Ids |-> 0]]
  /\ minted = 0
  /\ conn \in ConnStates
  /\ kind \in Kinds /\ place \in Places /\ allowed = left

-----------------------------------------------------------------------------
(* Return from Reconcile; requeue: RequeueAfter > 0 or an error.           *)
Return(requeue) ==
  /\ Forget(requeue, NoStatus)
  /\ pc' = "idle" /\ newId' = 0 /\ syncGen' = 0

(* o with the finalizer put on, and o as the API server drops it once the  *)
(* finalizer is off.                                                       *)
Guarded(o) == [o EXCEPT !.finalizer = TRUE]
Released(o) == [o EXCEPT !.finalizer = FALSE, !.live = FALSE]

(* o with the conditions cs set.                                           *)
Marked(o, cs) == [o EXCEPT !.status.conds = @ \cup cs]

(* o with the conditions cs set and its generation marked as observed.     *)
Failing(o, cs) ==
  [o EXCEPT !.status = [conds |-> @.conds \cup cs, obsGen |-> o.gen,
                        id |-> @.id]]

(* o with its rule's id forgotten.                                         *)
Drifted(o) ==
  [o EXCEPT !.status = [conds |-> @.conds \cup {"DriftDetected"},
                        obsGen |-> @.obsGen, id |-> 0]]

(* The cluster whose rules a pass over o works on.                         *)
At(o) == place[o.gen]

(* The guard of the short cut: this generation has been synced before.     *)
AlreadySynced(o) ==
  /\ "Ready" \in o.status.conds
  /\ o.status.obsGen = o.gen
  /\ o.status.id # 0

(* r.Get at the top of Reconcile, with its early returns: the resource is  *)
(* gone, or is going and no longer ours.                                   *)
Fetch ==
  /\ pc = "idle" /\ queued
  /\ queued' = FALSE
  /\ IF cache.live /\ (cache.deleting => cache.finalizer)
       THEN ReadCache /\ pc' = "fetched"
       ELSE pc' = pc /\ UNCHANGED <<obj, objFresh, left>>
  /\ UNCHANGED <<cr, cache, cacheFresh, timer, newId, syncGen,
                 rules, minted, conn, given>>

(* The first reconciliation only puts the finalizer on.                    *)
AddFinalizer ==
  /\ pc = "fetched" /\ ~obj.deleting /\ ~obj.finalizer
  /\ TryWrite(Guarded(obj))
  /\ Return(~objFresh)
  /\ UNCHANGED <<cache, queued, left, rules, minted, conn, given>>

(* Mutant: the finalizer is not waited for.                                *)
SyncingUnprotected == pc = "fetched" /\ ~obj.deleting

Syncing == pc = "fetched" /\ ~obj.deleting /\ obj.finalizer

(* HandleConnectionPaused: note the pause and do not come back.            *)
SkipPaused ==
  /\ Syncing /\ conn = "paused"
  /\ TryWrite(Marked(obj, {"Paused"}))
  /\ Return(~objFresh)
  /\ UNCHANGED <<cache, queued, left, rules, minted, conn, given>>

(* ResolveAPIClient fails: no connection, no secret, or no usable key.     *)
ResolveFails ==
  /\ Syncing /\ conn = "broken"
  /\ TryReport(Failing(obj, {"Failed"}), {})
  /\ Return(TRUE)
  /\ UNCHANGED <<cache, queued, rules, minted, conn, given>>

Resolve ==
  /\ Syncing /\ conn = "up"
  /\ pc' = IF AlreadySynced(obj) THEN "drift" ELSE "sync"
  /\ UNCHANGED <<kubeVars, newId, syncGen, rules, minted, conn, given>>

-----------------------------------------------------------------------------
(* checkDrift: the list of rules cannot be fetched.                        *)
DriftCheckFails ==
  /\ pc = "drift"
  /\ \E k \in {"server", "other"} :
       TryReport(Marked(obj, {"DriftCheckFailed"}), {k})
  /\ Return(TRUE)
  /\ UNCHANGED <<cache, queued, rules, minted, conn, given>>

(* Mutant: the next drift check is not scheduled.                          *)
SkipSyncedForGood ==
  /\ pc = "drift" /\ rules[At(obj)][obj.status.id] # 0
  /\ Return(FALSE)
  /\ UNCHANGED <<cr, cache, cacheFresh, queued, left, rules, minted, conn,
                 given>>

(* checkDrift finds the rule: nothing to do for DriftCheckInterval.        *)
SkipSynced ==
  /\ pc = "drift" /\ rules[At(obj)][obj.status.id] # 0
  /\ Return(TRUE)
  /\ UNCHANGED <<cr, cache, cacheFresh, queued, left, rules, minted, conn,
                 given>>

(* checkDrift misses the rule: forget the id and create it again.          *)
DriftDetected ==
  /\ pc = "drift" /\ rules[At(obj)][obj.status.id] = 0
  /\ TryWrite(Drifted(obj))
  /\ IF objFresh
       THEN /\ obj' = Drifted(obj) /\ pc' = "sync"
            /\ UNCHANGED <<objFresh, timer, newId, syncGen>>
       ELSE Return(TRUE)
  /\ UNCHANGED <<cache, queued, left, rules, minted, conn, given>>

-----------------------------------------------------------------------------
(* Mutant: the recorded id is not put into the rule.                       *)
RuleIdForgotten(o) == minted + 1

(* The id of the POST: the recorded one, or a new UUID.                    *)
RuleId(o) == IF o.status.id # 0 THEN o.status.id ELSE minted + 1

(* The contents of the rule, and of a log alert the events expression, are *)
(* built from the spec alone: they are named by its generation.            *)
Built(o) == o.gen

(* The cluster o names stores the rule built from o under RuleId(o); what  *)
(* another cluster has under that id stays.                                *)
StoreRule(o) ==
  /\ RuleId(o) \in Ids
  /\ rules' = [rules EXCEPT ![At(o)][RuleId(o)] = Built(o)]
  /\ minted' = IF o.status.id # 0 THEN minted ELSE minted + 1

(* ResolveDashboardPanel fails: no answer, or no such dashboard or chart.  *)
PanelFails ==
  /\ pc = "sync" /\ kind = "metric"
  /\ \E k \in {"server", "other"} :
       TryReport(Failing(obj, {"Failed", "Progressing"}), {k})
  /\ Return(TRUE)
  /\ UNCHANGED <<cache, queued, rules, minted, conn, given>>

(* CreateOrUpdateMetricAlertRule succeeds.                                 *)
PostRule ==
  /\ pc = "sync"
  /\ StoreRule(obj)
  /\ newId' = RuleId(obj)
  /\ syncGen' = obj.gen
  /\ pc' = "refetch"
  /\ UNCHANGED <<kubeVars, conn, given>>

(* It fails, the server having stored the rule or not.  A 5xx answer is    *)
(* retried after 30 s, anything else is not, reported or not.              *)
PostFails(k) ==
  /\ pc = "sync"
  /\ StoreRule(obj) \/ UNCHANGED <<rules, minted>>
  /\ TryReport(Failing(obj, {"Failed", "Progressing"}), {k})
  /\ Return(k = "server")
  /\ UNCHANGED <<cache, queued, conn, given>>

(* r.Get before the status update.  It never finds the resource gone: that *)
(* is what SyncNeedsFinalizer says.                                        *)
Refetch ==
  /\ pc = "refetch"
  /\ ReadCache
  /\ pc' = "record"
  /\ UNCHANGED <<cr, cache, cacheFresh, queued, timer, newId, syncGen,
                 rules, minted, conn, given>>

(* Mutant: the generation of the re-fetched copy is recorded.              *)
SyncedRefetched(o) ==
  [o EXCEPT !.status = [conds  |-> (o.status.conds \cup {"Ready"})
                                     \ {"Progressing", "Failed"},
                        obsGen |-> o.gen,
                        id     |-> newId]]

(* Mutant: the recorded generation is one ahead.                           *)
SyncedAhead(o) ==
  [o EXCEPT !.status = [conds  |-> {"Ready"}, obsGen |-> syncGen + 1,
                        id     |-> newId]]

Synced(o) ==
  [o EXCEPT !.status = [conds  |-> (o.status.conds \cup {"Ready"})
                                     \ {"Progressing", "Failed"},
                        obsGen |-> syncGen,
                        id     |-> newId]]

(* The status update that records the sync.  LastSyncTime makes it a new   *)
(* version even when nothing else changes.  On a conflict the id is lost.  *)
Record ==
  /\ pc = "record"
  /\ IF objFresh THEN cr' = Synced(obj) /\ cacheFresh' = FALSE
                 ELSE UNCHANGED <<cr, cacheFresh>>
  /\ Return(~objFresh)
  /\ UNCHANGED <<cache, queued, left, rules, minted, conn, given>>

-----------------------------------------------------------------------------
(* handleDeletion                                                          *)
Deleting == pc = "fetched" /\ obj.deleting

(* Mutant: a deletion without a client is not retried.                     *)
DeleteUnresolvedForGood ==
  /\ Deleting /\ conn # "up"
  /\ Return(FALSE)
  /\ UNCHANGED <<cr, cache, cacheFresh, queued, left, rules, minted, conn,
                 given>>

(* Without a client, a paused connection included, try again in 30 s.      *)
DeleteUnresolved ==
  /\ Deleting /\ conn # "up"
  /\ Return(TRUE)
  /\ UNCHANGED <<cr, cache, cacheFresh, queued, left, rules, minted, conn,
                 given>>

(* The DELETE is answered 200, 204 or 404, or there is no id to delete.  It*)
(* goes to the cluster the spec names now.                                 *)
DeleteRule ==
  /\ Deleting /\ conn = "up"
  /\ rules' = [rules EXCEPT ![At(obj)] =
                  [i \in Ids |-> IF i = obj.status.id THEN 0 ELSE @[i]]]
  /\ pc' = "release"
  /\ UNCHANGED <<kubeVars, newId, syncGen, minted, conn, given>>

(* The DELETE fails, the server having deleted the rule or not.  Only a    *)
(* 5xx answer keeps the finalizer on.                                      *)
DeleteFails(k) ==
  /\ Deleting /\ conn = "up" /\ obj.status.id # 0
  /\ Spend(k)
  /\ rules' \in {rules, [rules EXCEPT ![At(obj)][obj.status.id] = 0]}
  /\ IF k = "server"
       THEN Return(TRUE)
       ELSE /\ pc' = "release"
            /\ UNCHANGED <<obj, objFresh, timer, newId, syncGen>>
  /\ UNCHANGED <<cr, cache, cacheFresh, queued, minted, conn, given>>

(* Removing the finalizer lets the API server drop the resource.           *)
Release ==
  /\ pc = "release"
  /\ TryWrite(Released(obj))
  /\ Return(~objFresh)
  /\ UNCHANGED <<cache, queued, left, rules, minted, conn, given>>

-----------------------------------------------------------------------------
(* Writes whose error Reconcile returns: the finalizer, the pause, the     *)
(* drift, the record of a sync, and the finalizer again.                   *)
Writing ==
  \/ pc = "fetched" /\ ~obj.deleting /\ ~obj.finalizer
  \/ Syncing /\ conn = "paused"
  \/ pc = "drift" /\ rules[At(obj)][obj.status.id] = 0
  \/ pc \in {"record", "release"}

(* Such a write fails, and not by a conflict: the pass ends in a back-off. *)
WriteFails ==
  /\ Writing
  /\ Spend("kube")
  /\ Return(TRUE)
  /\ UNCHANGED <<cr, cache, cacheFresh, queued, rules, minted, conn, given>>

-----------------------------------------------------------------------------
(* The process dies wherever it is; what it had in memory is gone.         *)
Crash ==
  /\ Restart(NoStatus)
  /\ pc' = "idle" /\ newId' = 0 /\ syncGen' = 0
  /\ UNCHANGED <<rules, minted, conn, given>>

(* The connection is paused, resumed, broken or repaired.  The controller  *)
(* watches its own resources only, so no event comes of it.                *)
ConnChanges ==
  /\ Spend("conn")
  /\ conn' \in ConnStates \ {conn}
  /\ UNCHANGED <<cr, cache, cacheFresh, obj, objFresh, queued, timer,
                 pc, newId, syncGen, rules, minted, given>>

(* Somebody deletes a rule in the AxonOps console.                         *)
ExternalDelete ==
  /\ Spend("external")
  /\ \E t \in Clusters, i \in Ids :
       rules[t][i] # 0 /\ rules' = [rules EXCEPT ![t][i] = 0]
  /\ UNCHANGED <<cr, cache, cacheFresh, obj, objFresh, queued, timer,
                 pc, newId, syncGen, minted, conn, given>>

(* One step of Reconcile: up to the decision what to do, checkDrift, the   *)
(* push, and handleDeletion.                                               *)
Admit == Fetch \/ AddFinalizer \/ SkipPaused \/ ResolveFails \/ Resolve

CheckDrift == DriftCheckFails \/ SkipSynced \/ DriftDetected

Push ==
  \/ PanelFails \/ PostRule \/ Refetch \/ Record
  \/ \E k \in {"server", "other"} : PostFails(k)

HandleDeletion ==
  \/ DeleteUnresolved \/ DeleteRule \/ Release
  \/ \E k \in {"server", "other"} : DeleteFails(k)

Reconcile == Admit \/ CheckDrift \/ Push \/ HandleDeletion \/ WriteFails

Environment ==
  \/ KubeEnvironment /\ UNCHANGED alertVars
  \/ Crash \/ ConnChanges \/ ExternalDelete

Next == Reconcile \/ Environment

Spec == Init /\ [][Next]_vars

(* The worker keeps running, the watch keeps delivering, timers fire.      *)
(* Nothing obliges users, faults or the resync (every ten hours) to act.   *)
Fairness ==
  /\ WF_vars(Reconcile)
  /\ WF_vars(WatchDelivers /\ UNCHANGED alertVars)
  /\ WF_vars(TimerFires /\ UNCHANGED alertVars)

FairSpec == Spec /\ Fairness

-----------------------------------------------------------------------------
(* What must hold.                                                         *)

(* A resource that says Ready, not Failed, for its current generation has  *)
(* that generation in its cluster (or somebody deleted it there): the      *)
(* recorded generation is the pushed one, although a user may edit between *)
(* the POST and the status update.                                         *)
ReadyIsPushed ==
  /\ cr.live /\ "Ready" \in cr.status.conds /\ "Failed" \notin cr.status.conds
  /\ cr.status.obsGen = cr.gen /\ cr.status.id # 0
  => rules[At(cr)][cr.status.id] \in {0, cr.gen}

(* From the decision to sync to the status update the resource exists and  *)
(* holds the finalizer, however old the cache: no rule is posted for a     *)
(* resource that is gone, and the re-fetch finds it.                       *)
SyncNeedsFinalizer ==
  pc \in {"drift", "sync", "refetch", "record"} => cr.live /\ cr.finalizer

(* Something is scheduled that will look at the resource again.            *)
Armed == queued \/ timer \/ ~cacheFresh

(* Nothing will look at the resource again, and it does not say why.       *)
Silent ==
  /\ pc = "idle" /\ cr.live /\ ~Armed
  /\ {"Failed", "Paused"} \cap cr.status.conds = {}

(* One step only leaves a resource with no event, queue entry or timer and *)
(* neither Failed nor Paused: a final refusal of the POST whose report     *)
(* the API server fails to take, which is only logged.  No conflict, stale *)
(* read, crash, pause or other failed write does.                          *)
NeverSilentlyIdle ==
  [][Silent' /\ ~Silent =>
       pc = "sync" /\ left'["report"] # left["report"]]_vars

(* Somebody knows that rule i of cluster t is ours: the status does, for   *)
(* the cluster the spec names, or the running sync, for the cluster it     *)
(* has posted to.                                                          *)
Tracked(t, i) ==
  \/ cr.live /\ cr.status.id = i /\ t = At(cr)
  \/ newId = i /\ t = place[syncGen]

(* A step that leaves a rule in a cluster the spec no longer names: an     *)
(* edit of the cluster, or the record of a push that such an edit overtook.*)
MovesAway ==
  \/ At(cr)' # At(cr)
  \/ pc = "record" /\ place[syncGen] # At(cr)

(* No disturbance of kind k has happened yet.                              *)
Unspent(k) == left[k] = allowed[k]

(* Without stale reads and unanswered DELETEs, a rule is orphaned only     *)
(* when a POST fails, the process dies, the record of a sync is refused,   *)
(* or an edit names another cluster; in particular never by an edit that   *)
(* stays in its cluster, by the deletion path, or by drift handling, which *)
(* forgets an id.                                                          *)
OrphansOnlyByLoss ==
  [][Unspent("lag")' /\ Unspent("other")' =>
       \A t \in Clusters, i \in Ids : rules'[t][i] # 0 /\ ~Tracked(t, i)' =>
         \/ rules[t][i] # 0 /\ ~Tracked(t, i)
         \/ \E k \in {"server", "crash"} : left'[k] # left[k]
         \/ pc = "record" /\ (~objFresh \/ left'["kube"] # left["kube"])
         \/ MovesAway]_vars

(* Once the connection stays usable, a deleted resource goes away.         *)
DeletionCompletes ==
  <>[](conn = "up") => [](cr.deleting => <>(~cr.live))

(* The rule in the resource's cluster is the one it describes.             *)
InSync == cr.status.id # 0 /\ rules[At(cr)][cr.status.id] = cr.gen

(* The last spec reaches the server.                                       *)
FollowsSpec == <>[](cr.live /\ ~cr.deleting => InSync)

(* While the API answers and the connection stays up: whatever users edit  *)
(* or delete by hand, whatever is read late, whatever write fails and      *)
(* wherever the process dies, the cluster ends up with the latest spec.    *)
Converges ==
  conn = "up" /\ (\A k \in {"server", "other", "conn"} : left[k] = 0) =>
    FollowsSpec
-----------------------------------------------------------------------------
(* The controller as a mirror.  The status claims the current spec when    *)
(* the guard of the short cut would believe it and no failure is reported; *)
(* a spec is being sent from the POST to the status update.                *)
Claimed ==
  IF cr.live /\ AlreadySynced(cr) /\ "Failed" \notin cr.status.conds
    THEN cr.gen ELSE 0

Sending == IF pc \in {"refetch", "record"} THEN syncGen ELSE 0

M == INSTANCE Mirror WITH life <- Life, gen <- cr.gen, sent <- Sending,
                          claim <- Claimed

(* The controller does what a mirror promises: what is believed to be in   *)
(* sync was pushed, by a pass that held the finalizer, as the spec it was. *)
Mirrors == M!Spec

-----------------------------------------------------------------------------
(* What the repository promises and the code does not keep.                *)

(* A transient failure is retried until the spec is on the server          *)
(* (alert-error-handling.feature).                                         *)
RetriesSync == FollowsSpec
=============================================================================
