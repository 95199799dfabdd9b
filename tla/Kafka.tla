------------------------------- MODULE Kafka --------------------------------
(***************************************************************************)
(* The Kafka controllers: AxonOpsKafkaTopic, AxonOpsKafkaConnector and     *)
(* AxonOpsKafkaACL.  Each mirrors one resource as one entry of the Kafka   *)
(* cluster, through the AxonOps API.  The entry has no id: a topic and a   *)
(* connector are found by the name in the spec, an ACL by all its fields.  *)
(* The status only says whether the entry was created (synced).  There is  *)
(* no drift check and no periodic requeue.                                 *)
(***************************************************************************)
EXTENDS KubeObject, FiniteSets

CONSTANTS
  Setups,      \* a controller, the user's plan and a budget: alternatives
  Names,       \* a topic or connector and its cluster, or a whole ACL entry
  Keys,        \* configuration keys
  ConnStates   \* the states the referenced AxonOpsConnection goes through

ASSUME KafkaAssumption ==
  /\ \A s \in Setups :
       /\ s.flavour \in {"topic", "connector", "acl"}
       /\ s.names \in [1 .. MaxGen -> Names]
       /\ s.keys \in [1 .. MaxGen -> SUBSET Keys]
       /\ s.flavour = "acl" => \A g \in 1 .. MaxGen : s.keys[g] = {}
       /\ s.foreign \in SUBSET Names
       /\ s.budget \in Budgets
  /\ ConnStates \subseteq {"up", "paused", "broken"}

VARIABLES
  setup,       \* the controller, what each edit asks for, the budget
  pc,          \* where the running reconciliation is
  syncGen,     \* syncedGeneration, the generation that was pushed
  entries,     \* the Kafka cluster: none, ours (made by a POST) or foreign
  config,      \* config[n][k]: the edit that set key k of n, 0 = the default
  conn         \* the AxonOpsConnection: up, paused, or not resolvable

ownVars == <<setup, pc, syncGen, entries, config, conn>>
vars == <<kubeVars, ownVars>>

flavour == setup.flavour

Status == [conds: SUBSET {"Ready", "Failed", "Paused"}, obsGen: 0 .. MaxGen,
           synced: BOOLEAN]
NoStatus == [conds |-> {}, obsGen |-> 0, synced |-> FALSE]
Defaults == [k \in Keys |-> 0]

TypeOK ==
  /\ cr \in Object(Status)
  /\ cache \in Object(Status)
  /\ obj \in Object(Status)
  /\ cacheFresh \in BOOLEAN /\ objFresh \in BOOLEAN
  /\ queued \in BOOLEAN /\ timer \in BOOLEAN
  /\ left \in [Disturbances -> Nat]
  /\ setup \in Setups
  /\ pc \in {"idle", "fetched", "push", "refetch", "record", "release"}
  /\ syncGen \in 0 .. MaxGen
  /\ entries \in [Names -> {"none", "ours", "foreign"}]
  /\ config \in [Names -> [Keys -> 0 .. MaxGen]]
  /\ conn \in ConnStates

Init ==
  /\ KubeInit(NoStatus)
  /\ setup \in Setups
  /\ left = setup.budget
  /\ pc = "idle" /\ syncGen = 0
  /\ entries = [n \in Names |->
                  IF n \in setup.foreign THEN "foreign" ELSE "none"]
  /\ config = [n \in Names |-> Defaults]
  /\ conn \in ConnStates

-----------------------------------------------------------------------------
(* Return from Reconcile; requeue: RequeueAfter > 0 or an error.           *)
Return(requeue) ==
  /\ Forget(requeue, NoStatus)
  /\ pc' = "idle" /\ syncGen' = 0

Guarded(o) == [o EXCEPT !.finalizer = TRUE]
Released(o) == [o EXCEPT !.finalizer = FALSE, !.live = FALSE]
Paused(o) == [o EXCEPT !.status.conds = @ \cup {"Paused"}]

(* setFailedCondition: Ready stays, and the generation counts as observed. *)
Failing(o) ==
  [o EXCEPT !.status = [conds |-> @.conds \cup {"Failed"}, obsGen |-> o.gen,
                        synced |-> @.synced]]

(* The idempotency check: this generation has been synced before.          *)
AlreadySynced(o) ==
  /\ "Ready" \in o.status.conds
  /\ o.status.obsGen = o.gen
  /\ o.status.synced

(* r.Get at the top of Reconcile, with its early returns.                  *)
Fetch ==
  /\ pc = "idle" /\ queued
  /\ queued' = FALSE
  /\ IF cache.live /\ (cache.deleting => cache.finalizer)
       THEN ReadCache /\ pc' = "fetched"
       ELSE pc' = pc /\ UNCHANGED <<obj, objFresh, left>>
  /\ UNCHANGED <<cr, cache, cacheFresh, timer, setup, syncGen, entries,
                 config, conn>>

AddFinalizer ==
  /\ pc = "fetched" /\ ~obj.deleting /\ ~obj.finalizer
  /\ TryWrite(Guarded(obj))
  /\ Return(~objFresh)
  /\ UNCHANGED <<cache, queued, left, setup, entries, config, conn>>

Syncing == pc = "fetched" /\ ~obj.deleting /\ obj.finalizer

SkipPaused ==
  /\ Syncing /\ conn = "paused"
  /\ TryWrite(Paused(obj))
  /\ Return(~objFresh)
  /\ UNCHANGED <<cache, queued, left, setup, entries, config, conn>>

ResolveFails ==
  /\ Syncing /\ conn = "broken"
  /\ TryReport(Failing(obj), {})
  /\ Return(TRUE)
  /\ UNCHANGED <<cache, queued, setup, entries, config, conn>>

(* Nothing to do, and nothing to come back for.                            *)
SkipSynced ==
  /\ Syncing /\ conn = "up" /\ AlreadySynced(obj)
  /\ Return(FALSE)
  /\ UNCHANGED <<cr, cache, cacheFresh, queued, left, setup, entries, config,
                 conn>>

Resolve ==
  /\ Syncing /\ conn = "up" /\ ~AlreadySynced(obj)
  /\ pc' = "push"
  /\ UNCHANGED <<kubeVars, setup, syncGen, entries, config, conn>>

-----------------------------------------------------------------------------
(* The entry the spec of o names, and the keys it sets.                    *)
Name(o) == setup.names[o.gen]
KeysOf(o) == setup.keys[o.gen]

(* An ACL is created at every sync, a topic and a connector at the first.  *)
Creates(o) == flavour = "acl" \/ ~o.status.synced

(* A topic whose spec sets no key needs no update.                         *)
Calls(o) == Creates(o) \/ flavour = "connector" \/ KeysOf(o) # {}

(* What Kafka accepts: an ACL twice, a topic or a connector once, and an   *)
(* update of what exists.                                                  *)
Accepts(o) ==
  \/ flavour = "acl"
  \/ Creates(o) /\ entries[Name(o)] = "none"
  \/ ~Creates(o) /\ entries[Name(o)] # "none"

(* The configuration of the entry after the call: a topic update sets the  *)
(* keys of the spec and no other; everything else replaces the whole.      *)
Configured(o) ==
  LET kept == IF flavour = "topic" /\ ~Creates(o) THEN config[Name(o)]
                                                   ELSE Defaults
  IN [k \in Keys |-> IF k \in KeysOf(o) THEN o.gen ELSE kept[k]]

(* The POST or PUT takes effect.                                           *)
StoreEntry(o) ==
  /\ entries' = [entries EXCEPT ![Name(o)] = IF @ = "none" THEN "ours" ELSE @]
  /\ config' = [config EXCEPT ![Name(o)] = Configured(o)]

(* The call succeeds.                                                      *)
Push ==
  /\ pc = "push" /\ Calls(obj) /\ Accepts(obj)
  /\ StoreEntry(obj)
  /\ syncGen' = obj.gen
  /\ pc' = "refetch"
  /\ UNCHANGED <<kubeVars, setup, conn>>

NothingToPush ==
  /\ pc = "push" /\ ~Calls(obj)
  /\ syncGen' = obj.gen
  /\ pc' = "refetch"
  /\ UNCHANGED <<kubeVars, setup, entries, config, conn>>

(* Kafka says no, by whatever status: the topic or connector exists        *)
(* already, or there is none to update.                                    *)
PushRefused ==
  /\ pc = "push" /\ Calls(obj) /\ ~Accepts(obj)
  /\ TryReport(Failing(obj), {})
  /\ \E again \in BOOLEAN : Return(again)
  /\ UNCHANGED <<cache, queued, setup, entries, config, conn>>

(* The call fails, having taken effect or not.  A 5xx answer is retried    *)
(* after 30 s; a network error, a 4xx answer, or an error inside a 200     *)
(* answer ("Kafka nodes unavailable") is not.                              *)
PushFails(k) ==
  /\ pc = "push" /\ Calls(obj)
  /\ \/ Accepts(obj) /\ StoreEntry(obj)
     \/ UNCHANGED <<entries, config>>
  /\ TryReport(Failing(obj), {k})
  /\ Return(k = "server")
  /\ UNCHANGED <<cache, queued, setup, conn>>

Refetch ==
  /\ pc = "refetch"
  /\ ReadCache
  /\ pc' = "record"
  /\ UNCHANGED <<cr, cache, cacheFresh, queued, timer, setup, syncGen,
                 entries, config, conn>>

(* Mutant: the recorded generation is one ahead.                           *)
SyncedAhead(o) ==
  [o EXCEPT !.status = [conds |-> {"Ready"}, obsGen |-> syncGen + 1,
                        synced |-> TRUE]]

(* Mutant: the generation of the re-fetched copy is recorded.              *)
SyncedRefetched(o) ==
  [o EXCEPT !.status = [conds |-> (@.conds \cup {"Ready"}) \ {"Failed"},
                        obsGen |-> o.gen, synced |-> TRUE]]

Synced(o) ==
  [o EXCEPT !.status = [conds |-> (@.conds \cup {"Ready"}) \ {"Failed"},
                        obsGen |-> syncGen, synced |-> TRUE]]

(* The status update; LastSyncTime counts seconds, so it makes a new       *)
(* version or not when nothing else changes.                               *)
Record ==
  /\ pc = "record"
  /\ TryStamp(Synced(obj))
  /\ Return(~objFresh)
  /\ UNCHANGED <<cache, queued, left, setup, entries, config, conn>>

-----------------------------------------------------------------------------
(* handleDeletion                                                          *)
Deleting == pc = "fetched" /\ obj.deleting

DeleteUnresolved ==
  /\ Deleting /\ conn # "up"
  /\ Return(TRUE)
  /\ UNCHANGED <<cr, cache, cacheFresh, queued, left, setup, entries, config,
                 conn>>

(* Mutants: what was never created is deleted too; what failed is not.     *)
RemovesAlways(o) == TRUE
RemovesReady(o) == o.status.synced /\ "Failed" \notin o.status.conds

(* Only an entry the status claims is deleted.                             *)
Removes(o) == o.status.synced

(* The entry the spec of o names is gone.                                  *)
RemoveEntry(o) ==
  /\ entries' = [entries EXCEPT ![Name(o)] = "none"]
  /\ config' = [config EXCEPT ![Name(o)] = Defaults]

(* The DELETE is answered, or there is nothing to delete.                  *)
DeleteEntry ==
  /\ Deleting /\ conn = "up"
  /\ IF Removes(obj) THEN RemoveEntry(obj) ELSE UNCHANGED <<entries, config>>
  /\ pc' = "release"
  /\ UNCHANGED <<kubeVars, setup, syncGen, conn>>

(* The DELETE fails, having taken effect or not.  Only a 5xx answer keeps  *)
(* the finalizer on.                                                       *)
DeleteFails(k) ==
  /\ Deleting /\ conn = "up" /\ Removes(obj)
  /\ Spend(k)
  /\ RemoveEntry(obj) \/ UNCHANGED <<entries, config>>
  /\ IF k = "server"
       THEN Return(TRUE)
       ELSE /\ pc' = "release"
            /\ UNCHANGED <<obj, objFresh, timer, syncGen>>
  /\ UNCHANGED <<cr, cache, cacheFresh, queued, setup, conn>>

Release ==
  /\ pc = "release"
  /\ TryWrite(Released(obj))
  /\ Return(~objFresh)
  /\ UNCHANGED <<cache, queued, left, setup, entries, config, conn>>

-----------------------------------------------------------------------------
(* The process dies wherever it is; what it had in memory is gone.         *)
Crash ==
  /\ Restart(NoStatus)
  /\ pc' = "idle" /\ syncGen' = 0
  /\ UNCHANGED <<setup, entries, config, conn>>

ConnChanges ==
  /\ Spend("conn")
  /\ conn' \in ConnStates \ {conn}
  /\ UNCHANGED <<cr, cache, cacheFresh, obj, objFresh, queued, timer, setup,
                 pc, syncGen, entries, config>>

(* Somebody deletes an entry with Kafka's own tools.                       *)
ExternalDelete ==
  /\ Spend("external")
  /\ \E n \in Names :
       /\ entries[n] # "none"
       /\ entries' = [entries EXCEPT ![n] = "none"]
       /\ config' = [config EXCEPT ![n] = Defaults]
  /\ UNCHANGED <<cr, cache, cacheFresh, obj, objFresh, queued, timer, setup,
                 pc, syncGen, conn>>

(* The steps the three controllers share.                                  *)
Deletion ==
  \/ DeleteUnresolved \/ DeleteEntry \/ Release
  \/ \E k \in {"server", "other"} : DeleteFails(k)

CommonSteps ==
  \/ Fetch \/ AddFinalizer \/ SkipPaused \/ ResolveFails \/ SkipSynced
  \/ Resolve \/ Refetch \/ Record \/ Deletion
  \/ \E k \in {"server", "other"} : PushFails(k)

(* One step of Reconcile of each controller.                               *)
TopicSteps ==
  flavour = "topic" /\ (CommonSteps \/ Push \/ NothingToPush \/ PushRefused)
ConnectorSteps == flavour = "connector" /\ (CommonSteps \/ Push \/ PushRefused)
AclSteps == flavour = "acl" /\ (CommonSteps \/ Push)

Reconcile == TopicSteps \/ ConnectorSteps \/ AclSteps

Environment ==
  \/ KubeEnvironment /\ UNCHANGED ownVars
  \/ Crash \/ ConnChanges \/ ExternalDelete

Next == Reconcile \/ Environment

Spec == Init /\ [][Next]_vars

(* The worker keeps running, the watch keeps delivering, timers fire.      *)
Fairness ==
  /\ WF_vars(Reconcile)
  /\ WF_vars(WatchDelivers /\ UNCHANGED ownVars)
  /\ WF_vars(TimerFires /\ UNCHANGED ownVars)

FairSpec == Spec /\ Fairness

-----------------------------------------------------------------------------
(* What must hold.                                                         *)

(* Ready, not Failed, for the current generation: every key of that        *)
(* generation's spec has its value in the cluster, or somebody deleted the *)
(* entry there, or a topic was renamed by an edit that sets no key.        *)
ReadyIsPushed ==
  cr.live /\ AlreadySynced(cr) /\ "Failed" \notin cr.status.conds =>
    \/ entries[Name(cr)] = "none"
    \/ \A k \in KeysOf(cr) : config[Name(cr)][k] = cr.gen

(* Some copy of the claim to entry n is kept: in the status, or by the     *)
(* running sync of that very spec.                                         *)
Tracked(n) ==
  \/ cr.live /\ cr.status.synced /\ Name(cr) = n
  \/ pc \in {"refetch", "record"} /\ setup.names[syncGen] = n

(* No disturbance of kind k has happened yet.                              *)
Unspent(k) == left[k] = setup.budget[k]

(* Without unanswered calls, and whatever is read late, an entry the       *)
(* operator created loses its resource only when a call fails, the process *)
(* dies, the status update conflicts, or an edit names another entry: an   *)
(* ACL has no name but its fields, so every edit of one does.              *)
OrphansOnlyByLoss ==
  [][Unspent("other")' =>
       \A n \in Names : entries'[n] = "ours" /\ ~Tracked(n)' =>
         \/ entries[n] = "ours" /\ ~Tracked(n)
         \/ \E k \in {"server", "crash"} : left'[k] # left[k]
         \/ pc = "record" /\ ~objFresh
         \/ setup.names[cr'.gen] # n]_vars

(* Generation g has its name from an edit.                                 *)
Renamed(g) == \E h \in 1 .. g : setup.names[h] # setup.names[g]

(* A topic or a connector that was there before the resource is neither    *)
(* reconfigured nor deleted by the operator, however its creation ended:   *)
(* the create is refused, so the status never claims it.  The one way to   *)
(* it is a rename: the pass that touches it works on a spec that names it  *)
(* while an earlier one did not, for the claim of a name is taken to be    *)
(* one of the next; names are not checked to be immutable.                 *)
ForeignUntouched ==
  [][flavour # "acl" =>
       \A n \in Names : entries[n] = "foreign" =>
         \/ entries'[n] = "foreign" /\ config'[n] = config[n]
         \/ left'["external"] # left["external"]
         \/ Name(obj) = n /\ Renamed(obj.gen)]_vars

(* The last spec is in the cluster.                                        *)
InSync == entries[Name(cr)] # "none" /\ AlreadySynced(cr)

(* While the API answers and the connection stays up, the ACL a resource   *)
(* describes ends up in the cluster, whatever users edit, whatever is read *)
(* late and wherever the process dies: creating it again does no harm.     *)
(* Of every kind, once the connection stays usable, a deleted resource     *)
(* goes away.                                                              *)
Converges ==
  /\ /\ flavour = "acl" /\ conn = "up"
     /\ \A k \in {"server", "other", "conn", "external"} : left[k] = 0
     => <>[](cr.live /\ ~cr.deleting => InSync)
  /\ <>[](cr.live /\ cr.deleting => conn # "up")

-----------------------------------------------------------------------------
(* The controllers as mirrors: a spec is being sent from the push to the   *)
(* status update.                                                          *)
Claimed ==
  IF cr.live /\ AlreadySynced(cr) /\ "Failed" \notin cr.status.conds
    THEN cr.gen ELSE 0

Sending == IF pc \in {"refetch", "record"} THEN syncGen ELSE 0

M == INSTANCE Mirror WITH life <- Life, gen <- cr.gen, sent <- Sending,
                          claim <- Claimed

(* Each controller is a mirror: it pushes for resources with the finalizer *)
(* only, and what it says of the newest spec it pushed as that spec.       *)
Mirrors == M!Spec
=============================================================================
