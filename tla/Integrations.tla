---------------------------- MODULE Integrations ----------------------------
(***************************************************************************)
(* The controllers of AxonOpsAlertEndpoint and AxonOpsAlertRoute.  An      *)
(* endpoint is a definition on the AxonOps server (a Slack channel, say),  *)
(* found by the id in its status.  A route sends the alerts of a slot, a   *)
(* route type and a severity, to the definition its spec names.  The two   *)
(* controllers know nothing of each other: they meet on the server, where  *)
(* the route controller looks a name up and then works with the id it      *)
(* found.  Every call names the cluster of the copy in hand, which an edit *)
(* may change; what an earlier generation left elsewhere nobody looks for. *)
(***************************************************************************)
EXTENDS KubeObjects

CONSTANTS
  Setups,      \* the fleet, what each generation asks for, the budget
  Clusters,    \* what a spec may name as its cluster and connection
  Names,       \* names of integrations
  Slots,       \* a route type and a severity; "global" stands for its own
  MaxId        \* ids 1 .. MaxId; 0 is the empty id

Ids == 1 .. MaxId

(* A spec: its cluster, the name of the integration, for an endpoint       *)
(* whether its config is valid, for a route its slot and enableOverride.   *)
Specs == [place: Clusters, name: Names, valid: BOOLEAN, slot: Slots,
          override: BOOLEAN]

ASSUME IntegrationsAssumption ==
  /\ MaxId \in Nat \ {0}
  /\ "global" \in Slots
  /\ \A s \in Setups :
       /\ s.role \in [Resources -> {"endpoint", "route"}]
       /\ s.spec \in [Resources -> [1 .. MaxGen -> Specs]]
       /\ s.made \in SUBSET (Clusters \X Names)
       /\ s.strict \in BOOLEAN
       /\ s.budget \in [Events -> Nat]

VARIABLES
  setup,       \* one of the Setups
  found,       \* integrationID and routeExists, and the generation asked for
  defs,        \* the definitions of each cluster on the server, by id
  routings,    \* its routings: a cluster, a slot and an id
  overrides,   \* the slots of each cluster that override the global routes
  minted       \* the ids 1 .. minted have been given out

server == <<defs, routings, overrides, minted>>
vars == <<kubeVars, setup, found, server>>

Undefined == [name |-> "none", gen |-> 0]
NotFound == [id |-> 0, exists |-> FALSE, gen |-> 0]

(* Ready is absent, true or false.                                         *)
Status == [ready: {"none", "true", "false"}, paused: BOOLEAN,
           obsGen: 0 .. MaxGen, id: 0 .. MaxId]
NoStatus == [ready |-> "none", paused |-> FALSE, obsGen |-> 0, id |-> 0]

TypeOK ==
  /\ KubeTypeOK(Status, {"idle", "fetched", "drifted", "sync", "apply", "add",
                         "refetch", "record", "remove", "release"})
  /\ setup \in Setups /\ budget = setup.budget
  /\ found \in [Resources -> [id: 0 .. MaxId, exists: BOOLEAN,
                            gen: 0 .. MaxGen]]
  /\ defs \in [Clusters -> [Ids -> [name: Names \cup {"none"},
                                    gen: 0 .. MaxGen]]]
  /\ routings \subseteq Clusters \X Slots \X Ids
  /\ overrides \subseteq Clusters \X Slots
  /\ minted \in 0 .. MaxId

(* The console has made at most one integration, with id 1.                *)
Init ==
  /\ setup \in Setups /\ budget = setup.budget
  /\ KubeInit(NoStatus)
  /\ found = [c \in Resources |-> NotFound]
  /\ \/ /\ setup.made = {} /\ minted = 0
        /\ defs = [t \in Clusters |-> [i \in Ids |-> Undefined]]
     \/ /\ minted = 1
        /\ \E m \in setup.made :
             defs = [t \in Clusters |-> [i \in Ids |->
                       IF t = m[1] /\ i = 1 THEN [name |-> m[2], gen |-> 1]
                                           ELSE Undefined]]
  /\ routings = {} /\ overrides = {}

-----------------------------------------------------------------------------
Endpoint(c) == setup.role[c] = "endpoint"
Route(c) == setup.role[c] = "route"
Want(o, c) == setup.spec[c][o.gen]
Wanted(c) == Want(obj[c], c)
At(o, c) == Want(o, c).place
Here(c) == At(obj[c], c)
Peers(c) == {d \in Resources : setup.role[d] = setup.role[c]}

(* Return from Reconcile.                                                  *)
Return(c, again) ==
  /\ Leave(c, again, NoStatus)
  /\ found' = [found EXCEPT ![c] = NotFound]

Paused(o) == [o EXCEPT !.status.paused = TRUE]
Forgotten(o) == [o EXCEPT !.status.id = 0]
NotReady(o) == [o EXCEPT !.status.ready = "false"]

(* A failure on the way: Ready becomes false.                              *)
Fail(c, again) ==
  /\ Report(c, NotReady(obj[c]))
  /\ Return(c, again)

(* Mutant: the recorded generation is one ahead.                           *)
SyncedAhead(o, id) ==
  [o EXCEPT !.status = [ready |-> "true", paused |-> @.paused,
                        obsGen |-> o.gen + 1, id |-> id]]

(* What the status records, in the copy fetched after the sync: the        *)
(* generation is that copy's.                                              *)
Synced(o, id) ==
  [o EXCEPT !.status = [ready |-> "true", paused |-> @.paused,
                        obsGen |-> o.gen, id |-> id]]

AlreadySynced(o) ==
  /\ o.status.ready = "true"
  /\ o.status.obsGen = o.gen
  /\ o.status.id # 0

Fetch(c) ==
  /\ Take(c, Peers(c))
  /\ UNCHANGED <<setup, found, server>>

AddFinalizer(c) ==
  /\ Unguarded(c)
  /\ Write(c, Guarded(obj[c]), FALSE)
  /\ Return(c, c \in behind)
  /\ UNCHANGED <<left, around, setup, server>>

-----------------------------------------------------------------------------
(* checkDrift: an endpoint looks for its id, a route for its slot with the *)
(* id in its status.                                                       *)
CheckingDrift(c) == Syncing(c) /\ AlreadySynced(obj[c])

(* Mutant: a route only looks for its integration.                         *)
StillDefined(c) == defs[Here(c)][obj[c].status.id] # Undefined

StillThere(c) ==
  LET id == obj[c].status.id
  IN IF Endpoint(c) THEN defs[Here(c)][id] # Undefined
                    ELSE <<Here(c), Wanted(c).slot, id>> \in routings

(* No client, a pause included, or nothing amiss: look again later.        *)
SkipSynced(c) ==
  /\ CheckingDrift(c)
  /\ conn # "up" \/ StillThere(c)
  /\ Return(c, TRUE)
  /\ UNCHANGED <<cr, stale, left, around, setup, server>>

(* DriftCheckFailed, a condition nobody reads.                             *)
DriftCheckFails(c) ==
  /\ CheckingDrift(c) /\ conn = "up"
  /\ \E k \in {"server", "other"} : Spend(k)
  /\ Report(c, obj[c])
  /\ Return(c, TRUE)
  /\ UNCHANGED <<around, setup, server>>

DriftDetected(c) ==
  /\ CheckingDrift(c) /\ conn = "up" /\ ~StillThere(c)
  /\ Goto(c, "drifted")
  /\ UNCHANGED <<cr, stale, timers, left, obj, behind, around, setup, found,
                 server>>

ForgetId(c) ==
  /\ pc[c] = "drifted"
  /\ Write(c, Forgotten(obj[c]), FALSE)
  /\ IF c \in behind
       THEN Return(c, TRUE)
       ELSE /\ Goto(c, "sync") /\ obj' = [obj EXCEPT ![c] = Forgotten(@)]
            /\ UNCHANGED <<behind, timers, found>>
  /\ UNCHANGED <<left, around, setup, server>>

-----------------------------------------------------------------------------
(* The sync proper, at once or after the drift check.                      *)
Starting(c) ==
  \/ pc[c] = "sync"
  \/ Syncing(c) /\ ~AlreadySynced(obj[c])

(* buildParams, an endpoint's first step: an invalid config is final until *)
(* the next edit, a secret that cannot be read is not.                     *)
ConfigInvalid(c) ==
  /\ Starting(c) /\ Endpoint(c) /\ ~Wanted(c).valid
  /\ Fail(c, FALSE)
  /\ UNCHANGED <<left, around, setup, server>>

SecretMissing(c) ==
  /\ Starting(c) /\ Endpoint(c) /\ Wanted(c).valid
  /\ Spend("kube")
  /\ Fail(c, TRUE)
  /\ UNCHANGED <<around, setup, server>>

Resolving(c) == Starting(c) /\ (Endpoint(c) => Wanted(c).valid)

SkipPaused(c) ==
  /\ Resolving(c) /\ conn = "paused"
  /\ Write(c, Paused(obj[c]), FALSE)
  /\ Return(c, c \in behind)
  /\ UNCHANGED <<left, around, setup, server>>

ResolveFails(c) ==
  /\ Resolving(c) /\ conn = "broken"
  /\ Fail(c, TRUE)
  /\ UNCHANGED <<left, around, setup, server>>

Calling(c) == Resolving(c) /\ conn = "up"

(* CreateOrUpdateIntegration: the server keeps what it is sent under the   *)
(* recorded id, or under a new one, in the cluster of the copy in hand.    *)
DefId(o) == IF o.status.id # 0 THEN o.status.id ELSE minted + 1

StoreDefinition(c) ==
  /\ DefId(obj[c]) \in Ids
  /\ defs' = [defs EXCEPT ![Here(c)][DefId(obj[c])] =
                [name |-> Wanted(c).name, gen |-> obj[c].gen]]
  /\ minted' = IF obj[c].status.id # 0 THEN minted ELSE minted + 1
  /\ UNCHANGED <<routings, overrides>>

(* What a pass knows from an answer: an id, and whether the route exists.  *)
Knowing(c, i, e) == [id |-> i, exists |-> e, gen |-> obj[c].gen]

PostDefinition(c) ==
  /\ Calling(c) /\ Endpoint(c)
  /\ StoreDefinition(c)
  /\ found' = [found EXCEPT ![c] = Knowing(c, DefId(obj[c]), FALSE)]
  /\ Goto(c, "refetch")
  /\ UNCHANGED <<cr, stale, timers, left, obj, behind, around, setup>>

(* It fails, having taken effect or not; every failure is retried.         *)
PostFails(c) ==
  /\ Calling(c) /\ Endpoint(c)
  /\ \E k \in {"server", "other"} : Spend(k)
  /\ StoreDefinition(c) \/ UNCHANGED server
  /\ Fail(c, TRUE)
  /\ UNCHANGED <<around, setup>>

-----------------------------------------------------------------------------
(* A route: GetIntegrations and findIntegrationID.  The server decides     *)
(* which of several definitions of that name comes first.                  *)
Named(o, c) == {i \in Ids : defs[At(o, c)][i].name = Want(o, c).name}

FindIntegration(c) ==
  /\ Calling(c) /\ Route(c)
  /\ \E i \in Named(obj[c], c) :
       found' = [found EXCEPT ![c] =
                   Knowing(c, i, <<Here(c), Wanted(c).slot, i>> \in routings)]
  /\ Goto(c, "apply")
  /\ UNCHANGED <<cr, stale, timers, left, obj, behind, around, setup, server>>

IntegrationNotFound(c) ==
  /\ Calling(c) /\ Route(c) /\ Named(obj[c], c) = {}
  /\ Fail(c, TRUE)
  /\ UNCHANGED <<left, around, setup, server>>

GetFails(c) ==
  /\ Calling(c) /\ Route(c)
  /\ \E k \in {"server", "other"} : Spend(k)
  /\ Fail(c, TRUE)
  /\ UNCHANGED <<around, setup, server>>

(* applyRoute: the override first, unless the route is global.             *)
Overrides(c) == Wanted(c).slot # "global" /\ Wanted(c).override

Overridden(c) == overrides \cup {<<Here(c), Wanted(c).slot>>}

SetOverride(c) ==
  /\ pc[c] = "apply"
  /\ overrides' = IF Overrides(c) THEN Overridden(c) ELSE overrides
  /\ Goto(c, "add")
  /\ UNCHANGED <<cr, stale, timers, left, obj, behind, around, setup, found,
                 defs, routings, minted>>

OverrideFails(c) ==
  /\ pc[c] = "apply" /\ Overrides(c)
  /\ \E k \in {"server", "other"} : Spend(k)
  /\ overrides' \in {overrides, Overridden(c)}
  /\ Fail(c, TRUE)
  /\ UNCHANGED <<around, setup, defs, routings, minted>>

(* AddIntegrationRoute, unless the answer to the GET had the route.  The   *)
(* definition may have gone since; a strict server refuses then.           *)
Added(c) == routings \cup {<<Here(c), Wanted(c).slot, found[c].id>>}

Dangles(c) == ~found[c].exists /\ defs[Here(c)][found[c].id] = Undefined

AddRoute(c) ==
  /\ pc[c] = "add" /\ (setup.strict => ~Dangles(c))
  /\ routings' = IF found[c].exists THEN routings ELSE Added(c)
  /\ Goto(c, "refetch")
  /\ UNCHANGED <<cr, stale, timers, left, obj, behind, around, setup, found,
                 defs, overrides, minted>>

AddRefused(c) ==
  /\ pc[c] = "add" /\ setup.strict /\ Dangles(c)
  /\ Fail(c, TRUE)
  /\ UNCHANGED <<left, around, setup, server>>

(* It fails, having taken effect or not.                                   *)
AddFails(c) ==
  /\ pc[c] = "add" /\ ~found[c].exists
  /\ \E k \in {"server", "other"} : Spend(k)
  /\ routings' \in {routings} \cup (IF setup.strict /\ Dangles(c)
                                     THEN {} ELSE {Added(c)})
  /\ Fail(c, TRUE)
  /\ UNCHANGED <<around, setup, defs, overrides, minted>>

-----------------------------------------------------------------------------
(* Both: r.Get, then Status().Update; LastSyncTime makes a new version.    *)
Refetch(c) ==
  /\ pc[c] = "refetch"
  /\ ReadCache(c)
  /\ Goto(c, "record")
  /\ UNCHANGED <<cr, stale, timers, around, setup, found, server>>

Record(c) ==
  /\ pc[c] = "record"
  /\ Write(c, Synced(obj[c], found[c].id), TRUE)
  /\ Return(c, c \in behind)
  /\ UNCHANGED <<left, around, setup, server>>

-----------------------------------------------------------------------------
(* handleDeletion: without a client, try again.                            *)
DeleteUnresolved(c) ==
  /\ Deleting(c) /\ conn # "up"
  /\ Return(c, TRUE)
  /\ UNCHANGED <<cr, stale, left, around, setup, server>>

(* The server drops definition i of cluster t, and a strict one its        *)
(* routings with it.                                                       *)
DropDefinition(t, i) ==
  /\ defs' = [defs EXCEPT ![t][i] = Undefined]
  /\ routings' = IF setup.strict
                    THEN {r \in routings : ~(r[1] = t /\ r[3] = i)}
                    ELSE routings

(* Mutant: an endpoint that is not Ready deletes nothing.                  *)
RemovesReady(o) == o.status.id # 0 /\ o.status.ready = "true"

(* An endpoint that has no id has nothing to delete.                       *)
Removes(o) == o.status.id # 0

DeleteDefinition(c) ==
  /\ Deleting(c) /\ conn = "up" /\ Endpoint(c)
  /\ IF Removes(obj[c]) THEN DropDefinition(Here(c), obj[c].status.id)
                        ELSE UNCHANGED <<defs, routings>>
  /\ Goto(c, "release")
  /\ UNCHANGED <<cr, stale, timers, left, obj, behind, around, setup, found,
                 overrides, minted>>

(* The DELETE fails, having taken effect or not; only a 5xx answer keeps   *)
(* the finalizer on.                                                       *)
Unanswered(c, k) ==
  IF k = "server" THEN Return(c, TRUE)
                  ELSE Goto(c, "release") /\ UNCHANGED <<timers, obj, behind,
                                                         found>>

DeleteDefinitionFails(c, k) ==
  /\ Deleting(c) /\ conn = "up" /\ Endpoint(c) /\ Removes(obj[c])
  /\ Spend(k)
  /\ \/ DropDefinition(Here(c), obj[c].status.id)
     \/ UNCHANGED <<defs, routings>>
  /\ Unanswered(c, k)
  /\ UNCHANGED <<cr, stale, around, setup, overrides, minted>>

(* A route looks its integration up by name once more; when there is none  *)
(* the route is taken to be gone.                                          *)
FindToDelete(c) ==
  /\ Deleting(c) /\ conn = "up" /\ Route(c)
  /\ \/ \E i \in Named(obj[c], c) :
          Goto(c, "remove") /\ found' = [found EXCEPT ![c].id = i]
     \/ /\ Named(obj[c], c) = {}
        /\ Goto(c, "release") /\ found' = found
  /\ UNCHANGED <<cr, stale, timers, left, obj, behind, around, setup, server>>

FindToDeleteFails(c, k) ==
  /\ Deleting(c) /\ conn = "up" /\ Route(c)
  /\ Spend(k)
  /\ Unanswered(c, k)
  /\ UNCHANGED <<cr, stale, around, setup, server>>

(* Mutant: whatever goes to this integration is removed.                   *)
RemovedAll(c) == {r \in routings : r[3] # found[c].id}

(* The server without the route of c.                                      *)
Removed(c) == routings \ {<<Here(c), Wanted(c).slot, found[c].id>>}

RemoveRoute(c) ==
  /\ pc[c] = "remove"
  /\ routings' = Removed(c)
  /\ Goto(c, "release")
  /\ UNCHANGED <<cr, stale, timers, left, obj, behind, around, setup, found,
                 defs, overrides, minted>>

RemoveFails(c, k) ==
  /\ pc[c] = "remove"
  /\ Spend(k)
  /\ routings' \in {routings, Removed(c)}
  /\ Unanswered(c, k)
  /\ UNCHANGED <<cr, stale, around, setup, defs, overrides, minted>>

Release(c) ==
  /\ pc[c] = "release"
  /\ Write(c, Released(obj[c]), FALSE)
  /\ Return(c, c \in behind)
  /\ UNCHANGED <<left, around, setup, server>>

-----------------------------------------------------------------------------
Around(c) ==
  /\ UserEdits(c) \/ UserDeletes(c) \/ WatchDelivers(c) \/ TimerFires(c)
  /\ UNCHANGED <<setup, found, server>>

Crash ==
  /\ Restart(NoStatus)
  /\ found' = [c \in Resources |-> NotFound]
  /\ UNCHANGED <<setup, server>>

ConnChanges == ConnMoves /\ UNCHANGED <<setup, found, server>>

(* Somebody deletes a definition or a route in the AxonOps console.        *)
ExternalDelete ==
  /\ Spend("external")
  /\ \/ \E t \in Clusters, i \in Ids :
          defs[t][i] # Undefined /\ DropDefinition(t, i)
     \/ /\ \E r \in routings : routings' = routings \ {r}
        /\ defs' = defs
  /\ UNCHANGED <<cr, stale, timers, copies, around, setup, found, overrides,
                 minted>>

(* The parts of Reconcile and handleDeletion the two have in common.       *)
CommonSteps(c) ==
  \/ AddFinalizer(c) \/ SkipSynced(c) \/ DriftCheckFails(c)
  \/ DriftDetected(c) \/ ForgetId(c) \/ SkipPaused(c) \/ ResolveFails(c)
  \/ Refetch(c) \/ Record(c) \/ DeleteUnresolved(c) \/ Release(c)

EndpointSync(c) ==
  \/ ConfigInvalid(c) \/ SecretMissing(c) \/ PostDefinition(c) \/ PostFails(c)

EndpointDeletion(c) ==
  \/ DeleteDefinition(c)
  \/ \E k \in {"server", "other"} : DeleteDefinitionFails(c, k)

RouteSync(c) ==
  \/ FindIntegration(c) \/ IntegrationNotFound(c) \/ GetFails(c)
  \/ SetOverride(c) \/ OverrideFails(c) \/ AddRoute(c) \/ AddFails(c)
  \/ AddRefused(c)

RouteDeletion(c) ==
  \/ FindToDelete(c) \/ RemoveRoute(c)
  \/ \E k \in {"server", "other"} :
       FindToDeleteFails(c, k) \/ RemoveFails(c, k)

Reconcile(c) ==
  \/ CommonSteps(c) \/ EndpointSync(c) \/ EndpointDeletion(c)
  \/ RouteSync(c) \/ RouteDeletion(c)

Next ==
  \/ \E c \in Resources : Fetch(c) \/ Reconcile(c) \/ Around(c)
  \/ Crash \/ ConnChanges \/ ExternalDelete

Spec == Init /\ [][Next]_vars

(* The workers run, their queues are first in, first out, watches deliver, *)
(* and timers fire.                                                        *)
Fairness ==
  \A c \in Resources :
    /\ SF_vars(Fetch(c)) /\ WF_vars(Reconcile(c))
    /\ WF_vars(WatchDelivers(c) /\ UNCHANGED <<setup, found, server>>)
    /\ WF_vars(TimerFires(c) /\ UNCHANGED <<setup, found, server>>)

FairSpec == Spec /\ Fairness

-----------------------------------------------------------------------------
(* What must hold.                                                         *)

(* Somebody knows of definition i in cluster t: a status does, for the     *)
(* cluster its spec names, or a running sync, for the cluster it sent the  *)
(* definition to.                                                          *)
Tracked(t, i) ==
  \E c \in Resources :
    /\ Endpoint(c)
    /\ \/ cr[c].live /\ cr[c].status.id = i /\ t = At(cr[c], c)
       \/ found[c].id = i /\ t = At(found[c], c)

(* The step ends the sync of c with a record that the API server refuses,  *)
(* or that comes after an edit which named another cluster.                *)
RecordsLate(c) ==
  pc[c] = "record" /\ (c \in behind \/ At(found[c], c) # At(cr[c], c))

(* The definitions the operator has made: all but one of the console.      *)
Ours(i) == i > 1 \/ setup.made = {}

(* Without stale reads and unanswered calls, a definition the operator     *)
(* made is orphaned only when its POST fails, the process dies, the status *)
(* update conflicts, or an edit names another cluster: not by any other    *)
(* edit, and not by drift handling, which forgets ids.                     *)
OrphansOnlyByLoss ==
  [][Unspent("lag")' /\ Unspent("other")' =>
       \A t \in Clusters, i \in Ids :
         Ours(i) /\ defs'[t][i] # Undefined /\ ~Tracked(t, i)' =>
           \/ defs[t][i] # Undefined /\ ~Tracked(t, i)
           \/ \E k \in {"server", "crash"} : left'[k] # left[k]
           \/ \E c \in Resources :
                /\ Endpoint(c)
                /\ At(cr[c], c)' # At(cr[c], c) \/ RecordsLate(c)]_vars

(* Some generation of c so far asked for cluster t.                        *)
AskedAt(c, t) == \E g \in 1 .. cr[c].gen : setup.spec[c][g].place = t

(* A definition leaves the server only by hand or with an endpoint that    *)
(* holds its id, or held it in a copy read late, and one the operator did  *)
(* not make is never changed; a route leaves only by hand, with its        *)
(* definition, or with a resource that asked for its slot: deleting a      *)
(* route for errors leaves alone the one for warnings, and deleting an     *)
(* endpoint leaves all others alone.                                       *)
LeavesByOwner ==
  [][\/ left'["external"] # left["external"]
     \/ /\ \A t \in Clusters, i \in Ids : defs[t][i] # Undefined =>
             IF defs'[t][i] = Undefined
               THEN \E c \in Resources :
                      /\ Endpoint(c) /\ cr[c].deleting /\ AskedAt(c, t)
                      /\ \/ cr[c].status.id = i
                         \/ obj[c].status.id = i /\ ~Unspent("lag")
               ELSE Ours(i) \/ defs'[t][i] = defs[t][i]
        /\ \A r \in routings \ routings' :
             \/ defs'[r[1]][r[3]] = Undefined
             \/ \E c \in Resources :
                  /\ Route(c) /\ cr[c].deleting
                  /\ \E g \in 1 .. cr[c].gen :
                       /\ setup.spec[c][g].place = r[1]
                       /\ setup.spec[c][g].slot = r[2]]_vars

(* What keeps a resource from getting there: the connection, an invalid    *)
(* config, or a name nothing on the server has.                            *)
Blocked(c) ==
  \/ conn # "up" \/ cr[c].status.paused
  \/ Endpoint(c) /\ ~Want(cr[c], c).valid
  \/ Route(c) /\ Named(cr[c], c) = {}

(* The endpoint's definition is there, or the route to one that is; with   *)
(* a server that keeps routes to nothing, to one that was there.           *)
InPlace(c) ==
  LET id == cr[c].status.id
  IN /\ id # 0 /\ cr[c].status.ready = "true"
     /\ Endpoint(c) \/ setup.strict => defs[At(cr[c], c)][id] # Undefined
     /\ Route(c) => <<At(cr[c], c), Want(cr[c], c).slot, id>> \in routings

(* Whatever is edited, deleted by hand, deleted with another resource, or  *)
(* lost on the way: the definition of every endpoint and the route of      *)
(* every route resource end up on the server again, although neither       *)
(* controller tells the other when an id changes.  Only a connection that  *)
(* stays unusable keeps a deleted resource.                                *)
Converges ==
  \A c \in Resources :
    <>[](cr[c].live => IF cr[c].deleting THEN conn # "up"
                      ELSE InPlace(c) \/ Blocked(c))
=============================================================================
