-------------------------- MODULE IntegrationsProofs --------------------------
(***************************************************************************)
(* Theorems of Integrations, for any number of endpoints and routes and    *)
(* every value of the other constants that the assumptions allow.          *)
(***************************************************************************)
EXTENDS Integrations, TLAPS

(* One worker per kind: of the endpoints at most one is being served, and  *)
(* of the routes.                                                          *)
Alone ==
  \A c, d \in Resources :
    c # d /\ setup.role[c] = setup.role[d] => pc[c] = "idle" \/ pc[d] = "idle"

(* How old the copies are.                                                 *)
Views ==
  \A c \in Resources :
    /\ c \notin stale => cache[c] = cr[c]
    /\ pc[c] # "idle" /\ c \notin behind => obj[c] = cr[c]
    /\ cache[c].gen <= cr[c].gen /\ obj[c].gen <= cr[c].gen
    /\ cache[c].deleting \/ obj[c].deleting => cr[c].deleting

Counted == \A k \in Events : left[k] <= budget[k]

(* What a pass knows at each of its stages.                                *)
Stage(c) ==
  /\ pc[c] \in {"apply", "add", "remove"} => Route(c)
  /\ pc[c] \in {"apply", "add", "remove", "refetch", "record"} =>
       found[c].id # 0
  /\ pc[c] \in {"remove", "release"} => obj[c].deleting
  /\ pc[c] \notin {"refetch", "record"} /\ Endpoint(c) => found[c].id = 0

(* An endpoint knows no definition but the operator's.                     *)
OfOurs(i) == i = 0 \/ Ours(i)

Owns(c) ==
  Endpoint(c) =>
    /\ OfOurs(cr[c].status.id) /\ OfOurs(cache[c].status.id)
    /\ OfOurs(obj[c].status.id) /\ OfOurs(found[c].id)

(* The console's definition, if any, has got the first id.                 *)
Minted == setup.made = {} \/ minted > 0

IInv ==
  /\ TypeOK /\ Alone /\ Views /\ Counted /\ Minted
  /\ \A c \in Resources : Stage(c) /\ Owns(c)

-----------------------------------------------------------------------------
(* What the operators return.                                              *)
Labels == {"idle", "fetched", "drifted", "sync", "apply", "add", "refetch",
           "record", "remove", "release"}

LEMMA BoundTypes ==
  /\ MaxGen \in Nat \ {0} /\ 1 \in 1 .. MaxGen
  /\ MaxId \in Nat \ {0} /\ 1 \in Ids
  /\ NotFound \in [id: 0 .. MaxId, exists: BOOLEAN, gen: 0 .. MaxGen]
  /\ Undefined \in [name: Names \cup {"none"}, gen: 0 .. MaxGen]
BY ObjectsAssumption, IntegrationsAssumption DEF Ids, NotFound, Undefined

LEMMA SetupShape ==
  ASSUME setup \in Setups
  PROVE  /\ setup.spec \in [Resources -> [1 .. MaxGen -> Specs]]
         /\ setup.role \in [Resources -> {"endpoint", "route"}]
         /\ setup.budget \in [Events -> Nat]
BY IntegrationsAssumption

LEMMA WantShape ==
  ASSUME setup \in Setups, NEW c \in Resources, NEW o \in Object(Status)
  PROVE  /\ o.gen \in 1 .. MaxGen
         /\ Want(o, c).name \in Names /\ Want(o, c).slot \in Slots
         /\ At(o, c) \in Clusters
BY SetupShape DEF Want, At, Object, Specs

LEMMA CreatedShape ==
  /\ Created(NoStatus) \in Object(Status) /\ Created(NoStatus).gen = 1
  /\ ~Created(NoStatus).deleting /\ Created(NoStatus).status.id = 0
BY BoundTypes DEF Created, NoStatus, Object, Status

(* The shapes by name, as every step needs them.                           *)
LEMMA Shapes ==
  ASSUME TypeOK
  PROVE  /\ cr \in [Resources -> Object(Status)]
         /\ obj \in [Resources -> Object(Status)]
         /\ cache \in [Resources -> Object(Status)]
         /\ stale \subseteq Resources /\ behind \subseteq Resources
         /\ queued \subseteq Resources /\ timers \subseteq Resources
         /\ pc \in [Resources -> Labels]
         /\ found \in [Resources -> [id: 0 .. MaxId, exists: BOOLEAN,
                                    gen: 0 .. MaxGen]]
         /\ left \in [Events -> Nat] /\ budget \in [Events -> Nat]
         /\ setup \in Setups /\ minted \in Nat
BY DEF TypeOK, KubeTypeOK, Labels

LEMMA Figures ==
  ASSUME TypeOK, NEW c \in Resources
  PROVE  /\ cr[c] \in Object(Status) /\ obj[c] \in Object(Status)
         /\ cache[c] \in Object(Status)
         /\ cr[c].gen \in Nat /\ obj[c].gen \in Nat /\ cache[c].gen \in Nat
         /\ cr[c].status.id \in {0} \cup Ids
         /\ obj[c].status.id \in {0} \cup Ids
         /\ cache[c].status.id \in {0} \cup Ids
         /\ found[c].id \in {0} \cup Ids
         /\ Wanted(c).name \in Names /\ Wanted(c).slot \in Slots
         /\ Here(c) \in Clusters
         /\ obj[c].gen \in 0 .. MaxGen
<1>1. /\ cr[c] \in Object(Status) /\ obj[c] \in Object(Status)
      /\ cache[c] \in Object(Status) /\ found[c].id \in 0 .. MaxId
      /\ setup \in Setups
  BY Shapes
<1>2. 0 .. MaxId = {0} \cup Ids
  BY BoundTypes DEF Ids
<1> QED BY <1>1, <1>2, WantShape, BoundTypes DEF Object, Status, Wanted,
                                                Here

(* The versions a pass writes over the copy it has.                        *)
LEMMA Versions ==
  ASSUME NEW o \in Object(Status)
  PROVE  /\ Guarded(o) \in Object(Status) /\ Released(o) \in Object(Status)
         /\ Paused(o) \in Object(Status) /\ NotReady(o) \in Object(Status)
         /\ Forgotten(o) \in Object(Status)
         /\ \A n \in {Guarded(o), Released(o), Paused(o), NotReady(o),
                      Forgotten(o)} :
              n.gen = o.gen /\ n.deleting = o.deleting
         /\ \A n \in {Guarded(o), Released(o), Paused(o), NotReady(o)} :
              n.status.id = o.status.id
         /\ \A n \in {Guarded(o), Paused(o), NotReady(o), Forgotten(o)} :
              n.live = o.live /\ (o.finalizer => n.finalizer)
         /\ \A n \in {Paused(o), NotReady(o), Forgotten(o)} :
              n.finalizer = o.finalizer
         /\ Guarded(o).finalizer /\ ~Released(o).live
         /\ Forgotten(o).status.id = 0
<1> USE DEF Object, Status
<1>1. /\ Guarded(o) \in Object(Status) /\ Guarded(o).gen = o.gen
      /\ Guarded(o).deleting = o.deleting /\ Guarded(o).live = o.live
      /\ Guarded(o).finalizer /\ Guarded(o).status = o.status
  BY DEF Guarded
<1>2. /\ Released(o) \in Object(Status) /\ Released(o).gen = o.gen
      /\ Released(o).deleting = o.deleting /\ ~Released(o).live
      /\ Released(o).status = o.status
  BY DEF Released
<1>3. /\ Paused(o) \in Object(Status) /\ Paused(o).gen = o.gen
      /\ Paused(o).deleting = o.deleting /\ Paused(o).live = o.live
      /\ Paused(o).finalizer = o.finalizer
      /\ Paused(o).status.id = o.status.id
  BY DEF Paused
<1>4. /\ NotReady(o) \in Object(Status) /\ NotReady(o).gen = o.gen
      /\ NotReady(o).deleting = o.deleting /\ NotReady(o).live = o.live
      /\ NotReady(o).finalizer = o.finalizer
      /\ NotReady(o).status.id = o.status.id
  BY DEF NotReady
<1>5. /\ Forgotten(o) \in Object(Status) /\ Forgotten(o).gen = o.gen
      /\ Forgotten(o).deleting = o.deleting /\ Forgotten(o).live = o.live
      /\ Forgotten(o).finalizer = o.finalizer
      /\ Forgotten(o).status.id = 0
  BY BoundTypes DEF Forgotten
<1> QED BY <1>1, <1>2, <1>3, <1>4, <1>5

LEMMA SyncedVersion ==
  ASSUME NEW o \in Object(Status), NEW id \in 0 .. MaxId
  PROVE  /\ Synced(o, id) \in Object(Status)
         /\ Synced(o, id).gen = o.gen /\ Synced(o, id).live = o.live
         /\ Synced(o, id).deleting = o.deleting
         /\ Synced(o, id).finalizer = o.finalizer
         /\ Synced(o, id).status.id = id
<1>1. [ready |-> "true", paused |-> o.status.paused, obsGen |-> o.gen,
       id |-> id] \in Status
  BY BoundTypes DEF Object, Status
<1> QED BY <1>1 DEF Synced, Object

-----------------------------------------------------------------------------
(* The kinds of steps of a pass.                                           *)
Pays == left' = left \/ \E k \in Events : Spend(k)

(* What a call does on the server.                                         *)
Serves(c) ==
  \/ UNCHANGED server
  \/ Calling(c) /\ Endpoint(c) /\ StoreDefinition(c)
  \/ /\ Deleting(c) /\ Endpoint(c) /\ Removes(obj[c])
     /\ DropDefinition(Here(c), obj[c].status.id)
     /\ UNCHANGED <<overrides, minted>>
  \/ /\ pc[c] = "apply" /\ overrides' = Overridden(c)
     /\ UNCHANGED <<defs, routings, minted>>
  \/ /\ pc[c] = "add" /\ routings' = Added(c)
     /\ UNCHANGED <<defs, overrides, minted>>
  \/ /\ pc[c] = "remove" /\ routings' = Removed(c)
     /\ UNCHANGED <<defs, overrides, minted>>

(* The version it writes last.                                             *)
Last(c, new) ==
  \/ new \in {obj[c], Paused(obj[c]), NotReady(obj[c])}
  \/ new = Guarded(obj[c]) /\ Unguarded(c)
  \/ new = Synced(obj[c], found[c].id) /\ pc[c] = "record"
  \/ new = Released(obj[c]) /\ pc[c] = "release"

(* A pass ends.                                                            *)
Over(c) ==
  /\ pc[c] \notin {"idle", "refetch"}
  /\ \/ UNCHANGED <<cr, stale>>
     \/ \E new, sure : Last(c, new) /\ Write(c, new, sure)
  /\ \E again : Return(c, again)
  /\ Pays /\ Serves(c)
  /\ defs' = defs \/ \E k \in {"server", "other"} : Spend(k)
  /\ pc[c] = "record" => Write(c, Synced(obj[c], found[c].id), TRUE)
  /\ UNCHANGED <<around, setup>>

(* It reads its resource, at first or before it records.                   *)
ReadOn(c) ==
  /\ \/ /\ pc[c] = "idle" /\ pc' = [pc EXCEPT ![c] = "fetched"]
        /\ \A d \in Peers(c) : pc[d] = "idle"
        /\ cache[c].live /\ (cache[c].deleting => cache[c].finalizer)
     \/ pc[c] = "refetch" /\ pc' = [pc EXCEPT ![c] = "record"]
  /\ ReadCache(c) /\ queued' \in {queued, queued \ {c}}
  /\ UNCHANGED <<cr, stale, timers, found, budget, cache, conn, setup, server>>

(* It goes on with a copy that forgot its id.                              *)
ForgetOn(c) ==
  /\ pc[c] = "drifted" /\ c \notin behind
  /\ Write(c, Forgotten(obj[c]), FALSE)
  /\ obj' = [obj EXCEPT ![c] = Forgotten(@)]
  /\ pc' = [pc EXCEPT ![c] = "sync"]
  /\ UNCHANGED <<left, behind, timers, found, around, setup, server>>

(* It goes on with the copy in hand.                                       *)
Moves(c, l) ==
  \/ /\ l = "drifted" /\ Syncing(c) /\ found' = found /\ UNCHANGED server
     /\ Endpoint(c) => defs[Here(c)][obj[c].status.id] = Undefined
  \/ /\ l = "refetch" /\ Calling(c) /\ Endpoint(c) /\ StoreDefinition(c)
     /\ found' = [found EXCEPT ![c] = Knowing(c, DefId(obj[c]), FALSE)]
  \/ /\ l = "apply" /\ Calling(c) /\ Route(c) /\ UNCHANGED server
     /\ \E i \in Ids : \E e \in BOOLEAN :
          found' = [found EXCEPT ![c] = Knowing(c, i, e)]
  \/ l = "add" /\ pc[c] = "apply" /\ found' = found
  \/ l = "refetch" /\ pc[c] = "add" /\ found' = found
  \/ /\ l = "release" /\ Deleting(c) /\ found' = found
     /\ Endpoint(c) => \/ ~Removes(obj[c]) \/ Spend("other")
                       \/ DropDefinition(Here(c), obj[c].status.id)
  \/ /\ l = "remove" /\ Deleting(c) /\ Route(c) /\ UNCHANGED server
     /\ \E i \in Ids : found' = [found EXCEPT ![c].id = i]
  \/ l = "release" /\ pc[c] = "remove" /\ found' = found

CallOn(c, l) ==
  /\ pc[c] # "idle" /\ Moves(c, l)
  /\ pc' = [pc EXCEPT ![c] = l]
  /\ Pays /\ Serves(c)
  /\ UNCHANGED <<cr, stale, timers, obj, behind, around, setup>>

Passes(c) == Over(c) \/ ReadOn(c) \/ ForgetOn(c) \/ \E l : CallOn(c, l)

LEMMA ReturnIsOver ==
  ASSUME NEW c \in Resources, pc[c] \notin {"idle", "refetch", "record"},
         UNCHANGED <<cr, stale>>,
         \E again : Return(c, again), Pays, Serves(c),
         defs' = defs \/ \E k \in {"server", "other"} : Spend(k),
         UNCHANGED <<around, setup>>
  PROVE  Over(c)
BY DEF Over

LEMMA WriteIsOver ==
  ASSUME NEW c \in Resources, pc[c] \notin {"idle", "refetch", "record"},
         NEW new, Last(c, new), Report(c, new) \/ Write(c, new, FALSE),
         \E again : Return(c, again), Pays, Serves(c),
         defs' = defs \/ \E k \in {"server", "other"} : Spend(k),
         UNCHANGED <<around, setup>>
  PROVE  Over(c)
BY DEF Over, Report

LEMMA FailIsOver ==
  ASSUME NEW c \in Resources, pc[c] \notin {"idle", "refetch", "record"},
         \E again : Fail(c, again),
         Pays, Serves(c),
         defs' = defs \/ \E k \in {"server", "other"} : Spend(k),
         UNCHANGED <<around, setup>>
  PROVE  Over(c)
BY WriteIsOver DEF Fail, Last

(* A call in the same words for every failure.                             *)
LEMMA SpendPays ==
  ASSUME NEW k \in {"server", "other", "kube"}, Spend(k)
  PROVE  Pays
BY DEF Pays, Events

LEMMA CommonKinds ==
  ASSUME IInv, NEW c \in Resources, CommonSteps(c)
  PROVE  Passes(c)
<1>1. CASE AddFinalizer(c) \/ SkipPaused(c) \/ Release(c)
  <2>1. /\ pc[c] \notin {"idle", "refetch", "record"}
        /\ Return(c, c \in behind)
        /\ UNCHANGED <<left, around, setup, server>>
        /\ \E new : Last(c, new) /\ Write(c, new, FALSE)
    BY <1>1 DEF AddFinalizer, SkipPaused, Release, Unguarded, Resolving,
                Starting, Syncing, Last
  <2> QED BY <2>1, WriteIsOver DEF Passes, Pays, Serves, server
<1>2. CASE ResolveFails(c)
  BY <1>2, FailIsOver DEF ResolveFails, Resolving, Starting, Syncing, Passes,
                          Pays, Serves, server
<1>3. CASE SkipSynced(c) \/ DeleteUnresolved(c)
  BY <1>3, ReturnIsOver DEF SkipSynced, DeleteUnresolved, CheckingDrift,
                            Syncing, Deleting, Passes, Pays, Serves, server
<1>4. CASE DriftCheckFails(c)
  <2>1. /\ pc[c] \notin {"idle", "refetch", "record"} /\ Return(c, TRUE) /\ Pays
        /\ UNCHANGED <<around, setup, server>>
        /\ Last(c, obj[c]) /\ Report(c, obj[c])
    BY <1>4, SpendPays DEF DriftCheckFails, CheckingDrift, Syncing, Last
  <2> QED BY <2>1, WriteIsOver DEF Passes, Serves, server
<1>5. CASE DriftDetected(c)
  <2>1. Endpoint(c) => defs[Here(c)][obj[c].status.id] = Undefined
    BY <1>5 DEF DriftDetected, StillThere
  <2>2. CallOn(c, "drifted")
    BY <1>5, <2>1 DEF DriftDetected, CheckingDrift, Syncing, CallOn, Moves,
                      Goto, Pays, Serves, server
  <2> QED BY <2>2 DEF Passes
<1>6. CASE ForgetId(c)
  <2>1. CASE c \in behind
    BY <1>6, <2>1, ReturnIsOver
       DEF ForgetId, Write, Passes, Pays, Serves, server
  <2>2. CASE c \notin behind
    BY <1>6, <2>2 DEF ForgetId, ForgetOn, Goto, Passes
  <2> QED BY <2>1, <2>2
<1>7. CASE Refetch(c)
  BY <1>7 DEF Refetch, ReadOn, Goto, Passes, around
<1>8. CASE Record(c)
  <2>1. Last(c, Synced(obj[c], found[c].id))
    BY <1>8 DEF Record, Last
  <2> QED BY <1>8, <2>1 DEF Record, Over, Passes, Pays, Serves, server
<1> QED BY <1>1, <1>2, <1>3, <1>4, <1>5, <1>6, <1>7, <1>8 DEF CommonSteps

LEMMA EndpointKinds ==
  ASSUME IInv, NEW c \in Resources, EndpointSync(c) \/ EndpointDeletion(c)
  PROVE  Passes(c)
<1>1. CASE ConfigInvalid(c)
  BY <1>1, FailIsOver DEF ConfigInvalid, Starting, Syncing, Passes, Pays,
                          Serves, server
<1>2. CASE SecretMissing(c)
  BY <1>2, FailIsOver, SpendPays DEF SecretMissing, Starting, Syncing,
                                     Passes, Serves, server
<1>3. CASE PostDefinition(c)
  <2>1. CallOn(c, "refetch")
    BY <1>3 DEF PostDefinition, Calling, Resolving, Starting, Syncing,
                CallOn, Moves, Goto, Pays, Serves
  <2> QED BY <2>1 DEF Passes
<1>4. CASE PostFails(c)
  <2>1. /\ pc[c] \notin {"idle", "refetch", "record"}
        /\ Serves(c) /\ Pays /\ \E again : Fail(c, again)
    BY <1>4, SpendPays DEF PostFails, Calling, Resolving, Starting, Syncing,
                           Serves
  <2> QED BY <1>4, <2>1, FailIsOver DEF PostFails, Passes
<1>5. CASE DeleteDefinition(c)
  <2>1. CallOn(c, "release")
    BY <1>5 DEF DeleteDefinition, Deleting, CallOn, Moves, Goto, Pays,
                Serves, server
  <2> QED BY <2>1 DEF Passes
<1>6. ASSUME NEW k \in {"server", "other"}, DeleteDefinitionFails(c, k)
      PROVE  Passes(c)
  <2>1. /\ pc[c] \notin {"idle", "refetch", "record"}
        /\ Deleting(c) /\ Endpoint(c) /\ Serves(c)
        /\ Pays /\ Spend(k) /\ Unanswered(c, k)
        /\ UNCHANGED <<cr, stale, around, setup>>
    BY <1>6, SpendPays DEF DeleteDefinitionFails, Deleting, Serves, server
  <2>2. CASE k = "server"
    BY <2>1, <2>2, ReturnIsOver DEF Unanswered, Passes
  <2>3. CASE k = "other"
    <3>1. CallOn(c, "release")
      BY <2>1, <2>3 DEF Unanswered, CallOn, Moves, Goto
    <3> QED BY <3>1 DEF Passes
  <2> QED BY <2>2, <2>3
<1> QED BY <1>1, <1>2, <1>3, <1>4, <1>5, <1>6 DEF EndpointSync,
                                                  EndpointDeletion

LEMMA RouteKinds ==
  ASSUME IInv, NEW c \in Resources, RouteSync(c) \/ RouteDeletion(c)
  PROVE  Passes(c)
<1> USE DEF server
<1>1. CASE FindIntegration(c)
  <2>1. PICK i \in Ids :
          found' = [found EXCEPT ![c] =
            Knowing(c, i, <<Here(c), Wanted(c).slot, i>> \in routings)]
    BY <1>1 DEF FindIntegration, Named
  <2>2. (<<Here(c), Wanted(c).slot, i>> \in routings) \in BOOLEAN
    OBVIOUS
  <2>3. \E e \in BOOLEAN :
          found' = [found EXCEPT ![c] = Knowing(c, i, e)]
    BY <2>1, <2>2
  <2>4. /\ Calling(c) /\ Route(c) /\ Goto(c, "apply") /\ UNCHANGED server
        /\ UNCHANGED <<cr, stale, timers, left, obj, behind, around, setup>>
    BY <1>1 DEF FindIntegration
  <2>5. Moves(c, "apply") /\ pc[c] # "idle"
    BY <2>3, <2>4 DEF Moves, Calling, Resolving, Starting, Syncing
  <2>6. CallOn(c, "apply")
    BY <2>4, <2>5 DEF CallOn, Goto, Pays, Serves
  <2> QED BY <2>6 DEF Passes
<1>2. CASE IntegrationNotFound(c)
  BY <1>2, FailIsOver DEF IntegrationNotFound, Calling, Resolving, Starting,
                          Syncing, Passes, Pays, Serves
<1>3. CASE GetFails(c)
  BY <1>3, FailIsOver, SpendPays DEF GetFails, Calling, Resolving, Starting,
                                     Syncing, Passes, Serves
<1>4. CASE SetOverride(c)
  <2>1. CallOn(c, "add")
    BY <1>4 DEF SetOverride, CallOn, Moves, Goto, Pays, Serves
  <2> QED BY <2>1 DEF Passes
<1>5. CASE OverrideFails(c)
  <2>1. /\ pc[c] \notin {"idle", "refetch", "record"}
        /\ Serves(c) /\ Pays /\ defs' = defs
    BY <1>5, SpendPays DEF OverrideFails, Serves
  <2> QED BY <1>5, <2>1, FailIsOver DEF OverrideFails, Passes
<1>6. CASE AddRoute(c)
  <2>1. CallOn(c, "refetch")
    BY <1>6 DEF AddRoute, CallOn, Moves, Goto, Pays, Serves
  <2> QED BY <2>1 DEF Passes
<1>7. CASE AddRefused(c)
  BY <1>7, FailIsOver DEF AddRefused, Passes, Pays, Serves
<1>8. CASE AddFails(c)
  <2>1. /\ pc[c] \notin {"idle", "refetch", "record"}
        /\ Serves(c) /\ Pays /\ defs' = defs
    BY <1>8, SpendPays DEF AddFails, Serves
  <2> QED BY <1>8, <2>1, FailIsOver DEF AddFails, Passes
<1>9. CASE FindToDelete(c)
  <2>1. CallOn(c, "remove") \/ CallOn(c, "release")
    BY <1>9 DEF FindToDelete, Deleting, CallOn, Moves, Named, Goto, Pays,
                Serves, Route, Endpoint
  <2> QED BY <2>1 DEF Passes
<1>10. CASE RemoveRoute(c)
  <2>1. CallOn(c, "release")
    BY <1>10 DEF RemoveRoute, CallOn, Moves, Goto, Pays, Serves
  <2> QED BY <2>1 DEF Passes
<1>11. ASSUME NEW k \in {"server", "other"},
              FindToDeleteFails(c, k) \/ RemoveFails(c, k)
       PROVE  Passes(c)
  <2>1. /\ pc[c] \notin {"idle", "refetch", "record"}
        /\ Serves(c) /\ defs' = defs
        /\ Pays /\ Spend(k) /\ Unanswered(c, k)
        /\ Deleting(c) \/ pc[c] = "remove"
        /\ UNCHANGED <<cr, stale, around, setup>>
    BY <1>11, SpendPays DEF FindToDeleteFails, RemoveFails, Deleting, Serves
  <2>2. CASE k = "server"
    BY <2>1, <2>2, ReturnIsOver DEF Unanswered, Passes
  <2>3. CASE k = "other"
    <3>1. CallOn(c, "release")
      BY <2>1, <2>3 DEF Unanswered, CallOn, Moves, Goto
    <3> QED BY <3>1 DEF Passes
  <2> QED BY <2>2, <2>3
<1> QED BY <1>1, <1>2, <1>3, <1>4, <1>5, <1>6, <1>7, <1>8, <1>9, <1>10,
           <1>11 DEF RouteSync, RouteDeletion

LEMMA ReconcileKinds ==
  ASSUME IInv, NEW c \in Resources, Reconcile(c)
  PROVE  Passes(c)
BY CommonKinds, EndpointKinds, RouteKinds DEF Reconcile

-----------------------------------------------------------------------------
(* What all of them have in common: only c is touched, and nothing is out  *)
(* of place afterwards.                                                    *)
Step(c) ==
  /\ TypeOK'
  /\ setup' = setup /\ budget' = budget /\ cache' = cache
  /\ \A k \in Events : left'[k] <= left[k]
  /\ \A d \in Resources \ {c} :
       /\ cr'[d] = cr[d] /\ obj'[d] = obj[d] /\ pc'[d] = pc[d]
       /\ found'[d] = found[d]
       /\ d \in behind' <=> d \in behind
       /\ d \in stale' <=> d \in stale
  /\ pc[c] # "idle" \/ \A d \in Peers(c) : pc[d] = "idle"
  /\ cr'[c].gen = cr[c].gen /\ cr'[c].deleting = cr[c].deleting
  /\ obj'[c].gen <= cr[c].gen /\ (obj'[c].deleting => cr[c].deleting)
  /\ c \in stale' \/ (c \notin stale /\ cr'[c] = cr[c])
  /\ pc'[c] = "idle" \/ c \in behind' \/ obj'[c] = cr'[c]
  /\ Stage(c)' /\ Owns(c)'
  /\ Serves(c)

LEMMA PaysType ==
  ASSUME TypeOK, Pays
  PROVE  /\ left' \in [Events -> Nat]
         /\ \A k \in Events : left'[k] <= left[k]
BY Shapes DEF Pays, Spend

LEMMA DefIdShape ==
  ASSUME TypeOK, NEW c \in Resources, StoreDefinition(c)
  PROVE  /\ DefId(obj[c]) \in Ids
         /\ minted' \in 0 .. MaxId /\ minted <= minted'
         /\ DefId(obj[c]) = obj[c].status.id \/ DefId(obj[c]) = minted + 1
BY BoundTypes, Shapes DEF StoreDefinition, DefId, Ids, TypeOK

LEMMA ServesType ==
  ASSUME IInv, NEW c \in Resources, Serves(c)
  PROVE  /\ defs' \in [Clusters -> [Ids -> [name: Names \cup {"none"},
                                            gen: 0 .. MaxGen]]]
         /\ routings' \subseteq Clusters \X Slots \X Ids
         /\ overrides' \subseteq Clusters \X Slots
         /\ minted' \in 0 .. MaxId /\ minted <= minted'
<1>1. /\ TypeOK /\ Stage(c)
      /\ defs \in [Clusters -> [Ids -> [name: Names \cup {"none"},
                                        gen: 0 .. MaxGen]]]
      /\ routings \subseteq Clusters \X Slots \X Ids
      /\ overrides \subseteq Clusters \X Slots
      /\ minted \in 0 .. MaxId
  BY DEF IInv, TypeOK
<1>2. /\ Wanted(c).slot \in Slots /\ Wanted(c).name \in Names
      /\ Here(c) \in Clusters
      /\ obj[c].gen \in 0 .. MaxGen /\ found[c].id \in {0} \cup Ids
      /\ minted <= minted
  BY <1>1, Figures, BoundTypes
<1>3. CASE Calling(c) /\ Endpoint(c) /\ StoreDefinition(c)
  <2>1. [name |-> Wanted(c).name, gen |-> obj[c].gen]
          \in [name: Names \cup {"none"}, gen: 0 .. MaxGen]
    BY <1>2
  <2>2. defs' = [defs EXCEPT ![Here(c)][DefId(obj[c])] =
                   [name |-> Wanted(c).name, gen |-> obj[c].gen]]
        /\ UNCHANGED <<routings, overrides>>
    BY <1>3 DEF StoreDefinition
  <2> QED BY <1>1, <1>3, <2>1, <2>2, DefIdShape
<1>4. CASE /\ DropDefinition(Here(c), obj[c].status.id)
           /\ UNCHANGED <<overrides, minted>>
  BY <1>1, <1>2, <1>4, BoundTypes DEF DropDefinition
<1>5. CASE pc[c] = "add" /\ routings' = Added(c)
           /\ UNCHANGED <<defs, overrides, minted>>
  BY <1>1, <1>2, <1>5 DEF Added, Stage
<1>6. CASE pc[c] = "apply" /\ overrides' = Overridden(c)
           /\ UNCHANGED <<defs, routings, minted>>
  BY <1>1, <1>2, <1>6 DEF Overridden
<1> QED BY <1>1, <1>2, <1>3, <1>4, <1>5, <1>6 DEF Serves, server, Removed

LEMMA MintedStays ==
  ASSUME IInv, NEW c \in Resources, Serves(c), setup' = setup
  PROVE  Minted'
<1>1. minted \in Nat /\ minted' \in Nat /\ minted <= minted'
  BY ServesType, Shapes, BoundTypes DEF IInv
<1> QED BY <1>1 DEF IInv, Minted

(* What a pass that ends writes.                                           *)
LEMMA LastVersion ==
  ASSUME TypeOK, NEW c \in Resources, NEW new, Last(c, new)
  PROVE  /\ new \in Object(Status) /\ new.gen = obj[c].gen
         /\ new.deleting = obj[c].deleting
         /\ new.status.id \in {obj[c].status.id, found[c].id}
<1>1. obj[c] \in Object(Status) /\ found[c].id \in 0 .. MaxId
  BY Shapes
<1>2. CASE new = Synced(obj[c], found[c].id)
  BY <1>1, <1>2, SyncedVersion
<1>3. CASE new \in {obj[c], Paused(obj[c]), NotReady(obj[c]),
                    Guarded(obj[c]), Released(obj[c])}
  BY <1>1, <1>3, Versions
<1> QED BY <1>2, <1>3 DEF Last

LEMMA OverIsStep ==
  ASSUME IInv, NEW c \in Resources, Over(c)
  PROVE  Step(c)
<1>1. /\ TypeOK /\ Views /\ Stage(c) /\ Owns(c) /\ pc[c] # "idle"
      /\ Pays /\ Serves(c) /\ UNCHANGED <<around, setup>>
  BY DEF IInv, Over
<1>2. /\ obj' = [obj EXCEPT ![c] = Created(NoStatus)]
      /\ behind' = behind \ {c}
      /\ pc' = [pc EXCEPT ![c] = "idle"]
      /\ timers' = timers \/ timers' = timers \cup {c}
      /\ found' = [found EXCEPT ![c] = NotFound]
  BY DEF Over, Return, Leave, Goto
<1>3. /\ cr' \in [Resources -> Object(Status)] /\ stale' \subseteq Resources
      /\ \A d \in Resources \ {c} :
           cr'[d] = cr[d] /\ (d \in stale' <=> d \in stale)
      /\ cr'[c].gen = cr[c].gen /\ cr'[c].deleting = cr[c].deleting
      /\ cr'[c].status.id \in {cr[c].status.id, found[c].id}
      /\ c \in stale' \/ (c \notin stale /\ cr'[c] = cr[c])
  <2>1. CASE UNCHANGED <<cr, stale>>
    BY <1>1, <2>1, Shapes
  <2>2. ASSUME NEW new, NEW sure, Last(c, new), Write(c, new, sure),
               c \notin behind
        PROVE  /\ cr' = [cr EXCEPT ![c] = new] /\ new \in Object(Status)
               /\ new.gen = cr[c].gen /\ new.deleting = cr[c].deleting
               /\ new.status.id \in {cr[c].status.id, found[c].id}
               /\ stale' = stale \cup {c} \/ (stale' = stale /\ new = cr[c])
    <3>1. obj[c] = cr[c]
      BY <1>1, <2>2 DEF Views
    <3> QED BY <1>1, <2>2, <3>1, LastVersion DEF Write
  <2>3. CASE \E new, sure : Last(c, new) /\ Write(c, new, sure)
             /\ c \notin behind
    BY <1>1, <2>2, <2>3, Shapes
  <2> QED BY <2>1, <2>3 DEF Over, Write
<1>4. TypeOK'
  BY <1>1, <1>2, <1>3, Shapes, PaysType, ServesType, CreatedShape,
     BoundTypes DEF TypeOK, KubeTypeOK, around
<1>5. /\ pc'[c] = "idle" /\ obj'[c] = Created(NoStatus)
      /\ found'[c] = NotFound
  BY <1>1, <1>2, Shapes
<1>6. obj'[c].gen <= cr[c].gen /\ ~obj'[c].deleting
  <2>1. cr[c].gen \in 1 .. MaxGen
    BY <1>1, Shapes DEF Object
  <2> QED BY <1>5, <2>1, CreatedShape, BoundTypes
<1>7. Stage(c)'
  BY <1>5 DEF Stage, NotFound
<1>8. Owns(c)'
  BY <1>1, <1>3, <1>5, CreatedShape
     DEF Owns, OfOurs, Ours, NotFound, Endpoint, around
<1>9. \A d \in Resources \ {c} :
        /\ obj'[d] = obj[d] /\ pc'[d] = pc[d] /\ found'[d] = found[d]
        /\ d \in behind' <=> d \in behind
  BY <1>1, <1>2, Shapes
<1> QED BY <1>1, <1>3, <1>4, <1>5, <1>6, <1>7, <1>8, <1>9, PaysType
        DEF Step, around

LEMMA ReadEffect ==
  ASSUME TypeOK, Views, NEW c \in Resources, ReadCache(c)
  PROVE  /\ obj' = [obj EXCEPT ![c] = cache[c]] /\ Pays
         /\ behind' \subseteq Resources
         /\ \A d \in Resources \ {c} : d \in behind' <=> d \in behind
         /\ c \in behind' \/ cache[c] = cr[c]
BY DEF ReadCache, Pays, Events, TypeOK, KubeTypeOK, Views

LEMMA ReadIsStep ==
  ASSUME IInv, NEW c \in Resources, ReadOn(c)
  PROVE  Step(c)
<1>1. /\ TypeOK /\ Views /\ Stage(c) /\ Owns(c)
      /\ UNCHANGED <<cr, stale, timers, found, budget, cache, conn, setup,
                     server>>
      /\ queued' \in {queued, queued \ {c}}
  BY DEF IInv, ReadOn
<1>2. /\ obj' = [obj EXCEPT ![c] = cache[c]] /\ Pays
      /\ behind' \subseteq Resources
      /\ \A d \in Resources \ {c} : d \in behind' <=> d \in behind
      /\ c \in behind' \/ cache[c] = cr[c]
  BY <1>1, ReadEffect DEF ReadOn
<1>3. \/ pc[c] = "idle" /\ pc' = [pc EXCEPT ![c] = "fetched"]
      \/ pc[c] = "refetch" /\ pc' = [pc EXCEPT ![c] = "record"]
  BY DEF ReadOn
<1>4. TypeOK'
  BY <1>1, <1>2, <1>3, PaysType DEF TypeOK, KubeTypeOK, server
<1>5. /\ \A d \in Resources \ {c} : obj'[d] = obj[d] /\ pc'[d] = pc[d]
      /\ obj'[c] = cache[c]
      /\ \/ pc[c] = "idle" /\ pc'[c] = "fetched"
         \/ pc[c] = "refetch" /\ pc'[c] = "record"
  BY <1>1, <1>2, <1>3, Shapes
<1>6. Stage(c)'
  BY <1>1, <1>5 DEF Stage, Endpoint
<1>7. Owns(c)'
  BY <1>1, <1>5 DEF Owns, OfOurs, Ours, Endpoint
<1> QED BY <1>1, <1>2, <1>4, <1>5, <1>6, <1>7, PaysType
        DEF Step, ReadOn, Views, Serves

LEMMA ForgetIsStep ==
  ASSUME IInv, NEW c \in Resources, ForgetOn(c)
  PROVE  Step(c)
<1>1. /\ TypeOK /\ Views /\ Stage(c) /\ Owns(c)
      /\ pc[c] = "drifted" /\ c \notin behind
      /\ obj[c] = cr[c] /\ obj[c] \in Object(Status)
      /\ UNCHANGED <<left, behind, timers, found, around, setup, server>>
  BY Shapes DEF IInv, ForgetOn, Views
<1>2. /\ Forgotten(obj[c]) \in Object(Status)
      /\ Forgotten(obj[c]).gen = cr[c].gen
      /\ Forgotten(obj[c]).deleting = cr[c].deleting
      /\ Forgotten(obj[c]).status.id = 0
  BY <1>1, Versions
<1>3. /\ cr' = [cr EXCEPT ![c] = Forgotten(obj[c])]
      /\ \/ stale' = stale \cup {c}
         \/ stale' = stale /\ Forgotten(obj[c]) = cr[c]
      /\ obj' = [obj EXCEPT ![c] = Forgotten(obj[c])]
      /\ pc' = [pc EXCEPT ![c] = "sync"]
  BY <1>1 DEF ForgetOn, Write
<1>4. TypeOK'
  BY <1>1, <1>2, <1>3 DEF TypeOK, KubeTypeOK, around, server
<1>5. /\ \A d \in Resources \ {c} :
           /\ obj'[d] = obj[d] /\ pc'[d] = pc[d] /\ cr'[d] = cr[d]
           /\ d \in stale' <=> d \in stale
      /\ obj'[c] = Forgotten(obj[c]) /\ cr'[c] = Forgotten(obj[c])
      /\ pc'[c] = "sync"
  BY <1>1, <1>3, Shapes
<1>6. Stage(c)'
  BY <1>1, <1>5 DEF Stage, Endpoint
<1>7. Owns(c)'
  BY <1>1, <1>2, <1>5 DEF Owns, OfOurs, Ours, Endpoint, around
<1>8. cr[c].gen <= cr[c].gen /\ \A k \in Events : left'[k] <= left[k]
  BY <1>1, Figures, Shapes
<1> QED BY <1>1, <1>2, <1>3, <1>4, <1>5, <1>6, <1>7, <1>8
        DEF Step, Views, Serves, around

LEMMA CallIsStep ==
  ASSUME IInv, NEW c \in Resources, NEW l, CallOn(c, l)
  PROVE  Step(c)
<1>1. /\ TypeOK /\ Views /\ Stage(c) /\ Owns(c) /\ pc[c] # "idle"
      /\ Pays /\ Serves(c) /\ Moves(c, l)
      /\ pc' = [pc EXCEPT ![c] = l]
      /\ UNCHANGED <<cr, stale, timers, obj, behind, around, setup>>
  BY DEF IInv, CallOn
<1>2. /\ l \in Labels
      /\ found' \in [Resources -> [id: 0 .. MaxId, exists: BOOLEAN,
                                  gen: 0 .. MaxGen]]
      /\ \A d \in Resources \ {c} : found'[d] = found[d]
      /\ \/ found' = found
         \/ l \in {"apply", "remove"} /\ found'[c].id \in Ids
         \/ l = "refetch" /\ Endpoint(c) /\ found'[c].id = DefId(obj[c])
  <2>1. /\ found \in [Resources -> [id: 0 .. MaxId, exists: BOOLEAN,
                                    gen: 0 .. MaxGen]]
        /\ Ids \subseteq 0 .. MaxId
        /\ obj[c].gen \in 0 .. MaxGen
    BY <1>1, Shapes, Figures DEF Ids
  <2>2. CASE found' = found
    BY <1>1, <2>1, <2>2 DEF Moves, Labels
  <2>3. ASSUME NEW i \in Ids, found' = [found EXCEPT ![c].id = i]
        PROVE  /\ found' \in [Resources -> [id: 0 .. MaxId, exists: BOOLEAN,
                                           gen: 0 .. MaxGen]]
               /\ \A d \in Resources \ {c} : found'[d] = found[d]
               /\ found'[c].id = i
    BY <2>1, <2>3
  <2>7. ASSUME NEW i \in Ids, NEW e \in BOOLEAN,
               found' = [found EXCEPT ![c] = Knowing(c, i, e)]
        PROVE  /\ found' \in [Resources -> [id: 0 .. MaxId, exists: BOOLEAN,
                                           gen: 0 .. MaxGen]]
               /\ \A d \in Resources \ {c} : found'[d] = found[d]
               /\ found'[c].id = i
    <3>1. Knowing(c, i, e) \in [id: 0 .. MaxId, exists: BOOLEAN,
                                gen: 0 .. MaxGen]
      BY <2>1 DEF Knowing
    <3>2. Knowing(c, i, e).id = i
      BY DEF Knowing
    <3> QED BY <2>1, <2>7, <3>1, <3>2
  <2>4. CASE l = "refetch" /\ Endpoint(c) /\ StoreDefinition(c)
             /\ found' = [found EXCEPT ![c] = Knowing(c, DefId(obj[c]), FALSE)]
    BY <1>1, <2>7, <2>4, DefIdShape DEF Labels
  <2>5. CASE l = "remove" /\ \E i \in Ids : found' = [found EXCEPT ![c].id = i]
    BY <2>3, <2>5 DEF Labels
  <2>6. CASE l = "apply" /\ \E i \in Ids : \E e \in BOOLEAN :
               found' = [found EXCEPT ![c] = Knowing(c, i, e)]
    BY <2>6, <2>7 DEF Labels
  <2> QED BY <1>1, <2>2, <2>4, <2>5, <2>6 DEF Moves
<1>3. pc' \in [Resources -> Labels] /\ pc'[c] = l
      /\ \A d \in Resources \ {c} : pc'[d] = pc[d]
  BY <1>1, <1>2, Shapes
<1>4. TypeOK'
  BY <1>1, <1>2, <1>3, PaysType, ServesType
     DEF TypeOK, KubeTypeOK, Labels, around
<1>5. 0 \notin Ids
  BY DEF Ids
<1>6. Stage(c)'
  <2>1. /\ pc'[c] \in {"apply", "add", "remove"} => Route(c)
        /\ pc'[c] \in {"remove", "release"} => obj[c].deleting
    BY <1>1, <1>3 DEF Moves, Stage, Deleting
  <2>2. pc'[c] \in {"apply", "add", "remove", "refetch", "record"} =>
          found'[c].id # 0
    <3>1. CASE found' = found
      <4>1. l = "refetch" =>
              \/ pc[c] = "add"
              \/ /\ StoreDefinition(c)
                 /\ found' = [found EXCEPT ![c] =
                                Knowing(c, DefId(obj[c]), FALSE)]
        BY <1>1 DEF Moves
      <4>2. CASE /\ StoreDefinition(c)
                 /\ found' = [found EXCEPT ![c] =
                                Knowing(c, DefId(obj[c]), FALSE)]
        <5>1. found'[c].id = DefId(obj[c])
          BY <1>1, <4>2, Shapes DEF Knowing
        <5> QED BY <1>1, <1>5, <4>2, <5>1, DefIdShape
      <4>3. CASE l # "refetch" \/ pc[c] = "add"
        <5>1. l \in {"apply", "remove"} => found'[c].id # 0
          BY <1>1, <1>5, Shapes DEF Moves, Knowing
        <5>2. l \in {"add", "refetch", "record"} => pc[c] \in {"apply", "add"}
          BY <1>1, <4>3 DEF Moves
        <5> QED BY <1>1, <1>3, <3>1, <5>1, <5>2 DEF Stage
      <4> QED BY <4>1, <4>2, <4>3
    <3>2. CASE l = "refetch" /\ Endpoint(c) /\ found'[c].id = DefId(obj[c])
               /\ found' # found
      <4>1. StoreDefinition(c)
        BY <1>1, <3>2 DEF Moves
      <4> QED BY <1>1, <1>5, <3>2, <4>1, DefIdShape
    <3> QED BY <1>2, <1>5, <3>1, <3>2
  <2>3. pc'[c] \notin {"refetch", "record"} /\ Endpoint(c) => found'[c].id = 0
    <3>1. CASE found' = found
      BY <1>1, <1>3, <3>1
         DEF Moves, Stage, Syncing, Deleting, Route, Endpoint
    <3>2. CASE l \in {"apply", "remove"}
      BY <1>1, <3>2 DEF Moves, Route, Endpoint
    <3> QED BY <1>2, <1>3, <3>1, <3>2
  <2> QED BY <1>1, <2>1, <2>2, <2>3 DEF Stage, Endpoint, Route
<1>7. Owns(c)'
  <2>1. SUFFICES ASSUME Endpoint(c) PROVE OfOurs(found'[c].id)
    BY <1>1, <2>1 DEF Owns, OfOurs, Ours, Endpoint, around
  <2>2. CASE found' = found
    BY <1>1, <2>1, <2>2 DEF Owns
  <2>3. CASE l \in {"apply", "remove"}
    BY <1>1, <2>1, <2>3 DEF Moves, Route, Endpoint
  <2>4. CASE l = "refetch" /\ found' # found
             /\ found'[c].id = DefId(obj[c])
    <3>1. StoreDefinition(c)
      BY <1>1, <2>4 DEF Moves
    <3>2. OfOurs(obj[c].status.id)
      BY <1>1, <2>1 DEF Owns
    <3>3. OfOurs(minted + 1)
      BY <1>1, Shapes DEF IInv, Minted, OfOurs, Ours
    <3> QED BY <1>1, <2>4, <3>1, <3>2, <3>3, DefIdShape
  <2> QED BY <1>2, <2>2, <2>3, <2>4
<1>8. obj[c].gen <= cr[c].gen
  BY <1>1 DEF Views
<1> QED BY <1>1, <1>2, <1>3, <1>4, <1>6, <1>7, <1>8, PaysType
        DEF Step, Views, around

LEMMA PassIsStep ==
  ASSUME IInv, NEW c \in Resources, Passes(c)
  PROVE  Step(c)
BY OverIsStep, ReadIsStep, ForgetIsStep, CallIsStep DEF Passes

-----------------------------------------------------------------------------
(* What happens around the passes.                                         *)

(* The user edits or deletes a resource.                                   *)
Wishes(c) ==
  /\ cr[c].live
  /\ \E new \in Object(Status) :
       /\ Overwrite(c, new)
       /\ new.status = cr[c].status /\ new.finalizer = cr[c].finalizer
       /\ new.gen = cr[c].gen \/ new.gen = cr[c].gen + 1
       /\ cr[c].deleting => new.deleting
       /\ ~new.live => ~cr[c].finalizer
  /\ \E k \in Events : Spend(k)
  /\ UNCHANGED <<setup, found, server>>

(* The informer catches up.                                                *)
Delivers(c) == WatchDelivers(c) /\ UNCHANGED <<setup, found, server>>

(* A timer, the connection, a key that is dropped, the console.            *)
Beyond ==
  /\ UNCHANGED <<cr, cache, stale, copies, setup, found, budget, overrides,
                 minted>>
  /\ queued' \subseteq Resources /\ timers' \subseteq Resources
  /\ conn' \in ConnStates
  /\ Pays
  /\ \/ UNCHANGED <<defs, routings>>
     \/ /\ Spend("external")
        /\ \/ \E t \in Clusters, i \in Ids : DropDefinition(t, i)
           \/ defs' = defs /\ routings' \subseteq routings

LEMMA WishKinds ==
  ASSUME IInv, NEW c \in Resources, UserEdits(c) \/ UserDeletes(c),
         UNCHANGED <<setup, found, server>>
  PROVE  Wishes(c)
<1>1. cr[c] \in Object(Status)
  BY Shapes DEF IInv
<1>2. CASE UserEdits(c)
  <2>1. PICK new : new = [cr[c] EXCEPT !.gen = @ + 1]
    OBVIOUS
  <2>2. /\ new \in Object(Status) /\ new.status = cr[c].status
        /\ new.finalizer = cr[c].finalizer /\ new.gen = cr[c].gen + 1
        /\ new.deleting = cr[c].deleting /\ new.live = cr[c].live
    <3>1. cr[c].gen \in 1 .. MaxGen /\ cr[c].gen < MaxGen
      BY <1>1, <1>2 DEF UserEdits, Object
    <3>2. cr[c].gen + 1 \in 1 .. MaxGen
      BY <3>1, BoundTypes
    <3> QED BY <1>1, <2>1, <3>2 DEF Object
  <2>3. cr[c].live /\ Overwrite(c, new) /\ Spend("edit") /\ "edit" \in Events
    BY <1>2, <2>1 DEF UserEdits, Events
  <2> QED BY <2>2, <2>3 DEF Wishes
<1>3. CASE UserDeletes(c)
  <2>1. PICK new : new = IF cr[c].finalizer
                           THEN [cr[c] EXCEPT !.deleting = TRUE]
                           ELSE [cr[c] EXCEPT !.live = FALSE]
    OBVIOUS
  <2>2. /\ new \in Object(Status) /\ new.status = cr[c].status
        /\ new.finalizer = cr[c].finalizer /\ new.gen = cr[c].gen
        /\ cr[c].deleting => new.deleting
        /\ ~new.live => ~cr[c].finalizer
    <3>1. CASE cr[c].finalizer /\ new = [cr[c] EXCEPT !.deleting = TRUE]
      BY <1>1, <1>3, <3>1 DEF Object, UserDeletes
    <3>2. CASE ~cr[c].finalizer /\ new = [cr[c] EXCEPT !.live = FALSE]
      BY <1>1, <3>2 DEF Object
    <3> QED BY <2>1, <3>1, <3>2
  <2>3. /\ cr[c].live /\ Overwrite(c, new)
        /\ Spend("delete") /\ "delete" \in Events
    BY <1>3, <2>1 DEF UserDeletes, Events
  <2> QED BY <2>2, <2>3 DEF Wishes
<1> QED BY <1>2, <1>3

LEMMA AroundKinds ==
  ASSUME IInv, NEW c \in Resources, Around(c)
  PROVE  Wishes(c) \/ Delivers(c) \/ Beyond
<1>1. CASE TimerFires(c)
  BY <1>1, Shapes DEF IInv, Around, TimerFires, Beyond, Pays, server, TypeOK,
                      KubeTypeOK
<1> QED BY <1>1, WishKinds DEF Around, Delivers

LEMMA OtherKinds ==
  ASSUME IInv, ConnChanges \/ ExternalDelete
  PROVE  Beyond
<1>1. CASE ConnChanges
  BY <1>1, Shapes DEF IInv, ConnChanges, ConnMoves, Beyond, Pays, Events,
                      server
<1>2. CASE ExternalDelete
  <2>1. /\ Spend("external") /\ "external" \in Events
        /\ \/ \E t \in Clusters, i \in Ids : DropDefinition(t, i)
           \/ defs' = defs /\ routings' \subseteq routings
        /\ UNCHANGED <<cr, stale, timers, copies, around, setup, found,
                       overrides, minted>>
    BY <1>2 DEF ExternalDelete, Events
  <2> QED BY <2>1, Shapes DEF IInv, TypeOK, KubeTypeOK, Beyond, Pays, around
<1> QED BY <1>1, <1>2

LEMMA FetchKinds ==
  ASSUME IInv, NEW c \in Resources, Fetch(c)
  PROVE  Passes(c) \/ Beyond
<1>1. /\ queued' = queued \ {c}
      /\ \A d \in Peers(c) : pc[d] = "idle"
      /\ UNCHANGED <<budget, cr, cache, stale, timers, conn, setup, found,
                     server>>
  BY DEF Fetch, Take
<1>2. c \in Peers(c)
  BY DEF Peers
<1>3. CASE /\ cache[c].live /\ (cache[c].deleting => cache[c].finalizer)
           /\ ReadCache(c) /\ Goto(c, "fetched")
  BY <1>1, <1>2, <1>3 DEF ReadOn, Goto, Passes
<1>4. CASE UNCHANGED <<copies, left>>
  BY <1>1, <1>4, Shapes DEF Beyond, Pays, server, IInv, TypeOK, KubeTypeOK
<1> QED BY <1>3, <1>4 DEF Fetch, Take

LEMMA NextKinds ==
  ASSUME IInv, [Next]_vars
  PROVE  \/ Beyond \/ Crash
         \/ \E c \in Resources : Passes(c) \/ Wishes(c) \/ Delivers(c)
<1>1. CASE UNCHANGED vars
  BY <1>1, Shapes DEF vars, kubeVars, around, server, Beyond, Pays, IInv,
                      TypeOK, KubeTypeOK
<1> QED BY <1>1, FetchKinds, ReconcileKinds, AroundKinds, OtherKinds DEF Next

(* What these have in common: copies are brought up to date or dropped.    *)
Aside ==
  /\ TypeOK' /\ Views' /\ \A c \in Resources : Owns(c)'
  /\ setup' = setup /\ budget' = budget /\ minted' = minted
  /\ \A k \in Events : left'[k] <= left[k]
  /\ \A c \in Resources :
       \/ pc'[c] = "idle" /\ found'[c] = NotFound
       \/ pc'[c] = pc[c] /\ found'[c] = found[c] /\ obj'[c] = obj[c]

LEMMA WishIsAside ==
  ASSUME IInv, NEW c \in Resources, Wishes(c)
  PROVE  Aside
<1>1. /\ TypeOK /\ Views /\ UNCHANGED <<setup, found, server>>
      /\ \E k \in Events : Spend(k)
  BY DEF IInv, Wishes
<1>2. PICK new \in Object(Status) :
        /\ Overwrite(c, new)
        /\ new.status = cr[c].status
        /\ new.gen = cr[c].gen \/ new.gen = cr[c].gen + 1
        /\ cr[c].deleting => new.deleting
  BY DEF Wishes
<1>3. /\ cr' = [cr EXCEPT ![c] = new] /\ stale' = stale \cup {c}
      /\ behind' = IF pc[c] = "idle" THEN behind ELSE behind \cup {c}
      /\ UNCHANGED <<timers, obj, pc, around>>
  BY <1>2 DEF Overwrite
<1>4. left' \in [Events -> Nat] /\ \A k \in Events : left'[k] <= left[k]
  BY <1>1, PaysType DEF Pays
<1>5. TypeOK'
  BY <1>1, <1>3, <1>4 DEF TypeOK, KubeTypeOK, around, server
<1>6. /\ cr'[c] = new /\ \A d \in Resources \ {c} : cr'[d] = cr[d]
  BY <1>1, <1>3, Shapes
<1>7. Views'
  <2>1. SUFFICES ASSUME NEW d \in Resources
                 PROVE  /\ d \notin stale' => cache'[d] = cr'[d]
                        /\ pc'[d] # "idle" /\ d \notin behind' =>
                             obj'[d] = cr'[d]
                        /\ cache'[d].gen <= cr'[d].gen
                        /\ obj'[d].gen <= cr'[d].gen
                        /\ cache'[d].deleting \/ obj'[d].deleting =>
                             cr'[d].deleting
    BY DEF Views
  <2>2. /\ cr[d].gen \in Nat /\ cache[d].gen \in Nat /\ obj[d].gen \in Nat
        /\ UNCHANGED <<cache, obj, pc>>
    BY <1>1, <1>3, Figures DEF around
  <2>3. CASE d = c
    BY <1>1, <1>2, <1>3, <1>6, <2>2, <2>3 DEF Views
  <2>4. CASE d # c
    BY <1>1, <1>3, <1>6, <2>2, <2>4 DEF Views
  <2> QED BY <2>3, <2>4
<1>8. \A d \in Resources : Owns(d)'
  <2>1. \A d \in Resources : cr'[d].status = cr[d].status
    BY <1>2, <1>6
  <2> QED BY <1>1, <1>3, <2>1
          DEF IInv, Owns, OfOurs, Ours, Endpoint, around
<1> QED BY <1>1, <1>3, <1>4, <1>5, <1>7, <1>8 DEF Aside, around, server

LEMMA DeliverIsAside ==
  ASSUME IInv, NEW c \in Resources, Delivers(c)
  PROVE  Aside
<1>1. /\ TypeOK /\ Views
      /\ cache' = [cache EXCEPT ![c] = cr[c]] /\ stale' = stale \ {c}
      /\ queued' = queued \cup {c}
      /\ UNCHANGED <<budget, cr, timers, left, copies, conn>>
      /\ UNCHANGED <<setup, found, server>>
  BY DEF IInv, Delivers, WatchDelivers
<1>2. TypeOK'
  BY <1>1 DEF TypeOK, KubeTypeOK, copies, server
<1>3. cache'[c] = cr[c] /\ \A d \in Resources \ {c} : cache'[d] = cache[d]
  BY <1>1, Shapes
<1>4. Views'
  <2>1. cr[c].gen <= cr[c].gen
    BY <1>1, Figures
  <2> QED BY <1>1, <1>3, <2>1 DEF Views, copies
<1>5. \A d \in Resources : Owns(d)'
  BY <1>1, <1>3 DEF IInv, Owns, OfOurs, Ours, Endpoint, copies
<1>6. \A k \in Events : left'[k] <= left[k]
  BY <1>1, Shapes
<1> QED BY <1>1, <1>2, <1>4, <1>5, <1>6 DEF Aside, copies, server

LEMMA BeyondIsAside ==
  ASSUME IInv, Beyond
  PROVE  Aside
<1>1. TypeOK /\ Views /\ Pays
  BY DEF IInv, Beyond
<1>2. /\ defs' \in [Clusters -> [Ids -> [name: Names \cup {"none"},
                                         gen: 0 .. MaxGen]]]
      /\ routings' \subseteq Clusters \X Slots \X Ids
  <2>1. /\ defs \in [Clusters -> [Ids -> [name: Names \cup {"none"},
                                          gen: 0 .. MaxGen]]]
        /\ routings \subseteq Clusters \X Slots \X Ids
    BY <1>1 DEF TypeOK
  <2>2. ASSUME NEW t \in Clusters, NEW i \in Ids, DropDefinition(t, i)
        PROVE  /\ defs' \in [Clusters -> [Ids -> [name: Names \cup {"none"},
                                                 gen: 0 .. MaxGen]]]
               /\ routings' \subseteq Clusters \X Slots \X Ids
    BY <2>1, <2>2, BoundTypes DEF DropDefinition
  <2> QED BY <2>1, <2>2 DEF Beyond
<1>3. TypeOK'
  BY <1>1, <1>2, PaysType DEF TypeOK, KubeTypeOK, Beyond, copies
<1>4. Views'
  BY <1>1 DEF Views, Beyond, copies
<1>5. \A d \in Resources : Owns(d)'
  BY DEF IInv, Owns, OfOurs, Ours, Endpoint, Beyond, copies
<1> QED BY <1>1, <1>3, <1>4, <1>5, PaysType DEF Aside, Beyond, copies

LEMMA CrashIsAside ==
  ASSUME IInv, Crash
  PROVE  Aside
<1>1. /\ TypeOK /\ Spend("crash") /\ "crash" \in Events
      /\ cache' = cr /\ stale' = {} /\ queued' = Resources /\ timers' = {}
      /\ obj' = [c \in Resources |-> Created(NoStatus)] /\ behind' = {}
      /\ pc' = [c \in Resources |-> "idle"]
      /\ found' = [c \in Resources |-> NotFound]
      /\ UNCHANGED <<budget, cr, conn, setup, server>>
  BY DEF IInv, Crash, Restart, Events
<1>2. left' \in [Events -> Nat] /\ \A k \in Events : left'[k] <= left[k]
  BY <1>1, PaysType DEF Pays
<1>3. TypeOK'
  BY <1>1, <1>2, CreatedShape, BoundTypes DEF TypeOK, KubeTypeOK, server
<1>4. \A c \in Resources : cr[c].gen \in 1 .. MaxGen
  BY <1>1, Shapes DEF Object
<1>5. Views'
  BY <1>1, <1>4, CreatedShape, BoundTypes DEF Views
<1>6. \A c \in Resources : Owns(c)'
  BY <1>1, CreatedShape DEF IInv, Owns, OfOurs, Ours, Endpoint, NotFound
<1> QED BY <1>1, <1>2, <1>3, <1>5, <1>6 DEF Aside, server

-----------------------------------------------------------------------------
(* The invariant is preserved.                                             *)
LEMMA StepInvariant ==
  ASSUME IInv, NEW c \in Resources, Step(c)
  PROVE  IInv'
<1>1. /\ TypeOK /\ Alone /\ Views /\ Counted
      /\ TypeOK' /\ setup' = setup /\ budget' = budget /\ cache' = cache
  BY DEF IInv, Step
<1>2. \A d \in Resources \ {c} :
        /\ cr'[d] = cr[d] /\ obj'[d] = obj[d] /\ pc'[d] = pc[d]
        /\ found'[d] = found[d]
        /\ d \in behind' <=> d \in behind
        /\ d \in stale' <=> d \in stale
  BY DEF Step
<1>3. Alone'
  BY <1>1, <1>2 DEF Alone, Step, Peers
<1>4. Views'
  <2>1. SUFFICES ASSUME NEW d \in Resources
                 PROVE  /\ d \notin stale' => cache'[d] = cr'[d]
                        /\ pc'[d] # "idle" /\ d \notin behind' =>
                             obj'[d] = cr'[d]
                        /\ cache'[d].gen <= cr'[d].gen
                        /\ obj'[d].gen <= cr'[d].gen
                        /\ cache'[d].deleting \/ obj'[d].deleting =>
                             cr'[d].deleting
    BY DEF Views
  <2>2. CASE d = c
    BY <1>1, <2>2 DEF Views, Step
  <2>3. CASE d # c
    BY <1>1, <1>2, <2>3 DEF Views
  <2> QED BY <2>2, <2>3
<1>5. Counted'
  <2>1. \A k \in Events : left'[k] <= left[k] /\ left[k] <= budget[k]
    BY <1>1 DEF Counted, Step
  <2>2. /\ left \in [Events -> Nat] /\ budget \in [Events -> Nat]
        /\ left' \in [Events -> Nat]
    BY <1>1, Shapes DEF TypeOK, KubeTypeOK
  <2> QED BY <1>1, <2>1, <2>2 DEF Counted
<1>6. Minted'
  BY MintedStays DEF Step
<1>7. ASSUME NEW d \in Resources
      PROVE  Stage(d)' /\ Owns(d)'
  <2>1. CASE d = c
    BY <2>1 DEF Step
  <2>2. CASE d # c
    BY <1>1, <1>2, <2>2
       DEF IInv, Stage, Owns, OfOurs, Ours, Endpoint, Route
  <2> QED BY <2>1, <2>2
<1> QED BY <1>1, <1>3, <1>4, <1>5, <1>6, <1>7 DEF IInv

LEMMA AsideInvariant ==
  ASSUME IInv, Aside
  PROVE  IInv'
<1>1. /\ TypeOK /\ Alone /\ Counted /\ TypeOK'
      /\ setup' = setup /\ budget' = budget
  BY DEF IInv, Aside
<1>2. Alone'
  BY <1>1 DEF Alone, Aside
<1>3. Counted'
  <2>1. \A k \in Events : left'[k] <= left[k] /\ left[k] <= budget[k]
    BY <1>1 DEF Counted, Aside
  <2>2. /\ left \in [Events -> Nat] /\ budget \in [Events -> Nat]
        /\ left' \in [Events -> Nat]
    BY <1>1, Shapes DEF TypeOK, KubeTypeOK
  <2> QED BY <1>1, <2>1, <2>2 DEF Counted
<1>4. Minted'
  BY DEF IInv, Minted, Aside
<1>5. \A d \in Resources : Stage(d)'
  BY <1>1 DEF IInv, Stage, Aside, Endpoint, Route, NotFound
<1> QED BY <1>1, <1>2, <1>3, <1>4, <1>5 DEF IInv, Aside

LEMMA InitInvariant ==
  ASSUME Init
  PROVE  IInv
<1>1. /\ setup \in Setups /\ budget = setup.budget /\ left = budget
      /\ cr = [c \in Resources |-> Created(NoStatus)]
      /\ cache = cr /\ obj = cr
      /\ stale = {} /\ behind = {} /\ queued = Resources /\ timers = {}
      /\ pc = [c \in Resources |-> "idle"]
      /\ conn \in ConnStates
      /\ found = [c \in Resources |-> NotFound]
      /\ routings = {} /\ overrides = {}
  BY DEF Init, KubeInit
<1>2. /\ defs \in [Clusters -> [Ids -> [name: Names \cup {"none"},
                                        gen: 0 .. MaxGen]]]
      /\ minted \in 0 .. MaxId /\ Minted
  <2>1. CASE /\ setup.made = {} /\ minted = 0
             /\ defs = [t \in Clusters |-> [i \in Ids |-> Undefined]]
    BY <2>1, BoundTypes DEF Minted
  <2>2. ASSUME minted = 1, NEW m \in setup.made,
               defs = [t \in Clusters |-> [i \in Ids |->
                         IF t = m[1] /\ i = 1 THEN [name |-> m[2], gen |-> 1]
                                             ELSE Undefined]]
        PROVE  /\ defs \in [Clusters -> [Ids -> [name: Names \cup {"none"},
                                                gen: 0 .. MaxGen]]]
               /\ minted \in 0 .. MaxId /\ Minted
    <3>1. m[2] \in Names
      BY <1>1, <2>2, IntegrationsAssumption
    <3>2. /\ [name |-> m[2], gen |-> 1] \in [name: Names \cup {"none"},
                                          gen: 0 .. MaxGen]
          /\ minted \in 0 .. MaxId /\ Minted
      BY <2>2, <3>1, BoundTypes DEF Minted
    <3> QED BY <2>2, <3>2, BoundTypes
  <2> QED BY <2>1, <2>2 DEF Init
<1>3. TypeOK
  BY <1>1, <1>2, SetupShape, CreatedShape, BoundTypes DEF TypeOK, KubeTypeOK
<1>4. ASSUME NEW c \in Resources
      PROVE  /\ cr[c] = Created(NoStatus) /\ cache[c] = Created(NoStatus)
             /\ obj[c] = Created(NoStatus) /\ pc[c] = "idle"
             /\ found[c] = NotFound
  BY <1>1, <1>4
<1>5. Alone /\ \A c \in Resources : Stage(c) /\ Owns(c)
  BY <1>4, CreatedShape DEF Alone, Stage, Owns, OfOurs, NotFound
<1>6. Views
  <2>1. 1 <= 1
    OBVIOUS
  <2>2. ASSUME NEW c \in Resources
        PROVE  /\ cache[c] = cr[c] /\ pc[c] = "idle"
               /\ cr[c].gen = 1 /\ cache[c].gen = 1 /\ obj[c].gen = 1
               /\ ~cache[c].deleting /\ ~obj[c].deleting
    BY <1>4, CreatedShape
  <2> QED BY <2>1, <2>2, Zenon DEF Views
<1>7. Counted
  BY <1>1, SetupShape DEF Counted
<1> QED BY <1>2, <1>3, <1>5, <1>6, <1>7 DEF IInv

LEMMA NextSteps ==
  ASSUME IInv, [Next]_vars
  PROVE  (\E c \in Resources : Passes(c) /\ Step(c)) \/ Aside
BY NextKinds, PassIsStep, WishIsAside, DeliverIsAside, BeyondIsAside,
   CrashIsAside

LEMMA NextInvariant ==
  ASSUME IInv, [Next]_vars
  PROVE  IInv'
BY NextSteps, StepInvariant, AsideInvariant

LEMMA Invariance == Spec => []IInv
BY InitInvariant, NextInvariant, PTL DEF Spec

-----------------------------------------------------------------------------
(* Every variable keeps its type: a route never points to an id the server *)
(* has not given out, and a pass that adds or removes one holds an id.     *)
THEOREM TypeCorrect == Spec => []TypeOK
BY Invariance, PTL DEF IInv

-----------------------------------------------------------------------------
(* What leaves the server.                                                 *)

(* What has not happened after a step had not before it.                   *)
LEMMA UnspentBefore ==
  ASSUME IInv, IInv', budget' = budget, NEW k \in Events,
         \A e \in Events : left'[e] <= left[e], Unspent(k)'
  PROVE  Unspent(k) /\ left'[k] = left[k] /\ ~Spend(k)
<1>1. left[k] \in Nat /\ left'[k] \in Nat /\ budget[k] \in Nat
  BY DEF IInv, TypeOK, KubeTypeOK
<1>2. left'[k] = budget[k] /\ left'[k] <= left[k] /\ left[k] <= budget[k]
  BY DEF IInv, Unspent, Counted
<1>3. ASSUME Spend(k) PROVE left[k] > 0 /\ left'[k] = left[k] - 1
  BY <1>3, Shapes DEF IInv, Spend
<1> QED BY <1>1, <1>2, <1>3 DEF Unspent

LEMMA NextSetup ==
  ASSUME IInv, [Next]_vars
  PROVE  /\ IInv' /\ setup' = setup /\ budget' = budget
         /\ \A k \in Events : Unspent(k)' =>
              Unspent(k) /\ left'[k] = left[k] /\ ~Spend(k)
<1>1. /\ IInv' /\ setup' = setup /\ budget' = budget
      /\ \A k \in Events : left'[k] <= left[k]
  BY NextInvariant, NextSteps DEF Step, Aside
<1> QED BY <1>1, UnspentBefore

(* As long as no read has been stale, a pass works with the newest status, *)
(* and keeps its resource from going away before it is done.               *)
Timely(c) ==
  /\ pc[c] # "idle" => obj[c].status = cr[c].status
  /\ pc[c] # "idle" /\ obj[c].finalizer => cr[c].live /\ cr[c].finalizer
  /\ pc[c] \notin {"idle", "fetched"} => obj[c].finalizer
  /\ obj[c].deleting => obj[c].finalizer
  /\ cr[c].live /\ ~cr[c].finalizer => cr[c].status.id = 0
  /\ pc[c] \in {"refetch", "record"} => cr[c].status.id \in {0, found[c].id}

(* An id is forgotten, and a resource released, only when its definition   *)
(* is gone: no other worker makes one under that id in between.            *)
Gone(c) ==
  obj[c].status.id \in Ids => defs[Here(c)][obj[c].status.id] = Undefined

Spent(c) ==
  /\ pc[c] = "drifted" => Gone(c)
  /\ pc[c] = "release" /\ Unspent("other") => Gone(c)

OInv ==
  \A c \in Resources :
    Endpoint(c) => (Unspent("lag") => Timely(c)) /\ Spent(c)

-----------------------------------------------------------------------------
(* What each kind of step leaves of it.                                    *)
LEMMA OverTimely ==
  ASSUME IInv, NEW c \in Resources, Timely(c), Over(c)
  PROVE  Timely(c)'
<1>1. pc'[c] = "idle" /\ obj'[c] = Created(NoStatus)
  BY Shapes DEF IInv, Over, Return, Leave, Goto
<1>2. CASE cr'[c] = cr[c]
  BY <1>1, <1>2, CreatedShape DEF Timely
<1>3. ASSUME NEW new, NEW sure, Last(c, new), Write(c, new, sure),
             c \notin behind
      PROVE  cr'[c].live /\ ~cr'[c].finalizer => cr'[c].status.id = 0
  <2>1. cr'[c] = new /\ obj[c] = cr[c] /\ obj[c] \in Object(Status)
        /\ found[c].id \in 0 .. MaxId
    BY <1>3, Shapes DEF IInv, Write, Over, Views
  <2>2. CASE new = Synced(obj[c], found[c].id) /\ pc[c] = "record"
    BY <2>1, <2>2, SyncedVersion DEF Timely
  <2>3. CASE new \in {obj[c], Paused(obj[c]), NotReady(obj[c])}
    BY <2>1, <2>3, Versions DEF Timely
  <2>4. CASE new \in {Guarded(obj[c]), Released(obj[c])}
    BY <2>1, <2>4, Versions
  <2> QED BY <1>3, <2>2, <2>3, <2>4 DEF Last
<1>4. CASE \E new, sure : Last(c, new) /\ Write(c, new, sure)
           /\ c \notin behind
  BY <1>1, <1>3, <1>4, CreatedShape DEF Timely
<1> QED BY <1>2, <1>4 DEF Over, Write

LEMMA OnTimely ==
  ASSUME IInv, NEW c \in Resources, Endpoint(c), Timely(c), ~Spend("lag"),
         ReadOn(c) \/ ForgetOn(c) \/ \E l : CallOn(c, l)
  PROVE  Timely(c)'
<1>1. TypeOK /\ Views /\ Stage(c)
  BY DEF IInv
<1>2. CASE ReadOn(c)
  <2>1. /\ c \notin stale /\ cache[c] = cr[c] /\ obj'[c] = cr[c]
        /\ cr'[c] = cr[c] /\ found'[c] = found[c]
    BY <1>1, <1>2, Shapes DEF ReadOn, ReadCache, Views
  <2>2. \/ /\ pc[c] = "idle" /\ pc'[c] = "fetched"
           /\ cache[c].live /\ (cache[c].deleting => cache[c].finalizer)
        \/ pc[c] = "refetch" /\ pc'[c] = "record"
    BY <1>1, <1>2, Shapes DEF ReadOn
  <2> QED BY <2>1, <2>2 DEF Timely
<1>3. CASE ForgetOn(c)
  <2>1. /\ obj[c] = cr[c] /\ obj[c] \in Object(Status)
        /\ pc[c] = "drifted" /\ pc'[c] = "sync"
        /\ cr'[c] = Forgotten(obj[c]) /\ obj'[c] = Forgotten(obj[c])
    BY <1>1, <1>3, Shapes DEF ForgetOn, Write, Views
  <2>2. /\ Forgotten(obj[c]).live = obj[c].live
        /\ Forgotten(obj[c]).finalizer = obj[c].finalizer
        /\ Forgotten(obj[c]).status.id = 0
    BY <2>1, Versions
  <2> QED BY <2>1, <2>2 DEF Timely
<1>4. ASSUME NEW l, CallOn(c, l)
      PROVE  Timely(c)'
  <2>1. /\ cr'[c] = cr[c] /\ obj'[c] = obj[c] /\ pc'[c] = l
        /\ Moves(c, l) /\ pc[c] # "idle"
    BY <1>1, <1>4, Shapes DEF CallOn
  <2>2. obj[c].finalizer
    BY <1>1, <2>1
       DEF Timely, Moves, Syncing, Deleting, Calling, Resolving, Starting
  <2>3. l \in {"refetch", "record"} => cr[c].status.id \in {0, found'[c].id}
    <3>1. l = "refetch" =>
            /\ StoreDefinition(c)
            /\ found' = [found EXCEPT ![c] = Knowing(c, DefId(obj[c]), FALSE)]
      BY <1>1, <2>1 DEF Moves, Stage, Route, Endpoint
    <3>2. l = "refetch" => found'[c].id = DefId(obj[c])
      BY <1>1, <3>1, Shapes DEF Knowing
    <3>3. l # "record"
      BY <2>1 DEF Moves
    <3> QED BY <2>1, <3>2, <3>3 DEF DefId, Timely
  <2> QED BY <2>1, <2>2, <2>3 DEF Timely
<1> QED BY <1>2, <1>3, <1>4

(* As long as neither the copy in hand nor the definitions change, what is *)
(* gone stays gone.                                                        *)
LEMMA GoneStays ==
  ASSUME NEW c \in Resources, UNCHANGED <<setup, defs>>, obj'[c] = obj[c]
  PROVE  Gone(c)' <=> Gone(c)
BY DEF Gone, Here, At, Want

(* The definitions change by the calls of an endpoint only.                *)
LEMMA DefsKept ==
  ASSUME IInv, NEW c \in Resources, Serves(c), Route(c)
  PROVE  defs' = defs
BY DEF Serves, server, Route, Endpoint

LEMMA PassSpent ==
  ASSUME IInv, NEW c \in Resources, Endpoint(c), Spent(c), Passes(c),
         Unspent("other")' => ~Spend("other")
  PROVE  Spent(c)'
<1>1. TypeOK /\ Stage(c)
  BY DEF IInv
<1>2. CASE Over(c) \/ ReadOn(c) \/ ForgetOn(c)
  <2>1. pc'[c] \in {"idle", "fetched", "record", "sync"}
    BY <1>1, <1>2, Shapes DEF Over, Return, Leave, Goto, ReadOn, ForgetOn
  <2> QED BY <2>1 DEF Spent
<1>3. ASSUME NEW l, CallOn(c, l)
      PROVE  Spent(c)'
  <2>1. /\ obj'[c] = obj[c] /\ pc'[c] = l /\ Moves(c, l) /\ setup' = setup
    BY <1>1, <1>3, Shapes DEF CallOn
  <2>2. CASE l = "drifted"
    <3>1. Gone(c) /\ defs' = defs
      BY <2>1, <2>2 DEF Moves, server, Gone
    <3> QED BY <2>1, <2>2, <3>1, GoneStays DEF Spent
  <2>3. CASE l = "release" /\ Unspent("other")'
    <3>1. ~Removes(obj[c]) \/ DropDefinition(Here(c), obj[c].status.id)
      BY <1>1, <2>1, <2>3 DEF Moves, Stage, Route, Endpoint
    <3>2. CASE ~Removes(obj[c])
      BY <2>1, <2>3, <3>2 DEF Removes, Spent, Gone, Ids
    <3>3. CASE DropDefinition(Here(c), obj[c].status.id)
      <4>1. Here(c)' = Here(c) /\ Here(c) \in Clusters
        BY <1>1, <2>1, Figures DEF Here, At, Want
      <4>2. obj[c].status.id \in Ids =>
              defs'[Here(c)][obj[c].status.id] = Undefined
        BY <1>1, <3>3, <4>1 DEF DropDefinition, TypeOK
      <4>3. Gone(c)'
        BY <2>1, <4>1, <4>2 DEF Gone
      <4> QED BY <2>1, <2>3, <4>3 DEF Spent
    <3> QED BY <3>1, <3>2, <3>3
  <2> QED BY <2>1, <2>2, <2>3 DEF Spent
<1> QED BY <1>2, <1>3 DEF Passes

LEMMA OtherPass ==
  ASSUME IInv, NEW c \in Resources, NEW d \in Resources, c # d, Endpoint(d),
         Step(c), Unspent("other")' => Unspent("other")
  PROVE  (Timely(d) => Timely(d)') /\ (Spent(d) => Spent(d)')
<1>1. /\ cr'[d] = cr[d] /\ obj'[d] = obj[d] /\ pc'[d] = pc[d]
      /\ found'[d] = found[d] /\ setup' = setup
  BY DEF Step
<1>2. pc[d] # "idle" => defs' = defs
  <2>1. CASE Route(c)
    BY <2>1, DefsKept DEF Step
  <2>2. ASSUME Endpoint(c), pc[d] # "idle" PROVE FALSE
    <3>1. pc[c] = "idle"
      BY <2>2 DEF IInv, Alone, Endpoint
    <3> QED BY <2>2, <3>1 DEF Step, Peers, Endpoint
  <2>3. Route(c) \/ Endpoint(c)
    BY SetupShape DEF IInv, TypeOK, Route, Endpoint
  <2> QED BY <2>1, <2>2, <2>3
<1> QED BY <1>1, <1>2, GoneStays DEF Timely, Spent

(* A DELETE makes no definition, nor does the console.                     *)
LEMMA DropMakesNone ==
  ASSUME TypeOK, NEW u \in Clusters, NEW j \in 0 .. MaxId,
         DropDefinition(u, j), NEW t \in Clusters, NEW i \in Ids,
         defs[t][i] = Undefined
  PROVE  defs'[t][i] = Undefined
<1>1. defs \in [Clusters -> [Ids -> [name: Names \cup {"none"},
                                    gen: 0 .. MaxGen]]]
  BY DEF TypeOK
<1>2. defs' = [defs EXCEPT ![u] = [defs[u] EXCEPT ![j] = Undefined]]
  BY DEF DropDefinition
<1>3. [defs[u] EXCEPT ![j] = Undefined][i] \in {Undefined, defs[u][i]}
  BY <1>1
<1> QED BY <1>1, <1>2, <1>3

LEMMA BeyondDrops ==
  ASSUME TypeOK, Beyond, NEW t \in Clusters, NEW i \in Ids,
         defs[t][i] = Undefined
  PROVE  defs'[t][i] = Undefined
<1>1. CASE defs' = defs
  BY <1>1
<1>2. ASSUME NEW u \in Clusters, NEW j \in Ids, DropDefinition(u, j)
      PROVE  defs'[t][i] = Undefined
  BY <1>2, DropMakesNone DEF Ids
<1> QED BY <1>1, <1>2 DEF Beyond

LEMMA WishOrphans ==
  ASSUME IInv, NEW c \in Resources, Wishes(c), NEW d \in Resources,
         Unspent("other")' => Unspent("other")
  PROVE  (Timely(d) => Timely(d)') /\ (Spent(d) => Spent(d)')
<1>1. PICK new \in Object(Status) :
        /\ Overwrite(c, new)
        /\ new.status = cr[c].status /\ new.finalizer = cr[c].finalizer
        /\ ~new.live => ~cr[c].finalizer
  BY DEF Wishes
<1>2. /\ cr' = [cr EXCEPT ![c] = new] /\ UNCHANGED <<obj, pc, found, defs>>
      /\ cr[c].live
      /\ Gone(d)' <=> Gone(d)
  BY <1>1, GoneStays DEF Overwrite, Wishes, server
<1>3. CASE d = c
  <2>1. cr'[d] = new
    BY <1>2, <1>3, Shapes DEF IInv
  <2> QED BY <1>1, <1>2, <1>3, <2>1 DEF Timely, Spent
<1>4. CASE d # c
  <2>1. cr'[d] = cr[d]
    BY <1>2, <1>4, Shapes DEF IInv
  <2> QED BY <1>2, <2>1 DEF Timely, Spent
<1> QED BY <1>3, <1>4

LEMMA NextOrphans == IInv /\ OInv /\ [Next]_vars => OInv'
<1> SUFFICES ASSUME IInv, OInv, [Next]_vars, NEW d \in Resources, Endpoint(d)'
             PROVE  (Unspent("lag")' => Timely(d)') /\ Spent(d)'
  BY DEF OInv
<1>1. /\ TypeOK /\ Endpoint(d)
      /\ Unspent("lag")' => Unspent("lag") /\ ~Spend("lag")
      /\ Unspent("other")' => Unspent("other") /\ ~Spend("other")
  BY NextSetup DEF Endpoint, Events, IInv
<1>2. (Unspent("lag") => Timely(d)) /\ Spent(d)
  BY <1>1 DEF OInv
<1>3. ASSUME NEW c \in Resources, Passes(c)
      PROVE  (Unspent("lag")' => Timely(d)') /\ Spent(d)'
  <2>1. CASE c = d
    BY <1>1, <1>2, <1>3, <2>1, OverTimely, OnTimely, PassSpent DEF Passes
  <2>2. CASE c # d
    BY <1>1, <1>2, <1>3, <2>2, PassIsStep, OtherPass
  <2> QED BY <2>1, <2>2
<1>4. ASSUME NEW c \in Resources, Wishes(c)
      PROVE  (Unspent("lag")' => Timely(d)') /\ Spent(d)'
  BY <1>1, <1>2, <1>4, WishOrphans
<1>5. ASSUME NEW c \in Resources, Delivers(c)
      PROVE  (Unspent("lag")' => Timely(d)') /\ Spent(d)'
  <2>1. UNCHANGED <<cr, obj, pc, found, defs>>
    BY <1>5 DEF Delivers, WatchDelivers, copies, server
  <2>2. Gone(d)' <=> Gone(d)
    BY <1>5, <2>1, GoneStays DEF Delivers
  <2> QED BY <1>1, <1>2, <2>1, <2>2 DEF Timely, Spent
<1>6. CASE Beyond
  <2>1. UNCHANGED <<cr, obj, pc, found>> /\ Here(d)' = Here(d)
    BY <1>6 DEF Beyond, copies, Here, At, Want
  <2>2. \A t \in Clusters, i \in Ids :
          defs[t][i] = Undefined => defs'[t][i] = Undefined
    BY <1>1, <1>6, BeyondDrops
  <2>3. Gone(d) => Gone(d)'
    BY <1>1, <2>1, <2>2, Figures DEF Gone
  <2> QED BY <1>1, <1>2, <2>1, <2>3 DEF Timely, Spent
<1>7. CASE Crash
  <2>1. /\ cr' = cr /\ pc'[d] = "idle" /\ obj'[d] = Created(NoStatus)
    BY <1>7 DEF Crash, Restart
  <2> QED BY <1>1, <1>2, <2>1, CreatedShape DEF Timely, Spent
<1> QED BY <1>3, <1>4, <1>5, <1>6, <1>7, NextKinds

LEMMA InitOrphans == Init => OInv
<1> SUFFICES ASSUME Init, NEW c \in Resources PROVE Timely(c) /\ Spent(c)
  BY DEF OInv
<1>1. /\ pc[c] = "idle" /\ obj[c] = Created(NoStatus)
      /\ cr[c] = Created(NoStatus)
  BY DEF Init, KubeInit
<1> QED BY <1>1, CreatedShape DEF Timely, Spent

LEMMA Steady == Spec => [](IInv /\ OInv)
BY InitOrphans, NextOrphans, Invariance, PTL DEF Spec

-----------------------------------------------------------------------------
(* What a step removes has an owner.                                       *)
Rightful ==
  /\ \A t \in Clusters, i \in Ids : defs[t][i] # Undefined =>
       IF defs'[t][i] = Undefined
         THEN \E c \in Resources :
                /\ Endpoint(c) /\ cr[c].deleting /\ AskedAt(c, t)
                /\ \/ cr[c].status.id = i
                   \/ obj[c].status.id = i /\ ~Unspent("lag")
         ELSE Ours(i) \/ defs'[t][i] = defs[t][i]
  /\ \A r \in routings \ routings' :
       \/ defs'[r[1]][r[3]] = Undefined
       \/ \E c \in Resources :
            /\ Route(c) /\ cr[c].deleting
            /\ \E g \in 1 .. cr[c].gen :
                 /\ setup.spec[c][g].place = r[1]
                 /\ setup.spec[c][g].slot = r[2]

(* A pass works with a generation there has been.                          *)
LEMMA AskedHere ==
  ASSUME IInv, NEW c \in Resources
  PROVE  obj[c].gen \in 1 .. cr[c].gen /\ AskedAt(c, Here(c))
<1>1. obj[c].gen \in 1 .. MaxGen /\ cr[c].gen \in Nat
  BY Shapes, Figures DEF IInv, Object
<1>2. obj[c].gen \in 1 .. cr[c].gen
  BY <1>1 DEF IInv, Views
<1> QED BY <1>2 DEF AskedAt, Here, At, Want

LEMMA StoreRightful ==
  ASSUME IInv, NEW c \in Resources, Endpoint(c), StoreDefinition(c)
  PROVE  Rightful
<1>1. TypeOK /\ Owns(c) /\ Minted /\ minted \in Nat /\ Here(c) \in Clusters
  BY Shapes, Figures DEF IInv
<1>2. /\ defs' = [defs EXCEPT ![Here(c)][DefId(obj[c])] =
                    [name |-> Wanted(c).name, gen |-> obj[c].gen]]
      /\ routings' = routings
  BY DEF StoreDefinition
<1>3. obj[c].gen # 0
  BY <1>1, Shapes DEF Object
<1>4. [name |-> Wanted(c).name, gen |-> obj[c].gen] # Undefined
  <2>1. [name |-> Wanted(c).name, gen |-> obj[c].gen].gen # Undefined.gen
    BY <1>3 DEF Undefined
  <2> QED BY <2>1
<1>5. DefId(obj[c]) \in Ids /\ Ours(DefId(obj[c]))
  BY <1>1, DefIdShape DEF Owns, OfOurs, Ours, Minted, Ids
<1>6. ASSUME NEW t \in Clusters, NEW i \in Ids, defs[t][i] # Undefined
      PROVE  /\ defs'[t][i] # Undefined
             /\ Ours(i) \/ defs'[t][i] = defs[t][i]
  BY <1>1, <1>2, <1>4, <1>5, <1>6 DEF TypeOK
<1> QED BY <1>2, <1>6 DEF Rightful

LEMMA DropRightful ==
  ASSUME IInv, OInv, NEW c \in Resources, Endpoint(c), Deleting(c),
         Removes(obj[c]), DropDefinition(Here(c), obj[c].status.id)
  PROVE  Rightful
<1>1. /\ TypeOK /\ obj[c].status.id \in Ids /\ cr[c].deleting
      /\ Here(c) \in Clusters
  BY Figures DEF IInv, Removes, Views, Deleting
<1>2. Unspent("lag") => obj[c].status = cr[c].status
  BY DEF OInv, Timely, Deleting
<1>3. /\ defs'[Here(c)][obj[c].status.id] = Undefined
      /\ \A t \in Clusters, i \in Ids :
           ~(t = Here(c) /\ i = obj[c].status.id) => defs'[t][i] = defs[t][i]
      /\ \A r \in routings \ routings' :
           r[1] = Here(c) /\ r[3] = obj[c].status.id
  BY <1>1 DEF DropDefinition, TypeOK
<1> QED BY <1>1, <1>2, <1>3, AskedHere DEF Rightful

LEMMA RemoveRightful ==
  ASSUME IInv, NEW c \in Resources, pc[c] = "remove", defs' = defs,
         routings' = Removed(c)
  PROVE  Rightful
<1>1. Route(c) /\ cr[c].deleting
  BY DEF IInv, Stage, Views
<1>2. \A r \in routings \ routings' :
        r[1] = Here(c) /\ r[2] = Wanted(c).slot
  BY DEF Removed
<1> QED BY <1>1, <1>2, AskedHere DEF Rightful, Wanted, Want, Here, At

LEMMA RightfulStep ==
  ASSUME IInv, OInv, [Next]_vars, left'["external"] = left["external"]
  PROVE  Rightful
<1>1. CASE UNCHANGED <<defs, routings>>
  BY <1>1 DEF Rightful
<1>2. ASSUME NEW c \in Resources, Passes(c)
      PROVE  Rightful
  <2>1. Serves(c)
    BY <1>2, PassIsStep DEF Step
  <2>2. CASE pc[c] = "add" /\ defs' = defs /\ routings' = Added(c)
    BY <2>2 DEF Rightful, Added
  <2> QED BY <1>1, <2>1, <2>2, StoreRightful, DropRightful, RemoveRightful
          DEF Serves, server
<1>3. ASSUME NEW c \in Resources, Wishes(c) \/ Delivers(c)
      PROVE  Rightful
  BY <1>1, <1>3 DEF Wishes, Delivers, server
<1>4. CASE Crash
  BY <1>1, <1>4 DEF Crash, server
<1>5. CASE Beyond
  <2>1. ~Spend("external")
    <3>1. left["external"] \in Nat /\ left \in [Events -> Nat]
      BY Shapes DEF IInv, Events
    <3> QED BY <3>1 DEF Spend, Events
  <2> QED BY <1>1, <1>5, <2>1 DEF Beyond
<1> QED BY <1>2, <1>3, <1>4, <1>5, NextKinds

(* Nothing leaves the server but by hand or with its owner, and what the   *)
(* operator did not make stays as it is: whatever ids are reused, names    *)
(* looked up twice, or copies read late.                                   *)
THEOREM OnlyOwnersRemove == Spec => LeavesByOwner
<1>1. IInv /\ OInv /\ [Next]_vars =>
        [left'["external"] # left["external"] \/ Rightful]_vars
  BY RightfulStep
<1> QED BY <1>1, Steady, PTL DEF Spec, LeavesByOwner, Rightful

-----------------------------------------------------------------------------
(* When a definition loses its last copy of the id.                        *)

(* Definition i of cluster t is known to c.                                *)
KnownBy(c, t, i) ==
  \/ cr[c].live /\ cr[c].status.id = i /\ t = At(cr[c], c)
  \/ found[c].id = i /\ t = At(found[c], c)

LEMMA TrackedStays ==
  ASSUME IInv, OInv, NEW c \in Resources, Endpoint(c), Passes(c),
         Unspent("lag"), Unspent("other"), ~RecordsLate(c),
         NEW t \in Clusters, NEW i \in Ids, defs'[t][i] # Undefined,
         KnownBy(c, t, i)
  PROVE  KnownBy(c, t, i)'
<1>1. /\ TypeOK /\ Views /\ Stage(c) /\ Timely(c) /\ Spent(c) /\ i # 0
      /\ obj[c] \in Object(Status) /\ found[c].id \in 0 .. MaxId
  BY Shapes DEF IInv, OInv, Ids
<1>2. At(cr[c], c)' = At(cr[c], c) /\ setup' = setup
  BY PassIsStep DEF Step, At, Want
<1>3. CASE Over(c)
  <2>1. CASE pc[c] = "record"
    <3>1. cr'[c] = Synced(obj[c], found[c].id) /\ obj[c] = cr[c]
      BY <1>1, <1>3, <2>1, Shapes DEF Over, Write, Views, RecordsLate
    <3>2. cr[c].live /\ found[c].id = i /\ t = At(cr[c], c)
      BY <1>1, <2>1 DEF Timely, KnownBy, RecordsLate
    <3>3. cr'[c].live /\ cr'[c].status.id = i
      BY <1>1, <3>1, <3>2, SyncedVersion
    <3> QED BY <1>2, <3>2, <3>3 DEF KnownBy
  <2>2. CASE pc[c] # "record"
    <3>1. cr[c].live /\ cr[c].status.id = i /\ t = At(cr[c], c)
      BY <1>1, <1>3, <2>2 DEF Over, Stage, KnownBy
    <3>2. SUFFICES cr'[c].live /\ cr'[c].status.id = i
      BY <1>2, <3>1 DEF KnownBy
    <3>3. CASE cr' = cr
      BY <3>1, <3>3
    <3>4. ASSUME NEW new, NEW sure, Last(c, new), Write(c, new, sure),
                 c \notin behind
          PROVE  cr'[c].live /\ cr'[c].status.id = i
      <4>1. cr'[c] = new /\ obj[c] = cr[c]
        BY <1>1, <1>3, <3>4, Shapes DEF Over, Write, Views
      <4>2. CASE new \in {obj[c], Paused(obj[c]), NotReady(obj[c]),
                          Guarded(obj[c])}
        BY <1>1, <3>1, <4>1, <4>2, Versions
      <4>3. CASE pc[c] = "release"
        <5>1. defs[t][i] = Undefined
          BY <1>1, <3>1, <4>1, <4>3 DEF Spent, Gone, Here
        <5>2. defs' = defs
          BY <1>3, <4>3 DEF Over, Serves, server, Calling, Resolving,
                            Starting, Syncing, Deleting
        <5> QED BY <5>1, <5>2
      <4> QED BY <2>2, <3>4, <4>2, <4>3 DEF Last
    <3> QED BY <1>3, <3>3, <3>4 DEF Over, Write
  <2> QED BY <2>1, <2>2
<1>4. CASE ReadOn(c)
  BY <1>2, <1>4 DEF ReadOn, KnownBy, At, Want
<1>5. CASE ForgetOn(c)
  <2>1. /\ cr[c].status.id = i /\ obj[c] = cr[c] /\ defs' = defs
        /\ t = At(cr[c], c)
    BY <1>1, <1>5 DEF ForgetOn, Stage, Views, server, KnownBy
  <2> QED BY <1>1, <1>5, <2>1 DEF ForgetOn, Spent, Gone, Here
<1>6. ASSUME NEW l, CallOn(c, l)
      PROVE  KnownBy(c, t, i)'
  <2>1. pc[c] \notin {"refetch", "record"}
    BY <1>6 DEF CallOn, Moves, Syncing, Deleting, Calling, Resolving, Starting
  <2>2. cr' = cr /\ cr[c].live /\ cr[c].status.id = i /\ t = At(cr[c], c)
    BY <1>1, <1>6, <2>1 DEF CallOn, Stage, KnownBy
  <2> QED BY <1>2, <2>2 DEF KnownBy
<1> QED BY <1>3, <1>4, <1>5, <1>6 DEF Passes

LEMMA MadeIsTracked ==
  ASSUME IInv, NEW c \in Resources, Passes(c),
         ~\E k \in {"server", "other"} : Spend(k),
         NEW t \in Clusters, NEW i \in Ids, defs[t][i] = Undefined,
         defs'[t][i] # Undefined
  PROVE  Endpoint(c) /\ KnownBy(c, t, i)'
<1>1. TypeOK /\ Serves(c) /\ setup' = setup /\ Here(c) \in Clusters
  BY PassIsStep, Figures DEF IInv, Step
<1>2. PICK l : CallOn(c, l)
  BY DEF Passes, Over, ReadOn, ForgetOn, server
<1>3. ~DropDefinition(Here(c), obj[c].status.id)
  <2>1. obj[c].status.id \in 0 .. MaxId
    BY <1>1, Shapes DEF Object, Status
  <2> QED BY <1>1, <2>1, DropMakesNone
<1>4. /\ Calling(c) /\ Endpoint(c) /\ StoreDefinition(c)
  BY <1>1, <1>3 DEF Serves, server
<1>5. t = Here(c) /\ i = DefId(obj[c])
  BY <1>1, <1>4 DEF StoreDefinition, TypeOK
<1>6. found' = [found EXCEPT ![c] = Knowing(c, DefId(obj[c]), FALSE)]
  BY <1>2, <1>4 DEF CallOn, Moves, server, Calling, Resolving, Starting,
                    Syncing, Deleting, Route, Endpoint
<1>7. found'[c].id = i /\ found'[c].gen = obj[c].gen
  BY <1>1, <1>5, <1>6, Shapes DEF Knowing
<1>8. At(found[c], c)' = t
  BY <1>1, <1>5, <1>7 DEF At, Want, Here
<1> QED BY <1>4, <1>7, <1>8 DEF KnownBy

LEMMA OrphanStep ==
  ASSUME IInv, OInv, [Next]_vars, Unspent("lag")', Unspent("other")',
         NEW t \in Clusters, NEW i \in Ids, defs'[t][i] # Undefined,
         ~Tracked(t, i)',
         \A k \in {"server", "crash"} : left'[k] = left[k],
         \A c \in Resources : Endpoint(c) =>
           At(cr[c], c)' = At(cr[c], c) /\ ~RecordsLate(c)
  PROVE  defs[t][i] # Undefined /\ ~Tracked(t, i)
<1>1. /\ TypeOK /\ setup' = setup /\ Unspent("lag") /\ Unspent("other")
      /\ ~Spend("other")
  BY NextSetup DEF IInv, Events
<1>2. ~Spend("server") /\ ~Spend("crash")
  <2>1. left \in [Events -> Nat] /\ "server" \in Events /\ "crash" \in Events
    BY <1>1, Shapes DEF Events
  <2> QED BY <2>1 DEF Spend
<1>3. \A c \in Resources : Endpoint(c) => ~KnownBy(c, t, i)'
  BY <1>1 DEF Tracked, KnownBy, Endpoint
<1>4. SUFFICES ASSUME defs[t][i] = Undefined \/ Tracked(t, i) PROVE FALSE
  OBVIOUS
<1>5. ASSUME defs[t][i] = Undefined PROVE FALSE
  <2>1. ASSUME NEW c \in Resources, Passes(c) PROVE FALSE
    BY <1>1, <1>2, <1>3, <1>5, <2>1, MadeIsTracked
  <2>2. CASE Beyond
    BY <1>1, <1>5, <2>2, BeyondDrops
  <2>3. CASE Crash \/ \E c \in Resources : Wishes(c) \/ Delivers(c)
    BY <1>5, <2>3 DEF Crash, Wishes, Delivers, server
  <2> QED BY <2>1, <2>2, <2>3, NextKinds
<1>6. ASSUME NEW d \in Resources, Endpoint(d), KnownBy(d, t, i)
      PROVE  FALSE
  <2>1. /\ i # 0 /\ Timely(d) /\ At(cr[d], d)' = At(cr[d], d)
        /\ ~KnownBy(d, t, i)'
    BY <1>1, <1>3, <1>6 DEF OInv, Ids
  <2>2. ASSUME NEW c \in Resources, Passes(c) PROVE FALSE
    <3>1. CASE c = d
      BY <1>1, <1>6, <2>1, <2>2, <3>1, TrackedStays
    <3>2. CASE c # d
      <4>1. cr'[d] = cr[d] /\ found'[d] = found[d]
        BY <2>2, <3>2, PassIsStep DEF Step
      <4> QED BY <1>1, <1>6, <2>1, <4>1 DEF KnownBy, At, Want
    <3> QED BY <3>1, <3>2
  <2>3. ASSUME NEW c \in Resources, Wishes(c) PROVE FALSE
    <3>1. PICK new \in Object(Status) :
            /\ Overwrite(c, new)
            /\ new.status = cr[c].status
            /\ ~new.live => ~cr[c].finalizer
      BY <2>3 DEF Wishes
    <3>2. /\ cr' = [cr EXCEPT ![c] = new] /\ found' = found /\ cr[c].live
      BY <2>3, <3>1 DEF Overwrite, Wishes
    <3>3. At(found[d], d)' = At(found[d], d)
      BY <1>1, <3>2 DEF At, Want
    <3>4. CASE c = d
      <4>1. cr'[d] = new
        BY <1>1, <3>2, <3>4, Shapes
      <4>2. cr[d].status.id = i => new.live
        BY <2>1, <3>1, <3>2, <3>4 DEF Timely
      <4> QED BY <1>6, <2>1, <3>1, <3>2, <3>3, <4>1, <4>2 DEF KnownBy
    <3>5. CASE c # d
      <4>1. cr'[d] = cr[d]
        BY <1>1, <3>2, <3>5, Shapes
      <4> QED BY <1>6, <2>1, <3>2, <3>3, <4>1 DEF KnownBy
    <3> QED BY <3>4, <3>5
  <2>4. CASE Beyond \/ \E c \in Resources : Delivers(c)
    <3>1. cr' = cr /\ found' = found
      BY <2>4 DEF Beyond, Delivers, WatchDelivers
    <3> QED BY <1>1, <1>6, <2>1, <3>1 DEF KnownBy, At, Want
  <2>5. ~Crash
    BY <1>2 DEF Crash, Restart
  <2> QED BY <2>2, <2>3, <2>4, <2>5, NextKinds
<1> QED BY <1>4, <1>5, <1>6 DEF Tracked, KnownBy

(* As long as every read is fresh and every call answered, a definition    *)
(* loses the last copy of its id only by a lost answer, a crash, a lost    *)
(* status update, or an edit that names another cluster: neither any other *)
(* edit, nor drift handling, which forgets ids, nor the release of a       *)
(* resource lets one go.                                                   *)
THEOREM OrphansNeedLoss == Spec => OrphansOnlyByLoss
<1>1. IInv /\ OInv /\ [Next]_vars =>
        [Unspent("lag")' /\ Unspent("other")' =>
           \A t \in Clusters, i \in Ids :
             Ours(i) /\ defs'[t][i] # Undefined /\ ~Tracked(t, i)' =>
               \/ defs[t][i] # Undefined /\ ~Tracked(t, i)
               \/ \E k \in {"server", "crash"} : left'[k] # left[k]
               \/ \E c \in Resources :
                    /\ Endpoint(c)
                    /\ At(cr[c], c)' # At(cr[c], c) \/ RecordsLate(c)]_vars
  BY OrphanStep
<1> QED BY <1>1, Steady, PTL DEF Spec, OrphansOnlyByLoss
=============================================================================
