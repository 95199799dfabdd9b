--------------------------- MODULE RecreateProofs ---------------------------
(***************************************************************************)
(* Theorems of Recreate, for every value of its constants that the         *)
(* assumptions allow.                                                      *)
(*                                                                         *)
(* Views, Guard and Pushed are what they are in MetricAlertProofs: how old *)
(* the copies are, who holds the finalizer, in which order generations are *)
(* read, pushed and recorded.  Owned says what becomes of the id in the    *)
(* status: it is read, its object removed, and only then replaced.         *)
(***************************************************************************)
EXTENDS Recreate, TLAPS

Sync == {"drift", "replace", "create", "lookup", "refetch", "record"}

(* How old the copies are.                                                 *)
Views ==
  /\ cacheFresh => cache = cr
  /\ objFresh => obj = cr
  /\ pc = "idle" => ~objFresh
  /\ cr.live => cache.live
  /\ cache.deleting => cr.deleting
  /\ pc # "idle" => obj.live /\ (obj.deleting => cache.deleting)

(* The finalizer keeps the resource while somebody relies on it.           *)
Guard ==
  /\ cr.finalizer => cr.live
  /\ cr.live /\ cr.deleting => cr.finalizer
  /\ cache.finalizer /\ ~cache.deleting => cr.finalizer
  /\ pc # "idle" /\ obj.finalizer /\ ~obj.deleting => cr.finalizer
  /\ pc = "release" => obj.deleting
  /\ pc \in Sync => cr.finalizer

(* A recorded object is at least as new as the record.                     *)
Backed ==
  /\ flavour # "repair"
  /\ "Ready" \in cr.status.conds /\ "Failed" \notin cr.status.conds
  /\ cr.status.id # 0 /\ cr.status.obsGen # 0
  => LET r == objects[place[cr.status.obsGen]][cr.status.id]
     IN  r = 0 \/ cr.status.obsGen <= r

(* Generations are read, pushed and recorded in this order.                *)
Pushed ==
  /\ \A t \in Clusters, i \in Ids : objects[t][i] <= cr.gen
  /\ cache.gen <= cr.gen
  /\ pc # "idle" => obj.gen <= cache.gen
  /\ cr.status.obsGen <= cache.gen
  /\ syncGen <= cache.gen
  /\ pc \in {"fetched", "drift", "replace", "create"} =>
       cr.status.obsGen <= obj.gen
  /\ pc = "lookup" => flavour = "repair"
  /\ pc \in {"lookup", "refetch", "record"} => syncGen # 0
  /\ flavour # "repair" /\ pc \in {"refetch", "record"} /\ newId # 0 =>
       LET r == objects[place[syncGen]][newId] IN r = 0 \/ syncGen <= r
  /\ Backed

(* The object named by the status is gone from the cluster of the pass     *)
(* before it is forgotten.                                                 *)
Removed ==
  flavour # "repair" /\ Unspent("lag") /\ Unspent("other") =>
    /\ pc \in {"create", "release"} =>
         cr.status.id = 0 \/ objects[At(obj)][cr.status.id] = 0
    /\ pc \in {"refetch", "record"} =>
         \/ cr.status.id \in {0, newId}
         \/ objects[place[syncGen]][cr.status.id] = 0

(* Who knows which id.                                                     *)
Owned ==
  /\ \A k \in Disturbances : left[k] <= setup.budget[k]
  /\ cr.live /\ cr.status.id # 0 => cr.finalizer
  /\ newId # 0 => pc \in {"refetch", "record"}
  /\ pc # "idle" /\ Unspent("lag") => obj.status.id = cr.status.id
  /\ Removed

IInv == TypeOK /\ Views /\ Guard /\ Pushed /\ Owned
-----------------------------------------------------------------------------
(* What the updates the reconciler and the users make leave of a resource. *)

(* The bounds are natural numbers.                                         *)
LEMMA BoundTypes == MaxGen \in Nat \ {0} /\ MaxId \in Nat
  BY BoundsAssumption, RecreateAssumption

(* A new resource is well-formed.                                          *)
LEMMA CreatedType == Created(NoStatus) \in Object(Status)
  BY BoundTypes DEF Created, NoStatus, Object, Status

(* o and new differ in their conditions and obsGen at most, and new is not *)
(* Ready without Failed for another generation than o was.                 *)
Report(o, new) ==
  /\ new \in Object(Status)
  /\ new.live = o.live /\ new.gen = o.gen
  /\ new.finalizer = o.finalizer /\ new.deleting = o.deleting
  /\ new.status.id = o.status.id
  /\ new.status.obsGen \in {o.status.obsGen, o.gen}
  /\ "Ready" \in new.status.conds /\ "Failed" \notin new.status.conds =>
       /\ "Ready" \in o.status.conds /\ "Failed" \notin o.status.conds
       /\ new.status.obsGen = o.status.obsGen

(* Failures, a pause and a failed drift check are reports.                 *)
LEMMA Reports ==
  ASSUME NEW o \in Object(Status)
  PROVE  Report(o, o) /\ Report(o, Paused(o)) /\ Report(o, Failing(o))
<1>1. Report(o, o)
  BY DEF Report
<1>2. Report(o, Paused(o))
  BY DEF Report, Paused, Object, Status
<1>3. Report(o, Failing(o))
  BY BoundTypes DEF Report, Failing, Object, Status
<1> QED BY <1>1, <1>2, <1>3

(* Drift handling forgets the id and leaves the rest alone.                *)
LEMMA ForgottenFields ==
  ASSUME NEW o \in Object(Status)
  PROVE  /\ Forgotten(o) \in Object(Status)
         /\ Forgotten(o).live = o.live
         /\ Forgotten(o).gen = o.gen
         /\ Forgotten(o).finalizer = o.finalizer
         /\ Forgotten(o).deleting = o.deleting
         /\ Forgotten(o).status.obsGen = o.status.obsGen
         /\ Forgotten(o).status.id = 0
  BY BoundTypes DEF Forgotten, Object, Status

(* Recording a sync sets obsGen and id to what the POST left in memory.    *)
LEMMA SyncedFields ==
  ASSUME NEW o \in Object(Status), newId \in 0 .. MaxId,
         syncGen \in 0 .. MaxGen
  PROVE  /\ Synced(o) \in Object(Status)
         /\ Synced(o).live = o.live
         /\ Synced(o).gen = o.gen
         /\ Synced(o).finalizer = o.finalizer
         /\ Synced(o).deleting = o.deleting
         /\ Synced(o).status.obsGen = syncGen
         /\ Synced(o).status.id = newId
  BY DEF Synced, Object, Status

(* Putting the finalizer on or off; off also lets the resource go.         *)
LEMMA FinalizerFields ==
  ASSUME NEW o \in Object(Status)
  PROVE  /\ Guarded(o) \in Object(Status)
         /\ Guarded(o).finalizer
         /\ Guarded(o).live = o.live
         /\ Guarded(o).gen = o.gen
         /\ Guarded(o).deleting = o.deleting
         /\ Guarded(o).status = o.status
         /\ Released(o) \in Object(Status)
         /\ ~Released(o).finalizer
         /\ ~Released(o).live
         /\ Released(o).gen = o.gen
         /\ Released(o).deleting = o.deleting
         /\ Released(o).status = o.status
  BY DEF Guarded, Released, Object

(* A user edit makes a new generation and nothing else.                    *)
LEMMA EditedFields ==
  ASSUME NEW o \in Object(Status)
  PROVE  /\ o.gen < MaxGen => Edited(o) \in Object(Status)
         /\ Edited(o).gen = o.gen + 1
         /\ Edited(o).live = o.live
         /\ Edited(o).finalizer = o.finalizer
         /\ Edited(o).deleting = o.deleting
         /\ Edited(o).status = o.status
  BY BoundTypes DEF Edited, Object

(* A user deletion marks a guarded resource and drops an unguarded one.    *)
LEMMA CondemnedFields ==
  ASSUME NEW o \in Object(Status)
  PROVE  /\ Condemned(o) \in Object(Status)
         /\ Condemned(o).gen = o.gen
         /\ Condemned(o).finalizer = o.finalizer
         /\ Condemned(o).status = o.status
         /\ o.finalizer =>
              Condemned(o).live = o.live /\ Condemned(o).deleting
         /\ ~o.finalizer =>
              ~Condemned(o).live /\ Condemned(o).deleting = o.deleting
<1>1. CASE o.finalizer
  BY <1>1 DEF Condemned, Object
<1>2. CASE ~o.finalizer
  BY <1>2 DEF Condemned, Object
<1> QED BY <1>1, <1>2

-----------------------------------------------------------------------------
(* The kinds of steps.                                                     *)

(* A disturbance of kind k leaves a smaller budget of natural numbers.     *)
LEMMA SpendEffect ==
  ASSUME TypeOK, NEW k \in Disturbances, Spend(k)
  PROVE  /\ left' \in [Disturbances -> Nat]
         /\ left'[k] = left[k] - 1 /\ left[k] > 0
         /\ \A j \in Disturbances \ {k} : left'[j] = left[j]
  BY DEF TypeOK, Spend

(* Returning leaves a well-formed, empty hand.                             *)
LEMMA ReturnEffect ==
  ASSUME TypeOK, NEW r \in BOOLEAN, Return(r)
  PROVE  /\ obj' \in Object(Status) /\ objFresh' \in BOOLEAN /\ ~objFresh'
         /\ timer' \in BOOLEAN
         /\ pc' = "idle" /\ newId' = 0 /\ syncGen' = 0
         /\ newId' \in 0 .. MaxId /\ syncGen' \in 0 .. MaxGen
<1>1. obj' \in Object(Status) /\ objFresh' \in BOOLEAN /\ ~objFresh'
  BY CreatedType DEF Return, Forget
<1>2. timer' \in BOOLEAN
  BY Zenon DEF TypeOK, Return, Forget
<1> QED BY <1>1, <1>2, BoundTypes DEF Return

(* An update counts only with the newest version in hand; a cache that     *)
(* stays fresh saw no change.                                              *)
LEMMA WriteEffect ==
  ASSUME TypeOK, NEW new \in Object(Status), TryWrite(new) \/ TryStamp(new)
  PROVE  /\ cr' \in Object(Status) /\ cacheFresh' \in BOOLEAN
         /\ objFresh => cr' = new
         /\ ~objFresh => cr' = cr /\ cacheFresh' = cacheFresh
         /\ cacheFresh' => cacheFresh /\ cr' = cr
<1>1. cr' \in Object(Status)
  BY DEF TypeOK, TryWrite, Write, TryStamp
<1>2. cacheFresh' \in BOOLEAN
  BY Zenon DEF TypeOK, TryWrite, Write, TryStamp
<1>3. /\ objFresh => cr' = new
      /\ ~objFresh => cr' = cr /\ cacheFresh' = cacheFresh
      /\ cacheFresh' => cacheFresh /\ cr' = cr
  BY Zenon DEF TypeOK, TryWrite, Write, TryStamp
<1> QED BY <1>1, <1>2, <1>3

(* Disturbances leave natural numbers, and as many as they are take no more*)
(* than one of a kind.                                                     *)
LEMMA SpendAllEffect ==
  ASSUME TypeOK, NEW ks \in SUBSET Disturbances, SpendAll(ks)
  PROVE  /\ left' \in [Disturbances -> Nat]
         /\ \A j \in Disturbances : left'[j] <= left[j]
         /\ \A j \in ks : left'[j] # left[j]
  BY DEF TypeOK, SpendAll

(* The clusters that the setup names.                                      *)
LEMMA Placed ==
  ASSUME TypeOK
  PROVE  /\ \A g \in 1 .. MaxGen : place[g] \in Clusters
         /\ At(cr) \in Clusters /\ At(obj) \in Clusters
<1>1. \A g \in 1 .. MaxGen : place[g] \in Clusters
  BY RecreateAssumption DEF TypeOK, place
<1>2. cr.gen \in 1 .. MaxGen /\ obj.gen \in 1 .. MaxGen
  BY DEF TypeOK, Object
<1> QED BY <1>1, <1>2 DEF At

(* A POST stays within the ids and stores the generation in hand.          *)
LEMMA StoreEffect ==
  ASSUME TypeOK, StoreObject(obj)
  PROVE  /\ ObjectId(obj) \in Ids
         /\ objects' \in [Clusters -> [Ids -> 0 .. MaxGen]]
         /\ \A t \in Clusters, i \in Ids :
              objects'[t][i] = IF t = At(obj) /\ i = ObjectId(obj)
                                 THEN obj.gen ELSE objects[t][i]
         /\ minted' \in 0 .. MaxId
<1>1. /\ ObjectId(obj) \in Ids /\ obj.gen \in 0 .. MaxGen
      /\ At(obj) \in Clusters
      /\ objects \in [Clusters -> [Ids -> 0 .. MaxGen]]
      /\ objects' = [objects EXCEPT ![At(obj)][ObjectId(obj)] = obj.gen]
  BY BoundTypes, Placed DEF StoreObject, TypeOK, Object
<1>2. /\ objects' \in [Clusters -> [Ids -> 0 .. MaxGen]]
      /\ \A t \in Clusters, i \in Ids :
           objects'[t][i] = IF t = At(obj) /\ i = ObjectId(obj)
                              THEN obj.gen ELSE objects[t][i]
  BY <1>1
<1>3. minted' \in 0 .. MaxId
  BY <1>1, BoundTypes DEF StoreObject, ObjectId, TypeOK, Ids
<1> QED BY <1>1, <1>2, <1>3

(* A DELETE takes the object in hand from its cluster and no other.        *)
LEMMA WithoutEffect ==
  ASSUME TypeOK, objects' \in {objects, Without(obj)}
  PROVE  /\ objects' \in [Clusters -> [Ids -> 0 .. MaxGen]]
         /\ \A t \in Clusters, i \in Ids : objects'[t][i] \in {0, objects[t][i]}
         /\ objects' = Without(obj) =>
              \A i \in Ids : i = obj.status.id => objects'[At(obj)][i] = 0
<1>1. /\ At(obj) \in Clusters /\ 0 \in 0 .. MaxGen
      /\ objects \in [Clusters -> [Ids -> 0 .. MaxGen]]
      /\ objects[At(obj)] \in [Ids -> 0 .. MaxGen]
  BY BoundTypes, Placed DEF TypeOK
<1>2. [i \in Ids |-> IF i = obj.status.id THEN 0 ELSE objects[At(obj)][i]]
        \in [Ids -> 0 .. MaxGen]
  BY <1>1
<1>3. CASE objects' = objects
  <2>1. /\ objects' \in [Clusters -> [Ids -> 0 .. MaxGen]]
        /\ \A t \in Clusters, i \in Ids : objects'[t][i] = objects[t][i]
    BY <1>1, <1>3
  <2>2. objects' = Without(obj) =>
          \A i \in Ids : i = obj.status.id => objects'[At(obj)][i] = 0
    BY <1>1 DEF Without
  <2> QED BY <2>1, <2>2
<1>4. CASE objects' = Without(obj)
  BY <1>1, <1>2, <1>4 DEF Without
<1> QED BY <1>3, <1>4

(* A step that reports something, or nothing, and returns.                 *)
Ends ==
  /\ Report(cr, cr') \/ cr' = cr
  /\ cr'.status.obsGen \in {cr.status.obsGen, obj.gen}
  /\ cache' = cache /\ cacheFresh' \in BOOLEAN
  /\ cacheFresh' => cacheFresh /\ cr' = cr
  /\ queued' = queued /\ timer' \in BOOLEAN
  /\ \/ left' = left
     \/ \E k \in Disturbances : Spend(k)
     \/ \E ks \in SUBSET Disturbances : SpendAll(ks)
  /\ UNCHANGED <<setup, conn>>
  /\ obj' \in Object(Status) /\ objFresh' \in BOOLEAN /\ ~objFresh'
  /\ pc # "idle" /\ pc' = "idle" /\ newId' = 0 /\ syncGen' = 0
  /\ newId' \in 0 .. MaxId /\ syncGen' \in 0 .. MaxGen
  /\ pc \in {"refetch", "record"} => FALSE
  /\ objects' \in [Clusters -> [Ids -> 0 .. MaxGen]] /\ minted' \in 0 .. MaxId
  /\ \/ \A t \in Clusters, i \in Ids : objects'[t][i] \in {0, objects[t][i]}
     \/ /\ pc = "create" /\ StoreObject(obj)
        /\ \E k \in {"server", "other"} : left'[k] # left[k]

(* A step that goes on with the resource in hand.                          *)
GoesOn ==
  /\ UNCHANGED <<cr, cache, cacheFresh, obj, objFresh, queued, timer, setup,
                 conn>>
  /\ left' = left \/ Spend("other")
  /\ pc # "idle" /\ pc' # "idle"
  /\ pc' = "release" => obj.deleting
  /\ pc' \in Sync => pc \in Sync \/ (obj.finalizer /\ ~obj.deleting)

(* A step that leaves the resource and the pass alone.                     *)
Quiet ==
  /\ UNCHANGED <<cr, cache, cacheFresh, obj, objFresh, setup, pc, newId,
                 syncGen, minted>>
  /\ queued' \in BOOLEAN /\ timer' \in BOOLEAN /\ conn' \in ConnStates
  /\ left' = left \/ \E k \in Disturbances : Spend(k)
  /\ objects' \in [Clusters -> [Ids -> 0 .. MaxGen]]
  /\ \A t \in Clusters, i \in Ids : objects'[t][i] \in {0, objects[t][i]}

(* The steps that do nothing but report, whether they conflict or not.     *)
LEMMA ReportEnds ==
  ASSUME TypeOK, Views, NEW new, Report(obj, new),
         TryWrite(new) \/ TryStamp(new)
  PROVE  /\ Report(cr, cr') \/ cr' = cr
         /\ cr'.status.obsGen \in {cr.status.obsGen, obj.gen}
         /\ cacheFresh' \in BOOLEAN
         /\ cacheFresh' => cacheFresh /\ cr' = cr
<1>1. CASE objFresh
  BY <1>1, WriteEffect DEF Report, Views
<1>2. CASE ~objFresh
  BY <1>2, WriteEffect DEF Report
<1>3. objFresh \in BOOLEAN
  BY DEF TypeOK
<1> QED BY <1>1, <1>2, <1>3

(* The same when the report may be lost, and what it spends.               *)
LEMMA LossyReportEnds ==
  ASSUME TypeOK, Views, NEW new, Report(obj, new),
         NEW ks \in SUBSET Disturbances, TryReport(new, ks)
  PROVE  /\ Report(cr, cr') \/ cr' = cr
         /\ cr'.status.obsGen \in {cr.status.obsGen, obj.gen}
         /\ cacheFresh' \in BOOLEAN
         /\ cacheFresh' => cacheFresh /\ cr' = cr
         /\ \E ds \in SUBSET Disturbances : SpendAll(ds)
         /\ \A k \in ks : left'[k] # left[k]
<1>1. CASE SpendAll(ks) /\ TryStamp(new)
  <2>1. \A k \in ks : left'[k] # left[k]
    BY <1>1, SpendAllEffect
  <2> QED BY <1>1, <2>1, ReportEnds
<1>2. CASE SpendAll(ks \cup {"report"}) /\ UNCHANGED <<cr, cacheFresh>>
  <2>1. ks \cup {"report"} \in SUBSET Disturbances
    BY DEF Disturbances
  <2>2. \A k \in ks : left'[k] # left[k]
    BY <1>2, <2>1, SpendAllEffect
  <2>3. cacheFresh' \in BOOLEAN
    BY <1>2 DEF TypeOK
  <2> QED BY <1>2, <2>1, <2>2, <2>3
<1> QED BY <1>1, <1>2 DEF TryReport

(* Which steps end that way.                                               *)
LEMMA EndSteps ==
  ASSUME TypeOK, Views,
         \/ RejectSpec \/ SkipPaused \/ ResolveFails
         \/ DriftCheckFails \/ SkipSynced \/ PayloadFails
         \/ RemoveOldFails("server")
         \/ CreateFails("server") \/ CreateFails("other")
         \/ LookupFails \/ DeleteUnresolved \/ DeleteFails("server")
  PROVE  Ends
<1> USE DEF kubeVars
<1>0. obj \in Object(Status)
      /\ objects \in [Clusters -> [Ids -> 0 .. MaxGen]]
      /\ minted \in 0 .. MaxId /\ objFresh \in BOOLEAN
      /\ cacheFresh \in BOOLEAN
      /\ {"server", "other", "kube"} \subseteq Disturbances
      /\ {} \in SUBSET Disturbances
  BY DEF TypeOK, Disturbances
<1> HIDE DEF Ends
<1>1. CASE RejectSpec
  <2>1. pc = "fetched" /\ TryReport(Failing(obj), {}) /\ Return(FALSE)
        /\ UNCHANGED <<cache, queued, setup, objects, minted, conn>>
    BY <1>1 DEF RejectSpec, Syncing
  <2> QED BY <1>0, <2>1, LossyReportEnds, Reports, ReturnEffect DEF Ends
<1>2. CASE SkipPaused
  <2>1. pc = "fetched" /\ TryWrite(Paused(obj)) /\ Return(~objFresh)
        /\ UNCHANGED <<cache, queued, left, setup, objects, minted, conn>>
    BY <1>2 DEF SkipPaused, Accepted, Syncing
  <2> QED BY <1>0, <2>1, ReportEnds, Reports, ReturnEffect DEF Ends
<1>3. CASE ResolveFails
  <2>1. pc = "fetched" /\ TryReport(Failing(obj), {}) /\ Return(TRUE)
        /\ UNCHANGED <<cache, queued, setup, objects, minted, conn>>
    BY <1>3 DEF ResolveFails, Accepted, Syncing
  <2> QED BY <1>0, <2>1, LossyReportEnds, Reports, ReturnEffect DEF Ends
<1>4. CASE DriftCheckFails
  <2>1. PICK k \in {"server", "other"} : TryReport(obj, {k})
    BY <1>4 DEF DriftCheckFails
  <2>2. pc = "drift" /\ Return(TRUE)
        /\ UNCHANGED <<cache, queued, setup, objects, minted, conn>>
    BY <1>4 DEF DriftCheckFails
  <2>3. {k} \in SUBSET Disturbances
    BY <1>0
  <2> QED BY <1>0, <2>1, <2>2, <2>3, LossyReportEnds, Reports, ReturnEffect
          DEF Ends
<1>5. CASE SkipSynced \/ DeleteUnresolved
  <2>1. pc \in {"drift", "fetched"} /\ Return(TRUE)
        /\ UNCHANGED <<cr, cache, cacheFresh, queued, left, setup, objects,
                       minted, conn>>
    BY <1>5 DEF SkipSynced, DeleteUnresolved, Deleting
  <2> QED BY <1>0, <2>1, ReturnEffect DEF Ends
<1>6. CASE PayloadFails
  <2>1. pc = "replace" /\ TryReport(Failing(obj), {"kube"}) /\ Return(TRUE)
        /\ UNCHANGED <<cache, queued, setup, objects, minted, conn>>
        /\ {"kube"} \in SUBSET Disturbances
    BY <1>0, <1>6 DEF PayloadFails
  <2> QED BY <1>0, <2>1, LossyReportEnds, Reports, ReturnEffect DEF Ends
<1>7. CASE RemoveOldFails("server") \/ DeleteFails("server")
  <2>1. pc \in {"replace", "fetched"} /\ Return(TRUE) /\ Spend("server")
        /\ objects' \in {objects, Without(obj)}
        /\ UNCHANGED <<cr, cache, cacheFresh, queued, setup, minted, conn>>
    BY <1>7 DEF RemoveOldFails, DeleteFails, Deleting
  <2>2. /\ objects' \in [Clusters -> [Ids -> 0 .. MaxGen]]
        /\ \A t \in Clusters, i \in Ids : objects'[t][i] \in {0, objects[t][i]}
    BY <2>1, WithoutEffect
  <2> QED BY <1>0, <2>1, <2>2, ReturnEffect DEF Ends
<1>8. ASSUME NEW k \in {"server", "other"}, CreateFails(k) PROVE Ends
  <2>1. pc = "create" /\ TryReport(Failing(obj), {k}) /\ Return(k = "server")
        /\ (StoreObject(obj) \/ UNCHANGED <<objects, minted>>)
        /\ UNCHANGED <<cache, queued, setup, conn>>
        /\ {k} \in SUBSET Disturbances
    BY <1>0, <1>8 DEF CreateFails
  <2>2. /\ objects' \in [Clusters -> [Ids -> 0 .. MaxGen]]
        /\ minted' \in 0 .. MaxId
    BY <1>0, <2>1, StoreEffect
  <2>3. left'[k] # left[k]
    BY <1>0, <2>1, LossyReportEnds, Reports
  <2> QED BY <1>0, <2>1, <2>2, <2>3, LossyReportEnds, Reports, ReturnEffect
          DEF Ends
<1>9. CASE LookupFails
  <2>1. pc = "lookup" /\ Return(TRUE)
        /\ (\E k \in {"server", "other"} : Spend(k))
        /\ UNCHANGED <<cr, cache, cacheFresh, queued, setup, objects, minted,
                       conn>>
    BY <1>9 DEF LookupFails
  <2> QED BY <1>0, <2>1, ReturnEffect DEF Ends
<1> QED BY <1>1, <1>2, <1>3, <1>4, <1>5, <1>6, <1>7, <1>8, <1>9

(* Which steps go on.                                                      *)
Go ==
  \/ Resolve \/ RemoveOld \/ RemoveOldFails("other") \/ Create
  \/ CreateNone \/ Lookup \/ DeleteObject \/ DeleteFails("other")

LEMMA GoSteps ==
  ASSUME Go
  PROVE  GoesOn
<1> USE DEF kubeVars, GoesOn, Sync
<1>1. CASE Resolve
  BY <1>1 DEF Resolve, Accepted, Syncing
<1>2. CASE RemoveOld
  BY <1>2 DEF RemoveOld
<1>3. CASE RemoveOldFails("other")
  BY <1>3 DEF RemoveOldFails
<1>4. CASE Create
  BY <1>4 DEF Create
<1>5. CASE CreateNone
  BY <1>5 DEF CreateNone
<1>6. CASE Lookup
  BY <1>6 DEF Lookup
<1>7. CASE DeleteObject
  BY <1>7 DEF DeleteObject, Deleting
<1>8. CASE DeleteFails("other")
  BY <1>8 DEF DeleteFails, Deleting
<1> QED BY <1>1, <1>2, <1>3, <1>4, <1>5, <1>6, <1>7, <1>8 DEF Go

(* Timers, resyncs, connections and the console leave a pass alone.        *)
LEMMA QuietSteps ==
  ASSUME TypeOK,
         \/ (TimerFires \/ Resync) /\ UNCHANGED ownVars
         \/ ConnChanges \/ ExternalDelete \/ UNCHANGED vars
  PROVE  Quiet
<1> USE BoundTypes DEF TypeOK, Quiet, ownVars, Disturbances
<1>1. CASE (TimerFires \/ Resync) /\ UNCHANGED ownVars
  BY <1>1 DEF TimerFires, Resync
<1>2. CASE ConnChanges
  BY <1>2 DEF ConnChanges
<1>3. CASE ExternalDelete
  <2>1. PICK t \in Clusters, i \in Ids :
          objects' = [objects EXCEPT ![t][i] = 0]
    BY <1>3 DEF ExternalDelete
  <2>2. /\ objects' \in [Clusters -> [Ids -> 0 .. MaxGen]]
        /\ \A u \in Clusters, j \in Ids : objects'[u][j] \in {0, objects[u][j]}
    BY <2>1
  <2> QED BY <1>3, <2>2 DEF ExternalDelete
<1>4. CASE UNCHANGED vars
  BY <1>4 DEF vars, kubeVars
<1> QED BY <1>1, <1>2, <1>3, <1>4

(* Every step is one of these.                                             *)
LEMMA StepKinds ==
  ASSUME TypeOK, Views, [Next]_vars
  PROVE  \/ Ends \/ Go \/ Quiet
         \/ Fetch \/ AddFinalizer \/ DriftDetected \/ Refetch \/ Record
         \/ Release \/ WriteFails \/ Crash
         \/ UserEdits /\ UNCHANGED ownVars
         \/ UserDeletes /\ UNCHANGED ownVars
         \/ WatchDelivers /\ UNCHANGED ownVars
<1>1. CASE Reconcile
  <2>1. CASE \E k \in {"server", "other"} :
               RemoveOldFails(k) \/ CreateFails(k) \/ DeleteFails(k)
    BY <2>1, EndSteps DEF Go
  <2>2. CASE \/ RejectSpec \/ SkipPaused \/ ResolveFails
             \/ DriftCheckFails \/ SkipSynced \/ PayloadFails
             \/ LookupFails \/ DeleteUnresolved
    BY <2>2, EndSteps
  <2>3. CASE Resolve \/ RemoveOld \/ Create \/ CreateNone \/ Lookup
             \/ DeleteObject
    BY <2>3 DEF Go
  <2> QED BY <1>1, <2>1, <2>2, <2>3
    DEF Reconcile, Admit, CheckDrift, Replace, HandleDeletion
<1>2. CASE Environment
  BY <1>2, QuietSteps DEF Environment, KubeEnvironment
<1>3. CASE UNCHANGED vars
  BY <1>3, QuietSteps
<1> QED BY <1>1, <1>2, <1>3 DEF Next
-----------------------------------------------------------------------------
(* Every step keeps the shapes.                                            *)
LEMMA TypeStep == TypeOK /\ Views /\ [Next]_vars => TypeOK'
<1> SUFFICES ASSUME TypeOK, Views, [Next]_vars PROVE TypeOK'
  OBVIOUS
<1> USE BoundTypes DEF TypeOK, kubeVars
<1>1. CASE Ends
  <2>1. cr' \in Object(Status)
    BY <1>1 DEF Ends, Report
  <2>2. left' \in [Disturbances -> Nat]
    BY <1>1, SpendEffect, SpendAllEffect DEF Ends
  <2> QED BY <1>1, <2>1, <2>2 DEF Ends
<1>2. CASE Go
  <2>1. GoesOn
    BY <1>2, GoSteps
  <2>2. left' \in [Disturbances -> Nat]
    BY <2>1, SpendEffect DEF GoesOn, Disturbances
  <2>3. /\ pc' \in {"idle", "fetched", "drift", "replace", "create", "lookup",
                    "refetch", "record", "release"}
        /\ newId' \in 0 .. MaxId /\ syncGen' \in 0 .. MaxGen
        /\ objects' \in [Clusters -> [Ids -> 0 .. MaxGen]]
        /\ minted' \in 0 .. MaxId
    <3>1. CASE Resolve
      BY <3>1 DEF Resolve
    <3>2. CASE RemoveOld \/ DeleteObject
      BY <3>2, WithoutEffect DEF RemoveOld, DeleteObject
    <3>3. CASE RemoveOldFails("other") \/ DeleteFails("other")
      BY <3>3, WithoutEffect DEF RemoveOldFails, DeleteFails
    <3>4. CASE Create
      <4>1. newId' \in {0, ObjectId(obj)} /\ syncGen' = obj.gen
            /\ pc' \in {"lookup", "refetch"} /\ StoreObject(obj)
        BY <3>4 DEF Create
      <4>2. obj.gen \in 0 .. MaxGen
        BY DEF Object
      <4>3. ObjectId(obj) \in 0 .. MaxId
        BY <4>1, StoreEffect DEF Ids
      <4> QED BY <4>1, <4>2, <4>3, StoreEffect
    <3>5. CASE CreateNone
      <4>1. obj.gen \in 0 .. MaxGen
        BY DEF Object
      <4> QED BY <3>5, <4>1 DEF CreateNone
    <3>6. CASE Lookup
      <4>1. newId' \in {0} \cup Ids
        BY <3>6 DEF Lookup
      <4> QED BY <3>6, <4>1 DEF Lookup, Ids
    <3> QED BY <1>2, <3>1, <3>2, <3>3, <3>4, <3>5, <3>6 DEF Go
  <2> QED BY <2>1, <2>2, <2>3 DEF GoesOn
<1>3. CASE Quiet
  <2>1. left' \in [Disturbances -> Nat]
    BY <1>3, SpendEffect DEF Quiet
  <2> QED BY <1>3, <2>1 DEF Quiet
<1>4. CASE Fetch \/ Refetch
  <2>1. left' \in [Disturbances -> Nat] /\ obj' \in Object(Status)
        /\ objFresh' \in BOOLEAN
    BY <1>4, SpendEffect DEF Fetch, Refetch, ReadCache, Disturbances
  <2> QED BY <1>4, <2>1 DEF Fetch, Refetch
<1>5. CASE AddFinalizer
  BY <1>5, ReturnEffect, WriteEffect, FinalizerFields DEF AddFinalizer
<1>6. CASE DriftDetected
  BY <1>6, ReturnEffect, WriteEffect, ForgottenFields DEF DriftDetected
<1>7. CASE Record
  BY <1>7, ReturnEffect, WriteEffect, SyncedFields DEF Record
<1>8. CASE Release
  BY <1>8, ReturnEffect, WriteEffect, FinalizerFields DEF Release
<1>9. CASE Crash
  <2>1. left' \in [Disturbances -> Nat] /\ obj' \in Object(Status)
        /\ cr' \in Object(Status) /\ cache' \in Object(Status)
    BY <1>9, SpendEffect, CreatedType DEF Crash, Restart, Disturbances
  <2>2. newId' \in 0 .. MaxId /\ syncGen' \in 0 .. MaxGen
    BY <1>9 DEF Crash
  <2> QED BY <1>9, <2>1, <2>2 DEF Crash, Restart
<1>13. CASE WriteFails
  BY <1>13, ReturnEffect, SpendEffect DEF WriteFails, Disturbances
<1>10. CASE UserEdits /\ UNCHANGED ownVars
  BY <1>10, EditedFields DEF UserEdits, Overwrite, ownVars
<1>11. CASE UserDeletes /\ UNCHANGED ownVars
  BY <1>11, CondemnedFields DEF UserDeletes, Overwrite, ownVars
<1>12. CASE WatchDelivers /\ UNCHANGED ownVars
  BY <1>12 DEF WatchDelivers, ownVars
<1> QED
  BY StepKinds, <1>1, <1>2, <1>3, <1>4, <1>5, <1>6, <1>7, <1>8, <1>9, <1>10,
     <1>11, <1>12, <1>13

(* No copy gets ahead of the resource.                                     *)
LEMMA ViewsStep == TypeOK /\ Views /\ Guard /\ [Next]_vars => Views'
<1> SUFFICES ASSUME TypeOK, Views, Guard, [Next]_vars PROVE Views'
  OBVIOUS
<1> USE DEF TypeOK, Views
<1>1. CASE Ends
  <2>1. cr'.live = cr.live /\ cr'.deleting = cr.deleting
    BY <1>1 DEF Ends, Report
  <2> QED BY <1>1, <2>1 DEF Ends
<1>2. CASE Go
  BY <1>2, GoSteps DEF GoesOn
<1>3. CASE Quiet
  BY <1>3 DEF Quiet
<1>4. CASE Fetch
  BY <1>4 DEF Fetch, ReadCache
<1>5. CASE Refetch
  BY <1>5 DEF Refetch, ReadCache, Guard, Sync
<1>6. CASE AddFinalizer
  <2>1. cr'.live = cr.live /\ cr'.deleting = cr.deleting
    BY <1>6, WriteEffect, FinalizerFields DEF AddFinalizer
  <2> QED
    BY <1>6, <2>1, WriteEffect, FinalizerFields, ReturnEffect
       DEF AddFinalizer
<1>7. CASE DriftDetected
  <2>1. cr'.live = cr.live /\ cr'.deleting = cr.deleting
        /\ cache' = cache /\ (cacheFresh' => cacheFresh /\ cr' = cr)
    BY <1>7, WriteEffect, ForgottenFields DEF DriftDetected
  <2>2. CASE objFresh
    BY <1>7, <2>1, <2>2, WriteEffect, ForgottenFields DEF DriftDetected
  <2>3. CASE ~objFresh
    BY <1>7, <2>1, <2>3, ReturnEffect DEF DriftDetected
  <2> QED BY <2>2, <2>3
<1>8. CASE Record
  <2>1. cr'.live = cr.live /\ cr'.deleting = cr.deleting
    BY <1>8, WriteEffect, SyncedFields DEF Record
  <2> QED BY <1>8, <2>1, WriteEffect, SyncedFields, ReturnEffect DEF Record
<1>9. CASE Release
  <2>1. (cr'.live => cr.live) /\ cr'.deleting = cr.deleting
    BY <1>9, WriteEffect, FinalizerFields DEF Release
  <2> QED
    BY <1>9, <2>1, WriteEffect, FinalizerFields, ReturnEffect DEF Release
<1>10. CASE Crash
  BY <1>10 DEF Crash, Restart
<1>11. CASE UserEdits /\ UNCHANGED ownVars
  BY <1>11, EditedFields DEF UserEdits, Overwrite, ownVars
<1>12. CASE UserDeletes /\ UNCHANGED ownVars
  BY <1>12, CondemnedFields DEF UserDeletes, Overwrite, ownVars, Guard
<1>13. CASE WatchDelivers /\ UNCHANGED ownVars
  BY <1>13 DEF WatchDelivers, ownVars, Guard
<1>14. CASE WriteFails
  BY <1>14, ReturnEffect DEF WriteFails
<1> QED
  BY StepKinds, <1>1, <1>2, <1>3, <1>4, <1>5, <1>6, <1>7, <1>8, <1>9, <1>10,
     <1>11, <1>12, <1>13, <1>14

(* The finalizer stays on from the decision that needs it to its end.      *)
LEMMA GuardStep == TypeOK /\ Views /\ Guard /\ [Next]_vars => Guard'
<1> SUFFICES ASSUME TypeOK, Views, Guard, [Next]_vars PROVE Guard'
  OBVIOUS
<1> USE DEF TypeOK, Views, Guard, Sync
<1>1. CASE Ends
  <2>1. cr'.live = cr.live /\ cr'.deleting = cr.deleting
        /\ cr'.finalizer = cr.finalizer
    BY <1>1 DEF Ends, Report
  <2> QED BY <1>1, <2>1 DEF Ends
<1>2. CASE Go
  BY <1>2, GoSteps DEF GoesOn
<1>3. CASE Quiet
  BY <1>3 DEF Quiet
<1>4. CASE Fetch
  BY <1>4 DEF Fetch, ReadCache
<1>5. CASE Refetch
  BY <1>5 DEF Refetch, ReadCache
<1>6. CASE AddFinalizer
  <2>1. pc' = "idle" /\ cache' = cache
    BY <1>6, ReturnEffect DEF AddFinalizer
  <2>2. CASE objFresh
    <3>1. cr'.live = cr.live /\ cr'.deleting = cr.deleting /\ cr'.finalizer
          /\ cr.live
      BY <1>6, <2>2, WriteEffect, FinalizerFields DEF AddFinalizer
    <3> QED BY <2>1, <3>1
  <2>3. CASE ~objFresh
    <3>1. cr' = cr
      BY <1>6, <2>3, WriteEffect, FinalizerFields DEF AddFinalizer
    <3> QED BY <2>1, <3>1
  <2> QED BY <2>2, <2>3
<1>7. CASE DriftDetected
  <2>1. cr'.live = cr.live /\ cr'.deleting = cr.deleting
        /\ cr'.finalizer = cr.finalizer /\ cache' = cache
    BY <1>7, WriteEffect, ForgottenFields DEF DriftDetected
  <2>2. CASE objFresh
    BY <1>7, <2>1, <2>2, WriteEffect, ForgottenFields DEF DriftDetected
  <2>3. CASE ~objFresh
    BY <1>7, <2>1, <2>3, ReturnEffect DEF DriftDetected
  <2> QED BY <2>2, <2>3
<1>8. CASE Record
  <2>1. cr'.live = cr.live /\ cr'.deleting = cr.deleting
        /\ cr'.finalizer = cr.finalizer
    BY <1>8, WriteEffect, SyncedFields DEF Record
  <2> QED BY <1>8, <2>1, ReturnEffect DEF Record
<1>9. CASE Release
  <2>1. pc' = "idle" /\ cache' = cache /\ cache.deleting
    BY <1>9, ReturnEffect DEF Release
  <2>2. CASE objFresh
    <3>1. ~cr'.live /\ ~cr'.finalizer
      BY <1>9, <2>2, WriteEffect, FinalizerFields DEF Release
    <3> QED BY <2>1, <3>1
  <2>3. CASE ~objFresh
    <3>1. cr' = cr
      BY <1>9, <2>3, WriteEffect, FinalizerFields DEF Release
    <3> QED BY <2>1, <3>1
  <2> QED BY <2>2, <2>3
<1>10. CASE Crash
  BY <1>10 DEF Crash, Restart
<1>11. CASE UserEdits /\ UNCHANGED ownVars
  BY <1>11, EditedFields DEF UserEdits, Overwrite, ownVars
<1>12. CASE UserDeletes /\ UNCHANGED ownVars
  BY <1>12, CondemnedFields DEF UserDeletes, Overwrite, ownVars
<1>13. CASE WatchDelivers /\ UNCHANGED ownVars
  BY <1>13 DEF WatchDelivers, ownVars
<1>14. CASE WriteFails
  BY <1>14, ReturnEffect DEF WriteFails
<1> QED
  BY StepKinds, <1>1, <1>2, <1>3, <1>4, <1>5, <1>6, <1>7, <1>8, <1>9, <1>10,
     <1>11, <1>12, <1>13, <1>14

(* Generations are numbers, ids name an object or none.                    *)
LEMMA GenTypes ==
  ASSUME TypeOK
  PROVE  /\ cr.gen \in Nat /\ cache.gen \in Nat /\ obj.gen \in Nat
         /\ cr.gen > 0 /\ obj.gen > 0
         /\ cr.status.obsGen \in Nat /\ syncGen \in Nat
         /\ cr.status.id \in {0} \cup Ids /\ obj.status.id \in {0} \cup Ids
         /\ newId \in {0} \cup Ids /\ 0 \notin Ids
         /\ \A t \in Clusters, i \in Ids : objects[t][i] \in Nat
         /\ \A g \in 1 .. MaxGen : place[g] \in Clusters
         /\ cr.status.obsGen # 0 => place[cr.status.obsGen] \in Clusters
         /\ syncGen # 0 => place[syncGen] \in Clusters
         /\ At(cr) \in Clusters /\ At(obj) \in Clusters
<1>1. /\ cr.gen \in Nat /\ cache.gen \in Nat /\ obj.gen \in Nat
      /\ cr.gen > 0 /\ obj.gen > 0
      /\ cr.status.obsGen \in 0 .. MaxGen /\ syncGen \in 0 .. MaxGen
      /\ cr.status.obsGen \in Nat /\ syncGen \in Nat
      /\ cr.status.id \in {0} \cup Ids /\ obj.status.id \in {0} \cup Ids
      /\ newId \in {0} \cup Ids /\ 0 \notin Ids
  BY BoundTypes DEF TypeOK, Object, Status, Ids
<1>2. \A t \in Clusters, i \in Ids : objects[t][i] \in Nat
  BY BoundTypes DEF TypeOK
<1>3. /\ cr.status.obsGen # 0 => cr.status.obsGen \in 1 .. MaxGen
      /\ syncGen # 0 => syncGen \in 1 .. MaxGen
  BY <1>1, BoundTypes
<1> QED BY <1>1, <1>2, <1>3, Placed

(* The setup never changes.                                                *)
LEMMA SetupStep ==
  ASSUME TypeOK, Views, [Next]_vars
  PROVE  setup' = setup
  BY StepKinds, GoSteps
     DEF Ends, GoesOn, Quiet, Fetch, AddFinalizer, DriftDetected, Refetch,
         Record, Release, WriteFails, Crash, ownVars

(* A generation is recorded only after it was pushed.                      *)
LEMMA PushedStep == TypeOK /\ Views /\ Pushed /\ [Next]_vars => Pushed'
<1> SUFFICES ASSUME TypeOK, Views, Pushed, [Next]_vars PROVE Pushed'
  OBVIOUS
<1>z. setup' = setup
  BY SetupStep
<1>y. place' = place /\ flavour' = flavour
  BY <1>z DEF place, flavour
<1> USE GenTypes, <1>y DEF Views, Pushed
<1>0. objFresh \in BOOLEAN /\ obj \in Object(Status)
      /\ cr \in Object(Status)
  BY DEF TypeOK
<1>1. CASE Ends
  <2>1. cr'.gen = cr.gen /\ cache' = cache /\ setup' = setup
        /\ pc' = "idle" /\ syncGen' = 0 /\ cr'.status.id = cr.status.id
        /\ cr'.status.obsGen <= cache.gen
    BY <1>1 DEF Ends, Report
  <2>2. \A t \in Clusters, i \in Ids :
          \/ objects'[t][i] \in {0, objects[t][i]}
          \/ objects'[t][i] = obj.gen /\ pc = "create"
    <3>1. CASE \A t \in Clusters, i \in Ids :
                 objects'[t][i] \in {0, objects[t][i]}
      BY <3>1
    <3>2. CASE pc = "create" /\ StoreObject(obj)
      BY <3>2, StoreEffect
    <3> QED BY <1>1, <3>1, <3>2 DEF Ends
  <2>3. \A t \in Clusters, i \in Ids : objects'[t][i] <= cr.gen
    BY <1>1, <2>2 DEF Ends
  <2>4. Backed'
    BY <1>1, <2>1, <2>2 DEF Ends, Report, Backed
  <2> QED BY <2>1, <2>3, <2>4
<1>2. CASE Go
  <2>1. GoesOn
    BY <1>2, GoSteps
  <2>2. CASE Resolve
    BY <2>1, <2>2 DEF GoesOn, Resolve, Accepted, Syncing, Backed
  <2>3. CASE RemoveOld \/ DeleteObject
    <3>1. \A t \in Clusters, i \in Ids : objects'[t][i] \in {0, objects[t][i]}
      BY <2>3, WithoutEffect DEF RemoveOld, DeleteObject
    <3>2. pc \in {"replace", "fetched"} /\ pc' \in {"create", "release"}
          /\ newId' = newId /\ syncGen' = syncGen
          /\ (pc' = "create" => pc = "replace")
      BY <2>3 DEF RemoveOld, DeleteObject, Deleting
    <3> QED BY <2>1, <3>1, <3>2 DEF GoesOn, Backed
  <2>4. CASE RemoveOldFails("other") \/ DeleteFails("other")
    <3>1. \A t \in Clusters, i \in Ids : objects'[t][i] \in {0, objects[t][i]}
      BY <2>4, WithoutEffect DEF RemoveOldFails, DeleteFails
    <3>2. pc \in {"replace", "fetched"} /\ pc' \in {"create", "release"}
          /\ newId' = newId /\ syncGen' = syncGen
          /\ (pc' = "create" => pc = "replace")
      BY <2>4 DEF RemoveOldFails, DeleteFails, Deleting
    <3> QED BY <2>1, <3>1, <3>2 DEF GoesOn, Backed
  <2>5. CASE Create
    <3>1. pc = "create" /\ pc' \in {"lookup", "refetch"} /\ syncGen' = obj.gen
          /\ (flavour # "repair" => newId' = ObjectId(obj))
          /\ (pc' = "lookup" => flavour = "repair")
          /\ StoreObject(obj)
      BY <2>5 DEF Create
    <3>2. ObjectId(obj) \in Ids /\ At(obj) = place[obj.gen]
      BY <3>1, StoreEffect DEF At
    <3>3. \A t \in Clusters, i \in Ids :
            objects'[t][i] = IF t = At(obj) /\ i = ObjectId(obj)
                               THEN obj.gen ELSE objects[t][i]
      BY <3>1, StoreEffect
    <3>4. Backed'
      BY <2>1, <3>1, <3>2, <3>3 DEF GoesOn, Backed
    <3>5. \A t \in Clusters, i \in Ids : objects'[t][i] <= cr.gen
      BY <2>1, <3>1, <3>3 DEF GoesOn
    <3>6. flavour # "repair" =>
            LET r == objects'[place[syncGen']][newId']
            IN  r = 0 \/ syncGen' <= r
      BY <3>1, <3>2, <3>3
    <3> QED BY <2>1, <3>1, <3>4, <3>5, <3>6 DEF GoesOn
  <2>6. CASE CreateNone
    BY <2>1, <2>6 DEF GoesOn, CreateNone, Backed
  <2>7. CASE Lookup
    BY <2>1, <2>7 DEF GoesOn, Lookup, Backed
  <2> QED BY <1>2, <2>2, <2>3, <2>4, <2>5, <2>6, <2>7 DEF Go
<1>3. CASE Quiet
  BY <1>3 DEF Quiet, Backed
<1>4. CASE Fetch
  BY <1>4 DEF Fetch, ReadCache, Backed
<1>5. CASE Refetch
  BY <1>5 DEF Refetch, ReadCache, Backed
<1>6. CASE AddFinalizer
  <2>1. cr'.gen = cr.gen /\ cr'.status = cr.status
    BY <1>0, <1>6, WriteEffect, FinalizerFields DEF AddFinalizer
  <2>2. pc' = "idle" /\ syncGen' = 0
        /\ UNCHANGED <<cache, objects, setup>>
    BY <1>6, ReturnEffect DEF AddFinalizer
  <2> QED BY <2>1, <2>2 DEF Backed
<1>7. CASE DriftDetected
  <2>1. cr'.gen = cr.gen /\ cr'.status.obsGen = cr.status.obsGen
        /\ (cr' = cr \/ cr'.status.id = 0)
    BY <1>0, <1>7, WriteEffect, ForgottenFields DEF DriftDetected
  <2>2. UNCHANGED <<cache, objects, setup>>
    BY <1>7 DEF DriftDetected
  <2>3. Backed'
    BY <2>1, <2>2 DEF Backed
  <2>4. CASE objFresh
    <3>1. obj'.gen = obj.gen /\ pc = "drift" /\ pc' = "replace"
          /\ syncGen' = syncGen
      BY <1>0, <1>7, <2>4, ForgottenFields DEF DriftDetected
    <3> QED BY <2>1, <2>2, <2>3, <3>1
  <2>5. CASE ~objFresh
    <3>1. pc' = "idle" /\ syncGen' = 0
      BY <1>7, <2>5, ReturnEffect DEF DriftDetected
    <3> QED BY <2>1, <2>2, <2>3, <3>1
  <2> QED BY <1>0, <2>4, <2>5
<1>8. CASE Record
  <2>1. cr'.gen = cr.gen
        /\ (cr' = cr \/ (cr'.status.obsGen = syncGen /\ cr'.status.id = newId))
    BY <1>0, <1>8, WriteEffect, SyncedFields DEF Record, TypeOK
  <2>2. pc = "record" /\ pc' = "idle" /\ syncGen' = 0
        /\ UNCHANGED <<cache, objects, setup>>
    BY <1>8, ReturnEffect DEF Record
  <2>3. Backed'
    BY <2>1, <2>2 DEF Backed
  <2> QED BY <2>1, <2>2, <2>3
<1>9. CASE Release
  <2>1. cr'.gen = cr.gen /\ cr'.status = cr.status
    BY <1>0, <1>9, WriteEffect, FinalizerFields DEF Release
  <2>2. pc' = "idle" /\ syncGen' = 0
        /\ UNCHANGED <<cache, objects, setup>>
    BY <1>9, ReturnEffect DEF Release
  <2> QED BY <2>1, <2>2 DEF Backed
<1>10. CASE Crash
  BY <1>10 DEF Crash, Restart, Backed
<1>11. CASE UserEdits /\ UNCHANGED ownVars
  BY <1>0, <1>11, EditedFields DEF UserEdits, Overwrite, ownVars, Backed
<1>12. CASE UserDeletes /\ UNCHANGED ownVars
  BY <1>0, <1>12, CondemnedFields DEF UserDeletes, Overwrite, ownVars, Backed
<1>13. CASE WatchDelivers /\ UNCHANGED ownVars
  BY <1>13 DEF WatchDelivers, ownVars, Backed
<1>14. CASE WriteFails
  <2>1. UNCHANGED <<cr, cache, objects>> /\ pc' = "idle" /\ syncGen' = 0
    BY <1>14, ReturnEffect DEF WriteFails
  <2> QED BY <2>1 DEF Backed
<1> QED
  BY StepKinds, <1>1, <1>2, <1>3, <1>4, <1>5, <1>6, <1>7, <1>8, <1>9, <1>10,
     <1>11, <1>12, <1>13, <1>14

-----------------------------------------------------------------------------
(* The setup stays, and what is left of the budget does not grow.          *)
LEMMA LeftStep ==
  ASSUME TypeOK, Views, [Next]_vars
  PROVE  setup' = setup /\ \A k \in Disturbances : left'[k] <= left[k]
<1> USE DEF Disturbances
<1>0. \A k \in Disturbances : left[k] \in Nat
  BY DEF TypeOK
<1>1. ASSUME NEW k \in Disturbances, Spend(k)
      PROVE  \A j \in Disturbances : left'[j] <= left[j]
  BY <1>0, <1>1, SpendEffect
<1>2. ASSUME NEW ks \in SUBSET Disturbances, SpendAll(ks)
      PROVE  \A j \in Disturbances : left'[j] <= left[j]
  BY <1>2, SpendAllEffect
<1>3. \/ left' = left
      \/ \E k \in Disturbances : Spend(k)
      \/ \E ks \in SUBSET Disturbances : SpendAll(ks)
  BY StepKinds, GoSteps
     DEF Ends, GoesOn, Quiet, Fetch, AddFinalizer, DriftDetected, Refetch,
         ReadCache, Record, Release, WriteFails, Crash, Restart, UserEdits,
         UserDeletes, Overwrite, WatchDelivers
<1> QED BY <1>0, <1>1, <1>2, <1>3, SetupStep

(* What has not happened yet had not happened before.                      *)
LEMMA UnspentStep ==
  ASSUME TypeOK, Views, Owned, [Next]_vars, NEW k \in Disturbances,
         Unspent(k)'
  PROVE  Unspent(k) /\ left'[k] = left[k] /\ ~Spend(k)
<1>1. left[k] \in Nat /\ setup.budget[k] \in Nat
  BY BoundsAssumption, RecreateAssumption DEF TypeOK
<1>2. left'[k] <= left[k] /\ left[k] <= setup.budget[k] /\ setup' = setup
  BY LeftStep DEF Owned
<1>3. left'[k] = setup.budget[k]
  BY <1>2 DEF Unspent
<1>4. left'[k] \in Nat /\ left[k] = setup.budget[k] /\ left'[k] = left[k]
  BY <1>1, <1>2, <1>3
<1>5. Spend(k) => left'[k] = left[k] - 1
  BY SpendEffect
<1> QED BY <1>1, <1>4, <1>5 DEF Unspent

(* An id is forgotten only after its object is gone.                       *)
LEMMA OwnedStep ==
  TypeOK /\ Views /\ Guard /\ Pushed /\ Owned /\ [Next]_vars => Owned'
<1> SUFFICES ASSUME TypeOK, Views, Guard, Pushed, Owned, [Next]_vars
             PROVE  Owned'
  OBVIOUS
<1> DEFINE Same == pc # "idle" /\ Unspent("lag") =>
                     obj.status.id = cr.status.id
<1> DEFINE Held == cr.live /\ cr.status.id # 0 => cr.finalizer
<1> DEFINE Given == newId # 0 => pc \in {"refetch", "record"}
<1>0. /\ objFresh \in BOOLEAN /\ obj \in Object(Status)
      /\ cr \in Object(Status)
      /\ {"lag", "other"} \subseteq Disturbances
      /\ Same /\ Held /\ Given /\ Removed
  BY DEF TypeOK, Disturbances, Owned
<1>a. \A k \in Disturbances : left'[k] <= setup'.budget[k]
  <2> SUFFICES ASSUME NEW k \in Disturbances
               PROVE  left'[k] <= setup'.budget[k]
    OBVIOUS
  <2>1. left[k] \in Nat /\ left'[k] \in Nat /\ setup.budget[k] \in Nat
    BY TypeStep, BoundsAssumption, RecreateAssumption DEF TypeOK
  <2> QED BY <2>1, LeftStep DEF Owned
<1>b. /\ setup' = setup
      /\ Unspent("lag")' => Unspent("lag") /\ ~Spend("lag")
      /\ Unspent("other")' => Unspent("other") /\ ~Spend("other")
  BY <1>0, UnspentStep, LeftStep
<1>c. flavour' = flavour /\ place' = place
  BY <1>b DEF flavour, place
<1> SUFFICES Same' /\ Held' /\ Given' /\ Removed'
  BY <1>a DEF Owned
<1> USE <1>0, <1>b, <1>c, GenTypes DEF Views, Guard
<1> HIDE DEF Unspent, flavour
<1>1. CASE Ends
  BY <1>1 DEF Ends, Report, Removed
<1>2. CASE Go
  <2>1. GoesOn
    BY <1>2, GoSteps
  <2>2. Same' /\ Held'
    BY <2>1 DEF GoesOn
  <2>3. Given' /\ Removed'
    <3>1. CASE Resolve
      BY <2>1, <3>1 DEF GoesOn, Resolve, Accepted, Syncing, Removed
    <3>2. CASE RemoveOld \/ DeleteObject
      <4>1. pc \in {"replace", "fetched"} /\ objects' = Without(obj)
            /\ newId' = newId
        BY <3>2 DEF RemoveOld, DeleteObject, Deleting
      <4>2. \A i \in Ids : i = obj.status.id => objects'[At(obj)][i] = 0
        BY <4>1, WithoutEffect
      <4>3. pc' \in {"create", "release"} /\ At(obj)' = At(obj)
        BY <2>1, <3>2 DEF GoesOn, RemoveOld, DeleteObject, At
      <4> QED BY <2>1, <4>1, <4>2, <4>3 DEF GoesOn, Removed
    <3>3. CASE RemoveOldFails("other") \/ DeleteFails("other")
      <4>1. Spend("other") /\ pc \in {"replace", "fetched"} /\ newId' = newId
        BY <3>3 DEF RemoveOldFails, DeleteFails, Deleting
      <4> QED BY <2>1, <4>1 DEF Removed
    <3>4. CASE Create
      <4>1. /\ pc = "create" /\ StoreObject(obj)
            /\ \/ flavour = "repair" /\ newId' = 0
               \/ newId' = ObjectId(obj) /\ pc' = "refetch"
        BY <3>4 DEF Create
      <4>2. syncGen' = obj.gen /\ pc' \in {"lookup", "refetch"}
            /\ At(obj) = place[obj.gen]
        BY <3>4 DEF Create, At
      <4>3. \A i \in Ids : i # ObjectId(obj) =>
              objects'[At(obj)][i] = objects[At(obj)][i]
        BY <4>1, StoreEffect
      <4> QED BY <2>1, <4>1, <4>2, <4>3 DEF GoesOn, Removed
    <3>5. CASE CreateNone
      BY <2>1, <3>5 DEF GoesOn, CreateNone, Removed, At
    <3>6. CASE Lookup
      BY <2>1, <3>6 DEF GoesOn, Lookup, Removed, Pushed
    <3> QED BY <1>2, <3>1, <3>2, <3>3, <3>4, <3>5, <3>6 DEF Go
  <2> QED BY <2>2, <2>3
<1>3. CASE Quiet
  <2>1. /\ UNCHANGED <<cr, obj, pc, newId, syncGen>> /\ At(obj)' = At(obj)
        /\ \A t \in Clusters, i \in Ids : objects'[t][i] \in {0, objects[t][i]}
    BY <1>3 DEF Quiet, At
  <2>2. pc \in {"refetch", "record"} => syncGen # 0
    BY DEF Pushed
  <2> QED BY <2>1, <2>2 DEF Removed
<1>4. CASE Fetch
  BY <1>4 DEF Fetch, ReadCache, Removed
<1>5. CASE Refetch
  BY <1>5 DEF Refetch, ReadCache, Removed
<1>6. CASE AddFinalizer
  <2>1. cr' = cr \/ (cr'.status = cr.status /\ cr'.finalizer)
    BY <1>6, WriteEffect, FinalizerFields DEF AddFinalizer
  <2> QED BY <1>6, <2>1, ReturnEffect DEF AddFinalizer, Removed
<1>7. CASE DriftDetected
  <2>1. CASE objFresh
    BY <1>7, <2>1, WriteEffect, ForgottenFields DEF DriftDetected, Removed
  <2>2. CASE ~objFresh
    BY <1>7, <2>2, WriteEffect, ForgottenFields, ReturnEffect
       DEF DriftDetected, Removed
  <2> QED BY <2>1, <2>2
<1>8. CASE Record
  <2>1. cr'.live = cr.live /\ cr'.finalizer = cr.finalizer /\ cr.finalizer
    BY <1>8, WriteEffect, SyncedFields DEF Record, TypeOK, Sync
  <2> QED BY <1>8, <2>1, ReturnEffect DEF Record, Removed
<1>9. CASE Release
  <2>1. cr' = cr \/ ~cr'.live
    BY <1>9, WriteEffect, FinalizerFields DEF Release
  <2> QED BY <1>9, <2>1, ReturnEffect DEF Release, Removed
<1>10. CASE Crash
  BY <1>10 DEF Crash, Restart, Removed
<1>11. CASE UserEdits /\ UNCHANGED ownVars
  BY <1>11, EditedFields DEF UserEdits, Overwrite, ownVars, Removed, At
<1>12. CASE UserDeletes /\ UNCHANGED ownVars
  BY <1>12, CondemnedFields DEF UserDeletes, Overwrite, ownVars, Removed, At
<1>13. CASE WatchDelivers /\ UNCHANGED ownVars
  BY <1>13 DEF WatchDelivers, ownVars, Removed, At
<1>14. CASE WriteFails
  BY <1>14, ReturnEffect DEF WriteFails, Removed
<1> QED
  BY StepKinds, <1>1, <1>2, <1>3, <1>4, <1>5, <1>6, <1>7, <1>8, <1>9, <1>10,
     <1>11, <1>12, <1>13, <1>14

(* A step that orphans an object loses the POST, the process, or the       *)
(* record after it, or leaves the cluster.                                 *)
Losses ==
  flavour # "repair" /\ Unspent("lag")' /\ Unspent("other")' =>
    \A t \in Clusters, i \in Ids : objects'[t][i] # 0 /\ ~Tracked(t, i)' =>
      \/ objects[t][i] # 0 /\ ~Tracked(t, i)
      \/ \E k \in {"server", "crash"} : left'[k] # left[k]
      \/ pc = "record" /\ (~objFresh \/ left'["kube"] # left["kube"])
      \/ MovesAway

LEMMA LossStep == IInv /\ [Next]_vars => Losses
<1> SUFFICES ASSUME IInv, [Next]_vars,
                    flavour # "repair", Unspent("lag")', Unspent("other")',
                    NEW t \in Clusters, NEW i \in Ids,
                    objects'[t][i] # 0, ~Tracked(t, i)',
                    objects[t][i] # 0 => Tracked(t, i),
                    \A k \in {"server", "crash"} : left'[k] = left[k],
                    pc = "record" => objFresh /\ left'["kube"] = left["kube"],
                    ~MovesAway
             PROVE  FALSE
  BY DEF Losses
<1>0. TypeOK /\ Views /\ Guard /\ Pushed /\ Owned
      /\ {"lag", "other", "server", "crash"} \subseteq Disturbances
  BY DEF IInv, Disturbances
<1>1. /\ objFresh \in BOOLEAN /\ obj \in Object(Status)
      /\ cr \in Object(Status)
      /\ objects \in [Clusters -> [Ids -> 0 .. MaxGen]]
      /\ newId # 0 => pc \in {"refetch", "record"}
      /\ i # 0 /\ newId \in {0} \cup Ids
      /\ pc = "lookup" => flavour = "repair"
      /\ At(cr) \in Clusters /\ At(obj) \in Clusters
  BY <1>0, GenTypes DEF TypeOK, Owned, Pushed
<1>a. /\ place' = place
      /\ At(cr)' = At(cr) /\ (pc = "record" => place[syncGen] = At(cr))
  <2>1. setup' = setup
    BY <1>0, SetupStep
  <2> QED BY <2>1 DEF place, MovesAway
<1>2. ~Spend("other") /\ ~Spend("server") /\ ~Spend("crash")
  <2>1. ~Spend("other")
    BY <1>0, UnspentStep
  <2>2. \A k \in {"server", "crash"} : left[k] \in Nat
    BY <1>0 DEF TypeOK
  <2>3. \A k \in {"server", "crash"} : Spend(k) => left'[k] = left[k] - 1
    BY <1>0, SpendEffect
  <2> QED BY <2>1, <2>2, <2>3
<1>3. /\ pc \in {"create", "release"} =>
           cr.status.id = 0 \/ objects[At(obj)][cr.status.id] = 0
      /\ pc \in {"refetch", "record"} =>
           cr.status.id \in {0, newId}
           \/ objects[place[syncGen]][cr.status.id] = 0
  BY <1>0, UnspentStep DEF Owned, Removed
<1>b. left'["other"] = left["other"]
  BY <1>0, UnspentStep
<1> USE <1>1, <1>2, <1>a, <1>b DEF Tracked
<1> HIDE DEF flavour, Unspent, place
<1>4. CASE Ends
  <2>1. objects'[t][i] \in {0, objects[t][i]}
    BY <1>4 DEF Ends
  <2>2. cr'.status.id = cr.status.id /\ cr'.live = cr.live
    BY <1>4 DEF Ends, Report
  <2>3. newId = 0
    BY <1>4 DEF Ends
  <2> QED BY <2>1, <2>2, <2>3
<1>16. CASE WriteFails
  <2>1. cr' = cr /\ objects' = objects /\ Spend("kube") /\ newId' = 0
    BY <1>16, ReturnEffect, <1>0 DEF WriteFails
  <2>2. pc # "record"
    BY <1>0, <2>1, SpendEffect DEF Disturbances, TypeOK
  <2>3. newId = 0
    BY <1>16, <2>2 DEF WriteFails, Writing, Accepted, Syncing
  <2> QED BY <2>1, <2>3
<1>5. CASE Go
  <2>1. GoesOn
    BY <1>5, GoSteps
  <2>2. CASE Resolve \/ CreateNone
    BY <2>1, <2>2 DEF GoesOn, Resolve, Accepted, Syncing, CreateNone
  <2>3. CASE RemoveOld \/ DeleteObject
    <3>1. /\ objects'[t][i] \in {0, objects[t][i]}
          /\ newId' = newId /\ syncGen' = syncGen
      BY <1>0, <2>3, WithoutEffect DEF RemoveOld, DeleteObject
    <3> QED BY <2>1, <3>1 DEF GoesOn
  <2>4. CASE RemoveOldFails("other") \/ DeleteFails("other")
    BY <2>4 DEF RemoveOldFails, DeleteFails
  <2>5. CASE Create
    <3>1. pc = "create" /\ StoreObject(obj) /\ newId' = ObjectId(obj)
      BY <2>5 DEF Create
    <3>2. ~(t = At(obj) /\ i = ObjectId(obj)) => objects'[t][i] = objects[t][i]
      BY <1>0, <3>1, StoreEffect
    <3>3. syncGen' = obj.gen /\ At(obj) = place[obj.gen] /\ newId = 0
      BY <2>5 DEF Create, At
    <3> QED BY <2>1, <3>1, <3>2, <3>3 DEF GoesOn
  <2>6. CASE Lookup
    BY <2>6 DEF Lookup
  <2> QED BY <1>5, <2>2, <2>3, <2>4, <2>5, <2>6 DEF Go
<1>6. CASE Quiet
  <2>1. /\ objects'[t][i] \in {0, objects[t][i]}
        /\ UNCHANGED <<cr, newId, syncGen>>
    BY <1>6 DEF Quiet
  <2> QED BY <2>1
<1>7. CASE Fetch \/ Refetch
  BY <1>7 DEF Fetch, Refetch
<1>8. CASE AddFinalizer
  <2>1. cr' = cr \/ (cr'.status = cr.status /\ cr'.live = cr.live)
    BY <1>0, <1>8, WriteEffect, FinalizerFields DEF AddFinalizer, Views
  <2> QED BY <1>8, <2>1 DEF AddFinalizer
<1>9. CASE DriftDetected
  <2>1. pc = "drift" /\ objects[At(obj)][obj.status.id] = 0
        /\ objects' = objects /\ newId = 0
        /\ (objFresh => obj = cr) /\ (cr' = cr \/ objFresh)
        /\ cr'.live = cr.live
    BY <1>0, <1>9, WriteEffect, ForgottenFields DEF DriftDetected, Views
  <2>2. CASE objFresh
    BY <2>1, <2>2
  <2>3. CASE cr' = cr
    BY <2>1, <2>3
  <2> QED BY <2>1, <2>2, <2>3
<1>10. CASE Record
  <2>1. cr'.live = cr.live /\ cr'.status.id = newId
        /\ pc = "record" /\ objects' = objects
    BY <1>0, <1>10, WriteEffect, SyncedFields DEF Record, Views, TypeOK
  <2>2. cr.live
    BY <1>0, <2>1 DEF Guard, Sync
  <2> QED BY <1>3, <2>1, <2>2
<1>11. CASE Release
  <2>1. objects' = objects /\ pc = "release" /\ newId = 0
    BY <1>11 DEF Release
  <2>2. CASE objFresh
    BY <1>0, <1>3, <2>1, <2>2 DEF Views
  <2>3. CASE ~objFresh
    <3>1. cr' = cr
      BY <1>0, <1>11, <2>3, WriteEffect, FinalizerFields DEF Release
    <3> QED BY <2>1, <3>1
  <2> QED BY <2>2, <2>3
<1>12. CASE Crash
  BY <1>12 DEF Crash, Restart
<1>13. CASE UserEdits /\ UNCHANGED ownVars
  BY <1>13, EditedFields DEF UserEdits, Overwrite, ownVars
<1>14. CASE UserDeletes /\ UNCHANGED ownVars
  BY <1>0, <1>14, CondemnedFields DEF UserDeletes, Overwrite, ownVars, Owned
<1>15. CASE WatchDelivers /\ UNCHANGED ownVars
  BY <1>15 DEF WatchDelivers, ownVars
<1> QED
  BY <1>0, StepKinds, <1>4, <1>5, <1>6, <1>7, <1>8, <1>9, <1>10, <1>11, <1>12,
     <1>13, <1>14, <1>15, <1>16

-----------------------------------------------------------------------------
(* The invariant holds when the operator starts.                           *)
LEMMA InitInv == Init => IInv
<1> SUFFICES ASSUME Init PROVE IInv
  OBVIOUS
<1> USE BoundsAssumption, RecreateAssumption DEF Init, KubeInit
<1>1. TypeOK
  <2>1. cr \in Object(Status) /\ cache \in Object(Status)
        /\ obj \in Object(Status)
    BY CreatedType
  <2>2. objects \in [Clusters -> [Ids -> 0 .. MaxGen]]
        /\ left \in [Disturbances -> Nat]
    OBVIOUS
  <2>3. newId \in 0 .. MaxId /\ syncGen \in 0 .. MaxGen
        /\ minted \in 0 .. MaxId
    OBVIOUS
  <2> QED BY <2>1, <2>2, <2>3 DEF TypeOK
<1>2. Views
  BY DEF Views, Created
<1>3. Guard
  BY DEF Guard, Created, Sync
<1>4. Pushed
  BY DEF Pushed, Backed, Created, NoStatus
<1>5. Owned
  BY DEF Owned, Removed, Created, NoStatus
<1> QED BY <1>1, <1>2, <1>3, <1>4, <1>5 DEF IInv

(* Every step keeps the invariant.                                         *)
LEMMA NextInv == IInv /\ [Next]_vars => IInv'
  BY TypeStep, ViewsStep, GuardStep, PushedStep, OwnedStep DEF IInv

(* The invariant holds forever.                                            *)
LEMMA Invariance == Spec => []IInv
  BY InitInv, NextInv, PTL DEF Spec

(* Every variable keeps its shape, whatever reads, writes and faults do.   *)
THEOREM TypeCorrect == Spec => []TypeOK
<1>1. IInv => TypeOK
  BY DEF IInv
<1> QED BY <1>1, Invariance, PTL

(* Ready and not Failed for the current generation means that the object   *)
(* in the status was built from it, however reads, edits and calls that    *)
(* fail half-way interleave.                                               *)
THEOREM ReadyMeansPushed == Spec => []ReadyIsPushed
<1>1. ASSUME IInv PROVE ReadyIsPushed
  <2>1. TypeOK /\ Backed
        /\ \A t \in Clusters, i \in Ids : objects[t][i] <= cr.gen
    BY <1>1 DEF IInv, Pushed
  <2> QED BY <2>1, GenTypes DEF Backed, ReadyIsPushed, AlreadySynced, At
<1> QED BY <1>1, Invariance, PTL

(* No drift handling, no deletion and no edit that stays in its cluster    *)
(* leaves an object behind: that takes a failed POST, a crash, a refused   *)
(* record, or an edit that names another cluster.                          *)
THEOREM OrphansNeedLoss == Spec => OrphansOnlyByLoss
<1>1. IInv /\ [Next]_vars => [Losses]_vars
  BY LossStep
<1>2. Spec => [][Losses]_vars
  BY <1>1, Invariance, PTL DEF Spec
<1> QED BY <1>2 DEF OrphansOnlyByLoss, Losses
-----------------------------------------------------------------------------
(* The controllers implement a mirror.                                     *)

(* A step that leaves the resource and what is being sent is a stutter.    *)
LEMMA StillMirror ==
  ASSUME cr' = cr, Sending' = Sending
  PROVE  UNCHANGED M!vars
  BY DEF M!vars, Life, Claimed, AlreadySynced

(* A step that ends a sending, or withdraws what was claimed, and changes  *)
(* neither the hold nor the spec.                                          *)
LEMMA AbandonMirror ==
  ASSUME cr'.live = cr.live, cr'.finalizer = cr.finalizer,
         cr'.deleting = cr.deleting, cr'.gen = cr.gen,
         Sending' = 0, Claimed' = 0 \/ Claimed' = Claimed
  PROVE  M!Next
  BY DEF M!Next, M!Abandon, Life

(* The steps of a pass between its reads and its writes: only the POST, or *)
(* the decision against one, begins to send.                               *)
LEMMA GoMirror ==
  ASSUME IInv, Go
  PROVE  M!Next \/ UNCHANGED M!vars
<1>0. cr' = cr /\ TypeOK
  BY GoSteps DEF GoesOn, IInv
<1>1. CASE Create \/ CreateNone
  <2>1. Sending = 0 /\ Sending' = obj.gen /\ pc = "create"
    BY <1>1 DEF Create, CreateNone, Sending
  <2>2. obj.gen \in 1 .. cr.gen
    BY <2>1, GenTypes, BoundTypes DEF IInv, Pushed, TypeOK, Object
  <2>3. Life \in {"held", "condemned"}
    BY <2>1 DEF IInv, Guard, Sync, Life
  <2>4. Life' = Life /\ Claimed' = Claimed
    BY <1>0 DEF Life, Claimed, AlreadySynced
  <2> QED BY <1>0, <2>1, <2>2, <2>3, <2>4 DEF M!Next, M!Send, M!Held
<1>2. CASE Resolve \/ RemoveOld \/ RemoveOldFails("other") \/ Lookup
           \/ DeleteObject \/ DeleteFails("other")
  <2>1. Sending' = Sending
    BY <1>2 DEF Resolve, Accepted, Syncing, RemoveOld, RemoveOldFails, Lookup,
       DeleteObject, DeleteFails, Deleting, Sending
  <2> QED BY <1>0, <2>1, StillMirror
<1> QED BY <1>1, <1>2 DEF Go

(* The status update ends the sending, with a claim if the newest spec was *)
(* sent and there is an object to show for it.                             *)
LEMMA RecordMirror ==
  ASSUME IInv, Record
  PROVE  M!Next
<1>0. TypeOK /\ pc = "record" /\ (objFresh => obj = cr) /\ cr \in Object(Status)
  BY DEF IInv, TypeOK, Views, Record
<1>1. Sending = syncGen /\ Sending' = 0
  BY <1>0, ReturnEffect DEF Record, Sending, TypeOK
<1>2. CASE objFresh
  <2>1. cr' = Synced(cr)
    BY <1>0, <1>2 DEF Record, TryStamp
  <2>2. /\ cr'.live = cr.live /\ cr'.finalizer = cr.finalizer
        /\ cr'.deleting = cr.deleting /\ cr'.gen = cr.gen
        /\ cr'.status.obsGen = syncGen
    BY <1>0, <2>1, SyncedFields DEF TypeOK
  <2>3. Life \in {"held", "condemned"} /\ Life' = Life
    BY <1>0, <2>2 DEF IInv, Guard, Sync, Life
  <2>4. CASE Claimed' = 0
    BY <1>1, <2>2, <2>4, AbandonMirror
  <2>5. CASE Claimed' # 0
    <3>1. Claimed' = cr.gen /\ syncGen = cr.gen
      BY <2>2, <2>5 DEF Claimed, AlreadySynced
    <3> QED BY <1>1, <2>2, <2>3, <3>1 DEF M!Next, M!Claim, M!Held
  <2> QED BY <2>4, <2>5
<1>3. CASE ~objFresh
  <2>1. cr' = cr
    BY <1>3 DEF Record, TryStamp
  <2>2. Claimed' = Claimed
    BY <2>1 DEF Claimed, AlreadySynced
  <2> QED BY <1>1, <2>1, <2>2, AbandonMirror
<1> QED BY <1>2, <1>3

(* Every step of the controller and of its world is a step of a mirror.    *)
LEMMA MirrorStep == IInv /\ [Next]_vars => [M!Next]_(M!vars)
<1> SUFFICES ASSUME IInv, [Next]_vars PROVE M!Next \/ UNCHANGED M!vars
  OBVIOUS
<1>0. /\ TypeOK /\ Views /\ Guard
      /\ cr \in Object(Status) /\ (objFresh => obj = cr)
      /\ (~objFresh) \in BOOLEAN
  BY DEF IInv, Views, TypeOK
<1>1. CASE Ends
  <2>1. Sending' = 0
    BY <1>1 DEF Ends, Sending
  <2>2. CASE cr' = cr
    <3>1. Claimed' = Claimed
      BY <2>2 DEF Claimed, AlreadySynced
    <3> QED BY <2>1, <2>2, <3>1, AbandonMirror
  <2>3. CASE Report(cr, cr')
    <3>1. Claimed' = 0 \/ Claimed' = Claimed
      BY <2>3 DEF Report, Claimed, AlreadySynced
    <3> QED BY <2>1, <2>3, <3>1, AbandonMirror DEF Report
  <2> QED BY <1>1, <2>2, <2>3 DEF Ends
<1>2. CASE Go
  BY <1>2, GoMirror
<1>3. CASE Quiet
  BY <1>3, StillMirror DEF Quiet, Sending
<1>4. CASE Fetch \/ Refetch
  BY <1>4, StillMirror DEF Fetch, Refetch, Sending
<1>5. CASE AddFinalizer
  <2>1. Sending' = 0 /\ Sending = 0
    BY <1>0, <1>5, ReturnEffect DEF AddFinalizer, Sending
  <2>2. CASE objFresh
    <3>1. cr' = Guarded(cr) /\ obj = cr
      BY <1>0, <1>5, <2>2 DEF AddFinalizer, TryWrite, Write
    <3>2. /\ cr'.live = cr.live /\ cr'.gen = cr.gen /\ cr'.finalizer
          /\ cr'.deleting = cr.deleting /\ cr'.status = cr.status
      BY <1>0, <3>1, FinalizerFields
    <3>3. Life = "open" /\ Life' = "held" /\ Claimed' = Claimed
      BY <1>0, <1>5, <3>1, <3>2
         DEF AddFinalizer, Views, Life, Claimed, AlreadySynced
    <3> QED BY <2>1, <3>2, <3>3 DEF M!Next, M!Protect
  <2>3. CASE ~objFresh
    <3>1. cr' = cr
      BY <1>5, <2>3 DEF AddFinalizer, TryWrite
    <3> QED BY <2>1, <3>1, StillMirror
  <2> QED BY <2>2, <2>3
<1>6. CASE DriftDetected
  <2>1. Sending' = 0 /\ Sending = 0
    BY <1>0, <1>6, ReturnEffect DEF DriftDetected, Sending
  <2>2. CASE objFresh
    <3>1. cr' = Forgotten(cr)
      BY <1>0, <1>6, <2>2 DEF DriftDetected, TryWrite, Write
    <3>2. Claimed' = 0
      BY <1>0, <3>1, ForgottenFields DEF Claimed, AlreadySynced
    <3> QED BY <1>0, <2>1, <3>1, <3>2, ForgottenFields, AbandonMirror
  <2>3. CASE ~objFresh
    <3>1. cr' = cr
      BY <1>6, <2>3 DEF DriftDetected, TryWrite
    <3> QED BY <2>1, <3>1, StillMirror
  <2> QED BY <2>2, <2>3
<1>7. CASE Record
  BY <1>7, RecordMirror
<1>8. CASE Release
  <2>1. Sending' = 0 /\ Sending = 0
    BY <1>0, <1>8, ReturnEffect DEF Release, Sending
  <2>2. CASE objFresh
    <3>1. cr' = Released(cr) /\ obj = cr
      BY <1>0, <1>8, <2>2 DEF Release, TryWrite, Write
    <3>2. Life = "condemned" /\ Life' = "gone"
      BY <1>0, <1>8, <3>1, FinalizerFields DEF Release, Views, Guard, Life
    <3>3. Claimed' = 0 /\ cr'.gen = cr.gen
      BY <1>0, <3>1, FinalizerFields DEF Claimed
    <3> QED BY <2>1, <3>2, <3>3 DEF M!Next, M!Finish
  <2>3. CASE ~objFresh
    <3>1. cr' = cr
      BY <1>8, <2>3 DEF Release, TryWrite
    <3> QED BY <2>1, <3>1, StillMirror
  <2> QED BY <2>2, <2>3
<1>9. CASE Crash \/ WriteFails
  <2>1. cr' = cr /\ Sending' = 0
    BY <1>0, <1>9, ReturnEffect DEF Crash, Restart, WriteFails, Sending
  <2>2. Claimed' = Claimed
    BY <2>1 DEF Claimed, AlreadySynced
  <2> QED BY <2>1, <2>2, AbandonMirror
<1>10. CASE UserEdits /\ UNCHANGED ownVars
  <2>1. cr' = Edited(cr) /\ cr.live /\ cr.gen < MaxGen
    BY <1>10 DEF UserEdits, Overwrite
  <2>2. Sending' = Sending
    BY <1>10 DEF ownVars, Sending
  <2>3. cr'.gen = cr.gen + 1 /\ Life' = Life /\ Life # "gone"
    BY <1>0, <2>1, EditedFields DEF Life
  <2>4. Claimed' = 0
    BY <1>0, <2>1, EditedFields, GenTypes
       DEF IInv, Pushed, Claimed, AlreadySynced
  <2> QED BY <2>1, <2>2, <2>3, <2>4 DEF M!Next, M!Edit
<1>11. CASE UserDeletes /\ UNCHANGED ownVars
  <2>1. cr' = Condemned(cr) /\ cr.live /\ ~cr.deleting
    BY <1>11 DEF UserDeletes, Overwrite
  <2>2. Sending' = Sending
    BY <1>11 DEF ownVars, Sending
  <2>3. cr'.gen = cr.gen /\ cr'.status = cr.status
    BY <1>0, <2>1, CondemnedFields
  <2>4. \/ Life = "open" /\ Life' = "gone"
        \/ Life = "held" /\ Life' = "condemned"
    BY <1>0, <2>1, CondemnedFields DEF Life
  <2>5. Claimed' = Claimed
    BY <1>0, <2>1, <2>3, CondemnedFields
       DEF IInv, Owned, Claimed, AlreadySynced
  <2> QED BY <2>2, <2>3, <2>4, <2>5 DEF M!Next, M!Delete
<1>12. CASE WatchDelivers /\ UNCHANGED ownVars
  BY <1>12, StillMirror DEF WatchDelivers, ownVars, Sending
<1> QED
  BY <1>0, StepKinds, <1>1, <1>2, <1>3, <1>4, <1>5, <1>6, <1>7, <1>8, <1>9,
     <1>10, <1>11, <1>12

(* The silence window, repair and backup controllers implement a mirror,   *)
(* with an object that is gone for a while during every edit.              *)
THEOREM ImplementsMirror == Spec => Mirrors
<1>1. Init => M!Init
  BY BoundsAssumption
     DEF Init, KubeInit, Created, NoStatus, M!Init, Life, Claimed,
         AlreadySynced, Sending
<1>2. IInv /\ [Next]_vars => [M!Next]_(M!vars)
  BY MirrorStep
<1> QED BY <1>1, <1>2, Invariance, PTL DEF Spec, Mirrors, M!Spec
=============================================================================
