------------------------- MODULE MetricAlertProofs --------------------------
(***************************************************************************)
(* Theorems of MetricAlert, for every value of MaxGen, MaxId, Budgets,     *)
(* Kinds, Clusters, Places and ConnStates that the assumptions allow.      *)
(*                                                                         *)
(* The three safety invariants rest on what the informer cache and the     *)
(* reconciler's copy of the resource can be behind on.  Views relates the  *)
(* versions (cr is the newest, cache is older, obj is older still), Guard  *)
(* carries the finalizer from the version that was read to the one that    *)
(* counts, Armoury says where the next reconciliation comes from, and      *)
(* Pushed orders the generations read, pushed and recorded.                *)
(***************************************************************************)
EXTENDS MetricAlert, TLAPS

Sync == {"drift", "sync", "refetch", "record"}

(* How old the copies are.                                                 *)
Views ==
  /\ cacheFresh => cache = cr
  /\ objFresh => obj = cr
  /\ pc = "idle" => ~objFresh
  /\ cr.live => cache.live
  /\ cache.deleting => cr.deleting
  /\ pc # "idle" => obj.live /\ (obj.deleting => cache.deleting)

(* The finalizer keeps the resource while somebody relies on it.           *)
Guard ==
  /\ cr.finalizer => cr.live
  /\ cr.live /\ cr.deleting => cr.finalizer
  /\ cache.finalizer /\ ~cache.deleting => cr.finalizer
  /\ pc # "idle" /\ obj.finalizer /\ ~obj.deleting => cr.finalizer
  /\ pc = "release" => obj.deleting
  /\ pc \in Sync => cr.finalizer

(* A copy that is out of date has left an event behind.                    *)
Armoury == pc # "idle" /\ ~objFresh => queued \/ ~cacheFresh

(* A recorded rule is at least as new as the record.                       *)
Backed ==
  /\ "Ready" \in cr.status.conds /\ "Failed" \notin cr.status.conds
  /\ cr.status.id # 0 /\ cr.status.obsGen # 0
  => LET r == rules[place[cr.status.obsGen]][cr.status.id]
     IN  r = 0 \/ cr.status.obsGen <= r

(* Generations are read, pushed and recorded in this order.                *)
Pushed ==
  /\ \A t \in Clusters, i \in Ids : rules[t][i] <= cr.gen
  /\ cache.gen <= cr.gen
  /\ pc # "idle" => obj.gen <= cache.gen
  /\ cr.status.obsGen <= cache.gen
  /\ syncGen <= cache.gen
  /\ pc \in {"fetched", "drift", "sync"} => cr.status.obsGen <= obj.gen
  /\ pc \in {"refetch", "record"} =>
       /\ newId \in Ids /\ syncGen # 0
       /\ LET r == rules[place[syncGen]][newId] IN r = 0 \/ syncGen <= r
  /\ Backed

IInv == TypeOK /\ Views /\ Guard /\ Armoury /\ Pushed
-----------------------------------------------------------------------------
(* What the updates the reconciler and the users make leave of a resource. *)

(* A new resource is well-formed.                                          *)
LEMMA CreatedType == Created(NoStatus) \in Object(Status)
  BY BoundsAssumption, AlertAssumption DEF Created, NoStatus, Object, Status

(* Setting conditions leaves the rest of the resource alone.               *)
LEMMA MarkedFields ==
  ASSUME NEW o \in Object(Status), NEW cs \in SUBSET Conditions
  PROVE  /\ Marked(o, cs) \in Object(Status)
         /\ Marked(o, cs).live = o.live
         /\ Marked(o, cs).gen = o.gen
         /\ Marked(o, cs).finalizer = o.finalizer
         /\ Marked(o, cs).deleting = o.deleting
         /\ Marked(o, cs).status.conds = o.status.conds \cup cs
         /\ Marked(o, cs).status.obsGen = o.status.obsGen
         /\ Marked(o, cs).status.id = o.status.id
  BY DEF Marked, Object, Status

(* Reporting a failure leaves all but conditions and obsGen alone.         *)
LEMMA FailingFields ==
  ASSUME NEW o \in Object(Status), NEW cs \in SUBSET Conditions
  PROVE  /\ Failing(o, cs) \in Object(Status)
         /\ Failing(o, cs).live = o.live
         /\ Failing(o, cs).gen = o.gen
         /\ Failing(o, cs).finalizer = o.finalizer
         /\ Failing(o, cs).deleting = o.deleting
         /\ Failing(o, cs).status.conds = o.status.conds \cup cs
         /\ Failing(o, cs).status.obsGen = o.gen
         /\ Failing(o, cs).status.id = o.status.id
  BY BoundsAssumption DEF Failing, Object, Status

(* Reporting drift forgets the id and leaves obsGen and the spec alone.    *)
LEMMA DriftedFields ==
  ASSUME NEW o \in Object(Status)
  PROVE  /\ Drifted(o) \in Object(Status)
         /\ Drifted(o).live = o.live
         /\ Drifted(o).gen = o.gen
         /\ Drifted(o).finalizer = o.finalizer
         /\ Drifted(o).deleting = o.deleting
         /\ Drifted(o).status.obsGen = o.status.obsGen
         /\ Drifted(o).status.id = 0
  BY AlertAssumption DEF Drifted, Object, Status, Conditions

(* Recording a sync sets obsGen and id to what the POST left in memory.    *)
LEMMA SyncedFields ==
  ASSUME NEW o \in Object(Status), newId \in 0 .. MaxId,
     syncGen \in 0 .. MaxGen
  PROVE  /\ Synced(o) \in Object(Status)
         /\ Synced(o).live = o.live
         /\ Synced(o).gen = o.gen
         /\ Synced(o).finalizer = o.finalizer
         /\ Synced(o).deleting = o.deleting
         /\ Synced(o).status.obsGen = syncGen
         /\ Synced(o).status.id = newId
  BY DEF Synced, Object, Status, Conditions

(* Putting the finalizer on or off; off also lets the resource go.         *)
LEMMA FinalizerFields ==
  ASSUME NEW o \in Object(Status)
  PROVE  /\ Guarded(o) \in Object(Status)
         /\ Guarded(o) = [o EXCEPT !.finalizer = TRUE]
         /\ Guarded(o).finalizer
         /\ Guarded(o).live = o.live
         /\ Guarded(o).gen = o.gen
         /\ Guarded(o).deleting = o.deleting
         /\ Guarded(o).status = o.status
         /\ Released(o) \in Object(Status)
         /\ ~Released(o).finalizer
         /\ ~Released(o).live
         /\ Released(o).gen = o.gen
         /\ Released(o).deleting = o.deleting
         /\ Released(o).status = o.status
  BY DEF Guarded, Released, Object

(* A user edit makes a new generation and nothing else.                    *)
LEMMA EditedFields ==
  ASSUME NEW o \in Object(Status)
  PROVE  /\ o.gen < MaxGen => Edited(o) \in Object(Status)
         /\ Edited(o).gen = o.gen + 1
         /\ Edited(o).live = o.live
         /\ Edited(o).finalizer = o.finalizer
         /\ Edited(o).deleting = o.deleting
         /\ Edited(o).status = o.status
  BY BoundsAssumption DEF Edited, Object

(* A user deletion marks a guarded resource and drops an unguarded one.    *)
LEMMA CondemnedFields ==
  ASSUME NEW o \in Object(Status)
  PROVE  /\ Condemned(o) \in Object(Status)
         /\ Condemned(o).gen = o.gen
         /\ Condemned(o).finalizer = o.finalizer
         /\ Condemned(o).status = o.status
         /\ o.finalizer =>
              Condemned(o).live = o.live /\ Condemned(o).deleting
         /\ ~o.finalizer =>
              ~Condemned(o).live /\ Condemned(o).deleting = o.deleting
<1>1. CASE o.finalizer
  BY <1>1 DEF Condemned, Object
<1>2. CASE ~o.finalizer
  BY <1>2 DEF Condemned, Object
<1> QED BY <1>1, <1>2

-----------------------------------------------------------------------------
(* Budgets stay natural numbers.                                           *)
LEMMA SpendType ==
  ASSUME TypeOK, NEW k \in Disturbances, Spend(k)
  PROVE  left' \in [Disturbances -> Nat]
  BY DEF TypeOK, Spend

LEMMA SpendAllType ==
  ASSUME TypeOK, NEW ks \in SUBSET Disturbances, SpendAll(ks)
  PROVE  left' \in [Disturbances -> Nat]
  BY DEF TypeOK, SpendAll

LEMMA ReportType ==
  ASSUME TypeOK, NEW new, NEW k \in Disturbances, TryReport(new, {k})
  PROVE  left' \in [Disturbances -> Nat]
<1>1. /\ {k} \in SUBSET Disturbances
      /\ {k} \cup {"report"} \in SUBSET Disturbances
  BY DEF Disturbances
<1> QED BY <1>1, SpendAllType DEF TryReport

LEMMA SpendNone ==
  ASSUME TypeOK, SpendAll({})
  PROVE  left' = left
  BY DEF TypeOK, SpendAll

(* A spec names a cluster.                                                 *)
LEMMA Placed ==
  ASSUME TypeOK
  PROVE  /\ place \in [1 .. MaxGen -> Clusters]
         /\ \A o \in Object(Status) : At(o) \in Clusters
  BY AlertAssumption DEF TypeOK, Object, At

(* A POST stays within the ids and stores a generation.                    *)
LEMMA StoreType ==
  ASSUME TypeOK, StoreRule(obj)
  PROVE  /\ RuleId(obj) \in Ids
         /\ rules' \in [Clusters -> [Ids -> 0 .. MaxGen]]
         /\ minted' \in 0 .. MaxId
<1>1. RuleId(obj) \in Ids /\ obj.gen \in 0 .. MaxGen /\ At(obj) \in Clusters
  BY BoundsAssumption, Placed DEF StoreRule, Built, TypeOK, Object
<1>2. rules' \in [Clusters -> [Ids -> 0 .. MaxGen]]
  BY <1>1 DEF StoreRule, Built, TypeOK
<1>3. minted' \in 0 .. MaxId
  BY <1>1, AlertAssumption DEF StoreRule, Built, RuleId, TypeOK, Ids
<1> QED BY <1>1, <1>2, <1>3

(* So does a DELETE.                                                       *)
LEMMA StrikeType ==
  ASSUME TypeOK
  PROVE  /\ [rules EXCEPT ![At(obj)] =
              [i \in Ids |-> IF i = obj.status.id THEN 0 ELSE @[i]]]
              \in [Clusters -> [Ids -> 0 .. MaxGen]]
         /\ obj.status.id # 0 => [rules EXCEPT ![At(obj)][obj.status.id] = 0]
              \in [Clusters -> [Ids -> 0 .. MaxGen]]
<1>1. /\ At(obj) \in Clusters /\ rules \in [Clusters -> [Ids -> 0 .. MaxGen]]
      /\ rules[At(obj)] \in [Ids -> 0 .. MaxGen] /\ 0 \in 0 .. MaxGen
      /\ obj.status.id # 0 => obj.status.id \in Ids
  <2>1. At(obj) \in Clusters
    BY Placed DEF TypeOK
  <2>2. rules \in [Clusters -> [Ids -> 0 .. MaxGen]] /\ 0 \in 0 .. MaxGen
    BY BoundsAssumption DEF TypeOK
  <2>3. obj.status.id # 0 => obj.status.id \in Ids
    BY AlertAssumption DEF TypeOK, Object, Status, Ids
  <2> QED BY <2>1, <2>2, <2>3
<1>2. [i \in Ids |-> IF i = obj.status.id THEN 0 ELSE rules[At(obj)][i]]
        \in [Ids -> 0 .. MaxGen]
  BY <1>1
<1> QED BY <1>1, <1>2

(* Returning leaves a well-formed, empty hand.                             *)
LEMMA ReturnType ==
  ASSUME TypeOK, NEW r \in BOOLEAN, Return(r)
  PROVE  /\ obj' \in Object(Status) /\ objFresh' \in BOOLEAN
         /\ timer' \in BOOLEAN
         /\ pc' = "idle" /\ newId' \in 0 .. MaxId /\ syncGen' \in 0 .. MaxGen
<1>1. obj' \in Object(Status) /\ objFresh' \in BOOLEAN
  BY CreatedType DEF Return, Forget
<1>2. timer' \in BOOLEAN
  BY Zenon DEF TypeOK, Return, Forget
<1>3. newId' \in 0 .. MaxId /\ syncGen' \in 0 .. MaxGen
  BY BoundsAssumption, AlertAssumption DEF Return
<1> QED BY <1>1, <1>2, <1>3 DEF Return

(* An update leaves a well-formed resource, whether it conflicts or not.   *)
LEMMA WriteType ==
  ASSUME TypeOK, NEW new \in Object(Status)
  PROVE  /\ TryWrite(new) => cr' \in Object(Status) /\ cacheFresh' \in BOOLEAN
         /\ \A ks : TryReport(new, ks) =>
              cr' \in Object(Status) /\ cacheFresh' \in BOOLEAN
<1>1. TryWrite(new) => cr' \in Object(Status)
  BY DEF TypeOK, TryWrite, Write
<1>2. TryWrite(new) => cacheFresh' \in BOOLEAN
  BY Zenon DEF TypeOK, TryWrite, Write
<1>3. ASSUME NEW ks, TryReport(new, ks)
      PROVE  cr' \in Object(Status) /\ cacheFresh' \in BOOLEAN
  <2>1. cr' \in Object(Status)
    BY <1>3 DEF TypeOK, TryReport, TryStamp
  <2>2. cacheFresh' \in BOOLEAN
    BY Zenon, <1>3 DEF TypeOK, TryReport, TryStamp
  <2> QED BY <2>1, <2>2
<1> QED BY <1>1, <1>2, <1>3

(* Every step keeps the shapes.                                            *)
LEMMA TypeStep == TypeOK /\ [Next]_vars => TypeOK'
<1> SUFFICES ASSUME TypeOK, [Next]_vars PROVE TypeOK'
  OBVIOUS
<1> USE BoundsAssumption, AlertAssumption DEF TypeOK, kubeVars, given
<1>1. CASE Fetch
  BY <1>1, SpendType DEF Fetch, ReadCache, Disturbances
<1>2. CASE AddFinalizer
  BY <1>2, ReturnType, WriteType, FinalizerFields DEF AddFinalizer
<1>3. CASE SkipPaused
  BY <1>3, ReturnType, WriteType, MarkedFields DEF SkipPaused, Conditions
<1>4. CASE ResolveFails
  <2>1. TryReport(Failing(obj, {"Failed"}), {})
    BY <1>4 DEF ResolveFails
  <2>2. left' \in [Disturbances -> Nat]
    <3>1. /\ {} \in SUBSET Disturbances
          /\ {} \cup {"report"} \in SUBSET Disturbances
      BY DEF Disturbances
    <3> QED BY <2>1, <3>1, SpendAllType DEF TryReport
  <2> QED
    BY <1>4, <2>2, ReturnType, WriteType, FailingFields
       DEF ResolveFails, Conditions
<1>5. CASE Resolve
  BY <1>5 DEF Resolve
<1>6. CASE DriftCheckFails
  BY <1>6, ReturnType, WriteType, MarkedFields, ReportType
     DEF DriftCheckFails, Conditions, Disturbances
<1>7. CASE SkipSynced
  BY <1>7, ReturnType DEF SkipSynced
<1>8. CASE DriftDetected
  BY <1>8, ReturnType, WriteType, DriftedFields DEF DriftDetected
<1>9. CASE PanelFails
  BY <1>9, ReturnType, WriteType, FailingFields, ReportType
     DEF PanelFails, Conditions, Disturbances
<1>10. CASE PostRule
  <2>1. newId' \in 0 .. MaxId
    BY <1>10, StoreType DEF PostRule, Ids
  <2>2. syncGen' \in 0 .. MaxGen
    BY <1>10 DEF PostRule, Object
  <2>3. rules' \in [Clusters -> [Ids -> 0 .. MaxGen]] /\ minted' \in 0 .. MaxId
    BY <1>10, StoreType DEF PostRule
  <2> QED BY <1>10, <2>1, <2>2, <2>3 DEF PostRule
<1>11. ASSUME NEW k \in {"server", "other"}, PostFails(k) PROVE TypeOK'
  <2>1. left' \in [Disturbances -> Nat]
    BY <1>11, ReportType DEF PostFails, Disturbances
  <2>2. rules' \in [Clusters -> [Ids -> 0 .. MaxGen]] /\ minted' \in 0 .. MaxId
    BY <1>11, StoreType DEF PostFails
  <2>3. cr' \in Object(Status) /\ cacheFresh' \in BOOLEAN
    BY <1>11, WriteType, FailingFields DEF PostFails, Conditions
  <2> QED BY <1>11, <2>1, <2>2, <2>3, ReturnType DEF PostFails
<1>12. CASE Refetch
  BY <1>12, SpendType DEF Refetch, ReadCache, Disturbances
<1>13. CASE Record
  BY <1>13, ReturnType, SyncedFields DEF Record
<1>14. CASE DeleteUnresolved
  BY <1>14, ReturnType DEF DeleteUnresolved
<1>15. CASE DeleteRule
  <2>1. rules' \in [Clusters -> [Ids -> 0 .. MaxGen]]
    BY <1>15, StrikeType DEF DeleteRule
  <2> QED BY <1>15, <2>1 DEF DeleteRule
<1>16. ASSUME NEW k \in {"server", "other"}, DeleteFails(k) PROVE TypeOK'
  <2>1. rules' \in [Clusters -> [Ids -> 0 .. MaxGen]]
    BY <1>16, StrikeType DEF DeleteFails, Deleting
  <2>2. left' \in [Disturbances -> Nat]
    BY <1>16, SpendType DEF DeleteFails, Disturbances
  <2>3. CASE k = "server"
    BY <1>16, <2>1, <2>2, <2>3, ReturnType DEF DeleteFails
  <2>4. CASE k # "server"
    BY <1>16, <2>1, <2>2, <2>4 DEF DeleteFails
  <2> QED BY <2>3, <2>4
<1>17. CASE Release
  BY <1>17, ReturnType, WriteType, FinalizerFields DEF Release
<1>18. CASE KubeEnvironment /\ UNCHANGED alertVars
  <2>1. CASE UserEdits
    BY <1>18, <2>1, EditedFields DEF UserEdits, Overwrite, alertVars
  <2>2. CASE UserDeletes
    BY <1>18, <2>2, CondemnedFields DEF UserDeletes, Overwrite, alertVars
  <2>3. CASE WatchDelivers
    BY <1>18, <2>3 DEF WatchDelivers, alertVars
  <2>4. CASE TimerFires
    BY <1>18, <2>4 DEF TimerFires, alertVars
  <2>5. CASE Resync
    BY <1>18, <2>5 DEF Resync, alertVars
  <2> QED
    BY <1>18, <2>1, <2>2, <2>3, <2>4, <2>5 DEF KubeEnvironment
<1>19. CASE Crash
  <2>1. left' \in [Disturbances -> Nat]
    BY <1>19, SpendType DEF Crash, Restart, Disturbances
  <2>2. obj' \in Object(Status)
    BY <1>19, CreatedType DEF Crash, Restart
  <2>3. cr' \in Object(Status) /\ cache' \in Object(Status)
    BY <1>19 DEF Crash, Restart
  <2>4. newId' \in 0 .. MaxId /\ syncGen' \in 0 .. MaxGen
    BY <1>19 DEF Crash
  <2> QED BY <1>19, <2>1, <2>2, <2>3, <2>4 DEF Crash, Restart
<1>20. CASE ConnChanges
  BY <1>20, SpendType DEF ConnChanges, Disturbances
<1>21. CASE ExternalDelete
  <2>1. rules' \in [Clusters -> [Ids -> 0 .. MaxGen]]
    BY <1>21 DEF ExternalDelete
  <2>2. left' \in [Disturbances -> Nat]
    BY <1>21, SpendType DEF ExternalDelete, Disturbances
  <2> QED BY <1>21, <2>1, <2>2 DEF ExternalDelete
<1>22. CASE UNCHANGED vars
  BY <1>22 DEF vars, alertVars
<1>23. CASE WriteFails
  BY <1>23, ReturnType, SpendType DEF WriteFails, Disturbances
<1> QED
  BY <1>1, <1>2, <1>3, <1>4, <1>5, <1>6, <1>7, <1>8, <1>9, <1>10, <1>11,
     <1>12, <1>13, <1>14, <1>15, <1>16, <1>17, <1>18, <1>19, <1>20, <1>21,
     <1>22, <1>23
     DEF Next, Reconcile, Admit, CheckDrift, Push, HandleDeletion, Environment

-----------------------------------------------------------------------------
(* An update counts only with the newest version in hand, and a report may *)
(* be lost; a cache that stays fresh saw no change.                        *)
LEMMA WriteEffect ==
  ASSUME TypeOK
  PROVE  /\ \A new : TryWrite(new) =>
              /\ objFresh => cr' = new
              /\ ~objFresh => cr' = cr /\ cacheFresh' = cacheFresh
              /\ cacheFresh' => cacheFresh /\ cr' = cr
         /\ \A new, ks : TryReport(new, ks) =>
              /\ \/ objFresh /\ cr' = new
                 \/ cr' = cr /\ cacheFresh' = cacheFresh
              /\ ~objFresh => cr' = cr /\ cacheFresh' = cacheFresh
              /\ cacheFresh' => cacheFresh /\ cr' = cr
<1> USE DEF TypeOK
<1>1. ASSUME NEW new, TryWrite(new)
      PROVE  /\ objFresh => cr' = new
             /\ ~objFresh => cr' = cr /\ cacheFresh' = cacheFresh
             /\ cacheFresh' => cacheFresh /\ cr' = cr
  BY Zenon, <1>1 DEF TryWrite, Write
<1>2. ASSUME NEW new, NEW ks, TryReport(new, ks)
      PROVE  /\ \/ objFresh /\ cr' = new
                \/ cr' = cr /\ cacheFresh' = cacheFresh
             /\ ~objFresh => cr' = cr /\ cacheFresh' = cacheFresh
             /\ cacheFresh' => cacheFresh /\ cr' = cr
  <2>1. CASE /\ objFresh /\ cr' = new
             /\ cacheFresh' \in {FALSE, cacheFresh /\ new = cr}
    BY Zenon, <2>1
  <2>2. CASE UNCHANGED <<cr, cacheFresh>>
    BY <2>2
  <2> QED BY Zenon, <1>2, <2>1, <2>2 DEF TryReport, TryStamp
<1> QED BY <1>1, <1>2

(* What a report spends.                                                   *)
LEMMA ReportSpends ==
  ASSUME TypeOK, NEW new, NEW k \in Disturbances, TryReport(new, {k})
  PROVE  /\ left'[k] = left[k] - 1 /\ left[k] > 0
         /\ objFresh => cr' = new \/ left'["report"] # left["report"]
<1> USE DEF TypeOK
<1>1. "report" \in Disturbances
  BY DEF Disturbances
<1>2. CASE SpendAll({k}) /\ TryStamp(new)
  BY <1>2 DEF SpendAll, TryStamp
<1>3. CASE SpendAll({k} \cup {"report"})
  BY <1>1, <1>3 DEF SpendAll
<1> QED BY <1>2, <1>3 DEF TryReport

(* After a return nothing is in hand, and a requeue has set the timer.     *)
LEMMA ReturnEffect ==
  ASSUME NEW r \in BOOLEAN, Return(r)
  PROVE  pc' = "idle" /\ ~objFresh' /\ (timer \/ r => timer') /\ syncGen' = 0
  BY Zenon DEF Return, Forget

(* No copy gets ahead of the resource.                                     *)
LEMMA ViewsStep == TypeOK /\ Views /\ Guard /\ [Next]_vars => Views'
<1> SUFFICES ASSUME TypeOK, Views, Guard, [Next]_vars PROVE Views'
  OBVIOUS
<1> USE DEF TypeOK, Views, Guard, Sync, kubeVars, given
<1>1. CASE Fetch
  BY <1>1 DEF Fetch, ReadCache
<1>2. CASE AddFinalizer
  <2>1. cr'.live = cr.live /\ cr'.deleting = cr.deleting
    BY <1>2, WriteEffect, FinalizerFields DEF AddFinalizer
  <2>2. cacheFresh' => cacheFresh /\ cr' = cr
    BY <1>2, WriteEffect DEF AddFinalizer
  <2>3. pc' = "idle" /\ ~objFresh' /\ cache' = cache
    BY <1>2, ReturnEffect DEF AddFinalizer
  <2> QED BY <2>1, <2>2, <2>3
<1>3. CASE SkipPaused
  <2>1. cr'.live = cr.live /\ cr'.finalizer = cr.finalizer
         /\ cr'.deleting = cr.deleting
    BY <1>3, WriteEffect, MarkedFields DEF SkipPaused, Conditions
  <2>2. cacheFresh' => cacheFresh /\ cr' = cr
    BY <1>3, WriteEffect DEF SkipPaused
  <2>3. pc' = "idle" /\ ~objFresh' /\ cache' = cache
    BY <1>3, ReturnEffect DEF SkipPaused
  <2> QED BY <2>1, <2>2, <2>3
<1>4. CASE ResolveFails
  <2>1. cr'.live = cr.live /\ cr'.finalizer = cr.finalizer
         /\ cr'.deleting = cr.deleting
    BY <1>4, WriteEffect, FailingFields DEF ResolveFails, Conditions
  <2>2. cacheFresh' => cacheFresh /\ cr' = cr
    BY <1>4, WriteEffect DEF ResolveFails
  <2>3. pc' = "idle" /\ ~objFresh' /\ cache' = cache
    BY <1>4, ReturnEffect DEF ResolveFails
  <2> QED BY <2>1, <2>2, <2>3
<1>5. CASE Resolve
  BY <1>5 DEF Resolve, Syncing
<1>6. CASE DriftCheckFails
  <2>1. cr'.live = cr.live /\ cr'.finalizer = cr.finalizer
         /\ cr'.deleting = cr.deleting
    BY <1>6, WriteEffect, MarkedFields DEF DriftCheckFails, Conditions
  <2>2. cacheFresh' => cacheFresh /\ cr' = cr
    BY <1>6, WriteEffect DEF DriftCheckFails
  <2>3. pc' = "idle" /\ ~objFresh' /\ cache' = cache
    BY <1>6, ReturnEffect DEF DriftCheckFails
  <2> QED BY <2>1, <2>2, <2>3
<1>7. CASE SkipSynced
  BY <1>7, ReturnEffect DEF SkipSynced
<1>8. CASE DriftDetected
  <2>1. cr'.live = cr.live /\ cr'.finalizer = cr.finalizer
        /\ cr'.deleting = cr.deleting /\ cache' = cache
    BY <1>8, WriteEffect, DriftedFields DEF DriftDetected
  <2>2. cacheFresh' => cacheFresh /\ cr' = cr
    BY <1>8, WriteEffect DEF DriftDetected
  <2>3. CASE objFresh
    <3>1. obj' = cr' /\ pc' = "sync" /\ objFresh'
      BY <1>8, <2>3, WriteEffect DEF DriftDetected
    <3>2. obj'.live /\ obj'.deleting = obj.deleting
           /\ obj'.finalizer = obj.finalizer
      BY <1>8, <2>3, DriftedFields DEF DriftDetected
    <3> QED BY <1>8, <2>1, <2>2, <3>1, <3>2 DEF DriftDetected
  <2>4. CASE ~objFresh
    <3>1. pc' = "idle" /\ ~objFresh'
      BY <1>8, <2>4, ReturnEffect DEF DriftDetected
    <3> QED BY <2>1, <2>2, <3>1
  <2> QED BY <2>3, <2>4
<1>9. CASE PanelFails
  <2>1. cr'.live = cr.live /\ cr'.finalizer = cr.finalizer
         /\ cr'.deleting = cr.deleting
    BY <1>9, WriteEffect, FailingFields DEF PanelFails, Conditions
  <2>2. cacheFresh' => cacheFresh /\ cr' = cr
    BY <1>9, WriteEffect DEF PanelFails
  <2>3. pc' = "idle" /\ ~objFresh' /\ cache' = cache
    BY <1>9, ReturnEffect DEF PanelFails
  <2> QED BY <2>1, <2>2, <2>3
<1>10. CASE PostRule
  BY <1>10 DEF PostRule
<1>11. ASSUME NEW k \in {"server", "other"}, PostFails(k) PROVE Views'
  <2>1. cr'.live = cr.live /\ cr'.finalizer = cr.finalizer
         /\ cr'.deleting = cr.deleting
    BY <1>11, WriteEffect, FailingFields DEF PostFails, Conditions
  <2>2. cacheFresh' => cacheFresh /\ cr' = cr
    BY <1>11, WriteEffect DEF PostFails
  <2>3. pc' = "idle" /\ ~objFresh' /\ cache' = cache
    BY <1>11, ReturnEffect DEF PostFails
  <2> QED BY <2>1, <2>2, <2>3
<1>12. CASE Refetch
  BY <1>12 DEF Refetch, ReadCache
<1>13. CASE Record
  <2>1. cr'.live = cr.live /\ cr'.finalizer = cr.finalizer
        /\ cr'.deleting = cr.deleting
    BY <1>13, SyncedFields DEF Record
  <2>2. cacheFresh' => cacheFresh /\ cr' = cr
    BY <1>13 DEF Record
  <2>3. pc' = "idle" /\ ~objFresh' /\ cache' = cache
    BY <1>13, ReturnEffect DEF Record
  <2> QED BY <2>1, <2>2, <2>3
<1>14. CASE DeleteUnresolved
  BY <1>14, ReturnEffect DEF DeleteUnresolved
<1>15. CASE DeleteRule
  BY <1>15 DEF DeleteRule, Deleting
<1>16. ASSUME NEW k \in {"server", "other"}, DeleteFails(k) PROVE Views'
  BY <1>16, ReturnEffect DEF DeleteFails, Deleting
<1>17. CASE Release
  <2>1. ~cr'.live \/ cr' = cr
    BY <1>17, WriteEffect, FinalizerFields DEF Release
  <2>2. cr'.deleting = cr.deleting
    BY <1>17, WriteEffect, FinalizerFields DEF Release
  <2>3. cacheFresh' => cacheFresh /\ cr' = cr
    BY <1>17, WriteEffect DEF Release
  <2>4. pc' = "idle" /\ ~objFresh' /\ cache' = cache
    BY <1>17, ReturnEffect DEF Release
  <2> QED BY <2>1, <2>2, <2>3, <2>4
<1>18. CASE UserEdits /\ UNCHANGED alertVars
  BY <1>18, EditedFields DEF UserEdits, Overwrite, alertVars
<1>19. CASE UserDeletes /\ UNCHANGED alertVars
  BY <1>19, CondemnedFields DEF UserDeletes, Overwrite, alertVars
<1>20. CASE WatchDelivers /\ UNCHANGED alertVars
  BY <1>20 DEF WatchDelivers, alertVars
<1>21. CASE (TimerFires \/ Resync) /\ UNCHANGED alertVars
  BY <1>21 DEF TimerFires, Resync, alertVars
<1>22. CASE Crash
  BY <1>22 DEF Crash, Restart
<1>23. CASE ConnChanges \/ ExternalDelete
  BY <1>23 DEF ConnChanges, ExternalDelete
<1>24. CASE UNCHANGED vars
  BY <1>24 DEF vars, alertVars
<1>25. CASE WriteFails
  BY <1>25, ReturnEffect DEF WriteFails
<1> QED
  BY <1>1, <1>2, <1>3, <1>4, <1>5, <1>6, <1>7, <1>8, <1>9, <1>10, <1>11, <1>12,
     <1>13, <1>14, <1>15, <1>16, <1>17, <1>18, <1>19, <1>20, <1>21, <1>22,
     <1>23, <1>24, <1>25
     DEF Next, Reconcile, Admit, CheckDrift, Push, HandleDeletion,
         Environment, KubeEnvironment

(* Only a deletion takes the finalizer off.                                *)
LEMMA GuardStep == TypeOK /\ Views /\ Guard /\ [Next]_vars => Guard'
<1> SUFFICES ASSUME TypeOK, Views, Guard, [Next]_vars PROVE Guard'
  OBVIOUS
<1> USE DEF TypeOK, Views, Guard, Sync, kubeVars, given
<1>1. CASE Fetch
  BY <1>1 DEF Fetch, ReadCache
<1>2. CASE AddFinalizer
  <2>1. pc' = "idle" /\ cache' = cache
    BY <1>2, ReturnEffect DEF AddFinalizer
  <2>2. CASE objFresh
    <3>1. cr'.live /\ cr'.finalizer
      BY <1>2, <2>2, WriteEffect, FinalizerFields DEF AddFinalizer
    <3> QED BY <2>1, <3>1
  <2>3. CASE ~objFresh
    <3>1. cr' = cr
      BY <1>2, <2>3, WriteEffect DEF AddFinalizer
    <3> QED BY <2>1, <3>1
  <2> QED BY <2>2, <2>3
<1>3. CASE SkipPaused
  <2>1. cr'.live = cr.live /\ cr'.finalizer = cr.finalizer
         /\ cr'.deleting = cr.deleting
    BY <1>3, WriteEffect, MarkedFields DEF SkipPaused, Conditions
  <2>2. cacheFresh' => cacheFresh /\ cr' = cr
    BY <1>3, WriteEffect DEF SkipPaused
  <2>3. pc' = "idle" /\ ~objFresh' /\ cache' = cache
    BY <1>3, ReturnEffect DEF SkipPaused
  <2> QED BY <2>1, <2>2, <2>3
<1>4. CASE ResolveFails
  <2>1. cr'.live = cr.live /\ cr'.finalizer = cr.finalizer
         /\ cr'.deleting = cr.deleting
    BY <1>4, WriteEffect, FailingFields DEF ResolveFails, Conditions
  <2>2. cacheFresh' => cacheFresh /\ cr' = cr
    BY <1>4, WriteEffect DEF ResolveFails
  <2>3. pc' = "idle" /\ ~objFresh' /\ cache' = cache
    BY <1>4, ReturnEffect DEF ResolveFails
  <2> QED BY <2>1, <2>2, <2>3
<1>5. CASE Resolve
  BY <1>5 DEF Resolve, Syncing
<1>6. CASE DriftCheckFails
  <2>1. cr'.live = cr.live /\ cr'.finalizer = cr.finalizer
         /\ cr'.deleting = cr.deleting
    BY <1>6, WriteEffect, MarkedFields DEF DriftCheckFails, Conditions
  <2>2. cacheFresh' => cacheFresh /\ cr' = cr
    BY <1>6, WriteEffect DEF DriftCheckFails
  <2>3. pc' = "idle" /\ ~objFresh' /\ cache' = cache
    BY <1>6, ReturnEffect DEF DriftCheckFails
  <2> QED BY <2>1, <2>2, <2>3
<1>7. CASE SkipSynced
  BY <1>7, ReturnEffect DEF SkipSynced
<1>8. CASE DriftDetected
  <2>1. cr'.live = cr.live /\ cr'.finalizer = cr.finalizer
        /\ cr'.deleting = cr.deleting /\ cache' = cache
    BY <1>8, WriteEffect, DriftedFields DEF DriftDetected
  <2>2. cacheFresh' => cacheFresh /\ cr' = cr
    BY <1>8, WriteEffect DEF DriftDetected
  <2>3. CASE objFresh
    <3>1. obj' = cr' /\ pc' = "sync" /\ objFresh'
      BY <1>8, <2>3, WriteEffect DEF DriftDetected
    <3>2. obj'.live /\ obj'.deleting = obj.deleting
           /\ obj'.finalizer = obj.finalizer
      BY <1>8, <2>3, DriftedFields DEF DriftDetected
    <3> QED BY <1>8, <2>1, <2>2, <3>1, <3>2 DEF DriftDetected
  <2>4. CASE ~objFresh
    <3>1. pc' = "idle" /\ ~objFresh'
      BY <1>8, <2>4, ReturnEffect DEF DriftDetected
    <3> QED BY <2>1, <2>2, <3>1
  <2> QED BY <2>3, <2>4
<1>9. CASE PanelFails
  <2>1. cr'.live = cr.live /\ cr'.finalizer = cr.finalizer
         /\ cr'.deleting = cr.deleting
    BY <1>9, WriteEffect, FailingFields DEF PanelFails, Conditions
  <2>2. cacheFresh' => cacheFresh /\ cr' = cr
    BY <1>9, WriteEffect DEF PanelFails
  <2>3. pc' = "idle" /\ ~objFresh' /\ cache' = cache
    BY <1>9, ReturnEffect DEF PanelFails
  <2> QED BY <2>1, <2>2, <2>3
<1>10. CASE PostRule
  BY <1>10 DEF PostRule
<1>11. ASSUME NEW k \in {"server", "other"}, PostFails(k) PROVE Guard'
  <2>1. cr'.live = cr.live /\ cr'.finalizer = cr.finalizer
         /\ cr'.deleting = cr.deleting
    BY <1>11, WriteEffect, FailingFields DEF PostFails, Conditions
  <2>2. cacheFresh' => cacheFresh /\ cr' = cr
    BY <1>11, WriteEffect DEF PostFails
  <2>3. pc' = "idle" /\ ~objFresh' /\ cache' = cache
    BY <1>11, ReturnEffect DEF PostFails
  <2> QED BY <2>1, <2>2, <2>3
<1>12. CASE Refetch
  BY <1>12 DEF Refetch, ReadCache
<1>13. CASE Record
  <2>1. cr'.live = cr.live /\ cr'.finalizer = cr.finalizer
        /\ cr'.deleting = cr.deleting
    BY <1>13, SyncedFields DEF Record
  <2>2. cacheFresh' => cacheFresh /\ cr' = cr
    BY <1>13 DEF Record
  <2>3. pc' = "idle" /\ ~objFresh' /\ cache' = cache
    BY <1>13, ReturnEffect DEF Record
  <2> QED BY <2>1, <2>2, <2>3
<1>14. CASE DeleteUnresolved
  BY <1>14, ReturnEffect DEF DeleteUnresolved
<1>15. CASE DeleteRule
  BY <1>15 DEF DeleteRule, Deleting
<1>16. ASSUME NEW k \in {"server", "other"}, DeleteFails(k) PROVE Guard'
  BY <1>16, ReturnEffect DEF DeleteFails, Deleting
<1>17. CASE Release
  <2>1. pc' = "idle" /\ cache' = cache /\ cache.deleting
    BY <1>17, ReturnEffect DEF Release
  <2>2. CASE objFresh
    <3>1. ~cr'.live /\ ~cr'.finalizer
      BY <1>17, <2>2, WriteEffect, FinalizerFields DEF Release
    <3> QED BY <2>1, <3>1
  <2>3. CASE ~objFresh
    <3>1. cr' = cr
      BY <1>17, <2>3, WriteEffect DEF Release
    <3> QED BY <2>1, <3>1
  <2> QED BY <2>2, <2>3
<1>18. CASE UserEdits /\ UNCHANGED alertVars
  BY <1>18, EditedFields DEF UserEdits, Overwrite, alertVars
<1>19. CASE UserDeletes /\ UNCHANGED alertVars
  BY <1>19, CondemnedFields DEF UserDeletes, Overwrite, alertVars
<1>20. CASE WatchDelivers /\ UNCHANGED alertVars
  BY <1>20 DEF WatchDelivers, alertVars
<1>21. CASE (TimerFires \/ Resync) /\ UNCHANGED alertVars
  BY <1>21 DEF TimerFires, Resync, alertVars
<1>22. CASE Crash
  BY <1>22 DEF Crash, Restart
<1>23. CASE ConnChanges \/ ExternalDelete
  BY <1>23 DEF ConnChanges, ExternalDelete
<1>24. CASE UNCHANGED vars
  BY <1>24 DEF vars, alertVars
<1>25. CASE WriteFails
  BY <1>25, ReturnEffect DEF WriteFails
<1> QED
  BY <1>1, <1>2, <1>3, <1>4, <1>5, <1>6, <1>7, <1>8, <1>9, <1>10, <1>11, <1>12,
     <1>13, <1>14, <1>15, <1>16, <1>17, <1>18, <1>19, <1>20, <1>21, <1>22,
     <1>23, <1>24, <1>25
     DEF Next, Reconcile, Admit, CheckDrift, Push, HandleDeletion,
         Environment, KubeEnvironment

(* What is written behind the back of a pass leaves an event.              *)
LEMMA ArmouryStep ==
  TypeOK /\ Views /\ Guard /\ Armoury /\ [Next]_vars => Armoury'
<1> SUFFICES ASSUME TypeOK, Views, Guard, Armoury, [Next]_vars PROVE Armoury'
  OBVIOUS
<1> USE DEF TypeOK, Views, Guard, Armoury, kubeVars, given
<1>1. CASE Fetch
  BY <1>1 DEF Fetch, ReadCache
<1>2. CASE AddFinalizer
  BY <1>2, ReturnEffect, WriteEffect, FinalizerFields DEF AddFinalizer
<1>3. CASE SkipPaused
  BY <1>3, ReturnEffect, WriteEffect, MarkedFields
     DEF SkipPaused, Conditions, Syncing
<1>4. CASE ResolveFails
  BY <1>4, ReturnEffect, WriteEffect, FailingFields
     DEF ResolveFails, Conditions, Syncing
<1>5. CASE Resolve
  BY <1>5 DEF Resolve, Syncing
<1>6. CASE DriftCheckFails
  BY <1>6, ReturnEffect, WriteEffect, MarkedFields
     DEF DriftCheckFails, Conditions
<1>7. CASE SkipSynced
  BY <1>7, ReturnEffect DEF SkipSynced
<1>8. CASE DriftDetected
  BY <1>8, ReturnEffect, WriteEffect, DriftedFields DEF DriftDetected
<1>9. CASE PanelFails
  BY <1>9, ReturnEffect, WriteEffect, FailingFields DEF PanelFails, Conditions
<1>10. CASE PostRule
  BY <1>10 DEF PostRule
<1>11. ASSUME NEW k \in {"server", "other"}, PostFails(k) PROVE Armoury'
  BY <1>11, ReturnEffect, WriteEffect, FailingFields DEF PostFails, Conditions
<1>12. CASE Refetch
  BY <1>12 DEF Refetch, ReadCache
<1>13. CASE Record
  BY <1>13, ReturnEffect, SyncedFields DEF Record
<1>14. CASE DeleteUnresolved
  BY <1>14, ReturnEffect DEF DeleteUnresolved
<1>15. CASE DeleteRule
  BY <1>15 DEF DeleteRule, Deleting
<1>16. ASSUME NEW k \in {"server", "other"}, DeleteFails(k) PROVE Armoury'
  BY <1>16, ReturnEffect DEF DeleteFails, Deleting
<1>17. CASE Release
  BY <1>17, ReturnEffect, WriteEffect, FinalizerFields DEF Release
<1>18. CASE UserEdits /\ UNCHANGED alertVars
  BY <1>18, EditedFields DEF UserEdits, Overwrite, alertVars
<1>19. CASE UserDeletes /\ UNCHANGED alertVars
  BY <1>19, CondemnedFields DEF UserDeletes, Overwrite, alertVars
<1>20. CASE WatchDelivers /\ UNCHANGED alertVars
  BY <1>20 DEF WatchDelivers, alertVars
<1>21. CASE (TimerFires \/ Resync) /\ UNCHANGED alertVars
  BY <1>21 DEF TimerFires, Resync, alertVars
<1>22. CASE Crash
  BY <1>22 DEF Crash, Restart
<1>23. CASE ConnChanges \/ ExternalDelete
  BY <1>23 DEF ConnChanges, ExternalDelete
<1>24. CASE UNCHANGED vars
  BY <1>24 DEF vars, alertVars
<1>25. CASE WriteFails
  BY <1>25, ReturnEffect DEF WriteFails
<1> QED
  BY <1>1, <1>2, <1>3, <1>4, <1>5, <1>6, <1>7, <1>8, <1>9, <1>10, <1>11, <1>12,
     <1>13, <1>14, <1>15, <1>16, <1>17, <1>18, <1>19, <1>20, <1>21, <1>22,
     <1>23, <1>24, <1>25
     DEF Next, Reconcile, Admit, CheckDrift, Push, HandleDeletion,
         Environment, KubeEnvironment

(* Silence comes only of a lost report of a final refusal.                 *)
FallsSilent ==
  Silent' /\ ~Silent => pc = "sync" /\ left'["report"] # left["report"]

LEMMA SilenceStep ==
  TypeOK /\ Views /\ Guard /\ Armoury /\ [Next]_vars => FallsSilent
<1> SUFFICES ASSUME TypeOK, Views, Guard, Armoury, [Next]_vars PROVE FallsSilent
  OBVIOUS
<1> USE DEF TypeOK, Views, Guard, Armoury, FallsSilent, Silent, Armed,
            kubeVars, given
<1>1. CASE Fetch
  BY <1>1 DEF Fetch, ReadCache
<1>2. CASE AddFinalizer
  <2>1. pc' = "idle" /\ cache' = cache /\ queued' = queued
    BY <1>2, ReturnEffect DEF AddFinalizer
  <2>2. CASE objFresh
    <3>1. cr' = Guarded(cr) /\ cr' # cr
      BY <1>2, <2>2, WriteEffect, FinalizerFields DEF AddFinalizer
    <3>2. ~cacheFresh'
      BY <1>2, <3>1, WriteEffect DEF AddFinalizer
    <3> QED BY <2>1, <3>2
  <2>3. CASE ~objFresh
    <3>1. timer'
      BY <1>2, <2>3, ReturnEffect DEF AddFinalizer
    <3> QED BY <3>1
  <2> QED BY <2>2, <2>3
<1>3. CASE SkipPaused
  <2>1. pc' = "idle" /\ cache' = cache /\ queued' = queued
    BY <1>3, ReturnEffect DEF SkipPaused
  <2>2. CASE objFresh
    <3>1. cr' = Marked(obj, {"Paused"}) /\ {"Paused"} \in SUBSET Conditions
      BY <1>3, <2>2, WriteEffect DEF SkipPaused, Conditions
    <3>2. cr'.status.conds = obj.status.conds \cup {"Paused"}
      BY <3>1, MarkedFields
    <3> QED BY <3>2
  <2>3. CASE ~objFresh
    <3>1. timer'
      BY <1>3, <2>3, ReturnEffect DEF SkipPaused
    <3> QED BY <3>1
  <2> QED BY <2>2, <2>3
<1>4. CASE ResolveFails
  BY <1>4, ReturnEffect, WriteEffect, FailingFields
     DEF ResolveFails, Conditions, Syncing
<1>5. CASE Resolve
  BY <1>5 DEF Resolve, Syncing
<1>6. CASE DriftCheckFails
  BY <1>6, ReturnEffect, WriteEffect, MarkedFields
     DEF DriftCheckFails, Conditions
<1>7. CASE SkipSynced
  BY <1>7, ReturnEffect DEF SkipSynced
<1>8. CASE DriftDetected
  BY <1>8, ReturnEffect, WriteEffect, DriftedFields DEF DriftDetected
<1>9. CASE PanelFails
  BY <1>9, ReturnEffect, WriteEffect, FailingFields DEF PanelFails, Conditions
<1>10. CASE PostRule
  BY <1>10 DEF PostRule
<1>11. ASSUME NEW k \in {"server", "other"}, PostFails(k) PROVE FallsSilent
  <2>1. pc = "sync" /\ cache' = cache /\ queued' = queued
    BY <1>11 DEF PostFails
  <2>2. k \in Disturbances
    BY DEF Disturbances
  <2>3. objFresh => cr' = Failing(obj, {"Failed", "Progressing"})
                      \/ left'["report"] # left["report"]
    BY <1>11, <2>2, ReportSpends DEF PostFails
  <2>4. ~objFresh => cacheFresh' = cacheFresh
    BY <1>11, WriteEffect DEF PostFails
  <2>5. objFresh => "Failed" \in cr'.status.conds
                      \/ left'["report"] # left["report"]
    BY <2>3, FailingFields DEF Conditions
  <2> QED BY <2>1, <2>4, <2>5
<1>12. CASE Refetch
  BY <1>12 DEF Refetch, ReadCache
<1>13. CASE Record
  BY <1>13, ReturnEffect, SyncedFields DEF Record
<1>14. CASE DeleteUnresolved
  BY <1>14, ReturnEffect DEF DeleteUnresolved
<1>15. CASE DeleteRule
  BY <1>15 DEF DeleteRule, Deleting
<1>16. ASSUME NEW k \in {"server", "other"}, DeleteFails(k) PROVE FallsSilent
  BY <1>16, ReturnEffect DEF DeleteFails, Deleting
<1>17. CASE Release
  BY <1>17, ReturnEffect, WriteEffect, FinalizerFields DEF Release
<1>18. CASE UserEdits /\ UNCHANGED alertVars
  BY <1>18, EditedFields DEF UserEdits, Overwrite, alertVars
<1>19. CASE UserDeletes /\ UNCHANGED alertVars
  BY <1>19, CondemnedFields DEF UserDeletes, Overwrite, alertVars
<1>20. CASE WatchDelivers /\ UNCHANGED alertVars
  BY <1>20 DEF WatchDelivers, alertVars
<1>21. CASE (TimerFires \/ Resync) /\ UNCHANGED alertVars
  BY <1>21 DEF TimerFires, Resync, alertVars
<1>22. CASE Crash
  BY <1>22 DEF Crash, Restart
<1>23. CASE ConnChanges \/ ExternalDelete
  BY <1>23 DEF ConnChanges, ExternalDelete
<1>24. CASE UNCHANGED vars
  BY <1>24 DEF vars, alertVars
<1>25. CASE WriteFails
  BY <1>25, ReturnEffect DEF WriteFails
<1> QED
  BY <1>1, <1>2, <1>3, <1>4, <1>5, <1>6, <1>7, <1>8, <1>9, <1>10, <1>11, <1>12,
     <1>13, <1>14, <1>15, <1>16, <1>17, <1>18, <1>19, <1>20, <1>21, <1>22,
     <1>23, <1>24, <1>25
     DEF Next, Reconcile, Admit, CheckDrift, Push, HandleDeletion,
         Environment, KubeEnvironment

(* What the generations name never changes.                                *)
LEMMA PlaceStep ==
  ASSUME [Next]_vars
  PROVE  place' = place
<1> USE DEF given
<1>1. CASE Admit \/ CheckDrift
  BY <1>1 DEF Admit, Fetch, AddFinalizer, SkipPaused, ResolveFails, Resolve,
              CheckDrift, DriftCheckFails, SkipSynced, DriftDetected
<1>2. CASE Push
  BY <1>2 DEF Push, PanelFails, PostRule, Refetch, Record, PostFails
<1>3. CASE HandleDeletion \/ WriteFails
  BY <1>3 DEF HandleDeletion, DeleteUnresolved, DeleteRule, Release,
              DeleteFails, WriteFails
<1>4. CASE Environment \/ UNCHANGED vars
  BY <1>4 DEF Environment, Crash, ConnChanges, ExternalDelete, alertVars, vars
<1> QED BY <1>1, <1>2, <1>3, <1>4 DEF Next, Reconcile

(* Generations are numbers.                                                *)
LEMMA GenTypes ==
  ASSUME TypeOK
  PROVE  /\ cr.gen \in Nat /\ cache.gen \in Nat /\ obj.gen \in Nat
         /\ cr.status.obsGen \in 0 .. MaxGen /\ syncGen \in 0 .. MaxGen
         /\ cr.status.obsGen \in Nat /\ syncGen \in Nat
         /\ cr.status.id \in {0} \cup Ids /\ obj.status.id \in {0} \cup Ids
         /\ \A t \in Clusters, i \in Ids : rules[t][i] \in Nat
         /\ \A g \in 1 .. MaxGen : place[g] \in Clusters
<1>1. /\ cr \in Object(Status) /\ cache \in Object(Status)
      /\ obj \in Object(Status) /\ syncGen \in 0 .. MaxGen
  BY DEF TypeOK
<1>3. /\ cr.gen \in Nat /\ cache.gen \in Nat /\ obj.gen \in Nat
      /\ cr.status.obsGen \in 0 .. MaxGen
      /\ cr.status.obsGen \in Nat /\ syncGen \in Nat
  BY <1>1, BoundsAssumption DEF Object, Status
<1>4. cr.status.id \in 0 .. MaxId /\ obj.status.id \in 0 .. MaxId
  BY <1>1 DEF Object, Status
<1>5. cr.status.id \in {0} \cup Ids /\ obj.status.id \in {0} \cup Ids
  BY <1>4, AlertAssumption DEF Ids
<1>2. \A t \in Clusters, i \in Ids : rules[t][i] \in 0 .. MaxGen
  BY DEF TypeOK
<1> QED BY <1>1, <1>2, <1>3, <1>4, <1>5, Placed

(* What a step that returns has to show.                                   *)
LEMMA PushedReturn ==
  ASSUME TypeOK, Pushed, Backed',
         pc' = "idle", syncGen' = 0, cache' = cache, cr'.gen = cr.gen,
         cr'.status.obsGen <= cache.gen,
         \A t \in Clusters, i \in Ids : rules'[t][i] <= cr.gen
  PROVE  Pushed'
  BY GenTypes DEF Pushed

(* A generation is recorded only after it was pushed.                      *)
LEMMA PushedStep == TypeOK /\ Views /\ Pushed /\ [Next]_vars => Pushed'
<1> SUFFICES ASSUME TypeOK, Views, Pushed, [Next]_vars PROVE Pushed'
  OBVIOUS
<1>0. place' = place
  BY PlaceStep
<1> USE <1>0, GenTypes DEF TypeOK, Views, Pushed, kubeVars, given
<1>1. CASE Fetch
  BY <1>1 DEF Fetch, ReadCache, Backed
<1>2. CASE AddFinalizer
  <2>1. cr'.gen = cr.gen /\ cr'.status.obsGen <= cache.gen
    BY <1>2, WriteEffect, FinalizerFields DEF AddFinalizer, Conditions
  <2>2. Backed'
    BY <1>2, WriteEffect, FinalizerFields DEF AddFinalizer, Backed, Conditions
  <2>3. pc' = "idle" /\ syncGen' = 0 /\ cache' = cache /\ rules' = rules
    BY <1>2, ReturnEffect DEF AddFinalizer
  <2> QED BY <2>1, <2>2, <2>3, PushedReturn
<1>3. CASE SkipPaused
  <2>1. cr'.gen = cr.gen /\ cr'.status.obsGen <= cache.gen
    BY <1>3, WriteEffect, MarkedFields DEF SkipPaused, Syncing, Conditions
  <2>2. Backed'
    BY <1>3, WriteEffect, MarkedFields
       DEF SkipPaused, Syncing, Backed, Conditions
  <2>3. pc' = "idle" /\ syncGen' = 0 /\ cache' = cache /\ rules' = rules
    BY <1>3, ReturnEffect DEF SkipPaused
  <2> QED BY <2>1, <2>2, <2>3, PushedReturn
<1>4. CASE ResolveFails
  <2>1. cr'.gen = cr.gen /\ cr'.status.obsGen <= cache.gen
    BY <1>4, WriteEffect, FailingFields DEF ResolveFails, Syncing, Conditions
  <2>2. Backed'
    BY <1>4, WriteEffect, FailingFields
       DEF ResolveFails, Syncing, Backed, Conditions
  <2>3. pc' = "idle" /\ syncGen' = 0 /\ cache' = cache /\ rules' = rules
    BY <1>4, ReturnEffect DEF ResolveFails
  <2> QED BY <2>1, <2>2, <2>3, PushedReturn
<1>5. CASE Resolve
  BY <1>5 DEF Resolve, Syncing, Backed
<1>6. CASE DriftCheckFails
  <2>1. cr'.gen = cr.gen /\ cr'.status.obsGen <= cache.gen
    BY <1>6, WriteEffect, MarkedFields DEF DriftCheckFails, Conditions
  <2>2. Backed'
    BY <1>6, WriteEffect, MarkedFields DEF DriftCheckFails, Backed, Conditions
  <2>3. pc' = "idle" /\ syncGen' = 0 /\ cache' = cache /\ rules' = rules
    BY <1>6, ReturnEffect DEF DriftCheckFails
  <2> QED BY <2>1, <2>2, <2>3, PushedReturn
<1>7. CASE SkipSynced
  <2>1. cr' = cr /\ rules' = rules /\ cache' = cache
    BY <1>7 DEF SkipSynced
  <2>2. Backed'
    BY <2>1 DEF Backed
  <2>3. pc' = "idle" /\ syncGen' = 0
    BY <1>7, ReturnEffect DEF SkipSynced
  <2> QED BY <2>1, <2>2, <2>3, PushedReturn
<1>8. CASE DriftDetected
  <2>1. cr'.gen = cr.gen /\ cr'.status.obsGen = cr.status.obsGen
    BY <1>8, WriteEffect, DriftedFields DEF DriftDetected
  <2>2. Backed'
    BY <1>8, WriteEffect, DriftedFields DEF DriftDetected, Backed
  <2>3. CASE objFresh
    <3>1. obj'.gen = obj.gen /\ pc' = "sync"
      BY <1>8, <2>3, DriftedFields DEF DriftDetected
    <3> QED BY <1>8, <2>1, <2>2, <2>3, <3>1 DEF DriftDetected
  <2>4. CASE ~objFresh
    <3>1. pc' = "idle" /\ syncGen' = 0 /\ cache' = cache /\ rules' = rules
      BY <1>8, <2>4, ReturnEffect DEF DriftDetected
    <3> QED BY <2>1, <2>2, <3>1, PushedReturn
  <2> QED BY <2>3, <2>4
<1>9. CASE PanelFails
  <2>1. cr'.gen = cr.gen /\ cr'.status.obsGen <= cache.gen
    BY <1>9, WriteEffect, FailingFields DEF PanelFails, Conditions
  <2>2. Backed'
    BY <1>9, WriteEffect, FailingFields DEF PanelFails, Backed, Conditions
  <2>3. pc' = "idle" /\ syncGen' = 0 /\ cache' = cache /\ rules' = rules
    BY <1>9, ReturnEffect DEF PanelFails
  <2> QED BY <2>1, <2>2, <2>3, PushedReturn
<1>10. CASE PostRule
  <2>1. /\ RuleId(obj) \in Ids
        /\ rules' = [rules EXCEPT ![place[obj.gen]][RuleId(obj)] = obj.gen]
        /\ obj.gen \in 1 .. MaxGen /\ place[obj.gen] \in Clusters
    BY <1>10, GenTypes DEF PostRule, StoreRule, Built, At, Object
  <2>2. UNCHANGED <<cr, cache, obj>> /\ pc' = "refetch" /\ syncGen' = obj.gen
        /\ newId' = RuleId(obj)
    BY <1>10 DEF PostRule
  <2>3. obj.gen <= cache.gen /\ cr.status.obsGen <= obj.gen
    BY <1>10 DEF PostRule
  <2>4. Backed'
    BY <2>1, <2>2, <2>3 DEF Backed
  <2>5. \A t \in Clusters, i \in Ids : rules'[t][i] <= cr.gen
    BY <2>1, <2>3
  <2>6. rules'[place[syncGen']][newId'] = syncGen' /\ syncGen' # 0
    BY <2>1, <2>2
  <2> QED BY <2>1, <2>2, <2>3, <2>4, <2>5, <2>6
<1>11. ASSUME NEW k \in {"server", "other"}, PostFails(k) PROVE Pushed'
  <2>1. cr'.gen = cr.gen /\ cr'.status.obsGen <= cache.gen
    BY <1>11, WriteEffect, FailingFields DEF PostFails, Conditions
  <2>2. pc' = "idle" /\ syncGen' = 0 /\ cache' = cache
    BY <1>11, ReturnEffect DEF PostFails
  <2>3. obj.gen <= cache.gen /\ cr.status.obsGen <= obj.gen
    BY <1>11 DEF PostFails
  <2>4. \A t \in Clusters, i \in Ids :
          rules'[t][i] = rules[t][i] \/ rules'[t][i] = obj.gen
    BY <1>11 DEF PostFails, StoreRule, Built
  <2>5. CASE cr' # cr
    <3>1. "Failed" \in cr'.status.conds
      BY <1>11, <2>5, WriteEffect, FailingFields DEF PostFails, Conditions
    <3> QED BY <3>1, <2>1, <2>2, <2>3, <2>4, PushedReturn DEF Backed
  <2>6. CASE cr' = cr
    <3>1. Backed'
      <4> SUFFICES ASSUME "Ready" \in cr.status.conds,
                          "Failed" \notin cr.status.conds,
                          cr.status.id # 0, cr.status.obsGen # 0
                   PROVE  LET r == rules'[place[cr.status.obsGen]][cr.status.id]
                          IN  r = 0 \/ cr.status.obsGen <= r
        BY <2>6 DEF Backed
      <4>1. place[cr.status.obsGen] \in Clusters /\ cr.status.id \in Ids
        OBVIOUS
      <4> QED BY <2>3, <2>4, <4>1 DEF Backed
    <3> QED BY <3>1, <2>1, <2>2, <2>3, <2>4, PushedReturn
  <2> QED BY <2>5, <2>6
<1>12. CASE Refetch
  BY <1>12 DEF Refetch, ReadCache, Backed
<1>13. CASE Record
  <2>1. /\ newId \in Ids /\ syncGen # 0
        /\ LET r == rules[place[syncGen]][newId] IN r = 0 \/ syncGen <= r
    BY <1>13 DEF Record
  <2>2. cr'.gen = cr.gen /\ cr'.status.obsGen <= cache.gen
    BY <1>13, SyncedFields DEF Record
  <2>3. pc' = "idle" /\ syncGen' = 0 /\ cache' = cache /\ rules' = rules
    BY <1>13, ReturnEffect DEF Record
  <2>4. Backed'
    BY <1>13, <2>1, SyncedFields DEF Record, Backed
  <2> QED BY <2>2, <2>3, <2>4, PushedReturn
<1>14. CASE DeleteUnresolved
  <2>1. cr' = cr /\ rules' = rules /\ cache' = cache
    BY <1>14 DEF DeleteUnresolved
  <2>2. Backed'
    BY <2>1 DEF Backed
  <2>3. pc' = "idle" /\ syncGen' = 0
    BY <1>14, ReturnEffect DEF DeleteUnresolved
  <2> QED BY <2>1, <2>2, <2>3, PushedReturn
<1>15. CASE DeleteRule
  BY <1>15 DEF DeleteRule, Deleting, Backed
<1>16. ASSUME NEW k \in {"server", "other"}, DeleteFails(k) PROVE Pushed'
  <2>1. cr' = cr /\ cache' = cache
    BY <1>16 DEF DeleteFails
  <2>2. \A t \in Clusters, i \in Ids : rules'[t][i] \in {0, rules[t][i]}
    BY <1>16 DEF DeleteFails
  <2>3. Backed'
    BY <2>1, <2>2 DEF Backed
  <2>4. CASE k = "server"
    <3>1. pc' = "idle" /\ syncGen' = 0
      BY <1>16, <2>4, ReturnEffect DEF DeleteFails
    <3> QED BY <2>1, <2>2, <2>3, <3>1, PushedReturn
  <2>5. CASE k # "server"
    <3>1. pc' = "release" /\ pc # "idle" /\ obj' = obj /\ syncGen' = syncGen
      BY <1>16, <2>5 DEF DeleteFails, Deleting
    <3> QED BY <2>1, <2>2, <2>3, <3>1
  <2> QED BY <2>4, <2>5
<1>17. CASE Release
  <2>1. cr'.gen = cr.gen /\ cr'.status.obsGen <= cache.gen
    BY <1>17, WriteEffect, FinalizerFields DEF Release, Conditions
  <2>2. Backed'
    BY <1>17, WriteEffect, FinalizerFields DEF Release, Backed, Conditions
  <2>3. pc' = "idle" /\ syncGen' = 0 /\ cache' = cache /\ rules' = rules
    BY <1>17, ReturnEffect DEF Release
  <2> QED BY <2>1, <2>2, <2>3, PushedReturn
<1>18. CASE UserEdits /\ UNCHANGED alertVars
  BY <1>18, EditedFields DEF UserEdits, Overwrite, alertVars, Backed
<1>19. CASE UserDeletes /\ UNCHANGED alertVars
  BY <1>19, CondemnedFields DEF UserDeletes, Overwrite, alertVars, Backed
<1>20. CASE WatchDelivers /\ UNCHANGED alertVars
  BY <1>20 DEF WatchDelivers, alertVars, Backed
<1>21. CASE (TimerFires \/ Resync) /\ UNCHANGED alertVars
  BY <1>21 DEF TimerFires, Resync, alertVars, Backed
<1>22. CASE Crash
  BY <1>22 DEF Crash, Restart, Backed
<1>23. CASE ConnChanges \/ ExternalDelete
  <2>1. /\ UNCHANGED <<cr, cache, obj, pc, newId, syncGen>>
        /\ \A t \in Clusters, i \in Ids : rules'[t][i] \in {0, rules[t][i]}
    BY <1>23 DEF ConnChanges, ExternalDelete
  <2>2. Backed'
    BY <2>1 DEF Backed
  <2>3. \A t \in Clusters, i \in Ids : rules'[t][i] <= cr.gen
    BY <2>1
  <2>4. pc \in {"refetch", "record"} =>
          LET r == rules'[place[syncGen]][newId] IN r = 0 \/ syncGen <= r
    BY <2>1
  <2> QED BY <2>1, <2>2, <2>3, <2>4
<1>24. CASE UNCHANGED vars
  BY <1>24 DEF vars, alertVars, Backed
<1>25. CASE WriteFails
  <2>1. cr' = cr /\ rules' = rules /\ cache' = cache
    BY <1>25 DEF WriteFails
  <2>2. Backed'
    BY <1>25, <2>1 DEF Backed, WriteFails
  <2>3. pc' = "idle" /\ syncGen' = 0
    BY <1>25, ReturnEffect DEF WriteFails
  <2> QED BY <2>1, <2>2, <2>3, PushedReturn
<1> QED
  BY <1>1, <1>2, <1>3, <1>4, <1>5, <1>6, <1>7, <1>8, <1>9, <1>10, <1>11, <1>12,
     <1>13, <1>14, <1>15, <1>16, <1>17, <1>18, <1>19, <1>20, <1>21, <1>22,
     <1>23, <1>24, <1>25
     DEF Next, Reconcile, Admit, CheckDrift, Push, HandleDeletion,
         Environment, KubeEnvironment

-----------------------------------------------------------------------------
(* The invariant holds when the operator starts.                           *)
LEMMA InitInv == Init => IInv
<1> SUFFICES ASSUME Init PROVE IInv
  OBVIOUS
<1> USE BoundsAssumption, AlertAssumption DEF Init, KubeInit
<1>1. TypeOK
  <2>1. cr \in Object(Status) /\ cache \in Object(Status)
         /\ obj \in Object(Status)
    BY CreatedType
  <2>2. /\ rules \in [Clusters -> [Ids -> 0 .. MaxGen]]
        /\ left \in [Disturbances -> Nat]
    OBVIOUS
  <2>3. newId \in 0 .. MaxId /\ syncGen \in 0 .. MaxGen
         /\ minted \in 0 .. MaxId
    OBVIOUS
  <2> QED BY <2>1, <2>2, <2>3 DEF TypeOK
<1>2. Views
  BY DEF Views, Created
<1>3. Guard
  BY DEF Guard, Created, Sync
<1>4. Armoury
  BY DEF Armoury
<1>5. Pushed
  BY DEF Pushed, Backed, Created, NoStatus
<1> QED BY <1>1, <1>2, <1>3, <1>4, <1>5 DEF IInv

(* Every step keeps the invariant.                                         *)
LEMMA NextInv == IInv /\ [Next]_vars => IInv'
  BY TypeStep, ViewsStep, GuardStep, ArmouryStep, PushedStep DEF IInv

(* The invariant holds forever.                                            *)
LEMMA Invariance == Spec => []IInv
  BY InitInv, NextInv, PTL DEF Spec

(* Every variable keeps its shape, whatever reads, writes and faults do.   *)
THEOREM TypeCorrect == Spec => []TypeOK
<1>1. IInv => TypeOK
  BY DEF IInv
<1> QED BY <1>1, Invariance, PTL

(* No rule is posted for a resource that is gone or has no finalizer: what *)
(* the reconciler read from the cache still holds when it syncs.           *)
THEOREM FinalizerHeld == Spec => []SyncNeedsFinalizer
<1>1. IInv => SyncNeedsFinalizer
  BY DEF IInv, Guard, SyncNeedsFinalizer, Sync
<1> QED BY <1>1, Invariance, PTL

(* No step but the lost report of a final refusal leaves a resource nobody *)
(* will look at again and that is neither Failed nor Paused.               *)
THEOREM NeverForgotten == Spec => NeverSilentlyIdle
<1>1. IInv /\ [Next]_vars => [FallsSilent]_vars
  BY SilenceStep DEF IInv
<1>2. Spec => [][FallsSilent]_vars
  BY <1>1, Invariance, PTL DEF Spec
<1> QED BY <1>2 DEF NeverSilentlyIdle, FallsSilent

(* Ready for the current generation means that this generation was pushed. *)
THEOREM ReadyMeansPushed == Spec => []ReadyIsPushed
<1>1. ASSUME IInv PROVE ReadyIsPushed
  <2>1. TypeOK /\ Backed /\ cr.gen \in 1 .. MaxGen
        /\ \A t \in Clusters, i \in Ids : rules[t][i] <= cr.gen
    BY <1>1 DEF IInv, Pushed, TypeOK, Object
  <2> QED BY <2>1, GenTypes DEF Backed, ReadyIsPushed, At
<1> QED BY <1>1, Invariance, PTL

-----------------------------------------------------------------------------
(* The refinement: what the controller does to one alert is what a mirror  *)
(* does.  Bare is what it takes beyond IInv: a resource nobody holds has   *)
(* no rule recorded, so that deleting it withdraws nothing.                *)
Bare == cr.live /\ ~cr.finalizer => cr.status.id = 0

(* What becomes of the hold: the resource does not come back, a held one   *)
(* that stays is held, and the status of one that is not stays as it is.   *)
HoldKept ==
  /\ cr'.live => cr.live
  /\ cr'.live /\ cr.finalizer => cr'.finalizer
  /\ cr'.live /\ ~cr'.finalizer => cr'.status = cr.status

(* Every step keeps the hold.                                              *)
LEMMA HoldStep == IInv /\ [Next]_vars => HoldKept
<1> SUFFICES ASSUME IInv, [Next]_vars PROVE HoldKept
  OBVIOUS
<1> USE DEF HoldKept, IInv, TypeOK, Views, Guard, Sync, kubeVars, given
<1>1. CASE Fetch \/ Resolve \/ SkipSynced \/ PostRule \/ Refetch
  BY <1>1 DEF Fetch, Resolve, SkipSynced, PostRule, Refetch
<1>2. CASE AddFinalizer
  BY <1>2, WriteEffect, FinalizerFields DEF AddFinalizer
<1>3. CASE SkipPaused
  BY <1>3, WriteEffect, MarkedFields DEF SkipPaused, Syncing, Conditions
<1>4. CASE ResolveFails
  BY <1>4, WriteEffect, FailingFields DEF ResolveFails, Syncing, Conditions
<1>5. CASE DriftCheckFails
  BY <1>5, WriteEffect, MarkedFields DEF DriftCheckFails, Conditions
<1>6. CASE DriftDetected
  BY <1>6, WriteEffect, DriftedFields DEF DriftDetected
<1>7. CASE PanelFails
  BY <1>7, WriteEffect, FailingFields DEF PanelFails, Conditions
<1>8. ASSUME NEW k \in {"server", "other"}, PostFails(k)
      PROVE  HoldKept
  BY <1>8, WriteEffect, FailingFields DEF PostFails, Conditions
<1>9. CASE Record
  BY <1>9, SyncedFields DEF Record
<1>10. CASE DeleteUnresolved \/ DeleteRule
  BY <1>10 DEF DeleteUnresolved, DeleteRule
<1>11. ASSUME NEW k \in {"server", "other"}, DeleteFails(k)
       PROVE  HoldKept
  BY <1>11 DEF DeleteFails
<1>12. CASE Release
  BY <1>12, WriteEffect, FinalizerFields DEF Release
<1>13. CASE UserEdits /\ UNCHANGED alertVars
  BY <1>13, EditedFields DEF UserEdits, Overwrite
<1>14. CASE UserDeletes /\ UNCHANGED alertVars
  BY <1>14, CondemnedFields DEF UserDeletes, Overwrite
<1>15. CASE (WatchDelivers \/ TimerFires \/ Resync) /\ UNCHANGED alertVars
  BY <1>15 DEF WatchDelivers, TimerFires, Resync
<1>16. CASE Crash \/ ConnChanges \/ ExternalDelete
  BY <1>16 DEF Crash, Restart, ConnChanges, ExternalDelete
<1>17. CASE WriteFails \/ UNCHANGED vars
  BY <1>17 DEF WriteFails, vars
<1> QED
  BY <1>1, <1>2, <1>3, <1>4, <1>5, <1>6, <1>7, <1>8, <1>9, <1>10, <1>11,
     <1>12, <1>13, <1>14, <1>15, <1>16, <1>17
     DEF Next, Reconcile, Admit, CheckDrift, Push, HandleDeletion,
         Environment, KubeEnvironment

(* What nobody holds has no rule recorded.                                 *)
LEMMA BareStep == IInv /\ Bare /\ [Next]_vars => Bare'
  BY HoldStep DEF Bare, HoldKept

(* A step that leaves the resource and what is being sent is a stutter.    *)
LEMMA StillMirror ==
  ASSUME cr' = cr, Sending' = Sending
  PROVE  UNCHANGED M!vars
  BY DEF M!vars, Life, Claimed, AlreadySynced

(* A step that ends a sending, or withdraws what was claimed, and changes  *)
(* neither the hold nor the spec.                                          *)
LEMMA AbandonMirror ==
  ASSUME cr'.live = cr.live, cr'.finalizer = cr.finalizer,
         cr'.deleting = cr.deleting, cr'.gen = cr.gen,
         Sending' = 0, Claimed' = 0 \/ Claimed' = Claimed
  PROVE  M!Next
  BY DEF M!Next, M!Abandon, Life

(* Reporting a failure, a pause or drift withdraws a claim or keeps it.    *)
LEMMA ReportMirror ==
  ASSUME TypeOK, NEW o \in Object(Status), objFresh => obj = cr,
         TryWrite(o) \/ \E ks : TryReport(o, ks), pc' = "idle" \/ pc' = "sync",
         o.live = obj.live, o.finalizer = obj.finalizer,
         o.deleting = obj.deleting, o.gen = obj.gen,
         \/ "Failed" \in o.status.conds
         \/ o.status.id = 0
         \/ /\ o.status.obsGen = obj.status.obsGen
            /\ o.status.id = obj.status.id
            /\ o.status.conds \cap {"Ready", "Failed"}
                 = obj.status.conds \cap {"Ready", "Failed"}
  PROVE  M!Next
<1>1. Sending' = 0
  BY DEF Sending
<1>2. CASE objFresh /\ cr' = o
  <2>1. cr' = o /\ obj = cr
    BY <1>2
  <2>2. Claimed' = 0 \/ Claimed' = Claimed
    BY <2>1 DEF Claimed, AlreadySynced
  <2> QED BY <1>1, <2>1, <2>2, AbandonMirror
<1>3. CASE cr' = cr
  <2>1. Claimed' = Claimed
    BY <1>3 DEF Claimed, AlreadySynced
  <2> QED BY <1>1, <1>3, <2>1, AbandonMirror
<1> QED BY <1>2, <1>3, WriteEffect

(* Every step of the controller and of its world is a step of a mirror.    *)
LEMMA MirrorStep == IInv /\ Bare /\ [Next]_vars => [M!Next]_(M!vars)
<1> SUFFICES ASSUME IInv, Bare, [Next]_vars PROVE M!Next \/ UNCHANGED M!vars
  OBVIOUS
<1> USE DEF IInv, TypeOK, Views, Guard, Sync, kubeVars, given
<1>1. CASE Fetch \/ Resolve \/ SkipSynced
  <2>1. cr' = cr /\ Sending' = Sending
    BY <1>1, ReturnEffect DEF Fetch, Resolve, Syncing, SkipSynced, Sending
  <2> QED BY <2>1, StillMirror
<1>2. CASE AddFinalizer
  <2>1. Sending' = 0 /\ Sending = 0
    BY <1>2, ReturnEffect DEF AddFinalizer, Sending
  <2>2. CASE objFresh
    <3>1. cr' = Guarded(cr)
      BY <1>2, <2>2, WriteEffect DEF AddFinalizer
    <3>2. Claimed' = Claimed
      BY <3>1, FinalizerFields DEF Claimed, AlreadySynced
    <3>3. Life = "open" /\ Life' = "held"
      BY <1>2, <2>2, <3>1, FinalizerFields DEF AddFinalizer, Life
    <3>4. cr'.gen = cr.gen
      BY <3>1, FinalizerFields
    <3> QED BY <2>1, <3>2, <3>3, <3>4 DEF M!Next, M!Protect
  <2>3. CASE ~objFresh
    <3>1. cr' = cr
      BY <1>2, <2>3, WriteEffect DEF AddFinalizer
    <3> QED BY <2>1, <3>1, StillMirror
  <2> QED BY <2>2, <2>3
<1>3. CASE SkipPaused
  BY <1>3, ReportMirror, ReturnEffect, MarkedFields DEF SkipPaused, Conditions
<1>4. CASE ResolveFails
  BY <1>4, ReportMirror, ReturnEffect, FailingFields
     DEF ResolveFails, Conditions
<1>5. CASE DriftCheckFails
  BY <1>5, ReportMirror, ReturnEffect, MarkedFields
     DEF DriftCheckFails, Conditions
<1>6. CASE DriftDetected
  <2>1. pc' = "idle" \/ pc' = "sync"
    BY <1>6, ReturnEffect DEF DriftDetected
  <2> QED BY <1>6, <2>1, ReportMirror, DriftedFields DEF DriftDetected
<1>7. CASE PanelFails
  BY <1>7, ReportMirror, ReturnEffect, FailingFields DEF PanelFails, Conditions
<1>8. CASE PostRule
  <2>1. cr' = cr /\ Sending = 0 /\ Sending' = obj.gen
    BY <1>8 DEF PostRule, Sending
  <2>2. obj.gen \in 1 .. cr.gen
    BY <1>8, GenTypes DEF PostRule, Pushed, Object
  <2>3. Life \in {"held", "condemned"}
    BY <1>8 DEF PostRule, Life
  <2>4. Life' = Life /\ Claimed' = Claimed
    BY <2>1 DEF Life, Claimed, AlreadySynced
  <2> QED BY <2>1, <2>2, <2>3, <2>4 DEF M!Next, M!Send, M!Held
<1>9. ASSUME NEW k \in {"server", "other"}, PostFails(k)
      PROVE  M!Next
  BY <1>9, ReportMirror, ReturnEffect, FailingFields DEF PostFails, Conditions
<1>10. CASE Refetch
  <2>1. cr' = cr /\ Sending' = Sending
    BY <1>10 DEF Refetch, Sending
  <2> QED BY <2>1, StillMirror
<1>11. CASE Record
  <2>1. Sending = syncGen /\ Sending' = 0
    BY <1>11, ReturnEffect DEF Record, Sending
  <2>2. CASE objFresh
    <3>1. cr' = Synced(cr)
      BY <1>11, <2>2 DEF Record
    <3>2. /\ cr'.live = cr.live /\ cr'.finalizer = cr.finalizer
          /\ cr'.deleting = cr.deleting /\ cr'.gen = cr.gen
          /\ cr'.status.obsGen = syncGen
      BY <3>1, SyncedFields
    <3>3. CASE syncGen # cr.gen
      <4>1. Claimed' = 0
        BY <3>2, <3>3 DEF Claimed, AlreadySynced
      <4> QED BY <2>1, <3>2, <4>1, AbandonMirror
    <3>4. CASE syncGen = cr.gen
      <4>1. "Ready" \in cr'.status.conds /\ "Failed" \notin cr'.status.conds
        BY <3>1 DEF Synced, Object, Status
      <4>2. cr.live /\ cr'.status.id # 0
        BY <1>11, <3>1, SyncedFields DEF Record, Pushed, Ids
      <4>3. Claimed' = cr.gen
        BY <3>2, <3>4, <4>1, <4>2 DEF Claimed, AlreadySynced
      <4>4. Life \in {"held", "condemned"} /\ Life' = Life
        BY <1>11, <3>2 DEF Record, Life
      <4> QED BY <2>1, <3>2, <3>4, <4>3, <4>4 DEF M!Next, M!Claim, M!Held
    <3> QED BY <3>3, <3>4
  <2>3. CASE ~objFresh
    <3>1. cr' = cr
      BY <1>11, <2>3 DEF Record
    <3>2. Claimed' = Claimed
      BY <3>1 DEF Claimed, AlreadySynced
    <3> QED BY <2>1, <3>1, <3>2, AbandonMirror
  <2> QED BY <2>2, <2>3
<1>12. CASE DeleteUnresolved \/ DeleteRule
  <2>1. cr' = cr /\ Sending' = Sending
    BY <1>12, ReturnEffect DEF DeleteUnresolved, DeleteRule, Deleting, Sending
  <2> QED BY <2>1, StillMirror
<1>13. ASSUME NEW k \in {"server", "other"}, DeleteFails(k)
       PROVE  UNCHANGED M!vars
  <2>1. cr' = cr /\ Sending' = Sending
    BY <1>13, ReturnEffect DEF DeleteFails, Deleting, Sending
  <2> QED BY <2>1, StillMirror
<1>14. CASE Release
  <2>1. Sending' = 0 /\ Sending = 0
    BY <1>14, ReturnEffect DEF Release, Sending
  <2>2. CASE objFresh
    <3>1. cr' = Released(cr) /\ obj = cr
      BY <1>14, <2>2, WriteEffect, FinalizerFields DEF Release
    <3>2. Life = "condemned" /\ Life' = "gone"
      BY <1>14, <3>1, FinalizerFields DEF Release, Life
    <3>3. Claimed' = 0 /\ cr'.gen = cr.gen
      BY <3>1, FinalizerFields DEF Claimed
    <3> QED BY <2>1, <3>2, <3>3 DEF M!Next, M!Finish
  <2>3. CASE ~objFresh
    <3>1. cr' = cr
      BY <1>14, <2>3, WriteEffect, FinalizerFields DEF Release
    <3> QED BY <2>1, <3>1, StillMirror
  <2> QED BY <2>2, <2>3
<1>15. CASE UserEdits /\ UNCHANGED alertVars
  <2>1. cr' = Edited(cr) /\ cr.live /\ cr.gen < MaxGen
    BY <1>15 DEF UserEdits, Overwrite
  <2>2. Sending' = Sending
    BY <1>15 DEF alertVars, Sending
  <2>3. cr'.gen = cr.gen + 1 /\ Life' = Life /\ Life # "gone"
    BY <2>1, EditedFields DEF Life
  <2>4. cr'.status.obsGen # cr'.gen
    BY <2>1, EditedFields, GenTypes DEF Pushed
  <2>5. Claimed' = 0
    BY <2>4 DEF Claimed, AlreadySynced
  <2> QED BY <2>1, <2>2, <2>3, <2>5 DEF M!Next, M!Edit
<1>16. CASE UserDeletes /\ UNCHANGED alertVars
  <2>1. cr' = Condemned(cr) /\ cr.live /\ ~cr.deleting
    BY <1>16 DEF UserDeletes, Overwrite
  <2>2. Sending' = Sending
    BY <1>16 DEF alertVars, Sending
  <2>3. cr'.gen = cr.gen /\ cr'.status = cr.status
    BY <2>1, CondemnedFields
  <2>4. \/ Life = "open" /\ Life' = "gone"
        \/ Life = "held" /\ Life' = "condemned"
    BY <2>1, CondemnedFields DEF Life
  <2>5. Claimed' = Claimed
    BY <2>1, <2>3, CondemnedFields DEF Bare, Claimed, AlreadySynced
  <2> QED BY <2>2, <2>3, <2>4, <2>5 DEF M!Next, M!Delete
<1>17. CASE (WatchDelivers \/ TimerFires \/ Resync) /\ UNCHANGED alertVars
  <2>1. cr' = cr /\ Sending' = Sending
    BY <1>17 DEF WatchDelivers, TimerFires, Resync, alertVars, Sending
  <2> QED BY <2>1, StillMirror
<1>18. CASE Crash
  <2>1. cr' = cr /\ Sending' = 0
    BY <1>18 DEF Crash, Restart, Sending
  <2>2. Claimed' = Claimed
    BY <2>1 DEF Claimed, AlreadySynced
  <2> QED BY <2>1, <2>2, AbandonMirror
<1>19. CASE ConnChanges \/ ExternalDelete
  <2>1. cr' = cr /\ Sending' = Sending
    BY <1>19 DEF ConnChanges, ExternalDelete, Sending
  <2> QED BY <2>1, StillMirror
<1>20. CASE UNCHANGED vars
  <2>1. cr' = cr /\ Sending' = Sending
    BY <1>20 DEF vars, alertVars, Sending
  <2> QED BY <2>1, StillMirror
<1>21. CASE WriteFails
  <2>1. cr' = cr /\ Sending' = 0
    BY <1>21, ReturnEffect DEF WriteFails, Sending
  <2>2. Claimed' = Claimed
    BY <2>1 DEF Claimed, AlreadySynced
  <2> QED BY <2>1, <2>2, AbandonMirror
<1> QED
  BY <1>1, <1>2, <1>3, <1>4, <1>5, <1>6, <1>7, <1>8, <1>9, <1>10, <1>11,
     <1>12, <1>13, <1>14, <1>15, <1>16, <1>17, <1>18, <1>19, <1>20, <1>21
     DEF Next, Reconcile, Admit, CheckDrift, Push, HandleDeletion,
         Environment, KubeEnvironment

(* The controller implements a mirror: nothing is sent for a resource that *)
(* is not held, and nothing is claimed that was not sent as it is.         *)
THEOREM ImplementsMirror == Spec => Mirrors
<1>1. Init => M!Init /\ Bare
  BY BoundsAssumption
     DEF Init, KubeInit, Created, NoStatus, M!Init, Bare, Life, Claimed,
         AlreadySynced, Sending
<1>2. IInv /\ Bare /\ [Next]_vars => [M!Next]_(M!vars) /\ Bare'
  BY MirrorStep, BareStep
<1> QED BY <1>1, <1>2, Invariance, PTL DEF Spec, Mirrors, M!Spec

(* What follows of the refinement.  A claim is of the newest spec of a     *)
(* resource that is held, and stays so through edits and deletions.        *)
THEOREM ClaimsAreHeld == Spec => []M!ClaimsHold
<1> USE BoundsAssumption DEF M!ClaimsHold, M!TypeOK, M!Held
<1>1. M!Init => M!ClaimsHold
  BY DEF M!Init
<1>2. M!ClaimsHold /\ [M!Next]_(M!vars) => M!ClaimsHold'
  <2> SUFFICES ASSUME M!ClaimsHold, [M!Next]_(M!vars) PROVE M!ClaimsHold'
    OBVIOUS
  <2>1. CASE M!Protect
    BY <2>1 DEF M!Protect
  <2>2. CASE M!Edit
    BY <2>2 DEF M!Edit
  <2>3. CASE M!Delete
    BY <2>3 DEF M!Delete
  <2>4. CASE M!Send
    BY <2>4 DEF M!Send
  <2>5. CASE M!Claim
    BY <2>5 DEF M!Claim
  <2>6. CASE M!Abandon
    BY <2>6 DEF M!Abandon
  <2>7. CASE M!Finish
    BY <2>7 DEF M!Finish
  <2>8. CASE UNCHANGED M!vars
    BY <2>8 DEF M!vars
  <2> QED BY <2>1, <2>2, <2>3, <2>4, <2>5, <2>6, <2>7, <2>8 DEF M!Next
<1> QED BY <1>1, <1>2, ImplementsMirror, PTL DEF Mirrors, M!Spec

(* No claim is made but by the step that ends the sending of the newest    *)
(* spec, while the resource is held.                                       *)
THEOREM ClaimsFollowSending == Spec => M!ClaimsAreSent
<1>1. [M!Next]_(M!vars) =>
        [Claimed' # Claimed /\ Claimed' # 0
           => Sending = cr.gen /\ Claimed' = cr.gen /\ M!Held]_(M!vars)
  BY DEF M!Next, M!Protect, M!Edit, M!Delete, M!Send, M!Claim, M!Abandon,
         M!Finish, M!vars
<1> QED BY <1>1, ImplementsMirror, PTL DEF Mirrors, M!Spec, M!ClaimsAreSent

-----------------------------------------------------------------------------
(* Orphans.  Tied says who knows the id of the rule: a pass that read no   *)
(* stale copy has the recorded id in hand, what a POST returned is that id *)
(* or the first one, and a resource is let go only when its rule is gone.  *)
Tied ==
  /\ \A k \in Disturbances : left[k] <= allowed[k]
  /\ newId # 0 => pc \in {"refetch", "record"}
  /\ pc # "idle" /\ Unspent("lag") => obj.status.id = cr.status.id
  /\ Unspent("lag") /\ pc \in {"refetch", "record"} =>
       cr.status.id \in {0, newId}
  /\ Unspent("lag") /\ Unspent("other") /\ pc = "release" =>
       cr.status.id = 0 \/ rules[At(obj)][cr.status.id] = 0

(* A pass that ends by a report, or by nothing, leaves the id and the spec *)
(* alone.                                                                  *)
EndsQuietly ==
  \/ SkipPaused \/ ResolveFails \/ DriftCheckFails \/ SkipSynced
  \/ PanelFails \/ DeleteUnresolved \/ DeleteFails("server")
  \/ \E k \in {"server", "other"} : PostFails(k)

LEMMA QuietEnd ==
  ASSUME TypeOK, Views, EndsQuietly
  PROVE  /\ pc' = "idle" /\ newId' = 0 /\ cr'.live = cr.live
         /\ cr'.status.id = cr.status.id /\ cr'.gen = cr.gen
<1> USE DEF TypeOK, Views
<1>1. CASE SkipPaused
  BY <1>1, WriteEffect, MarkedFields DEF SkipPaused, Conditions, Return
<1>2. CASE ResolveFails
  BY <1>2, WriteEffect, FailingFields DEF ResolveFails, Conditions, Return
<1>3. CASE DriftCheckFails
  BY <1>3, WriteEffect, MarkedFields DEF DriftCheckFails, Conditions, Return
<1>4. CASE PanelFails
  BY <1>4, WriteEffect, FailingFields DEF PanelFails, Conditions, Return
<1>5. ASSUME NEW k \in {"server", "other"}, PostFails(k)
      PROVE  /\ pc' = "idle" /\ newId' = 0 /\ cr'.live = cr.live
             /\ cr'.status.id = cr.status.id /\ cr'.gen = cr.gen
  BY <1>5, WriteEffect, FailingFields DEF PostFails, Conditions, Return
<1>6. CASE SkipSynced \/ DeleteUnresolved \/ DeleteFails("server")
  BY <1>6 DEF SkipSynced, DeleteUnresolved, DeleteFails, Return
<1> QED BY <1>1, <1>2, <1>3, <1>4, <1>5, <1>6 DEF EndsQuietly

(* What happens around a pass leaves its labels, its rule and ids alone.   *)
Outside ==
  \/ KubeEnvironment /\ UNCHANGED alertVars
  \/ ConnChanges \/ ExternalDelete \/ UNCHANGED vars

LEMMA OutsideEffect ==
  ASSUME TypeOK, Outside
  PROVE  /\ pc' = pc /\ newId' = newId /\ obj' = obj
         /\ syncGen' = syncGen /\ place' = place
         /\ cr'.status = cr.status
         /\ cr'.live = cr.live \/ (cr.live /\ ~cr.finalizer)
         /\ \A t \in Clusters, i \in Ids : rules'[t][i] \in {0, rules[t][i]}
<1> USE DEF TypeOK, given
<1>1. CASE UserEdits /\ UNCHANGED alertVars
  BY <1>1, EditedFields DEF UserEdits, Overwrite, alertVars
<1>2. CASE UserDeletes /\ UNCHANGED alertVars
  BY <1>2, CondemnedFields DEF UserDeletes, Overwrite, alertVars
<1>3. CASE (WatchDelivers \/ TimerFires \/ Resync) /\ UNCHANGED alertVars
  BY <1>3 DEF WatchDelivers, TimerFires, Resync, alertVars
<1>4. CASE ConnChanges \/ ExternalDelete
  BY <1>4 DEF ConnChanges, ExternalDelete
<1>5. CASE UNCHANGED vars
  BY <1>5 DEF vars, alertVars, kubeVars
<1> QED
  BY <1>1, <1>2, <1>3, <1>4, <1>5 DEF Outside, KubeEnvironment

(* The steps of Next, sorted by what they do to ids.                       *)
LEMMA IdSteps ==
  ASSUME [Next]_vars
  PROVE  \/ EndsQuietly \/ Outside
         \/ Fetch \/ AddFinalizer \/ Resolve \/ DriftDetected \/ PostRule
         \/ Refetch \/ Record \/ DeleteRule \/ DeleteFails("other")
         \/ Release \/ WriteFails \/ Crash
  BY DEF Next, Reconcile, Admit, CheckDrift, Push, HandleDeletion,
         Environment, EndsQuietly, Outside

(* A disturbance is spent at most once by a step, and none is given back.  *)
Counted ==
  /\ allowed' = allowed
  /\ \A j \in Disturbances : left'[j] \in {left[j], left[j] - 1}

LEMMA CountedSpend ==
  ASSUME TypeOK, allowed' = allowed,
         \/ left' = left
         \/ \E k \in Disturbances : Spend(k)
         \/ \E ks \in SUBSET Disturbances : SpendAll(ks)
  PROVE  Counted
  BY DEF TypeOK, Spend, SpendAll, Counted

LEMMA CountedReport ==
  ASSUME TypeOK, allowed' = allowed, NEW new, NEW ks \in SUBSET Disturbances,
         TryReport(new, ks)
  PROVE  Counted
<1>1. ks \cup {"report"} \in SUBSET Disturbances
  BY DEF Disturbances
<1>2. \E ds \in SUBSET Disturbances : SpendAll(ds)
  BY <1>1 DEF TryReport
<1> QED BY <1>2, CountedSpend

LEMMA LeftStep ==
  ASSUME TypeOK, [Next]_vars
  PROVE  Counted
<1>0. {} \in SUBSET Disturbances
      /\ \A k \in {"server", "other"} : {k} \in SUBSET Disturbances
  BY DEF Disturbances
<1>1. CASE ResolveFails \/ DriftCheckFails \/ PanelFails
  BY <1>0, <1>1, CountedReport
     DEF ResolveFails, DriftCheckFails, PanelFails, given
<1>2. ASSUME NEW k \in {"server", "other"}, PostFails(k) PROVE Counted
  BY <1>0, <1>2, CountedReport DEF PostFails, given
<1>3. CASE SkipPaused \/ SkipSynced \/ DeleteUnresolved \/ WriteFails
           \/ DeleteFails("server") \/ DeleteFails("other")
  BY <1>3, CountedSpend
     DEF SkipPaused, SkipSynced, DeleteUnresolved, WriteFails, DeleteFails,
         Disturbances, given
<1>4. CASE Outside
  BY <1>4, CountedSpend
     DEF Outside, KubeEnvironment, UserEdits, UserDeletes, Overwrite,
         WatchDelivers, TimerFires, Resync, ConnChanges,
         ExternalDelete, alertVars, kubeVars, vars, given, Disturbances
<1>5. CASE Fetch \/ Refetch \/ Crash
  BY <1>5, CountedSpend
     DEF Fetch, Refetch, ReadCache, Crash, Restart, Disturbances, given
<1>6. CASE \/ AddFinalizer \/ Resolve \/ DriftDetected \/ PostRule \/ Record
           \/ DeleteRule \/ Release
  BY <1>6, CountedSpend
     DEF AddFinalizer, Resolve, DriftDetected, PostRule, Record,
         DeleteRule, Release, kubeVars, given
<1> QED BY IdSteps, <1>1, <1>2, <1>3, <1>4, <1>5, <1>6 DEF EndsQuietly

LEMMA SpendEffect ==
  ASSUME TypeOK, NEW k \in Disturbances, Spend(k)
  PROVE  /\ left'[k] = left[k] - 1 /\ left[k] > 0
         /\ \A j \in Disturbances : j # k => left'[j] = left[j]
  BY DEF TypeOK, Spend

(* What is unspent after a step was unspent before it and is not spent by  *)
(* it.                                                                     *)
LEMMA UnspentStep ==
  ASSUME TypeOK, Tied, [Next]_vars, NEW k \in Disturbances
  PROVE  /\ left'[k] <= allowed'[k]
         /\ Unspent(k)' => Unspent(k) /\ ~Spend(k)
<1>1. /\ \A j \in Disturbances : left[j] \in Nat /\ allowed[j] \in Nat
      /\ left[k] <= allowed[k]
  BY DEF TypeOK, Tied
<1>2. allowed' = allowed
  BY LeftStep DEF Counted
<1>3. left'[k] = left[k] \/ left'[k] = left[k] - 1
  BY LeftStep DEF Counted
<1>4. Spend(k) => left'[k] = left[k] - 1
  BY SpendEffect
<1> QED BY <1>1, <1>2, <1>3, <1>4 DEF Unspent

(* Every step keeps the ids tied.                                          *)
LEMMA TiedStep == IInv /\ Tied /\ [Next]_vars => Tied'
<1> SUFFICES ASSUME IInv, Tied, [Next]_vars PROVE Tied'
  OBVIOUS
<1>0. /\ TypeOK /\ Views /\ {"lag", "other"} \subseteq Disturbances
      /\ pc # "idle" /\ objFresh => obj = cr
      /\ obj \in Object(Status) /\ cr \in Object(Status)
      /\ obj.status.id \in 0 .. MaxId /\ cr.status.id \in 0 .. MaxId
      /\ 0 \notin Ids /\ \A n \in 0 .. MaxId : n = 0 \/ n \in Ids
  <2>1. /\ TypeOK /\ Views /\ {"lag", "other"} \subseteq Disturbances
        /\ objFresh => obj = cr
        /\ obj \in Object(Status) /\ cr \in Object(Status)
    BY DEF IInv, TypeOK, Views, Disturbances
  <2>2. obj.status.id \in 0 .. MaxId /\ cr.status.id \in 0 .. MaxId
    BY <2>1 DEF Object, Status
  <2>3. 0 \notin Ids /\ \A n \in 0 .. MaxId : n = 0 \/ n \in Ids
    BY AlertAssumption DEF Ids
  <2> QED BY <2>1, <2>2, <2>3
<1>1. \A k \in Disturbances : left'[k] <= allowed'[k]
  BY <1>0, UnspentStep
<1>2. /\ Unspent("lag")' => Unspent("lag") /\ ~Spend("lag")
      /\ Unspent("other")' => Unspent("other") /\ ~Spend("other")
  BY <1>0, UnspentStep
<1> DEFINE Given == newId # 0 => pc \in {"refetch", "record"}
<1> DEFINE Same == pc # "idle" /\ Unspent("lag") =>
                     obj.status.id = cr.status.id
<1> DEFINE Posted == Unspent("lag") /\ pc \in {"refetch", "record"} =>
                       cr.status.id \in {0, newId}
<1> DEFINE Emptied == Unspent("lag") /\ Unspent("other") /\ pc = "release" =>
                        cr.status.id = 0 \/ rules[At(obj)][cr.status.id] = 0
<1> SUFFICES Given' /\ Same' /\ Posted' /\ Emptied'
  BY <1>1 DEF Tied
<1>3. Given /\ Same /\ Posted /\ Emptied
  BY DEF Tied
<1> HIDE DEF Unspent, Spend
<1> USE <1>0, <1>2, <1>3
<1>4. CASE EndsQuietly
  BY <1>4, QuietEnd
<1>5. CASE Outside
  <2>1. /\ At(obj)' = At(obj) /\ At(obj) \in Clusters
        /\ cr.status.id # 0 => rules'[At(obj)][cr.status.id]
                                 \in {0, rules[At(obj)][cr.status.id]}
    BY <1>5, OutsideEffect, Placed DEF At
  <2> QED BY <1>5, <2>1, OutsideEffect
<1>6. CASE Fetch
  <2>1. newId' = newId /\ cr' = cr
    BY <1>6 DEF Fetch
  <2>2. pc = "idle" /\ newId = 0
    BY <1>6 DEF Fetch
  <2>3. CASE ReadCache /\ pc' = "fetched"
    <3>1. Unspent("lag")' => obj' = cr
      BY <2>3 DEF ReadCache, Views
    <3> QED BY <2>1, <2>2, <2>3, <3>1
  <2>4. CASE pc' = pc
    BY <2>1, <2>2, <2>4
  <2> QED BY <1>6, <2>3, <2>4 DEF Fetch
<1>7. CASE AddFinalizer \/ Record \/ Release \/ WriteFails
  BY <1>7 DEF AddFinalizer, Record, Release, WriteFails, Return
<1>8. CASE Resolve
  BY <1>8 DEF Resolve, Syncing, kubeVars
<1>9. CASE DriftDetected
  <2>1. CASE objFresh
    <3>1. cr' = Drifted(obj) /\ obj' = Drifted(obj) /\ pc' = "sync"
          /\ newId' = newId /\ pc = "drift"
      BY <1>9, <2>1, WriteEffect DEF DriftDetected
    <3> QED BY <3>1
  <2>2. CASE ~objFresh
    BY <1>9, <2>2 DEF DriftDetected, Return
  <2> QED BY <2>1, <2>2
<1>10. CASE PostRule
  <2>1. pc' = "refetch" /\ cr' = cr /\ obj' = obj /\ newId' = RuleId(obj)
        /\ pc = "sync"
    BY <1>10 DEF PostRule, kubeVars
  <2>2. obj.status.id \in {0, RuleId(obj)}
    BY DEF RuleId
  <2> QED BY <2>1, <2>2
<1>11. CASE Refetch
  <2>1. newId' = newId /\ cr' = cr /\ pc' = "record" /\ pc = "refetch"
    BY <1>11 DEF Refetch
  <2>2. Unspent("lag")' => obj' = cr
    BY <1>11 DEF Refetch, ReadCache, Views
  <2> QED BY <2>1, <2>2
<1>12. CASE DeleteRule
  <2>1. pc' = "release" /\ cr' = cr /\ obj' = obj /\ newId' = newId
        /\ pc = "fetched"
    BY <1>12 DEF DeleteRule, Deleting, kubeVars
  <2>2. At(obj)' = At(obj)
        /\ (obj.status.id # 0 => rules'[At(obj)][obj.status.id] = 0)
    BY <1>12, Placed DEF DeleteRule, TypeOK, given, kubeVars, At
  <2> QED BY <2>1, <2>2
<1>13. CASE DeleteFails("other")
  <2>1. pc' = "release" /\ cr' = cr /\ obj' = obj /\ newId' = newId
        /\ pc = "fetched" /\ Spend("other")
    BY <1>13 DEF DeleteFails, Deleting
  <2> QED BY <2>1
<1>14. CASE Crash
  BY <1>14 DEF Crash
<1> QED
  BY IdSteps, <1>4, <1>5, <1>6, <1>7, <1>8, <1>9, <1>10, <1>11, <1>12, <1>13,
     <1>14

(* A step that orphans a rule loses the POST, the process or the record, or*)
(* leaves the cluster.                                                     *)
Losses ==
  Unspent("lag")' /\ Unspent("other")' =>
    \A t \in Clusters, i \in Ids : rules'[t][i] # 0 /\ ~Tracked(t, i)' =>
      \/ rules[t][i] # 0 /\ ~Tracked(t, i)
      \/ \E k \in {"server", "crash"} : left'[k] # left[k]
      \/ pc = "record" /\ (~objFresh \/ left'["kube"] # left["kube"])
      \/ MovesAway

LEMMA LossStep == IInv /\ Bare /\ Tied /\ [Next]_vars => Losses
<1> SUFFICES ASSUME IInv, Bare, Tied, [Next]_vars,
                    Unspent("lag")', Unspent("other")',
                    NEW t \in Clusters, NEW i \in Ids,
                    rules'[t][i] # 0, ~Tracked(t, i)',
                    rules[t][i] # 0 => Tracked(t, i),
                    \A k \in {"server", "crash"} : left'[k] = left[k],
                    pc = "record" => objFresh /\ left'["kube"] = left["kube"],
                    ~MovesAway
             PROVE  FALSE
  BY DEF Losses
<1>0. /\ TypeOK /\ Views /\ Guard
      /\ {"lag", "other", "server", "crash"} \subseteq Disturbances
      /\ objFresh => obj = cr
      /\ obj \in Object(Status) /\ cr \in Object(Status)
      /\ rules \in [Clusters -> [Ids -> 0 .. MaxGen]] /\ i # 0
      /\ objFresh \in BOOLEAN
      /\ At(cr)' = At(cr) /\ (pc = "record" => place[syncGen] = At(cr))
      /\ At(cr) \in Clusters /\ At(obj) \in Clusters
      /\ place' = place
  <2>0. TypeOK /\ Views /\ Guard
    BY DEF IInv
  <2>1. /\ {"lag", "other", "server", "crash"} \subseteq Disturbances
        /\ i # 0
    BY DEF Disturbances, Ids
  <2>4. objFresh => obj = cr
    BY <2>0 DEF Views
  <2>5. /\ obj \in Object(Status) /\ cr \in Object(Status)
        /\ rules \in [Clusters -> [Ids -> 0 .. MaxGen]]
        /\ objFresh \in BOOLEAN
    BY <2>0 DEF TypeOK
  <2>2. At(cr)' = At(cr) /\ (pc = "record" => place[syncGen] = At(cr))
    BY DEF MovesAway
  <2>3. place' = place
    BY PlaceStep
  <2> QED BY <2>0, <2>1, <2>2, <2>3, <2>4, <2>5, Placed
<1>1. ~Spend("other") /\ ~Spend("server") /\ ~Spend("crash")
  <2>1. ~Spend("other")
    BY <1>0, UnspentStep
  <2>2. \A k \in {"server", "crash"} : left[k] \in Nat
    BY <1>0 DEF TypeOK
  <2>3. \A k \in {"server", "crash"} : Spend(k) => left'[k] = left[k] - 1
    BY <1>0, SpendEffect
  <2> QED BY <2>1, <2>2, <2>3
<1>2. /\ newId # 0 => pc \in {"refetch", "record"}
      /\ pc # "idle" => obj.status.id = cr.status.id
      /\ pc \in {"refetch", "record"} => cr.status.id \in {0, newId}
      /\ pc = "release" => cr.status.id = 0 \/ rules[At(obj)][cr.status.id] = 0
  BY <1>0, UnspentStep DEF Tied
<1>21. ASSUME NEW k \in {"server", "other"} PROVE ~PostFails(k)
  <2>1. left'[k] = left[k] /\ left[k] \in Nat
    <3>1. /\ left["other"] \in Nat
          /\ left'["other"] \in {left["other"], left["other"] - 1}
          /\ allowed' = allowed /\ left["other"] <= allowed["other"]
          /\ allowed["other"] \in Nat
      BY <1>0, LeftStep DEF Counted, TypeOK, Tied
    <3>2. left'["other"] = left["other"]
      BY <3>1 DEF Unspent
    <3> QED BY <1>0, <3>1, <3>2 DEF TypeOK
  <2>2. PostFails(k) => left'[k] = left[k] - 1
    BY <1>0, ReportSpends DEF PostFails
  <2> QED BY <2>1, <2>2
<1> USE <1>0, <1>1, <1>2 DEF Tracked
<1> HIDE DEF Unspent, Spend
<1>3. CASE EndsQuietly
  <2>1. rules' = rules
    BY <1>3, <1>21
       DEF EndsQuietly, SkipPaused, ResolveFails, DriftCheckFails,
           SkipSynced, PanelFails, DeleteUnresolved, DeleteFails
  <2>2. newId = 0
    BY <1>3 DEF EndsQuietly, SkipPaused, ResolveFails, Syncing,
                DriftCheckFails, SkipSynced, PanelFails, DeleteUnresolved,
                Deleting, DeleteFails, PostFails
  <2> QED BY <1>3, <2>1, <2>2, QuietEnd
<1>31. CASE WriteFails
  <2>1. cr' = cr /\ rules' = rules /\ Spend("kube")
    BY <1>31 DEF WriteFails
  <2>2. pc # "record"
    BY <1>0, <2>1, SpendEffect DEF Disturbances, TypeOK
  <2>3. newId = 0
    BY <1>31, <2>2 DEF WriteFails, Writing, Syncing
  <2> QED BY <2>1, <2>3
<1>4. CASE Outside
  BY <1>4, OutsideEffect DEF Bare
<1>5. CASE Fetch \/ Refetch \/ Resolve
  BY <1>5 DEF Fetch, Refetch, Resolve, kubeVars
<1>6. CASE AddFinalizer
  <2>1. cr'.status = cr.status /\ cr'.live = cr.live
    BY <1>6, WriteEffect, FinalizerFields DEF AddFinalizer
  <2> QED BY <1>6, <2>1 DEF AddFinalizer
<1>7. CASE DriftDetected
  <2>1. rules[At(obj)][obj.status.id] = 0 /\ rules' = rules /\ pc = "drift"
    BY <1>7 DEF DriftDetected
  <2>2. newId = 0
    BY <1>2, <2>1
  <2>3. CASE objFresh
    BY <2>1, <2>2, <2>3
  <2>4. CASE ~objFresh
    <3>1. cr' = cr
      BY <1>7, <2>4, WriteEffect DEF DriftDetected
    <3> QED BY <2>1, <2>2, <3>1
  <2> QED BY <2>3, <2>4
<1>8. CASE PostRule
  <2>1. pc = "sync" /\ newId' = RuleId(obj) /\ cr' = cr /\ StoreRule(obj)
    BY <1>8 DEF PostRule, kubeVars
  <2>2. syncGen' = obj.gen /\ newId = 0
    BY <1>8, <1>2 DEF PostRule
  <2>3. i # RuleId(obj) \/ t # At(obj) => rules'[t][i] = rules[t][i]
    BY <2>1 DEF StoreRule
  <2> QED BY <2>1, <2>2, <2>3 DEF At
<1>9. CASE Record
  <2>1. cr'.live = cr.live /\ cr'.status.id = newId
        /\ pc = "record" /\ rules' = rules /\ cr'.gen = cr.gen
    BY <1>9, SyncedFields DEF Record, TypeOK
  <2>2. cr.live
    BY <2>1 DEF Guard, Sync
  <2> QED BY <2>1, <2>2
<1>10. CASE DeleteRule
  <2>1. cr' = cr /\ newId' = newId
    BY <1>10 DEF DeleteRule, kubeVars
  <2>2. rules'[t][i] \in {0, rules[t][i]} /\ syncGen' = syncGen
    BY <1>10 DEF DeleteRule
  <2> QED BY <2>1, <2>2
<1>11. CASE DeleteFails("other")
  BY <1>11 DEF DeleteFails
<1>12. CASE Release
  <2>1. rules' = rules /\ pc = "release" /\ newId = 0
    BY <1>12, <1>2 DEF Release
  <2>2. CASE objFresh
    BY <2>1, <2>2
  <2>3. CASE ~objFresh
    <3>1. cr' = cr
      BY <1>12, <2>3, WriteEffect DEF Release
    <3> QED BY <2>1, <3>1
  <2> QED BY <2>2, <2>3
<1>13. CASE Crash
  BY <1>13 DEF Crash, Restart
<1> QED
  BY IdSteps, <1>3, <1>31, <1>4, <1>5, <1>6, <1>7, <1>8, <1>9, <1>10, <1>11,
     <1>12, <1>13

(* No drift handling, no deletion and no edit that stays in its cluster    *)
(* leaves a rule behind: that takes a failed POST, a crash, a refused      *)
(* record, or an edit that names another cluster.                          *)
THEOREM OrphansNeedLoss == Spec => OrphansOnlyByLoss
<1>1. Init => Bare /\ Tied
  BY BoundsAssumption
     DEF Init, KubeInit, Created, NoStatus, Bare, Tied
<1>2. IInv /\ Bare /\ Tied /\ [Next]_vars => [Losses]_vars /\ Bare' /\ Tied'
  BY LossStep, BareStep, TiedStep
<1>3. Spec => [][Losses]_vars
  BY <1>1, <1>2, Invariance, PTL DEF Spec
<1> QED BY <1>3 DEF OrphansOnlyByLoss, Losses
=============================================================================
