--------------------------- MODULE PlatformProofs ---------------------------
(***************************************************************************)
(* Theorems of Platform, for every value of MaxGen, Budgets and Plans that *)
(* the assumptions allow.                                                  *)
(*                                                                         *)
(* Copies relates the versions of the resource and says what the finalizer *)
(* protects, Pausing what an old copy can get wrong about a pause, Placed  *)
(* what a running pass has deployed so far, and Started which pods it may  *)
(* rely on.                                                                *)
(***************************************************************************)
EXTENDS Platform, TLAPS

(* A pass that deploys, and every pass that has put the finalizer on.      *)
Working == {"timeseries", "search", "gate", "server", "dashgate",
            "dashboard", "refetch", "record"}
Building == Working \ {"refetch", "record"}
Protected == Working \cup {"reget", "admitted"}

paused == cr.status.conds["Paused"] = "True"

(* How old the copies are, and who holds the finalizer.                    *)
Copies ==
  /\ cacheFresh => cache = cr
  /\ objFresh /\ pc # "reget" => obj = cr
  /\ pc = "idle" => ~objFresh
  /\ objFresh => cache.gen = cr.gen
  /\ pc # "idle" /\ ~objFresh => queued \/ ~cacheFresh
  /\ pc = "release" => obj.deleting
  /\ pc = "fetched" => obj.live
  /\ cache.deleting => cr.deleting
  /\ pc # "idle" /\ obj.deleting => cache.deleting

Guard ==
  /\ cr.finalizer => cr.live
  /\ cr.live /\ cr.deleting => cr.finalizer
  /\ cache.finalizer /\ ~cache.deleting => cr.finalizer
  /\ pc # "idle" /\ obj.finalizer /\ ~obj.deleting => cr.finalizer
  /\ pc \in Protected => cr.finalizer

(* A copy that has not seen the pause recorded has seen it asked for.      *)
Pausing ==
  /\ paused /\ cache.status.conds["Paused"] # "True" => plan[cache.gen].pause
  /\ pc # "idle" /\ paused /\ obj.status.conds["Paused"] # "True" =>
       plan[obj.gen].pause
  /\ pc \in Working => ~paused

(* Workload w is as the running pass wants it.                             *)
InPlace(w) ==
  /\ sts[w] = IF w \in Wanted(plan[applied]) THEN applied ELSE 0
  /\ w \in Internal(plan[applied]) => w \in certs

Passed ==
  CASE pc = "search" -> {"timeseries"}
    [] pc \in {"gate", "server"} -> Databases
    [] pc \in {"dashgate", "dashboard"} -> Databases \cup {"server"}
    [] pc \in {"refetch", "record"} -> Workloads
    [] OTHER -> {}

Placed ==
  /\ pc \in Working /\ applied # cr.gen => queued \/ ~cacheFresh
  /\ pc \in Building => applied = obj.gen
  /\ \A w \in Passed : InPlace(w)
  /\ IdleIsApplied

(* The gates let a pass through when pods are ready, so they have started. *)
Started ==
  /\ \A w \in ready : pods[w] # 0
  /\ pc = "server" /\ wished.server =>
       \A d \in Internal(wished) : pods[d] # 0
  /\ pc = "dashboard" /\ wished.dashboard /\ wished.server =>
       pods["server"] # 0

IInv == TypeOK /\ Copies /\ Guard /\ Pausing /\ Placed /\ Started
-----------------------------------------------------------------------------
(* What the updates the reconciler and the users make leave of a resource. *)

(* A new resource is well-formed.                                          *)
LEMMA CreatedType == Created(NoStatus) \in Object(Status)
  BY BoundsAssumption DEF Created, NoStatus, Object, Status, Verdicts

(* new is o with another status, which does not record a new pause.        *)
Reports(o, new) ==
  /\ new \in Object(Status)
  /\ new.live = o.live /\ new.gen = o.gen
  /\ new.finalizer = o.finalizer /\ new.deleting = o.deleting
  /\ new.status.conds["Paused"] = "True" => o.status.conds["Paused"] = "True"

(* Setting a condition leaves everything else alone.                       *)
LEMMA MarkedFields ==
  ASSUME NEW o \in Object(Status), NEW c \in Conditions,
         NEW v \in Verdicts
  PROVE  /\ Marked(o, c, v) \in Object(Status)
         /\ Marked(o, c, v).live = o.live
         /\ Marked(o, c, v).gen = o.gen
         /\ Marked(o, c, v).finalizer = o.finalizer
         /\ Marked(o, c, v).deleting = o.deleting
         /\ \A x \in Conditions : Marked(o, c, v).status.conds[x] =
              IF x = c THEN v ELSE o.status.conds[x]
<1> DEFINE cs == [o.status.conds EXCEPT ![c] = v]
           st == [o.status EXCEPT !.conds = cs]
<1>1. cs \in [Conditions -> Verdicts]
  BY DEF Object, Status
<1>2. st \in Status
  BY <1>1 DEF Object, Status
<1>3. Marked(o, c, v) = [o EXCEPT !.status = st]
  BY DEF Marked, Object, Status
<1> HIDE DEF st
<1>4. /\ [o EXCEPT !.status = st] \in Object(Status)
      /\ [o EXCEPT !.status = st].live = o.live
      /\ [o EXCEPT !.status = st].gen = o.gen
      /\ [o EXCEPT !.status = st].finalizer = o.finalizer
      /\ [o EXCEPT !.status = st].deleting = o.deleting
      /\ [o EXCEPT !.status = st].status = st
  BY <1>2 DEF Object
<1>5. st.conds = cs
  BY DEF st, Object, Status
<1>6. \A x \in Conditions : cs[x] = IF x = c THEN v ELSE o.status.conds[x]
  BY DEF Object, Status
<1> HIDE DEF cs
<1> QED BY <1>3, <1>4, <1>5, <1>6

(* Setting any condition but Paused is a report.                           *)
LEMMA MarkedReports ==
  ASSUME NEW o \in Object(Status), NEW c \in Conditions, c # "Paused",
         NEW v \in Verdicts
  PROVE  Marked(o, c, v) \in Object(Status) /\ Reports(o, Marked(o, c, v))
<1>1. "Paused" \in Conditions
  BY DEF Conditions
<1> QED BY <1>1, MarkedFields DEF Reports

(* Setting the Paused condition leaves everything else alone.              *)
LEMMA MarkedPaused ==
  ASSUME NEW o \in Object(Status), NEW v \in Verdicts
  PROVE  /\ Marked(o, "Paused", v) \in Object(Status)
         /\ Marked(o, "Paused", v).live = o.live
         /\ Marked(o, "Paused", v).gen = o.gen
         /\ Marked(o, "Paused", v).finalizer = o.finalizer
         /\ Marked(o, "Paused", v).deleting = o.deleting
         /\ Marked(o, "Paused", v).status.conds["Paused"] = v
<1>1. "Paused" \in Conditions
  BY DEF Conditions
<1> QED BY <1>1, MarkedFields

(* Recording the observed generation is a report.                          *)
LEMMA ObservedReports ==
  ASSUME NEW o \in Object(Status)
  PROVE  /\ Observed(o, o.gen) \in Object(Status)
         /\ Reports(o, Observed(o, o.gen))
  BY BoundsAssumption DEF Observed, Reports, Object, Status

(* Reports add up.                                                         *)
LEMMA ReportsTrans ==
  ASSUME NEW o, NEW p, NEW q, Reports(o, p), Reports(p, q)
  PROVE  Reports(o, q)
  BY DEF Reports

(* A rejection is a report.                                                *)
LEMMA RejectedReports ==
  ASSUME NEW o \in Object(Status)
  PROVE  Reports(o, Rejected(o))
<1> DEFINE m == Marked(o, "Ready", "False")
<1>1. m \in Object(Status) /\ Reports(o, m)
  BY MarkedReports DEF Conditions, Verdicts
<1>2. Reports(m, Observed(m, m.gen))
  BY <1>1, ObservedReports
<1>3. m.gen = o.gen
  BY <1>1 DEF Reports
<1> QED BY <1>1, <1>2, <1>3, ReportsTrans DEF Rejected

(* So is the verdict on the issuer.                                        *)
LEMMA CertifiedReports ==
  ASSUME NEW o \in Object(Status)
  PROVE  Certified(o) \in Object(Status) /\ Reports(o, Certified(o))
<1>1. Marked(o, "CertManagerReady", "True") \in Object(Status)
      /\ Reports(o, Marked(o, "CertManagerReady", "True"))
  BY MarkedReports DEF Conditions, Verdicts
<1>2. Reports(o, o)
  BY DEF Reports
<1> QED BY <1>1, <1>2 DEF Certified

(* And so is the record of a whole pass.                                   *)
LEMMA RecordedReports ==
  ASSUME NEW o \in Object(Status)
  PROVE  Reports(o, Recorded(o))
<1> DEFINE c == Certified(o)
<1>1. c \in Object(Status) /\ Reports(o, c)
  BY CertifiedReports
<1>2. Recorded(o) \in Object(Status)
  <2>1. Recorded(o).status \in Status
    BY <1>1, BoundsAssumption DEF Recorded, Object, Status, Named, Verdicts
  <2> QED BY <2>1 DEF Recorded, Object
<1>3. Recorded(o).status.conds["Paused"] = c.status.conds["Paused"]
  BY <1>1 DEF Recorded, Object, Conditions
<1>4. /\ Recorded(o).live = o.live /\ Recorded(o).gen = o.gen
      /\ Recorded(o).finalizer = o.finalizer
      /\ Recorded(o).deleting = o.deleting
  BY DEF Recorded, Object
<1> QED BY <1>1, <1>2, <1>3, <1>4 DEF Reports

(* Putting the finalizer on or off; off also lets the resource go.         *)
LEMMA FinalizerFields ==
  ASSUME NEW o \in Object(Status)
  PROVE  /\ Guarded(o) \in Object(Status)
         /\ Guarded(o).finalizer
         /\ Guarded(o).live = o.live
         /\ Guarded(o).gen = o.gen
         /\ Guarded(o).deleting = o.deleting
         /\ Guarded(o).status = o.status
         /\ Released(o) \in Object(Status)
         /\ ~Released(o).finalizer
         /\ ~Released(o).live
         /\ Released(o).gen = o.gen
         /\ Released(o).deleting = o.deleting
         /\ Released(o).status = o.status
  BY DEF Guarded, Released, Object

(* A user edit makes a new generation and nothing else.                    *)
LEMMA EditedFields ==
  ASSUME NEW o \in Object(Status)
  PROVE  /\ o.gen < MaxGen => Edited(o) \in Object(Status)
         /\ Edited(o).gen = o.gen + 1
         /\ Edited(o).live = o.live
         /\ Edited(o).finalizer = o.finalizer
         /\ Edited(o).deleting = o.deleting
         /\ Edited(o).status = o.status
  BY BoundsAssumption DEF Edited, Object

(* A user deletion marks a guarded resource and drops an unguarded one.    *)
LEMMA CondemnedFields ==
  ASSUME NEW o \in Object(Status)
  PROVE  /\ Condemned(o) \in Object(Status)
         /\ Condemned(o).gen = o.gen
         /\ Condemned(o).finalizer = o.finalizer
         /\ Condemned(o).status = o.status
         /\ o.finalizer =>
              Condemned(o).live = o.live /\ Condemned(o).deleting
         /\ ~o.finalizer =>
              ~Condemned(o).live /\ Condemned(o).deleting = o.deleting
<1>1. CASE o.finalizer
  BY <1>1 DEF Condemned, Object
<1>2. CASE ~o.finalizer
  BY <1>2 DEF Condemned, Object
<1> QED BY <1>1, <1>2

(* A closed gate and a failing issuer are reported in a re-fetched copy.   *)
LEMMA WaitReports ==
  ASSUME NEW o \in Object(Status), NEW c \in {"ServerReady", "DashboardReady"}
  PROVE  Reports(o, Marked(Certified(o), c, "False"))
<1>1. Certified(o) \in Object(Status) /\ Reports(o, Certified(o))
  BY CertifiedReports
<1>2. Reports(Certified(o), Marked(Certified(o), c, "False"))
  BY <1>1, MarkedReports DEF Conditions, Verdicts
<1> QED BY <1>1, <1>2, ReportsTrans

LEMMA IssuerReports ==
  ASSUME NEW o \in Object(Status)
  PROVE  Reports(o, Observed(Marked(o, "CertManagerReady", "False"), o.gen))
<1> DEFINE m == Marked(o, "CertManagerReady", "False")
<1>1. m \in Object(Status) /\ Reports(o, m)
  BY MarkedReports DEF Conditions, Verdicts
<1>2. Reports(m, Observed(m, m.gen)) /\ m.gen = o.gen
  BY <1>1, ObservedReports DEF Reports
<1> QED BY <1>1, <1>2, ReportsTrans

-----------------------------------------------------------------------------
(* What one step of the reconciler does to the resource in the API server: *)
(* nearly all steps report at most.                                        *)
Kept ==
  /\ Reports(cr, cr')
  /\ cacheFresh' \in BOOLEAN
  /\ cacheFresh' => cacheFresh /\ cr' = cr

(* An update that reports keeps the rest.                                  *)
LEMMA WriteKept ==
  ASSUME TypeOK, Copies, pc # "reget", NEW new,
         objFresh => Reports(obj, new), TryWrite(new)
  PROVE  Kept
<1>1. Reports(cr, cr)
  BY DEF TypeOK, Reports
<1>2. CASE objFresh
  BY <1>2 DEF TypeOK, Copies, Kept, TryWrite, Write
<1>3. CASE ~objFresh
  BY <1>1, <1>3 DEF TypeOK, Kept, TryWrite
<1> QED BY <1>2, <1>3

(* So does a report written to a re-fetched copy.                          *)
LEMMA ReportKept ==
  ASSUME TypeOK, NEW new, Reports(cr, new),
         (cacheFresh /\ Write(new)) \/ UNCHANGED <<cr, cacheFresh>>
  PROVE  Kept
<1>1. Reports(cr, cr)
  BY DEF TypeOK, Reports
<1>2. Reports(cr, cr')
  BY <1>1 DEF Write
<1>3. CASE cacheFresh /\ Write(new)
  BY <1>2, <1>3, Zenon DEF TypeOK, Kept, Write
<1>4. CASE UNCHANGED <<cr, cacheFresh>>
  BY <1>2, <1>4 DEF TypeOK, Kept
<1> QED BY <1>3, <1>4

(* And a step that leaves the resource alone.                              *)
LEMMA IdleKept ==
  ASSUME TypeOK, UNCHANGED <<cr, cacheFresh>>
  PROVE  Kept
  BY DEF TypeOK, Kept, Reports

(* Taking the Paused condition off keeps the rest.                         *)
LEMMA ClearPausedKept ==
  ASSUME TypeOK, Copies, ClearPaused
  PROVE  Kept
<1>1. Reports(obj, Marked(obj, "Paused", "unset"))
  BY MarkedPaused DEF Reports, Verdicts, TypeOK
<1> QED BY <1>1, WriteKept DEF ClearPaused, Admitted

(* All steps of the reconciler but three keep the resource.                *)
LEMMA Update ==
  ASSUME TypeOK, Copies, Reconcile
  PROVE  AddFinalizer \/ Release \/ SkipPaused \/ Kept
<1> USE DEF kubeVars, children
<1>1. CASE Fetch \/ ReGet \/ Refetch
  BY <1>1, IdleKept DEF Fetch, ReGet, Refetch
<1>2. CASE CleanUp \/ CleanUpFails \/ StartPass
  BY <1>2, IdleKept DEF CleanUp, CleanUpFails, StartPass
<1>3. CASE ClearPaused
  BY <1>3, ClearPausedKept
<1>4. CASE RejectConfig
  BY <1>4, RejectedReports, WriteKept DEF RejectConfig, Going, Admitted, TypeOK
<1>5. CASE IssuerFails
  BY <1>5, IssuerReports, ReportKept DEF IssuerFails, TypeOK
<1>6. ASSUME NEW d \in Databases, EnableDatabase(d) \/ DisableDatabase(d)
                                  \/ DatabaseFails(d)
      PROVE  Kept
  BY <1>6, IdleKept DEF EnableDatabase, DisableDatabase, DatabaseFails
<1>7. ASSUME NEW d \in Databases, RejectExternal(d)
      PROVE  Kept
  <2>1. Reports(obj, Rejected(Certified(obj)))
    <3>1. Certified(obj) \in Object(Status) /\ Reports(obj, Certified(obj))
      BY CertifiedReports DEF TypeOK
    <3>2. Reports(Certified(obj), Rejected(Certified(obj)))
      BY <3>1, RejectedReports
    <3> QED BY <3>1, <3>2, ReportsTrans
  <2>2. pc # "reget"
    BY <1>7 DEF RejectExternal, Databases
  <2> QED BY <1>7, <2>1, <2>2, WriteKept DEF RejectExternal
<1>8. CASE DatabaseGateWaits
  BY <1>8, WaitReports, ReportKept DEF DatabaseGateWaits, Wait, TypeOK
<1>9. CASE DashboardGateWaits
  BY <1>9, WaitReports, ReportKept DEF DashboardGateWaits, Wait, TypeOK
<1>10. CASE DatabaseGateOpens \/ ServerDone \/ DashboardGateOpens
            \/ DashboardDone
  BY <1>10, IdleKept
     DEF DatabaseGateOpens, ServerDone, DashboardGateOpens, DashboardDone
<1>11. ASSUME NEW w \in {"server", "dashboard"}, WorkloadFails(w)
       PROVE  Kept
  BY <1>11, IdleKept DEF WorkloadFails
<1>12. CASE Record
  <2>1. CASE StatusChanged
    BY <1>12, <2>1, RecordedReports, WriteKept DEF Record, TypeOK
  <2>2. CASE ~StatusChanged
    BY <1>12, <2>2, IdleKept DEF Record
  <2> QED BY <2>1, <2>2
<1> QED
  BY <1>1, <1>2, <1>3, <1>4, <1>5, <1>6, <1>7, <1>8, <1>9, <1>10, <1>11,
     <1>12 DEF Reconcile

-----------------------------------------------------------------------------
(* What one step does to the copy in hand: it drops it, reads it anew, or  *)
(* goes on with it.                                                        *)
Returns == pc' = "idle" /\ ~objFresh'

Reads ==
  /\ obj' = cache /\ objFresh' = cacheFresh
  /\ UNCHANGED <<cr, cacheFresh>>
  /\ \/ pc = "idle" /\ pc' = "fetched" /\ cache.live
     \/ pc = "reget" /\ pc' = "admitted"
     \/ pc = "refetch" /\ pc' = "record"

Moves ==
  /\ UNCHANGED <<obj, objFresh, cr, cacheFresh>>
  /\ queued => queued'
  /\ \/ pc = "fetched" /\ obj.deleting /\ pc' = "release"
     \/ pc' = "timeseries" /\ StartPass
     \/ pc \in Building /\ pc' \in Working \ {"timeseries", "record"}

Confirms ==
  /\ objFresh
  /\ \/ AddFinalizer /\ pc' = "reget"
     \/ ClearPaused /\ pc' = "admitted"

(* A return drops the copy.                                                *)
LEMMA ReturnReturns == ASSUME NEW r, Return(r) PROVE Returns
  BY DEF Return, Forget, Returns

(* Every step of the reconciler is of one of these kinds.                  *)
LEMMA Control ==
  ASSUME TypeOK, Copies, Reconcile
  PROVE  /\ cache' = cache /\ plan' = plan
         /\ Returns \/ Reads \/ Moves \/ Confirms
<1> USE ReturnReturns DEF kubeVars, children, Working, Building
<1>1. CASE Fetch
  BY <1>1 DEF Fetch, ReadCache, Copies, Returns, Reads
<1>2. CASE ReGet \/ Refetch
  BY <1>2 DEF ReGet, Refetch, ReadCache, Reads
<1>3. CASE CleanUp
  BY <1>3 DEF CleanUp, Deleting, Moves
<1>4. CASE AddFinalizer
  BY <1>4 DEF AddFinalizer, Confirms
<1>5. CASE ClearPaused
  BY <1>5 DEF ClearPaused, Confirms
<1>6. CASE StartPass
  BY <1>6 DEF StartPass, Moves
<1>7. CASE CleanUpFails \/ Release \/ SkipPaused \/ RejectConfig
           \/ IssuerFails
  BY <1>7 DEF CleanUpFails, Release, SkipPaused, RejectConfig, IssuerFails
<1>8. ASSUME NEW d \in Databases, EnableDatabase(d) \/ DisableDatabase(d)
      PROVE  cache' = cache /\ plan' = plan /\ Moves
  BY <1>8 DEF EnableDatabase, DisableDatabase, Databases, After, Notice, Moves
<1>9. ASSUME NEW d \in Databases, RejectExternal(d) \/ DatabaseFails(d)
      PROVE  cache' = cache /\ plan' = plan /\ Returns
  BY <1>9 DEF RejectExternal, DatabaseFails
<1>10. CASE DatabaseGateWaits \/ DashboardGateWaits
  BY <1>10 DEF DatabaseGateWaits, DashboardGateWaits, Wait
<1>11. CASE DatabaseGateOpens \/ DashboardGateOpens
  BY <1>11 DEF DatabaseGateOpens, DashboardGateOpens, Moves
<1>12. CASE ServerDone \/ DashboardDone
  BY <1>12 DEF ServerDone, DashboardDone, Settle, Notice, Moves
<1>13. ASSUME NEW w \in {"server", "dashboard"}, WorkloadFails(w)
       PROVE  cache' = cache /\ plan' = plan /\ Returns
  BY <1>13 DEF WorkloadFails
<1>14. CASE Record
  BY <1>14 DEF Record
<1> QED
  BY <1>1, <1>2, <1>3, <1>4, <1>5, <1>6, <1>7, <1>8, <1>9, <1>10, <1>11,
     <1>12, <1>13, <1>14 DEF Reconcile

-----------------------------------------------------------------------------
(* The copies of the resource stay in order under every step.              *)

(* With the newest version in hand the finalizer goes on; else nothing is  *)
(* written.                                                                *)
LEMMA AddFinalizerEffect ==
  ASSUME TypeOK, Copies, AddFinalizer
  PROVE  /\ cr' \in Object(Status) /\ cacheFresh' \in BOOLEAN
         /\ cr'.live = cr.live /\ cr'.gen = cr.gen
         /\ cr'.deleting = cr.deleting /\ cr'.status = cr.status
         /\ cr.finalizer => cr'.finalizer
         /\ objFresh => cr'.finalizer /\ ~cr.deleting
         /\ objFresh => pc' = "reget" /\ cr.live
         /\ ~objFresh => Returns /\ cr' = cr
         /\ cacheFresh' => cacheFresh /\ cr' = cr
<1>1. TryWrite(Guarded(obj)) /\ (objFresh => obj = cr) /\ ~obj.deleting
  BY DEF AddFinalizer, Copies
<1>2. /\ ~objFresh => Returns
      /\ objFresh => pc' = "reget" /\ cr.live
  BY <1>1, ReturnReturns DEF AddFinalizer, Copies
<1>3. cacheFresh' \in BOOLEAN /\ (cacheFresh' => cacheFresh /\ cr' = cr)
  BY <1>1, Zenon DEF TypeOK, TryWrite, Write
<1>4. CASE objFresh
  BY <1>1, <1>2, <1>3, <1>4, FinalizerFields DEF TypeOK, TryWrite, Write
<1>5. CASE ~objFresh
  BY <1>1, <1>2, <1>3, <1>5 DEF TypeOK, TryWrite
<1> QED BY <1>4, <1>5

(* With the newest version in hand the resource goes.                      *)
LEMMA ReleaseEffect ==
  ASSUME TypeOK, Copies, Release
  PROVE  /\ cr' \in Object(Status) /\ cacheFresh' \in BOOLEAN
         /\ cr'.gen = cr.gen /\ cr'.deleting = cr.deleting
         /\ cr'.status = cr.status
         /\ objFresh => ~cr'.live /\ ~cr'.finalizer
         /\ ~objFresh => cr' = cr /\ timer'
         /\ Returns /\ obj.deleting
         /\ cacheFresh' => cacheFresh /\ cr' = cr
<1>1. /\ TryWrite(Released(obj)) /\ (objFresh => obj = cr) /\ obj.deleting
      /\ Return(~objFresh)
  BY DEF Release, Copies
<1>2. Returns /\ (~objFresh => timer')
  BY <1>1, ReturnReturns DEF Return, Forget
<1>3. cacheFresh' \in BOOLEAN /\ (cacheFresh' => cacheFresh /\ cr' = cr)
  BY <1>1, Zenon DEF TypeOK, TryWrite, Write
<1>4. CASE objFresh
  BY <1>1, <1>2, <1>3, <1>4, FinalizerFields DEF TypeOK, TryWrite, Write
<1>5. CASE ~objFresh
  BY <1>1, <1>2, <1>3, <1>5 DEF TypeOK, TryWrite
<1> QED BY <1>4, <1>5

(* A pause is recorded only when it is asked for in the newest version.    *)
LEMMA SkipPausedEffect ==
  ASSUME TypeOK, Copies, SkipPaused
  PROVE  /\ cr' \in Object(Status) /\ cacheFresh' \in BOOLEAN
         /\ cr'.live = cr.live /\ cr'.gen = cr.gen
         /\ cr'.deleting = cr.deleting /\ cr'.finalizer = cr.finalizer
         /\ objFresh => plan[cr.gen].pause
         /\ ~objFresh => cr' = cr /\ timer'
         /\ Returns
         /\ cacheFresh' => cacheFresh /\ cr' = cr
<1>1. /\ TryWrite(Marked(obj, "Paused", "True"))
      /\ (objFresh => obj = cr) /\ plan[obj.gen].pause
      /\ Return(~objFresh)
  BY DEF SkipPaused, Admitted, Copies, wished
<1>2. Returns /\ (~objFresh => timer')
  BY <1>1, ReturnReturns DEF Return, Forget
<1>3. cacheFresh' \in BOOLEAN /\ (cacheFresh' => cacheFresh /\ cr' = cr)
  BY <1>1, Zenon DEF TypeOK, TryWrite, Write
<1>4. CASE objFresh
  BY <1>1, <1>2, <1>3, <1>4, MarkedPaused
     DEF TypeOK, TryWrite, Write, Verdicts
<1>5. CASE ~objFresh
  BY <1>1, <1>2, <1>3, <1>5 DEF TypeOK, TryWrite
<1> QED BY <1>4, <1>5

(* Whatever the reconciler writes keeps the generation, and is seen later. *)
LEMMA Written ==
  ASSUME TypeOK, Copies, Reconcile
  PROVE  /\ cr' \in Object(Status) /\ cacheFresh' \in BOOLEAN
         /\ cr'.gen = cr.gen /\ cr'.deleting = cr.deleting
         /\ cacheFresh' => cacheFresh /\ cr' = cr
<1>1. CASE Kept
  BY <1>1 DEF Kept, Reports
<1> QED BY <1>1, Update, AddFinalizerEffect, ReleaseEffect, SkipPausedEffect

(* Taking the Paused condition off leaves the newest version in hand.      *)
LEMMA ConfirmsEffect ==
  ASSUME TypeOK, Copies, Confirms
  PROVE  /\ objFresh' /\ pc # "idle" /\ pc' # "idle"
         /\ obj'.deleting = obj.deleting /\ obj'.gen = obj.gen
         /\ obj'.finalizer = obj.finalizer
         /\ obj' \in Object(Status)
         /\ pc' # "reget" => obj' = cr' /\ cr'.finalizer = cr.finalizer
                             /\ cr'.status.conds["Paused"] = "unset"
<1>1. CASE AddFinalizer /\ pc' = "reget"
  BY <1>1 DEF Confirms, AddFinalizer, TypeOK
<1>2. CASE ClearPaused /\ pc' = "admitted"
  <2>1. /\ obj' = Marked(obj, "Paused", "unset") /\ objFresh'
        /\ cr' = Marked(obj, "Paused", "unset")
        /\ pc \in {"fetched", "admitted"}
    BY <1>2 DEF Confirms, ClearPaused, Admitted, TryWrite, Write
  <2>2. obj = cr
    BY <2>1 DEF Copies, Confirms
  <2> QED BY <1>2, <2>1, <2>2, MarkedPaused DEF TypeOK, Verdicts
<1> QED BY <1>1, <1>2 DEF Confirms

(* Steps of the cluster leave the resource alone and queue it, unless it   *)
(* is gone.                                                                *)
LEMMA ClusterEffect ==
  ASSUME Cluster
  PROVE  /\ UNCHANGED <<cr, cache, cacheFresh, obj, objFresh, timer,
                        pc, applied, plan>>
         /\ queued' \/ (~cr.live /\ queued' = queued)
<1> USE DEF kubeVars
<1>1. ASSUME NEW d \in Databases, Issue(d)
      PROVE  UNCHANGED <<cr, cache, cacheFresh, obj, objFresh, timer,
                         pc, applied, plan>> /\ queued'
  BY <1>1 DEF Issue
<1>2. ASSUME NEW w \in Workloads, Roll(w) \/ BecomesReady(w)
                                  \/ LosesReadiness(w)
      PROVE  UNCHANGED <<cr, cache, cacheFresh, obj, objFresh, timer,
                         pc, applied, plan>> /\ queued'
  BY <1>2 DEF Roll, BecomesReady, LosesReadiness
<1>3. CASE Collect
  BY <1>3 DEF Collect
<1> QED BY <1>1, <1>2, <1>3 DEF Cluster

LEMMA CopiesStep == TypeOK /\ Copies /\ Guard /\ [Next]_vars => Copies'
<1> SUFFICES ASSUME TypeOK, Copies, Guard, [Next]_vars PROVE Copies'
  OBVIOUS
<1>1. CASE Reconcile
  <2>1. /\ cr'.gen = cr.gen /\ cr'.deleting = cr.deleting
        /\ cacheFresh' => cacheFresh /\ cr' = cr
        /\ cache' = cache
    BY <1>1, Written, Control
  <2>2. CASE Returns
    BY <2>1, <2>2 DEF Copies, Returns
  <2>3. CASE Reads
    BY <2>1, <2>3 DEF Copies, Reads
  <2>4. CASE Moves
    <3>1. pc # "idle" /\ pc # "reget" /\ pc' # "idle" /\ pc' # "reget"
      BY <2>4 DEF Moves, Working, Building, StartPass, Going, Admitted
    <3>2. (pc' = "release" => obj.deleting) /\ pc' # "fetched"
      BY <2>4 DEF Moves, Working
    <3> QED BY <2>1, <2>4, <3>1, <3>2 DEF Copies, Moves
  <2>5. CASE Confirms
    <3>1. pc' \notin {"release", "fetched"}
      BY <2>5 DEF Confirms
    <3> QED BY <2>1, <2>5, <3>1, ConfirmsEffect DEF Copies, Confirms
  <2> QED BY <1>1, <2>2, <2>3, <2>4, <2>5, Control
<1>2. CASE KubeEnvironment /\ UNCHANGED platformVars
  <2> USE DEF Copies, TypeOK, platformVars
  <2>1. CASE UserEdits
    BY <1>2, <2>1, EditedFields DEF UserEdits, Overwrite
  <2>2. CASE UserDeletes
    BY <1>2, <2>2, CondemnedFields DEF UserDeletes, Overwrite
  <2>3. CASE WatchDelivers
    BY <1>2, <2>3 DEF WatchDelivers
  <2>4. CASE TimerFires
    BY <1>2, <2>4 DEF TimerFires
  <2>5. CASE Resync
    BY <1>2, <2>5 DEF Resync
  <2> QED BY <1>2, <2>1, <2>2, <2>3, <2>4, <2>5 DEF KubeEnvironment
<1>3. CASE Crash
  BY <1>3 DEF Crash, Restart, Copies
<1>4. CASE Cluster
  BY <1>4, ClusterEffect DEF Copies
<1>5. CASE UNCHANGED vars
  BY <1>5 DEF vars, kubeVars, platformVars, Copies
<1> QED BY <1>1, <1>2, <1>3, <1>4, <1>5 DEF Next, Environment

(* The finalizer stays on while a pass relies on it.                       *)
LEMMA GuardStep == TypeOK /\ Copies /\ Guard /\ [Next]_vars => Guard'
<1> SUFFICES ASSUME TypeOK, Copies, Guard, [Next]_vars PROVE Guard'
  OBVIOUS
<1>1. CASE Reconcile
  <2>1. cache' = cache /\ cr'.deleting = cr.deleting
    BY <1>1, Written, Control
  <2>2. CASE Release
    <3>1. obj.deleting /\ Returns /\ pc # "idle"
      BY <2>2, ReleaseEffect DEF Release
    <3>2. objFresh => ~cr'.live /\ ~cr'.finalizer
      BY <2>2, ReleaseEffect
    <3>3. ~objFresh => cr' = cr
      BY <2>2, ReleaseEffect
    <3> QED BY <2>1, <3>1, <3>2, <3>3
            DEF Guard, Copies, Returns, Protected, Working
  <2>3. CASE Returns /\ (AddFinalizer \/ SkipPaused \/ Kept)
    <3>1. cr'.live = cr.live /\ cr'.finalizer = cr.finalizer
      <4>1. CASE AddFinalizer
        BY <2>3, <4>1, AddFinalizerEffect DEF Returns
      <4>2. CASE SkipPaused \/ Kept
        BY <4>2, SkipPausedEffect DEF Kept, Reports
      <4> QED BY <2>3, <4>1, <4>2
    <3> QED BY <2>1, <2>3, <3>1 DEF Guard, Returns, Protected, Working
  <2>4. CASE Reads
    BY <2>1, <2>4 DEF Guard, Copies, Reads, Protected, Working
  <2>5. CASE Moves
    <3>1. pc' \in Protected => cr.finalizer
      BY <2>5 DEF Guard, Moves, StartPass, Going, Admitted, Protected,
                  Working, Building
    <3>2. pc # "idle"
      BY <2>5 DEF Moves, StartPass, Going, Admitted, Working, Building
    <3> QED BY <2>1, <2>5, <3>1, <3>2 DEF Guard, Moves
  <2>6. CASE AddFinalizer /\ objFresh
    BY <2>1, <2>6, AddFinalizerEffect DEF Guard
  <2>7. CASE ClearPaused /\ Confirms
    <3>1. /\ obj'.finalizer = obj.finalizer /\ obj'.deleting = obj.deleting
      BY <2>7, ConfirmsEffect
    <3>2. cr.finalizer
      BY <2>7 DEF ClearPaused, Admitted, Guard, Protected
    <3>3. cr'.live = cr.live /\ cr'.finalizer = cr.finalizer
      BY <2>7, ClearPausedKept DEF Kept, Reports
    <3>4. pc' = "admitted" \/ pc' = "reget"
      BY <2>7 DEF Confirms
    <3> QED BY <2>1, <3>1, <3>2, <3>3, <3>4 DEF Guard
  <2> QED BY <1>1, <2>2, <2>3, <2>4, <2>5, <2>6, <2>7, Control, Update
          DEF Confirms
<1>2. CASE KubeEnvironment /\ UNCHANGED platformVars
  <2> USE DEF Guard, Copies, TypeOK, platformVars
  <2>1. CASE UserEdits
    BY <1>2, <2>1, EditedFields DEF UserEdits, Overwrite
  <2>2. CASE UserDeletes
    BY <1>2, <2>2, CondemnedFields DEF UserDeletes, Overwrite
  <2>3. CASE WatchDelivers
    BY <1>2, <2>3 DEF WatchDelivers
  <2>4. CASE TimerFires
    BY <1>2, <2>4 DEF TimerFires
  <2>5. CASE Resync
    BY <1>2, <2>5 DEF Resync
  <2> QED BY <1>2, <2>1, <2>2, <2>3, <2>4, <2>5 DEF KubeEnvironment
<1>3. CASE Crash
  BY <1>3 DEF Crash, Restart, Guard, Protected, Working
<1>4. CASE Cluster
  BY <1>4, ClusterEffect DEF Guard
<1>5. CASE UNCHANGED vars
  BY <1>5 DEF vars, kubeVars, platformVars, Guard
<1> QED BY <1>1, <1>2, <1>3, <1>4, <1>5 DEF Next, Environment

-----------------------------------------------------------------------------
(* Shapes.                                                                 *)

(* Budgets stay natural numbers.                                           *)
LEMMA SpendType ==
  ASSUME TypeOK, NEW k \in Disturbances, Spend(k)
  PROVE  left' \in [Disturbances -> Nat]
  BY DEF TypeOK, Spend

(* Returning leaves a well-formed, empty hand.                             *)
LEMMA ReturnType ==
  ASSUME TypeOK, NEW r \in BOOLEAN, Return(r)
  PROVE  /\ obj' \in Object(Status) /\ objFresh' \in BOOLEAN
         /\ timer' \in BOOLEAN
         /\ pc' = "idle" /\ applied' \in 0 .. MaxGen
<1>1. obj' \in Object(Status) /\ objFresh' \in BOOLEAN
  BY CreatedType DEF Return, Forget
<1>2. timer' \in BOOLEAN
  BY Zenon DEF TypeOK, Return, Forget
<1>3. applied' \in 0 .. MaxGen
  BY BoundsAssumption DEF Return
<1> QED BY <1>1, <1>2, <1>3 DEF Return

(* Reading the cache leaves a well-formed copy.                            *)
LEMMA ReadType ==
  ASSUME TypeOK, ReadCache
  PROVE  /\ obj' \in Object(Status) /\ objFresh' \in BOOLEAN
         /\ left' \in [Disturbances -> Nat]
  BY SpendType DEF TypeOK, ReadCache, Disturbances

(* The workloads, their pods and certificates.                             *)
Children ==
  /\ sts \in [Workloads -> 0 .. MaxGen]
  /\ pods \in [Workloads -> 0 .. MaxGen]
  /\ ready \subseteq Workloads
  /\ certs \subseteq Databases /\ tls \subseteq Databases

(* Deploying and removing a workload keep their shapes.                    *)
LEMMA DeployType ==
  ASSUME TypeOK, NEW w \in Workloads, Deploy(w) \/ Undeploy(w)
  PROVE  /\ sts' \in [Workloads -> 0 .. MaxGen]
         /\ pods' \in [Workloads -> 0 .. MaxGen]
         /\ ready' \subseteq Workloads
  BY BoundsAssumption DEF TypeOK, Deploy, Undeploy

LEMMA CleanUpType ==
  ASSUME TypeOK, NEW d \in Databases, CleanUpDatabase(d)
  PROVE  Children'
<1>1. d \in Workloads /\ Undeploy(d)
  BY DEF CleanUpDatabase, Workloads
<1> QED BY <1>1, DeployType DEF CleanUpDatabase, TypeOK, Children

LEMMA SettleType ==
  ASSUME TypeOK, NEW w \in {"server", "dashboard"}, Settle(w)
  PROVE  Children' /\ queued' \in BOOLEAN
<1>1. w \in Workloads /\ (Deploy(w) \/ Undeploy(w))
  BY DEF Settle, Workloads
<1>2. queued' \in BOOLEAN
  BY Zenon DEF Settle, Notice, TypeOK
<1> QED BY <1>1, <1>2, DeployType DEF Settle, TypeOK, Children

LEMMA NoticeType == ASSUME TypeOK, Notice PROVE queued' \in BOOLEAN
  BY Zenon DEF TypeOK, Notice

(* Every step keeps the shapes.                                            *)
LEMMA TypeStep == TypeOK /\ Copies /\ [Next]_vars => TypeOK'
<1> SUFFICES ASSUME TypeOK, Copies, [Next]_vars PROVE TypeOK'
  OBVIOUS
<1>1. CASE Reconcile
  <2>1. cr' \in Object(Status) /\ cache' \in Object(Status)
        /\ cacheFresh' \in BOOLEAN /\ plan' \in Plans
    BY <1>1, Written, Control DEF TypeOK
  <2> USE DEF kubeVars, children
  <2>2. CASE Fetch
    BY <2>1, <2>2, ReadType DEF Fetch, TypeOK
  <2>3. CASE CleanUp
    BY <2>1, <2>3 DEF CleanUp, TypeOK
  <2>4. CASE CleanUpFails
    BY <2>1, <2>4, ReturnType, SpendType DEF CleanUpFails, TypeOK, Disturbances
  <2>5. CASE Release \/ SkipPaused \/ RejectConfig
    BY <2>1, <2>5, ReturnType DEF Release, SkipPaused, RejectConfig, TypeOK
  <2>6. CASE AddFinalizer
    BY <2>1, <2>6, ReturnType DEF AddFinalizer, TypeOK
  <2>7. CASE ReGet \/ Refetch
    BY <2>1, <2>7, ReadType DEF ReGet, Refetch, TypeOK
  <2>8. CASE ClearPaused
    <3>1. Marked(obj, "Paused", "unset") \in Object(Status)
      BY MarkedPaused DEF TypeOK, Verdicts
    <3>2. CASE objFresh
      BY <2>1, <2>8, <3>1, <3>2 DEF ClearPaused, TypeOK
    <3>3. CASE ~objFresh
      BY <2>1, <2>8, <3>3, ReturnType DEF ClearPaused, TypeOK
    <3> QED BY <3>2, <3>3
  <2>9. CASE IssuerFails
    BY <2>1, <2>9, ReturnType, SpendType DEF IssuerFails, TypeOK, Disturbances
  <2>10. CASE StartPass
    <3>1. applied' \in 0 .. MaxGen
      BY <2>10, BoundsAssumption DEF StartPass, TypeOK, Object
    <3> QED BY <2>1, <2>10, <3>1 DEF StartPass, TypeOK
  <2>11. ASSUME NEW d \in Databases, EnableDatabase(d) PROVE TypeOK'
    <3>1. /\ sts' \in [Workloads -> 0 .. MaxGen]
          /\ pods' \in [Workloads -> 0 .. MaxGen]
          /\ ready' \subseteq Workloads
      BY <2>11, DeployType DEF EnableDatabase, Workloads
    <3>2. queued' \in BOOLEAN
      BY <2>11, NoticeType DEF EnableDatabase
    <3> QED BY <2>1, <2>11, <3>1, <3>2 DEF EnableDatabase, After, TypeOK
  <2>12. ASSUME NEW d \in Databases, DisableDatabase(d) PROVE TypeOK'
    <3>1. Children'
      BY <2>12, CleanUpType DEF DisableDatabase
    <3>2. queued' \in BOOLEAN
      BY <2>12, NoticeType DEF DisableDatabase
    <3> QED BY <2>1, <2>12, <3>1, <3>2
            DEF DisableDatabase, After, TypeOK, Children
  <2>13. ASSUME NEW d \in Databases, RejectExternal(d) PROVE TypeOK'
    <3>1. Children'
      BY <2>13, CleanUpType DEF RejectExternal
    <3>2. queued' \in BOOLEAN
      BY <2>13, NoticeType DEF RejectExternal
    <3> QED BY <2>1, <2>13, <3>1, <3>2, ReturnType
            DEF RejectExternal, TypeOK, Children
  <2>14. ASSUME NEW d \in Databases, DatabaseFails(d) PROVE TypeOK'
    <3>1. Children'
      <4>1. CASE certs' \in {certs, certs \cup {d}}
                 /\ UNCHANGED <<sts, pods, ready, tls>>
        BY <4>1 DEF TypeOK, Children
      <4>2. CASE Undeploy(d) /\ UNCHANGED <<certs, tls>>
        BY <4>2, DeployType DEF TypeOK, Children, Workloads
      <4>3. CASE CleanUpDatabase(d)
        BY <4>3, CleanUpType
      <4>4. CASE UNCHANGED children
        BY <4>4 DEF TypeOK, Children
      <4> QED BY <2>14, <4>1, <4>2, <4>3, <4>4 DEF DatabaseFails
    <3>2. queued' \in BOOLEAN
      BY <2>14, NoticeType DEF DatabaseFails
    <3>3. left' \in [Disturbances -> Nat]
      BY <2>14, SpendType DEF DatabaseFails, Disturbances
    <3> QED BY <2>1, <2>14, <3>1, <3>2, <3>3, ReturnType
            DEF DatabaseFails, TypeOK, Children
  <2>15. CASE DatabaseGateWaits \/ DashboardGateWaits
    BY <2>1, <2>15, ReturnType
       DEF DatabaseGateWaits, DashboardGateWaits, Wait, TypeOK
  <2>16. CASE DatabaseGateOpens \/ DashboardGateOpens
    BY <2>1, <2>16 DEF DatabaseGateOpens, DashboardGateOpens, TypeOK
  <2>17. CASE ServerDone \/ DashboardDone
    BY <2>1, <2>17, SettleType
       DEF ServerDone, DashboardDone, TypeOK, Children
  <2>18. ASSUME NEW w \in {"server", "dashboard"}, WorkloadFails(w)
         PROVE  TypeOK'
    <3>1. Children' /\ queued' \in BOOLEAN
      BY <2>18, SettleType DEF WorkloadFails, Children, TypeOK
    <3>2. left' \in [Disturbances -> Nat]
      BY <2>18, SpendType DEF WorkloadFails, Disturbances
    <3> QED BY <2>1, <2>18, <3>1, <3>2, ReturnType
            DEF WorkloadFails, TypeOK, Children
  <2>19. CASE Record
    BY <2>1, <2>19, ReturnType DEF Record, TypeOK
  <2> QED
    BY <1>1, <2>2, <2>3, <2>4, <2>5, <2>6, <2>7, <2>8, <2>9, <2>10, <2>11,
       <2>12, <2>13, <2>14, <2>15, <2>16, <2>17, <2>18, <2>19 DEF Reconcile
<1>2. CASE KubeEnvironment /\ UNCHANGED platformVars
  <2> USE DEF TypeOK, platformVars, children
  <2>1. CASE UserEdits
    BY <1>2, <2>1, EditedFields DEF UserEdits, Overwrite
  <2>2. CASE UserDeletes
    <3>1. cr' \in Object(Status)
      BY <2>2, CondemnedFields DEF UserDeletes, Overwrite
    <3> QED BY <1>2, <2>2, <3>1 DEF UserDeletes, Overwrite
  <2>3. CASE WatchDelivers
    BY <1>2, <2>3 DEF WatchDelivers
  <2>4. CASE TimerFires
    BY <1>2, <2>4 DEF TimerFires
  <2>5. CASE Resync
    BY <1>2, <2>5 DEF Resync
  <2> QED BY <1>2, <2>1, <2>2, <2>3, <2>4, <2>5 DEF KubeEnvironment
<1>3. CASE Crash
  <2>1. left' \in [Disturbances -> Nat]
    BY <1>3, SpendType DEF Crash, Restart, Disturbances
  <2>2. obj' \in Object(Status) /\ applied' \in 0 .. MaxGen
    BY <1>3, CreatedType, BoundsAssumption DEF Crash, Restart
  <2> QED BY <1>3, <2>1, <2>2 DEF Crash, Restart, TypeOK, children
<1>4. CASE Cluster
  <2> USE DEF TypeOK, kubeVars, Workloads
  <2>1. ASSUME NEW d \in Databases, Issue(d) PROVE TypeOK'
    BY <2>1 DEF Issue
  <2>2. ASSUME NEW w \in Workloads, Roll(w) PROVE TypeOK'
    BY <2>2 DEF Roll
  <2>3. ASSUME NEW w \in Workloads, BecomesReady(w) PROVE TypeOK'
    BY <2>3 DEF BecomesReady
  <2>4. ASSUME NEW w \in Workloads, LosesReadiness(w) PROVE TypeOK'
    BY <2>4, SpendType DEF LosesReadiness, Disturbances
  <2>5. CASE Collect
    BY <2>5, BoundsAssumption DEF Collect
  <2> QED BY <1>4, <2>1, <2>2, <2>3, <2>4, <2>5 DEF Cluster
<1>5. CASE UNCHANGED vars
  BY <1>5 DEF vars, kubeVars, platformVars, children, TypeOK
<1> QED BY <1>1, <1>2, <1>3, <1>4, <1>5 DEF Next, Environment

-----------------------------------------------------------------------------
(* Pauses.                                                                 *)
LEMMA PausingStep ==
  TypeOK /\ Copies /\ Pausing /\ [Next]_vars => Pausing'
<1> SUFFICES ASSUME TypeOK, Copies, Pausing, [Next]_vars PROVE Pausing'
  OBVIOUS
<1>1. CASE Reconcile
  <2>1. cache' = cache /\ plan' = plan /\ cr'.gen = cr.gen
    BY <1>1, Written, Control
  <2>2. CASE SkipPaused
    <3>1. Returns /\ (objFresh => plan[cr.gen].pause)
          /\ (~objFresh => cr' = cr)
      BY <2>2, SkipPausedEffect
    <3>2. objFresh => cache.gen = cr.gen
      BY DEF Copies
    <3> QED BY <2>1, <3>1, <3>2 DEF Pausing, Returns, paused, Working
  <2>3. CASE paused' => paused
    <3>1. CASE Returns
      BY <2>1, <2>3, <3>1 DEF Pausing, Returns, Working
    <3>2. CASE Reads
      BY <2>1, <2>3, <3>2 DEF Pausing, Reads, Working
    <3>3. CASE Moves
      <4>1. pc # "idle" /\ UNCHANGED <<obj, cr>>
        BY <3>3 DEF Moves, StartPass, Going, Admitted, Building, Working
      <4>2. pc' \in Working => ~paused
        BY <3>3 DEF Moves, StartPass, Going, Admitted, wished, Pausing,
                    Building, Working
      <4> QED BY <2>1, <2>3, <4>1, <4>2 DEF Pausing, paused
    <3>4. CASE Confirms
      <4>1. pc' # "reget" => ~paused'
        BY <3>4, ConfirmsEffect DEF paused
      <4>2. pc' = "reget" =>
              objFresh /\ obj' = obj /\ pc # "idle"
        BY <3>4, ConfirmsEffect DEF Confirms, AddFinalizer
      <4>3. pc' \notin Working
        BY <3>4 DEF Confirms, Working
      <4> QED BY <2>1, <2>3, <4>1, <4>2, <4>3 DEF Pausing
    <3> QED BY <1>1, <3>1, <3>2, <3>3, <3>4, Control
  <2>4. AddFinalizer \/ Release \/ Kept => (paused' => paused)
    BY AddFinalizerEffect, ReleaseEffect DEF Kept, Reports, paused
  <2> QED BY <1>1, <2>2, <2>3, <2>4, Update
<1>2. CASE KubeEnvironment /\ UNCHANGED platformVars
  <2> USE DEF Pausing, paused, Copies, TypeOK, platformVars
  <2>1. CASE UserEdits
    BY <1>2, <2>1, EditedFields DEF UserEdits, Overwrite
  <2>2. CASE UserDeletes
    <3>1. cr'.status = cr.status
      BY <2>2, CondemnedFields DEF UserDeletes, Overwrite
    <3> QED BY <1>2, <2>2, <3>1 DEF UserDeletes, Overwrite
  <2>3. CASE WatchDelivers
    BY <1>2, <2>3 DEF WatchDelivers
  <2>4. CASE TimerFires
    BY <1>2, <2>4 DEF TimerFires
  <2>5. CASE Resync
    BY <1>2, <2>5 DEF Resync
  <2> QED BY <1>2, <2>1, <2>2, <2>3, <2>4, <2>5 DEF KubeEnvironment
<1>3. CASE Crash
  BY <1>3 DEF Crash, Restart, Pausing, paused, Working
<1>4. CASE Cluster
  BY <1>4, ClusterEffect DEF Pausing, paused
<1>5. CASE UNCHANGED vars
  BY <1>5 DEF vars, kubeVars, platformVars, Pausing, paused
<1> QED BY <1>1, <1>2, <1>3, <1>4, <1>5 DEF Next, Environment

(* Workloads and Certificates change only while a pass deploys, or once    *)
(* the resource is gone.                                                   *)
LEMMA DeployOnly ==
  ASSUME [Next]_vars
  PROVE  \/ UNCHANGED <<sts, certs>>
         \/ pc \in Building
         \/ ~cr.live
<1> USE DEF children, platformVars, Building, Working
<1>1. CASE Fetch \/ CleanUp \/ CleanUpFails \/ Release \/ AddFinalizer
           \/ ReGet \/ SkipPaused \/ ClearPaused \/ RejectConfig
           \/ IssuerFails \/ StartPass \/ Refetch \/ Record
  BY <1>1 DEF Fetch, CleanUp, CleanUpFails, Release, AddFinalizer, ReGet,
     SkipPaused, ClearPaused, RejectConfig, IssuerFails, StartPass, Refetch,
     Record
<1>2. ASSUME NEW d \in Databases, EnableDatabase(d) \/ DisableDatabase(d)
                                  \/ RejectExternal(d) \/ DatabaseFails(d)
      PROVE  pc \in Building
  BY <1>2 DEF EnableDatabase, DisableDatabase, RejectExternal, DatabaseFails,
     Databases
<1>3. CASE DatabaseGateWaits \/ DatabaseGateOpens \/ ServerDone
           \/ DashboardGateWaits \/ DashboardGateOpens \/ DashboardDone
  BY <1>3 DEF DatabaseGateWaits, DatabaseGateOpens, ServerDone,
     DashboardGateWaits, DashboardGateOpens, DashboardDone
<1>4. ASSUME NEW w \in {"server", "dashboard"}, WorkloadFails(w)
      PROVE  pc \in Building
  BY <1>4 DEF WorkloadFails
<1>5. ASSUME NEW w \in Workloads, Roll(w) \/ BecomesReady(w)
                                  \/ LosesReadiness(w)
      PROVE  UNCHANGED <<sts, certs>>
  BY <1>5 DEF Roll, BecomesReady, LosesReadiness
<1>6. ASSUME NEW d \in Databases, Issue(d)
      PROVE  UNCHANGED <<sts, certs>>
  BY <1>6 DEF Issue
<1>7. CASE Collect
  BY <1>7 DEF Collect
<1>8. CASE KubeEnvironment /\ UNCHANGED platformVars
  BY <1>8
<1>9. CASE Crash \/ UNCHANGED vars
  BY <1>9 DEF Crash, vars
<1> QED
  BY <1>1, <1>2, <1>3, <1>4, <1>5, <1>6, <1>7, <1>8, <1>9
     DEF Next, Reconcile, Environment, Cluster

-----------------------------------------------------------------------------
(* What a pass has deployed.                                               *)

(* Every step that returns without finishing the pass has something left   *)
(* to wake the operator up, or nothing to do.                              *)
LEMMA ReturnArmed ==
  ASSUME TypeOK, Copies, Reconcile, pc' = "idle", ~Record, Settled',
         Feasible'
  PROVE  FALSE
<1> USE DEF kubeVars, children
<1>0. /\ ~timer' /\ ~queued' /\ cacheFresh' /\ cr'.live /\ ~cr'.deleting
      /\ ~plan'[cr'.gen].pause /\ ~Invalid(plan'[cr'.gen])
  BY DEF Settled, Feasible, asked
<1>1. /\ cacheFresh /\ cr' = cr /\ cr'.gen = cr.gen /\ plan' = plan
  BY <1>0, Written, Control
<1>2. CASE Fetch
  BY <1>0, <1>1, <1>2 DEF Fetch, Copies
<1>3. CASE CleanUpFails \/ IssuerFails
  BY <1>0, <1>3 DEF CleanUpFails, IssuerFails, Return, Forget
<1>4. CASE AddFinalizer
  BY <1>0, <1>4 DEF AddFinalizer, Return, Forget
<1>5. CASE ClearPaused
  BY <1>0, <1>5 DEF ClearPaused, Return, Forget
<1>6. CASE Release
  BY <1>0, <1>6, ReleaseEffect
<1>7. CASE SkipPaused
  BY <1>0, <1>1, <1>7, SkipPausedEffect
<1>8. CASE RejectConfig
  <2>1. /\ pc # "idle" /\ pc # "reget" /\ queued' = queued
        /\ Invalid(plan[obj.gen])
    BY <1>8 DEF RejectConfig, Going, Admitted, wished
  <2>2. obj = cr
    BY <1>0, <1>1, <2>1 DEF Copies
  <2> QED BY <1>0, <1>1, <2>1, <2>2
<1>9. ASSUME NEW d \in Databases, RejectExternal(d) \/ DatabaseFails(d)
      PROVE  FALSE
  BY <1>0, <1>9 DEF RejectExternal, DatabaseFails, Return, Forget
<1>10. CASE DatabaseGateWaits \/ DashboardGateWaits
  BY <1>0, <1>10 DEF DatabaseGateWaits, DashboardGateWaits, Wait, Return,
     Forget
<1>11. ASSUME NEW w \in {"server", "dashboard"}, WorkloadFails(w)
       PROVE  FALSE
  BY <1>0, <1>11 DEF WorkloadFails, Return, Forget
<1>12. CASE CleanUp \/ ReGet \/ StartPass \/ Refetch
  BY <1>12 DEF CleanUp, ReGet, StartPass, Refetch
<1>13. ASSUME NEW d \in Databases, EnableDatabase(d) \/ DisableDatabase(d)
       PROVE  FALSE
  BY <1>13 DEF EnableDatabase, DisableDatabase, After
<1>14. CASE DatabaseGateOpens \/ ServerDone \/ DashboardGateOpens
            \/ DashboardDone
  BY <1>14
     DEF DatabaseGateOpens, ServerDone, DashboardGateOpens, DashboardDone
<1> QED
  BY <1>2, <1>3, <1>4, <1>5, <1>6, <1>7, <1>8, <1>9, <1>10, <1>11, <1>12,
     <1>13, <1>14 DEF Reconcile

(* The last step of a pass leaves everything in place.                     *)
LEMMA RecordApplies ==
  ASSUME TypeOK, Copies, Placed, Record, Settled'
  PROVE  Applied'
<1> USE DEF kubeVars, children
<1>1. /\ pc = "record" /\ queued' = queued /\ plan' = plan
      /\ sts' = sts /\ certs' = certs
  BY DEF Record
<1>2. Reconcile
  BY DEF Reconcile
<1>3. cr'.gen = cr.gen /\ cacheFresh /\ ~queued
  BY <1>1, <1>2, Written DEF Settled
<1>4. applied = cr.gen
  BY <1>1, <1>3 DEF Placed, Working
<1>5. \A w \in Workloads : InPlace(w)
  BY <1>1 DEF Placed, Passed
<1>6. sts = [w \in Workloads |->
              IF w \in Wanted(plan[cr.gen]) THEN cr.gen ELSE 0]
  BY <1>4, <1>5 DEF InPlace, TypeOK
<1>7. Internal(plan[cr.gen]) \subseteq certs
  BY <1>4, <1>5 DEF InPlace, Internal, Workloads
<1> QED BY <1>1, <1>3, <1>6, <1>7 DEF Applied, asked

(* What is in place stays there while the pass goes on.                    *)
LEMMA StaysInPlace ==
  ASSUME NEW w, InPlace(w), applied' = applied, plan' = plan,
         sts'[w] = sts[w], certs \subseteq certs'
  PROVE  InPlace(w)'
  BY DEF InPlace

(* A step of a pass that goes on.                                          *)
LEMMA PassGoesOn ==
  ASSUME TypeOK, Copies, Placed, Reconcile, pc \in Building,
         pc' \in Working, applied' = applied, Moves, plan' = plan,
         \A w \in Passed' : InPlace(w)'
  PROVE  Placed'
<1>1. pc' # "idle"
  BY DEF Working
<1>2. IdleIsApplied'
  BY <1>1 DEF IdleIsApplied, Settled
<1>3. pc \in Working
  BY DEF Building
<1> QED BY <1>2, <1>3 DEF Placed, Moves

LEMMA PlacedStep ==
  TypeOK /\ Copies /\ Guard /\ Placed /\ [Next]_vars => Placed'
<1> SUFFICES ASSUME TypeOK, Copies, Guard, Placed, [Next]_vars
             PROVE  Placed'
  OBVIOUS
<1>1. CASE Reconcile /\ pc' = "idle"
  <2>1. IdleIsApplied'
    BY <1>1, ReturnArmed, RecordApplies DEF IdleIsApplied
  <2> QED BY <1>1, <2>1 DEF Placed, Passed, Working, Building
<1>2. CASE Reconcile /\ pc' # "idle"
  <2>0. IdleIsApplied'
    BY <1>2 DEF IdleIsApplied, Settled
  <2> USE DEF kubeVars, children
  <2>1. CASE pc' \notin Working
    BY <2>0, <2>1 DEF Placed, Passed, Working, Building
  <2>2. CASE StartPass
    <3>1. /\ applied' = obj.gen /\ pc' = "timeseries"
          /\ pc # "idle" /\ pc # "reget"
          /\ UNCHANGED <<cr, cacheFresh, queued, obj>>
      BY <2>2 DEF StartPass, Going, Admitted
    <3>2. obj.gen # cr.gen => queued \/ ~cacheFresh
      BY <3>1 DEF Copies
    <3> QED BY <2>0, <3>1, <3>2 DEF Placed, Passed
  <2>3. CASE Refetch
    <3>1. /\ pc = "refetch" /\ pc' = "record"
          /\ UNCHANGED <<cr, cacheFresh, queued, applied, plan, sts, certs>>
      BY <2>3 DEF Refetch
    <3>2. \A w \in Workloads : InPlace(w)'
      BY <3>1, StaysInPlace DEF Placed, Passed
    <3> QED BY <2>0, <3>1, <3>2 DEF Placed, Passed, Working, Building
  <2>4. ASSUME NEW d \in Databases, EnableDatabase(d) \/ DisableDatabase(d)
        PROVE  Placed'
    <3>1. /\ pc = d /\ pc' = After(d) /\ applied' = applied /\ plan' = plan
          /\ Moves /\ pc \in Building /\ pc' \in Working
          /\ certs \subseteq certs'
      BY <2>4 DEF EnableDatabase, DisableDatabase, CleanUpDatabase, Moves,
         Notice, Databases, After, Building, Working
    <3>2. applied = obj.gen
      BY <3>1 DEF Placed
    <3>3. InPlace(d)'
      <4>1. CASE EnableDatabase(d)
        BY <3>1, <3>2, <4>1 DEF EnableDatabase, Deploy, InPlace, Wanted,
           Internal, wished, TypeOK, Workloads
      <4>2. CASE DisableDatabase(d)
        BY <3>1, <3>2, <4>2 DEF DisableDatabase, CleanUpDatabase, Undeploy,
           InPlace, Wanted, Internal, wished, TypeOK, Workloads, Databases
      <4> QED BY <2>4, <4>1, <4>2
    <3>4. ASSUME NEW w \in Passed PROVE InPlace(w)'
      <4>1. sts'[w] = sts[w] /\ InPlace(w)
        BY <2>4, <3>1, <3>4 DEF EnableDatabase, DisableDatabase,
           CleanUpDatabase, Deploy, Undeploy, Passed, Placed, Databases,
           TypeOK, Workloads
      <4> QED BY <3>1, <4>1, StaysInPlace
    <3>5. Passed' \subseteq Passed \cup {d}
      BY <3>1 DEF Passed, After, Databases
    <3> QED BY <1>2, <3>1, <3>3, <3>4, <3>5, PassGoesOn
  <2>5. CASE DatabaseGateOpens \/ DashboardGateOpens
    <3>1. /\ applied' = applied /\ plan' = plan /\ Moves
          /\ pc \in Building /\ pc' \in Working
          /\ UNCHANGED <<sts, certs>> /\ Passed' = Passed
      BY <2>5 DEF DatabaseGateOpens, DashboardGateOpens, Moves, Building,
         Working, Passed
    <3>2. \A w \in Passed : InPlace(w)'
      BY <3>1, StaysInPlace DEF Placed
    <3> QED BY <1>2, <3>1, <3>2, PassGoesOn
  <2>6. ASSUME NEW w \in {"server", "dashboard"}, pc = w, Settle(w),
               ServerDone \/ DashboardDone
        PROVE  Placed'
    <3>1. /\ applied' = applied /\ plan' = plan /\ Moves
          /\ pc \in Building /\ pc' \in Working
          /\ Passed' = Passed \cup {w} /\ certs' = certs
      BY <2>6 DEF ServerDone, DashboardDone, Moves, Settle, Notice, Building,
         Working, Passed, Workloads, Databases
    <3>2. applied = obj.gen
      BY <3>1 DEF Placed
    <3>3. InPlace(w)'
      BY <2>6, <3>1, <3>2 DEF Settle, Deploy, Undeploy, InPlace, Wanted,
         Internal, wished, TypeOK, Workloads, Databases
    <3>4. ASSUME NEW x \in Passed PROVE InPlace(x)'
      <4>1. sts'[x] = sts[x] /\ InPlace(x)
        BY <2>6, <3>4 DEF Settle, Deploy, Undeploy, Passed, Placed,
           Databases, TypeOK, Workloads
      <4> QED BY <3>1, <4>1, StaysInPlace
    <3> QED BY <1>2, <3>1, <3>3, <3>4, PassGoesOn
  <2>7. ServerDone \/ DashboardDone => Placed'
    BY <2>6 DEF ServerDone, DashboardDone
  <2>8. CASE CleanUp \/ ReGet \/ Fetch \/ AddFinalizer \/ ClearPaused
    BY <1>2, <2>1, <2>8 DEF CleanUp, ReGet, Fetch, AddFinalizer, ClearPaused,
       Return, Working
  <2>9. ASSUME NEW d \in Databases, RejectExternal(d) \/ DatabaseFails(d)
        PROVE  FALSE
    BY <1>2, <2>9 DEF RejectExternal, DatabaseFails, Return
  <2>10. CASE CleanUpFails \/ Release \/ SkipPaused \/ RejectConfig
              \/ IssuerFails \/ DatabaseGateWaits \/ DashboardGateWaits
              \/ Record
    BY <1>2, <2>10 DEF CleanUpFails, Release, SkipPaused, RejectConfig,
       IssuerFails, DatabaseGateWaits, DashboardGateWaits, Wait, Record,
       Return
  <2>11. ASSUME NEW w \in {"server", "dashboard"}, WorkloadFails(w)
         PROVE  FALSE
    BY <1>2, <2>11 DEF WorkloadFails, Return
  <2> QED
    BY <1>2, <2>2, <2>3, <2>4, <2>5, <2>7, <2>8, <2>9, <2>10, <2>11
       DEF Reconcile
<1>3. ASSUME UNCHANGED <<pc, applied, plan, sts, certs, obj, cr>>, queued'
      PROVE  Placed'
  <2>1. IdleIsApplied'
    BY <1>3 DEF IdleIsApplied, Settled
  <2>2. Passed' = Passed
    BY <1>3 DEF Passed
  <2>3. \A w \in Passed : InPlace(w)'
    BY <1>3, StaysInPlace DEF Placed
  <2> QED BY <1>3, <2>1, <2>2, <2>3 DEF Placed
<1>4. CASE KubeEnvironment /\ UNCHANGED platformVars
  <2> USE DEF platformVars, children
  <2>1. CASE UserEdits \/ UserDeletes
    <3>1. ~cacheFresh' /\ UNCHANGED <<pc, applied, plan, sts, certs, obj>>
      BY <1>4, <2>1 DEF UserEdits, UserDeletes, Overwrite
    <3> QED BY <3>1 DEF Placed, Passed, InPlace, IdleIsApplied, Settled
  <2>2. CASE WatchDelivers \/ TimerFires \/ Resync
    BY <1>3, <1>4, <2>2 DEF WatchDelivers, TimerFires, Resync, Settled
  <2> QED BY <1>4, <2>1, <2>2 DEF KubeEnvironment
<1>5. CASE Crash
  BY <1>5 DEF Crash, Restart, Placed, Passed, IdleIsApplied, Settled,
     Working, Building
<1>6. CASE Cluster
  <2>1. CASE Collect
    <3>1. ~cr.live /\ UNCHANGED <<cr, pc, obj, plan, applied, queued,
                                  cacheFresh>>
      BY <2>1 DEF Collect, kubeVars
    <3>2. pc \notin Working /\ pc' \notin Working
      BY <3>1 DEF Guard, Protected
    <3>3. Passed' = {} /\ pc \notin Building
      BY <3>1, <3>2 DEF Passed, Working, Building
    <3> QED BY <3>1, <3>2, <3>3
            DEF Placed, IdleIsApplied, Settled, Building
  <2>2. ASSUME NEW d \in Databases, Issue(d) PROVE Placed'
    BY <1>3, <2>2 DEF Issue, Settled
  <2>3. ASSUME NEW w \in Workloads, Roll(w) \/ BecomesReady(w)
                                    \/ LosesReadiness(w)
        PROVE  Placed'
    BY <1>3, <2>3 DEF Roll, BecomesReady, LosesReadiness, Settled
  <2> QED BY <1>6, <2>1, <2>2, <2>3 DEF Cluster
<1>7. CASE UNCHANGED vars
  BY <1>7 DEF vars, kubeVars, platformVars, children, Placed, Passed,
     InPlace, IdleIsApplied, Settled, Feasible, Applied, asked
<1> QED BY <1>1, <1>2, <1>4, <1>5, <1>6, <1>7 DEF Next, Environment

-----------------------------------------------------------------------------
(* Pods and gates.                                                         *)

(* The pass at w keeps the pods it does not touch.                         *)
LEMMA PodsKept ==
  ASSUME TypeOK, Reconcile
  PROVE  /\ \A w \in ready' : w \in ready /\ pods'[w] = pods[w]
         /\ pc' = "server" => DatabaseGateOpens
         /\ pc' = "dashboard" => DashboardGateOpens
<1> DEFINE Same == UNCHANGED <<pods, ready>>
<1> USE DEF children, Returns
<1>1. CASE Fetch \/ CleanUp \/ CleanUpFails \/ Release \/ AddFinalizer
           \/ ReGet \/ SkipPaused \/ ClearPaused \/ RejectConfig
           \/ IssuerFails \/ StartPass \/ Refetch \/ Record
  BY <1>1, ReturnReturns DEF Fetch, CleanUp, CleanUpFails, Release,
     AddFinalizer, ReGet, SkipPaused, ClearPaused, RejectConfig, IssuerFails,
     StartPass, Refetch, Record
<1>2. ASSUME NEW w \in Workloads, Deploy(w) \/ Undeploy(w)
      PROVE  \A x \in ready' : x \in ready /\ pods'[x] = pods[x]
  BY <1>2 DEF Deploy, Undeploy, TypeOK
<1>3. ASSUME NEW d \in Databases, EnableDatabase(d) \/ DisableDatabase(d)
                                  \/ RejectExternal(d) \/ DatabaseFails(d)
      PROVE  /\ \A w \in ready' : w \in ready /\ pods'[w] = pods[w]
             /\ pc' \notin {"server", "dashboard"}
  <2>1. pc' \notin {"server", "dashboard"}
    BY <1>3, ReturnReturns DEF EnableDatabase, DisableDatabase,
       RejectExternal, DatabaseFails, After
  <2>2. Deploy(d) \/ Undeploy(d) \/ Same
    BY <1>3 DEF EnableDatabase, DisableDatabase, RejectExternal,
       DatabaseFails, CleanUpDatabase
  <2> QED BY <1>2, <2>1, <2>2 DEF Workloads
<1>4. CASE DatabaseGateWaits \/ DatabaseGateOpens
           \/ DashboardGateWaits \/ DashboardGateOpens
  BY <1>4, ReturnReturns DEF DatabaseGateWaits, DatabaseGateOpens, Wait,
     DashboardGateWaits, DashboardGateOpens
<1>5. CASE ServerDone \/ DashboardDone
  BY <1>2, <1>5 DEF ServerDone, DashboardDone, Settle, Workloads
<1>6. ASSUME NEW w \in {"server", "dashboard"}, WorkloadFails(w)
      PROVE  /\ \A x \in ready' : x \in ready /\ pods'[x] = pods[x]
             /\ pc' \notin {"server", "dashboard"}
  <2>1. pc' \notin {"server", "dashboard"}
    BY <1>6, ReturnReturns DEF WorkloadFails
  <2>2. Deploy(w) \/ Undeploy(w) \/ Same
    BY <1>6 DEF WorkloadFails, Settle
  <2> QED BY <1>2, <2>1, <2>2 DEF Workloads
<1> QED BY <1>1, <1>3, <1>4, <1>5, <1>6 DEF Reconcile

LEMMA StartedStep ==
  TypeOK /\ Guard /\ Started /\ [Next]_vars => Started'
<1> SUFFICES ASSUME TypeOK, Guard, Started, [Next]_vars PROVE Started'
  OBVIOUS
<1>1. CASE Reconcile
  <2>1. \A w \in ready' : pods'[w] # 0
    BY <1>1, PodsKept DEF Started
  <2>2. CASE DatabaseGateOpens
    BY <2>1, <2>2 DEF DatabaseGateOpens, DatabasesReady, Started, kubeVars,
       children, wished, Internal
  <2>3. CASE DashboardGateOpens
    BY <2>1, <2>3 DEF DashboardGateOpens, ServerReady, Started, kubeVars,
       children, wished
  <2>4. CASE pc' \notin {"server", "dashboard"}
    BY <2>1, <2>4 DEF Started
  <2> QED BY <1>1, <2>2, <2>3, <2>4, PodsKept
<1>2. ASSUME UNCHANGED <<pc, obj, plan>>,
             \A w \in Workloads : pods[w] # 0 => pods'[w] # 0,
             \A w \in ready' : pods'[w] # 0
      PROVE  Started'
  <2>1. wished' = wished
    BY <1>2 DEF wished
  <2>2. Internal(wished) \subseteq Workloads /\ "server" \in Workloads
    BY DEF Internal, Workloads
  <2>3. Internal(wished)' = Internal(wished)
    BY <2>1 DEF Internal
  <2> QED BY <1>2, <2>1, <2>2, <2>3 DEF Started
<1>3. CASE KubeEnvironment /\ UNCHANGED platformVars
  BY <1>2, <1>3 DEF platformVars, children, KubeEnvironment, Started,
     UserEdits, UserDeletes, Overwrite, WatchDelivers, TimerFires, Resync
<1>4. CASE Crash
  BY <1>4 DEF Crash, Started, children
<1>5. CASE Cluster
  <2>1. ASSUME NEW d \in Databases, Issue(d) PROVE Started'
    BY <1>2, <2>1 DEF Issue, Started
  <2>2. ASSUME NEW w \in Workloads, Roll(w) PROVE Started'
    <3>1. /\ UNCHANGED <<pc, obj, plan>> /\ sts[w] # 0
          /\ pods' = [pods EXCEPT ![w] = sts[w]] /\ ready' = ready \ {w}
      BY <2>2 DEF Roll
    <3>2. \A x \in Workloads : pods[x] # 0 => pods'[x] # 0
      BY <3>1 DEF TypeOK
    <3> QED BY <1>2, <3>1, <3>2 DEF Started, TypeOK
  <2>3. ASSUME NEW w \in Workloads, BecomesReady(w) \/ LosesReadiness(w)
        PROVE  Started'
    BY <1>2, <2>3 DEF BecomesReady, LosesReadiness, Started
  <2>4. CASE Collect
    BY <2>4 DEF Collect, Started, Guard, Protected, Working, kubeVars
  <2> QED BY <1>5, <2>1, <2>2, <2>3, <2>4 DEF Cluster
<1>6. CASE UNCHANGED vars
  BY <1>2, <1>6 DEF vars, kubeVars, platformVars, children, Started
<1> QED BY <1>1, <1>3, <1>4, <1>5, <1>6 DEF Next, Environment

(* No step creates a workload before the pods it needs.                    *)
LEMMA OrderStep ==
  ASSUME TypeOK, Placed, Started, [Next]_vars,
         NEW w \in Workloads, sts[w] = 0, sts'[w] # 0
  PROVE  \A x \in Needs(w, sts'[w]) : pods[x] # 0
<1> USE DEF children, platformVars
<1>1. CASE w \in Databases
  BY <1>1 DEF Needs, Databases
<1>2. CASE w \notin Databases
  <2>1. ASSUME NEW v \in {"server", "dashboard"}, pc = v, Settle(v)
        PROVE  \A x \in Needs(w, sts'[w]) : pods[x] # 0
    <3>1. w = v /\ sts'[w] = applied /\ wished[v]
      BY <2>1 DEF Settle, Deploy, Undeploy, TypeOK
    <3>2. plan[applied] = wished
      BY <2>1 DEF Placed, Building, Working, wished
    <3>3. CASE v = "server"
      BY <2>1, <3>1, <3>2, <3>3 DEF Needs, Started
    <3>4. CASE v = "dashboard"
      BY <2>1, <3>1, <3>2, <3>4 DEF Needs, Started
    <3> QED BY <3>3, <3>4
  <2>2. CASE sts'[w] = sts[w]
    BY <2>2
  <2>3. CASE Fetch \/ CleanUp \/ CleanUpFails \/ Release \/ AddFinalizer
             \/ ReGet \/ SkipPaused \/ ClearPaused \/ RejectConfig
             \/ IssuerFails \/ StartPass \/ Refetch \/ Record
    BY <2>2, <2>3 DEF Fetch, CleanUp, CleanUpFails, Release, AddFinalizer,
       ReGet, SkipPaused, ClearPaused, RejectConfig, IssuerFails, StartPass,
       Refetch, Record
  <2>4. ASSUME NEW d \in Databases, EnableDatabase(d) \/ DisableDatabase(d)
                                    \/ RejectExternal(d) \/ DatabaseFails(d)
        PROVE  sts'[w] = sts[w]
    BY <1>2, <2>4 DEF EnableDatabase, DisableDatabase, RejectExternal,
       DatabaseFails, CleanUpDatabase, Deploy, Undeploy, TypeOK
  <2>5. CASE DatabaseGateWaits \/ DatabaseGateOpens
             \/ DashboardGateWaits \/ DashboardGateOpens
    BY <2>2, <2>5 DEF DatabaseGateWaits, DatabaseGateOpens, Wait,
       DashboardGateWaits, DashboardGateOpens
  <2>6. CASE ServerDone \/ DashboardDone
    BY <2>1, <2>6 DEF ServerDone, DashboardDone
  <2>7. ASSUME NEW v \in {"server", "dashboard"}, WorkloadFails(v)
        PROVE  \A x \in Needs(w, sts'[w]) : pods[x] # 0
    BY <2>1, <2>2, <2>7 DEF WorkloadFails
  <2>8. CASE Collect
    BY <2>8 DEF Collect
  <2>9. ASSUME NEW d \in Databases, Issue(d) PROVE sts'[w] = sts[w]
    BY <2>9 DEF Issue
  <2>10. ASSUME NEW v \in Workloads, Roll(v) \/ BecomesReady(v)
                                     \/ LosesReadiness(v)
         PROVE  sts'[w] = sts[w]
    BY <2>10 DEF Roll, BecomesReady, LosesReadiness
  <2>11. CASE (KubeEnvironment /\ UNCHANGED platformVars) \/ Crash
              \/ UNCHANGED vars
    BY <2>2, <2>11 DEF Crash, vars
  <2> QED
    BY <2>2, <2>3, <2>4, <2>5, <2>6, <2>7, <2>8, <2>9, <2>10, <2>11
       DEF Next, Reconcile, Environment, Cluster
<1> QED BY <1>1, <1>2

-----------------------------------------------------------------------------
LEMMA InitInv == Init => IInv
<1> SUFFICES ASSUME Init PROVE IInv
  OBVIOUS
<1> USE BoundsAssumption DEF Init, KubeInit
<1>1. TypeOK
  <2>1. {cr, cache, obj} \subseteq Object(Status)
    BY CreatedType
  <2>2. left \in [Disturbances -> Nat]
    OBVIOUS
  <2>3. /\ sts \in [Workloads -> 0 .. MaxGen]
        /\ pods \in [Workloads -> 0 .. MaxGen]
        /\ applied \in 0 .. MaxGen
    OBVIOUS
  <2>4. /\ cacheFresh \in BOOLEAN /\ objFresh \in BOOLEAN
        /\ queued \in BOOLEAN /\ timer \in BOOLEAN
    OBVIOUS
  <2>5. /\ plan \in Plans /\ ready \subseteq Workloads
        /\ certs \subseteq Databases /\ tls \subseteq Databases /\ pc = "idle"
    OBVIOUS
  <2> HIDE DEF Init, KubeInit
  <2> QED BY <2>1, <2>2, <2>3, <2>4, <2>5 DEF TypeOK
<1>2. Copies /\ Guard
  BY DEF Copies, Guard, Protected, Working, Created
<1>3. Pausing
  BY DEF Pausing, paused, Working, Created
<1>4. Placed
  <2>1. Passed = {}
    BY DEF Passed
  <2> QED BY <2>1 DEF Placed, IdleIsApplied, Settled, Working, Building
<1>5. Started
  BY DEF Started
<1> QED BY <1>1, <1>2, <1>3, <1>4, <1>5 DEF IInv

LEMMA StepInv == IInv /\ [Next]_vars => IInv'
  BY TypeStep, CopiesStep, GuardStep, PausingStep, PlacedStep, StartedStep
     DEF IInv

(* What the theorems below rest on.                                        *)
THEOREM Inductive == Spec => []IInv
  BY InitInv, StepInv, PTL DEF Spec

(* Every variable keeps its shape, whatever users ask for.                 *)
THEOREM TypeCorrect == Spec => []TypeOK
<1>1. IInv => TypeOK
  BY DEF IInv
<1> QED BY <1>1, Inductive, PTL

(* The operator never stops short of the spec: whenever nothing is         *)
(* scheduled, the current spec is deployed (requeues and conflicts of      *)
(* Reconcile).                                                             *)
THEOREM NeverStopsShort == Spec => []IdleIsApplied
<1>1. IInv => IdleIsApplied
  BY DEF IInv, Placed
<1> QED BY <1>1, Inductive, PTL

(* The two gates order the start of the workloads.                         *)
THEOREM GatesHold == Spec => StartsInOrder
<1>1. IInv /\ [Next]_vars =>
        [\A w \in Workloads : sts[w] = 0 /\ sts'[w] # 0 =>
           \A x \in Needs(w, sts'[w]) : pods[x] # 0]_vars
  BY OrderStep DEF IInv
<1> QED BY <1>1, Inductive, PTL DEF Spec, StartsInOrder

(* Nothing is deployed or removed while the pause is asked for and         *)
(* recorded.                                                               *)
THEOREM PauseRespected == Spec => PauseHolds
<1>1. IInv /\ [Next]_vars =>
        [cr.live /\ asked.pause /\ cr.status.conds["Paused"] = "True" =>
           UNCHANGED <<sts, certs>>]_vars
  BY DeployOnly DEF IInv, Pausing, paused, Building
<1> QED BY <1>1, Inductive, PTL DEF Spec, PauseHolds
=============================================================================
