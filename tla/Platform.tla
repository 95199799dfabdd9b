------------------------------ MODULE Platform ------------------------------
(***************************************************************************)
(* The AxonOpsPlatform controller: one custom resource, from which it      *)
(* deploys two databases (TimeSeries and Search), the server that needs    *)
(* both, and the dashboard that needs the server.                          *)
(*                                                                         *)
(* A component is abstracted to the generation of the spec its StatefulSet *)
(* (the dashboard's Deployment) was built from; services, config maps and  *)
(* service accounts come and go with it.  An internal database also has a  *)
(* cert-manager Certificate and the TLS secret cert-manager issues for it. *)
(* The credential secrets are left out, and an edit is taken to change     *)
(* every component.  Pods go with their workload.                          *)
(*                                                                         *)
(* A pass of Reconcile is cut at each component, each gate, and each read  *)
(* and write of the resource; within a component the pass may fail after   *)
(* any of its calls.                                                       *)
(***************************************************************************)
EXTENDS KubeObject

CONSTANT Plans   \* what a user may ask for: the wish of each generation

Databases == {"timeseries", "search"}
Workloads == Databases \cup {"server", "dashboard"}

(* A database is off, internal, external with what the operator needs to   *)
(* know about it, or external without credentials or TLS certificate.      *)
Modes == {"off", "internal", "external", "incomplete"}
Wishes == [pause: BOOLEAN, timeseries: Modes, search: Modes,
           server: BOOLEAN, dashboard: BOOLEAN]

ASSUME PlansAssumption ==
  /\ Plans # {}
  /\ \A p \in Plans : \E n \in 1 .. MaxGen : p \in [1 .. n -> Wishes]

VARIABLES
  pc,       \* where the running reconciliation is
  applied,  \* the generation it works on, 0 = none
  plan,     \* the user's wishes, never changes
  sts,      \* sts[w]: the generation workload w was built from, 0 = none
  pods,     \* pods[w]: the generation its pods were started from, 0 = none
  ready,    \* the workloads all replicas of which are reported ready
  certs,    \* the databases with a Certificate
  tls       \* the databases with a TLS secret

children == <<sts, pods, ready, certs, tls>>
platformVars == <<pc, applied, plan, children>>
vars == <<kubeVars, platformVars>>

Conditions == {"Ready", "CertManagerReady", "ServerReady", "DashboardReady",
               "Paused"}
Verdicts == {"unset", "True", "False"}
Status == [conds: [Conditions -> Verdicts],
           obsGen: 0 .. MaxGen, names: SUBSET Databases]
NoStatus == [conds |-> [c \in Conditions |-> "unset"], obsGen |-> 0,
             names |-> {}]

TypeOK ==
  /\ {cr, cache, obj} \subseteq Object(Status)
  /\ cacheFresh \in BOOLEAN /\ objFresh \in BOOLEAN
  /\ queued \in BOOLEAN /\ timer \in BOOLEAN
  /\ left \in [Disturbances -> Nat]
  /\ pc \in {"idle", "fetched", "release", "reget", "admitted", "timeseries",
             "search", "gate", "server", "dashgate", "dashboard", "refetch",
             "record"}
  /\ applied \in 0 .. MaxGen
  /\ plan \in Plans
  /\ sts \in [Workloads -> 0 .. MaxGen]
  /\ pods \in [Workloads -> 0 .. MaxGen]
  /\ ready \subseteq Workloads
  /\ certs \subseteq Databases /\ tls \subseteq Databases

Init ==
  /\ KubeInit(NoStatus)
  /\ pc = "idle" /\ applied = 0
  /\ plan \in Plans
  /\ sts = [w \in Workloads |-> 0] /\ pods = sts
  /\ ready = {} /\ certs = {} /\ tls = {}

-----------------------------------------------------------------------------
(* What a wish asks for.                                                   *)
Internal(wish) == {d \in Databases : wish[d] = "internal"}

(* Databases of our own need a server.                                     *)
Invalid(wish) == ~wish.server /\ Internal(wish) # {}

Wanted(wish) == Internal(wish) \cup {w \in {"server", "dashboard"} : wish[w]}

(* o with condition c set to v, and with generation g observed.            *)
Marked(o, c, v) == [o EXCEPT !.status.conds[c] = v]

(* Mutant: the generation to come is observed.                             *)
ObservedAhead(o, g) == [o EXCEPT !.status.obsGen = g + 1]

Observed(o, g) == [o EXCEPT !.status.obsGen = g]
Guarded(o) == [o EXCEPT !.finalizer = TRUE]
Released(o) == [o EXCEPT !.finalizer = FALSE, !.live = FALSE]

(* Return from Reconcile; requeue: RequeueAfter > 0 or an error.           *)
Return(requeue) ==
  /\ Forget(requeue, NoStatus)
  /\ pc' = "idle" /\ applied' = 0

(* r.Get at the top of Reconcile; a resource that is gone, or going and    *)
(* already released, is none of our business.                              *)
Fetch ==
  /\ pc = "idle" /\ queued
  /\ queued' = FALSE
  /\ IF cache.live /\ (cache.deleting => cache.finalizer)
       THEN ReadCache /\ pc' = "fetched"
       ELSE pc' = pc /\ UNCHANGED <<obj, objFresh, left>>
  /\ UNCHANGED <<cr, cache, cacheFresh, timer, applied, plan, children>>

-----------------------------------------------------------------------------
(* Deletion: cert-manager's secrets are deleted by hand, everything else   *)
(* is left to the garbage collector.                                       *)
Deleting == pc = "fetched" /\ obj.deleting

CleanUp ==
  /\ Deleting
  /\ tls' = {}
  /\ pc' = "release"
  /\ UNCHANGED <<kubeVars, applied, plan, sts, pods, ready, certs>>

CleanUpFails ==
  /\ Deleting
  /\ Spend("kube")
  /\ tls' \in {tls, tls \ {"timeseries"}, {}}
  /\ Return(TRUE)
  /\ UNCHANGED <<cr, cache, cacheFresh, queued, plan, sts, pods, ready, certs>>

Release ==
  /\ pc = "release"
  /\ TryWrite(Released(obj))
  /\ Return(~objFresh)
  /\ UNCHANGED <<cache, queued, left, plan, children>>

-----------------------------------------------------------------------------
(* The first pass puts the finalizer on, reads the resource again, and     *)
(* goes on with what it read.                                              *)
AddFinalizer ==
  /\ pc = "fetched" /\ ~obj.deleting /\ ~obj.finalizer
  /\ TryWrite(Guarded(obj))
  /\ IF objFresh
       THEN pc' = "reget" /\ UNCHANGED <<obj, objFresh, timer, applied>>
       ELSE Return(TRUE)
  /\ UNCHANGED <<cache, queued, left, plan, children>>

ReGet ==
  /\ pc = "reget"
  /\ ReadCache
  /\ pc' = "admitted"
  /\ UNCHANGED <<cr, cache, cacheFresh, queued, timer, applied, plan,
                 children>>

Admitted ==
  \/ pc = "fetched" /\ ~obj.deleting /\ obj.finalizer
  \/ pc = "admitted"

wished == plan[obj.gen]

SkipPaused ==
  /\ Admitted /\ wished.pause
  /\ TryWrite(Marked(obj, "Paused", "True"))
  /\ Return(~objFresh)
  /\ UNCHANGED <<cache, queued, left, plan, children>>

(* Mutant: a conflict is logged only.                                      *)
ClearPausedAnyway ==
  /\ Admitted /\ ~wished.pause /\ obj.status.conds["Paused"] # "unset"
  /\ TryWrite(Marked(obj, "Paused", "unset"))
  /\ obj' = Marked(obj, "Paused", "unset")
  /\ pc' = "admitted"
  /\ UNCHANGED <<objFresh, timer, applied, cache, queued, left, plan,
                 children>>

(* The Paused condition is taken off before anything else is done.         *)
ClearPaused ==
  /\ Admitted /\ ~wished.pause /\ obj.status.conds["Paused"] # "unset"
  /\ TryWrite(Marked(obj, "Paused", "unset"))
  /\ IF objFresh
       THEN /\ obj' = Marked(obj, "Paused", "unset") /\ pc' = "admitted"
            /\ UNCHANGED <<objFresh, timer, applied>>
       ELSE Return(TRUE)
  /\ UNCHANGED <<cache, queued, left, plan, children>>

Going ==
  Admitted /\ ~wished.pause /\ obj.status.conds["Paused"] = "unset"

(* The copy in hand, marked as not ready: the configuration is no good.    *)
Rejected(o) == Observed(Marked(o, "Ready", "False"), o.gen)

RejectConfig ==
  /\ Going /\ Invalid(wished)
  /\ TryWrite(Rejected(obj))
  /\ Return(FALSE)
  /\ UNCHANGED <<cache, queued, left, plan, children>>

(* cert-manager is missing, or the ClusterIssuer cannot be created.  The   *)
(* condition goes into a re-fetched copy, if that update succeeds.         *)
IssuerFails ==
  /\ Going /\ ~Invalid(wished) /\ Internal(wished) # {}
  /\ Spend("kube")
  /\ \/ /\ cacheFresh
        /\ Write(Observed(Marked(cr, "CertManagerReady", "False"), cr.gen))
     \/ UNCHANGED <<cr, cacheFresh>>
  /\ Return(TRUE)
  /\ UNCHANGED <<cache, queued, plan, children>>

StartPass ==
  /\ Going /\ ~Invalid(wished)
  /\ pc' = "timeseries"
  /\ applied' = obj.gen
  /\ UNCHANGED <<kubeVars, plan, children>>

(* o with the verdict on the issuer, if this pass needed one.              *)
Certified(o) == IF Internal(plan[applied]) = {} THEN o
                ELSE Marked(o, "CertManagerReady", "True")

-----------------------------------------------------------------------------
(* Workload w is created, or updated to the spec in hand.                  *)
Deploy(w) ==
  /\ sts' = [sts EXCEPT ![w] = applied]
  /\ UNCHANGED <<pods, ready>>

(* Workload w and its pods go.                                             *)
Undeploy(w) ==
  /\ sts' = [sts EXCEPT ![w] = 0]
  /\ pods' = [pods EXCEPT ![w] = 0]
  /\ ready' = ready \ {w}

(* A change of what the operator owns queues the resource.                 *)
Notice == queued' = (queued \/ sts' # sts \/ certs' # certs)

(* The step after database d.                                              *)
After(d) == IF d = "timeseries" THEN "search" ELSE "gate"

(* The pass deploys an internal database: its Certificate, then the rest.  *)
EnableDatabase(d) ==
  /\ pc = d /\ wished[d] = "internal"
  /\ certs' = certs \cup {d}
  /\ Deploy(d)
  /\ Notice
  /\ pc' = After(d)
  /\ UNCHANGED <<cr, cache, cacheFresh, obj, objFresh, timer, left, applied,
                 plan, tls>>

(* cleanupInternal...Resources leaves the Certificate.                     *)
CleanUpDatabase(d) ==
  /\ Undeploy(d)
  /\ tls' = tls \ {d}
  /\ certs' = certs

DisableDatabase(d) ==
  /\ pc = d /\ wished[d] \in {"off", "external"}
  /\ CleanUpDatabase(d)
  /\ Notice
  /\ pc' = After(d)
  /\ UNCHANGED <<cr, cache, cacheFresh, obj, objFresh, timer, left, applied,
                 plan>>

(* An external database the spec does not say enough about ends the pass,  *)
(* after the internal one has been cleaned up.                             *)
RejectExternal(d) ==
  /\ pc = d /\ wished[d] = "incomplete"
  /\ CleanUpDatabase(d)
  /\ Notice
  /\ TryWrite(Rejected(Certified(obj)))
  /\ Return(TRUE)
  /\ UNCHANGED <<cache, left, plan>>

(* One of the calls fails, the ones before it having had their effect.     *)
DatabaseFails(d) ==
  /\ pc = d
  /\ Spend("kube")
  /\ IF wished[d] = "internal"
       THEN /\ certs' \in {certs, certs \cup {d}}
            /\ UNCHANGED <<sts, pods, ready, tls>>
       ELSE \/ Undeploy(d) /\ UNCHANGED <<certs, tls>>
            \/ CleanUpDatabase(d)
            \/ UNCHANGED children
  /\ Notice
  /\ Return(TRUE)
  /\ UNCHANGED <<cr, cache, cacheFresh, plan>>

-----------------------------------------------------------------------------
(* A gate is closed: say so, and come back in 10 s.  When the re-fetch is  *)
(* out of date, or an edit follows it, only the message is lost.           *)
Wait(c) ==
  /\ \/ cacheFresh /\ Write(Marked(Certified(cr), c, "False"))
     \/ UNCHANGED <<cr, cacheFresh>>
  /\ Return(TRUE)
  /\ UNCHANGED <<cache, queued, left, plan, children>>

(* Mutant: an external database has to be ready, too.                      *)
AllDatabasesReady ==
  wished.server => {d \in Databases : wished[d] # "off"} \subseteq ready

(* Mutant: the server waits for the search database only.                  *)
SearchReady ==
  wished.server => Internal(wished) \ {"timeseries"} \subseteq ready

(* The server needs the databases it shares the cluster with.              *)
DatabasesReady == wished.server => Internal(wished) \subseteq ready

DatabaseGateWaits == pc = "gate" /\ ~DatabasesReady /\ Wait("ServerReady")

DatabaseGateOpens ==
  /\ pc = "gate" /\ DatabasesReady
  /\ pc' = "server"
  /\ UNCHANGED <<kubeVars, applied, plan, children>>

(* Deploy w if it is wanted, clean it up if not.                           *)
Settle(w) ==
  /\ IF wished[w] THEN Deploy(w) ELSE Undeploy(w)
  /\ UNCHANGED <<certs, tls>>
  /\ Notice

ServerDone ==
  /\ pc = "server"
  /\ Settle("server")
  /\ pc' = "dashgate"
  /\ UNCHANGED <<cr, cache, cacheFresh, obj, objFresh, timer, left, applied,
                 plan>>

(* The dashboard needs the server, if the cluster runs one.                *)
ServerReady == wished.dashboard /\ wished.server => "server" \in ready

DashboardGateWaits ==
  pc = "dashgate" /\ ~ServerReady /\ Wait("DashboardReady")

DashboardGateOpens ==
  /\ pc = "dashgate" /\ ServerReady
  /\ pc' = "dashboard"
  /\ UNCHANGED <<kubeVars, applied, plan, children>>

DashboardDone ==
  /\ pc = "dashboard"
  /\ Settle("dashboard")
  /\ pc' = "refetch"
  /\ UNCHANGED <<cr, cache, cacheFresh, obj, objFresh, timer, left, applied,
                 plan>>

(* Mutant: the failure is logged only.                                     *)
WorkloadFailsForGood(w) ==
  /\ pc = w
  /\ Spend("kube")
  /\ UNCHANGED <<children, queued>>
  /\ Return(FALSE)
  /\ UNCHANGED <<cr, cache, cacheFresh, plan>>

(* A call for the server or the dashboard fails, before or after the       *)
(* workload itself was dealt with.                                         *)
WorkloadFails(w) ==
  /\ pc = w
  /\ Spend("kube")
  /\ \/ Settle(w)
     \/ UNCHANGED <<children, queued>>
  /\ Return(TRUE)
  /\ UNCHANGED <<cr, cache, cacheFresh, plan>>

-----------------------------------------------------------------------------
Refetch ==
  /\ pc = "refetch"
  /\ ReadCache
  /\ pc' = "record"
  /\ UNCHANGED <<cr, cache, cacheFresh, queued, timer, applied, plan,
                 children>>

(* The databases that are in use have a secret, named in the status.       *)
Named == {d \in Databases : plan[applied][d] # "off"}

(* The update is left out when the pass did nothing worth telling.         *)
StatusChanged ==
  \/ Wanted(plan[applied]) # {}
  \/ \E d \in Databases : wished[d] # "off"
  \/ obj.status.names # Named

(* The conditions tell what the pass did, but the status is stamped with   *)
(* the generation of the re-fetched copy.  TimeSeriesMode and SearchMode   *)
(* are left out.                                                           *)
Recorded(o) ==
  LET was == plan[applied]
      done == {c \in Conditions : (c = "ServerReady" /\ was.server)
                                 \/ (c = "DashboardReady" /\ was.dashboard)}
  IN [o EXCEPT !.status =
        [conds  |-> [c \in Conditions |->
                       IF c \in done THEN "True"
                                    ELSE Certified(o).status.conds[c]],
         obsGen |-> o.gen,
         names  |-> Named]]

Record ==
  /\ pc = "record"
  /\ IF StatusChanged
       THEN TryWrite(Recorded(obj)) /\ Return(~objFresh)
       ELSE UNCHANGED <<cr, cacheFresh>> /\ Return(FALSE)
  /\ UNCHANGED <<cache, queued, left, plan, children>>

-----------------------------------------------------------------------------
(* Around the operator.                                                    *)

(* cert-manager issues the TLS secret of a Certificate, also again when it *)
(* was deleted; the Certificate's status changes, which is an event.       *)
Issue(d) ==
  /\ d \in certs \ tls
  /\ tls' = tls \cup {d}
  /\ queued' = TRUE
  /\ UNCHANGED <<cr, cache, cacheFresh, obj, objFresh, timer, left,
                 pc, applied, plan, sts, pods, ready, certs>>

(* Kubernetes replaces the pods of workload w by those of its newest spec. *)
(* Until it does, the workload is reported as ready as before.             *)
Roll(w) ==
  /\ sts[w] # 0 /\ pods[w] # sts[w]
  /\ pods' = [pods EXCEPT ![w] = sts[w]]
  /\ ready' = ready \ {w}
  /\ queued' = TRUE
  /\ UNCHANGED <<cr, cache, cacheFresh, obj, objFresh, timer, left,
                 pc, applied, plan, sts, certs, tls>>

(* The pods of a database mount its TLS secret.                            *)
BecomesReady(w) ==
  /\ w \notin ready /\ pods[w] # 0 /\ pods[w] = sts[w]
  /\ w \in Databases => w \in tls
  /\ ready' = ready \cup {w}
  /\ queued' = TRUE
  /\ UNCHANGED <<cr, cache, cacheFresh, obj, objFresh, timer, left,
                 pc, applied, plan, sts, pods, certs, tls>>

LosesReadiness(w) ==
  /\ w \in ready
  /\ Spend("pod")
  /\ ready' = ready \ {w}
  /\ queued' = TRUE
  /\ UNCHANGED <<cr, cache, cacheFresh, obj, objFresh, timer,
                 pc, applied, plan, sts, pods, certs, tls>>

(* The garbage collector takes what the deleted resource owned.  The TLS   *)
(* secrets belong to nobody.                                               *)
Collect ==
  /\ ~cr.live
  /\ certs # {} \/ \E w \in Workloads : sts[w] # 0
  /\ sts' = [w \in Workloads |-> 0] /\ pods' = sts'
  /\ ready' = {} /\ certs' = {}
  /\ UNCHANGED <<kubeVars, pc, applied, plan, tls>>

(* The process dies wherever it is; what it had in memory is gone.         *)
Crash ==
  /\ Restart(NoStatus)
  /\ pc' = "idle" /\ applied' = 0
  /\ UNCHANGED <<plan, children>>

(* One step of Reconcile.                                                  *)
Reconcile ==
  \/ Fetch \/ CleanUp \/ CleanUpFails \/ Release
  \/ AddFinalizer \/ ReGet \/ SkipPaused \/ ClearPaused
  \/ RejectConfig \/ IssuerFails \/ StartPass
  \/ \E d \in Databases : EnableDatabase(d) \/ DisableDatabase(d)
                          \/ RejectExternal(d) \/ DatabaseFails(d)
  \/ DatabaseGateWaits \/ DatabaseGateOpens \/ ServerDone
  \/ DashboardGateWaits \/ DashboardGateOpens \/ DashboardDone
  \/ \E w \in {"server", "dashboard"} : WorkloadFails(w)
  \/ Refetch \/ Record

Cluster ==
  \/ \E d \in Databases : Issue(d)
  \/ \E w \in Workloads : Roll(w) \/ BecomesReady(w) \/ LosesReadiness(w)
  \/ Collect

Environment ==
  \/ KubeEnvironment /\ cr'.gen \in DOMAIN plan /\ UNCHANGED platformVars
  \/ Crash \/ Cluster

Next == Reconcile \/ Environment

Spec == Init /\ [][Next]_vars

(* The worker keeps running, the watch keeps delivering, timers fire, and  *)
(* the other controllers of the cluster do their work: pods that can start *)
(* do.                                                                     *)
Fairness ==
  /\ WF_vars(Reconcile)
  /\ WF_vars(WatchDelivers /\ UNCHANGED platformVars)
  /\ WF_vars(TimerFires /\ UNCHANGED platformVars)
  /\ \A d \in Databases : WF_vars(Issue(d))
  /\ \A w \in Workloads : WF_vars(Roll(w))
  /\ WF_vars(Collect)
  /\ \A w \in Workloads : WF_vars(BecomesReady(w))

FairSpec == Spec /\ Fairness

-----------------------------------------------------------------------------
(* What must hold.                                                         *)
asked == plan[cr.gen]

(* What workload w may not be started without.                             *)
Needs(w, g) ==
  CASE w = "server" -> Internal(plan[g])
    [] w = "dashboard" -> {x \in {"server"} : plan[g].server}
    [] OTHER -> {}

(* Whatever fails, is edited or is read late: a workload is created only   *)
(* when the pods of those it needs have been started (both gates).         *)
StartsInOrder ==
  [][\A w \in Workloads : sts[w] = 0 /\ sts'[w] # 0 =>
       \A x \in Needs(w, sts'[w]) : pods[x] # 0]_vars

(* Once a resource says it is paused, and while it asks for it, nothing is *)
(* deployed or removed, however old the copy a pass works on.              *)
PauseHolds ==
  [][cr.live /\ asked.pause /\ cr.status.conds["Paused"] = "True" =>
       UNCHANGED <<sts, certs>>]_vars

(* Nothing is pending that would look at the resource again, although it   *)
(* is to be reconciled.                                                    *)
Settled ==
  /\ pc = "idle" /\ ~queued /\ ~timer /\ cacheFresh
  /\ cr.live /\ ~cr.deleting /\ ~asked.pause

(* The operator can do what is asked for.                                  *)
Feasible ==
  ~Invalid(asked) /\ \A d \in Databases : asked[d] # "incomplete"

(* The cluster holds what the current generation asks for.                 *)
Applied ==
  /\ sts = [w \in Workloads |-> IF w \in Wanted(asked) THEN cr.gen ELSE 0]
  /\ Internal(asked) \subseteq certs

(* The operator never stops short: after failed calls, conflicts, closed   *)
(* gates and edits in the middle of a pass, something is still scheduled   *)
(* until the whole current spec is deployed.                               *)
IdleIsApplied == Settled /\ Feasible => Applied

(* The last spec gets deployed, whatever happened before; and a deleted    *)
(* resource goes away, also while it is paused, with its workloads.        *)
Converges ==
  /\ <>[](cr.live /\ ~cr.deleting /\ ~asked.pause /\ Feasible => Applied)
  /\ [](cr.deleting => <>(~cr.live /\ \A w \in Workloads : sts[w] = 0))

-----------------------------------------------------------------------------
(* What the repository promises and the code does not keep.                *)

(* The Certificate of a disabled database is deleted                       *)
(* (component-lifecycle.feature).                                          *)
CertificateGoes == Settled => certs \subseteq Internal(asked)
=============================================================================
