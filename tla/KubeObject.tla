----------------------------- MODULE KubeObject -----------------------------
(***************************************************************************)
(* The world one reconciler of the operator runs in: a custom resource in  *)
(* the API server, the informer cache r.Get reads, the workqueue that      *)
(* starts a reconciliation, and the optimistic concurrency of Update and   *)
(* Status().Update.  Every controller module EXTENDS this one.             *)
(*                                                                         *)
(* A resource is abstracted to the parts the controllers branch on: its    *)
(* generation (which also names the contents of its spec, so generation g  *)
(* is "the spec as of the g-th edit"), the operator's finalizer, the       *)
(* deletion timestamp and the status.  resourceVersion is abstracted to    *)
(* two flags: cacheFresh, the cache holds the newest version, and          *)
(* objFresh, the reconciler's in-memory copy does.                         *)
(***************************************************************************)
EXTENDS Naturals

CONSTANTS
  MaxGen,      \* the user submits the specs 1 .. MaxGen
  Budgets      \* how often each kind of disturbance may happen: alternatives

(* What may go wrong, or happen behind a reconciler's back.                *)
Disturbances == {"server",   \* the AxonOps API answers 5xx
                 "other",    \* network error, timeout, or a 4xx answer
                 "crash",    \* the operator pod is killed and restarted
                 "lag",      \* a read is served by an out-of-date cache
                 "external", \* somebody deletes a remote object by hand
                 "conn",     \* the AxonOpsConnection or its secret changes
                 "kube",     \* a call to the Kubernetes API fails
                 "report",   \* a status update fails that is only logged
                 "pod"}      \* a running pod stops being ready

ASSUME BoundsAssumption ==
  /\ MaxGen \in Nat \ {0}
  /\ Budgets \subseteq [Disturbances -> Nat] /\ Budgets # {}

VARIABLES
  cr,          \* the resource in the API server
  cache,       \* the informer's copy
  cacheFresh,  \* the informer has seen the newest version
  obj,         \* the copy a running reconciliation works on
  objFresh,    \* obj carries the newest resourceVersion
  queued,      \* the workqueue holds the resource's key
  timer,       \* a RequeueAfter or a back-off is pending
  left         \* what is left of the budget

kubeVars == <<cr, cache, cacheFresh, obj, objFresh, queued, timer, left>>

(* The shape of a resource whose status is a member of Status.             *)
Object(Status) == [live: BOOLEAN, gen: 1 .. MaxGen, finalizer: BOOLEAN,
                   deleting: BOOLEAN, status: Status]

(* How far the resource has come: created, held by the operator's          *)
(* finalizer, deleted by the user while it is held, and gone.              *)
Life ==
  IF ~cr.live THEN "gone"
  ELSE IF ~cr.finalizer THEN "open"
  ELSE IF cr.deleting THEN "condemned" ELSE "held"

(* What kubectl create leaves behind: no finalizer yet, an empty status.   *)
Created(status) == [live |-> TRUE, gen |-> 1, finalizer |-> FALSE,
                    deleting |-> FALSE, status |-> status]

KubeInit(status) ==
  /\ cr = Created(status)
  /\ cache = cr
  /\ cacheFresh = TRUE
  /\ obj = cr
  /\ objFresh = FALSE
  /\ queued = TRUE
  /\ timer = FALSE
  /\ left \in Budgets

(* One disturbance of kind k happens.                                      *)
Spend(k) ==
  /\ left[k] > 0
  /\ left' = [left EXCEPT ![k] = @ - 1]

(***************************************************************************)
(* What a reconciler does to the resource.                                 *)
(***************************************************************************)

(* r.Get: the informer cache answers, and it may lag behind.               *)
ReadCache ==
  /\ \/ cacheFresh /\ left' = left
     \/ ~cacheFresh /\ Spend("lag")
  /\ obj' = cache
  /\ objFresh' = cacheFresh

(* The API server accepts new as the next version; writing what is already *)
(* there changes no version and raises no event.                           *)
Write(new) ==
  /\ cr' = new
  /\ cacheFresh' = (cacheFresh /\ new = cr)

(* An update by optimistic concurrency: a conflict leaves things alone.    *)
TryWrite(new) ==
  IF objFresh THEN Write(new) ELSE UNCHANGED <<cr, cacheFresh>>

(* One disturbance of each of the kinds ks happens.                        *)
SpendAll(ks) ==
  /\ \A k \in ks : left[k] > 0
  /\ left' = [k \in DOMAIN left |-> IF k \in ks THEN left[k] - 1 ELSE left[k]]

(* The same for an update with a message or a time: it may make a new      *)
(* version even when the fields of the model stay as they are.             *)
TryStamp(new) ==
  IF objFresh
    THEN cr' = new /\ cacheFresh' \in {FALSE, cacheFresh /\ new = cr}
    ELSE UNCHANGED <<cr, cacheFresh>>

(* A pass that has met the disturbances ks reports them in a condition.    *)
(* When the API server does not take the update, for a conflict or because *)
(* it fails, that is logged and the pass goes on.                          *)
TryReport(new, ks) ==
  \/ SpendAll(ks) /\ TryStamp(new)
  \/ SpendAll(ks \cup {"report"}) /\ UNCHANGED <<cr, cacheFresh>>

(* Reconcile returns and drops its copy; with requeue the key comes back   *)
(* by itself, after RequeueAfter or the back-off of an error.              *)
Forget(requeue, status) ==
  /\ obj' = Created(status)
  /\ objFresh' = FALSE
  /\ timer' = (timer \/ requeue)

(***************************************************************************)
(* What happens around it.                                                 *)
(***************************************************************************)

(* Somebody else changes the resource: every older copy is out of date.    *)
Overwrite(new) ==
  /\ cr' = new
  /\ cacheFresh' = FALSE
  /\ objFresh' = FALSE
  /\ UNCHANGED <<cache, obj, queued, timer, left>>

(* kubectl apply with another spec.                                        *)
Edited(o) == [o EXCEPT !.gen = @ + 1]

UserEdits ==
  /\ cr.live /\ cr.gen < MaxGen
  /\ Overwrite(Edited(cr))

(* kubectl delete: a finalizer keeps the resource, marked for deletion.    *)
Condemned(o) == IF o.finalizer THEN [o EXCEPT !.deleting = TRUE]
                             ELSE [o EXCEPT !.live = FALSE]

UserDeletes ==
  /\ cr.live /\ ~cr.deleting
  /\ Overwrite(Condemned(cr))

(* The watch delivers the newest version; its event queues the key.        *)
WatchDelivers ==
  /\ ~cacheFresh
  /\ cache' = cr
  /\ cacheFresh' = TRUE
  /\ queued' = TRUE
  /\ UNCHANGED <<cr, obj, objFresh, timer, left>>

TimerFires ==
  /\ timer
  /\ timer' = FALSE
  /\ queued' = TRUE
  /\ UNCHANGED <<cr, cache, cacheFresh, obj, objFresh, left>>

(* The informer's periodic resync queues every resource it knows.          *)
Resync ==
  /\ cache.live
  /\ queued' = TRUE
  /\ UNCHANGED <<cr, cache, cacheFresh, obj, objFresh, timer, left>>

KubeEnvironment ==
  UserEdits \/ UserDeletes \/ WatchDelivers \/ TimerFires \/ Resync

(* A restarted operator lists all resources and queues each of them.       *)
Restart(status) ==
  /\ Spend("crash")
  /\ cache' = cr
  /\ cacheFresh' = TRUE
  /\ queued' = TRUE
  /\ timer' = FALSE
  /\ obj' = Created(status)
  /\ objFresh' = FALSE
  /\ cr' = cr
=============================================================================
