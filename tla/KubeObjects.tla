---------------------------- MODULE KubeObjects -----------------------------
(***************************************************************************)
(* KubeObject for several resources, and so for controllers that meet:     *)
(* each resource has its own version, cached copy, place in a workqueue    *)
(* and running reconciliation.  One worker per controller serves the       *)
(* resources of its kind in turn; workers of different kinds interleave.   *)
(***************************************************************************)
EXTENDS Naturals

CONSTANTS
  Resources,   \* the custom resources
  MaxGen,      \* generations 1 .. MaxGen
  ConnStates   \* the states the AxonOpsConnection goes through

Events == {"edit", "delete",                     \* by the user of a resource
           "server", "other", "crash", "lag",    \* as in KubeObject
           "external", "conn", "kube",
          "report"}                              \* a switch, see Report

ASSUME ObjectsAssumption ==
  /\ MaxGen \in Nat \ {0}
  /\ ConnStates \subseteq {"up", "paused", "broken"}

VARIABLES
  budget,      \* how often each kind of event may happen
  cr,          \* the resources in the API server
  cache,       \* the informers' copies
  stale,       \* the resources whose cached copy is out of date
  queued,      \* the resources in the workqueues
  timers,      \* the resources with a RequeueAfter or back-off pending
  obj,         \* the copy a running reconciliation works on
  behind,      \* the resources whose obj is out of date
  pc,          \* where the reconciliation of each resource is
  conn,        \* the AxonOpsConnection: up, paused, or not resolvable
  left         \* what is left of the budget

copies == <<obj, behind, pc>>
around == <<budget, cache, queued, conn>>
kubeVars == <<cr, stale, timers, left, copies, around>>

(* The shape of a resource whose status is a member of Status.             *)
Object(Status) == [live: BOOLEAN, gen: 1 .. MaxGen, finalizer: BOOLEAN,
                   deleting: BOOLEAN, status: Status]

(* How far a resource has come: created, held by the operator's finalizer, *)
(* deleted by the user while it is held, and gone.                         *)
Life(c) ==
  IF ~cr[c].live THEN "gone"
  ELSE IF ~cr[c].finalizer THEN "open"
  ELSE IF cr[c].deleting THEN "condemned" ELSE "held"

(* What kubectl create leaves behind: no finalizer yet, an empty status.   *)
Created(status) == [live |-> TRUE, gen |-> 1, finalizer |-> FALSE,
                    deleting |-> FALSE, status |-> status]

KubeTypeOK(Status, Labels) ==
  /\ budget \in [Events -> Nat] /\ left \in [Events -> Nat]
  /\ cr \in [Resources -> Object(Status)]
  /\ cache \in [Resources -> Object(Status)]
  /\ obj \in [Resources -> Object(Status)]
  /\ stale \subseteq Resources /\ behind \subseteq Resources
  /\ queued \subseteq Resources /\ timers \subseteq Resources
  /\ pc \in [Resources -> Labels]
  /\ conn \in ConnStates

KubeInit(status) ==
  /\ cr = [c \in Resources |-> Created(status)]
  /\ cache = cr /\ obj = cr
  /\ stale = {} /\ behind = {} /\ queued = Resources /\ timers = {}
  /\ pc = [c \in Resources |-> "idle"]
  /\ conn \in ConnStates
  /\ left = budget

-----------------------------------------------------------------------------
(* What a reconciler does to a resource.                                   *)

(* One event of kind k happens.                                            *)
Spend(k) ==
  /\ left[k] > 0
  /\ left' = [left EXCEPT ![k] = @ - 1]

(* r.Get: the cached copy, and it may lag behind.                          *)
ReadCache(c) ==
  /\ IF c \in stale THEN Spend("lag") ELSE left' = left
  /\ obj' = [obj EXCEPT ![c] = cache[c]]
  /\ behind' = IF c \in stale THEN behind \cup {c} ELSE behind \ {c}

(* Go on at label l.                                                       *)
Goto(c, l) == pc' = [pc EXCEPT ![c] = l]

(* An update by optimistic concurrency; sure: it is a new version even if  *)
(* the fields of the model stay the same.                                  *)
Write(c, new, sure) ==
  IF c \in behind
    THEN UNCHANGED <<cr, stale>>
    ELSE /\ cr' = [cr EXCEPT ![c] = new]
         /\ stale' = IF sure \/ new # cr[c] THEN stale \cup {c} ELSE stale

(* A write of a condition with a message, which may make a new version.    *)
(* When the budget has reports, any of them may fail: that is logged and   *)
(* the pass goes on.                                                       *)
Report(c, new) ==
  \/ \E sure \in BOOLEAN : Write(c, new, sure)
  \/ budget["report"] > 0 /\ UNCHANGED <<cr, stale>>

(* Reconcile returns; again: RequeueAfter > 0 or an error.                 *)
Leave(c, again, status) ==
  /\ obj' = [obj EXCEPT ![c] = Created(status)]
  /\ behind' = behind \ {c}
  /\ Goto(c, "idle")
  /\ timers' = IF again THEN timers \cup {c} ELSE timers

(* A worker takes c from its queue when none of its peers is being served, *)
(* and reads it; what is gone or already released is dropped.              *)
Take(c, peers) ==
  /\ c \in queued
  /\ \A d \in peers : pc[d] = "idle"
  /\ queued' = queued \ {c}
  /\ IF cache[c].live /\ (cache[c].deleting => cache[c].finalizer)
       THEN ReadCache(c) /\ Goto(c, "fetched")
       ELSE UNCHANGED <<copies, left>>
  /\ UNCHANGED <<budget, cr, cache, stale, timers, conn>>

Guarded(o) == [o EXCEPT !.finalizer = TRUE]
Released(o) == [o EXCEPT !.finalizer = FALSE, !.live = FALSE]

Unguarded(c) == pc[c] = "fetched" /\ ~obj[c].deleting /\ ~obj[c].finalizer
Syncing(c) == pc[c] = "fetched" /\ ~obj[c].deleting /\ obj[c].finalizer
Deleting(c) == pc[c] = "fetched" /\ obj[c].deleting

-----------------------------------------------------------------------------
(* What happens around it.                                                 *)

(* The user changes a resource: older copies are out of date.              *)
Overwrite(c, new) ==
  /\ cr' = [cr EXCEPT ![c] = new]
  /\ stale' = stale \cup {c}
  /\ behind' = IF pc[c] = "idle" THEN behind ELSE behind \cup {c}
  /\ UNCHANGED <<timers, obj, pc, around>>

UserEdits(c) ==
  /\ cr[c].live /\ cr[c].gen < MaxGen
  /\ Spend("edit")
  /\ Overwrite(c, [cr[c] EXCEPT !.gen = @ + 1])

UserDeletes(c) ==
  /\ cr[c].live /\ ~cr[c].deleting
  /\ Spend("delete")
  /\ Overwrite(c, IF cr[c].finalizer THEN [cr[c] EXCEPT !.deleting = TRUE]
                                     ELSE [cr[c] EXCEPT !.live = FALSE])

(* The watch delivers the newest version; its event queues the key.        *)
WatchDelivers(c) ==
  /\ c \in stale
  /\ cache' = [cache EXCEPT ![c] = cr[c]]
  /\ stale' = stale \ {c}
  /\ queued' = queued \cup {c}
  /\ UNCHANGED <<budget, cr, timers, left, copies, conn>>

TimerFires(c) ==
  /\ c \in timers
  /\ timers' = timers \ {c}
  /\ queued' = queued \cup {c}
  /\ UNCHANGED <<budget, cr, cache, stale, left, copies, conn>>

ConnMoves ==
  /\ Spend("conn")
  /\ conn' \in ConnStates \ {conn}
  /\ UNCHANGED <<budget, cr, cache, stale, queued, timers, copies>>

(* The pod with all controllers dies; the next one lists every resource.   *)
Restart(status) ==
  /\ Spend("crash")
  /\ cache' = cr /\ stale' = {} /\ queued' = Resources /\ timers' = {}
  /\ obj' = [c \in Resources |-> Created(status)] /\ behind' = {}
  /\ pc' = [c \in Resources |-> "idle"]
  /\ UNCHANGED <<budget, cr, conn>>

(* No event of kind k has happened yet.                                    *)
Unspent(k) == left[k] = budget[k]
=============================================================================
