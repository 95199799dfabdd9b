---------------------------- MODULE Healthchecks ----------------------------
(***************************************************************************)
(* The healthcheck controllers.  AxonOps keeps all healthchecks of a       *)
(* cluster in one document; a resource of kind HTTP, TCP or shell is one   *)
(* entry of it.  A controller changes its entry by a GET of the document   *)
(* and a PUT of the whole of it, and no version guards the PUT: three      *)
(* controllers, one per kind, run at the same time.  The three have the    *)
(* same code; one worker each serves the resources of its kind in turn.    *)
(*                                                                         *)
(* Kubernetes around each resource is as in KubeObject, here for several   *)
(* resources.  A document maps ids to the generation an entry was built    *)
(* from; that it has a list per kind does not matter, as ids are unique.   *)
(* connectionRef, clusterName and clusterType may be edited like any other *)
(* field, and they select the document a pass works on.                    *)
(* The DriftDetected condition is left out: nothing reads or clears it.    *)
(***************************************************************************)
EXTENDS Naturals

CONSTANTS
  Checks,      \* the healthcheck resources
  Clusters,    \* the clusters, each with a document, that a spec may name
  Setups,      \* of which kind each resource is, which cluster each of its
               \* generations names, and how often each event may happen:
               \* alternatives
  MaxGen,      \* generations 1 .. MaxGen
  MaxId,       \* ids 1 .. MaxId; 0 is the empty id
  ConnStates   \* the states the AxonOpsConnection goes through

Events == {"edit", "delete",                     \* by the user of a resource
           "server", "other", "crash", "lag",    \* as in KubeObject
           "external", "conn"}

ASSUME HealthchecksAssumption ==
  /\ Setups \subseteq [kind: [Checks -> {"http", "tcp", "shell"}],
                        place: [Checks -> [1 .. MaxGen -> Clusters]],
                        budget: [Events -> Nat]]
  /\ MaxGen \in Nat \ {0} /\ MaxId \in Nat \ {0}
  /\ ConnStates \subseteq {"up", "paused", "broken"}

VARIABLES
  kind,        \* the kind of each resource, and so its controller
  place,       \* place[c][g]: the cluster generation g of c names
  budget,      \* how often each kind of event may happen
  cr,          \* the resources in the API server
  cache,       \* the informers' copies
  stale,       \* the resources whose cached copy is out of date
  queued,      \* the resources in the workqueues
  timers,      \* the resources with a RequeueAfter or back-off pending
  obj,         \* the copy a running reconciliation works on
  behind,      \* the resources whose obj is out of date
  pc,          \* where the reconciliation of each resource is
  got,         \* the document its GET returned, of the cluster obj names
  sync,        \* its local variables syncedID and syncedGeneration
  doc,         \* the document of each cluster on the server
  minted,      \* uuid.New has produced the ids 1 .. minted
  conn,        \* the AxonOpsConnection: up, paused, or not resolvable
  left         \* what is left of the budget

local == <<obj, behind, pc, got, sync>>
server == <<doc, minted>>
fixed == <<kind, place, budget>>
around == <<fixed, cache, queued, conn>>
vars == <<cr, stale, timers, left, local, server, around>>

Ids == 1 .. MaxId
Documents == [Ids -> 0 .. MaxGen]
NoDocument == [i \in Ids |-> 0]

(* An entry somebody made in the AxonOps console, in every document.       *)
HandMade == 1

Status == [conds: SUBSET {"Ready", "Failed", "Paused"}, obsGen: 0 .. MaxGen,
           id: 0 .. MaxId]
Object == [live: BOOLEAN, gen: 1 .. MaxGen, finalizer: BOOLEAN,
           deleting: BOOLEAN, status: Status]
Created == [live |-> TRUE, gen |-> 1, finalizer |-> FALSE, deleting |-> FALSE,
            status |-> [conds |-> {}, obsGen |-> 0, id |-> 0]]
NoSync == [id |-> 0, gen |-> 0]

TypeOK ==
  /\ [kind |-> kind, place |-> place, budget |-> budget] \in Setups
  /\ cr \in [Checks -> Object]
  /\ cache \in [Checks -> Object]
  /\ obj \in [Checks -> Object]
  /\ stale \subseteq Checks /\ behind \subseteq Checks
  /\ queued \subseteq Checks /\ timers \subseteq Checks
  /\ pc \in [Checks -> {"idle", "fetched", "get", "put", "refetch", "record",
                        "drifted", "remove", "release"}]
  /\ got \in [Checks -> Documents]
  /\ sync \in [Checks -> [id: 0 .. MaxId, gen: 0 .. MaxGen]]
  /\ doc \in [Clusters -> Documents]
  /\ minted \in 0 .. MaxId
  /\ conn \in ConnStates
  /\ left \in [Events -> Nat]

Init ==
  /\ \E s \in Setups :
       kind = s.kind /\ place = s.place /\ budget = s.budget
  /\ cr = [c \in Checks |-> Created]
  /\ cache = cr /\ obj = cr
  /\ stale = {} /\ behind = {} /\ queued = Checks /\ timers = {}
  /\ pc = [c \in Checks |-> "idle"]
  /\ got = [c \in Checks |-> NoDocument]
  /\ sync = [c \in Checks |-> NoSync]
  /\ doc = [t \in Clusters |-> [NoDocument EXCEPT ![HandMade] = 1]]
  /\ minted = HandMade
  /\ conn \in ConnStates
  /\ left = budget

-----------------------------------------------------------------------------
(* One event of kind k happens.                                            *)
Spend(k) ==
  /\ left[k] > 0
  /\ left' = [left EXCEPT ![k] = @ - 1]

(* r.Get: the cached copy, and it may lag behind.                          *)
ReadCache(c) ==
  /\ IF c \in stale THEN Spend("lag") ELSE left' = left
  /\ obj' = [obj EXCEPT ![c] = cache[c]]
  /\ behind' = IF c \in stale THEN behind \cup {c} ELSE behind \ {c}

(* An update by optimistic concurrency; sure: it is a new version even if  *)
(* the fields of the model stay the same.                                  *)
Write(c, new, sure) ==
  IF c \in behind
    THEN UNCHANGED <<cr, stale>>
    ELSE /\ cr' = [cr EXCEPT ![c] = new]
         /\ stale' = IF sure \/ new # cr[c] THEN stale \cup {c} ELSE stale

(* A write of a condition with a message, which may make a new version.    *)
Report(c, new) == \E sure \in BOOLEAN : Write(c, new, sure)

(* Return from Reconcile; again: RequeueAfter > 0 or an error.             *)
Return(c, again) ==
  /\ obj' = [obj EXCEPT ![c] = Created]
  /\ behind' = behind \ {c}
  /\ pc' = [pc EXCEPT ![c] = "idle"]
  /\ got' = [got EXCEPT ![c] = NoDocument]
  /\ sync' = [sync EXCEPT ![c] = NoSync]
  /\ timers' = IF again THEN timers \cup {c} ELSE timers

(* Go on at label l.                                                       *)
Goto(c, l) == pc' = [pc EXCEPT ![c] = l]

Guarded(o) == [o EXCEPT !.finalizer = TRUE]
Released(o) == [o EXCEPT !.finalizer = FALSE, !.live = FALSE]
Paused(o) == [o EXCEPT !.status.conds = @ \cup {"Paused"}]
Forgotten(o) == [o EXCEPT !.status.id = 0]

(* setFailedCondition: Ready stays, the generation counts as observed.     *)
Failing(o) ==
  [o EXCEPT !.status = [conds |-> @.conds \cup {"Failed"}, obsGen |-> o.gen,
                        id |-> @.id]]

(* Mutant: the recorded generation is one ahead.                           *)
SyncedAhead(o, s) ==
  [o EXCEPT !.status =
     [conds |-> {"Ready"}, obsGen |-> s.gen + 1, id |-> s.id]]

(* Mutant: the generation of the re-fetched copy is recorded.              *)
SyncedRefetched(o, s) ==
  [o EXCEPT !.status = [conds |-> (@.conds \cup {"Ready"}) \ {"Failed"},
                        obsGen |-> o.gen, id |-> s.id]]

(* Mutant: the id of a new entry is not recorded.                          *)
SyncedWithoutId(o, s) ==
  [o EXCEPT !.status = [conds |-> (@.conds \cup {"Ready"}) \ {"Failed"},
                        obsGen |-> s.gen, id |-> @.id]]

(* What the status records of a PUT s.                                     *)
Synced(o, s) ==
  [o EXCEPT !.status = [conds |-> (@.conds \cup {"Ready"}) \ {"Failed"},
                        obsGen |-> s.gen, id |-> s.id]]

(* The cluster whose document a pass over o, a copy of c, works on.        *)
At(c, o) == place[c][o.gen]

(* Whether that document has the entry that o records.                     *)
Listed(c, o) == doc[At(c, o)][o.status.id] # 0

(* The guard of the short cut: this generation has been synced before.     *)
AlreadySynced(o) ==
  /\ "Ready" \in o.status.conds
  /\ o.status.obsGen = o.gen
  /\ o.status.id # 0

-----------------------------------------------------------------------------
(* Mutant: more than one worker per controller.                            *)
FetchConcurrently(c) ==
  /\ c \in queued /\ pc[c] = "idle"
  /\ queued' = queued \ {c}
  /\ IF cache[c].live /\ (cache[c].deleting => cache[c].finalizer)
       THEN ReadCache(c) /\ Goto(c, "fetched")
       ELSE UNCHANGED <<obj, behind, left, pc>>
  /\ UNCHANGED <<fixed, cr, cache, stale, timers, got, sync, server, conn>>

(* The worker of c's controller takes c from its queue and reads it.       *)
Fetch(c) ==
  /\ c \in queued
  /\ \A d \in Checks : kind[d] = kind[c] => pc[d] = "idle"
  /\ queued' = queued \ {c}
  /\ IF cache[c].live /\ (cache[c].deleting => cache[c].finalizer)
       THEN ReadCache(c) /\ Goto(c, "fetched")
       ELSE UNCHANGED <<obj, behind, left, pc>>
  /\ UNCHANGED <<fixed, cr, cache, stale, timers, got, sync, server, conn>>

(* The first reconciliation only puts the finalizer on.                    *)
AddFinalizer(c) ==
  /\ pc[c] = "fetched" /\ ~obj[c].deleting /\ ~obj[c].finalizer
  /\ Write(c, Guarded(obj[c]), FALSE)
  /\ Return(c, c \in behind)
  /\ UNCHANGED <<left, server, around>>

Syncing(c) == pc[c] = "fetched" /\ ~obj[c].deleting /\ obj[c].finalizer

(* HandleConnectionPaused: note the pause and do not come back.            *)
SkipPaused(c) ==
  /\ Syncing(c) /\ conn = "paused"
  /\ Write(c, Paused(obj[c]), FALSE)
  /\ Return(c, c \in behind)
  /\ UNCHANGED <<left, server, around>>

(* No connection, no secret, or no usable key: again in 30 s.              *)
ResolveFails(c) ==
  /\ Syncing(c) /\ conn = "broken"
  /\ Report(c, Failing(obj[c]))
  /\ Return(c, TRUE)
  /\ UNCHANGED <<left, server, around>>

(* checkDrift: its GET fails, finds the entry, or misses it.               *)
CheckingDrift(c) == Syncing(c) /\ conn = "up" /\ AlreadySynced(obj[c])

DriftCheckFails(c) ==
  /\ CheckingDrift(c)
  /\ \E k \in {"server", "other"} : Spend(k)
  /\ Report(c, Failing(obj[c]))
  /\ Return(c, TRUE)
  /\ UNCHANGED <<server, around>>

(* Mutant: the next drift check is not scheduled.                          *)
SkipSyncedForGood(c) ==
  /\ CheckingDrift(c) /\ Listed(c, obj[c])
  /\ Return(c, FALSE)
  /\ UNCHANGED <<cr, stale, left, server, around>>

SkipSynced(c) ==
  /\ CheckingDrift(c) /\ Listed(c, obj[c])
  /\ Return(c, TRUE)
  /\ UNCHANGED <<cr, stale, left, server, around>>

DriftDetected(c) ==
  /\ CheckingDrift(c) /\ ~Listed(c, obj[c])
  /\ Goto(c, "drifted")
  /\ UNCHANGED <<cr, stale, timers, left, obj, behind, got, sync, server,
                 around>>

(* The id is forgotten in the status before the entry is created again.    *)
ForgetId(c) ==
  /\ pc[c] = "drifted"
  /\ Write(c, Forgotten(obj[c]), FALSE)
  /\ IF c \in behind
       THEN Return(c, TRUE)
       ELSE /\ Goto(c, "get") /\ obj' = [obj EXCEPT ![c] = Forgotten(@)]
            /\ UNCHANGED <<behind, got, sync, timers>>
  /\ UNCHANGED <<left, server, around>>

-----------------------------------------------------------------------------
(* GetHealthchecks, PUT in mind.                                           *)
Getting(c) ==
  \/ pc[c] = "get"
  \/ Syncing(c) /\ conn = "up" /\ ~AlreadySynced(obj[c])

GetAll(c) ==
  /\ Getting(c)
  /\ got' = [got EXCEPT ![c] = doc[At(c, obj[c])]]
  /\ Goto(c, "put")
  /\ UNCHANGED <<cr, stale, timers, left, obj, behind, sync, server, around>>

GetFails(c) ==
  /\ Getting(c)
  /\ \E k \in {"server", "other"} : Spend(k)
  /\ Report(c, Failing(obj[c]))
  /\ Return(c, TRUE)
  /\ UNCHANGED <<server, around>>

(* The id of c's entry: the recorded one, or a new UUID.                   *)
EntryId(o) == IF o.status.id # 0 THEN o.status.id ELSE minted + 1

(* Mutant: the PUT sends c's entry only.                                   *)
EntryOnly(c) == [NoDocument EXCEPT ![EntryId(obj[c])] = obj[c].gen]

(* The document fetched for c, with c's entry replaced or appended.        *)
WithEntry(c) == [got[c] EXCEPT ![EntryId(obj[c])] = obj[c].gen]

(* UpdateHealthchecks: the document of the cluster becomes this one.       *)
Replace(c) ==
  /\ EntryId(obj[c]) \in Ids
  /\ doc' = [doc EXCEPT ![At(c, obj[c])] = WithEntry(c)]
  /\ minted' = IF obj[c].status.id # 0 THEN minted ELSE minted + 1

PutAll(c) ==
  /\ pc[c] = "put"
  /\ Replace(c)
  /\ sync' = [sync EXCEPT ![c] = [id |-> EntryId(obj[c]), gen |-> obj[c].gen]]
  /\ got' = [got EXCEPT ![c] = NoDocument]
  /\ Goto(c, "refetch")
  /\ UNCHANGED <<cr, stale, timers, left, obj, behind, around>>

(* It fails, having taken effect or not; only a 5xx answer is retried.     *)
PutFails(c, k) ==
  /\ pc[c] = "put"
  /\ Spend(k)
  /\ Replace(c) \/ UNCHANGED server
  /\ Report(c, Failing(obj[c]))
  /\ Return(c, k = "server")
  /\ UNCHANGED around

(* r.Get before the status update; the finalizer keeps the resource there. *)
Refetch(c) ==
  /\ pc[c] = "refetch"
  /\ ReadCache(c)
  /\ Goto(c, "record")
  /\ UNCHANGED <<cr, stale, timers, got, sync, server, around>>

(* Status().Update; LastSyncTime makes it a new version.                   *)
Record(c) ==
  /\ pc[c] = "record"
  /\ Write(c, Synced(obj[c], sync[c]), TRUE)
  /\ Return(c, c \in behind)
  /\ UNCHANGED <<left, server, around>>

-----------------------------------------------------------------------------
(* handleDeletion                                                          *)
Deleting(c) == pc[c] = "fetched" /\ obj[c].deleting

(* Without a client, a paused connection included, try again in 30 s.      *)
DeleteUnresolved(c) ==
  /\ Deleting(c) /\ conn # "up"
  /\ Return(c, TRUE)
  /\ UNCHANGED <<cr, stale, left, server, around>>

(* Without an id there is nothing to delete.                               *)
GetToDelete(c) ==
  /\ Deleting(c) /\ conn = "up"
  /\ IF obj[c].status.id = 0
       THEN Goto(c, "release") /\ got' = got
       ELSE /\ Goto(c, "remove")
            /\ got' = [got EXCEPT ![c] = doc[At(c, obj[c])]]
  /\ UNCHANGED <<cr, stale, timers, left, obj, behind, sync, server, around>>

(* A 404 lets the finalizer go, any other failure is retried.              *)
GetToDeleteFails(c, k) ==
  /\ Deleting(c) /\ conn = "up" /\ obj[c].status.id # 0
  /\ Spend(k)
  /\ \/ Return(c, TRUE)
     \/ /\ k = "other" /\ Goto(c, "release")
        /\ UNCHANGED <<timers, obj, behind, got, sync>>
  /\ UNCHANGED <<cr, stale, server, around>>

(* The document fetched for c, without c's entry.                          *)
WithoutEntry(c) == [got[c] EXCEPT ![obj[c].status.id] = 0]

(* The document without c's entry takes the place of the one there is.     *)
Shrink(c) == doc' = [doc EXCEPT ![At(c, obj[c])] = WithoutEntry(c)]

RemoveEntry(c) ==
  /\ pc[c] = "remove"
  /\ Shrink(c)
  /\ got' = [got EXCEPT ![c] = NoDocument]
  /\ Goto(c, "release")
  /\ UNCHANGED <<cr, stale, timers, left, obj, behind, sync, minted, around>>

(* It fails, having taken effect or not; only a 5xx answer is retried.     *)
RemoveFails(c, k) ==
  /\ pc[c] = "remove"
  /\ Spend(k)
  /\ Shrink(c) \/ doc' = doc
  /\ IF k = "server"
       THEN Return(c, TRUE)
       ELSE /\ Goto(c, "release") /\ got' = [got EXCEPT ![c] = NoDocument]
            /\ UNCHANGED <<timers, obj, behind, sync>>
  /\ UNCHANGED <<cr, stale, minted, around>>

Release(c) ==
  /\ pc[c] = "release"
  /\ Write(c, Released(obj[c]), FALSE)
  /\ Return(c, c \in behind)
  /\ UNCHANGED <<left, server, around>>

-----------------------------------------------------------------------------
(* Users, Kubernetes and the AxonOps console.                              *)
Overwrite(c, new) ==
  /\ cr' = [cr EXCEPT ![c] = new]
  /\ stale' = stale \cup {c}
  /\ behind' = IF pc[c] = "idle" THEN behind ELSE behind \cup {c}
  /\ UNCHANGED <<timers, obj, pc, got, sync, server, around>>

UserEdits(c) ==
  /\ cr[c].live /\ cr[c].gen < MaxGen
  /\ Spend("edit")
  /\ Overwrite(c, [cr[c] EXCEPT !.gen = @ + 1])

UserDeletes(c) ==
  /\ cr[c].live /\ ~cr[c].deleting
  /\ Spend("delete")
  /\ Overwrite(c, IF cr[c].finalizer THEN [cr[c] EXCEPT !.deleting = TRUE]
                                     ELSE [cr[c] EXCEPT !.live = FALSE])

WatchDelivers(c) ==
  /\ c \in stale
  /\ cache' = [cache EXCEPT ![c] = cr[c]]
  /\ stale' = stale \ {c}
  /\ queued' = queued \cup {c}
  /\ UNCHANGED <<fixed, cr, timers, left, local, server, conn>>

TimerFires(c) ==
  /\ c \in timers
  /\ timers' = timers \ {c}
  /\ queued' = queued \cup {c}
  /\ UNCHANGED <<fixed, cr, cache, stale, left, local, server, conn>>

(* The pod with all three controllers dies and starts again.               *)
Crash ==
  /\ Spend("crash")
  /\ cache' = cr /\ stale' = {} /\ queued' = Checks /\ timers' = {}
  /\ obj' = [c \in Checks |-> Created] /\ behind' = {}
  /\ pc' = [c \in Checks |-> "idle"]
  /\ got' = [c \in Checks |-> NoDocument]
  /\ sync' = [c \in Checks |-> NoSync]
  /\ UNCHANGED <<fixed, cr, server, conn>>

ConnChanges ==
  /\ Spend("conn")
  /\ conn' \in ConnStates \ {conn}
  /\ UNCHANGED <<fixed, cr, cache, stale, queued, timers, local, server>>

(* Somebody deletes an entry in the AxonOps console.                       *)
ExternalDelete ==
  /\ Spend("external")
  /\ \E t \in Clusters, i \in Ids \ {HandMade} :
       doc[t][i] # 0 /\ doc' = [doc EXCEPT ![t][i] = 0]
  /\ UNCHANGED <<fixed, cr, cache, stale, queued, timers, local, minted, conn>>

(* One step of the reconciliation of c: up to the decision what to do,     *)
(* checkDrift, the push, and handleDeletion.                               *)
Admit(c) == AddFinalizer(c) \/ SkipPaused(c) \/ ResolveFails(c)

CheckDrift(c) ==
  DriftCheckFails(c) \/ SkipSynced(c) \/ DriftDetected(c) \/ ForgetId(c)

Push(c) ==
  \/ GetAll(c) \/ GetFails(c) \/ PutAll(c) \/ Refetch(c) \/ Record(c)
  \/ \E k \in {"server", "other"} : PutFails(c, k)

HandleDeletion(c) ==
  \/ DeleteUnresolved(c) \/ GetToDelete(c) \/ RemoveEntry(c) \/ Release(c)
  \/ \E k \in {"server", "other"} :
       GetToDeleteFails(c, k) \/ RemoveFails(c, k)

Reconcile(c) == Admit(c) \/ CheckDrift(c) \/ Push(c) \/ HandleDeletion(c)

Next ==
  \/ \E c \in Checks : \/ Fetch(c) \/ Reconcile(c)
                       \/ UserEdits(c) \/ UserDeletes(c)
                       \/ WatchDelivers(c) \/ TimerFires(c)
  \/ Crash \/ ConnChanges \/ ExternalDelete

Spec == Init /\ [][Next]_vars

(* The workers run, and their queues are first in, first out: a queued     *)
(* resource gets its turn although others of its kind come back for ever.  *)
Fairness ==
  \A c \in Checks : /\ SF_vars(Fetch(c)) /\ WF_vars(Reconcile(c))
                    /\ WF_vars(WatchDelivers(c)) /\ WF_vars(TimerFires(c))

FairSpec == Spec /\ Fairness

-----------------------------------------------------------------------------
(* What must hold.                                                         *)

(* No event of kind k has happened yet.                                    *)
Unspent(k) == left[k] = budget[k]

(* All resources are of one kind: one worker, one PUT at a time.           *)
OneController == \A c, d \in Checks : kind[c] = kind[d]

(* With one kind in use, a resource that says Ready, not Failed, for its   *)
(* current generation has that generation in the document of its cluster,  *)
(* unless somebody deleted it there: no PUT of another resource brings an  *)
(* old entry back.                                                         *)
AloneInSync ==
  OneController =>
    \A c \in Checks :
      /\ cr[c].live /\ ~cr[c].deleting /\ AlreadySynced(cr[c])
      /\ "Failed" \notin cr[c].status.conds
      => LET entry == doc[At(c, cr[c])][cr[c].status.id]
         IN  entry = cr[c].gen \/ (entry = 0 /\ ~Unspent("external"))

(* What no resource owns survives every PUT of every controller: the PUT   *)
(* replaces the whole document.                                            *)
HandMadeKept == \A t \in Clusters : doc[t][HandMade] # 0

(* With one kind in use, an entry leaves a document only by hand or with   *)
(* the resource that records it; if a read was stale, with the resource    *)
(* that did so in the version that was read.                               *)
NothingLost ==
  [][OneController =>
       \A t \in Clusters, i \in Ids : doc[t][i] # 0 /\ doc'[t][i] = 0 =>
         \/ left'["external"] # left["external"]
         \/ \E c \in Checks :
              /\ cr[c].deleting
              /\ \/ cr[c].status.id = i
                 \/ obj[c].status.id = i /\ ~Unspent("lag")]_vars

(* Somebody knows that entry i of cluster t is ours: the status of its     *)
(* resource does, for the cluster the spec names, or its running sync, for *)
(* the cluster it has sent the entry to.                                   *)
Tracked(t, i) ==
  \E c \in Checks :
    \/ cr[c].live /\ cr[c].status.id = i /\ t = At(c, cr[c])
    \/ sync[c].id = i /\ t = place[c][sync[c].gen]

(* The step ends the sync of c with a record that the API server refuses,  *)
(* or that comes after an edit which named another cluster.                *)
RecordsLate(c) ==
  /\ pc[c] = "record" /\ pc'[c] = "idle"
  /\ (c \in behind \/ place[c][sync[c].gen] # At(c, cr[c]))

(* With one kind in use, no stale reads and every PUT answered, an entry   *)
(* is orphaned only when a PUT fails, the process dies, the record of a    *)
(* sync is refused, or an edit names another cluster: not by any other     *)
(* edit, and not by drift handling, which forgets ids.                     *)
OrphansOnlyByLoss ==
  [][OneController /\ Unspent("lag")' /\ Unspent("other")' =>
       \A t \in Clusters, i \in Ids \ {HandMade} :
         doc'[t][i] # 0 /\ ~Tracked(t, i)' =>
           \/ ~Tracked(t, i) /\ (doc[t][i] # 0 \/ ~Unspent("external"))
           \/ \E k \in {"server", "crash"} : left'[k] # left[k]
           \/ \E c \in Checks : At(c, cr[c])' # At(c, cr[c]) \/ RecordsLate(c)
    ]_vars

(* Whichever PUTs overwrite one another, every resource ends up with an    *)
(* entry, or with a status that tells why not: a lost entry is found by    *)
(* the drift check and put back, and that does not go on for ever.  Only a *)
(* connection that stays unusable keeps a deleted resource.                *)
LostEntriesReturn ==
  \A c \in Checks :
    <>[](cr[c].live =>
           IF cr[c].deleting THEN conn # "up"
           ELSE \/ cr[c].status.id # 0 /\ Listed(c, cr[c])
                \/ {"Failed", "Paused"} \cap cr[c].status.conds # {})

-----------------------------------------------------------------------------
(* What the repository promises and the code does not keep.                *)

(* Healthchecks are kept in sync with the AxonOps API (README.md).         *)
KeptInSync ==
  \A c \in Checks :
    <>[](cr[c].live /\ ~cr[c].deleting =>
           /\ cr[c].status.id # 0
           /\ doc[At(c, cr[c])][cr[c].status.id] = cr[c].gen)

-----------------------------------------------------------------------------
(* Each resource of the three controllers as the subject of a mirror.      *)
(* How far a resource has come: created, held by the operator's finalizer, *)
(* deleted by the user while it is held, and gone.                         *)
Life(c) ==
  IF ~cr[c].live THEN "gone"
  ELSE IF ~cr[c].finalizer THEN "open"
  ELSE IF cr[c].deleting THEN "condemned" ELSE "held"

Claimed(c) ==
  IF /\ cr[c].live /\ AlreadySynced(cr[c])
     /\ "Failed" \notin cr[c].status.conds
    THEN cr[c].gen ELSE 0

Sending(c) == IF pc[c] \in {"refetch", "record"} THEN sync[c].gen ELSE 0

M(c) == INSTANCE Mirror WITH life <- Life(c), gen <- cr[c].gen,
                             sent <- Sending(c), claim <- Claimed(c)

(* A shared document is still a way of mirroring each resource: no entry   *)
(* is sent for a resource without the finalizer, and what the status says  *)
(* of the newest spec, that resource's own PUT has carried.                *)
Mirrors == \A c \in Checks : M(c)!Spec
=============================================================================
