------------------------- MODULE HealthchecksProofs -------------------------
(***************************************************************************)
(* Theorems about Healthchecks, for every set of resources, every fleet of *)
(* controllers, every choice of clusters and every budget: the types, that *)
(* no interleaving of whole-document PUTs loses an entry nobody owns, and  *)
(* what one controller keeps in step and orphans.                          *)
(***************************************************************************)
EXTENDS Healthchecks, TLAPS

(* A resource whose recorded id is not the hand-made entry's.              *)
Mine == {o \in Object : o.status.id # HandMade}

(* The copies of the resources, and the queues that lead to them.          *)
Stored ==
  /\ cr \in [Checks -> Mine]
  /\ stale \subseteq Checks

Around ==
  /\ [kind |-> kind, place |-> place, budget |-> budget] \in Setups
  /\ cache \in [Checks -> Mine]
  /\ queued \subseteq Checks
  /\ conn \in ConnStates

Pending == timers \subseteq Checks

Left == left \in [Events -> Nat]

Labels == {"idle", "fetched", "get", "put", "refetch", "record", "drifted",
           "remove", "release"}

(* A pass that is about to PUT holds the hand-made entry in its copy of    *)
(* the document.                                                           *)
Running ==
  /\ obj \in [Checks -> Mine]
  /\ behind \subseteq Checks
  /\ pc \in [Checks -> Labels]
  /\ got \in [Checks -> Documents]
  /\ sync \in [Checks -> {s \in [id: 0 .. MaxId, gen: 0 .. MaxGen] :
                            s.id # HandMade}]
  /\ \A c \in Checks : pc[c] \in {"put", "remove"} => got[c][HandMade] # 0

(* The server: hand-made entries are there, and new ids differ from them.  *)
Kept ==
  /\ doc \in [Clusters -> Documents]
  /\ minted \in 1 .. MaxId
  /\ \A t \in Clusters : doc[t][HandMade] # 0

IInv == Stored /\ Around /\ Pending /\ Left /\ Running /\ Kept

-----------------------------------------------------------------------------
(* What the operators on resources return.                                 *)

LEMMA CreatedMine == Created \in Mine
BY HealthchecksAssumption DEF Created, Mine, Object, Status, HandMade

LEMMA EditsMine ==
  ASSUME NEW o \in Mine
  PROVE  /\ Guarded(o) \in Mine /\ Released(o) \in Mine /\ Paused(o) \in Mine
         /\ Forgotten(o) \in Mine /\ Failing(o) \in Mine
         /\ [o EXCEPT !.deleting = TRUE] \in Mine
         /\ [o EXCEPT !.live = FALSE] \in Mine
         /\ o.gen < MaxGen => [o EXCEPT !.gen = @ + 1] \in Mine
<1> USE HealthchecksAssumption DEF Mine, Object, Status, HandMade
<1>1. Guarded(o) \in Mine /\ Released(o) \in Mine
  BY DEF Guarded, Released
<1>2. Paused(o) \in Mine /\ Forgotten(o) \in Mine
  BY DEF Paused, Forgotten
<1>3. Failing(o) \in Mine
  BY DEF Failing
<1>4. /\ [o EXCEPT !.deleting = TRUE] \in Mine
      /\ [o EXCEPT !.live = FALSE] \in Mine
  OBVIOUS
<1>5. o.gen < MaxGen => [o EXCEPT !.gen = @ + 1] \in Mine
  OBVIOUS
<1> QED BY <1>1, <1>2, <1>3, <1>4, <1>5

LEMMA SyncedMine ==
  ASSUME NEW o \in Mine,
         NEW s \in [id: 0 .. MaxId, gen: 0 .. MaxGen], s.id # HandMade
  PROVE  Synced(o, s) \in Mine
BY HealthchecksAssumption DEF Synced, Mine, Object, Status, HandMade

(* Every spec names a cluster.                                             *)
LEMMA Placed ==
  ASSUME Around, NEW c \in Checks
  PROVE  /\ \A g \in 1 .. MaxGen : place[c][g] \in Clusters
         /\ \A o \in Mine : At(c, o) \in Clusters
<1>1. place \in [Checks -> [1 .. MaxGen -> Clusters]]
  BY HealthchecksAssumption DEF Around
<1> QED BY <1>1 DEF At, Mine, Object

-----------------------------------------------------------------------------
(* What the operators on the state do.                                     *)

LEMMA WriteStored ==
  ASSUME Stored, NEW c \in Checks, NEW new \in Mine, NEW sure,
         Write(c, new, sure)
  PROVE  Stored'
BY DEF Stored, Write

LEMMA ReportStored ==
  ASSUME Stored, NEW c \in Checks, NEW new \in Mine, Report(c, new)
  PROVE  Stored'
BY WriteStored DEF Report

LEMMA ReturnRunning ==
  ASSUME Running, Pending, NEW c \in Checks, NEW again, Return(c, again)
  PROVE  Running' /\ Pending'
<1> USE HealthchecksAssumption
<1>1. NoDocument \in Documents /\ NoSync \in [id: 0 .. MaxId, gen: 0 .. MaxGen]
      /\ NoSync.id # HandMade
  BY DEF NoDocument, Documents, NoSync, HandMade, Ids
<1>2. Running'
  BY <1>1, CreatedMine DEF Running, Return, Labels
<1>3. Pending'
  BY DEF Return, Pending
<1> QED BY <1>2, <1>3

LEMMA SpendLeft ==
  ASSUME Left, NEW k \in Events, Spend(k)
  PROVE  Left'
BY DEF Left, Spend

LEMMA ReadRunning ==
  ASSUME Running, Around, Left, NEW c \in Checks, NEW l \in Labels,
         l \notin {"put", "remove"}, ReadCache(c), Goto(c, l),
         UNCHANGED <<got, sync>>
  PROVE  Running' /\ Left'
<1>1. Left'
  BY SpendLeft DEF ReadCache, Left, Events
<1>2. Running'
  BY DEF Running, ReadCache, Goto, Around
<1> QED BY <1>1, <1>2

(* Going on without a GET.                                                 *)
LEMMA GotoRunning ==
  ASSUME Running, NEW c \in Checks, NEW l \in Labels,
         l \notin {"put", "remove"}, Goto(c, l), UNCHANGED <<behind, sync>>,
         \/ got' = got
         \/ got' = [got EXCEPT ![c] = NoDocument],
         \/ obj' = obj
         \/ \E o \in Mine : obj' = [obj EXCEPT ![c] = o]
  PROVE  Running'
<1>1. NoDocument \in Documents
  BY HealthchecksAssumption DEF NoDocument, Documents
<1> QED BY <1>1 DEF Running, Goto

(* Going on with the document of a GET.                                    *)
LEMMA GetRunning ==
  ASSUME Running, Kept, NEW c \in Checks, NEW l \in Labels, Goto(c, l),
         NEW t \in Clusters, got' = [got EXCEPT ![c] = doc[t]],
         UNCHANGED <<obj, behind, sync>>
  PROVE  Running'
BY DEF Running, Goto, Kept

LEMMA ReplaceKept ==
  ASSUME Running, Around, Kept, NEW c \in Checks, pc[c] = "put", Replace(c)
  PROVE  /\ Kept'
         /\ [id |-> EntryId(obj[c]), gen |-> obj[c].gen]
              \in {s \in [id: 0 .. MaxId, gen: 0 .. MaxGen] : s.id # HandMade}
<1> USE HealthchecksAssumption
<1> DEFINE i == EntryId(obj[c])
<1>1. obj[c] \in Mine /\ got[c] \in Documents /\ got[c][HandMade] # 0
  BY DEF Running
<1>2. obj[c].gen \in 1 .. MaxGen /\ obj[c].status.id \in 0 .. MaxId
      /\ obj[c].status.id # HandMade
  BY <1>1 DEF Mine, Object, Status
<1>3. minted \in 1 .. MaxId /\ i \in 1 .. MaxId
  BY DEF Replace, Kept, Ids
<1>4. i # HandMade
  BY <1>2, <1>3 DEF EntryId, HandMade
<1>5. WithEntry(c) \in Documents /\ WithEntry(c)[HandMade] # 0
  BY <1>1, <1>2, <1>3, <1>4 DEF WithEntry, Documents, Ids, HandMade
<1>7. /\ doc' \in [Clusters -> Documents]
      /\ \A t \in Clusters : doc'[t][HandMade] # 0
  BY <1>5 DEF Kept, Replace
<1>6. minted' \in 1 .. MaxId
  BY <1>2, <1>3 DEF Replace, EntryId
<1> QED BY <1>2, <1>3, <1>4, <1>6, <1>7 DEF Kept

LEMMA WithoutEntryKept ==
  ASSUME Running, Kept, NEW c \in Checks, pc[c] = "remove",
         minted' = minted, Shrink(c) \/ doc' = doc
  PROVE  Kept'
<1>1. got[c] \in Documents /\ got[c][HandMade] # 0
  BY DEF Running
<1>2. obj[c].status.id # HandMade
  BY DEF Running, Mine
<1>3. HandMade \in Ids /\ 0 \in 0 .. MaxGen
  BY HealthchecksAssumption DEF HandMade, Ids
<1>4. WithoutEntry(c) \in Documents
  BY <1>1, <1>3 DEF WithoutEntry, Documents
<1>5. WithoutEntry(c)[HandMade] # 0
  BY <1>1, <1>2, <1>3 DEF WithoutEntry, Documents
<1> QED BY <1>4, <1>5 DEF Kept, Shrink

-----------------------------------------------------------------------------
(* The initial states satisfy the invariant, and every step keeps it.      *)

LEMMA InitInv ==
  Init => IInv
<1> SUFFICES ASSUME Init PROVE IInv
  OBVIOUS
<1> USE HealthchecksAssumption
<1>1. HandMade \in Ids /\ HandMade \in 1 .. MaxId
  BY DEF HandMade, Ids
<1>2. PICK s \in Setups :
        kind = s.kind /\ place = s.place /\ budget = s.budget
  BY DEF Init
<1>3. /\ s = [kind |-> kind, place |-> place, budget |-> budget]
      /\ budget \in [Events -> Nat]
  BY <1>2
<1>4. Stored /\ Around /\ Pending
  BY <1>3, CreatedMine DEF Init, Stored, Around, Pending
<1>5. Left
  BY <1>3 DEF Init, Left
<1>6. NoDocument \in Documents
  BY DEF NoDocument, Documents
<1>7. NoSync \in {s0 \in [id: 0 .. MaxId, gen: 0 .. MaxGen] : s0.id # HandMade}
  BY DEF NoSync, HandMade
<1>8. Running
  BY <1>6, <1>7, CreatedMine DEF Init, Running, Labels
<1>9. Kept
  BY <1>1, <1>6 DEF Init, Kept, Documents
<1> QED BY <1>4, <1>5, <1>8, <1>9 DEF IInv

LEMMA FetchInv ==
  ASSUME IInv, NEW c \in Checks, Fetch(c)
  PROVE  IInv'
<1> USE DEF IInv
<1>1. Stored' /\ Around' /\ Pending' /\ Kept'
  BY DEF Fetch, fixed, server, Stored, Around, Pending, Kept
<1>2. CASE UNCHANGED <<obj, behind, left, pc>>
  BY <1>1, <1>2 DEF Fetch, Running, Left
<1>3. CASE ReadCache(c) /\ Goto(c, "fetched")
  <2>1. UNCHANGED <<got, sync>>
    BY DEF Fetch
  <2> QED BY <1>1, <1>3, <2>1, ReadRunning DEF Labels
<1> QED BY <1>2, <1>3 DEF Fetch

(* Steps that write the resource, or not, and return.                      *)
LEMMA ReturnInv ==
  ASSUME IInv, NEW c \in Checks, NEW again, Return(c, again),
         Stored', Left', Kept', UNCHANGED around
  PROVE  IInv'
BY ReturnRunning DEF IInv, around, fixed, Around

(* Steps that go on and leave the resource alone.                          *)
LEMMA GoOnInv ==
  ASSUME IInv, Running', Left', Kept', UNCHANGED <<cr, stale, timers, around>>
  PROVE  IInv'
BY DEF IInv, around, fixed, Stored, Around, Pending

LEMMA ObjMine ==
  ASSUME IInv, NEW c \in Checks
  PROVE  obj[c] \in Mine
BY DEF IInv, Running

LEMMA ConditionsInv ==
  ASSUME IInv, NEW c \in Checks,
         \/ AddFinalizer(c) \/ SkipPaused(c) \/ ResolveFails(c)
         \/ DriftCheckFails(c) \/ SkipSynced(c) \/ GetFails(c)
         \/ DeleteUnresolved(c) \/ Release(c)
  PROVE  IInv'
<1> USE ObjMine, EditsMine
<1>1. Stored'
  BY WriteStored, ReportStored
  DEF IInv, AddFinalizer, SkipPaused, ResolveFails, DriftCheckFails,
      SkipSynced, GetFails, DeleteUnresolved, Release, Stored
<1>2. Left'
  BY SpendLeft
  DEF IInv, AddFinalizer, SkipPaused, ResolveFails, DriftCheckFails,
      SkipSynced, GetFails, DeleteUnresolved, Release, Left, Events
<1>3. UNCHANGED around /\ UNCHANGED server
  BY DEF AddFinalizer, SkipPaused, ResolveFails, DriftCheckFails,
      SkipSynced, GetFails, DeleteUnresolved, Release
<1>4. Kept'
  BY <1>3 DEF IInv, Kept, server
<1>5. \E again : Return(c, again)
  BY DEF AddFinalizer, SkipPaused, ResolveFails, DriftCheckFails,
      SkipSynced, GetFails, DeleteUnresolved, Release
<1> QED BY <1>1, <1>2, <1>3, <1>4, <1>5, ReturnInv

LEMMA DriftInv ==
  ASSUME IInv, NEW c \in Checks, DriftDetected(c) \/ ForgetId(c)
  PROVE  IInv'
<1>1. CASE DriftDetected(c)
  <2>1. Running'
    BY <1>1, GotoRunning DEF IInv, DriftDetected, Labels
  <2> QED BY <1>1, <2>1, GoOnInv DEF DriftDetected, IInv, Left, Kept, server
<1>2. CASE ForgetId(c)
  <2>1. Forgotten(obj[c]) \in Mine
    BY ObjMine, EditsMine
  <2>2. Stored'
    BY <1>2, <2>1, WriteStored DEF ForgetId, IInv
  <2>3. Left' /\ Kept' /\ UNCHANGED around
    BY <1>2 DEF ForgetId, IInv, Left, Kept, server
  <2>4. CASE c \in behind
    BY <1>2, <2>2, <2>3, <2>4, ReturnInv DEF ForgetId
  <2>5. CASE c \notin behind
    <3>1. /\ Goto(c, "get") /\ obj' = [obj EXCEPT ![c] = Forgotten(obj[c])]
          /\ UNCHANGED <<behind, got, sync, timers>>
      BY <1>2, <2>5 DEF ForgetId, IInv, Running
    <3>2. Running'
      BY <2>1, <3>1, GotoRunning DEF IInv, Labels
    <3> QED BY <2>2, <2>3, <3>1, <3>2
            DEF IInv, Pending, Around, around, fixed
  <2> QED BY <2>4, <2>5
<1> QED BY <1>1, <1>2

LEMMA GetInv ==
  ASSUME IInv, NEW c \in Checks, GetAll(c) \/ GetToDelete(c)
  PROVE  IInv'
<1>1. Left' /\ Kept' /\ UNCHANGED <<cr, stale, timers, around>>
  BY DEF GetAll, GetToDelete, IInv, Left, Kept, server
<1>0. At(c, obj[c]) \in Clusters
  BY Placed, ObjMine DEF IInv
<1>2. CASE GetAll(c)
  BY <1>0, <1>1, <1>2, GetRunning, GoOnInv DEF GetAll, IInv, Labels
<1>3. CASE GetToDelete(c)
  <2>1. \/ Goto(c, "release") /\ got' = got
        \/ /\ Goto(c, "remove")
           /\ got' = [got EXCEPT ![c] = doc[At(c, obj[c])]]
    BY <1>3 DEF GetToDelete
  <2>2. UNCHANGED <<obj, behind, sync>>
    BY <1>3 DEF GetToDelete
  <2>3. Running'
    BY <1>0, <2>1, <2>2, GetRunning, GotoRunning DEF IInv, Labels
  <2> QED BY <1>1, <2>3, GoOnInv
<1> QED BY <1>2, <1>3

LEMMA PutInv ==
  ASSUME IInv, NEW c \in Checks, PutAll(c)
  PROVE  IInv'
<1> USE HealthchecksAssumption
<1>1. Left' /\ UNCHANGED <<cr, stale, timers, around>>
  BY DEF PutAll, IInv, Left
<1>2. /\ Kept'
      /\ [id |-> EntryId(obj[c]), gen |-> obj[c].gen]
           \in {s \in [id: 0 .. MaxId, gen: 0 .. MaxGen] : s.id # HandMade}
  BY ReplaceKept DEF PutAll, IInv
<1>3. NoDocument \in Documents
  BY DEF NoDocument, Documents
<1>4. Running'
  BY <1>2, <1>3 DEF PutAll, IInv, Running, Goto, Labels
<1> QED BY <1>1, <1>2, <1>4, GoOnInv

LEMMA RecordInv ==
  ASSUME IInv, NEW c \in Checks, Refetch(c) \/ Record(c)
  PROVE  IInv'
<1>1. CASE Refetch(c)
  <2>1. Running' /\ Left'
    BY <1>1, ReadRunning DEF Refetch, IInv, Labels
  <2> QED BY <1>1, <2>1, GoOnInv DEF Refetch, IInv, Kept, server
<1>2. CASE Record(c)
  <2>1. /\ sync[c] \in [id: 0 .. MaxId, gen: 0 .. MaxGen]
        /\ sync[c].id # HandMade
    BY DEF IInv, Running
  <2>2. Synced(obj[c], sync[c]) \in Mine
    BY <2>1, ObjMine, SyncedMine
  <2>3. Stored'
    BY <1>2, <2>2, WriteStored DEF Record, IInv
  <2> QED BY <1>2, <2>3, ReturnInv DEF Record, IInv, Left, Kept, server
<1> QED BY <1>1, <1>2

LEMMA RemoveInv ==
  ASSUME IInv, NEW c \in Checks, RemoveEntry(c)
  PROVE  IInv'
<1>1. Running'
  BY GotoRunning DEF RemoveEntry, IInv, Labels
<1>2. Kept'
  BY WithoutEntryKept DEF RemoveEntry, IInv
<1> QED BY <1>1, <1>2, GoOnInv DEF RemoveEntry, IInv, Left

LEMMA FailuresInv ==
  ASSUME IInv, NEW c \in Checks, NEW k \in {"server", "other"},
         PutFails(c, k) \/ GetToDeleteFails(c, k) \/ RemoveFails(c, k)
  PROVE  IInv'
<1>1. Left' /\ UNCHANGED around
  BY SpendLeft DEF PutFails, GetToDeleteFails, RemoveFails, IInv, Events
<1>2. CASE PutFails(c, k)
  <2>1. Stored'
    BY <1>2, ObjMine, EditsMine, ReportStored DEF PutFails, IInv
  <2>2. Kept'
    BY <1>2, ReplaceKept DEF PutFails, IInv, Kept, server
  <2> QED BY <1>1, <1>2, <2>1, <2>2, ReturnInv DEF PutFails
<1>3. CASE GetToDeleteFails(c, k)
  <2>1. Stored' /\ Kept'
    BY <1>3 DEF GetToDeleteFails, IInv, Stored, Kept, server
  <2>2. CASE Return(c, TRUE)
    BY <1>1, <2>1, <2>2, ReturnInv
  <2>3. CASE Goto(c, "release") /\ UNCHANGED <<timers, obj, behind, got, sync>>
    <3>1. Running'
      BY <2>3, GotoRunning DEF IInv, Labels
    <3> QED BY <1>1, <1>3, <2>1, <2>3, <3>1, GoOnInv DEF GetToDeleteFails
  <2> QED BY <1>3, <2>2, <2>3 DEF GetToDeleteFails
<1>4. CASE RemoveFails(c, k)
  <2>1. Stored'
    BY <1>4 DEF RemoveFails, IInv, Stored
  <2>2. Kept'
    BY <1>4, WithoutEntryKept DEF RemoveFails, IInv
  <2>3. CASE k = "server"
    BY <1>1, <1>4, <2>1, <2>2, <2>3, ReturnInv DEF RemoveFails
  <2>4. CASE k # "server"
    <3>1. /\ Goto(c, "release") /\ got' = [got EXCEPT ![c] = NoDocument]
          /\ UNCHANGED <<timers, obj, behind, sync>>
      BY <1>4, <2>4 DEF RemoveFails
    <3>2. Running'
      BY <3>1, GotoRunning DEF IInv, Labels
    <3> QED BY <1>1, <1>4, <2>2, <3>1, <3>2, GoOnInv DEF RemoveFails
  <2> QED BY <2>3, <2>4
<1> QED BY <1>2, <1>3, <1>4

(* Users, the watch, timers.                                               *)
LEMMA OverwriteInv ==
  ASSUME IInv, Left', NEW c \in Checks, NEW new \in Mine, Overwrite(c, new)
  PROVE  IInv'
<1>1. Stored' /\ Pending' /\ UNCHANGED around
  BY DEF IInv, Overwrite, Stored, Pending
<1>2. Running' /\ Kept'
  BY DEF IInv, Overwrite, Running, Kept, server
<1> QED BY <1>1, <1>2 DEF IInv, Around, around, fixed

LEMMA UserInv ==
  ASSUME IInv, NEW c \in Checks, UserEdits(c) \/ UserDeletes(c)
  PROVE  IInv'
<1>1. cr[c] \in Mine
  BY DEF IInv, Stored
<1>2. Left'
  BY SpendLeft DEF UserEdits, UserDeletes, IInv, Events
<1>3. \E new \in Mine : Overwrite(c, new)
  BY <1>1, EditsMine DEF UserEdits, UserDeletes
<1> QED BY <1>2, <1>3, OverwriteInv

LEMMA QueueInv ==
  ASSUME IInv, NEW c \in Checks, WatchDelivers(c) \/ TimerFires(c)
  PROVE  IInv'
<1>1. Stored' /\ Around' /\ Pending'
  BY DEF WatchDelivers, TimerFires, IInv, Stored, Around, Pending, fixed
<1>2. Running' /\ Kept' /\ Left'
  BY DEF WatchDelivers, TimerFires, IInv, Running, Kept, Left, local, server
<1> QED BY <1>1, <1>2 DEF IInv

LEMMA CrashInv ==
  ASSUME IInv, Crash
  PROVE  IInv'
<1> USE HealthchecksAssumption
<1>1. NoDocument \in Documents
  BY DEF NoDocument, Documents
<1>2. NoSync \in {s \in [id: 0 .. MaxId, gen: 0 .. MaxGen] : s.id # HandMade}
  BY DEF NoSync, HandMade
<1>3. Running'
  BY <1>1, <1>2, CreatedMine DEF Crash, Running, Labels
<1>4. Stored' /\ Around' /\ Pending' /\ Kept'
  BY DEF Crash, IInv, Stored, Around, Pending, Kept, fixed, server
<1>5. Left'
  BY SpendLeft DEF Crash, IInv, Events
<1> QED BY <1>3, <1>4, <1>5 DEF IInv

LEMMA ConnInv ==
  ASSUME IInv, ConnChanges
  PROVE  IInv'
<1>1. Stored' /\ Around' /\ Pending' /\ Running' /\ Kept'
  BY DEF ConnChanges, IInv, Stored, Around, Pending, Running, Kept, fixed,
         local, server
<1>2. Left'
  BY SpendLeft DEF ConnChanges, IInv, Events
<1> QED BY <1>1, <1>2 DEF IInv

LEMMA ExternalInv ==
  ASSUME IInv, ExternalDelete
  PROVE  IInv'
<1>1. Kept'
  BY HealthchecksAssumption DEF ExternalDelete, IInv, Kept, Documents, Ids
<1>2. Stored' /\ Around' /\ Pending' /\ Running'
  BY DEF ExternalDelete, IInv, Stored, Around, Pending, Running, fixed, local
<1>3. Left'
  BY SpendLeft DEF ExternalDelete, IInv, Events
<1> QED BY <1>1, <1>2, <1>3 DEF IInv

LEMMA StutterInv ==
  ASSUME IInv, UNCHANGED vars
  PROVE  IInv'
BY DEF IInv, vars, local, server, around, fixed, Stored, Around, Pending, Left,
       Running, Kept

LEMMA ReconcileInv ==
  ASSUME IInv, NEW c \in Checks, Reconcile(c)
  PROVE  IInv'
BY ConditionsInv, DriftInv, GetInv, PutInv, RecordInv, RemoveInv, FailuresInv
DEF Reconcile, Admit, CheckDrift, Push, HandleDeletion

LEMMA Preserved ==
  ASSUME IInv, [Next]_vars
  PROVE  IInv'
<1>1. CASE UNCHANGED vars
  BY <1>1, StutterInv
<1>2. ASSUME NEW c \in Checks,
             Fetch(c) \/ Reconcile(c) \/ UserEdits(c) \/ UserDeletes(c)
               \/ WatchDelivers(c) \/ TimerFires(c)
      PROVE  IInv'
  BY <1>2, FetchInv, ReconcileInv, UserInv, QueueInv
<1>3. CASE Crash \/ ConnChanges \/ ExternalDelete
  BY <1>3, CrashInv, ConnInv, ExternalInv
<1> QED BY <1>1, <1>2, <1>3 DEF Next

(* The invariant of the healthcheck controllers.                           *)
THEOREM Inductive == Spec => []IInv
BY InitInv, Preserved, PTL DEF Spec

(* Type correctness: every variable keeps the type TypeOK gives it, through *)
(* every handler of the three healthcheck controllers.                     *)
THEOREM TypeCorrect == Spec => []TypeOK
<1>1. IInv => TypeOK
  <2> SUFFICES ASSUME IInv PROVE TypeOK
    OBVIOUS
  <2>1. Mine \subseteq Object
    BY DEF Mine
  <2>2. /\ cr \in [Checks -> Object] /\ cache \in [Checks -> Object]
        /\ obj \in [Checks -> Object]
    BY <2>1 DEF IInv, Stored, Around, Running
  <2>3. sync \in [Checks -> [id: 0 .. MaxId, gen: 0 .. MaxGen]]
    BY DEF IInv, Running
  <2>4. minted \in 0 .. MaxId
    BY HealthchecksAssumption DEF IInv, Kept
  <2> QED BY <2>2, <2>3, <2>4
          DEF IInv, Stored, Around, Pending, Left, Running, Kept, TypeOK,
              Labels
<1> QED BY <1>1, Inductive, PTL

(* The entry no resource owns is never lost, however many controllers GET  *)
(* and PUT the document at the same time: every PUT is made from a GET, so *)
(* it carries the entry, and ids in the hands of controllers are not its.  *)
THEOREM HandMadeStays == Spec => []HandMadeKept
<1>1. IInv => HandMadeKept
  BY DEF IInv, Kept, HandMadeKept
<1> QED BY <1>1, Inductive, PTL

-----------------------------------------------------------------------------
(***************************************************************************)
(* The properties of a document with one controller.  Beyond IInv they     *)
(* rest on how old the copies of a resource are (Copies), who holds its    *)
(* finalizer (Hold), the order in which generations are read, pushed and   *)
(* recorded (Order), who knows which id (SameId, Separate), and on what a  *)
(* single worker may rely on: what it fetched is what is there, but for    *)
(* what the console deletes (Fetched, Backed, Outcome).                    *)
(***************************************************************************)
Pushing == {"drifted", "get", "put", "refetch", "record"}
Writing == {"put", "remove"}
Told == {"refetch", "record"}

Copies(c) ==
  /\ c \notin stale => cache[c] = cr[c]
  /\ pc[c] # "idle" /\ c \notin behind => obj[c] = cr[c]
  /\ cr[c].live => cache[c].live
  /\ cache[c].deleting => cr[c].deleting
  /\ pc[c] # "idle" => obj[c].live /\ (obj[c].deleting => cache[c].deleting)
  /\ sync[c].id # 0 => pc[c] \in Told

Hold(c) ==
  /\ cr[c].finalizer => cr[c].live
  /\ cr[c].live /\ cr[c].deleting => cr[c].finalizer
  /\ cache[c].finalizer /\ ~cache[c].deleting => cr[c].finalizer
  /\ pc[c] # "idle" /\ obj[c].finalizer /\ ~obj[c].deleting =>
       cr[c].finalizer
  /\ pc[c] \in {"remove", "release"} => obj[c].deleting
  /\ pc[c] \in Pushing => cr[c].finalizer
  /\ cr[c].live /\ cr[c].status.id # 0 => cr[c].finalizer

Order(c) ==
  /\ cache[c].gen <= cr[c].gen
  /\ pc[c] # "idle" => obj[c].gen <= cache[c].gen
  /\ cr[c].status.obsGen <= cache[c].gen
  /\ sync[c].gen <= cache[c].gen
  /\ pc[c] \in {"fetched", "drifted", "get", "put"} =>
       cr[c].status.obsGen <= obj[c].gen
  /\ pc[c] \in Told => sync[c].id # 0 /\ sync[c].gen # 0
  /\ pc[c] \in {"drifted", "remove"} => obj[c].status.id # 0

(* Without stale reads the copy in hand has the recorded id, and a PUT     *)
(* uses that id or is the first.                                           *)
SameId(c) ==
  Unspent("lag") =>
    /\ pc[c] # "idle" => obj[c].status.id = cr[c].status.id
    /\ pc[c] \in Told => cr[c].status.id \in {0, sync[c].id}

Budgeted == \A k \in Events : left[k] <= budget[k]

(* The ids some copy of c carries.                                         *)
Knows(c) ==
  {cr[c].status.id, cache[c].status.id, obj[c].status.id, sync[c].id} \ {0}

Separate ==
  /\ \A c \in Checks : \A i \in Knows(c) : i <= minted
  /\ \A c, d \in Checks : c # d => Knows(c) \cap Knows(d) = {}

(* One reconciliation at a time.                                           *)
Serial == \A c, d \in Checks : pc[c] # "idle" /\ pc[d] # "idle" => c = d

(* Document m of cluster t has what the status of d claims of that         *)
(* cluster, or the console took it.                                        *)
Backs(m, t, d) ==
  /\ cr[d].live /\ ~cr[d].deleting /\ cr[d].status.id # 0
  /\ "Ready" \in cr[d].status.conds /\ "Failed" \notin cr[d].status.conds
  /\ place[d][cr[d].status.obsGen] = t
  => \/ m[cr[d].status.id] >= cr[d].status.obsGen
     \/ m[cr[d].status.id] = 0 /\ ~Unspent("external")

(* Document m has nothing newer of d than the spec of d.                   *)
Bounded(m, d) == \A i \in Knows(d) : m[i] <= cr[d].gen

(* Document m has nothing under ids that nobody has.                       *)
Fresh(m) == \A i \in Ids : i > minted => m[i] = 0

Sound(m, t) == Fresh(m) /\ \A d \in Checks : Backs(m, t, d) /\ Bounded(m, d)

(* What c has fetched is sound and still there, but for what the console   *)
(* deletes.                                                                *)
Fetched(c) ==
  pc[c] \in Writing =>
    /\ Sound(got[c], At(c, obj[c]))
    /\ \A i \in Ids :
         LET entry == doc[At(c, obj[c])][i]
         IN  entry = got[c][i] \/ (entry = 0 /\ ~Unspent("external"))

(* What the steps of c have left in the document.                          *)
Outcome(c) ==
  /\ pc[c] \in Told =>
       LET entry == doc[place[c][sync[c].gen]][sync[c].id]
       IN  entry >= sync[c].gen \/ (entry = 0 /\ ~Unspent("external"))
  /\ pc[c] = "drifted" => ~Listed(c, obj[c])
  /\ pc[c] = "release" /\ Unspent("lag") /\ Unspent("other") =>
       cr[c].status.id = 0 \/ doc[At(c, obj[c])][cr[c].status.id] = 0

Each(c) == Copies(c) /\ Hold(c) /\ Order(c) /\ SameId(c)

Alone ==
  /\ Serial
  /\ \A t \in Clusters : Sound(doc[t], t)
  /\ \A c \in Checks : Fetched(c) /\ Outcome(c)

AInv ==
  /\ Budgeted /\ Separate
  /\ \A c \in Checks : Each(c)
  /\ OneController => Alone

-----------------------------------------------------------------------------
(* Shapes and numbers, as the lemmas below use them.                       *)
LEMMA Shapes ==
  ASSUME IInv, NEW c \in Checks
  PROVE  /\ cr[c] \in Mine /\ cache[c] \in Mine /\ obj[c] \in Mine
         /\ pc[c] \in Labels /\ got[c] \in Documents
         /\ doc \in [Clusters -> Documents]
         /\ At(c, obj[c]) \in Clusters /\ At(c, cr[c]) \in Clusters
         /\ sync[c] \in [id: 0 .. MaxId, gen: 0 .. MaxGen]
         /\ cr \in [Checks -> Mine] /\ cache \in [Checks -> Mine]
         /\ obj \in [Checks -> Mine] /\ pc \in [Checks -> Labels]
         /\ got \in [Checks -> Documents]
         /\ sync \in [Checks -> [id: 0 .. MaxId, gen: 0 .. MaxGen]]
<1>1. cr[c] \in Mine /\ obj[c] \in Mine /\ Around
  BY DEF IInv, Stored, Running
<1>2. At(c, obj[c]) \in Clusters /\ At(c, cr[c]) \in Clusters
  BY <1>1, Placed
<1> QED BY <1>2 DEF IInv, Stored, Around, Running, Kept

LEMMA Numbers ==
  ASSUME IInv, NEW c \in Checks
  PROVE  /\ cr[c].gen \in Nat /\ cache[c].gen \in Nat /\ obj[c].gen \in Nat
         /\ obj[c].gen > 0 /\ obj[c].gen <= MaxGen /\ cr[c].gen > 0
         /\ cr[c].status.obsGen \in Nat /\ cache[c].status.obsGen \in Nat
         /\ sync[c].gen \in Nat
         /\ cr[c].status.id \in {0} \cup Ids
         /\ obj[c].status.id \in {0} \cup Ids
         /\ cache[c].status.id \in {0} \cup Ids /\ sync[c].id \in {0} \cup Ids
         /\ 0 \notin Ids
         /\ \A i \in Ids : got[c][i] \in Nat
         /\ \A t \in Clusters, i \in Ids : doc[t][i] \in Nat
         /\ sync[c].gen # 0 => place[c][sync[c].gen] \in Clusters
<1>1. /\ cr[c] \in Mine /\ cache[c] \in Mine /\ obj[c] \in Mine
      /\ sync[c] \in [id: 0 .. MaxId, gen: 0 .. MaxGen]
  BY Shapes
<1>2. /\ \A i \in Ids : got[c][i] \in Nat
      /\ \A t \in Clusters, i \in Ids : doc[t][i] \in Nat
  BY Shapes DEF Documents
<1>4. sync[c].gen # 0 => place[c][sync[c].gen] \in Clusters
  BY <1>1, Placed, HealthchecksAssumption DEF IInv
<1>3. 0 .. MaxId = {0} \cup Ids /\ 0 \notin Ids
  BY HealthchecksAssumption DEF Ids
<1>7. /\ cr[c].gen \in 1 .. MaxGen /\ cache[c].gen \in 1 .. MaxGen
      /\ obj[c].gen \in 1 .. MaxGen /\ sync[c].gen \in 0 .. MaxGen
      /\ cr[c].status.obsGen \in 0 .. MaxGen
      /\ cache[c].status.obsGen \in 0 .. MaxGen
  BY <1>1 DEF Mine, Object, Status
<1>5. /\ cr[c].gen \in Nat /\ cache[c].gen \in Nat /\ obj[c].gen \in Nat
      /\ obj[c].gen > 0 /\ obj[c].gen <= MaxGen /\ cr[c].gen > 0
      /\ cr[c].status.obsGen \in Nat /\ cache[c].status.obsGen \in Nat
      /\ sync[c].gen \in Nat
  BY <1>7, HealthchecksAssumption
<1>6. /\ cr[c].status.id \in 0 .. MaxId /\ obj[c].status.id \in 0 .. MaxId
      /\ cache[c].status.id \in 0 .. MaxId /\ sync[c].id \in 0 .. MaxId
  BY <1>1 DEF Mine, Object, Status
<1> QED BY <1>2, <1>3, <1>4, <1>5, <1>6

(* What reports and the four other updates leave of a resource.            *)
LEMMA ReportFields ==
  ASSUME NEW o \in Mine, NEW n \in {Paused(o), Failing(o)}
  PROVE  /\ n.live = o.live /\ n.gen = o.gen /\ n.finalizer = o.finalizer
         /\ n.deleting = o.deleting /\ n.status.id = o.status.id
         /\ \/ /\ n.status.obsGen = o.status.obsGen
               /\ "Ready" \in n.status.conds <=> "Ready" \in o.status.conds
               /\ "Failed" \in n.status.conds <=> "Failed" \in o.status.conds
            \/ "Failed" \in n.status.conds /\ n.status.obsGen = o.gen
BY DEF Paused, Failing, Mine, Object, Status

LEMMA UpdateFields ==
  ASSUME NEW o \in Mine, NEW s \in [id: 0 .. MaxId, gen: 0 .. MaxGen]
  PROVE  /\ Guarded(o).live = o.live /\ Guarded(o).gen = o.gen
         /\ Guarded(o).finalizer /\ Guarded(o).deleting = o.deleting
         /\ Guarded(o).status = o.status
         /\ Forgotten(o).live = o.live /\ Forgotten(o).gen = o.gen
         /\ Forgotten(o).finalizer = o.finalizer
         /\ Forgotten(o).deleting = o.deleting
         /\ Forgotten(o).status.id = 0
         /\ Forgotten(o).status.obsGen = o.status.obsGen
         /\ Synced(o, s).live = o.live /\ Synced(o, s).gen = o.gen
         /\ Synced(o, s).finalizer = o.finalizer
         /\ Synced(o, s).deleting = o.deleting
         /\ Synced(o, s).status.id = s.id
         /\ Synced(o, s).status.obsGen = s.gen
         /\ ~Released(o).live /\ Released(o).gen = o.gen
         /\ ~Released(o).finalizer /\ Released(o).deleting = o.deleting
         /\ Released(o).status = o.status
BY DEF Guarded, Forgotten, Synced, Released, Mine, Object, Status

-----------------------------------------------------------------------------
(* The kinds of steps.  Nothing of d changes:                              *)
Same(d) ==
  /\ cr'[d] = cr[d] /\ cache'[d] = cache[d] /\ obj'[d] = obj[d]
  /\ pc'[d] = pc[d] /\ got'[d] = got[d] /\ sync'[d] = sync[d]
  /\ d \in stale' <=> d \in stale
  /\ d \in behind' <=> d \in behind

Frame(c) == \A d \in Checks \ {c} : Same(d)

(* The pass of c is over.                                                  *)
Returned(c) ==
  /\ obj'[c] = Created /\ c \notin behind' /\ pc'[c] = "idle"
  /\ sync'[c] = NoSync

(* The informer learns of what is written later.                           *)
Noticed(c) == (c \in stale => c \in stale') /\ (cr'[c] # cr[c] => c \in stale')

(* It is over with a report at most.                                       *)
Ends(c) ==
  /\ Frame(c) /\ Returned(c) /\ Noticed(c) /\ cache' = cache
  /\ pc[c] # "idle"
  /\ pc[c] \in Told => pc[c] = "record" /\ c \in behind
  /\ \/ cr' = cr
     \/ c \notin behind /\ cr'[c] \in {Paused(obj[c]), Failing(obj[c])}
  /\ \/ doc' = doc /\ minted' = minted
     \/ /\ pc[c] = "put" /\ Replace(c)
        /\ Spend("server") \/ Spend("other")
     \/ pc[c] = "remove" /\ Shrink(c) /\ minted' = minted

(* It goes on with the copy in hand.                                       *)
Hops(c) ==
  \/ /\ CheckingDrift(c) /\ ~Listed(c, obj[c])
     /\ pc'[c] = "drifted" /\ UNCHANGED <<sync, doc, minted>>
  \/ /\ Getting(c)
     /\ pc'[c] = "put" /\ got'[c] = doc[At(c, obj[c])]
     /\ UNCHANGED <<sync, doc, minted>>
  \/ /\ pc[c] = "put" /\ Replace(c)
     /\ sync'[c] = [id |-> EntryId(obj[c]), gen |-> obj[c].gen]
     /\ pc'[c] = "refetch"
  \/ /\ Deleting(c) /\ obj[c].status.id # 0
     /\ pc'[c] = "remove" /\ got'[c] = doc[At(c, obj[c])]
     /\ UNCHANGED <<sync, doc, minted>>
  \/ /\ Deleting(c) /\ (obj[c].status.id = 0 \/ Spend("other"))
     /\ pc'[c] = "release" /\ UNCHANGED <<sync, doc, minted>>
  \/ /\ pc[c] = "remove"
     /\ Shrink(c) \/ (doc' = doc /\ Spend("other"))
     /\ pc'[c] = "release" /\ UNCHANGED <<sync, minted>>

Goes(c) ==
  /\ Frame(c) /\ Hops(c) /\ pc[c] # "idle"
  /\ UNCHANGED <<cr, cache, stale, obj, behind>>

(* It changes the resource for good, the copy in hand being the newest.    *)
Sets(c) ==
  /\ Frame(c) /\ Noticed(c) /\ c \notin behind
  /\ UNCHANGED <<cache, doc, minted>>
  /\ \/ /\ pc[c] = "fetched" /\ ~obj[c].deleting /\ Returned(c)
        /\ cr'[c] = Guarded(obj[c])
     \/ /\ pc[c] = "record" /\ Returned(c) /\ cr'[c] = Synced(obj[c], sync[c])
     \/ /\ pc[c] = "release" /\ Returned(c) /\ cr'[c] = Released(obj[c])
     \/ /\ pc[c] = "drifted" /\ cr'[c] = Forgotten(obj[c])
        /\ obj'[c] = Forgotten(obj[c]) /\ c \notin behind'
        /\ pc'[c] = "get" /\ sync'[c] = sync[c]

(* The copy in hand is read.                                               *)
Reads(c) ==
  /\ Frame(c) /\ UNCHANGED <<cr, cache, stale, sync, doc, minted>>
  /\ obj'[c] = cache[c]
  /\ c \in behind' <=> c \in stale
  /\ c \in stale => Spend("lag")
  /\ \/ /\ pc[c] = "idle" /\ pc'[c] = "fetched" /\ cache[c].live
        /\ cache[c].deleting => cache[c].finalizer
        /\ \A d \in Checks : kind[d] = kind[c] => pc[d] = "idle"
     \/ pc[c] = "refetch" /\ pc'[c] = "record"

(* The user acts on the resource.                                          *)
Wishes(c) ==
  /\ Frame(c) /\ UNCHANGED <<cache, obj, pc, got, sync, doc, minted>>
  /\ c \in stale' /\ (pc[c] # "idle" => c \in behind')
  /\ cr[c].live
  /\ \/ cr[c].gen < MaxGen /\ cr'[c] = [cr[c] EXCEPT !.gen = @ + 1]
     \/ cr[c].finalizer /\ cr'[c] = [cr[c] EXCEPT !.deleting = TRUE]
     \/ ~cr[c].finalizer /\ cr'[c] = [cr[c] EXCEPT !.live = FALSE]

(* The informer catches up.                                                *)
Delivers(c) ==
  /\ Frame(c) /\ UNCHANGED <<cr, obj, pc, got, sync, doc, minted, behind>>
  /\ cache'[c] = cr[c] /\ c \notin stale'

(* An entry is deleted by hand.                                            *)
Cleaned ==
  /\ Spend("external")
  /\ \E t \in Clusters, i \in Ids : doc' = [doc EXCEPT ![t][i] = 0]

(* Something else happens.                                                 *)
Elsewhere ==
  /\ UNCHANGED <<cr, cache, obj, pc, got, sync, minted, stale, behind>>
  /\ doc' = doc \/ Cleaned

Acts(c) ==
  Ends(c) \/ Goes(c) \/ Sets(c) \/ Reads(c) \/ Wishes(c) \/ Delivers(c)

LEMMA WriteEffect ==
  ASSUME IInv, NEW c \in Checks, NEW new, NEW sure, Write(c, new, sure)
  PROVE  /\ c \in behind => cr' = cr /\ stale' = stale
         /\ c \notin behind => cr'[c] = new
         /\ \A d \in Checks \ {c} :
              cr'[d] = cr[d] /\ (d \in stale' <=> d \in stale)
         /\ Noticed(c)
<1>1. cr \in [Checks -> Mine]
  BY Shapes
<1> QED BY <1>1 DEF Write, Noticed

LEMMA ReportEffect ==
  ASSUME IInv, NEW c \in Checks, NEW new, Report(c, new)
  PROVE  /\ c \in behind => cr' = cr /\ stale' = stale
         /\ c \notin behind => cr'[c] = new
         /\ \A d \in Checks \ {c} :
              cr'[d] = cr[d] /\ (d \in stale' <=> d \in stale)
         /\ Noticed(c)
BY WriteEffect DEF Report

LEMMA ReturnEffect ==
  ASSUME IInv, NEW c \in Checks, NEW again, Return(c, again)
  PROVE  /\ Returned(c)
         /\ \A d \in Checks \ {c} :
              /\ obj'[d] = obj[d] /\ pc'[d] = pc[d] /\ got'[d] = got[d]
              /\ sync'[d] = sync[d] /\ (d \in behind' <=> d \in behind)
<1>1. /\ obj \in [Checks -> Mine] /\ pc \in [Checks -> Labels]
      /\ got \in [Checks -> Documents]
      /\ sync \in [Checks -> [id: 0 .. MaxId, gen: 0 .. MaxGen]]
  BY Shapes
<1> QED BY <1>1 DEF Return, Returned

(* Passes that end.                                                        *)
LEMMA EndKinds ==
  ASSUME IInv, NEW c \in Checks,
         \/ SkipPaused(c) \/ ResolveFails(c) \/ DriftCheckFails(c)
         \/ SkipSynced(c) \/ GetFails(c) \/ DeleteUnresolved(c)
         \/ \E k \in {"server", "other"} : PutFails(c, k)
         \/ \E k \in {"server", "other"} :
              GetToDeleteFails(c, k) /\ Return(c, TRUE)
         \/ RemoveFails(c, "server")
         \/ c \in behind /\ (AddFinalizer(c) \/ ForgetId(c) \/ Record(c)
                               \/ Release(c))
  PROVE  Ends(c)
<1> USE DEF Ends, Frame, Same, Told, around, server
<1>1. CASE SkipPaused(c)
  BY <1>1, WriteEffect, ReturnEffect DEF SkipPaused, Syncing
<1>2. CASE ResolveFails(c)
  BY <1>2, ReportEffect, ReturnEffect DEF ResolveFails, Syncing
<1>3. CASE DriftCheckFails(c)
  BY <1>3, ReportEffect, ReturnEffect
     DEF DriftCheckFails, CheckingDrift, Syncing
<1>4. CASE GetFails(c)
  BY <1>4, ReportEffect, ReturnEffect DEF GetFails, Getting, Syncing
<1>5. CASE SkipSynced(c) \/ DeleteUnresolved(c)
  BY <1>5, ReturnEffect
     DEF SkipSynced, DeleteUnresolved, CheckingDrift, Syncing, Deleting,
         Noticed
<1>6. ASSUME NEW k \in {"server", "other"}, PutFails(c, k)
      PROVE  Ends(c)
  BY <1>6, ReportEffect, ReturnEffect DEF PutFails
<1>7. ASSUME NEW k \in {"server", "other"}, GetToDeleteFails(c, k),
             Return(c, TRUE)
      PROVE  Ends(c)
  BY <1>7, ReturnEffect DEF GetToDeleteFails, Deleting, Noticed
<1>8. CASE RemoveFails(c, "server")
  BY <1>8, ReturnEffect DEF RemoveFails, Noticed
<1>9. CASE c \in behind /\ (AddFinalizer(c) \/ ForgetId(c) \/ Record(c)
                               \/ Release(c))
  BY <1>9, WriteEffect, ReturnEffect
     DEF AddFinalizer, ForgetId, Record, Release, Noticed
<1> QED BY <1>1, <1>2, <1>3, <1>4, <1>5, <1>6, <1>7, <1>8, <1>9

(* The four updates made with the newest copy.                             *)
LEMMA SetKinds ==
  ASSUME IInv, NEW c \in Checks, c \notin behind,
         AddFinalizer(c) \/ ForgetId(c) \/ Record(c) \/ Release(c)
  PROVE  Sets(c)
<1> USE DEF Sets, Frame, Same, around, server
<1>1. CASE AddFinalizer(c)
  BY <1>1, WriteEffect, ReturnEffect DEF AddFinalizer
<1>2. CASE Record(c)
  BY <1>2, WriteEffect, ReturnEffect DEF Record
<1>3. CASE Release(c)
  BY <1>3, WriteEffect, ReturnEffect DEF Release
<1>4. CASE ForgetId(c)
  <2>1. obj \in [Checks -> Mine] /\ pc \in [Checks -> Labels]
    BY Shapes
  <2>2. /\ pc' = [pc EXCEPT ![c] = "get"]
        /\ obj' = [obj EXCEPT ![c] = Forgotten(@)]
        /\ UNCHANGED <<behind, got, sync, timers>>
    BY <1>4 DEF ForgetId, Goto
  <2> QED BY <1>4, <2>1, <2>2, WriteEffect DEF ForgetId
<1> QED BY <1>1, <1>2, <1>3, <1>4

(* Passes that go on.                                                      *)
LEMMA GoKinds ==
  ASSUME IInv, NEW c \in Checks,
         \/ DriftDetected(c) \/ GetAll(c) \/ PutAll(c) \/ GetToDelete(c)
         \/ RemoveEntry(c) \/ RemoveFails(c, "other")
         \/ \E k \in {"server", "other"} :
              GetToDeleteFails(c, k) /\ ~Return(c, TRUE)
  PROVE  Goes(c)
<1> USE DEF Goes, Hops, Frame, Same, around, server
<1>1. /\ pc \in [Checks -> Labels] /\ got \in [Checks -> Documents]
      /\ sync \in [Checks -> [id: 0 .. MaxId, gen: 0 .. MaxGen]]
  BY Shapes
<1>2. CASE DriftDetected(c)
  BY <1>1, <1>2 DEF DriftDetected, CheckingDrift, Syncing, Goto
<1>3. CASE GetAll(c)
  BY <1>1, <1>3 DEF GetAll, Getting, Syncing, Goto
<1>4. CASE PutAll(c)
  BY <1>1, <1>4 DEF PutAll, Goto
<1>5. CASE GetToDelete(c)
  BY <1>1, <1>5 DEF GetToDelete, Deleting, Goto
<1>6. CASE RemoveEntry(c)
  BY <1>1, <1>6 DEF RemoveEntry, Goto
<1>7. CASE RemoveFails(c, "other")
  BY <1>1, <1>7 DEF RemoveFails, Goto
<1>8. ASSUME NEW k \in {"server", "other"}, GetToDeleteFails(c, k),
             ~Return(c, TRUE)
      PROVE  Goes(c)
  BY <1>1, <1>8 DEF GetToDeleteFails, Deleting, Goto
<1> QED BY <1>2, <1>3, <1>4, <1>5, <1>6, <1>7, <1>8

LEMMA ReadKinds ==
  ASSUME IInv, NEW c \in Checks, Fetch(c) \/ Refetch(c)
  PROVE  Reads(c) \/ Elsewhere
<1>1. obj \in [Checks -> Mine] /\ pc \in [Checks -> Labels]
  BY Shapes
<1>2. CASE Fetch(c) /\ UNCHANGED <<obj, behind, left, pc>>
  BY <1>2 DEF Fetch, Elsewhere, server
<1>3. CASE Fetch(c) /\ ReadCache(c) /\ Goto(c, "fetched")
  BY <1>1, <1>3
     DEF Fetch, ReadCache, Goto, Reads, Frame, Same, server, fixed
<1>4. CASE Refetch(c)
  BY <1>1, <1>4
     DEF Refetch, ReadCache, Goto, Reads, Frame, Same, server, around
<1> QED BY <1>2, <1>3, <1>4 DEF Fetch

LEMMA WishKinds ==
  ASSUME IInv, NEW c \in Checks, UserEdits(c) \/ UserDeletes(c)
  PROVE  Wishes(c)
<1>1. cr \in [Checks -> Mine]
  BY Shapes
<1> QED BY <1>1
        DEF UserEdits, UserDeletes, Overwrite, Wishes, Frame, Same, around,
            server

LEMMA OtherKinds ==
  ASSUME IInv,
         \/ ConnChanges \/ ExternalDelete \/ UNCHANGED vars
         \/ \E c \in Checks : TimerFires(c)
  PROVE  Elsewhere
<1> USE DEF Elsewhere, local, server
<1>1. CASE ConnChanges
  BY <1>1 DEF ConnChanges
<1>2. CASE ExternalDelete
  BY <1>2 DEF ExternalDelete, Cleaned
<1>3. CASE UNCHANGED vars
  BY <1>3 DEF vars, around
<1>4. ASSUME NEW c \in Checks, TimerFires(c)
      PROVE  Elsewhere
  BY <1>4 DEF TimerFires
<1> QED BY <1>1, <1>2, <1>3, <1>4

LEMMA DeliverKinds ==
  ASSUME IInv, NEW c \in Checks, WatchDelivers(c)
  PROVE  Delivers(c)
<1>1. cache \in [Checks -> Mine]
  BY Shapes
<1> QED BY <1>1 DEF WatchDelivers, Delivers, Frame, Same, local, server

LEMMA Kinds ==
  ASSUME IInv, [Next]_vars
  PROVE  Elsewhere \/ Crash \/ \E c \in Checks : Acts(c)
<1>1. ASSUME NEW c \in Checks, Reconcile(c)
      PROVE  Acts(c) \/ Elsewhere
  <2>1. CASE Admit(c)
    BY <1>1, <2>1, EndKinds, SetKinds DEF Admit, Acts
  <2>2. CASE CheckDrift(c)
    BY <2>2, EndKinds, SetKinds, GoKinds DEF CheckDrift, Acts
  <2>3. CASE Push(c)
    <3>1. CASE GetAll(c) \/ PutAll(c)
      BY <3>1, GoKinds DEF Acts
    <3>2. CASE GetFails(c) \/ \E k \in {"server", "other"} : PutFails(c, k)
      BY <3>2, EndKinds DEF Acts
    <3>3. CASE Refetch(c)
      BY <3>3, ReadKinds DEF Acts
    <3>4. CASE Record(c)
      BY <3>4, EndKinds, SetKinds DEF Acts
    <3> QED BY <2>3, <3>1, <3>2, <3>3, <3>4 DEF Push
  <2>4. CASE HandleDeletion(c)
    <3>1. CASE DeleteUnresolved(c)
      BY <3>1, EndKinds DEF Acts
    <3>2. CASE GetToDelete(c) \/ RemoveEntry(c)
      BY <3>2, GoKinds DEF Acts
    <3>3. CASE Release(c)
      BY <3>3, EndKinds, SetKinds DEF Acts
    <3>4. ASSUME NEW k \in {"server", "other"},
                 GetToDeleteFails(c, k) \/ RemoveFails(c, k)
          PROVE  Acts(c)
      BY <3>4, EndKinds, GoKinds DEF Acts
    <3> QED BY <2>4, <3>1, <3>2, <3>3, <3>4 DEF HandleDeletion
  <2> QED BY <1>1, <2>1, <2>2, <2>3, <2>4 DEF Reconcile
<1>2. ASSUME NEW c \in Checks, Fetch(c)
      PROVE  Acts(c) \/ Elsewhere
  BY <1>2, ReadKinds DEF Acts
<1>3. ASSUME NEW c \in Checks, UserEdits(c) \/ UserDeletes(c)
      PROVE  Acts(c)
  BY <1>3, WishKinds DEF Acts
<1>4. ASSUME NEW c \in Checks, WatchDelivers(c)
      PROVE  Acts(c)
  BY <1>4, DeliverKinds DEF Acts
<1> QED BY <1>1, <1>2, <1>3, <1>4, OtherKinds DEF Next
(* What is never touched, and that a step spends one event at most.        *)
LEMMA Spends ==
  ASSUME [Next]_vars
  PROVE  /\ UNCHANGED fixed
         /\ left' = left \/ \E k \in Events : Spend(k)
<1> USE DEF around
<1>1. ASSUME NEW c \in Checks, Admit(c)
      PROVE  UNCHANGED fixed /\ left' = left
  BY <1>1 DEF Admit, AddFinalizer, SkipPaused, ResolveFails
<1>2. ASSUME NEW c \in Checks, CheckDrift(c)
      PROVE  UNCHANGED fixed /\ (left' = left \/ \E k \in Events : Spend(k))
  BY <1>2 DEF CheckDrift, DriftCheckFails, SkipSynced, DriftDetected, ForgetId,
              Events
<1>3. ASSUME NEW c \in Checks, Push(c)
      PROVE  UNCHANGED fixed /\ (left' = left \/ \E k \in Events : Spend(k))
  BY <1>3 DEF Push, GetAll, GetFails, PutAll, PutFails, Refetch, ReadCache,
              Record, Events
<1>4. ASSUME NEW c \in Checks, HandleDeletion(c)
      PROVE  UNCHANGED fixed /\ (left' = left \/ \E k \in Events : Spend(k))
  BY <1>4 DEF HandleDeletion, DeleteUnresolved, GetToDelete, GetToDeleteFails,
              RemoveEntry, RemoveFails, Release, Events
<1>5. ASSUME NEW c \in Checks,
             Fetch(c) \/ UserEdits(c) \/ UserDeletes(c) \/ WatchDelivers(c)
               \/ TimerFires(c)
      PROVE  UNCHANGED fixed /\ (left' = left \/ \E k \in Events : Spend(k))
  BY <1>5 DEF Fetch, ReadCache, UserEdits, UserDeletes, Overwrite,
              WatchDelivers, TimerFires, Events
<1>6. CASE Crash \/ ConnChanges \/ ExternalDelete \/ UNCHANGED vars
  BY <1>6 DEF Crash, ConnChanges, ExternalDelete, vars, Events
<1> QED BY <1>1, <1>2, <1>3, <1>4, <1>5, <1>6 DEF Next, Reconcile

LEMMA UnspentStep ==
  ASSUME IInv, Budgeted, [Next]_vars
  PROVE  /\ Budgeted'
         /\ \A k \in Events : Unspent(k)' => Unspent(k) /\ left'[k] = left[k]
         /\ \A k \in Events : Spend(k) => ~Unspent(k)'
<1>1. left \in [Events -> Nat] /\ budget \in [Events -> Nat]
  BY HealthchecksAssumption DEF IInv, Left, Around
<1>2. budget' = budget
  BY Spends DEF fixed
<1>3. CASE left' = left
  BY <1>1, <1>2, <1>3 DEF Budgeted, Unspent, Spend
<1>4. ASSUME NEW k \in Events, Spend(k)
      PROVE  /\ Budgeted'
             /\ \A e \in Events : Unspent(e)' =>
                  Unspent(e) /\ left'[e] = left[e]
             /\ \A e \in Events : Spend(e) => ~Unspent(e)'
  BY <1>1, <1>2, <1>4 DEF Budgeted, Unspent, Spend
<1> QED BY <1>3, <1>4, Spends

-----------------------------------------------------------------------------
(* What is known of one resource outlives every step.                      *)
LEMMA EachSame ==
  ASSUME IInv, Budgeted, [Next]_vars, NEW d \in Checks, Each(d), Same(d)
  PROVE  Each(d)'
<1>1. Unspent("lag")' => Unspent("lag")
  BY UnspentStep DEF Events
<1>2. Copies(d)' /\ Hold(d)' /\ Order(d)'
  BY DEF Each, Same, Copies, Hold, Order
<1>3. SameId(d)'
  BY <1>1 DEF Each, Same, SameId
<1> QED BY <1>2, <1>3 DEF Each

LEMMA EachEnds ==
  ASSUME IInv, NEW c \in Checks, Each(c), Ends(c)
  PROVE  Each(c)'
<1>1. cr' = cr \/ /\ cr'[c] \in {Paused(obj[c]), Failing(obj[c])}
                  /\ obj[c] = cr[c]
  BY DEF Ends, Each, Copies
<1>2. /\ cr'[c].live = cr[c].live /\ cr'[c].gen = cr[c].gen
      /\ cr'[c].finalizer = cr[c].finalizer
      /\ cr'[c].deleting = cr[c].deleting
      /\ cr'[c].status.id = cr[c].status.id
      /\ \/ cr'[c].status.obsGen = cr[c].status.obsGen
         \/ cr'[c].status.obsGen = obj[c].gen
  BY <1>1, Shapes, ReportFields
<1>3. pc'[c] = "idle" /\ sync'[c].id = 0 /\ sync'[c].gen = 0
  BY DEF Ends, Returned, NoSync
<1>4. Copies(c)'
  BY <1>2, <1>3 DEF Each, Copies, Ends, Noticed, Returned
<1>5. Hold(c)'
  BY <1>2, <1>3 DEF Each, Hold, Ends, Pushing
<1>6. Order(c)'
  BY <1>2, <1>3, Numbers DEF Each, Order, Ends, Told
<1>7. SameId(c)'
  BY <1>3 DEF SameId, Told
<1> QED BY <1>4, <1>5, <1>6, <1>7 DEF Each

LEMMA EachGoes ==
  ASSUME IInv, NEW c \in Checks, Each(c), Goes(c),
         Unspent("lag")' => Unspent("lag")
  PROVE  Each(c)'
<1> USE DEF Goes
<1>0. minted \in Nat
  BY DEF IInv, Kept
<1>1. /\ pc'[c] \in Labels \ {"idle", "fetched", "get", "record"}
      /\ pc'[c] \in Pushing => \/ ~obj[c].deleting /\ obj[c].finalizer
                               \/ pc[c] \in Pushing
      /\ pc'[c] \in {"remove", "release"} =>
           obj[c].deleting \/ pc[c] \in {"remove", "release"}
      /\ pc'[c] \in {"drifted", "remove"} => obj[c].status.id # 0
      /\ pc'[c] \in Told =>
           sync'[c] = [id |-> EntryId(obj[c]), gen |-> obj[c].gen]
      /\ pc'[c] \notin Told => sync' = sync /\ pc[c] \notin Told
  BY DEF Hops, CheckingDrift, AlreadySynced, Syncing, Getting, Deleting,
         Pushing, Told, Labels
<1>2. EntryId(obj[c]) # 0
  BY <1>0 DEF EntryId
<1>3. Copies(c)'
  BY <1>1, <1>2 DEF Each, Copies
<1>4. Hold(c)'
  BY <1>1 DEF Each, Hold
<1>5. Order(c)'
  <2>1. pc[c] \in {"fetched", "drifted", "get", "put"}
          \/ pc'[c] \notin {"fetched", "drifted", "get", "put"}
    BY DEF Hops, CheckingDrift, Syncing, Getting
  <2> QED BY <1>1, <1>2, <2>1, Numbers DEF Each, Order
<1>6. SameId(c)'
  BY <1>1 DEF Each, SameId, EntryId
<1> QED BY <1>3, <1>4, <1>5, <1>6 DEF Each

LEMMA EachSets ==
  ASSUME IInv, NEW c \in Checks, Each(c), Sets(c)
  PROVE  Each(c)'
<1> USE DEF Sets
<1>1. pc[c] # "idle" /\ obj[c] = cr[c]
  BY DEF Each, Copies
<1>2. sync[c] \in [id: 0 .. MaxId, gen: 0 .. MaxGen] /\ obj[c] \in Mine
  BY Shapes
<1>3. CASE pc[c] = "drifted"
  <2>1. /\ cr'[c] = Forgotten(obj[c]) /\ obj'[c] = Forgotten(obj[c])
        /\ pc'[c] = "get" /\ sync'[c] = sync[c]
    BY <1>3
  <2>2. Copies(c)' /\ Hold(c)'
    BY <1>1, <1>2, <1>3, <2>1, UpdateFields
    DEF Each, Copies, Hold, Noticed, Pushing, Told
  <2>3. Order(c)' /\ SameId(c)'
    BY <1>1, <1>2, <1>3, <2>1, UpdateFields, Numbers
    DEF Each, Order, SameId, Told
  <2> QED BY <2>2, <2>3 DEF Each
<1>4. CASE pc[c] # "drifted"
  <2>1. Returned(c)
    BY <1>4
  <2>2. pc'[c] = "idle" /\ sync'[c].id = 0 /\ sync'[c].gen = 0
    BY <2>1 DEF Returned, NoSync
  <2>3. \/ /\ cr'[c] = Guarded(cr[c]) /\ ~obj[c].deleting
        \/ pc[c] = "record" /\ cr'[c] = Synced(cr[c], sync[c])
        \/ pc[c] = "release" /\ cr'[c] = Released(cr[c])
    BY <1>1, <1>4
  <2>4. Copies(c)' /\ Hold(c)'
    BY <1>1, <1>2, <2>1, <2>2, <2>3, UpdateFields
    DEF Each, Copies, Hold, Noticed, Pushing, Told, Returned
  <2>5. Order(c)' /\ SameId(c)'
    BY <1>1, <1>2, <2>2, <2>3, UpdateFields, Numbers
    DEF Each, Order, SameId, Told
  <2> QED BY <2>4, <2>5 DEF Each
<1> QED BY <1>3, <1>4

LEMMA EachReads ==
  ASSUME IInv, NEW c \in Checks, Each(c), Reads(c),
         Unspent("lag")' => Unspent("lag") /\ ~Spend("lag")
  PROVE  Each(c)'
<1> USE DEF Reads
<1>1. Copies(c)' /\ Hold(c)'
  BY DEF Each, Copies, Hold, Pushing, Told
<1>2. Order(c)'
  BY Numbers DEF Each, Order, Copies, Told
<1>3. SameId(c)'
  BY DEF Each, Copies, SameId, Told
<1> QED BY <1>1, <1>2, <1>3 DEF Each

LEMMA EachWishes ==
  ASSUME IInv, NEW c \in Checks, Each(c), Wishes(c),
         Unspent("lag")' => Unspent("lag")
  PROVE  Each(c)'
<1>1. /\ cr'[c].finalizer = cr[c].finalizer /\ cr'[c].status = cr[c].status
      /\ cr[c].gen <= cr'[c].gen
      /\ cr'[c].live => cr[c].live
      /\ cr[c].finalizer => cr'[c].live
      /\ cr[c].deleting => cr'[c].deleting
      /\ cr'[c].live /\ cr'[c].deleting => cr[c].deleting \/ cr[c].finalizer
      /\ cr'[c].gen \in Nat
  <2>0. cr[c].live
    BY DEF Wishes
  <2>1. cr[c] \in Object /\ cr[c].gen \in Nat
    BY Shapes, Numbers DEF Mine
  <2>2. CASE cr'[c] = [cr[c] EXCEPT !.gen = @ + 1]
    BY <2>0, <2>1, <2>2 DEF Object
  <2>3. CASE cr[c].finalizer /\ cr'[c] = [cr[c] EXCEPT !.deleting = TRUE]
    <3>1. /\ cr'[c].finalizer = cr[c].finalizer
          /\ cr'[c].status = cr[c].status /\ cr'[c].gen = cr[c].gen
          /\ cr'[c].live = cr[c].live /\ cr'[c].deleting
      BY <2>0, <2>1, <2>3 DEF Object
    <3>2. cr[c].finalizer /\ cr[c].gen <= cr[c].gen
      BY <2>1, <2>3
    <3> QED BY <2>0, <2>1, <3>1, <3>2
  <2>4. CASE ~cr[c].finalizer /\ cr'[c] = [cr[c] EXCEPT !.live = FALSE]
    BY <2>0, <2>1, <2>4 DEF Object
  <2> QED BY <2>2, <2>3, <2>4 DEF Wishes
<1>2. Copies(c)' /\ Hold(c)'
  BY <1>1 DEF Each, Copies, Hold, Wishes
<1>3. Order(c)'
  BY <1>1, Numbers DEF Each, Order, Wishes
<1>4. SameId(c)'
  BY <1>1 DEF Each, SameId, Wishes
<1> QED BY <1>2, <1>3, <1>4 DEF Each

LEMMA EachDelivers ==
  ASSUME IInv, NEW c \in Checks, Each(c), Delivers(c),
         Unspent("lag")' => Unspent("lag")
  PROVE  Each(c)'
<1> USE DEF Delivers
<1>1. Copies(c)' /\ Hold(c)'
  BY DEF Each, Copies, Hold
<1>2. Order(c)' /\ SameId(c)'
  BY Numbers DEF Each, Order, Copies, SameId
<1> QED BY <1>1, <1>2 DEF Each

LEMMA EachCrash ==
  ASSUME IInv, NEW c \in Checks, Each(c), Crash
  PROVE  Each(c)'
<1> USE DEF Crash
<1>1. /\ cr' = cr /\ cache'[c] = cr[c] /\ pc'[c] = "idle"
      /\ sync'[c].id = 0 /\ sync'[c].gen = 0
  BY DEF NoSync
<1>2. Copies(c)' /\ Hold(c)'
  BY <1>1 DEF Each, Copies, Hold, Pushing
<1>3. Order(c)' /\ SameId(c)'
  BY <1>1, Numbers DEF Each, Order, Copies, SameId, Told
<1> QED BY <1>2, <1>3 DEF Each

LEMMA EachStep ==
  ASSUME IInv, AInv, [Next]_vars, NEW d \in Checks
  PROVE  Each(d)'
<1>1. Each(d) /\ Budgeted
  BY DEF AInv
<1>2. Unspent("lag")' => Unspent("lag") /\ ~Spend("lag")
  BY <1>1, UnspentStep DEF Events
<1>3. CASE Elsewhere
  <2>1. Same(d)
    BY <1>3 DEF Elsewhere, Same
  <2> QED BY <1>1, <2>1, EachSame
<1>4. CASE Crash
  BY <1>1, <1>4, EachCrash
<1>5. ASSUME NEW c \in Checks, Acts(c)
      PROVE  Each(d)'
  <2>1. CASE c # d
    <3>1. Frame(c)
      BY <1>5 DEF Acts, Ends, Goes, Sets, Reads, Wishes, Delivers
    <3>2. Same(d)
      BY <2>1, <3>1 DEF Frame
    <3> QED BY <1>1, <3>2, EachSame
  <2>2. CASE c = d
    BY <1>1, <1>2, <1>5, <2>2, EachEnds, EachGoes, EachSets, EachReads,
       EachWishes, EachDelivers DEF Acts
  <2> QED BY <2>1, <2>2
<1> QED BY <1>3, <1>4, <1>5, Kinds

-----------------------------------------------------------------------------
(* Who knows which id: a step makes one new id at most, and only the pass  *)
(* that made it learns of it.                                              *)
Learns(c) ==
  /\ minted' = minted + 1
  /\ Knows(c)' \subseteq Knows(c) \cup {minted'}
  /\ \A d \in Checks \ {c} : Knows(d)' \subseteq Knows(d)

LEMMA KnowsSame ==
  ASSUME NEW d \in Checks, Same(d)
  PROVE  Knows(d)' = Knows(d)
BY DEF Same, Knows

LEMMA KnowsOne ==
  ASSUME IInv, NEW c \in Checks, Each(c), Acts(c)
  PROVE  \/ Knows(c)' \subseteq Knows(c) /\ minted' \in {minted, minted + 1}
         \/ /\ minted' = minted + 1
            /\ Knows(c)' \subseteq Knows(c) \cup {minted'}
<1>1. pc[c] # "idle" /\ c \notin behind => obj[c] = cr[c]
  BY DEF Each, Copies
<1>2. /\ obj[c] \in Mine /\ cr[c] \in Mine
      /\ sync[c] \in [id: 0 .. MaxId, gen: 0 .. MaxGen]
  BY Shapes
<1>3. CASE Ends(c)
  <2>1. cr'[c].status.id = cr[c].status.id
    BY <1>1, <1>2, <1>3, ReportFields DEF Ends
  <2>2. obj'[c].status.id = 0 /\ sync'[c].id = 0
    BY <1>3 DEF Ends, Returned, Created, NoSync
  <2>3. minted' \in {minted, minted + 1}
    BY <1>3 DEF Ends, Replace
  <2> QED BY <1>3, <2>1, <2>2, <2>3 DEF Ends, Knows
<1>4. CASE Goes(c)
  <2>1. CASE UNCHANGED <<sync, minted>>
    BY <1>4, <2>1 DEF Goes, Knows
  <2>2. CASE /\ Replace(c)
             /\ sync'[c] = [id |-> EntryId(obj[c]), gen |-> obj[c].gen]
    <3>1. CASE obj[c].status.id # 0
      BY <1>4, <2>2, <3>1 DEF Goes, Knows, EntryId, Replace
    <3>2. CASE obj[c].status.id = 0
      BY <1>4, <2>2, <3>2 DEF Goes, Knows, EntryId, Replace
    <3> QED BY <3>1, <3>2
  <2> QED BY <1>4, <2>1, <2>2 DEF Goes, Hops
<1>5. CASE Sets(c)
  <2>1. cr'[c].status.id \in {0, cr[c].status.id, sync[c].id}
    BY <1>1, <1>2, <1>5, UpdateFields DEF Sets
  <2>2. /\ obj'[c].status.id \in {0, obj[c].status.id}
        /\ sync'[c].id \in {0, sync[c].id}
    BY <1>2, <1>5, UpdateFields DEF Sets, Returned, Created, NoSync
  <2> QED BY <1>5, <2>1, <2>2 DEF Sets, Knows
<1>6. CASE Reads(c)
  BY <1>6 DEF Reads, Knows
<1>7. CASE Wishes(c)
  <2>1. cr'[c].status = cr[c].status
    BY <1>2, <1>7 DEF Wishes, Mine, Object
  <2> QED BY <1>7, <2>1 DEF Wishes, Knows
<1>8. CASE Delivers(c)
  BY <1>8 DEF Delivers, Knows
<1> QED BY <1>3, <1>4, <1>5, <1>6, <1>7, <1>8 DEF Acts

LEMMA FrameOf ==
  ASSUME NEW c \in Checks, Acts(c)
  PROVE  \A d \in Checks \ {c} : Same(d)
BY DEF Acts, Ends, Goes, Sets, Reads, Wishes, Delivers, Frame

LEMMA KnowsStep ==
  ASSUME IInv, AInv, [Next]_vars
  PROVE  \/ /\ \A d \in Checks : Knows(d)' \subseteq Knows(d)
            /\ minted' \in {minted, minted + 1}
         \/ \E c \in Checks : Learns(c)
<1>1. CASE Elsewhere
  BY <1>1 DEF Elsewhere, Knows
<1>2. CASE Crash
  <2>1. \A d \in Checks : cache'[d] = cr[d] /\ cr'[d] = cr[d]
                          /\ obj'[d].status.id = 0 /\ sync'[d].id = 0
    BY <1>2 DEF Crash, Created, NoSync
  <2> QED BY <1>2, <2>1 DEF Crash, Knows, server
<1>3. ASSUME NEW c \in Checks, Acts(c)
      PROVE  \/ /\ \A d \in Checks : Knows(d)' \subseteq Knows(d)
                /\ minted' \in {minted, minted + 1}
             \/ Learns(c)
  BY <1>3, KnowsOne, KnowsSame, FrameOf DEF Learns, AInv
<1> QED BY <1>1, <1>2, <1>3, Kinds

LEMMA SeparateStep ==
  ASSUME IInv, AInv, [Next]_vars
  PROVE  Separate'
<1>1. minted \in Nat /\ \A d \in Checks : Knows(d) \subseteq Nat
  <2>1. \A d \in Checks : Knows(d) \subseteq Ids
    BY Numbers DEF Knows
  <2> QED BY <2>1 DEF IInv, Kept, Ids
<1>2. Separate
  BY DEF AInv
<1>3. CASE /\ \A d \in Checks : Knows(d)' \subseteq Knows(d)
           /\ minted' \in {minted, minted + 1}
  <2>1. \A d \in Checks : \A i \in Knows(d)' : i <= minted'
    BY <1>1, <1>2, <1>3 DEF Separate
  <2>2. \A d, e \in Checks : d # e => Knows(d)' \cap Knows(e)' = {}
    BY <1>2, <1>3 DEF Separate
  <2> QED BY <2>1, <2>2 DEF Separate
<1>4. ASSUME NEW c \in Checks, Learns(c)
      PROVE  Separate'
  <2>1. \A d \in Checks : \A i \in Knows(d)' : i <= minted'
    BY <1>1, <1>2, <1>4 DEF Separate, Learns
  <2>2. \A d \in Checks : minted + 1 \notin Knows(d)
    BY <1>1, <1>2 DEF Separate
  <2>3. \A d, e \in Checks : d # e => Knows(d)' \cap Knows(e)' = {}
    BY <1>2, <1>4, <2>2 DEF Separate, Learns
  <2> QED BY <2>1, <2>3 DEF Separate
<1> QED BY <1>3, <1>4, KnowsStep

-----------------------------------------------------------------------------
(* One controller.  What the status of d claims of a document changes only *)
(* when its own pass records a PUT.                                        *)
Recording(c) == /\ pc[c] = "record" /\ c \notin behind
                /\ cr'[c] = Synced(obj[c], sync[c])

(* What the status claims is none, or what it was.                         *)
Claims(d) ==
  \/ "Failed" \in cr'[d].status.conds \/ ~cr'[d].live
  \/ cr'[d].status.id = 0
  \/ /\ cr[d].live /\ (cr[d].deleting => cr'[d].deleting)
     /\ cr'[d].status.id = cr[d].status.id
     /\ cr'[d].status.obsGen = cr[d].status.obsGen
     /\ "Ready" \in cr'[d].status.conds <=> "Ready" \in cr[d].status.conds
     /\ "Failed" \in cr'[d].status.conds <=> "Failed" \in cr[d].status.conds

LEMMA ClaimsActs ==
  ASSUME IInv, NEW c \in Checks, Each(c), Acts(c)
  PROVE  /\ Claims(c) \/ (Sets(c) /\ Recording(c) /\ Returned(c))
         /\ cr[c].gen <= cr'[c].gen /\ cr'[c].gen \in Nat
<1>1. pc[c] # "idle" /\ c \notin behind => obj[c] = cr[c]
  BY DEF Each, Copies
<1>2. /\ obj[c] \in Mine /\ cr[c] \in Mine /\ cr[c].gen \in Nat
      /\ sync[c] \in [id: 0 .. MaxId, gen: 0 .. MaxGen]
  BY Shapes, Numbers
<1>3. CASE cr'[c] = cr[c] /\ cr[c].live
  BY <1>2, <1>3 DEF Claims
<1>4. CASE cr'[c] = cr[c] /\ ~cr[c].live
  BY <1>2, <1>4 DEF Claims
<1>5. CASE Ends(c) /\ cr'[c] # cr[c]
  <2>1. PICK n \in {Paused(cr[c]), Failing(cr[c])} : cr'[c] = n
    BY <1>1, <1>5 DEF Ends
  <2> QED BY <1>2, <2>1, ReportFields DEF Claims
<1>6. CASE Sets(c)
  <2>1. obj[c] = cr[c]
    BY <1>1, <1>6 DEF Sets
  <2>2. \/ cr'[c] = Guarded(cr[c])
        \/ Recording(c) /\ cr'[c] = Synced(cr[c], sync[c]) /\ Returned(c)
        \/ cr'[c] = Released(cr[c])
        \/ cr'[c] = Forgotten(cr[c])
    BY <1>6, <2>1 DEF Sets, Recording
  <2>3. CASE cr'[c] = Guarded(cr[c]) \/ cr'[c] = Released(cr[c])
    BY <1>2, <1>4, <2>3, UpdateFields DEF Claims
  <2>4. CASE Recording(c) /\ cr'[c] = Synced(cr[c], sync[c]) /\ Returned(c)
    BY <1>2, <1>6, <2>4, UpdateFields
  <2>5. CASE cr'[c] = Forgotten(cr[c])
    BY <1>2, <2>5, UpdateFields DEF Claims
  <2> QED BY <2>2, <2>3, <2>4, <2>5
<1>7. CASE Wishes(c)
  <2>1. /\ cr'[c].status = cr[c].status /\ cr[c].live
        /\ cr[c].deleting => cr'[c].deleting
    BY <1>2, <1>7 DEF Wishes, Mine, Object
  <2>2. cr'[c].gen \in {cr[c].gen, cr[c].gen + 1}
    BY <1>2, <1>7 DEF Wishes, Mine, Object
  <2> QED BY <1>2, <2>1, <2>2 DEF Claims
<1> QED BY <1>3, <1>4, <1>5, <1>6, <1>7
        DEF Acts, Goes, Reads, Delivers

(* Every resource, in every step.                                          *)
LEMMA ClaimsStep ==
  ASSUME IInv, AInv, [Next]_vars, NEW d \in Checks
  PROVE  /\ \/ Claims(d)
            \/ Sets(d) /\ Recording(d) /\ Returned(d)
         /\ cr[d].gen <= cr'[d].gen /\ cr'[d].gen \in Nat
<1>1. cr[d].gen \in Nat
  BY Numbers
<1>2. CASE cr'[d] = cr[d]
  BY <1>1, <1>2 DEF Claims
<1>3. ASSUME NEW c \in Checks, Acts(c)
      PROVE  \/ cr'[d] = cr[d]
             \/ /\ \/ Claims(d)
                   \/ Sets(d) /\ Recording(d) /\ Returned(d)
                /\ cr[d].gen <= cr'[d].gen /\ cr'[d].gen \in Nat
  BY <1>3, ClaimsActs, FrameOf DEF AInv, Same
<1> QED BY <1>2, <1>3, Kinds DEF Elsewhere, Crash

(* No spec, old or new, moves to another cluster.                          *)
LEMMA PlaceStep ==
  ASSUME [Next]_vars
  PROVE  place' = place
BY Spends DEF fixed

LEMMA MintedStep ==
  ASSUME IInv, AInv, [Next]_vars
  PROVE  minted \in Nat /\ minted' \in {minted, minted + 1}
<1>1. minted \in Nat
  BY DEF IInv, Kept
<1> QED BY <1>1, KnowsStep DEF Learns

(* A document goes on backing what it backed.                              *)
LEMMA BacksKept ==
  ASSUME IInv, AInv, [Next]_vars, NEW m, NEW t, NEW d \in Checks,
         Backs(m, t, d), Claims(d)
  PROVE  Backs(m, t, d)'
<1>1. (Unspent("external")' => Unspent("external")) /\ place' = place
  BY UnspentStep, PlaceStep DEF AInv, Events
<1> QED BY <1>1 DEF Backs, Claims

(* Ids new to d have nothing in a document that keeps to its generation.   *)
LEMMA BoundedKept ==
  ASSUME IInv, AInv, [Next]_vars, NEW m \in Documents, NEW d \in Checks,
         Bounded(m, d), Knows(d)' \subseteq Knows(d)
  PROVE  Bounded(m, d)'
<1>1. cr[d].gen <= cr'[d].gen /\ cr'[d].gen \in Nat /\ cr[d].gen \in Nat
  BY ClaimsStep, Numbers
<1>2. \A i \in Knows(d) : m[i] \in Nat
  BY Numbers DEF Knows, Documents
<1> QED BY <1>1, <1>2 DEF Bounded

LEMMA FreshKept ==
  ASSUME IInv, AInv, [Next]_vars, NEW m, Fresh(m)
  PROVE  Fresh(m)'
<1>1. \A i \in Ids : i > minted' => i > minted
  BY MintedStep DEF Ids
<1> QED BY <1>1 DEF Fresh

(* The next document of a cluster, next to a sound one it comes from.      *)
LEMMA FreshMoved ==
  ASSUME IInv, AInv, [Next]_vars, NEW m, NEW t \in Clusters, Fresh(m),
         \A i \in Ids : doc'[t][i] \in {0, m[i]} \/ i <= minted'
  PROVE  Fresh(doc[t])'
<1>1. \A i \in Ids : i > minted' => i > minted /\ ~(i <= minted')
  BY MintedStep DEF Ids
<1> QED BY <1>1 DEF Fresh

LEMMA BacksMoved ==
  ASSUME IInv, AInv, [Next]_vars, NEW m, NEW t \in Clusters,
         NEW d \in Checks, Backs(m, t, d), Claims(d),
         cr[d].live /\ ~cr[d].deleting /\ cr[d].status.id # 0 =>
           \/ doc'[t][cr[d].status.id] = m[cr[d].status.id]
           \/ doc'[t][cr[d].status.id] >= cr[d].status.obsGen
           \/ doc'[t][cr[d].status.id] = 0 /\ ~Unspent("external")'
  PROVE  Backs(doc[t], t, d)'
<1>1. (Unspent("external")' => Unspent("external")) /\ place' = place
  BY UnspentStep, PlaceStep DEF AInv, Events
<1> QED BY <1>1 DEF Backs, Claims

LEMMA BoundedMoved ==
  ASSUME IInv, AInv, [Next]_vars, NEW m \in Documents, NEW t \in Clusters,
         NEW d \in Checks, Bounded(m, d),
         \A i \in Knows(d)' :
           \/ doc'[t][i] <= cr[d].gen /\ doc'[t][i] \in Nat
           \/ i \in Knows(d) /\ doc'[t][i] = m[i]
  PROVE  Bounded(doc[t], d)'
<1>1. cr[d].gen <= cr'[d].gen /\ cr'[d].gen \in Nat /\ cr[d].gen \in Nat
  BY ClaimsStep, Numbers
<1>2. \A i \in Knows(d) : m[i] \in Nat
  BY Numbers DEF Knows, Documents
<1> QED BY <1>1, <1>2 DEF Bounded

(* A step that records: the PUT it records backs it.                       *)
LEMMA RecordBacks ==
  ASSUME IInv, [Next]_vars, NEW t \in Clusters, NEW d \in Checks, Outcome(d),
         Sets(d), Recording(d), Unspent("external")' => Unspent("external")
  PROVE  Backs(doc[t], t, d)'
<1>1. /\ cr'[d].status.id = sync[d].id /\ cr'[d].status.obsGen = sync[d].gen
      /\ doc' = doc /\ place' = place
  BY Shapes, UpdateFields, PlaceStep DEF Recording, Sets
<1> QED BY <1>1 DEF Outcome, Told, Recording, Backs

(* What a deletion by hand does to a document.                             *)
LEMMA CleanedEntries ==
  ASSUME IInv, AInv, [Next]_vars, doc' = doc \/ Cleaned
  PROVE  \A t \in Clusters, i \in Ids :
           \/ doc'[t][i] = doc[t][i]
           \/ doc'[t][i] = 0 /\ ~Unspent("external")'
<1>1. doc \in [Clusters -> Documents]
  BY DEF IInv, Kept
<1>2. Spend("external") => ~Unspent("external")'
  BY UnspentStep DEF AInv, Events
<1>3. ASSUME Cleaned
      PROVE  \A t \in Clusters, i \in Ids : doc'[t][i] \in {0, doc[t][i]}
  <2>1. PICK u \in Clusters, j \in Ids : doc' = [doc EXCEPT ![u][j] = 0]
    BY <1>3 DEF Cleaned
  <2> QED BY <1>1, <2>1 DEF Documents
<1> QED BY <1>2, <1>3 DEF Cleaned

(* A document of a cluster that no PUT replaces.                           *)
LEMMA SoundStays ==
  ASSUME IInv, AInv, Alone, [Next]_vars, NEW t \in Clusters,
         \A i \in Ids : \/ doc'[t][i] = doc[t][i]
                        \/ doc'[t][i] = 0 /\ ~Unspent("external")',
         \A d \in Checks :
           \/ Knows(d)' \subseteq Knows(d)
           \/ /\ minted' = minted + 1
              /\ Knows(d)' \subseteq Knows(d) \cup {minted'}
  PROVE  Sound(doc[t], t)'
<1>0. doc[t] \in Documents /\ Fresh(doc[t])
  BY DEF Alone, Sound, IInv, Kept
<1>1. Fresh(doc[t])'
  BY <1>0, FreshMoved
<1>2. ASSUME NEW d \in Checks
      PROVE  Backs(doc[t], t, d)' /\ Bounded(doc[t], d)'
  <2>1. Backs(doc[t], t, d) /\ Bounded(doc[t], d) /\ Outcome(d)
    BY DEF Alone, Sound
  <2>2. /\ Unspent("external")' => Unspent("external") /\ ~Spend("external")
        /\ cr[d].gen \in Nat
    BY UnspentStep, Numbers DEF AInv, Events
  <2>4. Knows(d) \subseteq Ids
    BY Numbers DEF Knows
  <2>5. \A i \in Knows(d)' : \/ doc'[t][i] <= cr[d].gen /\ doc'[t][i] \in Nat
                             \/ i \in Knows(d) /\ doc'[t][i] = doc[t][i]
    <3>1. ASSUME NEW i \in Knows(d) PROVE doc'[t][i] \in {0, doc[t][i]}
      BY <2>4
    <3>2. CASE Knows(d)' \subseteq Knows(d)
      BY <2>2, <3>1, <3>2
    <3>3. CASE /\ minted' = minted + 1
               /\ Knows(d)' \subseteq Knows(d) \cup {minted'}
      <4>1. minted \in Nat /\ minted' \in Ids /\ minted' > minted
        <5>1. IInv'
          BY Preserved
        <5> QED BY <3>3, <5>1, MintedStep DEF IInv, Kept, Ids
      <4>2. doc'[t][minted'] = 0
        BY <1>0, <4>1 DEF Fresh
      <4> QED BY <2>2, <3>1, <3>3, <4>2
    <3> QED BY <3>2, <3>3
  <2>6. Bounded(doc[t], d)'
    BY <1>0, <2>1, <2>5, BoundedMoved
  <2>7. CASE Claims(d)
    <3>1. cr[d].status.id # 0 => cr[d].status.id \in Ids
      BY Numbers
    <3> QED BY <2>1, <2>6, <2>7, <3>1, BacksMoved
  <2>8. CASE Sets(d) /\ Recording(d)
    BY <2>1, <2>2, <2>6, <2>8, RecordBacks
  <2> QED BY <2>7, <2>8, ClaimsStep
<1> QED BY <1>1, <1>2 DEF Sound

(* The PUT of the pass of c: its own entry is the one in hand, all others  *)
(* are those it fetched.                                                   *)
LEMMA PutSound ==
  ASSUME IInv, AInv, Alone, [Next]_vars, NEW c \in Checks,
         Ends(c) \/ Goes(c), pc[c] = "put", Replace(c),
         Knows(c)' \subseteq Knows(c) \cup {EntryId(obj[c])},
         \A d \in Checks \ {c} : Knows(d)' \subseteq Knows(d),
         NEW t \in Clusters, t = At(c, obj[c])
  PROVE  Sound(doc[t], t)'
<1> DEFINE e == EntryId(obj[c])
           m == got[c]
<1>0. /\ m \in Documents /\ Fresh(m) /\ e \in Ids
      /\ doc'[t] = [m EXCEPT ![e] = obj[c].gen]
      /\ e <= minted'
  <2>1. /\ doc' = [doc EXCEPT ![t] = WithEntry(c)] /\ e \in Ids
        /\ m \in Documents /\ doc \in [Clusters -> Documents]
    BY Shapes DEF Replace
  <2>2. obj[c].status.id # 0 => obj[c].status.id <= minted
    BY DEF AInv, Separate, Knows
  <2>3. e <= minted'
    BY <2>2, MintedStep DEF Replace, EntryId
  <2> QED BY <2>1, <2>3 DEF Alone, Fetched, Writing, Sound, WithEntry
<1>9. Fresh(doc[t])'
  BY <1>0, FreshMoved DEF Documents
<1> SUFFICES ASSUME NEW d \in Checks
             PROVE  Backs(doc[t], t, d)' /\ Bounded(doc[t], d)'
  BY <1>9 DEF Sound
<1>1. Backs(m, t, d) /\ Bounded(m, d)
  BY DEF Alone, Fetched, Writing, Sound
<1>10. m \in Documents
  BY <1>0
<1>2. Claims(d)
  BY ClaimsStep DEF Alone, Serial, Recording
<1>3. obj[c].gen \in Nat
  BY Numbers
<1>4. /\ obj[c].gen <= cr[c].gen /\ cr[c].status.obsGen <= obj[c].gen
      /\ cr[c].gen \in Nat
  BY Numbers DEF AInv, Each, Order
<1>5. Knows(d) \subseteq Ids
  BY Numbers DEF Knows
<1>6. d # c => e \notin Knows(d)
  <2>1. CASE obj[c].status.id # 0
    <3>1. e \in Knows(c)
      BY <2>1 DEF EntryId, Knows
    <3> QED BY <3>1 DEF AInv, Separate
  <2>2. CASE obj[c].status.id = 0
    <3>1. \A i \in Knows(d) : i <= minted
      BY DEF AInv, Separate
    <3>2. minted \in Nat /\ e = minted + 1
      BY <2>2 DEF IInv, Kept, EntryId
    <3> QED BY <3>1, <3>2
  <2> QED BY <2>1, <2>2
<1>7. Backs(doc[t], t, d)'
  <2>1. cr[d].status.id # 0 => cr[d].status.id \in Knows(d)
    BY DEF Knows
  <2>2. CASE d # c
    <3>1. cr[d].status.id # 0 => doc'[t][cr[d].status.id] = m[cr[d].status.id]
      BY <1>0, <1>5, <1>6, <2>1, <2>2 DEF Documents
    <3> QED BY <1>1, <1>2, <3>1, BacksMoved
  <2>3. CASE d = c
    <3>1. cr[d].status.id # 0 =>
            \/ doc'[t][cr[d].status.id] = m[cr[d].status.id]
            \/ doc'[t][cr[d].status.id] >= cr[d].status.obsGen
      BY <1>0, <1>3, <1>4, <1>5, <2>1, <2>3 DEF Documents
    <3> QED BY <1>1, <1>2, <3>1, BacksMoved
  <2> QED BY <2>2, <2>3
<1>8. Bounded(doc[t], d)'
  <2>1. CASE d # c
    <3>1. \A i \in Knows(d)' : i \in Knows(d) /\ doc'[t][i] = m[i]
      BY <1>0, <1>5, <1>6, <2>1 DEF Documents
    <3> QED BY <1>1, <1>10, <3>1, BoundedMoved
  <2>2. CASE d = c
    <3>1. \A i \in Knows(d)' :
            \/ doc'[t][i] <= cr[d].gen /\ doc'[t][i] \in Nat
            \/ i \in Knows(d) /\ doc'[t][i] = m[i]
      BY <1>0, <1>3, <1>4, <1>5, <2>2 DEF Documents
    <3> QED BY <1>1, <1>10, <3>1, BoundedMoved
  <2> QED BY <2>1, <2>2
<1> QED BY <1>7, <1>8

(* The PUT of a deletion.                                                  *)
LEMMA RemoveSound ==
  ASSUME IInv, AInv, Alone, [Next]_vars, NEW c \in Checks,
         Ends(c) \/ Goes(c), pc[c] = "remove", Shrink(c),
         \A d \in Checks : Knows(d)' \subseteq Knows(d),
         NEW t \in Clusters, t = At(c, obj[c])
  PROVE  Sound(doc[t], t)'
<1> DEFINE e == obj[c].status.id
           m == got[c]
<1>3. e # 0 /\ cr[c].deleting
  BY DEF AInv, Each, Order, Copies, Hold
<1>0. /\ m \in Documents /\ Fresh(m) /\ e \in Ids
      /\ doc'[t] = [m EXCEPT ![e] = 0]
  <2>1. /\ doc' = [doc EXCEPT ![t] = WithoutEntry(c)] /\ e \in Ids
        /\ m \in Documents /\ doc \in [Clusters -> Documents]
    BY <1>3, Shapes, Numbers DEF Shrink
  <2> QED BY <2>1 DEF Alone, Fetched, Writing, Sound, WithoutEntry
<1>9. Fresh(doc[t])'
  BY <1>0, FreshMoved DEF Documents
<1> SUFFICES ASSUME NEW d \in Checks
             PROVE  Backs(doc[t], t, d)' /\ Bounded(doc[t], d)'
  BY <1>9 DEF Sound
<1>1. Backs(m, t, d) /\ Bounded(m, d)
  BY DEF Alone, Fetched, Writing, Sound
<1>10. m \in Documents
  BY <1>0
<1>2. Claims(d)
  BY ClaimsStep DEF Alone, Serial, Recording
<1>4. cr[d].gen \in Nat
  BY Numbers
<1>5. Knows(d) \subseteq Ids
  BY Numbers DEF Knows
<1>6. d # c => e \notin Knows(d)
  <2>1. e \in Knows(c)
    BY <1>3 DEF Knows
  <2> QED BY <2>1 DEF AInv, Separate
<1>7. cr[d].live /\ ~cr[d].deleting /\ cr[d].status.id # 0 =>
        doc'[t][cr[d].status.id] = m[cr[d].status.id]
  BY <1>0, <1>3, <1>5, <1>6 DEF Documents, Knows
<1>8. \A i \in Knows(d)' : \/ doc'[t][i] <= cr[d].gen /\ doc'[t][i] \in Nat
                           \/ i \in Knows(d) /\ doc'[t][i] = m[i]
  BY <1>0, <1>4, <1>5 DEF Documents
<1>11. Backs(doc[t], t, d)'
  BY <1>1, <1>2, <1>7, BacksMoved
<1>12. Bounded(doc[t], d)'
  BY <1>1, <1>8, <1>10, BoundedMoved
<1> QED BY <1>11, <1>12

(* The document after a step.                                              *)
LEMMA SoundActs ==
  ASSUME IInv, AInv, Alone, [Next]_vars, NEW c \in Checks, Acts(c)
  PROVE  \A t \in Clusters : Sound(doc[t], t)'
<1> SUFFICES ASSUME NEW t \in Clusters PROVE Sound(doc[t], t)'
  OBVIOUS
<1>1. \A d \in Checks \ {c} : Knows(d)' \subseteq Knows(d)
  BY KnowsSame, FrameOf
<1>2. minted \in Nat
  BY DEF IInv, Kept
<1>3. \/ Knows(c)' \subseteq Knows(c)
      \/ minted' = minted + 1 /\ Knows(c)' \subseteq Knows(c) \cup {minted'}
  BY KnowsOne DEF AInv
<1>4. CASE doc'[t] = doc[t]
  BY <1>1, <1>3, <1>4, SoundStays
<1>0. doc \in [Clusters -> Documents]
  BY DEF IInv, Kept
<1>5. CASE /\ (Ends(c) \/ Goes(c)) /\ pc[c] = "put" /\ Replace(c)
           /\ t = At(c, obj[c])
  <2>1. Knows(c)' \subseteq Knows(c) \cup {EntryId(obj[c])}
    BY <1>2, <1>3, <1>5 DEF Replace, EntryId
  <2> QED BY <1>1, <1>5, <2>1, PutSound
<1>6. CASE /\ (Ends(c) \/ Goes(c)) /\ pc[c] = "remove"
           /\ Shrink(c) /\ minted' = minted /\ t = At(c, obj[c])
  BY <1>1, <1>2, <1>3, <1>6, RemoveSound
<1>7. Replace(c) \/ Shrink(c) => doc'[t] = doc[t] \/ t = At(c, obj[c])
  BY <1>0 DEF Replace, Shrink
<1>8. \/ doc' = doc
      \/ (Ends(c) \/ Goes(c)) /\ pc[c] = "put" /\ Replace(c)
      \/ /\ (Ends(c) \/ Goes(c)) /\ pc[c] = "remove"
         /\ Shrink(c) /\ minted' = minted
  BY DEF Acts, Ends, Goes, Hops, Sets, Reads, Wishes, Delivers
<1> QED BY <1>4, <1>5, <1>6, <1>7, <1>8

LEMMA SoundStep ==
  ASSUME IInv, AInv, Alone, [Next]_vars
  PROVE  \A t \in Clusters : Sound(doc[t], t)'
<1>1. CASE Elsewhere
  <2>1. \A d \in Checks : Knows(d)' \subseteq Knows(d)
    BY <1>1 DEF Elsewhere, Knows
  <2>2. \A t \in Clusters, i \in Ids :
          \/ doc'[t][i] = doc[t][i]
          \/ doc'[t][i] = 0 /\ ~Unspent("external")'
    BY <1>1, CleanedEntries DEF Elsewhere
  <2> QED BY <2>1, <2>2, SoundStays
<1>2. CASE Crash
  <2>1. \A d \in Checks : cache'[d] = cr[d] /\ cr'[d] = cr[d]
                          /\ obj'[d].status.id = 0 /\ sync'[d].id = 0
    BY <1>2 DEF Crash, Created, NoSync
  <2>2. \A d \in Checks : Knows(d)' \subseteq Knows(d)
    BY <2>1 DEF Knows
  <2> QED BY <1>2, <2>2, SoundStays DEF Crash, server
<1> QED BY <1>1, <1>2, SoundActs, Kinds

LEMMA SerialStep ==
  ASSUME IInv, AInv, OneController, Serial, [Next]_vars
  PROVE  Serial'
<1>1. CASE Elsewhere \/ Crash
  BY <1>1 DEF Elsewhere, Crash, Serial
<1>2. ASSUME NEW c \in Checks, Acts(c)
      PROVE  Serial'
  <2>1. \A d \in Checks \ {c} : pc'[d] = pc[d]
    BY <1>2, FrameOf DEF Same
  <2>2. CASE pc[c] # "idle" \/ pc'[c] = "idle"
    BY <2>1, <2>2 DEF Serial
  <2>3. CASE pc[c] = "idle" /\ pc'[c] # "idle"
    <3>1. Reads(c)
      BY <1>2, <2>3 DEF Acts, Ends, Goes, Sets, Wishes, Delivers
    <3>2. \A d \in Checks : pc[d] = "idle"
      BY <2>3, <3>1 DEF Reads, OneController
    <3> QED BY <2>1, <3>2 DEF Serial
  <2> QED BY <2>2, <2>3
<1> QED BY <1>1, <1>2, Kinds

(* A fetched document stays sound while its pass waits.                    *)
LEMMA SoundKept ==
  ASSUME IInv, AInv, [Next]_vars, NEW m \in Documents, NEW t,
         Sound(m, t),
         \A d \in Checks : Claims(d) /\ Knows(d)' \subseteq Knows(d)
  PROVE  Sound(m, t)'
BY BacksKept, BoundedKept, FreshKept DEF Sound

(* A step that leaves the pass of c where it is.                           *)
Waits(c) ==
  /\ pc'[c] = pc[c] /\ obj'[c] = obj[c] /\ got'[c] = got[c]
  /\ sync'[c] = sync[c] /\ cr'[c].status.id = cr[c].status.id
  /\ doc' = doc \/ Cleaned

LEMMA OthersWait ==
  ASSUME IInv, AInv, OneController, Serial, [Next]_vars,
         NEW c \in Checks, pc[c] # "idle"
  PROVE  \/ Crash
         \/ Ends(c) \/ Goes(c) \/ Sets(c) \/ Reads(c)
         \/ /\ Waits(c)
            /\ \A d \in Checks : Claims(d) /\ Knows(d)' \subseteq Knows(d)
<1>1. CASE Elsewhere
  <2>1. Waits(c)
    BY <1>1 DEF Elsewhere, Waits
  <2>2. \A d \in Checks : Claims(d) /\ Knows(d)' \subseteq Knows(d)
    BY <1>1, ClaimsStep DEF Elsewhere, Sets, Recording, Knows, Returned
  <2> QED BY <2>1, <2>2
<1>2. ASSUME NEW d \in Checks, Wishes(d) \/ Delivers(d)
      PROVE  /\ Waits(c)
             /\ \A e \in Checks : Claims(e) /\ Knows(e)' \subseteq Knows(e)
  <2>1. \A e \in Checks \ {d} : Same(e)
    BY <1>2, FrameOf DEF Acts
  <2>2. cr'[d].status = cr[d].status
    BY <1>2, Shapes DEF Wishes, Delivers, Mine, Object
  <2>3. Waits(c)
    BY <1>2, <2>1, <2>2 DEF Wishes, Delivers, Waits, Same
  <2>4. \A e \in Checks : Knows(e)' \subseteq Knows(e)
    BY <1>2, <2>1, <2>2, KnowsSame DEF Wishes, Delivers, Knows
  <2>5. \A e \in Checks : Claims(e)
    BY <1>2, ClaimsStep DEF Recording, Returned, Wishes, Delivers
  <2> QED BY <2>3, <2>4, <2>5
<1>3. ASSUME NEW d \in Checks, Ends(d) \/ Goes(d) \/ Sets(d)
      PROVE  d = c
  BY <1>3 DEF Serial, Ends, Goes, Sets
<1>4. ASSUME NEW d \in Checks, Reads(d)
      PROVE  d = c
  BY <1>4 DEF Serial, Reads, OneController
<1> QED BY <1>1, <1>2, <1>3, <1>4, Kinds DEF Acts

LEMMA FetchedStep ==
  ASSUME IInv, AInv, OneController, Alone, [Next]_vars, NEW c \in Checks,
         pc'[c] \in Writing
  PROVE  Fetched(c)'
<1>1. pc[c] # "idle" /\ ~Crash
  <2>1. ~Crash
    BY DEF Crash, Writing
  <2>2. ASSUME pc[c] = "idle" PROVE FALSE
    <3>1. pc'[c] # pc[c]
      BY <2>2 DEF Writing
    <3>2. ~Elsewhere /\ \A d \in Checks \ {c} : ~Acts(d)
      BY <3>1, FrameOf DEF Elsewhere, Same
    <3>3. Acts(c)
      BY <2>1, <3>2, Kinds
    <3> QED BY <2>2, <3>1, <3>3
            DEF Acts, Ends, Goes, Sets, Reads, Wishes, Delivers, Writing
  <2> QED BY <2>1, <2>2
<1>2. ~Ends(c) /\ ~Sets(c) /\ ~Reads(c)
  BY DEF Ends, Sets, Reads, Returned, Writing
<1>3. CASE Goes(c)
  <2>1. /\ got'[c] = doc[At(c, obj[c])] /\ doc' = doc
        /\ At(c, obj[c])' = At(c, obj[c]) /\ At(c, obj[c]) \in Clusters
    BY <1>3, PlaceStep, Shapes DEF Goes, Hops, Writing, At
  <2>2. PICK t \in Clusters : t = At(c, obj[c])
    BY <2>1
  <2>3. Sound(doc[t], t)'
    BY SoundStep
  <2> QED BY <2>1, <2>2, <2>3 DEF Fetched, Sound, Backs, Bounded, Fresh
<1>4. CASE Waits(c)
            /\ \A d \in Checks : Claims(d) /\ Knows(d)' \subseteq Knows(d)
  <2>1. /\ pc[c] \in Writing /\ got'[c] = got[c] /\ got[c] \in Documents
        /\ Fetched(c)
        /\ At(c, obj[c])' = At(c, obj[c]) /\ At(c, obj[c]) \in Clusters
    BY <1>4, Shapes, PlaceStep DEF Waits, Alone, At
  <2>2. PICK m \in Documents, t \in Clusters : m = got[c] /\ t = At(c, obj[c])
    BY <2>1
  <2>3. Sound(m, t)'
    BY <1>4, <2>1, <2>2, SoundKept DEF Fetched
  <2>4. Unspent("external")' => Unspent("external") /\ ~Spend("external")
    BY UnspentStep DEF AInv, Events
  <2>5. \A i \in Ids : doc'[t][i] = doc[t][i]
                       \/ (doc'[t][i] = 0 /\ ~Unspent("external")')
    BY <1>4, CleanedEntries DEF Waits
  <2>6. \A i \in Ids : \/ doc'[t][i] = got'[c][i]
                       \/ doc'[t][i] = 0 /\ ~Unspent("external")'
    BY <2>1, <2>2, <2>4, <2>5 DEF Fetched
  <2> QED BY <2>1, <2>2, <2>3, <2>6 DEF Fetched, Sound, Backs, Bounded, Fresh
<1> QED BY <1>1, <1>2, <1>3, <1>4, OthersWait DEF Alone

LEMMA OutcomeStep ==
  ASSUME IInv, AInv, OneController, Alone, [Next]_vars, NEW c \in Checks
  PROVE  Outcome(c)'
<1>1. CASE pc'[c] \notin Told \cup {"drifted", "release"}
  BY <1>1 DEF Outcome
<1>2. CASE pc'[c] \in Told \cup {"drifted", "release"}
  <2>0. \A k \in Events : Unspent(k)' => Unspent(k) /\ ~Spend(k)
    BY UnspentStep DEF AInv
  <2>1. ~Crash /\ pc[c] # "idle"
    <3>1. ~Crash
      BY <1>2 DEF Crash, Told
    <3>2. ASSUME pc[c] = "idle" PROVE FALSE
      <4>1. pc'[c] # pc[c]
        BY <1>2, <3>2 DEF Told
      <4>2. ~Elsewhere /\ \A d \in Checks \ {c} : ~Acts(d)
        BY <4>1, FrameOf DEF Elsewhere, Same
      <4>3. Acts(c)
        BY <3>1, <4>2, Kinds
      <4> QED BY <1>2, <3>2, <4>1, <4>3
              DEF Acts, Ends, Goes, Sets, Reads, Wishes, Delivers, Told
    <3> QED BY <3>1, <3>2
  <2>2. ~Ends(c) /\ ~Sets(c)
    BY <1>2 DEF Ends, Sets, Returned, Told
  <2>3. Outcome(c) /\ place' = place
    BY PlaceStep DEF Alone
  <2>4. CASE Reads(c)
    BY <1>2, <2>0, <2>1, <2>3, <2>4 DEF Reads, Outcome, Told, Events
  <2>5. CASE Waits(c)
    <3>1. \A t \in Clusters, i \in Ids :
            doc'[t][i] = doc[t][i]
              \/ (doc'[t][i] = 0 /\ ~Unspent("external")')
      BY <2>5, CleanedEntries DEF Waits
    <3>0. At(c, obj[c]) \in Clusters
      BY Shapes
    <3>2. /\ pc[c] \in Told => /\ sync[c].id \in Ids
                               /\ place[c][sync[c].gen] \in Clusters
          /\ pc[c] = "drifted" => obj[c].status.id \in Ids
          /\ cr[c].status.id # 0 => cr[c].status.id \in Ids
      BY Numbers DEF AInv, Each, Order
    <3>3. /\ pc'[c] = pc[c] /\ obj'[c] = obj[c] /\ sync'[c] = sync[c]
          /\ cr'[c].status.id = cr[c].status.id
      BY <2>5 DEF Waits
    <3>4. \A t \in Clusters, i \in Ids : doc[t][i] = 0 => doc'[t][i] = 0
      BY <3>1
    <3>5. CASE pc[c] \in Told
      BY <2>0, <2>3, <3>1, <3>2, <3>3, <3>5 DEF Outcome, Told, Events
    <3>6. CASE pc[c] = "drifted"
      BY <2>3, <3>0, <3>2, <3>3, <3>4, <3>6 DEF Outcome, Told, Listed, At
    <3>7. CASE pc[c] = "release"
      BY <2>0, <2>3, <3>0, <3>2, <3>3, <3>4, <3>7
         DEF Outcome, Told, Events, At
    <3> QED BY <1>2, <3>3, <3>5, <3>6, <3>7
  <2>6. CASE Goes(c)
    <3>1. CASE pc'[c] \in Told
      <4>1. /\ Replace(c) /\ sync'[c].id = EntryId(obj[c])
            /\ sync'[c].gen = obj[c].gen
            /\ place'[c][sync'[c].gen] = At(c, obj[c])
        BY <2>3, <2>6, <3>1 DEF At, Goes, Hops, Told, CheckingDrift, Getting,
                                Syncing, Deleting
      <4>2. got[c] \in Documents /\ EntryId(obj[c]) \in Ids
            /\ obj[c].gen \in Nat /\ At(c, obj[c]) \in Clusters
            /\ doc \in [Clusters -> Documents]
        BY <4>1, Shapes, Numbers DEF Replace
      <4>3. /\ doc'[place'[c][sync'[c].gen]][sync'[c].id] = sync'[c].gen
            /\ sync'[c].gen \in Nat
        BY <4>1, <4>2 DEF Replace, WithEntry, Documents
      <4> QED BY <3>1, <4>3 DEF Outcome, Told
    <3>2. CASE pc'[c] = "drifted"
      BY <2>3, <2>6, <3>2 DEF Goes, Hops, Outcome, Told, Listed, At
    <3>3. CASE pc'[c] = "release" /\ Unspent("lag")' /\ Unspent("other")'
      <4>1. ~Spend("other") /\ Unspent("lag")
        BY <2>0, <3>3 DEF Events
      <4>2. obj[c].status.id = cr[c].status.id /\ cr' = cr
        BY <2>1, <2>6, <4>1 DEF AInv, Each, SameId, Goes
      <4>3. obj[c].status.id = 0 \/ Shrink(c)
        BY <2>6, <3>3, <4>1 DEF Goes, Hops
      <4>4. /\ got[c] \in Documents /\ At(c, obj[c]) \in Clusters
            /\ doc \in [Clusters -> Documents]
            /\ obj[c].status.id # 0 => obj[c].status.id \in Ids
        BY Shapes, Numbers
      <4>5. At(c, obj[c])' = At(c, obj[c])
        BY <2>3, <2>6 DEF Goes, At
      <4> QED BY <3>3, <4>2, <4>3, <4>4, <4>5
              DEF Outcome, Told, Shrink, WithoutEntry, Documents
    <3> QED BY <1>2, <3>1, <3>2, <3>3 DEF Outcome, Told
  <2> QED BY <2>1, <2>2, <2>4, <2>5, <2>6, OthersWait DEF Alone
<1> QED BY <1>1, <1>2

LEMMA AloneStep ==
  ASSUME IInv, AInv, [Next]_vars
  PROVE  AInv'
<1>1. Budgeted' /\ Separate' /\ \A c \in Checks : Each(c)'
  BY UnspentStep, SeparateStep, EachStep DEF AInv
<1>2. OneController' => OneController
  BY Spends DEF OneController, fixed
<1>3. ASSUME OneController PROVE Alone'
  <2>1. Alone
    BY <1>3 DEF AInv
  <2>2. Serial' /\ \A t \in Clusters : Sound(doc[t], t)'
    BY <1>3, <2>1, SerialStep, SoundStep DEF Alone
  <2>3. \A c \in Checks : Fetched(c)'
    BY <1>3, <2>1, FetchedStep DEF Fetched
  <2>4. \A c \in Checks : Outcome(c)'
    BY <1>3, <2>1, OutcomeStep
  <2> QED BY <2>2, <2>3, <2>4 DEF Alone
<1> QED BY <1>1, <1>2, <1>3 DEF AInv

LEMMA AloneInit ==
  Init => AInv
<1> SUFFICES ASSUME Init PROVE AInv
  OBVIOUS
<1>1. IInv
  BY InitInv
<1>2. Budgeted
  <2>1. left \in [Events -> Nat] /\ left = budget
    BY <1>1 DEF IInv, Left, Init
  <2> QED BY <2>1 DEF Budgeted
<1>3. ASSUME NEW c \in Checks
      PROVE  /\ cr[c] = cache[c] /\ cr[c].live /\ ~cr[c].deleting
             /\ ~cr[c].finalizer /\ cr[c].gen = 1
             /\ cr[c].status.id = 0 /\ cr[c].status.obsGen = 0
             /\ obj[c].status.id = 0 /\ sync[c].id = 0 /\ sync[c].gen = 0
             /\ pc[c] = "idle"
  <2>1. /\ cr[c] = Created /\ cache[c] = cr[c] /\ obj[c] = cr[c]
        /\ sync[c] = NoSync /\ pc[c] = "idle"
    BY DEF Init
  <2>2. /\ Created.live /\ ~Created.deleting /\ ~Created.finalizer
        /\ Created.gen = 1 /\ Created.status.id = 0
        /\ Created.status.obsGen = 0 /\ NoSync.id = 0 /\ NoSync.gen = 0
    BY DEF Created, NoSync
  <2> QED BY <2>1, <2>2
<1>4. ASSUME NEW c \in Checks PROVE Each(c)
  <2>1. Copies(c) /\ Hold(c)
    BY <1>3 DEF Copies, Hold, Pushing
  <2>2. Order(c) /\ SameId(c)
    BY <1>3 DEF Order, SameId, Told
  <2> QED BY <2>1, <2>2 DEF Each
<1>5. \A c \in Checks : \A i \in Knows(c) : FALSE
  <2>1. \A c \in Checks : \A i \in Knows(c) :
          i # 0 /\ i \in {cr[c].status.id, cache[c].status.id,
                          obj[c].status.id, sync[c].id}
    BY DEF Knows
  <2> QED BY <1>3, <2>1
<1>6. Alone
  <2>1. Serial /\ \A c \in Checks : Fetched(c) /\ Outcome(c)
    BY <1>3 DEF Serial, Fetched, Outcome, Writing, Told
  <2>2. ASSUME NEW t \in Clusters PROVE Sound(doc[t], t)
    <3>1. Fresh(doc[t])
      <4>1. minted = 1 /\ \A i \in Ids : i > 1 => doc[t][i] = 0
        BY HealthchecksAssumption DEF Init, NoDocument, HandMade, Ids
      <4> QED BY <4>1 DEF Fresh
    <3> QED BY <1>3, <1>5, <3>1 DEF Sound, Backs, Bounded
  <2> QED BY <2>1, <2>2 DEF Alone
<1> QED BY <1>2, <1>4, <1>5, <1>6 DEF AInv, Separate

LEMMA AloneInductive == Spec => [](IInv /\ AInv)
<1>1. Init => AInv
  BY AloneInit
<1>2. IInv /\ AInv /\ [Next]_vars => AInv'
  BY AloneStep
<1> QED BY <1>1, <1>2, Inductive, PTL DEF Spec

-----------------------------------------------------------------------------
(* With one kind in use, a resource that says Ready, not Failed, for its   *)
(* generation has that generation in the document: its claim is backed,    *)
(* and the document has nothing newer than the spec.                       *)
THEOREM ReadyIsInSync == Spec => []AloneInSync
<1>1. ASSUME IInv, AInv, OneController, NEW c \in Checks,
             cr[c].live, ~cr[c].deleting, AlreadySynced(cr[c]),
             "Failed" \notin cr[c].status.conds
      PROVE  LET entry == doc[At(c, cr[c])][cr[c].status.id]
             IN  entry = cr[c].gen \/ (entry = 0 /\ ~Unspent("external"))
  <2> DEFINE t == At(c, cr[c])
  <2>0. t \in Clusters
    BY <1>1, Shapes
  <2>1. Backs(doc[t], t, c) /\ Bounded(doc[t], c)
    BY <1>1, <2>0 DEF AInv, Alone, Sound
  <2>2. cr[c].status.id \in Knows(c) /\ cr[c].status.id \in Ids
    BY <1>1, Numbers DEF AlreadySynced, Knows
  <2>3. doc[t][cr[c].status.id] <= cr[c].gen
    BY <2>1, <2>2 DEF Bounded
  <2>4. \/ doc[t][cr[c].status.id] >= cr[c].gen
        \/ doc[t][cr[c].status.id] = 0 /\ ~Unspent("external")
    BY <1>1, <2>1 DEF Backs, AlreadySynced, At
  <2>5. doc[t][cr[c].status.id] \in Nat /\ cr[c].gen \in Nat
    BY <1>1, <2>0, <2>2, Numbers
  <2> QED BY <2>3, <2>4, <2>5
<1>2. IInv /\ AInv => AloneInSync
  BY <1>1 DEF AloneInSync
<1> QED BY <1>2, AloneInductive, PTL

-----------------------------------------------------------------------------
(* The three ways the document changes.                                    *)
LEMMA Edits ==
  ASSUME IInv, [Next]_vars, doc' # doc
  PROVE  \/ Cleaned
         \/ \E c \in Checks :
              /\ pc[c] = "put" /\ Replace(c)
              /\ \/ Spend("server") \/ Spend("other")
                 \/ sync'[c] = [id |-> EntryId(obj[c]), gen |-> obj[c].gen]
         \/ \E c \in Checks : pc[c] = "remove" /\ Shrink(c)
<1>1. ~Crash
  BY DEF Crash, server
<1>2. CASE Elsewhere
  BY <1>2 DEF Elsewhere
<1>3. ASSUME NEW c \in Checks, Acts(c)
      PROVE  \/ /\ pc[c] = "put" /\ Replace(c)
                /\ \/ Spend("server") \/ Spend("other")
                   \/ sync'[c] = [id |-> EntryId(obj[c]), gen |-> obj[c].gen]
             \/ pc[c] = "remove" /\ Shrink(c)
  BY <1>3 DEF Acts, Ends, Goes, Hops, Sets, Reads, Wishes, Delivers
<1> QED BY <1>1, <1>2, <1>3, Kinds

(* What a PUT of one controller takes out, or brings back.                 *)
LEMMA PutEntries ==
  ASSUME IInv, AInv, OneController, NEW c \in Checks, pc[c] = "put",
         Replace(c), NEW t \in Clusters, NEW i \in Ids
  PROVE  /\ doc[t][i] # 0 => doc'[t][i] # 0
         /\ doc[t][i] = 0 /\ doc'[t][i] # 0 =>
              \/ t = At(c, obj[c]) /\ i = EntryId(obj[c])
              \/ ~Unspent("external")
<1>1. /\ got[c] \in Documents /\ EntryId(obj[c]) \in Ids /\ obj[c].gen > 0
      /\ obj[c].gen \in Nat /\ doc \in [Clusters -> Documents]
  BY Shapes, Numbers DEF Replace
<1>2. t = At(c, obj[c]) =>
        doc[t][i] = got[c][i] \/ (doc[t][i] = 0 /\ ~Unspent("external"))
  BY DEF AInv, Alone, Fetched, Writing
<1> QED BY <1>1, <1>2 DEF Replace, WithEntry, Documents

LEMMA RemoveEntries ==
  ASSUME IInv, AInv, OneController, NEW c \in Checks, pc[c] = "remove",
         Shrink(c), NEW t \in Clusters, NEW i \in Ids
  PROVE  /\ doc[t][i] # 0 /\ doc'[t][i] = 0 =>
              i = obj[c].status.id /\ cr[c].deleting
         /\ doc[t][i] = 0 /\ doc'[t][i] # 0 => ~Unspent("external")
<1>1. /\ got[c] \in Documents /\ obj[c].status.id \in Ids
      /\ cr[c].deleting /\ doc \in [Clusters -> Documents]
  BY Shapes, Numbers DEF AInv, Each, Order, Copies, Hold
<1>2. t = At(c, obj[c]) =>
        doc[t][i] = got[c][i] \/ (doc[t][i] = 0 /\ ~Unspent("external"))
  BY DEF AInv, Alone, Fetched, Writing
<1> QED BY <1>1, <1>2 DEF Shrink, WithoutEntry, Documents

(* With one kind in use an entry leaves the document only by hand or with  *)
(* its resource: what the PUT of a pass does not mention is there as it    *)
(* was fetched.                                                            *)
THEOREM OnlyOwnersRemove == Spec => NothingLost
<1>1. ASSUME IInv, AInv, [Next]_vars, OneController,
             NEW t \in Clusters, NEW i \in Ids, doc[t][i] # 0, doc'[t][i] = 0
      PROVE  \/ left'["external"] # left["external"]
             \/ \E c \in Checks :
                  /\ cr[c].deleting
                  /\ \/ cr[c].status.id = i
                     \/ obj[c].status.id = i /\ ~Unspent("lag")
  <2>1. CASE Cleaned
    BY <1>1, <2>1 DEF Cleaned, Spend, IInv, Left, Events
  <2>2. ASSUME NEW c \in Checks, pc[c] = "put", Replace(c)
        PROVE  FALSE
    BY <1>1, <2>2, PutEntries
  <2>3. ASSUME NEW c \in Checks, pc[c] = "remove", Shrink(c)
        PROVE  /\ cr[c].deleting
               /\ \/ cr[c].status.id = i
                  \/ obj[c].status.id = i /\ ~Unspent("lag")
    <3>1. i = obj[c].status.id /\ cr[c].deleting
      BY <1>1, <2>3, RemoveEntries
    <3>2. Unspent("lag") => obj[c].status.id = cr[c].status.id
      BY <1>1, <2>3 DEF AInv, Each, SameId
    <3> QED BY <3>1, <3>2
  <2> QED BY <1>1, <2>1, <2>2, <2>3, Edits
<1>2. IInv /\ AInv /\ [Next]_vars =>
        [OneController =>
           \A t \in Clusters, i \in Ids : doc[t][i] # 0 /\ doc'[t][i] = 0 =>
             \/ left'["external"] # left["external"]
             \/ \E c \in Checks :
                  /\ cr[c].deleting
                  /\ \/ cr[c].status.id = i
                     \/ obj[c].status.id = i /\ ~Unspent("lag")]_vars
  BY <1>1
<1> QED BY <1>2, AloneInductive, PTL DEF Spec, NothingLost

-----------------------------------------------------------------------------
(* What d knows of id i in cluster t.                                      *)
Keeps(d, t, i) ==
  \/ cr[d].live /\ cr[d].status.id = i /\ t = At(d, cr[d])
  \/ sync[d].id = i /\ t = place[d][sync[d].gen]

(* How d comes to lose it.                                                 *)
Loses(d) == Crash \/ RecordsLate(d) \/ At(d, cr[d])' # At(d, cr[d])

LEMMA KeepsStep ==
  ASSUME IInv, AInv, OneController, [Next]_vars, Unspent("lag")',
         Unspent("other")', NEW d \in Checks, NEW t \in Clusters,
         NEW i \in Ids, Keeps(d, t, i), doc'[t][i] # 0
  PROVE  Keeps(d, t, i)' \/ Loses(d)
<1>1. /\ Each(d) /\ Outcome(d) /\ Unspent("lag") /\ Unspent("other")
      /\ i # 0 /\ place' = place
  BY UnspentStep, PlaceStep, Numbers DEF AInv, Alone, Events
<1>2. CASE cr'[d] = cr[d] /\ sync'[d] = sync[d]
  BY <1>1, <1>2 DEF Keeps, At
<1>3. CASE Acts(d)
  <2>1. pc[d] # "idle" /\ d \notin behind => obj[d] = cr[d]
    BY <1>1 DEF Each, Copies
  <2>2. /\ obj[d] \in Mine /\ cr[d] \in Mine
        /\ sync[d] \in [id: 0 .. MaxId, gen: 0 .. MaxGen]
    BY Shapes
  <2>3. sync[d].id = i => pc[d] \in Told
    BY <1>1 DEF Each, Copies
  <2>4. CASE Ends(d)
    <3>1. pc[d] \in Told => Loses(d)
      BY <2>4 DEF Ends, Returned, Loses, RecordsLate
    <3>2. /\ cr'[d].live = cr[d].live /\ cr'[d].status.id = cr[d].status.id
          /\ cr'[d].gen = cr[d].gen
      BY <2>1, <2>2, <2>4, ReportFields DEF Ends
    <3> QED BY <1>1, <2>3, <3>1, <3>2 DEF Keeps, At
  <2>5. CASE Goes(d)
    <3>1. cr' = cr /\ (pc[d] \in Told => sync' = sync)
      BY <2>5 DEF Goes, Hops, CheckingDrift, Getting, Syncing, Deleting, Told
    <3> QED BY <1>1, <2>3, <3>1 DEF Keeps, At
  <2>6. CASE Sets(d)
    <3>1. obj[d] = cr[d] /\ pc[d] # "idle"
      BY <2>1, <2>6 DEF Sets
    <3>2. CASE pc[d] = "fetched"
      <4>1. /\ cr'[d].live = cr[d].live /\ cr'[d].status = cr[d].status
            /\ cr'[d].gen = cr[d].gen
        BY <2>2, <2>6, <3>1, <3>2, UpdateFields DEF Sets
      <4> QED BY <1>1, <2>3, <3>2, <4>1 DEF Keeps, Told, At
    <3>3. CASE pc[d] = "record"
      <4>1. cr[d].live /\ cr[d].status.id \in {0, sync[d].id}
        BY <1>1, <3>3 DEF Each, Hold, SameId, Pushing, Told
      <4>2. /\ cr'[d].live /\ cr'[d].status.id = sync[d].id
            /\ cr'[d].gen = cr[d].gen /\ pc'[d] = "idle"
        BY <2>2, <2>6, <3>1, <3>3, <4>1, UpdateFields DEF Sets, Returned
      <4>3. place[d][sync[d].gen] = At(d, cr[d]) \/ Loses(d)
        BY <3>3, <4>2 DEF Loses, RecordsLate
      <4>4. sync[d].id = i
        BY <1>1, <4>1 DEF Keeps
      <4> QED BY <1>1, <4>2, <4>3, <4>4 DEF Keeps, At
    <3>4. CASE pc[d] = "drifted"
      BY <1>1, <2>3, <2>6, <3>1, <3>4 DEF Outcome, Keeps, Sets, Told, Listed
    <3>5. CASE pc[d] = "release"
      BY <1>1, <2>3, <2>6, <3>1, <3>5 DEF Outcome, Keeps, Sets, Told
    <3> QED BY <2>6, <3>2, <3>3, <3>4, <3>5 DEF Sets
  <2>7. CASE Reads(d) \/ Delivers(d)
    BY <1>1, <2>7 DEF Reads, Delivers, Keeps, At
  <2>8. CASE Wishes(d)
    <3>1. cr'[d].status = cr[d].status /\ sync' = sync
      BY <2>2, <2>8 DEF Wishes, Mine, Object
    <3>2. cr[d].live /\ cr[d].status.id = i => cr'[d].live
      BY <1>1, <2>2, <2>8 DEF Wishes, Each, Hold, Mine, Object
    <3> QED BY <1>1, <3>1, <3>2 DEF Keeps, Loses
  <2> QED BY <1>3, <2>4, <2>5, <2>6, <2>7, <2>8 DEF Acts
<1>4. ASSUME NEW c \in Checks \ {d}, Acts(c)
      PROVE  cr'[d] = cr[d] /\ sync'[d] = sync[d]
  BY <1>4, FrameOf DEF Same
<1> QED BY <1>2, <1>3, <1>4, Kinds DEF Elsewhere, Loses

(* With one kind in use, no stale read and every PUT answered, an entry    *)
(* loses its resource only with a PUT that fails, a process that dies, a   *)
(* status update that conflicts, or an edit that names another cluster.    *)
(* Every other edit, forgetting the id of an entry that is gone, and       *)
(* releasing a resource after its entry, orphan nothing.                   *)
THEOREM OrphansNeedLoss == Spec => OrphansOnlyByLoss
<1>1. ASSUME IInv, AInv, [Next]_vars, OneController, Unspent("lag")',
             Unspent("other")', NEW t \in Clusters,
             NEW i \in Ids \ {HandMade}, doc'[t][i] # 0, ~Tracked(t, i)'
      PROVE  \/ ~Tracked(t, i) /\ (doc[t][i] # 0 \/ ~Unspent("external"))
             \/ \E k \in {"server", "crash"} : left'[k] # left[k]
             \/ \E c \in Checks : At(c, cr[c])' # At(c, cr[c]) \/ RecordsLate(c)
  <2>1. \A k \in Events : Spend(k) => left'[k] # left[k]
    BY <1>1 DEF Spend, IInv, Left
  <2>2. ~Spend("other")
    BY <1>1, UnspentStep DEF AInv, Events
  <2>3. CASE Tracked(t, i)
    <3>1. PICK d \in Checks : Keeps(d, t, i)
      BY <2>3 DEF Tracked, Keeps
    <3>2. ~Keeps(d, t, i)'
      BY <1>1 DEF Tracked, Keeps
    <3>3. Loses(d)
      BY <1>1, <3>1, <3>2, KeepsStep
    <3> QED BY <2>1, <3>3 DEF Loses, Crash, Events
  <2>4. CASE ~Tracked(t, i) /\ doc[t][i] = 0 /\ Unspent("external")
    <3>1. doc' # doc
      BY <1>1, <2>4
    <3>2. ~Cleaned
      BY <1>1, <2>4, CleanedEntries
    <3>3. ASSUME NEW c \in Checks, pc[c] = "put", Replace(c),
                 \/ Spend("server") \/ Spend("other")
                 \/ sync'[c] = [id |-> EntryId(obj[c]), gen |-> obj[c].gen]
          PROVE  left'["server"] # left["server"]
      <4>1. t = At(c, obj[c]) /\ i = EntryId(obj[c])
        BY <1>1, <2>4, <3>3, PutEntries
      <4>2. sync'[c] # [id |-> EntryId(obj[c]), gen |-> obj[c].gen]
        BY <1>1, <4>1, PlaceStep DEF Tracked, At
      <4> QED BY <2>1, <2>2, <3>3, <4>2 DEF Events
    <3>4. ~\E c \in Checks : pc[c] = "remove" /\ Shrink(c)
      BY <1>1, <2>4, RemoveEntries
    <3> QED BY <1>1, <3>1, <3>2, <3>3, <3>4, Edits
  <2> QED BY <2>3, <2>4
<1>2. IInv /\ AInv /\ [Next]_vars =>
        [OneController /\ Unspent("lag")' /\ Unspent("other")' =>
           \A t \in Clusters, i \in Ids \ {HandMade} :
             doc'[t][i] # 0 /\ ~Tracked(t, i)' =>
               \/ ~Tracked(t, i) /\ (doc[t][i] # 0 \/ ~Unspent("external"))
               \/ \E k \in {"server", "crash"} : left'[k] # left[k]
               \/ \E c \in Checks :
                    At(c, cr[c])' # At(c, cr[c]) \/ RecordsLate(c)]_vars
  BY <1>1
<1> QED BY <1>2, AloneInductive, PTL DEF Spec, OrphansOnlyByLoss
-----------------------------------------------------------------------------
(* Each resource as a mirror.  A step that keeps its life, its generation  *)
(* and what is being sent is no step of the mirror, if it keeps the claim; *)
(* one that ends the sending abandons, whatever becomes of the old claim.  *)
LEMMA MirrorStill ==
  ASSUME NEW c \in Checks, cr'[c] = cr[c], Sending(c)' = Sending(c)
  PROVE  UNCHANGED M(c)!vars
BY DEF M!vars, Life, Claimed, AlreadySynced

LEMMA MirrorAbandons ==
  ASSUME NEW c \in Checks, Life(c)' = Life(c), cr'[c].gen = cr[c].gen,
         Sending(c)' = 0, Claimed(c)' \in {0, Claimed(c)}
  PROVE  M(c)!Abandon
BY DEF M!Abandon

(* Nothing is claimed of a resource without the finalizer.                 *)
LEMMA ClaimsNeedHold ==
  ASSUME IInv, NEW c \in Checks, Each(c), ~cr[c].finalizer
  PROVE  Claimed(c) = 0
BY DEF Each, Hold, Claimed, AlreadySynced

LEMMA MirrorEnds ==
  ASSUME IInv, NEW c \in Checks, Each(c), Ends(c)
  PROVE  M(c)!Abandon
<1>1. Sending(c)' = 0
  BY DEF Ends, Returned, Sending
<1>2. CASE cr'[c] = cr[c]
  <2>1. Claimed(c)' = Claimed(c) /\ Life(c)' = Life(c)
    BY <1>2 DEF Claimed, AlreadySynced, Life
  <2> QED BY <1>1, <1>2, <2>1, MirrorAbandons
<1>3. CASE cr'[c] # cr[c]
  <2>1. obj[c] = cr[c] /\ cr[c] \in Mine
    BY <1>3, Shapes DEF Ends, Each, Copies
  <2>2. PICK n \in {Paused(cr[c]), Failing(cr[c])} : cr'[c] = n
    BY <1>3, <2>1 DEF Ends
  <2>3. /\ cr'[c].live = cr[c].live /\ cr'[c].gen = cr[c].gen
        /\ cr'[c].finalizer = cr[c].finalizer
        /\ cr'[c].deleting = cr[c].deleting
        /\ cr'[c].status.id = cr[c].status.id
        /\ \/ /\ cr'[c].status.obsGen = cr[c].status.obsGen
              /\ "Ready" \in cr'[c].status.conds
                   <=> "Ready" \in cr[c].status.conds
              /\ "Failed" \in cr'[c].status.conds
                   <=> "Failed" \in cr[c].status.conds
           \/ "Failed" \in cr'[c].status.conds
    BY <2>1, <2>2, ReportFields
  <2>4. Life(c)' = Life(c) /\ Claimed(c)' \in {0, Claimed(c)}
    BY <2>3 DEF Life, Claimed, AlreadySynced
  <2> QED BY <1>1, <2>3, <2>4, MirrorAbandons
<1> QED BY <1>2, <1>3

LEMMA MirrorGoes ==
  ASSUME IInv, NEW c \in Checks, Each(c), Goes(c)
  PROVE  M(c)!Send \/ UNCHANGED M(c)!vars
<1>1. cr' = cr
  BY DEF Goes
<1>2. CASE pc[c] = "put" /\ pc'[c] = "refetch"
  <2>1. sync'[c] = [id |-> EntryId(obj[c]), gen |-> obj[c].gen]
    BY <1>2 DEF Goes, Hops, CheckingDrift, Syncing, Getting, Deleting
  <2>2. Sending(c) = 0 /\ Sending(c)' = obj[c].gen
    BY <1>2, <2>1 DEF Sending
  <2>3. obj[c].gen \in 1 .. cr[c].gen
    <3>1. obj[c].gen <= cache[c].gen /\ cache[c].gen <= cr[c].gen
      BY <1>2 DEF Each, Order
    <3> QED BY <3>1, Numbers
  <2>4. cr[c].finalizer /\ cr[c].live
    BY <1>2 DEF Each, Hold, Pushing
  <2>5. Life(c) \in {"held", "condemned"}
    BY <2>4 DEF Life
  <2>6. Life(c)' = Life(c) /\ Claimed(c)' = Claimed(c)
    BY <1>1 DEF Life, Claimed, AlreadySynced
  <2> QED BY <1>1, <2>2, <2>3, <2>5, <2>6 DEF M!Send, M!Held
<1>3. CASE ~(pc[c] = "put" /\ pc'[c] = "refetch")
  <2>1. Sending(c)' = 0 /\ Sending(c) = 0
    BY <1>3 DEF Goes, Hops, CheckingDrift, Syncing, Getting, Deleting, Sending
  <2> QED BY <1>1, <2>1, MirrorStill
<1> QED BY <1>2, <1>3

LEMMA MirrorSets ==
  ASSUME IInv, NEW c \in Checks, Each(c), Sets(c)
  PROVE  M(c)!Next
<1>1. /\ obj[c] = cr[c] /\ cr[c] \in Mine /\ cr[c].live
      /\ sync[c] \in [id: 0 .. MaxId, gen: 0 .. MaxGen]
  <2>1. pc[c] # "idle" /\ c \notin behind
    BY DEF Sets
  <2> QED BY <2>1, Shapes DEF Each, Copies
<1>2. CASE /\ pc[c] = "fetched" /\ Returned(c) /\ ~obj[c].deleting
           /\ cr'[c] = Guarded(obj[c])
  <2>1. Sending(c) = 0 /\ Sending(c)' = 0
    BY <1>2 DEF Returned, Sending
  <2>2. /\ cr'[c].live /\ cr'[c].gen = cr[c].gen /\ cr'[c].finalizer
        /\ ~cr'[c].deleting /\ cr'[c].status = cr[c].status
    BY <1>1, <1>2, UpdateFields
  <2>3. Claimed(c)' = Claimed(c)
    BY <1>1, <2>2 DEF Claimed, AlreadySynced
  <2>4. Life(c)' = "held" /\ Life(c) \in {"open", "held"}
    BY <1>1, <1>2, <2>2 DEF Life
  <2> QED BY <2>1, <2>2, <2>3, <2>4
          DEF M!Next, M!Protect, M!Abandon
<1>3. CASE /\ pc[c] = "record" /\ Returned(c)
           /\ cr'[c] = Synced(obj[c], sync[c])
  <2>1. Sending(c) = sync[c].gen /\ Sending(c)' = 0
    BY <1>3 DEF Returned, Sending
  <2>2. /\ cr'[c].live /\ cr'[c].gen = cr[c].gen
        /\ cr'[c].finalizer = cr[c].finalizer
        /\ cr'[c].deleting = cr[c].deleting
        /\ cr'[c].status.id = sync[c].id
        /\ cr'[c].status.obsGen = sync[c].gen
    BY <1>1, <1>3, UpdateFields
  <2>3. /\ "Ready" \in cr'[c].status.conds
        /\ "Failed" \notin cr'[c].status.conds
    BY <1>1, <1>3 DEF Synced, Mine, Object, Status
  <2>4. Life(c)' = Life(c) /\ Life(c) \in {"held", "condemned"}
    BY <1>1, <1>3, <2>2 DEF Life, Each, Hold, Pushing
  <2>5. CASE sync[c].gen = cr[c].gen
    <3>1. sync[c].id # 0
      BY <1>3 DEF Each, Order, Told
    <3>2. Claimed(c)' = cr[c].gen
      BY <2>2, <2>3, <2>5, <3>1 DEF Claimed, AlreadySynced
    <3> QED BY <2>1, <2>2, <2>4, <2>5, <3>2 DEF M!Next, M!Claim, M!Held
  <2>6. CASE sync[c].gen # cr[c].gen
    <3>1. Claimed(c)' = 0
      BY <2>2, <2>6 DEF Claimed, AlreadySynced
    <3> QED BY <2>1, <2>2, <2>4, <3>1, MirrorAbandons DEF M!Next
  <2> QED BY <2>5, <2>6
<1>4. CASE pc[c] = "release" /\ Returned(c) /\ cr'[c] = Released(obj[c])
  <2>1. Sending(c) = 0 /\ Sending(c)' = 0
    BY <1>4 DEF Returned, Sending
  <2>2. ~cr'[c].live /\ cr'[c].gen = cr[c].gen
    BY <1>1, <1>4, UpdateFields
  <2>3. Life(c) = "condemned"
    BY <1>1, <1>4 DEF Life, Each, Hold
  <2>4. Life(c)' = "gone" /\ Claimed(c)' = 0
    BY <2>2 DEF Life, Claimed
  <2> QED BY <2>1, <2>2, <2>3, <2>4 DEF M!Next, M!Finish
<1>5. CASE /\ pc[c] = "drifted" /\ pc'[c] = "get"
           /\ cr'[c] = Forgotten(obj[c])
  <2>1. Sending(c)' = 0
    BY <1>5 DEF Sending
  <2>2. /\ cr'[c].live = cr[c].live /\ cr'[c].gen = cr[c].gen
        /\ cr'[c].finalizer = cr[c].finalizer
        /\ cr'[c].deleting = cr[c].deleting /\ cr'[c].status.id = 0
    <3>1. cr'[c] = Forgotten(cr[c])
      BY <1>1, <1>5
    <3>2. /\ Forgotten(cr[c]).live = cr[c].live
          /\ Forgotten(cr[c]).gen = cr[c].gen
          /\ Forgotten(cr[c]).finalizer = cr[c].finalizer
          /\ Forgotten(cr[c]).deleting = cr[c].deleting
          /\ Forgotten(cr[c]).status.id = 0
      BY <1>1, UpdateFields
    <3> QED BY <3>1, <3>2
  <2>3. Life(c)' = Life(c) /\ Claimed(c)' = 0
    BY <2>2 DEF Life, Claimed, AlreadySynced
  <2> QED BY <2>1, <2>2, <2>3, MirrorAbandons DEF M!Next
<1> QED BY <1>2, <1>3, <1>4, <1>5 DEF Sets
LEMMA MirrorWishes ==
  ASSUME IInv, NEW c \in Checks, Each(c), Wishes(c)
  PROVE  M(c)!Next \/ UNCHANGED M(c)!vars
<1>1. cr[c] \in Mine /\ cr[c].live /\ cr[c].gen \in Nat
  BY Shapes, Numbers DEF Wishes
<1>2. Sending(c)' = Sending(c)
  BY DEF Wishes, Sending
<1>3. CASE cr[c].gen < MaxGen /\ cr'[c] = [cr[c] EXCEPT !.gen = @ + 1]
  <2>1. /\ cr'[c].live = cr[c].live /\ cr'[c].gen = cr[c].gen + 1
        /\ cr'[c].finalizer = cr[c].finalizer
        /\ cr'[c].deleting = cr[c].deleting
        /\ cr'[c].status = cr[c].status
    BY <1>1, <1>3 DEF Mine, Object
  <2>2. Life(c)' = Life(c) /\ Life(c) # "gone"
    BY <1>1, <2>1 DEF Life
  <2>3. cr[c].status.obsGen <= cr[c].gen
    BY Numbers DEF Each, Order
  <2>4. Claimed(c)' = 0
    BY <1>1, <2>1, <2>3, Numbers DEF Claimed, AlreadySynced
  <2> QED BY <1>2, <1>3, <2>1, <2>2, <2>4 DEF M!Next, M!Edit
<1>4. CASE cr[c].finalizer /\ cr'[c] = [cr[c] EXCEPT !.deleting = TRUE]
  <2>1. /\ cr'[c].live = cr[c].live /\ cr'[c].gen = cr[c].gen
        /\ cr'[c].finalizer /\ cr'[c].deleting
        /\ cr'[c].status = cr[c].status
    BY <1>1, <1>4 DEF Mine, Object
  <2>2. Life(c)' = "condemned" /\ Life(c) \in {"held", "condemned"}
    BY <1>1, <1>4, <2>1 DEF Life
  <2>3. Claimed(c)' = Claimed(c)
    BY <2>1 DEF Claimed, AlreadySynced
  <2>4. CASE Life(c) = "held"
    BY <1>2, <2>1, <2>2, <2>3, <2>4 DEF M!Next, M!Delete
  <2>5. CASE Life(c) = "condemned"
    BY <1>2, <2>1, <2>2, <2>3, <2>5 DEF M!vars
  <2> QED BY <2>2, <2>4, <2>5
<1>5. CASE ~cr[c].finalizer /\ cr'[c] = [cr[c] EXCEPT !.live = FALSE]
  <2>1. ~cr'[c].live /\ cr'[c].gen = cr[c].gen
    BY <1>1, <1>5 DEF Mine, Object
  <2>2. Life(c) = "open" /\ Life(c)' = "gone"
    BY <1>1, <1>5, <2>1 DEF Life
  <2>3. Claimed(c) = 0 /\ Claimed(c)' = 0
    BY <1>5, <2>1, ClaimsNeedHold DEF Claimed
  <2> QED BY <1>2, <2>1, <2>2, <2>3 DEF M!Next, M!Delete
<1> QED BY <1>3, <1>4, <1>5 DEF Wishes

LEMMA MirrorReads ==
  ASSUME NEW c \in Checks, Reads(c) \/ Delivers(c) \/ Elsewhere
  PROVE  UNCHANGED M(c)!vars
<1>1. cr'[c] = cr[c] /\ sync'[c] = sync[c]
  BY DEF Reads, Delivers, Elsewhere
<1>2. Sending(c)' = Sending(c)
  BY <1>1 DEF Reads, Delivers, Elsewhere, Sending
<1> QED BY <1>1, <1>2, MirrorStill

LEMMA MirrorStep ==
  ASSUME IInv, AInv, [Next]_vars, NEW c \in Checks
  PROVE  M(c)!Next \/ UNCHANGED M(c)!vars
<1>1. Each(c)
  BY DEF AInv
<1>2. CASE Acts(c)
  BY <1>1, <1>2, MirrorEnds, MirrorGoes, MirrorSets, MirrorReads, MirrorWishes
     DEF Acts, M!Next
<1>3. ASSUME NEW d \in Checks \ {c}, Acts(d)
      PROVE  UNCHANGED M(c)!vars
  <2>1. Same(c)
    BY <1>3, FrameOf
  <2> QED BY <2>1, MirrorStill DEF Same, Sending
<1>4. CASE Elsewhere
  BY <1>4, MirrorReads
<1>5. CASE Crash
  <2>1. cr' = cr /\ pc'[c] = "idle"
    BY <1>5 DEF Crash
  <2>2. /\ Sending(c)' = 0 /\ cr'[c].gen = cr[c].gen
        /\ Life(c)' = Life(c) /\ Claimed(c)' = Claimed(c)
    BY <2>1 DEF Sending, Life, Claimed, AlreadySynced
  <2> QED BY <2>2, MirrorAbandons DEF M!Next
<1> QED BY <1>2, <1>3, <1>4, <1>5, Kinds

(* Every healthcheck resource is the subject of a mirror, however many     *)
(* resources and controllers overwrite the document they share: each is    *)
(* held before it is sent, and is claimed only as what its own PUT sent.   *)
THEOREM ImplementsMirror == Spec => Mirrors
<1> SUFFICES ASSUME NEW c \in Checks
             PROVE  Spec => M(c)!Spec
  BY Zenon DEF Mirrors
<1>1. Init => M(c)!Init
  BY HealthchecksAssumption
     DEF Init, Created, M!Init, Life, Claimed, AlreadySynced, Sending
<1>2. IInv /\ AInv /\ [Next]_vars => [M(c)!Next]_(M(c)!vars)
  BY MirrorStep
<1> QED BY <1>1, <1>2, AloneInductive, PTL DEF Spec, M!Spec
=============================================================================
