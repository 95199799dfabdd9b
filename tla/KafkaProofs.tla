---------------------------- MODULE KafkaProofs -----------------------------
(***************************************************************************)
(* Theorems of Kafka, for every value of its constants that the            *)
(* assumptions allow.                                                      *)
(***************************************************************************)
EXTENDS Kafka, TLAPS

(* The resource and its copies.                                            *)
KubeShape ==
  /\ {cr, cache, obj} \subseteq Object(Status)
  /\ cacheFresh \in BOOLEAN /\ objFresh \in BOOLEAN
  /\ queued \in BOOLEAN /\ timer \in BOOLEAN
  /\ left \in [Disturbances -> Nat]
  /\ setup \in Setups

(* The running pass, and what it calls.                                    *)
PassShape ==
  /\ pc \in {"idle", "fetched", "push", "refetch", "record", "release"}
  /\ syncGen \in 0 .. MaxGen
  /\ conn \in ConnStates
ServerShape ==
  /\ entries \in [Names -> {"none", "ours", "foreign"}]
  /\ config \in [Names -> [Keys -> 0 .. MaxGen]]

Shape == KubeShape /\ PassShape /\ ServerShape

(* How old the copies are.                                                 *)
Views ==
  /\ cacheFresh => cache = cr
  /\ objFresh => obj = cr

(* Generations are read, pushed and recorded in this order.                *)
Ordered ==
  /\ cache.gen <= cr.gen
  /\ pc # "idle" => obj.gen <= cache.gen
  /\ cr.status.obsGen <= cache.gen
  /\ syncGen <= cache.gen
  /\ pc \in {"fetched", "push"} => cr.status.obsGen <= obj.gen

(* The keys of generation g have their values, or their entry is gone.     *)
Stored(g) ==
  \/ entries[setup.names[g]] = "none"
  \/ \A k \in setup.keys[g] : config[setup.names[g]][k] = g

Claims(o) ==
  /\ "Ready" \in o.status.conds /\ "Failed" \notin o.status.conds
  /\ o.status.obsGen = o.gen

(* What was pushed is there until a newer generation is pushed, which is   *)
(* none while the newest is claimed.                                       *)
Backed ==
  /\ pc \in {"refetch", "record"} => syncGen \in 1 .. MaxGen /\ Stored(syncGen)
  /\ Claims(cr) => Stored(cr.gen)

(* The entry that generation g names is not somebody else's, unless g has  *)
(* its name from an edit.                                                  *)
Safe(g) == entries[setup.names[g]] = "foreign" => Renamed(g)

(* An entry somebody else made under the name of the resource is claimed   *)
(* by a rename only: its create is refused before anything is recorded.    *)
Unclaimed ==
  flavour # "acl" =>
    /\ cr.status.synced => Safe(cr.gen)
    /\ cache.status.synced => Safe(cache.gen)
    /\ obj.status.synced => Safe(obj.gen)
    /\ pc \in {"refetch", "record"} => Safe(syncGen)

IInv == Shape /\ Views /\ Ordered /\ Backed /\ Unclaimed

-----------------------------------------------------------------------------
(* What the operators return.                                              *)
LEMMA BoundTypes ==
  /\ MaxGen \in Nat \ {0} /\ 1 \in 1 .. MaxGen
  /\ {"server", "other", "crash", "lag", "external", "conn", "kube",
      "report", "pod"} = Disturbances
  BY BoundsAssumption DEF Disturbances

LEMMA SetupShape ==
  ASSUME setup \in Setups
  PROVE  /\ setup.names \in [1 .. MaxGen -> Names]
         /\ setup.keys \in [1 .. MaxGen -> SUBSET Keys]
         /\ setup.budget \in [Disturbances -> Nat]
  BY KafkaAssumption, BoundsAssumption

LEMMA CreatedShape ==
  /\ Created(NoStatus) \in Object(Status)
  /\ Created(NoStatus).gen = 1
  /\ ~Created(NoStatus).status.synced
  BY BoundTypes DEF Created, NoStatus, Object, Status

(* o and new differ in the finalizer, the life and the status only, and    *)
(* new claims nothing o does not.                                          *)
Report(o, new) ==
  /\ new \in Object(Status) /\ new.gen = o.gen
  /\ new.status.obsGen \in {o.status.obsGen, o.gen}
  /\ new.status.synced = o.status.synced
  /\ Claims(new) => Claims(o)

LEMMA Reports ==
  ASSUME NEW o \in Object(Status)
  PROVE  /\ Report(o, Guarded(o)) /\ Report(o, Released(o))
         /\ Report(o, Paused(o)) /\ Report(o, Failing(o))
<1>1. Report(o, Guarded(o)) /\ Report(o, Released(o))
  BY DEF Report, Guarded, Released, Object, Claims
<1>2. Report(o, Paused(o))
  BY DEF Report, Paused, Object, Status, Claims
<1>3. Report(o, Failing(o))
  BY BoundTypes DEF Report, Failing, Object, Status, Claims
<1> QED BY <1>1, <1>2, <1>3

LEMMA SyncedFields ==
  ASSUME NEW o \in Object(Status), syncGen \in 0 .. MaxGen
  PROVE  /\ Synced(o) \in Object(Status)
         /\ Synced(o).gen = o.gen
         /\ Synced(o).status.obsGen = syncGen
  BY DEF Synced, Object, Status

(* The POST or PUT of o stores all its keys, and touches one entry.        *)
LEMMA StoreEffect ==
  ASSUME Shape, NEW o \in Object(Status), StoreEntry(o)
  PROVE  /\ ServerShape'
         /\ setup' = setup => Stored(o.gen)'
         /\ \A n \in Names \ {Name(o)} :
              entries'[n] = entries[n] /\ config'[n] = config[n]
<1>1. o.gen \in 1 .. MaxGen /\ Name(o) \in Names /\ KeysOf(o) \subseteq Keys
  BY SetupShape DEF Shape, KubeShape, Object, Name, KeysOf
<1>2. Configured(o) \in [Keys -> 0 .. MaxGen]
  BY <1>1, BoundTypes DEF Configured, Shape, ServerShape, Defaults
<1>3. \A k \in KeysOf(o) : Configured(o)[k] = o.gen
  BY <1>1 DEF Configured
<1>4. ServerShape'
  BY <1>1, <1>2 DEF StoreEntry, Shape, ServerShape
<1>5. config'[Name(o)] = Configured(o)
  BY <1>1 DEF StoreEntry, Shape, ServerShape
<1>6. setup' = setup => Stored(o.gen)'
  BY <1>3, <1>5 DEF Stored, Name, KeysOf
<1>7. \A n \in Names \ {Name(o)} :
        entries'[n] = entries[n] /\ config'[n] = config[n]
  BY <1>1 DEF StoreEntry, Shape, ServerShape
<1> QED BY <1>4, <1>6, <1>7

(* Entry n is gone.                                                        *)
Gone(n) ==
  /\ entries' = [entries EXCEPT ![n] = "none"]
  /\ config' = [config EXCEPT ![n] = Defaults]

LEMMA GoneEffect ==
  ASSUME Shape, NEW n \in Names, Gone(n)
  PROVE  /\ ServerShape'
         /\ entries'[n] = "none"
         /\ \A m \in Names \ {n} :
              entries'[m] = entries[m] /\ config'[m] = config[m]
         /\ setup' = setup => \A g \in 1 .. MaxGen : Stored(g) => Stored(g)'
<1>1. Defaults \in [Keys -> 0 .. MaxGen]
  BY BoundTypes DEF Defaults
<1>2. /\ ServerShape'
      /\ entries'[n] = "none"
      /\ \A m \in Names \ {n} :
           entries'[m] = entries[m] /\ config'[m] = config[m]
  BY <1>1 DEF Gone, Shape, ServerShape
<1>3. ASSUME setup' = setup, NEW g \in 1 .. MaxGen, Stored(g)
      PROVE  Stored(g)'
  <2>1. setup.names[g] \in Names
    BY SetupShape DEF Shape, KubeShape
  <2> QED BY <1>2, <1>3, <2>1 DEF Stored
<1> QED BY <1>2, <1>3

-----------------------------------------------------------------------------
(* The kinds of steps.                                                     *)

(* What is left of the budget only shrinks; k is paid for.                 *)
Paying ==
  /\ left' \in [Disturbances -> Nat]
  /\ \A k \in Disturbances : left'[k] <= left[k]
Pays(k) == left'[k] # left[k]

LEMMA SpendPays ==
  ASSUME KubeShape
  PROVE  /\ left' = left => Paying
         /\ \A k \in Disturbances : Spend(k) => Paying /\ Pays(k)
         /\ \A ks \in SUBSET Disturbances :
              SpendAll(ks) => Paying /\ \A k \in ks : Pays(k)
<1>1. left \in [Disturbances -> Nat]
  BY DEF KubeShape
<1>2. left' = left => Paying
  BY <1>1 DEF Paying
<1>3. ASSUME NEW k \in Disturbances, Spend(k)
      PROVE  Paying /\ Pays(k)
  BY <1>1, <1>3 DEF Spend, Paying, Pays
<1>4. ASSUME NEW ks \in SUBSET Disturbances, SpendAll(ks)
      PROVE  Paying /\ \A k \in ks : Pays(k)
  BY <1>1, <1>4 DEF SpendAll, Paying, Pays
<1> QED BY <1>2, <1>3, <1>4

(* The server changes by the push of a pass, or by a deletion.             *)
Serves ==
  \/ UNCHANGED <<entries, config>>
  \/ pc = "push" /\ Accepts(obj) /\ StoreEntry(obj)
  \/ Deleting /\ Removes(obj) /\ Gone(Name(obj))

(* A pass reports what it has to, and ends.                                *)
Ends ==
  /\ pc # "idle" /\ pc' = "idle" /\ syncGen' = 0
  /\ \/ cr' = cr
     \/ objFresh /\ Report(obj, cr')
     \/ objFresh /\ pc = "record" /\ cr' = Synced(obj)
  /\ cacheFresh' \in BOOLEAN /\ (cacheFresh' => cacheFresh /\ cr' = cr)
  /\ obj' = Created(NoStatus) /\ objFresh' = FALSE /\ timer' \in BOOLEAN
  /\ cache' = cache /\ queued' = queued /\ setup' = setup /\ conn' = conn
  /\ Paying /\ Serves

(* A pass goes on.                                                         *)
GoesOn ==
  /\ UNCHANGED <<cr, cache, cacheFresh, timer, setup, conn>>
  /\ queued' \in BOOLEAN
  /\ Paying
  /\ \/ /\ obj' = cache /\ objFresh' = cacheFresh
        /\ \/ pc = "idle" /\ pc' = "fetched"
           \/ pc = "refetch" /\ pc' = "record"
        /\ UNCHANGED <<syncGen, entries, config>>
     \/ /\ pc = "idle"
        /\ UNCHANGED <<obj, objFresh, pc, syncGen, entries, config>>
     \/ /\ UNCHANGED <<obj, objFresh>>
        /\ \/ /\ pc = "fetched" /\ pc' \in {"push", "release"}
              /\ syncGen' = syncGen
           \/ /\ pc = "push" /\ pc' = "refetch" /\ syncGen' = obj.gen
              /\ ~Calls(obj) \/ (Accepts(obj) /\ StoreEntry(obj))
        /\ Serves

LEMMA ReturnEffect ==
  ASSUME NEW r \in BOOLEAN, Return(r)
  PROVE  /\ obj' = Created(NoStatus) /\ objFresh' = FALSE
         /\ timer' \in BOOLEAN /\ pc' = "idle" /\ syncGen' = 0
<1>1. timer' = (timer \/ r)
  BY DEF Return, Forget
<1>2. timer' \in BOOLEAN
  BY <1>1, Zenon
<1> QED BY <1>2 DEF Return, Forget

(* An update counts only with the newest version in hand; a cache that     *)
(* stays fresh saw no change.                                              *)
LEMMA WriteEffect ==
  ASSUME KubeShape, NEW new,
         \/ TryWrite(new) \/ TryStamp(new)
         \/ \E ks \in SUBSET Disturbances : TryReport(new, ks)
  PROVE  /\ cr' = cr \/ (objFresh /\ cr' = new)
         /\ cacheFresh' \in BOOLEAN
         /\ cacheFresh' => cacheFresh /\ cr' = cr
<1>1. CASE objFresh /\ TryWrite(new)
  <2>1. cr' = new /\ cacheFresh' = (cacheFresh /\ new = cr)
    BY <1>1 DEF TryWrite, Write
  <2> QED BY <1>1, <2>1, Zenon
<1>2. CASE objFresh /\ TryStamp(new)
  <2>1. cr' = new /\ cacheFresh' \in {FALSE, cacheFresh /\ new = cr}
    BY <1>2 DEF TryStamp
  <2> QED BY <1>2, <2>1, Zenon
<1>3. CASE UNCHANGED <<cr, cacheFresh>>
  BY <1>3 DEF KubeShape
<1>4. ~objFresh => (TryWrite(new) \/ TryStamp(new) =>
                      UNCHANGED <<cr, cacheFresh>>)
  BY DEF TryWrite, TryStamp
<1>5. \A ks : TryReport(new, ks) =>
        TryStamp(new) \/ UNCHANGED <<cr, cacheFresh>>
  BY DEF TryReport
<1> QED BY <1>1, <1>2, <1>3, <1>4, <1>5

(* A report pays for what it reports, and for its loss.                    *)
LEMMA ReportPays ==
  ASSUME KubeShape, NEW new, NEW ks \in SUBSET Disturbances,
         TryReport(new, ks)
  PROVE  Paying /\ \A k \in ks : Pays(k)
<1>1. ks \cup {"report"} \in SUBSET Disturbances
  BY BoundTypes
<1> QED BY <1>1, SpendPays DEF TryReport

LEMMA RemovalIsGone ==
  ASSUME NEW o, RemoveEntry(o)
  PROVE  Gone(Name(o))
  BY DEF RemoveEntry, Gone

LEMMA EndSteps ==
  ASSUME Shape,
         \/ AddFinalizer \/ SkipPaused \/ ResolveFails \/ SkipSynced
         \/ PushRefused \/ Record \/ DeleteUnresolved \/ Release
         \/ PushFails("server") \/ PushFails("other")
         \/ DeleteFails("server")
  PROVE  Ends
<1>0. /\ KubeShape /\ obj \in Object(Status)
      /\ ("server" = "server") \in BOOLEAN /\ ("other" = "server") \in BOOLEAN
      /\ (~objFresh) \in BOOLEAN
  BY DEF Shape, KubeShape
<1>1. CASE AddFinalizer \/ SkipPaused \/ Release
  <2>1. /\ pc \in {"fetched", "release"} /\ Return(~objFresh)
        /\ \/ TryWrite(Guarded(obj)) \/ TryWrite(Paused(obj))
           \/ TryWrite(Released(obj))
        /\ UNCHANGED <<cache, queued, left, setup, entries, config, conn>>
    BY <1>1 DEF AddFinalizer, SkipPaused, Release, Syncing
  <2>2. cr' = cr \/ (objFresh /\ Report(obj, cr'))
    BY <1>0, <2>1, WriteEffect, Reports
  <2> QED BY <1>0, <2>1, <2>2, ReturnEffect, WriteEffect, SpendPays
          DEF Ends, Serves
<1>2. CASE ResolveFails \/ PushRefused
  <2>1. /\ pc \in {"fetched", "push"} /\ (\E r \in BOOLEAN : Return(r))
        /\ TryReport(Failing(obj), {})
        /\ UNCHANGED <<cache, queued, setup, entries, config, conn>>
    BY <1>2 DEF ResolveFails, PushRefused, Syncing
  <2>2. /\ {} \in SUBSET Disturbances
        /\ \E ks \in SUBSET Disturbances : TryReport(Failing(obj), ks)
    BY <2>1
  <2>3. cr' = cr \/ (objFresh /\ Report(obj, cr'))
    BY <1>0, <2>1, <2>2, WriteEffect, Reports
  <2> QED BY <1>0, <2>1, <2>2, <2>3, ReturnEffect, WriteEffect, ReportPays
          DEF Ends, Serves
<1>3. CASE SkipSynced \/ DeleteUnresolved
  <2>1. /\ pc = "fetched" /\ (\E r \in BOOLEAN : Return(r))
        /\ UNCHANGED <<cr, cache, cacheFresh, queued, left, setup, entries,
                       config, conn>>
    BY <1>3 DEF SkipSynced, DeleteUnresolved, Syncing, Deleting
  <2> QED BY <1>0, <2>1, ReturnEffect, SpendPays DEF Ends, Serves, KubeShape
<1>4. CASE Record
  <2>1. /\ pc = "record" /\ Return(~objFresh) /\ TryStamp(Synced(obj))
        /\ UNCHANGED <<cache, queued, left, setup, entries, config, conn>>
    BY <1>4 DEF Record
  <2> QED BY <1>0, <2>1, ReturnEffect, WriteEffect, SpendPays DEF Ends, Serves
<1>5. ASSUME NEW k \in {"server", "other"}, PushFails(k)
      PROVE  Ends
  <2>1. /\ pc = "push" /\ (\E r \in BOOLEAN : Return(r))
        /\ {k} \in SUBSET Disturbances /\ TryReport(Failing(obj), {k})
        /\ (Accepts(obj) /\ StoreEntry(obj)) \/ UNCHANGED <<entries, config>>
        /\ UNCHANGED <<cache, queued, setup, conn>>
    BY <1>0, <1>5, BoundTypes DEF PushFails
  <2>2. cr' = cr \/ (objFresh /\ Report(obj, cr'))
    BY <1>0, <2>1, WriteEffect, Reports
  <2> QED BY <1>0, <2>1, <2>2, ReturnEffect, WriteEffect, ReportPays
          DEF Ends, Serves
<1>6. CASE DeleteFails("server")
  <2>1. /\ pc = "fetched" /\ Deleting /\ Removes(obj) /\ Spend("server")
        /\ RemoveEntry(obj) \/ UNCHANGED <<entries, config>>
        /\ Return(TRUE)
        /\ UNCHANGED <<cr, cache, cacheFresh, queued, setup, conn>>
    BY <1>6 DEF DeleteFails, Deleting
  <2> QED BY <1>0, <2>1, ReturnEffect, RemovalIsGone, BoundTypes, SpendPays
          DEF Ends, Serves, KubeShape
<1> QED BY <1>1, <1>2, <1>3, <1>4, <1>5, <1>6

LEMMA GoesOnSteps ==
  ASSUME Shape,
         \/ Fetch \/ Resolve \/ Push \/ NothingToPush \/ Refetch
         \/ DeleteEntry \/ DeleteFails("other")
  PROVE  GoesOn
<1> USE DEF Shape, KubeShape, GoesOn, Serves
<1>1. CASE Fetch \/ Refetch
  <2>1. ReadCache => Paying /\ obj' = cache /\ objFresh' = cacheFresh
    BY BoundTypes, SpendPays DEF ReadCache
  <2> QED BY <1>1, <2>1, SpendPays DEF Fetch, Refetch
<1>2. CASE Resolve
  BY <1>2, SpendPays DEF Resolve, Syncing, kubeVars
<1>3. CASE Push \/ NothingToPush
  BY <1>3, SpendPays DEF Push, NothingToPush, kubeVars
<1>4. CASE DeleteEntry
  BY <1>4, RemovalIsGone, SpendPays DEF DeleteEntry, Deleting, kubeVars
<1>5. CASE DeleteFails("other")
  BY <1>5, RemovalIsGone, BoundTypes, SpendPays DEF DeleteFails, Deleting
<1> QED BY <1>1, <1>2, <1>3, <1>4, <1>5

LEMMA ReconcileSteps ==
  ASSUME Shape, Reconcile
  PROVE  Ends \/ GoesOn
  BY EndSteps, GoesOnSteps
     DEF Reconcile, TopicSteps, ConnectorSteps, AclSteps, CommonSteps,
         Deletion

(* What happens around a pass: a new version keeps the status; a copy is   *)
(* left alone, dropped, or brought up to date; the server loses an entry   *)
(* to somebody else's hand at most.                                        *)
Around ==
  /\ cr' \in Object(Status) /\ cr'.status = cr.status
  /\ cr'.gen = cr.gen \/ cr'.gen = cr.gen + 1
  /\ cache' = cache \/ cache' = cr'
  /\ cacheFresh' \in BOOLEAN /\ (cacheFresh' => cache' = cr')
  /\ objFresh' \in BOOLEAN /\ (objFresh' => obj' = cr')
  /\ \/ UNCHANGED <<obj, pc, syncGen>>
     \/ pc' = "idle" /\ syncGen' = 0 /\ obj' = Created(NoStatus)
  /\ queued' \in BOOLEAN /\ timer' \in BOOLEAN /\ Paying
  /\ setup' = setup /\ conn' \in ConnStates
  /\ \/ UNCHANGED <<entries, config>>
     \/ Pays("external") /\ \E n \in Names : Gone(n)

LEMMA EnvironmentSteps ==
  ASSUME Shape, Views, Environment
  PROVE  Around
<1> USE SpendPays DEF Shape, KubeShape, PassShape, Views, Around
<1>1. CASE KubeEnvironment /\ UNCHANGED ownVars
  <2>1. CASE UserEdits
    <3>1. /\ Edited(cr) \in Object(Status) /\ Edited(cr).status = cr.status
          /\ Edited(cr).gen = cr.gen + 1
      BY <2>1, BoundTypes DEF UserEdits, Edited, Object
    <3> QED BY <1>1, <2>1, <3>1 DEF UserEdits, Overwrite, ownVars
  <2>2. CASE UserDeletes
    <3>1. /\ Condemned(cr) \in Object(Status)
          /\ Condemned(cr).status = cr.status /\ Condemned(cr).gen = cr.gen
      BY DEF Condemned, Object
    <3> QED BY <1>1, <2>2, <3>1 DEF UserDeletes, Overwrite, ownVars
  <2>3. CASE WatchDelivers
    BY <1>1, <2>3 DEF WatchDelivers, ownVars
  <2>4. CASE TimerFires \/ Resync
    <3>1. /\ UNCHANGED <<cr, cache, cacheFresh, obj, objFresh, left, ownVars>>
          /\ queued' = TRUE /\ timer' \in {FALSE, timer}
      BY <1>1, <2>4 DEF TimerFires, Resync
    <3>2. /\ cr' \in Object(Status) /\ cacheFresh' \in BOOLEAN
          /\ objFresh' \in BOOLEAN /\ timer' \in BOOLEAN
          /\ conn' \in ConnStates
      BY <3>1 DEF ownVars
    <3> QED BY <3>1, <3>2 DEF ownVars
  <2> QED BY <1>1, <2>1, <2>2, <2>3, <2>4 DEF KubeEnvironment
<1>2. CASE Crash
  BY <1>2, BoundTypes DEF Crash, Restart
<1>3. CASE ConnChanges
  BY <1>3, BoundTypes DEF ConnChanges
<1>4. CASE ExternalDelete
  BY <1>4, BoundTypes DEF ExternalDelete, Gone
<1> QED BY <1>1, <1>2, <1>3, <1>4 DEF Environment

LEMMA NextSteps ==
  ASSUME Shape, Views, [Next]_vars
  PROVE  Ends \/ GoesOn \/ Around \/ UNCHANGED vars
  BY ReconcileSteps, EnvironmentSteps DEF Next

-----------------------------------------------------------------------------
(* The invariant is preserved.                                             *)

LEMMA PayingShape ==
  ASSUME Shape, Paying
  PROVE  left' \in [Disturbances -> Nat]
  BY DEF Paying

(* What a push or a deletion leaves of the server.                         *)
LEMMA ServesEffect ==
  ASSUME Shape, Serves
  PROVE  ServerShape'
<1>1. obj \in Object(Status) /\ Name(obj) \in Names
  BY SetupShape DEF Shape, KubeShape, Object, Name
<1> QED BY <1>1, StoreEffect, GoneEffect DEF Serves, Shape, ServerShape

LEMMA ShapeStep ==
  ASSUME Shape, Views, Ends \/ GoesOn \/ Around
  PROVE  Shape'
<1>1. /\ obj \in Object(Status) /\ obj.gen \in 0 .. MaxGen
      /\ 0 \in 0 .. MaxGen
  BY BoundTypes DEF Shape, KubeShape, Object
<1>2. CASE Ends
  <2>1. cr' \in Object(Status)
    BY <1>1, <1>2, SyncedFields DEF Ends, Report, Shape, KubeShape, PassShape
  <2> QED BY <1>1, <1>2, <2>1, PayingShape, ServesEffect, CreatedShape
          DEF Ends, Shape, KubeShape, PassShape
<1>3. CASE GoesOn
  <2>1. ServerShape'
    BY <1>3, ServesEffect DEF GoesOn, Shape, ServerShape
  <2> QED BY <1>1, <1>3, <2>1, PayingShape
          DEF GoesOn, Shape, KubeShape, PassShape
<1>4. CASE Around
  <2>1. ServerShape'
    BY <1>4, GoneEffect DEF Around, Shape, ServerShape
  <2> QED BY <1>1, <1>4, <2>1, PayingShape, CreatedShape
          DEF Around, Shape, KubeShape, PassShape
<1> QED BY <1>2, <1>3, <1>4

LEMMA ViewsStep ==
  ASSUME Shape, Views, Ends \/ GoesOn \/ Around
  PROVE  Views'
  BY DEF Views, Ends, GoesOn, Around, Shape, KubeShape

LEMMA OrderedStep ==
  ASSUME Shape, Views, Ordered, Ends \/ GoesOn \/ Around
  PROVE  Ordered'
<1>1. /\ cr.gen \in Nat /\ cache.gen \in Nat /\ obj.gen \in Nat
      /\ cr.status.obsGen \in Nat /\ syncGen \in Nat
      /\ obj \in Object(Status)
  BY BoundTypes DEF Shape, KubeShape, PassShape, Object, Status
<1>2. CASE Ends
  <2>1. cr'.gen = cr.gen /\ cr'.status.obsGen <= cache.gen
    BY <1>1, <1>2, SyncedFields
       DEF Ends, Report, Ordered, Views, Shape, PassShape
  <2> QED BY <1>1, <1>2, <2>1 DEF Ends, Ordered
<1>3. CASE GoesOn
  BY <1>1, <1>3 DEF GoesOn, Ordered
<1>4. CASE Around
  <2>1. /\ cr'.gen \in Nat /\ cr'.gen >= cr.gen /\ cr'.status = cr.status
        /\ cache' = cache \/ cache' = cr'
        /\ \/ UNCHANGED <<obj, pc, syncGen>>
           \/ pc' = "idle" /\ syncGen' = 0
    BY <1>1, <1>4 DEF Around
  <2>2. cache'.gen <= cr'.gen /\ cache'.gen >= cache.gen
        /\ cache'.gen \in Nat
    BY <1>1, <2>1 DEF Ordered
  <2> QED BY <1>1, <2>1, <2>2 DEF Ordered
<1> QED BY <1>2, <1>3, <1>4

(* While the newest generation is claimed, a pass pushes that or nothing,  *)
(* and what is claimed of it stays true.                                   *)
LEMMA ClaimKept ==
  ASSUME Shape, Ordered, Serves, setup' = setup, Claims(cr),
         NEW g, g = cr.gen, Stored(g)
  PROVE  Stored(g)'
<1>1. /\ obj \in Object(Status) /\ Name(obj) \in Names
      /\ cr.gen \in 1 .. MaxGen
      /\ cr.gen \in Nat /\ cache.gen \in Nat /\ obj.gen \in Nat
  BY SetupShape, BoundTypes DEF Shape, KubeShape, Object, Name
<1>2. CASE UNCHANGED <<entries, config>>
  BY <1>2 DEF Stored
<1>3. CASE pc = "push" /\ StoreEntry(obj)
  <2>1. obj.gen = cr.gen
    BY <1>1, <1>3 DEF Ordered, Claims
  <2> QED BY <1>1, <1>3, <2>1, StoreEffect
<1>4. CASE Gone(Name(obj))
  BY <1>1, <1>4, GoneEffect
<1> QED BY <1>2, <1>3, <1>4 DEF Serves

LEMMA BackedStep ==
  ASSUME Shape, Views, Ordered, Backed, Ends \/ GoesOn \/ Around
  PROVE  Backed'
<1>1. /\ obj \in Object(Status) /\ cr \in Object(Status)
      /\ obj.gen \in 1 .. MaxGen /\ cr.gen \in 1 .. MaxGen
      /\ cr.gen \in Nat /\ cache.gen \in Nat /\ cr.status.obsGen \in Nat
  BY BoundTypes DEF Shape, KubeShape, Object, Status
<1>2. CASE Ends
  <2>1. pc' = "idle" /\ setup' = setup
    BY <1>2 DEF Ends
  <2>2. CASE cr' = cr \/ (objFresh /\ Report(obj, cr'))
    <3>1. cr'.gen = cr.gen /\ (Claims(cr') => Claims(cr))
      BY <2>2 DEF Report, Views
    <3>2. ASSUME Claims(cr'), NEW g, g = cr'.gen
          PROVE  Stored(g)'
      <4>1. Claims(cr) /\ g = cr.gen /\ Stored(g)
        BY <3>1, <3>2 DEF Backed
      <4> QED BY <1>2, <4>1, ClaimKept DEF Ends
    <3> QED BY <2>1, <3>2 DEF Backed, Claims, Stored
  <2>3. CASE objFresh /\ pc = "record" /\ cr' = Synced(obj)
    <3>1. UNCHANGED <<entries, config>>
      BY <1>2, <2>3 DEF Ends, Serves, Deleting
    <3>2. Claims(cr') => cr'.gen = syncGen
      BY <1>1, <2>3, SyncedFields DEF Claims, Shape, PassShape
    <3> QED BY <2>1, <2>3, <3>1, <3>2 DEF Backed, Claims, Stored
  <2> QED BY <1>2, <2>2, <2>3 DEF Ends
<1>3. CASE GoesOn
  <2>1. setup' = setup /\ cr' = cr
    BY <1>3 DEF GoesOn
  <2>2. ASSUME Claims(cr), NEW g, g = cr.gen
        PROVE  Stored(g)'
    <3>1. Serves
      BY <1>3 DEF GoesOn, Serves
    <3> QED BY <2>1, <2>2, <3>1, ClaimKept DEF Backed
  <2>3. ASSUME pc' \in {"refetch", "record"}
        PROVE  syncGen' \in 1 .. MaxGen /\ Stored(syncGen)'
    <3>1. CASE pc \in {"refetch", "record"}
      BY <1>3, <2>1, <2>3, <3>1 DEF GoesOn, Backed, Stored
    <3>2. CASE pc \notin {"refetch", "record"}
      <4>1. /\ pc = "push" /\ syncGen' = obj.gen
            /\ ~Calls(obj) \/ StoreEntry(obj)
            /\ ~Calls(obj) => UNCHANGED <<entries, config>> \/ StoreEntry(obj)
        BY <1>3, <2>3, <3>2 DEF GoesOn, Serves, Deleting
      <4>2. CASE StoreEntry(obj)
        <5>1. \A g : g = obj.gen => Stored(g)'
          BY <1>1, <2>1, <4>2, StoreEffect
        <5> QED BY <1>1, <4>1, <5>1 DEF Stored
      <4>3. CASE ~Calls(obj) /\ UNCHANGED <<entries, config>>
        BY <1>1, <2>1, <4>1, <4>3 DEF Calls, KeysOf, Stored
      <4> QED BY <4>1, <4>2, <4>3
    <3> QED BY <3>1, <3>2
  <2> QED BY <2>1, <2>2, <2>3 DEF Backed, Claims, Stored
<1>4. CASE Around
  <2>1. \A g \in 1 .. MaxGen : Stored(g) => Stored(g)'
    BY <1>4, GoneEffect DEF Around, Stored
  <2>2. Claims(cr') => Claims(cr) /\ cr'.gen = cr.gen
    BY <1>1, <1>4 DEF Around, Claims, Ordered
  <2>3. Claims(cr)' => Stored(cr.gen)'
    <3>1. ASSUME Claims(cr'), NEW g, g = cr'.gen
          PROVE  Stored(g)'
      BY <1>1, <2>1, <2>2, <3>1 DEF Backed
    <3> QED BY <3>1 DEF Claims, Stored
  <2>4. pc' \in {"refetch", "record"} =>
          syncGen' \in 1 .. MaxGen /\ Stored(syncGen)'
    BY <1>4, <2>1 DEF Around, Backed, Stored
  <2> QED BY <2>3, <2>4 DEF Backed
<1> QED BY <1>2, <1>3, <1>4

(* A pass for a generation that has always named a foreign entry claims    *)
(* nothing: its create is refused, and there is nothing to delete.         *)
LEMMA ForeignShape ==
  ASSUME Shape, Serves, flavour # "acl", Unclaimed, ~Safe(obj.gen)
  PROVE  /\ UNCHANGED <<entries, config>>
         /\ pc = "push" => Calls(obj) /\ ~Accepts(obj)
<1>1. ~obj.status.synced
  BY DEF Unclaimed
<1>2. Creates(obj) /\ Calls(obj) /\ ~Removes(obj)
  BY <1>1 DEF Creates, Calls, Removes
<1>3. entries[Name(obj)] = "foreign"
  BY DEF Safe, Name
<1>4. ~Accepts(obj)
  BY <1>2, <1>3 DEF Accepts
<1> QED BY <1>2, <1>4 DEF Serves

(* What is safe for a generation is so for every later one: that has       *)
(* another name, by an edit, or the same.                                  *)
LEMMA SafeLater ==
  ASSUME NEW g \in Nat, NEW h \in Nat, g <= h, g >= 1, Safe(g)
  PROVE  Safe(h)
<1>1. SUFFICES ASSUME entries[setup.names[h]] = "foreign", ~Renamed(h)
               PROVE  FALSE
  BY DEF Safe
<1>2. \A i \in 1 .. h : setup.names[i] = setup.names[h]
  BY <1>1 DEF Renamed
<1>3. \A i \in 1 .. g : i \in 1 .. h
  OBVIOUS
<1>4. setup.names[g] = setup.names[h]
  BY <1>2
<1>5. ~Renamed(g)
  BY <1>2, <1>3, <1>4 DEF Renamed
<1> QED BY <1>1, <1>4, <1>5 DEF Safe

(* No step makes an entry foreign.                                         *)
LEMMA NoNewForeign ==
  ASSUME Shape, Ends \/ GoesOn \/ Around, NEW n \in Names,
         entries'[n] = "foreign"
  PROVE  entries[n] = "foreign"
<1>1. obj \in Object(Status) /\ Name(obj) \in Names
  BY SetupShape DEF Shape, KubeShape, Object, Name
<1>2. StoreEntry(obj) => entries[n] = "foreign"
  BY <1>1 DEF StoreEntry, Shape, ServerShape
<1>3. ASSUME NEW m \in Names, Gone(m)
      PROVE  entries[n] = "foreign"
  BY <1>3 DEF Gone, Shape, ServerShape
<1>4. Serves => entries[n] = "foreign"
  BY <1>1, <1>2, <1>3 DEF Serves
<1>5. GoesOn => Serves
  BY DEF GoesOn, Serves
<1> QED BY <1>3, <1>4, <1>5 DEF Ends, Around

LEMMA UnclaimedStep ==
  ASSUME Shape, Views, Ordered, Backed, Unclaimed, Ends \/ GoesOn \/ Around
  PROVE  Unclaimed'
<1> DEFINE Fine(g) == entries'[setup.names[g]] = "foreign" => Renamed(g)
<1>1. setup' = setup /\ (flavour' # "acl" => flavour # "acl")
  BY DEF Ends, GoesOn, Around, flavour
<1>2. SUFFICES ASSUME flavour # "acl"
               PROVE  /\ cr'.status.synced => Fine(cr'.gen)
                      /\ cache'.status.synced => Fine(cache'.gen)
                      /\ obj'.status.synced => Fine(obj'.gen)
                      /\ pc' \in {"refetch", "record"} => Fine(syncGen')
  BY <1>1 DEF Unclaimed, Safe, Renamed
<1>3. /\ cr.gen \in 1 .. MaxGen /\ cache.gen \in 1 .. MaxGen
      /\ obj.gen \in 1 .. MaxGen /\ obj \in Object(Status)
      /\ cr \in Object(Status) /\ MaxGen \in Nat
  BY BoundTypes DEF Shape, KubeShape, Object
<1>4. \A g \in 1 .. MaxGen : Safe(g) => Fine(g)
  BY SetupShape, NoNewForeign DEF Safe, Shape, KubeShape
<1>5. /\ cr.status.synced => Safe(cr.gen)
      /\ cache.status.synced => Safe(cache.gen)
      /\ obj.status.synced => Safe(obj.gen)
      /\ pc \in {"refetch", "record"} =>
           Safe(syncGen) /\ syncGen \in 1 .. MaxGen
  BY <1>2 DEF Unclaimed, Backed
<1>6. CASE Ends
  <2>1. /\ cache' = cache /\ ~obj'.status.synced
        /\ pc' \notin {"refetch", "record"}
    BY <1>6, CreatedShape DEF Ends
  <2>2. CASE cr' = cr
    BY <1>3, <1>4, <1>5, <2>1, <2>2
  <2>3. CASE objFresh /\ Report(obj, cr')
    BY <1>3, <1>4, <1>5, <2>1, <2>3 DEF Report
  <2>4. CASE objFresh /\ pc = "record" /\ cr' = Synced(obj)
    <3>1. cr'.gen = obj.gen /\ obj = cr
      BY <1>3, <2>4 DEF Synced, Object, Views
    <3>2. syncGen <= obj.gen
      BY <1>3, <1>5, <2>4, <3>1 DEF Ordered
    <3>3. Safe(obj.gen)
      BY <1>3, <1>5, <2>4, <3>2, SafeLater
    <3> QED BY <1>3, <1>4, <1>5, <2>1, <3>1, <3>3
  <2> QED BY <1>6, <2>2, <2>3, <2>4 DEF Ends
<1>7. CASE GoesOn
  <2>1. cr' = cr /\ cache' = cache /\ obj' \in {obj, cache} /\ Serves
    BY <1>7 DEF GoesOn, Serves
  <2>2. /\ cr'.status.synced => Fine(cr'.gen)
        /\ cache'.status.synced => Fine(cache'.gen)
        /\ obj'.status.synced => Fine(obj'.gen)
    BY <1>3, <1>4, <1>5, <2>1
  <2>3. ASSUME pc' \in {"refetch", "record"}
        PROVE  Fine(syncGen')
    <3>1. CASE pc = "refetch" /\ syncGen' = syncGen
      BY <1>4, <1>5, <3>1
    <3>2. CASE /\ pc = "push" /\ syncGen' = obj.gen
               /\ ~Calls(obj) \/ (Accepts(obj) /\ StoreEntry(obj))
      <4>1. Safe(obj.gen)
        BY <1>2, <2>1, <3>2, ForeignShape
      <4> QED BY <1>3, <1>4, <3>2, <4>1
    <3> QED BY <1>7, <2>3, <3>1, <3>2 DEF GoesOn
  <2> QED BY <2>2, <2>3
<1>8. CASE Around
  <2>1. /\ cr'.status = cr.status /\ cr'.gen \in 1 .. MaxGen
        /\ cr'.gen >= cr.gen
    BY <1>3, <1>8 DEF Around, Object
  <2>2. cr'.status.synced => Fine(cr'.gen)
    BY <1>3, <1>4, <1>5, <2>1, SafeLater
  <2>3. cache'.status.synced => Fine(cache'.gen)
    BY <1>3, <1>4, <1>5, <1>8, <2>2 DEF Around
  <2>4. /\ obj'.status.synced => Fine(obj'.gen)
        /\ pc' \in {"refetch", "record"} => Fine(syncGen')
    BY <1>3, <1>4, <1>5, <1>8, CreatedShape DEF Around
  <2> QED BY <2>2, <2>3, <2>4
<1> QED BY <1>6, <1>7, <1>8

LEMMA InitInvariant ==
  ASSUME Init
  PROVE  IInv
<1>1. /\ cr = Created(NoStatus) /\ cache = cr /\ obj = cr
      /\ setup \in Setups /\ left = setup.budget
  BY DEF Init, KubeInit
<1>2. Shape
  <2>1. KubeShape
    BY <1>1, CreatedShape, SetupShape DEF Init, KubeInit, KubeShape
  <2>2. PassShape
    BY BoundTypes DEF Init, PassShape
  <2>3. Defaults \in [Keys -> 0 .. MaxGen]
    BY BoundTypes DEF Defaults
  <2>4. ServerShape
    BY <2>3 DEF Init, ServerShape
  <2> QED BY <2>1, <2>2, <2>4 DEF Shape
<1>3. Views /\ Ordered
  BY <1>1, CreatedShape, BoundTypes
     DEF Init, KubeInit, Views, Ordered, Created, NoStatus
<1>4. Backed
  BY <1>1 DEF Init, Backed, Claims, Created, NoStatus
<1>5. Unclaimed
  BY <1>1, CreatedShape DEF Init, Unclaimed
<1> QED BY <1>2, <1>3, <1>4, <1>5 DEF IInv

LEMMA NextInvariant ==
  ASSUME IInv, [Next]_vars
  PROVE  IInv'
<1>1. CASE Ends \/ GoesOn \/ Around
  BY <1>1, ShapeStep, ViewsStep, OrderedStep, BackedStep, UnclaimedStep
     DEF IInv
<1>2. CASE UNCHANGED vars
  BY <1>2 DEF IInv, Shape, KubeShape, PassShape, ServerShape, Views, Ordered,
     Backed, Claims, Stored, Unclaimed, Safe, Renamed, flavour, vars,
     kubeVars, ownVars
<1> QED BY <1>1, <1>2, NextSteps DEF IInv

LEMMA Invariance == Spec => []IInv
  BY InitInvariant, NextInvariant, PTL DEF Spec

-----------------------------------------------------------------------------
(* Every variable keeps its type: the status update and the server never   *)
(* hold a generation the user did not submit.                              *)
THEOREM TypeCorrect == Spec => []TypeOK
<1>1. IInv => TypeOK
  BY DEF IInv, Shape, KubeShape, PassShape, ServerShape, TypeOK
<1> QED BY <1>1, Invariance, PTL

(* Ready for the current generation means that its keys are in the cluster *)
(* although the generation is read, pushed and recorded in three steps,    *)
(* with edits, stale reads, crashes and lost answers between them.         *)
THEOREM ReadyMeansPushed == Spec => []ReadyIsPushed
<1>1. IInv => ReadyIsPushed
  BY DEF IInv, Backed, Claims, Stored, ReadyIsPushed, AlreadySynced, Name,
     KeysOf
<1> QED BY <1>1, Invariance, PTL

(* A topic or connector of somebody else is left alone by every step of    *)
(* the reconcilers, but for a pass whose spec names it and had another     *)
(* name before.                                                            *)
THEOREM ForeignStays == Spec => ForeignUntouched
<1>1. ASSUME IInv, [Next]_vars, flavour # "acl",
             NEW n \in Names, entries[n] = "foreign"
      PROVE  \/ entries'[n] = "foreign" /\ config'[n] = config[n]
             \/ left'["external"] # left["external"]
             \/ Name(obj) = n /\ Renamed(obj.gen)
  <2>0. Shape /\ Views /\ Unclaimed /\ "external" \in Disturbances
    BY <1>1, BoundTypes DEF IInv
  <2>1. obj \in Object(Status) /\ Name(obj) \in Names
    BY <2>0, SetupShape DEF Shape, KubeShape, Object, Name
  <2>2. CASE Serves
    <3>1. CASE n = Name(obj) /\ ~Renamed(obj.gen)
      <4>1. ~Safe(obj.gen)
        BY <1>1, <3>1 DEF Safe, Name
      <4> QED BY <1>1, <2>0, <2>2, <4>1, ForeignShape
    <3>2. CASE n # Name(obj)
      BY <1>1, <2>0, <2>1, <2>2, <3>2, StoreEffect, GoneEffect DEF Serves
    <3> QED BY <3>1, <3>2
  <2>3. CASE Around
    BY <1>1, <2>3 DEF Around, Pays
  <2>4. CASE UNCHANGED vars
    BY <1>1, <2>4 DEF vars, ownVars
  <2>5. Ends \/ GoesOn => Serves
    BY DEF Ends, GoesOn, Serves
  <2> QED BY <1>1, <2>0, <2>2, <2>3, <2>4, <2>5, NextSteps
<1>2. IInv /\ [Next]_vars =>
        [flavour # "acl" =>
           \A n \in Names : entries[n] = "foreign" =>
             \/ entries'[n] = "foreign" /\ config'[n] = config[n]
             \/ left'["external"] # left["external"]
             \/ Name(obj) = n /\ Renamed(obj.gen)]_vars
  BY <1>1
<1> QED BY <1>2, Invariance, PTL DEF Spec, ForeignUntouched
-----------------------------------------------------------------------------
(* Who removes a created entry from sight.                                 *)

(* No budget is overdrawn.                                                 *)
Counted == \A k \in Disturbances : left[k] <= setup.budget[k]

Sync == {"push", "refetch", "record"}

(* No copy gets ahead of the resource in life and deletion.                *)
Seen ==
  /\ cr.live => cache.live
  /\ cache.deleting => cr.deleting
  /\ pc # "idle" => obj.live /\ (obj.deleting => cache.deleting)

(* The finalizer keeps the resource while somebody relies on it: a         *)
(* reader, however late, a sync, a claim.                                  *)
Guard ==
  /\ cr.finalizer => cr.live
  /\ cr.live /\ (cr.deleting \/ cr.status.synced) => cr.finalizer
  /\ cache.finalizer /\ ~cache.deleting => cr.finalizer
  /\ pc # "idle" /\ obj.finalizer /\ ~obj.deleting => cr.finalizer
  /\ pc = "release" => obj.deleting
  /\ pc \in Sync => cr.finalizer

Held == Seen /\ Guard

(* The finalizer comes off after the claimed entry is gone.                *)
Removed ==
  pc = "release" /\ obj.status.synced => entries[Name(obj)] # "ours"

OInv ==
  /\ Counted
  /\ Held
  /\ Unspent("other") => Removed

LEMMA StepFrame ==
  ASSUME Shape, Views, [Next]_vars
  PROVE  setup' = setup /\ Paying
<1>1. UNCHANGED vars => setup' = setup /\ left' = left
  BY DEF vars, kubeVars, ownVars
<1> QED BY <1>1, NextSteps, SpendPays DEF Ends, GoesOn, Around, Shape

(* What is unspent after a step was so before, and the step spends none.   *)
LEMMA CountedStep ==
  ASSUME Shape, Counted, setup' = setup, Paying
  PROVE  /\ Counted'
         /\ \A k \in Disturbances : Unspent(k)' => Unspent(k) /\ ~Pays(k)
<1>1. /\ left \in [Disturbances -> Nat]
      /\ setup.budget \in [Disturbances -> Nat]
  BY SetupShape DEF Shape, KubeShape
<1>2. \A k \in Disturbances :
        left'[k] <= left[k]
  BY <1>1 DEF Paying
<1>3. \A k \in Disturbances : left'[k] \in Nat
  BY <1>1, PayingShape
<1>4. Counted'
  BY <1>1, <1>2, <1>3 DEF Counted
<1>5. ASSUME NEW k \in Disturbances, Unspent(k)'
      PROVE  Unspent(k) /\ ~Pays(k)
  BY <1>1, <1>2, <1>3, <1>5 DEF Counted, Unspent, Pays
<1> QED BY <1>4, <1>5

(* A report keeps what Held speaks of.                                     *)
LEMMA ReportKeeps ==
  ASSUME NEW o \in Object(Status), NEW new \in {Paused(o), Failing(o)}
  PROVE  /\ new.live = o.live /\ new.finalizer = o.finalizer
         /\ new.deleting = o.deleting
         /\ new.status.synced = o.status.synced
  BY DEF Paused, Failing, Object, Status

(* A user deletion marks a guarded resource and drops an unguarded one.    *)
LEMMA CondemnedFields ==
  ASSUME NEW o \in Object(Status)
  PROVE  /\ Condemned(o).gen = o.gen
         /\ Condemned(o).finalizer = o.finalizer
         /\ Condemned(o).status = o.status
         /\ o.finalizer =>
              Condemned(o).live = o.live /\ Condemned(o).deleting
         /\ ~o.finalizer =>
              ~Condemned(o).live /\ Condemned(o).deleting = o.deleting
<1>1. CASE o.finalizer
  BY <1>1 DEF Condemned, Object
<1>2. CASE ~o.finalizer
  BY <1>2 DEF Condemned, Object
<1> QED BY <1>1, <1>2

(* A pass ends: what it wrote still holds.                                 *)
LEMMA HeldEnd ==
  ASSUME Shape, Views, Held, pc # "idle", pc' = "idle", cache' = cache,
         \/ cr' = cr
         \/ objFresh /\ cr' \in {Paused(obj), Failing(obj)}
         \/ objFresh /\ pc = "release" /\ cr' = Released(obj)
         \/ objFresh /\ pc = "fetched" /\ cr' = Guarded(obj)
         \/ objFresh /\ pc = "record" /\ cr' = Synced(obj)
  PROVE  Held'
<1>1. obj \in Object(Status) /\ (objFresh => obj = cr)
  BY DEF Shape, KubeShape, Views
<1> USE DEF Held, Seen, Guard, Sync
<1>2. CASE cr' = cr
  BY <1>2
<1>3. CASE objFresh /\ cr' \in {Paused(obj), Failing(obj)}
  BY <1>1, <1>3, ReportKeeps
<1>4. CASE objFresh /\ pc = "release" /\ cr' = Released(obj)
  BY <1>1, <1>4 DEF Released, Object
<1>5. CASE objFresh /\ pc = "fetched" /\ cr' = Guarded(obj)
  BY <1>1, <1>5 DEF Guarded, Object
<1>6. CASE objFresh /\ pc = "record" /\ cr' = Synced(obj)
  BY <1>1, <1>6 DEF Synced, Object
<1> QED BY <1>2, <1>3, <1>4, <1>5, <1>6

LEMMA HeldReconcile ==
  ASSUME Shape, Views, Held, Reconcile
  PROVE  Held'
<1>0. KubeShape
  BY DEF Shape
<1>1. CASE Fetch
  <2>1. CASE ReadCache /\ pc' = "fetched" /\ cache.live
    BY <1>1, <2>1 DEF Held, Seen, Guard, Sync, Fetch, ReadCache
  <2>2. CASE pc' = "idle"
    BY <1>1, <2>2 DEF Held, Seen, Guard, Sync, Fetch
  <2> QED BY <1>1, <2>1, <2>2 DEF Fetch
<1>2. CASE Refetch
  BY <1>2 DEF Held, Seen, Guard, Sync, Refetch, ReadCache
<1>3. CASE Resolve \/ Push \/ NothingToPush
  BY <1>3 DEF Held, Seen, Guard, Sync, Resolve, Syncing, Push, NothingToPush,
     kubeVars
<1>4. CASE AddFinalizer
  BY <1>0, <1>4, WriteEffect, HeldEnd DEF AddFinalizer, Return
<1>5. CASE SkipPaused \/ Release
  BY <1>0, <1>5, WriteEffect, HeldEnd
     DEF SkipPaused, Syncing, Release, Return
<1>6. CASE ResolveFails \/ PushRefused
  <2>1. {} \in SUBSET Disturbances
    OBVIOUS
  <2> QED BY <1>0, <1>6, <2>1, WriteEffect, HeldEnd
          DEF ResolveFails, Syncing, PushRefused, Return
<1>7. ASSUME NEW k \in {"server", "other"}, PushFails(k)
      PROVE  Held'
  <2>1. {k} \in SUBSET Disturbances
    BY <1>7, BoundTypes
  <2> QED BY <1>0, <1>7, <2>1, WriteEffect, HeldEnd DEF PushFails, Return
<1>8. CASE SkipSynced \/ DeleteUnresolved
  BY <1>8, HeldEnd
     DEF SkipSynced, Syncing, DeleteUnresolved, Deleting, Return
<1>9. CASE Record
  BY <1>0, <1>9, WriteEffect, HeldEnd DEF Record, Return
<1>10. CASE DeleteEntry
  BY <1>10 DEF Held, Seen, Guard, Sync, DeleteEntry, Deleting, kubeVars
<1>11. ASSUME NEW k \in {"server", "other"}, DeleteFails(k)
       PROVE  Held'
  <2>1. CASE pc' = "idle"
    BY <1>11, <2>1, HeldEnd DEF DeleteFails, Deleting
  <2>2. CASE pc' = "release" /\ obj' = obj
    BY <1>11, <2>2 DEF Held, Seen, Guard, Sync, DeleteFails, Deleting
  <2> QED BY <1>11, <2>1, <2>2 DEF DeleteFails, Return
<1> QED BY <1>1, <1>2, <1>3, <1>4, <1>5, <1>6, <1>7, <1>8, <1>9, <1>10,
           <1>11
        DEF Reconcile, TopicSteps, ConnectorSteps, AclSteps, CommonSteps,
            Deletion

LEMMA HeldEnvironment ==
  ASSUME Shape, Held, Environment
  PROVE  Held'
<1>1. cr \in Object(Status)
  BY DEF Shape, KubeShape
<1> USE DEF Held, Seen, Guard, Sync
<1>2. CASE KubeEnvironment /\ UNCHANGED ownVars
  <2>1. /\ obj' = obj /\ pc' = pc
        /\ \/ cr' = cr /\ cache' \in {cache, cr}
           \/ cr' = Edited(cr) /\ cache' = cache
           \/ cr.live /\ ~cr.deleting /\ cr' = Condemned(cr) /\ cache' = cache
    BY <1>2 DEF KubeEnvironment, UserEdits, UserDeletes, WatchDelivers,
       TimerFires, Resync, Overwrite, ownVars
  <2>2. CASE cr' = cr
    BY <2>1, <2>2
  <2>3. CASE cr' = Edited(cr)
    BY <1>1, <2>1, <2>3 DEF Edited, Condemned, Object
  <2>4. CASE cr.live /\ ~cr.deleting /\ cr' = Condemned(cr)
    BY <1>1, <2>1, <2>4, CondemnedFields
  <2> QED BY <2>1, <2>2, <2>3, <2>4
<1>3. CASE Crash
  BY <1>3 DEF Crash, Restart
<1>4. CASE ConnChanges \/ ExternalDelete
  BY <1>4 DEF ConnChanges, ExternalDelete
<1> QED BY <1>2, <1>3, <1>4 DEF Environment

(* A pass comes to release its finalizer only after it removed the entry.  *)
LEMMA RemovedStep ==
  ASSUME Shape, Views, Removed, [Next]_vars, ~Pays("other")
  PROVE  Removed'
<1>0. obj \in Object(Status) /\ Name(obj) \in Names
  BY SetupShape DEF Shape, KubeShape, Object, Name
<1>1. setup' = setup
  BY StepFrame
<1>2. CASE Environment
  <2>1. CASE pc' = "idle"
    BY <2>1 DEF Removed
  <2>2. CASE UNCHANGED <<obj, pc>>
    <3>1. entries'[Name(obj)] \in {"none", entries[Name(obj)]}
      BY <1>0, <1>2, EnvironmentSteps DEF Around, Gone, Shape, ServerShape
    <3> QED BY <1>1, <2>2, <3>1 DEF Removed, Name
  <2> QED BY <1>2, <2>1, <2>2, EnvironmentSteps DEF Around
<1>3. CASE DeleteEntry
  BY <1>0, <1>1, <1>3
     DEF DeleteEntry, Removes, RemoveEntry, Removed, Name, kubeVars, Shape,
         ServerShape
<1>4. ASSUME NEW k \in {"server", "other"}, DeleteFails(k)
      PROVE  Removed'
  BY <1>4, SpendPays, BoundTypes DEF DeleteFails, Return, Removed, Shape
<1>5. CASE Ends
  BY <1>5 DEF Ends, Removed
<1>6. CASE Fetch \/ Resolve \/ Push \/ NothingToPush \/ Refetch
  BY <1>6 DEF Fetch, Resolve, Push, NothingToPush, Refetch, Removed
<1>7. CASE UNCHANGED vars
  BY <1>7 DEF vars, kubeVars, ownVars, Removed, Name
<1> QED BY <1>2, <1>3, <1>4, <1>5, <1>6, <1>7, EndSteps
        DEF Next, Reconcile, TopicSteps, ConnectorSteps, AclSteps,
            CommonSteps, Deletion

LEMMA OInvInit ==
  ASSUME Init
  PROVE  OInv
<1>1. IInv
  BY InitInvariant
<1>2. left = setup.budget /\ setup.budget \in [Disturbances -> Nat]
  BY <1>1, SetupShape DEF Init, IInv, Shape, KubeShape
<1>3. Counted
  BY <1>2 DEF Counted
<1>4. Held /\ Removed
  BY DEF Init, KubeInit, Held, Seen, Guard, Sync, Removed, Created, NoStatus
<1> QED BY <1>3, <1>4 DEF OInv

LEMMA OInvStep ==
  ASSUME IInv, OInv, [Next]_vars
  PROVE  OInv'
<1>1. Shape /\ Views /\ setup' = setup /\ Paying
  BY StepFrame DEF IInv
<1>2. /\ Counted'
      /\ Unspent("other")' => Unspent("other") /\ ~Pays("other")
  BY <1>1, CountedStep, BoundTypes DEF OInv
<1>3. CASE Next
  <2>1. Held'
    BY <1>1, <1>3, HeldReconcile, HeldEnvironment DEF OInv, Next
  <2>2. Unspent("other")' => Removed'
    BY <1>1, <1>2, RemovedStep DEF OInv
  <2> QED BY <1>2, <2>1, <2>2 DEF OInv
<1>4. CASE UNCHANGED vars
  <2>1. (Held => Held') /\ (Removed => Removed')
    BY <1>4 DEF Held, Seen, Guard, Removed, Name, vars, kubeVars, ownVars
  <2> QED BY <1>2, <2>1 DEF OInv
<1> QED BY <1>3, <1>4

LEMMA Ownership == Spec => [](IInv /\ OInv)
<1>1. Init => OInv
  BY OInvInit
<1>2. IInv /\ OInv /\ [Next]_vars => OInv'
  BY OInvStep
<1> QED BY <1>1, <1>2, Invariance, PTL DEF Spec
(* Only a push makes an entry ours, and it keeps the claim in its memory.  *)
LEMMA MadeByPush ==
  ASSUME Shape, Views, [Next]_vars, NEW n \in Names,
         entries[n] # "ours", entries'[n] = "ours",
         ~Pays("server"), ~Pays("other")
  PROVE  Tracked(n)'
<1>0. obj \in Object(Status) /\ Name(obj) \in Names
  BY SetupShape DEF Shape, KubeShape, Object, Name
<1>1. setup' = setup
  BY StepFrame
<1>2. \A m \in Names : Gone(m) => entries'[n] # "ours"
  BY DEF Gone, Shape, ServerShape
<1>3. CASE Push
  BY <1>0, <1>1, <1>3
     DEF Push, StoreEntry, Tracked, Name, Shape, ServerShape
<1>4. ASSUME NEW k \in {"server", "other"}, PushFails(k)
      PROVE  FALSE
  <2>1. {k} \in SUBSET Disturbances /\ k \in {k}
    BY <1>4, BoundTypes
  <2> QED BY <1>4, <2>1, ReportPays DEF PushFails, Shape
<1>5. CASE Environment
  BY <1>2, <1>5, EnvironmentSteps DEF Around
<1>6. \/ AddFinalizer \/ SkipPaused \/ ResolveFails \/ SkipSynced
      \/ PushRefused \/ Record \/ DeleteUnresolved \/ Release
      \/ Fetch \/ Resolve \/ NothingToPush \/ Refetch
      \/ UNCHANGED vars
      => UNCHANGED entries
  BY DEF AddFinalizer, SkipPaused, ResolveFails, SkipSynced, PushRefused,
     Record, DeleteUnresolved, Release, Fetch, Resolve, NothingToPush,
     Refetch, vars, ownVars
<1>7. CASE DeleteEntry
  BY <1>0, <1>2, <1>7, RemovalIsGone DEF DeleteEntry
<1>8. ASSUME NEW k \in {"server", "other"}, DeleteFails(k)
      PROVE  FALSE
  BY <1>8, SpendPays, BoundTypes DEF DeleteFails, Shape
<1> QED BY <1>3, <1>4, <1>5, <1>6, <1>7, <1>8
        DEF Next, Reconcile, TopicSteps, ConnectorSteps, AclSteps,
            CommonSteps, Deletion

(* A claim in the status survives every step that keeps the resource and   *)
(* its name.                                                               *)
LEMMA StatusClaimKept ==
  ASSUME IInv, OInv, OInv', [Next]_vars,
         Unspent("other")', cr.live, cr.status.synced,
         entries'[Name(cr)] = "ours"
  PROVE  cr'.live /\ cr'.status.synced
<1>0. /\ Shape /\ Views /\ setup' = setup
      /\ obj \in Object(Status) /\ cr \in Object(Status)
      /\ objFresh => obj = cr
  BY StepFrame DEF IInv, Shape, KubeShape, Views
<1>1. Unspent("other") /\ cr.finalizer
  BY <1>0, StepFrame, CountedStep, BoundTypes DEF OInv, Held, Guard
<1>2. CASE Release
  <2>1. CASE objFresh
    <3>1. /\ pc = "release" /\ obj.status.synced
          /\ entries' = entries /\ Name(obj) = Name(cr)
      BY <1>0, <1>2, <2>1 DEF Release
    <3> QED BY <1>1, <3>1 DEF OInv, Removed
  <2>2. CASE ~objFresh
    BY <1>2, <2>2 DEF Release, TryWrite
  <2> QED BY <2>1, <2>2
<1>3. CASE Environment
  <2>1. cr'.status = cr.status
    BY <1>0, <1>3, EnvironmentSteps DEF Around
  <2>2. CASE KubeEnvironment /\ UNCHANGED ownVars
    <3>1. cr' = cr \/ cr' = Edited(cr) \/ cr' = Condemned(cr)
      BY <2>2 DEF KubeEnvironment, UserEdits, UserDeletes, WatchDelivers,
         TimerFires, Resync, Overwrite
    <3> QED BY <1>0, <1>1, <2>1, <3>1 DEF Edited, Condemned, Object
  <2>3. CASE Crash \/ ConnChanges \/ ExternalDelete
    BY <2>3 DEF Crash, Restart, ConnChanges, ExternalDelete
  <2> QED BY <1>3, <2>2, <2>3 DEF Environment
<1>4. CASE \/ Fetch \/ Resolve \/ Push \/ NothingToPush \/ Refetch
           \/ SkipSynced \/ DeleteUnresolved \/ DeleteEntry
           \/ UNCHANGED vars
  BY <1>4 DEF Fetch, Resolve, Push, NothingToPush, Refetch, SkipSynced,
     DeleteUnresolved, DeleteEntry, vars, kubeVars
<1>5. CASE AddFinalizer
  BY <1>0, <1>5, WriteEffect DEF AddFinalizer, Guarded, Object, Shape
<1>6. CASE SkipPaused
  BY <1>0, <1>6, WriteEffect, ReportKeeps DEF SkipPaused, Shape
<1>7. CASE ResolveFails \/ PushRefused
  <2>1. {} \in SUBSET Disturbances
    OBVIOUS
  <2> QED BY <1>0, <1>7, <2>1, WriteEffect, ReportKeeps
          DEF ResolveFails, PushRefused, Shape
<1>8. CASE Record
  BY <1>0, <1>8, WriteEffect DEF Record, Synced, Object, Shape
<1>9. ASSUME NEW k \in {"server", "other"}, PushFails(k)
      PROVE  cr'.live /\ cr'.status.synced
  <2>1. {k} \in SUBSET Disturbances
    BY <1>9, BoundTypes
  <2> QED BY <1>0, <1>9, <2>1, WriteEffect, ReportKeeps DEF PushFails, Shape
<1>10. ASSUME NEW k \in {"server", "other"}, DeleteFails(k)
       PROVE  cr'.live /\ cr'.status.synced
  BY <1>10 DEF DeleteFails
<1> QED BY <1>2, <1>3, <1>4, <1>5, <1>6, <1>7, <1>8, <1>9, <1>10
        DEF Next, Reconcile, TopicSteps, ConnectorSteps, AclSteps,
            CommonSteps, Deletion

(* A claim in the memory of a sync stays there until it is recorded.       *)
LEMMA MemoryClaimKept ==
  ASSUME IInv, OInv, [Next]_vars,
         pc \in {"refetch", "record"}, ~Pays("crash"),
         ~(pc = "record" /\ ~objFresh)
  PROVE  \/ pc' \in {"refetch", "record"} /\ syncGen' = syncGen
         \/ cr'.live /\ cr'.status.synced
<1>0. /\ obj \in Object(Status) /\ cr.live /\ KubeShape
      /\ objFresh => obj = cr
  BY DEF IInv, Shape, KubeShape, Views, OInv, Held, Guard, Sync
<1>1. CASE Record
  BY <1>0, <1>1 DEF Record, TryStamp, Synced, Object
<1>2. CASE Refetch
  BY <1>2 DEF Refetch
<1>3. CASE KubeEnvironment /\ UNCHANGED ownVars
  BY <1>3 DEF ownVars
<1>4. CASE Crash
  BY <1>0, <1>4, SpendPays, BoundTypes DEF Crash, Restart
<1>5. CASE ConnChanges \/ ExternalDelete
  BY <1>5 DEF ConnChanges, ExternalDelete
<1>6. CASE UNCHANGED vars
  BY <1>6 DEF vars, ownVars
<1>7. Reconcile => Record \/ Refetch
  BY DEF Reconcile, TopicSteps, ConnectorSteps, AclSteps, CommonSteps,
     Deletion, Fetch, AddFinalizer, Syncing, SkipPaused, ResolveFails,
     SkipSynced, Resolve, Push, NothingToPush, PushRefused, PushFails,
     Deleting, DeleteUnresolved, DeleteEntry, DeleteFails, Release
<1> QED BY <1>1, <1>2, <1>3, <1>4, <1>5, <1>6, <1>7 DEF Next, Environment

(* As long as no call goes unanswered, an entry the operator created in    *)
(* Kafka is lost from sight by the four ways the property names and no     *)
(* other: no order of edits, deletions, late reads and passes orphans it.  *)
THEOREM OrphansNeedLoss == Spec => OrphansOnlyByLoss
<1>1. ASSUME IInv, OInv, OInv', [Next]_vars,
             Unspent("other")',
             NEW n \in Names, entries'[n] = "ours", ~Tracked(n)'
      PROVE  \/ entries[n] = "ours" /\ ~Tracked(n)
             \/ \E k \in {"server", "crash"} : left'[k] # left[k]
             \/ pc = "record" /\ ~objFresh
             \/ setup.names[cr'.gen] # n
  <2>1. /\ Shape /\ Views /\ setup' = setup
        /\ Unspent("other") /\ ~Pays("other")
    BY <1>1, StepFrame, CountedStep, BoundTypes
       DEF IInv, OInv, Shape, KubeShape
  <2>2. SUFFICES ASSUME ~Pays("server"), ~Pays("crash"),
                        ~(pc = "record" /\ ~objFresh),
                        setup.names[cr'.gen] = n
                 PROVE  entries[n] = "ours" /\ ~Tracked(n)
    BY DEF Pays
  <2>3. entries[n] = "ours"
    BY <1>1, <2>1, <2>2, MadeByPush
  <2>4. ~(cr'.live /\ cr'.status.synced)
    BY <1>1, <2>1, <2>2 DEF Tracked, Name
  <2>5. ~(cr.live /\ cr.status.synced /\ Name(cr) = n)
    BY <1>1, <2>4, StatusClaimKept
  <2>6. ~(pc \in {"refetch", "record"} /\ setup.names[syncGen] = n)
    BY <1>1, <2>1, <2>2, <2>4, MemoryClaimKept DEF Tracked
  <2> QED BY <2>3, <2>5, <2>6 DEF Tracked
<1>2. IInv /\ OInv /\ OInv' /\ [Next]_vars =>
        [Unspent("other")' =>
           \A n \in Names : entries'[n] = "ours" /\ ~Tracked(n)' =>
             \/ entries[n] = "ours" /\ ~Tracked(n)
             \/ \E k \in {"server", "crash"} : left'[k] # left[k]
             \/ pc = "record" /\ ~objFresh
             \/ setup.names[cr'.gen] # n]_vars
  BY <1>1
<1> QED BY <1>2, Ownership, PTL DEF Spec, OrphansOnlyByLoss
-----------------------------------------------------------------------------
(* The controllers implement a mirror.                                     *)

(* A step that leaves the resource and what is being sent is a stutter.    *)
LEMMA StillMirror ==
  ASSUME cr' = cr, Sending' = Sending
  PROVE  UNCHANGED M!vars
  BY DEF M!vars, Life, Claimed, AlreadySynced

(* A step that ends a sending, or withdraws what was claimed, and changes  *)
(* neither the hold nor the spec.                                          *)
LEMMA AbandonMirror ==
  ASSUME cr'.live = cr.live, cr'.finalizer = cr.finalizer,
         cr'.deleting = cr.deleting, cr'.gen = cr.gen,
         Sending' = 0, Claimed' = 0 \/ Claimed' = Claimed
  PROVE  M!Next
  BY DEF M!Next, M!Abandon, Life

(* A failure or a pause withdraws a claim or keeps it.                     *)
LEMMA ReportMirror ==
  ASSUME Shape, Views, pc' = "idle",
         \/ TryWrite(Paused(obj))
         \/ \E ks \in SUBSET Disturbances : TryReport(Failing(obj), ks)
  PROVE  M!Next
<1>0. KubeShape /\ obj \in Object(Status) /\ (objFresh => obj = cr)
  BY DEF Shape, KubeShape, Views
<1>1. Sending' = 0
  BY DEF Sending
<1>2. CASE cr' = cr
  <2>1. Claimed' = Claimed
    BY <1>2 DEF Claimed, AlreadySynced
  <2> QED BY <1>1, <1>2, <2>1, AbandonMirror
<1>3. CASE objFresh /\ cr' \in {Paused(obj), Failing(obj)}
  <2>1. Claimed' = 0 \/ Claimed' = Claimed
    BY <1>0, <1>3 DEF Paused, Failing, Object, Status, Claimed, AlreadySynced
  <2>2. cr'.gen = cr.gen
    BY <1>0, <1>3, Reports DEF Report
  <2> QED BY <1>0, <1>1, <1>3, <2>1, <2>2, ReportKeeps, AbandonMirror
<1> QED BY <1>0, <1>2, <1>3, WriteEffect

(* A push, needed or not, begins to send.                                  *)
LEMMA SendMirror ==
  ASSUME IInv, OInv, Push \/ NothingToPush
  PROVE  M!Next
<1>1. /\ cr' = cr /\ pc = "push" /\ Sending = 0 /\ Sending' = obj.gen
  BY DEF Push, NothingToPush, kubeVars, Sending
<1>2. obj.gen \in 1 .. cr.gen
  BY <1>1, BoundTypes DEF IInv, Shape, KubeShape, Object, Ordered
<1>3. Life \in {"held", "condemned"}
  BY <1>1 DEF OInv, Held, Guard, Sync, Life
<1>4. Life' = Life /\ Claimed' = Claimed
  BY <1>1 DEF Life, Claimed, AlreadySynced
<1> QED BY <1>1, <1>2, <1>3, <1>4 DEF M!Next, M!Send, M!Held

(* The status update ends the sending, with a claim if that was the newest *)
(* spec.                                                                   *)
LEMMA RecordMirror ==
  ASSUME IInv, OInv, Record
  PROVE  M!Next
<1>0. /\ pc = "record" /\ (objFresh => obj = cr) /\ cr \in Object(Status)
      /\ syncGen \in 0 .. MaxGen
  BY DEF IInv, Shape, KubeShape, PassShape, Views, Record
<1>1. Sending = syncGen /\ Sending' = 0
  BY <1>0 DEF Record, Return, Sending
<1>2. CASE objFresh
  <2>1. cr' = Synced(cr)
    BY <1>0, <1>2 DEF Record, TryStamp
  <2>2. /\ cr'.live = cr.live /\ cr'.finalizer = cr.finalizer
        /\ cr'.deleting = cr.deleting /\ cr'.gen = cr.gen
        /\ cr'.status.obsGen = syncGen
    BY <1>0, <2>1 DEF Synced, Object, Status
  <2>3. Life \in {"held", "condemned"} /\ Life' = Life
    BY <1>0, <2>2 DEF OInv, Held, Guard, Sync, Life
  <2>4. CASE Claimed' = 0
    BY <1>1, <2>2, <2>4, AbandonMirror
  <2>5. CASE Claimed' # 0
    <3>1. Claimed' = cr.gen /\ syncGen = cr.gen
      BY <2>2, <2>5 DEF Claimed, AlreadySynced
    <3> QED BY <1>1, <2>2, <2>3, <3>1 DEF M!Next, M!Claim, M!Held
  <2> QED BY <2>4, <2>5
<1>3. CASE ~objFresh
  <2>1. cr' = cr
    BY <1>3 DEF Record, TryStamp
  <2>2. Claimed' = Claimed
    BY <2>1 DEF Claimed, AlreadySynced
  <2> QED BY <1>1, <2>1, <2>2, AbandonMirror
<1> QED BY <1>2, <1>3

LEMMA ReconcileMirror ==
  ASSUME IInv, OInv, Reconcile
  PROVE  M!Next \/ UNCHANGED M!vars
<1>0. /\ Shape /\ Views /\ Held /\ KubeShape
      /\ cr \in Object(Status) /\ (objFresh => obj = cr)
  BY DEF IInv, OInv, Shape, KubeShape, Views
<1>1. CASE \/ Fetch \/ Resolve \/ Refetch \/ SkipSynced
           \/ DeleteUnresolved \/ DeleteEntry
  <2>1. cr' = cr /\ Sending' = Sending
    BY <1>1 DEF Fetch, Resolve, Syncing, Refetch, SkipSynced,
       DeleteUnresolved, DeleteEntry, Deleting, Return, Sending, kubeVars
  <2> QED BY <2>1, StillMirror
<1>2. ASSUME NEW k \in {"server", "other"}, DeleteFails(k)
      PROVE  UNCHANGED M!vars
  <2>1. cr' = cr /\ Sending' = Sending
    BY <1>2 DEF DeleteFails, Deleting, Return, Sending
  <2> QED BY <2>1, StillMirror
<1>3. CASE SkipPaused \/ ResolveFails \/ PushRefused
  <2>1. {} \in SUBSET Disturbances
    OBVIOUS
  <2> QED BY <1>0, <1>3, <2>1, ReportMirror
          DEF SkipPaused, ResolveFails, PushRefused, Return
<1>4. ASSUME NEW k \in {"server", "other"}, PushFails(k)
      PROVE  M!Next
  <2>1. {k} \in SUBSET Disturbances
    BY <1>4, BoundTypes
  <2> QED BY <1>0, <1>4, <2>1, ReportMirror DEF PushFails, Return
<1>5. CASE Push \/ NothingToPush
  BY <1>5, SendMirror
<1>6. CASE Record
  BY <1>6, RecordMirror
<1>7. CASE AddFinalizer
  <2>1. Sending' = 0 /\ Sending = 0
    BY <1>7 DEF AddFinalizer, Return, Sending
  <2>2. CASE objFresh
    <3>1. cr' = Guarded(cr) /\ obj = cr
      BY <1>0, <1>7, <2>2 DEF AddFinalizer, TryWrite, Write
    <3>2. /\ cr'.live = cr.live /\ cr'.gen = cr.gen /\ cr'.finalizer
          /\ cr'.deleting = cr.deleting /\ cr'.status = cr.status
      BY <1>0, <3>1 DEF Guarded, Object
    <3>3. Life = "open" /\ Life' = "held" /\ Claimed' = Claimed
      BY <1>0, <1>7, <3>1, <3>2
         DEF AddFinalizer, Held, Seen, Life, Claimed, AlreadySynced
    <3> QED BY <2>1, <3>2, <3>3 DEF M!Next, M!Protect
  <2>3. CASE ~objFresh
    <3>1. cr' = cr
      BY <1>7, <2>3 DEF AddFinalizer, TryWrite
    <3> QED BY <2>1, <3>1, StillMirror
  <2> QED BY <2>2, <2>3
<1>8. CASE Release
  <2>1. Sending' = 0 /\ Sending = 0
    BY <1>8 DEF Release, Return, Sending
  <2>2. CASE objFresh
    <3>1. cr' = Released(cr) /\ obj = cr
      BY <1>0, <1>8, <2>2 DEF Release, TryWrite, Write
    <3>2. ~cr'.live /\ cr'.gen = cr.gen
      BY <1>0, <3>1 DEF Released, Object
    <3>3. Life = "condemned" /\ Life' = "gone" /\ Claimed' = 0
      BY <1>0, <1>8, <3>1, <3>2 DEF Release, Held, Seen, Guard, Life, Claimed
    <3> QED BY <2>1, <3>2, <3>3 DEF M!Next, M!Finish
  <2>3. CASE ~objFresh
    <3>1. cr' = cr
      BY <1>8, <2>3 DEF Release, TryWrite
    <3> QED BY <2>1, <3>1, StillMirror
  <2> QED BY <2>2, <2>3
<1> QED BY <1>1, <1>2, <1>3, <1>4, <1>5, <1>6, <1>7, <1>8
        DEF Reconcile, TopicSteps, ConnectorSteps, AclSteps, CommonSteps,
            Deletion

LEMMA EnvironmentMirror ==
  ASSUME IInv, OInv, Environment
  PROVE  M!Next \/ UNCHANGED M!vars
<1>0. cr \in Object(Status) /\ cr.gen \in Nat
  BY BoundTypes DEF IInv, Shape, KubeShape, Object
<1>1. CASE UserEdits /\ UNCHANGED ownVars
  <2>1. cr' = Edited(cr) /\ cr.live /\ cr.gen < MaxGen /\ Sending' = Sending
    BY <1>1 DEF UserEdits, Overwrite, ownVars, Sending
  <2>2. /\ cr'.gen = cr.gen + 1 /\ cr'.live = cr.live
        /\ cr'.finalizer = cr.finalizer /\ cr'.deleting = cr.deleting
        /\ cr'.status = cr.status
    BY <1>0, <2>1 DEF Edited, Object
  <2>3. Life' = Life /\ Life # "gone"
    BY <2>1, <2>2 DEF Life
  <2>4. cr.status.obsGen <= cr.gen
    BY <1>0, BoundTypes
       DEF IInv, Ordered, Shape, KubeShape, Object, Status
  <2>5. Claimed' = 0
    BY <1>0, <2>2, <2>4 DEF Claimed, AlreadySynced
  <2> QED BY <2>1, <2>2, <2>3, <2>5 DEF M!Next, M!Edit
<1>2. CASE UserDeletes /\ UNCHANGED ownVars
  <2>1. /\ cr' = Condemned(cr) /\ cr.live /\ ~cr.deleting
        /\ Sending' = Sending
    BY <1>2 DEF UserDeletes, Overwrite, ownVars, Sending
  <2>2. \/ Life = "open" /\ Life' = "gone"
        \/ Life = "held" /\ Life' = "condemned"
    BY <1>0, <2>1, CondemnedFields DEF Life
  <2>3. Claimed' = Claimed
    BY <1>0, <2>1, CondemnedFields
       DEF OInv, Held, Guard, Claimed, AlreadySynced
  <2> QED BY <1>0, <2>1, <2>2, <2>3, CondemnedFields DEF M!Next, M!Delete
<1>3. CASE (WatchDelivers \/ TimerFires \/ Resync) /\ UNCHANGED ownVars
  BY <1>3, StillMirror
     DEF WatchDelivers, TimerFires, Resync, ownVars, Sending
<1>4. CASE Crash
  <2>1. cr' = cr /\ Sending' = 0
    BY <1>4 DEF Crash, Restart, Sending
  <2>2. Claimed' = Claimed
    BY <2>1 DEF Claimed, AlreadySynced
  <2> QED BY <2>1, <2>2, AbandonMirror
<1>5. CASE ConnChanges \/ ExternalDelete
  BY <1>5, StillMirror DEF ConnChanges, ExternalDelete, Sending
<1> QED BY <1>1, <1>2, <1>3, <1>4, <1>5 DEF Environment, KubeEnvironment

(* The topic, connector and ACL controllers implement a mirror: none of    *)
(* them sends anything for a resource it does not hold, although it        *)
(* decides that on copies that may be out of date.                         *)
THEOREM ImplementsMirror == Spec => Mirrors
<1>1. Init => M!Init
  BY BoundsAssumption
     DEF Init, KubeInit, Created, NoStatus, M!Init, Life, Claimed,
         AlreadySynced, Sending
<1>2. IInv /\ OInv /\ [Next]_vars => [M!Next]_(M!vars)
  <2>1. UNCHANGED vars => UNCHANGED M!vars
    BY StillMirror DEF vars, kubeVars, ownVars, Sending
  <2> QED BY <2>1, ReconcileMirror, EnvironmentMirror DEF Next
<1> QED BY <1>1, <1>2, Ownership, PTL DEF Spec, Mirrors, M!Spec
=============================================================================
