----------------------------- MODULE Documents ------------------------------
(***************************************************************************)
(* The controllers that keep part of one document of the AxonOps server:   *)
(*   collector  AxonOpsLogCollector: an entry of the list, by file name;   *)
(*   dashboard  AxonOpsDashboardTemplate: an entry of the list, by name,   *)
(*              its contents inline or in a ConfigMap;                     *)
(*   repair     AxonOpsAdaptiveRepair: the one settings object there is;   *)
(*   archive    AxonOpsCommitlogArchive: the settings of datacenters.      *)
(* Nothing in the status tells which part is whose: a resource finds it by *)
(* what its spec says now.  A setup has resources of one of the kinds, as  *)
(* different kinds never touch the same document.                          *)
(*                                                                         *)
(* A part of the document is abstracted to the value last written there.   *)
(* The UUID a collector records stands for the file name it was given to,  *)
(* so no two collectors of a setup name the same file.                     *)
(***************************************************************************)
EXTENDS KubeObjects

CONSTANTS
  Setups,      \* the kind, what each generation asks for, the budget
  Keys,        \* file names, dashboards, datacenters, or the one settings
  MaxValue     \* contents 1 .. MaxValue; 0 is nothing

Values == 0 .. MaxValue
Docs == [Keys -> Values]

(* A spec: which parts, their value (0: the ConfigMap's), and whether the  *)
(* source of a dashboard or the config of an archive is valid.             *)
Specs == [keys: (SUBSET Keys) \ {{}}, value: Values, valid: BOOLEAN]

ASSUME DocumentsAssumption ==
  /\ MaxValue \in Nat \ {0}
  /\ \A s \in Setups :
       /\ s.kind \in {"collector", "dashboard", "repair", "archive"}
       /\ s.spec \in [Resources -> [1 .. MaxGen -> Specs]]
       /\ s.remote \in [Values -> {"local", "s3", "sftp"}]
       /\ s.doc \in Docs
       /\ s.budget \in [Events -> Nat]
       /\ s.kind = "collector" =>
            \A c, d \in Resources : \A g, h \in 1 .. MaxGen :
              c # d => s.spec[c][g].keys \cap s.spec[d][h].keys = {}

VARIABLES
  setup,       \* one of the Setups
  got,         \* the list a GET returned
  sync,        \* the generation and the value being pushed
  doc,         \* the document on the server
  configMap    \* what the ConfigMap holds, 0 when it is not there

server == <<doc, configMap>>
vars == <<kubeVars, setup, got, sync, server>>

kind == setup.kind
Empty == [k \in Keys |-> 0]
NoSync == [gen |-> 0, value |-> 0]

(* at: the parts the status claims, by SyncedUUID or by LastSyncTime.      *)
Status == [conds: SUBSET {"Ready", "Failed", "Paused"}, obsGen: 0 .. MaxGen,
           at: SUBSET Keys]
NoStatus == [conds |-> {}, obsGen |-> 0, at |-> {}]

TypeOK ==
  /\ KubeTypeOK(Status, {"idle", "fetched", "drifted", "sync", "clear", "put",
                         "refetch", "record", "remove", "release"})
  /\ setup \in Setups /\ budget = setup.budget
  /\ got \in [Resources -> Docs]
  /\ sync \in [Resources -> [gen: 0 .. MaxGen, value: Values]]
  /\ doc \in Docs /\ configMap \in Values

Init ==
  /\ setup \in Setups /\ budget = setup.budget
  /\ KubeInit(NoStatus)
  /\ got = [c \in Resources |-> Empty]
  /\ sync = [c \in Resources |-> NoSync]
  /\ doc = setup.doc
  /\ configMap = 1

-----------------------------------------------------------------------------
Want(o, c) == setup.spec[c][o.gen]
Wanted(c) == Want(obj[c], c)
ValueOf(s) == IF s.value = 0 THEN configMap ELSE s.value
FromConfigMap(c) == Wanted(c).value = 0

(* Return from Reconcile.                                                  *)
Return(c, again) ==
  /\ Leave(c, again, NoStatus)
  /\ got' = [got EXCEPT ![c] = Empty]
  /\ sync' = [sync EXCEPT ![c] = NoSync]

Paused(o) == [o EXCEPT !.status.conds = @ \cup {"Paused"}]
Forgotten(o) == [o EXCEPT !.status.at = {}]

(* setFailedCondition: Ready stays, the generation counts as observed.     *)
Failing(o) == [o EXCEPT !.status = [conds |-> @.conds \cup {"Failed"},
                                    obsGen |-> o.gen, at |-> @.at]]

Fail(c, again) ==
  /\ Report(c, Failing(obj[c]))
  /\ Return(c, again)

(* Mutant: the recorded generation is one ahead.                           *)
SyncedAhead(o, c) ==
  [o EXCEPT !.status = [conds |-> {"Ready"}, obsGen |-> sync[c].gen + 1,
                        at |-> setup.spec[c][sync[c].gen].keys]]

(* Mutant: the generation of the re-fetched copy is recorded.              *)
SyncedRefetched(o, c) ==
  [o EXCEPT !.status = [conds |-> (@.conds \cup {"Ready"}) \ {"Failed"},
                        obsGen |-> o.gen,
                        at |-> setup.spec[c][sync[c].gen].keys]]

(* What the status records of a finished sync.                             *)
Synced(o, c) ==
  [o EXCEPT !.status = [conds |-> (@.conds \cup {"Ready"}) \ {"Failed"},
                        obsGen |-> sync[c].gen,
                        at |-> setup.spec[c][sync[c].gen].keys]]

AlreadySynced(o) ==
  /\ "Ready" \in o.status.conds
  /\ o.status.obsGen = o.gen
  /\ o.status.at # {}

Fetch(c) ==
  /\ Take(c, Resources)
  /\ UNCHANGED <<setup, got, sync, server>>

AddFinalizer(c) ==
  /\ Unguarded(c)
  /\ Write(c, Guarded(obj[c]), FALSE)
  /\ Return(c, c \in behind)
  /\ UNCHANGED <<left, around, setup, server>>

(* A pause is noted, except that a collector takes it for a failure.       *)
SkipPaused(c) ==
  /\ Syncing(c) /\ conn = "paused" /\ kind # "collector"
  /\ Write(c, Paused(obj[c]), FALSE)
  /\ Return(c, c \in behind)
  /\ UNCHANGED <<left, around, setup, server>>

ResolveFails(c) ==
  /\ Syncing(c)
  /\ conn \in {"broken"} \cup (IF kind = "collector" THEN {"paused"} ELSE {})
  /\ Fail(c, TRUE)
  /\ UNCHANGED <<left, around, setup, server>>

-----------------------------------------------------------------------------
(* checkDrift                                                              *)
CheckingDrift(c) == Syncing(c) /\ conn = "up" /\ AlreadySynced(obj[c])

(* Mutant: the settings are only looked for, not compared.                 *)
NoDriftAtAll(c) ==
  IF kind = "collector" THEN \A k \in obj[c].status.at : doc[k] # 0
                        ELSE \E k \in Keys : doc[k] # 0

(* A collector's UUID, the very settings of a repair, or anything at all.  *)
NoDrift(c) ==
  CASE kind = "collector" -> \A k \in obj[c].status.at : doc[k] # 0
    [] kind = "repair" -> \A k \in Wanted(c).keys : doc[k] = ValueOf(Wanted(c))
    [] OTHER -> \E k \in Keys : doc[k] # 0

SkipSynced(c) ==
  /\ CheckingDrift(c) /\ NoDrift(c)
  /\ Return(c, TRUE)
  /\ UNCHANGED <<cr, stale, left, around, setup, server>>

(* Two of the four set Failed, two a condition that nobody reads.          *)
DriftCheckFails(c) ==
  /\ CheckingDrift(c)
  /\ \E k \in {"server", "other"} : Spend(k)
  /\ Report(c, IF kind \in {"repair", "archive"} THEN Failing(obj[c])
                                                 ELSE obj[c])
  /\ Return(c, TRUE)
  /\ UNCHANGED <<around, setup, server>>

DriftDetected(c) ==
  /\ CheckingDrift(c) /\ ~NoDrift(c)
  /\ Goto(c, "drifted")
  /\ UNCHANGED <<cr, stale, timers, left, obj, behind, around, setup, got,
                 sync, server>>

(* The claim is dropped in the status before the sync.                     *)
Forget(c) ==
  /\ pc[c] = "drifted"
  /\ Write(c, Forgotten(obj[c]), FALSE)
  /\ IF c \in behind
       THEN Return(c, TRUE)
       ELSE /\ Goto(c, "sync") /\ obj' = [obj EXCEPT ![c] = Forgotten(@)]
            /\ UNCHANGED <<behind, timers, got, sync>>
  /\ UNCHANGED <<left, around, setup, server>>

-----------------------------------------------------------------------------
(* The sync proper: first the source or the config.                        *)
Starting(c) ==
  \/ pc[c] = "sync"
  \/ Syncing(c) /\ conn = "up" /\ ~AlreadySynced(obj[c])

Sound(c) == Wanted(c).valid /\ (FromConfigMap(c) => configMap # 0)

(* An invalid spec, or no such ConfigMap: nothing to come back for.        *)
SourceInvalid(c) ==
  /\ Starting(c) /\ ~Sound(c)
  /\ Fail(c, FALSE)
  /\ UNCHANGED <<left, around, setup, server>>

(* A ConfigMap that cannot be read is not tried again, a secret is.        *)
SourceUnread(c) ==
  /\ Starting(c) /\ Wanted(c).valid
  /\ FromConfigMap(c) \/ kind = "archive"
  /\ Spend("kube")
  /\ Fail(c, kind = "archive")
  /\ UNCHANGED <<around, setup, server>>

(* An archive deletes its datacenters' settings first when there are any   *)
(* of its remote type; a repair writes only what differs.                  *)
NextCall(c) ==
  LET v == ValueOf(Wanted(c))
      IsThere == \A k \in Wanted(c).keys : doc[k] = v
      Replaces == \E k \in Keys : /\ doc[k] # 0
                                 /\ setup.remote[doc[k]] = setup.remote[v]
  IN CASE kind = "repair" /\ IsThere -> "refetch"
       [] kind = "archive" /\ Replaces -> "clear"
       [] OTHER -> "put"

Get(c) ==
  /\ Starting(c) /\ Sound(c)
  /\ got' = [got EXCEPT ![c] = doc]
  /\ sync' = [sync EXCEPT ![c] = [gen |-> obj[c].gen,
                                  value |-> ValueOf(Wanted(c))]]
  /\ Goto(c, NextCall(c))
  /\ UNCHANGED <<cr, stale, timers, left, obj, behind, around, setup, server>>

(* Retried after 30 s, but for an archive that is answered with a 4xx.     *)
GetFails(c, k) ==
  /\ Starting(c) /\ Sound(c)
  /\ Spend(k)
  /\ \E again \in {TRUE} \cup {~(kind = "archive" /\ k = "other")} :
       Fail(c, again)
  /\ UNCHANGED <<around, setup, server>>

(* The archive's DELETE, by the datacenters of the spec.                   *)
Cleared(c) == [k \in Keys |-> IF k \in Wanted(c).keys THEN 0 ELSE doc[k]]

Clear(c) ==
  /\ pc[c] = "clear"
  /\ doc' = Cleared(c)
  /\ Goto(c, "put")
  /\ UNCHANGED <<cr, stale, timers, left, obj, behind, around, setup, got,
                 sync, configMap>>

ClearFails(c, k) ==
  /\ pc[c] = "clear"
  /\ Spend(k)
  /\ doc' \in {doc, Cleared(c)}
  /\ Fail(c, k = "server")
  /\ UNCHANGED <<around, setup, configMap>>

(* The document after the call: the lists are sent as they were fetched,   *)
(* with the entry; the others send their own part only.                    *)
Lists == kind \in {"collector", "dashboard"}

Merged(c, base) ==
  [k \in Keys |-> IF k \in Wanted(c).keys THEN sync[c].value ELSE base[k]]

Sent(c) == Merged(c, IF Lists THEN got[c] ELSE doc)

Put(c) ==
  /\ pc[c] = "put"
  /\ doc' = Sent(c)
  /\ got' = [got EXCEPT ![c] = Empty]
  /\ Goto(c, "refetch")
  /\ UNCHANGED <<cr, stale, timers, left, obj, behind, around, setup, sync,
                 configMap>>

(* It fails, having taken effect or not.                                   *)
PutFails(c, k) ==
  /\ pc[c] = "put"
  /\ Spend(k)
  /\ doc' \in {doc, Sent(c)}
  /\ Fail(c, k = "server" \/ kind = "collector")
  /\ UNCHANGED <<around, setup, configMap>>

Refetch(c) ==
  /\ pc[c] = "refetch"
  /\ ReadCache(c)
  /\ Goto(c, "record")
  /\ UNCHANGED <<cr, stale, timers, around, setup, got, sync, server>>

Record(c) ==
  /\ pc[c] = "record"
  /\ Write(c, Synced(obj[c], c), TRUE)
  /\ Return(c, c \in behind)
  /\ UNCHANGED <<left, around, setup, server>>

-----------------------------------------------------------------------------
(* handleDeletion: a repair calls nobody, the others need a client.        *)
DeleteUnresolved(c) ==
  /\ Deleting(c) /\ kind # "repair" /\ conn # "up"
  /\ Return(c, TRUE)
  /\ UNCHANGED <<cr, stale, left, around, setup, server>>

(* A collector and a dashboard look for their entry in the list, an        *)
(* archive deletes whatever its datacenters have.                          *)
GetToDelete(c) ==
  /\ Deleting(c)
  /\ kind # "repair" => conn = "up"
  /\ IF kind # "repair" /\ (Lists => \E k \in Wanted(c).keys : doc[k] # 0)
       THEN Goto(c, "remove") /\ got' = [got EXCEPT ![c] = doc]
       ELSE Goto(c, "release") /\ got' = got
  /\ UNCHANGED <<cr, stale, timers, left, obj, behind, around, setup, sync,
                 server>>

(* A call of the deletion fails: again after 30 s, or never mind.          *)
GiveUp(c, again) ==
  IF again THEN Return(c, TRUE)
           ELSE /\ Goto(c, "release") /\ got' = [got EXCEPT ![c] = Empty]
                /\ UNCHANGED <<timers, obj, behind, sync>>

(* The list is not answered: only a 5xx is retried by a collector, only a  *)
(* 404 is not by a dashboard.                                              *)
GetToDeleteFails(c, k) ==
  /\ Deleting(c) /\ Lists /\ conn = "up"
  /\ Spend(k)
  /\ \E again \in IF kind = "dashboard" /\ k = "other" THEN BOOLEAN
                                                       ELSE {k = "server"} :
       GiveUp(c, again)
  /\ UNCHANGED <<cr, stale, around, setup, server>>

(* Mutant: an archive deletes the settings of every datacenter.            *)
WithoutAny(c) ==
  LET base == IF Lists THEN got[c] ELSE Empty
  IN [k \in Keys |-> IF k \in Wanted(c).keys THEN 0 ELSE base[k]]

(* The document without the part of c.                                     *)
Without(c) ==
  LET base == IF Lists THEN got[c] ELSE doc
  IN [k \in Keys |-> IF k \in Wanted(c).keys THEN 0 ELSE base[k]]

Remove(c) ==
  /\ pc[c] = "remove"
  /\ doc' = Without(c)
  /\ got' = [got EXCEPT ![c] = Empty]
  /\ Goto(c, "release")
  /\ UNCHANGED <<cr, stale, timers, left, obj, behind, around, setup, sync,
                 configMap>>

(* It fails, having taken effect or not: a 5xx is retried, for an archive  *)
(* a network error too.                                                    *)
RemoveFails(c, k) ==
  /\ pc[c] = "remove"
  /\ Spend(k)
  /\ doc' \in {doc, Without(c)}
  /\ \E again \in IF kind = "archive" /\ k = "other" THEN BOOLEAN
                                                     ELSE {k = "server"} :
       GiveUp(c, again)
  /\ UNCHANGED <<cr, stale, around, setup, configMap>>

Release(c) ==
  /\ pc[c] = "release"
  /\ Write(c, Released(obj[c]), FALSE)
  /\ Return(c, c \in behind)
  /\ UNCHANGED <<left, around, setup, server>>

-----------------------------------------------------------------------------
Around(c) ==
  /\ UserEdits(c) \/ UserDeletes(c) \/ WatchDelivers(c) \/ TimerFires(c)
  /\ UNCHANGED <<setup, got, sync, server>>

Crash ==
  /\ Restart(NoStatus)
  /\ got' = [c \in Resources |-> Empty]
  /\ sync' = [c \in Resources |-> NoSync]
  /\ UNCHANGED <<setup, server>>

ConnChanges == ConnMoves /\ UNCHANGED <<setup, got, sync, server>>

(* The user edits, deletes or creates the ConfigMap; the watch queues the  *)
(* dashboards that name it.                                                *)
Readers == {c \in Resources : cache[c].live /\ Want(cache[c], c).value = 0}

ConfigMapChanges ==
  /\ kind = "dashboard"
  /\ Spend("edit")
  /\ configMap' \in Values \ {configMap}
  /\ queued' = queued \cup Readers
  /\ UNCHANGED <<budget, cr, cache, stale, timers, copies, conn, setup, got,
                 sync, doc>>

(* Somebody deletes or changes a part in the AxonOps console.              *)
ConsoleEdits ==
  /\ Spend("external")
  /\ \E k \in Keys : \E v \in Values \ {doc[k]} :
       doc' = [doc EXCEPT ![k] = v]
  /\ UNCHANGED <<cr, stale, timers, copies, around, setup, got, sync,
                 configMap>>

(* One step of the reconciliation of c.                                    *)
Syncs(c) ==
  \/ AddFinalizer(c) \/ SkipPaused(c) \/ ResolveFails(c) \/ SkipSynced(c)
  \/ DriftCheckFails(c) \/ DriftDetected(c) \/ Forget(c)
  \/ SourceInvalid(c) \/ SourceUnread(c) \/ Get(c) \/ Clear(c) \/ Put(c)
  \/ Refetch(c) \/ Record(c)
  \/ \E k \in {"server", "other"} :
       GetFails(c, k) \/ ClearFails(c, k) \/ PutFails(c, k)

Deletes(c) ==
  \/ DeleteUnresolved(c) \/ GetToDelete(c) \/ Remove(c) \/ Release(c)
  \/ \E k \in {"server", "other"} :
       GetToDeleteFails(c, k) \/ RemoveFails(c, k)

(* Reconcile of each of the four controllers.                              *)
CollectorSteps(c) == kind = "collector" /\ (Syncs(c) \/ Deletes(c))
DashboardSteps(c) == kind = "dashboard" /\ (Syncs(c) \/ Deletes(c))
RepairSteps(c) == kind = "repair" /\ (Syncs(c) \/ Deletes(c))
ArchiveSteps(c) == kind = "archive" /\ (Syncs(c) \/ Deletes(c))

Reconcile(c) ==
  \/ CollectorSteps(c) \/ DashboardSteps(c)
  \/ RepairSteps(c) \/ ArchiveSteps(c)

Next ==
  \/ \E c \in Resources : Fetch(c) \/ Reconcile(c) \/ Around(c)
  \/ Crash \/ ConnChanges \/ ConfigMapChanges \/ ConsoleEdits

Spec == Init /\ [][Next]_vars

(* The workers run, their queues are first in, first out, watches deliver, *)
(* and timers fire.                                                        *)
Fairness ==
  \A c \in Resources :
    /\ SF_vars(Fetch(c)) /\ WF_vars(Reconcile(c))
    /\ WF_vars(WatchDelivers(c) /\ UNCHANGED <<setup, got, sync, server>>)
    /\ WF_vars(TimerFires(c) /\ UNCHANGED <<setup, got, sync, server>>)

FairSpec == Spec /\ Fairness

-----------------------------------------------------------------------------
(* What must hold.                                                         *)

(* No two resources ask for the same part.                                 *)
Disjoint ==
  \A c, d \in Resources : \A g, h \in 1 .. MaxGen :
    c # d => setup.spec[c][g].keys \cap setup.spec[d][h].keys = {}

Synchronised(c) ==
  /\ cr[c].live /\ ~cr[c].deleting /\ AlreadySynced(cr[c])
  /\ "Failed" \notin cr[c].status.conds

(* Ready, not Failed, for the current generation: each part that           *)
(* generation asks for has its value, unless somebody touched the document *)
(* or the ConfigMap, two resources ask for the same part, or a stale read  *)
(* made an archive delete and post again what it had already synced.  An   *)
(* edit during the sync, a failed DELETE or POST, and the update of        *)
(* another resource from an older list do not break it.                    *)
ReadyIsStored ==
  /\ Disjoint /\ Unspent("external")
  /\ kind = "archive" => Unspent("lag")
  => \A c \in Resources : Synchronised(c) =>
       LET s == Want(cr[c], c)
       IN s.value # 0 => \A k \in s.keys : doc[k] = s.value

(* Until somebody edits the document by hand, a resource only changes      *)
(* parts it has asked for itself, in this or an earlier generation: lists  *)
(* are sent back whole, the other resources' entries with them, and the    *)
(* settings of datacenters that are another's or nobody's are left alone.  *)
OthersKept ==
  [][Unspent("external")' =>
       \A k \in Keys : doc'[k] # doc[k] =>
         \E c \in Resources :
           /\ pc[c] \in {"clear", "put", "remove"}
           /\ \E g \in 1 .. cr[c].gen : k \in setup.spec[c][g].keys]_vars

(* The part of c is there: for adaptive repair with the settings asked     *)
(* for, for an archive anything that passes its drift check, and for a     *)
(* dashboard too.                                                          *)
Placed(c) ==
  LET s == Want(cr[c], c)
  IN CASE kind = "collector" -> \A k \in cr[c].status.at : doc[k] # 0
       [] kind = "repair" -> \A k \in s.keys : doc[k] = s.value
       [] OTHER -> \E k \in Keys : doc[k] # 0

(* What is not tried again, the source is not valid or not there, or a     *)
(* call to AxonOps or for the source was refused, and what is tried for    *)
(* ever in vain, a connection that stays unusable.                         *)
Refused(c) ==
  LET s == Want(cr[c], c)
  IN \/ conn # "up" \/ ~s.valid \/ (s.value = 0 /\ configMap = 0)
     \/ ~Unspent("other") \/ ~Unspent("kube")

(* Whatever fails, is edited by hand or is lost in a crash: in the end a   *)
(* resource is in place, or its status says Failed or Paused.  Only when   *)
(* the status updates fail too, which is logged and no more, may one that  *)
(* was refused stay as it is without a word.  Adaptive repair even ends    *)
(* with the right settings, as its drift check compares them, provided a   *)
(* single resource owns them.  Only a connection that stays unusable keeps *)
(* a deleted resource.                                                     *)
Converges ==
  Disjoint =>
    \A c \in Resources :
      <>[](cr[c].live =>
             IF cr[c].deleting THEN conn # "up"
             ELSE \/ cr[c].status.at # {} /\ Placed(c)
                  \/ {"Failed", "Paused"} \cap cr[c].status.conds # {}
                  \/ budget["report"] > 0 /\ Refused(c))

-----------------------------------------------------------------------------
(* Each resource of the four controllers as the subject of a mirror: its   *)
(* spec is being sent from the first call of the sync to the update.       *)
Claimed(c) ==
  IF /\ cr[c].live /\ AlreadySynced(cr[c])
     /\ "Failed" \notin cr[c].status.conds
    THEN cr[c].gen ELSE 0

Sending(c) ==
  IF pc[c] \in {"clear", "put", "refetch", "record"} THEN sync[c].gen ELSE 0

M(c) == INSTANCE Mirror WITH life <- Life(c), gen <- cr[c].gen,
                             sent <- Sending(c), claim <- Claimed(c)

(* Part of a document is a way of mirroring a resource: no part is sent    *)
(* for a resource without the finalizer, and nothing is claimed of a       *)
(* newer spec than the one that was sent.                                  *)
Mirrors == \A c \in Resources : M(c)!Spec
=============================================================================
