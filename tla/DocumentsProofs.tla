--------------------------- MODULE DocumentsProofs ---------------------------
(***************************************************************************)
(* Theorems of Documents, for any number of resources and every value of   *)
(* the other constants that the assumptions allow.                         *)
(***************************************************************************)
EXTENDS Documents, TLAPS

(* One worker: at most one resource of a setup is being served.            *)
Alone ==
  \A c, d \in Resources : c # d => pc[c] = "idle" \/ pc[d] = "idle"

(* How old the copies are.                                                 *)
Views ==
  \A c \in Resources :
    /\ c \notin stale => cache[c] = cr[c]
    /\ pc[c] # "idle" /\ c \notin behind => obj[c] = cr[c]
    /\ cache[c].gen <= cr[c].gen /\ obj[c].gen <= cr[c].gen

(* A push knows its generation, and no call comes more often than allowed. *)
Counted ==
  /\ \A c \in Resources :
       pc[c] \in {"clear", "put", "refetch", "record"} =>
         sync[c].gen \in 1 .. MaxGen
  /\ \A k \in Events : left[k] <= budget[k]

(* The list a pass is about to send back is the one on the server: nobody  *)
(* but the only worker and the console writes it.                          *)
Current ==
  Lists => \A c \in Resources :
    /\ pc[c] # "clear"
    /\ pc[c] \in {"put", "remove"} /\ Unspent("external") => got[c] = doc

IInv == TypeOK /\ Alone /\ Views /\ Counted /\ Current

-----------------------------------------------------------------------------
(* What the operators return.                                              *)
LEMMA BoundTypes ==
  /\ MaxGen \in Nat \ {0} /\ 1 \in 1 .. MaxGen
  /\ MaxValue \in Nat \ {0} /\ 0 \in Values /\ 1 \in Values
  /\ Empty \in Docs /\ NoSync \in [gen: 0 .. MaxGen, value: Values]
  BY ObjectsAssumption, DocumentsAssumption DEF Values, Empty, Docs, NoSync

LEMMA SetupShape ==
  ASSUME setup \in Setups
  PROVE  /\ setup.spec \in [Resources -> [1 .. MaxGen -> Specs]]
         /\ setup.doc \in Docs /\ setup.budget \in [Events -> Nat]
  BY DocumentsAssumption

LEMMA WantShape ==
  ASSUME setup \in Setups, NEW c \in Resources, NEW o \in Object(Status)
  PROVE  /\ o.gen \in 1 .. MaxGen
         /\ Want(o, c) \in Specs /\ Want(o, c).keys \subseteq Keys
  BY SetupShape DEF Want, Object, Specs

LEMMA CreatedShape ==
  Created(NoStatus) \in Object(Status) /\ Created(NoStatus).gen = 1
  BY BoundTypes DEF Created, NoStatus, Object, Status

(* new may be written over o: it is of the same generation.                *)
Successor(o, new) == new \in Object(Status) /\ new.gen = o.gen

LEMMA Successors ==
  ASSUME NEW o \in Object(Status)
  PROVE  /\ Successor(o, o) /\ Successor(o, Guarded(o))
         /\ Successor(o, Released(o)) /\ Successor(o, Paused(o))
         /\ Successor(o, Forgotten(o)) /\ Successor(o, Failing(o))
<1>1. /\ Successor(o, o) /\ Successor(o, Guarded(o))
      /\ Successor(o, Released(o))
  BY DEF Successor, Guarded, Released, Object
<1>2. Successor(o, Paused(o))
  BY DEF Successor, Paused, Object, Status
<1>3. Successor(o, Forgotten(o)) /\ Successor(o, Failing(o))
  BY BoundTypes DEF Successor, Forgotten, Failing, Object, Status
<1> QED BY <1>1, <1>2, <1>3

LEMMA SyncedShape ==
  ASSUME setup \in Setups, NEW c \in Resources, NEW o \in Object(Status),
         sync[c].gen \in 1 .. MaxGen
  PROVE  Successor(o, Synced(o, c))
<1>1. setup.spec[c][sync[c].gen].keys \subseteq Keys
  BY SetupShape DEF Specs
<1>2. /\ o.status.conds \subseteq {"Ready", "Failed", "Paused"}
      /\ sync[c].gen \in 0 .. MaxGen
  BY BoundTypes DEF Object, Status
<1>3. [conds |-> (o.status.conds \cup {"Ready"}) \ {"Failed"},
       obsGen |-> sync[c].gen, at |-> setup.spec[c][sync[c].gen].keys]
         \in Status
  BY <1>1, <1>2 DEF Status
<1> QED BY <1>3 DEF Successor, Synced, Object

-----------------------------------------------------------------------------
(* The kinds of steps of a pass.                                           *)

Paying == left' = left \/ \E k \in Events : Spend(k)

(* The document changes by one of the calls.                               *)
Touches(c) ==
  \/ doc' = doc
  \/ pc[c] = "clear" /\ doc' = Cleared(c)
  \/ pc[c] = "put" /\ doc' = Sent(c)
  \/ pc[c] = "remove" /\ doc' = Without(c)

Writes(c) ==
  \/ UNCHANGED <<cr, stale>>
  \/ \E new, sure : Successor(obj[c], new) /\ Write(c, new, sure)

(* A pass ends.                                                            *)
Ends(c) ==
  /\ pc[c] # "idle"
  /\ Writes(c)
  /\ \E again : Return(c, again)
  /\ Paying /\ Touches(c)
  /\ UNCHANGED <<around, setup, configMap>>

(* A pass goes on at label l.                                              *)
GoesOn(c, l) ==
  /\ Goto(c, l)
  /\ l \in {"fetched", "drifted", "sync", "clear", "put", "refetch",
            "record", "remove", "release"}
  /\ pc[c] = "idle" => \A d \in Resources : pc[d] = "idle"
  /\ \/ pc[c] # "idle" /\ UNCHANGED <<cr, stale, obj, behind>> /\ Paying
     \/ UNCHANGED <<cr, stale>> /\ ReadCache(c)
     \/ /\ pc[c] # "idle" /\ c \notin behind
        /\ left' = left /\ behind' = behind
        /\ Write(c, Forgotten(obj[c]), FALSE)
        /\ obj' = [obj EXCEPT ![c] = Forgotten(@)]
  /\ queued' \subseteq Resources
  /\ Touches(c)
  /\ \/ got' = got /\ (Lists => l \notin {"clear", "put", "remove"})
     \/ /\ got' = [got EXCEPT ![c] = Empty]
        /\ Lists => l \notin {"clear", "put", "remove"}
     \/ /\ got' = [got EXCEPT ![c] = doc] /\ doc' = doc
        /\ Lists => l # "clear"
  /\ \/ /\ sync' = sync
        /\ \/ l \notin {"clear", "put", "refetch", "record"}
           \/ pc[c] \in {"clear", "put", "refetch", "record"}
     \/ sync' = [sync EXCEPT ![c] = [gen |-> obj[c].gen,
                                     value |-> ValueOf(Wanted(c))]]
  /\ UNCHANGED <<timers, budget, cache, conn, setup, configMap>>

(* What both have in common: only c is touched, and what is on its way for *)
(* c is as the invariant wants it.                                         *)
Step(c) ==
  /\ TypeOK'
  /\ setup' = setup /\ budget' = budget /\ cache' = cache
  /\ \A k \in Events : left'[k] <= left[k]
  /\ \A d \in Resources \ {c} :
       /\ cr'[d] = cr[d] /\ obj'[d] = obj[d] /\ pc'[d] = pc[d]
       /\ got'[d] = got[d] /\ sync'[d] = sync[d]
       /\ d \in behind' <=> d \in behind
       /\ d \in stale' <=> d \in stale
  /\ cr'[c].gen = cr[c].gen
  /\ c \in stale' \/ (c \notin stale /\ cr'[c] = cr[c])
  /\ obj'[c].gen <= cr[c].gen
  /\ pc'[c] = "idle" \/ c \in behind' \/ obj'[c] = cr'[c]
  /\ pc'[c] # "idle" /\ pc[c] = "idle" =>
       \A d \in Resources : pc[d] = "idle"
  /\ pc'[c] \in {"clear", "put", "refetch", "record"} =>
       sync'[c].gen \in 1 .. MaxGen
  /\ Lists => /\ pc'[c] # "clear"
              /\ pc'[c] \in {"put", "remove"} => got'[c] = doc /\ doc' = doc
  /\ Touches(c)

LEMMA TouchesType ==
  ASSUME TypeOK, NEW c \in Resources, Touches(c)
  PROVE  doc' \in Docs
<1>1. /\ got[c] \in Docs /\ doc \in Docs /\ sync[c].value \in Values
      /\ 0 \in Values
  BY BoundTypes DEF TypeOK
<1>2. Cleared(c) \in Docs /\ Without(c) \in Docs
  BY <1>1, BoundTypes DEF Cleared, Without, Docs
<1>3. Sent(c) \in Docs
  BY <1>1 DEF Sent, Merged, Docs
<1> QED BY <1>1, <1>2, <1>3 DEF Touches

LEMMA PayingType ==
  ASSUME left \in [Events -> Nat], Paying
  PROVE  /\ left' \in [Events -> Nat]
         /\ \A k \in Events : left'[k] <= left[k]
  BY DEF Paying, Spend

LEMMA WritesEffect ==
  ASSUME TypeOK, Views, NEW c \in Resources, pc[c] # "idle", Writes(c)
  PROVE  /\ cr' \in [Resources -> Object(Status)] /\ stale' \subseteq Resources
         /\ \A d \in Resources \ {c} :
              cr'[d] = cr[d] /\ (d \in stale' <=> d \in stale)
         /\ cr'[c].gen = cr[c].gen
         /\ c \in stale' \/ (c \notin stale /\ cr'[c] = cr[c])
<1>1. cr \in [Resources -> Object(Status)] /\ stale \subseteq Resources
  BY DEF TypeOK, KubeTypeOK
<1>2. CASE UNCHANGED <<cr, stale>>
  BY <1>1, <1>2
<1>3. ASSUME NEW new, NEW sure, Successor(obj[c], new), Write(c, new, sure),
             c \notin behind
      PROVE  /\ cr' = [cr EXCEPT ![c] = new] /\ new \in Object(Status)
             /\ new.gen = cr[c].gen
             /\ stale' = stale \cup {c} \/ (stale' = stale /\ new = cr[c])
  BY <1>3 DEF Write, Successor, Views
<1> QED BY <1>1, <1>2, <1>3 DEF Writes, Write

LEMMA EndsIsStep ==
  ASSUME IInv, NEW c \in Resources, Ends(c)
  PROVE  Step(c)
<1>1. /\ TypeOK /\ Views /\ pc[c] # "idle"
      /\ Writes(c) /\ Paying /\ Touches(c)
      /\ UNCHANGED <<around, setup, configMap>>
  BY DEF Ends, IInv
<1>2. PICK again : Return(c, again)
  BY DEF Ends
<1>3. /\ obj' = [obj EXCEPT ![c] = Created(NoStatus)]
      /\ behind' = behind \ {c}
      /\ pc' = [pc EXCEPT ![c] = "idle"]
      /\ timers' = timers \/ timers' = timers \cup {c}
      /\ got' = [got EXCEPT ![c] = Empty]
      /\ sync' = [sync EXCEPT ![c] = NoSync]
  BY <1>2 DEF Return, Leave, Goto
<1>4. /\ cr \in [Resources -> Object(Status)]
      /\ obj \in [Resources -> Object(Status)]
      /\ left \in [Events -> Nat]
      /\ cr[c].gen \in 1 .. MaxGen
  BY <1>1 DEF TypeOK, KubeTypeOK, Object
<1>5. TypeOK'
  BY <1>1, <1>3, <1>4, WritesEffect, PayingType, TouchesType, CreatedShape,
     BoundTypes DEF TypeOK, KubeTypeOK, around
<1>6. pc'[c] = "idle" /\ obj'[c].gen <= cr[c].gen
  BY <1>1, <1>3, <1>4, CreatedShape, BoundTypes DEF TypeOK, KubeTypeOK
<1>7. \A d \in Resources \ {c} :
        /\ cr'[d] = cr[d] /\ obj'[d] = obj[d] /\ pc'[d] = pc[d]
        /\ got'[d] = got[d] /\ sync'[d] = sync[d]
        /\ d \in behind' <=> d \in behind
        /\ d \in stale' <=> d \in stale
  BY <1>1, <1>3, WritesEffect DEF TypeOK, KubeTypeOK
<1> QED BY <1>1, <1>4, <1>5, <1>6, <1>7, WritesEffect, PayingType
        DEF Step, around

LEMMA ReadEffect ==
  ASSUME TypeOK, Views, NEW c \in Resources, ReadCache(c)
  PROVE  /\ obj' = [obj EXCEPT ![c] = cache[c]] /\ Paying
         /\ behind' \subseteq Resources
         /\ \A d \in Resources \ {c} : d \in behind' <=> d \in behind
         /\ c \in behind' \/ cache[c] = cr[c]
  BY DEF ReadCache, Paying, Events, TypeOK, KubeTypeOK, Views

LEMMA GoesOnIsStep ==
  ASSUME IInv, NEW c \in Resources, NEW l, GoesOn(c, l)
  PROVE  Step(c)
<1>1. /\ TypeOK /\ Views /\ Counted /\ Touches(c)
      /\ UNCHANGED <<timers, budget, cache, conn, setup, configMap>>
      /\ queued' \subseteq Resources
  BY DEF GoesOn, IInv
<1>2. /\ cr \in [Resources -> Object(Status)]
      /\ obj \in [Resources -> Object(Status)]
      /\ cache \in [Resources -> Object(Status)]
      /\ left \in [Events -> Nat]
      /\ pc \in [Resources -> {"idle", "fetched", "drifted", "sync", "clear",
                               "put", "refetch", "record", "remove",
                               "release"}]
      /\ got \in [Resources -> Docs]
      /\ sync \in [Resources -> [gen: 0 .. MaxGen, value: Values]]
      /\ cr[c].gen \in 1 .. MaxGen /\ obj[c].gen \in 1 .. MaxGen
      /\ cache[c].gen \in 1 .. MaxGen
      /\ stale \subseteq Resources /\ behind \subseteq Resources
      /\ setup \in Setups /\ doc \in Docs /\ configMap \in Values
  BY <1>1 DEF TypeOK, KubeTypeOK, Object
<1>3. pc' = [pc EXCEPT ![c] = l]
  BY DEF GoesOn, Goto
<1>4. /\ pc' \in [Resources -> {"idle", "fetched", "drifted", "sync", "clear",
                                "put", "refetch", "record", "remove",
                                "release"}]
      /\ pc'[c] = l /\ l # "idle"
      /\ \A d \in Resources \ {c} : pc'[d] = pc[d]
      /\ pc[c] = "idle" => \A d \in Resources : pc[d] = "idle"
  BY <1>2, <1>3 DEF GoesOn
<1>5. /\ got' \in [Resources -> Docs]
      /\ \A d \in Resources \ {c} : got'[d] = got[d]
      /\ Lists => /\ l # "clear"
                  /\ l \in {"put", "remove"} => got'[c] = doc /\ doc' = doc
  BY <1>2, BoundTypes DEF GoesOn
<1>6. ValueOf(Wanted(c)) \in Values
  BY <1>2, WantShape DEF ValueOf, Wanted, Specs
<1>7. /\ sync' \in [Resources -> [gen: 0 .. MaxGen, value: Values]]
      /\ \A d \in Resources \ {c} : sync'[d] = sync[d]
      /\ l \in {"clear", "put", "refetch", "record"} =>
           sync'[c].gen \in 1 .. MaxGen
  <2>1. CASE sync' = sync
    BY <1>1, <1>2, <2>1, BoundTypes DEF GoesOn, Counted
  <2>2. CASE sync' = [sync EXCEPT ![c] = [gen |-> obj[c].gen,
                                          value |-> ValueOf(Wanted(c))]]
    <3>1. obj[c].gen \in 0 .. MaxGen
      BY <1>2
    <3>2. [gen |-> obj[c].gen, value |-> ValueOf(Wanted(c))]
            \in [gen: 0 .. MaxGen, value: Values]
      BY <1>6, <3>1
    <3> QED BY <1>2, <2>2, <3>2
  <2> QED BY <2>1, <2>2 DEF GoesOn
<1>8. /\ cr' \in [Resources -> Object(Status)]
      /\ obj' \in [Resources -> Object(Status)]
      /\ stale' \subseteq Resources /\ behind' \subseteq Resources
      /\ left' \in [Events -> Nat] /\ \A k \in Events : left'[k] <= left[k]
      /\ \A d \in Resources \ {c} :
           /\ cr'[d] = cr[d] /\ obj'[d] = obj[d]
           /\ d \in behind' <=> d \in behind
           /\ d \in stale' <=> d \in stale
      /\ cr'[c].gen = cr[c].gen
      /\ c \in stale' \/ (c \notin stale /\ cr'[c] = cr[c])
      /\ obj'[c].gen <= cr[c].gen
      /\ c \in behind' \/ obj'[c] = cr'[c]
  <2>1. CASE /\ pc[c] # "idle" /\ Paying
             /\ UNCHANGED <<cr, stale, obj, behind>>
    <3>1. c \in behind \/ obj[c] = cr[c]
      BY <1>1, <2>1 DEF Views
    <3> QED BY <1>1, <1>2, <2>1, <3>1, PayingType DEF Views
  <2>2. CASE UNCHANGED <<cr, stale>> /\ ReadCache(c)
    <3>1. obj'[c] = cache[c] /\ Paying
      BY <1>1, <1>2, <2>2, ReadEffect
    <3> QED BY <1>1, <1>2, <2>2, <3>1, ReadEffect, PayingType DEF Views
  <2>3. CASE /\ pc[c] # "idle" /\ c \notin behind
             /\ left' = left /\ behind' = behind
             /\ Write(c, Forgotten(obj[c]), FALSE)
             /\ obj' = [obj EXCEPT ![c] = Forgotten(@)]
    <3>1. /\ Forgotten(obj[c]) \in Object(Status)
          /\ Forgotten(obj[c]).gen = obj[c].gen
      BY <1>2, Successors DEF Successor
    <3>2. obj[c] = cr[c]
      BY <1>1, <2>3 DEF Views
    <3>3. /\ cr' = [cr EXCEPT ![c] = Forgotten(obj[c])]
          /\ \/ stale' = stale \cup {c}
             \/ stale' = stale /\ Forgotten(obj[c]) = cr[c]
      BY <2>3 DEF Write
    <3> QED BY <1>2, <2>3, <3>1, <3>2, <3>3
  <2> QED BY <2>1, <2>2, <2>3 DEF GoesOn
<1>9. TypeOK'
  BY <1>1, <1>2, <1>4, <1>5, <1>7, <1>8, TouchesType DEF TypeOK, KubeTypeOK
<1> QED BY <1>1, <1>4, <1>5, <1>7, <1>8, <1>9 DEF Step

-----------------------------------------------------------------------------
(* Every step of a pass is of one of the two kinds.                        *)

LEMMA ReportWrites ==
  ASSUME NEW c \in Resources, NEW new, Successor(obj[c], new),
         Report(c, new) \/ \E sure : Write(c, new, sure)
  PROVE  Writes(c)
  BY DEF Report, Writes

LEMMA EndSteps ==
  ASSUME IInv, NEW c \in Resources,
         \/ AddFinalizer(c) \/ SkipPaused(c) \/ ResolveFails(c)
         \/ SkipSynced(c) \/ DriftCheckFails(c) \/ (Forget(c) /\ c \in behind)
         \/ SourceInvalid(c) \/ SourceUnread(c) \/ Record(c)
         \/ DeleteUnresolved(c) \/ Release(c)
         \/ \E k \in {"server", "other"} :
              GetFails(c, k) \/ ClearFails(c, k) \/ PutFails(c, k)
  PROVE  Ends(c)
<1>1. /\ obj[c] \in Object(Status) /\ setup \in Setups
      /\ {"server", "other", "kube"} \subseteq Events
  BY DEF IInv, TypeOK, KubeTypeOK, Events
<1>2. ASSUME NEW again, Fail(c, again)
      PROVE  Writes(c) /\ Return(c, again)
  BY <1>1, <1>2, Successors, ReportWrites DEF Fail
<1>3. CASE AddFinalizer(c) \/ SkipPaused(c) \/ Release(c)
  <2>1. /\ pc[c] # "idle" /\ Return(c, c \in behind)
        /\ \/ Write(c, Guarded(obj[c]), FALSE)
           \/ Write(c, Paused(obj[c]), FALSE)
           \/ Write(c, Released(obj[c]), FALSE)
        /\ UNCHANGED <<left, around, setup, server>>
    BY <1>3 DEF AddFinalizer, SkipPaused, Release, Unguarded, Syncing
  <2>2. Writes(c)
    BY <1>1, <2>1, Successors DEF Writes
  <2> QED BY <2>1, <2>2 DEF Ends, Paying, Touches, server
<1>4. CASE ResolveFails(c) \/ SourceInvalid(c)
  <2>1. /\ pc[c] # "idle" /\ \E again : Fail(c, again)
        /\ UNCHANGED <<left, around, setup, server>>
    BY <1>4 DEF ResolveFails, SourceInvalid, Starting, Syncing
  <2> QED BY <1>2, <2>1 DEF Ends, Paying, Touches, server
<1>5. CASE SkipSynced(c) \/ DeleteUnresolved(c)
  <2>1. /\ pc[c] # "idle" /\ Return(c, TRUE)
        /\ UNCHANGED <<cr, stale, left, around, setup, server>>
    BY <1>5 DEF SkipSynced, DeleteUnresolved, CheckingDrift, Syncing,
       Deleting
  <2> QED BY <2>1 DEF Ends, Writes, Paying, Touches, server
<1>6. CASE DriftCheckFails(c)
  <2>1. /\ pc[c] # "idle" /\ Return(c, TRUE) /\ \E k \in Events : Spend(k)
        /\ Report(c, Failing(obj[c])) \/ Report(c, obj[c])
        /\ UNCHANGED <<around, setup, server>>
    BY <1>1, <1>6 DEF DriftCheckFails, CheckingDrift, Syncing
  <2>2. Writes(c)
    BY <1>1, <2>1, Successors, ReportWrites
  <2> QED BY <2>1, <2>2 DEF Ends, Paying, Touches, server
<1>7. CASE Forget(c) /\ c \in behind
  <2>1. /\ pc[c] # "idle" /\ Return(c, TRUE)
        /\ Write(c, Forgotten(obj[c]), FALSE)
        /\ UNCHANGED <<left, around, setup, server>>
    BY <1>7 DEF Forget
  <2>2. Writes(c)
    BY <1>1, <2>1, Successors, ReportWrites
  <2> QED BY <2>1, <2>2 DEF Ends, Paying, Touches, server
<1>8. CASE SourceUnread(c)
  <2>1. /\ pc[c] # "idle" /\ \E again : Fail(c, again)
        /\ \E k \in Events : Spend(k)
        /\ UNCHANGED <<around, setup, server>>
    BY <1>1, <1>8 DEF SourceUnread, Starting, Syncing
  <2> QED BY <1>2, <2>1 DEF Ends, Paying, Touches, server
<1>9. CASE Record(c)
  <2>1. /\ pc[c] = "record" /\ Return(c, c \in behind)
        /\ Write(c, Synced(obj[c], c), TRUE)
        /\ UNCHANGED <<left, around, setup, server>>
    BY <1>9 DEF Record
  <2>2. Successor(obj[c], Synced(obj[c], c))
    BY <1>1, <2>1, SyncedShape DEF IInv, Counted
  <2>3. Writes(c)
    BY <2>1, <2>2 DEF Writes
  <2> QED BY <2>1, <2>3 DEF Ends, Paying, Touches, server
<1>10. ASSUME NEW k \in {"server", "other"},
              GetFails(c, k) \/ ClearFails(c, k) \/ PutFails(c, k)
       PROVE  Ends(c)
  <2>1. CASE GetFails(c, k)
    <3>1. /\ pc[c] # "idle" /\ \E again : Fail(c, again)
          /\ \E e \in Events : Spend(e)
          /\ UNCHANGED <<around, setup, server>>
      BY <1>1, <2>1 DEF GetFails, Starting, Syncing
    <3> QED BY <1>2, <3>1 DEF Ends, Paying, Touches, server
  <2>2. CASE ClearFails(c, k)
    <3>1. /\ pc[c] = "clear" /\ \E again : Fail(c, again)
          /\ \E e \in Events : Spend(e)
          /\ doc' \in {doc, Cleared(c)}
          /\ UNCHANGED <<around, setup, configMap>>
      BY <1>1, <2>2 DEF ClearFails
    <3> QED BY <1>2, <3>1 DEF Ends, Paying, Touches
  <2>3. CASE PutFails(c, k)
    <3>1. /\ pc[c] = "put" /\ \E again : Fail(c, again)
          /\ \E e \in Events : Spend(e)
          /\ doc' \in {doc, Sent(c)}
          /\ UNCHANGED <<around, setup, configMap>>
      BY <1>1, <2>3 DEF PutFails
    <3> QED BY <1>2, <3>1 DEF Ends, Paying, Touches
  <2> QED BY <1>10, <2>1, <2>2, <2>3
<1> QED BY <1>3, <1>4, <1>5, <1>6, <1>7, <1>8, <1>9, <1>10

LEMMA GoesOnSteps ==
  ASSUME IInv, NEW c \in Resources,
         \/ DriftDetected(c) \/ (Forget(c) /\ c \notin behind) \/ Get(c)
         \/ Clear(c) \/ Put(c) \/ Refetch(c) \/ GetToDelete(c) \/ Remove(c)
  PROVE  \E l : GoesOn(c, l)
<1>1. queued \subseteq Resources
  BY DEF IInv, TypeOK, KubeTypeOK
<1>2. CASE DriftDetected(c)
  BY <1>1, <1>2 DEF DriftDetected, CheckingDrift, Syncing, GoesOn, Goto,
     Paying, Touches, around, server
<1>3. CASE Forget(c) /\ c \notin behind
  BY <1>1, <1>3 DEF Forget, GoesOn, Goto, Touches, around, server
<1>4. CASE Get(c)
  <2>1. NextCall(c) \in {"refetch", "clear", "put"}
        /\ (Lists => NextCall(c) # "clear")
    BY DEF NextCall, Lists
  <2>2. GoesOn(c, NextCall(c))
    BY <1>1, <1>4, <2>1 DEF Get, Starting, Syncing, GoesOn, Goto, Paying,
       Touches, around, server
  <2> QED BY <2>2
<1>5. CASE Clear(c)
  <2>1. ~Lists
    BY <1>5 DEF Clear, IInv, Current
  <2>2. GoesOn(c, "put")
    BY <1>1, <1>5, <2>1 DEF Clear, GoesOn, Goto, Paying, Touches, around,
       server
  <2> QED BY <2>2
<1>6. CASE Put(c)
  <2>1. GoesOn(c, "refetch")
    BY <1>1, <1>6 DEF Put, GoesOn, Goto, Paying, Touches, around
  <2> QED BY <2>1
<1>7. CASE Refetch(c)
  <2>1. GoesOn(c, "record")
    BY <1>1, <1>7 DEF Refetch, GoesOn, Goto, Touches, around, server
  <2> QED BY <2>1
<1>8. CASE GetToDelete(c)
  <2>1. GoesOn(c, "remove") \/ GoesOn(c, "release")
    BY <1>1, <1>8 DEF GetToDelete, Deleting, GoesOn, Goto, Paying, Touches,
       around, server
  <2> QED BY <2>1
<1>9. CASE Remove(c)
  <2>1. GoesOn(c, "release")
    BY <1>1, <1>9 DEF Remove, GoesOn, Goto, Paying, Touches, around
  <2> QED BY <2>1
<1> QED BY <1>2, <1>3, <1>4, <1>5, <1>6, <1>7, <1>8, <1>9

(* A call of the deletion that fails ends the pass or is let go.           *)
LEMMA GiveUpSteps ==
  ASSUME IInv, NEW c \in Resources, NEW k \in {"server", "other"},
         GetToDeleteFails(c, k) \/ RemoveFails(c, k)
  PROVE  Ends(c) \/ \E l : GoesOn(c, l)
<1>1. queued \subseteq Resources /\ k \in Events
  BY DEF IInv, TypeOK, KubeTypeOK, Events
<1>2. /\ pc[c] # "idle" /\ Spend(k) /\ Touches(c)
      /\ UNCHANGED <<cr, stale, around, setup, configMap>>
      /\ \E again : GiveUp(c, again)
  <2>1. CASE GetToDeleteFails(c, k)
    BY <2>1 DEF GetToDeleteFails, Deleting, Touches, server
  <2>2. CASE RemoveFails(c, k)
    BY <2>2 DEF RemoveFails, Touches
  <2> QED BY <2>1, <2>2
<1>3. PICK again : GiveUp(c, again)
  BY <1>2
<1>4. CASE again
  BY <1>1, <1>2, <1>3, <1>4 DEF GiveUp, Ends, Writes, Paying
<1>5. CASE ~again
  <2>1. GoesOn(c, "release")
    BY <1>1, <1>2, <1>3, <1>5 DEF GiveUp, GoesOn, Paying, around
  <2> QED BY <2>1
<1> QED BY <1>4, <1>5

LEMMA ReconcileSteps ==
  ASSUME IInv, NEW c \in Resources, Reconcile(c)
  PROVE  Step(c)
<1>1. Syncs(c) \/ Deletes(c)
  BY DEF Reconcile, CollectorSteps, DashboardSteps, RepairSteps,
     ArchiveSteps
<1>2. Ends(c) \/ \E l : GoesOn(c, l)
  BY <1>1, EndSteps, GoesOnSteps, GiveUpSteps DEF Syncs, Deletes
<1> QED BY <1>2, EndsIsStep, GoesOnIsStep

-----------------------------------------------------------------------------
(* What happens around the passes: copies are brought up to date or        *)
(* dropped, and only the console writes the document.                      *)
Aside ==
  /\ TypeOK' /\ Views'
  /\ setup' = setup /\ budget' = budget
  /\ \A k \in Events : left'[k] <= left[k]
  /\ \A c \in Resources :
       \/ pc'[c] = "idle"
       \/ pc'[c] = pc[c] /\ got'[c] = got[c] /\ sync'[c] = sync[c]
  /\ doc' = doc \/ left'["external"] < left["external"]

LEMMA SpendEffect ==
  ASSUME left \in [Events -> Nat], NEW k \in Events, Spend(k)
  PROVE  /\ left' \in [Events -> Nat] /\ left'[k] < left[k]
         /\ \A e \in Events : left'[e] <= left[e]
  BY DEF Spend

LEMMA AroundSteps ==
  ASSUME IInv, NEW c \in Resources, Around(c)
  PROVE  Aside
<1>1. /\ TypeOK /\ Views /\ left \in [Events -> Nat]
      /\ cr \in [Resources -> Object(Status)]
      /\ cache \in [Resources -> Object(Status)]
      /\ obj \in [Resources -> Object(Status)]
      /\ stale \subseteq Resources /\ behind \subseteq Resources
      /\ {"edit", "delete"} \subseteq Events
      /\ UNCHANGED <<setup, got, sync, server>>
  BY DEF IInv, TypeOK, KubeTypeOK, Around, Events
<1>2. \A d \in Resources : /\ cr[d].gen \in Nat /\ cache[d].gen \in Nat
                           /\ obj[d].gen \in Nat
  BY <1>1, BoundTypes DEF Object
<1>3. ASSUME NEW new \in Object(Status), Overwrite(c, new),
             new.gen = cr[c].gen \/ new.gen = cr[c].gen + 1,
             \E k \in Events : Spend(k)
      PROVE  Aside
  <2>1. /\ cr' = [cr EXCEPT ![c] = new] /\ stale' = stale \cup {c}
        /\ behind' = IF pc[c] = "idle" THEN behind ELSE behind \cup {c}
        /\ UNCHANGED <<timers, obj, pc, around>>
    BY <1>3 DEF Overwrite
  <2>2. /\ left' \in [Events -> Nat]
        /\ \A e \in Events : left'[e] <= left[e]
    BY <1>1, <1>3, SpendEffect
  <2>3. new.gen \in Nat /\ new.gen >= cr[c].gen
    BY <1>2, <1>3
  <2>4. TypeOK'
    BY <1>1, <1>3, <2>1, <2>2 DEF TypeOK, KubeTypeOK, around, server
  <2>5. Views'
    <3>1. SUFFICES ASSUME NEW d \in Resources
                   PROVE  /\ d \notin stale' => cache'[d] = cr'[d]
                          /\ pc'[d] # "idle" /\ d \notin behind' =>
                               obj'[d] = cr'[d]
                          /\ cache'[d].gen <= cr'[d].gen
                          /\ obj'[d].gen <= cr'[d].gen
      BY DEF Views
    <3>2. CASE d = c
      BY <1>1, <1>2, <2>1, <2>3, <3>2 DEF Views, around
    <3>3. CASE d # c
      BY <1>1, <2>1, <3>3 DEF Views, around
    <3> QED BY <3>2, <3>3
  <2> QED BY <1>1, <2>1, <2>2, <2>4, <2>5 DEF Aside, around, server
<1>4. CASE UserEdits(c)
  <2>1. cr[c] \in Object(Status) /\ cr[c].gen < MaxGen
    BY <1>1, <1>4 DEF UserEdits
  <2>2. /\ [cr[c] EXCEPT !.gen = @ + 1] \in Object(Status)
        /\ [cr[c] EXCEPT !.gen = @ + 1].gen = cr[c].gen + 1
    BY <2>1, BoundTypes DEF Object
  <2> QED BY <1>1, <1>3, <1>4, <2>2 DEF UserEdits
<1>5. CASE UserDeletes(c)
  <2>1. cr[c] \in Object(Status)
    BY <1>1
  <2>2. /\ [cr[c] EXCEPT !.deleting = TRUE] \in Object(Status)
        /\ [cr[c] EXCEPT !.deleting = TRUE].gen = cr[c].gen
        /\ [cr[c] EXCEPT !.live = FALSE] \in Object(Status)
        /\ [cr[c] EXCEPT !.live = FALSE].gen = cr[c].gen
    BY <2>1 DEF Object
  <2> QED BY <1>1, <1>3, <1>5, <2>2 DEF UserDeletes
<1>6. CASE WatchDelivers(c)
  <2>1. /\ cache' = [cache EXCEPT ![c] = cr[c]] /\ stale' = stale \ {c}
        /\ queued' = queued \cup {c}
        /\ UNCHANGED <<budget, cr, timers, left, copies, conn>>
    BY <1>6 DEF WatchDelivers
  <2>2. TypeOK'
    BY <1>1, <2>1 DEF TypeOK, KubeTypeOK, copies, server
  <2>3. Views'
    BY <1>1, <1>2, <2>1 DEF Views, copies
  <2> QED BY <1>1, <2>1, <2>2, <2>3 DEF Aside, copies, server
<1>7. CASE TimerFires(c)
  <2>1. /\ queued' = queued \cup {c} /\ timers' = timers \ {c}
        /\ UNCHANGED <<budget, cr, cache, stale, left, copies, conn>>
    BY <1>7 DEF TimerFires
  <2>2. TypeOK'
    BY <1>1, <2>1 DEF TypeOK, KubeTypeOK, copies, server
  <2>3. Views'
    BY <1>1, <2>1 DEF Views, copies
  <2> QED BY <1>1, <2>1, <2>2, <2>3 DEF Aside, copies, server
<1> QED BY <1>4, <1>5, <1>6, <1>7 DEF Around

LEMMA OtherSteps ==
  ASSUME IInv, Crash \/ ConnChanges \/ ConfigMapChanges \/ ConsoleEdits
  PROVE  Aside
<1>1. /\ TypeOK /\ Views /\ left \in [Events -> Nat]
      /\ cr \in [Resources -> Object(Status)]
      /\ {"crash", "conn", "edit", "external"} \subseteq Events
  BY DEF IInv, TypeOK, KubeTypeOK, Events
<1>2. CASE Crash
  <2>1. /\ Spend("crash")
        /\ cache' = cr /\ stale' = {} /\ queued' = Resources /\ timers' = {}
        /\ obj' = [c \in Resources |-> Created(NoStatus)] /\ behind' = {}
        /\ pc' = [c \in Resources |-> "idle"]
        /\ got' = [c \in Resources |-> Empty]
        /\ sync' = [c \in Resources |-> NoSync]
        /\ UNCHANGED <<budget, cr, conn, setup, server>>
    BY <1>2 DEF Crash, Restart
  <2>2. TypeOK'
    BY <1>1, <2>1, SpendEffect, CreatedShape, BoundTypes
       DEF TypeOK, KubeTypeOK, server
  <2>3. \A c \in Resources : cr[c].gen \in 1 .. MaxGen
    BY <1>1 DEF Object
  <2>4. Views'
    BY <2>1, <2>3, CreatedShape, BoundTypes DEF Views
  <2> QED BY <1>1, <2>1, <2>2, <2>4, SpendEffect DEF Aside, server
<1>3. CASE ConnChanges
  <2>1. /\ Spend("conn") /\ conn' \in ConnStates
        /\ UNCHANGED <<budget, cr, cache, stale, queued, timers, copies,
                       setup, got, sync, server>>
    BY <1>3 DEF ConnChanges, ConnMoves
  <2>2. TypeOK' /\ Views'
    BY <1>1, <2>1, SpendEffect DEF TypeOK, KubeTypeOK, Views, copies, server
  <2> QED BY <1>1, <2>1, <2>2, SpendEffect DEF Aside, copies, server
<1>4. CASE ConfigMapChanges
  <2>1. /\ Spend("edit") /\ configMap' \in Values
        /\ queued' = queued \cup Readers /\ Readers \subseteq Resources
        /\ UNCHANGED <<budget, cr, cache, stale, timers, copies, conn, setup,
                       got, sync, doc>>
    BY <1>4 DEF ConfigMapChanges, Readers
  <2>2. TypeOK' /\ Views'
    BY <1>1, <2>1, SpendEffect DEF TypeOK, KubeTypeOK, Views, copies
  <2> QED BY <1>1, <2>1, <2>2, SpendEffect DEF Aside, copies
<1>5. CASE ConsoleEdits
  <2>1. /\ Spend("external") /\ doc' \in Docs
        /\ UNCHANGED <<cr, stale, timers, copies, around, setup, got, sync,
                       configMap>>
    BY <1>1, <1>5 DEF ConsoleEdits, TypeOK, Docs
  <2>2. TypeOK' /\ Views'
    BY <1>1, <2>1, SpendEffect DEF TypeOK, KubeTypeOK, Views, copies, around
  <2> QED BY <1>1, <2>1, <2>2, SpendEffect DEF Aside, copies, around
<1> QED BY <1>2, <1>3, <1>4, <1>5

LEMMA FetchSteps ==
  ASSUME IInv, NEW c \in Resources, Fetch(c)
  PROVE  Step(c) \/ Aside
<1>1. /\ TypeOK /\ Views /\ queued \subseteq Resources
      /\ queued' = queued \ {c} /\ pc[c] = "idle"
      /\ \A d \in Resources : pc[d] = "idle"
      /\ UNCHANGED <<budget, cr, cache, stale, timers, conn, setup, got,
                     sync, server>>
  BY DEF IInv, TypeOK, KubeTypeOK, Fetch, Take
<1>2. CASE ReadCache(c) /\ Goto(c, "fetched")
  <2>1. GoesOn(c, "fetched")
    BY <1>1, <1>2 DEF GoesOn, Touches, server
  <2> QED BY <2>1, GoesOnIsStep
<1>3. CASE UNCHANGED <<copies, left>>
  <2>1. TypeOK' /\ Views' /\ left \in [Events -> Nat]
    BY <1>1, <1>3 DEF TypeOK, KubeTypeOK, Views, copies, server
  <2>2. \A k \in Events : left'[k] <= left[k]
    BY <1>3, <2>1
  <2> QED BY <1>1, <1>3, <2>1, <2>2 DEF Aside, copies, server
<1> QED BY <1>2, <1>3 DEF Fetch, Take

LEMMA NextSteps ==
  ASSUME IInv, [Next]_vars
  PROVE  (\E c \in Resources : Step(c)) \/ Aside \/ UNCHANGED vars
  BY FetchSteps, ReconcileSteps, AroundSteps, OtherSteps DEF Next

-----------------------------------------------------------------------------
(* The invariant is preserved.                                             *)

(* What has not happened after a step had not before it.                   *)
LEMMA UnspentBefore ==
  ASSUME TypeOK, Counted, budget' = budget, NEW k \in Events,
         left' \in [Events -> Nat],
         \A e \in Events : left'[e] <= left[e], Unspent(k)'
  PROVE  Unspent(k) /\ left'[k] = left[k]
<1>1. left[k] \in Nat /\ left'[k] \in Nat /\ budget[k] \in Nat
  BY DEF TypeOK, KubeTypeOK
<1>2. left'[k] = budget[k] /\ left'[k] <= left[k] /\ left[k] <= budget[k]
  BY DEF Unspent, Counted
<1> QED BY <1>1, <1>2 DEF Unspent

LEMMA StepInvariant ==
  ASSUME IInv, NEW c \in Resources, Step(c)
  PROVE  IInv'
<1>1. /\ TypeOK /\ Alone /\ Views /\ Counted /\ Current
      /\ TypeOK' /\ setup' = setup /\ budget' = budget /\ cache' = cache
      /\ cr[c].gen \in Nat
      /\ left \in [Events -> Nat] /\ left' \in [Events -> Nat]
      /\ budget \in [Events -> Nat]
      /\ "external" \in Events
  BY BoundTypes DEF IInv, Step, TypeOK, KubeTypeOK, Object, Events
<1>2. Alone'
  BY <1>1 DEF Alone, Step
<1>3. Views'
  <2>1. SUFFICES ASSUME NEW d \in Resources
                 PROVE  /\ d \notin stale' => cache'[d] = cr'[d]
                        /\ pc'[d] # "idle" /\ d \notin behind' =>
                             obj'[d] = cr'[d]
                        /\ cache'[d].gen <= cr'[d].gen
                        /\ obj'[d].gen <= cr'[d].gen
    BY DEF Views
  <2>2. CASE d = c
    BY <1>1, <2>2 DEF Views, Step
  <2>3. CASE d # c
    BY <1>1, <2>3 DEF Views, Step
  <2> QED BY <2>2, <2>3
<1>4. Counted'
  <2>1. \A k \in Events : left'[k] <= budget'[k]
    BY <1>1 DEF Counted, Step
  <2> QED BY <1>1, <2>1 DEF Counted, Step
<1>5. Current'
  <2>1. SUFFICES ASSUME Lists, NEW d \in Resources
                 PROVE  /\ pc'[d] # "clear"
                        /\ pc'[d] \in {"put", "remove"}
                           /\ Unspent("external")' => got'[d] = doc'
    BY <1>1 DEF Current, Lists, kind
  <2>2. CASE d = c
    BY <2>1, <2>2 DEF Step
  <2>3. CASE d # c
    <3>1. pc'[d] = pc[d] /\ got'[d] = got[d]
      BY <2>3 DEF Step
    <3>2. ASSUME pc[d] # "idle"
          PROVE  doc' = doc
      BY <1>1, <2>3, <3>2 DEF Alone, Step, Touches
    <3>3. Unspent("external")' => Unspent("external")
      BY <1>1, UnspentBefore DEF Step
    <3> QED BY <1>1, <2>1, <3>1, <3>2, <3>3 DEF Current
  <2> QED BY <2>2, <2>3
<1> QED BY <1>1, <1>2, <1>3, <1>4, <1>5 DEF IInv

LEMMA AsideInvariant ==
  ASSUME IInv, Aside
  PROVE  IInv'
<1>1. /\ TypeOK /\ Alone /\ Views /\ Counted /\ Current
      /\ TypeOK' /\ Views' /\ setup' = setup /\ budget' = budget
      /\ left \in [Events -> Nat] /\ left' \in [Events -> Nat]
      /\ budget \in [Events -> Nat]
      /\ "external" \in Events
  BY DEF IInv, Aside, TypeOK, KubeTypeOK, Events
<1>2. Alone'
  BY <1>1 DEF Alone, Aside
<1>3. Counted'
  <2>1. \A k \in Events : left'[k] <= budget'[k]
    BY <1>1 DEF Counted, Aside
  <2> QED BY <1>1, <2>1 DEF Counted, Aside
<1>4. Current'
  <2>1. Unspent("external")' => Unspent("external") /\ doc' = doc
    <3>1. Unspent("external")' =>
            Unspent("external") /\ left'["external"] = left["external"]
      BY <1>1, UnspentBefore DEF Aside
    <3> QED BY <1>1, <3>1 DEF Aside
  <2> QED BY <1>1, <2>1 DEF Current, Aside, Lists, kind
<1> QED BY <1>1, <1>2, <1>3, <1>4 DEF IInv

LEMMA InitInvariant ==
  ASSUME Init
  PROVE  IInv
<1>1. /\ setup \in Setups /\ budget = setup.budget /\ left = budget
      /\ cr = [c \in Resources |-> Created(NoStatus)]
      /\ cache = cr /\ obj = cr
      /\ stale = {} /\ behind = {} /\ queued = Resources /\ timers = {}
      /\ pc = [c \in Resources |-> "idle"]
      /\ conn \in ConnStates
      /\ got = [c \in Resources |-> Empty]
      /\ sync = [c \in Resources |-> NoSync]
      /\ doc = setup.doc /\ configMap = 1
  BY DEF Init, KubeInit
<1>2. TypeOK
  BY <1>1, SetupShape, CreatedShape, BoundTypes DEF TypeOK, KubeTypeOK
<1>3. Alone /\ Current
  BY <1>1 DEF Alone, Current
<1>4. Views
  <2>1. ASSUME NEW c \in Resources
        PROVE  cr[c].gen = 1 /\ cache[c] = cr[c] /\ obj[c] = cr[c]
    BY <1>1, CreatedShape
  <2>2. ASSUME NEW c \in Resources
        PROVE  cache[c].gen <= cr[c].gen /\ obj[c].gen <= cr[c].gen
    <3>1. cr[c].gen = 1 /\ cache[c].gen = 1 /\ obj[c].gen = 1
      BY <2>1
    <3>2. 1 <= 1
      OBVIOUS
    <3> QED BY <3>1, <3>2, Zenon
  <2> QED BY <2>1, <2>2 DEF Views
<1>5. Counted
  BY <1>1, SetupShape DEF Counted
<1> QED BY <1>2, <1>3, <1>4, <1>5 DEF IInv

LEMMA NextInvariant ==
  ASSUME IInv, [Next]_vars
  PROVE  IInv'
<1>1. CASE UNCHANGED vars
  BY <1>1 DEF IInv, TypeOK, KubeTypeOK, Alone, Views, Counted, Current,
     Lists, kind, Unspent, vars, kubeVars, copies, around, server
<1> QED BY <1>1, NextSteps, StepInvariant, AsideInvariant

LEMMA Invariance == Spec => []IInv
  BY InitInvariant, NextInvariant, PTL DEF Spec

-----------------------------------------------------------------------------
(* Every variable keeps its type: a status never records a generation the  *)
(* user did not submit.                                                    *)
THEOREM TypeCorrect == Spec => []TypeOK
<1>1. IInv => TypeOK
  BY DEF IInv
<1> QED BY <1>1, Invariance, PTL

(* A call changes parts only that a spec of its resource has asked for.    *)
LEMMA OthersKeptStep ==
  ASSUME IInv, [Next]_vars, Unspent("external")',
         NEW k \in Keys, doc'[k] # doc[k]
  PROVE  \E c \in Resources :
           /\ pc[c] \in {"clear", "put", "remove"}
           /\ \E g \in 1 .. cr[c].gen : k \in setup.spec[c][g].keys
<1>1. /\ TypeOK /\ Views /\ Counted /\ Current /\ TypeOK'
      /\ left' \in [Events -> Nat] /\ "external" \in Events
      /\ doc \in Docs
  BY NextInvariant DEF IInv, TypeOK, KubeTypeOK, Events
<1>2. ~Aside
  <2>1. ASSUME Aside
        PROVE  FALSE
    <3>1. left'["external"] = left["external"]
      BY <1>1, <2>1, UnspentBefore DEF Aside
    <3>2. left'["external"] \in Nat
      BY <1>1
    <3> QED BY <2>1, <3>1, <3>2 DEF Aside
  <2> QED BY <2>1
<1>3. PICK c \in Resources : Step(c)
  BY <1>2, NextSteps DEF vars, server
<1>4. Unspent("external")
  BY <1>1, <1>3, UnspentBefore DEF Step
<1>5. /\ obj[c].gen \in 1 .. cr[c].gen
      /\ Wanted(c).keys = setup.spec[c][obj[c].gen].keys
  <2>1. obj[c].gen \in 1 .. MaxGen /\ cr[c].gen \in 1 .. MaxGen
    BY <1>1 DEF TypeOK, KubeTypeOK, Object
  <2>2. obj[c].gen <= cr[c].gen
    BY <1>1 DEF Views
  <2> QED BY <2>1, <2>2, BoundTypes DEF Wanted, Want
<1>6. pc[c] \in {"clear", "put", "remove"} /\ k \in Wanted(c).keys
  <2>1. CASE pc[c] = "clear" /\ doc' = Cleared(c)
    BY <2>1 DEF Cleared
  <2>2. CASE pc[c] = "put" /\ doc' = Sent(c)
    BY <1>1, <1>4, <2>2 DEF Sent, Merged, Current
  <2>3. CASE pc[c] = "remove" /\ doc' = Without(c)
    BY <1>1, <1>4, <2>3 DEF Without, Current
  <2> QED BY <1>3, <2>1, <2>2, <2>3 DEF Step, Touches
<1> QED BY <1>5, <1>6

(* The parts of others survive the read, change and write of the whole     *)
(* document, however many resources share it and whatever fails or is read *)
(* late between the GET and the PUT.                                       *)
THEOREM OthersStay == Spec => OthersKept
<1>1. IInv /\ [Next]_vars =>
        [Unspent("external")' =>
           \A k \in Keys : doc'[k] # doc[k] =>
             \E c \in Resources :
               /\ pc[c] \in {"clear", "put", "remove"}
               /\ \E g \in 1 .. cr[c].gen : k \in setup.spec[c][g].keys]_vars
  BY OthersKeptStep
<1> QED BY <1>1, Invariance, PTL DEF Spec, OthersKept

-----------------------------------------------------------------------------
(***************************************************************************)
(* What Ready says of the document.  Beyond IInv this rests on the order   *)
(* in which generations are read, pushed and recorded (Ages), on what a    *)
(* pass carries from one call to the next (Carries), and on the two        *)
(* moments at which the document has what is asked for: when a push is     *)
(* over (Landed), and for as long as the status says so (Backed).          *)
(***************************************************************************)
Asked(c, g) == setup.spec[c][g]

Ages(c) ==
  /\ cr[c].status.obsGen <= cache[c].gen
  /\ cache[c].deleting \/ obj[c].deleting => cr[c].deleting
  /\ pc[c] # "idle" => obj[c].gen <= cache[c].gen
  /\ pc[c] \in {"fetched", "drifted", "sync", "clear", "put"} =>
       cr[c].status.obsGen <= obj[c].gen
  /\ pc[c] = "remove" => obj[c].deleting
  /\ Unspent("lag") /\ pc[c] # "idle" => obj[c].status = cr[c].status

(* A push is of a generation that needs one, with the value it asks for.   *)
Carries(c) ==
  /\ pc[c] \in {"sync", "clear", "put"} => ~AlreadySynced(obj[c])
  /\ pc[c] \in {"clear", "put"} => sync[c].gen = obj[c].gen
  /\ pc[c] = "clear" => kind = "archive"
  /\ pc[c] \in {"clear", "put", "refetch", "record"} =>
       /\ sync[c].gen <= cache[c].gen
       /\ Asked(c, sync[c].gen).value \in {0, sync[c].value}

Landed(c) ==
  pc[c] \in {"refetch", "record"} =>
    \A k \in Asked(c, sync[c].gen).keys : doc[k] = sync[c].value

Backed(c) ==
  Synchronised(c) /\ Want(cr[c], c).value # 0 =>
    \A k \in Want(cr[c], c).keys : doc[k] = Want(cr[c], c).value

(* An archive deletes before it posts: after a stale read, even what has   *)
(* been synced already.                                                    *)
Stored ==
  \A c \in Resources :
    Landed(c) /\ ((kind = "archive" => Unspent("lag")) => Backed(c))

RInv ==
  /\ \A c \in Resources : Ages(c) /\ Carries(c)
  /\ Disjoint /\ Unspent("external") => Stored

-----------------------------------------------------------------------------
(* What a write leaves of a resource.                                      *)
LEMMA WrittenFields ==
  ASSUME NEW o \in Object(Status), NEW n \in {Guarded(o), Released(o),
                                              Paused(o), Failing(o)}
  PROVE  /\ n.gen = o.gen /\ n.deleting = o.deleting
         /\ n.live => o.live
         /\ n.status.at = o.status.at
         /\ n.status.obsGen = o.status.obsGen \/ n.status.obsGen = o.gen
         /\ \/ "Failed" \in n.status.conds
            \/ /\ n.status.obsGen = o.status.obsGen
               /\ "Failed" \in o.status.conds => "Failed" \in n.status.conds
               /\ "Ready" \in n.status.conds => "Ready" \in o.status.conds
<1> USE DEF Object, Status
<1>1. CASE n = Guarded(o)
  BY <1>1 DEF Guarded
<1>2. CASE n = Released(o)
  <2>1. n.status = o.status /\ n.gen = o.gen /\ n.deleting = o.deleting
        /\ n.live = FALSE
    BY <1>2 DEF Released
  <2> QED BY <2>1
<1>3. CASE n = Paused(o)
  <2>1. /\ n.gen = o.gen /\ n.deleting = o.deleting /\ n.live = o.live
        /\ n.status.at = o.status.at /\ n.status.obsGen = o.status.obsGen
        /\ n.status.conds = o.status.conds \cup {"Paused"}
    BY <1>3 DEF Paused
  <2> QED BY <2>1
<1>4. CASE n = Failing(o)
  <2>1. /\ n.gen = o.gen /\ n.deleting = o.deleting /\ n.live = o.live
        /\ n.status = [conds |-> o.status.conds \cup {"Failed"},
                       obsGen |-> o.gen, at |-> o.status.at]
    BY <1>4 DEF Failing
  <2> QED BY <2>1
<1> QED BY <1>1, <1>2, <1>3, <1>4

LEMMA SyncedFields ==
  ASSUME NEW o \in Object(Status), NEW c \in Resources
  PROVE  /\ Synced(o, c).gen = o.gen /\ Synced(o, c).deleting = o.deleting
         /\ Synced(o, c).status.obsGen = sync[c].gen
BY DEF Synced, Object, Status

LEMMA ForgottenFields ==
  ASSUME NEW o \in Object(Status)
  PROVE  /\ Forgotten(o).gen = o.gen /\ Forgotten(o).deleting = o.deleting
         /\ Forgotten(o).status.obsGen = o.status.obsGen
         /\ Forgotten(o).status.at = {}
BY DEF Forgotten, Object, Status

(* What the updates of a pass that ends leave.                             *)
Concludes(c) ==
  \/ cr'[c] = cr[c]
  \/ /\ c \notin behind
     /\ \/ cr'[c] \in {obj[c], Paused(obj[c]), Failing(obj[c])}
        \/ Unguarded(c) /\ cr'[c] = Guarded(obj[c])
        \/ pc[c] = "release" /\ cr'[c] = Released(obj[c])
        \/ pc[c] = "record" /\ cr'[c] = Synced(obj[c], c)

(* A pass ends.                                                            *)
Over(c) ==
  /\ pc[c] # "idle" /\ pc'[c] = "idle" /\ obj'[c] = Created(NoStatus)
  /\ Concludes(c)

(* A pass goes on, by a read, with a copy that forgot its claim, or with   *)
(* the copy in hand.                                                       *)
ReadOn(c) ==
  /\ obj'[c] = cache[c]
  /\ c \in stale => Spend("lag")
  /\ UNCHANGED <<cr, sync, doc>>
  /\ \/ pc[c] = "idle" /\ pc'[c] = "fetched" /\ cache[c].live
     \/ pc[c] = "refetch" /\ pc'[c] = "record"

ForgetOn(c) ==
  /\ pc[c] = "drifted" /\ pc'[c] = "sync" /\ c \notin behind
  /\ cr'[c] = Forgotten(obj[c]) /\ obj'[c] = Forgotten(obj[c])
  /\ UNCHANGED <<sync, doc>>

CallOn(c) ==
  /\ UNCHANGED <<cr, obj>>
  /\ \/ CheckingDrift(c) /\ pc'[c] = "drifted" /\ UNCHANGED <<sync, doc>>
     \/ /\ Starting(c) /\ pc'[c] = NextCall(c) /\ doc' = doc
        /\ sync'[c] = [gen |-> obj[c].gen, value |-> ValueOf(Wanted(c))]
     \/ /\ pc[c] = "clear" /\ pc'[c] = "put" /\ doc' = Cleared(c)
        /\ sync' = sync
     \/ /\ pc[c] = "put" /\ pc'[c] = "refetch" /\ doc' = Sent(c)
        /\ sync' = sync
     \/ /\ Deleting(c) /\ pc'[c] \in {"remove", "release"}
        /\ UNCHANGED <<sync, doc>>
     \/ pc[c] = "remove" /\ pc'[c] = "release" /\ sync' = sync

Passes(c) ==
  /\ Step(c)
  /\ Over(c) \/ ReadOn(c) \/ ForgetOn(c) \/ CallOn(c)

(* The user acts, the informer catches up, or nothing is done to any       *)
(* resource.                                                               *)
WishesFor(c) ==
  /\ UNCHANGED <<cache, obj, pc, sync, doc>>
  /\ \A d \in Resources \ {c} : cr'[d] = cr[d]
  /\ cr[c].live
  /\ \/ cr[c].gen < MaxGen /\ cr'[c] = [cr[c] EXCEPT !.gen = @ + 1]
     \/ /\ ~cr[c].deleting /\ cr[c].finalizer
        /\ cr'[c] = [cr[c] EXCEPT !.deleting = TRUE]
     \/ /\ ~cr[c].deleting /\ ~cr[c].finalizer
        /\ cr'[c] = [cr[c] EXCEPT !.live = FALSE]

DeliversTo(c) ==
  /\ UNCHANGED <<cr, obj, pc, sync, doc>>
  /\ cache'[c] = cr[c] /\ \A d \in Resources \ {c} : cache'[d] = cache[d]

Beyond ==
  /\ UNCHANGED <<cr, cache, obj, pc, sync>>
  /\ doc' = doc \/ Spend("external")

LEMMA OverKinds ==
  ASSUME IInv, NEW c \in Resources,
         \/ AddFinalizer(c) \/ SkipPaused(c) \/ ResolveFails(c)
         \/ SkipSynced(c) \/ DriftCheckFails(c) \/ (Forget(c) /\ c \in behind)
         \/ SourceInvalid(c) \/ SourceUnread(c) \/ Record(c)
         \/ DeleteUnresolved(c) \/ Release(c)
         \/ \E k \in {"server", "other"} :
              GetFails(c, k) \/ ClearFails(c, k) \/ PutFails(c, k)
  PROVE  Over(c)
<1>1. /\ cr \in [Resources -> Object(Status)]
      /\ obj \in [Resources -> Object(Status)]
      /\ pc \in [Resources -> {"idle", "fetched", "drifted", "sync", "clear",
                               "put", "refetch", "record", "remove",
                               "release"}]
  BY DEF IInv, TypeOK, KubeTypeOK
<1>2. ASSUME NEW again, Return(c, again)
      PROVE  pc'[c] = "idle" /\ obj'[c] = Created(NoStatus)
  BY <1>1, <1>2 DEF Return, Leave, Goto
<1>3. ASSUME NEW new, Report(c, new) \/ \E sure : Write(c, new, sure)
      PROVE  cr'[c] = cr[c] \/ (c \notin behind /\ cr'[c] = new)
  BY <1>1, <1>3 DEF Report, Write
<1>4. CASE AddFinalizer(c) \/ SkipPaused(c) \/ Release(c)
  BY <1>2, <1>3, <1>4
     DEF AddFinalizer, SkipPaused, Release, Unguarded, Syncing, Over,
         Concludes
<1>5. ASSUME NEW again, Fail(c, again), pc[c] # "idle"
      PROVE  Over(c)
  BY <1>2, <1>3, <1>5 DEF Fail, Over, Concludes
<1>6. CASE ResolveFails(c) \/ SourceInvalid(c) \/ SourceUnread(c)
  BY <1>5, <1>6 DEF ResolveFails, SourceInvalid, SourceUnread, Starting,
                    Syncing
<1>7. CASE SkipSynced(c) \/ DeleteUnresolved(c)
  BY <1>2, <1>7 DEF SkipSynced, DeleteUnresolved, CheckingDrift, Syncing,
                    Deleting, Over, Concludes
<1>8. CASE DriftCheckFails(c)
  BY <1>2, <1>3, <1>8 DEF DriftCheckFails, CheckingDrift, Syncing, Over,
                          Concludes
<1>9. CASE Forget(c) /\ c \in behind
  BY <1>2, <1>3, <1>9 DEF Forget, Over, Concludes
<1>10. CASE Record(c)
  BY <1>2, <1>3, <1>10 DEF Record, Over, Concludes
<1>11. ASSUME NEW k \in {"server", "other"},
              GetFails(c, k) \/ ClearFails(c, k) \/ PutFails(c, k)
       PROVE  Over(c)
  BY <1>5, <1>11 DEF GetFails, ClearFails, PutFails, Starting, Syncing
<1> QED BY <1>4, <1>6, <1>7, <1>8, <1>9, <1>10, <1>11

LEMMA OnKinds ==
  ASSUME IInv, NEW c \in Resources,
         \/ DriftDetected(c) \/ (Forget(c) /\ c \notin behind) \/ Get(c)
         \/ Clear(c) \/ Put(c) \/ Refetch(c) \/ GetToDelete(c) \/ Remove(c)
  PROVE  ReadOn(c) \/ ForgetOn(c) \/ CallOn(c)
<1>1. /\ cr \in [Resources -> Object(Status)]
      /\ obj \in [Resources -> Object(Status)]
      /\ sync \in [Resources -> [gen: 0 .. MaxGen, value: Values]]
      /\ pc \in [Resources -> {"idle", "fetched", "drifted", "sync", "clear",
                               "put", "refetch", "record", "remove",
                               "release"}]
  BY DEF IInv, TypeOK, KubeTypeOK
<1>2. CASE DriftDetected(c)
  BY <1>1, <1>2 DEF DriftDetected, CheckingDrift, Syncing, CallOn, Goto,
                    server
<1>3. CASE Forget(c) /\ c \notin behind
  <2>1. /\ pc[c] = "drifted" /\ pc' = [pc EXCEPT ![c] = "sync"]
        /\ cr' = [cr EXCEPT ![c] = Forgotten(obj[c])]
        /\ obj' = [obj EXCEPT ![c] = Forgotten(@)]
        /\ UNCHANGED <<sync, doc>>
    BY <1>3 DEF Forget, Write, Goto, server
  <2> QED BY <1>1, <1>3, <2>1 DEF ForgetOn
<1>4. CASE Get(c)
  BY <1>1, <1>4 DEF Get, CallOn, Goto, server
<1>5. CASE Clear(c) \/ Put(c) \/ Remove(c)
  BY <1>1, <1>5 DEF Clear, Put, Remove, CallOn, Goto
<1>6. CASE Refetch(c)
  BY <1>1, <1>6 DEF Refetch, ReadCache, ReadOn, Goto, server
<1>7. CASE GetToDelete(c)
  BY <1>1, <1>7 DEF GetToDelete, CallOn, Goto, server
<1> QED BY <1>2, <1>3, <1>4, <1>5, <1>6, <1>7

LEMMA GiveUpKinds ==
  ASSUME IInv, NEW c \in Resources, NEW k \in {"server", "other"},
         GetToDeleteFails(c, k) \/ RemoveFails(c, k)
  PROVE  Over(c) \/ CallOn(c)
<1>1. /\ obj \in [Resources -> Object(Status)]
      /\ pc \in [Resources -> {"idle", "fetched", "drifted", "sync", "clear",
                               "put", "refetch", "record", "remove",
                               "release"}]
  BY DEF IInv, TypeOK, KubeTypeOK
<1>2. /\ (Deleting(c) /\ doc' = doc) \/ pc[c] = "remove"
      /\ cr' = cr
      /\ \E again : GiveUp(c, again)
  BY DEF GetToDeleteFails, RemoveFails, server
<1>3. PICK again : GiveUp(c, again)
  BY <1>2
<1>4. CASE again
  BY <1>1, <1>2, <1>3, <1>4
     DEF GiveUp, Return, Leave, Goto, Over, Concludes, Deleting
<1>5. CASE ~again
  BY <1>1, <1>2, <1>3, <1>5 DEF GiveUp, Goto, CallOn, Deleting
<1> QED BY <1>4, <1>5

LEMMA ReconcileKinds ==
  ASSUME IInv, NEW c \in Resources, Reconcile(c)
  PROVE  Passes(c)
<1>1. Syncs(c) \/ Deletes(c)
  BY DEF Reconcile, CollectorSteps, DashboardSteps, RepairSteps,
     ArchiveSteps
<1> QED BY <1>1, ReconcileSteps, OverKinds, OnKinds, GiveUpKinds
        DEF Syncs, Deletes, Passes

LEMMA FetchKinds ==
  ASSUME IInv, NEW c \in Resources, Fetch(c)
  PROVE  Passes(c) \/ Beyond
<1>1. /\ obj \in [Resources -> Object(Status)] /\ queued \subseteq Resources
      /\ pc \in [Resources -> {"idle", "fetched", "drifted", "sync", "clear",
                               "put", "refetch", "record", "remove",
                               "release"}]
  BY DEF IInv, TypeOK, KubeTypeOK
<1>2. /\ queued' = queued \ {c} /\ pc[c] = "idle"
      /\ \A d \in Resources : pc[d] = "idle"
      /\ UNCHANGED <<budget, cr, cache, stale, timers, conn, setup, got,
                     sync, server>>
  BY DEF Fetch, Take
<1>3. CASE cache[c].live /\ ReadCache(c) /\ Goto(c, "fetched")
  <2>1. GoesOn(c, "fetched")
    BY <1>1, <1>2, <1>3 DEF GoesOn, Touches, server
  <2>2. ReadOn(c)
    BY <1>1, <1>2, <1>3 DEF ReadOn, ReadCache, Goto, server
  <2> QED BY <2>1, <2>2, GoesOnIsStep DEF Passes
<1>4. CASE UNCHANGED <<copies, left>>
  BY <1>2, <1>4 DEF Beyond, copies, server
<1> QED BY <1>3, <1>4 DEF Fetch, Take

LEMMA AroundKinds ==
  ASSUME IInv, NEW c \in Resources, Around(c)
  PROVE  WishesFor(c) \/ DeliversTo(c) \/ Beyond
<1>1. /\ cr \in [Resources -> Object(Status)]
      /\ cache \in [Resources -> Object(Status)]
      /\ UNCHANGED <<setup, got, sync, server>>
  BY DEF IInv, TypeOK, KubeTypeOK, Around
<1>2. CASE UserEdits(c) \/ UserDeletes(c)
  <2>1. /\ cr[c].live
        /\ \/ /\ cr[c].gen < MaxGen
              /\ cr' = [cr EXCEPT ![c] = [cr[c] EXCEPT !.gen = @ + 1]]
           \/ /\ ~cr[c].deleting /\ cr[c].finalizer
              /\ cr' = [cr EXCEPT ![c] = [cr[c] EXCEPT !.deleting = TRUE]]
           \/ /\ ~cr[c].deleting /\ ~cr[c].finalizer
              /\ cr' = [cr EXCEPT ![c] = [cr[c] EXCEPT !.live = FALSE]]
        /\ UNCHANGED <<obj, pc, cache>>
    BY <1>2 DEF UserEdits, UserDeletes, Overwrite, around
  <2> QED BY <1>1, <2>1 DEF WishesFor, server
<1>3. CASE WatchDelivers(c)
  BY <1>1, <1>3 DEF WatchDelivers, DeliversTo, copies, server
<1>4. CASE TimerFires(c)
  BY <1>1, <1>4 DEF TimerFires, Beyond, copies, server
<1> QED BY <1>2, <1>3, <1>4 DEF Around

LEMMA BeyondKinds ==
  ASSUME ConnChanges \/ ConfigMapChanges \/ ConsoleEdits \/ UNCHANGED vars
  PROVE  Beyond
<1> USE DEF Beyond, copies, around, server
<1>1. CASE ConnChanges
  BY <1>1 DEF ConnChanges, ConnMoves
<1>2. CASE ConfigMapChanges
  BY <1>2 DEF ConfigMapChanges
<1>3. CASE ConsoleEdits
  BY <1>3 DEF ConsoleEdits
<1>4. CASE UNCHANGED vars
  BY <1>4 DEF vars, kubeVars
<1> QED BY <1>1, <1>2, <1>3, <1>4

LEMMA NextKinds ==
  ASSUME IInv, [Next]_vars
  PROVE  \/ Beyond \/ Crash
         \/ \E c \in Resources : Passes(c) \/ WishesFor(c) \/ DeliversTo(c)
BY FetchKinds, ReconcileKinds, AroundKinds, BeyondKinds DEF Next

(* Budgets, and what is fixed.                                             *)
LEMMA SetupStays ==
  ASSUME IInv, [Next]_vars
  PROVE  /\ setup' = setup /\ budget' = budget
         /\ \A k \in Events : Unspent(k)' => Unspent(k) /\ ~Spend(k)
<1>1. /\ setup' = setup /\ budget' = budget
      /\ left' \in [Events -> Nat] /\ left \in [Events -> Nat]
      /\ \A e \in Events : left'[e] <= left[e]
  <2>1. left' \in [Events -> Nat] /\ left \in [Events -> Nat]
    BY NextInvariant DEF IInv, TypeOK, KubeTypeOK
  <2>2. CASE UNCHANGED vars
    BY <2>1, <2>2 DEF vars, kubeVars, around
  <2>3. CASE Aside \/ \E c \in Resources : Step(c)
    BY <2>1, <2>3 DEF Aside, Step
  <2> QED BY <2>2, <2>3, NextSteps
<1>2. ASSUME NEW k \in Events, Unspent(k)'
      PROVE  Unspent(k) /\ left'[k] = left[k]
  BY <1>1, <1>2, UnspentBefore DEF IInv
<1> QED BY <1>1, <1>2 DEF Spend

-----------------------------------------------------------------------------
(* Ages and what a pass carries outlive every step.                        *)
LEMMA Figures ==
  ASSUME IInv, NEW c \in Resources
  PROVE  /\ cr[c] \in Object(Status) /\ obj[c] \in Object(Status)
         /\ cache[c] \in Object(Status)
         /\ cr[c].gen \in 1 .. MaxGen /\ obj[c].gen \in 1 .. MaxGen
         /\ cache[c].gen \in 1 .. MaxGen /\ MaxGen \in Nat
         /\ cr[c].status.obsGen \in Nat /\ obj[c].status.obsGen \in Nat
         /\ sync[c].gen \in Nat
         /\ cache[c].gen <= cr[c].gen /\ obj[c].gen <= cr[c].gen
         /\ c \notin stale => cache[c] = cr[c]
         /\ pc[c] # "idle" /\ c \notin behind => obj[c] = cr[c]
<1>1. /\ cr[c] \in Object(Status) /\ obj[c] \in Object(Status)
      /\ cache[c] \in Object(Status) /\ sync[c].gen \in 0 .. MaxGen
  BY DEF IInv, TypeOK, KubeTypeOK
<1>2. MaxGen \in Nat
  BY BoundTypes
<1> QED BY <1>1, <1>2 DEF IInv, Views, Object, Status

LEMMA IdleAges ==
  ASSUME IInv, NEW c \in Resources, Ages(c), pc'[c] = "idle",
         obj'[c] = Created(NoStatus), cache'[c] \in {cache[c], cr[c]},
         cr'[c].deleting = cr[c].deleting,
         cr'[c].status.obsGen <= cache'[c].gen
  PROVE  (Ages(c) /\ Carries(c))'
<1>1. ~obj'[c].deleting
  BY DEF Created
<1> QED BY <1>1 DEF Ages, Carries

LEMMA OverAges ==
  ASSUME IInv, NEW c \in Resources, Ages(c), Carries(c), Step(c), Over(c)
  PROVE  (Ages(c) /\ Carries(c))'
<1>1. cache'[c] = cache[c]
  BY DEF Step
<1>2. CASE cr'[c] = cr[c]
  BY <1>1, <1>2, IdleAges DEF Over, Ages
<1>3. CASE /\ c \notin behind
           /\ cr'[c] \in {obj[c], Guarded(obj[c]), Released(obj[c]),
                          Paused(obj[c]), Failing(obj[c])}
  <2>1. obj[c] = cr[c]
    BY <1>3, Figures DEF Over
  <2>2. /\ cr'[c].deleting = cr[c].deleting
        /\ \/ cr'[c].status.obsGen = cr[c].status.obsGen
           \/ cr'[c].status.obsGen = obj[c].gen
    BY <1>3, <2>1, Figures, WrittenFields
  <2> QED BY <1>1, <2>2, IdleAges DEF Over, Ages
<1>4. CASE /\ c \notin behind /\ pc[c] = "record"
           /\ cr'[c] = Synced(obj[c], c)
  <2>1. /\ cr'[c].deleting = cr[c].deleting
        /\ cr'[c].status.obsGen = sync[c].gen
    BY <1>4, Figures, SyncedFields DEF Over
  <2> QED BY <1>1, <1>4, <2>1, IdleAges DEF Over, Carries
<1> QED BY <1>2, <1>3, <1>4 DEF Over, Concludes

LEMMA OnAges ==
  ASSUME IInv, NEW c \in Resources, Ages(c), Carries(c), Step(c),
         ReadOn(c) \/ ForgetOn(c) \/ CallOn(c),
         Unspent("lag")' => Unspent("lag") /\ ~Spend("lag")
  PROVE  (Ages(c) /\ Carries(c))'
<1>1. cache'[c] = cache[c] /\ setup' = setup
  BY DEF Step
<1>2. CASE ReadOn(c)
  <2>1. Ages(c)'
    BY <1>1, <1>2, Figures DEF ReadOn, Ages
  <2>2. Carries(c)'
    BY <1>1, <1>2 DEF ReadOn, Carries, Asked, kind
  <2> QED BY <2>1, <2>2
<1>3. CASE ForgetOn(c)
  <2>1. obj[c] = cr[c] /\ obj[c] \in Object(Status)
    BY <1>3, Figures DEF ForgetOn
  <2>2. Ages(c)'
    BY <1>1, <1>3, <2>1, ForgottenFields DEF ForgetOn, Ages
  <2>3. Carries(c)'
    BY <1>1, <1>3, <2>1, ForgottenFields DEF ForgetOn, Carries, AlreadySynced
  <2> QED BY <2>2, <2>3
<1>4. CASE CallOn(c)
  <2>1. /\ cr'[c] = cr[c] /\ obj'[c] = obj[c]
        /\ pc'[c] = "remove" => obj[c].deleting
        /\ pc[c] # "idle"
        /\ pc'[c] \in {"fetched", "drifted", "sync", "clear", "put"} =>
             pc[c] \in {"fetched", "drifted", "sync", "clear", "put"}
    BY <1>4 DEF CallOn, CheckingDrift, Deleting, Starting, Syncing, NextCall
  <2>2. Ages(c)'
    BY <1>1, <2>1 DEF Ages
  <2>3. CASE Starting(c) /\ pc'[c] = NextCall(c)
             /\ sync'[c] = [gen |-> obj[c].gen, value |-> ValueOf(Wanted(c))]
    <3>1. /\ pc'[c] \in {"refetch", "clear", "put"}
          /\ pc'[c] = "clear" => kind = "archive"
      BY <2>3 DEF NextCall
    <3>2. ~AlreadySynced(obj'[c])
      BY <2>1, <2>3 DEF Starting, Carries
    <3>3. /\ sync'[c].gen = obj[c].gen
          /\ Asked(c, sync'[c].gen).value \in {0, sync'[c].value}
      BY <2>3 DEF Asked, Wanted, Want, ValueOf
    <3>4. obj[c].gen <= cache[c].gen
      BY <2>1 DEF Ages
    <3> QED BY <1>1, <2>1, <2>2, <3>1, <3>2, <3>3, <3>4
            DEF Carries, Asked, kind
  <2>4. CASE sync' = sync /\ pc[c] = "clear" /\ pc'[c] = "put"
    BY <1>1, <2>1, <2>2, <2>4 DEF Carries, Asked, kind, AlreadySynced
  <2>5. CASE sync' = sync /\ pc[c] = "put" /\ pc'[c] = "refetch"
    BY <1>1, <2>1, <2>2, <2>5 DEF Carries, Asked, kind
  <2>6. CASE pc'[c] \in {"drifted", "remove", "release"}
    BY <2>2, <2>6 DEF Carries
  <2> QED BY <1>4, <2>3, <2>4, <2>5, <2>6 DEF CallOn
<1> QED BY <1>2, <1>3, <1>4

LEMMA SameAges ==
  ASSUME NEW d \in Resources, Ages(d), Carries(d),
         cr'[d] = cr[d] /\ cache'[d] = cache[d] /\ obj'[d] = obj[d]
           /\ pc'[d] = pc[d] /\ sync'[d] = sync[d] /\ setup' = setup,
         Unspent("lag")' => Unspent("lag")
  PROVE  (Ages(d) /\ Carries(d))'
<1>1. Ages(d)'
  BY DEF Ages
<1>2. Carries(d)'
  BY DEF Carries, Asked, kind, AlreadySynced
<1> QED BY <1>1, <1>2

LEMMA WishFields ==
  ASSUME IInv, NEW c \in Resources, WishesFor(c)
  PROVE  /\ cr'[c].status = cr[c].status
         /\ cr[c].deleting => cr'[c].deleting
         /\ \/ ~cr'[c].live \/ cr'[c].deleting
            \/ cr'[c].gen = cr[c].gen + 1
<1>1. cr[c] \in Object(Status)
  BY Figures
<1>2. CASE cr'[c] = [cr[c] EXCEPT !.gen = @ + 1]
  BY <1>1, <1>2 DEF Object
<1>3. CASE cr'[c] = [cr[c] EXCEPT !.deleting = TRUE]
  <2>1. cr'[c].status = cr[c].status /\ cr'[c].deleting
    BY <1>1, <1>3 DEF Object
  <2> QED BY <2>1
<1>4. CASE cr'[c] = [cr[c] EXCEPT !.live = FALSE]
  <2>1. /\ cr'[c].status = cr[c].status /\ ~cr'[c].live
        /\ cr'[c].deleting = cr[c].deleting
    BY <1>1, <1>4 DEF Object
  <2> QED BY <2>1
<1> QED BY <1>2, <1>3, <1>4 DEF WishesFor

LEMMA AgesStep ==
  ASSUME IInv, RInv, [Next]_vars, NEW d \in Resources
  PROVE  (Ages(d) /\ Carries(d))'
<1>1. /\ Ages(d) /\ Carries(d) /\ setup' = setup
      /\ Unspent("lag")' => Unspent("lag") /\ ~Spend("lag")
  BY SetupStays DEF RInv, Events
<1>2. CASE Beyond
  BY <1>1, <1>2, SameAges DEF Beyond
<1>3. CASE Crash
  <2>1. /\ cr' = cr /\ cache' = cr /\ pc'[d] = "idle"
        /\ obj'[d] = Created(NoStatus)
    BY <1>3 DEF Crash, Restart
  <2>2. cr[d].status.obsGen <= cr[d].gen
    BY <1>1, Figures DEF Ages
  <2> QED BY <1>1, <2>1, <2>2, IdleAges
<1>4. ASSUME NEW c \in Resources, Passes(c)
      PROVE  (Ages(d) /\ Carries(d))'
  <2>1. CASE c = d
    BY <1>1, <1>4, <2>1, OverAges, OnAges DEF Passes
  <2>2. CASE c # d
    BY <1>1, <1>4, <2>2, SameAges DEF Passes, Step
  <2> QED BY <2>1, <2>2
<1>5. ASSUME NEW c \in Resources, WishesFor(c)
      PROVE  (Ages(d) /\ Carries(d))'
  <2>1. CASE c = d
    <3>1. /\ cr'[d].status = cr[d].status
          /\ cr[d].deleting => cr'[d].deleting
          /\ UNCHANGED <<cache, obj, pc, sync, doc>>
      BY <1>5, <2>1, WishFields DEF WishesFor
    <3>2. Ages(d)'
      BY <1>1, <3>1 DEF Ages
    <3>3. Carries(d)'
      BY <1>1, <3>1 DEF Carries, Asked, kind, AlreadySynced
    <3> QED BY <3>2, <3>3
  <2>2. CASE c # d
    BY <1>1, <1>5, <2>2, SameAges DEF WishesFor
  <2> QED BY <2>1, <2>2
<1>6. ASSUME NEW c \in Resources, DeliversTo(c)
      PROVE  (Ages(d) /\ Carries(d))'
  <2>1. CASE c = d
    <3>1. cache'[d] = cr[d] /\ UNCHANGED <<cr, obj, pc, sync, doc>>
      BY <1>6, <2>1 DEF DeliversTo
    <3>2. Ages(d)'
      BY <1>1, <3>1, Figures DEF Ages
    <3>3. Carries(d)'
      BY <1>1, <3>1, Figures DEF Carries, Asked, kind, AlreadySynced
    <3> QED BY <3>2, <3>3
  <2>2. CASE c # d
    BY <1>1, <1>6, <2>2, SameAges DEF DeliversTo
  <2> QED BY <2>1, <2>2
<1> QED BY <1>2, <1>3, <1>4, <1>5, <1>6, NextKinds

-----------------------------------------------------------------------------
(* The document has what it must, as long as nobody edits it by hand and   *)
(* no two resources ask for the same part.                                 *)

(* A call changes nothing but the part its copy asks for.                  *)
LEMMA OutsideKept ==
  ASSUME IInv, NEW c \in Resources, Touches(c), Unspent("external"),
         NEW k \in Keys, k \notin Wanted(c).keys
  PROVE  doc'[k] = doc[k]
<1>1. CASE pc[c] = "clear" /\ doc' = Cleared(c)
  BY <1>1 DEF Cleared
<1>2. CASE pc[c] = "put" /\ doc' = Sent(c)
  BY <1>2 DEF IInv, Current, Sent, Merged
<1>3. CASE pc[c] = "remove" /\ doc' = Without(c)
  BY <1>3 DEF IInv, Current, Without
<1> QED BY <1>1, <1>2, <1>3 DEF Touches

LEMMA SameStored ==
  ASSUME IInv, NEW d \in Resources,
         cr'[d] = cr[d] /\ pc'[d] = pc[d] /\ sync'[d] = sync[d],
         setup' = setup,
         \A g \in 1 .. MaxGen : \A k \in Asked(d, g).keys : doc'[k] = doc[k]
  PROVE  (Landed(d) => Landed(d)') /\ (Backed(d) => Backed(d)')
<1>1. Landed(d) => Landed(d)'
  BY DEF Landed, Asked, IInv, Counted
<1>2. cr[d].gen \in 1 .. MaxGen
  BY Figures
<1>3. Backed(d) => Backed(d)'
  BY <1>2 DEF Backed, Synchronised, AlreadySynced, Want, Asked
<1> QED BY <1>1, <1>3

(* What is recorded as synchronised outlives every call of a pass.         *)
LEMMA BackedThrough ==
  ASSUME IInv, NEW c \in Resources, Ages(c), Carries(c), Touches(c),
         Synchronised(c), Want(cr[c], c).value # 0, Backed(c),
         kind = "archive" => Unspent("lag")
  PROVE  \A k \in Want(cr[c], c).keys : doc'[k] = Want(cr[c], c).value
<1>1. /\ cr[c].status.obsGen = cr[c].gen /\ ~cr[c].deleting
      /\ obj[c].gen <= cr[c].gen /\ obj[c].gen \in Nat /\ cr[c].gen \in Nat
  BY Figures DEF Synchronised, AlreadySynced
<1>2. CASE doc' = doc
  BY <1>2 DEF Backed
<1>3. CASE pc[c] = "clear"
  <2>1. obj[c].status = cr[c].status /\ obj[c].gen = cr[c].gen
    BY <1>1, <1>3 DEF Ages, Carries
  <2>2. AlreadySynced(obj[c])
    BY <2>1 DEF AlreadySynced, Synchronised
  <2> QED BY <1>3, <2>2 DEF Carries
<1>4. CASE pc[c] = "put" /\ doc' = Sent(c)
  <2>1. obj[c].gen = cr[c].gen
    BY <1>1, <1>4 DEF Ages
  <2>2. /\ Wanted(c) = Want(cr[c], c)
        /\ Asked(c, sync[c].gen) = Want(cr[c], c)
        /\ sync[c].value = Want(cr[c], c).value
    BY <1>4, <2>1 DEF Wanted, Want, Asked, Carries
  <2>3. Want(cr[c], c).keys \subseteq Keys
    BY Figures, WantShape DEF IInv, TypeOK
  <2> QED BY <1>4, <2>2, <2>3 DEF Sent, Merged
<1>5. CASE pc[c] = "remove"
  BY <1>1, <1>5 DEF Ages
<1> QED BY <1>2, <1>3, <1>4, <1>5 DEF Touches

LEMMA OverStored ==
  ASSUME IInv, NEW c \in Resources, Ages(c), Carries(c), Landed(c),
         Step(c), Over(c)
  PROVE  /\ Landed(c)'
         /\ (kind = "archive" => Unspent("lag")) /\ Backed(c) => Backed(c)'
<1>1. Landed(c)'
  BY DEF Over, Landed
<1>2. setup' = setup /\ Touches(c)
  BY DEF Step
<1>3. SUFFICES ASSUME kind = "archive" => Unspent("lag"), Backed(c),
                      Synchronised(c)', Want(cr[c], c)'.value # 0
               PROVE  \A k \in Want(cr[c], c)'.keys :
                        doc'[k] = Want(cr[c], c)'.value
  BY <1>1 DEF Backed
<1>4. /\ cr'[c].live /\ ~cr'[c].deleting /\ "Ready" \in cr'[c].status.conds
      /\ cr'[c].status.obsGen = cr'[c].gen /\ cr'[c].status.at # {}
      /\ "Failed" \notin cr'[c].status.conds
      /\ Want(cr[c], c)' = setup.spec[c][cr'[c].gen]
  BY <1>2, <1>3 DEF Synchronised, AlreadySynced, Want
<1>5. CASE cr'[c] = cr[c]
  <2>1. Synchronised(c) /\ Want(cr[c], c)' = Want(cr[c], c)
    BY <1>4, <1>5 DEF Synchronised, AlreadySynced, Want
  <2> QED BY <1>2, <1>3, <2>1, BackedThrough
<1>6. CASE /\ c \notin behind
           /\ cr'[c] \in {obj[c], Guarded(obj[c]), Released(obj[c]),
                          Paused(obj[c]), Failing(obj[c])}
  <2>1. obj[c] = cr[c] /\ cr[c] \in Object(Status)
    BY <1>6, Figures DEF Over
  <2>2. Synchronised(c) /\ cr'[c].gen = cr[c].gen
    BY <1>4, <1>6, <2>1, WrittenFields DEF Synchronised, AlreadySynced
  <2>3. Want(cr[c], c)' = Want(cr[c], c)
    BY <1>4, <2>2 DEF Want
  <2> QED BY <1>2, <1>3, <2>2, <2>3, BackedThrough
<1>7. CASE /\ c \notin behind /\ pc[c] = "record"
           /\ cr'[c] = Synced(obj[c], c)
  <2>1. cr'[c].gen = sync[c].gen /\ doc' = doc
    BY <1>2, <1>4, <1>7, Figures, SyncedFields DEF Touches
  <2>2. Want(cr[c], c)' = Asked(c, sync[c].gen)
    BY <1>4, <2>1 DEF Asked
  <2> QED BY <1>3, <1>7, <2>1, <2>2 DEF Landed, Carries
<1> QED BY <1>5, <1>6, <1>7 DEF Over, Concludes

LEMMA OnStored ==
  ASSUME IInv, NEW c \in Resources, Ages(c), Carries(c), Landed(c),
         Step(c), ReadOn(c) \/ ForgetOn(c) \/ CallOn(c)
  PROVE  /\ Landed(c)'
         /\ (kind = "archive" => Unspent("lag")) /\ Backed(c) => Backed(c)'
<1>1. setup' = setup /\ Touches(c)
  BY DEF Step
<1>2. CASE ReadOn(c)
  BY <1>1, <1>2 DEF ReadOn, Landed, Backed, Synchronised, AlreadySynced,
                    Want, Asked
<1>3. CASE ForgetOn(c)
  <2>1. cr'[c].status.at = {} /\ pc'[c] = "sync"
    BY <1>3, Figures, ForgottenFields DEF ForgetOn
  <2> QED BY <2>1 DEF Landed, Backed, Synchronised, AlreadySynced
<1>4. CASE CallOn(c)
  <2>1. cr' = cr /\ obj' = obj
    BY <1>4 DEF CallOn
  <2>2. ASSUME kind = "archive" => Unspent("lag"), Backed(c)
        PROVE  Backed(c)'
    <3>1. SUFFICES ASSUME Synchronised(c), Want(cr[c], c).value # 0
                   PROVE  \A k \in Want(cr[c], c).keys :
                            doc'[k] = Want(cr[c], c).value
      BY <1>1, <2>1 DEF Backed, Synchronised, AlreadySynced, Want
    <3> QED BY <1>1, <2>2, <3>1, BackedThrough
  <2>3. Wanted(c).keys \subseteq Keys /\ Wanted(c) = Asked(c, obj[c].gen)
    BY Figures, WantShape DEF IInv, TypeOK, Wanted, Want, Asked
  <2>4. CASE Starting(c) /\ pc'[c] = NextCall(c) /\ doc' = doc
             /\ sync'[c] = [gen |-> obj[c].gen, value |-> ValueOf(Wanted(c))]
    <3>1. pc'[c] = "refetch" =>
            \A k \in Wanted(c).keys : doc[k] = ValueOf(Wanted(c))
      BY <2>4 DEF NextCall
    <3>2. pc'[c] # "record"
      BY <2>4 DEF NextCall
    <3>3. Landed(c)'
      BY <1>1, <2>3, <2>4, <3>1, <3>2 DEF Landed, Asked
    <3> QED BY <2>2, <3>3
  <2>5. CASE pc[c] = "put" /\ pc'[c] = "refetch" /\ doc' = Sent(c)
             /\ sync' = sync
    BY <1>1, <2>2, <2>3, <2>5 DEF Sent, Merged, Landed, Asked, Carries
  <2>6. CASE pc'[c] \in {"drifted", "put", "remove", "release"}
    BY <2>2, <2>6 DEF Landed
  <2> QED BY <1>4, <2>4, <2>5, <2>6 DEF CallOn
<1> QED BY <1>2, <1>3, <1>4

LEMMA PartsApart ==
  ASSUME IInv, Disjoint, NEW c \in Resources, NEW d \in Resources, c # d,
         NEW g \in 1 .. MaxGen, NEW k \in Asked(d, g).keys
  PROVE  k \in Keys /\ k \notin Wanted(c).keys
<1>1. obj[c].gen \in 1 .. MaxGen
  BY Figures
<1>2. k \in Keys
  BY SetupShape DEF IInv, TypeOK, Asked, Specs
<1> QED BY <1>1, <1>2 DEF Disjoint, Asked, Wanted, Want

LEMMA StoredStep ==
  ASSUME IInv, RInv, [Next]_vars, Disjoint, Unspent("external")',
         NEW d \in Resources
  PROVE  /\ Landed(d)'
         /\ (kind = "archive" => Unspent("lag"))' => Backed(d)'
<1>1. /\ Unspent("external") /\ ~Spend("external")
      /\ setup' = setup /\ Ages(d) /\ Carries(d)
      /\ (kind = "archive" => Unspent("lag"))' =>
           (kind = "archive" => Unspent("lag"))
  BY SetupStays DEF RInv, Events, kind
<1>2. Landed(d) /\ ((kind = "archive" => Unspent("lag")) => Backed(d))
  BY <1>1 DEF RInv, Stored
<1>3. CASE Beyond
  BY <1>1, <1>2, <1>3, SameStored DEF Beyond
<1>4. CASE Crash
  <2>1. /\ cr' = cr /\ pc'[d] = "idle" /\ doc' = doc
    BY <1>4 DEF Crash, Restart, server
  <2>2. Landed(d)'
    BY <2>1 DEF Landed
  <2>3. Backed(d) => Backed(d)'
    BY <1>1, <2>1 DEF Backed, Synchronised, AlreadySynced, Want
  <2> QED BY <1>1, <1>2, <2>2, <2>3
<1>5. ASSUME NEW c \in Resources, Passes(c)
      PROVE  /\ Landed(d)'
             /\ (kind = "archive" => Unspent("lag"))' => Backed(d)'
  <2>1. CASE c = d
    BY <1>1, <1>2, <1>5, <2>1, OverStored, OnStored DEF Passes
  <2>2. CASE c # d
    <3>1. /\ cr'[d] = cr[d] /\ pc'[d] = pc[d] /\ sync'[d] = sync[d]
          /\ Touches(c)
      BY <1>5, <2>2 DEF Passes, Step
    <3>2. \A g \in 1 .. MaxGen : \A k \in Asked(d, g).keys : doc'[k] = doc[k]
      BY <1>1, <2>2, <3>1, PartsApart, OutsideKept
    <3> QED BY <1>1, <1>2, <3>1, <3>2, SameStored
  <2> QED BY <2>1, <2>2
<1>6. ASSUME NEW c \in Resources, WishesFor(c)
      PROVE  /\ Landed(d)'
             /\ (kind = "archive" => Unspent("lag"))' => Backed(d)'
  <2>1. CASE c = d
    <3>1. Landed(d)'
      BY <1>1, <1>2, <1>6 DEF WishesFor, Landed, Asked
    <3>2. ~Synchronised(d)'
      <4>1. /\ cr'[d].status = cr[d].status
            /\ cr[d].status.obsGen <= cr[d].gen /\ cr[d].gen \in Nat
            /\ cr[d].status.obsGen \in Nat
        BY <1>1, <1>6, <2>1, WishFields, Figures DEF Ages
      <4> QED BY <1>6, <2>1, <4>1, WishFields
              DEF Synchronised, AlreadySynced
    <3> QED BY <3>1, <3>2 DEF Backed
  <2>2. CASE c # d
    BY <1>1, <1>2, <1>6, <2>2, SameStored DEF WishesFor
  <2> QED BY <2>1, <2>2
<1>7. ASSUME NEW c \in Resources, DeliversTo(c)
      PROVE  /\ Landed(d)'
             /\ (kind = "archive" => Unspent("lag"))' => Backed(d)'
  BY <1>1, <1>2, <1>7, SameStored DEF DeliversTo
<1> QED BY <1>3, <1>4, <1>5, <1>6, <1>7, NextKinds

LEMMA InitStored == Init => RInv
<1> SUFFICES ASSUME Init PROVE RInv
  OBVIOUS
<1>1. ASSUME NEW c \in Resources
      PROVE  /\ pc[c] = "idle" /\ obj[c] = Created(NoStatus)
             /\ cr[c] = Created(NoStatus) /\ cache[c] = Created(NoStatus)
  BY DEF Init, KubeInit
<1>2. /\ Created(NoStatus).gen = 1 /\ ~Created(NoStatus).deleting
      /\ Created(NoStatus).status.obsGen = 0
      /\ Created(NoStatus).status.conds = {}
  BY DEF Created, NoStatus
<1>3. ASSUME NEW c \in Resources PROVE Ages(c) /\ Carries(c)
  BY <1>1, <1>2 DEF Ages, Carries
<1>4. ASSUME NEW c \in Resources PROVE Landed(c) /\ Backed(c)
  BY <1>1, <1>2 DEF Landed, Backed, Synchronised, AlreadySynced
<1> QED BY <1>3, <1>4 DEF RInv, Stored

LEMMA NextStored == IInv /\ RInv /\ [Next]_vars => RInv'
<1> SUFFICES ASSUME IInv, RInv, [Next]_vars PROVE RInv'
  OBVIOUS
<1>1. \A c \in Resources : Ages(c)' /\ Carries(c)'
  BY AgesStep
<1>2. Disjoint' => Disjoint
  BY SetupStays DEF Disjoint
<1>3. ASSUME Disjoint', Unspent("external")' PROVE Stored'
  BY <1>2, <1>3, StoredStep DEF Stored
<1> QED BY <1>1, <1>3 DEF RInv

LEMMA Steady == Spec => [](IInv /\ RInv)
<1>1. RInv /\ (IInv /\ [Next]_vars) => RInv'
  BY NextStored
<1> QED BY <1>1, InitStored, Invariance, PTL DEF Spec

(* A resource that is Ready, not Failed, for its current generation has    *)
(* what that generation asks for in the document.  Nobody needs to look    *)
(* again: not an edit while a push is under way, a call that fails halfway *)
(* or without an answer, a crash at any point, or the update of a          *)
(* neighbour from its own copy of the list makes the status lie.           *)
THEOREM ReadyMeansStored == Spec => []ReadyIsStored
<1>1. IInv /\ RInv => ReadyIsStored
  <2> SUFFICES ASSUME IInv, RInv, Disjoint, Unspent("external"),
                      kind = "archive" => Unspent("lag"),
                      NEW c \in Resources, Synchronised(c),
                      Want(cr[c], c).value # 0
               PROVE  \A k \in Want(cr[c], c).keys :
                        doc[k] = Want(cr[c], c).value
    BY DEF ReadyIsStored
  <2>1. Backed(c)
    BY DEF RInv, Stored
  <2> QED BY <2>1 DEF Backed
<1> QED BY <1>1, Steady, PTL
-----------------------------------------------------------------------------
(***************************************************************************)
(* Each resource as the subject of a mirror.  This needs, beyond IInv and  *)
(* RInv, who holds the finalizer of a resource while a copy says so, how   *)
(* ever old the copy is.                                                   *)
(***************************************************************************)
Pushing == {"drifted", "sync", "clear", "put", "refetch", "record"}

Hold(c) ==
  /\ cr[c].finalizer => cr[c].live
  /\ cr[c].live /\ cr[c].deleting => cr[c].finalizer
  /\ cr[c].live => cache[c].live
  /\ cache[c].finalizer /\ ~cache[c].deleting => cr[c].finalizer
  /\ pc[c] # "idle" => obj[c].live /\ (obj[c].deleting => cache[c].deleting)
  /\ pc[c] # "idle" /\ obj[c].finalizer /\ ~obj[c].deleting =>
       cr[c].finalizer
  /\ pc[c] \in {"remove", "release"} => obj[c].deleting
  /\ pc[c] \in Pushing => cr[c].finalizer
  /\ cr[c].live /\ cr[c].status.at # {} => cr[c].finalizer

HInv == \A c \in Resources : Hold(c)

(* What a write leaves of the finalizer.                                   *)
LEMMA HoldFields ==
  ASSUME NEW o \in Object(Status)
  PROVE  /\ \A n \in {o, Paused(o), Failing(o), Forgotten(o)} :
              /\ n.live = o.live /\ n.finalizer = o.finalizer
              /\ n.deleting = o.deleting /\ n.gen = o.gen
              /\ n.status.at \subseteq o.status.at
         /\ Guarded(o).live = o.live /\ Guarded(o).finalizer
         /\ Guarded(o).deleting = o.deleting /\ Guarded(o).gen = o.gen
         /\ Guarded(o).status = o.status
         /\ ~Released(o).live /\ ~Released(o).finalizer
         /\ Released(o).deleting = o.deleting /\ Released(o).gen = o.gen
<1>1. /\ Paused(o).live = o.live /\ Paused(o).finalizer = o.finalizer
      /\ Paused(o).deleting = o.deleting /\ Paused(o).gen = o.gen
      /\ Paused(o).status.at = o.status.at
  BY DEF Paused, Object, Status
<1>2. /\ Failing(o).live = o.live /\ Failing(o).finalizer = o.finalizer
      /\ Failing(o).deleting = o.deleting /\ Failing(o).gen = o.gen
      /\ Failing(o).status.at = o.status.at
  BY DEF Failing, Object, Status
<1>3. /\ Forgotten(o).live = o.live /\ Forgotten(o).finalizer = o.finalizer
      /\ Forgotten(o).deleting = o.deleting /\ Forgotten(o).gen = o.gen
      /\ Forgotten(o).status.at = {}
  BY DEF Forgotten, Object, Status
<1>4. /\ Guarded(o).live = o.live /\ Guarded(o).finalizer
      /\ Guarded(o).deleting = o.deleting /\ Guarded(o).gen = o.gen
      /\ Guarded(o).status = o.status
  BY DEF Guarded, Object
<1>5. /\ ~Released(o).live /\ ~Released(o).finalizer
      /\ Released(o).deleting = o.deleting /\ Released(o).gen = o.gen
  BY DEF Released, Object
<1> QED BY <1>1, <1>2, <1>3, <1>4, <1>5

LEMMA RecordFields ==
  ASSUME NEW o \in Object(Status), NEW c \in Resources
  PROVE  /\ Synced(o, c).live = o.live /\ Synced(o, c).gen = o.gen
         /\ Synced(o, c).finalizer = o.finalizer
         /\ Synced(o, c).deleting = o.deleting
         /\ Synced(o, c).status.obsGen = sync[c].gen
         /\ Synced(o, c).status.at = setup.spec[c][sync[c].gen].keys
         /\ "Ready" \in Synced(o, c).status.conds
         /\ "Failed" \notin Synced(o, c).status.conds
BY DEF Synced, Object, Status
(* Who holds the finalizer outlives every step.                            *)
LEMMA OverHold ==
  ASSUME IInv, NEW c \in Resources, Hold(c), Step(c), Over(c)
  PROVE  Hold(c)'
<1>1. cache'[c] = cache[c] /\ pc'[c] = "idle" /\ pc[c] # "idle"
  BY DEF Step, Over
<1>2. CASE cr'[c] = cr[c]
  BY <1>1, <1>2 DEF Hold, Pushing
<1>3. CASE /\ c \notin behind
           /\ cr'[c] \in {obj[c], Paused(obj[c]), Failing(obj[c])}
  <2>1. obj[c] = cr[c] /\ cr[c] \in Object(Status)
    BY <1>1, <1>3, Figures
  <2>2. /\ cr'[c].live = cr[c].live /\ cr'[c].finalizer = cr[c].finalizer
        /\ cr'[c].deleting = cr[c].deleting
        /\ cr'[c].status.at \subseteq cr[c].status.at
    BY <1>3, <2>1, HoldFields
  <2> QED BY <1>1, <2>2 DEF Hold, Pushing
<1>4. CASE c \notin behind /\ Unguarded(c) /\ cr'[c] = Guarded(obj[c])
  <2>1. obj[c] = cr[c] /\ cr[c] \in Object(Status)
    BY <1>1, <1>4, Figures
  <2>2. /\ cr'[c].live = cr[c].live /\ cr'[c].finalizer
        /\ cr'[c].deleting = cr[c].deleting
    BY <1>4, <2>1, HoldFields
  <2> QED BY <1>1, <2>1, <2>2 DEF Hold, Pushing
<1>5. CASE c \notin behind /\ pc[c] = "release" /\ cr'[c] = Released(obj[c])
  <2>1. obj[c] = cr[c] /\ cr[c] \in Object(Status)
    BY <1>1, <1>5, Figures
  <2>2. ~cr'[c].live /\ ~cr'[c].finalizer
    BY <1>5, <2>1, HoldFields
  <2> QED BY <1>1, <1>5, <2>2 DEF Hold, Pushing
<1>6. CASE c \notin behind /\ pc[c] = "record" /\ cr'[c] = Synced(obj[c], c)
  <2>1. obj[c] = cr[c] /\ cr[c] \in Object(Status)
    BY <1>1, <1>6, Figures
  <2>2. /\ cr'[c].live = cr[c].live /\ cr'[c].finalizer = cr[c].finalizer
        /\ cr'[c].deleting = cr[c].deleting
    BY <1>6, <2>1, RecordFields
  <2>3. cr[c].finalizer
    BY <1>6 DEF Hold, Pushing
  <2> QED BY <1>1, <2>2, <2>3 DEF Hold, Pushing
<1> QED BY <1>2, <1>3, <1>4, <1>5, <1>6 DEF Over, Concludes

LEMMA OnHold ==
  ASSUME IInv, NEW c \in Resources, Hold(c), Step(c),
         ReadOn(c) \/ ForgetOn(c) \/ CallOn(c)
  PROVE  Hold(c)'
<1>1. cache'[c] = cache[c]
  BY DEF Step
<1>2. CASE ReadOn(c)
  BY <1>1, <1>2 DEF ReadOn, Hold, Pushing
<1>3. CASE ForgetOn(c)
  <2>1. obj[c] = cr[c] /\ cr[c] \in Object(Status)
    BY <1>3, Figures DEF ForgetOn
  <2>2. /\ cr'[c].live = cr[c].live /\ cr'[c].finalizer = cr[c].finalizer
        /\ cr'[c].deleting = cr[c].deleting /\ obj'[c] = cr'[c]
        /\ cr'[c].status.at \subseteq cr[c].status.at
    BY <1>3, <2>1, HoldFields DEF ForgetOn
  <2> QED BY <1>1, <1>3, <2>1, <2>2 DEF ForgetOn, Hold, Pushing
<1>4. CASE CallOn(c)
  <2>1. cr'[c] = cr[c] /\ obj'[c] = obj[c]
    BY <1>4 DEF CallOn
  <2>2. pc[c] # "idle" /\ pc'[c] # "idle"
    BY <1>4 DEF CallOn, CheckingDrift, Syncing, Starting, Deleting, NextCall
  <2>3. pc'[c] \in {"remove", "release"} => obj[c].deleting
    BY <1>4 DEF CallOn, CheckingDrift, Syncing, Starting, Deleting, NextCall,
                Hold
  <2>4. pc'[c] \in Pushing => cr[c].finalizer
    BY <1>4 DEF CallOn, CheckingDrift, Syncing, Starting, Deleting, NextCall,
                Hold, Pushing
  <2> QED BY <1>1, <2>1, <2>2, <2>3, <2>4 DEF Hold
<1> QED BY <1>2, <1>3, <1>4

LEMMA WishHold ==
  ASSUME IInv, NEW c \in Resources, Hold(c), WishesFor(c)
  PROVE  Hold(c)'
<1>1. cr[c] \in Object(Status) /\ UNCHANGED <<cache, obj, pc>> /\ cr[c].live
  BY Figures DEF WishesFor
<1>2. CASE cr'[c] = [cr[c] EXCEPT !.gen = @ + 1]
  <2>1. /\ cr'[c].live = cr[c].live /\ cr'[c].finalizer = cr[c].finalizer
        /\ cr'[c].deleting = cr[c].deleting /\ cr'[c].status = cr[c].status
    BY <1>1, <1>2 DEF Object
  <2> QED BY <1>1, <2>1 DEF Hold
<1>3. CASE cr[c].finalizer /\ cr'[c] = [cr[c] EXCEPT !.deleting = TRUE]
  <2>1. /\ cr'[c].live = cr[c].live /\ cr'[c].finalizer
        /\ cr'[c].status = cr[c].status
    BY <1>1, <1>3 DEF Object
  <2> QED BY <1>1, <2>1 DEF Hold
<1>4. CASE ~cr[c].finalizer /\ cr'[c] = [cr[c] EXCEPT !.live = FALSE]
  <2>1. ~cr'[c].live /\ ~cr'[c].finalizer
    BY <1>1, <1>4 DEF Object
  <2> QED BY <1>1, <1>4, <2>1 DEF Hold
<1> QED BY <1>2, <1>3, <1>4 DEF WishesFor

LEMMA HoldSame ==
  ASSUME NEW d \in Resources, Hold(d), cr'[d] = cr[d], cache'[d] = cache[d],
         obj'[d] = obj[d], pc'[d] = pc[d]
  PROVE  Hold(d)'
BY DEF Hold

LEMMA HoldStep ==
  ASSUME IInv, RInv, HInv, [Next]_vars, NEW d \in Resources
  PROVE  Hold(d)'
<1>1. Hold(d)
  BY DEF HInv
<1>2. CASE Beyond
  BY <1>1, <1>2, HoldSame DEF Beyond
<1>3. CASE Crash
  BY <1>1, <1>3 DEF Crash, Restart, Hold, Pushing
<1>4. ASSUME NEW c \in Resources, Passes(c)
      PROVE  Hold(d)'
  <2>1. CASE c = d
    BY <1>1, <1>4, <2>1, OverHold, OnHold DEF Passes
  <2>2. CASE c # d
    BY <1>1, <1>4, <2>2, HoldSame DEF Passes, Step
  <2> QED BY <2>1, <2>2
<1>5. ASSUME NEW c \in Resources, WishesFor(c)
      PROVE  Hold(d)'
  BY <1>1, <1>5, WishHold, HoldSame DEF WishesFor
<1>6. ASSUME NEW c \in Resources, DeliversTo(c)
      PROVE  Hold(d)'
  <2>1. CASE c = d
    <3>1. /\ cache'[d] = cr[d] /\ UNCHANGED <<cr, obj, pc>>
          /\ cache[d].deleting => cr[d].deleting
      BY <1>6, <2>1 DEF DeliversTo, RInv, Ages
    <3> QED BY <1>1, <3>1 DEF Hold
  <2>2. CASE c # d
    BY <1>1, <1>6, <2>2, HoldSame DEF DeliversTo
  <2> QED BY <2>1, <2>2
<1> QED BY <1>2, <1>3, <1>4, <1>5, <1>6, NextKinds

LEMMA InitHold == Init => HInv
<1>1. ASSUME Init, NEW c \in Resources
      PROVE  /\ pc[c] = "idle" /\ cr[c] = Created(NoStatus)
             /\ cache[c] = Created(NoStatus)
  BY <1>1 DEF Init, KubeInit
<1>2. /\ Created(NoStatus).live /\ ~Created(NoStatus).finalizer
      /\ ~Created(NoStatus).deleting /\ Created(NoStatus).status.at = {}
  BY DEF Created, NoStatus
<1> QED BY <1>1, <1>2 DEF HInv, Hold, Pushing

LEMMA Held == Spec => [](IInv /\ RInv /\ HInv)
<1>1. IInv /\ RInv /\ HInv /\ [Next]_vars => HInv'
  BY HoldStep DEF HInv
<1> QED BY <1>1, InitHold, Steady, PTL DEF Spec
-----------------------------------------------------------------------------
(* A step that keeps the resource and what is being sent is no step of its *)
(* mirror; one that ends the sending abandons, whatever becomes of an old  *)
(* claim.                                                                  *)
LEMMA MirrorStill ==
  ASSUME NEW c \in Resources, cr'[c] = cr[c], Sending(c)' = Sending(c)
  PROVE  UNCHANGED M(c)!vars
BY DEF M!vars, Life, Claimed, AlreadySynced

LEMMA MirrorAbandons ==
  ASSUME NEW c \in Resources, Life(c)' = Life(c), cr'[c].gen = cr[c].gen,
         Sending(c)' = 0, Claimed(c)' \in {0, Claimed(c)}
  PROVE  M(c)!Next
BY DEF M!Next, M!Abandon

(* What reports leave of a claim.                                          *)
LEMMA ReportedClaim ==
  ASSUME NEW c \in Resources, cr[c] \in Object(Status),
         cr'[c] \in {cr[c], Paused(cr[c]), Failing(cr[c]), Forgotten(cr[c])}
  PROVE  Claimed(c)' \in {0, Claimed(c)} /\ Life(c)' = Life(c)
<1>1. /\ cr'[c].live = cr[c].live /\ cr'[c].finalizer = cr[c].finalizer
      /\ cr'[c].deleting = cr[c].deleting /\ cr'[c].gen = cr[c].gen
  BY HoldFields
<1>2. CASE cr'[c] \in {cr[c], Paused(cr[c]), Failing(cr[c])}
  <2>1. \/ cr'[c] = cr[c]
        \/ "Failed" \in cr'[c].status.conds
        \/ /\ cr'[c].status.at = cr[c].status.at
           /\ cr'[c].status.obsGen = cr[c].status.obsGen
           /\ "Failed" \in cr[c].status.conds
                => "Failed" \in cr'[c].status.conds
           /\ "Ready" \in cr'[c].status.conds
                => "Ready" \in cr[c].status.conds
    BY <1>2, WrittenFields
  <2> QED BY <1>1, <2>1 DEF Claimed, AlreadySynced, Life
<1>3. CASE cr'[c] = Forgotten(cr[c])
  <2>1. cr'[c].status.at = {}
    BY <1>3, ForgottenFields
  <2> QED BY <1>1, <2>1 DEF Claimed, AlreadySynced, Life
<1> QED BY <1>2, <1>3

LEMMA MirrorRecords ==
  ASSUME IInv, NEW c \in Resources, Ages(c), Carries(c), Hold(c), Step(c),
         pc[c] = "record", c \notin behind, cr'[c] = Synced(obj[c], c),
         Sending(c)' = 0
  PROVE  M(c)!Next
<1>1. /\ obj[c] = cr[c] /\ cr[c] \in Object(Status) /\ setup \in Setups
      /\ Sending(c) = sync[c].gen /\ sync[c].gen \in 1 .. MaxGen
  BY Figures DEF IInv, TypeOK, Counted, Sending
<1>2. /\ cr'[c].live = cr[c].live /\ cr'[c].finalizer = cr[c].finalizer
      /\ cr'[c].deleting = cr[c].deleting /\ cr'[c].gen = cr[c].gen
      /\ cr'[c].status.obsGen = sync[c].gen
      /\ cr'[c].status.at = setup.spec[c][sync[c].gen].keys
      /\ "Ready" \in cr'[c].status.conds
      /\ "Failed" \notin cr'[c].status.conds
  BY <1>1, RecordFields
<1>3. setup.spec[c][sync[c].gen].keys # {}
  <2>1. setup.spec[c][sync[c].gen] \in Specs
    BY <1>1, SetupShape
  <2> QED BY <2>1 DEF Specs
<1>4. Life(c)' = Life(c) /\ Life(c) \in {"held", "condemned"} /\ cr[c].live
  BY <1>2 DEF Life, Hold, Pushing
<1>5. CASE sync[c].gen = cr[c].gen
  <2>1. Claimed(c)' = cr[c].gen
    BY <1>2, <1>3, <1>4, <1>5 DEF Claimed, AlreadySynced
  <2> QED BY <1>1, <1>2, <1>4, <1>5, <2>1 DEF M!Next, M!Claim, M!Held
<1>6. CASE sync[c].gen # cr[c].gen
  <2>1. Claimed(c)' = 0
    BY <1>2, <1>6 DEF Claimed, AlreadySynced
  <2> QED BY <1>2, <1>4, <2>1, MirrorAbandons
<1> QED BY <1>5, <1>6

LEMMA MirrorOver ==
  ASSUME IInv, NEW c \in Resources, Ages(c), Carries(c), Hold(c), Step(c),
         Over(c)
  PROVE  M(c)!Next
<1>1. Sending(c)' = 0 /\ pc[c] # "idle" /\ cr[c] \in Object(Status)
  BY Figures DEF Over, Sending
<1>2. CASE cr'[c] = cr[c]
  BY <1>1, <1>2, ReportedClaim, MirrorAbandons
<1>3. ASSUME c \notin behind PROVE obj[c] = cr[c]
  BY <1>1, <1>3, Figures
<1>4. CASE /\ c \notin behind
           /\ cr'[c] \in {obj[c], Paused(obj[c]), Failing(obj[c])}
  <2>1. cr'[c].gen = cr[c].gen
    BY <1>1, <1>3, <1>4, HoldFields
  <2> QED BY <1>1, <1>3, <1>4, <2>1, ReportedClaim, MirrorAbandons
<1>5. CASE c \notin behind /\ Unguarded(c) /\ cr'[c] = Guarded(obj[c])
  <2>1. /\ ~cr[c].finalizer /\ ~cr[c].deleting /\ cr[c].live
        /\ Sending(c) = 0
    BY <1>1, <1>3, <1>5 DEF Unguarded, Hold, Sending
  <2>2. /\ cr'[c].live = cr[c].live /\ cr'[c].finalizer
        /\ cr'[c].deleting = cr[c].deleting /\ cr'[c].gen = cr[c].gen
        /\ cr'[c].status = cr[c].status
    BY <1>1, <1>3, <1>5, HoldFields
  <2>3. /\ Life(c) = "open" /\ Life(c)' = "held"
        /\ Claimed(c)' = Claimed(c)
    BY <2>1, <2>2 DEF Life, Claimed, AlreadySynced
  <2> QED BY <1>1, <2>1, <2>2, <2>3 DEF M!Next, M!Protect
<1>6. CASE c \notin behind /\ pc[c] = "release" /\ cr'[c] = Released(obj[c])
  <2>1. cr[c].live /\ cr[c].deleting /\ cr[c].finalizer /\ Sending(c) = 0
    BY <1>1, <1>3, <1>6 DEF Hold, Sending
  <2>2. ~cr'[c].live /\ cr'[c].gen = cr[c].gen
    BY <1>1, <1>3, <1>6, HoldFields
  <2>3. Life(c) = "condemned" /\ Life(c)' = "gone" /\ Claimed(c)' = 0
    BY <2>1, <2>2 DEF Life, Claimed
  <2> QED BY <1>1, <2>1, <2>2, <2>3 DEF M!Next, M!Finish
<1>7. CASE c \notin behind /\ pc[c] = "record" /\ cr'[c] = Synced(obj[c], c)
  BY <1>1, <1>7, MirrorRecords
<1> QED BY <1>2, <1>4, <1>5, <1>6, <1>7 DEF Over, Concludes

LEMMA MirrorOn ==
  ASSUME IInv, NEW c \in Resources, Ages(c), Carries(c), Hold(c), Step(c),
         ReadOn(c) \/ ForgetOn(c) \/ CallOn(c)
  PROVE  M(c)!Next \/ UNCHANGED M(c)!vars
<1>1. CASE ReadOn(c)
  <2>1. cr'[c] = cr[c] /\ Sending(c)' = Sending(c)
    BY <1>1 DEF ReadOn, Sending
  <2> QED BY <2>1, MirrorStill
<1>2. CASE ForgetOn(c)
  <2>1. obj[c] = cr[c] /\ cr[c] \in Object(Status) /\ Sending(c)' = 0
    BY <1>2, Figures DEF ForgetOn, Sending
  <2>2. cr'[c] = Forgotten(cr[c]) /\ cr'[c].gen = cr[c].gen
    BY <1>2, <2>1, ForgottenFields DEF ForgetOn
  <2> QED BY <2>1, <2>2, ReportedClaim, MirrorAbandons
<1>3. CASE /\ CallOn(c) /\ Starting(c) /\ pc'[c] = NextCall(c)
           /\ sync'[c] = [gen |-> obj[c].gen, value |-> ValueOf(Wanted(c))]
  <2>1. /\ cr'[c] = cr[c] /\ pc'[c] \in {"clear", "put", "refetch"}
        /\ pc[c] \in {"sync", "fetched"}
    BY <1>3 DEF CallOn, NextCall, Starting, Syncing
  <2>2. Sending(c) = 0 /\ Sending(c)' = obj[c].gen
    BY <1>3, <2>1 DEF Sending
  <2>3. cr[c].finalizer /\ cr[c].live
    BY <1>3 DEF Starting, Syncing, Hold, Pushing
  <2>4. obj[c].gen \in 1 .. cr[c].gen
    BY Figures
  <2>5. /\ Life(c) \in {"held", "condemned"} /\ Life(c)' = Life(c)
        /\ Claimed(c)' = Claimed(c)
    BY <2>1, <2>3 DEF Life, Claimed, AlreadySynced
  <2> QED BY <2>1, <2>2, <2>4, <2>5 DEF M!Next, M!Send, M!Held
<1>4. CASE /\ CallOn(c)
           /\ ~ /\ Starting(c) /\ pc'[c] = NextCall(c)
                /\ sync'[c] = [gen |-> obj[c].gen,
                               value |-> ValueOf(Wanted(c))]
  <2>1. cr'[c] = cr[c] /\ sync'[c] = sync[c]
    BY <1>4 DEF CallOn
  <2>2. pc'[c] \in {"clear", "put", "refetch", "record"}
          <=> pc[c] \in {"clear", "put", "refetch", "record"}
    BY <1>4 DEF CallOn, CheckingDrift, Syncing, Deleting
  <2> QED BY <2>1, <2>2, MirrorStill DEF Sending
<1> QED BY <1>1, <1>2, <1>3, <1>4

LEMMA MirrorWishes ==
  ASSUME IInv, NEW c \in Resources, Ages(c), Hold(c), WishesFor(c)
  PROVE  M(c)!Next
<1>1. /\ cr[c] \in Object(Status) /\ cr[c].live
      /\ Sending(c)' = Sending(c)
  BY Figures DEF WishesFor, Sending
<1>2. CASE cr[c].gen < MaxGen /\ cr'[c] = [cr[c] EXCEPT !.gen = @ + 1]
  <2>1. /\ cr'[c].live = cr[c].live /\ cr'[c].finalizer = cr[c].finalizer
        /\ cr'[c].deleting = cr[c].deleting /\ cr'[c].gen = cr[c].gen + 1
        /\ cr'[c].status = cr[c].status
    BY <1>1, <1>2 DEF Object
  <2>2. cr[c].status.obsGen # cr[c].gen + 1
    BY Figures DEF Ages
  <2>3. Life(c)' = Life(c) /\ Life(c) # "gone" /\ Claimed(c)' = 0
    BY <1>1, <2>1, <2>2 DEF Life, Claimed, AlreadySynced
  <2> QED BY <1>1, <1>2, <2>1, <2>3 DEF M!Next, M!Edit
<1>3. CASE /\ ~cr[c].deleting /\ cr[c].finalizer
           /\ cr'[c] = [cr[c] EXCEPT !.deleting = TRUE]
  <2>1. /\ cr'[c].live /\ cr'[c].finalizer
        /\ cr'[c].deleting /\ cr'[c].gen = cr[c].gen
        /\ cr'[c].status = cr[c].status
    BY <1>1, <1>3 DEF Object
  <2>2. /\ Life(c) = "held" /\ Life(c)' = "condemned"
        /\ Claimed(c)' = Claimed(c)
    BY <1>1, <1>3, <2>1 DEF Life, Claimed, AlreadySynced
  <2> QED BY <1>1, <2>1, <2>2 DEF M!Next, M!Delete
<1>4. CASE /\ ~cr[c].deleting /\ ~cr[c].finalizer
           /\ cr'[c] = [cr[c] EXCEPT !.live = FALSE]
  <2>1. ~cr'[c].live /\ cr'[c].gen = cr[c].gen
    BY <1>1, <1>4 DEF Object
  <2>2. Life(c) = "open" /\ Life(c)' = "gone" /\ Claimed(c)' = 0
    BY <1>1, <1>4, <2>1 DEF Life, Claimed
  <2>3. Claimed(c) = 0
    BY <1>1, <1>4 DEF Claimed, AlreadySynced, Hold
  <2> QED BY <1>1, <2>1, <2>2, <2>3 DEF M!Next, M!Delete
<1> QED BY <1>2, <1>3, <1>4 DEF WishesFor

LEMMA MirrorStep ==
  ASSUME IInv, RInv, HInv, [Next]_vars, NEW d \in Resources
  PROVE  M(d)!Next \/ UNCHANGED M(d)!vars
<1>1. Ages(d) /\ Carries(d) /\ Hold(d) /\ cr[d] \in Object(Status)
  BY Figures DEF RInv, HInv
<1>2. CASE Beyond
  <2>1. cr'[d] = cr[d] /\ Sending(d)' = Sending(d)
    BY <1>2 DEF Beyond, Sending
  <2> QED BY <2>1, MirrorStill
<1>3. CASE Crash
  <2>1. cr'[d] = cr[d] /\ Sending(d)' = 0
    BY <1>3 DEF Crash, Restart, Sending
  <2> QED BY <1>1, <2>1, ReportedClaim, MirrorAbandons
<1>4. ASSUME NEW c \in Resources, Passes(c)
      PROVE  M(d)!Next \/ UNCHANGED M(d)!vars
  <2>1. CASE c = d
    BY <1>1, <1>4, <2>1, MirrorOver, MirrorOn DEF Passes
  <2>2. CASE c # d
    BY <1>4, <2>2, MirrorStill DEF Passes, Step, Sending
  <2> QED BY <2>1, <2>2
<1>5. ASSUME NEW c \in Resources, WishesFor(c)
      PROVE  M(d)!Next \/ UNCHANGED M(d)!vars
  <2>1. CASE c = d
    BY <1>1, <1>5, <2>1, MirrorWishes
  <2>2. CASE c # d
    BY <1>5, <2>2, MirrorStill DEF WishesFor, Sending
  <2> QED BY <2>1, <2>2
<1>6. ASSUME NEW c \in Resources, DeliversTo(c)
      PROVE  M(d)!Next \/ UNCHANGED M(d)!vars
  BY <1>6, MirrorStill DEF DeliversTo, Sending
<1> QED BY <1>2, <1>3, <1>4, <1>5, <1>6, NextKinds

(* Every resource that is part of a shared document is the subject of a    *)
(* mirror, whatever its neighbours do to that document meanwhile.          *)
THEOREM ImplementsMirror == Spec => Mirrors
<1> SUFFICES ASSUME NEW c \in Resources
             PROVE  Spec => M(c)!Spec
  BY Zenon DEF Mirrors
<1>1. Init => M(c)!Init
  <2> SUFFICES ASSUME Init PROVE M(c)!Init
    OBVIOUS
  <2>1. cr[c] = Created(NoStatus) /\ pc[c] = "idle"
    BY DEF Init, KubeInit
  <2> QED BY <2>1 DEF Created, NoStatus, M!Init, Life, Claimed,
                      AlreadySynced, Sending
<1>2. IInv /\ RInv /\ HInv /\ [Next]_vars => [M(c)!Next]_(M(c)!vars)
  BY MirrorStep
<1> QED BY <1>1, <1>2, Held, PTL DEF Spec, M!Spec
=============================================================================
