------------------------------- MODULE Mirror -------------------------------
(***************************************************************************)
(* What every controller of the operator promises of one resource it       *)
(* mirrors outside Kubernetes, whatever the mirror is made of: nothing is  *)
(* sent for a resource the operator does not hold by its finalizer; what   *)
(* the status claims of the current spec was sent, as it is, under that    *)
(* hold; and a held resource goes away only when the user deletes it.      *)
(***************************************************************************)
EXTENDS Naturals

CONSTANT MaxGen   \* the user submits the specs 1 .. MaxGen

VARIABLES
  life,    \* "open" until the operator holds it, "held", then "condemned"
           \* when the user has deleted it, and "gone"
  gen,     \* the newest spec
  sent,    \* the spec that is being sent, 0 = none
  claim    \* the spec the status claims to be mirrored, 0 = none

vars == <<life, gen, sent, claim>>

TypeOK ==
  /\ life \in {"open", "held", "condemned", "gone"}
  /\ gen \in 1 .. MaxGen
  /\ sent \in 0 .. MaxGen
  /\ claim \in 0 .. MaxGen

Init == life = "open" /\ gen = 1 /\ sent = 0 /\ claim = 0

Held == life \in {"held", "condemned"}

(* The operator takes hold of the resource.                                *)
Protect ==
  /\ life = "open"
  /\ life' = "held"
  /\ UNCHANGED <<gen, sent, claim>>

(* The user submits another spec: nothing is claimed of it.                *)
Edit ==
  /\ life # "gone" /\ gen < MaxGen
  /\ gen' = gen + 1
  /\ claim' = 0
  /\ UNCHANGED <<life, sent>>

(* The user deletes the resource.                                          *)
Delete ==
  /\ \/ life = "open" /\ life' = "gone"
     \/ life = "held" /\ life' = "condemned"
  /\ UNCHANGED <<gen, sent, claim>>

(* A spec is sent, not necessarily the newest.                             *)
Send ==
  /\ Held /\ sent = 0
  /\ sent' \in 1 .. gen
  /\ UNCHANGED <<life, gen, claim>>

(* The status claims what was sent, if that still is the newest spec.      *)
Claim ==
  /\ Held /\ sent = gen
  /\ claim' = gen
  /\ sent' = 0
  /\ UNCHANGED <<life, gen>>

(* What was sent is not claimed; what was claimed may be withdrawn.        *)
Abandon ==
  /\ sent' = 0
  /\ claim' \in {0, claim}
  /\ UNCHANGED <<life, gen>>

(* A deleted resource is let go, with all that was claimed.                *)
Finish ==
  /\ life = "condemned"
  /\ life' = "gone"
  /\ claim' = 0
  /\ UNCHANGED <<gen, sent>>

Next ==
  \/ Protect \/ Edit \/ Delete \/ Send \/ Claim \/ Abandon \/ Finish

Spec == Init /\ [][Next]_vars

-----------------------------------------------------------------------------
(* The promise in terms of states: a claim is of the newest spec, made     *)
(* under the operator's hold.                                              *)
ClaimsHold == TypeOK /\ (claim # 0 => claim = gen /\ Held)

(* Every claim is made by the step that ends the sending of that spec.     *)
ClaimsAreSent ==
  [][claim' # claim /\ claim' # 0 => sent = gen /\ claim' = gen /\ Held]_vars
=============================================================================
