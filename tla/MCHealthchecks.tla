--------------------------- MODULE MCHealthchecks ---------------------------
(***************************************************************************)
(* Two resources, served by one controller or by two, and the budgets of   *)
(* the runs of Healthchecks.                                               *)
(***************************************************************************)
EXTENDS Healthchecks

TwoChecks == {1, 2}
OneKind == [c \in TwoChecks |-> "http"]
TwoKinds == [c \in TwoChecks |-> IF c = 1 THEN "http" ELSE "tcp"]

(* Edits stay in the first cluster, or resource 1 moves to the second.     *)
Stay == [c \in TwoChecks |-> [g \in 1 .. MaxGen |-> 1]]
Move == [Stay EXCEPT ![1] = [g \in 1 .. MaxGen |-> IF g = 1 THEN 1 ELSE 2]]

Once(ks) == [k \in Events |-> IF k \in ks THEN 1 ELSE 0]
Setup(fleet, where, ks) ==
  [kind |-> fleet, place |-> where, budget |-> Once(ks)]

(* Two disturbances at a time with two controllers, three with one.        *)
Disturbed ==
  {Setup(TwoKinds, Stay, ks) : ks \in {{"edit"}, {"external"}, {"server"},
                                       {"crash", "lag"}, {"delete", "other"},
                                       {"delete", "conn"}}}
  \cup
  {Setup(OneKind, Stay, ks) : ks \in {{"edit", "external", "server"},
                                      {"edit", "lag"},
                                      {"delete", "other", "crash"}}}
  \cup
  {Setup(OneKind, Move, ks) : ks \in {{"edit", "delete"},
                                      {"edit", "external"}}}

(* Two controllers, one edit, and nothing goes wrong.                      *)
Calm == {Setup(TwoKinds, Stay, {"edit"})}
=============================================================================
