----------------------------- MODULE MCRecreate -----------------------------
(***************************************************************************)
(* The setups of the runs of Recreate.                                     *)
(***************************************************************************)
EXTENDS Recreate

Faults(ks) == [k \in Disturbances |-> IF k \in ks THEN 1 ELSE 0]

(* The user asks for this, then for that.                                  *)
Then(this, that) == [g \in 1 .. MaxGen |-> IF g = 1 THEN this ELSE that]
Edit == Then("object", "object")

(* The edit stays in its cluster, or names the other one.                  *)
Stay == Then(1, 1)
Move == Then(1, 2)

Setup(f, p, w, ks) ==
  [flavour |-> f, plan |-> p, place |-> w, budget |-> Faults(ks)]

(* The API answers (Converges); it fails, or the connection changes.       *)
Disturbed ==
  {Setup(f, Edit, Stay, {"crash", "lag", "external"}) :
     f \in {"silence", "backup", "repair"}}
  \cup {Setup(f, Edit, Stay, {"server", "other", "conn"}) :
     f \in {"silence", "repair"}}
  \cup {Setup(f, Edit, Stay, {"server", "other", "report"}) :
     f \in {"silence", "backup"}}
  \cup {Setup(f, Edit, Move, {"crash", "server", "kube"}) :
     f \in {"silence", "backup"}}
  \cup {Setup("backup", Edit, Stay, {"other", "conn", "kube"}),
        Setup("silence", Edit, Stay, {"kube", "external"}),
        Setup("silence", Then("object", "none"), Stay, {"crash", "external"}),
        Setup("silence", Then("none", "object"), Move, {"lag", "server"}),
        Setup("repair", Then("object", "invalid"), Move, {"crash", "server"}),
        Setup("backup", Then("invalid", "object"), Stay, {"lag", "report"})}

AllBudgets == {s.budget : s \in Disturbed}
=============================================================================
