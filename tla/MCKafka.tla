------------------------------- MODULE MCKafka ------------------------------
(***************************************************************************)
(* The setups of the run of Kafka.                                         *)
(***************************************************************************)
EXTENDS Kafka

Faults(ks) == [k \in Disturbances |-> IF k \in ks THEN 1 ELSE 0]

(* The user asks for this, then for that.                                  *)
Then(this, that) == [g \in 1 .. MaxGen |-> IF g = 1 THEN this ELSE that]

Setup(f, names, keys, foreign, ks) ==
  [flavour |-> f, names |-> names, keys |-> keys, foreign |-> foreign,
   budget |-> Faults(ks)]

(* Edits of the configuration, renamings, edits of an ACL, and names that  *)
(* are taken already.                                                      *)
Disturbed ==
  UNION {
    {Setup(f, Then("a", "a"), Then({"k"}, {"k"}), {}, ks) :
       f \in {"topic", "connector"},
       ks \in {{"crash", "lag", "external"}, {"server", "other", "conn"}}},
    {Setup("topic", Then("a", "a"), Then({"k"}, {}), {"a"},
           {"crash", "server"}),
     Setup("connector", Then("a", "a"), Then({"k"}, {"k"}), {"a"},
           {"lag", "external"}),
     Setup("topic", Then("a", "b"), Then({}, {}), {"b"}, {"crash", "other"}),
     Setup("topic", Then("a", "b"), Then({"k"}, {"k"}), {"a"},
           {"server", "report", "lag"}),
     Setup("connector", Then("a", "b"), Then({}, {"k"}), {"b"},
           {"crash", "report"}),
     Setup("connector", Then("a", "b"), Then({}, {"k"}), {}, {"server"})},
    {Setup("acl", Then("a", "b"), Then({}, {}), fs, ks) :
       fs \in {{}, {"b"}},
       ks \in {{"crash", "lag"}, {"server", "other", "conn", "report"}}}}

AllBudgets == {s.budget : s \in Disturbed}
=============================================================================
