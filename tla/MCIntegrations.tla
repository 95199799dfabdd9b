--------------------------- MODULE MCIntegrations ---------------------------
(***************************************************************************)
(* The fleets and budgets of the run of Integrations.                      *)
(***************************************************************************)
EXTENDS Integrations

Pair == {1, 2}

Want1(n, s) == [place |-> 1, name |-> n, valid |-> n # "bad", slot |-> s,
                override |-> TRUE]

(* The same, in the other cluster.                                         *)
There(want) == [want EXCEPT !.place = 2]

(* The user asks for this, then for that.                                  *)
Then(this, that) == [g \in 1 .. MaxGen |-> IF g = 1 THEN this ELSE that]

Setup(roles, specs, made, strict, ks) ==
  [role |-> [c \in Pair |-> roles[c]], spec |-> [c \in Pair |-> specs[c]],
   made |-> made, strict |-> strict,
   budget |-> [k \in Events |-> IF k \in ks THEN 1 ELSE 0]]

Slack == Want1("slack", "global")
Metrics == Want1("slack", "metrics")
Renamed == Then(Slack, Want1("pager", "global"))
Broken == Then(Slack, Want1("bad", "global"))
Moved == Then(Slack, Metrics)

(* An endpoint and the route to it, two routes to an integration of the    *)
(* console, a route beside two integrations of one name, and an endpoint   *)
(* and a route of which one moves to another cluster.                      *)
Disturbed ==
  UNION {
    {Setup(<<"endpoint", "route">>, <<Renamed, Moved>>, {}, strict, ks) :
       strict \in BOOLEAN,
       ks \in {{"edit"}, {"external"}, {"delete"}, {"crash"},
               {"server", "report"}, {"edit", "lag"}}},
    {Setup(<<"endpoint", "route">>, <<Broken, Moved>>, {}, TRUE, ks) :
       ks \in {{"edit", "kube", "report"}, {"conn", "report"},
               {"delete", "other"},
               {"edit", "delete"}}},
    {Setup(<<"route", "route">>, <<Moved, Then(Metrics, Slack)>>,
           {<<1, "slack">>}, TRUE, ks) :
       ks \in {{"edit", "delete"}, {"external", "server"}}},
    {Setup(<<"endpoint", "route">>, <<Renamed, Moved>>, {<<1, "slack">>},
           TRUE, ks) :
       ks \in {{"delete", "server"}, {"external"}}},
    {Setup(<<"endpoint", "route">>,
           <<Then(Slack, There(Slack)), Then(Slack, There(Metrics))>>, made,
           TRUE, ks) :
       made \in {{}, {<<2, "slack">>}}, ks \in {{"edit"}, {"edit", "delete"}}}}
=============================================================================
