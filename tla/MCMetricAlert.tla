--------------------------- MODULE MCMetricAlert ----------------------------
(***************************************************************************)
(* Budgets of disturbances for the runs of MetricAlert.                    *)
(***************************************************************************)
EXTENDS MetricAlert

Faults(ks) == [k \in Disturbances |-> IF k \in ks THEN 1 ELSE 0]

OneServerFault == {Faults({"server"})}

(* The AxonOps API always answers; it fails once while the connection      *)
(* changes, and the process dies or reads are late; a DELETE is lost; the  *)
(* Kubernetes API fails beside it, when it is told or when it is asked.    *)
Mixed == {Faults({"crash", "lag", "external"}),
          Faults({"crash", "server", "other"}),
          Faults({"lag", "conn"}),
          Faults({"lag", "other", "external"}),
          Faults({"kube", "external"}),
          Faults({"report", "other", "conn"})}

(* The edit stays in the cluster, or names another one.                    *)
StayOrMove == {<<1, 1>>, <<1, 2>>}
Stay == {<<1, 1>>}
=============================================================================
