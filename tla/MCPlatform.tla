----------------------------- MODULE MCPlatform -----------------------------
(***************************************************************************)
(* Plans and budgets for the runs of Platform.                             *)
(***************************************************************************)
EXTENDS Platform

Faults(ks) == [k \in Disturbances |-> IF k \in ks THEN 1 ELSE 0]

Quiet == {Faults({})}

(* A failed call and a stale read or a crash; or a pod that goes down.     *)
AnyTwo == {Faults({"kube", "lag"}), Faults({"kube", "crash"}),
           Faults({"pod"})}

Wish(ts, se, srv, dash) ==
  [pause |-> FALSE, timeseries |-> ts, search |-> se,
   server |-> srv, dashboard |-> dash]
Pausing(w) == [w EXCEPT !.pause = TRUE]

Small == Wish("internal", "off", TRUE, TRUE)
Bare == Wish("off", "internal", TRUE, FALSE)
Both == Wish("internal", "internal", TRUE, FALSE)
Fronting == Wish("off", "external", TRUE, TRUE)
Unfinished == Wish("internal", "incomplete", TRUE, FALSE)
Orphaned == Wish("internal", "off", FALSE, FALSE)

(* A second database, first external and incomplete, then internal; an     *)
(* external one, paused, resumed, and paused again with a different spec;  *)
(* a spec that is invalid.  Each may be deleted at any moment.             *)
Courses == {<<Unfinished, Both>>,
            <<Pausing(Fronting), Fronting, Pausing(Both)>>,
            <<Orphaned, Pausing(Orphaned), Orphaned>>}

Shrinks == {<<Small, Bare>>}
=============================================================================
