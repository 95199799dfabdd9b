--------------------------- MODULE MCCredentials ---------------------------
(***************************************************************************)
(* Plans and budgets for the runs of Credentials.                          *)
(***************************************************************************)
EXTENDS Credentials

Faults(ks) == [k \in Disturbances |-> IF k \in ks THEN 1 ELSE 0]

(* One failed call, one misread StorageClass, one stale read, and so on.   *)
OneFault == {Faults({k}) : k \in {"kube", "other", "lag", "external",
                                  "crash", "pod"}}

Quiet == {Faults({})}

Wish(mode, credentials, keep) ==
  [mode |-> mode, auth |-> credentials, retain |-> keep, renewed |-> FALSE]
Again(w) == [w EXCEPT !.renewed = TRUE]

Ours(keep) == Wish("internal", "none", keep)
Given(keep) == Wish("internal", "both", keep)
Known(keep) == Wish("internal", "user", keep)
Off(keep) == Wish("off", "none", keep)
Gone(keep) == Wish("gone", "none", keep)
Theirs(keep) == Wish("external", "ref", keep)
Named(keep) == Wish("external", "user", keep)
Bare(keep) == Wish("external", "none", keep)

(* Switched off and on, external and back, deleted and created again, with *)
(* a password that is given later, and with another StorageClass.          *)
Histories == {<<Ours(TRUE), Again(Ours(TRUE))>>,
              <<Ours(TRUE), Off(TRUE), Ours(TRUE)>>,
              <<Ours(TRUE), Theirs(TRUE)>>,
              <<Theirs(FALSE), Ours(FALSE)>>,
              <<Ours(FALSE), Again(Given(FALSE))>>,
              <<Known(FALSE), Given(FALSE)>>,
              <<Ours(FALSE), Gone(FALSE)>>,
              <<Ours(FALSE), Bare(FALSE)>>,
              <<Known(TRUE), Known(FALSE)>>,
              <<Ours(FALSE), Ours(TRUE)>>,
              <<Named(TRUE)>>}

Referring == {<<Ours(TRUE), Wish("internal", "ref", TRUE)>>}
=============================================================================
