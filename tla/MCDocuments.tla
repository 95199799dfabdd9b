----------------------------- MODULE MCDocuments ----------------------------
(***************************************************************************)
(* The fleets and budgets of the run of Documents.                         *)
(***************************************************************************)
EXTENDS Documents

Pair == {1, 2}

Ask(ks, v) == [keys |-> ks, value |-> v, valid |-> TRUE]
Wrong(ks) == [keys |-> ks, value |-> 1, valid |-> FALSE]

(* The user asks for this, then for that.                                  *)
Then(this, that) == [g \in 1 .. MaxGen |-> IF g = 1 THEN this ELSE that]

(* Value 3 is an SFTP archive, the others are in S3.                       *)
Remote == [v \in Values |-> IF v = 3 THEN "sftp" ELSE "s3"]

Setup(k, specs, d, ks) ==
  [kind |-> k, spec |-> [c \in Pair |-> specs[c]], remote |-> Remote,
   doc |-> [n \in Keys |-> IF n = "c" THEN d ELSE 0],
   budget |-> [e \in Events |-> IF e \in ks THEN 1 ELSE 0]]

A1 == Ask({"a"}, 1)
Edit == Then(A1, Ask({"a"}, 2))
Rename == Then(A1, Ask({"b"}, 2))
Spoil == Then(A1, Wrong({"a"}))
Other == Then(Ask({"c"}, 1), Ask({"c"}, 1))
Widen == Then(A1, Ask({"a", "b"}, 3))
Narrow == Then(Ask({"a", "b"}, 1), Ask({"b"}, 2))
Mapped == Then(Ask({"a"}, 0), Ask({"a"}, 0))

(* An entry "c" nobody asks for, or a second resource for it.              *)
Fleet(k, specs, d, kss) == {Setup(k, specs, d, ks) : ks \in kss}

EditFails == {{"edit", "server"}, {"edit", "other"}, {"edit", "crash"}}
DeleteFails == {{"delete", "server"}, {"delete", "other"}}

Disturbed ==
  UNION {
    Fleet("collector", <<Edit, Other>>, 0,
          {{"edit", "server"}, {"edit", "external"}, {"delete", "conn"},
           {"edit", "other", "report"}}),
    Fleet("collector", <<Rename, Other>>, 0, {{"edit", "crash"}}),
    Fleet("collector", <<Edit, Other>>, 1, DeleteFails),
    Fleet("dashboard", <<Edit, Other>>, 1, EditFails \cup DeleteFails),
    Fleet("dashboard", <<Spoil, Other>>, 1,
          {{"edit", "lag"}, {"edit", "report"}}),
    Fleet("dashboard", <<Mapped, Other>>, 0,
          {{"edit", "kube"}, {"delete"}, {"edit", "report"}}),
    Fleet("archive", <<Widen, Other>>, 1,
          {{"edit", "server", "report"}, {"edit", "conn"},
           {"external", "other"}}),
    Fleet("archive", <<Narrow, Other>>, 1, DeleteFails \cup {{"edit", "lag"}}),
    Fleet("archive", <<Spoil, Other>>, 1, {{"edit", "kube"}}),
    Fleet("repair", <<Edit, Other>>, 0,
          EditFails \cup {{"edit", "external"}, {"delete", "conn"},
                          {"server", "conn", "report"}})}
=============================================================================
