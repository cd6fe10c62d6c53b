-------------------------- MODULE MCFilesystemDiff --------------------------
(***************************************************************************)
(* Three paths; requests that expect one or two of them, with and without a *)
(* digest, ignore one, or are refused.                                      *)
(***************************************************************************)
EXTENDS FilesystemDiff

Expect(a, b) == [p \in Path |-> CASE p = "a" -> a [] p = "b" -> b [] OTHER -> "not_expected"]

Diff(expected, ignored) ==
    [kind |-> "filesystem_diff_reconciliation", mode |-> "read_only", ids |-> TRUE,
     expected |-> expected, ignored |-> ignored]

MCRequests == {Diff(Expect("v1", "any"), {}), Diff(Expect("v1", "v2"), {"b"}),
               Diff(Expect("not_expected", "v2"), {"c"}),
               [Diff(Expect("v1", "any"), {}) EXCEPT !.mode = "other"]}

MCInitialFiles == {f \in [Path -> FileState] :
    f["a"] \in {"v1", "v2", "absent"} /\ f["b"] # "v1" /\ f["c"] \in {"v1", "absent"}}
                  \cup {[p \in Path |-> "absent"]}
=============================================================================
