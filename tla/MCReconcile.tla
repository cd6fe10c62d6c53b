---------------------------- MODULE MCReconcile ----------------------------
(***************************************************************************)
(* Small instances of Reconcile: an empty workspace with one directory, and *)
(* requests that write twice to one file, make a directory or ask the net.  *)
(***************************************************************************)
EXTENDS Reconcile, TLC

MCTarget == {"root", "file", "dir", "url"}
MCWorkspace == MCTarget \ {"url"}
MCParent == [t \in MCTarget |-> IF t = "url" THEN "url" ELSE "root"]
MCInitialFiles == [t \in MCTarget |->
    IF t = "root" THEN "directory" ELSE "absent"]

Ask(id, op, tool, target, content) ==
    [action_id |-> id, op |-> op, tool |-> tool, target |-> target, content |-> content,
     intent |-> FALSE, timeout |-> TRUE]

\* The two writes name an intent, so a decision store records the decision.
Decided(request) == [request EXCEPT !.intent = TRUE]

Write1 == Decided(Ask("a1", "write_file", "filesystem.write", "file", "v1"))
Write2 == Decided(Ask("a2", "write_file", "filesystem.write", "file", "v2"))
Mkdir  == Ask("a3", "make_directory", "filesystem.mkdir", "dir", "v1")
Http   == Ask("a4", "http_get", "network.http_get", "url", "v1")
Todo   == Ask("a5", "write_file", "todo.create", "file", "v2")

EveryTool == {Write1, Write2, Mkdir, Http, Todo}
WriteAndMkdir == {Write1, Mkdir}

CallSymmetry == Permutations(Call)
NoRules == {}
=============================================================================
