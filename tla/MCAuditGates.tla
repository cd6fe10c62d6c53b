---------------------------- MODULE MCAuditGates ----------------------------
(***************************************************************************)
(* A todo and an audit() call, each with a file of its own; audit() is      *)
(* asked for a tool the policy admits, for one it denies, and for a target  *)
(* outside the workspace.                                                   *)
(***************************************************************************)
EXTENDS AuditGates, TLC

MCTarget == {"root", "file1", "file2", "notes", "outside"}
MCWorkspace == MCTarget \ {"outside"}
MCParent == [t \in MCTarget |-> IF t = "outside" THEN "outside" ELSE "root"]
MCInitialFiles == [t \in MCTarget |-> IF t \in {"root", "outside"} THEN "directory" ELSE "absent"]

MCCall == (Todo \X {"before", "after"}) \cup (Audited \X {"audit"})

MCRecordOf == [k \in Task |-> CASE k = "k1" -> "a1" [] k = "k2" -> "a2" [] OTHER -> "a3"]
MCAuditTarget == [k \in Todo |-> IF k = "k1" THEN "file1" ELSE "file2"]

Note == [action_id |-> "a3", op |-> "write_file", tool |-> "filesystem.write", target |-> "notes",
         content |-> "note", intent |-> TRUE, timeout |-> FALSE]
Refused == [Note EXCEPT !.tool = "shell.execute"]
Away == [Note EXCEPT !.target = "outside"]

MCAuditRequests == {Note, Refused, Away}

MCRequest == {[action_id |-> MCRecordOf[k], op |-> "write_file", tool |-> "todo.create",
               target |-> MCAuditTarget[k], content |-> text, intent |-> TRUE,
               timeout |-> FALSE] : k \in Todo, text \in {"todo", "created", "error"}}
             \cup MCAuditRequests

MCRules == {[t \in Tool |-> IF t = "shell.execute" THEN "deny" ELSE "allow"]}
=============================================================================
