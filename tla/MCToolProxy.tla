---------------------------- MODULE MCToolProxy ----------------------------
(***************************************************************************)
(* Small instances of ToolProxy: a workspace with one file, one missing     *)
(* directory and two paths under it, a path outside, and one request per    *)
(* tool and interesting setting.                                            *)
(***************************************************************************)
EXTENDS ToolProxy

MCTarget == {"root", "file", "dir", "dir/file", "dir/sub", "outside"}
MCWorkspace == MCTarget \ {"outside"}
MCParent == [t \in MCTarget |->
    CASE t \in {"dir/file", "dir/sub"} -> "dir" [] t = "outside" -> "outside"
      [] OTHER -> "root"]
MCInitialFiles == [t \in MCTarget |->
    CASE t \in {"root", "outside"} -> "directory" [] t = "file" -> "v0" [] OTHER -> "absent"]

UsualTool(op) ==
    CASE op = "write_file" -> "filesystem.write" [] op = "make_directory" -> "filesystem.mkdir"
      [] op = "execute_shell" -> "shell.execute" [] op = "http_get" -> "network.http_get"

Ask(id, op, target, content, intent, timeout) ==
    [action_id |-> id, op |-> op, tool |-> UsualTool(op), target |-> target, content |-> content,
     intent |-> intent, timeout |-> timeout]

Write1  == Ask("a1", "write_file", "file", "v1", TRUE, FALSE)
Write2  == Ask("a2", "write_file", "file", "v2", FALSE, FALSE)
Nested  == Ask("a3", "write_file", "dir/file", "v1", FALSE, FALSE)
Mkdir   == Ask("a4", "make_directory", "dir/sub", "v1", TRUE, FALSE)
MkOne   == Ask("a0", "make_directory", "dir", "v1", FALSE, FALSE)
Shell   == Ask("a5", "execute_shell", "root", "v1", TRUE, TRUE)
Http    == Ask("a6", "http_get", "outside", "v1", FALSE, TRUE)
Outside == Ask("a7", "write_file", "outside", "v1", FALSE, FALSE)

\* JouJou's adapter keeps its own files under the tool name "todo.create".
Todo    == [Ask("a9", "write_file", "file", "v2", TRUE, FALSE) EXCEPT !.tool = "todo.create"]

\* The tool an envelope names need not be the method called.
Reader  == [Ask("a8", "execute_shell", "root", "v1", FALSE, TRUE) EXCEPT !.tool = "filesystem.read"]

EveryTool == {Write1, Write2, Nested, Mkdir, MkOne, Shell, Http, Outside, Todo, Reader}

NoRules == {}
SomeRules == {[t \in Tool |-> IF t = "todo.create" THEN "deny" ELSE "allow"],
              [t \in Tool |-> IF t = "filesystem.mkdir" THEN "require_approval" ELSE "allow"]}
ShellToo == DefaultAllowedTools \cup {"shell.execute"}
=============================================================================
