-------------------------- MODULE MCServiceRuntime --------------------------
(***************************************************************************)
(* Small instances of ServiceRuntime: a write, a read, a tool the Rust      *)
(* backend does not know, and one the boundary denies.                      *)
(***************************************************************************)
EXTENDS ServiceRuntime, TLC

MCRequest == {[request_id |-> "r1", tool |-> "filesystem.write"],
              [request_id |-> "r2", tool |-> "filesystem.read"],
              [request_id |-> "r3", tool |-> "todo.create"],
              [request_id |-> "r4", tool |-> "shell.execute"]}

CallSymmetry == Permutations(Call)

=============================================================================
