---------------------------- MODULE MCScheduler ----------------------------
(***************************************************************************)
(* Small instances of Dashboard over a scheduler: a write and a read *)
(* under two request ids, which calls may share.                            *)
(***************************************************************************)
EXTENDS Dashboard

MCRequest == {[request_id |-> "r1", tool |-> "filesystem.write"],
              [request_id |-> "r2", tool |-> "filesystem.read"]}

=============================================================================
