--------------------------- MODULE MCSqliteStore ---------------------------
(***************************************************************************)
(* Two threads, in one process or in two, that append up to MaxAppends rows *)
(* each, to either table.                                                   *)
(***************************************************************************)
EXTENDS SqliteStore, TLC

MCPlacements == [Thread -> Process]

StoreSymmetry == Permutations(Thread) \cup Permutations(Process)
=============================================================================
