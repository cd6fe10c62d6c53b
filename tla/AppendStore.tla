---------------------------- MODULE AppendStore ----------------------------
(***************************************************************************)
(* What the ExecutionStore and DecisionStore protocols promise of append()  *)
(* and record(), and what ToolProxy takes for granted: the call adds its    *)
(* row at the end, or raises and adds nothing; rows are never taken back.   *)
(***************************************************************************)
EXTENDS Sequences

CONSTANT Op          \* the append calls of a history

VARIABLES log,       \* the rows, each named by the call that added it
          answer     \* what each call was told

vars == <<log, answer>>

Init == log = <<>> /\ answer = [op \in Op |-> "none"]

Tell(op, what) == answer[op] = "none" /\ answer' = [answer EXCEPT ![op] = what]

Store(op) == Tell(op, "stored") /\ log' = Append(log, op)

Raise(op) == Tell(op, "raised") /\ UNCHANGED log

Next == \E op \in Op : Store(op) \/ Raise(op)

Spec == Init /\ [][Next]_vars
=============================================================================
