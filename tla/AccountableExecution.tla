------------------------ MODULE AccountableExecution ------------------------
(***************************************************************************)
(* What the chokepoint promises of every managed side effect (ADR-002,      *)
(* INV-1 and INV-1b), without the store, the chain, the files or the steps: *)
(* a call first promises, then performs, then the record is closed, and the *)
(* answer never claims more than effect and record together.                *)
(***************************************************************************)
CONSTANT Call

VARIABLES
    promised,   \* calls whose intent is durably recorded
    performed,  \* calls whose side effect took place
    record,     \* how each call's record stands
    answer      \* what each caller was told

vars == <<promised, performed, record, answer>>

Answer == {"none", "SUCCESS", "FAILURE", "REJECTED", "UNCONFIRMED", "Raised"}

Init == /\ promised = {} /\ performed = {}
        /\ record = [c \in Call |-> "open"]
        /\ answer = [c \in Call |-> "none"]

Tell(c, a) == answer[c] = "none" /\ answer' = [answer EXCEPT ![c] = a]

\* A call in progress: intent recorded, nothing else settled.
Running(c) == c \in promised /\ record[c] = "open" /\ answer[c] = "none"

\* Refused or raised before anything was recorded or done.
Refuse(c) == /\ c \notin promised \cup performed
             /\ Tell(c, "REJECTED") \/ Tell(c, "Raised")
             /\ UNCHANGED <<promised, performed, record>>

Promise(c) == /\ answer[c] = "none" /\ c \notin promised \cup performed
              /\ promised' = promised \cup {c}
              /\ UNCHANGED <<performed, record, answer>>

Perform(c) == /\ Running(c)
              /\ performed' = performed \cup {c}
              /\ UNCHANGED <<promised, record, answer>>

\* The commit record and SUCCESS come together, and only after the effect.
Confirm(c) == /\ Running(c) /\ c \in performed
              /\ record' = [record EXCEPT ![c] = "committed"]
              /\ Tell(c, "SUCCESS")
              /\ UNCHANGED <<promised, performed>>

Fail(c) == /\ Running(c)
           /\ record' = [record EXCEPT ![c] = "failed"]
           /\ Tell(c, "FAILURE")
           /\ UNCHANGED <<promised, performed>>

\* The closing event was lost: the record stays open.
LeaveOpen(c) == /\ Running(c)
                /\ \/ c \in performed /\ Tell(c, "UNCONFIRMED")
                   \/ Tell(c, "FAILURE")
                /\ UNCHANGED <<promised, performed, record>>

\* An exception leaves the call in the middle, the effect done or not.
Abort(c) == /\ Running(c)
            /\ performed' \in {performed, performed \cup {c}}
            /\ Tell(c, "Raised")
            /\ UNCHANGED <<promised, record>>

Next == \E c \in Call : \/ Refuse(c) \/ Promise(c) \/ Perform(c) \/ Confirm(c)
                        \/ Fail(c) \/ LeaveOpen(c) \/ Abort(c)

Spec == Init /\ [][Next]_vars
=============================================================================
