--------------------------- MODULE ServiceRuntime ---------------------------
(***************************************************************************)
(* ServiceRuntime.execute (service_runtime.py) with its two execution       *)
(* backends (execution_backend.py) and the JSONL audit sink.  The Rust      *)
(* backend runs the chokepoint binary in a child process per call, which    *)
(* the client waits for at most five seconds and kills on a timeout; a      *)
(* child whose parent has died runs on.                                     *)
(*                                                                         *)
(* Calls are threads of one process.  The event is emitted after the        *)
(* effect, and an emit that fails raises to the caller.                     *)
(***************************************************************************)
EXTENDS ExecutionPolicy, Jsonl

CONSTANTS
    Call,        \* the invocations of execute()
    RequestId,   \* request ids, given by the caller or drawn by uuid4
    Request,     \* what callers may ask for
    NoRequest,   \* a call not made yet
    FreshIds,    \* no request id is used twice
    Backends     \* the backends of the runtimes that share the audit file

RequestType == [request_id : RequestId, tool : Tool]

ASSUME RuntimeAssumption ==
    /\ Request \subseteq RequestType /\ NoRequest \notin RequestType
    /\ FreshIds \in BOOLEAN
    /\ Backends \subseteq {"python", "rust_chokepoint"}

\* CHOKEPOINT_OPERATION_MAP: the tools the Rust backend knows.
CHOKEPOINT_OPERATION_MAP == {"filesystem.write", "filesystem.read"}

VARIABLES
    pc,      \* where each call stands
    req,     \* what each call was asked to do
    answer,  \* what the backend or the boundary decided, until it is returned
    child,   \* the chokepoint process of each call
    effect,  \* history: what each call did to its target file
    audit    \* the audit file

runtime == <<pc, req, answer, child, effect, audit>>

PC == {"idle", "backend", "waiting", "emit", "answered", "raised", "crashed"}

ChildState == {"absent", "running", "truncated", "ok", "refused", "dead"}

Effect == {"none", "truncated", "written"}

Answer == [type : {"allow", "deny", "error", "none"}, backend : {"not_invoked"} \cup Backends]

\* `of` stands for the timestamp and whatever else tells two events apart.
AuditEvent == [of : Call, request_id : RequestId, tool_name : Tool,
               event_type : {"allow", "deny", "error"}, backend : {"not_invoked"} \cup Backends]

Init ==
    /\ pc = [c \in Call |-> "idle"]
    /\ req = [c \in Call |-> NoRequest]
    /\ answer = [c \in Call |-> [type |-> "none", backend |-> "not_invoked"]]
    /\ child = [c \in Call |-> "absent"]
    /\ effect = [c \in Call |-> "none"]
    /\ audit = EmptyFile

Goto(c, where) == pc' = [pc EXCEPT ![c] = where]

BecomeChild(c, state) == child' = [child EXCEPT ![c] = state]

Affect(c, what) == effect' = [effect EXCEPT ![c] = what]

\* What execute() goes on to emit.  A refusal by the backend carries an error
\* text, so its event is "error"; only the boundary's refusal is "deny".
Decide(c, type, backend) ==
    Goto(c, "emit") /\ answer' = [answer EXCEPT ![c] = [type |-> type, backend |-> backend]]

-----------------------------------------------------------------------------
(* ServiceRuntime.execute                                                   *)

Submit(c) ==
    /\ pc[c] = "idle"
    /\ \E r \in Request :
        /\ FreshIds => \A d \in Call :
              req[d] # NoRequest => req[d].request_id # r.request_id
        /\ req' = [req EXCEPT ![c] = r]
        /\ IF evaluate_tool(r.tool)
           THEN Goto(c, "backend") /\ UNCHANGED answer
           ELSE Decide(c, "deny", "not_invoked")
    /\ UNCHANGED <<child, effect, audit>>

\* PythonExecutionBackend reports "executed" and performs nothing.
PythonAnswers(c) ==
    /\ pc[c] = "backend" /\ "python" \in Backends
    /\ Decide(c, "allow", "python")
    /\ UNCHANGED <<req, child, effect, audit>>

\* No operation for the tool, or no binary: an error without a process.
RustRefuses(c) ==
    /\ pc[c] = "backend" /\ "rust_chokepoint" \in Backends
    /\ Decide(c, "error", "rust_chokepoint")
    /\ UNCHANGED <<req, child, effect, audit>>

\* subprocess.run starts the binary and hands it the request.
StartChild(c) ==
    /\ pc[c] = "backend" /\ "rust_chokepoint" \in Backends
    /\ req[c].tool \in CHOKEPOINT_OPERATION_MAP
    /\ Goto(c, "waiting") /\ BecomeChild(c, "running")
    /\ UNCHANGED <<req, answer, effect, audit>>

\* An OSError other than FileNotFoundError, which nothing up the stack catches.
BackendRaises(c) ==
    /\ pc[c] = "backend" /\ "rust_chokepoint" \in Backends
    /\ req[c].tool \in CHOKEPOINT_OPERATION_MAP
    /\ Goto(c, "raised")
    /\ UNCHANGED <<req, answer, child, effect, audit>>

\* The answer is parsed; `denied` and `error` results both carry an error text.
CollectAnswer(c) ==
    /\ pc[c] = "waiting" /\ child[c] \in {"ok", "refused"}
    /\ Decide(c, IF child[c] = "ok" THEN "allow" ELSE "error", "rust_chokepoint")
    /\ UNCHANGED <<req, child, effect, audit>>

\* A nonzero exit status.
CollectFailure(c) ==
    /\ pc[c] = "waiting" /\ child[c] = "dead"
    /\ Decide(c, "error", "rust_chokepoint")
    /\ UNCHANGED <<req, child, effect, audit>>

\* Mutant: the client is called with timeout=None.
NeverTimesOut(c) == FALSE /\ UNCHANGED runtime

\* Mutant: the child is left running when the wait is given up.
AbandonChild(c) ==
    /\ pc[c] = "waiting"
    /\ Decide(c, "error", "rust_chokepoint")
    /\ UNCHANGED <<req, child, effect, audit>>

\* subprocess.run kills the child on a timeout, whatever it has done by then.
Timeout(c) ==
    /\ pc[c] = "waiting"
    /\ BecomeChild(c, "dead")
    /\ Decide(c, "error", "rust_chokepoint")
    /\ UNCHANGED <<req, effect, audit>>

audit_event(c) ==
    [of |-> c, request_id |-> req[c].request_id, tool_name |-> req[c].tool,
     event_type |-> answer[c].type, backend |-> answer[c].backend]

Emit(c) ==
    /\ pc[c] = "emit"
    /\ audit' = AppendLine(audit, audit_event(c))
    /\ Goto(c, "answered")
    /\ UNCHANGED <<req, answer, child, effect>>

\* AuditWriteError escapes execute(): the caller gets no result.
EmitFails(c) ==
    /\ pc[c] = "emit"
    /\ audit' \in PartialAppends(audit, audit_event(c))
    /\ Goto(c, "raised")
    /\ UNCHANGED <<req, answer, child, effect>>

Active(c) == pc[c] \in {"backend", "waiting", "emit"}

\* The process dies with every call in it; its children do not.
Crash ==
    /\ \E c \in Call : Active(c)
    /\ pc' = [c \in Call |-> IF Active(c) THEN "crashed" ELSE pc[c]]
    /\ UNCHANGED <<req, answer, child, effect, audit>>

-----------------------------------------------------------------------------
(* The chokepoint process (policy.rs)                                       *)

IsWrite(c) == req[c].tool = "filesystem.write"

\* resolve_target fails, or a file operation does before it changes anything.
ChildRefuses(c) ==
    /\ child[c] = "running"
    /\ BecomeChild(c, "refused")
    /\ UNCHANGED <<pc, req, answer, effect, audit>>

ChildReads(c) ==
    /\ child[c] = "running" /\ ~ IsWrite(c)
    /\ BecomeChild(c, "ok")
    /\ UNCHANGED <<pc, req, answer, effect, audit>>

\* std::fs::write opens with O_TRUNC and then writes.
ChildTruncates(c) ==
    /\ child[c] = "running" /\ IsWrite(c)
    /\ BecomeChild(c, "truncated") /\ Affect(c, "truncated")
    /\ UNCHANGED <<pc, req, answer, audit>>

ChildWrites(c) ==
    /\ child[c] = "truncated"
    /\ BecomeChild(c, "ok") /\ Affect(c, "written")
    /\ UNCHANGED <<pc, req, answer, audit>>

\* Mutant: the result of the write is not looked at.
ChildIgnoresError(c) ==
    /\ child[c] = "truncated"
    /\ BecomeChild(c, "ok")
    /\ UNCHANGED <<pc, req, answer, effect, audit>>

\* The error is answered; the file stays truncated.
ChildWriteFails(c) ==
    /\ child[c] = "truncated"
    /\ BecomeChild(c, "refused")
    /\ UNCHANGED <<pc, req, answer, effect, audit>>

\* Killed, or panicked on a closed pipe: the exit status is not 0, and the work may
\* be done all the same.
ChildDies(c) ==
    /\ child[c] \in {"running", "truncated", "ok"}
    /\ BecomeChild(c, "dead")
    /\ UNCHANGED <<pc, req, answer, effect, audit>>

-----------------------------------------------------------------------------

\* What the calling thread does by itself once it has been entered.
Proceed(c) ==
    \/ PythonAnswers(c) \/ RustRefuses(c) \/ StartChild(c) \/ BackendRaises(c)
    \/ CollectAnswer(c) \/ CollectFailure(c) \/ Timeout(c)
    \/ Emit(c) \/ EmitFails(c)

ChildStep(c) ==
    \/ ChildRefuses(c) \/ ChildReads(c) \/ ChildTruncates(c)
    \/ ChildWrites(c) \/ ChildWriteFails(c) \/ ChildDies(c)

AllEnded == (\A c \in Call : pc[c] # "idle" /\ ~ Active(c)) /\ UNCHANGED runtime

Next ==
    \/ \E c \in Call : Submit(c) \/ Proceed(c) \/ ChildStep(c)
    \/ Crash \/ AllEnded

Spec == Init /\ [][Next]_runtime

-----------------------------------------------------------------------------
(* Properties                                                               *)

\* Every variable has its type: calls, children and the audit file are as the
\* code's records and lines are.
RuntimeTypeOK ==
    /\ pc \in [Call -> PC]
    /\ req \in [Call -> RequestType \cup {NoRequest}]
    /\ answer \in [Call -> Answer]
    /\ child \in [Call -> ChildState]
    /\ effect \in [Call -> Effect]
    /\ audit \in FileType(AuditEvent)

\* Reading the audit file either raises or returns the event of every call that
\* was answered (read_events, audit_store.py): no answered call is silently
\* missing, whatever writes failed before and after its own.
ReadIsComplete ==
    Readable(audit) =>
        \A c \in Call : pc[c] = "answered" => \E e \in Records(audit) : e.of = c

\* An allow event of a write by the Rust backend says the file was written, even when
\* other calls crash, time out or write half a file (policy.rs:54-60,
\* service_runtime.py:147).  The Python backend writes nothing and says "allow".
AllowMeansWritten ==
    \A e \in Records(audit) :
        /\ e.event_type = "allow" /\ e.tool_name = "filesystem.write"
        /\ e.backend = "rust_chokepoint"
        => effect[e.of] = "written"

\* Once execute() has returned or raised, its effect is settled: nothing of the
\* call runs on behind the caller's back (the kill in subprocess.run).
NoLateEffects ==
    [][\A c \in Call : pc[c] \in {"answered", "raised"} => effect'[c] = effect[c]]_runtime

\* Every call ends, though the chokepoint process may hang (the client's timeout).
ExecuteEnds ==
    \A c \in Call : Active(c) ~> pc[c] \in {"answered", "raised", "crashed"}

=============================================================================
