------------------------ MODULE ServiceRuntimeProofs ------------------------
(***************************************************************************)
(* Theorems about ServiceRuntime and its audit file, for every set of calls *)
(* and requests, fresh request ids or not, and either or both backends.     *)
(***************************************************************************)
EXTENDS ServiceRuntime, TLAPS

-----------------------------------------------------------------------------
(* Lemmas on JSON Lines files                                               *)

LineType(Record) == {<<>>} \cup {<<r>> : r \in Record}

\* What one append may leave, whether it returns or raises.
Appended(file, record) == {AppendLine(file, record)} \cup PartialAppends(file, record)

\* The lines of a file before and after an append: the finished ones are the same, and
\* what was the unfinished one, or the end, holds the record or is broken.
LEMMA AppendedLines ==
    ASSUME NEW Record, NEW f \in FileType(Record), NEW r \in Record,
           NEW g \in Appended(f, r), g # f
    PROVE  /\ g \in FileType(Record)
           /\ \E l \in LineType(Record) :
                  /\ Lines(g) = Append(f.lines, l)
                  /\ \/ f.open = <<>> /\ l \in {Broken, Whole(r)}
                     \/ f.open # <<>> /\ l = Broken
                  /\ g = AppendLine(f, r) => l = Joined(f, Whole(r))
<1> DEFINE Line == LineType(Record)
<1>1. /\ f = [lines |-> f.lines, open |-> f.open]
      /\ f.lines \in Seq(Line) /\ f.open \in {<<>>} \cup {<<l>> : l \in Line}
    BY DEF FileType, LineType
<1>2. Broken \in Line /\ Whole(r) \in Line
    BY DEF LineType, Broken, Whole
<1>3. \A l : Joined(f, l) \in {l, Broken}
    BY DEF Joined
<1>4. CASE g = AppendLine(f, r)
    <2>1. PICK l \in Line : l = Joined(f, Whole(r))
        BY <1>2, <1>3
    <2>2. g = [lines |-> Append(f.lines, l), open |-> <<>>]
        BY <1>4, <2>1 DEF AppendLine
    <2>3. g \in FileType(Record)
        BY <1>1, <2>1, <2>2 DEF FileType, LineType
    <2>4. Lines(g) = Append(f.lines, l)
        BY <1>1, <2>1, <2>2 DEF Lines
    <2>5. QED
        BY <2>1, <2>3, <2>4 DEF Joined
<1>5. ASSUME NEW k \in {Broken, Whole(r)}, g = [f EXCEPT !.open = <<Joined(f, k)>>],
             g # AppendLine(f, r)
      PROVE  /\ g \in FileType(Record)
             /\ \E l \in Line :
                    /\ Lines(g) = Append(f.lines, l)
                    /\ \/ f.open = <<>> /\ l \in {Broken, Whole(r)}
                       \/ f.open # <<>> /\ l = Broken
                    /\ g = AppendLine(f, r) => l = Joined(f, Whole(r))
    <2>1. PICK l \in Line : l = Joined(f, k)
        BY <1>2, <1>3
    <2>2. g = [lines |-> f.lines, open |-> <<l>>]
        BY <1>1, <1>5, <2>1
    <2>3. g \in FileType(Record)
        BY <1>1, <2>1, <2>2 DEF FileType, LineType
    <2>4. Lines(g) = f.lines \o <<l>>
        BY <2>2 DEF Lines
    <2>5. Lines(g) = Append(f.lines, l)
        BY <1>1, <2>1, <2>4
    <2>6. \/ f.open = <<>> /\ l \in {Broken, Whole(r)}
          \/ f.open # <<>> /\ l = Broken
        BY <2>1 DEF Joined
    <2>7. QED
        BY <1>5, <2>1, <2>3, <2>5, <2>6
<1>6. QED
    BY <1>4, <1>5 DEF Appended, PartialAppends, LineType

\* A file's lines are its finished ones and perhaps one more.
LEMMA LinesOf ==
    ASSUME NEW Record, NEW f \in FileType(Record)
    PROVE  /\ f.lines \in Seq(LineType(Record)) /\ Len(f.lines) \in Nat
           /\ f.open = <<>> => Lines(f) = f.lines
           /\ f.open # <<>> => \E l \in LineType(Record) : Lines(f) = Append(f.lines, l)
<1>1. f.lines \in Seq(LineType(Record)) /\ f.open \in {<<>>} \cup {<<l>> : l \in LineType(Record)}
    BY DEF FileType, LineType
<1>2. CASE f.open = <<>>
    BY <1>1, <1>2 DEF Lines
<1>3. CASE f.open # <<>>
    <2>1. PICK l \in LineType(Record) : f.open = <<l>>
        BY <1>1, <1>3
    <2>2. Lines(f) = Append(f.lines, l)
        BY <1>1, <2>1 DEF Lines
    <2>3. QED BY <1>1, <2>1, <2>2
<1>4. QED BY <1>2, <1>3

\* A line of a file after an append that holds a record held it before, or holds the
\* new one at the end.
LEMMA EntriesAfter ==
    ASSUME NEW Record, NEW f \in FileType(Record), NEW r \in Record,
           NEW g \in Appended(f, r), NEW i \in Entries(g)
    PROVE  \/ i \in Entries(f) /\ Lines(g)[i] = Lines(f)[i]
           \/ /\ i \notin DOMAIN Lines(f) /\ Lines(g)[i] = Whole(r)
              /\ \A j \in Entries(g) : j # i => j \in Entries(f) /\ Lines(g)[j] = Lines(f)[j]
<1>1. CASE g = f
    BY <1>1
<1>2. CASE g # f
    <2>1. PICK l \in LineType(Record) :
              /\ Lines(g) = Append(f.lines, l)
              /\ \/ f.open = <<>> /\ l \in {Broken, Whole(r)}
                 \/ f.open # <<>> /\ l = Broken
        BY <1>2, AppendedLines
    <2>2. f.lines \in Seq(LineType(Record)) /\ Len(f.lines) \in Nat
        BY LinesOf
    <2>3. /\ DOMAIN f.lines = 1..Len(f.lines) /\ DOMAIN Lines(g) = 1..(Len(f.lines) + 1)
          /\ \A j \in 1..Len(f.lines) : Lines(g)[j] = f.lines[j]
          /\ Lines(g)[Len(f.lines) + 1] = l
        BY <2>1, <2>2
    <2>4. \A j \in 1..Len(f.lines) : j \in DOMAIN Lines(f) /\ Lines(f)[j] = f.lines[j]
        <3>1. CASE f.open = <<>>
            BY <2>2, <2>3, <3>1, LinesOf
        <3>2. CASE f.open # <<>>
            <4>1. PICK k \in LineType(Record) : Lines(f) = Append(f.lines, k)
                BY <3>2, LinesOf
            <4>2. QED BY <2>2, <4>1
        <3>3. QED BY <3>1, <3>2
    <2>5. \A j \in Entries(g) : j \in 1..Len(f.lines) =>
              j \in Entries(f) /\ Lines(g)[j] = Lines(f)[j]
        BY <2>3, <2>4 DEF Entries
    <2>6. \A j \in Entries(g) : j \in 1..Len(f.lines) \/ j = Len(f.lines) + 1
        BY <2>2, <2>3 DEF Entries
    <2>7. CASE i = Len(f.lines) + 1
        <3>1. l = Whole(r) /\ f.open = <<>>
            BY <2>1, <2>3, <2>7 DEF Entries, Parsed
        <3>2. Lines(f) = f.lines
            BY <3>1, LinesOf
        <3>3. i \notin DOMAIN Lines(f)
            BY <2>2, <2>3, <2>7, <3>2
        <3>4. QED BY <2>3, <2>5, <2>6, <2>7, <3>1, <3>3
    <2>8. QED BY <2>5, <2>6, <2>7
<1>3. QED BY <1>1, <1>2

LEMMA RecordsAfter ==
    ASSUME NEW Record, NEW f \in FileType(Record), NEW r \in Record, NEW g \in Appended(f, r)
    PROVE  g \in FileType(Record) /\ Records(g) \subseteq Records(f) \cup {r}
<1>1. g \in FileType(Record)
    BY AppendedLines
<1>2. ASSUME NEW i \in Entries(g) PROVE Lines(g)[i][1] \in Records(f) \cup {r}
    <2>1. CASE i \in Entries(f) /\ Lines(g)[i] = Lines(f)[i]
        BY <2>1 DEF Records
    <2>2. CASE Lines(g)[i] = Whole(r)
        BY <2>2 DEF Whole
    <2>3. QED BY <2>1, <2>2, EntriesAfter
<1>3. QED BY <1>1, <1>2 DEF Records

\* Once a write has failed half way no later append makes the file readable again, and
\* a file that is readable has lost nothing.
LEMMA ReadableAfter ==
    ASSUME NEW Record, NEW f \in FileType(Record), NEW r \in Record, NEW g \in Appended(f, r),
           Readable(g)
    PROVE  /\ Readable(f) /\ Records(f) \subseteq Records(g)
           /\ g = AppendLine(f, r) => r \in Records(g)
<1>0. AppendLine(f, r) # f
    <2>1. AppendLine(f, r).lines = Append(f.lines, Joined(f, Whole(r)))
        BY DEF AppendLine
    <2>2. f.lines \in Seq(LineType(Record)) /\ Len(f.lines) \in Nat
        BY LinesOf
    <2>3. Joined(f, Whole(r)) \in LineType(Record)
        BY DEF Joined, LineType, Whole, Broken
    <2>4. Len(Append(f.lines, Joined(f, Whole(r)))) = Len(f.lines) + 1
        BY <2>2, <2>3
    <2>5. QED BY <2>1, <2>2, <2>4
<1>1. CASE g = f
    BY <1>0, <1>1
<1>2. CASE g # f
    <2>1. PICK l \in LineType(Record) :
              /\ Lines(g) = Append(f.lines, l)
              /\ \/ f.open = <<>> /\ l \in {Broken, Whole(r)}
                 \/ f.open # <<>> /\ l = Broken
        BY <1>2, AppendedLines
    <2>2. f.lines \in Seq(LineType(Record)) /\ Len(f.lines) \in Nat
        BY LinesOf
    <2>3. /\ DOMAIN f.lines = 1..Len(f.lines) /\ DOMAIN Lines(g) = 1..(Len(f.lines) + 1)
          /\ \A j \in 1..Len(f.lines) : Lines(g)[j] = f.lines[j]
          /\ Lines(g)[Len(f.lines) + 1] = l /\ Len(f.lines) + 1 \in 1..(Len(f.lines) + 1)
        BY <2>1, <2>2
    <2>4. l # Broken
        BY <2>3 DEF Readable, Parsed
    <2>5. l = Whole(r) /\ Lines(f) = f.lines
        BY <2>1, <2>4, LinesOf
    <2>6. \A j \in DOMAIN Lines(f) : j \in DOMAIN Lines(g) /\ Lines(g)[j] = Lines(f)[j]
        BY <2>2, <2>3, <2>5
    <2>7. Readable(f) /\ Records(f) \subseteq Records(g)
        BY <2>6 DEF Readable, Records, Entries
    <2>8. r \in Records(g)
        <3>1. Len(f.lines) + 1 \in Entries(g) /\ Lines(g)[Len(f.lines) + 1][1] = r
            BY <2>3, <2>4, <2>5 DEF Entries, Parsed, Whole
        <3>2. QED BY <3>1 DEF Records
    <2>9. QED BY <2>7, <2>8
<1>3. QED BY <1>1, <1>2

LEMMA RecordsTyped ==
    ASSUME NEW Record, NEW f \in FileType(Record)
    PROVE  Records(f) \subseteq Record
<1>1. ASSUME NEW i \in Entries(f) PROVE Lines(f)[i][1] \in Record
    <2>1. i \in DOMAIN Lines(f) /\ Lines(f)[i] # <<>>
        BY DEF Entries, Parsed, Broken
    <2>2. Lines(f) \in Seq(LineType(Record))
        <3>1. CASE f.open = <<>>
            BY <3>1, LinesOf
        <3>2. CASE f.open # <<>>
            BY <3>2, LinesOf
        <3>3. QED BY <3>1, <3>2
    <2>3. Lines(f)[i] \in LineType(Record)
        BY <2>1, <2>2
    <2>4. QED BY <2>1, <2>3 DEF LineType
<1>2. QED BY <1>1 DEF Records

-----------------------------------------------------------------------------
(* Types                                                                    *)

LEMMA InitRuntimeTypes == Init => RuntimeTypeOK
<1> SUFFICES ASSUME Init PROVE RuntimeTypeOK
    OBVIOUS
<1>1. audit \in FileType(AuditEvent)
    BY DEF Init, EmptyFile, FileType
<1>2. QED
    BY <1>1 DEF Init, RuntimeTypeOK, PC, Answer, ChildState, Effect

LEMMA DecideTypes ==
    ASSUME RuntimeTypeOK, NEW c \in Call, NEW type \in {"allow", "deny", "error"},
           NEW backend \in {"not_invoked"} \cup Backends, Decide(c, type, backend)
    PROVE  pc' \in [Call -> PC] /\ answer' \in [Call -> Answer]
BY DEF Decide, Goto, RuntimeTypeOK, PC, Answer

\* Only an accepted or refused call is emitted, so an event has its type.
LEMMA EventTypes ==
    ASSUME RuntimeTypeOK, NEW c \in Call, req[c] \in RequestType,
           answer[c].type \in {"allow", "deny", "error"}
    PROVE  audit_event(c) \in AuditEvent
<1>1. req[c].request_id \in RequestId /\ req[c].tool \in Tool
    BY DEF RequestType
<1>2. answer[c].backend \in {"not_invoked"} \cup Backends
    BY DEF RuntimeTypeOK, Answer
<1>3. QED
    BY <1>1, <1>2 DEF audit_event, AuditEvent

\* A call that was made has a request; only the Rust backend is waited for; a call that
\* emits has an answer.
Made(c) == /\ pc[c] = "idle" <=> req[c] = NoRequest
           /\ pc[c] = "waiting" => "rust_chokepoint" \in Backends
           /\ pc[c] \in {"emit", "answered"} => answer[c].type \in {"allow", "deny", "error"}

RuntimeInv == RuntimeTypeOK /\ \A c \in Call : Made(c)

LEMMA MadeEvent ==
    ASSUME RuntimeInv, NEW c \in Call, pc[c] = "emit"
    PROVE  audit_event(c) \in AuditEvent
<1>1. req[c] \in RequestType /\ answer[c].type \in {"allow", "deny", "error"}
    BY DEF RuntimeInv, Made, RuntimeTypeOK
<1>2. QED BY <1>1, EventTypes DEF RuntimeInv

LEMMA RuntimeStep ==
    ASSUME RuntimeInv, [Next]_runtime
    PROVE  RuntimeInv'
<1>0. RuntimeTypeOK /\ (\A c \in Call : Made(c)) /\ NoRequest \notin RequestType
      /\ Request \subseteq RequestType
    BY RuntimeAssumption DEF RuntimeInv
<1>1. CASE UNCHANGED runtime
    BY <1>0, <1>1 DEF runtime, RuntimeInv, RuntimeTypeOK, Made
<1>2. ASSUME NEW c \in Call, Submit(c) PROVE RuntimeInv'
    <2>1. PICK r \in Request :
              /\ pc[c] = "idle" /\ req' = [req EXCEPT ![c] = r]
              /\ \/ Goto(c, "backend") /\ UNCHANGED answer
                 \/ Decide(c, "deny", "not_invoked")
        BY <1>2 DEF Submit
    <2>2. r # NoRequest /\ r \in RequestType
        BY <1>0
    <2>3. CASE Goto(c, "backend") /\ UNCHANGED answer
        BY <1>0, <1>2, <2>1, <2>2, <2>3 DEF Submit, Goto, RuntimeInv, RuntimeTypeOK, Made, PC
    <2>4. CASE Decide(c, "deny", "not_invoked")
        BY <1>0, <1>2, <2>1, <2>2, <2>4, DecideTypes
           DEF Submit, Decide, Goto, RuntimeInv, RuntimeTypeOK, Made
    <2>5. QED BY <2>1, <2>3, <2>4
<1>3. ASSUME NEW c \in Call, NEW type \in {"allow", "deny", "error"}, NEW b \in Backends,
             Decide(c, type, b), pc[c] # "idle", UNCHANGED <<req, effect, audit>>,
             child' \in [Call -> ChildState]
      PROVE  RuntimeInv'
    <2>1. pc' \in [Call -> PC] /\ answer' \in [Call -> Answer]
        BY <1>0, <1>3, DecideTypes
    <2>2. RuntimeTypeOK'
        BY <1>0, <1>3, <2>1 DEF RuntimeTypeOK
    <2>3. ASSUME NEW d \in Call PROVE Made(d)'
        <3>1. CASE d = c
            BY <1>0, <1>3, <3>1 DEF Decide, Goto, Made, RuntimeTypeOK
        <3>2. CASE d # c
            BY <1>0, <1>3, <3>2 DEF Decide, Goto, Made, RuntimeTypeOK
        <3>3. QED BY <3>1, <3>2
    <2>4. QED BY <2>2, <2>3 DEF RuntimeInv
<1>4. ASSUME NEW c \in Call, \/ PythonAnswers(c) \/ RustRefuses(c) \/ CollectAnswer(c)
                              \/ CollectFailure(c) \/ Timeout(c)
      PROVE  RuntimeInv'
    <2>1. child' \in [Call -> ChildState] /\ pc[c] # "idle" /\ UNCHANGED <<req, effect, audit>>
        BY <1>0, <1>4 DEF PythonAnswers, RustRefuses, CollectAnswer, CollectFailure, Timeout,
           BecomeChild, RuntimeTypeOK, ChildState
    <2>2. PICK type \in {"allow", "deny", "error"}, b \in Backends : Decide(c, type, b)
        BY <1>0, <1>4 DEF PythonAnswers, RustRefuses, CollectAnswer, CollectFailure, Timeout, Made
    <2>3. QED BY <1>3, <2>1, <2>2
<1>5. ASSUME NEW c \in Call, StartChild(c) \/ BackendRaises(c) PROVE RuntimeInv'
    <2>1. /\ pc[c] = "backend" /\ "rust_chokepoint" \in Backends /\ UNCHANGED <<req, answer, effect, audit>>
          /\ child' \in [Call -> ChildState]
          /\ pc' = [pc EXCEPT ![c] = "waiting"] \/ pc' = [pc EXCEPT ![c] = "raised"]
        BY <1>0, <1>5 DEF StartChild, BackendRaises, BecomeChild, Goto, RuntimeTypeOK, ChildState
    <2>2. QED
        BY <1>0, <2>1 DEF RuntimeInv, RuntimeTypeOK, Made, PC
<1>6. ASSUME NEW c \in Call, Emit(c) \/ EmitFails(c) PROVE RuntimeInv'
    <2>1. audit_event(c) \in AuditEvent
        BY <1>6, MadeEvent DEF Emit, EmitFails
    <2>2. audit' \in Appended(audit, audit_event(c))
        BY <1>6 DEF Emit, EmitFails, Appended
    <2>3. audit' \in FileType(AuditEvent)
        BY <1>0, <2>1, <2>2, RecordsAfter DEF RuntimeTypeOK
    <2>4. /\ pc[c] = "emit" /\ UNCHANGED <<req, answer, child, effect>>
          /\ pc' = [pc EXCEPT ![c] = "answered"] \/ pc' = [pc EXCEPT ![c] = "raised"]
        BY <1>6 DEF Emit, EmitFails, Goto
    <2>5. QED
        BY <1>0, <2>3, <2>4 DEF RuntimeInv, RuntimeTypeOK, Made, PC
<1>7. ASSUME Crash PROVE RuntimeInv'
    BY <1>0, <1>7 DEF Crash, Active, RuntimeInv, RuntimeTypeOK, Made, PC
<1>8. ASSUME NEW c \in Call, ChildStep(c) PROVE RuntimeInv'
    <2>1. /\ UNCHANGED <<pc, req, answer, audit>>
          /\ child' \in [Call -> ChildState] /\ effect' \in [Call -> Effect]
        BY <1>0, <1>8 DEF ChildStep, ChildRefuses, ChildReads, ChildTruncates, ChildWrites,
           ChildWriteFails, ChildDies, BecomeChild, Affect, RuntimeTypeOK, ChildState, Effect
    <2>2. QED
        BY <1>0, <2>1 DEF RuntimeInv, RuntimeTypeOK, Made
<1>9. ASSUME NEW c \in Call, Proceed(c) PROVE RuntimeInv'
    BY <1>4, <1>5, <1>6, <1>9 DEF Proceed
<1>10. QED
    BY <1>1, <1>2, <1>7, <1>8, <1>9 DEF Next, AllEnded

LEMMA RuntimeInvHolds == Spec => []RuntimeInv
<1>1. Init => RuntimeInv
    BY InitRuntimeTypes DEF Init, RuntimeInv, Made
<1>2. QED
    BY <1>1, RuntimeStep, PTL DEF Spec

\* Calls, backends, children and the audit file keep their types.
THEOREM RuntimeTypeCorrect == Spec => []RuntimeTypeOK
BY RuntimeInvHolds, PTL DEF RuntimeInv

-----------------------------------------------------------------------------
(* What a call does, and what it may say of it                              *)

\* A child exists only once it was started; a write it calls done is done; nothing but
\* a child that is still at work changes the file; and when the call has its answer the
\* child is not at work.  An allow of a write by the Rust backend says it was written.
WorkInv(c) ==
    /\ pc[c] \in {"idle", "backend"} => child[c] = "absent"
    /\ child[c] = "ok" /\ IsWrite(c) => effect[c] = "written"
    /\ effect[c] = "written" => child[c] \in {"ok", "dead"}
    /\ pc[c] \in {"emit", "answered", "raised"} => child[c] \notin {"running", "truncated"}
    /\ answer[c].type # "none" => pc[c] \in {"emit", "answered", "raised", "crashed"}
    /\ answer[c].type = "allow" /\ answer[c].backend = "rust_chokepoint" /\ IsWrite(c) =>
          effect[c] = "written"

\* What one call sees of a step.
StepOf(c) ==
    \/ UNCHANGED <<pc[c], req[c], answer[c], child[c], effect[c]>>
    \/ Submit(c) \/ Proceed(c) \/ ChildStep(c)
    \/ Crash

LEMMA OtherCalls ==
    ASSUME RuntimeInv, [Next]_runtime, NEW c \in Call
    PROVE  StepOf(c)
<1>0. RuntimeTypeOK
    BY DEF RuntimeInv
<1>1. ASSUME NEW d \in Call, d # c, Submit(d)
      PROVE  UNCHANGED <<pc[c], req[c], answer[c], child[c], effect[c]>>
    <2>1. PICK r \in Request :
              /\ req' = [req EXCEPT ![d] = r]
              /\ \/ Goto(d, "backend") /\ UNCHANGED answer
                 \/ Decide(d, "deny", "not_invoked")
        BY <1>1 DEF Submit
    <2>2. QED
        BY <1>0, <1>1, <2>1 DEF Submit, Goto, Decide, RuntimeTypeOK
<1>2. ASSUME NEW d \in Call, d # c, Proceed(d)
      PROVE  UNCHANGED <<pc[c], req[c], answer[c], child[c], effect[c]>>
    BY <1>0, <1>2 DEF Proceed, PythonAnswers, RustRefuses, StartChild, BackendRaises, CollectAnswer,
       CollectFailure, Timeout, Emit, EmitFails, Decide, Goto, BecomeChild, RuntimeTypeOK
<1>3. ASSUME NEW d \in Call, d # c, ChildStep(d)
      PROVE  UNCHANGED <<pc[c], req[c], answer[c], child[c], effect[c]>>
    BY <1>0, <1>3 DEF ChildStep, ChildRefuses, ChildReads, ChildTruncates, ChildWrites,
       ChildWriteFails, ChildDies, BecomeChild, Affect, RuntimeTypeOK
<1>4. CASE UNCHANGED runtime
    BY <1>4 DEF runtime, StepOf
<1>5. QED
    BY <1>1, <1>2, <1>3, <1>4 DEF Next, AllEnded, StepOf

LEMMA WorkStep ==
    ASSUME RuntimeInv, [Next]_runtime, NEW c \in Call, WorkInv(c)
    PROVE  WorkInv(c)'
<1>0. RuntimeTypeOK /\ Made(c)
    BY DEF RuntimeInv
<1>1. CASE UNCHANGED <<pc[c], req[c], answer[c], child[c], effect[c]>>
    BY <1>1 DEF WorkInv, IsWrite
<1>2. CASE Submit(c)
    <2>1. PICK r \in Request :
              /\ pc[c] = "idle" /\ req' = [req EXCEPT ![c] = r]
              /\ \/ Goto(c, "backend") /\ UNCHANGED answer
                 \/ Decide(c, "deny", "not_invoked")
              /\ UNCHANGED <<child, effect>>
        BY <1>2 DEF Submit
    <2>2. child'[c] = "absent" /\ effect'[c] # "written" /\ answer[c].type = "none"
        BY <2>1 DEF WorkInv
    <2>3. \/ pc'[c] = "backend" /\ answer'[c] = answer[c]
          \/ pc'[c] = "emit" /\ answer'[c].type = "deny"
        BY <1>0, <2>1 DEF Goto, Decide, RuntimeTypeOK
    <2>4. QED
        BY <2>2, <2>3 DEF WorkInv
<1>3. CASE PythonAnswers(c) \/ RustRefuses(c)
    <2>1. /\ pc[c] = "backend" /\ pc'[c] = "emit" /\ UNCHANGED <<req, child, effect>>
          /\ \/ answer'[c].type = "allow" /\ answer'[c].backend = "python"
             \/ answer'[c].type = "error"
        BY <1>0, <1>3 DEF PythonAnswers, RustRefuses, Decide, Goto, RuntimeTypeOK
    <2>2. QED
        BY <2>1 DEF WorkInv, IsWrite
<1>4. CASE StartChild(c)
    <2>1. /\ pc[c] = "backend" /\ pc'[c] = "waiting" /\ child'[c] = "running"
          /\ UNCHANGED <<req, answer, effect>>
        BY <1>0, <1>4 DEF StartChild, Goto, BecomeChild, RuntimeTypeOK
    <2>2. QED
        BY <2>1 DEF WorkInv, IsWrite
<1>5. CASE BackendRaises(c)
    <2>1. pc[c] = "backend" /\ pc'[c] = "raised" /\ UNCHANGED <<req, answer, child, effect>>
        BY <1>0, <1>5 DEF BackendRaises, Goto, RuntimeTypeOK
    <2>2. QED
        BY <2>1 DEF WorkInv, IsWrite
<1>6. CASE CollectAnswer(c)
    <2>1. /\ pc'[c] = "emit" /\ child[c] \in {"ok", "refused"} /\ UNCHANGED <<req, child, effect>>
          /\ child[c] # "ok" => answer'[c].type = "error"
          /\ answer'[c].type # "none"
        BY <1>0, <1>6 DEF CollectAnswer, Decide, Goto, RuntimeTypeOK
    <2>2. QED
        BY <2>1 DEF WorkInv, IsWrite
<1>7. CASE CollectFailure(c) \/ Timeout(c)
    <2>1. /\ pc'[c] = "emit" /\ child'[c] = "dead" /\ UNCHANGED <<req, effect>>
          /\ answer'[c].type = "error"
        BY <1>0, <1>7 DEF CollectFailure, Timeout, Decide, Goto, BecomeChild, RuntimeTypeOK
    <2>2. QED
        BY <2>1 DEF WorkInv, IsWrite
<1>8. CASE Emit(c) \/ EmitFails(c)
    <2>1. /\ pc[c] = "emit" /\ pc'[c] \in {"answered", "raised"}
          /\ UNCHANGED <<req, answer, child, effect>>
        BY <1>0, <1>8 DEF Emit, EmitFails, Goto, RuntimeTypeOK
    <2>2. QED
        BY <2>1 DEF WorkInv, IsWrite
<1>9. CASE ChildStep(c)
    <2>1. /\ child[c] \in {"running", "truncated", "ok"} /\ UNCHANGED <<pc, req, answer>>
          /\ \/ child'[c] \in {"refused", "dead"} /\ effect'[c] = effect[c]
                 /\ (child'[c] = "refused" => child[c] # "ok")
             \/ child[c] = "running" /\ ~ IsWrite(c) /\ child'[c] = "ok" /\ effect'[c] = effect[c]
             \/ child[c] = "running" /\ child'[c] = "truncated" /\ effect'[c] = "truncated"
             \/ child[c] = "truncated" /\ child'[c] = "ok" /\ effect'[c] = "written"
        BY <1>0, <1>9 DEF ChildStep, ChildRefuses, ChildReads, ChildTruncates, ChildWrites,
           ChildWriteFails, ChildDies, BecomeChild, Affect, RuntimeTypeOK
    <2>2. IsWrite(c)' <=> IsWrite(c)
        BY <2>1 DEF IsWrite
    <2>3. QED
        BY <2>1, <2>2 DEF WorkInv
<1>10. CASE Crash
    <2>1. /\ pc'[c] = pc[c] \/ (pc'[c] = "crashed" /\ Active(c))
          /\ UNCHANGED <<req, answer, child, effect>>
        BY <1>10 DEF Crash
    <2>2. QED
        BY <2>1 DEF WorkInv, IsWrite
<1>11. QED
    BY <1>1, <1>2, <1>3, <1>4, <1>5, <1>6, <1>7, <1>8, <1>9, <1>10, OtherCalls DEF StepOf, Proceed

LEMMA WorkHolds == Spec => [](\A c \in Call : WorkInv(c))
<1>1. Init => \A c \in Call : WorkInv(c)
    BY DEF Init, WorkInv
<1>2. RuntimeInv /\ (\A c \in Call : WorkInv(c)) /\ [Next]_runtime => (\A c \in Call : WorkInv(c))'
    BY WorkStep
<1>3. QED
    BY <1>1, <1>2, RuntimeInvHolds, PTL DEF Spec

\* Once execute() has returned or raised, nothing of the call runs on: no late write of
\* its child reaches the file.
THEOREM EffectsSettle == Spec => NoLateEffects
<1>1. ASSUME RuntimeInv, \A c \in Call : WorkInv(c), [Next]_runtime,
             NEW c \in Call, pc[c] \in {"answered", "raised"}
      PROVE  effect'[c] = effect[c]
    <2>1. child[c] \notin {"running", "truncated"}
        BY <1>1 DEF WorkInv
    <2>2. CASE ChildStep(c)
        BY <2>1, <2>2 DEF ChildStep, ChildRefuses, ChildReads, ChildTruncates, ChildWrites,
           ChildWriteFails, ChildDies
    <2>3. CASE Submit(c) \/ Proceed(c) \/ Crash
        BY <2>3 DEF Submit, Proceed, PythonAnswers, RustRefuses, StartChild, BackendRaises,
           CollectAnswer, CollectFailure, Timeout, Emit, EmitFails, Crash
    <2>4. QED
        BY <1>1, <2>2, <2>3, OtherCalls DEF StepOf
<1>2. RuntimeInv /\ (\A c \in Call : WorkInv(c)) /\ [Next]_runtime =>
          [\A c \in Call : pc[c] \in {"answered", "raised"} => effect'[c] = effect[c]]_runtime
    BY <1>1
<1>3. QED
    BY <1>2, RuntimeInvHolds, WorkHolds, PTL DEF Spec, NoLateEffects

-----------------------------------------------------------------------------
(* The audit file                                                           *)

\* A record in the file is the event of a call that has ended, as it would be made now.
AuditTells ==
    \A e \in Records(audit) :
        e.of \in Call /\ pc[e.of] \in {"answered", "raised"} /\ e = audit_event(e.of)

\* A call that has ended stays as it is.
LEMMA EndedStays ==
    ASSUME RuntimeInv, [Next]_runtime, NEW c \in Call, pc[c] \in {"answered", "raised"}
    PROVE  UNCHANGED <<pc[c], req[c], answer[c]>>
<1>1. CASE ChildStep(c)
    BY <1>1 DEF ChildStep, ChildRefuses, ChildReads, ChildTruncates, ChildWrites,
       ChildWriteFails, ChildDies
<1>2. CASE Crash
    BY <1>2 DEF Crash, Active
<1>3. CASE Submit(c) \/ Proceed(c)
    BY <1>3 DEF Submit, Proceed, PythonAnswers, RustRefuses, StartChild, BackendRaises,
       CollectAnswer, CollectFailure, Timeout, Emit, EmitFails
<1>4. QED
    BY <1>1, <1>2, <1>3, OtherCalls DEF StepOf

\* Only a call that emits writes to the file, and ends with it.
LEMMA FileSteps ==
    ASSUME [Next]_runtime, audit' # audit
    PROVE  \E c \in Call : /\ Emit(c) \/ EmitFails(c)
                           /\ audit' \in Appended(audit, audit_event(c))
<1>1. PICK c \in Call : Emit(c) \/ EmitFails(c)
    BY DEF runtime, Next, AllEnded, Crash, Submit, Proceed, PythonAnswers, RustRefuses,
       StartChild, BackendRaises, CollectAnswer, CollectFailure, Timeout, ChildStep,
       ChildRefuses, ChildReads, ChildTruncates, ChildWrites, ChildWriteFails, ChildDies
<1>2. QED
    BY <1>1 DEF Emit, EmitFails, Appended

LEMMA TellsStep ==
    ASSUME RuntimeInv, AuditTells, [Next]_runtime
    PROVE  AuditTells'
<1>0. RuntimeTypeOK
    BY DEF RuntimeInv
<1>1. ASSUME NEW e \in Records(audit)
      PROVE  e.of \in Call /\ pc'[e.of] \in {"answered", "raised"} /\ e = audit_event(e.of)'
    BY EndedStays DEF AuditTells, audit_event
<1>2. CASE audit' = audit
    BY <1>1, <1>2 DEF AuditTells
<1>3. CASE audit' # audit
    <2>1. PICK c \in Call : /\ Emit(c) \/ EmitFails(c)
                           /\ audit' \in Appended(audit, audit_event(c))
        BY <1>3, FileSteps
    <2>2. audit_event(c) \in AuditEvent
        BY <2>1, MadeEvent DEF Emit, EmitFails
    <2>3. Records(audit') \subseteq Records(audit) \cup {audit_event(c)}
        BY <1>0, <2>1, <2>2, RecordsAfter DEF RuntimeTypeOK
    <2>4. /\ pc'[c] \in {"answered", "raised"} /\ audit_event(c)' = audit_event(c)
          /\ audit_event(c).of = c
        BY <1>0, <2>1 DEF Emit, EmitFails, Goto, audit_event, RuntimeTypeOK
    <2>5. ASSUME NEW e, e = audit_event(c)
          PROVE  e.of \in Call /\ pc'[e.of] \in {"answered", "raised"} /\ e = audit_event(e.of)'
        BY <2>4, <2>5
    <2>6. QED
        BY <1>1, <2>3, <2>5 DEF AuditTells
<1>4. QED BY <1>2, <1>3

LEMMA TellsHolds == Spec => []AuditTells
<1>1. Init => AuditTells
    BY DEF Init, AuditTells, Records, Entries, Lines, EmptyFile
<1>2. RuntimeInv /\ AuditTells /\ [Next]_runtime => AuditTells'
    BY TellsStep
<1>3. QED
    BY <1>1, <1>2, RuntimeInvHolds, PTL DEF Spec

\* An allow event of a write by the Rust backend: the file was written, whatever other
\* calls, crashes, timeouts and half writes of the audit file there are.
THEOREM AllowsAreTrue == Spec => []AllowMeansWritten
<1>1. RuntimeInv /\ (\A c \in Call : WorkInv(c)) /\ AuditTells => AllowMeansWritten
    <2>1. SUFFICES ASSUME \A c \in Call : WorkInv(c), AuditTells, NEW e \in Records(audit),
                          e.event_type = "allow", e.tool_name = "filesystem.write",
                          e.backend = "rust_chokepoint"
                   PROVE  effect[e.of] = "written"
        BY DEF AllowMeansWritten
    <2>2. e.of \in Call /\ e = audit_event(e.of)
        BY <2>1 DEF AuditTells
    <2>3. /\ answer[e.of].type = "allow" /\ answer[e.of].backend = "rust_chokepoint"
          /\ IsWrite(e.of)
        BY <2>1, <2>2 DEF audit_event, IsWrite
    <2>4. QED
        BY <2>1, <2>2, <2>3 DEF WorkInv
<1>2. QED
    BY <1>1, RuntimeInvHolds, WorkHolds, TellsHolds, PTL

\* A file that can be read has the event of every call that was answered; a failed
\* append makes it unreadable rather than incomplete.
THEOREM ReadsAreComplete == Spec => []ReadIsComplete
<1>1. Init => ReadIsComplete
    BY DEF Init, ReadIsComplete
<1>2. ASSUME RuntimeInv, ReadIsComplete, [Next]_runtime
      PROVE  ReadIsComplete'
    <2>0. RuntimeTypeOK
        BY <1>2 DEF RuntimeInv
    <2>1. SUFFICES ASSUME Readable(audit'), NEW c \in Call, pc'[c] = "answered"
                   PROVE  \E e \in Records(audit') : e.of = c
        BY DEF ReadIsComplete
    <2>2. CASE Emit(c)
        <3>1. audit_event(c) \in AuditEvent /\ audit_event(c).of = c
            BY <1>2, <2>2, MadeEvent DEF Emit, audit_event
        <3>2. audit' = AppendLine(audit, audit_event(c)) /\ audit' \in Appended(audit, audit_event(c))
            BY <2>2 DEF Emit, Appended
        <3>3. audit_event(c) \in Records(audit')
            BY <2>0, <2>1, <3>1, <3>2, ReadableAfter DEF RuntimeTypeOK
        <3>4. QED BY <3>1, <3>3
    <2>3. CASE ~ Emit(c)
        <3>1. pc[c] = "answered"
            <4>1. CASE Proceed(c)
                BY <2>0, <2>1, <2>3, <4>1 DEF Proceed, PythonAnswers, RustRefuses, StartChild,
                   BackendRaises, CollectAnswer, CollectFailure, Timeout, EmitFails, Decide, Goto,
                   RuntimeTypeOK
            <4>2. CASE Submit(c)
                BY <2>0, <2>1, <4>2 DEF Submit, Decide, Goto, RuntimeTypeOK
            <4>3. CASE ChildStep(c) \/ Crash
                BY <2>1, <4>3 DEF Crash, ChildStep, ChildRefuses, ChildReads, ChildTruncates,
                   ChildWrites, ChildWriteFails, ChildDies
            <4>4. QED BY <1>2, <2>1, <4>1, <4>2, <4>3, OtherCalls DEF StepOf
        <3>2. Readable(audit) /\ Records(audit) \subseteq Records(audit')
            <4>1. CASE audit' = audit
                BY <2>1, <4>1
            <4>2. CASE audit' # audit
                <5>1. PICK d \in Call : /\ Emit(d) \/ EmitFails(d)
                                       /\ audit' \in Appended(audit, audit_event(d))
                    BY <1>2, <4>2, FileSteps
                <5>2. audit_event(d) \in AuditEvent
                    BY <1>2, <5>1, MadeEvent DEF Emit, EmitFails
                <5>3. QED
                    BY <2>0, <2>1, <5>1, <5>2, ReadableAfter DEF RuntimeTypeOK
            <4>3. QED BY <4>1, <4>2
        <3>3. QED
            BY <1>2, <3>1, <3>2 DEF ReadIsComplete
    <2>4. QED BY <2>2, <2>3
<1>3. QED
    BY <1>1, <1>2, RuntimeInvHolds, PTL DEF Spec

=============================================================================
