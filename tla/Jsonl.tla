------------------------------- MODULE Jsonl -------------------------------
(***************************************************************************)
(* The append-only JSON Lines files of JsonlAuditEventSink (audit_store.py) *)
(* and JsonlReconciliationResultStore (reconciliation_store.py), which are  *)
(* the same code twice.                                                     *)
(*                                                                         *)
(* A line is <<record>> when it is the JSON of one record and <<>> when it  *)
(* cannot be parsed.  A file is its finished lines and, after a write that  *)
(* failed half way, the unfinished one that has no newline yet.  Nothing    *)
(* ever finishes it: the next append continues the same line.               *)
(***************************************************************************)
EXTENDS Naturals, Sequences

Whole(record) == <<record>>
Broken == <<>>

EmptyFile == [lines |-> <<>>, open |-> <<>>]

FileType(Record) ==
    LET Line == {<<>>} \cup {<<r>> : r \in Record}
    IN  [lines : Seq(Line), open : {<<>>} \cup {<<l>> : l \in Line}]

\* What text written at the end of the file becomes: two objects on a line, or
\* the rest of a truncated one, is not JSON.
Joined(file, line) == IF file.open = <<>> THEN line ELSE Broken

\* open("a"), write(line), write("\n"): one buffered write at close.
AppendLine(file, record) ==
    [lines |-> Append(file.lines, Joined(file, Whole(record))), open |-> <<>>]

\* The same when it raises OSError: nothing, part of the record, or the record
\* without its newline has reached the file.
PartialAppends(file, record) ==
    {file} \cup {[file EXCEPT !.open = <<Joined(file, l)>>] : l \in {Broken, Whole(record)}}

Lines(file) == file.lines \o file.open

Parsed(line) == line # Broken

\* Mutant: a line that does not parse is skipped, as blank lines are.
SkipsBroken(file) == TRUE

\* iter_events / iter_results reach the end; otherwise they raise.
Readable(file) == \A i \in DOMAIN Lines(file) : Parsed(Lines(file)[i])

\* read_events() / read_results() of a file whose reading does not raise.
read(file) == [i \in DOMAIN Lines(file) |-> Lines(file)[i][1]]

\* Which lines of any file hold a record, and the records.
Entries(file) == {i \in DOMAIN Lines(file) : Parsed(Lines(file)[i])}

Records(file) == {Lines(file)[i][1] : i \in Entries(file)}

=============================================================================
