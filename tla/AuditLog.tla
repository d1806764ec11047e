----------------------------- MODULE AuditLog -----------------------------
(***************************************************************************)
(* observability.AuditLogger under concurrent handlers.  Each call of      *)
(* LogWithIP encodes the entry, and when there is a file to write it to    *)
(* opens that for appending, writes the entry, and writes the newline with *)
(* a second write(2); nothing orders the calls, and logrotate may rename   *)
(* the file between any two steps.  The handler has already done what it   *)
(* logs, and answers whatever became of the entry.                         *)
(*                                                                         *)
(* An entry is the call that wrote it: what json.Marshal and the redaction *)
(* make of the fields is not modelled.  A write is appended as a whole     *)
(* (O_APPEND), or fails, and then part of it may be there.                 *)
(***************************************************************************)
EXTENDS Integers, Sequences, FiniteSets

CONSTANTS
    Calls,         \* calls of LogWithIP, each by a handler of its own
    Unencodable,   \* those with a field json.Marshal refuses (audit_test.go:214)
    Newline,       \* a line break in the file
    Part,          \* a piece of an entry, left by a failed write
    MaxRotations   \* bound: how often logrotate renames the file

ASSUME FragmentAssumption ==
    /\ IsFiniteSet(Calls) /\ Unencodable \subseteq Calls
    /\ Newline # Part /\ Newline \notin Calls /\ Part \notin Calls

VARIABLES
    filePath,  \* AUDIT_LOG_FILE: "set", or "unset" when it is empty
    files,     \* the log file and its rotations, the current one last
    handle,    \* call -> the file it has open, 0 before it opened one
    pc,        \* call -> its next step
    failures   \* the AuditWriteFailures counter

vars == <<filePath, files, handle, pc, failures>>

\* NewAuditLogger, with what bindEnv found; Validate asks for no path.
Init ==
    /\ filePath \in {"set", "unset"}
    /\ files = << <<>> >>
    /\ handle = [c \in Calls |-> 0]
    /\ pc = [c \in Calls |-> "open"]
    /\ failures = 0

AppendTo(f, fragment) == files' = [files EXCEPT ![f] = Append(@, fragment)]

\* A logger keeps the path it was made with.
GoTo(c, next) == pc' = [pc EXCEPT ![c] = next] /\ UNCHANGED filePath

\* The failure is printed and counted, and LogWithIP returns nothing.
Fail(c) ==
    /\ failures' = failures + 1
    /\ GoTo(c, "answer")

\* The calls that have nothing to write, or nowhere to write it.
Silent == {c \in Calls : c \in Unencodable \/ filePath = "unset"}

\* json.Marshal fails or a.filePath is empty: LogWithIP returns, and neither
\* prints nor counts it.
Drop(c) ==
    /\ pc[c] = "open"
    /\ c \in Silent
    /\ GoTo(c, "answer")
    /\ UNCHANGED <<files, handle, failures>>

\* Mutation: the handle of a file that is not there yet.
OpenNext(c) ==
    /\ pc[c] = "open"
    /\ c \notin Silent
    /\ handle' = [handle EXCEPT ![c] = Len(files) + 1]
    /\ GoTo(c, "entry")
    /\ UNCHANGED <<files, failures>>

Open(c) ==
    /\ pc[c] = "open"
    /\ c \notin Silent
    /\ \/ /\ handle' = [handle EXCEPT ![c] = Len(files)]
          /\ GoTo(c, "entry")
          /\ UNCHANGED failures
       \/ Fail(c) /\ UNCHANGED handle
    /\ UNCHANGED files

WriteEntry(c) ==
    /\ pc[c] = "entry"
    /\ \/ AppendTo(handle[c], c) /\ GoTo(c, "newline") /\ UNCHANGED failures
       \/ Fail(c) /\ (UNCHANGED files \/ AppendTo(handle[c], Part))
    /\ UNCHANGED handle

\* Mutation: the newline goes to the file of that name at the time.
WriteNewlineReopened(c) ==
    /\ pc[c] = "newline"
    /\ AppendTo(Len(files), Newline)
    /\ GoTo(c, "answer")
    /\ UNCHANGED <<handle, failures>>

\* Mutation: a newline that fails is not counted.
WriteNewlineUncounted(c) ==
    /\ pc[c] = "newline"
    /\ GoTo(c, "answer")
    /\ AppendTo(handle[c], Newline) \/ UNCHANGED files
    /\ UNCHANGED <<handle, failures>>

WriteNewline(c) ==
    /\ pc[c] = "newline"
    /\ \/ AppendTo(handle[c], Newline) /\ GoTo(c, "answer") /\ UNCHANGED failures
       \/ Fail(c) /\ UNCHANGED files
    /\ UNCHANGED handle

\* HandleToken, HandleAuthorize, HandleRegister: the success response.
Answer(c) ==
    /\ pc[c] = "answer"
    /\ GoTo(c, "done")
    /\ UNCHANGED <<files, handle, failures>>

\* logrotate (external): rename; the next open creates an empty file.
Rotate ==
    /\ Len(files) <= MaxRotations
    /\ files' = Append(files, <<>>)
    /\ UNCHANGED <<filePath, handle, pc, failures>>

LogWithIP(c) == Drop(c) \/ Open(c) \/ WriteEntry(c) \/ WriteNewline(c)

Next == (\E c \in Calls : LogWithIP(c) \/ Answer(c)) \/ Rotate

Spec == Init /\ [][Next]_vars

-----------------------------------------------------------------------------
\* Where a fragment of S is, among the first n of file f.
UpTo(f, n, S) == {i \in 1 .. n : files[f][i] \in S}

\* The line breaks of all files.
LineBreaks == {at \in UNION {{f} \X DOMAIN files[f] : f \in DOMAIN files} :
                  files[at[1]][at[2]] = Newline}

Returned == {c \in Calls : pc[c] \in {"answer", "done"}}

\* Types of the log and of the calls.
TypeOK ==
    /\ filePath \in {"set", "unset"}
    /\ files \in Seq(Seq(Calls \cup {Newline, Part}))
    /\ handle \in [Calls -> 0 .. Len(files)]
    /\ pc \in [Calls -> {"open", "entry", "newline", "answer", "done"}]
    /\ failures \in 0 .. Cardinality(Calls)

\* Of the calls that had an entry to write and a file to write it to, each
\* that returned ended a line of its own or was counted, once, whichever of
\* its file operations failed.  The others (audit.go:64-71) return in silence:
\* no line and no count, so that the counter speaks of the file alone.
FailuresCounted ==
    failures + Cardinality(LineBreaks) = Cardinality(Returned \ Silent)

\* A rotation never separates an entry from its newline: no file has more
\* line breaks than entries, in any prefix of it.
LinesStayTogether ==
    \A f \in DOMAIN files : \A n \in DOMAIN files[f] :
        Cardinality(UpTo(f, n, {Newline})) <= Cardinality(UpTo(f, n, Calls))

\* audit.jsonl: every line is one JSON value.
OneEntryPerLine ==
    \A f \in DOMAIN files : \A i \in 1 .. (Len(files[f]) - 1) :
        files[f][i] # Newline => files[f][i + 1] = Newline
=============================================================================
