-------------------------- MODULE AuditLog_proofs --------------------------
(***************************************************************************)
(* What the audit log keeps to, for any number of calls and rotations.     *)
(***************************************************************************)
EXTENDS AuditLog, FiniteSetTheorems, SequenceTheorems, TLAPS

Fragments == Calls \cup {Newline, Part}

-----------------------------------------------------------------------------
(***************************************************************************)
(* The inductive invariant.  A line break in a file is preceded there by   *)
(* the entry of the call that wrote it; counted, a file has an entry for   *)
(* every line break in it and for every call that still owes it one.       *)
(***************************************************************************)
LogTypes ==
    /\ filePath \in {"set", "unset"}
    /\ files \in Seq(Seq(Fragments)) /\ Len(files) > 0
    /\ handle \in [Calls -> 0 .. Len(files)]
    /\ pc \in [Calls -> {"open", "entry", "newline", "answer", "done"}]
    /\ failures \in Nat

HandlesInv ==
    \A c \in Calls : pc[c] \in {"entry", "newline"} =>
        handle[c] \in DOMAIN files /\ c \notin Silent

\* The calls that returned and had something to write, and somewhere.
Logged == Returned \ Silent

Owing(f) == {c \in Calls : pc[c] = "newline" /\ handle[c] = f}

InFile(f, S) == UpTo(f, Len(files[f]), S)

EntriesSuffice(f) ==
    Cardinality(InFile(f, {Newline})) + Cardinality(Owing(f))
        <= Cardinality(InFile(f, Calls))

AuditInv ==
    /\ LogTypes /\ HandlesInv
    /\ IsFiniteSet(LineBreaks) /\ FailuresCounted
    /\ \A f \in DOMAIN files : EntriesSuffice(f)
    /\ LinesStayTogether

-----------------------------------------------------------------------------
(***************************************************************************)
(* A file that is appended to, and the others.                             *)
(***************************************************************************)
LEMMA FileTypes ==
    ASSUME LogTypes
    PROVE  /\ Len(files) \in Nat /\ DOMAIN files = 1 .. Len(files)
           /\ files \in [1 .. Len(files) -> Seq(Fragments)]
           /\ \A f \in DOMAIN files :
                 /\ Len(files[f]) \in Nat /\ DOMAIN files[f] = 1 .. Len(files[f])
                 /\ \A i \in DOMAIN files[f] : files[f][i] \in Fragments
  BY DEF LogTypes

LEMMA Appended ==
    ASSUME LogTypes, NEW f \in DOMAIN files, NEW x \in Fragments, AppendTo(f, x)
    PROVE  /\ files' \in Seq(Seq(Fragments))
           /\ Len(files') = Len(files) /\ DOMAIN files' = DOMAIN files
           /\ \A g \in DOMAIN files \ {f} : files'[g] = files[g]
           /\ Len(files'[f]) = Len(files[f]) + 1
           /\ DOMAIN files'[f] = 1 .. Len(files[f]) + 1
           /\ \A i \in 1 .. Len(files[f]) : files'[f][i] = files[f][i]
           /\ files'[f][Len(files[f]) + 1] = x
<1>1. files[f] \in Seq(Fragments)
  BY FileTypes
<1>2. /\ Append(files[f], x) \in Seq(Fragments)
      /\ Len(Append(files[f], x)) = Len(files[f]) + 1
      /\ \A i \in 1 .. Len(files[f]) : Append(files[f], x)[i] = files[f][i]
      /\ Append(files[f], x)[Len(files[f]) + 1] = x
  BY <1>1, AppendProperties
<1>3. files' = [files EXCEPT ![f] = Append(files[f], x)]
  BY DEF AppendTo
<1>4. files' \in [1 .. Len(files) -> Seq(Fragments)]
  BY <1>2, <1>3, FileTypes
<1>5. files' \in Seq(Seq(Fragments)) /\ Len(files') = Len(files)
  BY <1>4, FileTypes
<1>6. files'[f] = Append(files[f], x) /\ \A g \in DOMAIN files \ {f} : files'[g] = files[g]
  BY <1>3, FileTypes
<1>7. DOMAIN files' = DOMAIN files
  BY <1>3
<1> QED
  BY <1>2, <1>5, <1>6, <1>7

LEMMA Rotated ==
    ASSUME LogTypes, files' = Append(files, <<>>)
    PROVE  /\ files' \in Seq(Seq(Fragments)) /\ Len(files') = Len(files) + 1
           /\ DOMAIN files' = 1 .. Len(files) + 1
           /\ \A g \in DOMAIN files : files'[g] = files[g]
           /\ files'[Len(files) + 1] = <<>>
<1>1. <<>> \in Seq(Fragments) /\ files \in Seq(Seq(Fragments))
  BY DEF LogTypes
<1> QED
  BY <1>1, AppendProperties, FileTypes

-----------------------------------------------------------------------------
(***************************************************************************)
(* Counting in a file.                                                     *)
(***************************************************************************)
LEMMA UpToFinite ==
    ASSUME NEW f, NEW n \in Nat, NEW S
    PROVE  IsFiniteSet(UpTo(f, n, S)) /\ Cardinality(UpTo(f, n, S)) \in Nat
<1>1. IsFiniteSet(1 .. n)
  BY FS_Interval
<1>2. UpTo(f, n, S) \in SUBSET (1 .. n)
  BY DEF UpTo
<1> QED
  BY <1>1, <1>2, FS_Subset, FS_CardinalityType

\* What was in a file before is where it was.
LEMMA UpToKept ==
    ASSUME LogTypes, NEW f \in DOMAIN files, NEW n \in 0 .. Len(files[f]), NEW S,
           \A i \in 1 .. Len(files[f]) : files'[f][i] = files[f][i]
    PROVE  UpTo(f, n, S)' = UpTo(f, n, S)
<1>1. \A i \in 1 .. n : i \in 1 .. Len(files[f])
  BY FileTypes
<1> QED
  BY <1>1 DEF UpTo

\* The fragment that was appended is counted with its kind.
LEMMA InFileAppended ==
    ASSUME LogTypes, NEW f \in DOMAIN files, NEW x \in Fragments, AppendTo(f, x), NEW S
    PROVE  Cardinality(InFile(f, S))' =
               IF x \in S THEN Cardinality(InFile(f, S)) + 1 ELSE Cardinality(InFile(f, S))
<1> DEFINE n == Len(files[f])
           old == InFile(f, S)
<1>1. n \in Nat /\ IsFiniteSet(old) /\ n + 1 \notin old
  <2>1. n \in Nat
    BY FileTypes
  <2>2. IsFiniteSet(old)
    BY <2>1, UpToFinite DEF InFile
  <2>3. n + 1 \notin old
    BY <2>1 DEF InFile, UpTo
  <2> QED
    BY <2>1, <2>2, <2>3
<1>2. /\ \A i \in 1 .. n : files'[f][i] = files[f][i]
      /\ files'[f][n + 1] = x
  BY Appended
<1>3. InFile(f, S)' = {i \in 1 .. n + 1 : files'[f][i] \in S}
  BY Appended DEF InFile, UpTo
<1>4. old = {i \in 1 .. n : files'[f][i] \in S}
  BY <1>2 DEF InFile, UpTo
<1> HIDE DEF n, old
<1>5. 1 .. n + 1 = 1 .. n \cup {n + 1}
  BY <1>1
<1>6. ASSUME x \in S PROVE InFile(f, S)' = old \cup {n + 1}
  BY <1>2, <1>3, <1>4, <1>5, <1>6
<1>7. ASSUME x \notin S PROVE InFile(f, S)' = old
  BY <1>2, <1>3, <1>4, <1>5, <1>7
<1>8. Cardinality(old \cup {n + 1}) = Cardinality(old) + 1
  BY <1>1, FS_AddElement
<1> QED
  BY <1>6, <1>7, <1>8 DEF old

LEMMA InFileCount ==
    ASSUME LogTypes, NEW f \in DOMAIN files, NEW S
    PROVE  Cardinality(InFile(f, S)) \in Nat
  BY FileTypes, UpToFinite DEF InFile

-----------------------------------------------------------------------------
(***************************************************************************)
(* Counting the line breaks of all files.                                  *)
(***************************************************************************)
LEMMA BreaksAre ==
    ASSUME NEW at
    PROVE  at \in LineBreaks <=>
               \E f \in DOMAIN files : \E i \in DOMAIN files[f] :
                   at = <<f, i>> /\ files[f][i] = Newline
  BY DEF LineBreaks

LEMMA BreaksAppended ==
    ASSUME LogTypes, NEW f \in DOMAIN files, NEW x \in Fragments, AppendTo(f, x)
    PROVE  /\ x # Newline => LineBreaks' = LineBreaks
           /\ x = Newline => LineBreaks' = LineBreaks \cup {<<f, Len(files[f]) + 1>>}
           /\ <<f, Len(files[f]) + 1>> \notin LineBreaks
<1> DEFINE n == Len(files[f])
           IsBreak(g, i) == i \in DOMAIN files[g] /\ files[g][i] = Newline
<1>1. /\ n \in Nat /\ DOMAIN files[f] = 1 .. n
      /\ DOMAIN files' = DOMAIN files /\ DOMAIN files'[f] = 1 .. n + 1
      /\ \A g \in DOMAIN files \ {f} : files'[g] = files[g]
      /\ \A i \in 1 .. n : files'[f][i] = files[f][i]
      /\ files'[f][n + 1] = x
  BY FileTypes, Appended
<1>2. \A at : at \in LineBreaks <=>
          \E g \in DOMAIN files : \E i : at = <<g, i>> /\ IsBreak(g, i)
  BY BreaksAre
<1>3. \A at : at \in LineBreaks' <=>
          \E g \in DOMAIN files' : \E i : at = <<g, i>> /\ IsBreak(g, i)'
  BY DEF LineBreaks
<1>4. \A g \in DOMAIN files : \A i :
          IsBreak(g, i)' <=> IsBreak(g, i) \/ (x = Newline /\ g = f /\ i = n + 1)
  <2> TAKE g \in DOMAIN files
  <2> TAKE i
  <2>1. CASE g # f
    BY <1>1, <2>1
  <2>2. CASE g = f
    BY <1>1, <2>2
  <2> QED
    BY <2>1, <2>2
<1>5. ~IsBreak(f, n + 1)
  BY <1>1
<1> HIDE DEF n, IsBreak
<1>6. <<f, n + 1>> \notin LineBreaks
  BY <1>2, <1>5
<1>7. ASSUME x # Newline PROVE LineBreaks' = LineBreaks
  BY <1>1, <1>2, <1>3, <1>4, <1>7
<1>8. ASSUME x = Newline PROVE LineBreaks' = LineBreaks \cup {<<f, n + 1>>}
  BY <1>1, <1>2, <1>3, <1>4, <1>8
<1> QED
  BY <1>6, <1>7, <1>8 DEF n

-----------------------------------------------------------------------------
(***************************************************************************)
(* Counting the calls.                                                     *)
(***************************************************************************)
LEMMA CallCounts ==
    /\ IsFiniteSet(Logged) /\ Cardinality(Logged) \in Nat
    /\ Cardinality(Logged) <= Cardinality(Calls) /\ Cardinality(Calls) \in Nat
    /\ \A f : IsFiniteSet(Owing(f)) /\ Cardinality(Owing(f)) \in Nat
<1>1. Logged \in SUBSET Calls /\ \A f : Owing(f) \in SUBSET Calls
  BY DEF Logged, Returned, Owing
<1> QED
  BY <1>1, FS_Subset, FS_CardinalityType, FragmentAssumption

LEMMA OneReturns ==
    ASSUME LogTypes, NEW c \in Calls \ Silent, pc[c] \notin {"answer", "done"},
           GoTo(c, "answer")
    PROVE  Cardinality(Logged)' = Cardinality(Logged) + 1
<1>1. Logged' = Logged \cup {c} /\ c \notin Logged
  BY DEF LogTypes, GoTo, Logged, Returned, Silent
<1>2. Cardinality(Logged \cup {c}) = Cardinality(Logged) + 1
  BY <1>1, CallCounts, FS_AddElement
<1> QED
  BY <1>1, <1>2

LEMMA NoneReturns ==
    ASSUME LogTypes, NEW c \in Calls, NEW next, GoTo(c, next),
           c \in Silent \/ (pc[c] \in {"answer", "done"} <=> next \in {"answer", "done"})
    PROVE  Logged' = Logged
  BY DEF LogTypes, GoTo, Logged, Returned, Silent

\* A call that comes to owe a line break, and one that owes none any more.
LEMMA OwingMore ==
    ASSUME LogTypes, NEW c \in Calls, pc[c] = "entry", GoTo(c, "newline"), UNCHANGED handle
    PROVE  /\ Cardinality(Owing(handle[c]))' = Cardinality(Owing(handle[c])) + 1
           /\ \A f : f # handle[c] => Owing(f)' = Owing(f)
<1> DEFINE f == handle[c]
<1>1. Owing(f)' = Owing(f) \cup {c} /\ c \notin Owing(f)
  BY DEF LogTypes, GoTo, Owing
<1>2. Cardinality(Owing(f) \cup {c}) = Cardinality(Owing(f)) + 1
  BY <1>1, CallCounts, FS_AddElement
<1>3. \A g : g # f => Owing(g)' = Owing(g)
  BY DEF LogTypes, GoTo, Owing
<1> QED
  BY <1>1, <1>2, <1>3

LEMMA OwingLess ==
    ASSUME LogTypes, NEW c \in Calls, pc[c] = "newline", GoTo(c, "answer"), UNCHANGED handle
    PROVE  /\ Cardinality(Owing(handle[c]))' = Cardinality(Owing(handle[c])) - 1
           /\ \A f : f # handle[c] => Owing(f)' = Owing(f)
<1> DEFINE f == handle[c]
<1>1. Owing(f)' = Owing(f) \ {c} /\ c \in Owing(f)
  BY DEF LogTypes, GoTo, Owing
<1>2. Cardinality(Owing(f) \ {c}) = Cardinality(Owing(f)) - 1
  BY <1>1, CallCounts, FS_RemoveElement
<1>3. \A g : g # f => Owing(g)' = Owing(g)
  BY DEF LogTypes, GoTo, Owing
<1> QED
  BY <1>1, <1>2, <1>3

LEMMA OwingSame ==
    ASSUME LogTypes, NEW c \in Calls, NEW next, GoTo(c, next),
           pc[c] # "newline", next # "newline",
           \A d \in Calls \ {c} : handle'[d] = handle[d]
    PROVE  \A f : Owing(f)' = Owing(f)
  BY DEF LogTypes, GoTo, Owing

-----------------------------------------------------------------------------
(***************************************************************************)
(* A step that writes nothing, and one that appends a fragment.            *)
(***************************************************************************)
LEMMA NothingWritten ==
    ASSUME AuditInv, UNCHANGED files, LogTypes', HandlesInv',
           failures' - failures = Cardinality(Logged)' - Cardinality(Logged),
           Cardinality(Logged)' \in Nat,
           \A f \in DOMAIN files : Cardinality(Owing(f)') <= Cardinality(Owing(f))
    PROVE  AuditInv'
<1>1. LineBreaks' = LineBreaks
  BY DEF LineBreaks
<1>2. FailuresCounted'
  <2>1. failures \in Nat /\ failures' \in Nat /\ Cardinality(Logged) \in Nat
    BY CallCounts DEF AuditInv, LogTypes
  <2>2. Cardinality(LineBreaks) \in Nat
    BY FS_CardinalityType DEF AuditInv
  <2> QED
    BY <1>1, <2>1, <2>2 DEF AuditInv, FailuresCounted, Logged
<1>3. \A f \in DOMAIN files' : EntriesSuffice(f)'
  <2> SUFFICES ASSUME NEW f \in DOMAIN files PROVE EntriesSuffice(f)'
    OBVIOUS
  <2>1. \A S : InFile(f, S)' = InFile(f, S)
    BY DEF InFile, UpTo
  <2>2. /\ Cardinality(InFile(f, {Newline})) \in Nat /\ Cardinality(InFile(f, Calls)) \in Nat
        /\ Cardinality(Owing(f)) \in Nat
    BY InFileCount, CallCounts DEF AuditInv
  <2>3. Cardinality(Owing(f)') \in Nat
    <3>1. Owing(f)' \in SUBSET Calls
      BY DEF Owing
    <3> QED
      BY <3>1, FS_Subset, FS_CardinalityType, FragmentAssumption
  <2> QED
    BY <2>1, <2>2, <2>3 DEF AuditInv, EntriesSuffice
<1>4. LinesStayTogether'
  BY DEF AuditInv, LinesStayTogether, UpTo
<1> QED
  BY <1>1, <1>2, <1>3, <1>4 DEF AuditInv

\* Every proper prefix of the file was one before.
LEMMA LinesAppended ==
    ASSUME AuditInv, NEW f \in DOMAIN files, NEW x \in Fragments, AppendTo(f, x),
           Cardinality(InFile(f, {Newline}))' <= Cardinality(InFile(f, Calls))'
    PROVE  LinesStayTogether'
<1> USE DEF AuditInv
<1> SUFFICES ASSUME NEW g \in DOMAIN files', NEW n \in DOMAIN files'[g]
             PROVE  Cardinality(UpTo(g, n, {Newline})') <= Cardinality(UpTo(g, n, Calls)')
  BY DEF LinesStayTogether
<1>1. g \in DOMAIN files
  BY Appended
<1>2. CASE g # f
  <2>1. files'[g] = files[g]
    BY <1>1, <1>2, Appended
  <2>2. \A S : UpTo(g, n, S)' = UpTo(g, n, S)
    BY <2>1 DEF UpTo
  <2> QED
    BY <1>1, <2>1, <2>2 DEF LinesStayTogether
<1>3. CASE g = f /\ n \in DOMAIN files[f]
  <2>1. /\ n \in 0 .. Len(files[f])
        /\ \A i \in 1 .. Len(files[f]) : files'[f][i] = files[f][i]
    BY <1>3, Appended, FileTypes
  <2>2. \A S : UpTo(f, n, S)' = UpTo(f, n, S)
    BY <2>1, UpToKept
  <2> QED
    BY <1>3, <2>2 DEF LinesStayTogether
<1>4. CASE g = f /\ n = Len(files'[f])
  <2>1. \A S : InFile(f, S)' = UpTo(f, n, S)'
    BY <1>4 DEF InFile, UpTo
  <2> QED
    BY <1>4, <2>1
<1>5. g = f => n \in DOMAIN files[f] \/ n = Len(files'[f])
  BY Appended, FileTypes
<1> QED
  BY <1>2, <1>3, <1>4, <1>5

LEMMA FragmentWritten ==
    ASSUME AuditInv, NEW f \in DOMAIN files, NEW x \in Fragments, AppendTo(f, x),
           LogTypes', HandlesInv', Cardinality(Logged)' \in Nat,
           failures' - failures + (IF x = Newline THEN 1 ELSE 0) =
               Cardinality(Logged)' - Cardinality(Logged),
           EntriesSuffice(f)', \A g : g # f => Owing(g)' = Owing(g)
    PROVE  AuditInv'
<1> USE DEF AuditInv
<1> DEFINE n == Len(files[f])
<1>1. IsFiniteSet(LineBreaks) /\ Cardinality(LineBreaks) \in Nat
  BY FS_CardinalityType
<1>2. /\ IsFiniteSet(LineBreaks')
      /\ Cardinality(LineBreaks') =
            Cardinality(LineBreaks) + (IF x = Newline THEN 1 ELSE 0)
  <2>1. /\ x # Newline => LineBreaks' = LineBreaks
        /\ x = Newline => LineBreaks' = LineBreaks \cup {<<f, n + 1>>}
        /\ <<f, n + 1>> \notin LineBreaks
    BY BreaksAppended
  <2>2. /\ IsFiniteSet(LineBreaks \cup {<<f, n + 1>>})
        /\ Cardinality(LineBreaks \cup {<<f, n + 1>>}) = Cardinality(LineBreaks) + 1
    BY <1>1, <2>1, FS_AddElement
  <2>3. CASE x = Newline
    BY <2>1, <2>2, <2>3
  <2>4. CASE x # Newline
    BY <1>1, <2>1, <2>4
  <2> QED
    BY <2>3, <2>4
<1>3. FailuresCounted'
  <2>1. failures \in Nat /\ failures' \in Nat /\ Cardinality(Logged) \in Nat
    BY CallCounts DEF LogTypes
  <2> QED
    BY <1>1, <1>2, <2>1 DEF FailuresCounted, Logged
<1>4. ASSUME NEW g \in DOMAIN files', g # f PROVE EntriesSuffice(g)'
  <2>1. g \in DOMAIN files /\ files'[g] = files[g] /\ Owing(g)' = Owing(g)
    BY <1>4, Appended
  <2>2. \A S : InFile(g, S)' = InFile(g, S)
    BY <2>1 DEF InFile, UpTo
  <2> QED
    BY <2>1, <2>2 DEF EntriesSuffice
<1>5. LinesStayTogether'
  <2>1. Cardinality(InFile(f, {Newline}))' <= Cardinality(InFile(f, Calls))'
    <3>1. /\ Cardinality(InFile(f, {Newline}))' \in Nat
          /\ Cardinality(InFile(f, Calls))' \in Nat
      BY InFileAppended, InFileCount
    <3>2. Cardinality(Owing(f)') \in Nat
      <4>1. Owing(f)' \in SUBSET Calls
        BY DEF Owing
      <4> QED
        BY <4>1, FS_Subset, FS_CardinalityType, FragmentAssumption
    <3> QED
      BY <3>1, <3>2 DEF EntriesSuffice
  <2> QED
    BY <2>1, LinesAppended
<1> QED
  BY <1>2, <1>3, <1>4, <1>5

-----------------------------------------------------------------------------
(***************************************************************************)
(* The steps.                                                              *)
(***************************************************************************)
LEMMA AuditInit == Init => AuditInv
<1> SUFFICES ASSUME Init PROVE AuditInv
  OBVIOUS
<1> USE DEF Init
<1>1. files = << <<>> >> /\ DOMAIN files = {1} /\ files[1] = <<>> /\ Len(files) = 1
  OBVIOUS
<1>2. files \in Seq(Seq(Fragments))
  <2>1. <<>> \in Seq(Fragments)
    OBVIOUS
  <2> QED
    BY <1>1, <2>1
<1>3. LogTypes /\ HandlesInv
  BY <1>1, <1>2 DEF LogTypes, HandlesInv
<1>4. LineBreaks = {} /\ Logged = {}
  BY <1>1 DEF LineBreaks, Logged, Returned
<1>5. IsFiniteSet(LineBreaks) /\ FailuresCounted
  <2>1. Cardinality(LineBreaks) = 0 /\ Cardinality(Logged) = 0 /\ IsFiniteSet(LineBreaks)
    BY <1>4, FS_EmptySet
  <2> QED
    BY <2>1 DEF FailuresCounted, Logged
<1>6. \A f \in DOMAIN files : EntriesSuffice(f)
  <2>1. \A S : InFile(1, S) = {}
    BY <1>1 DEF InFile, UpTo
  <2>2. Owing(1) = {}
    BY DEF Owing
  <2>3. EntriesSuffice(1)
    BY ONLY <2>1, <2>2, FS_EmptySet DEF EntriesSuffice
  <2> QED
    BY <1>1, <2>3
<1>7. LinesStayTogether
  BY <1>1 DEF LinesStayTogether
<1> QED
  BY <1>3, <1>5, <1>6, <1>7 DEF AuditInv

\* A call that writes nothing and is not expected to.
LEMMA DropInv == ASSUME AuditInv, NEW c \in Calls, Drop(c) PROVE AuditInv'
<1> USE DEF Drop
<1>1. LogTypes' /\ HandlesInv'
  BY DEF AuditInv, LogTypes, HandlesInv, GoTo, Silent
<1>2. Logged' = Logged
  BY NoneReturns DEF AuditInv
<1>3. \A f : Owing(f)' = Owing(f)
  BY OwingSame DEF AuditInv
<1>4. /\ failures' - failures = Cardinality(Logged)' - Cardinality(Logged)
      /\ Cardinality(Logged)' \in Nat
  BY <1>2, CallCounts DEF AuditInv, LogTypes
<1>5. \A f \in DOMAIN files : Cardinality(Owing(f)') <= Cardinality(Owing(f))
  BY <1>3, CallCounts
<1> QED
  BY <1>1, <1>4, <1>5, NothingWritten

\* A call fails without a trace in the file.
LEMMA FailInv ==
    ASSUME AuditInv, NEW c \in Calls \ Silent, pc[c] \in {"open", "entry", "newline"}, Fail(c),
           UNCHANGED <<files, handle>>
    PROVE  AuditInv'
<1> USE DEF Fail
<1>1. LogTypes' /\ HandlesInv'
  BY DEF AuditInv, LogTypes, HandlesInv, GoTo, Silent
<1>2. Cardinality(Logged)' = Cardinality(Logged) + 1
  BY OneReturns DEF AuditInv
<1>3. ASSUME NEW f \in DOMAIN files
      PROVE  Cardinality(Owing(f)') <= Cardinality(Owing(f))
  <2>1. Owing(f)' \in SUBSET Owing(f)
    BY DEF AuditInv, LogTypes, GoTo, Owing
  <2> QED
    BY <2>1, CallCounts, FS_Subset
<1>4. /\ failures' - failures = Cardinality(Logged)' - Cardinality(Logged)
      /\ Cardinality(Logged)' \in Nat
  BY <1>2, CallCounts DEF AuditInv, LogTypes
<1> QED
  BY <1>1, <1>3, <1>4, NothingWritten

LEMMA OpenInv == ASSUME AuditInv, NEW c \in Calls, Open(c) PROVE AuditInv'
<1>1. CASE Fail(c) /\ UNCHANGED handle
  BY <1>1, FailInv DEF Open
<1>2. CASE /\ handle' = [handle EXCEPT ![c] = Len(files)]
           /\ GoTo(c, "entry") /\ UNCHANGED failures
  <2>1. pc[c] = "open" /\ c \notin Silent /\ UNCHANGED files
    BY DEF Open
  <2>2. Len(files) \in Nat /\ DOMAIN files = 1 .. Len(files) /\ Len(files) > 0
    BY FileTypes DEF AuditInv, LogTypes
  <2>3. LogTypes' /\ HandlesInv'
    BY <1>2, <2>1, <2>2 DEF AuditInv, LogTypes, HandlesInv, GoTo, Silent
  <2>4. Logged' = Logged
    BY <1>2, <2>1, NoneReturns DEF AuditInv
  <2>5. \A d \in Calls \ {c} : handle'[d] = handle[d]
    BY <1>2 DEF AuditInv, LogTypes
  <2>6. \A f : Owing(f)' = Owing(f)
    BY <1>2, <2>1, <2>5, OwingSame DEF AuditInv
  <2>7. /\ failures' - failures = Cardinality(Logged)' - Cardinality(Logged)
        /\ Cardinality(Logged)' \in Nat
    BY <1>2, <2>4, CallCounts DEF AuditInv, LogTypes
  <2>8. \A f \in DOMAIN files : Cardinality(Owing(f)') <= Cardinality(Owing(f))
    BY <2>6, CallCounts
  <2> QED
    BY <2>1, <2>3, <2>7, <2>8, NothingWritten
<1> QED
  BY <1>1, <1>2 DEF Open

LEMMA WriteEntryInv == ASSUME AuditInv, NEW c \in Calls, WriteEntry(c) PROVE AuditInv'
<1>0. PICK f : f = handle[c]
  OBVIOUS
<1>1. pc[c] = "entry" /\ UNCHANGED handle /\ LogTypes /\ c \in Calls \ Silent
  BY DEF WriteEntry, AuditInv, HandlesInv
<1>2. f \in DOMAIN files /\ f \in Nat
  BY <1>0, <1>1, FileTypes DEF AuditInv, HandlesInv
<1>3. c \in Fragments /\ Part \in Fragments /\ c # Newline /\ Part # Newline /\ Part \notin Calls
  BY FragmentAssumption DEF Fragments
<1>4. CASE AppendTo(f, c) /\ GoTo(c, "newline") /\ UNCHANGED failures
  <2>1. LogTypes' /\ HandlesInv'
    <3>1. /\ files' \in Seq(Seq(Fragments)) /\ Len(files') = Len(files)
          /\ DOMAIN files' = DOMAIN files
      BY <1>1, <1>2, <1>3, <1>4, Appended
    <3> QED
      BY <1>1, <1>2, <1>4, <3>1 DEF AuditInv, LogTypes, HandlesInv, GoTo, Silent
  <2>2. Logged' = Logged
    BY <1>1, <1>4, NoneReturns
  <2>3. /\ Cardinality(Owing(f))' = Cardinality(Owing(f)) + 1
        /\ \A g : g # f => Owing(g)' = Owing(g)
    BY <1>0, <1>1, <1>4, OwingMore
  <2>4. /\ Cardinality(InFile(f, {Newline}))' = Cardinality(InFile(f, {Newline}))
        /\ Cardinality(InFile(f, Calls))' = Cardinality(InFile(f, Calls)) + 1
    <3>1. ASSUME NEW S
          PROVE  Cardinality(InFile(f, S)') = IF c \in S THEN Cardinality(InFile(f, S)) + 1
                                              ELSE Cardinality(InFile(f, S))
      BY <1>1, <1>2, <1>3, <1>4, InFileAppended
    <3> QED
      BY <1>1, <1>3, <3>1
  <2>5. EntriesSuffice(f)'
    <3>1. /\ Cardinality(InFile(f, {Newline})) \in Nat
          /\ Cardinality(InFile(f, Calls)) \in Nat
          /\ Cardinality(Owing(f)) \in Nat
      BY <1>1, <1>2, InFileCount, CallCounts
    <3>2. EntriesSuffice(f)
      BY <1>2 DEF AuditInv
    <3> QED
      BY <2>3, <2>4, <3>1, <3>2 DEF EntriesSuffice
  <2>6. /\ failures' - failures + (IF c = Newline THEN 1 ELSE 0)
              = Cardinality(Logged)' - Cardinality(Logged)
        /\ Cardinality(Logged)' \in Nat
    BY <1>1, <1>3, <1>4, <2>2, CallCounts DEF LogTypes
  <2> QED
    BY <1>2, <1>3, <1>4, <2>1, <2>3, <2>5, <2>6, FragmentWritten
<1>5. CASE Fail(c) /\ UNCHANGED files
  BY <1>1, <1>5, FailInv
<1>6. CASE Fail(c) /\ AppendTo(f, Part)
  <2> USE DEF Fail
  <2>1. LogTypes' /\ HandlesInv'
    <3>1. /\ files' \in Seq(Seq(Fragments)) /\ Len(files') = Len(files)
          /\ DOMAIN files' = DOMAIN files
      BY <1>1, <1>2, <1>3, <1>6, Appended
    <3> QED
      BY <1>1, <1>6, <3>1 DEF AuditInv, LogTypes, HandlesInv, GoTo, Silent
  <2>2. Cardinality(Logged)' = Cardinality(Logged) + 1
    BY <1>1, <1>6, OneReturns
  <2>3. \A g : Owing(g)' = Owing(g)
    BY <1>1, <1>6, OwingSame
  <2>4. /\ Cardinality(InFile(f, {Newline}))' = Cardinality(InFile(f, {Newline}))
        /\ Cardinality(InFile(f, Calls))' = Cardinality(InFile(f, Calls))
    <3>1. ASSUME NEW S
          PROVE  Cardinality(InFile(f, S)') = IF Part \in S THEN Cardinality(InFile(f, S)) + 1
                                              ELSE Cardinality(InFile(f, S))
      BY <1>1, <1>2, <1>3, <1>6, InFileAppended
    <3> QED
      BY <1>1, <1>3, <3>1
  <2>5. EntriesSuffice(f)'
    BY <1>1, <1>2, <2>3, <2>4 DEF AuditInv, EntriesSuffice
  <2>6. /\ failures' - failures + (IF Part = Newline THEN 1 ELSE 0)
              = Cardinality(Logged)' - Cardinality(Logged)
        /\ Cardinality(Logged)' \in Nat
    BY <1>1, <1>3, <1>6, <2>2, CallCounts DEF LogTypes
  <2> QED
    BY <1>2, <1>3, <1>6, <2>1, <2>3, <2>5, <2>6, FragmentWritten
<1> QED
  BY <1>0, <1>4, <1>5, <1>6 DEF WriteEntry

LEMMA WriteNewlineInv == ASSUME AuditInv, NEW c \in Calls, WriteNewline(c) PROVE AuditInv'
<1>0. PICK f : f = handle[c]
  OBVIOUS
<1>1. pc[c] = "newline" /\ UNCHANGED handle /\ LogTypes /\ c \in Calls \ Silent
  BY DEF WriteNewline, AuditInv, HandlesInv
<1>2. f \in DOMAIN files
  BY <1>0, <1>1 DEF AuditInv, HandlesInv
<1>3. Newline \in Fragments /\ Newline \notin Calls
  BY FragmentAssumption DEF Fragments
<1>4. CASE AppendTo(f, Newline) /\ GoTo(c, "answer") /\ UNCHANGED failures
  <2>1. LogTypes' /\ HandlesInv'
    <3>1. /\ files' \in Seq(Seq(Fragments)) /\ Len(files') = Len(files)
          /\ DOMAIN files' = DOMAIN files
      BY <1>1, <1>2, <1>3, <1>4, Appended
    <3> QED
      BY <1>1, <1>4, <3>1 DEF AuditInv, LogTypes, HandlesInv, GoTo, Silent
  <2>2. Cardinality(Logged)' = Cardinality(Logged) + 1
    BY <1>1, <1>4, OneReturns
  <2>3. /\ Cardinality(Owing(f))' = Cardinality(Owing(f)) - 1
        /\ \A g : g # f => Owing(g)' = Owing(g)
    BY <1>0, <1>1, <1>4, OwingLess
  <2>4. /\ Cardinality(InFile(f, {Newline}))' = Cardinality(InFile(f, {Newline})) + 1
        /\ Cardinality(InFile(f, Calls))' = Cardinality(InFile(f, Calls))
    <3>1. ASSUME NEW S
          PROVE  Cardinality(InFile(f, S)') = IF Newline \in S THEN Cardinality(InFile(f, S)) + 1
                                              ELSE Cardinality(InFile(f, S))
      BY <1>1, <1>2, <1>3, <1>4, InFileAppended
    <3> QED
      BY <1>1, <1>3, <3>1
  <2>5. EntriesSuffice(f)'
    <3>1. /\ Cardinality(InFile(f, {Newline})) \in Nat
          /\ Cardinality(InFile(f, Calls)) \in Nat
          /\ Cardinality(Owing(f)) \in Nat
      BY <1>1, <1>2, InFileCount, CallCounts
    <3>2. EntriesSuffice(f)
      BY <1>2 DEF AuditInv
    <3> QED
      BY <2>3, <2>4, <3>1, <3>2 DEF EntriesSuffice
  <2>6. /\ failures' - failures + (IF Newline = Newline THEN 1 ELSE 0)
              = Cardinality(Logged)' - Cardinality(Logged)
        /\ Cardinality(Logged)' \in Nat
    BY <1>1, <1>4, <2>2, CallCounts DEF LogTypes
  <2> QED
    BY <1>2, <1>3, <1>4, <2>1, <2>3, <2>5, <2>6, FragmentWritten
<1>5. CASE Fail(c) /\ UNCHANGED files
  BY <1>1, <1>5, FailInv
<1> QED
  BY <1>0, <1>4, <1>5 DEF WriteNewline

LEMMA AnswerInv == ASSUME AuditInv, NEW c \in Calls, Answer(c) PROVE AuditInv'
<1> USE DEF Answer
<1>1. LogTypes' /\ HandlesInv'
  BY DEF AuditInv, LogTypes, HandlesInv, GoTo, Silent
<1>2. Logged' = Logged
  BY NoneReturns DEF AuditInv
<1>3. \A f : Owing(f)' = Owing(f)
  BY OwingSame DEF AuditInv
<1>4. /\ failures' - failures = Cardinality(Logged)' - Cardinality(Logged)
      /\ Cardinality(Logged)' \in Nat
  BY <1>2, CallCounts DEF AuditInv, LogTypes
<1>5. \A f \in DOMAIN files : Cardinality(Owing(f)') <= Cardinality(Owing(f))
  BY <1>3, CallCounts
<1> QED
  BY <1>1, <1>4, <1>5, NothingWritten

\* A new file is empty and no handle leads to it.
LEMMA RotateInv == ASSUME AuditInv, Rotate PROVE AuditInv'
<1> USE DEF Rotate
<1> DEFINE new == Len(files) + 1
<1>1. LogTypes /\ Len(files) \in Nat /\ DOMAIN files = 1 .. Len(files)
  BY FileTypes DEF AuditInv
<1>2. /\ files' \in Seq(Seq(Fragments)) /\ Len(files') = Len(files) + 1
      /\ DOMAIN files' = 1 .. Len(files) + 1
      /\ \A g \in DOMAIN files : files'[g] = files[g]
      /\ files'[new] = <<>>
  BY <1>1, Rotated
<1>3. LogTypes' /\ HandlesInv'
  BY <1>1, <1>2 DEF AuditInv, LogTypes, HandlesInv, Silent
<1>4. LineBreaks' = LineBreaks /\ Logged' = Logged
  <2>1. \A g \in DOMAIN files' : g \in DOMAIN files \/ files'[g] = <<>>
    BY <1>1, <1>2
  <2>2. DOMAIN files \subseteq DOMAIN files'
    BY <1>1, <1>2
  <2>3. \A at : at \in LineBreaks' <=>
            \E g \in DOMAIN files' : \E i \in DOMAIN files'[g] :
                at = <<g, i>> /\ files'[g][i] = Newline
    BY DEF LineBreaks
  <2>4. \A at : at \in LineBreaks' <=> at \in LineBreaks
    BY <1>2, <2>1, <2>2, <2>3, BreaksAre
  <2> QED
    BY <2>4 DEF Logged, Returned, Silent
<1>5. ASSUME NEW f \in DOMAIN files PROVE EntriesSuffice(f)'
  <2>1. \A S : InFile(f, S)' = InFile(f, S)
    BY <1>2 DEF InFile, UpTo
  <2>2. Owing(f)' = Owing(f)
    BY DEF Owing
  <2> QED
    BY <2>1, <2>2 DEF AuditInv, EntriesSuffice
<1>6. ASSUME NEW f, f = new PROVE EntriesSuffice(f)'
  <2>1. \A S : InFile(f, S)' = {}
    BY <1>2, <1>6 DEF InFile, UpTo
  <2>2. Owing(f)' = {}
    BY <1>1, <1>6 DEF LogTypes, Owing
  <2>3. /\ Cardinality(InFile(f, {Newline})') = 0 /\ Cardinality(InFile(f, Calls)') = 0
        /\ Cardinality(Owing(f)') = 0
    BY <2>1, <2>2, FS_EmptySet
  <2> QED
    BY <2>3 DEF EntriesSuffice
<1>7. LinesStayTogether'
  <2> SUFFICES ASSUME NEW g \in DOMAIN files', NEW n \in DOMAIN files'[g]
               PROVE  Cardinality(UpTo(g, n, {Newline})') <= Cardinality(UpTo(g, n, Calls)')
    BY DEF LinesStayTogether
  <2>1. g \in DOMAIN files /\ files'[g] = files[g]
    BY <1>1, <1>2
  <2>2. \A S : UpTo(g, n, S)' = UpTo(g, n, S)
    BY <2>1 DEF UpTo
  <2> QED
    BY <2>1, <2>2 DEF AuditInv, LinesStayTogether
<1>8. \A f \in DOMAIN files' : EntriesSuffice(f)'
  <2>1. \A f \in DOMAIN files' : f \in DOMAIN files \/ f = new
    BY <1>1, <1>2
  <2> QED
    BY <1>5, <1>6, <2>1
<1> QED
  BY <1>3, <1>4, <1>7, <1>8 DEF AuditInv, FailuresCounted, Logged

LEMMA AuditStep == AuditInv /\ [Next]_vars => AuditInv'
<1> SUFFICES ASSUME AuditInv, [Next]_vars PROVE AuditInv'
  OBVIOUS
<1>1. ASSUME NEW c \in Calls, LogWithIP(c) PROVE AuditInv'
  BY <1>1, DropInv, OpenInv, WriteEntryInv, WriteNewlineInv DEF LogWithIP
<1>2. ASSUME NEW c \in Calls, Answer(c) PROVE AuditInv'
  BY <1>2, AnswerInv
<1>3. CASE Rotate
  BY <1>3, RotateInv
<1>4. CASE UNCHANGED vars
  <2> USE <1>4 DEF vars
  <2>1. LogTypes' /\ HandlesInv'
    BY DEF AuditInv, LogTypes, HandlesInv, Silent
  <2>2. Logged' = Logged /\ \A f : Owing(f)' = Owing(f)
    BY DEF Logged, Returned, Silent, Owing
  <2>3. /\ failures' - failures = Cardinality(Logged)' - Cardinality(Logged)
        /\ Cardinality(Logged)' \in Nat
    BY <2>2, CallCounts DEF AuditInv, LogTypes
  <2>4. \A f \in DOMAIN files : Cardinality(Owing(f)') <= Cardinality(Owing(f))
    BY <2>2, CallCounts
  <2> QED
    BY <2>1, <2>3, <2>4, NothingWritten
<1> QED
  BY <1>1, <1>2, <1>3, <1>4 DEF Next

LEMMA AuditAlways == Spec => []AuditInv
  BY AuditInit, AuditStep, PTL DEF Spec

-----------------------------------------------------------------------------
\* Types of the log and of the calls; no call is counted as failed twice.
THEOREM AuditTypeCorrect == Spec => []TypeOK
<1>1. AuditInv => TypeOK
  <2> SUFFICES ASSUME AuditInv PROVE TypeOK
    OBVIOUS
  <2>1. Cardinality(LineBreaks) \in Nat
    BY FS_CardinalityType DEF AuditInv
  <2>2. failures \in 0 .. Cardinality(Calls)
    BY <2>1, CallCounts DEF AuditInv, LogTypes, FailuresCounted, Logged
  <2> QED
    BY <2>2 DEF AuditInv, LogTypes, TypeOK, Fragments
<1> QED
  BY <1>1, AuditAlways, PTL

\* LogWithIP, AuditWriteFailures: whatever of the file fails, and however the
\* calls and the rotations interleave, the counter and the line breaks in the
\* files together are the calls that have returned, those apart that have no
\* entry or no file to write it to and return in silence (audit.go:64-71).
THEOREM EveryFailureCounted == Spec => []FailuresCounted
<1>1. AuditInv => FailuresCounted
  BY DEF AuditInv
<1> QED
  BY <1>1, AuditAlways, PTL

\* LogWithIP: the newline goes through the handle that the entry went through,
\* so no rotation puts it into a file without the entry.
THEOREM EntriesKeepTheirLines == Spec => []LinesStayTogether
<1>1. AuditInv => LinesStayTogether
  BY DEF AuditInv
<1> QED
  BY <1>1, AuditAlways, PTL
=============================================================================
