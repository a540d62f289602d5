--------------------------- MODULE RowsFileProofs ---------------------------
(***************************************************************************)
(* What the operations on rows.jsonl return, for files of any length: the  *)
(* facts the proofs about RunEval rest on.                                 *)
(***************************************************************************)
EXTENDS RowsFile, SequenceTheorems, TLAPS

(* A text that parses to no row is told apart from every row by its task. *)
LEMMA NoRowIsNotARow == NoRow \notin Row
  BY SizesAssumption DEF NoRow, Row, Tasks, None

LEMMA RowsOfTypes ==
    ASSUME NEW lines \in Seq(Line)
    PROVE  RowsOf(lines) \subseteq Row /\ TasksOf(lines) \subseteq Tasks
  <1>1. \A i \in 1 .. Len(lines) : lines[i] \in Line
    BY ElementOfSeq
  <1>2. \A i \in 1 .. Len(lines) : Parses(lines[i]) => lines[i].row \in Row
    BY <1>1 DEF Line, Parses
  <1>3. RowsOf(lines) \subseteq Row
    BY <1>2 DEF RowsOf
  <1>4. \A row \in Row : row.task \in Tasks
    BY DEF Row
  <1>5. QED
    BY <1>3, <1>4 DEF TasksOf

LEMMA FrontFacts ==
    ASSUME NEW lines \in Seq(Line), lines # <<>>
    PROVE  /\ Front(lines) \in Seq(Line)
           /\ Len(lines) \in Nat \ {0}
           /\ Len(Front(lines)) = Len(lines) - 1
           /\ \A i \in 1 .. Len(lines) - 1 : Front(lines)[i] = lines[i]
           /\ Last(lines) = lines[Len(lines)]
           /\ Last(lines) \in Line
  <1>1. Len(lines) \in Nat /\ Len(lines) # 0
    BY EmptySeq
  <1>2. \A i \in 1 .. Len(lines) : lines[i] \in Line
    BY ElementOfSeq
  <1> DEFINE n == Len(lines) - 1
  <1>3. n \in Int /\ n >= 0 /\ 1 \in Int /\ \A i \in 1 .. n : lines[i] \in Line
    BY <1>1, <1>2
  <1> HIDE DEF n
  <1>4. /\ SubSeq(lines, 1, n) \in Seq(Line)
        /\ Len(SubSeq(lines, 1, n)) = IF 1 <= n THEN n - 1 + 1 ELSE 0
        /\ \A i \in 1 .. n - 1 + 1 : SubSeq(lines, 1, n)[i] = lines[1 + i - 1]
    BY <1>3, SubSeqProperties
  <1>5. /\ Len(SubSeq(lines, 1, n)) = n
        /\ \A i \in 1 .. n : SubSeq(lines, 1, n)[i] = lines[i]
    BY <1>3, <1>4
  <1>6. Front(lines) = SubSeq(lines, 1, n)
    BY DEF Front, n
  <1>7. Last(lines) = lines[Len(lines)] /\ lines[Len(lines)] \in Line
    BY <1>1, <1>2 DEF Last
  <1>8. QED
    BY <1>1, <1>4, <1>5, <1>6, <1>7 DEF n

(* Put leaves every line but possibly the last as it was, and adds at most  *)
(* the row it was given.                                                   *)
PutResult(lines, row, ended, new) ==
    /\ new \in Seq(Line)
    /\ Len(lines) \in Nat /\ Len(new) \in Nat
    /\ TailOpen(lines) =>
         /\ Len(new) = Len(lines) /\ Len(lines) # 0
         /\ \A i \in 1 .. Len(lines) - 1 : new[i] = lines[i]
         /\ new[Len(lines)] = [row |-> NoRow, ended |-> ended]
    /\ ~TailOpen(lines) =>
         /\ Len(new) = Len(lines) + 1
         /\ \A i \in 1 .. Len(lines) : new[i] = lines[i]
         /\ new[Len(lines) + 1] = [row |-> row, ended |-> ended]

LEMMA PutFacts ==
    ASSUME NEW lines \in Seq(Line), NEW row \in Row \cup {NoRow}, NEW ended \in BOOLEAN
    PROVE  PutResult(lines, row, ended, Put(lines, row, ended))
  <1> DEFINE new == Put(lines, row, ended)
             junk == [row |-> NoRow, ended |-> ended]
             full == [row |-> row, ended |-> ended]
             front == Front(lines)
  <1>0. junk \in Line /\ full \in Line /\ Len(lines) \in Nat
    BY DEF Line
  <1>1. CASE TailOpen(lines)
    <2>1. lines # <<>>
      BY <1>1 DEF TailOpen
    <2>2. new = Append(front, junk)
      BY <1>1 DEF Put
    <2>3. /\ front \in Seq(Line)
          /\ Len(lines) \in Nat \ {0}
          /\ Len(front) = Len(lines) - 1
          /\ \A i \in 1 .. Len(lines) - 1 : front[i] = lines[i]
      BY <2>1, FrontFacts
    <2> HIDE DEF new, front
    <2>4. /\ new \in Seq(Line)
          /\ Len(new) = Len(front) + 1
          /\ \A i \in 1 .. Len(front) : new[i] = front[i]
          /\ new[Len(front) + 1] = junk
      BY <1>0, <2>2, <2>3, AppendProperties
    <2>5. QED
      BY <1>1, <2>3, <2>4 DEF PutResult, new
  <1>2. CASE ~TailOpen(lines)
    <2>1. new = Append(lines, full)
      BY <1>2 DEF Put
    <2> HIDE DEF new
    <2>2. /\ new \in Seq(Line)
          /\ Len(new) = Len(lines) + 1
          /\ \A i \in 1 .. Len(lines) : new[i] = lines[i]
          /\ new[Len(lines) + 1] = full
      BY <1>0, <2>1, AppendProperties
    <2>3. QED
      BY <1>0, <1>2, <2>2 DEF PutResult, new
  <1>3. QED
    BY <1>1, <1>2

LEMMA PutRows ==
    ASSUME NEW lines \in Seq(Line), NEW row \in Row \cup {NoRow}, NEW ended \in BOOLEAN
    PROVE  /\ RowsOf(Put(lines, row, ended)) \subseteq RowsOf(lines) \cup {row}
           /\ NoRow \notin RowsOf(Put(lines, row, ended))
  <1> DEFINE new == Put(lines, row, ended)
  <1>0. PutResult(lines, row, ended, new)
    BY PutFacts
  <1> HIDE DEF new
  <1>1. ASSUME NEW i \in 1 .. Len(new), Parses(new[i])
        PROVE  new[i].row \in RowsOf(lines) \cup {row}
    <2>1. CASE TailOpen(lines)
      <3>1. i \in 1 .. Len(lines) - 1
        BY <1>1, <2>1, <1>0 DEF Parses, PutResult
      <3>2. new[i] = lines[i]
        BY <2>1, <3>1, <1>0 DEF PutResult
      <3>3. QED
        BY <1>1, <3>1, <3>2 DEF RowsOf
    <2>2. CASE ~TailOpen(lines)
      <3>1. CASE i \in 1 .. Len(lines)
        <4>1. new[i] = lines[i]
          BY <2>2, <3>1, <1>0 DEF PutResult
        <4>2. QED
          BY <1>1, <3>1, <4>1 DEF RowsOf
      <3>2. CASE i = Len(lines) + 1
        BY <2>2, <3>2, <1>0 DEF PutResult
      <3>3. QED
        BY <2>2, <3>1, <3>2, <1>0 DEF PutResult
    <2>3. QED
      BY <2>1, <2>2
  <1>2. QED
    BY <1>1 DEF RowsOf, Parses, new

(* Every row of the file is still there after a text was put behind a      *)
(* sealed line.                                                            *)
LEMMA PutKeepsRows ==
    ASSUME NEW lines \in Seq(Line), NEW row \in Row \cup {NoRow}, NEW ended \in BOOLEAN,
           TailOpen(lines) => ~Parses(Last(lines))
    PROVE  RowsOf(lines) \subseteq RowsOf(Put(lines, row, ended))
  <1> DEFINE new == Put(lines, row, ended)
  <1>0. PutResult(lines, row, ended, new)
    BY PutFacts
  <1> HIDE DEF new
  <1>1. ASSUME NEW i \in 1 .. Len(lines), Parses(lines[i])
        PROVE  lines[i].row \in RowsOf(new)
    <2>1. CASE TailOpen(lines)
      <3>1. lines # <<>>
        BY <2>1 DEF TailOpen
      <3>2. i # Len(lines)
        BY <1>1, <2>1, <3>1, FrontFacts
      <3>3. i \in 1 .. Len(lines) - 1 /\ i \in 1 .. Len(new)
        BY <2>1, <3>2, <1>0 DEF PutResult
      <3>4. new[i] = lines[i]
        BY <2>1, <3>3, <1>0 DEF PutResult
      <3>5. QED
        BY <1>1, <3>3, <3>4 DEF RowsOf
    <2>2. CASE ~TailOpen(lines)
      <3>1. new[i] = lines[i] /\ i \in 1 .. Len(new)
        BY <2>2, <1>0 DEF PutResult
      <3>2. QED
        BY <1>1, <3>1 DEF RowsOf
    <2>3. QED
      BY <2>1, <2>2
  <1>2. QED
    BY <1>1 DEF RowsOf, new

LEMMA PutAddsRow ==
    ASSUME NEW lines \in Seq(Line), NEW row \in Row, NEW ended \in BOOLEAN,
           ~TailOpen(lines)
    PROVE  row \in RowsOf(Put(lines, row, ended))
  <1> DEFINE new == Put(lines, row, ended)
  <1>0. PutResult(lines, row, ended, new)
    BY PutFacts
  <1> HIDE DEF new
  <1>1. /\ Len(lines) + 1 \in 1 .. Len(new)
        /\ new[Len(lines) + 1].row = row
    BY <1>0 DEF PutResult
  <1>2. Parses(new[Len(lines) + 1])
    BY <1>1, NoRowIsNotARow DEF Parses
  <1>3. QED
    BY <1>1, <1>2 DEF RowsOf, new

(* Appending the row of a task that has none keeps one row per task. *)
LEMMA PutKeepsUnique ==
    ASSUME NEW lines \in Seq(Line), NEW row \in Row \cup {NoRow}, NEW ended \in BOOLEAN,
           OneRowPerTask(lines),
           row = NoRow \/ row.task \notin TasksOf(lines)
    PROVE  OneRowPerTask(Put(lines, row, ended))
  <1> DEFINE new == Put(lines, row, ended)
  <1>0. PutResult(lines, row, ended, new)
    BY PutFacts
  <1> HIDE DEF new
  <1> SUFFICES ASSUME NEW i \in 1 .. Len(new), NEW j \in 1 .. Len(new),
                      Parses(new[i]), Parses(new[j]), new[i].row.task = new[j].row.task
               PROVE  i = j
    BY DEF OneRowPerTask, new
  <1>1. CASE TailOpen(lines)
    <2>1. i \in 1 .. Len(lines) - 1 /\ j \in 1 .. Len(lines) - 1
      BY <1>1, <1>0 DEF Parses, PutResult
    <2>2. new[i] = lines[i] /\ new[j] = lines[j]
      BY <1>1, <2>1, <1>0 DEF PutResult
    <2>3. QED
      BY <2>1, <2>2 DEF OneRowPerTask
  <1>2. CASE ~TailOpen(lines)
    <2>1. ASSUME NEW m \in 1 .. Len(lines), Parses(new[m])
          PROVE  new[m] = lines[m] /\ new[m].row.task \in TasksOf(lines)
      <3>1. new[m] = lines[m]
        BY <1>2, <1>0 DEF PutResult
      <3>2. lines[m].row \in RowsOf(lines)
        BY <2>1, <3>1 DEF RowsOf
      <3>3. QED
        BY <3>1, <3>2 DEF TasksOf
    <2>2. ASSUME NEW m \in 1 .. Len(new), m \notin 1 .. Len(lines), Parses(new[m])
          PROVE  m = Len(lines) + 1 /\ new[m].row.task \notin TasksOf(lines)
      <3>1. m = Len(lines) + 1
        BY <1>2, <2>2, <1>0 DEF PutResult
      <3>2. new[m].row = row
        BY <1>2, <3>1, <1>0 DEF PutResult
      <3>3. QED
        BY <2>2, <3>1, <3>2 DEF Parses
    <2>3. CASE i \in 1 .. Len(lines) /\ j \in 1 .. Len(lines)
      BY <2>1, <2>3 DEF OneRowPerTask
    <2>4. QED
      BY <2>1, <2>2, <2>3
  <1>3. QED
    BY <1>1, <1>2

(* The repair keeps a prefix that holds every line that parses.            *)
RepairResult(lines, new) ==
    /\ new \in Seq(Line)
    /\ Len(new) \in Nat /\ Len(lines) \in Nat /\ Len(new) <= Len(lines)
    /\ \A i \in 1 .. Len(new) : new[i] = lines[i]
    /\ \A i \in 1 .. Len(lines) : Parses(lines[i]) => i \in 1 .. Len(new)
    /\ Len(new) = Len(lines) => Len(lines) = 0 \/ Parses(lines[Len(lines)])

LEMMA RepairFacts ==
    ASSUME NEW lines \in Seq(Line)
    PROVE  RepairResult(lines, RepairTail(lines))
  <1> DEFINE new == RepairTail(lines)
  <1>1. CASE lines # <<>> /\ ~Parses(Last(lines))
    <2>1. new = Front(lines)
      BY <1>1 DEF RepairTail
    <2>2. /\ Front(lines) \in Seq(Line)
          /\ Len(lines) \in Nat \ {0}
          /\ Len(Front(lines)) = Len(lines) - 1
          /\ \A i \in 1 .. Len(lines) - 1 : Front(lines)[i] = lines[i]
          /\ Last(lines) = lines[Len(lines)]
      BY <1>1, FrontFacts
    <2> HIDE DEF new
    <2>3. \A i \in 1 .. Len(lines) : Parses(lines[i]) => i # Len(lines)
      BY <1>1, <2>2
    <2>4. QED
      BY <2>1, <2>2, <2>3 DEF RepairResult, new
  <1>2. CASE ~(lines # <<>> /\ ~Parses(Last(lines)))
    <2>1. new = lines
      BY <1>2 DEF RepairTail
    <2>2. Len(lines) \in Nat /\ (Len(lines) = 0 \/ Parses(lines[Len(lines)]))
      BY <1>2, EmptySeq DEF Last
    <2> HIDE DEF new
    <2>3. QED
      BY <2>1, <2>2 DEF RepairResult, new
  <1>3. QED
    BY <1>1, <1>2

LEMMA RepairRows ==
    ASSUME NEW lines \in Seq(Line)
    PROVE  RowsOf(RepairTail(lines)) = RowsOf(lines)
  <1> DEFINE new == RepairTail(lines)
  <1>0. RepairResult(lines, new)
    BY RepairFacts
  <1> HIDE DEF new
  <1>1. ASSUME NEW i \in 1 .. Len(new), Parses(new[i])
        PROVE  new[i].row \in RowsOf(lines)
    BY <1>0, <1>1 DEF RowsOf, RepairResult
  <1>2. ASSUME NEW i \in 1 .. Len(lines), Parses(lines[i])
        PROVE  lines[i].row \in RowsOf(new)
    <2>1. i \in 1 .. Len(new) /\ new[i] = lines[i]
      BY <1>0, <1>2 DEF RepairResult
    <2>2. QED
      BY <1>2, <2>1 DEF RowsOf
  <1>3. QED
    BY <1>1, <1>2 DEF RowsOf, new

LEMMA RepairKeepsUnique ==
    ASSUME NEW lines \in Seq(Line), OneRowPerTask(lines)
    PROVE  OneRowPerTask(RepairTail(lines))
  BY RepairFacts DEF OneRowPerTask, RepairResult

(***************************************************************************)
(* A write that does not complete: what it can add and what it cannot.     *)
(***************************************************************************)
LEMMA PutTasks ==
    ASSUME NEW lines \in Seq(Line), NEW row \in Row \cup {NoRow}, NEW ended \in BOOLEAN
    PROVE  \A t \in TasksOf(Put(lines, row, ended)) :
              t \in TasksOf(lines) \/ (row \in Row /\ t = row.task)
  BY PutRows DEF TasksOf

LEMMA TornFacts ==
    ASSUME NEW lines \in Seq(Line), NEW row \in Row, NEW tear \in TearPoints,
           OneRowPerTask(lines), row.task \notin TasksOf(lines)
    PROVE  LET new == AppendTorn(lines, row, tear) IN
           /\ OneRowPerTask(new)
           /\ \A t \in TasksOf(new) : t \in TasksOf(lines) \/ t = row.task
  <1>1. CASE tear = "nothing"
    BY <1>1 DEF AppendTorn
  <1>2. CASE tear = "fragment"
    <2>1. AppendTorn(lines, row, tear) = Put(lines, NoRow, FALSE)
      BY <1>2 DEF AppendTorn
    <2>2. OneRowPerTask(Put(lines, NoRow, FALSE))
      BY PutKeepsUnique
    <2>3. \A t \in TasksOf(Put(lines, NoRow, FALSE)) : t \in TasksOf(lines)
      BY PutTasks, NoRowIsNotARow
    <2>4. QED
      BY <2>1, <2>2, <2>3
  <1>3. CASE tear = "no_newline"
    <2>1. AppendTorn(lines, row, tear) = Put(lines, row, FALSE)
      BY <1>3 DEF AppendTorn
    <2>2. QED
      BY <2>1, PutTasks, PutKeepsUnique
  <1>4. QED
    BY <1>1, <1>2, <1>3 DEF TearPoints

(***************************************************************************)
(* Sealed files: rows are only ever added to them.                         *)
(***************************************************************************)
LEMMA SealedTail ==
    ASSUME NEW lines \in Seq(Line), Sealed(lines), TailOpen(lines)
    PROVE  ~Parses(Last(lines))
  <1>1. Len(lines) \in Nat \ {0} /\ Last(lines) = lines[Len(lines)]
    BY FrontFacts DEF TailOpen
  <1>2. QED
    BY <1>1 DEF Sealed, TailOpen

LEMMA PutKeepsSealed ==
    ASSUME NEW lines \in Seq(Line), NEW row \in Row \cup {NoRow}, NEW ended \in BOOLEAN,
           Sealed(lines), row = NoRow \/ ended
    PROVE  Sealed(Put(lines, row, ended))
  <1> DEFINE new == Put(lines, row, ended)
  <1>0. PutResult(lines, row, ended, new)
    BY PutFacts
  <1> HIDE DEF new
  <1>1. CASE TailOpen(lines)
    BY <1>0, <1>1 DEF PutResult, Sealed, Parses, new
  <1>2. CASE ~TailOpen(lines)
    <2>1. \A i \in 1 .. Len(lines) : lines[i].ended
      <3>1. CASE lines = <<>>
        BY <3>1, <1>0 DEF PutResult
      <3>2. CASE lines # <<>>
        <4>1. lines[Len(lines)].ended
          BY <1>2, <3>2, FrontFacts DEF TailOpen
        <4>2. QED
          BY <1>0, <4>1 DEF Sealed, PutResult
      <3>3. QED
        BY <3>1, <3>2
    <2>2. QED
      BY <1>0, <1>2, <2>1 DEF PutResult, Sealed, Parses, new
  <1>3. QED
    BY <1>1, <1>2

LEMMA RepairKeepsSealed ==
    ASSUME NEW lines \in Seq(Line), Sealed(lines)
    PROVE  Sealed(RepairTail(lines)) /\ ~TailOpen(RepairTail(lines))
  <1> DEFINE new == RepairTail(lines)
  <1>0. RepairResult(lines, new)
    BY RepairFacts
  <1> HIDE DEF new
  <1>1. Sealed(new)
    BY <1>0 DEF RepairResult, Sealed
  <1>2. \A i \in 1 .. Len(new) : new[i].ended
    <2>1. CASE Len(new) = Len(lines)
      BY <1>0, <2>1 DEF RepairResult, Sealed
    <2>2. CASE Len(new) # Len(lines)
      BY <1>0, <2>2 DEF RepairResult, Sealed
    <2>3. QED
      BY <2>1, <2>2
  <1>3. ~TailOpen(new)
    <2>1. new # <<>> => Len(new) \in Nat \ {0} /\ Last(new) = new[Len(new)]
      BY <1>0, FrontFacts DEF RepairResult
    <2>2. QED
      BY <1>2, <2>1 DEF TailOpen
  <1>4. QED
    BY <1>1, <1>3 DEF new

(* A write torn before the end of its text spoils no row.                  *)
LEMMA TornSealed ==
    ASSUME NEW lines \in Seq(Line), NEW row \in Row, NEW tear \in {"nothing", "fragment"},
           Sealed(lines)
    PROVE  LET new == AppendTorn(lines, row, tear) IN
           /\ Sealed(new)
           /\ RowsOf(new) = RowsOf(lines)
  <1>1. CASE tear = "nothing"
    BY <1>1 DEF AppendTorn
  <1>2. CASE tear = "fragment"
    <2>1. AppendTorn(lines, row, tear) = Put(lines, NoRow, FALSE)
      BY <1>2 DEF AppendTorn
    <2>2. Sealed(Put(lines, NoRow, FALSE))
      BY PutKeepsSealed
    <2>3. RowsOf(Put(lines, NoRow, FALSE)) \subseteq RowsOf(lines)
      <3>1. /\ RowsOf(Put(lines, NoRow, FALSE)) \subseteq RowsOf(lines) \cup {NoRow}
            /\ NoRow \notin RowsOf(Put(lines, NoRow, FALSE))
        BY PutRows
      <3>2. QED
        BY <3>1
    <2>4. RowsOf(lines) \subseteq RowsOf(Put(lines, NoRow, FALSE))
      BY PutKeepsRows, SealedTail
    <2>5. QED
      BY <2>1, <2>2, <2>3, <2>4
  <1>3. QED
    BY <1>1, <1>2

(***************************************************************************)
(* Files without an unparseable line.                                      *)
(***************************************************************************)
AllParse(lines) == \A i \in 1 .. Len(lines) : Parses(lines[i])

LEMMA ParsedTail ==
    ASSUME NEW lines \in Seq(Line), Sealed(lines), AllParse(lines)
    PROVE  ~TailOpen(lines)
  <1> SUFFICES ASSUME TailOpen(lines) PROVE FALSE
    OBVIOUS
  <1>1. Len(lines) \in Nat \ {0} /\ Last(lines) = lines[Len(lines)]
    BY FrontFacts DEF TailOpen
  <1>2. QED
    BY <1>1, SealedTail DEF AllParse

LEMMA PutKeepsParsing ==
    ASSUME NEW lines \in Seq(Line), NEW row \in Row \cup {NoRow}, NEW ended \in BOOLEAN,
           Sealed(lines), AllParse(lines)
    PROVE  /\ Loadable(Put(lines, row, ended))
           /\ row # NoRow => AllParse(Put(lines, row, ended))
  <1> DEFINE new == Put(lines, row, ended)
  <1>1. PutResult(lines, row, ended, new) /\ ~TailOpen(lines)
    BY PutFacts, ParsedTail
  <1> HIDE DEF new
  <1>2. /\ Len(new) = Len(lines) + 1 /\ Len(lines) \in Nat
        /\ \A i \in 1 .. Len(lines) : Parses(new[i])
        /\ new[Len(lines) + 1].row = row
    BY <1>1 DEF PutResult, AllParse
  <1>3. Loadable(new)
    BY <1>2 DEF Loadable
  <1>4. row # NoRow => AllParse(new)
    BY <1>2 DEF AllParse, Parses
  <1>5. QED
    BY <1>3, <1>4 DEF new

\* What a process that dies leaves behind can be read back.
LEMMA TornLoadable ==
    ASSUME NEW lines \in Seq(Line), NEW row \in Row, NEW tear \in {"nothing", "fragment"},
           Sealed(lines), AllParse(lines)
    PROVE  Loadable(AppendTorn(lines, row, tear))
  <1>1. CASE tear = "nothing"
    <2>1. Loadable(lines)
      <3>1. Len(lines) \in Nat
        OBVIOUS
      <3>2. QED
        BY <3>1 DEF AllParse, Loadable
    <2>2. QED
      BY <1>1, <2>1 DEF AppendTorn
  <1>2. CASE tear = "fragment"
    BY <1>2, PutKeepsParsing DEF AppendTorn
  <1>3. QED
    BY <1>1, <1>2

LEMMA RepairParses ==
    ASSUME NEW lines \in Seq(Line), Loadable(lines)
    PROVE  AllParse(RepairTail(lines)) /\ Loadable(RepairTail(lines))
  <1> DEFINE new == RepairTail(lines)
  <1>1. RepairResult(lines, new)
    BY RepairFacts
  <1> HIDE DEF new
  <1>2. ASSUME NEW i \in 1 .. Len(new) PROVE Parses(new[i])
    <2>1. new[i] = lines[i] /\ i \in 1 .. Len(lines)
      BY <1>1 DEF RepairResult
    <2>2. CASE i = Len(lines)
      BY <1>1, <2>1, <2>2 DEF RepairResult
    <2>3. CASE i # Len(lines)
      <3>1. i \in 1 .. Len(lines) - 1
        BY <1>1, <2>1, <2>3 DEF RepairResult
      <3>2. QED
        BY <2>1, <3>1 DEF Loadable
    <2>4. QED
      BY <2>2, <2>3
  <1>3. Len(new) \in Nat
    BY <1>1 DEF RepairResult
  <1>4. QED
    BY <1>2, <1>3 DEF AllParse, Loadable, new
=============================================================================
