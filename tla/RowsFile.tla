------------------------------ MODULE RowsFile ------------------------------
(***************************************************************************)
(* The file rows.jsonl of one run directory (src/harness/runner.py): the   *)
(* only durable store of measurements.  It is a sequence of lines; a       *)
(* process only ever appends to it, and only the repair at the start of an *)
(* invocation replaces it.  What a process that dies, or a write that      *)
(* fails, leaves behind depends on how much of the buffered line reached   *)
(* the disk, so the two things a reader can see of a line are modelled:    *)
(* which row it parses to, if any, and whether its newline was written.    *)
(***************************************************************************)
EXTENDS Naturals, SequencesExt

CONSTANTS NumTasks,     \* (item, replicate) pairs of the run, in submission order
          NumVersions,  \* model versions a provider may report, oldest first
          NumRubrics    \* judge versions (rubric + prompt + few-shots), oldest first

ASSUME SizesAssumption ==
    /\ NumTasks \in Nat \ {0}
    /\ NumVersions \in Nat \ {0}
    /\ NumRubrics \in Nat \ {0}

Tasks    == 1 .. NumTasks
Versions == 1 .. NumVersions
Rubrics  == 1 .. NumRubrics

\* None stands for "no version observed" (the key is absent from served_versions).
None == 0

(***************************************************************************)
(* A row names its (item, replicate), the candidate version that served it *)
(* and, when the judge was called, the judge version that served that.     *)
(* rubric and traced are not columns of the file: they record under which  *)
(* judge_version() the row was judged and whether its spans were delivered *)
(* so that properties can compare the manifest with what really happened.  *)
(***************************************************************************)
Row == [task      : Tasks,
        candidate : Versions,
        judge     : Versions \cup {None},
        rubric    : Rubrics,
        traced    : BOOLEAN]

\* The row of a line json.loads rejects: a truncated fragment, or two texts
\* run together on one line.
NoRow == [task |-> None, candidate |-> None, judge |-> None,
          rubric |-> None, traced |-> FALSE]

Line == [row : Row \cup {NoRow}, ended : BOOLEAN]

\* How much of a line reaches the file when its write does not complete:
\* nothing, a strict prefix of the JSON text, or all of it but the newline.
TearPoints == {"nothing", "fragment", "no_newline"}

Parses(line) == line.row # NoRow

\* The next byte written lands on the last line instead of on a new one.
TailOpen(lines) == lines # <<>> /\ ~Last(lines).ended

\* Put one more piece of text at the end of the file.  Text that lands on an
\* open line makes it unparseable, whatever either of the two was.
Put(lines, row, ended) ==
    IF TailOpen(lines)
    THEN Append(Front(lines), [row |-> NoRow, ended |-> ended])
    ELSE Append(lines, [row |-> row, ended |-> ended])

AppendRow(lines, row) == Put(lines, row, TRUE)

AppendTorn(lines, row, tear) ==
    CASE tear = "nothing"    -> lines
      [] tear = "fragment"   -> Put(lines, NoRow, FALSE)
      [] tear = "no_newline" -> Put(lines, row, FALSE)

\* Faulty variant of RepairTail: an unparseable tail is noticed, not removed.
RepairTail_Noop(lines) == lines

\* Faulty variant of RepairTail: the last line goes whether it parses or not.
RepairTail_Always(lines) == IF lines # <<>> THEN Front(lines) ELSE lines

\* _repair_truncated_tail: drop the last line if it does not parse.
RepairTail(lines) ==
    IF lines # <<>> /\ ~Parses(Last(lines)) THEN Front(lines) ELSE lines

\* _read_row_dicts raises JSONDecodeError unless every line but the last parses.
Loadable(lines) == \A i \in 1 .. Len(lines) - 1 : Parses(lines[i])

\* What _read_row_dicts returns, and the keys _load_completed_keys makes of it.
RowsOf(lines)  == {lines[i].row : i \in {j \in 1 .. Len(lines) : Parses(lines[j])}}
TasksOf(lines) == {row.task : row \in RowsOf(lines)}

\* No two lines parse to rows of one task.
OneRowPerTask(lines) ==
    \A i, j \in 1 .. Len(lines) :
        Parses(lines[i]) /\ Parses(lines[j]) /\ lines[i].row.task = lines[j].row.task
            => i = j

\* Every row has its newline, and so has every line but the last: no row can be
\* spoilt by what is appended next.
Sealed(lines) ==
    /\ \A i \in 1 .. Len(lines) : Parses(lines[i]) => lines[i].ended
    /\ \A i \in 1 .. Len(lines) - 1 : lines[i].ended
=============================================================================
