------------------------------ MODULE Reconcile ------------------------------
(***************************************************************************)
(* The comparison of two files: compare_dataframes of main.py with its two *)
(* engines, _key_based_diff and _content_based_diff.                       *)
(*                                                                         *)
(* A file is a sequence of rows.  A cell is the text the file holds; the   *)
(* texts of NullTexts all stand for "no value" (_NULL_SENTINELS), and two  *)
(* other texts may be spellings of one number or one date: Value says of   *)
(* what (that amounts may differ by 1e-9 is left out).  Columns classified *)
(* as metadata are not among Cols.                                         *)
(*                                                                         *)
(* file1, file2   the files                                                *)
(* keyed          the caller named key columns or infer_keys found some    *)
(* report         the answer, or NoReport: the rows (by number) counted as *)
(*                missing on the other side (only1, only2) and those of    *)
(*                them that are listed, the pairs compared, counted as     *)
(*                modified and listed, the duplicates, and whether it is   *)
(*                said to be of a sample (truncation_note)                 *)
(***************************************************************************)
EXTENDS Naturals, Sequences, FiniteSets

CONSTANTS Cols,          \* the first _MAX_DATA_COLS columns with data: those compared
          KeyTexts,      \* texts in the key columns
          Cells,         \* the data of a row: Cols to texts
          NullTexts,
          Null,
          Value,         \* from texts to the numbers and dates they spell
          MaxRows,       \* bound on the length of a file, for model checking
          MaxListed,     \* _MAX_DIFF_ROWS: the longest list an answer shows
          RowHashCap,    \* _ROW_HASH_CAP: rows compared without a key
          NoReport

ASSUME ReconAssumption ==
    /\ Null \in NullTexts
    /\ MaxRows \in Nat
    /\ MaxListed \in Nat
    /\ RowHashCap \in Nat

VARIABLES file1, file2, keyed, report

reconVars == <<file1, file2, keyed, report>>

Row   == [key : KeyTexts, cells : Cells]
Files == UNION {[1..n -> Row] : n \in 0..MaxRows}

ReconTypeOK ==
    /\ file1 \in Files
    /\ file2 \in Files
    /\ keyed \in BOOLEAN
    /\ \/ report = NoReport
       \/ /\ DOMAIN report = {"only1", "only2", "listed1", "listed2", "merged", "modified",
                               "listed", "dups1", "dups2", "truncated"}
          /\ report.listed1 \subseteq report.only1
          /\ report.listed2 \subseteq report.only2
          /\ report.truncated \in BOOLEAN
          /\ report.only1 \cup report.dups1 \subseteq DOMAIN file1
          /\ report.only2 \cup report.dups2 \subseteq DOMAIN file2
          /\ report.merged \subseteq (DOMAIN file1) \X (DOMAIN file2)
          /\ report.listed \subseteq report.modified
          /\ report.modified \subseteq report.merged

ReconInit ==
    /\ file1 \in Files
    /\ file2 \in Files
    /\ keyed \in BOOLEAN
    /\ report = NoReport

------------------------------------------------------------------------------
(* Cells and keys. *)

\* A cell or key without the spellings of "no value".
Norm(t) == IF t \in NullTexts THEN Null ELSE t

SameText(s, t) == Norm(s) = Norm(t)

\* Equal, or two spellings of one number or date.
SameValue(s, t) ==
    \/ SameText(s, t)
    \/ s \notin NullTexts /\ t \notin NullTexts /\ Value[s] = Value[t]

Key(f, i) == Norm(f[i].key)
Keys(f)   == {Key(f, i) : i \in DOMAIN f}

\* Columns in which two rows differ in value.
Breaks(r, s) == {c \in Cols : ~SameValue(r.cells[c], s.cells[c])}

\* The rows of one key are numbered from 0 in the order sort_index leaves them,
\* which need not be that of the file: its quicksort is not stable.
Positions(f) ==
    {pos \in [DOMAIN f -> 0..Len(f)] :
        \A i \in DOMAIN f :
            /\ \A j \in DOMAIN f : i # j /\ Key(f, i) = Key(f, j) => pos[i] # pos[j]
            /\ \A p \in 0..pos[i] : \E j \in DOMAIN f : Key(f, i) = Key(f, j) /\ pos[j] = p}

------------------------------------------------------------------------------
(* The engine with a key. *)

\* Mutant: the rows of a key are taken to be numbered from 1.
M_KeyOnly(f, g, pos) == {i \in DOMAIN f : pos[i] = 1 /\ Key(f, i) \notin Keys(g)}

\* A key missing on the other side counts once; it is shown with the data of its first
\* row.
KeyOnly(f, g, pos) == {i \in DOMAIN f : pos[i] = 0 /\ Key(f, i) \notin Keys(g)}

\* Mutant: the sides number the rows of a key from 0 and from 1.
M_Merged(f, g, pos1, pos2) ==
    {p \in (DOMAIN f) \X (DOMAIN g) :
        Key(f, p[1]) = Key(g, p[2]) /\ pos1[p[1]] = pos2[p[2]] + 1}

\* The inner merge on key and position; with unique keys every position is 0.
Merged(f, g, pos1, pos2) ==
    {p \in (DOMAIN f) \X (DOMAIN g) :
        Key(f, p[1]) = Key(g, p[2]) /\ pos1[p[1]] = pos2[p[2]]}

\* Mutant: rows are looked up by key again instead of taken from the merge.
M_Modified(f, g, merged) ==
    {p \in (DOMAIN f) \X (DOMAIN g) :
        Key(f, p[1]) = Key(g, p[2]) /\ Breaks(f[p[1]], g[p[2]]) # {}}

Modified(f, g, merged) == {p \in merged : Breaks(f[p[1]], g[p[2]]) # {}}

KeyDups(f) == {i \in DOMAIN f : \E j \in DOMAIN f \ {i} : Key(f, i) = Key(f, j)}

\* Parts of S, of n elements if it has more than that, all of it otherwise.
Excerpts(S, n) ==
    {L \in SUBSET S : Cardinality(L) = IF Cardinality(S) <= n THEN Cardinality(S) ELSE n}

\* What a list shows of them.  Which ones is a matter of sorting.
Capped(S) == Excerpts(S, MaxListed)

KeyBasedDiff ==
    /\ report = NoReport
    /\ keyed
    /\ \E pos1 \in Positions(file1), pos2 \in Positions(file2) :
        LET only1    == KeyOnly(file1, file2, pos1)
            only2    == KeyOnly(file2, file1, pos2)
            merged   == Merged(file1, file2, pos1, pos2)
            modified == Modified(file1, file2, merged)
        IN \E listed1 \in Capped(only1), listed2 \in Capped(only2), listed \in Capped(modified) :
            report' = [only1     |-> only1,
                       only2     |-> only2,
                       listed1   |-> listed1,
                       listed2   |-> listed2,
                       merged    |-> merged,
                       modified  |-> modified,
                       listed    |-> listed,
                       dups1     |-> KeyDups(file1),
                       dups2     |-> KeyDups(file2),
                       truncated |-> FALSE]
    /\ UNCHANGED <<file1, file2, keyed>>

------------------------------------------------------------------------------
(* The engine without a key: rows are their texts, as they stand. *)

\* The rows that are hashed.
Hashed(f) == SubSeq(f, 1, IF Len(f) > RowHashCap THEN RowHashCap ELSE Len(f))

Copies(f, r) == {i \in DOMAIN f : f[i] = r}

\* Mutant: rows are compared as sets.
M_Surplus(f, g) == {i \in DOMAIN f : Copies(g, f[i]) = {}}

\* The copies of a row that f has beyond those of g.
Surplus(f, g) ==
    {i \in DOMAIN f :
        Cardinality({j \in Copies(f, f[i]) : j <= i}) > Cardinality(Copies(g, f[i]))}

RowDups(f) == {i \in DOMAIN f : Copies(f, f[i]) # {i}}

ContentBasedDiff ==
    /\ report = NoReport
    /\ ~keyed
    /\ LET only1 == Surplus(Hashed(file1), Hashed(file2))
           only2 == Surplus(Hashed(file2), Hashed(file1))
       IN \E listed1 \in Capped(only1), listed2 \in Capped(only2) :
            report' = [only1     |-> only1,
                       only2     |-> only2,
                       listed1   |-> listed1,
                       listed2   |-> listed2,
                       merged    |-> {},
                       modified  |-> {},
                       listed    |-> {},
                       dups1     |-> RowDups(file1),
                       dups2     |-> RowDups(file2),
                       truncated |-> Len(file1) > RowHashCap \/ Len(file2) > RowHashCap]
    /\ UNCHANGED <<file1, file2, keyed>>

Answered == report # NoReport /\ UNCHANGED reconVars

ReconNext == KeyBasedDiff \/ ContentBasedDiff \/ Answered

ReconSpec == ReconInit /\ [][ReconNext]_reconVars

------------------------------------------------------------------------------
(* Properties. *)

Answer == report # NoReport

Unique == KeyDups(file1) = {} /\ KeyDups(file2) = {}

\* Row i of f and row j of g are the same record.
SameRecord(f, i, g, j) ==
    Key(f, i) = Key(g, j) /\ Breaks(f[i], g[j]) = {}

\* Every row of either file has its record in the other.
SameRecords ==
    /\ \A i \in DOMAIN file1 : \E j \in DOMAIN file2 : SameRecord(file1, i, file2, j)
    /\ \A j \in DOMAIN file2 : \E i \in DOMAIN file1 : SameRecord(file1, i, file2, j)

\* A clean answer means equal files: when the engine with a key finds no duplicate, it
\* counts no row and no break exactly if the files hold the same records, in whatever
\* order and however they spell their numbers, dates and missing values
\* (compare_dataframes).
CleanMeansEqual ==
    Answer /\ keyed /\ report.dups1 = {} /\ report.dups2 = {} =>
        (report.only1 = {} /\ report.only2 = {} /\ report.modified = {} <=> SameRecords)

\* The key of row i is listed as missing on the other side, or counted so when the list
\* is full.
SaidMissing(f, i, only, listed) ==
    \E k \in only :
        /\ Key(f, k) = Key(f, i)
        /\ k \in listed \/ Cardinality(listed) = MaxListed

\* No row disappears without a trace: one that is compared with no row and whose key
\* is not said to be missing on the other side is counted among the duplicates of its
\* file.  (The surplus rows of a key that both files have are shown nowhere else.)
SilentRowsAreDuplicates ==
    Answer /\ keyed =>
        /\ \A i \in DOMAIN file1 :
            \/ \E p \in report.merged : p[1] = i
            \/ SaidMissing(file1, i, report.only1, report.listed1)
            \/ i \in report.dups1
        /\ \A j \in DOMAIN file2 :
            \/ \E p \in report.merged : p[2] = j
            \/ SaidMissing(file2, j, report.only2, report.listed2)
            \/ j \in report.dups2

\* The rows an answer is about: those hashed if it says that it is of a sample.
Accounted(f) == IF report.truncated THEN Hashed(f) ELSE f

\* The counts explain the difference in length of what is reported on, without a key or
\* with a unique one.
CountsBalance ==
    Answer /\ (keyed => Unique) =>
        Len(Accounted(file1)) + Cardinality(report.only2)
            = Len(Accounted(file2)) + Cardinality(report.only1)
==============================================================================
