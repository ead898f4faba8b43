-------------------------------- MODULE NWay --------------------------------
(***************************************************************************)
(* The comparison of three sources or more: compare_dataframes_nway of     *)
(* main.py.  It keeps the first row of every key of a source and compares  *)
(* each with that of the first source that has the key, cell by cell       *)
(* (_values_differ_scalar).  The values of a key are kept by file name.    *)
(*                                                                         *)
(* Only so many keys are listed, and dates are recognised in a sample of   *)
(* the first keys.  The order of the keys, by their text, is left open.    *)
(* Keys of one source only are counted, not listed.                        *)
(*                                                                         *)
(* sources  the files in upload order                                      *)
(* named    the name of each                                               *)
(* matrix   the answer, or NoReport                                        *)
(***************************************************************************)
EXTENDS Reconcile

CONSTANTS MaxSources,  \* bound on their number, for model checking
          SourceFiles, \* the files they are chosen from
          FileNames,
          DateTexts,   \* texts that parse as a date
          SampleSize   \* cells looked at to recognise dates, 50 in the code

ASSUME NWayAssumption ==
    /\ MaxSources \in Nat
    /\ SourceFiles \subseteq Files
    /\ SampleSize \in Nat

VARIABLES sources, named, matrix

nwayVars == <<sources, named, matrix>>

Sources     == DOMAIN sources
AllKeys     == UNION {Keys(sources[s]) : s \in Sources}
Presence(k) == {s \in Sources : k \in Keys(sources[s])}

\* Two files are compared by the other engine.
Uploads == UNION {[1..n -> SourceFiles] : n \in 3..MaxSources}

NWayTypeOK ==
    /\ sources \in Uploads
    /\ named \in [Sources -> FileNames]
    /\ \/ matrix = NoReport
       \/ /\ DOMAIN matrix = {"full", "single", "partial", "listed", "breaks"}
          /\ matrix.full \cup matrix.single \cup matrix.partial \cup matrix.listed \subseteq AllKeys
          /\ matrix.full \cap matrix.single = {}
          /\ matrix.partial \cap (matrix.full \cup matrix.single) = {}
          /\ matrix.breaks \subseteq matrix.listed \X Cols

NWayInit ==
    /\ sources \in Uploads
    /\ named \in [Sources -> FileNames]
    /\ matrix = NoReport

------------------------------------------------------------------------------
\* The row a source keeps for key k: the first in the order of the file.
Kept(f, k) ==
    f[CHOOSE i \in DOMAIN f : Key(f, i) = k /\ \A j \in DOMAIN f : Key(f, j) = k => i <= j]

Cell(s, k, c) == Kept(sources[s], k).cells[c]

\* The cells of column c that hold anything, among the keys in F.
Filled(F, c) ==
    {p \in Sources \X F : p[2] \in Keys(sources[p[1]]) /\ Cell(p[1], p[2], c) \notin NullTexts}

\* The first of them, source by source.
Samples(F, c) ==
    {S \in Excerpts(Filled(F, c), SampleSize) :
        \A p \in S, q \in Filled(F, c) \ S : p[1] <= q[1]}

MostlyDates(S, c) ==
    2 * Cardinality({p \in S : Cell(p[1], p[2], c) \in DateTexts}) > Cardinality(S)

\* The columns taken for dates may be those.
DateLike(F, dates) ==
    \A c \in Cols : \E S \in Samples(F, c) : c \in dates <=> MostlyDates(S, c)

\* Mutant: dates are compared as texts.
M_SameScalar(dates, c, s, t) ==
    \/ SameText(s, t)
    \/ {s, t} \cap (NullTexts \cup DateTexts) = {} /\ Value[s] = Value[t]

\* Spellings of a date are recognised in a column of dates only.
SameScalar(dates, c, s, t) ==
    \/ SameText(s, t)
    \/ /\ s \notin NullTexts /\ t \notin NullTexts /\ Value[s] = Value[t]
       /\ s \in DateTexts => c \in dates

\* The sources whose values are kept: of those of one name, the last that has the key.
Heard(k) == {s \in Presence(k) : \A t \in Presence(k) : named[t] = named[s] => t <= s}

\* The first source that has the key, or the one whose value took its place.
Reference(k) ==
    LET first == CHOOSE s \in Presence(k) : \A t \in Presence(k) : s <= t
    IN  CHOOSE s \in Heard(k) : named[s] = named[first]

\* Mutant: only keys that every source has are compared.
M_Disagree(dates, k, c) ==
    /\ Presence(k) = Sources
    /\ \E s \in Heard(k) : ~SameScalar(dates, c, Cell(Reference(k), k, c), Cell(s, k, c))

Disagree(dates, k, c) ==
    \E s \in Heard(k) : ~SameScalar(dates, c, Cell(Reference(k), k, c), Cell(s, k, c))

Broken(dates) == {k \in AllKeys : \E c \in Cols : Disagree(dates, k, c)}

Full    == {k \in AllKeys : Presence(k) = Sources}
Single  == {k \in AllKeys : Cardinality(Presence(k)) = 1}
Partial == AllKeys \ (Full \cup Single)

CompareNWay ==
    /\ matrix = NoReport
    /\ \E F \in Excerpts(AllKeys, SampleSize), dates \in SUBSET Cols :
        /\ DateLike(F, dates)
        /\ \E partial \in Capped(Partial), listed \in Capped(Broken(dates)) :
            matrix' = [full    |-> Full,
                       single  |-> Single,
                       partial |-> partial,
                       listed  |-> listed,
                       breaks  |-> {p \in listed \X Cols : Disagree(dates, p[1], p[2])}]
    /\ UNCHANGED <<sources, named>>

Compared == matrix # NoReport /\ UNCHANGED nwayVars

NWayNext == CompareNWay \/ Compared

NWaySpec == NWayInit /\ [][NWayNext]_nwayVars

------------------------------------------------------------------------------
(* Properties. *)

\* Comparing with one reference misses nothing: whichever two of the values kept of a key
\* break pairwise, their column is among the breaks of the key, or the list is full of
\* other keys (compare_dataframes_nway against _series_differs).
NWayMissesNothing ==
    matrix # NoReport =>
        \A k \in AllKeys : \A s, t \in Heard(k) :
            \A c \in Breaks(Kept(sources[s], k), Kept(sources[t], k)) :
                \/ <<k, c>> \in matrix.breaks
                \/ k \notin matrix.listed /\ Cardinality(matrix.listed) = MaxListed

\* A break listed is one that the engine for two files sees between two of the rows kept,
\* unless it is a date in a column where dates may be too rare to be recognised.
EnginesAgree ==
    matrix # NoReport =>
        \A k \in AllKeys, c \in Cols : <<k, c>> \in matrix.breaks =>
            \/ \E s, t \in Heard(k) : c \in Breaks(Kept(sources[s], k), Kept(sources[t], k))
            \/ /\ \E s \in Heard(k) : Cell(s, k, c) \in DateTexts
               /\ \E F \in Excerpts(AllKeys, SampleSize) :
                    \E S \in Samples(F, c) : ~MostlyDates(S, c)
==============================================================================
