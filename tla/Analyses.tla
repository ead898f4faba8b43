------------------------------ MODULE Analyses ------------------------------
(***************************************************************************)
(* The analyses together: finding a key, two files, several sources, rows  *)
(* without a key, files aligned for a comparison, tolerances, the quality  *)
(* of a file, a cross reference.  Each request has its own data and they   *)
(* share no state (main.py), so their steps interleave freely.             *)
(***************************************************************************)
EXTENDS FuzzyMatch, KeyInference, NWay, Alignment, Tolerances, Quality, CrossReference

analysesVars ==
    <<fuzzyVars, keyVars, reconVars, nwayVars, alignVars, toleranceVars, qualityVars, xrefVars>>

\* The types of all parts.
AnalysesTypeOK ==
    /\ FuzzyTypeOK
    /\ KeyTypeOK
    /\ ReconTypeOK
    /\ NWayTypeOK
    /\ AlignmentTypeOK
    /\ ToleranceTypeOK
    /\ QualityTypeOK
    /\ CrossReferenceTypeOK

AnalysesInit ==
    /\ FuzzyInit
    /\ KeyInit
    /\ ReconInit
    /\ NWayInit
    /\ AlignmentInit
    /\ ToleranceInit
    /\ QualityInit
    /\ CrossReferenceInit

------------------------------------------------------------------------------
(* A step of one analysis. *)

comparing == <<fuzzyVars, keyVars, reconVars, nwayVars>>
around    == <<alignVars, toleranceVars, qualityVars, xrefVars>>

FuzzyStep == FuzzyNext /\ UNCHANGED <<keyVars, reconVars, nwayVars, around>>
KeyStep   == KeyNext   /\ UNCHANGED <<fuzzyVars, reconVars, nwayVars, around>>
ReconStep == ReconNext /\ UNCHANGED <<fuzzyVars, keyVars, nwayVars, around>>
NWayStep  == NWayNext  /\ UNCHANGED <<fuzzyVars, keyVars, reconVars, around>>

AlignmentStep == AlignmentNext /\ UNCHANGED <<comparing, toleranceVars, qualityVars, xrefVars>>
ToleranceStep == ToleranceNext /\ UNCHANGED <<comparing, alignVars, qualityVars, xrefVars>>
QualityStep   == QualityNext   /\ UNCHANGED <<comparing, alignVars, toleranceVars, xrefVars>>
CrossReferenceStep ==
    CrossReferenceNext /\ UNCHANGED <<comparing, alignVars, toleranceVars, qualityVars>>

AnalysesNext ==
    \/ FuzzyStep
    \/ KeyStep
    \/ ReconStep
    \/ NWayStep
    \/ AlignmentStep
    \/ ToleranceStep
    \/ QualityStep
    \/ CrossReferenceStep

AnalysesSpec == AnalysesInit /\ [][AnalysesNext]_analysesVars
==============================================================================
