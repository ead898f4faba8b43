--------------------------- MODULE SessionsProofs ---------------------------
(***************************************************************************)
(* Sessions keeps one report per session, and rows of history that lead to *)
(* their sessions, for any number of sessions, files and overlapping       *)
(* requests.                                                               *)
(***************************************************************************)
EXTENDS Sessions, SequenceTheorems, TLAPS

\* An identifier is handed out before anything happens under it, and until a run
\* ends nothing is stored under its identifier.
UsedFirst ==
    /\ \A s \in Sids \ used : store[s] = Nothing
    /\ \A r \in busy : r.sid \in used
    /\ \A r \in busy : r.op = "analyze" => store[r.sid] = Nothing
    /\ \A h \in history : h.sid \in used

\* Each run has an identifier of its own.
OneRun ==
    \A r1, r2 \in busy : r1.op = "analyze" /\ r2.op = "analyze" /\ r1.sid = r2.sid => r1 = r2

\* While a rerun is under way its session is there, with the files it started from.
RerunsHaveSessions ==
    \A r \in busy : r.op # "analyze" =>
        /\ store[r.sid] # Nothing
        /\ store[r.sid].files = r.files
        /\ r.op \in {"recon", "recon-api"} => Len(r.files) >= 2

\* The rows a run has written so far are about its own files.
RowsOfRuns ==
    \A h \in history : \A r \in busy :
        r.op = "analyze" /\ h.sid = r.sid => Within(h.of, r.files)

Books == SessionsTypeOK /\ UsedFirst /\ OneRun /\ RerunsHaveSessions
SessionsInv == Books /\ OneReport /\ RowsOfRuns /\ RowsLeadToSessions

------------------------------------------------------------------------------
(* Tables and reports. *)

\* Tables of a list are a list by themselves, and so is the first with another.
LEMMA Parts ==
    ASSUME NEW fs \in Inputs
    PROVE  /\ fs \in Seq(Files) /\ Len(fs) \in Nat /\ Len(fs) >= 1
           /\ \A i \in 1..Len(fs) : <<fs[i]>> \in Inputs /\ Within(<<fs[i]>>, fs)
           /\ \A i \in 2..Len(fs) : <<fs[1], fs[i]>> \in Inputs /\ Within(<<fs[1], fs[i]>>, fs)
           /\ Within(fs, fs)
<1>1. fs \in Seq(Files) /\ Len(fs) \in 1..MaxSources
  BY SessionsAssumption
<1>2. \A i \in 1..Len(fs) : <<fs[i]>> \in Inputs
  BY SessionsAssumption
<1>3. \A i \in 2..Len(fs) : <<fs[1], fs[i]>> \in Inputs
  BY SessionsAssumption
<1>4. Len(fs) \in Nat /\ Len(fs) >= 1
  BY <1>1 DEF MaxSources
<1>5. ASSUME NEW i \in 1..Len(fs) PROVE Within(<<fs[i]>>, fs)
  BY <1>4 DEF Within
<1>6. ASSUME NEW i \in 2..Len(fs) PROVE Within(<<fs[1], fs[i]>>, fs)
  <2>1. i \in 1..Len(fs) /\ 1 \in 1..Len(fs)
    BY <1>4
  <2>2. ASSUME NEW k \in 1..2 PROVE \E j \in 1..Len(fs) : <<fs[1], fs[i]>>[k] = fs[j]
    <3>1. CASE k = 1
      BY <2>1, <3>1
    <3>2. CASE k = 2
      BY <2>1, <3>2
    <3> QED
      BY <3>1, <3>2
  <2> QED
    BY <2>2 DEF Within
<1>7. Within(fs, fs)
  BY DEF Within
<1> QED
  BY <1>1, <1>2, <1>3, <1>4, <1>5, <1>6, <1>7

\* A request is on a list of tables.
LEMMA RequestType ==
    ASSUME SessionsTypeOK, NEW r \in busy
    PROVE  /\ r \in Request
           /\ r.sid \in Sids /\ r.files \in Inputs /\ r.action \in Actions
           /\ r.reports \in Seq(Report) /\ Len(r.reports) \in Nat
BY DEF SessionsTypeOK, Request

LEMMA OneFileType ==
    ASSUME SessionsTypeOK, NEW r \in busy, NEW i \in 1..Len(r.files),
           NEW engine \in Engines, NEW by \in Bases
    PROVE  /\ OneFile(r, engine, i, by) \in Report
           /\ OneFile(r, engine, i, by).engine = engine
           /\ OneFile(r, engine, i, by).of \in Inputs
           /\ Within(OneFile(r, engine, i, by).of, r.files)
<1>1. <<r.files[i]>> \in Inputs /\ Within(<<r.files[i]>>, r.files)
  BY RequestType, Parts
<1> QED
  BY <1>1 DEF OneFile, Report

LEMMA ReconciledType ==
    ASSUME NEW fs \in Inputs, Len(fs) >= 2, NEW by \in Bases
    PROVE  /\ Reconciled(fs, by) \in Report
           /\ Reconciled(fs, by).of \in Inputs
           /\ Within(Reconciled(fs, by).of, fs)
<1>1. 2 \in 2..Len(fs)
  BY Parts
<1>2. <<fs[1], fs[2]>> \in Inputs /\ Within(<<fs[1], fs[2]>>, fs)
  BY <1>1, Parts
<1> QED
  BY <1>2 DEF Reconciled, Report, Engines

\* What a run answers with is a report of what it keeps, if it keeps its kind.
LEMMA AnswerType ==
    ASSUME SessionsTypeOK, NEW r \in busy,
           r.action \in PerFile => Len(r.reports) = Len(r.files)
    PROVE  /\ Compared(r) \in Report
           /\ Answer(r) \in Report \cup {Nothing}
           /\ Listed(r.reports) \in SUBSET Report
           /\ r.action \in PerFile => Answer(r) \in Listed(r.reports)
           /\ r.action \notin PerFile \cup {"compare"} => Answer(r) = Nothing
<1>1. /\ r.files \in Inputs /\ r.reports \in Seq(Report)
      /\ Len(r.files) \in Nat /\ Len(r.files) >= 1
  BY RequestType, Parts
<1>2. Compared(r) \in Report
  BY <1>1 DEF Compared, Report, Engines, Bases
<1>3. Listed(r.reports) \in SUBSET Report
  BY <1>1 DEF Listed
<1>4. ASSUME r.action \in PerFile PROVE r.reports[1] \in Listed(r.reports)
  BY <1>1, <1>4 DEF Listed
<1>5. r.action \in PerFile => r.action # "compare"
  BY DEF PerFile
<1> QED
  BY <1>2, <1>3, <1>4, <1>5 DEF Answer, FileAnswer

------------------------------------------------------------------------------
(* Steps. *)

\* A session under a fresh identifier disturbs nothing that was there.
LEMMA NewSession ==
    ASSUME SessionsInv, NEW n \in Fresh, NEW v \in Session, NEW p \in Report \cup {Nothing},
           NEW rows \in SUBSET Row,
           store' = [store EXCEPT ![n] = v], shown' = [shown EXCEPT ![n] = p],
           used' = used \cup {n}, recon' \in SUBSET Sids, UNCHANGED <<memory, lost>>,
           busy' \in SUBSET busy, \A r \in busy \ busy' : r.op # "analyze",
           history' = history \cup rows,
           \A h \in rows : h.sid = n /\ Within(h.of, v.files),
           p # Nothing /\ p.engine # "fuzzy" => p \in v.reports /\ v.digest \in {Nothing, p}
    PROVE  SessionsInv'
<1>1. /\ n \in Sids /\ n \notin used /\ store[n] = Nothing
      /\ v # Nothing /\ Nothing \notin Report
  BY SessionsAssumption DEF Fresh, SessionsInv, Books, UsedFirst, SessionsTypeOK
<1>2. /\ store'[n] = v /\ shown'[n] = p
      /\ \A s \in Sids \ {n} : store'[s] = store[s] /\ shown'[s] = shown[s]
  BY <1>1 DEF SessionsInv, Books, SessionsTypeOK
<1>3. \A r \in busy : r.sid \in Sids \ {n}
  BY <1>1, RequestType DEF SessionsInv, Books, UsedFirst
<1>4. \A h \in history : h.sid \in Sids \ {n} /\ h.sid \in used
  BY <1>1 DEF SessionsInv, Books, UsedFirst, SessionsTypeOK, Row
<1>5. SessionsTypeOK'
  BY <1>1 DEF SessionsInv, Books, SessionsTypeOK
<1>6. UsedFirst'
  BY <1>1, <1>2, <1>3, <1>4 DEF SessionsInv, Books, UsedFirst
<1>7. OneRun' /\ RerunsHaveSessions'
  BY <1>2, <1>3 DEF SessionsInv, Books, OneRun, RerunsHaveSessions
<1>8. OneReport'
  <2> SUFFICES ASSUME NEW s \in Sids, store'[s] # Nothing, shown'[s] # Nothing,
                      shown'[s].engine # "fuzzy"
               PROVE  /\ shown'[s] \in Downloaded(s)' \/ shown'[s].engine = "nway"
                      /\ \/ shown'[s] \in Mailed(s)' \/ shown'[s].engine = "nway"
                         \/ store'[s].action = "lineage"
                      /\ shown'[s] \in AgentSees(s)'
    BY DEF OneReport, Stored
  <2>1. CASE s = n
    BY <1>1, <1>2, <2>1 DEF Downloaded, Mailed, AgentSees
  <2>2. CASE s # n
    <3>1. /\ shown[s] \in Downloaded(s) \/ shown[s].engine = "nway"
          /\ \/ shown[s] \in Mailed(s) \/ shown[s].engine = "nway"
             \/ store[s].action = "lineage"
          /\ shown[s] \in AgentSees(s)
      BY <1>2, <2>2 DEF SessionsInv, OneReport, Stored
    <3> QED
      BY <1>2, <2>2, <3>1 DEF Downloaded, Mailed, AgentSees
  <2> QED
    BY <2>1, <2>2
<1>9. RowsOfRuns'
  BY <1>3 DEF SessionsInv, RowsOfRuns
<1>10. RowsLeadToSessions'
  <2> SUFFICES ASSUME NEW h \in history'
               PROVE  \/ h.sid \in lost
                      \/ \E r \in busy' : r.op = "analyze" /\ r.sid = h.sid
                      \/ store'[h.sid] # Nothing /\ Within(h.of, store'[h.sid].files)
    BY DEF RowsLeadToSessions
  <2>1. CASE h \in rows
    BY <1>1, <1>2, <2>1
  <2>2. CASE h \in history
    BY <1>2, <1>4, <2>2 DEF SessionsInv, RowsLeadToSessions
  <2> QED
    BY <2>1, <2>2
<1> QED
  BY <1>5, <1>6, <1>7, <1>8, <1>9, <1>10 DEF SessionsInv, Books

\* Ending requests other than runs disturbs nothing; a failed run is lost.
LEMMA RequestEnds ==
    ASSUME SessionsInv, NEW r \in busy, busy' = busy \ {r},
           r.op = "analyze" => lost' = lost \cup {r.sid},
           r.op # "analyze" => lost' = lost,
           UNCHANGED <<store, recon, used, shown, memory>>,
           NEW rows \in SUBSET Row, history' = history \cup rows,
           \A h \in rows : r.op # "analyze" /\ h.sid = r.sid /\ Within(h.of, r.files)
    PROVE  SessionsInv'
<1>1. r.sid \in Sids
  BY RequestType DEF SessionsInv, Books
<1>2. SessionsTypeOK'
  BY <1>1 DEF SessionsInv, Books, SessionsTypeOK
<1>3. UsedFirst' /\ OneRun' /\ RerunsHaveSessions'
  BY DEF SessionsInv, Books, UsedFirst, OneRun, RerunsHaveSessions
<1>4. OneReport'
  BY DEF SessionsInv, OneReport, Stored, Downloaded, Mailed, AgentSees, Workbooks
<1>5. RowsOfRuns'
  <2>1. ASSUME NEW h \in rows, NEW r1 \in busy, r1.op = "analyze" PROVE h.sid # r1.sid
    BY <2>1 DEF SessionsInv, Books, UsedFirst, RerunsHaveSessions
  <2> QED
    BY <2>1 DEF SessionsInv, RowsOfRuns
<1>6. RowsLeadToSessions'
  <2>1. ASSUME NEW h \in rows
        PROVE  store[h.sid] # Nothing /\ Within(h.of, store[h.sid].files)
    BY <2>1 DEF SessionsInv, Books, RerunsHaveSessions
  <2> QED
    BY <2>1 DEF SessionsInv, RowsLeadToSessions
<1> QED
  BY <1>2, <1>3, <1>4, <1>5, <1>6 DEF SessionsInv, Books

\* A request is added: a run under a fresh identifier, or a rerun of a session.
LEMMA RequestStarts ==
    ASSUME SessionsInv, NEW q \in Request, busy' = busy \cup {q},
           UNCHANGED <<store, recon, shown, memory, history, lost>>,
           \/ q.op = "analyze" /\ q.sid \in Fresh /\ used' = used \cup {q.sid}
           \/ /\ q.op # "analyze" /\ q.sid \in Stored /\ used' = used
              /\ store[q.sid].files = q.files
              /\ q.op \in {"recon", "recon-api"} => Len(q.files) >= 2
    PROVE  SessionsInv'
<1>1. SessionsTypeOK'
  BY DEF SessionsInv, Books, SessionsTypeOK, Fresh, Stored
<1>2. UsedFirst'
  BY DEF SessionsInv, Books, UsedFirst, Fresh, Stored
<1>3. OneRun' /\ RerunsHaveSessions'
  BY DEF SessionsInv, Books, UsedFirst, OneRun, RerunsHaveSessions, Fresh, Stored
<1>4. OneReport'
  BY DEF SessionsInv, OneReport, Stored, Downloaded, Mailed, AgentSees, Workbooks
<1>5. RowsOfRuns' /\ RowsLeadToSessions'
  BY DEF SessionsInv, Books, UsedFirst, RowsOfRuns, RowsLeadToSessions, Fresh
<1> QED
  BY <1>1, <1>2, <1>3, <1>4, <1>5 DEF SessionsInv, Books

\* A file is analysed and its row written, before the session exists.
LEMMA FileStep ==
    ASSUME SessionsInv, NEW r \in busy, AnalyzeFile(r)
    PROVE  SessionsInv'
<1> DEFINE i   == Len(r.reports) + 1
           rep == OneFile(r, r.action, i, Basis(r.action))
           q   == [r EXCEPT !.reports = Append(@, rep)]
<1>1. /\ r \in Request /\ r.op = "analyze" /\ r.action \in PerFile
      /\ r.sid \in Sids /\ i \in 1..Len(r.files)
  BY RequestType, Parts DEF AnalyzeFile, SessionsInv, Books
<1>2. rep \in Report /\ rep.of \in Inputs /\ Within(rep.of, r.files)
  <2>1. r.action \in Engines /\ Basis(r.action) \in Bases
    BY <1>1 DEF Engines, Basis, Bases
  <2> QED
    BY <1>1, <2>1, OneFileType DEF SessionsInv, Books
<1>3. /\ q \in Request /\ q.op = "analyze" /\ q.sid = r.sid /\ q.files = r.files
  <2>1. Append(r.reports, rep) \in Seq(Report)
    BY <1>1, <1>2, RequestType DEF SessionsInv, Books
  <2> QED
    BY <1>1, <2>1 DEF Request
<1>4. busy' = (busy \ {r}) \cup {q} /\ UNCHANGED <<store, recon, used, shown, memory, lost>>
  BY DEF AnalyzeFile
<1>5. \E rows \in SUBSET {[sid |-> r.sid, of |-> rep.of]} : history' = history \cup rows
  <2>1. CASE r.action = "parse"
    <3>1. history' = history \cup {}
      BY <2>1 DEF AnalyzeFile
    <3> QED
      BY <3>1
  <2>2. CASE r.action # "parse"
    <3>1. history' = history \cup {[sid |-> r.sid, of |-> rep.of]}
      BY <2>2 DEF AnalyzeFile, Record
    <3> QED
      BY <3>1
  <2> QED
    BY <2>1, <2>2
<1>6. PICK rows \in SUBSET {[sid |-> r.sid, of |-> rep.of]} : history' = history \cup rows
  BY <1>5
<1>7. rows \in SUBSET Row /\ \A h \in rows : h.sid = r.sid /\ Within(h.of, r.files)
  BY <1>1, <1>2 DEF Row
<1> HIDE DEF rep, q, i
<1>8. SessionsTypeOK'
  BY <1>3, <1>4, <1>6, <1>7 DEF SessionsInv, Books, SessionsTypeOK
<1>9. UsedFirst' /\ OneRun' /\ RerunsHaveSessions'
  BY <1>1, <1>3, <1>4, <1>6, <1>7
  DEF SessionsInv, Books, UsedFirst, OneRun, RerunsHaveSessions
<1>10. OneReport'
  BY <1>4 DEF SessionsInv, OneReport, Stored, Downloaded, Mailed, AgentSees, Workbooks
<1>11. RowsOfRuns'
  BY <1>1, <1>3, <1>4, <1>6, <1>7 DEF SessionsInv, Books, OneRun, RowsOfRuns
<1>12. RowsLeadToSessions'
  BY <1>1, <1>3, <1>4, <1>6, <1>7 DEF SessionsInv, RowsLeadToSessions
<1> QED
  BY <1>8, <1>9, <1>10, <1>11, <1>12 DEF SessionsInv, Books

\* A run ends: what it stores holds what it answers, and the files of its rows.
LEMMA FinishStep ==
    ASSUME SessionsInv, NEW r \in busy, FinishAnalysis(r)
    PROVE  SessionsInv'
<1> DEFINE kept == IF IsPair(r) THEN {Compared(r)} ELSE Listed(r.reports)
           v    == [action |-> r.action, files |-> r.files, reports |-> kept, digest |-> Answer(r)]
<1>1. /\ r.op = "analyze" /\ r.sid \in Sids /\ r.sid \in used /\ store[r.sid] = Nothing
      /\ r.action \in Actions /\ r.files \in Inputs /\ Within(r.files, r.files)
  BY RequestType, Parts DEF FinishAnalysis, SessionsInv, Books, UsedFirst
<1>2. /\ Compared(r) \in Report
      /\ Answer(r) \in Report \cup {Nothing}
      /\ Listed(r.reports) \in SUBSET Report
      /\ r.action \in PerFile => Answer(r) \in Listed(r.reports)
      /\ r.action \notin PerFile \cup {"compare"} => Answer(r) = Nothing
  BY AnswerType DEF FinishAnalysis, SessionsInv, Books
<1>3. v \in Session /\ v # Nothing
  BY <1>1, <1>2, SessionsAssumption DEF Session
<1>4. /\ store' = [store EXCEPT ![r.sid] = v]
      /\ shown' = [shown EXCEPT ![r.sid] = Answer(r)]
      /\ busy' = busy \ {r}
      /\ recon' \in SUBSET Sids
      /\ UNCHANGED <<used, memory, lost>>
  BY <1>1 DEF FinishAnalysis, SessionsInv, Books, SessionsTypeOK
<1>5. \E rows \in SUBSET {[sid |-> r.sid, of |-> r.files]} : history' = history \cup rows
  <2>1. CASE IsPair(r)
    <3>1. history' = history \cup {[sid |-> r.sid, of |-> r.files]}
      BY <2>1 DEF FinishAnalysis, Record
    <3> QED
      BY <3>1
  <2>2. CASE ~IsPair(r)
    <3>1. history' = history \cup {}
      BY <2>2 DEF FinishAnalysis
    <3> QED
      BY <3>1
  <2> QED
    BY <2>1, <2>2
<1>6. PICK rows \in SUBSET {[sid |-> r.sid, of |-> r.files]} : history' = history \cup rows
  BY <1>5
<1>7. rows \in SUBSET Row /\ \A h \in rows : h.sid = r.sid /\ Within(h.of, r.files)
  BY <1>1 DEF Row
<1>8. Answer(r) # Nothing /\ Answer(r).engine # "fuzzy" =>
          Answer(r) \in v.reports \/ Answer(r).engine = "nway"
  <2>1. CASE r.action \in PerFile
    <3>1. r.action # "compare"
      BY <2>1 DEF PerFile
    <3> QED
      BY <1>2, <2>1, <3>1 DEF IsPair
  <2>2. CASE r.action = "compare"
    <3>1. Answer(r) = Compared(r) /\ Compared(r).engine \in {"exact", "fuzzy", "nway"}
      BY <2>2 DEF Answer, Compared
    <3>2. Answer(r).engine = "exact" => v.reports = {Answer(r)}
      BY <2>2, <3>1 DEF IsPair
    <3> QED
      BY <3>1, <3>2
  <2> QED
    BY <1>2, <2>1, <2>2
<1>9. /\ v.action = r.action /\ v.files = r.files /\ v.digest = Answer(r)
  OBVIOUS
<1> HIDE DEF v
<1>10. /\ store'[r.sid] = v /\ shown'[r.sid] = Answer(r)
       /\ \A s \in Sids \ {r.sid} : store'[s] = store[s] /\ shown'[s] = shown[s]
  BY <1>1, <1>4 DEF SessionsInv, Books, SessionsTypeOK
<1>11. \A q \in busy' : q.sid \in Sids /\ q.sid # r.sid
  BY <1>1, <1>4, RequestType DEF SessionsInv, Books, OneRun, RerunsHaveSessions
<1>12. SessionsTypeOK'
  BY <1>1, <1>2, <1>3, <1>4, <1>6, <1>7 DEF SessionsInv, Books, SessionsTypeOK
<1>13. UsedFirst'
  BY <1>1, <1>4, <1>6, <1>7, <1>10, <1>11 DEF SessionsInv, Books, UsedFirst
<1>14. OneRun' /\ RerunsHaveSessions'
  BY <1>4, <1>10, <1>11 DEF SessionsInv, Books, OneRun, RerunsHaveSessions
<1>15. OneReport'
  <2> SUFFICES ASSUME NEW s \in Sids, store'[s] # Nothing, shown'[s] # Nothing,
                      shown'[s].engine # "fuzzy"
               PROVE  /\ shown'[s] \in Downloaded(s)' \/ shown'[s].engine = "nway"
                      /\ \/ shown'[s] \in Mailed(s)' \/ shown'[s].engine = "nway"
                         \/ store'[s].action = "lineage"
                      /\ shown'[s] \in AgentSees(s)'
    BY DEF OneReport, Stored
  <2>1. CASE s = r.sid
    BY <1>8, <1>9, <1>10, <2>1 DEF Downloaded, Mailed, AgentSees
  <2>2. CASE s # r.sid
    <3>1. /\ shown[s] \in Downloaded(s) \/ shown[s].engine = "nway"
          /\ \/ shown[s] \in Mailed(s) \/ shown[s].engine = "nway"
             \/ store[s].action = "lineage"
          /\ shown[s] \in AgentSees(s)
      BY <1>10, <2>2 DEF SessionsInv, OneReport, Stored
    <3> QED
      BY <1>10, <2>2, <3>1 DEF Downloaded, Mailed, AgentSees
  <2> QED
    BY <2>1, <2>2
<1>16. RowsOfRuns'
  BY <1>4, <1>6, <1>7, <1>11 DEF SessionsInv, RowsOfRuns
<1>17. RowsLeadToSessions'
  <2> SUFFICES ASSUME NEW h \in history'
               PROVE  \/ h.sid \in lost
                      \/ \E q \in busy' : q.op = "analyze" /\ q.sid = h.sid
                      \/ store'[h.sid] # Nothing /\ Within(h.of, store'[h.sid].files)
    BY <1>4 DEF RowsLeadToSessions
  <2>1. CASE h.sid = r.sid
    <3>1. Within(h.of, r.files)
      BY <1>1, <1>6, <1>7, <2>1 DEF SessionsInv, RowsOfRuns
    <3> QED
      BY <1>3, <1>9, <1>10, <2>1, <3>1
  <2>2. CASE h.sid # r.sid
    <3>1. h \in history /\ h.sid \in Sids
      BY <1>6, <1>7, <2>2 DEF SessionsInv, Books, SessionsTypeOK, Row
    <3> QED
      BY <1>4, <1>10, <2>2, <3>1 DEF SessionsInv, RowsLeadToSessions
  <2> QED
    BY <2>1, <2>2
<1> QED
  BY <1>12, <1>13, <1>14, <1>15, <1>16, <1>17 DEF SessionsInv, Books

\* A session with a report replaced is a session.
LEMMA RevisedType ==
    ASSUME NEW old \in Session, NEW rep \in Report
    PROVE  /\ Revised(old, rep) \in Session
           /\ Revised(old, rep) # Nothing
           /\ rep \in Revised(old, rep).reports
           /\ Revised(old, rep).digest = rep
           /\ Revised(old, rep).files = old.files
           /\ Revised(old, rep).action = old.action
BY SessionsAssumption DEF Session, Revised

\* A session is adjusted in place.
LEMMA OverridesStep ==
    ASSUME SessionsInv, NEW r \in busy, Overrides(r)
    PROVE  SessionsInv'
<1> DEFINE rep == OneFile(r, "quality", 1, "form")
           old == store[r.sid]
           v   == Revised(old, rep)
<1>1. /\ r.op # "analyze" /\ r.sid \in Sids /\ old \in Session /\ r.sid \in used
  BY RequestType DEF Overrides, SessionsInv, Books, UsedFirst, RerunsHaveSessions, SessionsTypeOK
<1>2. rep \in Report
  <2>1. 1 \in 1..Len(r.files) /\ "quality" \in Engines /\ "form" \in Bases
    BY RequestType, Parts DEF SessionsInv, Books, Engines, PerFile, Bases
  <2> QED
    BY <2>1, OneFileType DEF SessionsInv, Books
<1>4. /\ v \in Session /\ v # Nothing /\ rep \in v.reports /\ v.digest = rep
      /\ v.files = old.files /\ v.action = old.action
  BY <1>1, <1>2, RevisedType
<1>5. /\ store' = [store EXCEPT ![r.sid] = v]
      /\ shown' = [shown EXCEPT ![r.sid] = rep]
      /\ busy' = busy \ {r}
      /\ UNCHANGED <<recon, used, memory, history, lost>>
  BY <1>1 DEF Overrides, SessionsInv, Books, SessionsTypeOK
<1> HIDE DEF v, rep
<1>6. /\ store'[r.sid] = v /\ shown'[r.sid] = rep
      /\ \A s \in Sids \ {r.sid} : store'[s] = store[s] /\ shown'[s] = shown[s]
  BY <1>1, <1>5 DEF SessionsInv, Books, SessionsTypeOK
<1>7. SessionsTypeOK'
  BY <1>1, <1>2, <1>4, <1>5 DEF SessionsInv, Books, SessionsTypeOK
<1>8. UsedFirst'
  BY <1>1, <1>4, <1>5, <1>6, RequestType DEF SessionsInv, Books, UsedFirst, RerunsHaveSessions
<1>9. OneRun' /\ RerunsHaveSessions'
  BY <1>1, <1>4, <1>5, <1>6, RequestType DEF SessionsInv, Books, OneRun, RerunsHaveSessions
<1>10. OneReport'
  <2> SUFFICES ASSUME NEW s \in Sids, store'[s] # Nothing, shown'[s] # Nothing,
                      shown'[s].engine # "fuzzy"
               PROVE  /\ shown'[s] \in Downloaded(s)' \/ shown'[s].engine = "nway"
                      /\ \/ shown'[s] \in Mailed(s)' \/ shown'[s].engine = "nway"
                         \/ store'[s].action = "lineage"
                      /\ shown'[s] \in AgentSees(s)'
    BY DEF OneReport, Stored
  <2>1. CASE s = r.sid
    BY <1>4, <1>6, <2>1 DEF Downloaded, Mailed, AgentSees
  <2>2. CASE s # r.sid
    <3>1. /\ shown[s] \in Downloaded(s) \/ shown[s].engine = "nway"
          /\ \/ shown[s] \in Mailed(s) \/ shown[s].engine = "nway"
             \/ store[s].action = "lineage"
          /\ shown[s] \in AgentSees(s)
      BY <1>6, <2>2 DEF SessionsInv, OneReport, Stored
    <3> QED
      BY <1>6, <2>2, <3>1 DEF Downloaded, Mailed, AgentSees
  <2> QED
    BY <2>1, <2>2
<1>11. RowsOfRuns'
  BY <1>5 DEF SessionsInv, RowsOfRuns
<1>12. RowsLeadToSessions'
  BY <1>1, <1>4, <1>5, <1>6
  DEF SessionsInv, Books, SessionsTypeOK, Row, RerunsHaveSessions, RowsLeadToSessions
<1> QED
  BY <1>7, <1>8, <1>9, <1>10, <1>11, <1>12 DEF SessionsInv, Books

------------------------------------------------------------------------------
(* Every step. *)

LEMMA SessionsStart == SessionsInit => SessionsInv
BY DEF SessionsInit, SessionsInv, Books, SessionsTypeOK, UsedFirst, OneRun, RerunsHaveSessions,
   OneReport, Stored, RowsOfRuns, RowsLeadToSessions

\* What a session made from another looks like.
LEMMA DeriveStep ==
    ASSUME SessionsInv, NEW r \in busy, r.op # "analyze", NEW n \in Fresh,
           NEW engine \in {"quality", "profile", "governance"},
           NEW reports \in SUBSET Report, NEW page \in reports \cup {Nothing},
           Derive(n, r.sid, engine, reports, page),
           busy' = busy \ {r}, UNCHANGED <<recon, memory, lost>>,
           NEW rows \in SUBSET Row, history' = history \cup rows,
           \A h \in rows : h.sid = n /\ Within(h.of, r.files)
    PROVE  SessionsInv'
<1> DEFINE v == [action |-> engine, files |-> store[r.sid].files, reports |-> reports,
                 digest |-> Nothing]
<1>1. store[r.sid].files = r.files /\ r.files \in Inputs
  BY RequestType DEF SessionsInv, Books, RerunsHaveSessions
<1>2. v \in Session
  BY <1>1 DEF Session, Actions, PerFile
<1>3. recon' \in SUBSET Sids
  BY DEF SessionsInv, Books, SessionsTypeOK
<1> QED
  BY <1>1, <1>2, <1>3, NewSession DEF Derive

LEMMA CopilotStep ==
    ASSUME SessionsInv, NEW r \in busy, r.op # "analyze", NEW n \in Fresh,
           NEW engine \in {"quality", "profile", "governance"}, NEW answered \in BOOLEAN,
           Copilot1(r, engine, n, answered)
    PROVE  SessionsInv'
<1> DEFINE rep == OneFile(r, engine, 1, Basis(engine))
<1>1. rep \in Report /\ rep.of \in Inputs /\ Within(rep.of, r.files)
  <2>1. 1 \in 1..Len(r.files) /\ engine \in Engines /\ Basis(engine) \in Bases
    BY RequestType, Parts DEF SessionsInv, Books, Engines, PerFile, Bases, Basis
  <2> QED
    BY <2>1, OneFileType DEF SessionsInv, Books
<1>2. {[sid |-> n, of |-> rep.of]} \in SUBSET Row
  BY <1>1 DEF Row, Fresh
<1>3. /\ Derive(n, r.sid, engine, {rep}, IF answered THEN rep ELSE Nothing)
      /\ history' = history \cup {[sid |-> n, of |-> rep.of]}
      /\ busy' = busy \ {r} /\ UNCHANGED <<recon, memory, lost>>
  BY DEF Copilot1, Record
<1> HIDE DEF rep
<1>4. {rep} \in SUBSET Report /\ (IF answered THEN rep ELSE Nothing) \in {rep} \cup {Nothing}
  BY <1>1
<1>5. \A h \in {[sid |-> n, of |-> rep.of]} : h.sid = n /\ Within(h.of, r.files)
  BY <1>1
<1> QED
  BY <1>2, <1>3, <1>4, <1>5, DeriveStep

LEMMA PageStep ==
    ASSUME SessionsInv, NEW r \in busy, r.op # "analyze", NEW n \in Fresh,
           NEW engine \in {"quality", "profile", "governance"},
           NEW ok \in SUBSET (1..Len(r.files)), Page(r, engine, n, ok)
    PROVE  SessionsInv'
<1> DEFINE rep(i) == OneFile(r, engine, i, "data")
<1>1. \A i \in 1..Len(r.files) : rep(i) \in Report
  <2>1. engine \in Engines /\ "data" \in Bases
    BY DEF Engines, PerFile, Bases
  <2> QED
    BY <2>1, OneFileType DEF SessionsInv, Books
<1>2. \E reports \in SUBSET Report : \E page \in reports \cup {Nothing} :
          Derive(n, r.sid, engine, reports, page)
  <2>1. CASE ok = {} /\ Derive(n, r.sid, engine, {}, Nothing)
    BY <2>1
  <2>2. ASSUME NEW i \in ok, Derive(n, r.sid, engine, {rep(j) : j \in ok}, rep(i))
        PROVE  \E reports \in SUBSET Report : \E page \in reports \cup {Nothing} :
                   Derive(n, r.sid, engine, reports, page)
    <3>1. {rep(j) : j \in ok} \in SUBSET Report /\ rep(i) \in {rep(j) : j \in ok}
      BY <1>1
    <3> QED
      BY <2>2, <3>1
  <2> QED
    BY <2>1, <2>2 DEF Page
<1>3. /\ busy' = busy \ {r} /\ UNCHANGED <<recon, memory, lost>>
      /\ {} \in SUBSET Row /\ history' = history \cup {}
  BY DEF Page
<1> QED
  BY <1>2, <1>3, DeriveStep

LEMMA PagesStep ==
    ASSUME SessionsInv, NEW r \in busy,
           \/ QualityPage(r) \/ ProfilePage(r) \/ GovernancePage(r)
           \/ CopilotQuality(r) \/ CopilotProfile(r) \/ CopilotGovernance(r)
    PROVE  SessionsInv'
<1>1. CASE QualityPage(r)
  BY <1>1, PageStep DEF QualityPage
<1>2. CASE ProfilePage(r)
  BY <1>2, PageStep DEF ProfilePage
<1>3. CASE GovernancePage(r)
  BY <1>3, PageStep DEF GovernancePage
<1>4. CASE CopilotQuality(r)
  BY <1>4, CopilotStep DEF CopilotQuality
<1>5. CASE CopilotProfile(r)
  BY <1>5, CopilotStep DEF CopilotProfile
<1>6. CASE CopilotGovernance(r)
  BY <1>6, CopilotStep DEF CopilotGovernance
<1> QED
  BY <1>1, <1>2, <1>3, <1>4, <1>5, <1>6

\* An AI reconciliation copies its session.
LEMMA ReconRunStep ==
    ASSUME SessionsInv, NEW r \in busy, ReconRun(r)
    PROVE  SessionsInv'
<1>1. PICK n \in Fresh, by \in Parsed(r.told) \cup Inferred(r.told) :
          /\ store' = [store EXCEPT ![n] =
                IF Reconciled(r.files, by).engine = "fuzzy" THEN store[r.sid]
                ELSE Revised(store[r.sid], Reconciled(r.files, by))]
          /\ shown' = [shown EXCEPT ![n] = Reconciled(r.files, by)]
          /\ recon' = recon \cup {n}
          /\ used' = used \cup {n}
          /\ history' = history \cup {[sid |-> n, of |-> Reconciled(r.files, by).of]}
          /\ busy' = busy \ {r} /\ UNCHANGED <<memory, lost>>
  BY DEF ReconRun, Record
<1> DEFINE rep == Reconciled(r.files, by)
           old == store[r.sid]
           v   == IF rep.engine = "fuzzy" THEN old
                  ELSE Revised(old, rep)
           row == [sid |-> n, of |-> rep.of]
<1>2. /\ r.op # "analyze" /\ r.sid \in Sids /\ n \in Sids /\ r.files \in Inputs
      /\ old \in Session /\ old.files = r.files /\ Len(r.files) >= 2
  BY RequestType
  DEF ReconRun, SessionsInv, Books, RerunsHaveSessions, SessionsTypeOK, Fresh
<1>3. rep \in Report /\ rep.of \in Inputs /\ Within(rep.of, r.files)
  <2>1. by \in Bases
    BY DEF Parsed, Inferred, Bases
  <2> QED
    BY <1>2, <2>1, ReconciledType
<1>5. /\ v \in Session /\ v.files = r.files
      /\ rep.engine # "fuzzy" => rep \in v.reports /\ v.digest = rep
  BY <1>2, <1>3, RevisedType
<1>6. /\ store' = [store EXCEPT ![n] = v] /\ shown' = [shown EXCEPT ![n] = rep]
      /\ used' = used \cup {n} /\ recon' = recon \cup {n} /\ history' = history \cup {row}
      /\ busy' = busy \ {r} /\ UNCHANGED <<memory, lost>>
  BY <1>1
<1>7. {row} \in SUBSET Row /\ \A h \in {row} : h.sid = n /\ Within(h.of, r.files)
  BY <1>2, <1>3 DEF Row
<1> HIDE DEF rep, old, v, row
<1>8. recon' \in SUBSET Sids
  BY <1>2, <1>6 DEF SessionsInv, Books, SessionsTypeOK
<1> QED
  BY <1>2, <1>3, <1>5, <1>6, <1>7, <1>8, NewSession

\* A rerun compares every further file with the first.
LEMMA RerunStep ==
    ASSUME SessionsInv, NEW s \in Sids, Rerun(s)
    PROVE  SessionsInv'
<1> DEFINE fs    == store[s].files
           pairs == [i \in 1..(Len(fs) - 1) |->
                        [engine |-> "exact", of |-> <<fs[1], fs[i + 1]>>, by |-> "form"]]
<1>1. PICK n \in Fresh :
          /\ used' = used \cup {n}
          /\ store' = [store EXCEPT ![n] =
                          [action |-> "compare", files |-> fs, reports |-> Listed(pairs),
                           digest |-> pairs[1]]]
          /\ shown' = [shown EXCEPT ![n] = pairs[1]]
          /\ UNCHANGED <<recon, busy, memory, history, lost>>
  BY DEF Rerun
<1> DEFINE v == [action |-> "compare", files |-> fs, reports |-> Listed(pairs),
                 digest |-> pairs[1]]
<1>2. store[s] \in Session /\ fs \in Inputs /\ Len(fs) >= 2 /\ Len(fs) \in Nat
  <2>1. store[s] \in Session
    BY DEF Rerun, Stored, SessionsInv, Books, SessionsTypeOK
  <2>2. fs \in Inputs /\ Len(fs) >= 2
    BY <2>1 DEF Rerun, Session
  <2> QED
    BY <2>1, <2>2, Parts
<1>3. \A i \in 1..(Len(fs) - 1) : pairs[i] \in Report
  <2> SUFFICES ASSUME NEW i \in 1..(Len(fs) - 1) PROVE pairs[i] \in Report
    OBVIOUS
  <2>1. i + 1 \in 2..Len(fs)
    BY <1>2
  <2>2. <<fs[1], fs[i + 1]>> \in Inputs
    BY <1>2, <2>1, Parts
  <2>3. pairs[i] = [engine |-> "exact", of |-> <<fs[1], fs[i + 1]>>, by |-> "form"]
    OBVIOUS
  <2> QED
    BY <2>2, <2>3 DEF Report, Engines, Bases
<1>4. 1 \in 1..(Len(fs) - 1) /\ DOMAIN pairs = 1..(Len(fs) - 1)
  BY <1>2
<1> HIDE DEF pairs
<1>5. Listed(pairs) \in SUBSET Report /\ pairs[1] \in Listed(pairs) /\ pairs[1] \in Report
  BY <1>3, <1>4 DEF Listed
<1>6. v \in Session /\ pairs[1] \in v.reports /\ v.digest = pairs[1]
  BY <1>2, <1>5 DEF Session, Actions
<1>7. /\ store' = [store EXCEPT ![n] = v] /\ shown' = [shown EXCEPT ![n] = pairs[1]]
      /\ used' = used \cup {n} /\ busy' \in SUBSET busy /\ busy \ busy' = {}
      /\ {} \in SUBSET Row /\ history' = history \cup {}
      /\ UNCHANGED <<recon, memory, lost>>
  BY <1>1
<1>8. recon' \in SUBSET Sids
  BY <1>7 DEF SessionsInv, Books, SessionsTypeOK
<1> HIDE DEF v
<1> QED
  BY <1>5, <1>6, <1>7, <1>8, NewSession

LEMMA AnalyzeStep ==
    ASSUME SessionsInv, NEW act \in Actions, NEW fs \in Inputs, NEW told \in SUBSET {"fuzzy"},
           Analyze(act, fs, told)
    PROVE  SessionsInv'
<1>1. PICK s \in Fresh :
          /\ busy' = busy \cup {[op |-> "analyze", action |-> act, sid |-> s,
                                 files |-> fs, told |-> told, reports |-> <<>>]}
          /\ used' = used \cup {s}
          /\ UNCHANGED <<store, recon, shown, memory, history, lost>>
  BY DEF Analyze
<1> DEFINE q == [op |-> "analyze", action |-> act, sid |-> s,
                 files |-> fs, told |-> told, reports |-> <<>>]
<1>2. q \in Request /\ q.op = "analyze" /\ q.sid = s
  BY DEF Request, Fresh
<1> QED
  BY <1>1, <1>2, RequestStarts

LEMMA StartRerunStep ==
    ASSUME SessionsInv, NEW op \in Reruns, NEW s \in Sids, StartRerun(op, s)
    PROVE  SessionsInv'
<1> DEFINE told == IF op \in {"recon", "recon-api"} /\ memory THEN {"rules"} ELSE {}
           q    == [op |-> op, action |-> store[s].action, sid |-> s,
                    files |-> store[s].files, reports |-> <<>>, told |-> told]
<1>1. /\ busy' = busy \cup {q} /\ s \in Stored
      /\ op \in {"recon", "recon-api"} => Len(store[s].files) >= 2
      /\ UNCHANGED <<store, recon, used, shown, memory, history, lost>>
  BY DEF StartRerun
<1>2. store[s] \in Session
  BY <1>1 DEF Stored, SessionsInv, Books, SessionsTypeOK
<1>3. q \in Request /\ q.op = op /\ q.sid = s /\ q.files = store[s].files
  BY <1>2 DEF Request, Session
<1>4. op # "analyze"
  BY DEF Reruns
<1> HIDE DEF q
<1> QED
  BY <1>1, <1>3, <1>4, RequestStarts

LEMMA EndStep ==
    ASSUME SessionsInv, NEW r \in busy, ReconApi(r) \/ FailRerun(r) \/ FailAnalysis(r)
    PROVE  SessionsInv'
<1>1. CASE ReconApi(r)
  <2>1. /\ r.op = "recon-api" /\ busy' = busy \ {r}
        /\ UNCHANGED <<store, recon, used, shown, memory, lost>>
    BY <1>1 DEF ReconApi
  <2>2. r.sid \in Sids /\ r.files \in Inputs /\ Len(r.files) >= 2
    BY <2>1, RequestType DEF SessionsInv, Books, RerunsHaveSessions
  <2>3. PICK by \in Parsed(r.told) :
            \/ UNCHANGED history
            \/ history' = history \cup {[sid |-> r.sid, of |-> Reconciled(r.files, by).of]}
    BY <1>1 DEF ReconApi, Record
  <2>4. by \in Bases
    BY DEF Parsed, Bases
  <2>5. Reconciled(r.files, by).of \in Inputs /\ Within(Reconciled(r.files, by).of, r.files)
    BY <2>2, <2>4, ReconciledType
  <2>6. CASE UNCHANGED history
    <3>1. {} \in SUBSET Row /\ history' = history \cup {}
      BY <2>6
    <3> QED
      BY <2>1, <3>1, RequestEnds
  <2>7. CASE history' = history \cup {[sid |-> r.sid, of |-> Reconciled(r.files, by).of]}
    <3>1. {[sid |-> r.sid, of |-> Reconciled(r.files, by).of]} \in SUBSET Row
      BY <2>2, <2>5 DEF Row
    <3>2. \A h \in {[sid |-> r.sid, of |-> Reconciled(r.files, by).of]} :
              h.sid = r.sid /\ Within(h.of, r.files)
      BY <2>5
    <3> QED
      BY <2>1, <2>7, <3>1, <3>2, RequestEnds
  <2> QED
    BY <2>3, <2>6, <2>7
<1>2. CASE FailRerun(r) \/ FailAnalysis(r)
  <2>1. {} \in SUBSET Row /\ history' = history \cup {}
    BY <1>2 DEF FailRerun, FailAnalysis
  <2> QED
    BY <1>2, <2>1, RequestEnds DEF FailRerun, FailAnalysis
<1> QED
  BY <1>1, <1>2

\* A document comparison shows a page under an identifier that is never stored.
LEMMA DocumentStep ==
    ASSUME SessionsInv, NEW fs \in Inputs, DocumentDiff(fs)
    PROVE  SessionsInv'
<1>1. PICK s \in Fresh :
          /\ used' = used \cup {s}
          /\ shown' = [shown EXCEPT ![s] = [engine |-> "text", of |-> fs, by |-> "form"]]
          /\ lost' = lost \cup {s}
          /\ UNCHANGED <<store, recon, busy, memory, history>>
  BY DEF DocumentDiff
<1>2. /\ s \in Sids /\ store[s] = Nothing
      /\ [engine |-> "text", of |-> fs, by |-> "form"] \in Report
  BY DEF Fresh, SessionsInv, Books, UsedFirst, Report, Engines, Bases
<1>3. SessionsTypeOK'
  BY <1>1, <1>2 DEF SessionsInv, Books, SessionsTypeOK
<1>4. UsedFirst' /\ OneRun' /\ RerunsHaveSessions'
  BY <1>1 DEF SessionsInv, Books, UsedFirst, OneRun, RerunsHaveSessions
<1>5. OneReport'
  <2>1. \A t \in Sids \ {s} : shown'[t] = shown[t]
    BY <1>1 DEF SessionsInv, Books, SessionsTypeOK
  <2> QED
    BY <1>1, <1>2, <2>1
    DEF SessionsInv, OneReport, Stored, Downloaded, Mailed, AgentSees, Workbooks
<1>6. RowsOfRuns' /\ RowsLeadToSessions'
  BY <1>1 DEF SessionsInv, RowsOfRuns, RowsLeadToSessions
<1> QED
  BY <1>3, <1>4, <1>5, <1>6 DEF SessionsInv, Books

LEMMA EnvironmentStep ==
    ASSUME SessionsInv, EditMemory \/ RestartServer
    PROVE  SessionsInv'
<1>1. CASE EditMemory
  <2>1. memory' \in BOOLEAN /\ UNCHANGED <<store, recon, busy, shown, used, history, lost>>
    BY <1>1 DEF EditMemory, processVars, SessionsInv, Books, SessionsTypeOK
  <2>2. Books'
    BY <2>1 DEF SessionsInv, Books, SessionsTypeOK, UsedFirst, OneRun, RerunsHaveSessions
  <2>3. OneReport'
    <3> SUFFICES ASSUME NEW s \in Stored, shown[s] # Nothing, shown[s].engine # "fuzzy"
                 PROVE  /\ shown[s] \in Downloaded(s) \/ shown[s].engine = "nway"
                        /\ \/ shown[s] \in Mailed(s)' \/ shown[s].engine = "nway"
                           \/ store[s].action = "lineage"
                        /\ shown[s] \in AgentSees(s)
      BY <2>1 DEF OneReport, Stored, Downloaded, AgentSees
    <3> QED
      BY <2>1 DEF SessionsInv, OneReport, Mailed, Downloaded
  <2>4. RowsOfRuns' /\ RowsLeadToSessions'
    BY <2>1 DEF SessionsInv, RowsOfRuns, RowsLeadToSessions
  <2> QED
    BY <2>2, <2>3, <2>4 DEF SessionsInv
<1>2. CASE RestartServer
  <2>1. Books'
    BY <1>2 DEF RestartServer, SessionsInv, Books, SessionsTypeOK, UsedFirst, OneRun, RerunsHaveSessions
  <2>2. OneReport' /\ RowsOfRuns'
    BY <1>2 DEF RestartServer, OneReport, Stored, RowsOfRuns
  <2>3. RowsLeadToSessions'
    BY <1>2 DEF RestartServer, SessionsInv, Books, UsedFirst, RowsLeadToSessions
  <2> QED
    BY <2>1, <2>2, <2>3 DEF SessionsInv
<1> QED
  BY <1>1, <1>2

LEMMA SessionsStep == SessionsInv /\ [SessionsNext]_sessionVars => SessionsInv'
<1> SUFFICES ASSUME SessionsInv, [SessionsNext]_sessionVars
             PROVE  SessionsInv'
  OBVIOUS
<1>1. CASE UNCHANGED sessionVars
  BY <1>1
  DEF sessionVars, processVars, SessionsInv, Books, SessionsTypeOK, UsedFirst, OneRun,
      RerunsHaveSessions, OneReport, Stored, Downloaded, Mailed, AgentSees, Workbooks,
      RowsOfRuns, RowsLeadToSessions
<1>2. ASSUME NEW act \in Actions, NEW fs \in Inputs, NEW told \in SUBSET {"fuzzy"},
             Analyze(act, fs, told)
      PROVE  SessionsInv'
  BY <1>2, AnalyzeStep
<1>3. ASSUME NEW fs \in Inputs, DocumentDiff(fs)
      PROVE  SessionsInv'
  BY <1>3, DocumentStep
<1>4. ASSUME NEW r \in busy,
             AnalyzeFile(r) \/ FinishAnalysis(r) \/ FailAnalysis(r)
      PROVE  SessionsInv'
  BY <1>4, FileStep, FinishStep, EndStep
<1>5. ASSUME NEW r \in busy,
             \/ CopilotQuality(r) \/ CopilotProfile(r) \/ CopilotGovernance(r)
             \/ QualityPage(r) \/ ProfilePage(r) \/ GovernancePage(r) \/ Overrides(r)
      PROVE  SessionsInv'
  BY <1>5, PagesStep, OverridesStep
<1>6. ASSUME NEW r \in busy, ReconRun(r) \/ ReconApi(r) \/ FailRerun(r)
      PROVE  SessionsInv'
  BY <1>6, ReconRunStep, EndStep
<1>7. ASSUME NEW s \in Sids, Rerun(s)
      PROVE  SessionsInv'
  BY <1>7, RerunStep
<1>8. ASSUME NEW op \in Reruns, NEW s \in Sids, StartRerun(op, s)
      PROVE  SessionsInv'
  BY <1>8, StartRerunStep
<1>9. CASE EditMemory \/ RestartServer
  BY <1>9, EnvironmentStep
<1> QED
  BY <1>1, <1>2, <1>3, <1>4, <1>5, <1>6, <1>7, <1>8, <1>9 DEF SessionsNext

------------------------------------------------------------------------------
(* Theorems. *)

\* Every reachable state of the stores has its type, however many requests overlap
\* (POST /analyze and the reruns on its sessions).
THEOREM SessionsTypeCorrect == SessionsSpec => []SessionsTypeOK
<1>1. SessionsInv => SessionsTypeOK
  BY DEF SessionsInv, Books
<1> QED
  BY SessionsStart, SessionsStep, <1>1, PTL DEF SessionsSpec

\* The page of a session, its download, its mail and the digest the agent reads are
\* of one report, whatever analyses, reruns, edits of Dataset Memory and restarts
\* come between.
THEOREM OneReportCorrect == SessionsSpec => []OneReport
<1>1. SessionsInv => OneReport
  BY DEF SessionsInv
<1> QED
  BY SessionsStart, SessionsStep, <1>1, PTL DEF SessionsSpec

\* Every row of the trend charts leads to the session whose files it is about, or to
\* a run that failed, is under way, or was dropped by a restart.
THEOREM RowsCorrect == SessionsSpec => []RowsLeadToSessions
<1>1. SessionsInv => RowsLeadToSessions
  BY DEF SessionsInv
<1> QED
  BY SessionsStart, SessionsStep, <1>1, PTL DEF SessionsSpec

------------------------------------------------------------------------------
(* The workbook of an AI reconciliation. *)

\* How an AI reconciliation may have got its parameters.
ByModel == {"keyed", "fuzzy", "inferred"}

\* What such a run shows is a reconciliation of the first two files of its session.
OfItsFiles ==
    \A s \in Stored : shown[s] # Nothing /\ shown[s].by \in ByModel =>
        shown[s] = Reconciled(store[s].files, shown[s].by)

\* No analysis under way has taken parameters from the model.
PlainSoFar == \A r \in busy : \A i \in 1..Len(r.reports) : r.reports[i].by \notin ByModel

\* One session is stored with its page, the others stay.
LEMMA OnePage ==
    ASSUME SessionsTypeOK, OfItsFiles, NEW n \in Sids, NEW v \in Session,
           NEW p \in Report \cup {Nothing},
           store' = [store EXCEPT ![n] = v], shown' = [shown EXCEPT ![n] = p],
           p # Nothing /\ p.by \in ByModel => p = Reconciled(v.files, p.by)
    PROVE  OfItsFiles'
<1> SUFFICES ASSUME NEW s \in Sids, store'[s] # Nothing, shown'[s] # Nothing,
                    shown'[s].by \in ByModel
             PROVE  shown'[s] = Reconciled(store'[s].files, shown'[s].by)
  BY DEF OfItsFiles, Stored
<1>1. CASE s = n
  BY <1>1 DEF SessionsTypeOK
<1>2. CASE s # n
  BY <1>2 DEF SessionsTypeOK, OfItsFiles, Stored
<1> QED
  BY <1>1, <1>2

\* Requests that end leave what the others have so far.
LEMMA StillPlain ==
    ASSUME PlainSoFar, busy' \in SUBSET busy
    PROVE  PlainSoFar'
BY DEF PlainSoFar

LEMMA PlainSession ==
    ASSUME SessionsInv, OfItsFiles, PlainSoFar, NEW r \in busy, r.op # "analyze", NEW n \in Fresh,
           NEW engine \in {"quality", "profile", "governance"},
           NEW reports \in SUBSET Report, NEW page \in Report \cup {Nothing},
           Derive(n, r.sid, engine, reports, page), busy' = busy \ {r},
           page # Nothing => page.by \notin ByModel
    PROVE  OfItsFiles' /\ PlainSoFar'
<1> DEFINE v == [action |-> engine, files |-> store[r.sid].files, reports |-> reports,
                 digest |-> Nothing]
<1>1. v \in Session
  BY RequestType DEF SessionsInv, Books, RerunsHaveSessions, Session, Actions, PerFile
<1>2. /\ n \in Sids /\ store' = [store EXCEPT ![n] = v] /\ shown' = [shown EXCEPT ![n] = page]
      /\ SessionsTypeOK
  BY DEF Derive, Fresh, SessionsInv, Books
<1> QED
  BY <1>1, <1>2, OnePage, StillPlain

LEMMA PlainPages ==
    ASSUME SessionsInv, OfItsFiles, PlainSoFar, NEW r \in busy,
           \/ QualityPage(r) \/ ProfilePage(r) \/ GovernancePage(r)
           \/ CopilotQuality(r) \/ CopilotProfile(r) \/ CopilotGovernance(r)
    PROVE  OfItsFiles' /\ PlainSoFar'
<1>1. ASSUME NEW n \in Fresh, NEW engine \in {"quality", "profile", "governance"},
             NEW ok \in SUBSET (1..Len(r.files)), r.op # "analyze", Page(r, engine, n, ok)
      PROVE  OfItsFiles' /\ PlainSoFar'
  <2> DEFINE rep(i) == OneFile(r, engine, i, "data")
  <2>1. \A i \in 1..Len(r.files) : rep(i) \in Report /\ rep(i).by \notin ByModel
    BY OneFileType DEF SessionsInv, Books, Engines, PerFile, Bases, OneFile, ByModel
  <2>2. busy' = busy \ {r}
    BY <1>1 DEF Page
  <2>3. CASE ok = {} /\ Derive(n, r.sid, engine, {}, Nothing)
    BY <1>1, <2>2, <2>3, PlainSession
  <2>4. ASSUME NEW i \in ok, Derive(n, r.sid, engine, {rep(j) : j \in ok}, rep(i))
        PROVE  OfItsFiles' /\ PlainSoFar'
    <3>1. /\ {rep(j) : j \in ok} \in SUBSET Report
          /\ rep(i) \in Report /\ rep(i).by \notin ByModel
      BY <2>1
    <3> HIDE DEF rep
    <3> QED
      BY <1>1, <2>2, <2>4, <3>1, PlainSession
  <2> QED
    BY <1>1, <2>3, <2>4 DEF Page
<1>2. ASSUME NEW n \in Fresh, NEW engine \in {"quality", "profile", "governance"},
             NEW answered \in BOOLEAN, r.op # "analyze", Copilot1(r, engine, n, answered)
      PROVE  OfItsFiles' /\ PlainSoFar'
  <2> DEFINE rep  == OneFile(r, engine, 1, Basis(engine))
             page == IF answered THEN rep ELSE Nothing
  <2>1. 1 \in 1..Len(r.files) /\ engine \in Engines /\ Basis(engine) \in Bases
    BY RequestType, Parts DEF SessionsInv, Books, Engines, PerFile, Bases, Basis
  <2>2. rep \in Report /\ rep.by \notin ByModel
    BY <2>1, OneFileType DEF SessionsInv, Books, OneFile, Basis, ByModel
  <2>3. Derive(n, r.sid, engine, {rep}, page) /\ busy' = busy \ {r}
    BY <1>2 DEF Copilot1
  <2> HIDE DEF rep
  <2>4. /\ {rep} \in SUBSET Report /\ page \in Report \cup {Nothing}
        /\ page # Nothing => page.by \notin ByModel
    BY <2>2
  <2> HIDE DEF page
  <2> QED
    BY <1>2, <2>3, <2>4, PlainSession
<1>3. CASE QualityPage(r)
  BY <1>1, <1>3 DEF QualityPage
<1>4. CASE ProfilePage(r)
  BY <1>1, <1>4 DEF ProfilePage
<1>5. CASE GovernancePage(r)
  BY <1>1, <1>5 DEF GovernancePage
<1>6. CASE CopilotQuality(r)
  BY <1>2, <1>6 DEF CopilotQuality
<1>7. CASE CopilotProfile(r)
  BY <1>2, <1>7 DEF CopilotProfile
<1>8. CASE CopilotGovernance(r)
  BY <1>2, <1>8 DEF CopilotGovernance
<1> QED
  BY <1>3, <1>4, <1>5, <1>6, <1>7, <1>8

\* An analysis of one more file, and its end.
LEMMA PlainRun ==
    ASSUME SessionsInv, OfItsFiles, PlainSoFar, NEW r \in busy,
           AnalyzeFile(r) \/ FinishAnalysis(r) \/ FailAnalysis(r)
    PROVE  OfItsFiles' /\ PlainSoFar'
<1>1. CASE AnalyzeFile(r)
  <2> DEFINE rep == OneFile(r, r.action, Len(r.reports) + 1, Basis(r.action))
             q   == [r EXCEPT !.reports = Append(@, rep)]
  <2>1. /\ busy' = (busy \ {r}) \cup {q}
        /\ UNCHANGED <<store, shown>>
    BY <1>1 DEF AnalyzeFile
  <2>2. rep.by \notin ByModel
    BY DEF OneFile, Basis, ByModel
  <2>3. r \in Request /\ r.reports \in Seq(Report)
    BY RequestType DEF SessionsInv, Books
  <2> HIDE DEF rep
  <2>4. q.reports = Append(r.reports, rep)
    BY <2>3 DEF Request
  <2>5. ASSUME NEW i \in 1..Len(q.reports) PROVE q.reports[i].by \notin ByModel
    <3>1. CASE i = Len(r.reports) + 1
      BY <2>2, <2>3, <2>4, <3>1
    <3>2. CASE i # Len(r.reports) + 1
      <4>1. i \in 1..Len(r.reports) /\ q.reports[i] = r.reports[i]
        BY <2>3, <2>4, <3>2
      <4> QED BY <4>1 DEF PlainSoFar
    <3> QED BY <3>1, <3>2
  <2> HIDE DEF q
  <2>6. PlainSoFar'
    BY <2>1, <2>5 DEF PlainSoFar
  <2> QED
    BY <2>1, <2>6 DEF OfItsFiles, Stored
<1>2. CASE FinishAnalysis(r)
  <2> DEFINE kept == IF IsPair(r) THEN {Compared(r)} ELSE Listed(r.reports)
             v == [action |-> r.action, files |-> r.files, reports |-> kept, digest |-> Answer(r)]
             p == Answer(r)
  <2>1. /\ store' = [store EXCEPT ![r.sid] = v] /\ shown' = [shown EXCEPT ![r.sid] = p]
        /\ busy' = busy \ {r} /\ (r.action \in PerFile => Len(r.reports) = Len(r.files))
    BY <1>2 DEF FinishAnalysis
  <2>2. SessionsTypeOK /\ r.sid \in Sids /\ r.files \in Inputs /\ r.action \in Actions
    BY RequestType DEF SessionsInv, Books
  <2>3. v \in Session /\ p \in Report \cup {Nothing}
    BY <2>1, <2>2, AnswerType DEF Session
  <2>4. p # Nothing => p.by \notin ByModel
    <3>1. CASE r.action = "compare"
      BY <3>1 DEF Answer, Compared, ByModel
    <3>2. CASE r.action \in PerFile
      <4>1. 1 \in 1..Len(r.reports)
        BY <2>1, <2>2, <3>2, Parts
      <4>2. p = r.reports[1]
        BY <3>2 DEF Answer, FileAnswer, PerFile
      <4> QED
        BY <4>1, <4>2 DEF PlainSoFar
    <3>3. CASE r.action \notin PerFile \cup {"compare"}
      BY <3>3 DEF Answer, FileAnswer
    <3> QED
      BY <3>1, <3>2, <3>3
  <2> HIDE DEF v, p
  <2>5. OfItsFiles'
    BY <2>1, <2>2, <2>3, <2>4, OnePage
  <2> QED
    BY <2>1, <2>5, StillPlain
<1>3. CASE FailAnalysis(r)
  BY <1>3, StillPlain DEF FailAnalysis, OfItsFiles, Stored
<1> QED
  BY <1>1, <1>2, <1>3

\* Adjusted reports, reconciliations and reruns of comparisons.
LEMMA OtherPages ==
    ASSUME SessionsInv, OfItsFiles, PlainSoFar
    PROVE  /\ \A r \in busy : Overrides(r) \/ ReconRun(r) => OfItsFiles' /\ PlainSoFar'
           /\ \A s \in Sids : Rerun(s) => OfItsFiles' /\ PlainSoFar'
<1>1. ASSUME NEW r \in busy, Overrides(r) PROVE OfItsFiles' /\ PlainSoFar'
  <2> DEFINE rep == OneFile(r, "quality", 1, "form")
             v   == Revised(store[r.sid], rep)
  <2>1. /\ store' = [store EXCEPT ![r.sid] = v] /\ shown' = [shown EXCEPT ![r.sid] = rep]
        /\ busy' = busy \ {r} /\ r.op # "analyze"
    BY <1>1 DEF Overrides, SessionsInv, Books, SessionsTypeOK
  <2>2. SessionsTypeOK /\ r.sid \in Sids /\ store[r.sid] \in Session
    BY <2>1, RequestType DEF SessionsInv, Books, RerunsHaveSessions, SessionsTypeOK
  <2>3. rep \in Report /\ rep.by \notin ByModel
    <3>1. 1 \in 1..Len(r.files) /\ "quality" \in Engines /\ "form" \in Bases
      BY <2>2, RequestType, Parts DEF Engines, PerFile, Bases
    <3> QED
      BY <2>2, <3>1, OneFileType DEF OneFile, ByModel
  <2> HIDE DEF rep
  <2>4. v \in Session
    BY <2>2, <2>3, RevisedType
  <2> HIDE DEF v
  <2> QED
    BY <2>1, <2>2, <2>3, <2>4, OnePage, StillPlain
<1>2. ASSUME NEW r \in busy, ReconRun(r) PROVE OfItsFiles' /\ PlainSoFar'
  <2>1. PICK n \in Fresh, by \in Parsed(r.told) \cup Inferred(r.told) :
            /\ store' = [store EXCEPT ![n] =
                  IF Reconciled(r.files, by).engine = "fuzzy" THEN store[r.sid]
                  ELSE Revised(store[r.sid], Reconciled(r.files, by))]
            /\ shown' = [shown EXCEPT ![n] = Reconciled(r.files, by)]
            /\ busy' = busy \ {r}
    BY <1>2 DEF ReconRun
  <2> DEFINE rep == Reconciled(r.files, by)
             old == store[r.sid]
             v   == IF rep.engine = "fuzzy" THEN old ELSE Revised(old, rep)
  <2>2. /\ SessionsTypeOK /\ n \in Sids /\ r.files \in Inputs /\ Len(r.files) >= 2
        /\ old \in Session /\ old.files = r.files
    BY <1>2, RequestType
    DEF ReconRun, SessionsInv, Books, RerunsHaveSessions, SessionsTypeOK, Fresh
  <2>3. rep \in Report /\ rep.by = by
    BY <2>2, ReconciledType DEF Parsed, Inferred, Bases, Reconciled
  <2>4. v \in Session /\ v.files = r.files
    BY <2>2, <2>3, RevisedType
  <2>5. store' = [store EXCEPT ![n] = v] /\ shown' = [shown EXCEPT ![n] = rep]
        /\ rep = Reconciled(v.files, rep.by)
    BY <2>1, <2>3, <2>4
  <2> HIDE DEF rep, old, v
  <2> QED
    BY <2>1, <2>2, <2>3, <2>4, <2>5, OnePage, StillPlain
<1>3. ASSUME NEW s \in Sids, Rerun(s) PROVE OfItsFiles' /\ PlainSoFar'
  <2> DEFINE fs    == store[s].files
             pairs == [i \in 1..(Len(fs) - 1) |->
                          [engine |-> "exact", of |-> <<fs[1], fs[i + 1]>>, by |-> "form"]]
             v     == [action |-> "compare", files |-> fs, reports |-> Listed(pairs),
                       digest |-> pairs[1]]
  <2>1. PICK n \in Fresh :
            store' = [store EXCEPT ![n] = v] /\ shown' = [shown EXCEPT ![n] = pairs[1]]
    BY <1>3 DEF Rerun
  <2>2. SessionsTypeOK /\ n \in Sids /\ busy' = busy /\ fs \in Inputs /\ Len(fs) >= 2
    BY <1>3 DEF Rerun, SessionsInv, Books, SessionsTypeOK, Fresh, Stored, Session
  <2>3. \A i \in 1..(Len(fs) - 1) : pairs[i] \in Report
    <3>1. ASSUME NEW i \in 1..(Len(fs) - 1)
          PROVE  [engine |-> "exact", of |-> <<fs[1], fs[i + 1]>>, by |-> "form"] \in Report
      <4>1. i + 1 \in 2..Len(fs)
        BY <2>2, Parts
      <4>2. <<fs[1], fs[i + 1]>> \in Inputs
        BY <2>2, <4>1, Parts
      <4> QED
        BY <4>2 DEF Report, Engines, Bases
    <3> QED
      BY <3>1
  <2>4. 1 \in 1..(Len(fs) - 1)
    BY <2>2, Parts
  <2>5. pairs[1].by = "form"
    BY <2>4
  <2>6. pairs[1] \in Report /\ Listed(pairs) \in SUBSET Report
    BY <2>3, <2>4 DEF Listed
  <2>7. pairs[1].by \notin ByModel
    BY <2>5 DEF ByModel
  <2> HIDE DEF fs, pairs
  <2>8. v \in Session
    BY <2>2, <2>6 DEF Session, Actions
  <2> HIDE DEF v
  <2> QED
    BY <2>1, <2>2, <2>6, <2>7, <2>8, OnePage, StillPlain
<1> QED
  BY <1>1, <1>2, <1>3

LEMMA WorkbookStep ==
    ASSUME SessionsInv, OfItsFiles, PlainSoFar, [SessionsNext]_sessionVars
    PROVE  OfItsFiles' /\ PlainSoFar'
<1>1. CASE UNCHANGED sessionVars
  BY <1>1 DEF sessionVars, processVars, OfItsFiles, PlainSoFar, Stored
<1>2. ASSUME NEW act \in Actions, NEW fs \in Inputs, NEW told \in SUBSET {"fuzzy"},
             Analyze(act, fs, told)
      PROVE  OfItsFiles' /\ PlainSoFar'
  <2>1. PICK s \in Fresh : busy' = busy \cup {[op |-> "analyze", action |-> act, sid |-> s,
                                 files |-> fs, told |-> told, reports |-> <<>>]}
    BY <1>2 DEF Analyze
  <2>2. PlainSoFar'
    BY <2>1 DEF PlainSoFar
  <2> QED
    BY <1>2, <2>2 DEF Analyze, OfItsFiles, Stored
<1>3. ASSUME NEW fs \in Inputs, DocumentDiff(fs)
      PROVE  OfItsFiles' /\ PlainSoFar'
  <2>1. PICK n \in Fresh :
            shown' = [shown EXCEPT ![n] = [engine |-> "text", of |-> fs, by |-> "form"]]
    BY <1>3 DEF DocumentDiff
  <2>2. store' = store /\ busy' = busy /\ store[n] = Nothing
    BY <1>3, <2>1 DEF DocumentDiff, SessionsInv, Books, UsedFirst, Fresh
  <2>3. OfItsFiles'
    BY <2>1, <2>2 DEF OfItsFiles, Stored, SessionsInv, Books, SessionsTypeOK
  <2> QED
    BY <2>2, <2>3, StillPlain
<1>4. ASSUME NEW r \in busy, AnalyzeFile(r) \/ FinishAnalysis(r) \/ FailAnalysis(r)
      PROVE  OfItsFiles' /\ PlainSoFar'
  BY <1>4, PlainRun
<1>5. ASSUME NEW r \in busy,
             \/ CopilotQuality(r) \/ CopilotProfile(r) \/ CopilotGovernance(r)
             \/ QualityPage(r) \/ ProfilePage(r) \/ GovernancePage(r)
      PROVE  OfItsFiles' /\ PlainSoFar'
  BY <1>5, PlainPages
<1>6. ASSUME NEW r \in busy, Overrides(r) \/ ReconRun(r)
      PROVE  OfItsFiles' /\ PlainSoFar'
  BY <1>6, OtherPages
<1>7. ASSUME NEW r \in busy, ReconApi(r) \/ FailRerun(r)
      PROVE  OfItsFiles' /\ PlainSoFar'
  BY <1>7, StillPlain DEF ReconApi, FailRerun, OfItsFiles, Stored
<1>8. ASSUME NEW s \in Sids, Rerun(s)
      PROVE  OfItsFiles' /\ PlainSoFar'
  BY <1>8, OtherPages
<1>9. ASSUME NEW op \in Reruns, NEW s \in Sids, StartRerun(op, s)
      PROVE  OfItsFiles' /\ PlainSoFar'
  <2>1. PICK told : busy' = busy \cup {[op |-> op, action |-> store[s].action, sid |-> s,
                             files |-> store[s].files, reports |-> <<>>, told |-> told]}
    BY <1>9 DEF StartRerun
  <2>2. PlainSoFar'
    BY <2>1 DEF PlainSoFar
  <2> QED
    BY <1>9, <2>2 DEF StartRerun, OfItsFiles, Stored
<1>10. CASE EditMemory
  BY <1>10 DEF EditMemory, processVars, OfItsFiles, PlainSoFar, Stored
<1>11. CASE RestartServer
  BY <1>11 DEF RestartServer, OfItsFiles, PlainSoFar, Stored
<1> QED
  BY <1>1, <1>2, <1>3, <1>4, <1>5, <1>6, <1>7, <1>8, <1>9, <1>10, <1>11 DEF SessionsNext

\* When the workbook of an AI reconciliation can be of the run on its page
\* (main.py:19089), which a run of TLC refutes in general: exactly while Dataset
\* Memory still holds rules, and never if the run inferred its parameters.
THEOREM WorkbookCorrect ==
    SessionsSpec =>
        [](\A s \in Stored : shown[s] # Nothing /\ shown[s].by \in ByModel =>
              (shown[s] \in Workbooks(s) <=> memory /\ shown[s].by # "inferred"))
<1>1. SessionsInit => OfItsFiles /\ PlainSoFar
  BY DEF SessionsInit, OfItsFiles, PlainSoFar, Stored
<1>2. OfItsFiles =>
        \A s \in Stored : shown[s] # Nothing /\ shown[s].by \in ByModel =>
            (shown[s] \in Workbooks(s) <=> memory /\ shown[s].by # "inferred")
  <2> SUFFICES ASSUME OfItsFiles, NEW s \in Stored, shown[s] # Nothing, shown[s].by \in ByModel
               PROVE  shown[s] \in Workbooks(s) <=> memory /\ shown[s].by # "inferred"
    OBVIOUS
  <2>1. shown[s] = Reconciled(store[s].files, shown[s].by)
    BY DEF OfItsFiles
  <2>2. \A x, y : Reconciled(store[s].files, x) = Reconciled(store[s].files, y) => x = y
    BY DEF Reconciled
  <2>3. shown[s] \in Workbooks(s) <=> shown[s].by \in Parsed(IF memory THEN {"rules"} ELSE {})
    BY <2>1, <2>2 DEF Workbooks
  <2> QED
    BY <2>3 DEF Parsed, ByModel
<1> QED
  BY SessionsStart, SessionsStep, WorkbookStep, <1>1, <1>2, PTL DEF SessionsSpec

==============================================================================
