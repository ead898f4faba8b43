---------------------------- MODULE DatasetMemory ----------------------------
(***************************************************************************)
(* Dataset Memory as the users meet it: analysis sessions, the rule panels *)
(* of a session, Workspace -> Memory, and the analyses that read saved     *)
(* rules, over the rule store (main.py).                                   *)
(*                                                                         *)
(* The handlers run on the event loop, which waits inside the store's lock *)
(* until the file is written; the quality and governance analyses run on   *)
(* worker threads and read the file itself, without the lock.              *)
(*                                                                         *)
(* session   the analysis sessions in _results_store: who started it, the  *)
(*           upload, and the fingerprint its rules are kept under, which   *)
(*           is NoFp until the analysis has ended                          *)
(* asked     an instruction the language model is interpreting             *)
(* applied   the exclusion rules the last analysis of a session applied    *)
(***************************************************************************)
EXTENDS FeedbackStore

CONSTANTS Sessions,
          FpOf,        \* compute_fingerprint of an upload's columns
          NamesOf,     \* the file names of an upload
          Score,       \* ten times the Jaccard similarity of two uploads' columns
          NoFp,
          NoSession,
          NoQuestion

Session  == [user : Users, data : Datasets, fp : Fps \cup {NoFp}]
Question == [rule : Rule, fp : Fps]

ASSUME DatasetMemoryAssumption ==
    /\ FpOf \in [Datasets -> Fps]
    /\ NamesOf \in [Datasets -> SUBSET Names]
    /\ Score \in [Datasets \X Datasets -> 0..10]
    /\ "exclude" \in Categories
    /\ "hints" \in Categories
    /\ NoFp \notin Fps
    /\ NoSession \notin Session
    /\ NoQuestion \notin Question

VARIABLES session, asked, applied

vars == <<storeVars, session, asked, applied>>

TypeOK ==
    /\ StoreTypeOK
    /\ session \in [Sessions -> Session \cup {NoSession}]
    /\ asked   \in [Sessions -> Question \cup {NoQuestion}]
    /\ applied \in [Sessions -> SUBSET Texts]

Init ==
    /\ StoreInit
    /\ session = [s \in Sessions |-> NoSession]
    /\ asked   = [s \in Sessions |-> NoQuestion]
    /\ applied = [s \in Sessions |-> {}]

------------------------------------------------------------------------------
(* Which entry an upload's rules are kept under. *)

Recorded(bucket, f) == bucket[f] # NoEntry

Similar(bucket, d) ==
    {f \in Fps : /\ Recorded(bucket, f)
                 /\ bucket[f].cols # NoCols
                 /\ Score[<<d, bucket[f].cols>>] >= 7}

\* The whole pair of file names must be known to the entry.
SameFiles(bucket, d) ==
    {f \in Fps : /\ Recorded(bucket, f)
                 /\ Cardinality(NamesOf[d]) >= 2
                 /\ NamesOf[d] \subseteq bucket[f].names \cup bucket[f].label}

\* _fuzzy_lookup_in: the entries it may return, none when the set is empty.
Fuzzy(bucket, d) ==
    LET near == Similar(bucket, d)
    IN  IF near # {}
          THEN {f \in near : \A g \in near :
                   Score[<<d, bucket[f].cols>>] >= Score[<<d, bucket[g].cols>>]}
          ELSE SameFiles(bucket, d)

\* resolve_fingerprint: exact, similar columns, file names; the user's own
\* entries before the shared ones.
Resolve(u, f, d) ==
    IF Seen(store, u, f) # NoEntry        THEN {f}
    ELSE IF Fuzzy(store[u], d) # {}       THEN Fuzzy(store[u], d)
    ELSE IF Fuzzy(store[Legacy], d) # {}  THEN Fuzzy(store[Legacy], d)
    ELSE {f}

------------------------------------------------------------------------------
(* Analyses. *)

\* The scan for exclusion rules: the file, every bucket, every fingerprint.  A
\* file that does not parse is skipped.
Scanned ==
    {t \in Texts : \E o \in Owners, f \in Fps :
        [rule |-> t, category |-> "exclude"] \in
            {RulesOf(Loaded(disk)[o][f])[i] : i \in DOMAIN RulesOf(Loaded(disk)[o][f])}}

\* POST /analyze reads the exclusions and leaves the event loop to the analysis.
Upload(s, u, d) ==
    /\ session[s] = NoSession
    /\ ~saving
    /\ session' = [session EXCEPT ![s] = [user |-> u, data |-> d, fp |-> NoFp]]
    /\ applied' = [applied EXCEPT ![s] = Scanned]
    /\ UNCHANGED <<storeVars, asked>>

\* When it is back the fingerprint is resolved, and the hints of a lineage run
\* are saved under it.
Analyzed(s) ==
    LET u == session[s].user
        d == session[s].data
    IN  /\ session[s] # NoSession
        /\ session[s].fp = NoFp
        /\ ~saving
        /\ \E f \in Resolve(u, FpOf[d], d) :
              /\ session' = [session EXCEPT ![s].fp = f]
              /\ \/ UNCHANGED storeVars
                 \/ \E t \in Texts :
                       SaveRule(u, f, [rule |-> t, category |-> "hints"], d,
                                NamesOf[d], NamesOf[d])
        /\ UNCHANGED <<asked, applied>>

\* The governance part of an analysis, on a worker thread.
Reanalyze(s) ==
    /\ session[s] # NoSession
    /\ applied' = [applied EXCEPT ![s] = Scanned]
    /\ UNCHANGED <<storeVars, session, asked>>

------------------------------------------------------------------------------
(* The rule panels of a session. *)

Open(s) == session[s] # NoSession /\ session[s].fp # NoFp

\* GET /rules/{session}: the fingerprint that holds the rules is looked up
\* again, and kept.
GetRules(s) ==
    /\ Open(s)
    /\ ~saving
    /\ \E f \in Resolve(session[s].user, session[s].fp, session[s].data) :
          session' = [session EXCEPT ![s].fp = f]
    /\ UNCHANGED <<storeVars, asked, applied>>

\* POST /rules/{session}/save (and each rule of /import) records the columns;
\* "remember: ..." in the chat records the file names as well.
SaveInSession(s, r) ==
    /\ Open(s)
    /\ \E names \in {{}, NamesOf[session[s].data]} :
          SaveRule(session[s].user, session[s].fp, r, session[s].data,
                   names, NamesOf[session[s].data])
    /\ UNCHANGED <<session, asked, applied>>

\* POST /rules/{session}/delete and /update, by an index the panel showed.
EditInSession(s) ==
    /\ Open(s)
    /\ LET u == session[s].user
           f == session[s].fp
       IN  \E i \in Indices :
              \/ DeleteRule(u, f, i)
              \/ \E r \in Rule : UpdateRule(u, f, i, r)
              \/ \E j \in Indices : SwapRules(u, f, i, j)
    /\ UNCHANGED <<session, asked, applied>>

\* POST /dataset-controls/{session}/apply: the fingerprint is read, an instruction
\* is put to the language model, and the event loop is free until it answers.
Ask(s, r) ==
    /\ Open(s)
    /\ asked[s] = NoQuestion
    /\ ~saving
    /\ asked' = [asked EXCEPT ![s] = [rule |-> r, fp |-> session[s].fp]]
    /\ UNCHANGED <<storeVars, session, applied>>

\* The answer is saved under the fingerprint read before.
Answer(s) ==
    /\ asked[s] # NoQuestion
    /\ asked' = [asked EXCEPT ![s] = NoQuestion]
    /\ SaveRule(session[s].user, asked[s].fp, asked[s].rule, session[s].data,
                NamesOf[session[s].data], NamesOf[session[s].data])
    /\ UNCHANGED <<session, applied>>

------------------------------------------------------------------------------
(* Workspace -> Memory, and the administrator. *)

\* /api/memory/{fingerprint}/...: no session, so no columns are recorded.
EditInMemory(u, f) ==
    /\ \/ DeleteDataset(u, f)
       \/ \E r \in Rule : SaveRule(u, f, r, NoCols, {}, {})
       \/ \E i \in Indices :
             DeleteRule(u, f, i) \/ \E r \in Rule : UpdateRule(u, f, i, r)
    /\ UNCHANGED <<session, asked, applied>>

WipeUser(u) ==
    /\ DeleteUserData(u)
    /\ UNCHANGED <<session, asked, applied>>

EndOfWrite ==
    /\ Dump
    /\ UNCHANGED <<session, asked, applied>>

Restart ==
    /\ Crash
    /\ session' = [s \in Sessions |-> NoSession]
    /\ asked'   = [s \in Sessions |-> NoQuestion]
    /\ applied' = [s \in Sessions |-> {}]

------------------------------------------------------------------------------

Panel(s) ==
    \/ \E u \in Users, d \in Datasets : Upload(s, u, d)
    \/ Analyzed(s)
    \/ Reanalyze(s)
    \/ GetRules(s)
    \/ \E r \in Rule : SaveInSession(s, r) \/ Ask(s, r)
    \/ EditInSession(s)
    \/ Answer(s)

Next ==
    \/ \E s \in Sessions : Panel(s)
    \/ \E u \in Users, f \in Fps : EditInMemory(u, f)
    \/ \E u \in Users : WipeUser(u)
    \/ EndOfWrite
    \/ Restart

Spec == Init /\ [][Next]_vars

------------------------------------------------------------------------------
(* Properties. *)

\* An analysis that reads the file on its own thread, without the lock, applies
\* no rule that the store does not hold: what was deleted is gone from the file,
\* and a file that is being written does not parse.
Stored ==
    {t \in Texts : \E o \in Owners, f \in Fps :
        \E i \in DOMAIN RulesOf(store[o][f]) :
            RulesOf(store[o][f])[i] = [rule |-> t, category |-> "exclude"]}

AppliesOnlyStoredRules ==
    [][\A s \in Sessions : applied'[s] # applied[s] => applied'[s] \subseteq Stored]_vars

------------------------------------------------------------------------------
(* What the documentation says and the code does not do. *)

VisibleTo(u) == UNION {TextsOf(View(store, u, f)) : f \in Fps}

\* "Rules saved by one user are never visible to another user."
\* (feedback_store.py:7): an analysis applies only rules its own user sees.  The
\* scans of /analyze and of the governance analysis read every user's bucket.
AppliesOwnRules ==
    [][\A s \in Sessions :
          applied'[s] # applied[s] => applied'[s] \subseteq VisibleTo(session'[s].user)]_vars
==============================================================================
