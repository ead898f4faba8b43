------------------------- MODULE DatasetMemoryProofs -------------------------
(***************************************************************************)
(* Theorems about FeedbackStore and DatasetMemory, for any users,          *)
(* fingerprints, rules, uploads and sessions.                              *)
(*                                                                         *)
(* The inductive invariant is StoreInv: the cache and the file have their  *)
(* types, the file is torn exactly while the lock is held or after a crash *)
(* in that window, and outside it the file shows what the cache shows.     *)
(* Every step of the store then maps to a step of RuleBook, because a Put  *)
(* changes one page of one user (PutBook).                                 *)
(***************************************************************************)
EXTENDS DatasetMemory, TLAPS, SequenceTheorems

USE FeedbackStoreAssumption, NoEntryAssumption, TornAssumption

\* What the file lacks against the cache is never a shared entry.
SharedOnDisk == ~saving => Loaded(disk)[Legacy] = store[Legacy]

StoreInv ==
    /\ StoreTypeOK
    /\ DiskShowsTheSame
    /\ SharedOnDisk
    /\ saving => disk = Torn

------------------------------------------------------------------------------
(* Entries, pages and types. *)

LEMMA EntryTyped ==
    ASSUME NEW st \in Store, NEW u \in Users, NEW f \in Fps
    PROVE  /\ Seen(st, u, f) \in Entry \cup {NoEntry}
           /\ View(st, u, f) \in Seq(Rule)
           /\ RulesOf(st[Legacy][f]) \in Seq(Rule)
BY DEF Store, Owners, Seen, View, RulesOf, Entry

LEMMA PutTyped ==
    ASSUME NEW st \in Store, NEW u \in Users, NEW f \in Fps,
           NEW e \in Entry \cup {NoEntry}
    PROVE  Put(st, u, f, e) \in Store
BY DEF Put, Store, Owners

LEMMA NewEntryTyped == NewEntry \in Entry
BY DEF NewEntry, Entry

LEMMA EmptyTyped == EmptyBucket \in [Fps -> Entry \cup {NoEntry}] /\ EmptyStore \in Store
BY DEF EmptyBucket, EmptyStore, Store

\* An entry whose rules are replaced is an entry with those rules.
LEMMA ReplacedEntry ==
    ASSUME NEW e \in Entry, NEW p \in Seq(Rule)
    PROVE  /\ [e EXCEPT !.rules = p] \in Entry
           /\ [e EXCEPT !.rules = p].rules = p
BY DEF Entry

LEMMA StruckTyped ==
    ASSUME NEW p \in Seq(Rule), NEW i \in DOMAIN p
    PROVE  SubSeq(p, 1, i - 1) \o SubSeq(p, i + 1, Len(p)) \in Seq(Rule)
<1>1. SubSeq(p, 1, i - 1) \in Seq(Rule)
  BY SubSeqProperties
<1>2. SubSeq(p, i + 1, Len(p)) \in Seq(Rule)
  BY SubSeqProperties
<1>. QED
  BY <1>1, <1>2, ConcatProperties

LEMMA ChangedTyped ==
    ASSUME NEW p \in Seq(Rule), NEW i \in DOMAIN p, NEW r \in Rule
    PROVE  [p EXCEPT ![i] = r] \in Seq(Rule)
BY ExceptSeq

LEMMA SwappedTyped ==
    ASSUME NEW p \in Seq(Rule), NEW i \in DOMAIN p, NEW j \in DOMAIN p
    PROVE  [p EXCEPT ![i] = p[j], ![j] = p[i]] \in Seq(Rule)
<1>1. p[i] \in Rule /\ p[j] \in Rule
  BY ElementOfSeq
<1>2. [p EXCEPT ![i] = p[j]] \in Seq(Rule)
  BY <1>1, ExceptSeq
<1>3. DOMAIN [p EXCEPT ![i] = p[j]] = DOMAIN p
  OBVIOUS
<1>4. [[p EXCEPT ![i] = p[j]] EXCEPT ![j] = p[i]] \in Seq(Rule)
  BY <1>1, <1>2, <1>3, ExceptSeq
<1>. QED
  BY <1>4

------------------------------------------------------------------------------
(* What a Put does to the books. *)

BookOf(st) == [u \in Users |-> [f \in Fps |-> View(st, u, f)]]
BaseOf(st) == [f \in Fps |-> RulesOf(st[Legacy][f])]

\* Putting an entry changes one page of one book and no shared rule.
LEMMA PutBook ==
    ASSUME NEW st \in Store, NEW u \in Users, NEW f \in Fps,
           NEW e \in Entry \cup {NoEntry}
    PROVE  /\ BaseOf(Put(st, u, f, e)) = BaseOf(st)
           /\ BookOf(Put(st, u, f, e)) =
                 [BookOf(st) EXCEPT ![u][f] = IF e = NoEntry THEN RulesOf(st[Legacy][f])
                                                             ELSE e.rules]
<1>. DEFINE pt == Put(st, u, f, e)
            pg == IF e = NoEntry THEN RulesOf(st[Legacy][f]) ELSE e.rules
<1>1. pt[Legacy] = st[Legacy]
  BY DEF Put, Store, Owners
<1>2. ASSUME NEW v \in Users, NEW g \in Fps
      PROVE  pt[v][g] = IF v = u /\ g = f THEN e ELSE st[v][g]
  BY DEF Put, Store, Owners
<1>3. ASSUME NEW v \in Users, NEW g \in Fps
      PROVE  View(pt, v, g) = IF v = u /\ g = f THEN pg ELSE View(st, v, g)
  <2>1. CASE v = u /\ g = f
    <3>1. pt[v][g] = e /\ pt[Legacy][g] = st[Legacy][f]
      BY <2>1, <1>1, <1>2
    <3>. QED
      BY <2>1, <3>1 DEF View, Seen, RulesOf
  <2>2. CASE ~(v = u /\ g = f)
    <3>1. pt[v][g] = st[v][g] /\ pt[Legacy][g] = st[Legacy][g]
      BY <2>2, <1>1, <1>2
    <3>. QED
      BY <2>2, <3>1 DEF View, Seen
  <2>. QED
    BY <2>1, <2>2
<1>4. BaseOf(pt) = BaseOf(st)
  BY <1>1 DEF BaseOf
<1>5. BookOf(pt) = [BookOf(st) EXCEPT ![u][f] = pg]
  BY <1>3 DEF BookOf
<1>. QED
  BY <1>4, <1>5

LEMMA PutEntryBook ==
    ASSUME NEW st \in Store, NEW u \in Users, NEW f \in Fps, NEW e \in Entry
    PROVE  /\ BaseOf(Put(st, u, f, e)) = BaseOf(st)
           /\ BookOf(Put(st, u, f, e)) = [BookOf(st) EXCEPT ![u][f] = e.rules]
<1>1. e # NoEntry
  OBVIOUS
<1>. QED
  BY <1>1, PutBook

------------------------------------------------------------------------------
(* The invariant. *)

LEMMA InitInv == StoreInit => StoreInv
<1>. SUFFICES ASSUME StoreInit PROVE StoreInv
  OBVIOUS
<1>1. \A f \in Fps : [NewEntry EXCEPT !.rules = LegacyRules[f]] \in Entry
  BY NewEntryTyped, ReplacedEntry
<1>2. store \in Store
  BY <1>1, EmptyTyped DEF StoreInit, EmptyStore, Store
<1>3. Loaded(disk) = store
  BY <1>2 DEF StoreInit, Loaded
<1>. QED
  BY <1>2, <1>3 DEF StoreInit, StoreInv, StoreTypeOK, DiskShowsTheSame, SharedOnDisk

\* A step that begins to write keeps the invariant whatever it writes.
LEMMA CommitInv ==
    ASSUME NEW st \in Store, Commit(st)
    PROVE  StoreInv'
BY DEF Commit, StoreInv, StoreTypeOK, DiskShowsTheSame, SharedOnDisk

\* A fork that is not saved shows nobody anything new.
LEMMA ForkInv ==
    ASSUME StoreInv, ~saving, NEW u \in Users, NEW f \in Fps, Fork(u, f)
    PROVE  /\ StoreInv'
           /\ BookOf(store') = BookOf(store)
           /\ BaseOf(store') = BaseOf(store)
<1>. DEFINE e == Seen(store, u, f)
<1>1. store \in Store /\ e \in Entry \cup {NoEntry}
  BY EntryTyped DEF StoreInv, StoreTypeOK
<1>2. store' = Put(store, u, f, e) /\ disk' = disk /\ saving' = saving
  BY DEF Fork
<1>3. store' \in Store
  BY <1>1, <1>2, PutTyped
<1>4. (IF e = NoEntry THEN RulesOf(store[Legacy][f]) ELSE e.rules) = View(store, u, f)
  BY DEF View, Seen, RulesOf
<1>5. BookOf(store') = BookOf(store) /\ BaseOf(store') = BaseOf(store)
  <2>1. [BookOf(store) EXCEPT ![u][f] = View(store, u, f)] = BookOf(store)
    BY DEF BookOf
  <2>. QED
    BY <1>1, <1>2, <1>4, <2>1, PutBook
<1>6. \A v \in Users, g \in Fps : View(store', v, g) = View(store, v, g)
  <2>. TAKE v \in Users, g \in Fps
  <2>1. BookOf(store')[v][g] = BookOf(store)[v][g]
    BY <1>5
  <2>. QED
    BY <2>1 DEF BookOf
<1>7. store'[Legacy] = store[Legacy]
  BY <1>1, <1>2 DEF Put, Store, Owners
<1>. QED
  BY <1>2, <1>3, <1>5, <1>6, <1>7
     DEF StoreInv, StoreTypeOK, DiskShowsTheSame, SharedOnDisk

LEMMA DumpInv == StoreInv /\ Dump => StoreInv'
BY DEF StoreInv, StoreTypeOK, DiskShowsTheSame, SharedOnDisk, Dump, Loaded

LEMMA CrashInv == StoreInv /\ Crash => StoreInv'
<1>. SUFFICES ASSUME StoreInv, Crash PROVE StoreInv'
  OBVIOUS
<1>1. Loaded(disk) \in Store
  BY EmptyTyped DEF StoreInv, StoreTypeOK, Loaded
<1>2. store' = Loaded(disk') /\ ~saving'
  BY DEF Crash, StoreInv, StoreTypeOK
<1>. QED
  BY <1>1, <1>2 DEF Crash, StoreInv, StoreTypeOK, DiskShowsTheSame, SharedOnDisk

------------------------------------------------------------------------------
(* Each operation is a step of the rule book, or none. *)

Turned == /\ BookOf(store') = BookOf(store)
          /\ BaseOf(store') = BaseOf(store)

Stepped == Turned \/ Shelf!BookNext

\* A page of a book is what its user sees.
LEMMA PageIsView ==
    ASSUME NEW u \in Users, NEW f \in Fps
    PROVE  BookOf(store)[u][f] = View(store, u, f)
BY DEF BookOf

\* Replacing the rules of the entry a user sees rewrites that page.
LEMMA PutRulesStep ==
    ASSUME StoreInv, NEW u \in Users, NEW f \in Fps, NEW p \in Seq(Rule),
           View(store, u, f) # <<>>, PutRules(u, f, p)
    PROVE  StoreInv' /\ Shelf!Rewrite(u, f, p)
<1>. DEFINE e == [Seen(store, u, f) EXCEPT !.rules = p]
<1>1. store \in Store /\ Seen(store, u, f) \in Entry
  BY EntryTyped DEF StoreInv, StoreTypeOK, View, RulesOf
<1>2. e \in Entry /\ e.rules = p
  BY <1>1, ReplacedEntry
<1>3. Commit(Put(store, u, f, e))
  BY DEF PutRules
<1>4. StoreInv'
  BY <1>1, <1>2, <1>3, PutTyped, CommitInv
<1>5. store' = Put(store, u, f, e)
  BY <1>3 DEF Commit
<1>6. BookOf(store') = [BookOf(store) EXCEPT ![u][f] = p] /\ BaseOf(store') = BaseOf(store)
  <2>. HIDE DEF e
  <2>. QED
    BY <1>1, <1>2, <1>5, PutEntryBook
<1>. QED
  BY <1>4, <1>6 DEF Shelf!Rewrite, BookOf, BaseOf

LEMMA SaveStep ==
    ASSUME StoreInv, NEW u \in Users, NEW f \in Fps, NEW r \in Rule,
           NEW cols \in Datasets \cup {NoCols}, NEW names \in SUBSET Names,
           NEW label \in SUBSET Names, SaveRule(u, f, r, cols, names, label)
    PROVE  StoreInv' /\ Stepped
<1>. DEFINE old == IF Seen(store, u, f) = NoEntry THEN NewEntry ELSE Seen(store, u, f)
            new == IF r.rule \in TextsOf(old.rules) THEN old.rules ELSE Append(old.rules, r)
            e == [rules |-> new,
                  cols  |-> IF cols = NoCols THEN old.cols ELSE cols,
                  names |-> old.names \cup names,
                  label |-> IF old.label = {} THEN label ELSE old.label]
<1>1. store \in Store /\ old \in Entry
  BY EntryTyped, NewEntryTyped DEF StoreInv, StoreTypeOK
<1>2. old.rules = View(store, u, f) /\ old.rules \in Seq(Rule)
  BY <1>1 DEF View, RulesOf, NewEntry, Entry
<1>3. new \in Seq(Rule)
  BY <1>2
<1>4. e \in Entry /\ e.rules = new
  BY <1>1, <1>3 DEF Entry
<1>5. Commit(Put(store, u, f, e))
  BY DEF SaveRule
<1>6. StoreInv'
  BY <1>1, <1>4, <1>5, PutTyped, CommitInv
<1>7. store' = Put(store, u, f, e)
  BY <1>5 DEF Commit
<1>8. BookOf(store') = [BookOf(store) EXCEPT ![u][f] = new] /\ BaseOf(store') = BaseOf(store)
  <2>. HIDE DEF e, new
  <2>. QED
    BY <1>1, <1>4, <1>7, PutEntryBook
<1>9. Stepped
  <2>1. CASE r.rule \in TextsOf(old.rules)
    <3>1. [BookOf(store) EXCEPT ![u][f] = View(store, u, f)] = BookOf(store)
      BY DEF BookOf
    <3>. QED
      BY <1>2, <1>8, <2>1, <3>1 DEF Stepped, Turned
  <2>2. CASE r.rule \notin TextsOf(old.rules)
    <3>1. Shelf!Rewrite(u, f, Append(View(store, u, f), r))
      BY <1>2, <1>8, <2>2 DEF Shelf!Rewrite, BookOf, BaseOf
    <3>2. Shelf!Write(u, f, r)
      BY <1>2, <2>2, <3>1 DEF Shelf!Write, TextsOf
    <3>. QED
      BY <3>2 DEF Stepped, Shelf!BookNext, Shelf!Rule, Rule
  <2>. QED
    BY <2>1, <2>2
<1>. QED
  BY <1>6, <1>9

\* The three edits by index: out of range they fork, in range they rewrite.
LEMMA ForkStep ==
    ASSUME StoreInv, ~saving, NEW u \in Users, NEW f \in Fps, Fork(u, f)
    PROVE  StoreInv' /\ Stepped
BY ForkInv DEF Stepped, Turned

LEMMA DeleteStep ==
    ASSUME StoreInv, NEW u \in Users, NEW f \in Fps, NEW i, DeleteRule(u, f, i)
    PROVE  StoreInv' /\ Stepped
<1>. DEFINE p == View(store, u, f)
<1>1. p \in Seq(Rule)
  BY EntryTyped DEF StoreInv, StoreTypeOK
<1>2. CASE i \in DOMAIN p
  <2>. DEFINE q == SubSeq(p, 1, i - 1) \o SubSeq(p, i + 1, Len(p))
  <2>1. q \in Seq(Rule) /\ p # <<>>
    BY <1>1, <1>2, StruckTyped
  <2>2. PutRules(u, f, q)
    BY <1>2 DEF DeleteRule
  <2>3. StoreInv' /\ Shelf!Rewrite(u, f, q)
    BY <2>1, <2>2, PutRulesStep
  <2>4. Shelf!Strike(u, f, i)
    BY <2>3 DEF Shelf!Strike
  <2>. QED
    BY <1>2, <2>3, <2>4 DEF Stepped, Shelf!BookNext
<1>3. CASE i \notin DOMAIN p
  BY <1>3, ForkStep DEF DeleteRule
<1>. QED
  BY <1>2, <1>3

LEMMA UpdateStep ==
    ASSUME StoreInv, NEW u \in Users, NEW f \in Fps, NEW i, NEW r \in Rule,
           UpdateRule(u, f, i, r)
    PROVE  StoreInv' /\ Stepped
<1>. DEFINE p == View(store, u, f)
<1>1. p \in Seq(Rule)
  BY EntryTyped DEF StoreInv, StoreTypeOK
<1>2. CASE i \in DOMAIN p
  <2>. DEFINE q == [p EXCEPT ![i] = r]
  <2>1. q \in Seq(Rule) /\ p # <<>>
    BY <1>1, <1>2, ChangedTyped
  <2>2. PutRules(u, f, q)
    BY <1>2 DEF UpdateRule
  <2>3. StoreInv' /\ Shelf!Rewrite(u, f, q)
    BY <2>1, <2>2, PutRulesStep
  <2>4. Shelf!Correct(u, f, i, r)
    BY <2>3 DEF Shelf!Correct
  <2>. QED
    BY <1>2, <2>3, <2>4 DEF Stepped, Shelf!BookNext, Shelf!Rule, Rule
<1>3. CASE i \notin DOMAIN p
  BY <1>3, ForkStep DEF UpdateRule
<1>. QED
  BY <1>2, <1>3

LEMMA SwapStep ==
    ASSUME StoreInv, NEW u \in Users, NEW f \in Fps, NEW i, NEW j,
           SwapRules(u, f, i, j)
    PROVE  StoreInv' /\ Stepped
<1>. DEFINE p == View(store, u, f)
<1>1. p \in Seq(Rule)
  BY EntryTyped DEF StoreInv, StoreTypeOK
<1>2. CASE i \in DOMAIN p /\ j \in DOMAIN p /\ i # j
  <2>. DEFINE q == [p EXCEPT ![i] = p[j], ![j] = p[i]]
  <2>1. q \in Seq(Rule) /\ p # <<>>
    BY <1>1, <1>2, SwappedTyped
  <2>2. PutRules(u, f, q)
    BY <1>2 DEF SwapRules
  <2>3. StoreInv' /\ Shelf!Rewrite(u, f, q)
    BY <2>1, <2>2, PutRulesStep
  <2>4. Shelf!Exchange(u, f, i, j)
    BY <2>3 DEF Shelf!Exchange
  <2>. QED
    BY <1>2, <2>3, <2>4 DEF Stepped, Shelf!BookNext
<1>3. CASE ~(i \in DOMAIN p /\ j \in DOMAIN p /\ i # j)
  BY <1>3, ForkStep DEF SwapRules
<1>. QED
  BY <1>2, <1>3

LEMMA DeleteDatasetStep ==
    ASSUME StoreInv, NEW u \in Users, NEW f \in Fps, DeleteDataset(u, f)
    PROVE  StoreInv' /\ Stepped
<1>. DEFINE e == IF store[Legacy][f] = NoEntry THEN NoEntry ELSE NewEntry
<1>1. store \in Store /\ e \in Entry \cup {NoEntry}
  BY NewEntryTyped DEF StoreInv, StoreTypeOK
<1>2. Commit(Put(store, u, f, e))
  BY DEF DeleteDataset
<1>3. StoreInv'
  BY <1>1, <1>2, PutTyped, CommitInv
<1>4. store' = Put(store, u, f, e)
  BY <1>2 DEF Commit
<1>5. (IF e = NoEntry THEN RulesOf(store[Legacy][f]) ELSE e.rules) = <<>>
  BY NewEntryTyped DEF RulesOf, NewEntry
<1>6. BookOf(store') = [BookOf(store) EXCEPT ![u][f] = <<>>] /\ BaseOf(store') = BaseOf(store)
  <2>. HIDE DEF e
  <2>. QED
    BY <1>1, <1>4, <1>5, PutBook
<1>7. Shelf!TearOut(u, f)
  BY <1>6 DEF Shelf!TearOut, Shelf!Rewrite, BookOf, BaseOf
<1>. QED
  BY <1>3, <1>7 DEF Stepped, Shelf!BookNext

LEMMA DeleteUserStep ==
    ASSUME StoreInv, NEW u \in Users, DeleteUserData(u)
    PROVE  StoreInv' /\ Stepped
<1>. DEFINE st == [store EXCEPT ![u] = EmptyBucket]
<1>1. store \in Store /\ st \in Store
  BY EmptyTyped DEF StoreInv, StoreTypeOK, Store
<1>2. StoreInv'
  BY <1>1, CommitInv DEF DeleteUserData
<1>3. store' = st
  BY DEF DeleteUserData, Commit
<1>4. st[Legacy] = store[Legacy] /\ st[u] = EmptyBucket
      /\ \A v \in Users : v # u => st[v] = store[v]
  BY <1>1 DEF Store, Owners
<1>5. \A f \in Fps : View(st, u, f) = RulesOf(store[Legacy][f])
  BY <1>4 DEF View, Seen, EmptyBucket
<1>6. \A v \in Users, f \in Fps : v # u => View(st, v, f) = View(store, v, f)
  BY <1>4 DEF View, Seen
<1>7. BaseOf(store') = BaseOf(store)
  BY <1>3, <1>4 DEF BaseOf
<1>8. BookOf(store') = [BookOf(store) EXCEPT ![u] = BaseOf(store)]
  BY <1>3, <1>5, <1>6 DEF BookOf, BaseOf
<1>9. Shelf!StartOver(u)
  BY <1>7, <1>8 DEF Shelf!StartOver, BookOf, BaseOf
<1>. QED
  BY <1>2, <1>9 DEF Stepped, Shelf!BookNext

\* Between writes a restart turns no page; during a write it loses everything.
LEMMA CrashStep ==
    ASSUME StoreInv, Crash
    PROVE  Stepped
<1>1. CASE saving
  <2>1. store' = EmptyStore
    BY <1>1 DEF Crash, StoreInv, Loaded
  <2>2. \A u \in Users, f \in Fps : View(store', u, f) = <<>>
    BY <2>1 DEF View, Seen, RulesOf, EmptyStore, EmptyBucket, Owners
  <2>3. \A f \in Fps : RulesOf(store'[Legacy][f]) = <<>>
    BY <2>1 DEF RulesOf, EmptyStore, EmptyBucket, Owners
  <2>4. Shelf!LoseAll
    BY <2>2, <2>3 DEF Shelf!LoseAll, Shelf!Blank
  <2>. QED
    BY <2>4 DEF Stepped, Shelf!BookNext
<1>2. CASE ~saving
  <2>1. store' = Loaded(disk)
    BY DEF Crash
  <2>2. \A u \in Users, f \in Fps : View(store', u, f) = View(store, u, f)
    BY <1>2, <2>1 DEF StoreInv, DiskShowsTheSame
  <2>3. store'[Legacy] = store[Legacy]
    BY <1>2, <2>1 DEF StoreInv, SharedOnDisk
  <2>. QED
    BY <2>2, <2>3 DEF Stepped, Turned, BookOf, BaseOf
<1>. QED
  BY <1>1, <1>2 DEF StoreInv, StoreTypeOK

LEMMA DumpStep ==
    ASSUME Dump
    PROVE  Stepped
BY DEF Dump, Stepped, Turned

LEMMA NextStep ==
    ASSUME StoreInv, StoreNext
    PROVE  StoreInv' /\ Stepped
<1>1. ASSUME NEW u \in Users, NEW f \in Fps, Edit(u, f)
      PROVE  StoreInv' /\ Stepped
  <2>1. CASE DeleteDataset(u, f)
    BY <2>1, DeleteDatasetStep
  <2>2. ASSUME NEW i \in Indices, DeleteRule(u, f, i)
        PROVE  StoreInv' /\ Stepped
    BY <2>2, DeleteStep
  <2>3. ASSUME NEW i \in Indices, NEW r \in Rule, UpdateRule(u, f, i, r)
        PROVE  StoreInv' /\ Stepped
    BY <2>3, UpdateStep
  <2>4. ASSUME NEW i \in Indices, NEW j \in Indices, SwapRules(u, f, i, j)
        PROVE  StoreInv' /\ Stepped
    BY <2>4, SwapStep
  <2>5. ASSUME NEW r \in Rule, NEW cols \in Datasets \cup {NoCols},
               NEW names \in SUBSET Names, NEW label \in SUBSET Names,
               SaveRule(u, f, r, cols, names, label)
        PROVE  StoreInv' /\ Stepped
    BY <2>5, SaveStep
  <2>. QED
    BY <1>1, <2>1, <2>2, <2>3, <2>4, <2>5 DEF Edit
<1>2. ASSUME NEW u \in Users, DeleteUserData(u)
      PROVE  StoreInv' /\ Stepped
  BY <1>2, DeleteUserStep
<1>3. CASE Dump
  BY <1>3, DumpInv, DumpStep
<1>4. CASE Crash
  BY <1>4, CrashInv, CrashStep
<1>. QED
  BY <1>1, <1>2, <1>3, <1>4 DEF StoreNext

------------------------------------------------------------------------------
(* The theorems. *)

LEMMA StoreInvariant == StoreSpec => []StoreInv
<1>1. StoreInv /\ [StoreNext]_storeVars => StoreInv'
  <2>. SUFFICES ASSUME StoreInv, [StoreNext]_storeVars PROVE StoreInv'
    OBVIOUS
  <2>1. CASE StoreNext
    BY <2>1, NextStep
  <2>2. CASE UNCHANGED storeVars
    BY <2>2 DEF storeVars, StoreInv, StoreTypeOK, DiskShowsTheSame, SharedOnDisk
  <2>. QED
    BY <2>1, <2>2
<1>. QED
  BY InitInv, <1>1, PTL DEF StoreSpec

\* A restart shows every user what they saw before, except in the middle of a
\* write (_save, _load, _fork_if_legacy_only).
THEOREM DiskCorrect == StoreSpec => []DiskShowsTheSame
<1>1. StoreInv => DiskShowsTheSame
  BY DEF StoreInv
<1>. QED
  BY StoreInvariant, <1>1, PTL

LEMMA InitBook == StoreInit => Shelf!BookInit
<1>. SUFFICES ASSUME StoreInit PROVE Shelf!BookInit
  OBVIOUS
<1>1. store \in Store
  BY InitInv DEF StoreInv, StoreTypeOK
<1>2. \A f \in Fps : RulesOf(store[Legacy][f]) \in Seq(Rule)
  BY <1>1 DEF RulesOf, Store, Owners, Entry
<1>3. \A u \in Users, f \in Fps : store[u][f] = NoEntry
  BY DEF StoreInit, EmptyStore, EmptyBucket, Owners
<1>4. \A u \in Users, f \in Fps : View(store, u, f) = RulesOf(store[Legacy][f])
  BY <1>3 DEF View, Seen
<1>. QED
  BY <1>2, <1>4 DEF Shelf!BookInit, Shelf!Pages, Shelf!Rule, Rule

\* The store keeps the promise of RuleBook: a step of one user changes one page
\* of that user's book, the shared rules are never written to, and deleted rules
\* do not come back (every operation of agent/feedback_store.py).
THEOREM RuleBookCorrect == StoreSpec => ImplementsRuleBook
<1>1. StoreInv /\ [StoreNext]_storeVars => [Shelf!BookNext]_(Shelf!bookVars)
  <2>. SUFFICES ASSUME StoreInv, [StoreNext]_storeVars
                PROVE  [Shelf!BookNext]_(Shelf!bookVars)
    OBVIOUS
  <2>1. CASE StoreNext
    <3>1. Stepped
      BY <2>1, NextStep
    <3>2. Turned => UNCHANGED Shelf!bookVars
      BY DEF Turned, Shelf!bookVars, BookOf, BaseOf
    <3>. QED
      BY <3>1, <3>2 DEF Stepped
  <2>2. CASE UNCHANGED storeVars
    BY <2>2 DEF storeVars, Shelf!bookVars
  <2>. QED
    BY <2>1, <2>2
<1>. QED
  BY InitBook, StoreInvariant, <1>1, PTL DEF StoreSpec, ImplementsRuleBook, Shelf!BookSpec

------------------------------------------------------------------------------
(* Dataset Memory drives the store. *)

SessionInv ==
    /\ session \in [Sessions -> Session \cup {NoSession}]
    /\ asked   \in [Sessions -> Question \cup {NoQuestion}]
    /\ applied \in [Sessions -> SUBSET Texts]
    /\ \A s \in Sessions : asked[s] # NoQuestion => Open(s)

LEMMA ResolveTyped ==
    ASSUME NEW u \in Users, NEW f \in Fps, NEW d \in Datasets
    PROVE  Resolve(u, f, d) \subseteq Fps
BY DEF Resolve, Fuzzy, Similar, SameFiles

LEMMA SessionOf ==
    ASSUME SessionInv, NEW s \in Sessions, session[s] # NoSession
    PROVE  /\ session[s].user \in Users
           /\ session[s].data \in Datasets
           /\ Open(s) => session[s].fp \in Fps
           /\ session[s] \in Session
BY DEF SessionInv, Session, Open

\* Every step of Dataset Memory keeps the types of the sessions, and a question
\* is only pending in a session that exists.
LEMMA SessionStep ==
    ASSUME SessionInv, [Next]_vars
    PROVE  SessionInv'
<1>. USE DatasetMemoryAssumption
<1>0. ASSUME NEW s \in Sessions, NEW u \in Users, NEW d \in Datasets, Upload(s, u, d)
      PROVE  SessionInv'
  <2>1. [user |-> u, data |-> d, fp |-> NoFp] \in Session
    BY DEF Session
  <2>2. Scanned \in SUBSET Texts
    BY DEF Scanned
  <2>3. asked[s] = NoQuestion
    BY <1>0 DEF Upload, SessionInv, Open
  <2>. QED
    BY <1>0, <2>1, <2>2, <2>3 DEF Upload, SessionInv, Open
<1>1. ASSUME NEW s \in Sessions, Analyzed(s)
      PROVE  SessionInv'
  <2>1. PICK f \in Resolve(session[s].user, FpOf[session[s].data], session[s].data) :
            session' = [session EXCEPT ![s].fp = f]
    BY <1>1 DEF Analyzed
  <2>2. f \in Fps
    BY <1>1, <2>1, SessionOf, ResolveTyped DEF Analyzed
  <2>3. [session[s] EXCEPT !.fp = f] \in Session
    BY <1>1, <2>2, SessionOf DEF Analyzed, Session
  <2>. QED
    BY <1>1, <2>1, <2>2, <2>3 DEF Analyzed, SessionInv, Open, Session
<1>2. ASSUME NEW s \in Sessions, Reanalyze(s)
      PROVE  SessionInv'
  <2>1. Scanned \in SUBSET Texts
    BY DEF Scanned
  <2>. QED
    BY <1>2, <2>1 DEF Reanalyze, SessionInv, Open
<1>3. ASSUME NEW s \in Sessions, GetRules(s)
      PROVE  SessionInv'
  <2>1. session[s] # NoSession
    BY <1>3 DEF GetRules, Open
  <2>2. PICK f \in Resolve(session[s].user, session[s].fp, session[s].data) :
            session' = [session EXCEPT ![s].fp = f]
    BY <1>3 DEF GetRules
  <2>3. f \in Fps
    BY <1>3, <2>1, <2>2, SessionOf, ResolveTyped DEF GetRules
  <2>4. [session[s] EXCEPT !.fp = f] \in Session
    BY <2>1, <2>3, SessionOf DEF Session
  <2>. QED
    BY <1>3, <2>2, <2>3, <2>4 DEF GetRules, SessionInv, Open, Session
<1>4. ASSUME NEW s \in Sessions, NEW r \in Rule, Ask(s, r)
      PROVE  SessionInv'
  <2>1. [rule |-> r, fp |-> session[s].fp] \in Question
    BY <1>4, SessionOf DEF Ask, Open, Question
  <2>. QED
    BY <1>4, <2>1 DEF Ask, SessionInv, Open
<1>5. ASSUME NEW s \in Sessions, Answer(s)
      PROVE  SessionInv'
  BY <1>5 DEF Answer, SessionInv, Open
<1>6. ASSUME NEW s \in Sessions, Panel(s)
      PROVE  SessionInv'
  BY <1>0, <1>1, <1>2, <1>3, <1>4, <1>5, <1>6
     DEF Panel, SaveInSession, EditInSession, SessionInv, Open
<1>7. CASE Restart
  BY <1>7 DEF Restart, SessionInv, Open
<1>8. CASE UNCHANGED vars
  BY <1>8 DEF vars, SessionInv, Open
<1>. QED
  BY <1>6, <1>7, <1>8 DEF Next, EditInMemory, WipeUser, EndOfWrite, SessionInv, Open

\* Every step of Dataset Memory is one operation of the store, or none.
LEMMA StoreStep ==
    ASSUME SessionInv, [Next]_vars
    PROVE  [StoreNext]_storeVars
<1>. USE DatasetMemoryAssumption
<1>1. ASSUME NEW s \in Sessions, Analyzed(s)
      PROVE  [StoreNext]_storeVars
  <2>. DEFINE u == session[s].user
              d == session[s].data
  <2>0. u \in Users /\ d \in Datasets
    BY <1>1, SessionOf DEF Analyzed
  <2>1. PICK f \in Resolve(u, FpOf[d], d) :
            \/ UNCHANGED storeVars
            \/ \E t \in Texts :
                  SaveRule(u, f, [rule |-> t, category |-> "hints"], d,
                           NamesOf[d], NamesOf[d])
    BY <1>1 DEF Analyzed
  <2>2. f \in Fps /\ NamesOf[d] \in SUBSET Names
    BY <2>0, <2>1, ResolveTyped
  <2>3. \A t \in Texts : [rule |-> t, category |-> "hints"] \in Rule
    BY DEF Rule
  <2>. HIDE DEF u, d
  <2>. QED
    BY <2>0, <2>1, <2>2, <2>3 DEF StoreNext, Edit
<1>2. ASSUME NEW s \in Sessions, NEW r \in Rule, SaveInSession(s, r)
      PROVE  [StoreNext]_storeVars
  <2>1. session[s].user \in Users /\ session[s].data \in Datasets /\ session[s].fp \in Fps
    BY <1>2, SessionOf DEF SaveInSession, Open
  <2>2. NamesOf[session[s].data] \in SUBSET Names /\ {} \in SUBSET Names
    BY <2>1
  <2>. QED
    BY <1>2, <2>1, <2>2 DEF SaveInSession, StoreNext, Edit
<1>3. ASSUME NEW s \in Sessions, EditInSession(s)
      PROVE  [StoreNext]_storeVars
  BY <1>3, SessionOf DEF EditInSession, Open, StoreNext, Edit
<1>4. ASSUME NEW s \in Sessions, Answer(s)
      PROVE  [StoreNext]_storeVars
  <2>1. session[s].user \in Users /\ session[s].data \in Datasets
    BY <1>4, SessionOf DEF Answer, SessionInv, Open
  <2>2. asked[s].rule \in Rule /\ asked[s].fp \in Fps
    BY <1>4 DEF Answer, SessionInv, Question
  <2>3. NamesOf[session[s].data] \in SUBSET Names
    BY <2>1
  <2>. QED
    BY <1>4, <2>1, <2>2, <2>3 DEF Answer, StoreNext, Edit
<1>5. ASSUME NEW s \in Sessions, Panel(s)
      PROVE  [StoreNext]_storeVars
  BY <1>1, <1>2, <1>3, <1>4, <1>5 DEF Panel, Upload, Reanalyze, GetRules, Ask
<1>6. ASSUME NEW u \in Users, NEW f \in Fps, EditInMemory(u, f)
      PROVE  [StoreNext]_storeVars
  BY <1>6 DEF EditInMemory, StoreNext, Edit
<1>7. CASE UNCHANGED vars
  BY <1>7 DEF vars
<1>. QED
  BY <1>5, <1>6, <1>7 DEF Next, WipeUser, EndOfWrite, Restart, StoreNext

LEMMA SessionInvariant == Spec => []SessionInv
<1>1. Init => SessionInv
  BY DEF Init, SessionInv
<1>2. SessionInv /\ [Next]_vars => SessionInv'
  BY SessionStep
<1>. QED
  BY <1>1, <1>2, PTL DEF Spec

\* The endpoints of main.py change the store only through the operations of
\* agent/feedback_store.py, on arguments those are defined for.
THEOREM MemoryUsesStore == Spec => StoreSpec
<1>1. Init => StoreInit
  BY DEF Init
<1>2. SessionInv /\ [Next]_vars => [StoreNext]_storeVars
  BY StoreStep
<1>. QED
  BY <1>1, <1>2, SessionInvariant, PTL DEF Spec, StoreSpec

\* So the endpoints keep the types, what a restart shows, and the rule books.
THEOREM MemoryCorrect ==
    Spec => []TypeOK /\ []DiskShowsTheSame /\ ImplementsRuleBook
<1>1. StoreInv /\ SessionInv => TypeOK
  BY DEF StoreInv, SessionInv, TypeOK
<1>. QED
  BY MemoryUsesStore, SessionInvariant, StoreInvariant, DiskCorrect, RuleBookCorrect,
     <1>1, PTL

\* What the scan finds in the file is in the cache.
LEMMA ScannedIsStored ==
    ASSUME StoreInv
    PROVE  Scanned \subseteq Stored
<1>. SUFFICES ASSUME NEW t \in Scanned PROVE t \in Stored
  OBVIOUS
<1>. DEFINE x == [rule |-> t, category |-> "exclude"]
            held(st, o, f) == \E i \in DOMAIN RulesOf(st[o][f]) : RulesOf(st[o][f])[i] = x
<1>1. PICK o \in Owners, f \in Fps : held(Loaded(disk), o, f)
  BY DEF Scanned
<1>2. t \in Texts
  BY DEF Scanned
<1>3. ~saving
  <2>1. saving => RulesOf(Loaded(disk)[o][f]) = <<>>
    BY DEF StoreInv, Loaded, EmptyStore, EmptyBucket, RulesOf
  <2>. QED
    BY <1>1, <2>1
<1>4. CASE o = Legacy
  BY <1>1, <1>2, <1>3, <1>4 DEF StoreInv, SharedOnDisk, Stored
<1>5. CASE o \in Users
  <2>1. Loaded(disk)[o][f] # NoEntry
    BY <1>1 DEF RulesOf
  <2>2. RulesOf(Loaded(disk)[o][f]) = View(store, o, f)
    BY <1>3, <1>5, <2>1 DEF StoreInv, DiskShowsTheSame, View, Seen
  <2>3. PICK q \in {o, Legacy} : View(store, o, f) = RulesOf(store[q][f])
    BY DEF View, Seen
  <2>4. held(store, q, f) /\ q \in Owners
    BY <1>1, <2>2, <2>3 DEF Owners
  <2>. QED
    BY <1>2, <2>4 DEF Stored
<1>. QED
  BY <1>1, <1>4, <1>5 DEF Owners

\* An analysis that reads the file without the lock applies no rule the store
\* does not hold (the scans of /analyze and of the governance analysis).
THEOREM ScanCorrect == Spec => AppliesOnlyStoredRules
<1>1. ASSUME StoreInv, SessionInv, [Next]_vars, NEW s \in Sessions, applied'[s] # applied[s]
      PROVE  applied'[s] \subseteq Stored
  <2>1. CASE applied'[s] = Scanned
    BY <1>1, <2>1, ScannedIsStored
  <2>2. CASE applied'[s] = {}
    BY <2>2
  <2>3. applied'[s] \in {applied[s], Scanned, {}}
    BY <1>1 DEF Next, Panel, Upload, Analyzed, Reanalyze, GetRules, SaveInSession, EditInSession,
                Ask, Answer, EditInMemory, WipeUser, EndOfWrite, Restart, vars, SessionInv
  <2>. QED
    BY <1>1, <2>1, <2>2, <2>3
<1>2. StoreInv /\ SessionInv /\ [Next]_vars =>
        [\A s \in Sessions : applied'[s] # applied[s] => applied'[s] \subseteq Stored]_vars
  BY <1>1
<1>. QED
  BY <1>2, MemoryUsesStore, StoreInvariant, SessionInvariant, PTL
     DEF Spec, AppliesOnlyStoredRules

------------------------------------------------------------------------------
(* Privacy of the rule books. *)

\* "Rules saved by one user are never visible to another user." (feedback_store.py:7),
\* for what the panels and the Memory page show: a step changes what one user sees, if
\* not the whole file is lost.  (The scans of analyses go past this: AppliesOwnRules.)
OneUserAtATime ==
    [][\/ \E u \in Users : \A v \in Users \ {u}, f \in Fps :
            View(store, v, f)' = View(store, v, f)
       \/ \A v \in Users, f \in Fps : View(store, v, f)' = <<>>]_vars

\* In RuleBook a step writes one page of one book, or a book, or loses the shelf.
LEMMA OneBookChanges ==
    ASSUME NEW u0 \in Users, [Shelf!BookNext]_(Shelf!bookVars)
    PROVE  \/ \E u \in Users : \A v \in Users \ {u}, f \in Fps :
                  View(store, v, f)' = View(store, v, f)
           \/ \A v \in Users, f \in Fps : View(store, v, f)' = <<>>
<1> DEFINE book == BookOf(store)
           Others(u) == \A v \in Users \ {u} : book'[v] = book[v]
<1>1. \A v \in Users, f \in Fps : /\ book[v][f] = View(store, v, f)
                                  /\ book'[v][f] = View(store, v, f)'
  BY DEF BookOf
<1>2. ASSUME NEW u \in Users, NEW f \in Fps, NEW page, book' = [book EXCEPT ![u][f] = page]
      PROVE  Others(u)
  BY <1>2 DEF BookOf
<1>3. ASSUME NEW u \in Users, NEW page, book' = [book EXCEPT ![u] = page]
      PROVE  Others(u)
  BY <1>3 DEF BookOf
<1>4. ASSUME NEW u \in Users, Others(u)
      PROVE  \A v \in Users \ {u}, f \in Fps : View(store, v, f)' = View(store, v, f)
  BY <1>1, <1>4
<1>5. ASSUME NEW u \in Users, NEW f \in Fps, NEW page, Shelf!Rewrite(u, f, page)
      PROVE  Others(u)
  BY <1>2, <1>5 DEF Shelf!Rewrite, BookOf
<1>6. ASSUME NEW u \in Users, NEW f \in Fps,
             \/ Shelf!TearOut(u, f)
             \/ \E r \in Shelf!Rule : Shelf!Write(u, f, r)
             \/ \E i \in DOMAIN View(store, u, f) :
                   \/ Shelf!Strike(u, f, i)
                   \/ \E r \in Shelf!Rule : Shelf!Correct(u, f, i, r)
                   \/ \E j \in DOMAIN View(store, u, f) : Shelf!Exchange(u, f, i, j)
      PROVE  Others(u)
  BY <1>5, <1>6 DEF Shelf!TearOut, Shelf!Write, Shelf!Strike, Shelf!Correct, Shelf!Exchange
<1>7. ASSUME NEW u \in Users, Shelf!StartOver(u)
      PROVE  Others(u)
  BY <1>3, <1>7 DEF Shelf!StartOver, BookOf
<1>8. CASE Shelf!LoseAll
  BY <1>8, <1>1 DEF Shelf!LoseAll, Shelf!Blank, BookOf
<1>9. CASE UNCHANGED Shelf!bookVars
  <2>1. Others(u0)
    BY <1>9 DEF Shelf!bookVars, BookOf
  <2>. QED
    BY <2>1, <1>4
<1>10. CASE Shelf!BookNext
  BY <1>4, <1>6, <1>7, <1>8, <1>10 DEF Shelf!BookNext
<1>. QED
  BY <1>9, <1>10

\* However users save, edit, delete and wipe at the same time, nobody's rules show up
\* in, or vanish from, what another user sees.
THEOREM PrivacyCorrect == Spec => OneUserAtATime
<1>1. [Next]_vars /\ [Shelf!BookNext]_(Shelf!bookVars) =>
        [\/ \E u \in Users : \A v \in Users \ {u}, f \in Fps :
               View(store, v, f)' = View(store, v, f)
         \/ \A v \in Users, f \in Fps : View(store, v, f)' = <<>>]_vars
  BY OneBookChanges
<1>. QED
  BY <1>1, MemoryUsesStore, RuleBookCorrect, PTL
     DEF Spec, ImplementsRuleBook, Shelf!BookSpec, OneUserAtATime

==============================================================================
