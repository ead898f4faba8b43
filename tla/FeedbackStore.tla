---------------------------- MODULE FeedbackStore ----------------------------
(***************************************************************************)
(* The rule store of Dataset Memory: agent/feedback_store.py.              *)
(*                                                                         *)
(* A cache in the server's memory and one JSON file that every save writes *)
(* from scratch.  Each operation runs under the module's lock: it changes  *)
(* the cache and opens the file for writing, which truncates it; Dump ends *)
(* the write and the operation.  In between only readers that do not take  *)
(* the lock, or the end of the process, can see the file.                  *)
(*                                                                         *)
(* store    the cache: an entry per owner and fingerprint                  *)
(* disk     what feedback_rules.json holds, or Torn while it is written    *)
(* saving   the lock is held by an operation that is writing the file      *)
(*                                                                         *)
(* A rule text stands for its strip().lower() form, which is what the      *)
(* store compares.                                                         *)
(***************************************************************************)
EXTENDS Naturals, Sequences, FiniteSets

CONSTANTS Users,
          Legacy,        \* owner of the rules saved before users existed
          Fps,           \* dataset fingerprints
          Texts,
          Categories,
          Names,         \* file names
          Datasets,      \* uploads, each standing for the columns it has
          NoCols,        \* an entry that records no columns
          NoEntry,
          Torn,
          LegacyRules,   \* [Fps -> Seq(Rule)], empty where there is no entry
          MaxRules       \* bound on the rules of an entry, for model checking

Rule == [rule : Texts, category : Categories]

ASSUME FeedbackStoreAssumption ==
    /\ Legacy \notin Users
    /\ NoCols \notin Datasets
    /\ MaxRules \in Nat
    /\ LegacyRules \in [Fps -> Seq(Rule)]

Owners == Users \cup {Legacy}

Entry == [rules : Seq(Rule), cols : Datasets \cup {NoCols},
          names : SUBSET Names, label : SUBSET Names]

ASSUME NoEntryAssumption == NoEntry \notin Entry

Store == [Owners -> [Fps -> Entry \cup {NoEntry}]]

ASSUME TornAssumption == Torn \notin Store

VARIABLES store, disk, saving

storeVars == <<store, disk, saving>>

StoreTypeOK ==
    /\ store \in Store
    /\ disk \in Store \cup {Torn}
    /\ saving \in BOOLEAN

EmptyBucket == [f \in Fps |-> NoEntry]
EmptyStore  == [o \in Owners |-> EmptyBucket]
NewEntry    == [rules |-> <<>>, cols |-> NoCols, names |-> {}, label |-> {}]

\* A file of the old flat form becomes the legacy bucket (_migrate).
StoreInit ==
    /\ store = [EmptyStore EXCEPT ![Legacy] =
                   [f \in Fps |-> IF LegacyRules[f] = <<>> THEN NoEntry
                                  ELSE [NewEntry EXCEPT !.rules = LegacyRules[f]]]]
    /\ disk = store
    /\ saving = FALSE

------------------------------------------------------------------------------
(* Reading. *)

\* The entry user u works on: their own, or the shared one.
Seen(st, u, f) == IF st[u][f] # NoEntry THEN st[u][f] ELSE st[Legacy][f]

RulesOf(e) == IF e = NoEntry THEN <<>> ELSE e.rules

\* get_rules without a module.
View(st, u, f) == RulesOf(Seen(st, u, f))

TextsOf(rules) == {rules[i].rule : i \in DOMAIN rules}

\* Mutant: a file that does not parse is not caught.
M_Loaded(d) == d

\* _load after a restart: a file that does not parse counts as an empty store.
Loaded(d) == IF d = Torn THEN EmptyStore ELSE d

------------------------------------------------------------------------------
(* Writing. *)

Put(st, u, f, e) == [st EXCEPT ![u][f] = e]

Commit(st) ==
    /\ store'  = st
    /\ disk'   = Torn
    /\ saving' = TRUE

Dump ==
    /\ saving
    /\ disk'   = store
    /\ saving' = FALSE
    /\ UNCHANGED store

\* Mutant: the rules of the shared entry are changed in place.
M_PutRules(u, f, rules) ==
    Commit(IF store[u][f] = NoEntry /\ store[Legacy][f] # NoEntry
             THEN Put(Put(store, u, f, [Seen(store, u, f) EXCEPT !.rules = rules]),
                      Legacy, f, [store[Legacy][f] EXCEPT !.rules = rules])
             ELSE Put(store, u, f, [Seen(store, u, f) EXCEPT !.rules = rules]))

\* _fork_if_legacy_only, then the rules of the user's own entry are replaced.
PutRules(u, f, rules) ==
    Commit(Put(store, u, f, [Seen(store, u, f) EXCEPT !.rules = rules]))

\* Mutant: the changed entry stays in memory.
M_Fork(u, f) ==
    /\ store' = Put(store, u, f,
                    IF Seen(store, u, f) = NoEntry THEN NoEntry
                    ELSE [Seen(store, u, f) EXCEPT !.rules = <<>>])
    /\ UNCHANGED <<disk, saving>>

\* An edit or delete by an index that is out of range: the shared entry is
\* forked in memory, and nothing is saved.
Fork(u, f) ==
    /\ store' = Put(store, u, f, Seen(store, u, f))
    /\ UNCHANGED <<disk, saving>>

\* save_rule: the entry is created or forked; a text it holds already is not
\* added again, under whatever category it is held.
SaveRule(u, f, r, cols, names, label) ==
    /\ ~saving
    /\ r.rule \in TextsOf(View(store, u, f)) \/ Len(View(store, u, f)) < MaxRules
    /\ LET old == IF Seen(store, u, f) = NoEntry THEN NewEntry ELSE Seen(store, u, f)
       IN  Commit(Put(store, u, f,
               [rules |-> IF r.rule \in TextsOf(old.rules) THEN old.rules
                                                           ELSE Append(old.rules, r),
                cols  |-> IF cols = NoCols THEN old.cols ELSE cols,
                names |-> old.names \cup names,
                label |-> IF old.label = {} THEN label ELSE old.label]))

\* delete_rule: by 1-based index.
DeleteRule(u, f, i) ==
    LET p == View(store, u, f)
    IN  /\ ~saving
        /\ IF i \in DOMAIN p
             THEN PutRules(u, f, SubSeq(p, 1, i - 1) \o SubSeq(p, i + 1, Len(p)))
             ELSE Fork(u, f)

\* update_rule with a text and a category.  No test for a duplicate.
UpdateRule(u, f, i, r) ==
    LET p == View(store, u, f)
    IN  /\ ~saving
        /\ IF i \in DOMAIN p
             THEN PutRules(u, f, [p EXCEPT ![i] = r])
             ELSE Fork(u, f)

\* update_rule with swap_with, or with a direction (j = i - 1 or i + 1).
SwapRules(u, f, i, j) ==
    LET p == View(store, u, f)
    IN  /\ ~saving
        /\ IF i \in DOMAIN p /\ j \in DOMAIN p /\ i # j
             THEN PutRules(u, f, [p EXCEPT ![i] = p[j], ![j] = p[i]])
             ELSE Fork(u, f)

\* delete_dataset: a shared entry is hidden behind an empty one.
DeleteDataset(u, f) ==
    /\ ~saving
    /\ Seen(store, u, f) # NoEntry
    /\ Commit(Put(store, u, f, IF store[Legacy][f] = NoEntry THEN NoEntry ELSE NewEntry))

\* Mutant: the bucket is dropped from the cache only.
M_DeleteUserData(u) ==
    /\ ~saving
    /\ store[u] # EmptyBucket
    /\ store' = [store EXCEPT ![u] = EmptyBucket]
    /\ UNCHANGED <<disk, saving>>

\* delete_user_data: an administrator wiped the user or the user's data.
DeleteUserData(u) ==
    /\ ~saving
    /\ store[u] # EmptyBucket
    /\ Commit([store EXCEPT ![u] = EmptyBucket])

\* The process ends and another one starts.
Crash ==
    /\ store'  = Loaded(disk)
    /\ saving' = FALSE
    /\ UNCHANGED disk

------------------------------------------------------------------------------

\* 0 stands for every index that is out of range.
Indices == 0..MaxRules

Edit(u, f) ==
    \/ DeleteDataset(u, f)
    \/ \E i \in Indices :
          \/ DeleteRule(u, f, i)
          \/ \E r \in Rule : UpdateRule(u, f, i, r)
          \/ \E j \in Indices : SwapRules(u, f, i, j)
    \/ \E r \in Rule, cols \in Datasets \cup {NoCols}, names, label \in SUBSET Names :
          SaveRule(u, f, r, cols, names, label)

StoreNext ==
    \/ \E u \in Users, f \in Fps : Edit(u, f)
    \/ \E u \in Users : DeleteUserData(u)
    \/ Dump
    \/ Crash

StoreSpec == StoreInit /\ [][StoreNext]_storeVars

------------------------------------------------------------------------------
(* Properties. *)

\* A restart shows every user what they saw before it, except in the middle of
\* a write: entries forked in memory and never saved, and emptied ones that hide
\* a shared entry, make no difference (_fork_if_legacy_only, delete_dataset).
DiskShowsTheSame ==
    ~saving => \A u \in Users, f \in Fps :
                  View(Loaded(disk), u, f) = View(store, u, f)

\* The store is a shelf of private rule books (RuleBook): a user's step changes
\* that user's page and nobody else's, the shared rules are never written to,
\* a deleted rule does not come back, and a restart changes nothing unless it
\* interrupts a write, which loses everything.
Shelf == INSTANCE RuleBook WITH
             book <- [u \in Users |-> [f \in Fps |-> View(store, u, f)]],
             base <- [f \in Fps |-> RulesOf(store[Legacy][f])]

ImplementsRuleBook == Shelf!BookSpec
==============================================================================
