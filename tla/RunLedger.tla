------------------------------ MODULE RunLedger ------------------------------
(***************************************************************************)
(* What the run history of AI DataValidator (ws_run_history) promises to   *)
(* the person who started a job: a run is opened once; only the threads    *)
(* entrusted with it at that moment may deliver a verdict on it, each of   *)
(* them once; and when none of them is left the verdict stands.  A run the *)
(* scheduler starts has one such thread (its executor), a "Run Now" run    *)
(* has two (its worker and its watchdog).  A row leaves the ledger only by *)
(* removal and never returns.                                              *)
(*                                                                         *)
(* ledger[r]  what the row of run r says                                   *)
(* left[r]    the threads that may still deliver a verdict on run r        *)
(***************************************************************************)
EXTENDS Naturals

CONSTANT Runs    \* run identifiers

VARIABLES ledger, left

ledgerVars == <<ledger, left>>

Verdict == {"success", "failed"}

LedgerInit ==
    /\ ledger = [r \in Runs |-> "none"]
    /\ left   = [r \in Runs |-> 0]

Open(r) ==
    /\ ledger[r] = "none"
    /\ ledger' = [ledger EXCEPT ![r] = "running"]
    /\ \E n \in {1, 2} : left' = [left EXCEPT ![r] = n]

\* A verdict on a removed row is delivered to nobody.
Close(r) ==
    /\ left[r] > 0
    /\ left' = [left EXCEPT ![r] = @ - 1]
    /\ \E v \in Verdict :
          ledger' = [ledger EXCEPT ![r] = IF @ = "removed" THEN @ ELSE v]

\* Threads end without a verdict: they fail, or the server stops.
Abandon ==
    /\ \E l \in [Runs -> 0..2] :
          /\ \A r \in Runs : l[r] <= left[r]
          /\ left' = l
    /\ UNCHANGED ledger

Remove ==
    /\ \E gone \in SUBSET {r \in Runs : ledger[r] # "none"} :
          ledger' = [r \in Runs |-> IF r \in gone THEN "removed" ELSE ledger[r]]
    /\ UNCHANGED left

LedgerNext == Remove \/ Abandon \/ \E r \in Runs : Open(r) \/ Close(r)

LedgerSpec == LedgerInit /\ [][LedgerNext]_ledgerVars
==============================================================================
