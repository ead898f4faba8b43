----------------------------- MODULE MCAccounts -----------------------------
(* Small instances of Accounts for TLC. *)
EXTENDS Accounts

CONSTANTS u1, u2, u3, q1, q2
==============================================================================
