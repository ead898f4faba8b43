------------------------------ MODULE MCLicense ------------------------------
(* A small instance of License for TLC. *)
EXTENDS License

CONSTANTS k1, k2
==============================================================================
