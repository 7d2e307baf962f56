----------------------------- MODULE MCAccounts -----------------------------
(***************************************************************************)
(* Accounts for TLC: two requests at a time, two sessions, two keys, and   *)
(* two moments at which a session is refreshed before it expires.          *)
(***************************************************************************)
EXTENDS Accounts, TLC

Symmetry == Permutations(Requests) \cup Permutations(Sessions) \cup Permutations(Keys)
=============================================================================
