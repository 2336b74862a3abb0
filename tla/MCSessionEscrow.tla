-------------------------- MODULE MCSessionEscrow --------------------------
(* A small instance of SessionEscrow for TLC. *)
EXTENDS SessionEscrow, TLC

(* Addresses and scopes are interchangeable. *)
Symmetry == Permutations(Accounts) \cup Permutations(Scopes)
=============================================================================
