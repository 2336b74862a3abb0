--------------------------- MODULE MCConsoleStores ---------------------------
(* Small instances of ConsoleStores for TLC. *)
EXTENDS ConsoleStores, TLC

(* Every payment carries the same proof. *)
OneProof == [p \in Payments |-> "proof"]

Symmetry == Permutations(Handlers) \cup Permutations(Payments)
=============================================================================
