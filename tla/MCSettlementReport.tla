------------------------- MODULE MCSettlementReport -------------------------
(* A small instance of SettlementReport for TLC. *)
EXTENDS SettlementReport

(* The first two transactions are of one checkpoint. *)
Times == <<1, 1, 2>>

(* Ledgers, receipt ids and claims are interchangeable. *)
Symmetry == Permutations(Ledgers) \cup Permutations(ReceiptIds)
              \cup Permutations(Claims)
=============================================================================
