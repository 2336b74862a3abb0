----------------------------- MODULE MCConsole -----------------------------
(* Small instances of Console for TLC. *)
EXTENDS Console, TLC

OneOffer == {[f \in Fields |-> 1]}

(* A new payout wallet. *)
OneWish == {[f \in {"merchant"} |-> 2]}

Symmetry == Permutations(Handlers) \cup Permutations(Applications)
              \cup Permutations(Changes)
=============================================================================
