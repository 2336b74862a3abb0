-------------------------- MODULE MCPaymentServer --------------------------
(* Small instances of PaymentServer for TLC. *)
EXTENDS PaymentServer, TLC

(* Requests, challenges and digests are interchangeable. *)
Symmetry == Permutations(Requests) \cup Permutations(Challenges)
              \cup Permutations(Digests)
=============================================================================
