----------------------------- MODULE MCGateway -----------------------------
(* Small instances of Gateway for TLC. *)
EXTENDS Gateway, TLC

CONSTANTS m1, m2, a1, a2, s1, s2

(* A service that takes any scope and kind, at two prices; a service that  *)
(* takes its own scope and sessions only, open and paused.                 *)
Quotes(price) ==
  [terms |-> [payee |-> a1, price |-> price, scope |-> s1], active |-> TRUE,
   kinds |-> Kinds, scopes |-> Scopes]
Search(active) ==
  [terms |-> [payee |-> a2, price |-> 1, scope |-> s2], active |-> active,
   kinds |-> {"session"}, scopes |-> {s2}]

TwoServices ==
  (m1 :> {Quotes(1), Quotes(2)}) @@ (m2 :> {Search(TRUE), Search(FALSE)})

Symmetry == Permutations(Requests) \cup Permutations(Challenges)
=============================================================================
