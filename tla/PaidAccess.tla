----------------------------- MODULE PaidAccess -----------------------------
(***************************************************************************)
(* What the payment middleware promises, with no store, no interleaving    *)
(* and no failure in sight: a request is granted access against a payment  *)
(* that is on the ledger, and neither a payment nor a challenge is ever    *)
(* accepted twice.  PaymentServer is shown to implement this module.       *)
(***************************************************************************)
CONSTANTS Requests, Challenges, Digests

VARIABLES
  paid,      \* digests of transactions that pay the merchant enough
  granted    \* grants made so far

Grants == [request : Requests, challenge : Challenges, digest : Digests]

vars == <<paid, granted>>

Init ==
  /\ paid = {}
  /\ granted = {}

Pay(d) ==
  /\ paid' = paid \cup {d}
  /\ UNCHANGED granted

(* One payment opens one challenge for one request, once. *)
Grant(g) ==
  /\ g.digest \in paid
  /\ \A h \in granted : /\ h.request # g.request
                        /\ h.challenge # g.challenge
                        /\ h.digest # g.digest
  /\ granted' = granted \cup {g}
  /\ UNCHANGED paid

Next ==
  \/ \E d \in Digests : Pay(d)
  \/ \E g \in Grants : Grant(g)

Spec == Init /\ [][Next]_vars
=============================================================================
