------------------------------ MODULE Gateway ------------------------------
(***************************************************************************)
(* The hosted gateway of packages/gateway: many merchants behind one       *)
(* process, each with a configuration that an admin may replace at any     *)
(* moment, over one challenge store and one store of payment records.  A   *)
(* request reads its merchant's configuration, passes the middleware of    *)
(* packages/server with it and is given the merchant's resource, which may *)
(* be fetched upstream.                                                    *)
(*                                                                         *)
(* PaymentServer takes the middleware apart await by await; here the       *)
(* checks that only read are one step and the stores are durable.  A       *)
(* payment is judged by the terms of the challenge it is redeemed for.     *)
(***************************************************************************)
EXTENDS Naturals

CONSTANTS
  Requests,    \* requests that carry a payment proof
  Merchants,   \* merchant ids
  Challenges,  \* challenges, each issued at most once
  Digests,     \* transaction digests
  Payees,      \* addresses that merchants are paid at
  Prices,      \* amounts
  Scopes,      \* resource scopes
  Configs,     \* merchant -> configurations an admin may give it
  Nothing      \* no configuration, no challenge, no transaction, no proof

Kinds  == {"one-shot", "session"}
Terms  == [payee : Payees, price : Prices, scope : Scopes]
Proofs == [challenge : Challenges, digest : Digests, kind : Kinds]

(* What a transaction pays, and the challenge for which it does so from a  *)
(* session of the challenge's scope, if it does.                           *)
Txs == [payee : Payees, amount : Prices, for : Challenges \cup {Nothing}]

(* paymentPolicy is the kinds and the resource scopes it allows. *)
ConfigRecords ==
  [terms : Terms, active : BOOLEAN, kinds : SUBSET Kinds, scopes : SUBSET Scopes]

ASSUME GatewayAssumption ==
  /\ Prices \subseteq Nat
  /\ Configs \in [Merchants -> SUBSET ConfigRecords]
  /\ Nothing \notin ConfigRecords \cup Terms \cup Txs \cup Proofs \cup Challenges

VARIABLES
  config,    \* merchant store: merchant -> its configuration
  terms,     \* challenge -> the terms it was issued with
  live,      \* challenges the challenge store holds
  consumed,  \* consumed markers
  ledger,    \* payment records
  chain,     \* digest -> transaction
  pc,        \* request -> where it stands, or how it was answered
  target,    \* request -> the merchant it asks
  proof,     \* request -> its proof
  seen,      \* request -> the configuration it read
  paid       \* request -> whether res.locals.sui402 holds a verified payment

stores   == <<live, consumed, ledger>>
requests == <<pc, target, proof, seen, paid>>
vars     == <<config, terms, stores, chain, requests>>

Checking == {"check", "consume", "record", "recorded"}
Answered == {"refused", "failed", "delivered"}

Records == [challenge : Challenges, digest : Digests]

Active(found) == found # Nothing /\ found.active

Goto(r, label) == pc' = [pc EXCEPT ![r] = label]

----------------------------------------------------------------------------
Init ==
  /\ config = [m \in Merchants |-> Nothing]
  /\ terms = [c \in Challenges |-> Nothing]
  /\ live = {}
  /\ consumed = {}
  /\ ledger = {}
  /\ chain = [d \in Digests |-> Nothing]
  /\ pc = [r \in Requests |-> "idle"]
  /\ target \in [Requests -> Merchants]
  /\ proof = [r \in Requests |-> Nothing]
  /\ seen = [r \in Requests |-> Nothing]
  /\ paid = [r \in Requests |-> FALSE]

(* POST /merchants: created, repriced, paused or given another policy. *)
UpsertMerchant(m, new) ==
  /\ config' = [config EXCEPT ![m] = new]
  /\ UNCHANGED <<terms, stores, chain, requests>>

(* A request without a proof.  Issuing with a configuration that has been  *)
(* replaced meanwhile is issuing just before it was.                       *)
Issue(m, c) ==
  /\ Active(config[m])
  /\ terms[c] = Nothing
  /\ terms' = [terms EXCEPT ![c] = config[m].terms]
  /\ live' = live \cup {c}
  /\ UNCHANGED <<config, consumed, ledger, chain, requests>>

Expire(c) ==
  /\ c \in live
  /\ live' = live \ {c}
  /\ UNCHANGED <<config, terms, consumed, ledger, chain, requests>>

Pay(d, tx) ==
  /\ chain[d] = Nothing
  /\ tx.for # Nothing => terms[tx.for] # Nothing
  /\ chain' = [chain EXCEPT ![d] = tx]
  /\ UNCHANGED <<config, terms, stores, requests>>

(* A request with any issued challenge, any digest, for any merchant.      *)
(* await readMerchant: not found, paused, or on to the middleware.         *)
Arrive(r, p) ==
  LET found == config[target[r]] IN
  /\ pc[r] = "idle"
  /\ terms[p.challenge] # Nothing
  /\ proof' = [proof EXCEPT ![r] = p]
  /\ IF Active(found)
       THEN seen' = [seen EXCEPT ![r] = found] /\ Goto(r, "check")
       ELSE UNCHANGED seen /\ Goto(r, "refused")
  /\ UNCHANGED <<config, terms, stores, chain, target, paid>>

(* Mutants: payments are told apart by the id of their record, which has   *)
(* the challenge in it; one is judged by the merchant's price of today.    *)
UsedById(r) ==
  \E rec \in ledger : rec.digest = proof[r].digest /\ rec.challenge = proof[r].challenge
SatisfiesToday(r) ==
  LET p == proof[r]
      tx == chain[p.digest]
  IN
  /\ tx.payee = terms[p.challenge].payee
  /\ tx.amount >= seen[r].terms.price
  /\ p.kind = "session" => tx.for = p.challenge

(* PaymentRecordStore.getByProof, and what record() insists on. *)
Used(r) == \E rec \in ledger : rec.digest = proof[r].digest

(* The verifier, against the terms of the challenge. *)
Satisfies(r) ==
  LET p == proof[r]
      tx == chain[p.digest]
  IN
  /\ tx.payee = terms[p.challenge].payee
  /\ tx.amount >= terms[p.challenge].price
  /\ p.kind = "session" => tx.for = p.challenge

(* Mutant: a policy is looked at for its payment kinds only. *)
AllowedByKind(r) == proof[r].kind \in seen[r].kinds

(* evaluateChallengePolicy with the policy of the merchant asked. *)
Allowed(r) ==
  /\ proof[r].kind \in seen[r].kinds
  /\ terms[proof[r].challenge].scope \in seen[r].scopes

(* Everything in requireSuiPayment up to consume. *)
Check(r) ==
  /\ pc[r] = "check"
  /\ \/ /\ proof[r].challenge \notin live \/ Used(r)
        /\ Goto(r, "refused")
     \/ /\ proof[r].challenge \in live /\ ~Used(r)
        /\ chain[proof[r].digest] # Nothing
        /\ Goto(r, IF Satisfies(r) /\ Allowed(r) THEN "consume" ELSE "refused")
  /\ UNCHANGED <<config, terms, stores, chain, target, proof, seen, paid>>

(* await store.consume *)
Consume(r) ==
  LET c == proof[r].challenge IN
  /\ pc[r] = "consume"
  /\ Goto(r, IF c \in consumed THEN "refused" ELSE "record")
  /\ consumed' = consumed \cup {c}
  /\ live' = IF c \in consumed THEN live ELSE live \ {c}
  /\ UNCHANGED <<config, terms, ledger, chain, target, proof, seen, paid>>

(* await records.record *)
Record(r) ==
  /\ pc[r] = "record"
  /\ \/ /\ Used(r)
        /\ Goto(r, "refused")
        /\ UNCHANGED ledger
     \/ /\ ~Used(r)
        /\ Goto(r, "recorded")
        /\ ledger' = ledger \cup {[challenge |-> proof[r].challenge,
                                   digest    |-> proof[r].digest]}
  /\ UNCHANGED <<config, terms, live, consumed, chain, target, proof, seen, paid>>

(* res.locals.sui402 = ...; next() *)
Verified(r) ==
  /\ pc[r] = "recorded"
  /\ paid' = [paid EXCEPT ![r] = TRUE]
  /\ Goto(r, "resource")
  /\ UNCHANGED <<config, terms, stores, chain, target, proof, seen>>

(* An await of the middleware rejects, or the proof does not decode: it    *)
(* calls next(error), and the next of the gateway takes no argument and    *)
(* goes on to the merchant's resource.                                     *)
MiddlewareFails(r) ==
  /\ pc[r] \in Checking
  /\ Goto(r, "resource")
  /\ UNCHANGED <<config, terms, stores, chain, target, proof, seen, paid>>

(* respondWithMerchantResource: the gateway answers, or the upstream does. *)
Respond(r) ==
  /\ pc[r] = "resource"
  /\ Goto(r, "delivered")
  /\ UNCHANGED <<config, terms, stores, chain, target, proof, seen, paid>>

(* The upstream fails or takes too long, and the router calls next(error); *)
(* or the process dies, anywhere.                                          *)
Fail(r) ==
  /\ pc[r] \in Checking \cup {"resource"}
  /\ Goto(r, "failed")
  /\ UNCHANGED <<config, terms, stores, chain, target, proof, seen, paid>>

Handle(r) ==
  \/ \E p \in Proofs : Arrive(r, p)
  \/ Check(r)
  \/ Consume(r)
  \/ Record(r)
  \/ Verified(r)
  \/ MiddlewareFails(r)
  \/ Respond(r)
  \/ Fail(r)

Next ==
  \/ \E m \in Merchants : \E new \in Configs[m] : UpsertMerchant(m, new)
  \/ \E m \in Merchants, c \in Challenges : Issue(m, c)
  \/ \E c \in Challenges : Expire(c)
  \/ \E d \in Digests, tx \in Txs : Pay(d, tx)
  \/ \E r \in Requests : Handle(r)

Spec == Init /\ [][Next]_vars

----------------------------------------------------------------------------
(* The type invariant, with what the middleware relies on: it runs with a  *)
(* configuration that was active when it was read, on an issued challenge  *)
(* and, past its checks, on a transaction of the chain.                    *)
TypeOK ==
  /\ config \in [Merchants -> ConfigRecords \cup {Nothing}]
  /\ terms \in [Challenges -> Terms \cup {Nothing}]
  /\ live \subseteq Challenges
  /\ consumed \subseteq Challenges
  /\ ledger \subseteq Records
  /\ chain \in [Digests -> Txs \cup {Nothing}]
  /\ pc \in [Requests -> Checking \cup Answered \cup {"idle", "resource"}]
  /\ target \in [Requests -> Merchants]
  /\ proof \in [Requests -> Proofs \cup {Nothing}]
  /\ seen \in [Requests -> ConfigRecords \cup {Nothing}]
  /\ paid \in [Requests -> BOOLEAN]
  /\ \A r \in Requests :
       /\ pc[r] # "idle" => /\ proof[r] # Nothing
                            /\ terms[proof[r].challenge] # Nothing
       /\ pc[r] \in Checking \cup {"resource", "delivered"} =>
            Active(seen[r])
       /\ pc[r] \in Checking \ {"check"} => chain[proof[r].digest] # Nothing

(* A verified payment covers what its challenge asked for when it was      *)
(* issued, by whichever merchant, however it was repriced or paused since. *)
PaymentCoversChallenge ==
  \A r \in Requests : paid[r] =>
    LET asked == terms[proof[r].challenge]
        tx    == chain[proof[r].digest]
    IN
    /\ tx # Nothing /\ asked # Nothing
    /\ tx.payee = asked.payee /\ tx.amount >= asked.price
    /\ proof[r].kind = "session" => tx.for = proof[r].challenge

(* All merchants share one challenge store, but one whose policy allows    *)
(* its own scope only is never opened by a payment for another scope, nor  *)
(* by a kind of payment it does not allow.                                 *)
PolicyConfines ==
  \A r \in Requests : paid[r] =>
    /\ proof[r].kind \in seen[r].kinds
    /\ terms[proof[r].challenge].scope \in seen[r].scopes

(* What the gateway promises: "on success, the gateway records the payment *)
(* [and] proxies the paid request"; the resource is for verified payments. *)
DeliveredIsPaid ==
  \A r \in Requests : pc[r] = "delivered" => paid[r]

(* The threat model's core invariant, for merchants: a verified payment    *)
(* opens the resource of the merchant it was made to.                      *)
OpensItsMerchant ==
  \A r \in Requests : pc[r] = "delivered" /\ paid[r] =>
    chain[proof[r].digest].payee = seen[r].terms.payee

(* Seen from outside: transactions on the chain, and requests served for   *)
(* one.                                                                    *)
paidView == {d \in Digests : chain[d] # Nothing}
grantedView ==
  {[request |-> r, challenge |-> proof[r].challenge, digest |-> proof[r].digest] :
     r \in {q \in Requests : paid[q]}}

Access == INSTANCE PaidAccess WITH paid <- paidView, granted <- grantedView

(* Over all merchants of a gateway, no challenge and no transaction passes *)
(* for a verified payment twice.                                           *)
ImplementsPaidAccess == Access!Spec
=============================================================================
