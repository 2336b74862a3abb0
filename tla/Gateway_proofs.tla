--------------------------- MODULE Gateway_proofs ---------------------------
(***************************************************************************)
(* Theorems about Gateway, for every set of merchants, every set of        *)
(* configurations an admin may give them and every number of requests:     *)
(* types, that a verified payment covers its challenge and is within the   *)
(* policy it was verified under, and that all merchants together implement *)
(* PaidAccess.                                                             *)
(***************************************************************************)
EXTENDS Gateway, TLAPS

(* The type invariant holds of every step of the gateway                   *)
(* (packages/gateway/src/index.ts:97, 155, packages/server/src/index.ts:396). *)
THEOREM TypeCorrect == Spec => []TypeOK
<1>1. Init => TypeOK
  BY DEF Init, TypeOK, Checking, Answered
<1>2. TypeOK /\ [Next]_vars => TypeOK'
  <2> SUFFICES ASSUME TypeOK, [Next]_vars PROVE TypeOK'
    OBVIOUS
  <2> USE GatewayAssumption DEF TypeOK, Active, stores, requests
  <2>1. ASSUME NEW m \in Merchants, NEW new \in Configs[m], UpsertMerchant(m, new)
        PROVE  TypeOK'
    BY <2>1 DEF UpsertMerchant
  <2>2. ASSUME NEW m \in Merchants, NEW c \in Challenges, Issue(m, c) PROVE TypeOK'
    <3>1. config[m].terms \in Terms
      BY <2>2 DEF Issue, ConfigRecords
    <3> QED
      BY <2>2, <3>1 DEF Issue
  <2>3. ASSUME NEW c \in Challenges, Expire(c) PROVE TypeOK'
    BY <2>3 DEF Expire
  <2>4. ASSUME NEW d \in Digests, NEW tx \in Txs, Pay(d, tx) PROVE TypeOK'
    BY <2>4 DEF Pay
  <2>5. ASSUME NEW r \in Requests, Handle(r) PROVE TypeOK'
    <3> USE DEF Goto, Checking, Answered
    <3>1. ASSUME NEW p \in Proofs, Arrive(r, p) PROVE TypeOK'
      BY <3>1 DEF Arrive
    <3>2. CASE Check(r)
      BY <3>2 DEF Check
    <3>3. CASE Consume(r)
      BY <3>3 DEF Consume, Proofs
    <3>4. CASE Record(r)
      BY <3>4 DEF Record, Records, Proofs
    <3>5. CASE Verified(r)
      BY <3>5 DEF Verified
    <3>6. CASE MiddlewareFails(r)
      BY <3>6 DEF MiddlewareFails
    <3>7. CASE Respond(r)
      BY <3>7 DEF Respond
    <3>8. CASE Fail(r)
      BY <3>8 DEF Fail
    <3> QED
      BY <2>5, <3>1, <3>2, <3>3, <3>4, <3>5, <3>6, <3>7, <3>8 DEF Handle
  <2>6. CASE UNCHANGED vars
    BY <2>6 DEF vars
  <2> QED
    BY <2>1, <2>2, <2>3, <2>4, <2>5, <2>6 DEF Next
<1> QED
  BY <1>1, <1>2, PTL DEF Spec

LEMMA ProofHasChallenge ==
  ASSUME NEW p \in Proofs
  PROVE  p.challenge \in Challenges /\ p.digest \in Digests /\ p.kind \in Kinds
BY DEF Proofs

(* What a request that was not refused on arrival carries. *)
LEMMA CarriedProof ==
  ASSUME TypeOK, NEW r \in Requests, pc[r] # "idle"
  PROVE  /\ proof[r] \in Proofs
         /\ proof[r].challenge \in Challenges
         /\ proof[r].digest \in Digests
BY ProofHasChallenge DEF TypeOK

----------------------------------------------------------------------------
(* What a request was checked against stays true while it goes on: terms   *)
(* of an issued challenge and a transaction of the chain never change, and *)
(* the request keeps the configuration it read, whatever becomes of the    *)
(* merchant's.                                                             *)

Accepted(r) ==
  /\ chain[proof[r].digest] # Nothing
  /\ terms[proof[r].challenge] # Nothing
  /\ Satisfies(r)
  /\ Allowed(r)

AcceptInv ==
  /\ \A r \in Requests : paid[r] => pc[r] \in {"resource", "delivered", "failed"}
  /\ \A r \in Requests :
       paid[r] \/ pc[r] \in {"consume", "record", "recorded"} => Accepted(r)

LEMMA AcceptStep == TypeOK /\ AcceptInv /\ [Next]_vars => AcceptInv'
<1> SUFFICES ASSUME TypeOK, AcceptInv, [Next]_vars PROVE AcceptInv'
  OBVIOUS
<1> USE DEF TypeOK, AcceptInv, Accepted, Satisfies, Allowed, Checking, stores, requests
<1>1. ASSUME NEW m \in Merchants, NEW new \in Configs[m], UpsertMerchant(m, new)
      PROVE  AcceptInv'
  BY <1>1 DEF UpsertMerchant
<1>2. ASSUME NEW m \in Merchants, NEW c \in Challenges, Issue(m, c) PROVE AcceptInv'
  <2>1. \A b \in Challenges : terms[b] # Nothing => terms'[b] = terms[b]
    BY <1>2 DEF Issue
  <2> QED
    BY <1>2, <2>1, CarriedProof DEF Issue
<1>3. ASSUME NEW c \in Challenges, Expire(c) PROVE AcceptInv'
  BY <1>3 DEF Expire
<1>4. ASSUME NEW d \in Digests, NEW tx \in Txs, Pay(d, tx) PROVE AcceptInv'
  <2>1. \A e \in Digests : chain[e] # Nothing => chain'[e] = chain[e]
    BY <1>4 DEF Pay
  <2> QED
    BY <1>4, <2>1, CarriedProof DEF Pay
<1>5. ASSUME NEW r \in Requests, Handle(r) PROVE AcceptInv'
  <2>1. ASSUME NEW p \in Proofs, Arrive(r, p) PROVE AcceptInv'
    BY <2>1 DEF Arrive, Goto
  <2>2. CASE Check(r)
    BY <2>2, CarriedProof DEF Check, Goto
  <2>3. CASE Consume(r)
    BY <2>3 DEF Consume, Goto
  <2>4. CASE Record(r)
    BY <2>4 DEF Record, Goto
  <2>5. CASE Verified(r)
    BY <2>5 DEF Verified, Goto
  <2>6. CASE MiddlewareFails(r)
    BY <2>6 DEF MiddlewareFails, Goto
  <2>7. CASE Respond(r)
    BY <2>7 DEF Respond, Goto
  <2>8. CASE Fail(r)
    BY <2>8 DEF Fail, Goto
  <2> QED
    BY <1>5, <2>1, <2>2, <2>3, <2>4, <2>5, <2>6, <2>7, <2>8 DEF Handle
<1>6. CASE UNCHANGED vars
  BY <1>6 DEF vars
<1> QED
  BY <1>1, <1>2, <1>3, <1>4, <1>5, <1>6 DEF Next

LEMMA AcceptInvariant == Spec => [](TypeOK /\ AcceptInv)
<1>1. Init => AcceptInv
  BY DEF Init, AcceptInv
<1> QED
  BY <1>1, AcceptStep, TypeCorrect, PTL DEF Spec

(* The verifier's judgement outlasts changes of the merchant's price and   *)
(* address: it is about the challenge (packages/server/src/index.ts:428).  *)
THEOREM CoversChallenge == Spec => []PaymentCoversChallenge
<1>1. AcceptInv => PaymentCoversChallenge
  BY DEF AcceptInv, Accepted, Satisfies, PaymentCoversChallenge
<1> QED
  BY <1>1, AcceptInvariant, PTL

(* The policy of the merchant that was asked is applied to the challenge   *)
(* that was paid (packages/gateway/src/index.ts:172-191,                   *)
(* packages/policy/src/index.ts:39).                                       *)
THEOREM PolicyHolds == Spec => []PolicyConfines
<1>1. AcceptInv => PolicyConfines
  BY DEF AcceptInv, Accepted, Allowed, PolicyConfines
<1> QED
  BY <1>1, AcceptInvariant, PTL

----------------------------------------------------------------------------
(* Challenges and records have one owner over all merchants.  A request    *)
(* that consumed its challenge and may still be or has been verified owns  *)
(* it; one that has its record written owns the transaction as well.       *)

OwnsChallenge(r) == paid[r] \/ pc[r] \in {"record", "recorded"}
OwnsRecord(r)    == paid[r] \/ pc[r] = "recorded"

RecordOf(r) == [challenge |-> proof[r].challenge, digest |-> proof[r].digest]

OwnerInv ==
  /\ \A r \in Requests : OwnsChallenge(r) => proof[r].challenge \in consumed
  /\ \A r1, r2 \in Requests :
       OwnsChallenge(r1) /\ OwnsChallenge(r2) /\ proof[r1].challenge = proof[r2].challenge
         => r1 = r2
  /\ \A r \in Requests : OwnsRecord(r) => RecordOf(r) \in ledger
  /\ \A r1, r2 \in Requests :
       OwnsRecord(r1) /\ OwnsRecord(r2) /\ proof[r1].digest = proof[r2].digest
         => r1 = r2

LEMMA OwnerStep == TypeOK /\ AcceptInv /\ OwnerInv /\ [Next]_vars => OwnerInv'
<1> SUFFICES ASSUME TypeOK, AcceptInv, OwnerInv, [Next]_vars PROVE OwnerInv'
  OBVIOUS
<1>0. \A r \in Requests : paid[r] => pc[r] \in {"resource", "delivered", "failed"}
  BY DEF AcceptInv
<1> USE DEF TypeOK, OwnerInv, OwnsChallenge, OwnsRecord, RecordOf, stores, requests
<1>1. ASSUME NEW m \in Merchants, NEW new \in Configs[m], UpsertMerchant(m, new)
      PROVE  OwnerInv'
  BY <1>1 DEF UpsertMerchant
<1>2. ASSUME NEW m \in Merchants, NEW c \in Challenges, Issue(m, c) PROVE OwnerInv'
  BY <1>2 DEF Issue
<1>3. ASSUME NEW c \in Challenges, Expire(c) PROVE OwnerInv'
  BY <1>3 DEF Expire
<1>4. ASSUME NEW d \in Digests, NEW tx \in Txs, Pay(d, tx) PROVE OwnerInv'
  BY <1>4 DEF Pay
<1>5. ASSUME NEW r \in Requests, Handle(r) PROVE OwnerInv'
  <2>1. ASSUME NEW p \in Proofs, Arrive(r, p) PROVE OwnerInv'
    BY <1>0, <2>1 DEF Arrive, Goto
  <2>2. CASE Check(r)
    BY <1>0, <2>2 DEF Check, Goto
  <2>3. CASE Consume(r)
    BY <1>0, <2>3 DEF Consume, Goto
  <2>4. CASE Record(r)
    <3>1. pc[r] = "record" /\ ~paid[r] /\ UNCHANGED <<consumed, proof, paid>>
      BY <1>0, <2>4 DEF Record
    <3>2. CASE Used(r)
      BY <2>4, <3>1, <3>2 DEF Record, Goto
    <3>3. CASE ~Used(r)
      <4>1. /\ pc' = [pc EXCEPT ![r] = "recorded"]
            /\ ledger' = ledger \cup {RecordOf(r)}
        BY <2>4, <3>3 DEF Record, Goto
      <4>2. \A q \in Requests : OwnsRecord(q) => proof[q].digest # proof[r].digest
        BY <3>3 DEF Used
      <4>3. \A q \in Requests : /\ OwnsChallenge(q)' <=> OwnsChallenge(q)
                               /\ OwnsRecord(q)' <=> OwnsRecord(q) \/ q = r
        BY <3>1, <4>1
      <4> QED
        BY <3>1, <4>1, <4>2, <4>3
    <3> QED
      BY <3>2, <3>3
  <2>5. CASE Verified(r)
    BY <1>0, <2>5 DEF Verified, Goto
  <2>6. CASE MiddlewareFails(r)
    BY <1>0, <2>6 DEF MiddlewareFails, Goto, Checking
  <2>7. CASE Respond(r)
    BY <1>0, <2>7 DEF Respond, Goto
  <2>8. CASE Fail(r)
    BY <1>0, <2>8 DEF Fail, Goto, Checking
  <2> QED
    BY <1>5, <2>1, <2>2, <2>3, <2>4, <2>5, <2>6, <2>7, <2>8 DEF Handle
<1>6. CASE UNCHANGED vars
  BY <1>6 DEF vars
<1> QED
  BY <1>1, <1>2, <1>3, <1>4, <1>5, <1>6 DEF Next

LEMMA OwnerInvariant == Spec => [](TypeOK /\ AcceptInv /\ OwnerInv)
<1>1. Init => OwnerInv
  BY DEF Init, OwnerInv, OwnsChallenge, OwnsRecord
<1> QED
  BY <1>1, OwnerStep, AcceptInvariant, PTL DEF Spec

----------------------------------------------------------------------------
(* Refinement.  Verified(r) grants, a transaction pays, every other step   *)
(* of the gateway is invisible.                                            *)

GrantOf(r) == [request |-> r, challenge |-> proof[r].challenge, digest |-> proof[r].digest]

LEMMA VerifiedGrants ==
  ASSUME TypeOK, AcceptInv, OwnerInv, NEW r \in Requests, Verified(r)
  PROVE  GrantOf(r) \in Access!Grants /\ Access!Grant(GrantOf(r))
<1>1. pc[r] = "recorded" /\ proof[r] \in Proofs /\ ~paid[r]
  BY CarriedProof DEF Verified, AcceptInv
<1>2. GrantOf(r) \in Access!Grants
  BY <1>1, ProofHasChallenge DEF GrantOf, Access!Grants
<1>3. proof[r].digest \in paidView
  BY <1>1, ProofHasChallenge DEF AcceptInv, Accepted, paidView
<1>4. ASSUME NEW q \in Requests, paid[q]
      PROVE  /\ q # r
             /\ proof[q].challenge # proof[r].challenge
             /\ proof[q].digest # proof[r].digest
  BY <1>1, <1>4 DEF OwnerInv, OwnsChallenge, OwnsRecord
<1>5. grantedView' = grantedView \cup {GrantOf(r)}
  BY DEF grantedView, GrantOf, Verified, TypeOK
<1>6. UNCHANGED paidView
  BY DEF Verified, paidView
<1> QED
  BY <1>2, <1>3, <1>4, <1>5, <1>6 DEF Access!Grant, grantedView, GrantOf

LEMMA PayPays ==
  ASSUME TypeOK, NEW d \in Digests, NEW tx \in Txs, Pay(d, tx)
  PROVE  Access!Pay(d)
<1>1. UNCHANGED grantedView
  BY DEF Pay, grantedView, requests
<1>2. paidView' = paidView \cup {d}
  BY GatewayAssumption DEF Pay, paidView, TypeOK
<1> QED
  BY <1>1, <1>2 DEF Access!Pay

(* The steps that nobody outside sees. *)
LEMMA HiddenStep ==
  ASSUME TypeOK, AcceptInv,
         \/ \E m \in Merchants : \E new \in Configs[m] : UpsertMerchant(m, new)
         \/ \E m \in Merchants, c \in Challenges : Issue(m, c)
         \/ \E c \in Challenges : Expire(c)
         \/ \E r \in Requests : Handle(r) /\ ~Verified(r)
         \/ UNCHANGED vars
  PROVE  UNCHANGED <<paidView, grantedView>>
<1>1. UNCHANGED <<chain, paid>>
  BY DEF Handle, vars, stores, requests, UpsertMerchant, Issue, Expire, Arrive, Check,
     Consume, Record, MiddlewareFails, Respond, Fail
<1>2. \A q \in Requests : paid[q] => proof'[q] = proof[q]
  BY DEF AcceptInv, TypeOK, Handle, vars, stores, requests, UpsertMerchant, Issue,
     Expire, Arrive, Check, Consume, Record, MiddlewareFails, Respond, Fail
<1> QED
  BY <1>1, <1>2 DEF paidView, grantedView

(* Over all merchants, whatever their configurations and however these     *)
(* change while requests are in flight, no challenge and no transaction    *)
(* passes for a verified payment twice                                     *)
(* (packages/gateway/src/index.ts:155-195).                                *)
THEOREM Implementation == Spec => ImplementsPaidAccess
<1>1. Init => Access!Init
  BY DEF Init, Access!Init, paidView, grantedView
<1>2. TypeOK /\ AcceptInv /\ OwnerInv /\ [Next]_vars => [Access!Next]_(Access!vars)
  <2> SUFFICES ASSUME TypeOK, AcceptInv, OwnerInv, [Next]_vars
               PROVE  [Access!Next]_(Access!vars)
    OBVIOUS
  <2>1. ASSUME NEW r \in Requests, Verified(r) PROVE Access!Next
    BY <2>1, VerifiedGrants DEF Access!Next
  <2>2. ASSUME NEW d \in Digests, NEW tx \in Txs, Pay(d, tx) PROVE Access!Next
    BY <2>2, PayPays DEF Access!Next
  <2>3. CASE /\ ~\E r \in Requests : Verified(r)
             /\ ~\E d \in Digests, tx \in Txs : Pay(d, tx)
    BY <2>3, HiddenStep DEF Next, Access!vars
  <2> QED
    BY <2>1, <2>2, <2>3
<1> QED
  BY <1>1, <1>2, OwnerInvariant, PTL DEF Spec, ImplementsPaidAccess, Access!Spec
=============================================================================
