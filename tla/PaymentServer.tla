--------------------------- MODULE PaymentServer ---------------------------
(***************************************************************************)
(* The paid-resource middleware of packages/server (requireSuiPayment)     *)
(* with the stores it is configured with: the challenge store (memory,     *)
(* Redis or Postgres), the payment record store (none, memory or durable)  *)
(* and the receipt sequence store.  Several requests are in flight at      *)
(* once; a step of a request is what runs between two of its awaits.  An   *)
(* await may reject, a replica may crash, challenges and Redis markers     *)
(* expire with the clock.                                                  *)
(*                                                                         *)
(* The chain is external: a transaction is known by its digest, by the     *)
(* challenges it was made for and by whether it pays the merchant enough.  *)
(***************************************************************************)
EXTENDS Naturals, FiniteSets

CONSTANTS
  Requests,          \* requests that carry a payment proof
  Challenges,        \* challenges, each issued at most once (its id hashes a nonce)
  Digests,           \* transaction digests
  NoProof, NoTx,     \* "nothing yet"
  ChallengeKind,     \* which ChallengeStore is configured
  RecordKind,        \* which PaymentRecordStore is configured
  Permitted,         \* payment kinds the merchant policy lets through
  Ttl,               \* challenge lifetime (ttlSeconds)
  ConsumedTtl,       \* lifetime of a Redis consumed marker (consumedTtlSeconds)
  MaxFlight,         \* bound: the longest a request stays in flight
  MaxTime            \* bound: the clock stops here

Kinds  == {"one-shot", "session"}
Proofs == [challenge : Challenges, digest : Digests, kind : Kinds]
Txs    == [kind : Kinds, for : SUBSET Challenges, enough : BOOLEAN]

ASSUME KindsAssumption ==
  /\ ChallengeKind \in {"memory", "redis", "postgres"}
  /\ RecordKind \in {"none", "memory", "durable"}
  /\ Permitted \subseteq Kinds
  /\ NoProof \notin Proofs
  /\ NoTx \notin Txs

ASSUME TimeAssumption ==
  /\ Ttl \in Nat \ {0}
  /\ ConsumedTtl \in Nat \ {0}
  /\ MaxFlight \in Nat
  /\ MaxTime \in Nat

(* A Redis marker must outlive every request that can still try to consume *)
(* the challenge: one that looked it up in the last moment of its life.    *)
(* The defaults are 300 seconds against 24 hours.                          *)
ASSUME MarkerAssumption == ChallengeKind = "redis" => Ttl + MaxFlight < ConsumedTtl

VARIABLES
  now,        \* the clock
  chain,      \* digest -> transaction
  expiresAt,  \* challenge -> its expiry, 0 before it is issued
  store,      \* challenges the challenge store holds
  marker,     \* challenge -> expiry of its consumed marker, 0 when there is none
  ledger,     \* payment records
  sequence,   \* receipt sequence counter of the session's stream
  pc,         \* request -> where it stands, or how it was answered
  proof,      \* request -> the proof it carries
  since,      \* request -> when it arrived
  receipt,    \* request -> sequence number of its receipt, 0 when it has none
  consumers   \* history: challenge -> requests whose consume() succeeded

stores   == <<store, marker, ledger, sequence>>
requests == <<pc, proof, since, receipt>>
vars     == <<now, chain, expiresAt, stores, requests, consumers>>

InFlight == {"lookup", "replay", "fetch", "consume", "unlink", "receipt",
             "record", "recorded"}
Answered == {"served", "rejected", "replayed", "forbidden", "failed"}

Records == [challenge : Challenges, digest : Digests, receipt : Nat]

----------------------------------------------------------------------------
(* What the code reads. *)

Issued(c) == expiresAt[c] # 0
Expired(c) == expiresAt[c] <= now

(* ChallengeStore.get *)
Live(c) == c \in store /\ ~Expired(c)

(* Mutants: consume() without the marker; consume() judged by the presence *)
(* of the challenge.                                                       *)
MarkedNever(c) == FALSE
MarkedWhenGone(c) == c \notin store

(* The consumed marker: permanent, or a Redis key with a time to live. *)
Marked(c) == marker[c] # 0 /\ (ChallengeKind = "redis" => now < marker[c])

(* Mutant: no uniqueness of (network, txDigest). *)
UsedNever(d) == FALSE

(* PaymentRecordStore.getByProof, and the uniqueness record() enforces. *)
Used(d) == RecordKind # "none" /\ \E p \in ledger : p.digest = d

(* Sui402Verifier: a one-shot proof needs a large enough transfer to the   *)
(* merchant in the transaction, whatever made it; a session proof needs a  *)
(* spend event that names the challenge.                                   *)
TxMatches(p) ==
  /\ chain[p.digest].enough
  /\ p.kind = "session" => /\ chain[p.digest].kind = "session"
                           /\ p.challenge \in chain[p.digest].for

Goto(r, label) == pc' = [pc EXCEPT ![r] = label]

----------------------------------------------------------------------------
Init ==
  /\ now = 1
  /\ chain = [d \in Digests |-> NoTx]
  /\ expiresAt = [c \in Challenges |-> 0]
  /\ store = {}
  /\ marker = [c \in Challenges |-> 0]
  /\ ledger = {}
  /\ sequence = 0
  /\ pc = [r \in Requests |-> "idle"]
  /\ proof = [r \in Requests |-> NoProof]
  /\ since = [r \in Requests |-> 0]
  /\ receipt = [r \in Requests |-> 0]
  /\ consumers = [c \in Challenges |-> {}]

(* A request without a proof is answered 402 with a fresh challenge. *)
RespondWithChallenge(c) ==
  /\ ~Issued(c)
  /\ expiresAt' = [expiresAt EXCEPT ![c] = now + Ttl]
  /\ store' = store \cup {c}
  /\ UNCHANGED <<now, chain, marker, ledger, sequence, requests, consumers>>

(* A payer submits a transaction for one challenge or, with a session and  *)
(* one transaction block, for several.                                     *)
Pay(d, tx) ==
  /\ chain[d] = NoTx
  /\ tx.for # {}
  /\ \A c \in tx.for : Issued(c)
  /\ tx.kind = "one-shot" => \A c1, c2 \in tx.for : c1 = c2
  /\ chain' = [chain EXCEPT ![d] = tx]
  /\ UNCHANGED <<now, expiresAt, stores, requests, consumers>>

(* A request with a proof header: any issued challenge with any digest. *)
Arrive(r, p) ==
  /\ pc[r] = "idle"
  /\ Issued(p.challenge)
  /\ Goto(r, "lookup")
  /\ proof' = [proof EXCEPT ![r] = p]
  /\ since' = [since EXCEPT ![r] = now]
  /\ UNCHANGED <<now, chain, expiresAt, stores, receipt, consumers>>

(* await store.get(challengeId): an expired entry is dropped. *)
Lookup(r) ==
  LET c == proof[r].challenge IN
  /\ pc[r] = "lookup"
  /\ \/ /\ Live(c)
        /\ Goto(r, "replay")
        /\ UNCHANGED store
     \/ /\ ~Live(c)
        /\ Goto(r, "rejected")
        /\ store' = store \ {c}
  /\ UNCHANGED <<now, chain, expiresAt, marker, ledger, sequence,
                 proof, since, receipt, consumers>>

(* await records.getByProof(...), and the checks verifyPayment makes before *)
(* it asks the fullnode: only a one-shot proof has its expiry looked at now. *)
CheckReplay(r) ==
  LET p == proof[r] IN
  /\ pc[r] = "replay"
  /\ Goto(r, IF Used(p.digest) THEN "replayed"
             ELSE IF p.kind = "one-shot" /\ Expired(p.challenge) THEN "rejected"
             ELSE "fetch")
  /\ UNCHANGED <<now, chain, expiresAt, stores, proof, since, receipt, consumers>>

(* Mutant: the policy is left to the route behind the middleware. *)
FinishVerificationUnpoliced(r) ==
  LET p == proof[r] IN
  /\ pc[r] = "fetch"
  /\ chain[p.digest] # NoTx
  /\ Goto(r, IF TxMatches(p) THEN "consume" ELSE "rejected")
  /\ UNCHANGED <<now, chain, expiresAt, stores, proof, since, receipt, consumers>>

(* The fullnode's answer: the proof is judged (a session proof's expiry    *)
(* only now), then the merchant policy.                                    *)
FinishVerification(r) ==
  LET p == proof[r]
      ok == TxMatches(p) /\ (p.kind = "session" => ~Expired(p.challenge))
  IN
  /\ pc[r] = "fetch"
  /\ chain[p.digest] # NoTx
  /\ Goto(r, IF ~ok THEN "rejected"
             ELSE IF p.kind \notin Permitted THEN "forbidden"
             ELSE "consume")
  /\ UNCHANGED <<now, chain, expiresAt, stores, proof, since, receipt, consumers>>

(* await store.consume(id): the marker decides.  The memory store drops    *)
(* the challenge at once, the others with a second command.                *)
Consume(r) ==
  LET c == proof[r].challenge IN
  /\ pc[r] = "consume"
  /\ \/ /\ Marked(c)
        /\ Goto(r, "replayed")
        /\ UNCHANGED <<store, marker, consumers>>
     \/ /\ ~Marked(c)
        /\ marker' = [marker EXCEPT ![c] = now + ConsumedTtl]
        /\ consumers' = [consumers EXCEPT ![c] = @ \cup {r}]
        /\ store' = IF ChallengeKind = "memory" THEN store \ {c} ELSE store
        /\ Goto(r, IF ChallengeKind = "memory" THEN "receipt" ELSE "unlink")
  /\ UNCHANGED <<now, chain, expiresAt, ledger, sequence, proof, since, receipt>>

Unlink(r) ==
  /\ pc[r] = "unlink"
  /\ store' = store \ {proof[r].challenge}
  /\ Goto(r, "receipt")
  /\ UNCHANGED <<now, chain, expiresAt, marker, ledger, sequence,
                 proof, since, receipt, consumers>>

(* Mutants: the next number is counted from the records; the counter is    *)
(* read and never written back.                                            *)
IssueReceiptCounted(r) ==
  /\ pc[r] = "receipt"
  /\ Goto(r, "record")
  /\ receipt' = [receipt EXCEPT ![r] = Cardinality(ledger) + 1]
  /\ sequence' = Cardinality(ledger) + 1
  /\ UNCHANGED <<now, chain, expiresAt, store, marker, ledger, proof, since,
                 consumers>>
IssueReceiptUnsaved(r) ==
  /\ pc[r] = "receipt"
  /\ Goto(r, "record")
  /\ receipt' = [receipt EXCEPT ![r] = sequence + 1]
  /\ UNCHANGED <<now, chain, expiresAt, stores, proof, since, consumers>>

(* await receiptIssuer(...): a session spend takes the stream's next       *)
(* number and has it signed; a one-shot payment gets no receipt.           *)
IssueReceipt(r) ==
  /\ pc[r] = "receipt"
  /\ Goto(r, "record")
  /\ IF proof[r].kind = "session"
       THEN /\ sequence' = sequence + 1
            /\ receipt' = [receipt EXCEPT ![r] = sequence + 1]
       ELSE UNCHANGED <<sequence, receipt>>
  /\ UNCHANGED <<now, chain, expiresAt, store, marker, ledger, proof, since,
                 consumers>>

(* Mutant: what record() answers is ignored. *)
RecordUnchecked(r) ==
  LET p == proof[r] IN
  /\ pc[r] = "record"
  /\ Goto(r, "recorded")
  /\ ledger' = IF Used(p.digest) THEN ledger
               ELSE ledger \cup {[challenge |-> p.challenge,
                                  digest    |-> p.digest,
                                  receipt   |-> receipt[r]]}
  /\ UNCHANGED <<now, chain, expiresAt, store, marker, sequence, proof, since,
                 receipt, consumers>>

(* await records.record(...) ?? true *)
Record(r) ==
  LET p == proof[r] IN
  /\ pc[r] = "record"
  /\ \/ /\ Used(p.digest)
        /\ Goto(r, "replayed")
        /\ UNCHANGED ledger
     \/ /\ ~Used(p.digest)
        /\ Goto(r, "recorded")
        /\ ledger' = IF RecordKind = "none" THEN ledger
                     ELSE ledger \cup {[challenge |-> p.challenge,
                                        digest    |-> p.digest,
                                        receipt   |-> receipt[r]]}
  /\ UNCHANGED <<now, chain, expiresAt, store, marker, sequence, proof, since,
                 receipt, consumers>>

(* await onVerified(...); next() *)
Serve(r) ==
  /\ pc[r] = "recorded"
  /\ Goto(r, "served")
  /\ UNCHANGED <<now, chain, expiresAt, stores, proof, since, receipt, consumers>>

(* The pending await rejects and the handler calls next(error).  A command *)
(* whose reply is lost shows as a failure right after its effect.          *)
Fail(r) ==
  /\ pc[r] \in InFlight
  /\ Goto(r, "failed")
  /\ UNCHANGED <<now, chain, expiresAt, stores, proof, since, receipt, consumers>>

(* A replica dies with the requests it was handling.  With a memory store  *)
(* there is one replica and it takes the store along; the sequence counter *)
(* is a Redis key or a map of the process, with the challenges.            *)
Crash(dead) ==
  /\ \A r \in dead : pc[r] \in InFlight
  /\ IF "memory" \in {ChallengeKind, RecordKind}
       THEN \A r \in Requests : pc[r] \in InFlight => r \in dead
       ELSE dead # {}
  /\ pc' = [r \in Requests |-> IF r \in dead THEN "lost" ELSE pc[r]]
  /\ IF ChallengeKind = "memory"
       THEN /\ store' = {}
            /\ marker' = [c \in Challenges |-> 0]
       ELSE UNCHANGED <<store, marker>>
  /\ ledger' = IF RecordKind = "memory" THEN {} ELSE ledger
  /\ sequence' = IF ChallengeKind = "memory" THEN 0 ELSE sequence
  /\ UNCHANGED <<now, chain, expiresAt, proof, since, receipt, consumers>>

(* Time passes, as far as the bounds on the clock and on a request's stay  *)
(* in flight let it.                                                       *)
Tick ==
  /\ now < MaxTime
  /\ \A r \in Requests : pc[r] \in InFlight => now < since[r] + MaxFlight
  /\ now' = now + 1
  /\ UNCHANGED <<chain, expiresAt, stores, requests, consumers>>

Advance(r) ==
  \/ Lookup(r)
  \/ CheckReplay(r)
  \/ FinishVerification(r)
  \/ Consume(r)
  \/ Unlink(r)
  \/ IssueReceipt(r)
  \/ Record(r)
  \/ Serve(r)

Next ==
  \/ \E c \in Challenges : RespondWithChallenge(c)
  \/ \E d \in Digests, tx \in Txs : Pay(d, tx)
  \/ \E r \in Requests, p \in Proofs : Arrive(r, p)
  \/ \E r \in Requests : Advance(r)
  \/ \E r \in Requests : Fail(r)
  \/ \E dead \in SUBSET Requests : Crash(dead)
  \/ Tick

Spec == Init /\ [][Next]_vars

----------------------------------------------------------------------------
(* Every challenge a store holds or a request carries was issued. *)
OnlyIssued ==
  /\ \A c \in store : Issued(c)
  /\ \A r \in Requests : pc[r] # "idle" =>
       proof[r] # NoProof /\ Issued(proof[r].challenge)

(* No request has been in flight for longer than the bound. *)
WithinFlight ==
  \A r \in Requests : pc[r] \in InFlight =>
    since[r] <= now /\ now <= since[r] + MaxFlight

(* The type invariant, with what the steps of a request rely on: only      *)
(* issued challenges are stored or carried by a request (OnlyIssued), a    *)
(* request was not in flight for longer than the bound (WithinFlight), and *)
(* no receipt runs ahead of the stream's counter while the counter         *)
(* survives crashes.                                                       *)
TypeOK ==
  /\ now \in Nat \ {0}
  /\ chain \in [Digests -> Txs \cup {NoTx}]
  /\ expiresAt \in [Challenges -> Nat]
  /\ store \subseteq Challenges
  /\ marker \in [Challenges -> Nat]
  /\ ledger \subseteq Records
  /\ sequence \in Nat
  /\ pc \in [Requests -> InFlight \cup Answered \cup {"idle", "lost"}]
  /\ proof \in [Requests -> Proofs \cup {NoProof}]
  /\ since \in [Requests -> Nat]
  /\ receipt \in [Requests -> Nat]
  /\ consumers \in [Challenges -> SUBSET Requests]
  /\ OnlyIssued
  /\ WithinFlight
  /\ ChallengeKind # "memory" => \A r \in Requests : receipt[r] <= sequence

(* Challenge stores consume a challenge once: of all the requests that     *)
(* ever carry it, across restarts and after the marker has expired, at     *)
(* most one gets true from store.consume.                                  *)
ChallengeConsumedOnce ==
  \A c \in Challenges : \A r1, r2 \in consumers[c] : r1 = r2

(* A challenge is consumed only for a proof the verifier accepted and the  *)
(* merchant policy permits: a rejected or forbidden proof leaves the       *)
(* challenge to its payer.                                                 *)
BurntOnlyByVerifiedProof ==
  \A c \in Challenges : \A r \in consumers[c] :
    /\ proof[r].challenge = c
    /\ chain[proof[r].digest] # NoTx
    /\ TxMatches(proof[r])
    /\ proof[r].kind \in Permitted

(* A request answered 409 lost to somebody: another request consumed its   *)
(* challenge, or its transaction is in the payment records.                *)
ReplayAnswersTruthful ==
  \A r \in Requests : pc[r] = "replayed" =>
    \/ \E q \in consumers[proof[r].challenge] : q # r
    \/ \E p \in ledger : p.digest = proof[r].digest

(* Whoever got the resource has a payment record of its own, with its      *)
(* challenge, its transaction and its receipt.                             *)
ServedIsRecorded ==
  \A r \in Requests : pc[r] = "served" =>
    [challenge |-> proof[r].challenge,
     digest    |-> proof[r].digest,
     receipt   |-> receipt[r]] \in ledger

(* No two receipts in the records carry the same sequence number of the    *)
(* session's stream, though requests that lose a race leave gaps.          *)
ReceiptSequencesUnique ==
  \A p, q \in ledger : p.receipt # 0 /\ p.receipt = q.receipt => p = q

(* What is granted, seen from outside: the requests that were served. *)
grantedView ==
  {[request |-> r, challenge |-> proof[r].challenge, digest |-> proof[r].digest] :
     r \in {q \in Requests : pc[q] = "served"}}

paidView == {d \in Digests : chain[d] # NoTx /\ chain[d].enough}

Access == INSTANCE PaidAccess WITH paid <- paidView, granted <- grantedView

(* With durable payment records the middleware implements PaidAccess: no   *)
(* payment and no challenge opens the resource twice, nothing opens it     *)
(* unpaid, whatever the interleaving of requests, failures and crashes.    *)
ImplementsPaidAccess == Access!Spec
=============================================================================
