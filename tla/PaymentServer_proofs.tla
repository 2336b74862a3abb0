------------------------ MODULE PaymentServer_proofs ------------------------
(***************************************************************************)
(* Theorems about PaymentServer, for every set of requests, challenges and *)
(* digests, every choice of stores and every clock: type correctness, that *)
(* a challenge is consumed by one request at most, that it is consumed for *)
(* a verified proof only, and that with durable payment records the        *)
(* middleware implements PaidAccess.                                       *)
(***************************************************************************)
EXTENDS PaymentServer, TLAPS

LEMMA ProofHasChallenge ==
  ASSUME NEW p \in Proofs
  PROVE  p.challenge \in Challenges /\ p.digest \in Digests /\ p.kind \in Kinds
BY DEF Proofs

(* What a request in flight carries. *)
LEMMA CarriedProof ==
  ASSUME TypeOK, NEW r \in Requests, pc[r] # "idle"
  PROVE  /\ proof[r] \in Proofs
         /\ proof[r].challenge \in Challenges
         /\ proof[r].digest \in Digests
BY ProofHasChallenge DEF TypeOK, OnlyIssued

(* The type invariant holds of every step of the middleware and its stores *)
(* (packages/server/src/index.ts:396, packages/storage/src/index.ts).      *)
THEOREM TypeCorrect == Spec => []TypeOK
<1>1. Init => TypeOK
  BY TimeAssumption DEF Init, TypeOK, OnlyIssued, WithinFlight, InFlight
<1>2. TypeOK /\ [Next]_vars => TypeOK'
  <2> SUFFICES ASSUME TypeOK, [Next]_vars PROVE TypeOK'
    OBVIOUS
  <2> USE DEF TypeOK, OnlyIssued, WithinFlight, Issued, InFlight, stores, requests
  <2>1. ASSUME NEW c \in Challenges, RespondWithChallenge(c) PROVE TypeOK'
    BY <2>1, TimeAssumption DEF RespondWithChallenge
  <2>2. ASSUME NEW d \in Digests, NEW tx \in Txs, Pay(d, tx) PROVE TypeOK'
    BY <2>2 DEF Pay
  <2>3. ASSUME NEW r \in Requests, NEW p \in Proofs, Arrive(r, p) PROVE TypeOK'
    <3>1. p.challenge \in Challenges /\ p # NoProof
      BY ProofHasChallenge, KindsAssumption
    <3>2. OnlyIssued'
      BY <2>3, <3>1 DEF Arrive, Goto
    <3>3. WithinFlight'
      BY <2>3, TimeAssumption DEF Arrive, Goto
    <3> QED
      BY <2>3, <3>2, <3>3 DEF Arrive, Goto
  <2>4. ASSUME NEW r \in Requests, Advance(r) PROVE TypeOK'
    <3>1. CASE Lookup(r)
      BY <3>1 DEF Lookup, Goto, InFlight, Answered
    <3>2. CASE CheckReplay(r)
      BY <3>2 DEF CheckReplay, Goto, InFlight, Answered
    <3>3. CASE FinishVerification(r)
      BY <3>3 DEF FinishVerification, Goto, InFlight, Answered
    <3>4. CASE Consume(r)
      BY <3>4, TimeAssumption DEF Consume, Goto, InFlight, Answered
    <3>5. CASE Unlink(r)
      BY <3>5 DEF Unlink, Goto, InFlight
    <3>6. CASE IssueReceipt(r)
      BY <3>6 DEF IssueReceipt, Goto, InFlight
    <3>7. CASE Record(r)
      BY <3>7 DEF Record, Goto, InFlight, Answered, Proofs, Records
    <3>8. CASE Serve(r)
      BY <3>8 DEF Serve, Goto, Answered
    <3> QED
      BY <2>4, <3>1, <3>2, <3>3, <3>4, <3>5, <3>6, <3>7, <3>8 DEF Advance
  <2>5. ASSUME NEW r \in Requests, Fail(r) PROVE TypeOK'
    BY <2>5 DEF Fail, Goto, InFlight, Answered
  <2>6. ASSUME NEW dead \in SUBSET Requests, Crash(dead) PROVE TypeOK'
    BY <2>6 DEF Crash
  <2>7. CASE Tick
    BY <2>7, TimeAssumption DEF Tick
  <2>8. CASE UNCHANGED vars
    BY <2>8 DEF vars
  <2> QED
    BY <2>1, <2>2, <2>3, <2>4, <2>5, <2>6, <2>7, <2>8 DEF Next
<1> QED
  BY <1>1, <1>2, PTL DEF Spec

----------------------------------------------------------------------------
(* Consuming once.  A request that looked its challenge up but has not     *)
(* consumed it may still succeed: Pending.  Its lookup came before the     *)
(* challenge expired and it is in flight for MaxFlight at most; a consumed *)
(* marker set at the earliest when the challenge was issued outlives it.   *)

Pending(r) == pc[r] \in {"replay", "fetch", "consume"}

(* Where the clock stands to the requests and to the challenges. *)
TimingInv ==
  /\ \A r \in Requests : Pending(r) => since[r] < expiresAt[proof[r].challenge]
  /\ \A c \in Challenges : expiresAt[c] <= now + Ttl
  /\ \A c \in Challenges : marker[c] # 0 =>
       expiresAt[c] + ConsumedTtl <= marker[c] + Ttl

(* What is left of a consumed challenge: its marker or, after a restart of *)
(* a memory store, the fact that the challenge itself is forgotten and     *)
(* nobody is about to consume it.                                          *)
SpentInv ==
  /\ \A c \in Challenges : ~Issued(c) =>
       consumers[c] = {} /\ marker[c] = 0
  /\ \A c \in Challenges : consumers[c] # {} =>
       \/ marker[c] # 0
       \/ /\ c \notin store
          /\ \A r \in Requests : Pending(r) => proof[r].challenge # c

ConsumedInv == TimingInv /\ SpentInv /\ ChallengeConsumedOnce

LEMMA TimingStep == TypeOK /\ TimingInv /\ SpentInv /\ [Next]_vars => TimingInv'
<1> SUFFICES ASSUME TypeOK, TimingInv, SpentInv, [Next]_vars PROVE TimingInv'
  OBVIOUS
<1> USE TimeAssumption DEF TypeOK, TimingInv, Pending, InFlight, stores, requests
<1>1. ASSUME NEW c \in Challenges, RespondWithChallenge(c) PROVE TimingInv'
  BY <1>1, CarriedProof DEF RespondWithChallenge, SpentInv, Issued
<1>2. ASSUME NEW d \in Digests, NEW tx \in Txs, Pay(d, tx) PROVE TimingInv'
  BY <1>2 DEF Pay
<1>3. ASSUME NEW r \in Requests, NEW p \in Proofs, Arrive(r, p) PROVE TimingInv'
  BY <1>3 DEF Arrive, Goto
<1>4. ASSUME NEW r \in Requests, Advance(r) PROVE TimingInv'
  <2>1. CASE Lookup(r)
    BY <2>1, CarriedProof DEF Lookup, Goto, Live, Expired, WithinFlight
  <2>2. CASE CheckReplay(r)
    BY <2>2 DEF CheckReplay, Goto
  <2>3. CASE FinishVerification(r)
    BY <2>3 DEF FinishVerification, Goto
  <2>4. CASE Consume(r)
    BY <2>4, CarriedProof DEF Consume, Goto
  <2>5. CASE Unlink(r)
    BY <2>5 DEF Unlink, Goto
  <2>6. CASE IssueReceipt(r)
    BY <2>6 DEF IssueReceipt, Goto
  <2>7. CASE Record(r)
    BY <2>7 DEF Record, Goto
  <2>8. CASE Serve(r)
    BY <2>8 DEF Serve, Goto
  <2> QED
    BY <1>4, <2>1, <2>2, <2>3, <2>4, <2>5, <2>6, <2>7, <2>8 DEF Advance
<1>5. ASSUME NEW r \in Requests, Fail(r) PROVE TimingInv'
  BY <1>5 DEF Fail, Goto
<1>6. ASSUME NEW dead \in SUBSET Requests, Crash(dead) PROVE TimingInv'
  BY <1>6 DEF Crash
<1>7. CASE Tick
  BY <1>7 DEF Tick
<1>8. CASE UNCHANGED vars
  BY <1>8 DEF vars
<1> QED
  BY <1>1, <1>2, <1>3, <1>4, <1>5, <1>6, <1>7, <1>8 DEF Next

LEMMA SpentStep == TypeOK /\ TimingInv /\ SpentInv /\ [Next]_vars => SpentInv'
<1> SUFFICES ASSUME TypeOK, TimingInv, SpentInv, [Next]_vars PROVE SpentInv'
  OBVIOUS
<1> USE TimeAssumption DEF TypeOK, SpentInv, Pending, InFlight, Issued, stores, requests
<1>1. ASSUME NEW c \in Challenges, RespondWithChallenge(c) PROVE SpentInv'
  BY <1>1 DEF RespondWithChallenge
<1>2. ASSUME NEW d \in Digests, NEW tx \in Txs, Pay(d, tx) PROVE SpentInv'
  BY <1>2 DEF Pay
<1>3. ASSUME NEW r \in Requests, NEW p \in Proofs, Arrive(r, p) PROVE SpentInv'
  BY <1>3 DEF Arrive, Goto
<1>4. ASSUME NEW r \in Requests, Advance(r) PROVE SpentInv'
  <2>1. CASE Lookup(r)
    BY <2>1, CarriedProof DEF Lookup, Goto, Live
  <2>2. CASE CheckReplay(r)
    BY <2>2 DEF CheckReplay, Goto
  <2>3. CASE FinishVerification(r)
    BY <2>3 DEF FinishVerification, Goto
  <2>4. CASE Consume(r)
    BY <2>4, CarriedProof DEF Consume, Goto, TimingInv
  <2>5. CASE Unlink(r)
    BY <2>5 DEF Unlink, Goto
  <2>6. CASE IssueReceipt(r)
    BY <2>6 DEF IssueReceipt, Goto
  <2>7. CASE Record(r)
    BY <2>7 DEF Record, Goto
  <2>8. CASE Serve(r)
    BY <2>8 DEF Serve, Goto
  <2> QED
    BY <1>4, <2>1, <2>2, <2>3, <2>4, <2>5, <2>6, <2>7, <2>8 DEF Advance
<1>5. ASSUME NEW r \in Requests, Fail(r) PROVE SpentInv'
  BY <1>5 DEF Fail, Goto
<1>6. ASSUME NEW dead \in SUBSET Requests, Crash(dead) PROVE SpentInv'
  BY <1>6 DEF Crash
<1>7. CASE Tick
  BY <1>7 DEF Tick
<1>8. CASE UNCHANGED vars
  BY <1>8 DEF vars
<1> QED
  BY <1>1, <1>2, <1>3, <1>4, <1>5, <1>6, <1>7, <1>8 DEF Next

(* Whoever passes store.consume is the first: a marker that is gone was    *)
(* set too long ago for this request to have found the challenge alive.    *)
LEMMA FirstConsumer ==
  ASSUME TypeOK, TimingInv, SpentInv, NEW r \in Requests, pc[r] = "consume",
         ~Marked(proof[r].challenge)
  PROVE  consumers[proof[r].challenge] = {}
<1> DEFINE c == proof[r].challenge
<1>1. c \in Challenges
  BY CarriedProof
<1>2. /\ since[r] < expiresAt[c]
      /\ now <= since[r] + MaxFlight
  BY DEF TypeOK, WithinFlight, TimingInv, Pending, InFlight
<1>3. CASE marker[c] = 0
  BY <1>1, <1>3 DEF SpentInv, Pending
<1>4. CASE marker[c] # 0
  <2>1. ChallengeKind = "redis" /\ marker[c] <= now
    BY <1>1, <1>4 DEF Marked, TypeOK
  <2>2. Ttl + MaxFlight < ConsumedTtl
    BY <2>1, MarkerAssumption
  <2>3. expiresAt[c] + ConsumedTtl <= marker[c] + Ttl
    BY <1>1, <1>4 DEF TimingInv
  <2> QED
    BY <1>1, <1>2, <2>1, <2>2, <2>3, TimeAssumption DEF TypeOK
<1> QED
  BY <1>3, <1>4

LEMMA ConsumedOnceStep ==
  TypeOK /\ ConsumedInv /\ [Next]_vars => ChallengeConsumedOnce'
<1> SUFFICES ASSUME TypeOK, ConsumedInv, [Next]_vars PROVE ChallengeConsumedOnce'
  OBVIOUS
<1> USE DEF ConsumedInv, ChallengeConsumedOnce
<1>1. ASSUME NEW r \in Requests, Consume(r) PROVE ChallengeConsumedOnce'
  <2>1. CASE Marked(proof[r].challenge)
    BY <1>1, <2>1 DEF Consume
  <2>2. CASE ~Marked(proof[r].challenge)
    <3>1. consumers[proof[r].challenge] = {}
      BY <1>1, <2>2, FirstConsumer DEF Consume
    <3>2. consumers' = [consumers EXCEPT ![proof[r].challenge] = {r}]
      BY <1>1, <2>2, <3>1 DEF Consume
    <3> QED
      BY <3>2 DEF TypeOK
  <2> QED
    BY <2>1, <2>2
<1>2. CASE consumers' = consumers
  BY <1>2
<1> QED
  BY <1>1, <1>2 DEF Next, vars, Advance, RespondWithChallenge, Pay, Arrive, Lookup,
     CheckReplay, FinishVerification, Unlink, IssueReceipt, Record, Serve, Fail,
     Crash, Tick

LEMMA ConsumedInvariant == Spec => [](TypeOK /\ ConsumedInv)
<1>1. Init => ConsumedInv
  BY TimeAssumption DEF Init, ConsumedInv, TimingInv, SpentInv,
     ChallengeConsumedOnce, Pending, InFlight
<1>2. TypeOK /\ ConsumedInv /\ [Next]_vars => ConsumedInv'
  BY TimingStep, SpentStep, ConsumedOnceStep DEF ConsumedInv
<1> QED
  BY <1>1, <1>2, TypeCorrect, PTL DEF Spec

(* ChallengeStore.consume answers true once per challenge, for every store *)
(* and whatever restarts and expires in between, provided that a Redis     *)
(* marker lives longer than a challenge and a request together             *)
(* (packages/storage/src/index.ts:58, packages/server/src/index.ts:239).   *)
THEOREM ConsumedOnce == Spec => []ChallengeConsumedOnce
BY ConsumedInvariant, PTL DEF ConsumedInv

----------------------------------------------------------------------------
(* The history of a consumed challenge.  Whoever consumed it stands behind *)
(* consume(), with a proof that was verified and permitted; whoever stands *)
(* between consume() and the answer consumed its challenge.                *)

Verified(r) ==
  /\ chain[proof[r].digest] # NoTx
  /\ TxMatches(proof[r])
  /\ proof[r].kind \in Permitted

HistoryInv ==
  /\ \A c \in Challenges : \A r \in consumers[c] :
       /\ pc[r] \notin {"idle", "lookup", "replay", "fetch", "consume"}
       /\ proof[r].challenge = c
       /\ Verified(r)
  /\ \A r \in Requests : pc[r] = "consume" => Verified(r)
  /\ \A r \in Requests :
       pc[r] \in {"unlink", "receipt", "record", "recorded", "served"} =>
         r \in consumers[proof[r].challenge]
  /\ \A c \in Challenges : marker[c] # 0 => consumers[c] # {}

LEMMA HistoryStep == TypeOK /\ HistoryInv /\ [Next]_vars => HistoryInv'
<1> SUFFICES ASSUME TypeOK, HistoryInv, [Next]_vars PROVE HistoryInv'
  OBVIOUS
<1> USE DEF TypeOK, HistoryInv, Verified, TxMatches, InFlight, Answered, stores, requests
<1>1. ASSUME NEW c \in Challenges, RespondWithChallenge(c) PROVE HistoryInv'
  BY <1>1 DEF RespondWithChallenge
<1>2. ASSUME NEW d \in Digests, NEW tx \in Txs, Pay(d, tx) PROVE HistoryInv'
  BY <1>2, CarriedProof DEF Pay
<1>3. ASSUME NEW r \in Requests, NEW p \in Proofs, Arrive(r, p) PROVE HistoryInv'
  BY <1>3 DEF Arrive, Goto
<1>4. ASSUME NEW r \in Requests, Advance(r) PROVE HistoryInv'
  <2>1. CASE Lookup(r)
    BY <2>1, CarriedProof DEF Lookup, Goto
  <2>2. CASE CheckReplay(r)
    BY <2>2, CarriedProof DEF CheckReplay, Goto
  <2>3. CASE FinishVerification(r)
    BY <2>3, CarriedProof DEF FinishVerification, Goto
  <2>4. CASE Consume(r)
    BY <2>4, CarriedProof DEF Consume, Goto, Marked
  <2>5. CASE Unlink(r)
    BY <2>5, CarriedProof DEF Unlink, Goto
  <2>6. CASE IssueReceipt(r)
    BY <2>6 DEF IssueReceipt, Goto
  <2>7. CASE Record(r)
    BY <2>7 DEF Record, Goto
  <2>8. CASE Serve(r)
    BY <2>8 DEF Serve, Goto
  <2> QED
    BY <1>4, <2>1, <2>2, <2>3, <2>4, <2>5, <2>6, <2>7, <2>8 DEF Advance
<1>5. ASSUME NEW r \in Requests, Fail(r) PROVE HistoryInv'
  BY <1>5 DEF Fail, Goto
<1>6. ASSUME NEW dead \in SUBSET Requests, Crash(dead) PROVE HistoryInv'
  BY <1>6 DEF Crash
<1>7. CASE Tick
  BY <1>7 DEF Tick
<1>8. CASE UNCHANGED vars
  BY <1>8 DEF vars
<1> QED
  BY <1>1, <1>2, <1>3, <1>4, <1>5, <1>6, <1>7, <1>8 DEF Next

LEMMA HistoryInvariant == Spec => [](TypeOK /\ HistoryInv)
<1>1. Init => HistoryInv
  BY DEF Init, HistoryInv
<1> QED
  BY <1>1, HistoryStep, TypeCorrect, PTL DEF Spec

(* A rejected or forbidden proof leaves the challenge alone                *)
(* (packages/server/src/index.ts:428-449).                                 *)
THEOREM BurntOnlyByVerified == Spec => []BurntOnlyByVerifiedProof
<1>1. HistoryInv => BurntOnlyByVerifiedProof
  BY DEF HistoryInv, Verified, BurntOnlyByVerifiedProof
<1> QED
  BY <1>1, HistoryInvariant, PTL

----------------------------------------------------------------------------
(* 409 answers.  A 409 is only ever given to a request that lost to        *)
(* another one, and what it lost to stays on record unless the records are *)
(* kept in memory (packages/server/src/index.ts:417-426, 449-478).         *)
THEOREM ReplayTruthful ==
  ASSUME RecordKind # "memory"
  PROVE  Spec => []ReplayAnswersTruthful
<1>1. Init => ReplayAnswersTruthful
  BY DEF Init, ReplayAnswersTruthful
<1>2. TypeOK /\ HistoryInv /\ ReplayAnswersTruthful /\ [Next]_vars
        => ReplayAnswersTruthful'
  <2> SUFFICES ASSUME TypeOK, HistoryInv, ReplayAnswersTruthful, [Next]_vars
               PROVE  ReplayAnswersTruthful'
    OBVIOUS
  <2> USE DEF TypeOK, ReplayAnswersTruthful
  <2>1. ASSUME NEW r \in Requests, Consume(r) PROVE ReplayAnswersTruthful'
    <3>1. r \notin consumers[proof[r].challenge] /\ proof[r].challenge \in Challenges
      BY <2>1, CarriedProof DEF HistoryInv, Consume
    <3>2. Marked(proof[r].challenge) => consumers[proof[r].challenge] # {}
      BY <3>1 DEF HistoryInv, Marked
    <3>3. UNCHANGED <<proof, ledger>> /\ pc[r] = "consume"
      BY <2>1 DEF Consume
    <3>4. CASE Marked(proof[r].challenge)
      <4>1. pc' = [pc EXCEPT ![r] = "replayed"] /\ UNCHANGED consumers
        BY <2>1, <3>4 DEF Consume, Goto
      <4>2. \E q \in consumers[proof[r].challenge] : q # r
        BY <3>1, <3>2, <3>4
      <4> QED
        BY <3>3, <4>1, <4>2
    <3>5. CASE ~Marked(proof[r].challenge)
      <4>1. \A q \in Requests : pc'[q] = "replayed" => pc[q] = "replayed"
        BY <2>1, <3>5 DEF Consume, Goto
      <4>2. \A c \in Challenges : consumers[c] \subseteq consumers'[c]
        BY <2>1, <3>5 DEF Consume
      <4>3. \A q \in Requests : pc[q] = "replayed" => proof[q].challenge \in Challenges
        BY CarriedProof
      <4> QED
        BY <3>3, <4>1, <4>2, <4>3
    <3> QED
      BY <3>4, <3>5
  <2>2. ASSUME NEW r \in Requests, CheckReplay(r) \/ Record(r)
        PROVE  ReplayAnswersTruthful'
    <3>1. CASE CheckReplay(r)
      BY <3>1 DEF CheckReplay, Goto, Used, stores
    <3>2. CASE Record(r)
      <4>1. UNCHANGED <<consumers, proof>> /\ ledger \subseteq ledger'
        BY <3>2 DEF Record, stores
      <4>2. \A q \in Requests \ {r} : pc'[q] = pc[q]
        BY <3>2 DEF Record, Goto
      <4>3. pc'[r] = "replayed" => \E p \in ledger : p.digest = proof[r].digest
        BY <3>2 DEF Record, Goto, Used
      <4> QED
        BY <4>1, <4>2, <4>3
    <3> QED
      BY <2>2, <3>1, <3>2
  <2>3. ASSUME /\ UNCHANGED <<consumers, ledger>>
               /\ \A r \in Requests : pc'[r] = "replayed" =>
                    pc[r] = "replayed" /\ proof'[r] = proof[r]
        PROVE  ReplayAnswersTruthful'
    BY <2>3
  <2>4. CASE /\ ~\E r \in Requests : Consume(r)
             /\ ~\E r \in Requests : CheckReplay(r) \/ Record(r)
    BY <2>3, <2>4 DEF Next, Advance, vars, stores, requests, Goto, RespondWithChallenge,
       Pay, Arrive, Lookup, FinishVerification, Unlink, IssueReceipt, Serve, Fail,
       Crash, Tick
  <2> QED
    BY <2>1, <2>2, <2>4
<1> QED
  BY <1>1, <1>2, HistoryInvariant, PTL DEF Spec

----------------------------------------------------------------------------
(* Payment records: with a durable store, a request that is recorded or    *)
(* served finds its own record in the ledger, and nobody else's record has *)
(* its digest.                                                             *)

RecordOf(r) ==
  [challenge |-> proof[r].challenge,
   digest    |-> proof[r].digest,
   receipt   |-> receipt[r]]

Unlocked(r) == pc[r] \in {"recorded", "served"}

RecordInv ==
  /\ \A r \in Requests : Unlocked(r) => RecordOf(r) \in ledger
  /\ \A r1, r2 \in Requests :
       Unlocked(r1) /\ Unlocked(r2) /\ proof[r1].digest = proof[r2].digest => r1 = r2

LEMMA RecordStep ==
  ASSUME RecordKind = "durable"
  PROVE  TypeOK /\ RecordInv /\ [Next]_vars => RecordInv'
<1> SUFFICES ASSUME TypeOK, RecordInv, [Next]_vars PROVE RecordInv'
  OBVIOUS
<1> USE DEF TypeOK, RecordInv, RecordOf, Unlocked, InFlight, Answered, stores, requests
<1>1. ASSUME NEW c \in Challenges, RespondWithChallenge(c) PROVE RecordInv'
  BY <1>1 DEF RespondWithChallenge
<1>2. ASSUME NEW d \in Digests, NEW tx \in Txs, Pay(d, tx) PROVE RecordInv'
  BY <1>2 DEF Pay
<1>3. ASSUME NEW r \in Requests, NEW p \in Proofs, Arrive(r, p) PROVE RecordInv'
  BY <1>3 DEF Arrive, Goto
<1>4. ASSUME NEW r \in Requests, Advance(r) PROVE RecordInv'
  <2>1. CASE Lookup(r)
    BY <2>1 DEF Lookup, Goto
  <2>2. CASE CheckReplay(r)
    BY <2>2 DEF CheckReplay, Goto
  <2>3. CASE FinishVerification(r)
    BY <2>3 DEF FinishVerification, Goto
  <2>4. CASE Consume(r)
    BY <2>4 DEF Consume, Goto
  <2>5. CASE Unlink(r)
    BY <2>5 DEF Unlink, Goto
  <2>6. CASE IssueReceipt(r)
    BY <2>6 DEF IssueReceipt, Goto
  <2>7. CASE Record(r)
    BY <2>7 DEF Record, Goto, Used
  <2>8. CASE Serve(r)
    BY <2>8 DEF Serve, Goto
  <2> QED
    BY <1>4, <2>1, <2>2, <2>3, <2>4, <2>5, <2>6, <2>7, <2>8 DEF Advance
<1>5. ASSUME NEW r \in Requests, Fail(r) PROVE RecordInv'
  BY <1>5 DEF Fail, Goto
<1>6. ASSUME NEW dead \in SUBSET Requests, Crash(dead) PROVE RecordInv'
  BY <1>6 DEF Crash
<1>7. CASE Tick
  BY <1>7 DEF Tick
<1>8. CASE UNCHANGED vars
  BY <1>8 DEF vars
<1> QED
  BY <1>1, <1>2, <1>3, <1>4, <1>5, <1>6, <1>7, <1>8 DEF Next

LEMMA RecordInvariant ==
  ASSUME RecordKind = "durable"
  PROVE  Spec => [](TypeOK /\ RecordInv)
<1>1. Init => RecordInv
  BY DEF Init, RecordInv, Unlocked
<1> QED
  BY <1>1, RecordStep, TypeCorrect, PTL DEF Spec

(* A served request has its record (packages/server/src/index.ts:462-482). *)
THEOREM ServedRecorded ==
  ASSUME RecordKind = "durable"
  PROVE  Spec => []ServedIsRecorded
<1>1. RecordInv => ServedIsRecorded
  BY DEF RecordInv, RecordOf, Unlocked, ServedIsRecorded
<1> QED
  BY <1>1, RecordInvariant, PTL

----------------------------------------------------------------------------
(* Receipt numbers.  A request has no number before IssueReceipt, and the  *)
(* numbers handed out so far are distinct and below the counter: with a    *)
(* counter that survives restarts, no number comes back.                   *)

SequenceInv ==
  /\ \A r \in Requests : receipt[r] <= sequence
  /\ \A r \in Requests : receipt[r] # 0 =>
       pc[r] \notin {"idle", "lookup", "replay", "fetch", "consume", "unlink", "receipt"}
  /\ \A r1, r2 \in Requests : receipt[r1] # 0 /\ receipt[r1] = receipt[r2] => r1 = r2
  /\ \A p \in ledger : p.receipt # 0 =>
       \E r \in Requests : p = RecordOf(r) /\ pc[r] # "idle"

LEMMA SequenceStep ==
  ASSUME ChallengeKind # "memory"
  PROVE  TypeOK /\ SequenceInv /\ [Next]_vars => SequenceInv'
<1> SUFFICES ASSUME TypeOK, SequenceInv, [Next]_vars PROVE SequenceInv'
  OBVIOUS
<1> USE DEF TypeOK, SequenceInv, RecordOf, InFlight, Answered, stores, requests
<1>1. ASSUME NEW c \in Challenges, RespondWithChallenge(c) PROVE SequenceInv'
  BY <1>1 DEF RespondWithChallenge
<1>2. ASSUME NEW d \in Digests, NEW tx \in Txs, Pay(d, tx) PROVE SequenceInv'
  BY <1>2 DEF Pay
<1>3. ASSUME NEW r \in Requests, NEW p \in Proofs, Arrive(r, p) PROVE SequenceInv'
  BY <1>3 DEF Arrive, Goto
<1>4. ASSUME NEW r \in Requests, Advance(r) PROVE SequenceInv'
  <2>1. CASE Lookup(r)
    BY <2>1 DEF Lookup, Goto
  <2>2. CASE CheckReplay(r)
    BY <2>2 DEF CheckReplay, Goto
  <2>3. CASE FinishVerification(r)
    BY <2>3 DEF FinishVerification, Goto
  <2>4. CASE Consume(r)
    BY <2>4 DEF Consume, Goto
  <2>5. CASE Unlink(r)
    BY <2>5 DEF Unlink, Goto
  <2>6. CASE IssueReceipt(r)
    BY <2>6 DEF IssueReceipt, Goto
  <2>7. CASE Record(r)
    BY <2>7 DEF Record, Goto
  <2>8. CASE Serve(r)
    BY <2>8 DEF Serve, Goto
  <2> QED
    BY <1>4, <2>1, <2>2, <2>3, <2>4, <2>5, <2>6, <2>7, <2>8 DEF Advance
<1>5. ASSUME NEW r \in Requests, Fail(r) PROVE SequenceInv'
  BY <1>5 DEF Fail, Goto
<1>6. ASSUME NEW dead \in SUBSET Requests, Crash(dead) PROVE SequenceInv'
  BY <1>6 DEF Crash
<1>7. CASE Tick
  BY <1>7 DEF Tick
<1>8. CASE UNCHANGED vars
  BY <1>8 DEF vars
<1> QED
  BY <1>1, <1>2, <1>3, <1>4, <1>5, <1>6, <1>7, <1>8 DEF Next

(* No two payment records carry the same receipt number, as long as the    *)
(* sequence counter is not kept in the memory of the process               *)
(* (packages/receipts/src/index.ts:221, packages/storage/src/index.ts:85). *)
THEOREM SequencesUnique ==
  ASSUME ChallengeKind # "memory"
  PROVE  Spec => []ReceiptSequencesUnique
<1>1. Init => SequenceInv
  BY DEF Init, SequenceInv
<1>2. SequenceInv => ReceiptSequencesUnique
  BY DEF SequenceInv, RecordOf, ReceiptSequencesUnique
<1> QED
  BY <1>1, <1>2, SequenceStep, TypeCorrect, PTL DEF Spec

----------------------------------------------------------------------------
(* PaymentServer implements PaidAccess.  Serving a request grants, a       *)
(* sufficient transaction pays, every other step of the middleware, its    *)
(* stores and its failures is invisible.                                   *)

GrantOf(r) == [request |-> r, challenge |-> proof[r].challenge, digest |-> proof[r].digest]

LEMMA ServeGrants ==
  ASSUME TypeOK, HistoryInv, RecordInv, ChallengeConsumedOnce,
         NEW r \in Requests, Serve(r)
  PROVE  Access!Grant(GrantOf(r)) /\ GrantOf(r) \in Access!Grants
<1>1. proof[r] \in Proofs /\ pc[r] = "recorded"
  BY CarriedProof DEF Serve
<1>2. GrantOf(r) \in Access!Grants
  BY <1>1, ProofHasChallenge DEF GrantOf, Access!Grants
<1>3. proof[r].digest \in paidView
  BY <1>1, ProofHasChallenge DEF HistoryInv, Verified, TxMatches, paidView
<1>4. ASSUME NEW q \in Requests, pc[q] = "served"
      PROVE  /\ q # r
             /\ proof[q].challenge # proof[r].challenge
             /\ proof[q].digest # proof[r].digest
  <2>1. q # r
    BY <1>1, <1>4
  <2>2. proof[q].digest # proof[r].digest
    BY <1>1, <1>4, <2>1 DEF RecordInv, Unlocked
  <2>3. q \in consumers[proof[q].challenge] /\ r \in consumers[proof[r].challenge]
    BY <1>1, <1>4 DEF HistoryInv
  <2>4. proof[r].challenge \in Challenges
    BY <1>1, ProofHasChallenge
  <2> QED
    BY <2>1, <2>2, <2>3, <2>4 DEF ChallengeConsumedOnce
<1>5. grantedView' = grantedView \cup {GrantOf(r)}
  BY <1>1 DEF grantedView, GrantOf, Serve, Goto, TypeOK
<1>6. UNCHANGED paidView
  BY DEF Serve, paidView
<1> QED
  BY <1>2, <1>3, <1>4, <1>5, <1>6 DEF Access!Grant, grantedView, GrantOf

LEMMA PayPays ==
  ASSUME TypeOK, NEW d \in Digests, NEW tx \in Txs, Pay(d, tx)
  PROVE  UNCHANGED grantedView /\ (Access!Pay(d) \/ UNCHANGED paidView)
<1>1. UNCHANGED grantedView
  BY DEF Pay, grantedView, requests
<1>2. chain' = [chain EXCEPT ![d] = tx] /\ chain[d] = NoTx /\ tx # NoTx
  BY KindsAssumption DEF Pay
<1>3. CASE tx.enough
  BY <1>1, <1>2, <1>3 DEF Access!Pay, paidView, TypeOK
<1>4. CASE ~tx.enough
  BY <1>1, <1>2, <1>4 DEF paidView, TypeOK
<1> QED
  BY <1>1, <1>3, <1>4

(* The steps that nobody outside sees. *)
LEMMA HiddenStep ==
  ASSUME TypeOK,
         \/ \E c \in Challenges : RespondWithChallenge(c)
         \/ \E r \in Requests, p \in Proofs : Arrive(r, p)
         \/ \E r \in Requests : Advance(r) /\ ~Serve(r)
         \/ \E r \in Requests : Fail(r)
         \/ \E dead \in SUBSET Requests : Crash(dead)
         \/ Tick
         \/ UNCHANGED vars
  PROVE  UNCHANGED <<paidView, grantedView>>
<1>1. UNCHANGED chain
  BY DEF Advance, vars, RespondWithChallenge, Arrive, Lookup,
     CheckReplay, FinishVerification, Consume, Unlink, IssueReceipt, Record, Fail,
     Crash, Tick
<1>2. \A q \in Requests : pc'[q] = "served" <=> pc[q] = "served"
  BY DEF Advance, vars, requests, Goto, TypeOK, InFlight, Answered, RespondWithChallenge, Arrive, Lookup,
     CheckReplay, FinishVerification, Consume, Unlink, IssueReceipt, Record, Fail,
     Crash, Tick
<1>3. \A q \in Requests : pc[q] = "served" => proof'[q] = proof[q]
  BY DEF Advance, vars, requests, TypeOK, RespondWithChallenge, Arrive, Lookup,
     CheckReplay, FinishVerification, Consume, Unlink, IssueReceipt, Record, Fail,
     Crash, Tick
<1> QED
  BY <1>1, <1>2, <1>3 DEF paidView, grantedView

(* With durable payment records no payment and no challenge opens the      *)
(* resource twice and nothing opens it unpaid, whatever the interleaving   *)
(* of requests, rejected awaits and crashes                                *)
(* (packages/server/src/index.ts:396-487).                                 *)
THEOREM Implementation ==
  ASSUME RecordKind = "durable"
  PROVE  Spec => ImplementsPaidAccess
<1>1. Init => Access!Init
  BY DEF Init, Access!Init, paidView, grantedView
<1>2. TypeOK /\ HistoryInv /\ RecordInv /\ ChallengeConsumedOnce /\ [Next]_vars
        => [Access!Next]_(Access!vars)
  <2> SUFFICES ASSUME TypeOK, HistoryInv, RecordInv, ChallengeConsumedOnce, [Next]_vars
               PROVE  [Access!Next]_(Access!vars)
    OBVIOUS
  <2>1. ASSUME NEW r \in Requests, Serve(r) PROVE Access!Next
    BY <2>1, ServeGrants DEF Access!Next
  <2>2. ASSUME NEW d \in Digests, NEW tx \in Txs, Pay(d, tx)
        PROVE  [Access!Next]_(Access!vars)
    BY <2>2, PayPays DEF Access!Next, Access!vars
  <2>3. CASE /\ ~\E r \in Requests : Serve(r)
             /\ ~\E d \in Digests, tx \in Txs : Pay(d, tx)
    BY <2>3, HiddenStep DEF Next, Access!vars
  <2> QED
    BY <2>1, <2>2, <2>3
<1> QED
  BY <1>1, <1>2, HistoryInvariant, RecordInvariant, ConsumedOnce, PTL
     DEF Spec, ImplementsPaidAccess, Access!Spec
=============================================================================
