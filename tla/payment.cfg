\* Redis challenges and durable records; the clock runs past the expiry of a
\* consumed marker, and one-shot payments are against the policy.
CONSTANTS
  Requests = {r1, r2}
  Challenges = {c1, c2}
  Digests = {d1, d2}
  NoProof = NoProof
  NoTx = NoTx
  ChallengeKind = "redis"
  RecordKind = "durable"
  Permitted = {"session"}
  Ttl = 1
  ConsumedTtl = 3
  MaxFlight = 1
  MaxTime = 4
SPECIFICATION Spec
SYMMETRY Symmetry
CHECK_DEADLOCK FALSE
INVARIANTS
  TypeOK
  ChallengeConsumedOnce
  BurntOnlyByVerifiedProof
  ReplayAnswersTruthful
  ServedIsRecorded
  ReceiptSequencesUnique
PROPERTIES
  ImplementsPaidAccess
