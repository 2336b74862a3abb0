\* One of each, two payments of one proof, two requests at a time; three audit
\* events with a clock that goes back.
CONSTANTS
  Drivers = {"file", "postgres"}
  Handlers = {h1, h2}
  Challenges = {c1}
  Payments = {p1, p2}
  ProofOf <- OneProof
  Keys = {k1}
  MaxVersion = 1
  MaxEvents = 3
  MaxExports = 1
  Readings = {0, 1}
  Nothing = Nothing
SPECIFICATION Spec
SYMMETRY Symmetry
CHECK_DEADLOCK FALSE
INVARIANTS
  ConsumedOnce
  AnsweredIsDurable
  AuditFollowsChange
  ChainVerifies
  ExportsAreBacked
