\* Three addresses pay each other through sessions, one after the other; u64
\* ends at 4, so that a session that is funded again and again reaches it.
CONSTANTS
  Accounts = {a1, a2, a3}
  Ids = {s1}
  Challenges = {c1}
  NoChallenge = NoChallenge
  Scopes = {h1, h2}
  Limits = {1, 2}
  Expiries = {1, 2}
  None = None
  Closed = Closed
  Frozen = Frozen
  Supply = 3
  MaxU64 = 4
  MaxTime = 2
SPECIFICATION Spec
SYMMETRY Symmetry
CHECK_DEADLOCK FALSE
INVARIANTS
  FundedIsBalancePlusSpent
  EventTotalsDisjoint
  CoinsConserved
PROPERTIES
  TermsRespected
