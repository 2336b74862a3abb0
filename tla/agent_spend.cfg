\* Two calls of one owner, one with --session-only, and one session, whose limit
\* per request may be below the price.
CONSTANTS
  Challenges = {k1, k2}
  Owner = a1
  SessionOnly = {k2}
  Cap = 1
  Prices = {1, 2}
  Deadlines = {1, 2}
  Nothing = Nothing
  Accounts = {a1, a2}
  Ids = {s1}
  NoChallenge = NoChallenge
  Scopes = {h1}
  Limits = {1, 2}
  Expiries = {1, 2}
  None = None
  Closed = Closed
  Frozen = Frozen
  Supply = 3
  MaxU64 = 4
  MaxTime = 2
SPECIFICATION AgentSpec
CHECK_DEADLOCK FALSE
INVARIANTS
  OnePaymentPerCall
  PaysWhatWasAsked
  RejectedOnlyLate
