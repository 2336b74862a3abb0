\* A step of the middleware fails.
CONSTANTS
  Requests = {r1}
  m1 = m1
  m2 = m2
  Merchants = {m1, m2}
  Challenges = {c1}
  Digests = {d1}
  a1 = a1
  a2 = a2
  s1 = s1
  s2 = s2
  Payees = {a1, a2}
  Prices = {1, 2}
  Scopes = {s1, s2}
  Configs <- TwoServices
  Nothing = Nothing
SPECIFICATION Spec
CHECK_DEADLOCK FALSE
INVARIANTS
  DeliveredIsPaid
