\* One operator, one request after the other: rejected, then approved.
CONSTANTS
  Handlers = {h1}
  Applications = {a1}
  Changes = {q1}
  Merchants = {m1}
  HighRisk = {"merchant"}
  Values = {1, 2}
  Offers <- OneOffer
  Wishes <- OneWish
  SessionEnabled = {}
  Nothing = Nothing
SPECIFICATION Spec
CHECK_DEADLOCK FALSE
PROPERTIES
  RejectedStaysOut
