\* Two requests in flight at a time, as many as there are one after the other;
\* one application, two change requests for one merchant.
CONSTANTS
  Handlers = {h1, h2}
  Applications = {a1}
  Changes = {q1, q2}
  Merchants = {m1}
  HighRisk = {"merchant"}
  Values = {1, 2}
  Offers <- OneOffer
  Wishes <- OneWish
  SessionEnabled = {}
  Nothing = Nothing
SPECIFICATION Spec
SYMMETRY Symmetry
CHECK_DEADLOCK FALSE
INVARIANTS
  PublishedWasProved
  HighRiskWasReviewed
  DecisionsAreCarriedOut
  ListingAgrees
