\* Two calls in flight at a time; one application to draft and one from before
\* there were tokens; sessions of two seconds, of which one must be left;
\* a page whose clock may be a second ahead or two behind.
CONSTANTS
  a1 = a1
  a2 = a2
  c1 = c1
  c2 = c2
  Applications = {a1, a2}
  Legacy = {a2}
  Calls = {c1, c2}
  Ttl = 2
  Margin = 1
  Lags <- Skews
  MaxTokens = 2
  MaxTime = 2
  Absent = Absent
  Nothing = Nothing
SPECIFICATION Spec
SYMMETRY Interchangeable
INVARIANTS
  CardAgrees
  KeepsItsKey
  RotationHolds
  ButtonsHaveACall
PROPERTIES
  RefusedLate
