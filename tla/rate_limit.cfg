\* Two windows and the instant after them; two requests at an instant, so
\* up to four in a window whose limit is one.
CONSTANTS
  Limiters = {"memory", "postgres", "redis"}
  Requests = {r1, r2}
  MaxRequests = 1
  Window = 2
  MaxDelay = 2
  MaxCount = 2
  MaxTime = 4
  Nothing = Nothing
SPECIFICATION LimiterSpec
SYMMETRY Symmetry
CHECK_DEADLOCK FALSE
INVARIANTS
  WindowQuota
  SpanQuota
  DeniedOnlyWhenFull
