\* Two runners share a cursor; a checkpoint may hold more events than a page.
CONSTANTS
  Workers = {w1, w2}
  PageLimit = 2
  MaxScan = 2
  MaxPages = 2
  PinnedCursor = FALSE
  MaxCheckpoints = 2
  MaxEvents = 3
  MaxFailures = 1
SPECIFICATION FairSpec
INVARIANTS
  NoEventSkipped
PROPERTIES
  EventuallyIndexed
