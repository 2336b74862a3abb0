\* Two ledgers, totals up to the end of u64, one event of each kind per page;
\* a report looks at two of at most three events.
CONSTANTS
  Ledgers = {l1, l2}
  ReceiptIds = {i1, i2}
  NoId = NoId
  Claims = {p1, p2}
  MaxAmount = 2
  MaxBatch = 2
  MaxU64 = 3
  PageLimit = 2
  MaxPages = 2
  ReportLimit = 1
  EventLimit = 2
  TimeOf <- Times
  MaxPayments = 2
  MaxEvents = 3
  MaxFailures = 1
SPECIFICATION PipelineSpec
SYMMETRY Symmetry
CHECK_DEADLOCK FALSE
INVARIANTS
  TotalsMatchTable
  EventsTellTheTable
  NoEventSkipped
  ReportIsTruthful
