\* Two ids: every race of two requests over one run and over two runs; walks
\* may hang, and only a cancellation is sure to end one.
SPECIFICATION FairSpec
CONSTANTS
  Operators = {o1, o2}
  MaxActive = 1
  MaxStarts = 2
  Claims = 1
INVARIANTS
  IInv
  OrderIsRetained
  CompleteMeansWhole
PROPERTIES
  ReportsAreFinal
  ImplementsLifecycle
  RunsSettle
  StoppedRunsReport
  NoOrphanWalks
CHECK_DEADLOCK FALSE
