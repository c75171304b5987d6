\* Market entries; the process may die and start again, and the broker does not keep
\* the comment of the first bar's order.
CONSTANTS
  Scale = 1
  BaseRiskBp = 35
  BufferPct = 20
  MaxConcurrentBp = 100
  MaxTradesPerDay = 6
  MaxConcurrentPendings = 2
  RequestSoftCap = 1600
  CautiousDiv = 2
  ReducedDiv = 2
  TaperStartBp = 600
  WarnPct = 40
  HaltPct = 60
  FlattenPct = 85
  SizeBandPct = 50
  StopsLevel = 5
  MinSteps = 1
  MaxSteps = 8
  LotStep = 10
  EntryKind = "market"
  BarsPerDay = 2
  MaxBar = 2
  StepStop = 10
  InitialLosses = {0}
  InitialTrades = {0}
  StartBalances = {10000}
  Gaps = {0}
  Sentinel = FALSE
  Crashes = TRUE
  MaxStarts = 2
  LostAnswers = FALSE
  CommentsLost = {1}
  ReadFails = FALSE
  RejectCloses = FALSE
SPECIFICATION Spec
PROPERTY NoDuplicateExecution
\* The process may be down, or halted, for good.
CHECK_DEADLOCK FALSE
