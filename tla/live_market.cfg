\* Market entries, one trade a day, and every fault at once: the process may die
\* anywhere and start again, answers are lost, queries fail, closes are refused,
\* equity gaps past a stop-loss and recovers, and the broker does not keep the
\* comment of the first bar's order.  The day starts at a loss of 40% of its budget,
\* or at none.
CONSTANTS
  Scale = 1
  BaseRiskBp = 35
  BufferPct = 20
  MaxConcurrentBp = 100
  MaxTradesPerDay = 1
  MaxConcurrentPendings = 2
  RequestSoftCap = 1600
  CautiousDiv = 2
  ReducedDiv = 2
  TaperStartBp = 600
  WarnPct = 40
  HaltPct = 60
  FlattenPct = 85
  SizeBandPct = 50
  StopsLevel = 5
  MinSteps = 1
  MaxSteps = 8
  LotStep = 10
  EntryKind = "market"
  BarsPerDay = 2
  MaxBar = 3
  StepStop = 10
  InitialLosses = {0, 200}
  InitialTrades = {0}
  StartBalances = {10000}
  Gaps = {0, 160}
  Sentinel = FALSE
  Crashes = TRUE
  MaxStarts = 2
  LostAnswers = TRUE
  CommentsLost = {1}
  ReadFails = TRUE
  RejectCloses = TRUE
SPECIFICATION Spec
INVARIANT TypeOK
INVARIANT NothingInDoubt
PROPERTY NoOrderUnderLatch
PROPERTY KillSwitchImplemented
\* The process may be down, or halted, for good.
CHECK_DEADLOCK FALSE
