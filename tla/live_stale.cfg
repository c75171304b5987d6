\* Equity is read with a position that vanishes before the positions are listed;
\* a trade risks a fifth of the daily budget, so that two of them make the
\* difference between the HALT and the FLATTEN threshold; the process may die,
\* answers be lost, and the first bar's order lose its comment.
CONSTANTS
  Scale = 1
  BaseRiskBp = 100
  BufferPct = 20
  MaxConcurrentBp = 250
  MaxTradesPerDay = 6
  MaxConcurrentPendings = 2
  RequestSoftCap = 1600
  CautiousDiv = 2
  ReducedDiv = 2
  TaperStartBp = 600
  WarnPct = 40
  HaltPct = 60
  FlattenPct = 85
  SizeBandPct = 50
  StopsLevel = 5
  MinSteps = 1
  MaxSteps = 10
  LotStep = 10
  EntryKind = "market"
  BarsPerDay = 3
  MaxBar = 4
  StepStop = 10
  InitialLosses = {0, 100, 150}
  InitialTrades = {0}
  StartBalances = {10000}
  Gaps = {0}
  Sentinel = FALSE
  Crashes = TRUE
  MaxStarts = 2
  LostAnswers = TRUE
  CommentsLost = {1}
  ReadFails = FALSE
  RejectCloses = FALSE
SPECIFICATION Spec
INVARIANT OnePosition
PROPERTY OrderAboveFlatten
\* The process may be down, or halted, for good.
CHECK_DEADLOCK FALSE
