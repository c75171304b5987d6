\* A pair is armed on the first bar of a day; each leg is sized just under half of
\* the concurrent-risk cap.  The third bar is the next day's: what still rests has
\* expired.  The process may die anywhere, between the two placements too; an
\* operator's sentinel, and gaps that take the day past the FLATTEN threshold, come
\* while the pair rests or is open.
CONSTANTS
  Scale = 1
  BaseRiskBp = 48
  BufferPct = 20
  MaxConcurrentBp = 100
  MaxTradesPerDay = 6
  MaxConcurrentPendings = 2
  RequestSoftCap = 1600
  CautiousDiv = 2
  ReducedDiv = 2
  TaperStartBp = 600
  WarnPct = 40
  HaltPct = 60
  FlattenPct = 85
  SizeBandPct = 50
  StopsLevel = 0
  MinSteps = 1
  MaxSteps = 8
  LotStep = 10
  EntryKind = "arm"
  BarsPerDay = 2
  MaxBar = 3
  StepStop = 10
  InitialLosses = {0}
  InitialTrades = {0}
  StartBalances = {10000}
  Gaps = {0, 200}
  Sentinel = TRUE
  Crashes = TRUE
  MaxStarts = 1
  LostAnswers = FALSE
  CommentsLost = {}
  ReadFails = FALSE
  RejectCloses = FALSE
SPECIFICATION FairSpec
INVARIANT ConcurrentCap
INVARIANT SiblingsCancelled
INVARIANT HaltedMeansFlat
PROPERTY FlattenCompletes
\* The process may be down, or halted, for good.
CHECK_DEADLOCK FALSE
