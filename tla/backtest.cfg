\* A day of six bars and the first of the next; a risk per trade that reaches the thresholds of the
\* Governor with the second loss.
CONSTANTS
  Scale = 1
  BaseRiskBp = 240
  BufferPct = 20
  MaxConcurrentBp = 250
  MaxTradesPerDay = 2
  MaxConcurrentPendings = 2
  RequestSoftCap = 1600
  CautiousDiv = 2
  ReducedDiv = 2
  TaperStartBp = 200
  WarnPct = 40
  HaltPct = 50
  FlattenPct = 85
  SizeBandPct = 50
  StopsLevel = 0
  MinSteps = 2
  MaxSteps = 8
  LotStep = 10
  MaxBar = 7
  WarmupBars = 1
  BarsPerDay = 6
  Unit = 10
  Reach = 3
  Value = 4
  SlipPts = 1
  HalfSpread = 1
  Commission = 2
  ArmBars = 4
  TrailBars = 2
  FarTarget = 100
SPECIFICATION Spec
INVARIANT BooksBalance
INVARIANT StopBoundsLoss
PROPERTY StopRetreatsOnce
PROPERTY NoFillUnderHalt
\* The replay ends.
CHECK_DEADLOCK FALSE
