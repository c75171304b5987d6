\* config/default.yaml, in basis points of the initial balance, but a wider base
\* fraction than its 35 and a wider concurrent-risk cap than its 100, so that
\* several lot steps and the daily allowance are in play.
CONSTANTS
  Scale = 1
  BaseRiskBp = 60
  BufferPct = 20
  MaxConcurrentBp = 200
  MaxTradesPerDay = 6
  MaxConcurrentPendings = 2
  RequestSoftCap = 1600
  CautiousDiv = 2
  ReducedDiv = 2
  TaperStartBp = 600
  WarnPct = 40
  HaltPct = 60
  FlattenPct = 85
  SizeBandPct = 50
  StopsLevel = 5
  MinSteps = 1
  MaxSteps = 8
  LotStep = 10
  Equities = {10400, 10000, 9801, 9800, 9741, 9701, 9575, 9400, 9250, 9090, 9001}
  Baselines = {10000, 9200}
  OpenRisks = {0, 45, 140}
  Stops = {5, 10, 30}
  Requests = {0, 1600}
  Trades = {0, 6}
  Pendings = {0, 1, 2}
SPECIFICATION Spec
INVARIANT StopOutNeverFlattens
INVARIANT OrderWithinBudget
PROPERTY SizeNeverGrows
PROPERTY ExposureNeverUnlocks
CHECK_DEADLOCK FALSE
