\* A quarter of the day is the morning, a bar the opening range.
CONSTANTS
  DaySlots = 7
  WinStart = 3
  WinEnd = 7
  OrBars = 1
  LondonStart = 2
  LondonEnd = 5
  AsianStart = 0
  MinAsian = 2
  DriftEntry = 4
  HoldBars = 2
  Buffer = 0
  MaxOvershoot = 1
  ErWindow = 2
  ErPct = 33
  AtrWindow = 3
  AtrFloor = 1
  AtrCeiling = 3
  AtrLowPct = 20
  AtrHighPct = 90
  AtrTenths = 12
  Targets = {1, 2}
  BreakEvenAfter = 1
  Lookback = 2
  StretchPct = 50
  MaxEntries = 2
  NarrowValid = 2
  TimeStop = 1
  Histories <- Past
  OpeningBars <- Opening
  LaterBars <- Shapes
  Gaps = {1, 2}
  LastBar = 14
SPECIFICATION Spec
INVARIANT OneShotPerSide
INVARIANT ExitsAroundEntry
PROPERTY ManageNeverLoosens
\* The feed ends.
CHECK_DEADLOCK FALSE
