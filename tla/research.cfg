\* Sample sizes are a trade or two, a quarter two months.
CONSTANTS
  DayHours = 2
  MonthDays = 3
  FoldMonths = 2
  StubDays = 2
  MinTrades = 3
  MinFold = 1
  MinLockbox = 1
  Significant <- Profitable
  CloseHour = 1
  MaxRange = 5
  Params = {"er", "buf", "risk", "name"}
  Levers = {"er", "buf"}
  Forbidden = {"risk"}
  FirstConfig <- First
  OtherConfigs <- Others
  Jobs <- AllJobs
  PriorTrials = 2
  ProposalLockbox = 1
  LiveRs <- Closed
SPECIFICATION Spec
INVARIANT TrialsHonest
INVARIANT EarnedBeforeLockbox
INVARIANT ProposalReproduces
INVARIANT VerdictSeesAll
INVARIANT CleaningAccounts
INVARIANT FlagIsCurrent
\* The sweep ends.
CHECK_DEADLOCK FALSE
