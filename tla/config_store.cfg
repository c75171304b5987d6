\* Two processes on one directory, killed anywhere, from the bootstrap on; the
\* live engine loads and restarts in between.
CONSTANTS
  Clients = {c1, c2}
  Proposals = {p, q, s}
  Nobody = nobody
  WeeklyCap = 1
  MaxVersion = 3
  MaxStarts = 3
SPECIFICATION FairSpec
INVARIANT OnlyApprovedRuns
INVARIANT VersionIdentifiesConfig
INVARIANT HeadReadable
INVARIANT TrialsCounted
INVARIANT BudgetHeld
PROPERTY ChildReplacesParent
PROPERTY HeadAdopted
