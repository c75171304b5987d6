\* Two days of two alerts.
CONSTANTS
  DaySpan = 2
  MaxAlerts = 4
  MaxLosses = 1
  MaxDeaths = 1
SPECIFICATION FairSpec
INVARIANT SentOnce
PROPERTY CatchesUp
\* Everything is raised and forwarded.
CHECK_DEADLOCK FALSE
