\* Two days, three appends, two openings, every fault.
CONSTANTS
  MaxDay = 2
  MaxAppends = 3
  MaxOpens = 2
SPECIFICATION Spec
INVARIANT AckedDurable
INVARIANT ViewIsReplay
INVARIANT AckedVisible
PROPERTY LogImplemented
CHECK_DEADLOCK FALSE
