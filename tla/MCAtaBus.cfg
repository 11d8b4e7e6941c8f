CONSTANTS
  Period = 3
  KWait = 2
  Late = 2
  Timeout = 3
  Statuses <- MCStatuses
  Securities <- MCSecurities
SPECIFICATION Spec
INVARIANT InterruptsKept
INVARIANT WipeComplete
PROPERTY EraseIsArmed
PROPERTY CallsEnd
