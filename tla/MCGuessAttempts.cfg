CONSTANTS
  p1 = p1
  None = None
  Players = {p1}
  LastNumber = 2
  MAX_U32 = 9
  Ranges <- MCRanges
  Draw <- MCDraw
  Limits = {2}
  DEFAULT_MAX_ATTEMPTS = 2
  LastGameNumber = 2
  LastAttempt = 3
  MaxQueue = 3
  MaxFaults = 1
SPECIFICATION Spec
INVARIANT AttemptsAllowed
CHECK_DEADLOCK FALSE
