SPECIFICATION Spec
CONSTANTS
  Runs = {r1, r2}
  Payload = {a, b}
  AppKeys <- MCAppKeys
  VersionKey = versionKey
  HeadKey = headKey
  TailKey = tailKey
  NoValue = NoValue
  Undefined = Undefined
  NaN = NaN
  MaxIndex = 2
  Evm = FALSE
  MaxFaults = 0
  MaxReplies = 3
  MaxActions = 3
SYMMETRY Symmetry
CHECK_DEADLOCK FALSE
INVARIANTS
  OneResponseEach
