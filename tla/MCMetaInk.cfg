SPECIFICATION MetaSpec
CONSTANTS
  Workers = {w1, w2}
  MetaWorkers = {w1}
  attestor = attestor
  Attestors <- MCAttestors
  AttestorOf <- MCAttestorOf
  Payload = {a}
  Counter = counter
  AppKeys <- MCAppKeys
  VersionKey = versionKey
  HeadKey = headKey
  TailKey = tailKey
  NoValue = NoValue
  Undefined = Undefined
  MaxIndex = 2
  Evm = FALSE
  MaxPending = 1
  MaxFaults = 1
  MaxDirect = 1
INVARIANTS
  MetaInv
CHECK_DEADLOCK FALSE
PROPERTIES
  EveryMessageAnswered
  RequestsFenced
