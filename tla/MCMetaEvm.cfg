SPECIFICATION MetaSpec
CONSTANTS
  Workers = {w1, w2}
  MetaWorkers = {w1, w2}
  attestor = attestor
  Attestors <- MCAttestors
  AttestorOf <- MCAttestorOf
  Payload = {a, b}
  Counter = counter
  AppKeys <- MCAppKeys
  VersionKey = versionKey
  HeadKey = headKey
  TailKey = tailKey
  NoValue = NoValue
  Undefined = Undefined
  MaxIndex = 2
  Evm = TRUE
  MaxPending = 1
  MaxFaults = 1
  MaxDirect = 0
SYMMETRY Symmetry
INVARIANTS
  ExactlyOnceInOrder
  LiveRequestsSound
PROPERTIES
  RefusedForGood
