SPECIFICATION Spec
CONSTANTS
  Workers = {w1, w2}
  Payload = {a, b}
  Counter = counter
  AppKeys <- MCAppKeys
  VersionKey = versionKey
  HeadKey = headKey
  TailKey = tailKey
  NoValue = NoValue
  Undefined = Undefined
  MaxIndex = 2
  Evm = TRUE
  MaxPending = 2
  MaxFaults = 1
  MaxDirect = 1
SYMMETRY Symmetry
INVARIANTS
  TypeOK
  QueueIntact
  ExactlyOnceInOrder
  NoLostUpdate
  ClientsSound
  InFlightSound
PROPERTIES
  RivalsFenced
  ImplementsPromise
