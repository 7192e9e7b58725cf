SPECIFICATION Spec
CONSTANTS
  adm = adm
  att = att
  counter = counter
  msg = msg
  ok = ok
  bad = bad
  this = this
  other = other
  Accounts <- MCAccounts
  AppKeys <- MCAppKeys
  Payload <- MCPayload
  Replies <- MCReplies
  RefusedReplies <- MCRefused
  Destinations <- MCDestinations
  Deployer = adm
  This = this
  Calls <- MCCalls
  VersionKey = versionKey
  HeadKey = headKey
  TailKey = tailKey
  NoValue = NoValue
  Undefined = Undefined
  NoCall = NoCall
  Direct = Direct
  MaxIndex = 2
  Evm = FALSE
  MaxNonce = 2
  MaxReplies = 2
  MaxRequests = 2
CHECK_DEADLOCK FALSE
INVARIANTS
  TypeOK
  QueueIntact
  NoReplay
PROPERTIES
  ImplementsAtomic
