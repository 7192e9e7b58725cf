CONSTANTS
  c1 = c1
  c2 = c2
  Clients = {c1, c2}
  k1 = k1
  AppKeys = {k1}
  Types = {"u8", "bool", "text", "bytes"}
  Base = 2
  Numbers = {1, 2}
  Texts <- MCTexts
  Messages <- MCTexts
  FirstVersions = {14}
  MaxPushes = 2
  MaxCommits = 2
  None = None
  Undefined = Undefined
SYMMETRY SymmetricClients
SPECIFICATION Spec
INVARIANT GettersAnswerWhatWasMeant
INVARIANT AnswersMatchPushes
PROPERTY CommitsChangeVersion
PROPERTY CommitsSerializable
CHECK_DEADLOCK FALSE
