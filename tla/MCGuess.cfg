CONSTANTS
  p1 = p1
  p2 = p2
  None = None
  Players = {p1, p2}
  LastNumber = 2
  MAX_U32 = 9
  Ranges <- MCRanges
  Draw <- MCDraw
  Limits = {1}
  DEFAULT_MAX_ATTEMPTS = 2
  LastGameNumber = 2
  LastAttempt = 2
  MaxQueue = 2
  MaxFaults = 1
SPECIFICATION FairSpec
INVARIANT TypeOK
INVARIANT ClueAnswersGuess
INVARIANT EndingsHonest
PROPERTY FinishedGamesStay
PROPERTY ImplementsHonestGame
PROPERTY GuessesAnswered
CHECK_DEADLOCK FALSE
