SPECIFICATION Spec
CONSTANTS
  Socket <- ThreeSockets
  NoSocket <- NullSocket
  GameId <- TwoGames
  Token <- TwoTokens
  Jwt <- None
  Account <- None
  DbEnabled = FALSE
  MaxUsers = 1
  MaxMessages = 1
  QueueLength = 1
  MaxReconnectionTime = 0
  MaxDeferred = 2
VIEW AllButOver
INVARIANTS TypeOK NoDanglingSocket Registered EventsMatchSockets TokensLead NeverOvercounts
