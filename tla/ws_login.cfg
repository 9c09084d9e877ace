SPECIFICATION FairSpec
CONSTANTS
  Socket <- TwoSockets
  NoSocket <- NullSocket
  GameId <- TwoGames
  Token <- LoginTokens
  Jwt <- LoginToken
  Account <- UserToken
  DbEnabled = TRUE
  MaxUsers = 2
  MaxMessages = 1
  QueueLength = 1
  MaxReconnectionTime = 0
  MaxDeferred = 1
INVARIANTS NoDanglingSocket NeverOvercounts
PROPERTIES AttemptsDecided EntriesFreed
