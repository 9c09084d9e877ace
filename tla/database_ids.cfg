SPECIFICATION Spec
CONSTANTS
  Socket <- ThreeSockets
  NoSocket <- NullSocket
  GameId <- OneGame
  Token <- OneToken
  Jwt <- None
  Account <- None
  DbEnabled = TRUE
  MaxUsers = 3
  MaxMessages = 1
  QueueLength = 1
  MaxReconnectionTime = 0
  MaxDeferred = 1
INVARIANT OneSocketPerPeer
