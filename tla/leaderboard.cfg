SPECIFICATION BoardSpec
CONSTANTS
  User = {u1, u2}
  Score = {1, 2}
  Mode = {"best", "inc"}
  Bigint <- NarrowBigint
  NoMessage = NoMessage
  NoUser = NoUser
  MaxQueued = 2
INVARIANTS
  BoardTypeOK
  ScoresArrive
  NeverFlattered
PROPERTIES
  BestKept
