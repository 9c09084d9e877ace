SPECIFICATION RelaySpec
CONSTANTS
  PeerId <- TwoPeers
  NoPeer <- EmptyId
  LobbyId = {l1}
  NoLobby = NoLobby
  LobbyControl = "relay"
  DisbandOnLeave = TRUE
  Seal = FALSE
  SealInput = {}
  Callbacks = {}
  Password = {"none"}
  NoPassword = "none"
  Title = {"t"}
  Tag = {}
  MaxPlayersInput = {2}
  SizeMod = 16
  MaxListed = 2
  MaxReconnectionTime = 1
  MaxJoins = 2
  Commands <- RelayCommands
  Key = {"k"}
  Value = {"v"}
  Null = "null"
VIEW AllButMessages
INVARIANTS
  SeatsExist
  ConnectedKept
  ViewsTrue
  DataEndsWithSeat
  OwnDataKnown
PROPERTIES
  SilenceChangesNothing
