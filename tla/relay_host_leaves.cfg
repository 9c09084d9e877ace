SPECIFICATION Spec
CONSTANTS
  PeerId <- TwoPeers
  NoPeer <- EmptyId
  LobbyId = {l1}
  NoLobby = NoLobby
  LobbyControl = "relay"
  DisbandOnLeave = FALSE
  Seal = FALSE
  SealInput = {}
  Callbacks = {}
  Password = {"none"}
  NoPassword = "none"
  Title = {"t"}
  Tag = {}
  MaxPlayersInput = {2}
  SizeMod = 16
  MaxListed = 2
  MaxReconnectionTime = 1
  MaxJoins = 1
  Commands <- SeatingCommands
PROPERTY HostLeavingDisbands
