SPECIFICATION FairSpec
CONSTANTS
  PeerId <- TwoPeers
  NoPeer <- EmptyId
  LobbyId = {l1}
  NoLobby = NoLobby
  LobbyControl = "lua"
  DisbandOnLeave = FALSE
  Seal = FALSE
  SealInput = {}
  Callbacks = {}
  Password = {"none"}
  NoPassword = "none"
  Title = {"t"}
  Tag = {}
  MaxPlayersInput = {2}
  SizeMod = 16
  MaxListed = 2
  MaxReconnectionTime = 1
  MaxJoins = 1
  Commands <- ListCommands
INVARIANTS SettingsListed
PROPERTIES DisconnectionEnds AbandonedLobbyGone
