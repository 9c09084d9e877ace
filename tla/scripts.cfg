SPECIFICATION ScriptSpec
CONSTANTS
  PeerId <- TwoPeers
  NoPeer <- EmptyId
  LobbyId = {l1}
  NoLobby = NoLobby
  LobbyControl = "lua"
  DisbandOnLeave = FALSE
  Seal = FALSE
  SealInput = {}
  Callbacks = {}
  Password = {"none"}
  NoPassword = "none"
  Title = {"t"}
  Tag = {}
  MaxPlayersInput = {2}
  SizeMod = 16
  MaxListed = 1
  MaxReconnectionTime = 0
  MaxJoins = 1
  Commands <- ScriptCommands
  Key = {"k"}
  Value = {"v"}
  Null = "null"
  MaxEffects = 2
  PublicWritten = {1}
  PrivateWritten = {2}
VIEW AllButSettings
INVARIANTS
  ScriptTypeOK
  DataShown
PROPERTIES
  MembershipAnnounced
