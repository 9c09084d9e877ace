SPECIFICATION Spec
CONSTANTS
  PeerId <- TwoPeers
  NoPeer <- EmptyId
  LobbyId = {l1}
  NoLobby = NoLobby
  LobbyControl = "lua"
  DisbandOnLeave = FALSE
  Seal = FALSE
  SealInput = {TRUE}
  Callbacks <- AllHooks
  Password = {"none", "pw"}
  NoPassword = "none"
  Title = {"t"}
  Tag = {"tag"}
  MaxPlayersInput <- AnySize
  SizeMod = 16
  MaxListed = 2
  MaxReconnectionTime = 0
  MaxJoins = 1
  Commands <- MemberCommands
VIEW AllButMessages
INVARIANTS WithinCapacity CommandAnswered
