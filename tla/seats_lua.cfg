SPECIFICATION Spec
CONSTANTS
  PeerId <- ThreePeers
  NoPeer <- EmptyId
  LobbyId = {l1}
  NoLobby = NoLobby
  LobbyControl = "lua"
  DisbandOnLeave = FALSE
  Seal = FALSE
  SealInput = {}
  Callbacks = {"_can_peer_join", "_on_peer_leave"}
  Password = {"none"}
  NoPassword = "none"
  Title = {"t"}
  Tag = {}
  MaxPlayersInput = {3}
  SizeMod = 16
  MaxListed = 2
  MaxReconnectionTime = 1
  MaxJoins = 3
  Commands <- SeatingCommands
VIEW AllButMessages
INVARIANTS TypeOK SeatsExist MembersAgree HostIsSeated JoinOrder ConnectedKept NothingFabricated
PROPERTIES MembershipAnnounced SeatKept ImplementsService
