----------------------------- MODULE SharedData -----------------------------
(***************************************************************************)
(* Public and private data of lobbies and of peers, on top of GameThread:  *)
(* what its handlers do to the data, and what they send of it.  Hosts of   *)
(* relay games write the data (RelayData), or the scripts of a game        *)
(* (Scripts).                                                              *)
(*                                                                         *)
(* Clients are sent what changes, and everything when they come in.  What  *)
(* a client has put together from these messages is its view, and the      *)
(* question is whether views are true.                                     *)
(***************************************************************************)
EXTENDS GameThread

CONSTANTS
  Key,                  \* keys of a data object
  Value,                \* values other than null
  Null                  \* null in a request or a script, and no entry in the data

ASSUME DataAssumption == Null \notin Value

VARIABLES
  lobby_public, lobby_private,  \* LobbyData.public_data and private_data by lobby
  peer_public, peer_private,    \* PeerData.public_data and private_data by peer
  view                          \* what each client has last been told

shared    == <<lobby_public, lobby_private, peer_public, peer_private>>
data_vars == <<vars, shared, view>>

Empty == [k \in Key |-> Null]
Diff == UNION {[K -> Value \cup {Null}] : K \in SUBSET Key}

\* Entries of a diff replace those of the data, null erases
Apply(d, diff) == [k \in Key |-> IF k \in DOMAIN diff THEN diff[k] ELSE d[k]]

\* lobby and peers: public data; secret: the lobby's private data, for its host;
\* own: the private data of the client's peer
NoView == [lobby |-> Empty, secret |-> Empty, peers |-> <<>>, own |-> Empty]

-----------------------------------------------------------------------------
(* What the handlers of GameThread do to the data *)

\* The peers that a step takes out of lobby l
Gone(l) == lobbies[l].peer_ids \ (IF l \in DOMAIN lobbies' THEN lobbies'[l].peer_ids ELSE {})
Removed == UNION {Gone(l) : l \in DOMAIN lobbies}

\* The peers on which a step runs leave_lobby: a lobby that is disbanded takes all members
Cleared ==
  UNION {IF \E p \in Gone(l) : Disbands(lobbies[l], p) THEN lobbies[l].peer_ids ELSE Gone(l) :
           l \in DOMAIN lobbies}

\* Mutant of Left: what a peer held in its last lobby stays
Left_Keeps(f) == [q \in DOMAIN peers' |-> IF q \in DOMAIN peers THEN f[q] ELSE Empty]

\* leave_lobby empties the data of a peer; that of a new peer is empty
Left(f) == [q \in DOMAIN peers' |-> IF q \in DOMAIN peers \ Cleared THEN f[q] ELSE Empty]

\* The data of a lobby goes with it; that of a new lobby is empty
Kept(f) == [l \in DOMAIN lobbies' |-> IF l \in DOMAIN lobbies THEN f[l] ELSE Empty]

\* Mutant of PeerState: private data is left out
PeerState_Public(p) == NoView

\* PEER_STATE: a client that connects knows its peer's own data, and no lobby
PeerState(p) == [NoView EXCEPT !.own = peer_private'[p]]

\* JOINED_LOBBY, LOBBY_CREATED: the lobby and its members; private data only for the
\* host of a relay game
LobbyJoined(p) ==
  LET l == peers'[p].lobby_id IN
  [lobby |-> lobby_public'[l],
   secret |-> IF LobbyControl = "relay" /\ lobbies'[l].host = p THEN lobby_private'[l] ELSE Empty,
   peers |-> [q \in lobbies'[l].peer_ids \cap DOMAIN peers' |-> peer_public'[q]],
   own |-> view[p].own]

\* How the messages of a step change the view of client p, which starts afresh with
\* every socket
Told(p) ==
  IF p \notin sockets' THEN NoView
  ELSE IF p \notin sockets THEN PeerState(p)
  ELSE IF Hears(p, {"JOINED_LOBBY", "LOBBY_CREATED"}) THEN LobbyJoined(p)
  ELSE IF Hears(p, {"LOBBY_LEFT", "LOBBY_KICKED"}) THEN NoView
  ELSE IF Hears(p, {"PEER_JOINED"})
    THEN [view[p] EXCEPT !.peers = Put(@, answer'.to, peer_public'[answer'.to])]
  ELSE IF Hears(p, {"PEER_LEFT", "PEER_KICKED"})
    THEN [view[p] EXCEPT !.peers = Drop(@, Removed)]
  ELSE view[p]

\* The data that such a step drops, and the data it sends
Carried ==
  /\ lobby_public' = Kept(lobby_public)
  /\ lobby_private' = Kept(lobby_private)
  /\ peer_public' = Left(peer_public)
  /\ peer_private' = Left(peer_private)
  /\ view' = [p \in PeerId |-> Told(p)]

GameStep == Next /\ Carried

\* Who gets a message that is sent to S
Reached(S) == S \ DOMAIN disconnected_peers

-----------------------------------------------------------------------------
(* Specification *)

DataInit ==
  /\ Init
  /\ lobby_public = <<>>
  /\ lobby_private = <<>>
  /\ peer_public = <<>>
  /\ peer_private = <<>>
  /\ view = [p \in PeerId |-> NoView]

\* A client that has joined: its socket is open and it has been sent the lobby
HasJoined(p) == p \in sockets \cap DOMAIN peers /\ InLobby(p) /\ ~peers[p].disconnected

=============================================================================
