------------------------------ MODULE RelayData ------------------------------
(***************************************************************************)
(* The data that the host of a relay game shares through the server        *)
(* (src/src/game/game_thread.cpp, on_lobby_data to on_lobby_notify).       *)
(*                                                                         *)
(* The diffs the code keeps in LobbyData and PeerData are sent and cleared *)
(* by the handler that fills them, so they are not part of the state.      *)
(***************************************************************************)
EXTENDS SharedData

ASSUME RelayAssumption == LobbyControl = "relay"

-----------------------------------------------------------------------------
(* The commands of relay games *)

\* Mutant of Reject: a check returns without on_error
Reject_Silent(p, error) == Refuse(p, <<>>) /\ UNCHANGED <<shared, view>>

\* The checks these commands share: a seat, the host's where it is needed, a data
\* object that can be decoded. A refused command leaves the data alone
Reject(p, error) == Refuse(p, <<error>>) /\ UNCHANGED <<shared, view>>
RelayMember(p, c, Do) ==
  /\ Handles(p, c)
  /\ IF InLobby(p) THEN Do ELSE Reject(p, "PEER_NOT_IN_A_LOBBY")
  /\ UNCHANGED listing
RelayHost(p, Do) == IF LobbyOf(p).host = p THEN Do ELSE Reject(p, "PEER_NOT_HOST")

\* Mutant of Target: any id will do
Target_Any(p, q, Do) == Do

\* The receiver that is named has to be a member
Target(p, q, Do) == IF q \in LobbyOf(p).peer_ids THEN Do ELSE Reject(p, "PEER_NOT_FOUND")

\* T: the peers that have been looked up before the object is decoded
Decoded(p, T, Do) ==
  \/ /\ answer' = reply(p, <<"CANNOT_PARSE_JSON">>)
     /\ notices' = {}
     /\ Access(T)
     /\ UNCHANGED <<data, shared, view>>
  \/ Do

\* Public data of a lobby is sent to its members, private data to the host. An
\* empty object changes nothing, and is not even answered
SetLobbyData(p, diff, private) ==
  LET l == peers[p].lobby_id
      to == IF DOMAIN diff = {} THEN {} ELSE IF private THEN {p} ELSE LobbyOf(p).peer_ids
  IN
  /\ IF private
     THEN /\ lobby_private' = [lobby_private EXCEPT ![l] = Apply(@, diff)]
          /\ view' = [view EXCEPT ![p].secret = Apply(@, diff)]
          /\ UNCHANGED lobby_public
     ELSE /\ lobby_public' = [lobby_public EXCEPT ![l] = Apply(@, diff)]
          /\ view' = [q \in PeerId |-> IF q \in Reached(to)
                        THEN [view[q] EXCEPT !.lobby = Apply(@, diff)] ELSE view[q]]
          /\ UNCHANGED lobby_private
  /\ Tell(p, IF to = {} THEN <<>> ELSE <<"LOBBY_DATA">>, to \ {p}, "LOBBY_DATA")
  /\ UNCHANGED <<data, fabricated, peer_public, peer_private>>

on_lobby_data(p) ==
  RelayMember(p, "LOBBY_DATA", RelayHost(p, Decoded(p, {},
    \E diff \in Diff, private \in BOOLEAN : SetLobbyData(p, diff, private))))

\* What f becomes for the peers in T
Applied(f, T, diff) == [q \in DOMAIN f |-> IF q \in T THEN Apply(f[q], diff) ELSE f[q]]

\* Mutant of PublicAudience: only the peer itself is told
PublicAudience_Self(p, T) == T

\* Public data of a peer is sent to all members
PublicAudience(p, T) == LobbyOf(p).peer_ids

\* Private data of a peer is sent to the peer only
SetPeerData(p, T, diff, private) ==
  LET to == IF DOMAIN diff = {} THEN {} ELSE IF private THEN T ELSE PublicAudience(p, T) IN
  /\ Access(T)
  /\ IF private
     THEN /\ peer_private' = Applied(peer_private, T, diff)
          /\ view' = [q \in PeerId |-> IF q \in Reached(to)
                        THEN [view[q] EXCEPT !.own = Apply(@, diff)] ELSE view[q]]
          /\ UNCHANGED peer_public
     ELSE /\ peer_public' = Applied(peer_public, T, diff)
          /\ view' = [q \in PeerId |-> IF q \in Reached(to)
                        THEN [view[q] EXCEPT !.peers = Applied(@, T, diff)] ELSE view[q]]
          /\ UNCHANGED peer_private
  /\ Tell(p, <<"DATA_TO_SENT">>, to, "DATA_TO")
  /\ UNCHANGED <<data, lobby_public, lobby_private>>

on_data_to(p) ==
  RelayMember(p, "DATA_TO", RelayHost(p, \E q \in PeerId : Target(p, q, Decoded(p, {q},
    \E diff \in Diff, private \in BOOLEAN : SetPeerData(p, {q}, diff, private)))))

on_data_to_all(p) ==
  RelayMember(p, "DATA_TO_ALL", RelayHost(p, Decoded(p, {},
    \E diff \in Diff, private \in BOOLEAN : SetPeerData(p, LobbyOf(p).peer_ids, diff, private))))

\* A notification is passed on and not kept
Notify(p, S) == Tell(p, <<"NOTIFY_SENT">>, S, "NOTIFY") /\ UNCHANGED <<data, shared, view>>

on_notify_to(p) ==
  RelayMember(p, "NOTIFY_TO", RelayHost(p, \E q \in PeerId : Target(p, q, Decoded(p, {q},
    Access({q}) /\ Notify(p, {q})))))

\* The host notifies everybody, the others the host
on_lobby_notify(p) ==
  RelayMember(p, "LOBBY_NOTIFY", Decoded(p, {},
    /\ Notify(p, IF LobbyOf(p).host = p THEN LobbyOf(p).peer_ids ELSE {LobbyOf(p).host})
    /\ UNCHANGED fabricated))

-----------------------------------------------------------------------------
(* Specification *)

Sharing(p) ==
  on_lobby_data(p) \/ on_data_to(p) \/ on_data_to_all(p) \/ on_notify_to(p) \/ on_lobby_notify(p)

RelayNext == GameStep \/ \E p \in PeerId : Sharing(p)

RelaySpec == DataInit /\ [][RelayNext]_data_vars

-----------------------------------------------------------------------------
(* Properties *)

\* The views of the clients in a lobby are true: diffs and the whole sent on joining
\* add up to the data of the lobby and of every member, over losses of sockets, returns,
\* kicks and the end of one lobby and the start of another.
ViewsTrue ==
  \A p \in PeerId : HasJoined(p) =>
    LET l == peers[p].lobby_id IN
    /\ view[p].lobby = lobby_public[l]
    /\ view[p].peers = [q \in lobbies[l].peer_ids |-> peer_public[q]]
    /\ lobbies[l].host = p => view[p].secret = lobby_private[l]

\* What a host gave a peer ends with the peer's seat: nobody carries the data of one
\* lobby into the next, however it left.
DataEndsWithSeat ==
  \A p \in DOMAIN peers : ~InLobby(p) => peer_public[p] = Empty /\ peer_private[p] = Empty

\* A connected client knows the private data its peer holds, also before it rejoins, and
\* also if it was given while the client was away.
OwnDataKnown == \A p \in sockets \cap DOMAIN peers : view[p].own = peer_private[p]

\* The only data command that is left without an answer is one of the host that changes
\* nothing and that nobody is told of: LOBBY_DATA with an empty object. The sender of any
\* other hears what became of it, whichever check refuses it, also when it comes back to
\* its lobby and is not yet marked as present.
SilenceChangesNothing ==
  [][\A p \in PeerId : Sharing(p) =>
       \/ answer'.to = p /\ answer'.replies # <<>>
       \/ /\ InLobby(p) /\ LobbyOf(p).host = p
          /\ notices' = {} /\ UNCHANGED <<data, shared>>]_data_vars

=============================================================================
