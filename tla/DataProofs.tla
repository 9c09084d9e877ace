----------------------------- MODULE DataProofs -----------------------------
(***************************************************************************)
(* Proofs about the data that hosts of relay games share (RelayData), for  *)
(* games whose lobbies end with their host (Hosted, that is                *)
(* DisbandOnLeave): data ends with the seat it was given to, and what the  *)
(* clients have put together from the messages is true.                    *)
(*                                                                         *)
(* The whole is an account of messages: a step changes a view by the       *)
(* messages that tell of seats (SeatTypes) alone, so each step is put      *)
(* under one of five heads (SeatCases, in ClientProofs), by what it does   *)
(* to the seats and by which of these messages it sends.                   *)
(***************************************************************************)
EXTENDS RelayData, ClientProofs

-----------------------------------------------------------------------------
(* Data and views *)

\* What is true of the data in hosted games
SharedInv == AwayInv /\ DataEndsWithSeat /\ OwnDataKnown /\ ViewsTrue

\* The view of p is true
ViewTrue(p) ==
  LET l == peers[p].lobby_id IN
  /\ view[p].lobby = lobby_public[l]
  /\ view[p].peers = [q \in lobbies[l].peer_ids |-> peer_public[q]]
  /\ lobbies[l].host = p => view[p].secret = lobby_private[l]

\* A view stays true while the lobby, its people and their data stay as they are.
LEMMA ViewUntouched ==
  ASSUME NEW q, ViewTrue(q), view'[q] = view[q],
         NEW l, l = peers[q].lobby_id, peers'[q].lobby_id = l,
         lobbies'[l].peer_ids = lobbies[l].peer_ids, lobbies'[l].host = lobbies[l].host,
         lobby_public'[l] = lobby_public[l], lobby_private'[l] = lobby_private[l],
         \A x \in lobbies[l].peer_ids : peer_public'[x] = peer_public[x]
  PROVE  ViewTrue(q)'
BY DEF ViewTrue

\* Seats and members agree.
LEMMA MemberFacts ==
  ASSUME DataInv, SeatInv
  PROVE  /\ \A l \in DOMAIN lobbies : \A x \in lobbies[l].peer_ids :
              x \in DOMAIN peers /\ peers[x].lobby_id = l /\ InLobby(x)
         /\ \A q \in DOMAIN peers : InLobby(q) => /\ peers[q].lobby_id \in DOMAIN lobbies
                                               /\ q \in lobbies[peers[q].lobby_id].peer_ids
BY IdAssumption DEF DataInv, SeatInv, LobbyInv, SeatsExist, LobbyOf, InLobby

\* A step that changes no seat.
LEMMA StillShared ==
  ASSUME DataInv, ConnInv, KeepInv, SeatInv, SharedInv, Still, Carried,
         DOMAIN peers' \subseteq PeerId
  PROVE  SharedInv'
<1>1. Cleared = {}
  BY NobodyLeaves DEF Still
<1>2. \A q \in DOMAIN peers \cap DOMAIN peers' :
        peer_public'[q] = peer_public[q] /\ peer_private'[q] = peer_private[q]
  BY <1>1, CarriedFacts
<1>3. \A l \in DOMAIN lobbies :
        lobby_public'[l] = lobby_public[l] /\ lobby_private'[l] = lobby_private[l]
  BY CarriedFacts DEF Still
<1>4. \A q \in DOMAIN peers' \ DOMAIN peers : peer_public'[q] = Empty /\ peer_private'[q] = Empty
  BY CarriedFacts
<1>5. \A q \in sockets \cap sockets' : view'[q] = view[q]
  <2>1. \A q : ~Hears(q, SeatTypes)
    BY SilentHears DEF Still
  <2>2. QED
    BY <2>1, CarriedFacts, ToldFacts DEF ConnInv
<1>6. AwayInv'
  BY DEF AwayInv, SharedInv, Still, InLobby
<1>7. DataEndsWithSeat'
  BY <1>2, <1>4 DEF DataEndsWithSeat, SharedInv, Still, InLobby
<1>8. ASSUME NEW q \in sockets' \cap DOMAIN peers'
      PROVE  view'[q].own = peer_private'[q]
  <2>1. CASE q \in sockets
    BY <1>2, <1>5, <2>1 DEF OwnDataKnown, SharedInv, KeepInv
  <2>2. CASE q \notin sockets
    BY <2>2, <1>8, CarriedFacts DEF Told, PeerState, NoView
  <2>3. QED
    BY <2>1, <2>2
<1>9. ASSUME NEW q \in PeerId, HasJoined(q)'
      PROVE  ViewTrue(q)'
  <2>1. /\ q \in sockets' /\ q \in DOMAIN peers'
        /\ peers'[q].lobby_id # NoLobby /\ ~peers'[q].disconnected
    BY <1>9 DEF HasJoined, InLobby
  <2>2. q \in DOMAIN peers /\ InLobby(q) /\ peers'[q].lobby_id = peers[q].lobby_id
    BY <2>1 DEF Still, InLobby
  <2>3. q \in sockets /\ ~peers[q].disconnected
    <3>1. ~peers[q].disconnected
      BY <2>1, <2>2 DEF Still, DataInv, PeerData
    <3>2. QED
      BY <2>2, <3>1 DEF SharedInv, AwayInv
  <2>4. ViewTrue(q)
    BY <2>2, <2>3 DEF SharedInv, ViewsTrue, ViewTrue, HasJoined
  <2> DEFINE l == peers[q].lobby_id
  <2>5. l \in DOMAIN lobbies /\ \A x \in lobbies[l].peer_ids : x \in DOMAIN peers /\ InLobby(x)
    BY <2>2, MemberFacts
  <2>6. \A x \in lobbies[l].peer_ids : peer_public'[x] = peer_public[x]
    BY <1>2, <2>5 DEF Still
  <2>7. lobbies'[l].peer_ids = lobbies[l].peer_ids /\ lobbies'[l].host = lobbies[l].host
    BY <2>5 DEF Still
  <2>8. view'[q] = view[q]
    BY <1>5, <2>1, <2>3
  <2>9. QED
    BY <1>3, <2>2, <2>4, <2>5, <2>6, <2>7, <2>8, ViewUntouched
<1>10. OwnDataKnown'
  BY <1>8 DEF OwnDataKnown
<1>11. ViewsTrue'
  BY <1>9 DEF ViewsTrue, ViewTrue
<1>12. QED
  BY <1>6, <1>7, <1>10, <1>11 DEF SharedInv

\* A member that comes back is sent the lobby.
LEMMA ReturnShared ==
  ASSUME DataInv, ConnInv, KeepInv, SeatInv, SharedInv, NEW c, Returns(c), Carried
  PROVE  SharedInv'
<1>1. Cleared = {}
  BY NobodyLeaves DEF Returns
<1>2. /\ DOMAIN peers' = DOMAIN peers
      /\ \A q \in DOMAIN peers : peers'[q].lobby_id = peers[q].lobby_id
      /\ \A q \in DOMAIN peers \ {c} : peers'[q] = peers[q]
      /\ lobbies' = lobbies /\ sockets' = sockets
      /\ c \in sockets /\ c \in DOMAIN peers /\ InLobby(c)
  BY DEF Returns, Sender, DataInv, PeerData
<1>3. \A q \in DOMAIN peers :
        peer_public'[q] = peer_public[q] /\ peer_private'[q] = peer_private[q]
  BY <1>1, <1>2, CarriedFacts
<1>4. \A l \in DOMAIN lobbies :
        lobby_public'[l] = lobby_public[l] /\ lobby_private'[l] = lobby_private[l]
  BY <1>2, CarriedFacts
<1>5. \A q \in sockets \ {c} : view'[q] = view[q]
  <2>1. \A q : q # c => ~Hears(q, SeatTypes)
    BY DEF Returns, Hears
  <2>2. QED
    BY <1>2, <2>1, CarriedFacts, ToldFacts DEF ConnInv
<1>6. view'[c] = LobbyJoined(c)
  <2>1. Hears(c, {"JOINED_LOBBY"})
    BY DEF Returns, Hears
  <2>2. QED
    BY <1>2, <2>1, CarriedFacts, ToldFacts DEF ConnInv
<1>7. AwayInv'
  BY <1>2 DEF AwayInv, SharedInv, InLobby
<1>8. DataEndsWithSeat'
  BY <1>2, <1>3 DEF DataEndsWithSeat, SharedInv, InLobby
<1>9. OwnDataKnown'
  <2>1. view'[c].own = view[c].own
    BY <1>6 DEF LobbyJoined
  <2>2. QED
    BY <1>2, <1>3, <1>5, <2>1 DEF OwnDataKnown, SharedInv
<1>10. ViewTrue(c)'
  <2> DEFINE l == peers[c].lobby_id
  <2>1. l \in DOMAIN lobbies /\ peers'[c].lobby_id = l
    BY <1>2, MemberFacts
  <2>2. lobbies[l].peer_ids \cap DOMAIN peers' = lobbies[l].peer_ids
    BY <1>2, <2>1, MemberFacts
  <2>3. /\ view'[c].lobby = lobby_public'[l]
        /\ lobbies'[l].host = c => view'[c].secret = lobby_private'[l]
        /\ view'[c].peers = [q \in lobbies'[l].peer_ids \cap DOMAIN peers' |-> peer_public'[q]]
    BY <1>6, <2>1, RelayAssumption DEF LobbyJoined
  <2>4. QED
    BY <1>2, <2>1, <2>2, <2>3 DEF ViewTrue
<1>11. ASSUME NEW q \in PeerId \ {c}, HasJoined(q)'
       PROVE  ViewTrue(q)'
  <2> DEFINE l == peers[q].lobby_id
  <2>1. q \in sockets /\ q \in DOMAIN peers /\ InLobby(q) /\ peers'[q] = peers[q]
    BY <1>2, <1>11 DEF HasJoined, InLobby
  <2>2. ViewTrue(q)
    BY <1>11, <2>1 DEF SharedInv, ViewsTrue, ViewTrue, HasJoined
  <2>3. l \in DOMAIN lobbies /\ \A x \in lobbies[l].peer_ids : x \in DOMAIN peers
    BY <2>1, MemberFacts
  <2>4. QED
    BY <1>2, <1>3, <1>4, <1>5, <2>1, <2>2, <2>3, ViewUntouched
<1>12. ViewsTrue'
  BY <1>10, <1>11 DEF ViewsTrue, ViewTrue
<1>13. QED
  BY <1>7, <1>8, <1>9, <1>12 DEF SharedInv

\* A peer that creates a lobby starts with empty data.
LEMMA FoundShared ==
  ASSUME DataInv, ConnInv, KeepInv, SeatInv, SharedInv, NEW c, NEW l, Founds(c, l), Carried
  PROVE  SharedInv'
<1>1. /\ DOMAIN peers' = DOMAIN peers
      /\ peers'[c].lobby_id = l
      /\ \A q \in DOMAIN peers \ {c} : peers'[q] = peers[q]
      /\ sockets' = sockets
      /\ c \in sockets /\ c \in DOMAIN peers /\ ~InLobby(c)
  BY DEF Founds, Sender, DataInv, PeerData
<1>2. /\ l \notin DOMAIN lobbies /\ l # NoLobby
      /\ DOMAIN lobbies' = DOMAIN lobbies \cup {l}
      /\ lobbies'[l].peer_ids = {c} /\ lobbies'[l].host = c
      /\ \A k \in DOMAIN lobbies : lobbies'[k] = lobbies[k]
  BY IdAssumption DEF Founds, FreshLobbyId, Put
<1>3. Cleared = {}
  BY <1>2, NobodyLeaves
<1>4. \A q \in DOMAIN peers :
        peer_public'[q] = peer_public[q] /\ peer_private'[q] = peer_private[q]
  BY <1>1, <1>3, CarriedFacts
<1>5. \A k \in DOMAIN lobbies :
        lobby_public'[k] = lobby_public[k] /\ lobby_private'[k] = lobby_private[k]
  BY <1>2, CarriedFacts
<1>6. \A q \in sockets \ {c} : view'[q] = view[q]
  <2>1. \A q : q # c => ~Hears(q, SeatTypes)
    BY DEF Founds, Hears
  <2>2. QED
    BY <1>1, <2>1, CarriedFacts, ToldFacts DEF ConnInv
<1>7. view'[c] = LobbyJoined(c)
  <2>1. Hears(c, {"LOBBY_CREATED"})
    BY DEF Founds, Hears
  <2>2. QED
    BY <1>1, <2>1, CarriedFacts, ToldFacts DEF ConnInv
<1>8. AwayInv'
  BY <1>1 DEF AwayInv, SharedInv, InLobby
<1>9. DataEndsWithSeat'
  BY <1>1, <1>2, <1>4 DEF DataEndsWithSeat, SharedInv, InLobby
<1>10. OwnDataKnown'
  <2>1. view'[c].own = view[c].own
    BY <1>7 DEF LobbyJoined
  <2>2. QED
    BY <1>1, <1>4, <1>6, <2>1 DEF OwnDataKnown, SharedInv
<1>11. ViewTrue(c)'
  <2>1. {c} \cap DOMAIN peers' = {c}
    BY <1>1
  <2>2. /\ view'[c].lobby = lobby_public'[l]
        /\ view'[c].secret = lobby_private'[l]
        /\ view'[c].peers = [q \in {c} \cap DOMAIN peers' |-> peer_public'[q]]
    BY <1>1, <1>2, <1>7, RelayAssumption DEF LobbyJoined
  <2>3. QED
    BY <1>1, <1>2, <2>1, <2>2 DEF ViewTrue
<1>12. ASSUME NEW q \in PeerId \ {c}, HasJoined(q)'
       PROVE  ViewTrue(q)'
  <2> DEFINE k == peers[q].lobby_id
  <2>1. q \in sockets /\ q \in DOMAIN peers /\ InLobby(q) /\ peers'[q] = peers[q]
    BY <1>1, <1>12 DEF HasJoined, InLobby
  <2>2. ViewTrue(q)
    BY <1>12, <2>1 DEF SharedInv, ViewsTrue, ViewTrue, HasJoined
  <2>3. k \in DOMAIN lobbies /\ \A x \in lobbies[k].peer_ids : x \in DOMAIN peers
    BY <2>1, MemberFacts
  <2>4. QED
    BY <1>2, <1>4, <1>5, <1>6, <2>1, <2>2, <2>3, ViewUntouched
<1>13. ViewsTrue'
  BY <1>11, <1>12 DEF ViewsTrue, ViewTrue
<1>14. QED
  BY <1>8, <1>9, <1>10, <1>13 DEF SharedInv

\* A peer that joins is sent the lobby, and the members are sent the peer.
LEMMA JoinShared ==
  ASSUME DataInv, ConnInv, KeepInv, SeatInv, DataTypes, SharedInv,
         NEW c, NEW l, Joins(c, l), Carried
  PROVE  SharedInv'
<1> DEFINE members == lobbies[l].peer_ids
<1>1. /\ DOMAIN peers' = DOMAIN peers
      /\ peers'[c].lobby_id = l
      /\ \A q \in DOMAIN peers \ {c} : peers'[q] = peers[q]
      /\ sockets' = sockets
      /\ c \in sockets /\ c \in DOMAIN peers /\ ~InLobby(c)
      /\ l \in DOMAIN lobbies /\ l # NoLobby
  <2>1. PICK order : peers' = [peers EXCEPT ![c].order_id = order, ![c].lobby_id = l,
                                            ![c].disconnected = FALSE]
    BY DEF Joins
  <2>2. c \in DOMAIN peers /\ peers[c] \in PeerData
    BY DEF Joins, Sender, DataInv
  <2>3. /\ DOMAIN peers' = DOMAIN peers /\ peers'[c].lobby_id = l
        /\ \A q \in DOMAIN peers \ {c} : peers'[q] = peers[q]
    BY <2>1, <2>2 DEF PeerData
  <2>4. QED
    BY <2>3, IdAssumption DEF Joins, Sender, DataInv
<1>2. /\ DOMAIN lobbies' = DOMAIN lobbies
      /\ lobbies'[l].peer_ids = members \cup {c} /\ lobbies'[l].host = lobbies[l].host
      /\ \A k \in DOMAIN lobbies \ {l} : lobbies'[k] = lobbies[k]
  <2>1. PICK order : lobbies' = [lobbies EXCEPT ![l].order_id_counter = order,
                                                ![l].peer_ids = @ \cup {c}]
    BY DEF Joins
  <2>2. lobbies[l] \in LobbyData
    BY <1>1 DEF DataInv
  <2>3. QED
    BY <1>1, <2>1, <2>2 DEF LobbyData
<1>3. Cleared = {}
  BY <1>2, NobodyLeaves
<1>4. \A q \in DOMAIN peers :
        peer_public'[q] = peer_public[q] /\ peer_private'[q] = peer_private[q]
  BY <1>1, <1>3, CarriedFacts
<1>5. \A k \in DOMAIN lobbies :
        lobby_public'[k] = lobby_public[k] /\ lobby_private'[k] = lobby_private[k]
  BY <1>2, CarriedFacts
<1>6. members \subseteq DOMAIN peers /\ c \notin members
  BY <1>1, MemberFacts
<1>7. view'[c] = LobbyJoined(c)
  <2>1. Hears(c, {"JOINED_LOBBY"})
    BY DEF Joins, Hears
  <2>2. QED
    BY <1>1, <2>1, CarriedFacts, ToldFacts DEF ConnInv
<1>8. \A n \in notices' : n.to \in members /\ n.type = "PEER_JOINED"
  BY SentFacts DEF Joins
<1>9. \A q \in sockets \ (members \cup {c}) : view'[q] = view[q]
  <2>1. ASSUME NEW q, q \notin members \cup {c} PROVE ~Hears(q, SeatTypes)
    <3>1. \A n \in notices' : n.to # q
      BY <1>8, <2>1
    <3>2. answer'.to # q
      BY <2>1 DEF Joins
    <3>3. QED
      BY <3>1, <3>2, Zenon DEF Hears
  <2>2. QED
    BY <1>1, <2>1, CarriedFacts, ToldFacts DEF ConnInv
<1>10. \A q \in sockets \cap members :
         view'[q] = [view[q] EXCEPT !.peers = Put(@, c, peer_public'[c])]
  <2>1. SUFFICES ASSUME NEW q \in sockets \cap members
                 PROVE  Told(q) = [view[q] EXCEPT !.peers = Put(@, c, peer_public'[c])]
    BY CarriedFacts DEF ConnInv
  <2>2. q # c /\ answer'.to = c
    BY <1>6 DEF Joins
  <2>3. /\ ~Hears(q, {"JOINED_LOBBY", "LOBBY_CREATED"})
        /\ ~Hears(q, {"LOBBY_LEFT", "LOBBY_KICKED"})
    BY <1>8, <2>2 DEF Hears
  <2>4. Hears(q, {"PEER_JOINED"})
    <3>1. q \in (members \ {c}) \ DOMAIN disconnected_peers
      BY <2>2 DEF KeepInv
    <3>2. send(members \ {c}, "PEER_JOINED") \subseteq notices'
      BY DEF Joins
    <3>3. QED
      BY <3>1, <3>2, SendReaches
  <2>5. QED
    BY <1>1, <2>2, <2>3, <2>4 DEF Told
<1>11. AwayInv'
  BY <1>1 DEF AwayInv, SharedInv, InLobby
<1>12. DataEndsWithSeat'
  BY <1>1, <1>4 DEF DataEndsWithSeat, SharedInv, InLobby
<1>13. OwnDataKnown'
  <2>1. view'[c].own = view[c].own
    BY <1>7 DEF LobbyJoined
  <2>2. \A q \in sockets \cap members : view'[q].own = view[q].own
    BY <1>10 DEF ConnInv, DataTypes, NoView
  <2>3. QED
    BY <1>1, <1>4, <1>9, <2>1, <2>2 DEF OwnDataKnown, SharedInv
<1>14. ViewTrue(c)'
  <2>1. (members \cup {c}) \cap DOMAIN peers' = members \cup {c}
    BY <1>1, <1>6
  <2>2. /\ view'[c].lobby = lobby_public'[l]
        /\ lobbies'[l].host = c => view'[c].secret = lobby_private'[l]
        /\ view'[c].peers = [q \in (members \cup {c}) \cap DOMAIN peers' |-> peer_public'[q]]
    BY <1>1, <1>2, <1>7, RelayAssumption DEF LobbyJoined
  <2>3. QED
    BY <1>1, <1>2, <2>1, <2>2 DEF ViewTrue
<1>15. ASSUME NEW q \in PeerId \ {c}, HasJoined(q)'
       PROVE  ViewTrue(q)'
  <2> DEFINE k == peers[q].lobby_id
  <2>1. q \in sockets /\ q \in DOMAIN peers /\ InLobby(q) /\ peers'[q] = peers[q]
    BY <1>1, <1>15 DEF HasJoined, InLobby
  <2>2. ViewTrue(q)
    BY <1>15, <2>1 DEF SharedInv, ViewsTrue, ViewTrue, HasJoined
  <2>3. k \in DOMAIN lobbies /\ \A x \in lobbies[k].peer_ids : x \in DOMAIN peers
    BY <2>1, MemberFacts
  <2>4. CASE k # l
    <3>1. q \notin members \cup {c}
      BY <1>1, <2>4, MemberFacts
    <3>2. QED
      BY <1>2, <1>4, <1>5, <1>9, <2>1, <2>2, <2>3, <2>4, <3>1, ViewUntouched
  <2>5. CASE k = l
    <3>1. q \in sockets \cap members
      BY <2>1, <2>5, MemberFacts
    <3>2. /\ view'[q].lobby = view[q].lobby /\ view'[q].secret = view[q].secret
          /\ view'[q].peers = Put(view[q].peers, c, peer_public'[c])
      BY <1>10, <3>1 DEF DataTypes, NoView
    <3>3. view[q].peers = [x \in members |-> peer_public[x]]
      BY <2>2, <2>5 DEF ViewTrue
    <3>4. Put(view[q].peers, c, peer_public'[c]) = [x \in members \cup {c} |-> peer_public'[x]]
      BY <1>4, <1>6, <3>3 DEF Put
    <3>5. QED
      BY <1>1, <1>2, <1>5, <2>1, <2>2, <2>5, <3>2, <3>4 DEF ViewTrue
  <2>6. QED
    BY <2>4, <2>5
<1>16. ViewsTrue'
  BY <1>14, <1>15 DEF ViewsTrue, ViewTrue
<1>17. QED
  BY <1>11, <1>12, <1>13, <1>16 DEF SharedInv

\* A peer that is taken out of its lobby loses its data and its view, and if it is the
\* host so do all members; the others drop its part of theirs.
LEMMA LeaveShared ==
  ASSUME Hosted, Inv, KeepInv, SeatInv, DataTypes, SharedInv, NEW c, NEW l, Leaves(c, l), Carried
  PROVE  SharedInv'
<1> DEFINE members == lobbies[l].peer_ids
           host == lobbies[l].host
           leavers == IF c = host THEN members ELSE {c}
<1>1. PICK by \in {NoPeer} \cup (members \cap sockets), kicked \in BOOLEAN :
        remove_peer_from_lobby(l, c, by, kicked)
  BY DEF Leaves
<1>2. /\ l \in DOMAIN lobbies /\ c \in members /\ host \in members
      /\ members \subseteq DOMAIN peers
      /\ \A q \in members : peers[q].lobby_id = l /\ InLobby(q)
      /\ sockets' = sockets
      /\ sockets \subseteq PeerId /\ NoPeer \notin PeerId
      /\ lobbies[l] \in LobbyData
  BY MemberFacts, IdAssumption DEF Leaves, SeatInv, LobbyInv, Inv, ConnInv, DataInv
<1>3. DisbandOnLeave /\ LobbyControl = "relay"
  BY RelayAssumption DEF Hosted
<1>4. /\ \A q \in members : Disbands(lobbies[l], q) <=> q = host
      /\ Ends(lobbies[l], c) <=> c = host
  BY <1>2, <1>3 DEF Disbands, Ends
<1>5. leavers \subseteq members /\ c \in leavers
  BY <1>2
<1>6. /\ DOMAIN peers' = DOMAIN peers
      /\ \A q \in DOMAIN peers \ leavers : peers'[q] = peers[q]
      /\ \A q \in leavers : peers'[q].lobby_id = NoLobby
  <2>1. peers' = [q \in DOMAIN peers |-> IF q \in leavers THEN leave_lobby(peers[q]) ELSE peers[q]]
    BY <1>1, <1>2, <1>4 DEF remove_peer_from_lobby
  <2>2. \A q \in DOMAIN peers : leave_lobby(peers[q]).lobby_id = NoLobby
    BY DEF Inv, DataInv, PeerData, leave_lobby
  <2> HIDE DEF leavers
  <2>3. QED
    BY <1>2, <1>5, <2>1, <2>2
<1>7. /\ \A k \in DOMAIN lobbies \ {l} : k \in DOMAIN lobbies' /\ lobbies'[k] = lobbies[k]
      /\ IF c = host THEN DOMAIN lobbies' = DOMAIN lobbies \ {l}
         ELSE /\ DOMAIN lobbies' = DOMAIN lobbies
              /\ lobbies'[l].peer_ids = members \ {c} /\ lobbies'[l].host = host
  <2>1. CASE c = host
    <3>1. lobbies' = Drop(lobbies, {l})
      BY <1>1, <1>4, <2>1 DEF remove_peer_from_lobby
    <3>2. QED
      BY <2>1, <3>1 DEF Drop, Restrict
  <2>2. CASE c # host
    <3>1. lobbies' = [lobbies EXCEPT ![l].host = host, ![l].peer_ids = @ \ {c}]
      BY <1>1, <1>2, <1>4, <2>2 DEF remove_peer_from_lobby
    <3>2. QED
      BY <1>2, <2>2, <3>1 DEF LobbyData
  <2>3. QED
    BY <2>1, <2>2
<1>8. Removed = leavers /\ Cleared = leavers
  <2>1. Gone(l) = leavers /\ \A k \in DOMAIN lobbies \ {l} : Gone(k) = {}
    BY <1>2, <1>7 DEF Gone
  <2>2. IF \E p \in Gone(l) : Disbands(lobbies[l], p) THEN members = leavers ELSE Gone(l) = leavers
    BY <1>2, <1>4, <2>1
  <2> HIDE DEF leavers
  <2>3. Removed = leavers
    BY <1>2, <2>1 DEF Removed
  <2>4. Cleared = leavers
    BY <1>2, <2>1, <2>2 DEF Cleared
  <2>5. QED
    BY <2>3, <2>4
<1>9. \A q \in DOMAIN peers :
        IF q \in leavers THEN peer_public'[q] = Empty /\ peer_private'[q] = Empty
        ELSE peer_public'[q] = peer_public[q] /\ peer_private'[q] = peer_private[q]
  BY <1>6, <1>8, CarriedFacts
<1>10. \A k \in DOMAIN lobbies' :
         /\ k \in DOMAIN lobbies
         /\ lobby_public'[k] = lobby_public[k] /\ lobby_private'[k] = lobby_private[k]
  BY <1>7, CarriedFacts
<1>11. ASSUME NEW q \in sockets
       PROVE  /\ q \notin members => view'[q] = view[q]
              /\ q \in leavers => view'[q] = NoView
              /\ q \in members \ leavers =>
                   view'[q] = [view[q] EXCEPT !.peers = Drop(@, leavers)]
  <2>1. view'[q] = Told(q) /\ q # NoPeer
    BY <1>2, CarriedFacts
  <2>2. /\ Hears(q, SeatTypes) => q \in members
        /\ ~Hears(q, {"JOINED_LOBBY", "LOBBY_CREATED"})
        /\ ~Hears(q, {"PEER_JOINED"})
        /\ Hears(q, {"LOBBY_LEFT", "LOBBY_KICKED"}) => q \in leavers \/ q \notin members
    <3>1. PICK verdict : LeaveNotices(lobbies[l], c, by, kicked, verdict)
      BY <1>1 DEF remove_peer_from_lobby
    <3>2. by \in {NoPeer} \cup members
      OBVIOUS
    <3>3. QED
      BY <1>2, <1>4, <2>1, <3>1, <3>2, LeaveHears
  <2>3. ASSUME q \in members
        PROVE  Announced(q)
    <3>1. q \in DOMAIN peers \cap sockets /\ InLobby(q)
      BY <1>2, <2>3
    <3>2. by = NoPeer \/ by \in sockets
      OBVIOUS
    <3>3. QED
      BY <1>1, <1>2, <3>1, <3>2, RemoveAnnounces
  <2>4. CASE q \notin members
    BY <1>2, <1>5, <2>1, <2>2, <2>4, ToldFacts
  <2>5. CASE q \in leavers
    <3>1. Hears(q, {"LOBBY_LEFT", "LOBBY_KICKED"})
      BY <1>2, <1>5, <1>6, <2>3, <2>5, IdAssumption DEF Announced, InLobby
    <3>2. QED
      BY <1>2, <1>5, <2>1, <2>2, <2>5, <3>1, ToldFacts
  <2>6. CASE q \in members \ leavers
    <3>1. peers'[q] = peers[q] /\ peers[q].lobby_id = l
      BY <1>2, <1>6, <2>6
    <3>2. c \notin lobbies'[l].peer_ids
      BY <1>7, <2>6
    <3>3. Hears(q, {"PEER_LEFT", "PEER_KICKED"})
      BY <1>2, <2>3, <2>6, <3>1, <3>2 DEF Announced
    <3>4. QED
      BY <1>2, <1>8, <2>1, <2>2, <2>6, <3>3 DEF Told
  <2>7. QED
    BY <1>5, <2>4, <2>5, <2>6
<1> HIDE DEF leavers
<1>12. AwayInv'
  BY <1>2, <1>6 DEF AwayInv, SharedInv, InLobby
<1>13. DataEndsWithSeat'
  BY <1>6, <1>9 DEF DataEndsWithSeat, SharedInv, InLobby
<1>14. OwnDataKnown'
  <2>1. SUFFICES ASSUME NEW q \in sockets \cap DOMAIN peers
                 PROVE  view'[q].own = peer_private'[q]
    BY <1>2, <1>6 DEF OwnDataKnown
  <2>2. view[q].own = peer_private[q] /\ DOMAIN view[q] = DOMAIN NoView
    BY <1>2 DEF SharedInv, OwnDataKnown, DataTypes
  <2>3. CASE q \in leavers
    <3>1. view'[q] = NoView /\ peer_private'[q] = Empty
      BY <1>9, <1>11, <2>3
    <3>2. NoView.own = Empty
      BY DEF NoView
    <3>3. QED
      BY <3>1, <3>2
  <2>4. CASE q \notin leavers
    BY <1>9, <1>11, <2>2, <2>4 DEF NoView
  <2>5. QED
    BY <2>3, <2>4
<1>15. ASSUME NEW q \in PeerId, HasJoined(q)'
       PROVE  ViewTrue(q)'
  <2> DEFINE k == peers[q].lobby_id
  <2>1. /\ q \in sockets /\ q \in DOMAIN peers /\ q \notin leavers
        /\ InLobby(q) /\ peers'[q] = peers[q]
    BY <1>2, <1>6, <1>15 DEF HasJoined, InLobby
  <2>2. ViewTrue(q)
    BY <1>15, <2>1 DEF SharedInv, ViewsTrue, ViewTrue, HasJoined
  <2>3. k \in DOMAIN lobbies /\ q \in lobbies[k].peer_ids
    BY <2>1, MemberFacts DEF Inv
  <2>4. CASE k # l
    <3>1. q \notin members
      BY <1>2, <2>4
    <3>2. \A x \in lobbies[k].peer_ids : x \in DOMAIN peers \ leavers
      BY <1>2, <1>5, <2>3, <2>4, MemberFacts DEF Inv
    <3>3. \A x \in lobbies[k].peer_ids : peer_public'[x] = peer_public[x]
      BY <1>9, <3>2
    <3>4. QED
      BY <1>7, <1>10, <1>11, <2>1, <2>2, <2>3, <2>4, <3>1, <3>3, ViewUntouched
  <2>5. CASE k = l
    <3>1. q \in members /\ c # host /\ leavers = {c}
      BY <2>1, <2>3, <2>5 DEF leavers
    <3>2. /\ view'[q].lobby = view[q].lobby /\ view'[q].secret = view[q].secret
          /\ view'[q].peers = Drop(view[q].peers, {c})
      <4>1. view'[q] = [view[q] EXCEPT !.peers = Drop(@, {c})]
        BY <1>11, <2>1, <3>1
      <4>2. DOMAIN view[q] = DOMAIN NoView
        BY <1>2, <2>1 DEF SharedInv, DataTypes
      <4>3. QED
        BY <4>1, <4>2 DEF NoView
    <3>3. view[q].peers = [x \in members |-> peer_public[x]]
      BY <2>2, <2>5 DEF ViewTrue
    <3>4. Drop(view[q].peers, {c}) = [x \in members \ {c} |-> peer_public'[x]]
      BY <1>2, <1>9, <3>1, <3>3 DEF Drop, Restrict
    <3>5. QED
      BY <1>2, <1>7, <1>10, <2>1, <2>2, <2>5, <3>1, <3>2, <3>4 DEF ViewTrue
  <2>6. QED
    BY <2>4, <2>5
<1>16. ViewsTrue'
  BY <1>15 DEF ViewsTrue, ViewTrue
<1>17. QED
  BY <1>12, <1>13, <1>14, <1>16 DEF SharedInv

\* The handlers of the game thread.
LEMMA GameStepShared ==
  ASSUME Hosted, HostedInv, FiniteLobbies, DataTypes, SharedInv, GameStep, HostedInv'
  PROVE  DataTypes' /\ SharedInv'
<1>1. DataTypes'
  BY CarriedTypes DEF GameStep
<1>2. SeatCases
  <2>1. ~fabricated'
    BY DEF HostedInv, SeatInv, NothingFabricated
  <2>2. QED
    BY <2>1, StepCases DEF GameStep, HostedInv
<1>3. DOMAIN peers' \subseteq PeerId
  BY DEF HostedInv, Inv, DataInv
<1>4. SharedInv'
  BY <1>2, <1>3, StillShared, ReturnShared, FoundShared, JoinShared, LeaveShared
  DEF SeatCases, HostedInv, Inv, GameStep
<1>5. QED
  BY <1>1, <1>4

-----------------------------------------------------------------------------
(* The commands of relay games *)

\* A command of RelayData is refused or only answered and passed on, or it writes data
SharingCases(p) ==
  /\ p \in sockets \cap DOMAIN peers
  /\ UNCHANGED <<data, listing, conn, run_vars, fabricated>>
  /\ \/ UNCHANGED <<shared, view>>
     \/ /\ InLobby(p) /\ LobbyOf(p).host = p
        /\ \E diff \in Diff, private \in BOOLEAN :
             \/ SetLobbyData(p, diff, private)
             \/ \E T \in SUBSET LobbyOf(p).peer_ids : SetPeerData(p, T, diff, private)

\* Looking up members inserts nothing.
LEMMA MembersAccess ==
  ASSUME DataInv, SeatInv, NEW p \in DOMAIN peers, InLobby(p),
         NEW T \in SUBSET LobbyOf(p).peer_ids, Access(T)
  PROVE  UNCHANGED fabricated
<1>1. T \subseteq DOMAIN peers
  BY MemberFacts DEF LobbyOf
<1>2. fabricated = FALSE
  BY DEF SeatInv, NothingFabricated, DataInv
<1>3. QED
  BY <1>1, <1>2 DEF Access

\* Every command of RelayData is one of these.
LEMMA Shares ==
  ASSUME DataInv, SeatInv, NEW p \in PeerId, Sharing(p)
  PROVE  SharingCases(p)
<1> USE DEF RelayMember, RelayHost, Handles, Reject, Refuse
<1>1. /\ p \in sockets \cap DOMAIN peers
      /\ UNCHANGED <<listing, conn, run_vars>>
  BY DEF Sharing, on_lobby_data, on_data_to, on_data_to_all, on_notify_to, on_lobby_notify
<1>2. CASE UNCHANGED <<data, fabricated, shared, view>>
  BY <1>1, <1>2 DEF SharingCases
<1>3. CASE InLobby(p) /\ UNCHANGED <<data, shared, view>>
           /\ \E T \in SUBSET LobbyOf(p).peer_ids : Access(T)
  BY <1>1, <1>2, <1>3, MembersAccess
<1>4. CASE /\ InLobby(p) /\ LobbyOf(p).host = p
           /\ \E diff \in Diff, private \in BOOLEAN :
                \E T \in SUBSET LobbyOf(p).peer_ids : SetPeerData(p, T, diff, private)
  <2>1. UNCHANGED <<data, fabricated>>
    BY <1>1, <1>4, MembersAccess DEF SetPeerData
  <2>2. QED
    BY <1>1, <1>4, <2>1 DEF SharingCases
<1>5. CASE /\ InLobby(p) /\ LobbyOf(p).host = p
           /\ \E diff \in Diff, private \in BOOLEAN : SetLobbyData(p, diff, private)
  <2>1. UNCHANGED <<data, fabricated>>
    BY <1>5 DEF SetLobbyData
  <2>2. QED
    BY <1>1, <1>5, <2>1 DEF SharingCases
<1>6. /\ {} \in SUBSET LobbyOf(p).peer_ids
      /\ \A q \in LobbyOf(p).peer_ids : {q} \in SUBSET LobbyOf(p).peer_ids
  OBVIOUS
<1>7. CASE on_lobby_data(p)
  BY <1>2, <1>3, <1>5, <1>6, <1>7 DEF on_lobby_data, Decoded
<1>8. CASE on_data_to(p)
  BY <1>2, <1>3, <1>4, <1>6, <1>8 DEF on_data_to, Target, Decoded
<1>9. CASE on_data_to_all(p)
  BY <1>2, <1>3, <1>4, <1>6, <1>9 DEF on_data_to_all, Decoded
<1>10. CASE on_notify_to(p)
  BY <1>2, <1>3, <1>6, <1>10 DEF on_notify_to, Target, Decoded, Notify
<1>11. CASE on_lobby_notify(p)
  BY <1>2, <1>3, <1>6, <1>11 DEF on_lobby_notify, Decoded, Notify
<1>12. QED
  BY <1>7, <1>8, <1>9, <1>10, <1>11 DEF Sharing

\* They change neither seats nor connections.
LEMMA SharingHosted ==
  ASSUME HostedInv, FiniteLobbies, NEW p, SharingCases(p)
  PROVE  HostedInv' /\ FiniteLobbies'
<1>1. UNCHANGED <<peers, lobbies, peer_ordered_ids, lobbies_updated, lobby_listing_peers, told,
                  disconnected_peers, sockets, since_disconnect, sweep, fabricated>>
  BY DEF SharingCases, data, listing, conn, run_vars
<1>2. Inv'
  BY <1>1 DEF HostedInv, Inv, DataInv, ConnInv, RunInv, ListInv, SeatsExist, InLobby, LobbyOf
<1>3. KeepInv' /\ SweptInv'
  BY <1>1 DEF HostedInv, KeepInv, SweptInv, InLobby
<1>4. SeatInv'
  BY <1>1, SameSeats DEF HostedInv
<1>5. FiniteLobbies'
  BY <1>1 DEF FiniteLobbies
<1>6. QED
  BY <1>2, <1>3, <1>4, <1>5 DEF HostedInv

\* A request turns data into data, and an empty one into the same.
LEMMA ApplyFacts ==
  ASSUME NEW d \in Data, NEW diff \in Diff
  PROVE  Apply(d, diff) \in Data /\ (DOMAIN diff = {} => Apply(d, diff) = d)
<1>1. PICK K \in SUBSET Key : diff \in [K -> Value \cup {Null}]
  BY DEF Diff
<1>2. QED
  BY <1>1 DEF Apply, Data

\* The host's data for its lobby reaches all members that are connected.
LEMMA LobbyDataShared ==
  ASSUME DataInv, ConnInv, KeepInv, SeatInv, DataTypes, SharedInv,
         NEW p, SharingCases(p), InLobby(p), LobbyOf(p).host = p,
         NEW diff \in Diff, NEW private \in BOOLEAN, SetLobbyData(p, diff, private)
  PROVE  DataTypes' /\ SharedInv'
<1> DEFINE l == peers[p].lobby_id
           members == lobbies[l].peer_ids
           to == IF DOMAIN diff = {} THEN {} ELSE IF private THEN {p} ELSE members
<1>1. /\ UNCHANGED <<peers, lobbies, disconnected_peers, sockets>>
      /\ p \in sockets /\ p \in DOMAIN peers /\ p \in PeerId
      /\ l \in DOMAIN lobbies /\ lobbies[l].host = p
  BY MemberFacts DEF SharingCases, data, conn, LobbyOf, DataInv
<1>2. UNCHANGED <<peer_public, peer_private>>
  BY DEF SetLobbyData
<1>3. /\ lobby_public \in [DOMAIN lobbies -> Data] /\ lobby_private \in [DOMAIN lobbies -> Data]
      /\ DOMAIN view = PeerId /\ \A q \in PeerId : DOMAIN view[q] = DOMAIN NoView
  BY DEF DataTypes
<1>4. CASE private
  <2>1. /\ lobby_private' = [lobby_private EXCEPT ![l] = Apply(@, diff)]
        /\ view' = [view EXCEPT ![p].secret = Apply(@, diff)]
        /\ UNCHANGED lobby_public
    BY <1>4 DEF SetLobbyData
  <2>2. /\ lobby_private'[l] = Apply(lobby_private[l], diff)
        /\ \A k \in DOMAIN lobbies \ {l} : lobby_private'[k] = lobby_private[k]
        /\ lobby_private' \in [DOMAIN lobbies -> Data]
    BY <1>1, <1>3, <2>1, ApplyFacts
  <2>3. /\ DOMAIN view' = PeerId
        /\ \A q \in PeerId : DOMAIN view'[q] = DOMAIN NoView
        /\ \A q \in PeerId : view'[q].lobby = view[q].lobby /\ view'[q].peers = view[q].peers
        /\ \A q \in PeerId : view'[q].own = view[q].own
        /\ \A q \in PeerId \ {p} : view'[q].secret = view[q].secret
        /\ view'[p].secret = Apply(view[p].secret, diff)
    BY <1>1, <1>3, <2>1 DEF NoView
  <2>4. DataTypes'
    BY <1>1, <1>2, <2>1, <2>2, <2>3 DEF DataTypes, Data, NoView
  <2>5. ASSUME NEW q \in PeerId, HasJoined(q)'
        PROVE  ViewTrue(q)'
    <3>1. ViewTrue(q) /\ peers[q].lobby_id \in DOMAIN lobbies
      BY <1>1, <2>5, MemberFacts DEF HasJoined, InLobby, SharedInv, ViewsTrue, ViewTrue
    <3>2. CASE q = p
      BY <1>1, <1>2, <2>1, <2>2, <2>3, <3>1, <3>2 DEF ViewTrue
    <3>3. CASE q # p
      <4>1. lobbies[peers[q].lobby_id].host = q => peers[q].lobby_id # l
        BY <1>1, <3>3
      <4>2. QED
        BY <1>1, <1>2, <2>1, <2>2, <2>3, <3>1, <3>3, <4>1 DEF ViewTrue
    <3>4. QED
      BY <3>2, <3>3
  <2>6. AwayInv' /\ DataEndsWithSeat'
    BY <1>1, <1>2 DEF SharedInv, AwayInv, DataEndsWithSeat, InLobby
  <2>7. OwnDataKnown'
    BY <1>1, <1>2, <2>3 DEF SharedInv, OwnDataKnown, ConnInv
  <2>8. ViewsTrue'
    BY <2>5 DEF ViewsTrue, ViewTrue
  <2>9. QED
    BY <2>4, <2>6, <2>7, <2>8 DEF SharedInv
<1>5. CASE ~private
  <2>1. /\ lobby_public' = [lobby_public EXCEPT ![l] = Apply(@, diff)]
        /\ view' = [q \in PeerId |-> IF q \in Reached(to)
                      THEN [view[q] EXCEPT !.lobby = Apply(@, diff)] ELSE view[q]]
        /\ UNCHANGED lobby_private
    BY <1>5 DEF SetLobbyData, LobbyOf
  <2>2. /\ lobby_public'[l] = Apply(lobby_public[l], diff)
        /\ \A k \in DOMAIN lobbies \ {l} : lobby_public'[k] = lobby_public[k]
        /\ lobby_public' \in [DOMAIN lobbies -> Data]
    BY <1>1, <1>3, <2>1, ApplyFacts
  <2> HIDE DEF to
  <2>3. /\ DOMAIN view' = PeerId
        /\ \A q \in PeerId : DOMAIN view'[q] = DOMAIN NoView
        /\ \A q \in PeerId : /\ view'[q].secret = view[q].secret
                            /\ view'[q].peers = view[q].peers
                            /\ view'[q].own = view[q].own
                            /\ view'[q].lobby = IF q \in Reached(to) THEN Apply(view[q].lobby, diff)
                                               ELSE view[q].lobby
    BY <1>3, <2>1 DEF NoView
  <2>4. DataTypes'
    BY <1>1, <1>2, <2>1, <2>2, <2>3 DEF DataTypes, Data, NoView
  <2>5. ASSUME NEW q \in PeerId, HasJoined(q)'
        PROVE  ViewTrue(q)'
    <3>1. /\ ViewTrue(q) /\ peers[q].lobby_id \in DOMAIN lobbies
          /\ q \in lobbies[peers[q].lobby_id].peer_ids /\ q \in sockets
      BY <1>1, <2>5, MemberFacts DEF HasJoined, InLobby, SharedInv, ViewsTrue, ViewTrue
    <3>2. view'[q].lobby = lobby_public'[peers[q].lobby_id]
      <4>1. q \notin DOMAIN disconnected_peers
        BY <3>1 DEF KeepInv
      <4>2. CASE peers[q].lobby_id = l
        <5>1. q \in Reached(to) <=> DOMAIN diff # {}
          BY <1>5, <3>1, <4>1, <4>2 DEF Reached, to
        <5>2. view[q].lobby = lobby_public[l]
          BY <3>1, <4>2 DEF ViewTrue
        <5>3. lobby_public[l] \in Data
          BY <1>1, <1>3
        <5>4. QED
          BY <2>2, <2>3, <4>2, <5>1, <5>2, <5>3, ApplyFacts
      <4>3. CASE peers[q].lobby_id # l
        <5>1. q \notin Reached(to)
          BY <1>1, <1>5, <3>1, <4>3, MemberFacts DEF Reached, to
        <5>2. QED
          BY <2>2, <2>3, <3>1, <4>3, <5>1 DEF ViewTrue
      <4>4. QED
        BY <4>2, <4>3
    <3>3. QED
      BY <1>1, <1>2, <2>1, <2>3, <3>1, <3>2 DEF ViewTrue
  <2>6. AwayInv' /\ DataEndsWithSeat'
    BY <1>1, <1>2 DEF SharedInv, AwayInv, DataEndsWithSeat, InLobby
  <2>7. OwnDataKnown'
    <3>1. \A q \in PeerId : view'[q].own = view[q].own
      BY <2>3
    <3>2. QED
      BY <1>1, <1>2, <3>1 DEF SharedInv, OwnDataKnown, ConnInv
  <2>8. ViewsTrue'
    BY <2>5 DEF ViewsTrue, ViewTrue
  <2>9. QED
    BY <2>4, <2>6, <2>7, <2>8 DEF SharedInv
<1>6. QED
  BY <1>4, <1>5

\* What the host gives to members reaches them, and public data everybody in the lobby.
LEMMA PeerDataShared ==
  ASSUME DataInv, ConnInv, KeepInv, SeatInv, DataTypes, SharedInv,
         NEW p, SharingCases(p), InLobby(p), NEW T \in SUBSET LobbyOf(p).peer_ids,
         NEW diff \in Diff, NEW private \in BOOLEAN, SetPeerData(p, T, diff, private)
  PROVE  DataTypes' /\ SharedInv'
<1> DEFINE l == peers[p].lobby_id
           members == lobbies[l].peer_ids
           to == IF DOMAIN diff = {} THEN {} ELSE IF private THEN T ELSE members
<1>1. /\ UNCHANGED <<peers, lobbies, disconnected_peers, sockets>>
      /\ l \in DOMAIN lobbies /\ members \subseteq DOMAIN peers
      /\ T \subseteq members
      /\ \A q \in members : peers[q].lobby_id = l /\ InLobby(q)
  BY MemberFacts DEF SharingCases, data, conn, LobbyOf
<1>2. UNCHANGED <<lobby_public, lobby_private>>
  BY DEF SetPeerData
<1>3. /\ peer_public \in [DOMAIN peers -> Data] /\ peer_private \in [DOMAIN peers -> Data]
      /\ DOMAIN view = PeerId /\ \A q \in PeerId : DOMAIN view[q] = DOMAIN NoView
  BY DEF DataTypes
<1>4. ASSUME NEW f \in [DOMAIN peers -> Data]
      PROVE  Applied(f, T, diff) \in [DOMAIN peers -> Data]
  BY ApplyFacts DEF Applied
<1>5. AwayInv'
  BY <1>1 DEF SharedInv, AwayInv, InLobby
<1>6. ASSUME NEW q \in PeerId, HasJoined(q)'
      PROVE  /\ ViewTrue(q) /\ peers[q].lobby_id \in DOMAIN lobbies /\ q \in sockets
             /\ q \in lobbies[peers[q].lobby_id].peer_ids
             /\ lobbies[peers[q].lobby_id].peer_ids \subseteq DOMAIN peers
             /\ peers[q].lobby_id # l => lobbies[peers[q].lobby_id].peer_ids \cap T = {}
  <2>1. HasJoined(q)
    BY <1>1, <1>6 DEF HasJoined, InLobby
  <2>2. QED
    BY <1>1, <2>1, MemberFacts DEF HasJoined, SharedInv, ViewsTrue, ViewTrue
<1>7. CASE private
  <2>1. /\ peer_private' = Applied(peer_private, T, diff)
        /\ view' = [q \in PeerId |-> IF q \in Reached(to)
                      THEN [view[q] EXCEPT !.own = Apply(@, diff)] ELSE view[q]]
        /\ UNCHANGED peer_public
    BY <1>7 DEF SetPeerData, PublicAudience, LobbyOf
  <2> HIDE DEF to
  <2>2. \A q \in DOMAIN peers :
          peer_private'[q] = IF q \in T THEN Apply(peer_private[q], diff) ELSE peer_private[q]
    BY <1>3, <2>1 DEF Applied
  <2>3. DOMAIN view' = PeerId /\ \A q \in PeerId : DOMAIN view'[q] = DOMAIN NoView
    BY <1>3, <2>1
  <2>4. \A q \in PeerId : /\ view'[q].lobby = view[q].lobby
                        /\ view'[q].peers = view[q].peers
                        /\ view'[q].secret = view[q].secret
    BY <1>3, <2>1 DEF NoView
  <2>5. \A q \in PeerId : view'[q].own = IF q \in Reached(to) THEN Apply(view[q].own, diff)
                                       ELSE view[q].own
    BY <1>3, <2>1 DEF NoView
  <2>6. DataTypes'
    BY <1>1, <1>2, <1>3, <1>4, <2>1, <2>3 DEF DataTypes, Data, NoView
  <2>7. DataEndsWithSeat'
    <3>1. \A q \in DOMAIN peers : ~InLobby(q) => q \notin T
      BY <1>1
    <3>2. QED
      BY <1>1, <2>1, <2>2, <3>1 DEF SharedInv, DataEndsWithSeat, InLobby
  <2>8. OwnDataKnown'
    <3>1. SUFFICES ASSUME NEW q \in sockets \cap DOMAIN peers
                   PROVE  view'[q].own = peer_private'[q]
      BY <1>1 DEF OwnDataKnown
    <3>2. view[q].own = peer_private[q] /\ q \in PeerId
      BY DEF SharedInv, OwnDataKnown, ConnInv
    <3>3. q \in Reached(to) <=> q \in T /\ DOMAIN diff # {}
      BY <1>7 DEF KeepInv, Reached, to
    <3>4. DOMAIN diff = {} => Apply(peer_private[q], diff) = peer_private[q]
      BY <1>3, ApplyFacts
    <3>5. QED
      BY <2>2, <2>5, <3>2, <3>3, <3>4
  <2>9. ViewsTrue'
    <3>1. ASSUME NEW q \in PeerId, HasJoined(q)'
          PROVE  ViewTrue(q)'
      BY <1>1, <1>2, <1>6, <2>1, <2>4, <3>1 DEF ViewTrue
    <3>2. QED
      BY <3>1 DEF ViewsTrue, ViewTrue
  <2>10. QED
    BY <1>5, <2>6, <2>7, <2>8, <2>9 DEF SharedInv
<1>8. CASE ~private
  <2>1. /\ peer_public' = Applied(peer_public, T, diff)
        /\ view' = [q \in PeerId |-> IF q \in Reached(to)
                      THEN [view[q] EXCEPT !.peers = Applied(@, T, diff)] ELSE view[q]]
        /\ UNCHANGED peer_private
    BY <1>8 DEF SetPeerData, PublicAudience, LobbyOf
  <2> HIDE DEF to
  <2>2. \A q \in DOMAIN peers :
          peer_public'[q] = IF q \in T THEN Apply(peer_public[q], diff) ELSE peer_public[q]
    BY <1>3, <2>1 DEF Applied
  <2>3. DOMAIN view' = PeerId /\ \A q \in PeerId : DOMAIN view'[q] = DOMAIN NoView
    BY <1>3, <2>1
  <2>4. \A q \in PeerId : /\ view'[q].lobby = view[q].lobby
                        /\ view'[q].secret = view[q].secret
    BY <1>3, <2>1 DEF NoView
  <2>5. \A q \in PeerId : view'[q].own = view[q].own
    BY <1>3, <2>1 DEF NoView
  <2>6. \A q \in PeerId : view'[q].peers = IF q \in Reached(to)
                                         THEN Applied(view[q].peers, T, diff)
                                         ELSE view[q].peers
    BY <1>3, <2>1 DEF NoView
  <2>7. DataTypes'
    BY <1>1, <1>2, <1>3, <1>4, <2>1, <2>3 DEF DataTypes, Data, NoView
  <2>8. DataEndsWithSeat'
    <3>1. \A q \in DOMAIN peers : ~InLobby(q) => q \notin T
      BY <1>1
    <3>2. QED
      BY <1>1, <2>1, <2>2, <3>1 DEF SharedInv, DataEndsWithSeat, InLobby
  <2>9. OwnDataKnown'
    BY <1>1, <2>1, <2>5 DEF SharedInv, OwnDataKnown, ConnInv
  <2>10. ViewsTrue'
    <3>1. ASSUME NEW q \in PeerId, HasJoined(q)'
          PROVE  ViewTrue(q)'
      <4> DEFINE k == peers[q].lobby_id
      <4>1. view[q].peers = [x \in lobbies[k].peer_ids |-> peer_public[x]]
        BY <1>6, <3>1 DEF ViewTrue
      <4>2. view'[q].peers = [x \in lobbies[k].peer_ids |-> peer_public'[x]]
        <5>1. CASE k = l /\ DOMAIN diff # {}
          <6>1. q \in Reached(to)
            BY <1>6, <1>8, <3>1, <5>1 DEF KeepInv, Reached, to
          <6>2. view'[q].peers = Applied(view[q].peers, T, diff)
            BY <2>6, <6>1
          <6>3. QED
            BY <1>1, <2>2, <4>1, <5>1, <6>2 DEF Applied
        <5>2. CASE k # l \/ DOMAIN diff = {}
          <6>1. q \notin Reached(to)
            BY <1>1, <1>8, <5>2 DEF Reached, to
          <6>2. \A x \in lobbies[k].peer_ids : peer_public'[x] = peer_public[x]
            BY <1>3, <1>6, <2>2, <3>1, <5>2, ApplyFacts
          <6>3. QED
            BY <2>6, <4>1, <6>1, <6>2
        <5>3. QED
          BY <5>1, <5>2
      <4>3. QED
        BY <1>1, <1>2, <1>6, <2>4, <3>1, <4>2 DEF ViewTrue
    <3>2. QED
      BY <3>1 DEF ViewsTrue, ViewTrue
  <2>11. QED
    BY <1>5, <2>7, <2>8, <2>9, <2>10 DEF SharedInv
<1>9. QED
  BY <1>7, <1>8

-----------------------------------------------------------------------------
(* Theorems *)

\* What hosted relay games keep
RelayInv == HostedInv /\ FiniteLobbies /\ DataTypes /\ SharedInv

\* The server starts without lobbies, and clients without views.
LEMMA InitRelay == DataInit => RelayInv
<1> SUFFICES ASSUME DataInit PROVE RelayInv
  OBVIOUS
<1>1. Init /\ HostedInv
  BY InitHosted DEF DataInit
<1>2. DOMAIN peers = {} /\ DOMAIN lobbies = {} /\ sockets = {} /\ peers = <<>> /\ lobbies = <<>>
  BY <1>1 DEF Init
<1>3. FiniteLobbies
  BY <1>2, FS_EmptySet DEF FiniteLobbies
<1>4. DataTypes
  BY <1>2 DEF DataInit, DataTypes
<1>5. SharedInv
  BY <1>2 DEF SharedInv, AwayInv, DataEndsWithSeat, OwnDataKnown, ViewsTrue, HasJoined
<1>6. QED
  BY <1>1, <1>3, <1>4, <1>5 DEF RelayInv

\* Every step of a hosted relay game keeps it.
LEMMA NextRelay == Hosted /\ RelayInv /\ [RelayNext]_data_vars => RelayInv'
<1> SUFFICES ASSUME Hosted, RelayInv, [RelayNext]_data_vars
             PROVE  RelayInv'
  OBVIOUS
<1> USE DEF RelayInv
<1>1. CASE GameStep
  <2>1. HostedInv'
    BY <1>1, NextHosted DEF GameStep
  <2>2. FiniteLobbies'
    BY <1>1, NextFinite DEF GameStep, HostedInv
  <2>3. DataTypes' /\ SharedInv'
    BY <1>1, <2>1, GameStepShared DEF HostedInv
  <2>4. QED
    BY <2>1, <2>2, <2>3
<1>2. CASE \E p \in PeerId : Sharing(p)
  <2>1. PICK p \in PeerId : Sharing(p)
    BY <1>2
  <2>2. SharingCases(p)
    BY <2>1, Shares DEF HostedInv, Inv
  <2>3. HostedInv' /\ FiniteLobbies'
    BY <2>2, SharingHosted
  <2>4. DataTypes' /\ SharedInv'
    <3>1. CASE UNCHANGED <<shared, view>>
      <4>1. UNCHANGED <<peers, lobbies, sockets, shared, view>>
        BY <2>2, <3>1 DEF SharingCases, data, conn
      <4>2. QED
        BY <4>1 DEF shared, DataTypes, SharedInv, AwayInv, DataEndsWithSeat, OwnDataKnown,
           ViewsTrue, HasJoined, InLobby
    <3>2. CASE /\ InLobby(p) /\ LobbyOf(p).host = p
               /\ \E diff \in Diff, private \in BOOLEAN : SetLobbyData(p, diff, private)
      BY <2>2, <3>2, LobbyDataShared DEF HostedInv, Inv
    <3>3. CASE /\ InLobby(p)
               /\ \E diff \in Diff, private \in BOOLEAN :
                    \E T \in SUBSET LobbyOf(p).peer_ids : SetPeerData(p, T, diff, private)
      BY <2>2, <3>3, PeerDataShared DEF HostedInv, Inv
    <3>4. QED
      BY <2>2, <3>1, <3>2, <3>3 DEF SharingCases
  <2>5. QED
    BY <2>3, <2>4
<1>3. CASE UNCHANGED data_vars
  <2>1. UNCHANGED vars /\ UNCHANGED <<shared, view>>
    BY <1>3 DEF data_vars
  <2>2. HostedInv'
    BY <2>1, NextHosted
  <2>3. FiniteLobbies'
    BY <2>1, NextFinite DEF HostedInv
  <2>4. UNCHANGED <<peers, lobbies, sockets, shared, view>>
    BY <2>1 DEF vars, data, conn
  <2>5. DataTypes' /\ SharedInv'
    BY <2>4 DEF shared, DataTypes, SharedInv, AwayInv, DataEndsWithSeat, OwnDataKnown,
       ViewsTrue, HasJoined, InLobby
  <2>6. QED
    BY <2>2, <2>3, <2>5
<1>4. QED
  BY <1>1, <1>2, <1>3 DEF RelayNext

\* The data of a relay game ends with the seat it was given to (DataEndsWithSeat): no
\* leave, kick, sweep or end of a lobby lets a peer carry it into the next one.
THEOREM DataAlwaysEndsWithSeat ==
  ASSUME Hosted
  PROVE  RelaySpec => []DataEndsWithSeat
BY InitRelay, NextRelay, PTL DEF RelaySpec, RelayInv, SharedInv

\* Clients know the private data of their peers (OwnDataKnown), also what was given to a
\* member while it was away: PEER_STATE has it.
THEOREM OwnDataAlwaysKnown ==
  ASSUME Hosted
  PROVE  RelaySpec => []OwnDataKnown
BY InitRelay, NextRelay, PTL DEF RelaySpec, RelayInv, SharedInv

\* The views of the members are true (ViewsTrue): the diffs of LOBBY_DATA and DATA_TO and
\* what JOINED_LOBBY sends at once add up to the data of the lobby and of its members.
THEOREM ViewsAlwaysTrue ==
  ASSUME Hosted
  PROVE  RelaySpec => []ViewsTrue
BY InitRelay, NextRelay, PTL DEF RelaySpec, RelayInv, SharedInv

\* A data command is answered, or it is one of the host that leaves all data alone.
LEMMA SharingAnswers ==
  ASSUME RelayInv, NEW p \in PeerId, Sharing(p)
  PROVE  \/ answer'.to = p /\ answer'.replies # <<>>
         \/ /\ InLobby(p) /\ LobbyOf(p).host = p
            /\ notices' = {} /\ UNCHANGED <<data, shared>>
<1>1. /\ p \in sockets \cap DOMAIN peers
      /\ KeepInv /\ DataInv /\ SeatInv /\ DataTypes
  BY DEF RelayInv, HostedInv, Inv, Sharing, on_lobby_data, on_data_to, on_data_to_all,
     on_notify_to, on_lobby_notify, RelayMember, Handles
<1>2. ASSUME NEW type, answer' = reply(p, <<type>>)
      PROVE  answer'.to = p /\ answer'.replies # <<>>
  <2>1. answer' = [to |-> p, replies |-> <<type>>]
    BY <1>1, <1>2, Replied
  <2>2. <<type>> # <<>>
    OBVIOUS
  <2>3. QED
    BY <2>1, <2>2
<1>3. ASSUME NEW error, Reject(p, error) PROVE answer'.to = p /\ answer'.replies # <<>>
  BY <1>2, <1>3 DEF Reject, Refuse
<1>4. ASSUME NEW T, NEW diff, NEW private, SetPeerData(p, T, diff, private)
      PROVE  answer'.to = p /\ answer'.replies # <<>>
  BY <1>2, <1>4 DEF SetPeerData, Tell
<1>5. ASSUME NEW S, Notify(p, S) PROVE answer'.to = p /\ answer'.replies # <<>>
  BY <1>2, <1>5 DEF Notify, Tell
<1>6. ASSUME InLobby(p), LobbyOf(p).host = p, NEW diff \in Diff, NEW private \in BOOLEAN,
             SetLobbyData(p, diff, private)
      PROVE  \/ answer'.to = p /\ answer'.replies # <<>>
             \/ notices' = {} /\ UNCHANGED <<data, shared>>
  <2> DEFINE l == peers[p].lobby_id
  <2>1. l \in DOMAIN lobbies /\ p \in LobbyOf(p).peer_ids
    BY <1>1, <1>6, MemberFacts DEF LobbyOf
  <2>2. CASE DOMAIN diff # {}
    <3>1. answer' = reply(p, <<"LOBBY_DATA">>)
      BY <1>6, <2>1, <2>2 DEF SetLobbyData, Tell
    <3>2. QED
      BY <1>2, <3>1
  <2>3. CASE DOMAIN diff = {}
    <3>1. notices' = {}
      BY <1>6, <2>3 DEF SetLobbyData, Tell, send
    <3>2. lobby_public[l] \in Data /\ lobby_private[l] \in Data
      BY <1>1, <2>1 DEF DataTypes
    <3>3. Apply(lobby_public[l], diff) = lobby_public[l]
          /\ Apply(lobby_private[l], diff) = lobby_private[l]
      BY <1>6, <2>3, <3>2, ApplyFacts
    <3>4. UNCHANGED <<data, shared>>
      BY <1>1, <1>6, <3>3 DEF SetLobbyData, shared, DataTypes
    <3>5. QED
      BY <3>1, <3>4
  <2>4. QED
    BY <2>2, <2>3
<1>7. CASE on_lobby_data(p)
  BY <1>2, <1>3, <1>6, <1>7 DEF on_lobby_data, RelayMember, RelayHost, Decoded
<1>8. CASE on_data_to(p)
  BY <1>2, <1>3, <1>4, <1>8 DEF on_data_to, RelayMember, RelayHost, Target, Decoded
<1>9. CASE on_data_to_all(p)
  BY <1>2, <1>3, <1>4, <1>9 DEF on_data_to_all, RelayMember, RelayHost, Decoded
<1>10. CASE on_notify_to(p)
  BY <1>2, <1>3, <1>5, <1>10 DEF on_notify_to, RelayMember, RelayHost, Target, Decoded
<1>11. CASE on_lobby_notify(p)
  BY <1>2, <1>3, <1>5, <1>11 DEF on_lobby_notify, RelayMember, Decoded
<1>12. QED
  BY <1>7, <1>8, <1>9, <1>10, <1>11 DEF Sharing

\* Data commands are answered but for those of the host that change nothing
\* (SilenceChangesNothing), whoever sends them and whatever is wrong with them.
THEOREM DataCommandsAnswered ==
  ASSUME Hosted
  PROVE  RelaySpec => SilenceChangesNothing
<1>1. RelayInv =>
        \A p \in PeerId : Sharing(p) =>
          \/ answer'.to = p /\ answer'.replies # <<>>
          \/ /\ InLobby(p) /\ LobbyOf(p).host = p
             /\ notices' = {} /\ UNCHANGED <<data, shared>>
  BY SharingAnswers
<1>2. QED
  BY <1>1, InitRelay, NextRelay, PTL DEF RelaySpec, SilenceChangesNothing

=============================================================================
