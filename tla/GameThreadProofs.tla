-------------------------- MODULE GameThreadProofs --------------------------
(***************************************************************************)
(* Proofs about GameThread: type correctness, SeatsExist, ConnectedKept    *)
(* and WithinCapacity, for every number of peers and lobbies, every kind   *)
(* of game and every script verdict.  The first two are proved together:   *)
(* the new host that remove_peer_from_lobby picks is a peer only because   *)
(* the leaver is a member of the lobby, which is SeatsExist.               *)
(***************************************************************************)
EXTENDS GameThread, FiniteSetTheorems, WellFoundedInduction, TLAPS

\* What the commands work on: records of peers and lobbies, and the seats
DataInv ==
  /\ DOMAIN peers \subseteq PeerId
  /\ peers \in [DOMAIN peers -> PeerData]
  /\ DOMAIN lobbies \subseteq LobbyId
  /\ lobbies \in [DOMAIN lobbies -> LobbyData]
  /\ DOMAIN peer_ordered_ids = DOMAIN lobbies
  /\ lobbies_updated \subseteq LobbyId
  /\ fabricated \in BOOLEAN
  /\ SeatsExist

ConnInv ==
  /\ DOMAIN disconnected_peers \subseteq PeerId
  /\ disconnected_peers \in [DOMAIN disconnected_peers -> 0..(MaxReconnectionTime + 1)]
  /\ sockets \subseteq PeerId

RunInv ==
  /\ since_disconnect \in 0..(DisconnectInterval + 1)
  /\ sweep \in [active : BOOLEAN, todo : SUBSET PeerId, to_erase : SUBSET PeerId]

ListInv == lobby_listing_peers \subseteq PeerId /\ DOMAIN told = lobby_listing_peers

Inv == DataInv /\ ConnInv /\ RunInv /\ ListInv

-----------------------------------------------------------------------------
(* Helpers *)

\* The least of a set of naturals is one of them (NewHost, the order of the sweep).
LEMMA MinInSet ==
  ASSUME NEW S, S \subseteq Nat, S # {}
  PROVE  Min(S) \in S
<1>1. PICK x \in S : \A y \in S : ~(<<y, x>> \in OpToRel(<, Nat))
  BY NatLessThanWellFounded, WFMin
<1>2. ASSUME NEW y \in S, y < x PROVE FALSE
  <2>1. <<y, x>> \in OpToRel(<, Nat)
    BY <1>2 DEF OpToRel
  <2>2. QED
    BY <1>1, <2>1
<1>3. \A y \in S : x =< y
  BY <1>2
<1>4. QED
  BY <1>3 DEF Min

\* A member of a lobby that is not alone leaves somebody behind.
LEMMA SomebodyStays ==
  ASSUME NEW S, NEW p \in S, Cardinality(S) # 1
  PROVE  S \ {p} # {}
<1>1. SUFFICES ASSUME S \ {p} = {} PROVE FALSE
  OBVIOUS
<1>2. S = {p}
  BY <1>1
<1>3. QED
  BY <1>2, FS_Singleton

\* Refusing a command leaves the records alone.
LEMMA RefuseData ==
  ASSUME DataInv, NEW p, NEW e, Refuse(p, e)
  PROVE  DataInv'
BY DEF Refuse, data, DataInv, SeatsExist, InLobby, LobbyOf

\* So does changing the settings of a lobby, as far as the seats go.
LEMMA SetLobbyKeepsData ==
  ASSUME DataInv, NEW p \in DOMAIN peers, InLobby(p), NEW type,
         NEW lobby \in LobbyData, lobby.peer_ids = LobbyOf(p).peer_ids,
         SetLobby(p, lobby, type)
  PROVE  DataInv'
<1>1. peers[p].lobby_id \in DOMAIN lobbies
  BY DEF DataInv, SeatsExist
<1>2. QED
  BY <1>1 DEF SetLobby, DataInv, SeatsExist, InLobby, LobbyOf

\* The lobby of a member is a well-formed record that has the member.
LEMMA SeatFacts ==
  ASSUME DataInv, NEW p \in DOMAIN peers, InLobby(p)
  PROVE  /\ peers[p].lobby_id \in DOMAIN lobbies
         /\ LobbyOf(p) \in LobbyData
         /\ p \in LobbyOf(p).peer_ids
BY DEF DataInv, SeatsExist, LobbyOf

\* PeerData::leave_lobby yields a peer record again.
LEMMA LeaveLobbyType ==
  ASSUME NEW peer \in PeerData
  PROVE  leave_lobby(peer) \in PeerData /\ leave_lobby(peer).lobby_id = NoLobby
BY DEF PeerData, leave_lobby

-----------------------------------------------------------------------------
(* Entering and leaving *)

\* Creating a lobby (on_create_lobby) seats its host in a lobby that lists it, and
\* leaves everybody else where they were.
LEMMA CreateLobbyData ==
  ASSUME DataInv, NEW p \in DOMAIN peers, NEW before, NEW pw \in Password, NEW tags \in SUBSET Tag,
         CreateLobby(p, before, pw, tags)
  PROVE  DataInv'
<1>1. CASE \E e : Refuse(p, e)
  BY <1>1, RefuseData
<1>2. CASE /\ peers' = [peers EXCEPT ![p] = leave_lobby(@)]
           /\ UNCHANGED <<lobbies, peer_ordered_ids, lobbies_updated, fabricated>>
  BY <1>2, LeaveLobbyType DEF DataInv, SeatsExist, InLobby, LobbyOf
<1>3. ASSUME NEW m \in MaxPlayersInput, NEW s \in SealInput \cup {Seal}, NEW name \in Title,
             NEW l \in FreshLobbyId,
             peers' = [peers EXCEPT ![p].lobby_id = l, ![p].disconnected = FALSE],
             lobbies' = Put(lobbies, l, NewLobby(p, m, pw, s, name, tags)),
             peer_ordered_ids' = Put(peer_ordered_ids, l, <<p>>),
             lobbies_updated' = lobbies_updated \cup {l},
             fabricated' = fabricated
      PROVE  DataInv'
  <2>1. l \in LobbyId /\ l \notin DOMAIN lobbies
    BY DEF FreshLobbyId
  <2>2. NewLobby(p, m, pw, s, name, tags) \in LobbyData
    BY GameAssumption, InputAssumption DEF NewLobby, LobbyData, DataInv
  <2>3. /\ DOMAIN lobbies' = DOMAIN lobbies \cup {l}
        /\ lobbies' \in [DOMAIN lobbies' -> LobbyData]
        /\ lobbies'[l].peer_ids = {p}
        /\ \A k \in DOMAIN lobbies : lobbies'[k] = lobbies[k]
    BY <1>3, <2>1, <2>2 DEF Put, DataInv, NewLobby
  <2>4. /\ DOMAIN peers' = DOMAIN peers
        /\ peers' \in [DOMAIN peers -> PeerData]
        /\ peers'[p].lobby_id = l
        /\ \A q \in DOMAIN peers : q # p => peers'[q] = peers[q]
    BY <1>3, <2>1 DEF DataInv, PeerData
  <2>5. SeatsExist'
    BY <2>3, <2>4, <2>1 DEF SeatsExist, InLobby, LobbyOf, DataInv
  <2>6. DOMAIN peer_ordered_ids' = DOMAIN lobbies'
    BY <1>3, <2>3 DEF Put, DataInv
  <2>7. QED
    BY <1>3, <2>1, <2>3, <2>4, <2>5, <2>6 DEF DataInv
<1>4. QED
  BY <1>1, <1>2, <1>3 DEF CreateLobby

\* Joining or rejoining (on_join_lobby) seats the peer in a lobby that lists it.
LEMMA JoinLobbyData ==
  ASSUME DataInv, NEW p \in DOMAIN peers, NEW l, NEW pw, NEW before,
         JoinLobby(p, l, pw, before)
  PROVE  DataInv'
<1>1. CASE Rejoin(p, before)
  <2>1. /\ DOMAIN peers' = DOMAIN peers
        /\ peers' \in [DOMAIN peers -> PeerData]
        /\ \A q \in DOMAIN peers : peers'[q].lobby_id = peers[q].lobby_id
    BY <1>1 DEF Rejoin, DataInv, PeerData
  <2>2. fabricated' \in BOOLEAN /\ UNCHANGED <<lobbies, peer_ordered_ids, lobbies_updated>>
    BY <1>1 DEF Rejoin, Access
  <2>3. QED
    BY <2>1, <2>2 DEF DataInv, SeatsExist, InLobby, LobbyOf
<1>2. CASE Enter(p, l, before)
  <2>1. ~Reconnecting(p) /\ l \in DOMAIN lobbies /\ l \in LobbyId /\ l # NoLobby
    BY <1>2, IdAssumption DEF JoinLobby, MayJoin, JoinErrors, JoinTarget, Enter, DataInv
  <2>2. ~InLobby(p)
    BY <2>1 DEF JoinLobby, MayJoin, JoinErrors, JoinTarget
  <2>3. lobbies[l] \in LobbyData
    BY <2>1 DEF DataInv
  <2> DEFINE order == lobbies[l].order_id_counter + 1
  <2>4. order \in Nat
    BY <2>3 DEF LobbyData
  <2>5. peers' = [peers EXCEPT ![p].order_id = order, ![p].lobby_id = l, ![p].disconnected = FALSE]
    BY <1>2 DEF Enter
  <2>6. lobbies' = [lobbies EXCEPT ![l].order_id_counter = order, ![l].peer_ids = @ \cup {p}]
    BY <1>2 DEF Enter
  <2> HIDE DEF order
  <2>7. /\ DOMAIN peers' = DOMAIN peers
        /\ peers' \in [DOMAIN peers -> PeerData]
        /\ peers'[p].lobby_id = l
        /\ \A q \in DOMAIN peers : q # p => peers'[q] = peers[q]
    BY <2>1, <2>4, <2>5 DEF DataInv, PeerData
  <2>8. /\ DOMAIN lobbies' = DOMAIN lobbies
        /\ lobbies' \in [DOMAIN lobbies -> LobbyData]
        /\ lobbies'[l].peer_ids = lobbies[l].peer_ids \cup {p}
        /\ \A k \in DOMAIN lobbies : k # l => lobbies'[k] = lobbies[k]
    BY <2>1, <2>3, <2>4, <2>6 DEF DataInv, LobbyData
  <2>9. SeatsExist'
    BY <2>1, <2>7, <2>8 DEF SeatsExist, InLobby, LobbyOf, DataInv
  <2>10. /\ DOMAIN peer_ordered_ids' = DOMAIN peer_ordered_ids
         /\ lobbies_updated' = lobbies_updated \cup {l}
         /\ fabricated' \in BOOLEAN
    BY <1>2 DEF Enter, Access
  <2>11. QED
    BY <2>1, <2>7, <2>8, <2>9, <2>10 DEF DataInv
<1>3. QED
  BY <1>1, <1>2 DEF JoinLobby

\* remove_peer_from_lobby keeps the seats: whoever is left without a lobby was a
\* member of it, and members of a lobby that ends have all been turned out.
LEMMA RemoveData ==
  ASSUME DataInv, NEW l \in DOMAIN lobbies, NEW p \in lobbies[l].peer_ids, NEW by, NEW kicked,
         remove_peer_from_lobby(l, p, by, kicked)
  PROVE  DataInv'
<1> DEFINE lobby == lobbies[l]
           leavers == IF Disbands(lobby, p) THEN lobby.peer_ids ELSE {p}
           new_host == IF p = lobby.host /\ ~Disbands(lobby, p) THEN NewHost(lobby, p)
                       ELSE lobby.host
<1>1. lobby \in LobbyData /\ lobby.peer_ids \subseteq PeerId /\ l \in LobbyId
  BY DEF DataInv, LobbyData
<1>2. new_host \in PeerId \cup {NoPeer}
  <2>1. CASE p = lobby.host /\ ~Disbands(lobby, p)
    <3>1. lobby.peer_ids \ {p} # {}
      BY <2>1, SomebodyStays DEF Disbands
    <3>2. Min(lobby.peer_ids \ {p}) \in lobby.peer_ids \ {p}
      BY <1>1, <3>1, MinInSet, IdAssumption
    <3>3. QED
      BY <2>1, <3>2, <1>1 DEF NewHost
  <2>2. CASE ~(p = lobby.host /\ ~Disbands(lobby, p))
    BY <2>2, <1>1 DEF LobbyData
  <2>3. QED
    BY <2>1, <2>2
<1>3. /\ peers' = [q \in DOMAIN peers |-> IF q \in leavers THEN leave_lobby(peers[q]) ELSE peers[q]]
      /\ lobbies_updated' = lobbies_updated \cup {l}
      /\ fabricated' \in BOOLEAN
  BY DEF remove_peer_from_lobby, Access
<1>4. /\ DOMAIN peers' = DOMAIN peers
      /\ peers' \in [DOMAIN peers -> PeerData]
      /\ \A q \in DOMAIN peers : q \in leavers => peers'[q].lobby_id = NoLobby
      /\ \A q \in DOMAIN peers : q \notin leavers => peers'[q] = peers[q]
  <2> HIDE DEF leavers
  <2> QED
    BY <1>3, LeaveLobbyType DEF DataInv
<1>5. p \in leavers /\ leavers \subseteq lobby.peer_ids
  OBVIOUS
<1>6. CASE Ends(lobby, p)
  <2>1. lobbies' = Drop(lobbies, {l}) /\ peer_ordered_ids' = Drop(peer_ordered_ids, {l})
    BY <1>6 DEF remove_peer_from_lobby
  <2>2. /\ DOMAIN lobbies' = DOMAIN lobbies \ {l}
        /\ \A k \in DOMAIN lobbies \ {l} : lobbies'[k] = lobbies[k]
        /\ DOMAIN peer_ordered_ids' = DOMAIN lobbies'
        /\ lobbies' \in [DOMAIN lobbies' -> LobbyData]
    BY <2>1 DEF Drop, Restrict, DataInv
  <2>3. leavers = lobby.peer_ids
    BY <1>6, <1>5 DEF Ends, Disbands
  <2>4. SeatsExist'
    <3>1. SUFFICES ASSUME NEW q \in DOMAIN peers, peers'[q].lobby_id # NoLobby
                   PROVE  /\ peers'[q].lobby_id \in DOMAIN lobbies'
                          /\ q \in lobbies'[peers'[q].lobby_id].peer_ids
      BY <1>4 DEF SeatsExist, InLobby, LobbyOf
    <3>2. q \notin lobby.peer_ids /\ peers'[q] = peers[q]
      BY <3>1, <1>4, <2>3
    <3>3. /\ peers[q].lobby_id \in DOMAIN lobbies
          /\ q \in lobbies[peers[q].lobby_id].peer_ids
      BY <3>1, <3>2 DEF DataInv, SeatsExist, InLobby, LobbyOf
    <3>4. QED
      BY <3>2, <3>3, <2>2
  <2>5. QED
    <3> HIDE DEF leavers
    <3> QED
      BY <1>1, <1>3, <1>4, <2>2, <2>4 DEF DataInv
<1>7. CASE ~Ends(lobby, p)
  <2>1. /\ lobbies' = [lobbies EXCEPT ![l].host = new_host, ![l].peer_ids = @ \ {p}]
        /\ DOMAIN peer_ordered_ids' = DOMAIN peer_ordered_ids
    BY <1>7 DEF remove_peer_from_lobby
  <2>2. /\ DOMAIN lobbies' = DOMAIN lobbies
        /\ lobbies' \in [DOMAIN lobbies -> LobbyData]
        /\ lobbies'[l].peer_ids = lobby.peer_ids \ {p}
        /\ \A k \in DOMAIN lobbies \ {l} : lobbies'[k] = lobbies[k]
    <3> HIDE DEF new_host
    <3> QED
      BY <1>1, <1>2, <2>1 DEF DataInv, LobbyData
  <2>3. SeatsExist'
    <3>1. SUFFICES ASSUME NEW q \in DOMAIN peers, peers'[q].lobby_id # NoLobby
                   PROVE  /\ peers'[q].lobby_id \in DOMAIN lobbies'
                          /\ q \in lobbies'[peers'[q].lobby_id].peer_ids
      BY <1>4 DEF SeatsExist, InLobby, LobbyOf
    <3>2. q # p /\ peers'[q] = peers[q]
      BY <3>1, <1>4, <1>5
    <3>3. /\ peers[q].lobby_id \in DOMAIN lobbies
          /\ q \in lobbies[peers[q].lobby_id].peer_ids
      BY <3>1, <3>2 DEF DataInv, SeatsExist, InLobby, LobbyOf
    <3>4. QED
      BY <3>2, <3>3, <2>2
  <2>4. QED
    <3> HIDE DEF leavers
    <3> QED
      BY <1>1, <1>3, <1>4, <2>1, <2>2, <2>3 DEF DataInv
<1>8. QED
  BY <1>6, <1>7

-----------------------------------------------------------------------------
(* The commands *)

\* What holds when a command of p is taken from the queue.
LEMMA HandledPeer ==
  ASSUME NEW p, NEW c, Handles(p, c)
  PROVE  p \in DOMAIN peers /\ UNCHANGED <<conn, run_vars>>
BY DEF Handles

\* The commands that seat peers and turn them out keep the seats.
LEMMA SeatingStep ==
  ASSUME DataInv, NEW p, Seating(p)
  PROVE  DataInv' /\ UNCHANGED <<conn, run_vars, listing>>
<1>1. CASE on_create_lobby(p)
  <2>1. p \in DOMAIN peers /\ UNCHANGED <<conn, run_vars, listing>>
    BY <1>1, HandledPeer DEF on_create_lobby
  <2>2. CASE \E pw \in Password, tags \in SUBSET Tag : CreateLobby(p, <<>>, pw, tags)
    BY <2>1, <2>2, CreateLobbyData
  <2>3. CASE Refuse(p, <<"INVALID_TAGS">>)
    BY <2>1, <2>3, RefuseData
  <2>4. QED
    BY <1>1, <2>1, <2>2, <2>3 DEF on_create_lobby
<1>2. CASE on_join_lobby(p)
  <2>1. p \in DOMAIN peers /\ UNCHANGED <<conn, run_vars, listing>>
    BY <1>2, HandledPeer DEF on_join_lobby
  <2>2. PICK l \in LobbyId, pw \in Password :
          (\E e \in JoinErrors(p, l, pw) : Refuse(p, <<e>>)) \/ JoinLobby(p, l, pw, <<>>)
    BY <1>2 DEF on_join_lobby
  <2>3. QED
    BY <2>1, <2>2, RefuseData, JoinLobbyData
<1>3. CASE on_quick_join(p)
  <2>1. p \in DOMAIN peers /\ UNCHANGED <<conn, run_vars, listing>>
    BY <1>3, HandledPeer DEF on_quick_join
  <2>2. CASE \E l, pw, before : JoinLobby(p, l, pw, before)
    BY <2>1, <2>2, JoinLobbyData
  <2>3. CASE \E errors : Refuse(p, errors)
    BY <2>1, <2>3, RefuseData
  <2>4. CASE fabricated' = TRUE /\ UNCHANGED data
    BY <2>1, <2>4 DEF data, DataInv, SeatsExist, InLobby, LobbyOf
  <2>5. CASE \E before : \E pw \in Password, tags \in SUBSET Tag : CreateLobby(p, before, pw, tags)
    BY <2>1, <2>5, CreateLobbyData
  <2>6. PICK l \in LobbyId \cup {NoLobby}, pw \in Password, tags \in SUBSET Tag :
          \/ InLobby(p) /\ JoinLobby(p, l, pw, <<>>)
          \/ \E before : QuickJoin(p, pw, tags, before)
    BY <1>3 DEF on_quick_join
  <2>7. ASSUME NEW before, QuickJoin(p, pw, tags, before) PROVE DataInv'
    <3>1. \/ \E errors : Refuse(p, errors)
          \/ fabricated' = TRUE /\ UNCHANGED data
          \/ \E c, errors : JoinLobby(p, c, pw, errors)
          \/ \E errors : CreateLobby(p, errors, pw, tags)
      BY <2>7, Zenon DEF QuickJoin
    <3>2. QED
      BY <2>2, <2>3, <2>4, <2>5, <3>1
  <2>8. QED
    BY <2>1, <2>2, <2>6, <2>7
<1>4. CASE on_leave_lobby(p)
  <2>1. p \in DOMAIN peers /\ UNCHANGED <<conn, run_vars, listing>>
    BY <1>4, HandledPeer DEF on_leave_lobby
  <2>2. CASE InLobby(p) /\ remove_peer_from_lobby(peers[p].lobby_id, p, p, FALSE)
    <3>1. peers[p].lobby_id \in DOMAIN lobbies /\ p \in lobbies[peers[p].lobby_id].peer_ids
      BY <2>1, <2>2, SeatFacts DEF LobbyOf
    <3>2. QED
      BY <2>1, <2>2, <3>1, RemoveData
  <2>3. CASE Refuse(p, <<"PEER_NOT_IN_A_LOBBY">>)
    BY <2>1, <2>3, RefuseData
  <2>4. QED
    BY <1>4, <2>2, <2>3 DEF on_leave_lobby
<1>5. CASE on_kick_peer(p)
  <2>1. p \in DOMAIN peers /\ UNCHANGED <<conn, run_vars, listing>>
    BY <1>5, HandledPeer DEF on_kick_peer, Member
  <2>2. CASE \E errors : Refuse(p, errors)
    BY <2>1, <2>2, RefuseData
  <2>3. CASE InLobby(p) /\ \E q \in LobbyOf(p).peer_ids :
               remove_peer_from_lobby(peers[p].lobby_id, q, p, TRUE)
    <3>1. peers[p].lobby_id \in DOMAIN lobbies
      BY <2>1, <2>3, SeatFacts
    <3>2. PICK q \in lobbies[peers[p].lobby_id].peer_ids :
            remove_peer_from_lobby(peers[p].lobby_id, q, p, TRUE)
      BY <2>3 DEF LobbyOf
    <3>3. QED
      BY <2>1, <3>1, <3>2, RemoveData
  <2>4. CASE InLobby(p) /\ LobbyOf(p).host = p
    <3>1. PICK q \in PeerId :
            IF q \notin LobbyOf(p).peer_ids THEN Refuse(p, <<"PEER_NOT_IN_A_LOBBY">>)
            ELSE IF q = p THEN Refuse(p, <<"CANNOT_KICK_SELF">>)
            ELSE Scripted(p, "_can_host_kick",
                          remove_peer_from_lobby(peers[p].lobby_id, q, p, TRUE))
      BY <1>5, <2>4 DEF on_kick_peer, Member, Host
    <3>2. QED
      BY <2>2, <2>3, <2>4, <3>1 DEF Scripted
  <2>5. CASE ~(InLobby(p) /\ LobbyOf(p).host = p)
    BY <1>5, <2>2, <2>5 DEF on_kick_peer, Member, Host
  <2>6. QED
    BY <2>4, <2>5
<1>6. QED
  BY <1>1, <1>2, <1>3, <1>4, <1>5 DEF Seating

\* The commands that change a lobby leave its members alone.
LEMMA SettingsStep ==
  ASSUME DataInv, NEW p, Settings(p)
  PROVE  DataInv' /\ UNCHANGED <<conn, run_vars, listing>>
<1>1. p \in DOMAIN peers /\ UNCHANGED <<conn, run_vars, listing>>
  BY HandledPeer DEF Settings, on_seal_lobby, on_unseal_lobby, on_lobby_max_players,
     on_lobby_title, on_lobby_password, on_lobby_tags, Member
<1>2. CASE \E errors : Refuse(p, errors)
  BY <1>1, <1>2, RefuseData
<1>3. CASE InLobby(p) /\ \E type : \E lobby \in LobbyData :
             lobby.peer_ids = LobbyOf(p).peer_ids /\ SetLobby(p, lobby, type)
  BY <1>1, <1>3, SetLobbyKeepsData
<1>4. CASE on_seal_lobby(p) \/ on_unseal_lobby(p)
  <2>1. ASSUME InLobby(p), NEW sealed \in BOOLEAN
        PROVE  /\ [LobbyOf(p) EXCEPT !.sealed = sealed] \in LobbyData
               /\ [LobbyOf(p) EXCEPT !.sealed = sealed].peer_ids = LobbyOf(p).peer_ids
    BY <1>1, <2>1, SeatFacts DEF LobbyData
  <2>2. QED
    BY <1>2, <1>3, <1>4, <2>1
    DEF on_seal_lobby, on_unseal_lobby, Member, Host, set_lobby_sealed, Scripted
<1>5. CASE on_lobby_max_players(p)
  <2>1. ASSUME InLobby(p), NEW m \in MaxPlayersInput
        PROVE  /\ [LobbyOf(p) EXCEPT !.max_players = m] \in LobbyData
               /\ [LobbyOf(p) EXCEPT !.max_players = m].peer_ids = LobbyOf(p).peer_ids
    BY <1>1, <2>1, SeatFacts, InputAssumption DEF LobbyData
  <2>2. QED
    BY <1>2, <1>3, <1>5, <2>1 DEF on_lobby_max_players, Member, Scripted
<1>6. CASE on_lobby_title(p)
  <2>1. ASSUME InLobby(p), NEW name \in Title
        PROVE  /\ [LobbyOf(p) EXCEPT !.name = name] \in LobbyData
               /\ [LobbyOf(p) EXCEPT !.name = name].peer_ids = LobbyOf(p).peer_ids
    BY <1>1, <2>1, SeatFacts DEF LobbyData
  <2>2. QED
    BY <1>2, <1>3, <1>6, <2>1 DEF on_lobby_title, Member, Scripted
<1>7. CASE on_lobby_password(p)
  <2>1. ASSUME InLobby(p), NEW pw \in Password
        PROVE  /\ [LobbyOf(p) EXCEPT !.password = pw] \in LobbyData
               /\ [LobbyOf(p) EXCEPT !.password = pw].peer_ids = LobbyOf(p).peer_ids
    BY <1>1, <2>1, SeatFacts DEF LobbyData
  <2>2. QED
    BY <1>2, <1>3, <1>7, <2>1 DEF on_lobby_password, Member
<1>8. CASE on_lobby_tags(p)
  <2>1. ASSUME InLobby(p), NEW set \in SUBSET Tag, NEW null \in SUBSET Tag
        PROVE  /\ [LobbyOf(p) EXCEPT !.tags = (@ \cup set) \ null] \in LobbyData
               /\ [LobbyOf(p) EXCEPT !.tags = (@ \cup set) \ null].peer_ids = LobbyOf(p).peer_ids
    BY <1>1, <2>1, SeatFacts DEF LobbyData
  <2>2. QED
    BY <1>2, <1>3, <1>8, <2>1 DEF on_lobby_tags, Member, Host, Malformed, Scripted
<1>9. QED
  BY <1>4, <1>5, <1>6, <1>7, <1>8 DEF Settings

\* The rest of the commands change at most a ready flag and the subscriptions.
LEMMA TalkingStep ==
  ASSUME DataInv, ListInv, NEW p \in PeerId, Talking(p)
  PROVE  DataInv' /\ ListInv' /\ UNCHANGED <<conn, run_vars>>
<1>1. p \in DOMAIN peers /\ UNCHANGED <<conn, run_vars>>
  BY HandledPeer DEF Talking, on_lobby_ready, on_lobby_unready, on_chat_lobby, on_lobby_call,
     on_user_data, on_list_lobby, on_stop_list_lobby, Member
<1>2. ListInv'
  <2>1. CASE UNCHANGED listing
    BY <2>1 DEF ListInv, listing
  <2>2. CASE on_list_lobby(p)
    BY <2>1, <2>2 DEF on_list_lobby, ListInv, Put
  <2>3. CASE on_stop_list_lobby(p)
    BY <2>3 DEF on_stop_list_lobby, ListInv, Drop, Restrict
  <2>4. QED
    BY <2>1, <2>2, <2>3 DEF Talking, on_lobby_ready, on_lobby_unready, on_chat_lobby,
       on_lobby_call, on_user_data, Member
<1>3. CASE \E errors : Refuse(p, errors)
  BY <1>1, <1>2, <1>3, RefuseData
<1>4. CASE UNCHANGED <<data, fabricated>>
  BY <1>1, <1>2, <1>4 DEF data, DataInv, SeatsExist, InLobby, LobbyOf
<1>5. CASE \E ready \in BOOLEAN : set_lobby_ready(p, ready)
  <2>1. PICK ready \in BOOLEAN : set_lobby_ready(p, ready)
    BY <1>5
  <2>2. /\ DOMAIN peers' = DOMAIN peers
        /\ peers' \in [DOMAIN peers -> PeerData]
        /\ \A q \in DOMAIN peers : peers'[q].lobby_id = peers[q].lobby_id
    BY <2>1 DEF set_lobby_ready, DataInv, PeerData
  <2>3. UNCHANGED <<lobbies, peer_ordered_ids, lobbies_updated, fabricated>>
    BY <2>1 DEF set_lobby_ready
  <2>4. QED
    BY <1>1, <1>2, <2>2, <2>3 DEF DataInv, SeatsExist, InLobby, LobbyOf
<1>6. DataInv'
  <2>1. CASE on_lobby_ready(p) \/ on_lobby_unready(p)
    BY <1>3, <1>5, <2>1 DEF on_lobby_ready, on_lobby_unready, Member, Scripted
  <2>2. CASE on_chat_lobby(p)
    BY <1>3, <1>4, <2>2 DEF on_chat_lobby, Member, Malformed
  <2>3. CASE on_lobby_call(p)
    BY <1>3, <2>3 DEF on_lobby_call, Member
  <2>4. CASE on_user_data(p)
    BY <1>3, <1>4, <2>4 DEF on_user_data, Malformed
  <2>5. CASE on_list_lobby(p) \/ on_stop_list_lobby(p)
    BY <1>3, <2>5 DEF on_list_lobby, on_stop_list_lobby
  <2>6. QED
    BY <2>1, <2>2, <2>3, <2>4, <2>5 DEF Talking
<1>7. QED
  BY <1>1, <1>2, <1>6

-----------------------------------------------------------------------------
(* The events of the sockets, the sweep and the clock *)

\* The events of the sockets (on_connect, on_close, a rejected message) seat nobody
\* and turn nobody out.
LEMMA ConnectionStep ==
  ASSUME Inv, NEW p \in PeerId, Connection(p)
  PROVE  Inv'
<1>1. CASE on_connect(p)
  <2>1. /\ DOMAIN peers' \subseteq PeerId
        /\ peers' \in [DOMAIN peers' -> PeerData]
        /\ \A q \in DOMAIN peers' : peers'[q].lobby_id # NoLobby =>
             q \in DOMAIN peers /\ peers'[q] = peers[q]
    BY <1>1 DEF on_connect, Put, NewPeer, PeerData, Inv, DataInv
  <2>2. DataInv'
    BY <1>1, <2>1 DEF on_connect, Inv, DataInv, SeatsExist, InLobby, LobbyOf
  <2>3. ConnInv' /\ UNCHANGED <<listing, run_vars>>
    BY <1>1 DEF on_connect, Reconnected, Drop, Restrict, Inv, ConnInv
  <2>4. QED
    BY <2>2, <2>3 DEF Inv, ListInv, RunInv, listing, run_vars
<1>2. CASE on_close(p)
  <2>1. /\ DOMAIN peers' = DOMAIN peers
        /\ peers' \in [DOMAIN peers -> PeerData]
        /\ \A q \in DOMAIN peers : peers'[q].lobby_id = peers[q].lobby_id
    <3>1. CASE p \in DOMAIN peers
      <4>1. peers' = [peers EXCEPT ![p].ready = FALSE, ![p].disconnected = TRUE]
        BY <1>2, <3>1 DEF on_close
      <4>2. QED
        BY <3>1, <4>1 DEF PeerData, Inv, DataInv
    <3>2. CASE p \notin DOMAIN peers
      BY <1>2, <3>2 DEF on_close, Inv, DataInv
    <3>3. QED
      BY <3>1, <3>2
  <2>2. DataInv'
    BY <1>2, <2>1 DEF on_close, Inv, DataInv, SeatsExist, InLobby, LobbyOf
  <2>3. ConnInv'
    BY <1>2, BoundAssumption DEF on_close, Put, Inv, ConnInv
  <2>4. ListInv' /\ UNCHANGED run_vars
    BY <1>2 DEF on_close, Drop, Restrict, Inv, ListInv
  <2>5. QED
    BY <2>2, <2>3, <2>4 DEF Inv, RunInv, run_vars
<1>3. CASE on_rejected_message(p)
  BY <1>3 DEF on_rejected_message, data, listing, conn, run_vars, Inv, DataInv, SeatsExist, InLobby,
     LobbyOf, ConnInv, RunInv, ListInv
<1>4. QED
  BY <1>1, <1>2, <1>3 DEF Connection

\* The next peer a sweep visits is one of those it has still to visit.
LEMMA VisitedPeer ==
  ASSUME Inv, sweep.todo # {}
  PROVE  Min(sweep.todo) \in sweep.todo /\ Min(sweep.todo) \in PeerId
<1>1. sweep.todo \subseteq PeerId
  BY DEF Inv, RunInv
<1>2. QED
  BY <1>1, MinInSet, IdAssumption

\* The interval between two sweeps, max_reconnection_time / 10, is a natural number.
LEMMA IntervalType == DisconnectInterval \in Nat
BY BoundAssumption DEF DisconnectInterval

\* Every step of handle_disconnects keeps the seats: the peers it forgets at its end
\* take no lobby with them, and those it turns out leave by remove_peer_from_lobby.
LEMMA SweepStep ==
  ASSUME Inv, handle_disconnects
  PROVE  Inv'
<1>1. CASE handle_disconnects_begin
  <2>1. RunInv'
    BY <1>1, IntervalType DEF handle_disconnects_begin, Inv, ConnInv, RunInv
  <2>2. UNCHANGED <<data, listing, conn, fabricated>>
    BY <1>1 DEF handle_disconnects_begin
  <2>3. QED
    BY <2>1, <2>2 DEF data, listing, conn, Inv, DataInv, SeatsExist, InLobby, LobbyOf, ConnInv,
       ListInv
<1>2. CASE handle_disconnects_visit
  <2> DEFINE p == Min(sweep.todo)
             seated == p \in DOMAIN peers /\ peers[p].lobby_id \in DOMAIN lobbies
  <2>1. p \in PeerId
    BY <1>2, VisitedPeer DEF handle_disconnects_visit
  <2>2. RunInv' /\ UNCHANGED <<listing, conn>>
    <3>1. /\ sweep' = [sweep EXCEPT !.todo = @ \ {p},
                         !.to_erase = IF ~seated \/ Expired(p) THEN @ \cup {p} ELSE @]
          /\ UNCHANGED <<listing, conn, since_disconnect>>
      BY <1>2 DEF handle_disconnects_visit
    <3> HIDE DEF p, seated
    <3>2. QED
      BY <2>1, <3>1 DEF Inv, RunInv
  <2>3. CASE seated /\ Expired(p)
    <3>1. remove_peer_from_lobby(peers[p].lobby_id, p, NoPeer, TRUE)
      BY <1>2, <2>3 DEF handle_disconnects_visit
    <3>2. peers[p].lobby_id \in DOMAIN lobbies /\ p \in lobbies[peers[p].lobby_id].peer_ids
      BY <2>3, IdAssumption DEF Inv, DataInv, SeatsExist, InLobby, LobbyOf
    <3>3. DataInv'
      <4> HIDE DEF p
      <4> QED
        BY <3>1, <3>2, RemoveData DEF Inv
    <3>4. QED
      BY <2>2, <3>3 DEF Inv, ConnInv, ListInv, conn, listing
  <2>4. CASE ~(seated /\ Expired(p))
    <3>1. /\ peers' = [q \in DOMAIN peers |->
                         IF q = p /\ ~seated THEN leave_lobby(peers[q]) ELSE peers[q]]
          /\ UNCHANGED <<lobbies, peer_ordered_ids, lobbies_updated, fabricated>>
      BY <1>2, <2>4 DEF handle_disconnects_visit
    <3>2. /\ DOMAIN peers' = DOMAIN peers
          /\ peers' \in [DOMAIN peers -> PeerData]
          /\ \A q \in DOMAIN peers : peers'[q].lobby_id # NoLobby => peers'[q] = peers[q]
      <4> HIDE DEF p, seated
      <4> QED
        BY <3>1, LeaveLobbyType DEF Inv, DataInv
    <3>3. DataInv'
      <4> HIDE DEF p, seated
      <4> QED
        BY <3>1, <3>2 DEF Inv, DataInv, SeatsExist, InLobby, LobbyOf
    <3>4. QED
      BY <2>2, <3>3 DEF Inv, ConnInv, ListInv, conn, listing
  <2>5. QED
    BY <2>3, <2>4
<1>3. CASE handle_disconnects_end
  <2>1. DataInv'
    BY <1>3 DEF handle_disconnects_end, Drop, Restrict, Inv, DataInv, SeatsExist, InLobby, LobbyOf
  <2>2. ConnInv' /\ ListInv'
    BY <1>3 DEF handle_disconnects_end, Drop, Restrict, Inv, ConnInv, ListInv
  <2>3. RunInv'
    BY <1>3 DEF handle_disconnects_end, NoSweep, Inv, RunInv
  <2>4. QED
    BY <2>1, <2>2, <2>3 DEF Inv
<1>4. QED
  BY <1>1, <1>2, <1>3 DEF handle_disconnects

\* An age that saturates just above its limit stays within its type.
LEMMA LaterType ==
  ASSUME NEW limit \in Nat, NEW age \in 0..(limit + 1)
  PROVE  Later(age, limit) \in 0..(limit + 1)
BY DEF Later

\* The clock (time_run) changes nothing but ages, which stay within their types.
LEMMA ClockStep ==
  ASSUME Inv, time_run
  PROVE  Inv'
<1>1. since_disconnect' \in 0..(DisconnectInterval + 1)
  BY IntervalType, LaterType DEF time_run, Inv, RunInv
<1>2. ConnInv'
  BY BoundAssumption, LaterType DEF time_run, Inv, ConnInv
<1>3. QED
  BY <1>1, <1>2 DEF time_run, data, listing, Inv, DataInv, SeatsExist, InLobby, LobbyOf, RunInv,
     ListInv

\* A report to the subscribers (handle_lobby_list) leaves peers and lobbies alone.
LEMMA ListStep ==
  ASSUME Inv, handle_lobby_list
  PROVE  Inv'
BY DEF handle_lobby_list, conn, run_vars, Inv, DataInv, SeatsExist, InLobby, LobbyOf, ConnInv,
   RunInv, ListInv

-----------------------------------------------------------------------------
(* The inductive invariant and what follows from it *)

\* The inductive invariant holds of the empty game.
LEMMA InitInv == Init => Inv
<1>1. SUFFICES ASSUME Init PROVE Inv
  OBVIOUS
<1>2. DataInv
  <2>1. peers = <<>> /\ lobbies = <<>> /\ peer_ordered_ids = <<>>
    BY <1>1 DEF Init
  <2>2. \A S : <<>> \in [DOMAIN <<>> -> S]
    OBVIOUS
  <2>3. DOMAIN <<>> = {}
    OBVIOUS
  <2>4. lobbies_updated = {} /\ fabricated = FALSE
    BY <1>1 DEF Init
  <2>5. QED
    BY <2>1, <2>2, <2>3, <2>4 DEF DataInv, SeatsExist
<1>3. ConnInv
  BY <1>1 DEF Init, ConnInv
<1>4. RunInv
  BY <1>1, IntervalType DEF Init, RunInv, NoSweep
<1>5. ListInv
  BY <1>1 DEF Init, ListInv
<1>6. QED
  BY <1>2, <1>3, <1>4, <1>5 DEF Inv

\* Every step of GameThread::run and of the clock preserves the inductive invariant.
LEMMA NextInv == Inv /\ [Next]_vars => Inv'
<1>1. SUFFICES ASSUME Inv, [Next]_vars PROVE Inv'
  OBVIOUS
<1>2. ASSUME NEW p \in PeerId, Connection(p) PROVE Inv'
  BY <1>1, <1>2, ConnectionStep
<1>3. ASSUME NEW p \in PeerId, Seating(p) \/ Settings(p) PROVE Inv'
  <2>1. DataInv' /\ UNCHANGED <<conn, run_vars, listing>>
    BY <1>1, <1>3, SeatingStep, SettingsStep DEF Inv
  <2>2. QED
    BY <1>1, <2>1 DEF Inv, ConnInv, RunInv, ListInv, conn, run_vars, listing
<1>4. ASSUME NEW p \in PeerId, Talking(p) PROVE Inv'
  <2>1. DataInv' /\ ListInv' /\ UNCHANGED <<conn, run_vars>>
    BY <1>1, <1>4, TalkingStep DEF Inv
  <2>2. QED
    BY <1>1, <2>1 DEF Inv, ConnInv, RunInv, conn, run_vars
<1>5. CASE handle_disconnects
  BY <1>1, <1>5, SweepStep
<1>6. CASE handle_lobby_list
  BY <1>1, <1>6, ListStep
<1>7. CASE time_run
  BY <1>1, <1>7, ClockStep
<1>8. CASE UNCHANGED vars
  BY <1>1, <1>8 DEF vars, data, listing, conn, run_vars, Inv, DataInv, SeatsExist, InLobby, LobbyOf,
     ConnInv, RunInv, ListInv
<1>9. QED
  BY <1>1, <1>2, <1>3, <1>4, <1>5, <1>6, <1>7, <1>8 DEF Next, handle_events

\* TypeOK holds in every game: the containers of GameData keep their types through
\* every handler, sweep and tick of the clock.
THEOREM TypeCorrect == Spec => []TypeOK
<1>1. Inv => TypeOK
  BY DEF Inv, DataInv, ConnInv, RunInv, ListInv, TypeOK
<1>2. QED
  BY <1>1, InitInv, NextInv, PTL DEF Spec

\* SeatsExist holds in every game, relay games and disbanding lobbies included: a
\* peer's lobby_id always names a lobby that lists it.
THEOREM SeatsAlwaysExist == Spec => []SeatsExist
<1>1. Inv => SeatsExist
  BY DEF Inv, DataInv
<1>2. QED
  BY <1>1, InitInv, NextInv, PTL DEF Spec

-----------------------------------------------------------------------------
(* Connected peers are kept *)

\* What ties the sockets to the records and to the sweep: a peer with a socket is known
\* and not disconnected, a sweep looks at disconnected peers only, and holds none between
\* two runs.
KeepInv ==
  /\ sockets \subseteq DOMAIN peers
  /\ sockets \cap DOMAIN disconnected_peers = {}
  /\ sweep.todo \cup sweep.to_erase \subseteq DOMAIN disconnected_peers
  /\ ~sweep.active => sweep.todo = {} /\ sweep.to_erase = {}

\* The helpers of the commands insert no record and erase none.
LEMMA HelperPeers ==
  /\ \A p, errors : Refuse(p, errors) => DOMAIN peers' = DOMAIN peers
  /\ \A p, lobby, type : SetLobby(p, lobby, type) => DOMAIN peers' = DOMAIN peers
  /\ \A p, before, pw, tags : CreateLobby(p, before, pw, tags) => DOMAIN peers' = DOMAIN peers
  /\ \A p, l, pw, before : JoinLobby(p, l, pw, before) => DOMAIN peers' = DOMAIN peers
  /\ \A l, p, by, kicked : remove_peer_from_lobby(l, p, by, kicked) => DOMAIN peers' = DOMAIN peers
  /\ \A p, ready : set_lobby_ready(p, ready) => DOMAIN peers' = DOMAIN peers
<1>1. \A p, errors : Refuse(p, errors) => DOMAIN peers' = DOMAIN peers
  BY DEF Refuse, data
<1>2. \A p, lobby, type : SetLobby(p, lobby, type) => DOMAIN peers' = DOMAIN peers
  BY DEF SetLobby
<1>3. \A p, before, pw, tags : CreateLobby(p, before, pw, tags) => DOMAIN peers' = DOMAIN peers
  <2>1. ASSUME NEW p, NEW before, NEW pw, NEW tags, CreateLobby(p, before, pw, tags)
        PROVE  DOMAIN peers' = DOMAIN peers
    <3>1. CASE \E errors : Refuse(p, errors)
      BY <1>1, <3>1
    <3>2. CASE peers' = [peers EXCEPT ![p] = leave_lobby(@)]
      BY <3>2
    <3>3. CASE \E l : peers' = [peers EXCEPT ![p].lobby_id = l, ![p].disconnected = FALSE]
      BY <3>3
    <3>4. QED
      BY <2>1, <3>1, <3>2, <3>3 DEF CreateLobby
  <2>2. QED
    BY <2>1
<1>4. \A p, l, pw, before : JoinLobby(p, l, pw, before) => DOMAIN peers' = DOMAIN peers
  BY DEF JoinLobby, Rejoin, Enter
<1>5. \A l, p, by, kicked : remove_peer_from_lobby(l, p, by, kicked) => DOMAIN peers' = DOMAIN peers
  BY DEF remove_peer_from_lobby
<1>6. \A p, ready : set_lobby_ready(p, ready) => DOMAIN peers' = DOMAIN peers
  BY DEF set_lobby_ready
<1>7. QED
  BY <1>1, <1>2, <1>3, <1>4, <1>5, <1>6

\* No command inserts or erases a record, so KeepInv is a matter of the other events.
LEMMA CommandPeers ==
  ASSUME NEW p, Seating(p) \/ Settings(p) \/ Talking(p)
  PROVE  DOMAIN peers' = DOMAIN peers /\ UNCHANGED <<conn, run_vars>>
<1>1. UNCHANGED <<conn, run_vars>>
  BY HandledPeer DEF Seating, Settings, Talking, on_create_lobby, on_join_lobby, on_quick_join,
     on_leave_lobby, on_kick_peer, on_seal_lobby, on_unseal_lobby, on_lobby_max_players,
     on_lobby_title, on_lobby_password, on_lobby_tags, on_lobby_ready, on_lobby_unready,
     on_chat_lobby, on_lobby_call, on_user_data, on_list_lobby, on_stop_list_lobby, Member
<1>2. CASE \E errors : Refuse(p, errors)
  BY <1>1, <1>2, HelperPeers
<1>3. CASE \E lobby, type : SetLobby(p, lobby, type)
  BY <1>1, <1>3, HelperPeers
<1>4. CASE \E before, pw, tags : CreateLobby(p, before, pw, tags)
  BY <1>1, <1>4, HelperPeers
<1>5. CASE \E l, pw, before : JoinLobby(p, l, pw, before)
  BY <1>1, <1>5, HelperPeers
<1>6. CASE \E l, q, kicked : remove_peer_from_lobby(l, q, p, kicked)
  BY <1>1, <1>6, HelperPeers
<1>7. CASE \E ready : set_lobby_ready(p, ready)
  BY <1>1, <1>7, HelperPeers
<1>8. CASE UNCHANGED data
  BY <1>1, <1>8 DEF data
<1>9. CASE Seating(p)
  <2>1. CASE on_create_lobby(p)
    BY <1>2, <1>4, <2>1 DEF on_create_lobby
  <2>2. CASE on_join_lobby(p)
    BY <1>2, <1>5, <2>2 DEF on_join_lobby
  <2>3. CASE on_quick_join(p)
    <3>1. \/ \E l, pw, before : JoinLobby(p, l, pw, before)
          \/ \E pw, tags, before : QuickJoin(p, pw, tags, before)
      BY <2>3 DEF on_quick_join
    <3>2. ASSUME NEW pw, NEW tags, NEW before, QuickJoin(p, pw, tags, before)
          PROVE  \/ \E errors : Refuse(p, errors)
                 \/ UNCHANGED data
                 \/ \E c, errors : JoinLobby(p, c, pw, errors)
                 \/ \E errors : CreateLobby(p, errors, pw, tags)
      BY <3>2, Zenon DEF QuickJoin
    <3>3. QED
      BY <1>2, <1>4, <1>5, <1>8, <3>1, <3>2
  <2>4. CASE on_leave_lobby(p)
    BY <1>2, <1>6, <2>4 DEF on_leave_lobby
  <2>5. CASE on_kick_peer(p)
    BY <1>2, <1>6, <2>5 DEF on_kick_peer, Member, Host, Scripted
  <2>6. QED
    BY <1>9, <2>1, <2>2, <2>3, <2>4, <2>5 DEF Seating
<1>10. CASE Settings(p)
  <2>1. CASE on_seal_lobby(p) \/ on_unseal_lobby(p)
    BY <1>2, <1>3, <2>1 DEF on_seal_lobby, on_unseal_lobby, Member, Host, set_lobby_sealed, Scripted
  <2>2. CASE on_lobby_max_players(p) \/ on_lobby_title(p) \/ on_lobby_password(p)
    BY <1>2, <1>3, <2>2
    DEF on_lobby_max_players, on_lobby_title, on_lobby_password, Member, Scripted
  <2>3. CASE on_lobby_tags(p)
    BY <1>2, <1>3, <2>3 DEF on_lobby_tags, Member, Host, Malformed, Scripted
  <2>4. QED
    BY <1>10, <2>1, <2>2, <2>3 DEF Settings
<1>11. CASE Talking(p)
  <2>1. CASE on_lobby_ready(p) \/ on_lobby_unready(p)
    BY <1>2, <1>7, <2>1 DEF on_lobby_ready, on_lobby_unready, Member, Scripted
  <2>2. CASE on_chat_lobby(p) \/ on_user_data(p)
    BY <1>2, <1>8, <2>2 DEF on_chat_lobby, on_user_data, Member, Malformed
  <2>3. CASE on_lobby_call(p) \/ on_list_lobby(p) \/ on_stop_list_lobby(p)
    BY <1>2, <2>3 DEF on_lobby_call, on_list_lobby, on_stop_list_lobby, Member
  <2>4. QED
    BY <1>11, <2>1, <2>2, <2>3 DEF Talking
<1>12. QED
  BY <1>9, <1>10, <1>11

\* A socket that opens takes its peer out of disconnected_peers, one that closes puts it
\* in, and neither happens in the middle of a sweep.
LEMMA ConnectionKeeps ==
  ASSUME Inv, KeepInv, NEW p \in PeerId, Connection(p)
  PROVE  KeepInv'
<1>1. sweep' = sweep /\ ~sweep.active
  BY DEF Connection, on_connect, on_close, on_rejected_message, Idle, run_vars
<1>2. sweep.todo = {} /\ sweep.to_erase = {}
  BY <1>1 DEF KeepInv
<1>3. CASE on_connect(p)
  BY <1>1, <1>2, <1>3 DEF on_connect, Reconnected, Put, Drop, Restrict, KeepInv
<1>4. CASE on_close(p)
  <2>1. DOMAIN peers' = DOMAIN peers /\ sockets' = sockets \ {p}
    BY <1>4 DEF on_close
  <2>2. DOMAIN disconnected_peers' \subseteq DOMAIN disconnected_peers \cup {p}
    BY <1>4 DEF on_close, Put
  <2>3. QED
    BY <1>1, <1>2, <2>1, <2>2 DEF KeepInv
<1>5. CASE on_rejected_message(p)
  BY <1>5 DEF on_rejected_message, data, conn, run_vars, KeepInv
<1>6. QED
  BY <1>3, <1>4, <1>5 DEF Connection

\* A sweep forgets only peers that were disconnected when it began, and no socket opens
\* before it ends.
LEMMA SweepKeeps ==
  ASSUME Inv, KeepInv, handle_disconnects
  PROVE  KeepInv'
<1>1. CASE handle_disconnects_begin
  <2>1. sweep' = [active |-> TRUE, todo |-> DOMAIN disconnected_peers, to_erase |-> {}]
    BY <1>1 DEF handle_disconnects_begin
  <2>2. UNCHANGED <<peers, sockets, disconnected_peers>>
    BY <1>1 DEF handle_disconnects_begin, data, conn
  <2>3. QED
    BY <2>1, <2>2 DEF KeepInv
<1>2. CASE handle_disconnects_visit
  <2>1. Min(sweep.todo) \in sweep.todo
    BY <1>2, VisitedPeer DEF handle_disconnects_visit
  <2>2. /\ sweep'.active
        /\ sweep'.todo \cup sweep'.to_erase \subseteq sweep.todo \cup sweep.to_erase
    BY <1>2, <2>1 DEF handle_disconnects_visit, Inv, RunInv
  <2>3. DOMAIN peers' = DOMAIN peers
    BY <1>2, HelperPeers DEF handle_disconnects_visit
  <2>4. UNCHANGED <<sockets, disconnected_peers>>
    BY <1>2 DEF handle_disconnects_visit, conn
  <2>5. QED
    BY <2>2, <2>3, <2>4 DEF KeepInv
<1>3. CASE handle_disconnects_end
  BY <1>3 DEF handle_disconnects_end, NoSweep, Drop, Restrict, KeepInv
<1>4. QED
  BY <1>1, <1>2, <1>3 DEF handle_disconnects

\* Every step keeps the sockets, the records and the sweep in line.
LEMMA NextKeeps == Inv /\ KeepInv /\ [Next]_vars => KeepInv'
<1>1. SUFFICES ASSUME Inv, KeepInv, [Next]_vars PROVE KeepInv'
  OBVIOUS
<1>2. ASSUME NEW p \in PeerId, Connection(p) PROVE KeepInv'
  BY <1>1, <1>2, ConnectionKeeps
<1>3. ASSUME NEW p \in PeerId, Seating(p) \/ Settings(p) \/ Talking(p) PROVE KeepInv'
  BY <1>1, <1>3, CommandPeers DEF KeepInv, conn, run_vars
<1>4. CASE handle_disconnects
  BY <1>1, <1>4, SweepKeeps
<1>5. CASE handle_lobby_list
  BY <1>1, <1>5 DEF handle_lobby_list, conn, run_vars, KeepInv
<1>6. CASE time_run
  BY <1>1, <1>6 DEF time_run, data, KeepInv
<1>7. CASE UNCHANGED vars
  BY <1>1, <1>7 DEF vars, data, conn, run_vars, KeepInv
<1>8. QED
  BY <1>1, <1>2, <1>3, <1>4, <1>5, <1>6, <1>7 DEF Next, handle_events

\* ConnectedKept holds in every game: handle_disconnects never forgets a peer whose
\* socket is open, however closes, returns, kicks and sweeps interleave.
THEOREM ConnectedAlwaysKept == Spec => []ConnectedKept
<1>1. Init => KeepInv
  BY DEF Init, NoSweep, KeepInv
<1>2. KeepInv => ConnectedKept
  BY DEF KeepInv, ConnectedKept
<1>3. QED
  BY <1>1, <1>2, InitInv, NextInv, NextKeeps, PTL DEF Spec

-----------------------------------------------------------------------------
(* No lobby is overfull *)

\* A lobby with members within its size, which handlers compare with their number as unsigned
\* numbers.  Joining skips the check where the size is 0.  What makes this harmless is that no
\* lobby ever has this size: on_create_lobby wants at least 1, and on_lobby_max_players room
\* for the members, of which the one that asks is one (SeatsExist).
HasRoom(lobby) ==
  /\ IsFiniteSet(lobby.peer_ids)
  /\ lobby.max_players # 0
  /\ Cardinality(lobby.peer_ids) <= Unsigned(lobby.max_players)

RoomInv == \A l \in DOMAIN lobbies : HasRoom(lobbies[l])

\* Lobbies that stay as they are, or end, leave no other without room.
LEMMA SameRoom ==
  ASSUME RoomInv, DOMAIN lobbies' \subseteq DOMAIN lobbies,
         \A l \in DOMAIN lobbies' : lobbies'[l] = lobbies[l]
  PROVE  RoomInv'
BY DEF RoomInv, HasRoom, Unsigned

\* Sizes are compared as natural numbers; a size a client may ask for is itself.
LEMMA UnsignedFacts ==
  /\ \A m \in Int : Unsigned(m) \in Nat
  /\ \A m \in MaxPlayersInput : m >= 0 => Unsigned(m) = m
BY BoundAssumption, InputAssumption DEF Unsigned

\* A change of a setting (SetLobby) that leaves room leaves it everywhere.
LEMMA SetLobbyRoom ==
  ASSUME DataInv, RoomInv, NEW p \in DOMAIN peers, InLobby(p), NEW lobby, HasRoom(lobby),
         NEW type, SetLobby(p, lobby, type)
  PROVE  RoomInv'
<1>1. lobbies' = [lobbies EXCEPT ![peers[p].lobby_id] = lobby]
  BY DEF SetLobby
<1>2. \A l \in DOMAIN lobbies' : lobbies'[l] = lobby \/ lobbies'[l] = lobbies[l]
  BY <1>1
<1>3. QED
  BY <1>1, <1>2 DEF RoomInv, HasRoom, Unsigned

\* A new lobby has a size of at least 1 and one member.
LEMMA CreateLobbyRoom ==
  ASSUME RoomInv, NEW p, NEW before, NEW pw, NEW tags, CreateLobby(p, before, pw, tags)
  PROVE  RoomInv'
<1>1. CASE UNCHANGED lobbies
  BY <1>1, SameRoom
<1>2. CASE \E m \in MaxPlayersInput : \E s, name, l :
             m >= 1 /\ lobbies' = Put(lobbies, l, NewLobby(p, m, pw, s, name, tags))
  <2>1. PICK m \in MaxPlayersInput : \E s, name, l :
          m >= 1 /\ lobbies' = Put(lobbies, l, NewLobby(p, m, pw, s, name, tags))
    BY <1>2
  <2>2. PICK s, name, l : m >= 1 /\ lobbies' = Put(lobbies, l, NewLobby(p, m, pw, s, name, tags))
    BY <2>1
  <2>3. Unsigned(m) = m /\ m >= 1 /\ m \in Int
    BY <2>1, UnsignedFacts, InputAssumption
  <2>4. IsFiniteSet({p}) /\ Cardinality({p}) = 1
    BY FS_Singleton
  <2> DEFINE new == NewLobby(p, m, pw, s, name, tags)
  <2>5. new.peer_ids = {p} /\ new.max_players = m
    BY DEF NewLobby
  <2>6. HasRoom(new)
    BY <2>3, <2>4, <2>5 DEF HasRoom
  <2>7. lobbies' = Put(lobbies, l, new)
    BY <2>2
  <2> HIDE DEF new
  <2>8. \A k \in DOMAIN lobbies' :
          lobbies'[k] = new \/ (k \in DOMAIN lobbies /\ lobbies'[k] = lobbies[k])
    BY <2>7 DEF Put
  <2>9. QED
    BY <2>6, <2>8 DEF RoomInv, HasRoom, Unsigned
<1>3. QED
  BY <1>1, <1>2 DEF CreateLobby, Refuse, data

\* A lobby is entered only where one more fits.
LEMMA JoinLobbyRoom ==
  ASSUME DataInv, RoomInv, NEW p \in DOMAIN peers, NEW l, NEW pw, NEW before,
         JoinLobby(p, l, pw, before)
  PROVE  RoomInv'
<1>1. CASE Rejoin(p, before)
  BY <1>1, SameRoom DEF Rejoin
<1>2. CASE Enter(p, l, before)
  <2>1. ~Reconnecting(p)
    BY <1>2 DEF Enter
  <2>2. l \in DOMAIN lobbies /\ ~IsFull(lobbies[l])
    BY <2>1 DEF JoinLobby, MayJoin, JoinErrors, JoinTarget
  <2>3. lobbies[l] \in LobbyData /\ HasRoom(lobbies[l])
    BY <2>2 DEF DataInv, RoomInv
  <2> DEFINE S == lobbies[l].peer_ids
             m == lobbies[l].max_players
  <2>4. IsFiniteSet(S) /\ Cardinality(S) \in Nat /\ m \in Int /\ m # 0
    BY <2>3, FS_CardinalityType DEF HasRoom, LobbyData
  <2>5. Cardinality(S) < Unsigned(m)
    BY <2>2, <2>4, UnsignedFacts DEF IsFull
  <2>6. IsFiniteSet(S \cup {p}) /\ Cardinality(S \cup {p}) <= Cardinality(S) + 1
    <3>1. CASE p \in S
      <4>1. S \cup {p} = S
        BY <3>1
      <4>2. Cardinality(S \cup {p}) = Cardinality(S) /\ IsFiniteSet(S \cup {p})
        BY <2>4, <4>1
      <4> HIDE DEF S
      <4>3. QED
        BY <2>4, <4>2
    <3>2. CASE p \notin S
      BY <2>4, <3>2, FS_AddElement
    <3>3. QED
      BY <3>1, <3>2
  <2>7. Cardinality(S \cup {p}) \in Nat
    BY <2>6, FS_CardinalityType
  <2>8. Cardinality(S \cup {p}) <= Unsigned(m)
    BY <2>4, <2>5, <2>6, <2>7, UnsignedFacts
  <2>9. /\ DOMAIN lobbies' = DOMAIN lobbies
        /\ lobbies'[l].peer_ids = S \cup {p}
        /\ lobbies'[l].max_players = m
        /\ \A k \in DOMAIN lobbies : k # l => lobbies'[k] = lobbies[k]
    BY <1>2, <2>2, <2>3 DEF Enter, LobbyData
  <2> HIDE DEF S, m
  <2>10. ASSUME NEW k \in DOMAIN lobbies' PROVE HasRoom(lobbies'[k])
    <3>1. CASE k = l
      BY <2>4, <2>6, <2>8, <2>9, <3>1 DEF HasRoom
    <3>2. CASE k # l
      BY <2>9, <2>10, <3>2 DEF RoomInv
    <3>3. QED
      BY <3>1, <3>2
  <2>11. QED
    BY <2>10 DEF RoomInv, HasRoom, Unsigned
<1>3. QED
  BY <1>1, <1>2 DEF JoinLobby

\* Whoever leaves, is kicked or stays away makes room, and does not change the size.
LEMMA RemoveRoom ==
  ASSUME DataInv, RoomInv, NEW l, NEW p, NEW by, NEW kicked,
         remove_peer_from_lobby(l, p, by, kicked)
  PROVE  RoomInv'
<1>1. CASE lobbies' = Drop(lobbies, {l})
  BY <1>1, SameRoom DEF Drop, Restrict
<1>2. CASE \E h : lobbies' = [lobbies EXCEPT ![l].host = h, ![l].peer_ids = @ \ {p}]
  <2>1. PICK h : lobbies' = [lobbies EXCEPT ![l].host = h, ![l].peer_ids = @ \ {p}]
    BY <1>2
  <2>2. DOMAIN lobbies' = DOMAIN lobbies
    BY <2>1
  <2>3. ASSUME NEW k \in DOMAIN lobbies PROVE HasRoom(lobbies'[k])
    <3>1. CASE k # l
      BY <2>1, <2>3, <3>1 DEF RoomInv
    <3>2. CASE k = l
      <4> DEFINE S == lobbies[l].peer_ids
                 m == lobbies[l].max_players
      <4>1. lobbies[l] \in LobbyData /\ HasRoom(lobbies[l])
        BY <2>3, <3>2 DEF DataInv, RoomInv
      <4>2. lobbies'[l].peer_ids = S \ {p} /\ lobbies'[l].max_players = m
        BY <2>1, <2>3, <3>2, <4>1 DEF LobbyData
      <4>3. IsFiniteSet(S \ {p}) /\ Cardinality(S \ {p}) <= Cardinality(S)
        BY <4>1, FS_Subset DEF HasRoom
      <4>4. Cardinality(S) \in Nat /\ Cardinality(S \ {p}) \in Nat /\ Unsigned(m) \in Nat
        BY <4>1, <4>3, FS_CardinalityType, UnsignedFacts DEF HasRoom, LobbyData
      <4>5. Cardinality(S) <= Unsigned(m) /\ m # 0
        BY <4>1 DEF HasRoom
      <4> HIDE DEF S, m
      <4>6. QED
        BY <3>2, <4>2, <4>3, <4>4, <4>5 DEF HasRoom
    <3>3. QED
      BY <3>1, <3>2
  <2>4. QED
    BY <2>2, <2>3 DEF RoomInv, HasRoom, Unsigned
<1>3. QED
  BY <1>1, <1>2 DEF remove_peer_from_lobby

\* The commands that seat peers and turn them out.
LEMMA SeatingRoom ==
  ASSUME DataInv, RoomInv, NEW p, Seating(p)
  PROVE  RoomInv'
<1>1. p \in DOMAIN peers
  BY HandledPeer DEF Seating, on_create_lobby, on_join_lobby, on_quick_join, on_leave_lobby,
     on_kick_peer, Member
<1>2. CASE UNCHANGED lobbies
  BY <1>2, SameRoom
<1>3. CASE \E errors : Refuse(p, errors)
  BY <1>2, <1>3 DEF Refuse, data
<1>4. CASE \E before, pw, tags : CreateLobby(p, before, pw, tags)
  BY <1>4, CreateLobbyRoom
<1>5. CASE \E l, pw, before : JoinLobby(p, l, pw, before)
  BY <1>1, <1>5, JoinLobbyRoom
<1>6. CASE \E l, q, kicked : remove_peer_from_lobby(l, q, p, kicked)
  BY <1>6, RemoveRoom
<1>7. CASE on_create_lobby(p)
  BY <1>3, <1>4, <1>7 DEF on_create_lobby
<1>8. CASE on_join_lobby(p)
  BY <1>3, <1>5, <1>8 DEF on_join_lobby
<1>9. CASE on_quick_join(p)
  <2>1. \/ \E l, pw, before : JoinLobby(p, l, pw, before)
        \/ \E pw, tags, before : QuickJoin(p, pw, tags, before)
    BY <1>9 DEF on_quick_join
  <2>2. ASSUME NEW pw, NEW tags, NEW before, QuickJoin(p, pw, tags, before)
        PROVE  \/ \E errors : Refuse(p, errors)
               \/ UNCHANGED data
               \/ \E c, errors : JoinLobby(p, c, pw, errors)
               \/ \E errors : CreateLobby(p, errors, pw, tags)
    BY <2>2, Zenon DEF QuickJoin
  <2>3. QED
    BY <1>2, <1>3, <1>4, <1>5, <2>1, <2>2 DEF data
<1>10. CASE on_leave_lobby(p)
  BY <1>3, <1>6, <1>10 DEF on_leave_lobby
<1>11. CASE on_kick_peer(p)
  BY <1>3, <1>6, <1>11 DEF on_kick_peer, Member, Host, Scripted
<1>12. QED
  BY <1>7, <1>8, <1>9, <1>10, <1>11 DEF Seating

\* Of the settings only the size matters, and on_lobby_max_players wants room for all.
LEMMA SettingsRoom ==
  ASSUME DataInv, RoomInv, NEW p, Settings(p)
  PROVE  RoomInv'
<1>1. p \in DOMAIN peers
  BY HandledPeer DEF Settings, on_seal_lobby, on_unseal_lobby, on_lobby_max_players,
     on_lobby_title, on_lobby_password, on_lobby_tags, Member
<1>2. CASE \E errors : Refuse(p, errors)
  BY <1>2, SameRoom DEF Refuse, data
<1>3. CASE InLobby(p) /\ \E lobby, type : HasRoom(lobby) /\ SetLobby(p, lobby, type)
  BY <1>1, <1>3, SetLobbyRoom
<1>4. ASSUME InLobby(p)
      PROVE  LobbyOf(p) \in LobbyData /\ HasRoom(LobbyOf(p)) /\ p \in LobbyOf(p).peer_ids
  BY <1>1, <1>4, SeatFacts DEF RoomInv, LobbyOf, DataInv, SeatsExist
<1>5. CASE on_seal_lobby(p) \/ on_unseal_lobby(p)
  <2>1. ASSUME InLobby(p), NEW sealed PROVE HasRoom([LobbyOf(p) EXCEPT !.sealed = sealed])
    BY <1>4, <2>1 DEF HasRoom, LobbyData
  <2>2. QED
    BY <1>2, <1>3, <1>5, <2>1
    DEF on_seal_lobby, on_unseal_lobby, Member, Host, set_lobby_sealed, Scripted
<1>6. CASE on_lobby_max_players(p)
  <2>1. ASSUME InLobby(p), NEW m \in MaxPlayersInput,
               ~(Unsigned(m) < Cardinality(LobbyOf(p).peer_ids))
        PROVE  HasRoom([LobbyOf(p) EXCEPT !.max_players = m])
    <3> DEFINE S == LobbyOf(p).peer_ids
    <3>1. IsFiniteSet(S) /\ p \in S
      BY <1>4, <2>1 DEF HasRoom
    <3>2. Cardinality(S) \in Nat /\ Cardinality(S) # 0
      BY <3>1, FS_CardinalityType, FS_EmptySet
    <3>3. Unsigned(m) \in Nat /\ (m = 0 => Unsigned(m) = 0)
      BY UnsignedFacts, InputAssumption
    <3>4. Cardinality(S) <= Unsigned(m) /\ m # 0
      BY <2>1, <3>2, <3>3
    <3>5. /\ [LobbyOf(p) EXCEPT !.max_players = m].peer_ids = S
          /\ [LobbyOf(p) EXCEPT !.max_players = m].max_players = m
      BY <1>4, <2>1 DEF LobbyData
    <3>6. QED
      BY <3>1, <3>4, <3>5 DEF HasRoom
  <2>2. QED
    BY <1>2, <1>3, <1>6, <2>1 DEF on_lobby_max_players, Member, Scripted
<1>7. CASE on_lobby_title(p)
  <2>1. ASSUME InLobby(p), NEW name PROVE HasRoom([LobbyOf(p) EXCEPT !.name = name])
    BY <1>4, <2>1 DEF HasRoom, LobbyData
  <2>2. QED
    BY <1>2, <1>3, <1>7, <2>1 DEF on_lobby_title, Member, Scripted
<1>8. CASE on_lobby_password(p)
  <2>1. ASSUME InLobby(p), NEW pw PROVE HasRoom([LobbyOf(p) EXCEPT !.password = pw])
    BY <1>4, <2>1 DEF HasRoom, LobbyData
  <2>2. QED
    BY <1>2, <1>3, <1>8, <2>1 DEF on_lobby_password, Member
<1>9. CASE on_lobby_tags(p)
  <2>1. ASSUME InLobby(p), NEW set, NEW null
        PROVE  HasRoom([LobbyOf(p) EXCEPT !.tags = (@ \cup set) \ null])
    BY <1>4, <2>1 DEF HasRoom, LobbyData
  <2>2. QED
    BY <1>2, <1>3, <1>9, <2>1 DEF on_lobby_tags, Member, Host, Malformed, Scripted
<1>10. QED
  BY <1>5, <1>6, <1>7, <1>8, <1>9 DEF Settings

\* All other steps leave the lobbies alone, or turn somebody out.
LEMMA NextRoom == Inv /\ RoomInv /\ [Next]_vars => RoomInv'
<1>1. SUFFICES ASSUME Inv, RoomInv, [Next]_vars PROVE RoomInv'
  OBVIOUS
<1>2. CASE UNCHANGED lobbies
  BY <1>1, <1>2, SameRoom
<1>3. ASSUME NEW p \in PeerId, Connection(p) PROVE UNCHANGED lobbies
  BY <1>3 DEF Connection, on_connect, on_close, on_rejected_message, data
<1>4. ASSUME NEW p \in PeerId, Seating(p) \/ Settings(p) PROVE RoomInv'
  BY <1>1, <1>4, SeatingRoom, SettingsRoom DEF Inv
<1>5. ASSUME NEW p \in PeerId, Talking(p) PROVE UNCHANGED lobbies
  <2>1. CASE \E errors : Refuse(p, errors)
    BY <2>1 DEF Refuse, data
  <2>2. CASE on_lobby_ready(p) \/ on_lobby_unready(p)
    BY <2>1, <2>2 DEF on_lobby_ready, on_lobby_unready, Member, Scripted, set_lobby_ready
  <2>3. CASE on_chat_lobby(p) \/ on_user_data(p)
    BY <2>1, <2>3 DEF on_chat_lobby, on_user_data, Member, Malformed, data
  <2>4. CASE on_lobby_call(p) \/ on_list_lobby(p) \/ on_stop_list_lobby(p)
    BY <2>1, <2>4 DEF on_lobby_call, on_list_lobby, on_stop_list_lobby, Member
  <2>5. QED
    BY <1>5, <2>2, <2>3, <2>4 DEF Talking
<1>6. CASE handle_disconnects
  <2>1. CASE \E l, p : remove_peer_from_lobby(l, p, NoPeer, TRUE)
    BY <1>1, <2>1, RemoveRoom DEF Inv
  <2>2. QED
    BY <1>2, <1>6, <2>1 DEF handle_disconnects, handle_disconnects_begin,
       handle_disconnects_visit, handle_disconnects_end, data
<1>7. CASE handle_lobby_list \/ time_run \/ UNCHANGED vars
  BY <1>2, <1>7 DEF handle_lobby_list, time_run, vars, data
<1>8. QED
  BY <1>1, <1>2, <1>3, <1>4, <1>5, <1>6, <1>7 DEF Next, handle_events

\* No command of a client, whatever a hook says of it, and no sweep leaves a lobby over its
\* size (WithinCapacity): joins, quick joins, returns, changes of the size (also to a negative
\* one, which is huge as size_t) and removals in any order. What functions of a script do is
\* no part of Spec: of games in which they are called, see ScriptsKeepCapacity.
THEOREM NeverOverfull == Spec => []WithinCapacity
<1>1. Init => RoomInv
  BY DEF Init, RoomInv
<1>2. RoomInv => WithinCapacity
  BY DEF RoomInv, HasRoom, WithinCapacity
<1>3. QED
  BY <1>1, <1>2, InitInv, NextInv, NextRoom, PTL DEF Spec

=============================================================================
