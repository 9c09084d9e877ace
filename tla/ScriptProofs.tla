---------------------------- MODULE ScriptProofs ----------------------------
(***************************************************************************)
(* Proofs about calls of the functions of a script (Scripts): the types of *)
(* a call and of what it queues, that members hear of the changes a script *)
(* makes (MembershipAnnounced), and that what it writes reaches the        *)
(* clients by the end of the call (DataShown).                             *)
(*                                                                         *)
(* Each argument needs the invariants of GameThread, which the functions   *)
(* of a script keep as well, although they take peers out of lobbies and   *)
(* appoint hosts that the commands of clients never would.                 *)
(***************************************************************************)
EXTENDS Scripts, ClientProofs

\* What every kind of game keeps
GameInv == Inv /\ KeepInv /\ SweptInv /\ FiniteLobbies

\* The members that a kick of stranger q turns out
TurnedOut(q) == IF Disbands(Lobby, q) THEN Lobby.peer_ids ELSE {}

-----------------------------------------------------------------------------
(* The game in a call *)

\* What the kick of a peer that is no member does to seats and lobbies.
LEMMA StrangerFacts ==
  ASSUME Inv, NEW q, kick_stranger(q)
  PROVE  /\ peers' \in [DOMAIN peers -> PeerData]
         /\ \A x \in DOMAIN peers :
              IF x \in TurnedOut(q) \cup {q} THEN peers'[x].lobby_id = NoLobby
              ELSE peers'[x] = peers[x]
         /\ IF Ends(Lobby, q)
            THEN /\ lobbies' = Drop(lobbies, {call.lobby})
                 /\ peer_ordered_ids' = Drop(peer_ordered_ids, {call.lobby})
                 /\ Lobby.peer_ids \subseteq TurnedOut(q)
            ELSE /\ lobbies' = [lobbies EXCEPT ![call.lobby].host =
                                  IF q = Lobby.host /\ ~Disbands(Lobby, q) THEN NewHost(Lobby, q)
                                  ELSE Lobby.host]
                 /\ UNCHANGED peer_ordered_ids
<1> DEFINE T == TurnedOut(q)
           left == [x \in DOMAIN peers |-> IF x \in T THEN leave_lobby(peers[x]) ELSE peers[x]]
<1>1. /\ peers' = [left EXCEPT ![q].lobby_id = NoLobby, ![q].ready = FALSE]
      /\ q \in DOMAIN peers /\ q \notin Lobby.peer_ids
  BY DEF kick_stranger, TurnedOut
<1> HIDE DEF T
<1>2. /\ left \in [DOMAIN peers -> PeerData]
      /\ \A x \in DOMAIN peers : IF x \in T THEN left[x].lobby_id = NoLobby ELSE left[x] = peers[x]
  BY LeaveLobbyType DEF Inv, DataInv
<1> HIDE DEF left
<1>3. \A d \in PeerData : LET e == [d EXCEPT !.lobby_id = NoLobby, !.ready = FALSE]
                          IN  e \in PeerData /\ e.lobby_id = NoLobby
  BY DEF PeerData
<1>4. peers' = [left EXCEPT ![q] = [left[q] EXCEPT !.lobby_id = NoLobby, !.ready = FALSE]]
  BY <1>1, <1>2 DEF PeerData
<1>5. /\ peers' \in [DOMAIN peers -> PeerData]
      /\ \A x \in DOMAIN peers :
           IF x \in T \cup {q} THEN peers'[x].lobby_id = NoLobby ELSE peers'[x] = peers[x]
  <2>1. PICK e \in PeerData : e.lobby_id = NoLobby /\ peers' = [left EXCEPT ![q] = e]
    BY <1>1, <1>2, <1>3, <1>4
  <2>2. QED
    BY <1>1, <1>2, <2>1
<1>6. Ends(Lobby, q) => Lobby.peer_ids \subseteq T
  BY <1>1 DEF Ends, T, TurnedOut, Disbands
<1>7. QED
  BY <1>5, <1>6 DEF kick_stranger, T

\* It keeps the records and the seats.
LEMMA StrangerData ==
  ASSUME Inv, NEW q, kick_stranger(q)
  PROVE  DataInv'
<1> DEFINE host == IF q = Lobby.host /\ ~Disbands(Lobby, q) THEN NewHost(Lobby, q)
                   ELSE Lobby.host
<1>1. /\ call.lobby \in DOMAIN lobbies /\ call.lobby \in LobbyId /\ Lobby \in LobbyData
      /\ Lobby.peer_ids \subseteq PeerId /\ q \notin Lobby.peer_ids
      /\ lobbies_updated' = lobbies_updated \cup {call.lobby}
      /\ fabricated' \in BOOLEAN
  BY DEF kick_stranger, Effect, Inv, DataInv, Lobby, LobbyData, Access
<1>2. /\ peers' \in [DOMAIN peers -> PeerData]
      /\ \A x \in DOMAIN peers :
           IF x \in TurnedOut(q) \cup {q} THEN peers'[x].lobby_id = NoLobby
           ELSE peers'[x] = peers[x]
  BY StrangerFacts
<1>3. CASE Ends(Lobby, q)
  <2>1. /\ lobbies' = Drop(lobbies, {call.lobby})
        /\ peer_ordered_ids' = Drop(peer_ordered_ids, {call.lobby})
        /\ Lobby.peer_ids \subseteq TurnedOut(q)
    BY <1>3, StrangerFacts
  <2>2. /\ DOMAIN lobbies' = DOMAIN lobbies \ {call.lobby}
        /\ \A k \in DOMAIN lobbies' : lobbies'[k] = lobbies[k]
        /\ DOMAIN peer_ordered_ids' = DOMAIN lobbies'
        /\ lobbies' \in [DOMAIN lobbies' -> LobbyData]
    BY <2>1 DEF Drop, Restrict, Inv, DataInv
  <2>3. SeatsExist'
    BY <1>2, <2>1, <2>2 DEF Inv, DataInv, SeatsExist, InLobby, LobbyOf, Lobby
  <2>4. QED
    BY <1>1, <1>2, <2>2, <2>3 DEF Inv, DataInv
<1>4. CASE ~Ends(Lobby, q)
  <2>1. lobbies' = [lobbies EXCEPT ![call.lobby].host = host] /\ UNCHANGED peer_ordered_ids
    BY <1>4, StrangerFacts
  <2>2. host \in PeerId \cup {NoPeer}
    <3>1. Min(Lobby.peer_ids \ {q}) \in Lobby.peer_ids \ {q}
      BY <1>1, <1>4, MinInSet, IdAssumption DEF Ends
    <3>2. QED
      BY <1>1, <3>1 DEF NewHost, LobbyData
  <2> HIDE DEF host
  <2>3. /\ DOMAIN lobbies' = DOMAIN lobbies
        /\ lobbies' \in [DOMAIN lobbies -> LobbyData]
        /\ \A k \in DOMAIN lobbies : lobbies'[k].peer_ids = lobbies[k].peer_ids
    BY <1>1, <2>1, <2>2 DEF Inv, DataInv, LobbyData
  <2>4. SeatsExist'
    BY <1>2, <2>3 DEF Inv, DataInv, SeatsExist, InLobby, LobbyOf
  <2>5. QED
    BY <1>1, <1>2, <2>1, <2>3, <2>4 DEF Inv, DataInv
<1>5. QED
  BY <1>3, <1>4

\* A step in which seats are only lost, and nothing but records and lobbies changes.
LEMMA KickedGame ==
  ASSUME GameInv, DataInv', UNCHANGED <<listing, conn, run_vars>>,
         DOMAIN peers' = DOMAIN peers,
         \A q \in DOMAIN peers : peers'[q].lobby_id \in {NoLobby, peers[q].lobby_id},
         DOMAIN lobbies' \subseteq DOMAIN lobbies
  PROVE  GameInv'
<1>1. Inv' /\ KeepInv'
  BY DEF GameInv, Inv, ConnInv, RunInv, ListInv, KeepInv, listing, conn, run_vars
<1>2. SweptInv'
  BY DEF GameInv, SweptInv, InLobby, run_vars
<1>3. FiniteLobbies'
  BY FS_Subset DEF GameInv, FiniteLobbies
<1>4. QED
  BY <1>1, <1>2, <1>3 DEF GameInv

\* A change of the record of a lobby, members apart.
LEMMA RewrittenGame ==
  ASSUME GameInv, NEW l \in DOMAIN lobbies, NEW lobby \in LobbyData,
         lobby.peer_ids = lobbies[l].peer_ids, lobbies' = [lobbies EXCEPT ![l] = lobby],
         UNCHANGED <<peers, peer_ordered_ids, lobbies_updated, fabricated, listing, conn, run_vars>>
  PROVE  GameInv'
<1>1. /\ DOMAIN lobbies' = DOMAIN lobbies
      /\ lobbies' \in [DOMAIN lobbies -> LobbyData]
      /\ \A k \in DOMAIN lobbies : lobbies'[k].peer_ids = lobbies[k].peer_ids
  BY DEF GameInv, Inv, DataInv
<1>2. DataInv'
  BY <1>1 DEF GameInv, Inv, DataInv, SeatsExist, InLobby, LobbyOf
<1>3. QED
  BY <1>1, <1>2, KickedGame

\* The settings a script may write, and the host, fit into the record of a lobby.
LEMMA SettingFacts ==
  ASSUME Inv, write_setting \/ \E q \in PeerId : set_lobby_host(q)
  PROVE  \E lobby \in LobbyData :
           /\ lobby.peer_ids = Lobby.peer_ids
           /\ write_setting => lobby.host = Lobby.host
           /\ lobbies' = [lobbies EXCEPT ![call.lobby] = lobby]
<1>1. call.lobby \in DOMAIN lobbies /\ Lobby \in LobbyData
  BY DEF write_setting, set_lobby_host, Effect, Lobby, Inv, DataInv
<1>2. ASSUME NEW d \in LobbyData
      PROVE  /\ LET e == [d EXCEPT !.sealed = ~@] IN
                e \in LobbyData /\ e.peer_ids = d.peer_ids /\ e.host = d.host
             /\ \A m \in MaxPlayersInput : LET e == [d EXCEPT !.max_players = m] IN
                e \in LobbyData /\ e.peer_ids = d.peer_ids /\ e.host = d.host
             /\ \A n \in Title : LET e == [d EXCEPT !.name = n] IN
                e \in LobbyData /\ e.peer_ids = d.peer_ids /\ e.host = d.host
             /\ \A t \in SUBSET Tag : LET e == [d EXCEPT !.tags = t] IN
                e \in LobbyData /\ e.peer_ids = d.peer_ids /\ e.host = d.host
             /\ \A q \in PeerId : LET e == [d EXCEPT !.host = q] IN
                e \in LobbyData /\ e.peer_ids = d.peer_ids
  BY InputAssumption DEF LobbyData
<1>3. CASE write_setting
  <2>1. PICK e \in {[Lobby EXCEPT !.sealed = ~@]}
                    \cup {[Lobby EXCEPT !.max_players = m] : m \in MaxPlayersInput}
                    \cup {[Lobby EXCEPT !.name = n] : n \in Title}
                    \cup {[Lobby EXCEPT !.tags = t] : t \in SUBSET Tag} :
             lobbies' = [lobbies EXCEPT ![call.lobby] = e]
    BY <1>3 DEF write_setting
  <2>2. e \in LobbyData /\ e.peer_ids = Lobby.peer_ids /\ e.host = Lobby.host
    <3>1. CASE e = [Lobby EXCEPT !.sealed = ~@]
      BY <1>1, <1>2, <3>1
    <3>2. CASE \E m \in MaxPlayersInput : e = [Lobby EXCEPT !.max_players = m]
      BY <1>1, <1>2, <3>2
    <3>3. CASE \E n \in Title : e = [Lobby EXCEPT !.name = n]
      BY <1>1, <1>2, <3>3
    <3>4. CASE \E t \in SUBSET Tag : e = [Lobby EXCEPT !.tags = t]
      BY <1>1, <1>2, <3>4
    <3>5. QED
      BY <2>1, <3>1, <3>2, <3>3, <3>4
  <2>3. QED
    BY <2>1, <2>2
<1>4. CASE ~write_setting
  <2>1. PICK q \in PeerId : lobbies' = [lobbies EXCEPT ![call.lobby].host = q]
    BY <1>4 DEF set_lobby_host
  <2>2. lobbies' = [lobbies EXCEPT ![call.lobby] = [Lobby EXCEPT !.host = q]]
    BY <1>1, <2>1 DEF Lobby
  <2>3. QED
    BY <1>1, <1>2, <1>4, <2>2
<1>5. QED
  BY <1>3, <1>4

\* Every step of a game with a script keeps the invariants of GameThread.
LEMMA ScriptGame == GameInv /\ [ScriptNext]_script_vars => GameInv'
<1>1. SUFFICES ASSUME GameInv, [ScriptNext]_script_vars PROVE GameInv'
  OBVIOUS
<1> USE DEF GameInv
<1>2. CASE BetweenCalls
  BY <1>1, <1>2, NextInv, NextKeeps, NextSwept, NextFinite DEF BetweenCalls, GameStep
<1>3. CASE /\ UNCHANGED <<peers, lobbies, peer_ordered_ids, listing, conn, run_vars>>
           /\ lobbies_updated' \subseteq LobbyId /\ fabricated' \in BOOLEAN
  <2>1. DataInv'
    BY <1>1, <1>3 DEF Inv, DataInv, SeatsExist, InLobby, LobbyOf
  <2>2. QED
    BY <1>1, <1>3, <2>1, KickedGame
<1>4. /\ lobbies_updated \subseteq LobbyId /\ fabricated \in BOOLEAN
      /\ DOMAIN lobbies \subseteq LobbyId
  BY <1>1 DEF Inv, DataInv
<1>5. CASE UNCHANGED vars
  BY <1>3, <1>4, <1>5 DEF vars, data
<1>6. CASE \E p \in PeerId : on_lobby_call_begin(p)
  BY <1>5, <1>6 DEF on_lobby_call_begin, data_vars
<1>7. CASE write_lobby_public_data
            \/ \E q \in PeerId : write_peer_public_data(q) \/ write_peer_private_data(q)
  BY <1>5, <1>7 DEF write_lobby_public_data, write_peer_public_data, write_peer_private_data
<1>8. CASE write_setting \/ \E q \in PeerId : set_lobby_host(q)
  <2>1. call.lobby \in DOMAIN lobbies
        /\ UNCHANGED <<peers, peer_ordered_ids, lobbies_updated, fabricated, listing, conn,
                       run_vars>>
    BY <1>8 DEF write_setting, set_lobby_host, Effect
  <2>2. QED
    BY <1>1, <1>8, <2>1, SettingFacts, RewrittenGame DEF Lobby
<1>9. ASSUME NEW q \in PeerId, kick_peer(q) PROVE GameInv'
  <2>1. /\ call.lobby \in DOMAIN lobbies /\ q \in lobbies[call.lobby].peer_ids
        /\ remove_peer_from_lobby(call.lobby, q, NoPeer, TRUE)
        /\ UNCHANGED <<listing, conn, run_vars>>
    BY <1>9 DEF kick_peer, Effect, Lobby
  <2>2. DataInv'
    BY <1>1, <2>1, RemoveData DEF Inv
  <2>3. /\ DOMAIN peers' = DOMAIN peers
        /\ \A x \in DOMAIN peers : peers'[x].lobby_id \in {NoLobby, peers[x].lobby_id}
    BY <1>1, <2>1, LeaveLobbyType DEF remove_peer_from_lobby, Inv, DataInv
  <2>4. DOMAIN lobbies' \subseteq DOMAIN lobbies
    BY <2>1 DEF remove_peer_from_lobby, Drop, Restrict
  <2>5. QED
    BY <1>1, <2>1, <2>2, <2>3, <2>4, KickedGame
<1>10. ASSUME NEW q \in PeerId, kick_stranger(q) PROVE GameInv'
  <2>1. UNCHANGED <<listing, conn, run_vars>>
    BY <1>10 DEF kick_stranger
  <2>2. /\ DOMAIN peers' = DOMAIN peers
        /\ \A x \in DOMAIN peers : peers'[x].lobby_id \in {NoLobby, peers[x].lobby_id}
        /\ DOMAIN lobbies' \subseteq DOMAIN lobbies
    <3>1. DOMAIN lobbies' \subseteq DOMAIN lobbies
      <4>1. CASE Ends(Lobby, q)
        <5>1. lobbies' = Drop(lobbies, {call.lobby})
          BY <1>1, <1>10, <4>1, StrangerFacts
        <5>2. QED
          BY <5>1 DEF Drop, Restrict
      <4>2. CASE ~Ends(Lobby, q)
        BY <1>1, <1>10, <4>2, StrangerFacts
      <4>3. QED
        BY <4>1, <4>2
    <3>2. QED
      BY <1>1, <1>10, <3>1, StrangerFacts
  <2>3. QED
    BY <1>1, <1>10, <2>1, <2>2, StrangerData, KickedGame
<1>11. CASE on_lobby_call_end
  BY <1>3, <1>4, <1>11 DEF on_lobby_call_end, Reported, Access
<1>12. CASE fabricate
  BY <1>3, <1>4, <1>12 DEF fabricate, data
<1>13. QED
  BY <1>1, <1>2, <1>5, <1>6, <1>7, <1>8, <1>9, <1>10, <1>11, <1>12
  DEF ScriptNext, ScriptEffect, script_vars, data_vars

-----------------------------------------------------------------------------
(* Members hear of what a script does to their lobby *)

\* Of the kick of a peer that is no member, that peer hears if it sits elsewhere, and so do
\* the members that it turns out, or to which it leaves the lobby.
LEMMA StrangerAnnounces ==
  ASSUME Inv, KeepInv, NEW q, kick_stranger(q),
         NEW p \in DOMAIN peers \cap sockets, InLobby(p)
  PROVE  Announced(p)
<1> DEFINE rest == Lobby.peer_ids \ {q}
<1>1. /\ p \notin DOMAIN disconnected_peers /\ q \notin Lobby.peer_ids /\ q \in DOMAIN peers
      /\ peers[p].lobby_id # NoLobby /\ peers[p].lobby_id \in DOMAIN lobbies
      /\ p \in lobbies[peers[p].lobby_id].peer_ids
  BY DEF KeepInv, Inv, DataInv, SeatsExist, InLobby, LobbyOf, kick_stranger
<1>2. LeaveNotices(Lobby, q, NoPeer, TRUE, "allow")
  BY DEF kick_stranger
<1>3. q # NoPeer
  BY <1>1, IdAssumption DEF Inv, DataInv
<1>4. CASE p = q
  <2>1. \E type \in {"LOBBY_LEFT", "LOBBY_KICKED"} : send({p}, type) \subseteq notices'
    BY <1>2, <1>3, <1>4 DEF LeaveNotices
  <2>2. Hears(p, {"LOBBY_LEFT", "LOBBY_KICKED"})
    BY <1>1, <2>1, SendReaches
  <2>3. peers'[p].lobby_id = NoLobby
    BY <1>4, StrangerFacts
  <2>4. QED
    BY <1>1, <2>2, <2>3 DEF Announced
<1>5. CASE p # q /\ p \in TurnedOut(q)
  <2>1. Disbands(Lobby, q) /\ p \in rest
    BY <1>5 DEF TurnedOut
  <2>2. \E type \in {"LOBBY_LEFT", "LOBBY_KICKED"} : send(rest, type) \subseteq notices'
    BY <1>2, <2>1 DEF LeaveNotices
  <2>3. p \in rest \ DOMAIN disconnected_peers
    BY <1>1, <2>1
  <2> HIDE DEF rest
  <2>4. Hears(p, {"LOBBY_LEFT", "LOBBY_KICKED"})
    BY <2>2, <2>3, SendReaches
  <2>5. peers'[p].lobby_id = NoLobby
    BY <1>5, StrangerFacts
  <2>6. QED
    BY <1>1, <2>4, <2>5 DEF Announced
<1>6. CASE p # q /\ p \notin TurnedOut(q) /\ peers[p].lobby_id = call.lobby
  <2>1. p \in rest /\ ~Disbands(Lobby, q) /\ ~Ends(Lobby, q)
    <3>1. p \in Lobby.peer_ids
      BY <1>1, <1>6 DEF Lobby
    <3>2. Ends(Lobby, q) => Lobby.peer_ids \subseteq TurnedOut(q)
      BY StrangerFacts
    <3>3. QED
      BY <1>6, <3>1, <3>2 DEF TurnedOut
  <2>2. /\ peers'[p] = peers[p]
        /\ lobbies' = [lobbies EXCEPT ![call.lobby].host =
                         IF q = Lobby.host /\ ~Disbands(Lobby, q) THEN NewHost(Lobby, q)
                         ELSE Lobby.host]
    BY <1>6, <2>1, StrangerFacts
  <2>3. lobbies[call.lobby] \in LobbyData
    BY <1>1, <1>6 DEF Inv, DataInv
  <2>4. lobbies'[call.lobby].peer_ids = lobbies[call.lobby].peer_ids
    BY <1>1, <1>6, <2>2, <2>3 DEF LobbyData
  <2>5. CASE q = Lobby.host
    <3>1. send(rest, "HOST_CHANGED") \subseteq notices'
      BY <1>2, <2>1, <2>5 DEF LeaveNotices
    <3>2. p \in rest \ DOMAIN disconnected_peers
      BY <1>1, <2>1
    <3> HIDE DEF rest
    <3>3. Hears(p, {"HOST_CHANGED"})
      BY <3>1, <3>2, SendReaches
    <3>4. QED
      BY <1>6, <2>2, <2>4, <3>3 DEF Announced
  <2>6. CASE q # Lobby.host
    <3>1. lobbies'[call.lobby].host = lobbies[call.lobby].host
      BY <1>1, <1>6, <2>2, <2>3, <2>6 DEF LobbyData, Lobby
    <3>2. QED
      BY <1>6, <2>2, <2>4, <3>1, NothingToTell
  <2>7. QED
    BY <2>5, <2>6
<1>7. CASE p # q /\ p \notin TurnedOut(q) /\ peers[p].lobby_id # call.lobby
  <2>1. peers'[p] = peers[p]
    BY <1>7, StrangerFacts
  <2>2. lobbies'[peers[p].lobby_id] = lobbies[peers[p].lobby_id]
    <3>1. CASE Ends(Lobby, q)
      <4>1. lobbies' = Drop(lobbies, {call.lobby})
        BY <3>1, StrangerFacts
      <4>2. QED
        BY <1>1, <1>7, <4>1 DEF Drop, Restrict
    <3>2. CASE ~Ends(Lobby, q)
      BY <1>1, <1>7, <3>2, StrangerFacts
    <3>3. QED
      BY <3>1, <3>2
  <2>3. QED
    BY <2>1, <2>2, NothingToTell
<1>8. QED
  BY <1>4, <1>5, <1>6, <1>7

\* Whatever the step, connected members hear of what it does to their lobby.
LEMMA ScriptAnnounces ==
  ASSUME GameInv, [ScriptNext]_script_vars,
         NEW p \in DOMAIN peers \cap DOMAIN peers', Connected(p), InLobby(p)
  PROVE  Announced(p)
<1>1. Inv /\ KeepInv /\ p \in DOMAIN peers \cap sockets /\ p \notin DOMAIN disconnected_peers
  BY DEF GameInv, KeepInv, Connected
<1>2. CASE UNCHANGED <<peers, lobbies>>
  BY <1>2, NothingToTell
<1>3. CASE BetweenCalls
  BY <1>3, StepAnnounces DEF BetweenCalls, GameStep, GameInv
<1>4. CASE write_setting
  <2>1. PICK lobby \in LobbyData : /\ lobby.peer_ids = Lobby.peer_ids
                                   /\ lobby.host = Lobby.host
                                   /\ lobbies' = [lobbies EXCEPT ![call.lobby] = lobby]
    BY <1>1, <1>4, SettingFacts
  <2>2. UNCHANGED peers /\ call.lobby \in DOMAIN lobbies
    BY <1>4 DEF write_setting, Effect
  <2>3. QED
    BY <2>1, <2>2, NothingToTell DEF Lobby
<1>5. ASSUME NEW q \in PeerId, set_lobby_host(q) PROVE Announced(p)
  <2>1. /\ lobbies' = [lobbies EXCEPT ![call.lobby].host = q]
        /\ UNCHANGED peers /\ call.lobby \in DOMAIN lobbies
        /\ send(lobbies[call.lobby].peer_ids, "HOST_CHANGED") \subseteq notices'
    BY <1>5 DEF set_lobby_host, Effect, HostAudience, Lobby
  <2>2. \A l \in DOMAIN lobbies : lobbies'[l].peer_ids = lobbies[l].peer_ids
    BY <1>1, <2>1 DEF Inv, DataInv, LobbyData
  <2>3. p \in lobbies[peers[p].lobby_id].peer_ids /\ peers[p].lobby_id \in DOMAIN lobbies
    BY <1>1 DEF Inv, DataInv, SeatsExist, InLobby, LobbyOf
  <2>4. CASE peers[p].lobby_id = call.lobby
    <3>1. Hears(p, {"HOST_CHANGED"})
      BY <1>1, <2>1, <2>3, <2>4, SendReaches
    <3>2. QED
      BY <2>1, <2>2, <2>3, <3>1 DEF Announced
  <2>5. CASE peers[p].lobby_id # call.lobby
    BY <2>1, <2>3, <2>5, NothingToTell
  <2>6. QED
    BY <2>4, <2>5
<1>6. ASSUME NEW q \in PeerId, kick_peer(q) PROVE Announced(p)
  <2>1. PICK l \in DOMAIN lobbies : l = call.lobby
    BY <1>6 DEF kick_peer, Effect
  <2>2. /\ q \in lobbies[l].peer_ids
        /\ \E by, kicked : by = NoPeer /\ remove_peer_from_lobby(l, q, by, kicked)
    BY <1>6, <2>1 DEF kick_peer, Lobby
  <2>3. QED
    BY <1>1, <2>2, RemoveAnnounces
<1>7. ASSUME NEW q \in PeerId, kick_stranger(q) PROVE Announced(p)
  BY <1>1, <1>7, StrangerAnnounces
<1>8. CASE write_lobby_public_data
            \/ \E q \in PeerId : write_peer_public_data(q) \/ write_peer_private_data(q)
  BY <1>2, <1>8 DEF write_lobby_public_data, write_peer_public_data, write_peer_private_data,
                    vars, data
<1>9. CASE (\E q \in PeerId : on_lobby_call_begin(q)) \/ on_lobby_call_end \/ fabricate
            \/ UNCHANGED script_vars
  BY <1>2, <1>9 DEF on_lobby_call_begin, on_lobby_call_end, fabricate, script_vars, data_vars,
                    vars, data
<1>10. QED
  BY <1>3, <1>4, <1>5, <1>6, <1>7, <1>8, <1>9 DEF ScriptNext, ScriptEffect

\* Every game with a script starts with the invariants of GameThread.
LEMMA ScriptInitGame == ScriptInit => GameInv
<1>1. Init => KeepInv /\ SweptInv /\ FiniteLobbies
  BY FS_EmptySet DEF Init, NoSweep, KeepInv, SweptInv, FiniteLobbies
<1>2. QED
  BY <1>1, InitInv DEF ScriptInit, DataInit, GameInv

\* SeatsExist and ConnectedKept hold in every game with a script: a kick of peers that are no
\* members leaves nobody in a lobby that is gone or that does not list it, and no peer with an
\* open socket is forgotten.
THEOREM ScriptsKeepSeats == ScriptSpec => [](SeatsExist /\ ConnectedKept)
<1>1. GameInv => SeatsExist /\ ConnectedKept
  BY DEF GameInv, Inv, DataInv, KeepInv, ConnectedKept
<1>2. QED
  BY <1>1, ScriptInitGame, ScriptGame, PTL DEF ScriptSpec

\* MembershipAnnounced holds in every game with a script: nobody is turned out of a lobby,
\* and no member comes, goes or becomes the host, without the connected members hearing of
\* it, also when the script kicks peers that are no members, or appoints hosts that are none.
THEOREM ScriptsAnnounceMembership == ScriptSpec => MembershipAnnounced
<1>1. GameInv /\ [ScriptNext]_script_vars =>
        [\A p \in DOMAIN peers \cap DOMAIN peers' : Connected(p) /\ InLobby(p) =>
           LET l == peers[p].lobby_id IN
           IF peers'[p].lobby_id # l THEN Hears(p, {"LOBBY_LEFT", "LOBBY_KICKED"})
           ELSE /\ ~(lobbies'[l].peer_ids \subseteq lobbies[l].peer_ids) =>
                     Hears(p, {"PEER_JOINED"})
                /\ ~(lobbies[l].peer_ids \subseteq lobbies'[l].peer_ids) =>
                     Hears(p, {"PEER_LEFT", "PEER_KICKED"})
                /\ lobbies'[l].host # lobbies[l].host => Hears(p, {"HOST_CHANGED"})]_vars
  BY ScriptAnnounces DEF Announced
<1>2. QED
  BY <1>1, ScriptInitGame, ScriptGame, PTL DEF ScriptSpec, MembershipAnnounced

-----------------------------------------------------------------------------
(* Writing data *)

\* What is queued in a diff is not older than the data
AgreesOn(d, diff) == \A k \in DOMAIN diff : d[k] # Null => diff[k] = d[k]
Agrees(f, diffs) == \A x \in DOMAIN diffs : AgreesOn(f[x], diffs[x])

\* A write keeps the types and queues what it writes.  Who would have had the old data once
\* the diff is sent will have the new one.
LEMMA EditFacts ==
  ASSUME NEW dict, NEW diffs, NEW x, dict[x] \in Data, x \in DOMAIN diffs => diffs[x] \in Diff,
         NEW e \in Edits(dict, diffs, x)
  PROVE  /\ e.data \in Data /\ e.diff \in Diff
         /\ (x \in DOMAIN diffs => AgreesOn(dict[x], diffs[x])) => AgreesOn(e.data, e.diff)
         /\ \A v : Shown(dict[x], Flushed(v, diffs, x)) => Shown(e.data, Apply(v, e.diff))
<1> DEFINE old == IF x \in DOMAIN diffs THEN diffs[x] ELSE <<>>
<1>1. old \in Diff
  <2>1. <<>> \in [{} -> Value \cup {Null}]
    OBVIOUS
  <2>2. <<>> \in Diff
    BY <2>1 DEF Diff
  <2> QED
    BY <2>2
<1>2. /\ \A v : \A k \in Key : Flushed(v, diffs, x)[k] = IF k \in DOMAIN old THEN old[k] ELSE v[k]
      /\ (x \in DOMAIN diffs => AgreesOn(dict[x], diffs[x])) => AgreesOn(dict[x], old)
  BY DEF Flushed, Apply, AgreesOn
<1>3. CASE \E k \in Key, v \in Value \cup {Null} :
             e = [data |-> Apply(dict[x], [j \in {k} |-> v]), diff |-> Put(old, k, v)]
  <2> HIDE DEF old
  <2>1. PICK k \in Key, v \in Value \cup {Null} :
               e = [data |-> Apply(dict[x], [j \in {k} |-> v]), diff |-> Put(old, k, v)]
    BY <1>3
  <2>2. /\ e.data = [j \in Key |-> IF j = k THEN v ELSE dict[x][j]]
        /\ e.diff = [j \in DOMAIN old \cup {k} |-> IF j = k THEN v ELSE old[j]]
    BY <2>1 DEF Apply, Put
  <2>3. e.data \in Data /\ e.diff \in Diff
    BY <1>1, <2>2 DEF Data, Diff
  <2>4. AgreesOn(dict[x], old) => AgreesOn(e.data, e.diff)
    BY <1>1, <2>2 DEF AgreesOn, Diff
  <2>5. ASSUME NEW w, Shown(dict[x], Flushed(w, diffs, x))
        PROVE  Shown(e.data, Apply(w, e.diff))
    BY <1>2, <2>2, <2>5 DEF Shown, Apply
  <2>6. QED
    BY <1>2, <2>3, <2>4, <2>5
<1>4. CASE \E new \in UNION {[K -> Value] : K \in SUBSET Key} :
             e = [data |-> Apply(Empty, new), diff |-> new]
  <2> HIDE DEF old
  <2>1. PICK K \in SUBSET Key : \E n \in [K -> Value] : e = [data |-> Apply(Empty, n), diff |-> n]
    BY <1>4
  <2>2. PICK new \in [K -> Value] : e = [data |-> Apply(Empty, new), diff |-> new]
    BY <2>1
  <2>3. /\ e.data = [j \in Key |-> IF j \in K THEN new[j] ELSE Null]
        /\ e.diff = new
    BY <2>2 DEF Apply, Empty
  <2>4. e.data \in Data /\ e.diff \in Diff
    BY <2>2, <2>3 DEF Data, Diff
  <2>5. AgreesOn(e.data, e.diff)
    BY <2>2, <2>3 DEF AgreesOn
  <2>6. \A v : Shown(e.data, Apply(v, e.diff))
    BY <2>2, <2>3 DEF Shown, Apply
  <2>7. QED
    BY <2>4, <2>5, <2>6
<1>5. (\E k \in Key, v \in Value \cup {Null} : e = Written(dict[x], old, k, v))
      \/ \E new \in UNION {[K -> Value] : K \in SUBSET Key} : e = Assigned(new)
  BY DEF Edits
<1>6. QED
  BY <1>3, <1>4, <1>5 DEF Written, Assigned

\* A diff takes no entry from those who have it.
LEMMA FlushShows ==
  ASSUME NEW d, NEW diffs, NEW x, x \in DOMAIN diffs => AgreesOn(d, diffs[x]), NEW v, Shown(d, v)
  PROVE  Shown(d, Flushed(v, diffs, x))
BY DEF AgreesOn, Shown, Flushed, Apply

-----------------------------------------------------------------------------
(* Types *)

\* The types of the data, of the call, and of what is queued
TypeInv ==
  /\ DataTypes
  /\ ScriptTypeOK
  /\ DOMAIN unsent = {"lobby", "public", "private"}

\* The types of what is queued, entry by entry.
LEMMA QueuedFacts ==
  ASSUME ScriptTypeOK
  PROVE  /\ \A x \in DOMAIN unsent.lobby : unsent.lobby[x] \in Diff
         /\ \A x \in DOMAIN unsent.public : unsent.public[x] \in Diff
         /\ \A x \in DOMAIN unsent.private : unsent.private[x] \in Diff
BY DEF ScriptTypeOK, Range

\* What UnsentKept keeps is of the same types.
LEMMA KeptTypes ==
  ASSUME TypeInv, UnsentKept
  PROVE  /\ DOMAIN unsent' = {"lobby", "public", "private"}
         /\ \A kind \in {"lobby", "public", "private"} : Range(unsent'[kind]) \subseteq Diff
         /\ DOMAIN unsent'.lobby = DOMAIN unsent.lobby \cap DOMAIN lobbies'
         /\ DOMAIN unsent'.public = DOMAIN unsent.public \cap DOMAIN peers'
         /\ DOMAIN unsent'.private = DOMAIN unsent.private \cap DOMAIN peers'
         /\ \A x \in DOMAIN unsent'.lobby : unsent'.lobby[x] = unsent.lobby[x]
         /\ \A x \in DOMAIN unsent'.public : unsent'.public[x] = unsent.public[x]
         /\ \A x \in DOMAIN unsent'.private : unsent'.private[x] = unsent.private[x]
<1>1. /\ \A x \in DOMAIN unsent.lobby : unsent.lobby[x] \in Diff
      /\ \A x \in DOMAIN unsent.public : unsent.public[x] \in Diff
      /\ \A x \in DOMAIN unsent.private : unsent.private[x] \in Diff
  BY QueuedFacts DEF TypeInv
<1>2. /\ unsent'.lobby = Restrict(unsent.lobby, DOMAIN unsent.lobby \cap DOMAIN lobbies')
      /\ unsent'.public = Restrict(unsent.public, DOMAIN unsent.public \cap DOMAIN peers')
      /\ unsent'.private = Restrict(unsent.private, DOMAIN unsent.private \cap DOMAIN peers')
      /\ DOMAIN unsent' = {"lobby", "public", "private"}
  BY DEF UnsentKept
<1>3. \A f, S : /\ DOMAIN Restrict(f, S) = S
                /\ \A x \in S : Restrict(f, S)[x] = f[x]
  BY DEF Restrict
<1>4. /\ Range(unsent'.lobby) \subseteq Diff
      /\ Range(unsent'.public) \subseteq Diff
      /\ Range(unsent'.private) \subseteq Diff
  BY <1>1, <1>2, <1>3 DEF Range
<1>5. \A kind \in {"lobby", "public", "private"} : Range(unsent'[kind]) \subseteq Diff
  BY <1>4
<1>6. /\ DOMAIN unsent'.lobby = DOMAIN unsent.lobby \cap DOMAIN lobbies'
      /\ \A x \in DOMAIN unsent'.lobby : unsent'.lobby[x] = unsent.lobby[x]
  BY <1>2, <1>3
<1>7. /\ DOMAIN unsent'.public = DOMAIN unsent.public \cap DOMAIN peers'
      /\ \A x \in DOMAIN unsent'.public : unsent'.public[x] = unsent.public[x]
  BY <1>2, <1>3
<1>8. /\ DOMAIN unsent'.private = DOMAIN unsent.private \cap DOMAIN peers'
      /\ \A x \in DOMAIN unsent'.private : unsent'.private[x] = unsent.private[x]
  BY <1>2, <1>3
<1>9. QED
  BY <1>2, <1>5, <1>6, <1>7, <1>8

\* Once a handler has looked up a record that was not there, the flag stays.
LEMMA FabricatedStays == fabricated /\ [ScriptNext]_script_vars => fabricated'
<1>1. SUFFICES ASSUME fabricated, [ScriptNext]_script_vars PROVE fabricated'
  OBVIOUS
<1>2. CASE UNCHANGED fabricated
  BY <1>1, <1>2
<1>3. CASE Next
  <2>1. ~handle_events
    BY <1>1, EventIdle DEF handle_events, Idle
  <2>2. ~handle_disconnects /\ ~handle_lobby_list
    BY <1>1 DEF handle_disconnects, handle_disconnects_begin, handle_disconnects_visit,
                handle_disconnects_end, handle_lobby_list, Idle
  <2>3. QED
    BY <1>2, <1>3, <2>1, <2>2 DEF Next, time_run
<1>4. CASE ScriptEffect
  BY <1>1, <1>4 DEF ScriptEffect, write_lobby_public_data, write_setting, write_peer_public_data,
     write_peer_private_data, set_lobby_host, kick_peer, kick_stranger, Effect
<1>5. CASE (\E p \in PeerId : on_lobby_call_begin(p)) \/ on_lobby_call_end \/ fabricate
  BY <1>1, <1>5 DEF on_lobby_call_begin, on_lobby_call_end, fabricate, Idle
<1>6. CASE UNCHANGED script_vars
  BY <1>2, <1>6 DEF script_vars, data_vars, vars
<1>7. QED
  BY <1>1, <1>3, <1>4, <1>5, <1>6 DEF ScriptNext, BetweenCalls, GameStep

\* A call in the course of time
CallType ==
  [caller : PeerId \cup {NoPeer}, lobby : LobbyId \cup {NoLobby}, effects : 0..MaxEffects,
   settings : SUBSET {"sealed", "max_players", "name", "tags"}]

\* An effect leaves one less, whatever settings it marks.
LEMMA EffectFacts ==
  ASSUME TypeInv, Effect
  PROVE  /\ call \in CallType /\ call.lobby \in DOMAIN lobbies /\ ~fabricated
         /\ \A S \in SUBSET {"sealed", "max_players", "name", "tags"} :
              call' = [call EXCEPT !.effects = @ - 1, !.settings = @ \cup S] =>
                call' \in CallType /\ call'.lobby = call.lobby
         /\ Next_effect => call' \in CallType /\ call'.lobby = call.lobby
<1>1. /\ call \in CallType /\ call.lobby \in DOMAIN lobbies /\ ~fabricated
      /\ call.effects > 0
  BY DEF TypeInv, ScriptTypeOK, CallType, Effect
<1>2. call.effects - 1 \in 0..MaxEffects
  BY <1>1, ScriptAssumption DEF CallType
<1>3. ASSUME NEW n \in 0..MaxEffects, NEW T \in SUBSET {"sealed", "max_players", "name", "tags"}
      PROVE  LET c == [call EXCEPT !.effects = n, !.settings = T]
                 d == [call EXCEPT !.effects = n]
             IN  c \in CallType /\ c.lobby = call.lobby /\ d \in CallType /\ d.lobby = call.lobby
  BY <1>1 DEF CallType
<1>4. call.settings \in SUBSET {"sealed", "max_players", "name", "tags"}
  BY <1>1 DEF CallType
<1> DEFINE n == call.effects - 1
<1>5. ASSUME NEW S \in SUBSET {"sealed", "max_players", "name", "tags"},
             call' = [call EXCEPT !.effects = @ - 1, !.settings = @ \cup S]
      PROVE  call' \in CallType /\ call'.lobby = call.lobby
  <2> DEFINE T == call.settings \cup S
  <2>1. call' = [call EXCEPT !.effects = n, !.settings = T] /\ n \in 0..MaxEffects
    BY <1>2, <1>5
  <2>2. T \in SUBSET {"sealed", "max_players", "name", "tags"}
    BY <1>4
  <2> HIDE DEF n, T
  <2>3. QED
    BY <1>3, <2>1, <2>2
<1>6. ASSUME Next_effect PROVE call' \in CallType /\ call'.lobby = call.lobby
  <2>1. call' = [call EXCEPT !.effects = n] /\ n \in 0..MaxEffects
    BY <1>2, <1>6 DEF Next_effect
  <2> HIDE DEF n
  <2>2. QED
    BY <1>3, <1>4, <2>1
<1>7. QED
  BY <1>1, <1>5, <1>6

\* A script writes data of the types, and queues diffs.
LEMMA WriteTypes ==
  ASSUME GameInv, TypeInv,
         write_lobby_public_data
           \/ \E q \in PeerId : write_peer_public_data(q) \/ write_peer_private_data(q)
  PROVE  TypeInv'
<1>1. Effect /\ Next_effect /\ UNCHANGED vars
  BY DEF write_lobby_public_data, write_peer_public_data, write_peer_private_data
<1>2. /\ call.lobby \in DOMAIN lobbies /\ ~fabricated
      /\ call' \in CallType /\ call'.lobby = call.lobby
  BY <1>1, EffectFacts
<1>3. UNCHANGED <<peers, lobbies, fabricated>>
  BY <1>1 DEF vars, data
<1>4. \A f, x, d : Range(f) \subseteq Diff /\ d \in Diff =>
        DOMAIN Put(f, x, d) = DOMAIN f \cup {x} /\ Range(Put(f, x, d)) \subseteq Diff
  BY DEF Put, Range
<1>5. /\ Range(unsent.lobby) \subseteq Diff /\ Range(unsent.public) \subseteq Diff
      /\ Range(unsent.private) \subseteq Diff /\ DOMAIN unsent = {"lobby", "public", "private"}
  BY DEF TypeInv, ScriptTypeOK
<1>6. CASE write_lobby_public_data
  <2>1. PICK e \in Edits(lobby_public, unsent.lobby, call.lobby) :
          /\ lobby_public' = [lobby_public EXCEPT ![call.lobby] = e.data]
          /\ unsent' = [unsent EXCEPT !.lobby = Put(@, call.lobby, e.diff)]
    BY <1>6 DEF write_lobby_public_data
  <2>2. e.data \in Data /\ e.diff \in Diff
    BY <1>2, QueuedFacts, EditFacts DEF TypeInv, DataTypes
  <2>3. DataTypes'
    BY <1>3, <1>6, <2>1, <2>2 DEF TypeInv, DataTypes, write_lobby_public_data, NoView
  <2>4. /\ DOMAIN unsent' = {"lobby", "public", "private"}
        /\ Range(unsent'.lobby) \subseteq Diff
        /\ DOMAIN unsent'.lobby = DOMAIN unsent.lobby \cup {call.lobby}
        /\ unsent'.public = unsent.public /\ unsent'.private = unsent.private
    BY <1>4, <1>5, <2>1, <2>2
  <2>5. QED
    BY <1>2, <1>3, <1>5, <2>3, <2>4 DEF TypeInv, ScriptTypeOK, CallType
<1>7. ASSUME NEW q \in PeerId, write_peer_public_data(q) PROVE TypeInv'
  <2>1. PICK e \in Edits(peer_public, unsent.public, q) :
          /\ peer_public' = [peer_public EXCEPT ![q] = e.data]
          /\ unsent' = [unsent EXCEPT !.public = Put(@, q, e.diff)]
    BY <1>7 DEF write_peer_public_data
  <2>2. q \in DOMAIN peers
    BY <1>7 DEF write_peer_public_data
  <2>3. e.data \in Data /\ e.diff \in Diff
    BY <2>2, QueuedFacts, EditFacts DEF TypeInv, DataTypes
  <2>4. DataTypes'
    BY <1>3, <1>7, <2>1, <2>3 DEF TypeInv, DataTypes, write_peer_public_data, NoView
  <2>5. /\ DOMAIN unsent' = {"lobby", "public", "private"}
        /\ Range(unsent'.public) \subseteq Diff
        /\ DOMAIN unsent'.public = DOMAIN unsent.public \cup {q}
        /\ unsent'.lobby = unsent.lobby /\ unsent'.private = unsent.private
    BY <1>4, <1>5, <2>1, <2>3
  <2>6. QED
    BY <1>2, <1>3, <1>5, <2>2, <2>4, <2>5 DEF TypeInv, ScriptTypeOK, CallType
<1>8. ASSUME NEW q \in PeerId, write_peer_private_data(q) PROVE TypeInv'
  <2>1. PICK e \in Edits(peer_private, unsent.private, q) :
          /\ peer_private' = [peer_private EXCEPT ![q] = e.data]
          /\ unsent' = [unsent EXCEPT !.private = Put(@, q, e.diff)]
    BY <1>8 DEF write_peer_private_data
  <2>2. q \in DOMAIN peers
    BY <1>8 DEF write_peer_private_data
  <2>3. e.data \in Data /\ e.diff \in Diff
    BY <2>2, QueuedFacts, EditFacts DEF TypeInv, DataTypes
  <2>4. DataTypes'
    BY <1>3, <1>8, <2>1, <2>3 DEF TypeInv, DataTypes, write_peer_private_data, NoView
  <2>5. /\ DOMAIN unsent' = {"lobby", "public", "private"}
        /\ Range(unsent'.private) \subseteq Diff
        /\ DOMAIN unsent'.private = DOMAIN unsent.private \cup {q}
        /\ unsent'.lobby = unsent.lobby /\ unsent'.public = unsent.public
    BY <1>4, <1>5, <2>1, <2>3
  <2>6. QED
    BY <1>2, <1>3, <1>5, <2>2, <2>4, <2>5 DEF TypeInv, ScriptTypeOK, CallType
<1>9. QED
  BY <1>6, <1>7, <1>8

\* The other effects leave the types as they are.
LEMMA EffectTypes ==
  ASSUME GameInv, TypeInv,
         write_setting
           \/ \E q \in PeerId : set_lobby_host(q) \/ kick_peer(q) \/ kick_stranger(q)
  PROVE  TypeInv'
<1>1. Effect
  BY DEF write_setting, set_lobby_host, kick_peer, kick_stranger
<1>2. call.lobby \in DOMAIN lobbies /\ ~fabricated
  BY <1>1, EffectFacts
<1>3. ASSUME Next_effect PROVE call' \in CallType /\ call'.lobby = call.lobby
  BY <1>1, <1>3, EffectFacts
<1>4. CASE write_setting
  <2>1. \E S \in SUBSET {"sealed", "max_players", "name", "tags"} :
          call' = [call EXCEPT !.effects = @ - 1, !.settings = @ \cup S]
    BY <1>4 DEF write_setting
  <2>2. DOMAIN lobbies' = DOMAIN lobbies /\ UNCHANGED <<peers, shared, view, unsent, fabricated>>
    BY <1>4 DEF write_setting
  <2>3. DataTypes'
    BY <2>2 DEF TypeInv, DataTypes, shared, NoView
  <2>4. QED
    <3>1. call' \in CallType /\ call'.lobby = call.lobby
      BY <1>1, <2>1, EffectFacts
    <3>2. QED
      BY <2>2, <2>3, <3>1 DEF TypeInv, ScriptTypeOK, CallType
<1>5. ASSUME NEW q \in PeerId, set_lobby_host(q) PROVE TypeInv'
  <2>1. DOMAIN lobbies' = DOMAIN lobbies /\ UNCHANGED <<peers, shared, view, unsent, fabricated>>
    BY <1>5 DEF set_lobby_host
  <2>2. DataTypes'
    BY <2>1 DEF TypeInv, DataTypes, shared, NoView
  <2>3. Next_effect
    BY <1>5 DEF set_lobby_host
  <2>4. QED
    BY <1>3, <2>1, <2>2, <2>3 DEF TypeInv, ScriptTypeOK, CallType
<1>6. ASSUME DataTypes', UnsentKept, Next_effect PROVE TypeInv'
  <2>1. DOMAIN unsent.lobby \subseteq {call.lobby}
    BY <1>2 DEF TypeInv, ScriptTypeOK
  <2>2. QED
    BY <1>3, <1>6, <2>1, KeptTypes DEF TypeInv, ScriptTypeOK, CallType
<1>7. ASSUME NEW q \in PeerId, kick_peer(q) PROVE TypeInv'
  BY <1>6, <1>7, CarriedTypes DEF kick_peer, TypeInv
<1>8. ASSUME NEW q \in PeerId, kick_stranger(q) PROVE TypeInv'
  <2>1. /\ Empty \in Data
        /\ DOMAIN peers' = DOMAIN peers
        /\ DOMAIN lobbies' \subseteq DOMAIN lobbies
    <3>1. DOMAIN lobbies' \subseteq DOMAIN lobbies
      BY <1>8 DEF kick_stranger, Drop, Restrict
    <3>2. DOMAIN peers' = DOMAIN peers
      BY <1>8 DEF kick_stranger
    <3>3. QED
      BY <3>1, <3>2 DEF Empty, Data
  <2> HIDE DEF Empty
  <2>2. /\ lobby_public' \in [DOMAIN lobbies' -> Data]
        /\ lobby_private' \in [DOMAIN lobbies' -> Data]
    BY <1>8, <2>1 DEF kick_stranger, Kept, TypeInv, DataTypes
  <2>3. /\ peer_public' \in [DOMAIN peers' -> Data]
        /\ peer_private' \in [DOMAIN peers' -> Data]
    BY <1>8, <2>1 DEF kick_stranger, Emptied, TypeInv, DataTypes
  <2>4. DOMAIN view' = PeerId /\ \A p \in PeerId : DOMAIN view'[p] = DOMAIN NoView
    <3>1. \A p \in PeerId : DOMAIN view[p] = DOMAIN NoView
      BY DEF TypeInv, DataTypes
    <3>2. \A p \in PeerId : \A v : DOMAIN [view[p] EXCEPT !.peers = v] = DOMAIN view[p]
      OBVIOUS
    <3> HIDE DEF NoView
    <3>3. QED
      BY <1>8, <3>1, <3>2 DEF kick_stranger
  <2>5. DataTypes'
    BY <2>2, <2>3, <2>4 DEF DataTypes, NoView
  <2>6. QED
    BY <1>6, <1>8, <2>5 DEF kick_stranger
<1>9. QED
  BY <1>4, <1>5, <1>7, <1>8

\* The end of a call delivers what is queued for the lobby and for its members.
LEMMA DeliveredFacts ==
  ASSUME TypeInv, GameInv, on_lobby_call_end
  PROVE  /\ DOMAIN unsent' = {"lobby", "public", "private"}
         /\ \A kind \in {"lobby", "public", "private"} : Range(unsent'[kind]) \subseteq Diff
         /\ DOMAIN unsent'.lobby = {}
         /\ DOMAIN unsent'.public = DOMAIN unsent.public \ Lobby.peer_ids
         /\ DOMAIN unsent'.private = DOMAIN unsent.private \ Lobby.peer_ids
         /\ \A x \in DOMAIN unsent'.public : unsent'.public[x] = unsent.public[x]
         /\ \A x \in DOMAIN unsent'.private : unsent'.private[x] = unsent.private[x]
<1>1. /\ unsent' = [lobby |-> Drop(unsent.lobby, {call.lobby}),
                    public |-> Drop(unsent.public, Lobby.peer_ids),
                    private |-> Drop(unsent.private, Lobby.peer_ids)]
      /\ ~fabricated
  BY DEF on_lobby_call_end, Delivered
<1>2. DOMAIN unsent.lobby \subseteq {call.lobby}
  BY <1>1 DEF TypeInv, ScriptTypeOK
<1>3. /\ DOMAIN unsent'.lobby = {}
      /\ DOMAIN unsent'.public = DOMAIN unsent.public \ Lobby.peer_ids
      /\ DOMAIN unsent'.private = DOMAIN unsent.private \ Lobby.peer_ids
      /\ \A x \in DOMAIN unsent'.public : unsent'.public[x] = unsent.public[x]
      /\ \A x \in DOMAIN unsent'.private : unsent'.private[x] = unsent.private[x]
  <2>1. /\ unsent'.lobby = Drop(unsent.lobby, {call.lobby})
        /\ unsent'.public = Drop(unsent.public, Lobby.peer_ids)
        /\ unsent'.private = Drop(unsent.private, Lobby.peer_ids)
    BY <1>1
  <2>2. DOMAIN unsent'.lobby = {}
    BY <1>2, <2>1 DEF Drop, Restrict
  <2>3. /\ DOMAIN unsent'.public = DOMAIN unsent.public \ Lobby.peer_ids
        /\ \A x \in DOMAIN unsent'.public : unsent'.public[x] = unsent.public[x]
    BY <2>1 DEF Drop, Restrict
  <2>4. /\ DOMAIN unsent'.private = DOMAIN unsent.private \ Lobby.peer_ids
        /\ \A x \in DOMAIN unsent'.private : unsent'.private[x] = unsent.private[x]
    BY <2>1 DEF Drop, Restrict
  <2>5. QED
    BY <2>2, <2>3, <2>4
<1>4. /\ Range(unsent'.lobby) \subseteq Diff
      /\ Range(unsent'.public) \subseteq Diff
      /\ Range(unsent'.private) \subseteq Diff
  BY <1>3, QueuedFacts DEF Range, TypeInv
<1>5. \A kind \in {"lobby", "public", "private"} : Range(unsent'[kind]) \subseteq Diff
  BY <1>4
<1>6. DOMAIN unsent' = {"lobby", "public", "private"}
  BY <1>1
<1>7. QED
  BY <1>3, <1>5, <1>6

\* So every step keeps the types.
LEMMA StepTypes == GameInv /\ TypeInv /\ [ScriptNext]_script_vars => TypeInv'
<1>1. SUFFICES ASSUME GameInv, TypeInv, [ScriptNext]_script_vars PROVE TypeInv'
  OBVIOUS
<1>2. call \in CallType /\ NoCall \in CallType /\ NoCall.lobby \notin DOMAIN lobbies
  BY <1>1, ScriptAssumption, IdAssumption
  DEF TypeInv, ScriptTypeOK, CallType, NoCall, GameInv, Inv, DataInv
<1>3. CASE BetweenCalls
  <2>1. DataTypes'
    BY <1>1, <1>3, CarriedTypes DEF BetweenCalls, GameStep, TypeInv
  <2>2. fabricated' \/ DOMAIN unsent.lobby \subseteq {call.lobby}
    BY <1>1, FabricatedStays DEF TypeInv, ScriptTypeOK
  <2>3. UNCHANGED call /\ UnsentKept
    BY <1>3 DEF BetweenCalls
  <2>4. QED
    BY <1>1, <1>2, <2>1, <2>2, <2>3, KeptTypes DEF TypeInv, ScriptTypeOK, CallType
<1>4. ASSUME NEW p \in PeerId, on_lobby_call_begin(p) PROVE TypeInv'
  <2>1. /\ call = NoCall /\ ~fabricated /\ p \in DOMAIN peers
        /\ UNCHANGED <<data_vars, unsent>>
        /\ call' = [caller |-> p, lobby |-> peers[p].lobby_id, effects |-> MaxEffects,
                    settings |-> {}]
    BY <1>4 DEF on_lobby_call_begin, Idle, Running
  <2>2. call' \in CallType
    BY <1>1, <2>1, ScriptAssumption DEF CallType, GameInv, Inv, DataInv, PeerData
  <2>3. DOMAIN unsent.lobby = {}
    BY <1>1, <1>2, <2>1 DEF TypeInv, ScriptTypeOK
  <2>4. UNCHANGED <<peers, lobbies, fabricated, shared, view, unsent>>
    BY <2>1 DEF data_vars, vars, data
  <2>5. DataTypes'
    BY <1>1, <2>4 DEF TypeInv, DataTypes, shared, NoView
  <2>6. QED
    BY <1>1, <2>2, <2>3, <2>4, <2>5 DEF TypeInv, ScriptTypeOK, CallType
<1>5. CASE write_lobby_public_data
            \/ \E q \in PeerId : write_peer_public_data(q) \/ write_peer_private_data(q)
  BY <1>1, <1>5, WriteTypes
<1>6. CASE write_setting \/ \E q \in PeerId : set_lobby_host(q) \/ kick_peer(q) \/ kick_stranger(q)
  BY <1>1, <1>6, EffectTypes
<1>7. CASE on_lobby_call_end
  <2>1. UNCHANGED <<peers, lobbies, shared>> /\ call' = NoCall
    BY <1>7 DEF on_lobby_call_end
  <2>2. DOMAIN view' = PeerId /\ \A p \in PeerId : DOMAIN view'[p] = DOMAIN NoView
    <3>1. \A p \in PeerId : DOMAIN view[p] = DOMAIN NoView
      BY <1>1 DEF TypeInv, DataTypes
    <3>2. \A p \in PeerId : DOMAIN Updated(p) = DOMAIN view[p]
      BY DEF Updated
    <3> HIDE DEF NoView
    <3>3. QED
      BY <1>7, <3>1, <3>2 DEF on_lobby_call_end
  <2>3. DataTypes'
    BY <1>1, <2>1, <2>2 DEF TypeInv, DataTypes, shared, NoView
  <2>4. QED
    BY <1>1, <1>2, <1>7, <2>1, <2>3, DeliveredFacts DEF TypeInv, ScriptTypeOK, CallType
<1>8. CASE fabricate
  <2>1. UNCHANGED <<peers, lobbies, shared, view, unsent>> /\ call' = NoCall /\ fabricated'
    BY <1>8 DEF fabricate, data
  <2>2. DataTypes'
    BY <1>1, <2>1 DEF TypeInv, DataTypes, shared, NoView
  <2>3. QED
    BY <1>1, <1>2, <2>1, <2>2 DEF TypeInv, ScriptTypeOK, CallType
<1>9. CASE UNCHANGED script_vars
  <2>1. UNCHANGED <<peers, lobbies, fabricated, shared, view, unsent, call>>
    BY <1>9 DEF script_vars, data_vars, vars, data
  <2>2. DataTypes'
    BY <1>1, <2>1 DEF TypeInv, DataTypes, shared, NoView
  <2>3. QED
    BY <1>1, <2>1, <2>2 DEF TypeInv, ScriptTypeOK
<1>10. QED
  BY <1>1, <1>3, <1>4, <1>5, <1>6, <1>7, <1>8, <1>9 DEF ScriptNext, ScriptEffect

\* A game with a script starts with nothing queued.
LEMMA InitTypes == ScriptInit => TypeInv
<1>1. SUFFICES ASSUME ScriptInit PROVE TypeInv
  OBVIOUS
<1>2. /\ call = NoCall /\ unsent = [lobby |-> <<>>, public |-> <<>>, private |-> <<>>]
      /\ peers = <<>> /\ lobbies = <<>> /\ lobby_public = <<>> /\ lobby_private = <<>>
      /\ peer_public = <<>> /\ peer_private = <<>> /\ view = [p \in PeerId |-> NoView]
  BY <1>1 DEF ScriptInit, DataInit, Init
<1>3. DataTypes
  BY <1>2 DEF DataTypes
<1>4. Range(<<>>) = {}
  BY DEF Range
<1>5. \A kind \in {"lobby", "public", "private"} : Range(unsent[kind]) \subseteq Diff
  BY <1>2, <1>4
<1>6. NoCall \in CallType
  BY ScriptAssumption DEF CallType, NoCall
<1>7. QED
  BY <1>2, <1>3, <1>5, <1>6 DEF TypeInv, ScriptTypeOK, CallType

\* ScriptTypeOK holds in every game with a script.  What is queued never refers to a lobby or
\* a peer that is gone, and what is queued for the lobby does not outlive the call, whatever
\* the script writes and whomever it kicks.
THEOREM ScriptsTyped == ScriptSpec => []ScriptTypeOK
<1>1. TypeInv => ScriptTypeOK
  BY DEF TypeInv
<1>2. QED
  BY <1>1, ScriptInitGame, ScriptGame, InitTypes, StepTypes, PTL DEF ScriptSpec

-----------------------------------------------------------------------------
(* What clients will have been told when the call is over *)

\* What p will have for d once the diff queued for x is sent, if it is sent by this call
Due(p, d, diffs, x) == IF peers[p].lobby_id = call.lobby THEN Flushed(d, diffs, x) ELSE d

\* p will have the public data of its lobby and of the members
PublicDue(p) ==
  LET l == peers[p].lobby_id IN
  /\ Shown(lobby_public[l], Due(p, view[p].lobby, unsent.lobby, l))
  /\ \A q \in lobbies[l].peer_ids : SitsWhereListed(q) =>
       /\ q \in DOMAIN view[p].peers
       /\ Shown(peer_public[q], Due(p, view[p].peers[q], unsent.public, q))

\* p is a member of the lobby of the call
CallMember(p) == call.lobby \in DOMAIN lobbies /\ p \in Lobby.peer_ids

\* p will have its own private data
OwnDue(p) ==
  Shown(peer_private[p],
        IF CallMember(p) THEN Flushed(view[p].own, unsent.private, p) ELSE view[p].own)

\* What is true of the public data, in calls and between them
PublicSound ==
  /\ AwayInv
  /\ Agrees(lobby_public, unsent.lobby)
  /\ Agrees(peer_public, unsent.public)
  /\ \A p \in PeerId : HasJoined(p) /\ SitsWhereListed(p) => PublicDue(p)

\* And of private data, as long as no stranger is kicked out of another lobby.  A peer
\* that is in no list has none
OwnSound ==
  /\ Agrees(peer_private, unsent.private)
  /\ \A q \in DOMAIN peers :
       (\A l \in DOMAIN lobbies : q \notin lobbies[l].peer_ids) => peer_private[q] = Empty
  /\ \A p \in sockets \cap DOMAIN peers : OwnDue(p)

\* The queue is the same for x
SameDiff(f, g, x) == /\ x \in DOMAIN f <=> x \in DOMAIN g
                     /\ x \in DOMAIN f => f[x] = g[x]

\* p keeps its seat and what it has been told, or is told the data of a newcomer
KeptPublic(p) ==
  LET l == peers[p].lobby_id IN
  /\ HasJoined(p) /\ SitsWhereListed(p)
  /\ peers'[p].lobby_id = l
  /\ call'.lobby = call.lobby
  /\ lobby_public'[l] = lobby_public[l]
  /\ view'[p].lobby = view[p].lobby
  /\ SameDiff(unsent.lobby, unsent'.lobby, l)
  /\ \A q \in lobbies'[l].peer_ids : SitsWhereListed(q)' =>
       \/ /\ q \in lobbies[l].peer_ids /\ SitsWhereListed(q)
          /\ peer_public'[q] = peer_public[q]
          /\ q \in DOMAIN view[p].peers =>
               q \in DOMAIN view'[p].peers /\ view'[p].peers[q] = view[p].peers[q]
          /\ SameDiff(unsent.public, unsent'.public, q)
       \/ /\ q \in DOMAIN view'[p].peers /\ view'[p].peers[q] = peer_public'[q]
          /\ call.lobby # l

\* What is due stays due.
LEMMA KeptDue ==
  ASSUME PublicSound, NEW p \in PeerId, KeptPublic(p)
  PROVE  PublicDue(p)'
<1> DEFINE l == peers[p].lobby_id
<1>1. PublicDue(p) /\ peers'[p].lobby_id = l /\ call'.lobby = call.lobby
  BY DEF PublicSound, KeptPublic
<1>2. \A f, g, x, d : SameDiff(f, g, x) => Flushed(d, f, x) = Flushed(d, g, x)
  BY DEF SameDiff, Flushed
<1>3. Shown(lobby_public[l], Due(p, view[p].lobby, unsent.lobby, l))'
  BY <1>1, <1>2 DEF KeptPublic, PublicDue, Due
<1>4. ASSUME NEW q \in lobbies'[l].peer_ids, SitsWhereListed(q)'
      PROVE  /\ q \in DOMAIN view'[p].peers
             /\ Shown(peer_public[q], Due(p, view[p].peers[q], unsent.public, q))'
  <2>1. CASE /\ q \in lobbies[l].peer_ids /\ SitsWhereListed(q)
             /\ peer_public'[q] = peer_public[q]
             /\ q \in DOMAIN view[p].peers =>
                  q \in DOMAIN view'[p].peers /\ view'[p].peers[q] = view[p].peers[q]
             /\ SameDiff(unsent.public, unsent'.public, q)
    <3>1. /\ q \in DOMAIN view[p].peers
          /\ Shown(peer_public[q], Due(p, view[p].peers[q], unsent.public, q))
      BY <1>1, <2>1 DEF PublicDue
    <3>2. QED
      BY <1>1, <1>2, <2>1, <3>1 DEF Due
  <2>2. CASE /\ q \in DOMAIN view'[p].peers /\ view'[p].peers[q] = peer_public'[q]
             /\ call.lobby # l
    BY <1>1, <2>2 DEF Due, Shown
  <2>3. QED
    BY <1>4, <2>1, <2>2 DEF KeptPublic
<1>5. QED
  BY <1>1, <1>3, <1>4 DEF PublicDue

\* Who is let in between two calls has everything.
LEMMA FreshDue ==
  ASSUME NEW p, view'[p] = LobbyJoined(p),
         peers'[p].lobby_id \in DOMAIN lobbies', call'.lobby # peers'[p].lobby_id
  PROVE  PublicDue(p)'
<1> DEFINE l == peers'[p].lobby_id
<1>1. /\ view'[p].lobby = lobby_public'[l]
      /\ view'[p].peers = [q \in lobbies'[l].peer_ids \cap DOMAIN peers' |-> peer_public'[q]]
  BY DEF LobbyJoined
<1>2. Shown(lobby_public[peers[p].lobby_id],
            Due(p, view[p].lobby, unsent.lobby, peers[p].lobby_id))'
  BY <1>1 DEF Due, Shown
<1>3. ASSUME NEW q \in lobbies'[l].peer_ids, SitsWhereListed(q)'
      PROVE  /\ q \in DOMAIN view'[p].peers
             /\ Shown(peer_public[q], Due(p, view[p].peers[q], unsent.public, q))'
  <2>1. q \in DOMAIN peers'
    BY <1>3 DEF SitsWhereListed
  <2>2. QED
    BY <1>1, <1>3, <2>1 DEF Due, Shown
<1>4. QED
  BY <1>2, <1>3 DEF PublicDue

\* UnsentKept keeps all that is queued for those who stay.
LEMMA KeptDiffs ==
  ASSUME TypeInv, UnsentKept
  PROVE  /\ \A l \in DOMAIN lobbies' : SameDiff(unsent.lobby, unsent'.lobby, l)
         /\ \A q \in DOMAIN peers' : /\ SameDiff(unsent.public, unsent'.public, q)
                                     /\ SameDiff(unsent.private, unsent'.private, q)
BY KeptTypes DEF SameDiff

\* Data that stays or is emptied is still no newer than what is queued.
LEMMA KeptAgrees ==
  ASSUME NEW f, NEW g, NEW diffs, NEW rest, Agrees(f, diffs),
         \A x \in DOMAIN rest : /\ x \in DOMAIN diffs /\ rest[x] = diffs[x]
                                /\ diffs[x] \in Diff
                                /\ g[x] = f[x] \/ g[x] = Empty
  PROVE  Agrees(g, rest)
<1>1. \A d \in Diff : DOMAIN d \subseteq Key
  BY DEF Diff
<1>2. \A d \in Diff : AgreesOn(Empty, d)
  BY <1>1 DEF AgreesOn, Empty
<1>3. ASSUME NEW x \in DOMAIN rest PROVE AgreesOn(g[x], rest[x])
  <2>1. /\ x \in DOMAIN diffs /\ rest[x] = diffs[x] /\ diffs[x] \in Diff
        /\ g[x] = f[x] \/ g[x] = Empty
    BY <1>3
  <2>2. AgreesOn(f[x], diffs[x])
    BY <2>1 DEF Agrees
  <2>3. QED
    BY <1>2, <2>1, <2>2
<1>4. QED
  BY <1>3 DEF Agrees

\* So it is after the handlers of GameThread.
LEMMA CarriedAgrees ==
  ASSUME TypeInv, Carried, UnsentKept
  PROVE  /\ Agrees(lobby_public, unsent.lobby) => Agrees(lobby_public, unsent.lobby)'
         /\ Agrees(peer_public, unsent.public) => Agrees(peer_public, unsent.public)'
         /\ Agrees(peer_private, unsent.private) => Agrees(peer_private, unsent.private)'
<1>2. /\ \A x \in DOMAIN unsent'.lobby :
           /\ x \in DOMAIN unsent.lobby /\ x \in DOMAIN lobbies'
           /\ unsent'.lobby[x] = unsent.lobby[x] /\ unsent.lobby[x] \in Diff
      /\ \A x \in DOMAIN unsent'.public :
           /\ x \in DOMAIN unsent.public /\ x \in DOMAIN peers'
           /\ unsent'.public[x] = unsent.public[x] /\ unsent.public[x] \in Diff
      /\ \A x \in DOMAIN unsent'.private :
           /\ x \in DOMAIN unsent.private /\ x \in DOMAIN peers'
           /\ unsent'.private[x] = unsent.private[x] /\ unsent.private[x] \in Diff
  BY KeptTypes, QueuedFacts DEF TypeInv
<1>3. /\ \A l \in DOMAIN lobbies' : lobby_public'[l] = lobby_public[l] \/ lobby_public'[l] = Empty
      /\ \A q \in DOMAIN peers' : /\ peer_public'[q] = peer_public[q] \/ peer_public'[q] = Empty
                                  /\ peer_private'[q] = peer_private[q] \/ peer_private'[q] = Empty
  BY CarriedFacts
<1>4. ASSUME Agrees(lobby_public, unsent.lobby)
      PROVE  Agrees(lobby_public', unsent'.lobby)
  BY <1>2, <1>3, <1>4, KeptAgrees
<1>5. ASSUME Agrees(peer_public, unsent.public)
      PROVE  Agrees(peer_public', unsent'.public)
  BY <1>2, <1>3, <1>5, KeptAgrees
<1>6. ASSUME Agrees(peer_private, unsent.private)
      PROVE  Agrees(peer_private', unsent'.private)
  BY <1>2, <1>3, <1>6, KeptAgrees
<1>7. QED
  BY <1>4, <1>5, <1>6 DEF Agrees

\* Between two calls, nobody loses a seat but c, which may get one, or come back to its own
Staying(c) ==
  /\ Carried /\ UnsentKept
  /\ call = NoCall /\ UNCHANGED call
  /\ Cleared = {}
  /\ AwayInv'
  /\ \A l \in DOMAIN lobbies : /\ l \in DOMAIN lobbies'
                               /\ lobbies[l].peer_ids \subseteq lobbies'[l].peer_ids
                               /\ lobbies'[l].peer_ids \subseteq lobbies[l].peer_ids \cup {c}
  /\ \A q \in DOMAIN peers' \ {c} :
       peers'[q].lobby_id = IF q \in DOMAIN peers THEN peers[q].lobby_id ELSE NoLobby
  /\ \A q \in sockets' \ {c} : HasJoined(q)' => HasJoined(q)
  /\ c \in sockets' => c \in sockets /\ view'[c] = LobbyJoined(c)
  /\ \A q \in (sockets \cap sockets') \ {c} :
       \/ view'[q] = [view[q] EXCEPT !.peers = Put(@, c, peer_public'[c])]
       \/ /\ view'[q] = view[q]
          /\ c \in DOMAIN peers' =>
               /\ c \in DOMAIN peers
               /\ \/ peers'[c].lobby_id # peers[q].lobby_id
                  \/ peers'[c].lobby_id = peers[c].lobby_id

\* Such a step leaves nobody behind.
LEMMA StayingKeeps ==
  ASSUME GameInv, DataInv', TypeInv, PublicSound, NEW c, Staying(c)
  PROVE  PublicSound' /\ (OwnSound => OwnSound')
<1>1. /\ DataInv /\ sockets \subseteq DOMAIN peers /\ sockets \subseteq PeerId
      /\ DataTypes /\ AwayInv'
      /\ Carried /\ UnsentKept /\ call' = NoCall /\ call = NoCall
      /\ NoLobby \notin DOMAIN lobbies /\ NoLobby \notin DOMAIN lobbies'
  BY IdAssumption DEF GameInv, Inv, KeepInv, ConnInv, DataInv, TypeInv, Staying
<1>2. /\ \A l \in DOMAIN lobbies : lobby_public'[l] = lobby_public[l] /\ l \in DOMAIN lobbies'
      /\ \A q \in DOMAIN peers \cap DOMAIN peers' :
           peer_public'[q] = peer_public[q] /\ peer_private'[q] = peer_private[q]
      /\ \A q \in DOMAIN peers' \ DOMAIN peers : peer_private'[q] = Empty
  BY <1>1, CarriedFacts DEF Staying
<1>3. \A q \in DOMAIN peers : InLobby(q) => /\ peers[q].lobby_id \in DOMAIN lobbies
                                            /\ q \in lobbies[peers[q].lobby_id].peer_ids
  BY <1>1 DEF DataInv, SeatsExist, InLobby, LobbyOf
<1>4. ASSUME NEW q, q # c, SitsWhereListed(q)'
      PROVE  SitsWhereListed(q)
  <2>1. SUFFICES ASSUME NEW l \in DOMAIN lobbies, q \in lobbies[l].peer_ids
                 PROVE  q \in DOMAIN peers /\ peers[q].lobby_id = l
    BY DEF SitsWhereListed
  <2>2. l \in DOMAIN lobbies' /\ q \in lobbies'[l].peer_ids /\ l # NoLobby
    BY <1>1, <2>1 DEF Staying
  <2>3. q \in DOMAIN peers' /\ peers'[q].lobby_id = l
    BY <1>4, <2>2 DEF SitsWhereListed
  <2>4. QED
    BY <1>4, <2>2, <2>3 DEF Staying
<1>5. ASSUME NEW p \in PeerId, HasJoined(p)', SitsWhereListed(p)'
      PROVE  PublicDue(p)'
  <2>1. /\ p \in sockets' /\ p \in DOMAIN peers'
        /\ peers'[p].lobby_id \in DOMAIN lobbies'
        /\ peers'[p].lobby_id # NoLobby
    BY <1>1, <1>5 DEF HasJoined, InLobby, DataInv, SeatsExist, LobbyOf
  <2>2. CASE p = c
    <3>1. view'[p] = LobbyJoined(p)
      BY <2>1, <2>2 DEF Staying
    <3>2. call'.lobby # peers'[p].lobby_id
      BY <1>1, <2>1 DEF NoCall
    <3>3. QED
      BY <2>1, <3>1, <3>2, FreshDue
  <2>3. CASE p # c
    <3> DEFINE l == peers[p].lobby_id
    <3>1. HasJoined(p) /\ p \in sockets /\ p \in DOMAIN peers /\ SitsWhereListed(p)
      BY <1>4, <1>5, <2>1, <2>3 DEF Staying, HasJoined
    <3>2. /\ peers'[p].lobby_id = l /\ l \in DOMAIN lobbies /\ l \in DOMAIN lobbies'
          /\ call.lobby # l
      BY <1>1, <1>2, <1>3, <2>1, <2>3, <3>1 DEF Staying, HasJoined, NoCall
    <3>3. DOMAIN view[p] = DOMAIN NoView
      BY <1>1 DEF DataTypes
    <3>4. /\ view'[p].lobby = view[p].lobby
          /\ \A q : q # c /\ q \in DOMAIN view[p].peers =>
               q \in DOMAIN view'[p].peers /\ view'[p].peers[q] = view[p].peers[q]
      <4>1. \A q : q \in DOMAIN view[p].peers =>
              /\ q \in DOMAIN Put(view[p].peers, c, peer_public'[c])
              /\ q # c => Put(view[p].peers, c, peer_public'[c])[q] = view[p].peers[q]
        BY DEF Put
      <4>2. CASE view'[p] = [view[p] EXCEPT !.peers = Put(@, c, peer_public'[c])]
        <5>1. /\ view'[p].lobby = view[p].lobby
              /\ view'[p].peers = Put(view[p].peers, c, peer_public'[c])
          BY <3>3, <4>2 DEF NoView
        <5>2. QED
          BY <4>1, <5>1
      <4>3. CASE view'[p] = view[p]
        BY <4>3
      <4>4. QED
        BY <2>1, <2>3, <3>1, <4>2, <4>3 DEF Staying
    <3>5. ASSUME NEW q \in lobbies'[l].peer_ids, SitsWhereListed(q)'
          PROVE  \/ /\ q \in lobbies[l].peer_ids /\ SitsWhereListed(q)
                    /\ peer_public'[q] = peer_public[q]
                    /\ q \in DOMAIN view[p].peers =>
                         q \in DOMAIN view'[p].peers /\ view'[p].peers[q] = view[p].peers[q]
                    /\ SameDiff(unsent.public, unsent'.public, q)
                 \/ /\ q \in DOMAIN view'[p].peers /\ view'[p].peers[q] = peer_public'[q]
                    /\ call.lobby # l
      <4>1. q \in DOMAIN peers' /\ peers'[q].lobby_id = l
        BY <3>2, <3>5 DEF SitsWhereListed
      <4>2. SameDiff(unsent.public, unsent'.public, q)
        BY <1>1, <4>1, KeptDiffs
      <4>3. CASE q # c
        <5>1. q \in lobbies[l].peer_ids /\ SitsWhereListed(q) /\ q \in DOMAIN peers
          BY <1>4, <3>2, <3>5, <4>3 DEF Staying, SitsWhereListed
        <5>2. QED
          BY <1>2, <3>4, <4>1, <4>2, <4>3, <5>1
      <4>4. CASE q = c /\ view'[p] = [view[p] EXCEPT !.peers = Put(@, c, peer_public'[c])]
        <5>1. view'[p].peers = Put(view[p].peers, c, peer_public'[c])
          BY <3>3, <4>4 DEF NoView
        <5>2. QED
          BY <3>2, <4>4, <5>1 DEF Put
      <4>5. CASE /\ q = c /\ view'[p] = view[p]
                 /\ c \in DOMAIN peers' =>
                      /\ c \in DOMAIN peers
                      /\ \/ peers'[c].lobby_id # peers[p].lobby_id
                         \/ peers'[c].lobby_id = peers[c].lobby_id
        <5>1. c \in DOMAIN peers /\ peers[c].lobby_id = l
          BY <4>1, <4>5
        <5>2. c \in lobbies[l].peer_ids
          BY <1>1, <1>3, <3>2, <5>1 DEF InLobby
        <5>3. SitsWhereListed(c)
          BY <3>5, <4>1, <4>5, <5>1 DEF SitsWhereListed, Staying
        <5>4. QED
          BY <1>2, <4>1, <4>2, <4>5, <5>1, <5>2, <5>3
      <4>6. QED
        BY <2>1, <2>3, <3>1, <4>3, <4>4, <4>5 DEF Staying
    <3>6. KeptPublic(p)
      BY <1>1, <1>2, <3>1, <3>2, <3>4, <3>5, KeptDiffs DEF KeptPublic
    <3>7. QED
      BY <3>6, KeptDue
  <2>4. QED
    BY <2>2, <2>3
<1>6. PublicSound'
  BY <1>1, <1>5, CarriedAgrees DEF PublicSound
<1>7. ASSUME OwnSound PROVE OwnSound'
  <2>1. ASSUME NEW q \in DOMAIN peers', \A l \in DOMAIN lobbies' : q \notin lobbies'[l].peer_ids
        PROVE  peer_private'[q] = Empty
    BY <1>2, <1>7, <2>1 DEF OwnSound, Staying
  <2>2. ASSUME NEW p \in sockets' \cap DOMAIN peers' PROVE OwnDue(p)'
    <3>1. ~CallMember(p) /\ ~CallMember(p)'
      BY <1>1 DEF CallMember, NoCall
    <3>2. CASE p \in sockets
      <4>1. p \in DOMAIN peers /\ DOMAIN view[p] = DOMAIN NoView
        BY <1>1, <3>2 DEF DataTypes
      <4>2. view'[p].own = view[p].own
        <5>1. CASE p = c
          BY <2>2, <5>1 DEF Staying, LobbyJoined
        <5>2. CASE view'[p] = [view[p] EXCEPT !.peers = Put(@, c, peer_public'[c])]
          BY <4>1, <5>2 DEF NoView
        <5>3. CASE p # c /\ view'[p] = view[p]
          BY <5>3
        <5>4. QED
          BY <2>2, <3>2, <5>1, <5>2, <5>3 DEF Staying
      <4>3. QED
        BY <1>2, <1>7, <2>2, <3>1, <3>2, <4>1, <4>2 DEF OwnSound, OwnDue
    <3>3. CASE p \notin sockets
      <4>1. p \in PeerId
        BY <1>1, <2>2 DEF DataInv
      <4>2. view'[p].own = peer_private'[p]
        BY <1>1, <2>2, <3>3, <4>1, CarriedFacts DEF Told, PeerState, NoView
      <4>3. QED
        BY <3>1, <4>2 DEF OwnDue, Shown
    <3>4. QED
      BY <3>2, <3>3
  <2>3. QED
    BY <1>1, <1>7, <2>1, <2>2, CarriedAgrees DEF OwnSound
<1>8. QED
  BY <1>6, <1>7

\* What all these steps have in common
BetweenData == Carried /\ UnsentKept /\ call = NoCall /\ UNCHANGED call

\* A step that changes no seat.
LEMMA StillStays ==
  ASSUME GameInv, DataInv', ConnInv', AwayInv, BetweenData, Still
  PROVE  Staying(NoPeer)
<1>1. DataInv /\ ConnInv /\ KeepInv /\ Carried
  BY DEF GameInv, Inv, BetweenData
<1>2. Cleared = {}
  BY NobodyLeaves DEF Still
<1>3. NoPeer \notin sockets' /\ NoPeer \notin DOMAIN peers'
  BY IdAssumption DEF DataInv, ConnInv
<1>4. \A q \in sockets \cap sockets' : view'[q] = view[q]
  <2>1. \A q : ~Hears(q, SeatTypes)
    BY SilentHears DEF Still
  <2>2. QED
    BY <1>1, <2>1, CarriedFacts, ToldFacts DEF ConnInv
<1>5. AwayInv'
  BY DEF AwayInv, Still, InLobby
<1>6. ASSUME NEW q \in sockets', HasJoined(q)'
      PROVE  HasJoined(q)
  <2>1. /\ q \in DOMAIN peers' /\ peers'[q].lobby_id # NoLobby /\ ~peers'[q].disconnected
    BY <1>6 DEF HasJoined, InLobby
  <2>2. q \in DOMAIN peers /\ InLobby(q)
    BY <2>1 DEF Still, InLobby
  <2>3. ~peers[q].disconnected
    BY <1>1, <2>1, <2>2 DEF Still, DataInv, PeerData
  <2>4. QED
    BY <2>2, <2>3 DEF AwayInv, HasJoined
<1>7. QED
  BY <1>2, <1>3, <1>4, <1>5, <1>6 DEF Staying, BetweenData, Still

\* A member that comes back.
LEMMA ReturnStays ==
  ASSUME GameInv, AwayInv, BetweenData, NEW c, Returns(c)
  PROVE  Staying(c)
<1>1. DataInv /\ ConnInv /\ KeepInv /\ Carried
  BY DEF GameInv, Inv, BetweenData
<1>2. Cleared = {}
  BY NobodyLeaves DEF Returns
<1>3. /\ DOMAIN peers' = DOMAIN peers
      /\ \A q \in DOMAIN peers : peers'[q].lobby_id = peers[q].lobby_id
      /\ \A q \in DOMAIN peers \ {c} : peers'[q] = peers[q]
      /\ lobbies' = lobbies /\ sockets' = sockets
      /\ c \in sockets /\ c \in DOMAIN peers
  BY <1>1 DEF Returns, Sender, DataInv, PeerData
<1>4. \A q \in sockets \ {c} : view'[q] = view[q]
  <2>1. \A q : q # c => ~Hears(q, SeatTypes)
    BY DEF Returns, Hears
  <2>2. QED
    BY <1>1, <1>3, <2>1, CarriedFacts, ToldFacts DEF ConnInv
<1>5. view'[c] = LobbyJoined(c)
  <2>1. Hears(c, {"JOINED_LOBBY"})
    BY DEF Returns, Hears
  <2>2. QED
    BY <1>1, <1>3, <2>1, CarriedFacts, ToldFacts DEF ConnInv
<1>6. AwayInv'
  BY <1>3 DEF AwayInv, InLobby
<1>7. \A q \in sockets' \ {c} : HasJoined(q)' => HasJoined(q)
  BY <1>3 DEF HasJoined, InLobby
<1>8. QED
  BY <1>2, <1>3, <1>4, <1>5, <1>6, <1>7 DEF Staying, BetweenData

\* A peer that creates a lobby, which nobody else sits in.
LEMMA FoundStays ==
  ASSUME GameInv, AwayInv, BetweenData, NEW c, NEW l, Founds(c, l)
  PROVE  Staying(c)
<1>1. DataInv /\ ConnInv /\ KeepInv /\ Carried
  BY DEF GameInv, Inv, BetweenData
<1>2. /\ DOMAIN peers' = DOMAIN peers
      /\ \A q \in DOMAIN peers \ {c} : peers'[q] = peers[q]
      /\ peers'[c].lobby_id = l
      /\ sockets' = sockets
      /\ c \in sockets /\ c \in DOMAIN peers
  BY <1>1 DEF Founds, Sender, DataInv, PeerData
<1>3. /\ l \notin DOMAIN lobbies /\ l # NoLobby
      /\ \A k \in DOMAIN lobbies : k \in DOMAIN lobbies' /\ lobbies'[k] = lobbies[k]
  BY IdAssumption DEF Founds, FreshLobbyId, Put
<1>4. Cleared = {}
  BY <1>3, NobodyLeaves
<1>5. \A q \in sockets \ {c} : view'[q] = view[q]
  <2>1. \A q : q # c => ~Hears(q, SeatTypes)
    BY DEF Founds, Hears
  <2>2. QED
    BY <1>1, <1>2, <2>1, CarriedFacts, ToldFacts DEF ConnInv
<1>6. view'[c] = LobbyJoined(c)
  <2>1. Hears(c, {"LOBBY_CREATED"})
    BY DEF Founds, Hears
  <2>2. QED
    BY <1>1, <1>2, <2>1, CarriedFacts, ToldFacts DEF ConnInv
<1>7. AwayInv'
  BY <1>2 DEF AwayInv, InLobby
<1>8. \A q \in sockets' \ {c} : HasJoined(q)' => HasJoined(q)
  BY <1>2 DEF HasJoined, InLobby
<1>9. \A q \in DOMAIN peers : peers[q].lobby_id # l
  BY <1>1, <1>3 DEF DataInv, SeatsExist, InLobby, LobbyOf
<1>10. QED
  BY <1>1, <1>2, <1>3, <1>4, <1>5, <1>6, <1>7, <1>8, <1>9 DEF Staying, BetweenData, KeepInv

\* A peer that joins, of which the members that sit in the lobby hear.
LEMMA JoinStays ==
  ASSUME GameInv, AwayInv, BetweenData, NEW c, NEW l, Joins(c, l)
  PROVE  Staying(c)
<1> DEFINE members == lobbies[l].peer_ids
<1>1. DataInv /\ ConnInv /\ KeepInv /\ Carried
  BY DEF GameInv, Inv, BetweenData
<1>2. /\ DOMAIN peers' = DOMAIN peers
      /\ peers'[c].lobby_id = l
      /\ \A q \in DOMAIN peers \ {c} : peers'[q] = peers[q]
      /\ sockets' = sockets
      /\ c \in sockets /\ c \in DOMAIN peers
      /\ l \in DOMAIN lobbies
  <2>1. PICK order : peers' = [peers EXCEPT ![c].order_id = order, ![c].lobby_id = l,
                                            ![c].disconnected = FALSE]
    BY DEF Joins
  <2>2. c \in DOMAIN peers /\ peers[c] \in PeerData
    BY <1>1 DEF Joins, Sender, DataInv
  <2>3. /\ DOMAIN peers' = DOMAIN peers /\ peers'[c].lobby_id = l
        /\ \A q \in DOMAIN peers \ {c} : peers'[q] = peers[q]
    BY <2>1, <2>2 DEF PeerData
  <2>4. QED
    BY <2>3 DEF Joins, Sender
<1>3. /\ DOMAIN lobbies' = DOMAIN lobbies
      /\ lobbies'[l].peer_ids = members \cup {c}
      /\ \A k \in DOMAIN lobbies \ {l} : lobbies'[k] = lobbies[k]
  <2>1. PICK order : lobbies' = [lobbies EXCEPT ![l].order_id_counter = order,
                                                ![l].peer_ids = @ \cup {c}]
    BY DEF Joins
  <2>2. lobbies[l] \in LobbyData
    BY <1>1, <1>2 DEF DataInv
  <2>3. QED
    BY <1>2, <2>1, <2>2 DEF LobbyData
<1>4. Cleared = {}
  BY <1>3, NobodyLeaves
<1>5. view'[c] = LobbyJoined(c)
  <2>1. Hears(c, {"JOINED_LOBBY"})
    BY DEF Joins, Hears
  <2>2. QED
    BY <1>1, <1>2, <2>1, CarriedFacts, ToldFacts DEF ConnInv
<1>6. \A n \in notices' : n.to \in members \ {c} /\ n.type = "PEER_JOINED"
  BY SentFacts DEF Joins
<1>7. \A q \in sockets \ (members \cup {c}) : view'[q] = view[q]
  <2>1. ASSUME NEW q, q \notin members \cup {c} PROVE ~Hears(q, SeatTypes)
    <3>1. \A n \in notices' : n.to # q
      BY <1>6, <2>1
    <3>2. answer'.to # q
      BY <2>1 DEF Joins
    <3>3. QED
      BY <3>1, <3>2, Zenon DEF Hears
  <2>2. QED
    BY <1>1, <1>2, <2>1, CarriedFacts, ToldFacts DEF ConnInv
<1>8. \A q \in (sockets \cap members) \ {c} :
         view'[q] = [view[q] EXCEPT !.peers = Put(@, c, peer_public'[c])]
  <2>1. SUFFICES ASSUME NEW q \in (sockets \cap members) \ {c}
                 PROVE  Told(q) = [view[q] EXCEPT !.peers = Put(@, c, peer_public'[c])]
    BY <1>1, CarriedFacts DEF ConnInv
  <2>2. q # c /\ answer'.to = c
    BY DEF Joins
  <2>3. /\ ~Hears(q, {"JOINED_LOBBY", "LOBBY_CREATED"})
        /\ ~Hears(q, {"LOBBY_LEFT", "LOBBY_KICKED"})
    BY <1>6, <2>2 DEF Hears
  <2>4. Hears(q, {"PEER_JOINED"})
    <3>1. q \in (members \ {c}) \ DOMAIN disconnected_peers
      BY <1>1, <2>2 DEF KeepInv
    <3>2. send(members \ {c}, "PEER_JOINED") \subseteq notices'
      BY DEF Joins
    <3>3. QED
      BY <3>1, <3>2, SendReaches
  <2>5. QED
    BY <1>2, <2>2, <2>3, <2>4 DEF Told
<1>9. AwayInv'
  BY <1>2 DEF AwayInv, InLobby
<1>10. \A q \in sockets' \ {c} : HasJoined(q)' => HasJoined(q)
  BY <1>2 DEF HasJoined, InLobby
<1>11. \A q \in sockets \ (members \cup {c}) : peers[q].lobby_id # l
  BY <1>1, <1>2, IdAssumption DEF KeepInv, DataInv, SeatsExist, InLobby, LobbyOf
<1> HIDE DEF members
<1>12. \A q \in (sockets \cap sockets') \ {c} :
         \/ view'[q] = [view[q] EXCEPT !.peers = Put(@, c, peer_public'[c])]
         \/ view'[q] = view[q] /\ peers'[c].lobby_id # peers[q].lobby_id
  BY <1>2, <1>7, <1>8, <1>11
<1>13. \A k \in DOMAIN lobbies : /\ lobbies[k].peer_ids \subseteq lobbies'[k].peer_ids
                                 /\ lobbies'[k].peer_ids \subseteq lobbies[k].peer_ids \cup {c}
  BY <1>3 DEF members
<1>14. QED
  BY <1>2, <1>3, <1>4, <1>5, <1>9, <1>10, <1>12, <1>13 DEF Staying, BetweenData

\* L lose their seats, and those in E their data, too; they may stay listed
Leaving(L, E) ==
  /\ E \subseteq L
  /\ UNCHANGED sockets /\ UnsentKept /\ call'.lobby = call.lobby
  /\ DOMAIN peers' = DOMAIN peers
  /\ \A q \in DOMAIN peers : IF q \in L THEN peers'[q].lobby_id = NoLobby ELSE peers'[q] = peers[q]
  /\ \A q \in DOMAIN peers :
       IF q \in E THEN peer_public'[q] = Empty /\ peer_private'[q] = Empty
       ELSE peer_public'[q] = peer_public[q] /\ peer_private'[q] = peer_private[q]
  /\ \A l \in DOMAIN lobbies' : /\ l \in DOMAIN lobbies
                                /\ lobbies'[l].peer_ids \subseteq lobbies[l].peer_ids
                                /\ lobby_public'[l] = lobby_public[l]
  /\ \A l \in DOMAIN lobbies : \A q \in lobbies[l].peer_ids \ E :
       l \in DOMAIN lobbies' /\ q \in lobbies'[l].peer_ids
  /\ \A p \in sockets \ L :
       /\ view'[p].lobby = view[p].lobby /\ view'[p].own = view[p].own
       /\ \A q \in DOMAIN view[p].peers \ L :
            q \in DOMAIN view'[p].peers /\ view'[p].peers[q] = view[p].peers[q]

\* Those who stay keep what they have been told. Who leaves must not hold private data
\* any more.
LEMMA LeavingKeeps ==
  ASSUME GameInv, TypeInv, PublicSound, NEW L, NEW E, Leaving(L, E)
  PROVE  /\ PublicSound'
         /\ OwnSound /\ (\A p \in (DOMAIN peers \cap L) \ E : peer_private[p] = Empty) => OwnSound'
<1>1. /\ DataInv /\ sockets \subseteq DOMAIN peers /\ sockets \subseteq PeerId
      /\ sockets' = sockets /\ DOMAIN peers' = DOMAIN peers /\ E \subseteq L
      /\ call'.lobby = call.lobby
      /\ NoLobby \notin DOMAIN lobbies
  BY IdAssumption DEF GameInv, Inv, KeepInv, ConnInv, DataInv, Leaving
<1>2. \A q \in DOMAIN peers : InLobby(q) => /\ peers[q].lobby_id \in DOMAIN lobbies
                                            /\ q \in lobbies[peers[q].lobby_id].peer_ids
  BY <1>1 DEF DataInv, SeatsExist, InLobby, LobbyOf
<1>3. /\ \A x \in DOMAIN unsent'.lobby :
           /\ x \in DOMAIN unsent.lobby /\ x \in DOMAIN lobbies'
           /\ unsent'.lobby[x] = unsent.lobby[x] /\ unsent.lobby[x] \in Diff
      /\ \A x \in DOMAIN unsent'.public :
           /\ x \in DOMAIN unsent.public /\ x \in DOMAIN peers'
           /\ unsent'.public[x] = unsent.public[x] /\ unsent.public[x] \in Diff
      /\ \A x \in DOMAIN unsent'.private :
           /\ x \in DOMAIN unsent.private /\ x \in DOMAIN peers'
           /\ unsent'.private[x] = unsent.private[x] /\ unsent.private[x] \in Diff
  BY KeptTypes, QueuedFacts DEF TypeInv, Leaving
<1>4. /\ \A l \in DOMAIN lobbies' : SameDiff(unsent.lobby, unsent'.lobby, l)
      /\ \A q \in DOMAIN peers' : /\ SameDiff(unsent.public, unsent'.public, q)
                                  /\ SameDiff(unsent.private, unsent'.private, q)
  BY KeptDiffs DEF Leaving
<1>5. ASSUME NEW q, q \notin L, SitsWhereListed(q)'
      PROVE  SitsWhereListed(q)
  <2>1. SUFFICES ASSUME NEW l \in DOMAIN lobbies, q \in lobbies[l].peer_ids
                 PROVE  q \in DOMAIN peers /\ peers[q].lobby_id = l
    BY DEF SitsWhereListed
  <2>2. l \in DOMAIN lobbies' /\ q \in lobbies'[l].peer_ids
    BY <1>1, <1>5, <2>1 DEF Leaving
  <2>3. q \in DOMAIN peers' /\ peers'[q].lobby_id = l
    BY <1>5, <2>2 DEF SitsWhereListed
  <2>4. QED
    BY <1>1, <1>5, <2>3 DEF Leaving
<1>6. ASSUME NEW p \in PeerId, HasJoined(p)', SitsWhereListed(p)'
      PROVE  PublicDue(p)'
  <2> DEFINE l == peers[p].lobby_id
  <2>1. /\ p \in sockets /\ p \in DOMAIN peers /\ p \notin L /\ peers'[p] = peers[p]
        /\ InLobby(p) /\ HasJoined(p) /\ SitsWhereListed(p)
    BY <1>1, <1>5, <1>6 DEF HasJoined, InLobby, Leaving
  <2>2. /\ l \in DOMAIN lobbies /\ p \in lobbies[l].peer_ids
        /\ l \in DOMAIN lobbies'
    BY <1>1, <1>2, <2>1 DEF Leaving
  <2>3. ASSUME NEW q \in lobbies'[l].peer_ids, SitsWhereListed(q)'
        PROVE  /\ q \in lobbies[l].peer_ids /\ SitsWhereListed(q)
               /\ peer_public'[q] = peer_public[q]
               /\ q \in DOMAIN view[p].peers =>
                    q \in DOMAIN view'[p].peers /\ view'[p].peers[q] = view[p].peers[q]
               /\ SameDiff(unsent.public, unsent'.public, q)
    <3>1. q \in DOMAIN peers' /\ peers'[q].lobby_id = l
      BY <2>2, <2>3 DEF SitsWhereListed
    <3>2. q \notin L
      BY <1>1, <2>2, <3>1 DEF Leaving
    <3>3. SitsWhereListed(q)
      BY <1>5, <2>3, <3>2
    <3>4. QED
      BY <1>1, <1>4, <2>1, <2>2, <2>3, <3>1, <3>2, <3>3 DEF Leaving
  <2>4. KeptPublic(p)
    BY <1>1, <1>4, <2>1, <2>2, <2>3 DEF KeptPublic, Leaving
  <2>5. QED
    BY <2>4, KeptDue
<1>7. Agrees(lobby_public', unsent'.lobby)
  <2>1. Agrees(lobby_public, unsent.lobby)
    BY DEF PublicSound
  <2>2. \A x \in DOMAIN lobbies' : lobby_public'[x] = lobby_public[x]
    BY DEF Leaving
  <2>3. QED
    BY <1>3, <2>1, <2>2, KeptAgrees
<1>8. Agrees(peer_public', unsent'.public)
  <2>1. Agrees(peer_public, unsent.public)
    BY DEF PublicSound
  <2>2. \A x \in DOMAIN peers' : peer_public'[x] = peer_public[x] \/ peer_public'[x] = Empty
    BY <1>1 DEF Leaving
  <2>3. QED
    BY <1>3, <2>1, <2>2, KeptAgrees
<1>9. AwayInv'
  BY <1>1 DEF PublicSound, AwayInv, InLobby, Leaving
<1>10. PublicSound'
  BY <1>6, <1>7, <1>8, <1>9 DEF PublicSound, Agrees
<1>11. ASSUME OwnSound, \A p \in (DOMAIN peers \cap L) \ E : peer_private[p] = Empty
       PROVE  OwnSound'
  <2>1. Agrees(peer_private', unsent'.private)
    <3>1. Agrees(peer_private, unsent.private)
      BY <1>11 DEF OwnSound
    <3>2. \A x \in DOMAIN peers' : peer_private'[x] = peer_private[x] \/ peer_private'[x] = Empty
      BY <1>1 DEF Leaving
    <3>3. QED
      BY <1>3, <3>1, <3>2, KeptAgrees
  <2>2. ASSUME NEW q \in DOMAIN peers', \A l \in DOMAIN lobbies' : q \notin lobbies'[l].peer_ids
        PROVE  peer_private'[q] = Empty
    BY <1>1, <1>11, <2>2 DEF OwnSound, Leaving
  <2>3. ASSUME NEW p \in sockets' \cap DOMAIN peers' PROVE OwnDue(p)'
    <3>1. CASE p \in L
      <4>1. peer_private'[p] = Empty
        BY <1>1, <1>11, <2>3, <3>1 DEF Leaving
      <4>2. QED
        BY <4>1 DEF OwnDue, Shown, Empty
    <3>2. CASE p \notin L
      <4>1. peer_private'[p] = peer_private[p] /\ view'[p].own = view[p].own
        BY <1>1, <2>3, <3>2 DEF Leaving
      <4>2. CallMember(p)' <=> CallMember(p)
        BY <1>1, <3>2 DEF CallMember, Lobby, Leaving
      <4>3. Flushed(view[p].own, unsent'.private, p) = Flushed(view[p].own, unsent.private, p)
        BY <1>4, <2>3 DEF SameDiff, Flushed
      <4>4. OwnDue(p)
        BY <1>1, <1>11, <2>3 DEF OwnSound
      <4>5. QED
        BY <4>1, <4>2, <4>3, <4>4 DEF OwnDue
    <3>3. QED
      BY <3>1, <3>2
  <2>4. QED
    BY <2>1, <2>2, <2>3 DEF OwnSound, Agrees
<1>12. QED
  BY <1>10, <1>11

\* A member that is taken out of lobby l, and all members if that disbands the lobby.
LEMMA RemoveLeaves ==
  ASSUME GameInv, TypeInv, NEW l \in DOMAIN lobbies, NEW c \in lobbies[l].peer_ids,
         NEW by, NEW kicked, remove_peer_from_lobby(l, c, by, kicked),
         UNCHANGED sockets, Carried, UnsentKept, call'.lobby = call.lobby
  PROVE  \E L : Leaving(L, L)
<1> DEFINE members == lobbies[l].peer_ids
           L == IF Disbands(lobbies[l], c) THEN members ELSE {c}
<1>1. /\ DataInv /\ sockets \subseteq PeerId
      /\ lobbies[l] \in LobbyData
      /\ \A p \in PeerId : DOMAIN view[p] = DOMAIN NoView
  BY DEF GameInv, Inv, ConnInv, DataInv, TypeInv, DataTypes
<1>2. /\ L \subseteq members /\ c \in L
      /\ Ends(lobbies[l], c) => L = members
      /\ L # members => L = {c}
  BY DEF Ends, Disbands
<1>3. /\ DOMAIN peers' = DOMAIN peers
      /\ \A q \in DOMAIN peers :
           IF q \in L THEN peers'[q].lobby_id = NoLobby ELSE peers'[q] = peers[q]
  <2>1. peers' = [q \in DOMAIN peers |-> IF q \in L THEN leave_lobby(peers[q]) ELSE peers[q]]
    BY DEF remove_peer_from_lobby
  <2> HIDE DEF L
  <2>2. QED
    BY <1>1, <2>1, LeaveLobbyType DEF DataInv
<1>4. /\ \A k \in DOMAIN lobbies \ {l} : k \in DOMAIN lobbies' /\ lobbies'[k] = lobbies[k]
      /\ IF Ends(lobbies[l], c) THEN DOMAIN lobbies' = DOMAIN lobbies \ {l}
         ELSE DOMAIN lobbies' = DOMAIN lobbies /\ lobbies'[l].peer_ids = members \ {c}
  <2>1. CASE Ends(lobbies[l], c)
    <3>1. lobbies' = Drop(lobbies, {l})
      BY <2>1 DEF remove_peer_from_lobby
    <3>2. QED
      BY <2>1, <3>1 DEF Drop, Restrict
  <2>2. CASE ~Ends(lobbies[l], c)
    <3>1. \E host : lobbies' = [lobbies EXCEPT ![l].host = host, ![l].peer_ids = @ \ {c}]
      BY <2>2 DEF remove_peer_from_lobby
    <3>2. QED
      BY <1>1, <2>2, <3>1 DEF LobbyData
  <2>3. QED
    BY <2>1, <2>2
<1>5. Removed \subseteq L /\ Cleared = L
  <2>1. /\ \A k \in DOMAIN lobbies \ {l} : Gone(k) = {}
        /\ Gone(l) = IF Ends(lobbies[l], c) THEN members ELSE {c}
    BY <1>4 DEF Gone
  <2>2. Gone(l) \subseteq L
    BY <1>2, <2>1
  <2>3. (IF \E p \in Gone(l) : Disbands(lobbies[l], p) THEN members ELSE Gone(l)) = L
    <3>1. CASE Ends(lobbies[l], c)
      BY <1>2, <2>1, <3>1
    <3>2. CASE ~Ends(lobbies[l], c)
      BY <2>1, <3>2
    <3>3. QED
      BY <3>1, <3>2
  <2> HIDE DEF L
  <2>4. Removed \subseteq L
    BY <2>1, <2>2 DEF Removed
  <2>5. Cleared = L
    BY <2>1, <2>3 DEF Cleared
  <2>6. QED
    BY <2>4, <2>5
<1>6. ASSUME NEW p \in sockets \ L
      PROVE  view'[p] = view[p] \/ view'[p] = [view[p] EXCEPT !.peers = Drop(@, Removed)]
  <2>1. view'[p] = Told(p)
    BY <1>1, CarriedFacts
  <2>2. PICK verdict : LeaveNotices(lobbies[l], c, by, kicked, verdict)
    BY DEF remove_peer_from_lobby
  <2>3. /\ ~Hears(p, {"JOINED_LOBBY", "LOBBY_CREATED"})
        /\ ~Hears(p, {"PEER_JOINED"})
        /\ ~Hears(p, {"LOBBY_LEFT", "LOBBY_KICKED"})
    BY <1>2, <2>2, LeaveHears
  <2>4. QED
    BY <2>1, <2>3 DEF Told
<1> HIDE DEF L
<1>7. ASSUME NEW p \in sockets \ L
      PROVE  /\ view'[p].lobby = view[p].lobby /\ view'[p].own = view[p].own
             /\ \A q \in DOMAIN view[p].peers \ L :
                  q \in DOMAIN view'[p].peers /\ view'[p].peers[q] = view[p].peers[q]
  <2>1. CASE view'[p] = [view[p] EXCEPT !.peers = Drop(@, Removed)]
    <3>1. /\ view'[p].lobby = view[p].lobby /\ view'[p].own = view[p].own
          /\ view'[p].peers = Drop(view[p].peers, Removed)
      BY <1>1, <2>1 DEF NoView
    <3>2. QED
      BY <1>5, <3>1 DEF Drop, Restrict
  <2>2. CASE view'[p] = view[p]
    BY <2>2
  <2>3. QED
    BY <1>6, <2>1, <2>2
<1>8. \A q \in DOMAIN peers :
        IF q \in L THEN peer_public'[q] = Empty /\ peer_private'[q] = Empty
        ELSE peer_public'[q] = peer_public[q] /\ peer_private'[q] = peer_private[q]
  BY <1>3, <1>5, CarriedFacts
<1>9. \A k \in DOMAIN lobbies' : /\ k \in DOMAIN lobbies
                                 /\ lobbies'[k].peer_ids \subseteq lobbies[k].peer_ids
                                 /\ lobby_public'[k] = lobby_public[k]
  BY <1>4, CarriedFacts
<1>10. \A k \in DOMAIN lobbies : \A q \in lobbies[k].peer_ids \ L :
         k \in DOMAIN lobbies' /\ q \in lobbies'[k].peer_ids
  BY <1>2, <1>4
<1>11. QED
  BY <1>3, <1>7, <1>8, <1>9, <1>10 DEF Leaving

\* A peer that is no member, and the members that its kick turns out. It keeps the data
\* that another lobby has given to it.
LEMMA StrangerLeaves ==
  ASSUME GameInv, TypeInv, NEW q, kick_stranger(q)
  PROVE  Leaving(TurnedOut(q) \cup {q}, TurnedOut(q))
<1> DEFINE E == TurnedOut(q)
           L == E \cup {q}
<1>1. /\ DataInv /\ sockets \subseteq PeerId
      /\ call.lobby \in DOMAIN lobbies /\ Lobby \in LobbyData
      /\ q \in DOMAIN peers \ Lobby.peer_ids
      /\ E \subseteq Lobby.peer_ids
      /\ \A p \in PeerId : DOMAIN view[p] = DOMAIN NoView
      /\ DOMAIN lobby_public = DOMAIN lobbies
      /\ DOMAIN peer_public = DOMAIN peers /\ DOMAIN peer_private = DOMAIN peers
  BY DEF GameInv, Inv, ConnInv, DataInv, TypeInv, DataTypes, kick_stranger, Effect, Lobby, TurnedOut
<1>2. /\ UNCHANGED sockets /\ UnsentKept /\ Next_effect /\ Effect
      /\ LeaveNotices(Lobby, q, NoPeer, TRUE, "allow")
      /\ lobby_public' = Kept(lobby_public)
      /\ peer_public' = Emptied(peer_public, E)
      /\ peer_private' = Emptied(peer_private, E)
      /\ view' = [p \in PeerId |->
                    IF Hears(p, {"LOBBY_LEFT", "LOBBY_KICKED"}) THEN NoView
                    ELSE IF Hears(p, {"PEER_LEFT", "PEER_KICKED"})
                      THEN [view[p] EXCEPT !.peers = Drop(@, {q})]
                    ELSE view[p]]
  BY DEF kick_stranger, conn, TurnedOut
<1>3. call'.lobby = call.lobby
  BY <1>2, EffectFacts
<1>4. /\ DOMAIN peers' = DOMAIN peers
      /\ \A x \in DOMAIN peers : IF x \in L THEN peers'[x].lobby_id = NoLobby
                                 ELSE peers'[x] = peers[x]
  BY StrangerFacts DEF GameInv
<1>5. /\ \A k \in DOMAIN lobbies \ {call.lobby} : k \in DOMAIN lobbies' /\ lobbies'[k] = lobbies[k]
      /\ IF Ends(Lobby, q) THEN DOMAIN lobbies' = DOMAIN lobbies \ {call.lobby}
                                /\ E = Lobby.peer_ids
         ELSE DOMAIN lobbies' = DOMAIN lobbies /\ lobbies'[call.lobby].peer_ids = Lobby.peer_ids
  <2>1. CASE Ends(Lobby, q)
    <3>1. lobbies' = Drop(lobbies, {call.lobby}) /\ Lobby.peer_ids \subseteq E
      BY <2>1, StrangerFacts DEF GameInv
    <3>2. QED
      BY <1>1, <2>1, <3>1 DEF Drop, Restrict
  <2>2. CASE ~Ends(Lobby, q)
    <3>1. \E host : lobbies' = [lobbies EXCEPT ![call.lobby].host = host]
      BY <2>2, StrangerFacts DEF GameInv
    <3>2. QED
      BY <1>1, <2>2, <3>1 DEF LobbyData, Lobby
  <2>3. QED
    BY <2>1, <2>2
<1>6. \A k \in DOMAIN lobbies' : /\ k \in DOMAIN lobbies
                                 /\ lobbies'[k].peer_ids \subseteq lobbies[k].peer_ids
                                 /\ lobby_public'[k] = lobby_public[k]
  <2>1. \A k \in DOMAIN lobbies' : /\ k \in DOMAIN lobbies
                                   /\ lobbies'[k].peer_ids \subseteq lobbies[k].peer_ids
    BY <1>1, <1>5 DEF Lobby
  <2>2. QED
    BY <1>2, <2>1 DEF Kept
<1>7. \A k \in DOMAIN lobbies : \A x \in lobbies[k].peer_ids \ E :
        k \in DOMAIN lobbies' /\ x \in lobbies'[k].peer_ids
  BY <1>1, <1>5 DEF Lobby
<1>8. ASSUME NEW p \in sockets \ L
      PROVE  view'[p] = view[p] \/ view'[p] = [view[p] EXCEPT !.peers = Drop(@, {q})]
  <2>1. ~Hears(p, {"LOBBY_LEFT", "LOBBY_KICKED"})
    <3>1. p # q /\ ~(Disbands(Lobby, q) /\ p \in Lobby.peer_ids)
      BY <1>8 DEF TurnedOut
    <3>2. QED
      BY <1>2, <3>1, LeaveHears
  <2>2. QED
    BY <1>1, <1>2, <1>8, <2>1
<1>9. \A x \in DOMAIN peers :
        IF x \in E THEN peer_public'[x] = Empty /\ peer_private'[x] = Empty
        ELSE peer_public'[x] = peer_public[x] /\ peer_private'[x] = peer_private[x]
  BY <1>1, <1>2 DEF Emptied
<1> HIDE DEF E
<1>10. ASSUME NEW p \in sockets \ L
       PROVE  /\ view'[p].lobby = view[p].lobby /\ view'[p].own = view[p].own
              /\ \A x \in DOMAIN view[p].peers \ L :
                   x \in DOMAIN view'[p].peers /\ view'[p].peers[x] = view[p].peers[x]
  <2>1. CASE view'[p] = [view[p] EXCEPT !.peers = Drop(@, {q})]
    <3>1. /\ view'[p].lobby = view[p].lobby /\ view'[p].own = view[p].own
          /\ view'[p].peers = Drop(view[p].peers, {q})
      BY <1>1, <1>10, <2>1 DEF NoView
    <3>2. QED
      BY <3>1 DEF Drop, Restrict
  <2>2. CASE view'[p] = view[p]
    BY <2>2
  <2>3. QED
    BY <1>8, <1>10, <2>1, <2>2
<1>11. E \subseteq L
  OBVIOUS
<1> HIDE DEF L
<1>12. Leaving(L, E)
  BY <1>2, <1>3, <1>4, <1>6, <1>7, <1>9, <1>10, <1>11 DEF Leaving
<1>13. QED
  BY <1>12 DEF L, E

\* A step within a call in which nobody gets, loses or leaves a seat
SeatsUnmoved ==
  /\ UNCHANGED <<peers, sockets>>
  /\ DOMAIN lobbies' = DOMAIN lobbies
  /\ \A l \in DOMAIN lobbies : lobbies'[l].peer_ids = lobbies[l].peer_ids

\* What that leaves as it is.
LEMMA UnmovedFacts ==
  ASSUME GameInv, TypeInv, SeatsUnmoved
  PROVE  /\ AwayInv => AwayInv'
         /\ \A q : /\ SitsWhereListed(q)' <=> SitsWhereListed(q)
                   /\ HasJoined(q)' <=> HasJoined(q)
                   /\ call'.lobby = call.lobby => (CallMember(q)' <=> CallMember(q))
         /\ \A q : HasJoined(q) =>
              /\ q \in sockets /\ q \in DOMAIN peers
              /\ peers[q].lobby_id \in DOMAIN lobbies
              /\ q \in lobbies[peers[q].lobby_id].peer_ids
BY DEF GameInv, Inv, DataInv, SeatsExist, InLobby, LobbyOf, SeatsUnmoved, AwayInv,
       SitsWhereListed, HasJoined, CallMember, Lobby

\* The diff of new data is queued in place of the old one.
LEMMA PutAgrees ==
  ASSUME NEW f, NEW diffs, DOMAIN diffs \subseteq DOMAIN f, Agrees(f, diffs),
         NEW x, NEW d, NEW diff, AgreesOn(d, diff)
  PROVE  Agrees([f EXCEPT ![x] = d], Put(diffs, x, diff)) \/ x \notin DOMAIN f
BY DEF Agrees, Put

\* A script writes data of its lobby, which the members will be sent.
LEMMA LobbyWriteKeeps ==
  ASSUME GameInv, TypeInv, PublicSound, write_lobby_public_data
  PROVE  PublicSound' /\ (OwnSound => OwnSound')
<1> DEFINE l == call.lobby
<1>1. PICK e \in Edits(lobby_public, unsent.lobby, l) :
        /\ lobby_public' = [lobby_public EXCEPT ![l] = e.data]
        /\ unsent' = [unsent EXCEPT !.lobby = Put(@, l, e.diff)]
  BY DEF write_lobby_public_data
<1>2. /\ UNCHANGED <<peers, lobbies, sockets, peer_public, peer_private, view>>
      /\ call'.lobby = call.lobby /\ ~fabricated /\ call.lobby \in DOMAIN lobbies
      /\ unsent'.lobby = Put(unsent.lobby, l, e.diff)
      /\ unsent'.public = unsent.public /\ unsent'.private = unsent.private
      /\ DOMAIN lobby_public = DOMAIN lobbies
  BY <1>1, EffectFacts
  DEF write_lobby_public_data, vars, data, conn, TypeInv, DataTypes
<1>3. SeatsUnmoved
  BY <1>2 DEF SeatsUnmoved
<1>4. /\ l \in DOMAIN unsent.lobby => AgreesOn(lobby_public[l], unsent.lobby[l])
      /\ lobby_public[l] \in Data
      /\ l \in DOMAIN unsent.lobby => unsent.lobby[l] \in Diff
  BY <1>2, QueuedFacts DEF PublicSound, Agrees, TypeInv, DataTypes
<1>5. /\ AgreesOn(e.data, e.diff)
      /\ \A v : Shown(lobby_public[l], Flushed(v, unsent.lobby, l)) =>
                  Shown(e.data, Apply(v, e.diff))
  BY <1>4, EditFacts
<1>6. Agrees(lobby_public', unsent'.lobby)
  <2>1. DOMAIN unsent.lobby \subseteq DOMAIN lobby_public /\ Agrees(lobby_public, unsent.lobby)
    BY <1>2 DEF TypeInv, ScriptTypeOK, PublicSound
  <2>2. QED
    BY <1>1, <1>2, <1>5, <2>1, PutAgrees
<1>7. ASSUME NEW p \in PeerId, HasJoined(p), SitsWhereListed(p)
      PROVE  PublicDue(p)'
  <2>1. PublicDue(p) /\ peers[p].lobby_id \in DOMAIN lobbies
    BY <1>3, <1>7, UnmovedFacts DEF PublicSound
  <2>2. Shown(lobby_public[peers[p].lobby_id],
              Due(p, view[p].lobby, unsent.lobby, peers[p].lobby_id))'
    <3>1. CASE peers[p].lobby_id = l
      <4>1. Shown(lobby_public[l], Flushed(view[p].lobby, unsent.lobby, l))
        BY <2>1, <3>1 DEF PublicDue, Due
      <4>2. Shown(e.data, Apply(view[p].lobby, e.diff))
        BY <1>5, <4>1
      <4>3. lobby_public'[l] = e.data /\ l \in DOMAIN unsent'.lobby /\ unsent'.lobby[l] = e.diff
        BY <1>1, <1>2 DEF Put
      <4>4. QED
        BY <1>2, <3>1, <4>2, <4>3 DEF Due, Flushed
    <3>2. CASE peers[p].lobby_id # l
      BY <1>1, <1>2, <2>1, <3>2 DEF PublicDue, Due
    <3>3. QED
      BY <3>1, <3>2
  <2>3. QED
    BY <1>2, <1>3, <2>1, <2>2, UnmovedFacts DEF PublicDue, Due
<1>8. PublicSound'
  BY <1>2, <1>3, <1>6, <1>7, UnmovedFacts DEF PublicSound, Agrees
<1>9. OwnSound => OwnSound'
  BY <1>2 DEF OwnSound, OwnDue, CallMember, Lobby, Agrees
<1>10. QED
  BY <1>8, <1>9

\* A script writes public data of a member, which the members will be sent if the member
\* sits in no other lobby.
LEMMA PeerWriteKeeps ==
  ASSUME GameInv, TypeInv, PublicSound, NEW q \in PeerId, write_peer_public_data(q)
  PROVE  PublicSound' /\ (OwnSound => OwnSound')
<1>1. PICK e \in Edits(peer_public, unsent.public, q) :
        /\ peer_public' = [peer_public EXCEPT ![q] = e.data]
        /\ unsent' = [unsent EXCEPT !.public = Put(@, q, e.diff)]
  BY DEF write_peer_public_data
<1>2. /\ UNCHANGED <<peers, lobbies, sockets, lobby_public, peer_private, view>>
      /\ call'.lobby = call.lobby /\ call.lobby \in DOMAIN lobbies
      /\ q \in Lobby.peer_ids /\ q \in DOMAIN peers
      /\ unsent'.public = Put(unsent.public, q, e.diff)
      /\ unsent'.lobby = unsent.lobby /\ unsent'.private = unsent.private
      /\ DOMAIN peer_public = DOMAIN peers
  BY <1>1, EffectFacts
  DEF write_peer_public_data, vars, data, conn, TypeInv, DataTypes
<1>3. SeatsUnmoved
  BY <1>2 DEF SeatsUnmoved
<1>4. /\ q \in DOMAIN unsent.public => AgreesOn(peer_public[q], unsent.public[q])
      /\ peer_public[q] \in Data
      /\ q \in DOMAIN unsent.public => unsent.public[q] \in Diff
  BY <1>2, QueuedFacts DEF PublicSound, Agrees, TypeInv, DataTypes
<1>5. /\ AgreesOn(e.data, e.diff)
      /\ \A v : Shown(peer_public[q], Flushed(v, unsent.public, q)) =>
                  Shown(e.data, Apply(v, e.diff))
  BY <1>4, EditFacts
<1>6. Agrees(peer_public', unsent'.public)
  <2>1. DOMAIN unsent.public \subseteq DOMAIN peer_public /\ Agrees(peer_public, unsent.public)
    BY <1>2 DEF TypeInv, ScriptTypeOK, PublicSound
  <2>2. QED
    BY <1>1, <1>2, <1>5, <2>1, PutAgrees
<1>7. ASSUME NEW p \in PeerId, HasJoined(p), SitsWhereListed(p)
      PROVE  PublicDue(p)'
  <2> DEFINE l == peers[p].lobby_id
  <2>1. PublicDue(p) /\ l \in DOMAIN lobbies
    BY <1>3, <1>7, UnmovedFacts DEF PublicSound
  <2>2. ASSUME NEW x \in lobbies[l].peer_ids, SitsWhereListed(x)
        PROVE  /\ x \in DOMAIN view[p].peers
               /\ Shown(peer_public'[x], Due(p, view[p].peers[x], unsent.public, x)')
    <3>1. /\ x \in DOMAIN view[p].peers
          /\ Shown(peer_public[x], Due(p, view[p].peers[x], unsent.public, x))
      BY <2>1, <2>2 DEF PublicDue
    <3>2. CASE x = q
      <4>1. l = call.lobby
        BY <1>2, <2>1, <2>2, <3>2 DEF SitsWhereListed, Lobby
      <4>2. Shown(e.data, Apply(view[p].peers[q], e.diff))
        BY <1>5, <3>1, <3>2, <4>1 DEF Due
      <4>3. /\ peer_public'[q] = e.data
            /\ q \in DOMAIN unsent'.public /\ unsent'.public[q] = e.diff
        BY <1>1, <1>2 DEF Put
      <4>4. QED
        BY <1>2, <3>1, <3>2, <4>1, <4>2, <4>3 DEF Due, Flushed
    <3>3. CASE x # q
      <4>1. /\ peer_public'[x] = peer_public[x]
            /\ SameDiff(unsent.public, unsent'.public, x)
        <5>1. x \in DOMAIN peers
          BY <2>1, <2>2 DEF SitsWhereListed
        <5>2. QED
          BY <1>1, <1>2, <3>3, <5>1 DEF SameDiff, Put
      <4>2. QED
        BY <1>2, <3>1, <4>1 DEF Due, SameDiff, Flushed
    <3>4. QED
      BY <3>2, <3>3
  <2>3. QED
    BY <1>2, <1>3, <2>1, <2>2, UnmovedFacts DEF PublicDue, Due
<1>8. PublicSound'
  BY <1>2, <1>3, <1>6, <1>7, UnmovedFacts DEF PublicSound, Agrees
<1>9. OwnSound => OwnSound'
  BY <1>2 DEF OwnSound, OwnDue, CallMember, Lobby, Agrees
<1>10. QED
  BY <1>8, <1>9

\* A script writes private data of a member, which that member will be sent.
LEMMA PrivateWriteKeeps ==
  ASSUME GameInv, TypeInv, PublicSound, NEW q \in PeerId, write_peer_private_data(q)
  PROVE  PublicSound' /\ (OwnSound => OwnSound')
<1>1. PICK e \in Edits(peer_private, unsent.private, q) :
        /\ peer_private' = [peer_private EXCEPT ![q] = e.data]
        /\ unsent' = [unsent EXCEPT !.private = Put(@, q, e.diff)]
  BY DEF write_peer_private_data
<1>2. /\ UNCHANGED <<peers, lobbies, sockets, lobby_public, peer_public, view>>
      /\ call'.lobby = call.lobby /\ call.lobby \in DOMAIN lobbies
      /\ q \in Lobby.peer_ids /\ q \in DOMAIN peers
      /\ unsent'.private = Put(unsent.private, q, e.diff)
      /\ unsent'.lobby = unsent.lobby /\ unsent'.public = unsent.public
      /\ DOMAIN peer_private = DOMAIN peers
  BY <1>1, EffectFacts
  DEF write_peer_private_data, vars, data, conn, TypeInv, DataTypes
<1>3. SeatsUnmoved
  BY <1>2 DEF SeatsUnmoved
<1>4. PublicSound'
  BY <1>2, <1>3, UnmovedFacts DEF PublicSound, PublicDue, Due, Agrees
<1>5. ASSUME OwnSound PROVE OwnSound'
  <2>1. /\ q \in DOMAIN unsent.private => AgreesOn(peer_private[q], unsent.private[q])
        /\ peer_private[q] \in Data
        /\ q \in DOMAIN unsent.private => unsent.private[q] \in Diff
    BY <1>2, <1>5, QueuedFacts DEF OwnSound, Agrees, TypeInv, DataTypes
  <2>2. /\ AgreesOn(e.data, e.diff)
        /\ \A v : Shown(peer_private[q], Flushed(v, unsent.private, q)) =>
                    Shown(e.data, Apply(v, e.diff))
    BY <2>1, EditFacts
  <2>3. Agrees(peer_private', unsent'.private)
    <3>1. DOMAIN unsent.private \subseteq DOMAIN peer_private
          /\ Agrees(peer_private, unsent.private)
      BY <1>2, <1>5 DEF TypeInv, ScriptTypeOK, OwnSound
    <3>2. QED
      BY <1>1, <1>2, <2>2, <3>1, PutAgrees
  <2>4. ASSUME NEW x \in DOMAIN peers, \A l \in DOMAIN lobbies : x \notin lobbies[l].peer_ids
        PROVE  peer_private'[x] = Empty
    <3>1. x # q
      BY <1>2, <2>4 DEF Lobby
    <3>2. QED
      BY <1>1, <1>2, <1>5, <2>4, <3>1 DEF OwnSound
  <2>5. ASSUME NEW p \in sockets \cap DOMAIN peers PROVE OwnDue(p)'
    <3>1. OwnDue(p)
      BY <1>5, <2>5 DEF OwnSound
    <3>2. CASE p = q
      <4>1. CallMember(p) /\ CallMember(p)'
        BY <1>2, <3>2 DEF CallMember, Lobby
      <4>2. Shown(e.data, Apply(view[p].own, e.diff))
        BY <2>2, <3>1, <3>2, <4>1 DEF OwnDue
      <4>3. peer_private'[q] = e.data /\ q \in DOMAIN unsent'.private /\ unsent'.private[q] = e.diff
        BY <1>1, <1>2 DEF Put
      <4>4. QED
        BY <1>2, <3>2, <4>1, <4>2, <4>3 DEF OwnDue, Flushed
    <3>3. CASE p # q
      <4>1. peer_private'[p] = peer_private[p] /\ SameDiff(unsent.private, unsent'.private, p)
        BY <1>1, <1>2, <2>5, <3>3 DEF SameDiff, Put
      <4>2. CallMember(p)' <=> CallMember(p)
        BY <1>2 DEF CallMember, Lobby
      <4>3. QED
        BY <1>2, <3>1, <4>1, <4>2 DEF OwnDue, SameDiff, Flushed
    <3>4. QED
      BY <3>2, <3>3
  <2>6. QED
    BY <1>2, <2>3, <2>4, <2>5 DEF OwnSound, Agrees
<1>6. QED
  BY <1>4, <1>5

\* Settings and hosts are no data.
LEMMA SettingSound ==
  ASSUME GameInv, TypeInv, PublicSound, write_setting \/ \E q \in PeerId : set_lobby_host(q)
  PROVE  PublicSound' /\ (OwnSound => OwnSound')
<1>1. Effect /\ UNCHANGED <<peers, sockets, shared, view, unsent>>
  BY DEF write_setting, set_lobby_host, conn
<1>2. call.lobby \in DOMAIN lobbies /\ call'.lobby = call.lobby
  <2>1. CASE write_setting
    <3>1. \E S \in SUBSET {"sealed", "max_players", "name", "tags"} :
            call' = [call EXCEPT !.effects = @ - 1, !.settings = @ \cup S]
      BY <2>1 DEF write_setting
    <3>2. QED
      BY <1>1, <3>1, EffectFacts
  <2>2. CASE ~write_setting
    BY <1>1, <2>2, EffectFacts DEF set_lobby_host
  <2>3. QED
    BY <2>1, <2>2
<1>3. SeatsUnmoved
  BY <1>1, <1>2, SettingFacts DEF SeatsUnmoved, GameInv, Lobby
<1>4. PublicSound'
  BY <1>1, <1>2, <1>3, UnmovedFacts
  DEF PublicSound, PublicDue, Due, Agrees, shared, SeatsUnmoved
<1>5. OwnSound => OwnSound'
  BY <1>1, <1>2, <1>3, UnmovedFacts DEF OwnSound, OwnDue, Agrees, shared, SeatsUnmoved
<1>6. QED
  BY <1>4, <1>5

\* What is left over from earlier calls does not harm those who will be sent it by this one.
LEMMA BeginKeeps ==
  ASSUME GameInv, TypeInv, PublicSound, NEW c \in PeerId, on_lobby_call_begin(c)
  PROVE  PublicSound' /\ (OwnSound => OwnSound')
<1>1. /\ UNCHANGED <<peers, lobbies, sockets, shared, view, unsent>>
      /\ call = NoCall /\ ~fabricated
  BY DEF on_lobby_call_begin, data_vars, vars, data, conn, Running, Idle
<1>2. SeatsUnmoved
  BY <1>1 DEF SeatsUnmoved
<1>3. UNCHANGED <<lobby_public, peer_public, peer_private>> /\ call.lobby = NoLobby
      /\ NoLobby \notin DOMAIN lobbies
  BY <1>1, IdAssumption DEF shared, NoCall, GameInv, Inv, DataInv
<1>4. ASSUME NEW f, NEW x, Agrees(f, unsent.lobby), NEW v, Shown(f[x], v)
      PROVE  Shown(f[x], Flushed(v, unsent.lobby, x))
  BY <1>4, FlushShows DEF Agrees
<1>5. ASSUME NEW f, NEW x, Agrees(f, unsent.public), NEW v, Shown(f[x], v)
      PROVE  Shown(f[x], Flushed(v, unsent.public, x))
  BY <1>5, FlushShows DEF Agrees
<1>6. ASSUME NEW f, NEW x, Agrees(f, unsent.private), NEW v, Shown(f[x], v)
      PROVE  Shown(f[x], Flushed(v, unsent.private, x))
  BY <1>6, FlushShows DEF Agrees
<1>7. ASSUME NEW p \in PeerId, HasJoined(p), SitsWhereListed(p)
      PROVE  PublicDue(p)'
  <2> DEFINE l == peers[p].lobby_id
  <2>1. PublicDue(p) /\ l \in DOMAIN lobbies /\ l # call.lobby
    BY <1>2, <1>3, <1>7, UnmovedFacts DEF PublicSound
  <2>2. Shown(lobby_public[l], view[p].lobby)
    BY <2>1 DEF PublicDue, Due
  <2>3. Shown(lobby_public[l], Flushed(view[p].lobby, unsent.lobby, l))
    BY <1>4, <2>2 DEF PublicSound
  <2>4. ASSUME NEW q \in lobbies[l].peer_ids, SitsWhereListed(q)
        PROVE  /\ q \in DOMAIN view[p].peers
               /\ Shown(peer_public[q], view[p].peers[q])
               /\ Shown(peer_public[q], Flushed(view[p].peers[q], unsent.public, q))
    <3>1. q \in DOMAIN view[p].peers /\ Shown(peer_public[q], view[p].peers[q])
      BY <2>1, <2>4 DEF PublicDue, Due
    <3>2. QED
      BY <1>5, <3>1 DEF PublicSound
  <2>5. QED
    BY <1>1, <1>2, <1>3, <2>2, <2>3, <2>4, UnmovedFacts DEF PublicDue, Due
<1>8. PublicSound'
  BY <1>1, <1>2, <1>3, <1>7, UnmovedFacts DEF PublicSound, Agrees
<1>9. ASSUME OwnSound PROVE OwnSound'
  <2>1. ASSUME NEW p \in sockets \cap DOMAIN peers PROVE OwnDue(p)'
    <3>1. ~CallMember(p)
      BY <1>3 DEF CallMember
    <3>2. Shown(peer_private[p], view[p].own)
      BY <1>9, <2>1, <3>1 DEF OwnSound, OwnDue
    <3>3. Shown(peer_private[p], Flushed(view[p].own, unsent.private, p))
      BY <1>6, <1>9, <3>2 DEF OwnSound
    <3>4. QED
      BY <1>1, <1>3, <3>2, <3>3 DEF OwnDue
  <2>2. QED
    BY <1>1, <1>3, <1>9, <2>1 DEF OwnSound, Agrees
<1>10. QED
  BY <1>8, <1>9

\* At the end of the call they are sent it.
LEMMA EndKeeps ==
  ASSUME GameInv, TypeInv, PublicSound, on_lobby_call_end
  PROVE  PublicSound' /\ (OwnSound => OwnSound')
<1> DEFINE l == call.lobby
<1>1. /\ UNCHANGED <<peers, lobbies, sockets, lobby_public, peer_public, peer_private>>
      /\ call' = NoCall /\ l \in DOMAIN lobbies
      /\ \A p \in PeerId : view'[p] = IF p \in Reached(Lobby.peer_ids) THEN Updated(p) ELSE view[p]
      /\ \A p \in PeerId : DOMAIN view[p] = DOMAIN NoView
      /\ sockets \subseteq PeerId
  BY DEF on_lobby_call_end, shared, conn, TypeInv, DataTypes, GameInv, Inv, ConnInv
<1>2. SeatsUnmoved
  BY <1>1 DEF SeatsUnmoved
<1>3. call'.lobby = NoLobby /\ NoLobby \notin DOMAIN lobbies
  BY <1>1, IdAssumption DEF NoCall, GameInv, Inv, DataInv
<1>4. ASSUME NEW p \in sockets
      PROVE  IF p \in Lobby.peer_ids
             THEN /\ view'[p].lobby = Flushed(view[p].lobby, unsent.lobby, l)
                  /\ view'[p].peers = [q \in DOMAIN view[p].peers |->
                       IF q \in Lobby.peer_ids THEN Flushed(view[p].peers[q], unsent.public, q)
                       ELSE view[p].peers[q]]
                  /\ view'[p].own = Flushed(view[p].own, unsent.private, p)
             ELSE view'[p] = view[p]
  <2>1. CASE p \in Lobby.peer_ids
    <3>1. p \in Reached(Lobby.peer_ids)
      BY <2>1 DEF Reached, GameInv, KeepInv
    <3>2. view'[p] = Updated(p) /\ DOMAIN view[p] = DOMAIN NoView
      BY <1>1, <3>1
    <3>3. QED
      BY <2>1, <3>2 DEF Updated, NoView
  <2>2. CASE p \notin Lobby.peer_ids
    BY <1>1, <2>2 DEF Reached
  <2>3. QED
    BY <2>1, <2>2
<1>5. /\ DOMAIN unsent'.lobby = {}
      /\ \A x \in DOMAIN unsent'.public :
           x \in DOMAIN unsent.public /\ unsent'.public[x] = unsent.public[x]
      /\ \A x \in DOMAIN unsent'.private :
           x \in DOMAIN unsent.private /\ unsent'.private[x] = unsent.private[x]
  BY DeliveredFacts
<1>6. Agrees(lobby_public, unsent.lobby)' /\ Agrees(peer_public, unsent.public)'
  BY <1>1, <1>5 DEF PublicSound, Agrees
<1>7. ASSUME NEW p \in PeerId, HasJoined(p), SitsWhereListed(p)
      PROVE  PublicDue(p)'
  <2> DEFINE m == peers[p].lobby_id
  <2>1. PublicDue(p) /\ m \in DOMAIN lobbies /\ p \in sockets /\ p \in lobbies[m].peer_ids
    BY <1>2, <1>7, UnmovedFacts DEF PublicSound
  <2>2. p \in Lobby.peer_ids <=> m = l
    BY <1>1, <1>7, <2>1 DEF SitsWhereListed, Lobby
  <2>3. view'[p].lobby = Due(p, view[p].lobby, unsent.lobby, m)
    BY <1>4, <2>1, <2>2 DEF Due
  <2>4. ASSUME NEW q \in lobbies[m].peer_ids, SitsWhereListed(q)
        PROVE  /\ q \in DOMAIN view'[p].peers
               /\ Shown(peer_public[q], view'[p].peers[q])
    <3>1. /\ q \in DOMAIN view[p].peers
          /\ Shown(peer_public[q], Due(p, view[p].peers[q], unsent.public, q))
      BY <2>1, <2>4 DEF PublicDue
    <3>2. m = l => q \in Lobby.peer_ids
      BY <2>4 DEF Lobby
    <3>3. q \in DOMAIN view'[p].peers
          /\ view'[p].peers[q] = Due(p, view[p].peers[q], unsent.public, q)
      BY <1>4, <2>1, <2>2, <3>1, <3>2 DEF Due
    <3>4. QED
      BY <3>1, <3>3
  <2>5. Shown(lobby_public[m], view'[p].lobby)
    BY <2>1, <2>3 DEF PublicDue
  <2>6. QED
    BY <1>1, <1>2, <1>3, <2>1, <2>4, <2>5, UnmovedFacts DEF PublicDue, Due
<1>8. PublicSound'
  BY <1>1, <1>2, <1>6, <1>7, UnmovedFacts DEF PublicSound
<1>9. ASSUME OwnSound PROVE OwnSound'
  <2>1. ASSUME NEW p \in sockets \cap DOMAIN peers PROVE OwnDue(p)'
    <3>1. OwnDue(p) /\ (CallMember(p) <=> p \in Lobby.peer_ids)
      BY <1>1, <1>9, <2>1 DEF OwnSound, CallMember
    <3>2. view'[p].own = IF CallMember(p) THEN Flushed(view[p].own, unsent.private, p)
                         ELSE view[p].own
      BY <1>4, <2>1, <3>1
    <3>3. ~CallMember(p)'
      BY <1>1, <1>3 DEF CallMember
    <3>4. QED
      BY <1>1, <3>1, <3>2, <3>3 DEF OwnDue
  <2>2. Agrees(peer_private, unsent.private)'
    BY <1>1, <1>5, <1>9 DEF OwnSound, Agrees
  <2>3. QED
    BY <1>1, <1>9, <2>1, <2>2 DEF OwnSound
<1>10. QED
  BY <1>8, <1>9

\* Whatever happens between two calls.
LEMMA BetweenKeeps ==
  ASSUME GameInv, GameInv', TypeInv, PublicSound, BetweenCalls, ~fabricated, ~fabricated'
  PROVE  PublicSound' /\ (OwnSound => OwnSound')
<1>1. BetweenData /\ Next /\ AwayInv
  BY DEF BetweenCalls, BetweenData, GameStep, Running, PublicSound
<1>2. DataInv' /\ ConnInv'
  BY DEF GameInv, Inv
<1>3. CASE \E c : Staying(c)
  BY <1>2, <1>3, StayingKeeps
<1>4. CASE Still
  BY <1>1, <1>2, <1>3, <1>4, StillStays
<1>5. CASE (\E c : Returns(c)) \/ \E c, l : Founds(c, l) \/ Joins(c, l)
  BY <1>1, <1>3, <1>5, ReturnStays, FoundStays, JoinStays
<1>6. ASSUME NEW c, NEW l, Leaves(c, l) PROVE PublicSound' /\ (OwnSound => OwnSound')
  <2>1. PICK by \in {NoPeer} \cup (lobbies[l].peer_ids \cap sockets) :
          \E kicked \in BOOLEAN : remove_peer_from_lobby(l, c, by, kicked)
    BY <1>6 DEF Leaves
  <2>2. PICK kicked \in BOOLEAN : remove_peer_from_lobby(l, c, by, kicked)
    BY <2>1
  <2>3. /\ l \in DOMAIN lobbies /\ c \in lobbies[l].peer_ids /\ UNCHANGED sockets
        /\ Carried /\ UnsentKept /\ call'.lobby = call.lobby
    BY <1>1, <1>6 DEF Leaves, BetweenData
  <2>4. PICK L : Leaving(L, L)
    BY <2>2, <2>3, RemoveLeaves
  <2>5. QED
    BY <2>4, LeavingKeeps
<1>7. SeatCases
  BY <1>1, StepCases DEF GameInv
<1>8. QED
  BY <1>4, <1>5, <1>6, <1>7 DEF SeatCases

\* Every step, as long as nothing undefined happens.
LEMMA StepSound ==
  ASSUME GameInv, TypeInv, PublicSound, [ScriptNext]_script_vars, ~fabricated'
  PROVE  /\ PublicSound'
         /\ /\ OwnSound
            /\ \A q \in PeerId : kick_stranger(q) =>
                 \A l \in DOMAIN lobbies : q \notin lobbies[l].peer_ids
            => OwnSound'
<1>1. GameInv' /\ ~fabricated
  BY ScriptGame, FabricatedStays
<1>2. CASE BetweenCalls
  BY <1>1, <1>2, BetweenKeeps
<1>3. CASE \E q \in PeerId : kick_peer(q)
  <2>1. PICK q \in PeerId : kick_peer(q)
    BY <1>3
  <2>2. /\ Effect /\ Next_effect
        /\ remove_peer_from_lobby(call.lobby, q, NoPeer, TRUE) /\ q \in lobbies[call.lobby].peer_ids
        /\ UNCHANGED sockets /\ Carried /\ UnsentKept
    BY <2>1 DEF kick_peer, conn, Lobby
  <2>3. call.lobby \in DOMAIN lobbies /\ call'.lobby = call.lobby
    BY <2>2, EffectFacts
  <2>4. PICK L : Leaving(L, L)
    BY <2>2, <2>3, RemoveLeaves
  <2>5. QED
    BY <2>4, LeavingKeeps
<1>4. CASE \E q \in PeerId : kick_stranger(q)
  <2>1. PICK q \in PeerId : kick_stranger(q)
    BY <1>4
  <2>2. Leaving(TurnedOut(q) \cup {q}, TurnedOut(q))
    BY <2>1, StrangerLeaves
  <2>3. /\ PublicSound'
        /\ OwnSound /\ (\A p \in (DOMAIN peers \cap (TurnedOut(q) \cup {q})) \ TurnedOut(q) :
                           peer_private[p] = Empty) => OwnSound'
    BY <2>2, LeavingKeeps
  <2>4. OwnSound /\ (\A l \in DOMAIN lobbies : q \notin lobbies[l].peer_ids) =>
          \A p \in (DOMAIN peers \cap (TurnedOut(q) \cup {q})) \ TurnedOut(q) :
             peer_private[p] = Empty
    BY DEF OwnSound
  <2>5. QED
    BY <2>1, <2>3, <2>4
<1>5. CASE write_lobby_public_data
            \/ \E q \in PeerId : write_peer_public_data(q) \/ write_peer_private_data(q)
  BY <1>5, LobbyWriteKeeps, PeerWriteKeeps, PrivateWriteKeeps
<1>6. CASE write_setting \/ \E q \in PeerId : set_lobby_host(q)
  BY <1>6, SettingSound
<1>7. CASE (\E p \in PeerId : on_lobby_call_begin(p)) \/ on_lobby_call_end
  BY <1>7, BeginKeeps, EndKeeps
<1>8. CASE UNCHANGED script_vars
  <2>1. UNCHANGED <<peers, lobbies, sockets, lobby_public, peer_public, peer_private, view,
                    call, unsent>>
    BY <1>8 DEF script_vars, data_vars, vars, data, conn, shared
  <2>2. SeatsUnmoved
    BY <2>1 DEF SeatsUnmoved
  <2>3. PublicSound'
    BY <2>1, <2>2, UnmovedFacts DEF PublicSound, PublicDue, Due, Agrees
  <2>4. OwnSound => OwnSound'
    BY <2>1 DEF OwnSound, OwnDue, CallMember, Lobby, Agrees
  <2>5. QED
    BY <2>3, <2>4
<1>9. ~fabricate
  BY DEF fabricate
<1>10. QED
  BY <1>2, <1>3, <1>4, <1>5, <1>6, <1>7, <1>8, <1>9 DEF ScriptNext, ScriptEffect

\* Nobody has anything to be told in the beginning.
LEMMA InitSound == ScriptInit => PublicSound /\ OwnSound
<1>1. SUFFICES ASSUME ScriptInit PROVE PublicSound /\ OwnSound
  OBVIOUS
<1>2. /\ unsent = [lobby |-> <<>>, public |-> <<>>, private |-> <<>>]
      /\ peers = <<>> /\ sockets = {}
  BY <1>1 DEF ScriptInit, DataInit, Init
<1>3. DOMAIN unsent.lobby = {} /\ DOMAIN unsent.public = {} /\ DOMAIN unsent.private = {}
      /\ DOMAIN peers = {}
  BY <1>2
<1>4. PublicSound
  BY <1>2, <1>3 DEF PublicSound, AwayInv, Agrees, HasJoined
<1>5. OwnSound
  BY <1>2, <1>3 DEF OwnSound, Agrees
<1>6. QED
  BY <1>4, <1>5

\* Between calls, what is due has been sent.
LEMMA DueIsShown ==
  ASSUME GameInv, Settled
  PROVE  /\ PublicSound => PublicDataShown
         /\ OwnSound => OwnDataShown
<1>1. call.lobby = NoLobby /\ NoLobby \notin DOMAIN lobbies /\ DataInv
  BY IdAssumption DEF Settled, Running, NoCall, GameInv, Inv, DataInv
<1>2. ASSUME PublicSound, NEW p \in PeerId, HasJoined(p), SitsWhereListed(p)
      PROVE  LET l == peers[p].lobby_id IN
             /\ Shown(lobby_public[l], view[p].lobby)
             /\ \A q \in lobbies[l].peer_ids : SitsWhereListed(q) =>
                  q \in DOMAIN view[p].peers /\ Shown(peer_public[q], view[p].peers[q])
  <2>1. PublicDue(p) /\ peers[p].lobby_id # call.lobby
    BY <1>1, <1>2 DEF PublicSound, HasJoined, InLobby
  <2>2. QED
    BY <2>1 DEF PublicDue, Due
<1>3. ASSUME OwnSound, NEW p \in sockets \cap DOMAIN peers
      PROVE  Shown(peer_private[p], view[p].own)
  BY <1>1, <1>3 DEF OwnSound, OwnDue, CallMember
<1>4. QED
  BY <1>2, <1>3 DEF PublicDataShown, OwnDataShown

\* PublicDataShown holds in every game with a script, whatever the scripts write, and whomever
\* they kick or appoint as the host: between two calls the members that sit where they are
\* listed have the lobby's public data and that of the members, entry by entry.
THEOREM PublicDataAlwaysShown == ScriptSpec => []PublicDataShown
<1> DEFINE Sound == fabricated \/ PublicSound
<1>1. ScriptInit => Sound
  BY InitSound
<1>2. GameInv /\ TypeInv /\ Sound /\ [ScriptNext]_script_vars => Sound'
  <2>1. SUFFICES ASSUME GameInv, TypeInv, Sound, [ScriptNext]_script_vars, ~fabricated'
                 PROVE  PublicSound'
    OBVIOUS
  <2>2. QED
    BY <2>1, FabricatedStays, StepSound
<1>3. GameInv /\ Sound => PublicDataShown
  BY DueIsShown DEF PublicDataShown, Settled
<1> HIDE DEF Sound
<1>4. QED
  BY <1>1, <1>2, <1>3, ScriptInitGame, ScriptGame, InitTypes, StepTypes, PTL DEF ScriptSpec

\* DataShown holds as long as no script kicks a peer out of another lobby than its own
\* (KicksNobodyElsewhere): what it writes reaches everybody it is meant for by the end of the
\* call, and clients keep the private data that their peers have.
THEOREM DataAlwaysShown == ScriptSpec /\ KicksNobodyElsewhere => []DataShown
<1> DEFINE Sound == fabricated \/ (PublicSound /\ OwnSound)
<1>1. ScriptInit => Sound
  BY InitSound
<1>2. /\ GameInv /\ TypeInv /\ Sound
      /\ [ScriptNext]_script_vars
      /\ [\A q \in PeerId : kick_stranger(q) =>
            \A l \in DOMAIN lobbies : q \notin lobbies[l].peer_ids]_script_vars
      => Sound'
  <2>1. SUFFICES ASSUME GameInv, TypeInv, Sound, [ScriptNext]_script_vars, ~fabricated',
                        [\A q \in PeerId : kick_stranger(q) =>
                           \A l \in DOMAIN lobbies : q \notin lobbies[l].peer_ids]_script_vars
                 PROVE  PublicSound' /\ OwnSound'
    OBVIOUS
  <2>2. PublicSound /\ OwnSound
    BY <2>1, FabricatedStays
  <2>3. CASE UNCHANGED script_vars
    <3>1. \A q \in PeerId : ~kick_stranger(q)
      <4>1. ASSUME NEW q, kick_stranger(q) PROVE FALSE
        <5>1. call.effects > 0 /\ call \in CallType /\ Next_effect
          BY <2>1, <4>1, EffectFacts DEF kick_stranger, Effect
        <5>2. call.effects \in Nat /\ call'.effects = call.effects - 1
          BY <5>1, ScriptAssumption DEF CallType, Next_effect
        <5>3. QED
          BY <2>3, <5>1, <5>2 DEF script_vars
      <4>2. QED
        BY <4>1
    <3>2. QED
      BY <2>1, <2>2, <3>1, StepSound
  <2>4. CASE \A q \in PeerId : kick_stranger(q) =>
               \A l \in DOMAIN lobbies : q \notin lobbies[l].peer_ids
    BY <2>1, <2>2, <2>4, StepSound
  <2>5. QED
    BY <2>1, <2>3, <2>4
<1>3. GameInv /\ Sound => DataShown
  BY DueIsShown DEF DataShown, PublicDataShown, OwnDataShown, Settled
<1> HIDE DEF Sound
<1>4. QED
  BY <1>1, <1>2, <1>3, ScriptInitGame, ScriptGame, InitTypes, StepTypes, PTL
  DEF ScriptSpec, KicksNobodyElsewhere

-----------------------------------------------------------------------------
(* Subscribers know the list of lobbies *)

\* What has been listed is right, but for the lobbies that a report is pending for or that
\* the end of the call reports
AsideListed ==
  \A p \in lobby_listing_peers, l \in LobbyId \ (lobbies_updated \cup Reported) :
    InformedAside(p, l)

\* As far as a list entry shows it, host aside, l is what it was
AsideKept(l) ==
  /\ l \in DOMAIN lobbies' <=> l \in DOMAIN lobbies
  /\ l \in DOMAIN lobbies => /\ lobbies'[l].sealed = lobbies[l].sealed
                             /\ HostAside(to_dict(lobbies'[l])) = HostAside(to_dict(lobbies[l]))

\* A step that changes no list entry but of lobbies that a report is due for.
LEMMA AsideFacts ==
  ASSUME AsideListed, UNCHANGED listing,
         \A l \in LobbyId \ (lobbies_updated' \cup Reported') :
           l \notin lobbies_updated \cup Reported /\ AsideKept(l)
  PROVE  AsideListed'
<1>1. SUFFICES ASSUME NEW p \in lobby_listing_peers,
                      NEW l \in LobbyId \ (lobbies_updated' \cup Reported')
               PROVE  InformedAside(p, l)'
  BY DEF AsideListed, listing
<1>2. InformedAside(p, l) /\ AsideKept(l) /\ told' = told
  BY DEF AsideListed, listing
<1>3. HostAside(Entry(l))' = HostAside(Entry(l))
  BY <1>2 DEF Entry, AsideKept, HostAside
<1>4. l \in DOMAIN lobbies =>
        HostAside(to_dict(lobbies[l]))' = HostAside(to_dict(lobbies[l]))
  BY <1>2 DEF AsideKept, HostAside
<1>5. HostAside(told[p][l])' = HostAside(told[p][l])
  BY <1>2 DEF HostAside
<1>6. QED
  BY <1>2, <1>3, <1>4, <1>5 DEF InformedAside, AsideKept

\* An effect marks the lobby for a report when it is a setting, and never unmarks it.
LEMMA EffectReports ==
  ASSUME TypeInv, Effect
  PROVE  /\ Next_effect => Reported' = Reported
         /\ write_setting => Reported' = {call.lobby}
<1>1. call \in CallType
  BY DEF TypeInv, ScriptTypeOK, CallType
<1>2. ASSUME Next_effect PROVE Reported' = Reported
  <2>1. call'.settings = call.settings /\ call'.lobby = call.lobby
    BY <1>1, <1>2 DEF Next_effect, CallType
  <2>2. QED
    BY <2>1 DEF Reported
<1>3. ASSUME write_setting PROVE Reported' = {call.lobby}
  <2>1. PICK x \in {"sealed", "max_players", "name", "tags"} :
          call' = [call EXCEPT !.effects = @ - 1, !.settings = @ \cup {x}]
    BY <1>3 DEF write_setting
  <2>2. call'.settings = call.settings \cup {x} /\ call'.lobby = call.lobby
    BY <1>1, <2>1 DEF CallType
  <2>3. QED
    BY <2>2 DEF Reported
<1>4. QED
  BY <1>2, <1>3

\* The host is all that a change of it changes in a list entry.
LEMMA HostIsAside ==
  ASSUME NEW d \in LobbyData, NEW q
  PROVE  /\ [d EXCEPT !.host = q].sealed = d.sealed
         /\ HostAside(to_dict([d EXCEPT !.host = q])) = HostAside(to_dict(d))
<1> DEFINE e == [d EXCEPT !.host = q]
<1>1. /\ e.name = d.name /\ e.sealed = d.sealed /\ e.max_players = d.max_players
      /\ e.peer_ids = d.peer_ids /\ e.password = d.password /\ e.tags = d.tags
  BY DEF LobbyData
<1> HIDE DEF e
<1>2. ASSUME NEW lobby
      PROVE  HostAside(to_dict(lobby)) =
               [n |-> lobby.name, h |-> NoPeer, s |-> lobby.sealed, m |-> lobby.max_players,
                p |-> Cardinality(lobby.peer_ids),
                has_password |-> lobby.password # NoPassword, t |-> lobby.tags]
  <2>1. to_dict(lobby) # Unlisted
    <3>1. DOMAIN to_dict(lobby) # DOMAIN Unlisted
      BY DEF to_dict, Unlisted
    <3>2. QED
      BY <3>1
  <2>2. QED
    BY <2>1 DEF HostAside, to_dict
<1>3. QED
  BY <1>1, <1>2 DEF e

\* Every step of a game with a script.
LEMMA ScriptListens ==
  ASSUME GameInv, TypeInv, AllListed, ListenersConnected, [ScriptNext]_script_vars
  PROVE  /\ ListenersConnected'
         /\ AsideListed /\ ~fabricated' => AsideListed'
<1>1. Inv /\ KeepInv /\ FiniteLobbies
  BY DEF GameInv
<1>2. ASSUME UNCHANGED <<listing, conn>>,
             AsideListed =>
               \A l \in LobbyId \ (lobbies_updated' \cup Reported') :
                 l \notin lobbies_updated \cup Reported /\ AsideKept(l)
      PROVE  ListenersConnected' /\ (AsideListed => AsideListed')
  BY <1>2, AsideFacts DEF ListenersConnected, listing, conn
<1>3. CASE BetweenCalls
  <2>1. StepTells
    BY <1>1, <1>3, StepListens DEF BetweenCalls, GameStep
  <2>2. ASSUME AsideListed, ~fabricated' PROVE AsideListed'
    <3>1. ~Running /\ UNCHANGED call
      BY <1>3, <2>2, FabricatedStays DEF BetweenCalls
    <3>2. Reported = {} /\ Reported' = {}
      BY <3>1 DEF Running, NoCall, Reported
    <3>3. ASSUME NEW p \in lobby_listing_peers', NEW l \in LobbyId \ lobbies_updated'
          PROVE  InformedAside(p, l)'
      <4>1. CASE Informed(p, l)'
        BY <4>1 DEF Informed, InformedAside
      <4>2. CASE StillTold(p, l)
        <5>1. InformedAside(p, l)
          BY <2>2, <3>2, <4>2 DEF StillTold, AsideListed
        <5>2. QED
          BY <4>2, <5>1 DEF StillTold, InformedAside, Entry, HostAside
      <4>3. QED
        BY <2>1, <4>1, <4>2 DEF StepTells
    <3>4. QED
      BY <3>2, <3>3 DEF AsideListed
  <2>3. QED
    BY <2>1, <2>2 DEF StepTells
<1>4. CASE /\ UNCHANGED <<lobbies, listing, conn>>
           /\ lobbies_updated \cup Reported \subseteq lobbies_updated' \cup Reported'
  BY <1>2, <1>4 DEF AsideKept
<1>5. CASE UNCHANGED vars /\ (UNCHANGED call \/ (Effect /\ Next_effect))
  <2>1. Reported' = Reported
    BY <1>5, EffectReports DEF Reported
  <2>2. QED
    BY <1>4, <1>5, <2>1 DEF vars, data
<1>6. CASE write_lobby_public_data
            \/ \E q \in PeerId : write_peer_public_data(q) \/ write_peer_private_data(q)
  BY <1>5, <1>6 DEF write_lobby_public_data, write_peer_public_data, write_peer_private_data
<1>7. CASE \E p \in PeerId : on_lobby_call_begin(p)
  <2>1. Reported = {} /\ UNCHANGED <<lobbies, lobbies_updated, listing, conn>>
    BY <1>7 DEF on_lobby_call_begin, Running, NoCall, Reported, data_vars, vars, data
  <2>2. lobbies_updated \cup Reported \subseteq lobbies_updated' \cup Reported'
    BY <2>1
  <2>3. QED
    BY <1>4, <2>1, <2>2
<1>8. CASE on_lobby_call_end
  BY <1>4, <1>8 DEF on_lobby_call_end
<1>9. CASE write_setting
  <2>1. PICK lobby \in LobbyData : lobbies' = [lobbies EXCEPT ![call.lobby] = lobby]
    BY <1>1, <1>9, SettingFacts
  <2>2. /\ UNCHANGED <<lobbies_updated, listing, conn>>
        /\ call.lobby \in DOMAIN lobbies /\ Reported' = {call.lobby} /\ Reported \subseteq Reported'
    BY <1>9, EffectReports DEF write_setting, Effect, Reported
  <2>3. \A l \in LobbyId \ (lobbies_updated' \cup Reported') :
          l \notin lobbies_updated \cup Reported /\ AsideKept(l)
    BY <2>1, <2>2 DEF AsideKept
  <2>4. QED
    BY <1>2, <2>2, <2>3
<1>10. ASSUME NEW q \in PeerId, set_lobby_host(q)
       PROVE  ListenersConnected' /\ (AsideListed => AsideListed')
  <2>1. /\ UNCHANGED <<lobbies_updated, listing, conn>>
        /\ call.lobby \in DOMAIN lobbies /\ Lobby \in LobbyData
        /\ Reported' = Reported
        /\ lobbies' = [lobbies EXCEPT ![call.lobby].host = q]
    BY <1>1, <1>10, EffectReports DEF set_lobby_host, Effect, Lobby, Inv, DataInv
  <2>2. lobbies' = [lobbies EXCEPT ![call.lobby] = [Lobby EXCEPT !.host = q]]
    BY <2>1 DEF Lobby
  <2>3. ASSUME NEW l PROVE AsideKept(l)
    <3>1. CASE l = call.lobby
      <4>1. lobbies'[l] = [Lobby EXCEPT !.host = q] /\ lobbies[l] = Lobby
        BY <2>1, <2>2, <3>1 DEF Lobby
      <4>2. QED
        BY <2>1, <2>2, <4>1, HostIsAside DEF AsideKept
    <3>2. CASE l # call.lobby
      BY <2>1, <3>2 DEF AsideKept
    <3>3. QED
      BY <3>1, <3>2
  <2>4. QED
    BY <1>2, <2>1, <2>3
<1>11. ASSUME UNCHANGED <<listing, conn>>, ChangesReported, Effect, Next_effect
       PROVE  ListenersConnected' /\ (AsideListed => AsideListed')
  <2>1. Reported' = Reported
    BY <1>11, EffectReports
  <2>2. \A l \in LobbyId \ (lobbies_updated' \cup Reported') :
          l \notin lobbies_updated \cup Reported /\ AsideKept(l)
    BY <1>11, <2>1 DEF ChangesReported, AsideKept
  <2>3. QED
    BY <1>2, <1>11, <2>2
<1>12. ASSUME NEW q \in PeerId, kick_peer(q)
       PROVE  ListenersConnected' /\ (AsideListed => AsideListed')
  <2>1. \E l, p, by, kicked : remove_peer_from_lobby(l, p, by, kicked)
    BY <1>12 DEF kick_peer
  <2>2. ChangesReported
    BY <2>1, RemoveReports
  <2>3. QED
    BY <1>11, <1>12, <2>2 DEF kick_peer
<1>13. ASSUME NEW q \in PeerId, kick_stranger(q)
       PROVE  ListenersConnected' /\ (AsideListed => AsideListed')
  <2>1. lobbies_updated' = lobbies_updated \cup {call.lobby}
    BY <1>13 DEF kick_stranger
  <2>2. CASE lobbies' = Drop(lobbies, {call.lobby})
    <3>1. ChangesReported
      BY <2>1, <2>2 DEF ChangesReported, Drop, Restrict
    <3>2. QED
      BY <1>11, <1>13, <3>1 DEF kick_stranger
  <2>3. CASE \E h : lobbies' = [lobbies EXCEPT ![call.lobby].host = h]
    <3>1. ChangesReported
      BY <2>1, <2>3 DEF ChangesReported
    <3>2. QED
      BY <1>11, <1>13, <3>1 DEF kick_stranger
  <2>4. QED
    BY <1>13, <2>2, <2>3 DEF kick_stranger
<1>14. CASE fabricate
  BY <1>14 DEF fabricate, ListenersConnected, listing, conn
<1>15. CASE UNCHANGED script_vars
  BY <1>5, <1>15 DEF script_vars, data_vars
<1>16. QED
  BY <1>3, <1>6, <1>7, <1>8, <1>9, <1>10, <1>12, <1>13, <1>14, <1>15 DEF ScriptNext, ScriptEffect

\* SettingsListedAfterCalls holds as long as no more lobbies exist than one answer lists:
\* between two calls subscribers are right about everything but the host and the public data
\* of each lobby that no report is pending for, whatever scripts set and whomever they kick.
THEOREM ScriptsListSettings == ScriptSpec /\ []AllListed => []SettingsListedAfterCalls
<1> DEFINE Listed == ListenersConnected /\ (~fabricated => AsideListed)
<1>1. ScriptInit => Listed
  BY DEF ScriptInit, DataInit, Init, ListenersConnected, AsideListed
<1>2. GameInv /\ TypeInv /\ AllListed /\ Listed /\ [ScriptNext]_script_vars => Listed'
  BY ScriptListens, FabricatedStays
<1>3. Listed => SettingsListedAfterCalls
  BY DEF AsideListed, SettingsListedAfterCalls, Settled, Running, NoCall, Reported
<1> HIDE DEF Listed
<1>4. QED
  BY <1>1, <1>2, <1>3, ScriptInitGame, ScriptGame, InitTypes, StepTypes, PTL DEF ScriptSpec

-----------------------------------------------------------------------------
(* No lobby is overfull *)

\* A step of a game with a script whose new sizes hold the members leaves room in each lobby.
LEMMA ScriptRoom ==
  ASSUME GameInv, RoomInv, [ScriptNext]_script_vars,
         write_setting => \A l \in DOMAIN lobbies :
           lobbies'[l].max_players # lobbies[l].max_players =>
             /\ lobbies'[l].max_players # 0
             /\ Cardinality(lobbies[l].peer_ids) <= Unsigned(lobbies'[l].max_players)
  PROVE  RoomInv'
<1>1. Inv /\ DataInv
  BY DEF GameInv, Inv
<1>2. CASE UNCHANGED lobbies
  BY <1>2, SameRoom
<1>3. CASE BetweenCalls
  BY <1>1, <1>3, NextRoom DEF BetweenCalls, GameStep
<1>4. ASSUME NEW lobby \in LobbyData, HasRoom(lobby), call.lobby \in DOMAIN lobbies,
             lobbies' = [lobbies EXCEPT ![call.lobby] = lobby]
      PROVE  RoomInv'
  BY <1>4 DEF RoomInv, HasRoom, Unsigned
<1>5. CASE write_setting
  <2>1. PICK lobby \in LobbyData : /\ lobby.peer_ids = Lobby.peer_ids
                                   /\ lobbies' = [lobbies EXCEPT ![call.lobby] = lobby]
    BY <1>1, <1>5, SettingFacts
  <2>2. call.lobby \in DOMAIN lobbies /\ HasRoom(Lobby) /\ lobbies'[call.lobby] = lobby
    BY <1>5, <2>1 DEF write_setting, Effect, RoomInv, Lobby
  <2>3. HasRoom(lobby)
    BY <1>5, <2>1, <2>2 DEF HasRoom, Lobby
  <2>4. QED
    BY <1>4, <2>1, <2>2, <2>3
<1>6. ASSUME NEW h \in PeerId \cup {NoPeer}, call.lobby \in DOMAIN lobbies,
             lobbies' = [lobbies EXCEPT ![call.lobby].host = h]
      PROVE  RoomInv'
  <2> DEFINE lobby == [Lobby EXCEPT !.host = h]
  <2>1. Lobby \in LobbyData /\ HasRoom(Lobby)
    BY <1>1, <1>6 DEF Lobby, DataInv, RoomInv
  <2>2. lobby \in LobbyData /\ HasRoom(lobby)
    BY <2>1 DEF LobbyData, HasRoom
  <2>3. lobbies' = [lobbies EXCEPT ![call.lobby] = lobby]
    BY <1>6 DEF Lobby
  <2> HIDE DEF lobby
  <2>4. QED
    BY <1>4, <1>6, <2>2, <2>3
<1>7. ASSUME NEW q \in PeerId, set_lobby_host(q) PROVE RoomInv'
  BY <1>6, <1>7 DEF set_lobby_host, Effect
<1>8. ASSUME NEW q \in PeerId, kick_peer(q) PROVE RoomInv'
  BY <1>1, <1>8, RemoveRoom DEF kick_peer
<1>9. ASSUME NEW q \in PeerId, kick_stranger(q) PROVE RoomInv'
  <2>1. DataInv'
    BY <1>1, <1>9, StrangerData
  <2>2. CASE lobbies' = Drop(lobbies, {call.lobby})
    BY <2>2, SameRoom DEF Drop, Restrict
  <2>3. CASE \E h : lobbies' = [lobbies EXCEPT ![call.lobby].host = h]
    <3>1. PICK h : lobbies' = [lobbies EXCEPT ![call.lobby].host = h]
      BY <2>3
    <3>2. call.lobby \in DOMAIN lobbies /\ Lobby \in LobbyData
      BY <1>1, <1>9 DEF kick_stranger, Effect, DataInv, Lobby
    <3>3. h \in PeerId \cup {NoPeer}
      <4>1. lobbies'[call.lobby].host = h /\ lobbies'[call.lobby] \in LobbyData
        BY <2>1, <3>1, <3>2 DEF DataInv, LobbyData, Lobby
      <4>2. QED
        BY <4>1 DEF LobbyData
    <3>4. QED
      BY <1>6, <3>1, <3>2, <3>3
  <2>4. QED
    BY <1>9, <2>2, <2>3 DEF kick_stranger
<1>10. CASE \/ write_lobby_public_data \/ on_lobby_call_end \/ fabricate \/ UNCHANGED script_vars
            \/ \E q \in PeerId : \/ write_peer_public_data(q) \/ write_peer_private_data(q)
                                 \/ on_lobby_call_begin(q)
  BY <1>2, <1>10 DEF write_lobby_public_data, write_peer_public_data, write_peer_private_data,
     on_lobby_call_begin, on_lobby_call_end, fabricate, script_vars, data_vars, vars, data
<1>11. QED
  BY <1>3, <1>5, <1>7, <1>8, <1>9, <1>10 DEF ScriptNext, ScriptEffect

\* WithinCapacity holds in a game with a script whose functions give no lobby a size that
\* does not hold its members, nor 0 (SizesFit): nothing else that they do lets more members
\* into a lobby than fit.
THEOREM ScriptsKeepCapacity == ScriptSpec /\ SizesFit => []WithinCapacity
<1>1. ScriptInit => RoomInv
  BY DEF ScriptInit, DataInit, Init, RoomInv
<1>2. /\ GameInv /\ TypeInv /\ RoomInv
      /\ [ScriptNext]_script_vars
      /\ [write_setting => \A l \in DOMAIN lobbies :
            lobbies'[l].max_players # lobbies[l].max_players =>
              /\ lobbies'[l].max_players # 0
              /\ Cardinality(lobbies[l].peer_ids) <= Unsigned(lobbies'[l].max_players)]_script_vars
      => RoomInv'
  <2>1. UNCHANGED script_vars => UNCHANGED lobbies
    BY DEF script_vars, data_vars, vars, data
  <2>2. QED
    BY <2>1, SameRoom, ScriptRoom
<1>3. RoomInv => WithinCapacity
  BY DEF RoomInv, HasRoom, WithinCapacity
<1>4. QED
  BY <1>1, <1>2, <1>3, ScriptInitGame, ScriptGame, InitTypes, StepTypes, PTL
  DEF ScriptSpec, SizesFit

=============================================================================
