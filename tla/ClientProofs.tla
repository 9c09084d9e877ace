---------------------------- MODULE ClientProofs ----------------------------
(***************************************************************************)
(* Proofs about what a client can count on.  In every kind of game each    *)
(* command of GameThread is answered (CommandAnswered), a connected member *)
(* hears of the changes of its lobby (MembershipAnnounced), and            *)
(* subscribers to the list of lobbies know it, public data apart, but for  *)
(* the reports that are pending (SettingsListed).                          *)
(* In games in which the departure of a host hands its lobby over or ends  *)
(* it (Hosted), a disconnected peer keeps its seat for the whole           *)
(* reconnection time (SeatKept).                                           *)
(*                                                                         *)
(* The last part is about clients that put messages together: what a step  *)
(* does to the seats and which messages about seats it sends (SeatCases),  *)
(* and what it does to the data of lobbies and peers (Carried).            *)
(***************************************************************************)
EXTENDS SharedData, SeatingProofs

\* A command of p is answered with these messages
Answers(p, types) == types # <<>> /\ answer' = reply(p, types)

\* The messages that tell of seats
SeatTypes == {"JOINED_LOBBY", "LOBBY_CREATED", "LOBBY_LEFT", "LOBBY_KICKED",
              "PEER_JOINED", "PEER_LEFT", "PEER_KICKED"}

\* A sequence of other messages
Messages(s) == \E S : S \cap SeatTypes = {} /\ s \in Seq(S)

\* What a handler of a command of p does, by the helper it ends with
CommandCases(p) ==
  \/ \E errors : Messages(errors) /\ errors # <<>> /\ Refuse(p, errors)
  \/ \E types, S, type :
       /\ Messages(types) /\ types # <<>> /\ type \notin SeatTypes
       /\ Tell(p, types, S, type)
       /\ UNCHANGED <<data, fabricated>>
  \/ fabricated' = TRUE /\ UNCHANGED <<data, out>>
  \/ \E before, pw, tags : Messages(before) /\ CreateLobby(p, before, pw, tags)
  \/ \E before, l, pw : Messages(before) /\ JoinLobby(p, l, pw, before)
  \/ InLobby(p) /\ \E q \in LobbyOf(p).peer_ids, kicked \in BOOLEAN :
       /\ q = p \/ LobbyOf(p).host = p
       /\ remove_peer_from_lobby(peers[p].lobby_id, q, p, kicked)
  \/ \E ready : set_lobby_ready(p, ready)
  \/ InLobby(p) /\ \E lobby, type :
       /\ type \notin SeatTypes
       /\ lobby.peer_ids = LobbyOf(p).peer_ids
       /\ lobby.host = LobbyOf(p).host
       /\ SetLobby(p, lobby, type)

\* There are finitely many lobbies: std::unordered_map never holds more than were created.
FiniteLobbies == IsFiniteSet(DOMAIN lobbies)

-----------------------------------------------------------------------------
(* The handlers, by the helper they end with *)

\* Messages are put one after the other: none is lost.
LEMMA SequenceFacts ==
  /\ \A S : \A s \in Seq(S) : \A e : Append(s, e) \in Seq(S \cup {e}) /\ Append(s, e) # <<>>
  /\ \A S, T : \A s \in Seq(S), t \in Seq(T) :
       s \o t \in Seq(S \cup T) /\ (s \o t = <<>> => s = <<>>)
<1>1. ASSUME NEW S, NEW s \in Seq(S), NEW e
      PROVE  Append(s, e) \in Seq(S \cup {e}) /\ Append(s, e) # <<>>
  <2>1. s \in Seq(S \cup {e})
    OBVIOUS
  <2>2. Len(Append(s, e)) = Len(s) + 1 /\ Len(s) \in Nat /\ Append(s, e) \in Seq(S \cup {e})
    BY <2>1
  <2>3. QED
    BY <2>2
<1>2. ASSUME NEW S, NEW s \in Seq(S), NEW T, NEW t \in Seq(T)
      PROVE  s \o t \in Seq(S \cup T) /\ (s \o t = <<>> => s = <<>>)
  <2>1. s \in Seq(S \cup T) /\ t \in Seq(S \cup T)
    OBVIOUS
  <2>2. /\ s \o t \in Seq(S \cup T)
        /\ Len(s \o t) = Len(s) + Len(t) /\ Len(s) \in Nat /\ Len(t) \in Nat
    BY <2>1
  <2>3. QED
    BY <2>2
<1>3. QED
  BY <1>1, <1>2

\* Messages that tell of no seats do so together, too.
LEMMA MessageFacts ==
  /\ Messages(<<>>)
  /\ \A e : <<e>> # <<>> /\ (e \notin SeatTypes => Messages(<<e>>))
  /\ \A s, e : Messages(s) => Append(s, e) # <<>> /\ (e \notin SeatTypes => Messages(Append(s, e)))
  /\ \A s, t : Messages(s) /\ Messages(t) => Messages(s \o t) /\ (s \o t = <<>> => s = <<>>)
<1>1. <<>> \in Seq({})
  OBVIOUS
<1>2. \A e : <<e>> \in Seq({e}) /\ <<e>> # <<>>
  OBVIOUS
<1> DEFINE Other(S) == S \cap SeatTypes = {}
<1>5. /\ Other({})
      /\ \A e : e \notin SeatTypes => Other({e})
      /\ \A S, T : Other(S) /\ Other(T) => Other(S \cup T)
  OBVIOUS
<1>6. \A s : Messages(s) <=> \E S : Other(S) /\ s \in Seq(S)
  BY DEF Messages
<1> HIDE DEF Other
<1>7. \A s, e : Messages(s) => Append(s, e) # <<>> /\ (e \notin SeatTypes => Messages(Append(s, e)))
  <2>1. SUFFICES ASSUME NEW s, NEW e, NEW S, Other(S), s \in Seq(S)
                 PROVE  Append(s, e) # <<>> /\ (e \notin SeatTypes => Messages(Append(s, e)))
    BY <1>6
  <2>2. Append(s, e) \in Seq(S \cup {e}) /\ Append(s, e) # <<>>
    BY <2>1, SequenceFacts
  <2>3. e \notin SeatTypes => Other(S \cup {e})
    BY <1>5, <2>1
  <2>4. QED
    BY <1>6, <2>2, <2>3
<1>8. \A s, t : Messages(s) /\ Messages(t) => Messages(s \o t) /\ (s \o t = <<>> => s = <<>>)
  <2>1. SUFFICES ASSUME NEW s, NEW S, Other(S), s \in Seq(S), NEW t, NEW T, Other(T), t \in Seq(T)
                 PROVE  Messages(s \o t) /\ (s \o t = <<>> => s = <<>>)
    BY <1>6
  <2>2. s \o t \in Seq(S \cup T) /\ (s \o t = <<>> => s = <<>>)
    BY <2>1, SequenceFacts
  <2>3. Other(S \cup T)
    BY <1>5, <2>1
  <2>4. QED
    BY <1>6, <2>2, <2>3
<1>9. QED
  BY <1>1, <1>2, <1>5, <1>6, <1>7, <1>8

\* The errors of on_join_lobby, on_quick_join and the hooks tell of no seats.
LEMMA ErrorFacts ==
  /\ \A p, l, pw : \A e \in JoinErrors(p, l, pw) : e \notin SeatTypes
  /\ \A verdict : Messages(ErrorReply(verdict))
<1>1. \A p, l, pw : \A e \in JoinErrors(p, l, pw) : e \notin SeatTypes
  BY DEF JoinErrors, SeatTypes
<1>2. "ERROR" \notin SeatTypes
  BY DEF SeatTypes
<1>3. QED
  BY <1>1, <1>2, MessageFacts DEF ErrorReply

\* The errors that on_quick_join has collected when it gives up or gets in.
LEMMA QuickJoinErrors ==
  ASSUME FiniteLobbies, NEW tags, NEW refused \in SUBSET Candidates(tags),
         NEW before, Messages(before), NEW e, e \notin SeatTypes
  PROVE  Messages(before \o [i \in 1..Cardinality(refused) |-> e])
<1>1. IsFiniteSet(refused)
  BY FS_Subset DEF FiniteLobbies, Candidates, OpenLobbies
<1>2. Cardinality(refused) \in Nat
  BY <1>1, FS_CardinalityType
<1>3. [i \in 1..Cardinality(refused) |-> e] \in Seq({e})
  BY <1>2
<1>4. QED
  BY <1>3, MessageFacts DEF Messages

\* Quick join refuses, gets in, creates a lobby, or meets a host without a record.
LEMMA QuickJoinCases ==
  ASSUME FiniteLobbies, NEW p, NEW pw, NEW tags, NEW before, Messages(before),
         QuickJoin(p, pw, tags, before)
  PROVE  CommandCases(p)
<1>1. CASE Refuse(p, Append(before, "INVALID_TAGS"))
  <2>1. Messages(Append(before, "INVALID_TAGS")) /\ Append(before, "INVALID_TAGS") # <<>>
    BY MessageFacts DEF SeatTypes
  <2>2. QED
    BY <1>1, <2>1 DEF CommandCases
<1>2. CASE fabricated' = TRUE /\ UNCHANGED <<data, out>>
  BY <1>2 DEF CommandCases
<1>3. CASE \E refused \in SUBSET Candidates(tags) :
             \E e \in {"none"} \cup UNION {JoinErrors(p, c, pw) : c \in refused} :
               LET errors == before \o [i \in 1..Cardinality(refused) |-> e] IN
               \/ \E c \in Candidates(tags) \ refused : JoinLobby(p, c, pw, errors)
               \/ CreateLobby(p, errors, pw, tags)
  <2>1. PICK refused \in SUBSET Candidates(tags) :
          \E e \in {"none"} \cup UNION {JoinErrors(p, c, pw) : c \in refused} :
            LET errors == before \o [i \in 1..Cardinality(refused) |-> e] IN
            \/ \E c \in Candidates(tags) \ refused : JoinLobby(p, c, pw, errors)
            \/ CreateLobby(p, errors, pw, tags)
    BY <1>3
  <2>2. PICK e \in {"none"} \cup UNION {JoinErrors(p, c, pw) : c \in refused} :
          LET errors == before \o [i \in 1..Cardinality(refused) |-> e] IN
          \/ \E c \in Candidates(tags) \ refused : JoinLobby(p, c, pw, errors)
          \/ CreateLobby(p, errors, pw, tags)
    BY <2>1
  <2> DEFINE errors == before \o [i \in 1..Cardinality(refused) |-> e]
  <2>3. Messages(errors)
    <3>1. e \notin SeatTypes
      BY ErrorFacts DEF SeatTypes
    <3>2. QED
      BY <3>1, QuickJoinErrors
  <2>4. (\E c : JoinLobby(p, c, pw, errors)) \/ CreateLobby(p, errors, pw, tags)
    BY <2>2
  <2> HIDE DEF errors
  <2>5. QED
    BY <2>3, <2>4 DEF CommandCases
<1>4. QED
  BY <1>1, <1>2, <1>3, Zenon DEF QuickJoin

\* Every handler of a command ends with one of the helpers of CommandCases.
LEMMA Commanded ==
  ASSUME DataInv, FiniteLobbies, NEW p \in PeerId, Seating(p) \/ Settings(p) \/ Talking(p)
  PROVE  p \in sockets \cap DOMAIN peers /\ CommandCases(p)
<1>1. p \in sockets \cap DOMAIN peers
  BY DEF Handles, Seating, Settings, Talking, on_create_lobby, on_join_lobby, on_quick_join,
     on_leave_lobby, on_kick_peer, on_seal_lobby, on_unseal_lobby, on_lobby_max_players,
     on_lobby_title, on_lobby_password, on_lobby_tags, on_lobby_ready, on_lobby_unready,
     on_chat_lobby, on_lobby_call, on_user_data, on_list_lobby, on_stop_list_lobby, Member
<1> SUFFICES CommandCases(p)
  BY <1>1
<1>2. CASE \E e : e \notin SeatTypes /\ Refuse(p, <<e>>)
  BY <1>2, MessageFacts DEF CommandCases
<1>3. CASE Seating(p)
  <2>1. CASE \E pw, tags : CreateLobby(p, <<>>, pw, tags)
    BY <2>1, MessageFacts DEF CommandCases
  <2>2. CASE \E l, pw : JoinLobby(p, l, pw, <<>>)
    BY <2>2, MessageFacts DEF CommandCases
  <2>3. CASE on_create_lobby(p)
    BY <1>2, <2>1, <2>3 DEF on_create_lobby, SeatTypes
  <2>4. CASE on_join_lobby(p)
    BY <1>2, <2>2, <2>4, ErrorFacts DEF on_join_lobby
  <2>5. CASE on_quick_join(p)
    <3>1. PICK l, pw, tags :
            \/ JoinLobby(p, l, pw, <<>>)
            \/ \E before \in IF InLobby(p) THEN {<<e>> : e \in JoinErrors(p, l, pw)} ELSE {<<>>} :
                 QuickJoin(p, pw, tags, before)
      BY <2>5 DEF on_quick_join
    <3>2. ASSUME NEW before \in IF InLobby(p) THEN {<<e>> : e \in JoinErrors(p, l, pw)} ELSE {<<>>},
                 QuickJoin(p, pw, tags, before)
          PROVE  CommandCases(p)
      <4>1. Messages(before)
        BY MessageFacts, ErrorFacts
      <4>2. QED
        BY <3>2, <4>1, QuickJoinCases
    <3>3. QED
      BY <2>2, <3>1, <3>2
  <2>6. CASE InLobby(p) /\ \E q \in LobbyOf(p).peer_ids, kicked \in BOOLEAN :
               /\ q = p \/ LobbyOf(p).host = p
               /\ remove_peer_from_lobby(peers[p].lobby_id, q, p, kicked)
    BY <2>6 DEF CommandCases
  <2>7. CASE on_leave_lobby(p)
    BY <1>1, <1>2, <2>6, <2>7, SeatFacts DEF on_leave_lobby, SeatTypes
  <2>8. CASE on_kick_peer(p)
    BY <1>2, <2>6, <2>8 DEF on_kick_peer, Member, Host, Scripted, SeatTypes
  <2>9. QED
    BY <1>3, <2>3, <2>4, <2>5, <2>7, <2>8 DEF Seating
<1>4. CASE Settings(p)
  <2>1. CASE InLobby(p) /\ \E lobby, type :
               /\ type \notin SeatTypes
               /\ lobby.peer_ids = LobbyOf(p).peer_ids
               /\ lobby.host = LobbyOf(p).host
               /\ SetLobby(p, lobby, type)
    BY <2>1 DEF CommandCases
  <2>2. ASSUME InLobby(p)
        PROVE  /\ \A v : /\ [LobbyOf(p) EXCEPT !.sealed = v].peer_ids = LobbyOf(p).peer_ids
                         /\ [LobbyOf(p) EXCEPT !.sealed = v].host = LobbyOf(p).host
                         /\ [LobbyOf(p) EXCEPT !.max_players = v].peer_ids = LobbyOf(p).peer_ids
                         /\ [LobbyOf(p) EXCEPT !.max_players = v].host = LobbyOf(p).host
                         /\ [LobbyOf(p) EXCEPT !.name = v].peer_ids = LobbyOf(p).peer_ids
                         /\ [LobbyOf(p) EXCEPT !.name = v].host = LobbyOf(p).host
                         /\ [LobbyOf(p) EXCEPT !.password = v].peer_ids = LobbyOf(p).peer_ids
                         /\ [LobbyOf(p) EXCEPT !.password = v].host = LobbyOf(p).host
               /\ \A set, null :
                    LET lobby == [LobbyOf(p) EXCEPT !.tags = (@ \cup set) \ null]
                    IN  lobby.peer_ids = LobbyOf(p).peer_ids /\ lobby.host = LobbyOf(p).host
    BY <1>1, <2>2, SeatFacts DEF LobbyData
  <2>3. CASE on_seal_lobby(p) \/ on_unseal_lobby(p)
    BY <1>2, <2>1, <2>2, <2>3
    DEF on_seal_lobby, on_unseal_lobby, Member, Host, set_lobby_sealed, Scripted, SeatTypes
  <2>4. CASE on_lobby_max_players(p)
    BY <1>2, <2>1, <2>2, <2>4 DEF on_lobby_max_players, Member, Scripted, SeatTypes
  <2>5. CASE on_lobby_title(p)
    BY <1>2, <2>1, <2>2, <2>5 DEF on_lobby_title, Member, Scripted, SeatTypes
  <2>6. CASE on_lobby_password(p)
    BY <1>2, <2>1, <2>2, <2>6 DEF on_lobby_password, Member, SeatTypes
  <2>7. CASE on_lobby_tags(p)
    BY <1>2, <2>1, <2>2, <2>7 DEF on_lobby_tags, Member, Host, Malformed, Scripted, SeatTypes
  <2>8. QED
    BY <1>4, <2>3, <2>4, <2>5, <2>6, <2>7 DEF Settings
<1>5. CASE Talking(p)
  <2>1. CASE \E ready : set_lobby_ready(p, ready)
    BY <2>1 DEF CommandCases
  <2>2. CASE on_lobby_ready(p) \/ on_lobby_unready(p)
    BY <1>2, <2>1, <2>2 DEF on_lobby_ready, on_lobby_unready, Member, Scripted, SeatTypes
  <2>3. CASE \E before, e : e \notin SeatTypes /\ Messages(before) /\ Refuse(p, Append(before, e))
    BY <2>3, MessageFacts DEF CommandCases
  <2>4. CASE /\ \E before, S, type : /\ type \notin SeatTypes /\ Messages(before)
                                    /\ Tell(p, Append(before, type), S, type)
             /\ UNCHANGED <<data, fabricated>>
    BY <2>4, MessageFacts DEF CommandCases
  <2>5. CASE on_chat_lobby(p)
    <3>1. Messages(<<>>) /\ Messages(<<"CANNOT_PARSE_JSON">>)
      BY MessageFacts DEF SeatTypes
    <3>2. QED
      BY <1>2, <2>3, <2>4, <2>5, <3>1 DEF on_chat_lobby, Member, Malformed, SeatTypes
  <2>6. CASE on_user_data(p)
    BY <1>2, <2>6, MessageFacts DEF on_user_data, Malformed, SeatTypes, CommandCases
  <2>7. CASE on_lobby_call(p)
    BY <1>2, <2>7 DEF on_lobby_call, Member, SeatTypes
  <2>8. CASE on_list_lobby(p) \/ on_stop_list_lobby(p)
    BY <1>2, <2>8 DEF on_list_lobby, on_stop_list_lobby, SeatTypes
  <2>9. QED
    BY <1>5, <2>2, <2>5, <2>6, <2>7, <2>8 DEF Talking
<1>6. QED
  BY <1>1, <1>3, <1>4, <1>5

-----------------------------------------------------------------------------
(* Lobbies and the reports about them *)

\* A lobby that changes is one to report
ChangesReported ==
  /\ lobbies_updated \subseteq lobbies_updated'
  /\ \A l : l \notin lobbies_updated' =>
       /\ l \in DOMAIN lobbies' <=> l \in DOMAIN lobbies
       /\ l \in DOMAIN lobbies => lobbies'[l] = lobbies[l]

\* At most one lobby is created in a step
OneCreated == \E l : DOMAIN lobbies' \subseteq DOMAIN lobbies \cup {l}

\* remove_peer_from_lobby reports the lobby it changes or erases.
LEMMA RemoveReports ==
  ASSUME NEW l, NEW p, NEW by, NEW kicked, remove_peer_from_lobby(l, p, by, kicked)
  PROVE  ChangesReported /\ OneCreated
<1>1. lobbies_updated' = lobbies_updated \cup {l}
  BY DEF remove_peer_from_lobby
<1>2. CASE lobbies' = Drop(lobbies, {l})
  BY <1>1, <1>2 DEF Drop, Restrict, ChangesReported, OneCreated
<1>3. CASE \E h : lobbies' = [lobbies EXCEPT ![l].host = h, ![l].peer_ids = @ \ {p}]
  BY <1>1, <1>3 DEF ChangesReported, OneCreated
<1>4. QED
  BY <1>2, <1>3 DEF remove_peer_from_lobby

\* So does every other command that creates or changes a lobby.
LEMMA CommandReports ==
  ASSUME NEW p, CommandCases(p)
  PROVE  ChangesReported /\ OneCreated
<1>1. CASE UNCHANGED data
  BY <1>1 DEF data, ChangesReported, OneCreated
<1>2. CASE \E errors : Refuse(p, errors)
  BY <1>1, <1>2 DEF Refuse
<1>3. CASE \E before, pw, tags : CreateLobby(p, before, pw, tags)
  <2>1. PICK before, pw, tags : CreateLobby(p, before, pw, tags)
    BY <1>3
  <2>2. CASE UNCHANGED <<lobbies, lobbies_updated>>
    BY <2>2 DEF ChangesReported, OneCreated
  <2>3. ASSUME NEW l, NEW lobby, lobbies' = Put(lobbies, l, lobby),
               lobbies_updated' = lobbies_updated \cup {l}
        PROVE  ChangesReported /\ OneCreated
    BY <2>3 DEF Put, ChangesReported, OneCreated
  <2>4. QED
    BY <1>2, <2>1, <2>2, <2>3 DEF CreateLobby
<1>4. CASE \E l, pw, before : JoinLobby(p, l, pw, before)
  <2>1. CASE \E before : Rejoin(p, before)
    BY <2>1 DEF Rejoin, ChangesReported, OneCreated
  <2>2. CASE \E l, before : Enter(p, l, before)
    BY <2>2 DEF Enter, ChangesReported, OneCreated
  <2>3. QED
    BY <1>4, <2>1, <2>2 DEF JoinLobby
<1>5. CASE \E l, q, kicked : remove_peer_from_lobby(l, q, p, kicked)
  BY <1>5, RemoveReports
<1>6. CASE \E ready : set_lobby_ready(p, ready)
  BY <1>6 DEF set_lobby_ready, ChangesReported, OneCreated
<1>7. CASE \E lobby, type : SetLobby(p, lobby, type)
  BY <1>7 DEF SetLobby, ChangesReported, OneCreated
<1>8. QED
  BY <1>1, <1>2, <1>3, <1>4, <1>5, <1>6, <1>7 DEF CommandCases

\* Every step but a report itself.
LEMMA StepReports ==
  ASSUME Inv, FiniteLobbies, [Next]_vars
  PROVE  OneCreated /\ (handle_lobby_list \/ ChangesReported)
<1>1. ASSUME UNCHANGED <<lobbies, lobbies_updated>> PROVE OneCreated /\ ChangesReported
  BY <1>1 DEF ChangesReported, OneCreated
<1>2. ASSUME NEW p \in PeerId, Connection(p) PROVE OneCreated /\ ChangesReported
  <2>1. UNCHANGED <<lobbies, lobbies_updated>>
    BY <1>2 DEF Connection, on_connect, on_close, on_rejected_message, data
  <2>2. QED
    BY <1>1, <2>1
<1>3. ASSUME NEW p \in PeerId, Seating(p) \/ Settings(p) \/ Talking(p)
      PROVE  OneCreated /\ ChangesReported
  BY <1>3, Commanded, CommandReports DEF Inv
<1>4. CASE handle_disconnects
  BY <1>1, <1>4, RemoveReports DEF handle_disconnects, handle_disconnects_begin,
     handle_disconnects_visit, handle_disconnects_end, data
<1>5. CASE handle_lobby_list
  BY <1>5 DEF handle_lobby_list, OneCreated
<1>6. CASE time_run \/ UNCHANGED vars
  BY <1>1, <1>6 DEF time_run, vars, data
<1>7. QED
  BY <1>2, <1>3, <1>4, <1>5, <1>6 DEF Next, handle_events

\* There are finitely many lobbies in every state.
LEMMA NextFinite == Inv /\ FiniteLobbies /\ [Next]_vars => FiniteLobbies'
<1>1. SUFFICES ASSUME Inv, FiniteLobbies, [Next]_vars PROVE FiniteLobbies'
  OBVIOUS
<1>2. PICK l : DOMAIN lobbies' \subseteq DOMAIN lobbies \cup {l}
  BY <1>1, StepReports DEF OneCreated
<1>3. QED
  BY <1>1, <1>2, FS_AddElement, FS_Subset DEF FiniteLobbies

-----------------------------------------------------------------------------
(* Commands are answered *)

\* A peer with a socket gets all its messages (reply drops none of them).
LEMMA Replied ==
  ASSUME KeepInv, NEW p \in sockets, NEW types, answer' = reply(p, types)
  PROVE  answer' = [to |-> p, replies |-> types]
BY DEF KeepInv, reply

\* Every command is answered with at least one message.
LEMMA CommandReplies ==
  ASSUME NEW p \in PeerId, CommandCases(p)
  PROVE  (\E types : Answers(p, types)) \/ UNCHANGED answer
<1>1. CASE \E errors : errors # <<>> /\ Refuse(p, errors)
  BY <1>1 DEF Refuse, Answers
<1>2. CASE \E types, S, type : types # <<>> /\ Tell(p, types, S, type)
  BY <1>2 DEF Tell, Answers
<1>3. CASE UNCHANGED out
  BY <1>3 DEF out
<1>4. \A e : <<e>> # <<>>
  BY MessageFacts
<1>5. \A verdict : \E T : ErrorReply(verdict) \in Seq(T)
  BY ErrorFacts DEF Messages
<1>6. ASSUME NEW before, Messages(before), NEW e, NEW verdict
      PROVE  /\ before \o <<e>> # <<>>
             /\ before \o <<e>> \o ErrorReply(verdict) # <<>>
             /\ Append(before, e) # <<>>
             /\ Append(before, e) \o ErrorReply(verdict) # <<>>
             /\ <<e>> \o ErrorReply(verdict) # <<>>
  <2>1. PICK S, T : before \in Seq(S) /\ ErrorReply(verdict) \in Seq(T)
    BY <1>5, <1>6 DEF Messages
  <2>2. Append(before, e) \in Seq(S \cup {e}) /\ Append(before, e) # <<>>
    BY <2>1, SequenceFacts
  <2>3. before \o <<e>> = Append(before, e)
    BY <2>1
  <2>4. <<e>> \in Seq({e}) /\ <<e>> # <<>>
    OBVIOUS
  <2>5. QED
    BY <2>1, <2>2, <2>3, <2>4, SequenceFacts
<1>7. CASE \E before, pw, tags : Messages(before) /\ CreateLobby(p, before, pw, tags)
  <2>1. PICK before, pw, tags : Messages(before) /\ CreateLobby(p, before, pw, tags)
    BY <1>7
  <2>2. \/ \E e : Refuse(p, before \o <<e>>)
        \/ \E e, S, type : Tell(p, before \o <<e>>, S, type)
        \/ \E e, verdict, S, type : Tell(p, before \o <<e>> \o ErrorReply(verdict), S, type)
    BY <2>1 DEF CreateLobby
  <2>3. QED
    BY <1>1, <1>2, <1>6, <2>1, <2>2
<1>8. CASE \E before, l, pw : Messages(before) /\ JoinLobby(p, l, pw, before)
  <2>1. PICK before, l, pw : Messages(before) /\ JoinLobby(p, l, pw, before)
    BY <1>8
  <2>2. \/ \E e, S, type : Tell(p, Append(before, e), S, type)
        \/ \E e, verdict, S, type : Tell(p, Append(before, e) \o ErrorReply(verdict), S, type)
    BY <2>1 DEF JoinLobby, Rejoin, Enter
  <2>3. QED
    BY <1>2, <1>6, <2>1, <2>2
<1>9. CASE \E l, q, kicked : remove_peer_from_lobby(l, q, p, kicked)
  <2>1. PICK l, q, kicked : remove_peer_from_lobby(l, q, p, kicked)
    BY <1>9
  <2>2. p # NoPeer
    BY IdAssumption
  <2>3. PICK verdict : LeaveNotices(lobbies[l], q, p, kicked, verdict)
    BY <2>1 DEF remove_peer_from_lobby
  <2>4. \/ answer' = reply(p, <<"LOBBY_LEFT">> \o ErrorReply(verdict))
        \/ answer' = reply(p, <<"PEER_KICKED">>)
    BY <2>2, <2>3 DEF LeaveNotices
  <2>5. QED
    BY <1>4, <1>6, <2>4, MessageFacts DEF Answers
<1>10. CASE \E ready : set_lobby_ready(p, ready)
  BY <1>2, <1>4, <1>10 DEF set_lobby_ready
<1>11. CASE \E lobby, type : SetLobby(p, lobby, type)
  BY <1>2, <1>4, <1>11 DEF SetLobby
<1>12. QED
  BY <1>1, <1>2, <1>3, <1>7, <1>8, <1>9, <1>10, <1>11 DEF CommandCases

\* Whatever the step, its answer is none, or one that says something.
LEMMA StepAnswers ==
  ASSUME Inv, KeepInv, FiniteLobbies, CommandAnswered, [Next]_vars
  PROVE  CommandAnswered'
<1>1. CASE answer' = NoAnswer \/ UNCHANGED answer
  BY <1>1 DEF NoAnswer, CommandAnswered
<1>2. ASSUME NEW p \in PeerId, Connection(p) PROVE CommandAnswered'
  <2>1. CASE on_rejected_message(p)
    BY <2>1, MessageFacts DEF on_rejected_message, CommandAnswered
  <2>2. QED
    BY <1>1, <1>2, <2>1 DEF Connection, on_connect, on_close
<1>3. ASSUME NEW p \in PeerId, Seating(p) \/ Settings(p) \/ Talking(p) PROVE CommandAnswered'
  <2>1. p \in sockets /\ ((\E types : Answers(p, types)) \/ UNCHANGED answer)
    BY <1>3, Commanded, CommandReplies DEF Inv
  <2>2. QED
    BY <1>1, <2>1, Replied DEF Answers, CommandAnswered
<1>4. CASE handle_disconnects
  BY <1>1, <1>4 DEF handle_disconnects, handle_disconnects_begin, handle_disconnects_visit,
     handle_disconnects_end, remove_peer_from_lobby, LeaveNotices
<1>5. CASE handle_lobby_list \/ time_run \/ UNCHANGED vars
  BY <1>1, <1>5 DEF handle_lobby_list, time_run, vars, out
<1>6. QED
  BY <1>2, <1>3, <1>4, <1>5 DEF Next, handle_events

\* CommandAnswered holds in every game: a client never waits for the answer to a command
\* of GameThread, whichever checks, hooks and tries of quick join it met. These are all
\* commands but the five that share data, one of which may stay without an answer
\* (DataCommandsAnswered in DataProofs).
THEOREM CommandsAlwaysAnswered == Spec => []CommandAnswered
<1>1. Init => KeepInv /\ FiniteLobbies /\ CommandAnswered
  BY FS_EmptySet DEF Init, NoSweep, KeepInv, FiniteLobbies, CommandAnswered, NoAnswer
<1>2. QED
  BY <1>1, InitInv, NextInv, NextKeeps, NextFinite, StepAnswers, PTL DEF Spec

-----------------------------------------------------------------------------
(* Members hear of the changes of their lobby *)

\* What MembershipAnnounced says of one peer
Announced(p) ==
  LET l == peers[p].lobby_id IN
  IF peers'[p].lobby_id # l THEN Hears(p, {"LOBBY_LEFT", "LOBBY_KICKED"})
  ELSE /\ ~(lobbies'[l].peer_ids \subseteq lobbies[l].peer_ids) => Hears(p, {"PEER_JOINED"})
       /\ ~(lobbies[l].peer_ids \subseteq lobbies'[l].peer_ids) =>
            Hears(p, {"PEER_LEFT", "PEER_KICKED"})
       /\ lobbies'[l].host # lobbies[l].host => Hears(p, {"HOST_CHANGED"})

\* There is nothing to tell where neither the seat nor the lobby's people change.
LEMMA NothingToTell ==
  ASSUME NEW p, peers'[p].lobby_id = peers[p].lobby_id,
         lobbies'[peers[p].lobby_id].peer_ids = lobbies[peers[p].lobby_id].peer_ids,
         lobbies'[peers[p].lobby_id].host = lobbies[peers[p].lobby_id].host
  PROVE  Announced(p)
BY DEF Announced

\* send reaches every peer of its audience that is not disconnected.
LEMMA SendReaches ==
  ASSUME NEW S, NEW p \in S \ DOMAIN disconnected_peers, NEW type, NEW types, type \in types,
         send(S, type) \subseteq notices'
  PROVE  Hears(p, types)
<1> DEFINE n == [to |-> p, type |-> type]
<1>1. n \in send(S, type)
  BY DEF send
<1>2. n.to = p /\ n.type = type
  OBVIOUS
<1> HIDE DEF n
<1>3. QED
  BY <1>1, <1>2 DEF Hears

\* remove_peer_from_lobby tells the members who stay, those it turns out, and the leaver.
LEMMA RemoveAnnounces ==
  ASSUME Inv, KeepInv, NEW l \in DOMAIN lobbies, NEW c \in lobbies[l].peer_ids, NEW by, NEW kicked,
         remove_peer_from_lobby(l, c, by, kicked), by = NoPeer \/ by \in sockets,
         NEW p \in DOMAIN peers \cap sockets, InLobby(p)
  PROVE  Announced(p)
<1> DEFINE lobby == lobbies[l]
           rest == lobby.peer_ids \ {c}
           leavers == IF Disbands(lobby, c) THEN lobby.peer_ids ELSE {c}
           new_host == IF c = lobby.host /\ ~Disbands(lobby, c) THEN NewHost(lobby, c)
                       ELSE lobby.host
<1>1. p \notin DOMAIN disconnected_peers /\ p # NoPeer
  BY IdAssumption DEF KeepInv, Inv, DataInv
<1>2. /\ lobbies[l] \in LobbyData
      /\ peers[p].lobby_id \in DOMAIN lobbies
      /\ p \in lobbies[peers[p].lobby_id].peer_ids
      /\ peers[p].lobby_id # NoLobby
  BY DEF Inv, DataInv, SeatsExist, InLobby, LobbyOf
<1>3. peers' = [q \in DOMAIN peers |-> IF q \in leavers THEN leave_lobby(peers[q]) ELSE peers[q]]
  BY DEF remove_peer_from_lobby
<1>4. IF Ends(lobby, c) THEN lobbies' = Drop(lobbies, {l})
      ELSE lobbies' = [lobbies EXCEPT ![l].host = new_host, ![l].peer_ids = @ \ {c}]
  BY DEF remove_peer_from_lobby
<1>5. PICK verdict : LeaveNotices(lobby, c, by, kicked, verdict)
  BY DEF remove_peer_from_lobby
<1>6. CASE p = c
  <2>1. CASE by = p
    <3>1. answer' = reply(p, <<"LOBBY_LEFT">> \o ErrorReply(verdict))
      BY <1>1, <1>5, <1>6, <2>1 DEF LeaveNotices
    <3>2. "LOBBY_LEFT" \in Range(<<"LOBBY_LEFT">> \o ErrorReply(verdict))
      BY DEF ErrorReply, Range
    <3>3. answer'.to = p /\ "LOBBY_LEFT" \in Range(answer'.replies)
      BY <1>1, <3>1, <3>2 DEF reply
    <3>4. Hears(p, {"LOBBY_LEFT", "LOBBY_KICKED"})
      BY <3>3 DEF Hears
    <3>5. QED
      BY <1>2, <1>3, <1>6, <3>4 DEF Announced, leave_lobby, Inv, DataInv, PeerData
  <2>2. CASE by # p
    <3>1. \E type \in {"LOBBY_LEFT", "LOBBY_KICKED"} : send({p}, type) \subseteq notices'
      BY <1>5, <1>6, <2>2 DEF LeaveNotices
    <3>2. Hears(p, {"LOBBY_LEFT", "LOBBY_KICKED"})
      BY <1>1, <3>1, SendReaches
    <3>3. QED
      BY <1>2, <1>3, <1>6, <3>2 DEF Announced, leave_lobby, Inv, DataInv, PeerData
  <2>3. QED
    BY <2>1, <2>2
<1>7. CASE p # c /\ p \in leavers
  <2>1. Disbands(lobby, c) /\ p \in rest
    BY <1>7
  <2>2. \E type \in {"LOBBY_LEFT", "LOBBY_KICKED"} : send(rest, type) \subseteq notices'
    BY <1>5, <2>1 DEF LeaveNotices
  <2>3. Hears(p, {"LOBBY_LEFT", "LOBBY_KICKED"})
    <3>1. p \in rest \ DOMAIN disconnected_peers
      BY <1>1, <2>1
    <3> HIDE DEF rest
    <3>2. QED
      BY <2>2, <3>1, SendReaches
  <2>4. QED
    <3> HIDE DEF leavers
    <3> QED
      BY <1>2, <1>3, <1>7, <2>3 DEF Announced, leave_lobby, Inv, DataInv, PeerData
<1>8. CASE p \notin leavers
  <2>1. peers'[p] = peers[p]
    <3> HIDE DEF leavers
    <3> QED
      BY <1>3, <1>8
  <2>2. CASE peers[p].lobby_id # l
    <3>1. lobbies'[peers[p].lobby_id] = lobbies[peers[p].lobby_id]
      <4> HIDE DEF new_host
      <4> QED
        BY <1>2, <1>4, <2>2 DEF Drop, Restrict
    <3>2. QED
      BY <2>1, <3>1, NothingToTell
  <2>3. CASE peers[p].lobby_id = l
    <3>1. p \in rest \ DOMAIN disconnected_peers /\ ~Disbands(lobby, c)
      BY <1>1, <1>2, <1>8, <2>3
    <3>2. ~Ends(lobby, c)
      BY <3>1 DEF Ends, Disbands
    <3>3. /\ lobbies'[l].peer_ids = rest
          /\ c # lobby.host => lobbies'[l].host = lobby.host
      <4>1. c # lobby.host => new_host = lobby.host
        OBVIOUS
      <4> HIDE DEF new_host
      <4>2. QED
        BY <1>2, <1>4, <3>2, <4>1 DEF LobbyData
    <3>4. CASE c = lobby.host
      <4>1. /\ \E type \in {"PEER_LEFT", "PEER_KICKED"} : send(rest, type) \subseteq notices'
            /\ \E type \in {"HOST_CHANGED"} : send(rest, type) \subseteq notices'
        BY <1>5, <3>1, <3>4 DEF LeaveNotices
      <4>2. Hears(p, {"PEER_LEFT", "PEER_KICKED"}) /\ Hears(p, {"HOST_CHANGED"})
        <5> HIDE DEF rest
        <5> QED
          BY <3>1, <4>1, SendReaches
      <4>3. QED
        BY <2>1, <2>3, <3>3, <4>2 DEF Announced
    <3>5. CASE c # lobby.host /\ kicked
      <4>1. CASE by = p
        <5>1. answer' = reply(p, <<"PEER_KICKED">>)
          BY <1>1, <1>5, <3>1, <4>1 DEF LeaveNotices
        <5>2. "PEER_KICKED" \in Range(<<"PEER_KICKED">>)
          BY DEF Range
        <5>3. Hears(p, {"PEER_LEFT", "PEER_KICKED"})
          BY <1>1, <5>1, <5>2 DEF reply, Hears
        <5>4. QED
          BY <2>1, <2>3, <3>3, <3>5, <5>3 DEF Announced
      <4>2. CASE by # p
        <5>1. \E type \in {"PEER_LEFT", "PEER_KICKED"} :
                send(KickAudience(lobby, c, by), type) \subseteq notices'
          BY <1>5, <3>1, <3>5 DEF LeaveNotices
        <5>2. Hears(p, {"PEER_LEFT", "PEER_KICKED"})
          <6>1. p \in KickAudience(lobby, c, by) \ DOMAIN disconnected_peers
            BY <3>1, <4>2 DEF KickAudience
          <6>2. QED
            BY <5>1, <6>1, SendReaches
        <5>3. QED
          BY <2>1, <2>3, <3>3, <3>5, <5>2 DEF Announced
      <4>3. QED
        BY <4>1, <4>2
    <3>6. CASE c # lobby.host /\ ~kicked
      <4>1. \E type \in {"PEER_LEFT", "PEER_KICKED"} : send(rest, type) \subseteq notices'
        BY <1>5, <3>1, <3>6 DEF LeaveNotices
      <4>2. Hears(p, {"PEER_LEFT", "PEER_KICKED"})
        <5> HIDE DEF rest
        <5> QED
          BY <3>1, <4>1, SendReaches
      <4>3. QED
        BY <2>1, <2>3, <3>3, <3>6, <4>2 DEF Announced
    <3>7. QED
      BY <3>4, <3>5, <3>6
  <2>4. QED
    BY <2>2, <2>3
<1>9. QED
  BY <1>6, <1>7, <1>8

\* A peer that enters a lobby is announced to the members it finds there.
LEMMA EnterAnnounces ==
  ASSUME Inv, KeepInv, NEW c \in DOMAIN peers, NEW l, NEW pw, NEW before,
         JoinLobby(c, l, pw, before), NEW p \in DOMAIN peers \cap sockets, InLobby(p)
  PROVE  Announced(p)
<1>1. p \notin DOMAIN disconnected_peers
  BY DEF KeepInv
<1>2. peers[p].lobby_id \in DOMAIN lobbies /\ p \in lobbies[peers[p].lobby_id].peer_ids
  BY DEF Inv, DataInv, SeatsExist, LobbyOf
<1>3. CASE Rejoin(c, before)
  BY <1>3, NothingToTell DEF Rejoin, Inv, DataInv, PeerData
<1>4. CASE Enter(c, l, before)
  <2>1. l \in DOMAIN lobbies /\ lobbies[l] \in LobbyData /\ ~InLobby(c)
    BY <1>4 DEF JoinLobby, MayJoin, JoinErrors, JoinTarget, Enter, Inv, DataInv
  <2>2. p # c /\ peers'[p] = peers[p]
    BY <1>4, <2>1 DEF Enter
  <2>3. CASE peers[p].lobby_id # l
    BY <1>2, <1>4, <2>2, <2>3, NothingToTell DEF Enter
  <2>4. CASE peers[p].lobby_id = l
    <3>1. p \in lobbies[l].peer_ids \ {c}
      BY <1>2, <2>2, <2>4
    <3>2. send(lobbies[l].peer_ids \ {c}, "PEER_JOINED") = notices'
      BY <1>4 DEF Enter, Tell
    <3>3. Hears(p, {"PEER_JOINED"})
      BY <1>1, <3>1, <3>2, SendReaches
    <3>4. /\ lobbies[l].peer_ids \subseteq lobbies'[l].peer_ids
          /\ lobbies'[l].host = lobbies[l].host
      BY <1>4, <2>1 DEF Enter, LobbyData
    <3>5. QED
      BY <2>2, <2>4, <3>3, <3>4 DEF Announced
  <2>5. QED
    BY <2>3, <2>4
<1>5. QED
  BY <1>3, <1>4 DEF JoinLobby

\* A peer that creates a lobby has no seat to lose, and its lobby has nobody else to tell.
LEMMA CreateAnnounces ==
  ASSUME Inv, NEW c \in DOMAIN peers, NEW before, NEW pw, NEW tags,
         CreateLobby(c, before, pw, tags), NEW p \in DOMAIN peers, InLobby(p)
  PROVE  Announced(p)
<1>1. peers[p].lobby_id \in DOMAIN lobbies
  BY DEF Inv, DataInv, SeatsExist
<1>2. CASE \E errors : Refuse(c, errors)
  BY <1>2, NothingToTell DEF Refuse, data
<1>3. CASE ~InLobby(c) /\ peers' = [peers EXCEPT ![c] = leave_lobby(@)] /\ UNCHANGED lobbies
  <2>1. p # c
    BY <1>3
  <2>2. QED
    BY <1>3, <2>1, NothingToTell
<1>4. CASE /\ ~InLobby(c)
           /\ \E l \in FreshLobbyId : \E lobby :
                /\ peers' = [peers EXCEPT ![c].lobby_id = l, ![c].disconnected = FALSE]
                /\ lobbies' = Put(lobbies, l, lobby)
  <2>1. p # c
    BY <1>4
  <2>2. peers'[p] = peers[p] /\ lobbies'[peers[p].lobby_id] = lobbies[peers[p].lobby_id]
    BY <1>1, <1>4, <2>1 DEF FreshLobbyId, Put
  <2>3. QED
    BY <2>2, NothingToTell
<1>5. QED
  BY <1>2, <1>3, <1>4 DEF CreateLobby

\* Every command of a client tells the connected members of the lobby it changes.
LEMMA CommandAnnounces ==
  ASSUME Inv, KeepInv, NEW c \in PeerId, c \in sockets \cap DOMAIN peers, CommandCases(c),
         NEW p \in DOMAIN peers \cap sockets, InLobby(p)
  PROVE  Announced(p)
<1>1. CASE UNCHANGED data
  BY <1>1, NothingToTell DEF data
<1>2. CASE \E errors : Refuse(c, errors)
  BY <1>1, <1>2 DEF Refuse
<1>3. CASE \E before, pw, tags : CreateLobby(c, before, pw, tags)
  BY <1>3, CreateAnnounces
<1>4. CASE \E before, l, pw : JoinLobby(c, l, pw, before)
  BY <1>4, EnterAnnounces
<1>5. CASE InLobby(c) /\ \E q \in LobbyOf(c).peer_ids, kicked \in BOOLEAN :
             remove_peer_from_lobby(peers[c].lobby_id, q, c, kicked)
  <2>1. peers[c].lobby_id \in DOMAIN lobbies
    BY <1>5, SeatFacts DEF Inv
  <2>2. PICK q \in lobbies[peers[c].lobby_id].peer_ids, kicked \in BOOLEAN :
          remove_peer_from_lobby(peers[c].lobby_id, q, c, kicked)
    BY <1>5 DEF LobbyOf
  <2>3. QED
    BY <2>1, <2>2, RemoveAnnounces
<1>6. CASE \E ready : set_lobby_ready(c, ready)
  BY <1>6, NothingToTell DEF set_lobby_ready, Inv, DataInv, PeerData
<1>7. CASE InLobby(c) /\ \E lobby, type :
             /\ lobby.peer_ids = LobbyOf(c).peer_ids
             /\ lobby.host = LobbyOf(c).host
             /\ SetLobby(c, lobby, type)
  <2>1. peers[c].lobby_id \in DOMAIN lobbies
    BY <1>7, SeatFacts DEF Inv
  <2>2. QED
    BY <1>7, <2>1, NothingToTell DEF SetLobby, LobbyOf
<1>8. QED
  BY <1>1, <1>2, <1>3, <1>4, <1>5, <1>6, <1>7 DEF CommandCases

\* So does every step: the seat of a connected peer changes by commands only, and a sweep
\* tells the members of the lobby it turns a peer out of.
LEMMA StepAnnounces ==
  ASSUME Inv, KeepInv, FiniteLobbies, [Next]_vars,
         NEW p \in DOMAIN peers \cap DOMAIN peers', Connected(p), InLobby(p)
  PROVE  Announced(p)
<1>1. p \in sockets
  BY DEF Connected
<1>2. CASE UNCHANGED <<peers, lobbies>>
  BY <1>2, NothingToTell
<1>3. ASSUME NEW c \in PeerId, Connection(c) PROVE Announced(p)
  <2>1. CASE on_connect(c)
    BY <2>1, NothingToTell DEF on_connect, Put
  <2>2. CASE on_close(c)
    BY <2>2, NothingToTell DEF on_close, Inv, DataInv, PeerData
  <2>3. CASE on_rejected_message(c)
    BY <1>2, <2>3 DEF on_rejected_message, data
  <2>4. QED
    BY <1>3, <2>1, <2>2, <2>3 DEF Connection
<1>4. ASSUME NEW c \in PeerId, Seating(c) \/ Settings(c) \/ Talking(c) PROVE Announced(p)
  BY <1>1, <1>4, Commanded, CommandAnnounces DEF Inv
<1>5. CASE handle_disconnects_visit
  <2> DEFINE v == Min(sweep.todo)
             seated == v \in DOMAIN peers /\ peers[v].lobby_id \in DOMAIN lobbies
  <2>1. CASE seated /\ Expired(v)
    <3>1. remove_peer_from_lobby(peers[v].lobby_id, v, NoPeer, TRUE)
      BY <1>5, <2>1 DEF handle_disconnects_visit
    <3>2. peers[v].lobby_id \in DOMAIN lobbies /\ v \in lobbies[peers[v].lobby_id].peer_ids
      BY <2>1, IdAssumption DEF Inv, DataInv, SeatsExist, InLobby, LobbyOf
    <3> HIDE DEF v
    <3>3. QED
      BY <1>1, <3>1, <3>2, RemoveAnnounces
  <2>2. CASE ~(seated /\ Expired(v))
    <3>1. /\ peers' = [q \in DOMAIN peers |->
                         IF q = v /\ ~seated THEN leave_lobby(peers[q]) ELSE peers[q]]
          /\ UNCHANGED lobbies
      BY <1>5, <2>2 DEF handle_disconnects_visit
    <3>2. p # v
      BY <1>1, <1>5, VisitedPeer DEF handle_disconnects_visit, KeepInv
    <3> HIDE DEF v, seated
    <3>3. peers'[p] = peers[p]
      BY <3>1, <3>2
    <3>4. QED
      BY <3>1, <3>3, NothingToTell
  <2>3. QED
    BY <2>1, <2>2
<1>6. CASE handle_disconnects_end
  BY <1>6, NothingToTell DEF handle_disconnects_end, Drop, Restrict
<1>7. CASE handle_disconnects_begin \/ handle_lobby_list \/ time_run \/ UNCHANGED vars
  BY <1>2, <1>7 DEF handle_disconnects_begin, handle_lobby_list, time_run, vars, data
<1>8. QED
  BY <1>3, <1>4, <1>5, <1>6, <1>7 DEF Next, handle_events, handle_disconnects

\* MembershipAnnounced holds in every game, also in those whose lobbies outlive their host:
\* a connected member hears of the loss of its seat, of whoever comes and goes, and of a new
\* host, whichever command or sweep is the cause.
THEOREM MembershipAlwaysAnnounced == Spec => MembershipAnnounced
<1>1. Inv /\ KeepInv /\ FiniteLobbies /\ [Next]_vars =>
        [\A p \in DOMAIN peers \cap DOMAIN peers' : Connected(p) /\ InLobby(p) =>
           LET l == peers[p].lobby_id IN
           IF peers'[p].lobby_id # l THEN Hears(p, {"LOBBY_LEFT", "LOBBY_KICKED"})
           ELSE /\ ~(lobbies'[l].peer_ids \subseteq lobbies[l].peer_ids) =>
                     Hears(p, {"PEER_JOINED"})
                /\ ~(lobbies[l].peer_ids \subseteq lobbies'[l].peer_ids) =>
                     Hears(p, {"PEER_LEFT", "PEER_KICKED"})
                /\ lobbies'[l].host # lobbies[l].host => Hears(p, {"HOST_CHANGED"})]_vars
  BY StepAnnounces DEF Announced
<1>2. Init => KeepInv /\ FiniteLobbies
  BY FS_EmptySet DEF Init, NoSweep, KeepInv, FiniteLobbies
<1>3. QED
  BY <1>1, <1>2, InitInv, NextInv, NextKeeps, NextFinite, PTL DEF Spec, MembershipAnnounced

-----------------------------------------------------------------------------
(* Subscribers know the list of lobbies *)

\* A lobby of this game fits into one answer to a listing request
AllListed == Cardinality(DOMAIN lobbies) <= MaxListed

\* Whoever is subscribed has a socket, so no report is dropped on its way
ListenersConnected == lobby_listing_peers \subseteq sockets

\* What p knows of l, and what there is to know, is the same after the step
StillTold(p, l) ==
  /\ p \in lobby_listing_peers
  /\ l \notin lobbies_updated
  /\ told'[p][l] = told[p][l]
  /\ l \in DOMAIN lobbies' <=> l \in DOMAIN lobbies
  /\ l \in DOMAIN lobbies => lobbies'[l] = lobbies[l]

\* Of what the subscribers know without a report, nothing turns wrong in the step
StepTells ==
  /\ ListenersConnected'
  /\ \A p \in lobby_listing_peers', l \in LobbyId \ lobbies_updated' :
       Informed(p, l)' \/ StillTold(p, l)

\* Of at most as many lobbies as an answer may hold, all are in it.
LEMMA AllSelected ==
  ASSUME FiniteLobbies, AllListed, NEW p, NEW selected \in SUBSET Listable(p),
         Cardinality(selected) = Min({MaxListed, Cardinality(Listable(p))})
  PROVE  selected = Listable(p)
<1>1. IsFiniteSet(Listable(p)) /\ Cardinality(Listable(p)) <= Cardinality(DOMAIN lobbies)
  BY FS_Subset DEF FiniteLobbies, Listable
<1>2. Cardinality(Listable(p)) \in Nat /\ Cardinality(DOMAIN lobbies) \in Nat
  BY <1>1, FS_CardinalityType DEF FiniteLobbies
<1> DEFINE n == Cardinality(Listable(p))
<1>3. n \in Nat /\ n <= MaxListed /\ MaxListed \in Nat
  BY <1>1, <1>2, BoundAssumption DEF AllListed
<1> HIDE DEF n
<1>4. Min({MaxListed, n}) = n
  BY <1>3 DEF Min
<1>5. Cardinality(selected) = n
  BY <1>4 DEF n
<1>6. QED
  BY <1>1, <1>5, FS_Subset DEF n

\* A step that reports the lobbies it changes leaves what is known of the rest alone.
LEMMA ReportedTells ==
  ASSUME ListenersConnected, ChangesReported,
         lobby_listing_peers' \subseteq lobby_listing_peers \cap sockets',
         \A p \in lobby_listing_peers' : told'[p] = told[p]
  PROVE  StepTells
BY DEF StepTells, StillTold, ListenersConnected, ChangesReported

\* A new subscriber is shown every lobby that is open to it.
LEMMA SubscriptionTells ==
  ASSUME Inv, FiniteLobbies, AllListed, ListenersConnected, NEW c, on_list_lobby(c)
  PROVE  StepTells
<1>1. c \in sockets /\ UNCHANGED <<data, sockets>>
  BY DEF on_list_lobby, Handles, Refuse, conn
<1>2. ChangesReported
  BY <1>1 DEF data, ChangesReported
<1>3. CASE c \in lobby_listing_peers
  BY <1>1, <1>2, <1>3, ReportedTells DEF on_list_lobby, listing, ListenersConnected
<1>4. CASE c \notin lobby_listing_peers
  <2>1. lobby_listing_peers' = lobby_listing_peers \cup {c}
    BY <1>4 DEF on_list_lobby
  <2>2. told' = Put(told, c, [l \in LobbyId |-> IF l \in Listable(c) THEN to_dict(lobbies[l])
                                                                  ELSE Unlisted])
    <3>1. PICK selected \in SUBSET Listable(c) :
            /\ Cardinality(selected) = Min({MaxListed, Cardinality(Listable(c))})
            /\ told' = Put(told, c, [l \in LobbyId |-> IF l \in selected THEN to_dict(lobbies[l])
                                                                      ELSE Unlisted])
      BY <1>4 DEF on_list_lobby
    <3>2. selected = Listable(c)
      BY <3>1, AllSelected
    <3>3. QED
      BY <3>1, <3>2
  <2>3. lobbies' = lobbies /\ lobbies_updated' = lobbies_updated
    BY <1>1 DEF data
  <2>4. ASSUME NEW l \in LobbyId PROVE Informed(c, l)'
    <3>1. told'[c][l] = IF l \in Listable(c) THEN to_dict(lobbies[l]) ELSE Unlisted
      BY <2>2 DEF Put
    <3>2. QED
      BY <2>3, <3>1 DEF Listable, Entry, Informed
  <2>5. ASSUME NEW p \in lobby_listing_peers PROVE told'[p] = told[p]
    BY <1>4, <2>2 DEF Put, Inv, ListInv
  <2>6. ListenersConnected'
    BY <1>1, <2>1 DEF ListenersConnected
  <2>7. QED
    BY <2>1, <2>3, <2>4, <2>5, <2>6 DEF StepTells, StillTold
<1>5. QED
  BY <1>3, <1>4

\* A report sets the subscribers right about the lobbies that changed.
LEMMA ReportTells ==
  ASSUME Inv, KeepInv, ListenersConnected, handle_lobby_list
  PROVE  StepTells
<1>1. /\ lobbies_updated' = {} /\ lobby_listing_peers' = lobby_listing_peers
      /\ UNCHANGED <<lobbies, sockets>>
      /\ told' = [p \in DOMAIN told |->
                    IF p \in DOMAIN disconnected_peers THEN told[p]
                    ELSE [l \in LobbyId |-> IF l \in lobbies_updated THEN Entry(l) ELSE told[p][l]]]
  BY DEF handle_lobby_list, conn
<1>2. ASSUME NEW p \in lobby_listing_peers, NEW l \in LobbyId
      PROVE  Informed(p, l)' \/ StillTold(p, l)
  <2>1. p \in DOMAIN told /\ p \notin DOMAIN disconnected_peers
    BY DEF Inv, ListInv, ListenersConnected, KeepInv
  <2>2. told'[p][l] = IF l \in lobbies_updated THEN Entry(l) ELSE told[p][l]
    BY <1>1, <2>1
  <2>3. Entry(l)' = Entry(l)
    BY <1>1 DEF Entry
  <2>4. QED
    BY <1>1, <2>2, <2>3 DEF Informed, StillTold
<1>3. QED
  BY <1>1, <1>2 DEF StepTells, ListenersConnected

\* No step makes what a subscriber knows wrong unless a report is pending for it.
LEMMA StepListens ==
  ASSUME Inv, KeepInv, FiniteLobbies, AllListed, ListenersConnected, [Next]_vars
  PROVE  StepTells
<1>1. handle_lobby_list \/ ChangesReported
  BY StepReports
<1>2. ASSUME UNCHANGED listing, sockets \subseteq sockets', ChangesReported PROVE StepTells
  BY <1>2, ReportedTells DEF listing, ListenersConnected
<1>3. ASSUME NEW S, lobby_listing_peers' = lobby_listing_peers \ S, told' = Drop(told, S),
             sockets \ S \subseteq sockets', ChangesReported
      PROVE  StepTells
  <2>1. \A p \in lobby_listing_peers' : told'[p] = told[p]
    BY <1>3 DEF Drop, Restrict, Inv, ListInv
  <2>2. QED
    BY <1>3, <2>1, ReportedTells DEF ListenersConnected
<1>4. CASE handle_lobby_list
  BY <1>4, ReportTells
<1>5. CASE ChangesReported
  <2>1. ASSUME NEW c \in PeerId, Connection(c) PROVE StepTells
    <3>1. CASE on_connect(c)
      BY <1>2, <1>5, <3>1 DEF on_connect
    <3>2. CASE on_close(c)
      BY <1>3, <1>5, <3>2 DEF on_close
    <3>3. CASE on_rejected_message(c)
      BY <1>2, <1>5, <3>3 DEF on_rejected_message, conn
    <3>4. QED
      BY <2>1, <3>1, <3>2, <3>3 DEF Connection
  <2>2. ASSUME NEW c \in PeerId, Seating(c) \/ Settings(c) PROVE StepTells
    BY <1>2, <1>5, <2>2, SeatingStep, SettingsStep DEF Inv, conn
  <2>3. ASSUME NEW c \in PeerId, Talking(c) PROVE StepTells
    <3>1. UNCHANGED sockets
      BY <2>3, CommandPeers DEF conn
    <3>2. CASE on_list_lobby(c)
      BY <3>2, SubscriptionTells
    <3>3. CASE on_stop_list_lobby(c)
      BY <1>3, <1>5, <3>1, <3>3 DEF on_stop_list_lobby
    <3>4. CASE UNCHANGED listing
      BY <1>2, <1>5, <3>1, <3>4
    <3>5. QED
      BY <2>3, <3>2, <3>3, <3>4 DEF Talking, on_lobby_ready, on_lobby_unready, on_chat_lobby,
         on_lobby_call, on_user_data, Member
  <2>4. CASE handle_disconnects_begin \/ handle_disconnects_visit
    BY <1>2, <1>5, <2>4 DEF handle_disconnects_begin, handle_disconnects_visit, conn
  <2>5. CASE handle_disconnects_end
    BY <1>3, <1>5, <2>5 DEF handle_disconnects_end
  <2>6. CASE time_run \/ UNCHANGED vars
    BY <1>2, <1>5, <2>6 DEF time_run, vars, conn
  <2>7. QED
    BY <1>4, <2>1, <2>2, <2>3, <2>4, <2>5, <2>6 DEF Next, handle_events, handle_disconnects
<1>6. QED
  BY <1>1, <1>4, <1>5

\* SettingsListed holds as long as no more lobbies exist than one answer lists: about what
\* clients' commands and the sweep change in a list entry, public data apart, subscribers
\* are wrong only of lobbies in lobbies_updated, whatever joins, leaves, changes of the
\* settings, disconnections and reports come in whichever order.
THEOREM SettingsAlwaysListed == Spec /\ []AllListed => []SettingsListed
<1> DEFINE ListedInv == ListenersConnected /\ SettingsListed
<1>1. Init => KeepInv /\ FiniteLobbies /\ ListedInv
  BY FS_EmptySet
  DEF Init, NoSweep, KeepInv, FiniteLobbies, ListenersConnected, SettingsListed
<1>2. Inv /\ KeepInv /\ FiniteLobbies /\ AllListed /\ ListedInv /\ [Next]_vars => ListedInv'
  <2>1. SUFFICES ASSUME Inv, KeepInv, FiniteLobbies, AllListed, ListedInv, [Next]_vars
                 PROVE  ListedInv'
    OBVIOUS
  <2>2. StepTells
    BY <2>1, StepListens
  <2>3. ASSUME NEW p \in lobby_listing_peers, NEW l \in LobbyId \ lobbies_updated, StillTold(p, l)
        PROVE  Informed(p, l)'
    BY <2>1, <2>3 DEF StillTold, SettingsListed, Informed, Entry
  <2>4. QED
    BY <2>2, <2>3 DEF StepTells, StillTold, SettingsListed
<1>3. ListedInv => SettingsListed
  OBVIOUS
<1>4. QED
  BY <1>1, <1>2, <1>3, InitInv, NextInv, NextKeeps, NextFinite, PTL DEF Spec

-----------------------------------------------------------------------------
(* The seat of a disconnected peer is kept *)

Loses(p) == p \notin DOMAIN peers' \/ peers'[p].lobby_id # peers[p].lobby_id

\* Whether the host asked for it, or has taken the lobby away
Excused(p) ==
  LET l == peers[p].lobby_id IN
  \/ answer'.to = lobbies[l].host
  \/ /\ p # lobbies[l].host
     /\ l \notin DOMAIN lobbies'

\* Who loses a seat when c is removed is c, or a member of a lobby that c disbands, and
\* the answer goes to whoever asked.
LEMMA RemoveLosers ==
  ASSUME SeatInv, NEW l \in DOMAIN lobbies, NEW c \in lobbies[l].peer_ids, NEW by, NEW kicked,
         remove_peer_from_lobby(l, c, by, kicked), NEW p \in DOMAIN peers, Loses(p)
  PROVE  /\ p \in lobbies[l].peer_ids
         /\ peers[p].lobby_id = l
         /\ p = c \/ Disbands(lobbies[l], c)
         /\ by # NoPeer => answer'.to = by
<1> DEFINE leavers == IF Disbands(lobbies[l], c) THEN lobbies[l].peer_ids ELSE {c}
<1>1. peers' = [q \in DOMAIN peers |-> IF q \in leavers THEN leave_lobby(peers[q]) ELSE peers[q]]
  BY DEF remove_peer_from_lobby
<1>2. p \in leavers
  <2> HIDE DEF leavers
  <2> QED
    BY <1>1 DEF Loses
<1>3. p \in lobbies[l].peer_ids /\ (p = c \/ Disbands(lobbies[l], c))
  BY <1>2
<1>4. peers[p].lobby_id = l
  BY <1>3 DEF SeatInv, LobbyInv
<1>5. \E verdict : LeaveNotices(lobbies[l], c, by, kicked, verdict)
  BY DEF remove_peer_from_lobby
<1>6. by # NoPeer => answer'.to = by
  BY <1>5 DEF LeaveNotices, reply
<1>7. QED
  BY <1>3, <1>4, <1>6

\* No command of a connected peer takes the seat of a disconnected one, unless it is the
\* host's.
LEMMA CommandExcuses ==
  ASSUME HostedInv, NEW c \in PeerId, c \in sockets \cap DOMAIN peers, CommandCases(c),
         NEW p \in DOMAIN disconnected_peers \cap DOMAIN peers, Loses(p)
  PROVE  Excused(p)
<1>1. p # c /\ c # NoPeer
  BY IdAssumption DEF HostedInv, KeepInv
<1>2. DataInv /\ SeatInv
  BY DEF HostedInv, Inv
<1>3. CASE UNCHANGED data
  BY <1>3 DEF data, Loses
<1>4. CASE \E errors : Refuse(c, errors)
  BY <1>3, <1>4 DEF Refuse
<1>5. CASE \E before, pw, tags : CreateLobby(c, before, pw, tags)
  <2>1. CASE peers' = [peers EXCEPT ![c] = leave_lobby(@)]
    BY <1>1, <2>1 DEF Loses
  <2>2. CASE \E l : peers' = [peers EXCEPT ![c].lobby_id = l, ![c].disconnected = FALSE]
    BY <1>1, <2>2 DEF Loses
  <2>3. QED
    BY <1>4, <1>5, <2>1, <2>2 DEF CreateLobby
<1>6. CASE \E before, l, pw : JoinLobby(c, l, pw, before)
  BY <1>1, <1>6 DEF JoinLobby, Rejoin, Enter, Loses
<1>7. CASE InLobby(c) /\ \E q \in LobbyOf(c).peer_ids, kicked \in BOOLEAN :
             /\ q = c \/ LobbyOf(c).host = c
             /\ remove_peer_from_lobby(peers[c].lobby_id, q, c, kicked)
  <2> DEFINE l == peers[c].lobby_id
  <2>1. l \in DOMAIN lobbies
    BY <1>2, <1>7, SeatFacts
  <2>2. PICK q \in lobbies[l].peer_ids, kicked \in BOOLEAN :
          /\ q = c \/ lobbies[l].host = c
          /\ remove_peer_from_lobby(l, q, c, kicked)
    BY <1>7 DEF LobbyOf
  <2> HIDE DEF l
  <2>3. /\ peers[p].lobby_id = l
        /\ p = q \/ Disbands(lobbies[l], q)
        /\ answer'.to = c
    BY <1>1, <1>2, <2>1, <2>2, RemoveLosers
  <2>4. lobbies[l].host = c
    BY <1>1, <2>2, <2>3 DEF Disbands
  <2>5. QED
    BY <2>3, <2>4 DEF Excused
<1>8. CASE \E ready : set_lobby_ready(c, ready)
  BY <1>8 DEF set_lobby_ready, Loses, HostedInv, Inv, DataInv, PeerData
<1>9. CASE \E lobby, type : SetLobby(c, lobby, type)
  BY <1>9 DEF SetLobby, Loses
<1>10. QED
  BY <1>3, <1>4, <1>5, <1>6, <1>7, <1>8, <1>9 DEF CommandCases

\* A sweep takes the seats of those whose time is over, and of the members of a lobby that
\* ends with its host.
LEMMA SweepExcuses ==
  ASSUME Hosted, HostedInv, handle_disconnects,
         NEW p \in DOMAIN disconnected_peers \cap DOMAIN peers, InLobby(p), ~Expired(p), Loses(p)
  PROVE  Excused(p)
<1>1. CASE UNCHANGED peers
  BY <1>1 DEF Loses
<1>2. CASE handle_disconnects_visit
  <2> DEFINE v == Min(sweep.todo)
             seated == v \in DOMAIN peers /\ peers[v].lobby_id \in DOMAIN lobbies
             l == peers[v].lobby_id
  <2>1. CASE seated /\ Expired(v)
    <3>1. v # p /\ \E by, kicked : remove_peer_from_lobby(l, v, by, kicked)
      BY <1>2, <2>1 DEF handle_disconnects_visit
    <3>2. l \in DOMAIN lobbies /\ v \in lobbies[l].peer_ids
      BY <2>1, IdAssumption DEF HostedInv, Inv, DataInv, SeatsExist, InLobby, LobbyOf
    <3> HIDE DEF v, l
    <3>0. SeatInv /\ p \in DOMAIN peers /\ Loses(p)
      BY DEF HostedInv
    <3>3. /\ p \in lobbies[l].peer_ids
          /\ peers[p].lobby_id = l
          /\ p = v \/ Disbands(lobbies[l], v)
      BY <3>0, <3>1, <3>2, RemoveLosers
    <3>4. Disbands(lobbies[l], v)
      BY <3>1, <3>3
    <3>5. Ends(lobbies[l], v)
      <4>1. IsFiniteSet(lobbies[l].peer_ids)
        BY <3>2, FiniteRange DEF HostedInv, SeatInv, LobbyInv
      <4>2. QED
        BY <3>2, <3>4, <4>1, HostedLeavers
    <3>6. lobbies' = Drop(lobbies, {l})
      BY <3>1, <3>5 DEF remove_peer_from_lobby
    <3>7. p # lobbies[l].host
      BY <3>1, <3>4 DEF Disbands
    <3>8. QED
      BY <3>3, <3>6, <3>7 DEF Excused, Drop, Restrict
  <2>2. CASE ~(seated /\ Expired(v))
    <3>1. peers' = [q \in DOMAIN peers |->
                      IF q = v /\ ~seated THEN leave_lobby(peers[q]) ELSE peers[q]]
      BY <1>2, <2>2 DEF handle_disconnects_visit
    <3>2. p = v => seated
      BY DEF HostedInv, Inv, DataInv, SeatsExist
    <3> HIDE DEF v, seated
    <3>3. QED
      BY <3>1, <3>2 DEF Loses
  <2>3. QED
    BY <2>1, <2>2
<1>3. CASE handle_disconnects_end
  BY <1>3 DEF handle_disconnects_end, Drop, Restrict, HostedInv, SweptInv, Loses
<1>4. QED
  BY <1>1, <1>2, <1>3 DEF handle_disconnects, handle_disconnects_begin, data

\* No step takes the seat of a peer that may still come back, but for these reasons.
LEMMA StepExcuses ==
  ASSUME Hosted, HostedInv, FiniteLobbies, [Next]_vars,
         NEW p \in DOMAIN disconnected_peers \cap DOMAIN peers, InLobby(p), ~Expired(p), Loses(p)
  PROVE  Excused(p)
<1>1. CASE UNCHANGED peers
  BY <1>1 DEF Loses
<1>2. ASSUME NEW c \in PeerId, Connection(c) PROVE Excused(p)
  <2>1. CASE on_connect(c)
    BY <2>1 DEF on_connect, Put, Loses
  <2>2. CASE on_close(c)
    BY <2>2 DEF on_close, Loses, HostedInv, Inv, DataInv, PeerData
  <2>3. CASE on_rejected_message(c)
    BY <1>1, <2>3 DEF on_rejected_message, data
  <2>4. QED
    BY <1>2, <2>1, <2>2, <2>3 DEF Connection
<1>3. ASSUME NEW c \in PeerId, Seating(c) \/ Settings(c) \/ Talking(c) PROVE Excused(p)
  BY <1>3, Commanded, CommandExcuses DEF HostedInv, Inv
<1>4. CASE handle_disconnects
  BY <1>4, SweepExcuses
<1>5. CASE handle_lobby_list \/ time_run \/ UNCHANGED vars
  BY <1>1, <1>5 DEF handle_lobby_list, time_run, vars, data
<1>6. QED
  BY <1>2, <1>3, <1>4, <1>5 DEF Next, handle_events

\* SeatKept holds in every hosted game: a peer that has lost its socket keeps its seat for
\* the whole reconnection time, whatever sweeps, kicks of others and hand-overs go on.
THEOREM SeatsAlwaysKept ==
  ASSUME Hosted
  PROVE  Spec => SeatKept
<1>1. HostedInv /\ FiniteLobbies /\ [Next]_vars =>
        [\A p \in DOMAIN disconnected_peers \cap DOMAIN peers :
           LET l == peers[p].lobby_id IN
           /\ InLobby(p)
           /\ disconnected_peers[p] <= MaxReconnectionTime
           /\ p \notin DOMAIN peers' \/ peers'[p].lobby_id # l
           => \/ answer'.to = lobbies[l].host
              \/ p # lobbies[l].host /\ l \notin DOMAIN lobbies']_vars
  <2>1. SUFFICES ASSUME HostedInv, FiniteLobbies, [Next]_vars,
                        NEW p \in DOMAIN disconnected_peers \cap DOMAIN peers,
                        InLobby(p), disconnected_peers[p] <= MaxReconnectionTime, Loses(p)
                 PROVE  Excused(p)
    BY DEF Loses, Excused
  <2>2. ~Expired(p)
    BY <2>1, BoundAssumption DEF Expired, HostedInv, Inv, ConnInv
  <2>3. QED
    BY <2>1, <2>2, StepExcuses
<1>2. HostedInv => Inv
  BY DEF HostedInv
<1>3. Init => FiniteLobbies
  BY FS_EmptySet DEF Init, FiniteLobbies
<1>4. QED
  BY <1>1, <1>2, <1>3, InitHosted, NextHosted, NextFinite, PTL DEF Spec, SeatKept

-----------------------------------------------------------------------------
(* Messages *)

\* Nothing that was sent tells of seats
Silent ==
  /\ \A n \in notices' : n.type \notin SeatTypes
  /\ Range(answer'.replies) \cap SeatTypes = {}

\* A notice goes to its audience and is of its type.
LEMMA SentFacts ==
  ASSUME NEW S, NEW type, NEW n \in send(S, type)
  PROVE  n.to \in S /\ n.type = type
BY DEF send

\* An answer made of other messages tells of no seats.
LEMMA SilentReply ==
  ASSUME NEW p, NEW types, Messages(types), answer' = reply(p, types)
  PROVE  Range(answer'.replies) \cap SeatTypes = {}
<1>1. \A i \in DOMAIN types : types[i] \notin SeatTypes
  BY DEF Messages
<1>2. answer'.replies = types \/ answer'.replies = <<>>
  BY DEF reply
<1>3. QED
  BY <1>1, <1>2 DEF Range

\* Nobody hears of a seat then.
LEMMA SilentHears ==
  ASSUME Silent, NEW p, NEW types, types \subseteq SeatTypes
  PROVE  ~Hears(p, types)
BY DEF Silent, Hears

\* An answer to p and notices of a type that tell of no seats (Tell).
LEMMA SilentTell ==
  ASSUME NEW p, NEW types, Messages(types), NEW S, NEW type, type \notin SeatTypes,
         Tell(p, types, S, type)
  PROVE  Silent
BY SilentReply, SentFacts DEF Tell, Silent

\* A message among others is among them.
LEMMA SentMessage ==
  ASSUME NEW S, NEW s \in Seq(S), NEW e, NEW T, NEW t \in Seq(T)
  PROVE  e \in Range(s \o <<e>> \o t) /\ Append(s, e) = s \o <<e>>
<1> DEFINE U == S \cup {e} \cup T
           w == s \o <<e>> \o t
           n == Len(s) + 1
<1>1. s \in Seq(U) /\ <<e>> \in Seq(U) /\ t \in Seq(U)
  OBVIOUS
<1> HIDE DEF U
<1>2. /\ s \o <<e>> \in Seq(U) /\ Len(s) \in Nat
      /\ Len(s \o <<e>>) = n /\ (s \o <<e>>)[n] = e
  BY <1>1
<1>3. w \in Seq(U) /\ Len(w) = n + Len(t) /\ Len(t) \in Nat
  BY <1>1, <1>2
<1>4. w[n] = e
  BY <1>1, <1>2
<1>5. n \in DOMAIN w
  BY <1>2, <1>3
<1>6. e \in Range(w)
  BY <1>4, <1>5 DEF Range
<1>7. Append(s, e) = s \o <<e>>
  BY <1>1
<1>8. QED
  BY <1>6, <1>7

\* A step without messages.
LEMMA SilentNone ==
  ASSUME answer' = NoAnswer, notices' = {}
  PROVE  Silent
BY DEF NoAnswer, Silent, Range

-----------------------------------------------------------------------------
(* What a step does to the seats *)

\* No seat changes, no lobby gets or loses a member, nobody hears of seats, and a member
\* that is away does not pass for one that has joined
Still ==
  /\ DOMAIN lobbies' = DOMAIN lobbies
  /\ \A l \in DOMAIN lobbies : /\ lobbies'[l].peer_ids = lobbies[l].peer_ids
                               /\ lobbies'[l].host = lobbies[l].host
  /\ \A q \in DOMAIN peers : InLobby(q) => q \in DOMAIN peers'
  /\ \A q \in DOMAIN peers' :
       IF q \in DOMAIN peers
       THEN /\ peers'[q].lobby_id = peers[q].lobby_id
            /\ InLobby(q) /\ peers[q].disconnected => peers'[q].disconnected
            /\ InLobby(q) /\ q \in sockets \ sockets' => peers'[q].disconnected
       ELSE peers'[q].lobby_id = NoLobby
  /\ Silent

\* A peer with a socket, and what stays as it is when its command is handled
Sender(c) == c \in sockets \cap DOMAIN peers /\ UNCHANGED sockets

\* c comes back to its seat
Returns(c) ==
  /\ Sender(c) /\ InLobby(c)
  /\ peers' = [peers EXCEPT ![c].ready = FALSE, ![c].disconnected = FALSE]
  /\ UNCHANGED lobbies
  /\ \A n \in notices' : n.type \notin SeatTypes
  /\ answer'.to = c /\ "JOINED_LOBBY" \in Range(answer'.replies)

\* c creates lobby l
Founds(c, l) ==
  /\ Sender(c) /\ ~InLobby(c) /\ l \in FreshLobbyId
  /\ peers' = [peers EXCEPT ![c].lobby_id = l, ![c].disconnected = FALSE]
  /\ \E lobby : lobby.peer_ids = {c} /\ lobby.host = c /\ lobbies' = Put(lobbies, l, lobby)
  /\ notices' = {}
  /\ answer'.to = c /\ "LOBBY_CREATED" \in Range(answer'.replies)

\* c joins lobby l
Joins(c, l) ==
  /\ Sender(c) /\ ~InLobby(c) /\ l \in DOMAIN lobbies
  /\ \E order : peers' = [peers EXCEPT ![c].order_id = order, ![c].lobby_id = l,
                                       ![c].disconnected = FALSE]
  /\ \E order : lobbies' = [lobbies EXCEPT ![l].order_id_counter = order,
                                           ![l].peer_ids = @ \cup {c}]
  /\ notices' = send(lobbies[l].peer_ids \ {c}, "PEER_JOINED")
  /\ answer'.to = c /\ "JOINED_LOBBY" \in Range(answer'.replies)

\* c is taken out of lobby l
Leaves(c, l) ==
  /\ l \in DOMAIN lobbies /\ c \in lobbies[l].peer_ids
  /\ UNCHANGED sockets
  /\ \E by \in {NoPeer} \cup (lobbies[l].peer_ids \cap sockets), kicked \in BOOLEAN :
       remove_peer_from_lobby(l, c, by, kicked)

\* Every step is one of these, unless it looks up a record that is not there
SeatCases ==
  \/ Still
  \/ \E c : Returns(c)
  \/ \E c, l : Founds(c, l) \/ Joins(c, l) \/ Leaves(c, l)

\* Creating a lobby, and the errors on the way to it.
LEMMA CreateCases ==
  ASSUME DataInv, KeepInv, NEW c \in PeerId, Sender(c),
         NEW before, Messages(before), NEW pw, NEW tags, CreateLobby(c, before, pw, tags)
  PROVE  SeatCases
<1>1. c \notin DOMAIN disconnected_peers
  BY DEF KeepInv, Sender
<1>2. CASE \E e : e \notin SeatTypes /\ Refuse(c, before \o <<e>>)
  <2>1. PICK e : e \notin SeatTypes /\ Refuse(c, before \o <<e>>)
    BY <1>2
  <2>2. Messages(before \o <<e>>)
    BY <2>1, MessageFacts
  <2>3. Silent
    BY <2>1, <2>2, SilentReply DEF Refuse, Silent
  <2>4. QED
    BY <2>1, <2>3 DEF Refuse, data, Still, Sender, SeatCases
<1>3. CASE /\ ~InLobby(c)
           /\ peers' = [peers EXCEPT ![c] = leave_lobby(@)]
           /\ Tell(c, before \o <<"ERROR">>, {}, "ERROR")
           /\ UNCHANGED lobbies
  <2>1. "ERROR" \notin SeatTypes
    BY DEF SeatTypes
  <2>2. Silent
    BY <1>3, <2>1, MessageFacts, SilentTell
  <2>3. QED
    BY <1>3, <2>2 DEF Still, Sender, SeatCases, leave_lobby, InLobby, DataInv, PeerData
<1>4. CASE /\ ~InLobby(c)
           /\ \E l \in FreshLobbyId : \E lobby, verdict :
                /\ lobby.peer_ids = {c} /\ lobby.host = c
                /\ peers' = [peers EXCEPT ![c].lobby_id = l, ![c].disconnected = FALSE]
                /\ lobbies' = Put(lobbies, l, lobby)
                /\ Tell(c, before \o <<"LOBBY_CREATED">> \o ErrorReply(verdict), {}, "ERROR")
  <2>1. PICK l \in FreshLobbyId : \E lobby, verdict :
          /\ lobby.peer_ids = {c} /\ lobby.host = c
          /\ peers' = [peers EXCEPT ![c].lobby_id = l, ![c].disconnected = FALSE]
          /\ lobbies' = Put(lobbies, l, lobby)
          /\ Tell(c, before \o <<"LOBBY_CREATED">> \o ErrorReply(verdict), {}, "ERROR")
    BY <1>4
  <2>2. PICK lobby, verdict :
          /\ lobby.peer_ids = {c} /\ lobby.host = c
          /\ lobbies' = Put(lobbies, l, lobby)
          /\ Tell(c, before \o <<"LOBBY_CREATED">> \o ErrorReply(verdict), {}, "ERROR")
    BY <2>1
  <2> DEFINE types == before \o <<"LOBBY_CREATED">> \o ErrorReply(verdict)
  <2>3. notices' = {} /\ answer' = [to |-> c, replies |-> types]
    BY <1>1, <2>2 DEF Tell, send, reply
  <2>4. "LOBBY_CREATED" \in Range(types)
    BY SentMessage, ErrorFacts DEF Messages
  <2> HIDE DEF types
  <2>5. answer'.to = c /\ answer'.replies = types
    BY <2>3
  <2>6. Founds(c, l)
    BY <1>4, <2>1, <2>2, <2>3, <2>4, <2>5 DEF Founds
  <2>7. QED
    BY <2>6 DEF SeatCases
<1>5. \/ \E e : e \notin SeatTypes /\ Refuse(c, before \o <<e>>)
      \/ ~InLobby(c) /\ peers' = [peers EXCEPT ![c] = leave_lobby(@)]
         /\ Tell(c, before \o <<"ERROR">>, {}, "ERROR") /\ UNCHANGED lobbies
      \/ /\ ~InLobby(c)
         /\ \E m, s, name, verdict : \E l \in FreshLobbyId :
              /\ peers' = [peers EXCEPT ![c].lobby_id = l, ![c].disconnected = FALSE]
              /\ lobbies' = Put(lobbies, l, NewLobby(c, m, pw, s, name, tags))
              /\ Tell(c, before \o <<"LOBBY_CREATED">> \o ErrorReply(verdict), {}, "ERROR")
  BY DEF CreateLobby, SeatTypes
<1>6. \A m, s, name : /\ NewLobby(c, m, pw, s, name, tags).peer_ids = {c}
                      /\ NewLobby(c, m, pw, s, name, tags).host = c
  BY DEF NewLobby
<1>7. QED
  BY <1>2, <1>3, <1>4, <1>5, <1>6

\* Joining a lobby, or coming back to it.
LEMMA JoinCases ==
  ASSUME DataInv, KeepInv, NEW c \in PeerId, Sender(c), NEW before, Messages(before),
         NEW l, NEW pw, JoinLobby(c, l, pw, before)
  PROVE  SeatCases
<1>1. c \notin DOMAIN disconnected_peers
  BY DEF KeepInv, Sender
<1>2. CASE Rejoin(c, before)
  <2>1. answer'.to = c /\ answer'.replies = Append(before, "JOINED_LOBBY")
    BY <1>1, <1>2 DEF Rejoin, Tell, reply
  <2>2. "JOINED_LOBBY" \in Range(Append(before, "JOINED_LOBBY"))
    <3>1. PICK S : before \in Seq(S)
      BY DEF Messages
    <3>2. Append(before, "JOINED_LOBBY") = before \o <<"JOINED_LOBBY">>
      BY <3>1
    <3>3. <<>> \in Seq({}) /\ before \o <<"JOINED_LOBBY">> \o <<>> = before \o <<"JOINED_LOBBY">>
      BY <3>1
    <3>4. QED
      BY <3>1, <3>2, <3>3, SentMessage
  <2>3. \A n \in notices' : n.type \notin SeatTypes
    <3>1. "PEER_RECONNECTED" \notin SeatTypes /\ notices' = send(Others(c), "PEER_RECONNECTED")
      BY <1>2 DEF SeatTypes, Rejoin, Tell
    <3>2. QED
      BY <3>1, SentFacts
  <2>4. Returns(c)
    BY <1>2, <2>1, <2>2, <2>3 DEF Returns, Rejoin, Reconnecting
  <2>5. QED
    BY <2>4 DEF SeatCases
<1>3. CASE Enter(c, l, before)
  <2>1. ~InLobby(c) /\ l \in DOMAIN lobbies
    BY <1>3 DEF JoinLobby, MayJoin, JoinErrors, JoinTarget, Enter
  <2>2. PICK verdict : Tell(c, Append(before, "JOINED_LOBBY") \o ErrorReply(verdict),
                            lobbies[l].peer_ids \ {c}, "PEER_JOINED")
    BY <1>3 DEF Enter
  <2> DEFINE types == Append(before, "JOINED_LOBBY") \o ErrorReply(verdict)
  <2>3. "JOINED_LOBBY" \in Range(types)
    BY SentMessage, ErrorFacts DEF Messages
  <2> HIDE DEF types
  <2>4. answer'.to = c /\ answer'.replies = types
    BY <1>1, <2>2 DEF Tell, reply, types
  <2>5. notices' = send(lobbies[l].peer_ids \ {c}, "PEER_JOINED")
    BY <2>2 DEF Tell
  <2>6. Joins(c, l)
    BY <1>3, <2>1, <2>3, <2>4, <2>5 DEF Joins, Enter
  <2>7. QED
    BY <2>6 DEF SeatCases
<1>4. QED
  BY <1>2, <1>3 DEF JoinLobby

\* The commands of the clients.
LEMMA CommandSeats ==
  ASSUME DataInv, KeepInv, NEW c \in PeerId, Sender(c), CommandCases(c)
  PROVE  SeatCases \/ fabricated'
<1>1. CASE \E errors : Messages(errors) /\ Refuse(c, errors)
  <2>1. Silent
    BY <1>1, SilentReply DEF Refuse, Silent
  <2>2. QED
    BY <1>1, <2>1 DEF Refuse, data, Still, Sender, SeatCases
<1>2. CASE \E types, S, type :
             /\ Messages(types) /\ type \notin SeatTypes
             /\ Tell(c, types, S, type)
             /\ UNCHANGED <<data, fabricated>>
  <2>1. Silent
    BY <1>2, SilentTell
  <2>2. QED
    BY <1>2, <2>1 DEF data, Still, Sender, SeatCases
<1>3. CASE fabricated' = TRUE
  BY <1>3
<1>4. CASE \E before, pw, tags : Messages(before) /\ CreateLobby(c, before, pw, tags)
  BY <1>4, CreateCases
<1>5. CASE \E before, l, pw : Messages(before) /\ JoinLobby(c, l, pw, before)
  BY <1>5, JoinCases
<1>6. CASE InLobby(c) /\ \E q \in LobbyOf(c).peer_ids, kicked \in BOOLEAN :
             remove_peer_from_lobby(peers[c].lobby_id, q, c, kicked)
  <2>1. peers[c].lobby_id \in DOMAIN lobbies /\ c \in LobbyOf(c).peer_ids \cap sockets
    BY <1>6 DEF DataInv, SeatsExist, Sender
  <2>2. \E q : Leaves(q, peers[c].lobby_id)
    BY <1>6, <2>1 DEF LobbyOf, Leaves, Sender
  <2>3. QED
    BY <2>2 DEF SeatCases
<1>7. CASE \E ready : set_lobby_ready(c, ready)
  <2>1. PICK type : type \in {"PEER_READY", "PEER_UNREADY"} /\ Tell(c, <<type>>, Others(c), type)
    BY <1>7 DEF set_lobby_ready
  <2>2. Silent
    BY <2>1, MessageFacts, SilentTell DEF SeatTypes
  <2>3. QED
    BY <1>7, <2>2 DEF set_lobby_ready, Still, Sender, SeatCases, DataInv, PeerData, InLobby
<1>8. CASE InLobby(c) /\ \E lobby, type :
             /\ type \notin SeatTypes
             /\ lobby.peer_ids = LobbyOf(c).peer_ids
             /\ lobby.host = LobbyOf(c).host
             /\ SetLobby(c, lobby, type)
  <2>1. Silent
    BY <1>8, MessageFacts, SilentTell DEF SetLobby
  <2>2. peers[c].lobby_id \in DOMAIN lobbies
    BY <1>8 DEF DataInv, SeatsExist, Sender
  <2>3. QED
    BY <1>8, <2>1, <2>2 DEF SetLobby, LobbyOf, Still, Sender, SeatCases
<1>9. QED
  BY <1>1, <1>2, <1>3, <1>4, <1>5, <1>6, <1>7, <1>8 DEF CommandCases

\* Sockets that open and close.
LEMMA ConnectionCases ==
  ASSUME DataInv, KeepInv, NEW p \in PeerId, Connection(p)
  PROVE  SeatCases
<1> SUFFICES Still
  BY DEF SeatCases
<1>1. CASE on_connect(p)
  <2>1. Silent
    <3>1. \A n \in notices' : n.type \in {"PEER_STATE", "ERROR"}
      <4>1. \A verdict : Range(ErrorReply(verdict)) \subseteq {"ERROR"}
        BY DEF ErrorReply, Range
      <4>2. QED
        BY <1>1, <4>1 DEF on_connect
    <3>2. Range(answer'.replies) \cap SeatTypes = {}
      BY <1>1 DEF on_connect, NoAnswer, Range
    <3>3. QED
      BY <3>1, <3>2 DEF Silent, SeatTypes
  <2>2. CASE p \in DOMAIN peers
    BY <1>1, <2>1, <2>2 DEF on_connect, Still
  <2>3. CASE p \notin DOMAIN peers
    <3>1. peers' = Put(peers, p, NewPeer) /\ lobbies' = lobbies /\ sockets' = sockets \cup {p}
      BY <1>1, <2>3 DEF on_connect
    <3>2. QED
      BY <2>1, <2>3, <3>1 DEF Still, Put, NewPeer
  <2>4. QED
    BY <2>2, <2>3
<1>2. CASE on_close(p)
  <2>1. /\ p \in DOMAIN peers
        /\ peers' = [peers EXCEPT ![p].ready = FALSE, ![p].disconnected = TRUE]
        /\ sockets' = sockets \ {p} /\ lobbies' = lobbies
    BY <1>2 DEF on_close, KeepInv
  <2>2. Silent
    <3>1. notices' = {} \/ notices' = send(Others(p), "PEER_DISCONNECTED")
      BY <1>2, <2>1 DEF on_close
    <3>2. \A n \in notices' : n.type = "PEER_DISCONNECTED"
      BY <3>1, SentFacts
    <3>3. Range(answer'.replies) \cap SeatTypes = {}
      BY <1>2 DEF on_close, NoAnswer, Range
    <3>4. QED
      BY <3>2, <3>3 DEF Silent, SeatTypes
  <2>3. peers[p] \in PeerData
    BY <2>1 DEF DataInv
  <2>4. QED
    BY <2>1, <2>2, <2>3 DEF Still, PeerData
<1>3. CASE on_rejected_message(p)
  <2>1. Silent
    <3>1. notices' = {} /\ Range(answer'.replies) \subseteq {"CLOSE"}
      BY <1>3 DEF on_rejected_message, Range
    <3>2. QED
      BY <3>1 DEF Silent, SeatTypes
  <2>2. QED
    BY <1>3, <2>1 DEF on_rejected_message, data, conn, Still
<1>4. QED
  BY <1>1, <1>2, <1>3 DEF Connection

\* The sweep of disconnected peers.
LEMMA SweepCases ==
  ASSUME DataInv, RunInv, SweptInv, handle_disconnects
  PROVE  SeatCases
<1>1. CASE handle_disconnects_begin
  BY <1>1, SilentNone DEF handle_disconnects_begin, data, conn, Still, SeatCases
<1>2. CASE handle_disconnects_visit
  <2> DEFINE p == Min(sweep.todo)
             seated == p \in DOMAIN peers /\ peers[p].lobby_id \in DOMAIN lobbies
  <2> HIDE DEF p
  <2>1. UNCHANGED sockets
    BY <1>2 DEF handle_disconnects_visit, conn
  <2>2. CASE seated /\ remove_peer_from_lobby(peers[p].lobby_id, p, NoPeer, TRUE)
    <3>1. InLobby(p) /\ p \in lobbies[peers[p].lobby_id].peer_ids
      BY <2>2, IdAssumption DEF DataInv, SeatsExist, InLobby, LobbyOf
    <3>2. Leaves(p, peers[p].lobby_id)
      BY <2>1, <2>2, <3>1 DEF Leaves
    <3>3. QED
      BY <3>2 DEF SeatCases
  <2>3. CASE /\ peers' = [q \in DOMAIN peers |->
                            IF q = p /\ ~seated THEN leave_lobby(peers[q]) ELSE peers[q]]
             /\ answer' = NoAnswer /\ notices' = {} /\ UNCHANGED lobbies
    <3>1. \A q \in DOMAIN peers : leave_lobby(peers[q]).lobby_id = NoLobby
      BY DEF leave_lobby, DataInv, PeerData
    <3>2. p \in DOMAIN peers /\ ~seated => ~InLobby(p)
      BY DEF DataInv, SeatsExist
    <3>3. \A q \in DOMAIN peers : peers'[q].lobby_id = peers[q].lobby_id
                                /\ (InLobby(q) => peers'[q] = peers[q])
      BY <2>3, <3>1, <3>2 DEF InLobby
    <3>4. QED
      BY <2>1, <2>3, <3>3, SilentNone DEF Still, SeatCases
  <2>4. QED
    BY <1>2, <2>2, <2>3 DEF handle_disconnects_visit, p
<1>3. CASE handle_disconnects_end
  <2>1. peers' = Drop(peers, sweep.to_erase) /\ UNCHANGED <<sockets, lobbies>>
    BY <1>3 DEF handle_disconnects_end
  <2>2. /\ DOMAIN peers' = DOMAIN peers \ sweep.to_erase
        /\ \A q \in DOMAIN peers' : peers'[q] = peers[q]
    BY <2>1 DEF Drop, Restrict
  <2>3. Silent
    BY <1>3, SilentNone DEF handle_disconnects_end
  <2>4. QED
    BY <2>1, <2>2, <2>3 DEF Still, SeatCases, SweptInv
<1>4. QED
  BY <1>1, <1>2, <1>3 DEF handle_disconnects

\* Every step of the game thread and of the clock.
LEMMA StepCases ==
  ASSUME Inv, KeepInv, SweptInv, FiniteLobbies, Next
  PROVE  SeatCases \/ fabricated'
<1> USE DEF Inv
<1>1. CASE \E p \in PeerId : Connection(p)
  BY <1>1, ConnectionCases
<1>2. CASE \E p \in PeerId : Seating(p) \/ Settings(p) \/ Talking(p)
  <2>1. PICK p \in PeerId : Seating(p) \/ Settings(p) \/ Talking(p)
    BY <1>2
  <2>2. p \in sockets \cap DOMAIN peers /\ CommandCases(p)
    BY <2>1, Commanded
  <2>3. UNCHANGED sockets
    BY <2>1 DEF Handles, conn, Seating, Settings, Talking, on_create_lobby, on_join_lobby,
       on_quick_join, on_leave_lobby, on_kick_peer, on_seal_lobby, on_unseal_lobby,
       on_lobby_max_players, on_lobby_title, on_lobby_password, on_lobby_tags, on_lobby_ready,
       on_lobby_unready, on_chat_lobby, on_lobby_call, on_user_data, on_list_lobby,
       on_stop_list_lobby, Member
  <2>4. QED
    BY <2>2, <2>3, CommandSeats DEF Sender
<1>3. CASE handle_disconnects
  BY <1>3, SweepCases
<1>4. CASE handle_lobby_list
  <2>1. Silent
    <3>1. "LOBBY_LIST" \notin SeatTypes /\ notices' = send(lobby_listing_peers, "LOBBY_LIST")
      BY <1>4 DEF SeatTypes, handle_lobby_list
    <3>2. Range(answer'.replies) \cap SeatTypes = {}
      BY <1>4 DEF handle_lobby_list, NoAnswer, Range
    <3>3. QED
      BY <3>1, <3>2, SentFacts DEF Silent
  <2>2. QED
    BY <1>4, <2>1 DEF handle_lobby_list, conn, Still, SeatCases
<1>5. CASE time_run
  BY <1>5, SilentNone DEF time_run, data, Still, SeatCases
<1>6. QED
  BY <1>1, <1>2, <1>3, <1>4, <1>5 DEF Next, handle_events

-----------------------------------------------------------------------------
(* Shared data in a step of GameThread *)

\* Types of the data; a view has its four parts
Data == [Key -> Value \cup {Null}]
DataTypes ==
  /\ lobby_public \in [DOMAIN lobbies -> Data] /\ lobby_private \in [DOMAIN lobbies -> Data]
  /\ peer_public \in [DOMAIN peers -> Data] /\ peer_private \in [DOMAIN peers -> Data]
  /\ DOMAIN view = PeerId
  /\ \A p \in PeerId : DOMAIN view[p] = DOMAIN NoView

\* A member without a socket is marked as disconnected, so that it passes for one that
\* has joined only when it comes back by a command
AwayInv == \A q \in DOMAIN peers \ sockets : InLobby(q) => peers[q].disconnected

\* The handlers of GameThread keep the types.
LEMMA CarriedTypes == DataTypes /\ Carried => DataTypes'
<1> SUFFICES ASSUME DataTypes, Carried PROVE DataTypes'
  OBVIOUS
<1>1. Empty \in Data
  BY DEF Empty, Data
<1> HIDE DEF Empty, Data
<1>2. ASSUME NEW f \in [DOMAIN lobbies -> Data]
      PROVE  Kept(f) \in [DOMAIN lobbies' -> Data]
  BY <1>1 DEF Kept
<1>3. ASSUME NEW f \in [DOMAIN peers -> Data]
      PROVE  Left(f) \in [DOMAIN peers' -> Data]
  BY <1>1 DEF Left
<1>4. ASSUME NEW p \in PeerId
      PROVE  DOMAIN Told(p) = DOMAIN NoView
  <2>1. DOMAIN view[p] = DOMAIN NoView
    BY DEF DataTypes
  <2>2. DOMAIN PeerState(p) = DOMAIN NoView
    BY DEF PeerState, NoView
  <2>3. DOMAIN LobbyJoined(p) = DOMAIN NoView
    BY DEF LobbyJoined, NoView
  <2>4. /\ \A v : DOMAIN [view[p] EXCEPT !.peers = v] = DOMAIN view[p]
    OBVIOUS
  <2>5. QED
    BY <2>1, <2>2, <2>3, <2>4 DEF Told
<1>5. view' = [p \in PeerId |-> Told(p)]
  BY DEF Carried
<1>6. DOMAIN view' = PeerId /\ \A p \in PeerId : view'[p] = Told(p)
  BY <1>5
<1>7. QED
  BY <1>2, <1>3, <1>4, <1>6 DEF Carried, DataTypes, NoView, Data

\* The data after such a step, entry by entry.
LEMMA CarriedFacts ==
  ASSUME Carried
  PROVE  /\ \A l \in DOMAIN lobbies' :
              /\ lobby_public'[l] = IF l \in DOMAIN lobbies THEN lobby_public[l] ELSE Empty
              /\ lobby_private'[l] = IF l \in DOMAIN lobbies THEN lobby_private[l] ELSE Empty
         /\ \A q \in DOMAIN peers' :
              /\ peer_public'[q] = IF q \in DOMAIN peers \ Cleared THEN peer_public[q] ELSE Empty
              /\ peer_private'[q] = IF q \in DOMAIN peers \ Cleared THEN peer_private[q] ELSE Empty
         /\ \A p \in PeerId : view'[p] = Told(p)
BY DEF Carried, Kept, Left

\* Where no lobby ends or loses a member, no data is dropped.
LEMMA NobodyLeaves ==
  ASSUME \A l \in DOMAIN lobbies :
           l \in DOMAIN lobbies' /\ lobbies[l].peer_ids \subseteq lobbies'[l].peer_ids
  PROVE  Cleared = {}
BY DEF Cleared, Gone

\* Who hears nothing of seats keeps its view; who is let in gets the lobby; who is
\* turned out has an empty view.
LEMMA ToldFacts ==
  ASSUME NEW q \in sockets \cap sockets'
  PROVE  /\ ~Hears(q, SeatTypes) => Told(q) = view[q]
         /\ Hears(q, {"JOINED_LOBBY"}) \/ Hears(q, {"LOBBY_CREATED"}) => Told(q) = LobbyJoined(q)
         /\ /\ ~Hears(q, {"JOINED_LOBBY", "LOBBY_CREATED"})
            /\ Hears(q, {"LOBBY_LEFT", "LOBBY_KICKED"})
            => Told(q) = NoView
<1>1. ASSUME NEW types, types \subseteq SeatTypes, Hears(q, types)
      PROVE  Hears(q, SeatTypes)
  BY <1>1 DEF Hears
<1>2. /\ {"JOINED_LOBBY", "LOBBY_CREATED"} \subseteq SeatTypes
      /\ {"LOBBY_LEFT", "LOBBY_KICKED"} \subseteq SeatTypes
      /\ {"PEER_JOINED"} \subseteq SeatTypes
      /\ {"PEER_LEFT", "PEER_KICKED"} \subseteq SeatTypes
  BY DEF SeatTypes
<1>3. Hears(q, {"JOINED_LOBBY"}) \/ Hears(q, {"LOBBY_CREATED"})
        => Hears(q, {"JOINED_LOBBY", "LOBBY_CREATED"})
  BY DEF Hears
<1>4. QED
  BY <1>1, <1>2, <1>3 DEF Told

\* A departure is told to the members, to a host that need not be one, and to the leaver and
\* who asked for it; only those it turns out hear of their own.
LEMMA LeaveHears ==
  ASSUME NEW lobby, NEW c, NEW by, NEW kicked, NEW verdict,
         LeaveNotices(lobby, c, by, kicked, verdict), NEW q
  PROVE  /\ Hears(q, SeatTypes) => q \in lobby.peer_ids \cup {lobby.host, c, by}
         /\ ~Hears(q, {"JOINED_LOBBY", "LOBBY_CREATED"})
         /\ ~Hears(q, {"PEER_JOINED"})
         /\ Hears(q, {"LOBBY_LEFT", "LOBBY_KICKED"}) =>
              q = c \/ (Disbands(lobby, c) /\ q \in lobby.peer_ids)
<1> DEFINE rest == lobby.peer_ids \ {c}
           people == lobby.peer_ids \cup {lobby.host, c, by}
           Types == {"LOBBY_KICKED", "PEER_LEFT", "HOST_CHANGED", "PEER_KICKED", "LOBBY_LEFT",
                     "ERROR"}
           Fits(to, type) ==
             /\ to \in people /\ type \in Types
             /\ type \in {"LOBBY_LEFT", "LOBBY_KICKED"} =>
                  to = c \/ (Disbands(lobby, c) /\ to \in lobby.peer_ids)
<1>1. ErrorReply(verdict) = <<>> \/ ErrorReply(verdict) = <<"ERROR">>
  BY DEF ErrorReply
<1>2. Range(ErrorReply(verdict)) \subseteq {"ERROR"}
  BY <1>1 DEF Range
<1>3. ASSUME NEW n \in notices'
      PROVE  Fits(n.to, n.type)
  <2>1. \/ Disbands(lobby, c) /\ n \in send(rest, "LOBBY_KICKED")
        \/ n \in send(rest, "PEER_LEFT")
        \/ n \in send(rest, "HOST_CHANGED")
        \/ n \in send(KickAudience(lobby, c, by), "PEER_KICKED")
        \/ n \in send({c}, "LOBBY_LEFT")
        \/ n \in send({c}, "LOBBY_KICKED")
        \/ n \in [to : {c} \ DOMAIN disconnected_peers, type : Range(ErrorReply(verdict))]
    BY <1>3 DEF LeaveNotices
  <2>2. KickAudience(lobby, c, by) \subseteq people
    BY DEF KickAudience
  <2>3. rest \subseteq lobby.peer_ids /\ rest \subseteq people /\ c \in people
    OBVIOUS
  <2> HIDE DEF rest, people
  <2>4. CASE n \in [to : {c} \ DOMAIN disconnected_peers, type : Range(ErrorReply(verdict))]
    BY <1>2, <2>3, <2>4
  <2>5. CASE Disbands(lobby, c) /\ n \in send(rest, "LOBBY_KICKED")
    BY <2>3, <2>5, SentFacts
  <2>6. CASE n \in send(rest, "PEER_LEFT") \/ n \in send(rest, "HOST_CHANGED")
    BY <2>3, <2>6, SentFacts
  <2>7. CASE n \in send(KickAudience(lobby, c, by), "PEER_KICKED")
    BY <2>2, <2>7, SentFacts
  <2>8. CASE n \in send({c}, "LOBBY_LEFT") \/ n \in send({c}, "LOBBY_KICKED")
    BY <2>3, <2>8, SentFacts
  <2>9. QED
    BY <2>1, <2>4, <2>5, <2>6, <2>7, <2>8
<1>4. \/ answer' = NoAnswer
      \/ answer'.to = c /\ Range(answer'.replies) \subseteq {"LOBBY_LEFT", "ERROR"}
      \/ answer'.to = by /\ Range(answer'.replies) \subseteq {"PEER_KICKED"}
  <2>1. Range(<<"LOBBY_LEFT">> \o ErrorReply(verdict)) \subseteq {"LOBBY_LEFT", "ERROR"}
    <3>1. CASE ErrorReply(verdict) = <<>>
      BY <3>1 DEF Range
    <3>2. CASE ErrorReply(verdict) = <<"ERROR">>
      BY <3>2 DEF Range
    <3>3. QED
      BY <1>1, <3>1, <3>2
  <2>2. Range(<<"PEER_KICKED">>) \subseteq {"PEER_KICKED"} /\ Range(<<>>) = {}
    BY DEF Range
  <2>3. CASE by = NoPeer
    BY <2>3 DEF LeaveNotices
  <2>4. CASE by # NoPeer /\ by = c
    BY <2>1, <2>2, <2>4 DEF LeaveNotices, reply
  <2>5. CASE by # NoPeer /\ by # c
    BY <2>2, <2>5 DEF LeaveNotices, reply
  <2>6. QED
    BY <2>3, <2>4, <2>5
<1>5. ASSUME NEW types, Hears(q, types)
      PROVE  \E type \in types : Fits(q, type)
  <2>1. CASE \E n \in notices' : n.to = q /\ n.type \in types
    BY <1>3, <2>1
  <2>2. CASE answer'.to = q /\ Range(answer'.replies) \cap types # {}
    <3>1. Range(NoAnswer.replies) = {}
      BY DEF NoAnswer, Range
    <3>2. QED
      BY <1>4, <2>2, <3>1
  <2>3. QED
    BY <1>5, <2>1, <2>2 DEF Hears
<1>6. QED
  BY <1>5 DEF SeatTypes

=============================================================================
