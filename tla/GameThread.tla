----------------------------- MODULE GameThread -----------------------------
(***************************************************************************)
(* The lobby logic of GameThread (src/src/game/game_thread.cpp) for one    *)
(* game: who is connected, who sits in which lobby, who hosts it, and what *)
(* the clients are told.                                                   *)
(*                                                                         *)
(* GameThread::run is one thread: it dequeues socket events and runs each  *)
(* handler to completion, and between events it runs the periodic sweeps.  *)
(* So one action is one handler, with these exceptions: handle_disconnects *)
(* is split into one step per disconnected peer (nothing but the clock     *)
(* moves between them), and the clock is a thread of its own (time_run).   *)
(*                                                                         *)
(* Time is relative: disconnected_peers holds the age of a disconnection   *)
(* and since_disconnect that of the last sweep, both saturating just above *)
(* the threshold they are compared with, so that no clock bound is needed. *)
(***************************************************************************)
EXTENDS Integers, FiniteSets, Sequences, Functions, FiniteSetsExt

CONSTANTS
  PeerId,               \* ids of peers: naturals, because flat_map orders by id
  NoPeer,               \* the empty peer id
  LobbyId,              \* ids a new lobby may get
  NoLobby,              \* the empty lobby id
  LobbyControl,         \* game.lobby_control: "relay" or "lua"
  DisbandOnLeave,       \* game.disband_on_leave
  Seal,                 \* game.seal, the default of a new lobby's sealed flag
  Callbacks,            \* game.enabled_callbacks: the script's hooks
  Password, NoPassword, \* passwords in requests, and the empty one
  SealInput,            \* values of "s" in requests
  Title,                \* lobby names in requests
  Tag,                  \* tags of lobbies (a key with its value)
  MaxPlayersInput,      \* values of "m" in requests, negative ones included
  SizeMod,              \* 2^64: size_t arithmetic is modulo this
  MaxListed,            \* most lobbies in one answer to a listing request
  MaxReconnectionTime,  \* how long the seat of a disconnected peer is kept
  MaxJoins,             \* bound: joins counted per lobby
  Commands              \* the commands clients send in this instance

AllCommands == {"CREATE_LOBBY", "JOIN_LOBBY", "QUICK_JOIN", "LEAVE_LOBBY", "KICK_PEER",
                "LOBBY_READY", "LOBBY_UNREADY", "SEAL_LOBBY", "UNSEAL_LOBBY",
                "LOBBY_MAX_PLAYERS", "LOBBY_TITLE", "LOBBY_PASSWORD", "LOBBY_TAGS",
                "CHAT_LOBBY", "USER_DATA", "LIST_LOBBIES", "STOP_LIST_LOBBIES",
                "LOBBY_CALL",
                "LOBBY_DATA", "DATA_TO", "DATA_TO_ALL", "NOTIFY_TO", "LOBBY_NOTIFY"}  \* RelayData

ASSUME IdAssumption ==
  /\ PeerId \subseteq Nat
  /\ NoPeer \notin PeerId
  /\ NoLobby \notin LobbyId

ASSUME GameAssumption ==
  /\ LobbyControl \in {"relay", "lua"}
  /\ DisbandOnLeave \in BOOLEAN
  /\ Seal \in BOOLEAN
  /\ LobbyControl = "relay" => Callbacks = {}   \* only a script has hooks

ASSUME InputAssumption ==
  /\ NoPassword \in Password
  /\ SealInput \subseteq BOOLEAN
  /\ MaxPlayersInput \subseteq Int
  /\ Commands \subseteq AllCommands

ASSUME BoundAssumption ==
  /\ SizeMod \in Nat \ {0}
  /\ \A m \in MaxPlayersInput : m < SizeMod   \* "m" is an int64_t
  /\ MaxListed \in Nat
  /\ MaxReconnectionTime \in Nat
  /\ MaxJoins \in Nat

VARIABLES
  \* GameData
  peers,                \* PeerData of every known peer
  lobbies,              \* LobbyData of every lobby
  peer_ordered_ids,     \* LobbyData.peer_ordered_ids of every lobby
  disconnected_peers,   \* age of the disconnection of each disconnected peer
  lobby_listing_peers,  \* subscribers of the lobby list
  lobbies_updated,      \* lobbies to report to them
  \* GameThread::run
  since_disconnect,     \* time since the last run of handle_disconnects
  sweep,                \* progress of handle_disconnects
  fabricated,           \* operator[] has inserted a record for a missing key
  \* the WebSocket side, as the order of the events shows it
  sockets,              \* peers whose last event was OPEN
  \* what the last step sent
  answer,               \* messages that carry the id of the command handled
  notices,              \* the other messages
  \* history
  told                  \* what each subscriber has last been told of each lobby

data     == <<peers, lobbies, peer_ordered_ids, lobbies_updated>>
listing  == <<lobby_listing_peers, told>>
conn     == <<disconnected_peers, sockets>>
run_vars == <<since_disconnect, sweep>>
out      == <<answer, notices>>
vars     == <<data, listing, conn, run_vars, fabricated, out>>

-----------------------------------------------------------------------------
(* Records and helpers *)

DisconnectInterval == MaxReconnectionTime \div 10

\* size_t(n): what n becomes where it is compared with a container's size
Unsigned(n) == n % SizeMod

Put(f, k, v) == [x \in DOMAIN f \cup {k} |-> IF x = k THEN v ELSE f[x]]
Drop(f, S) == Restrict(f, DOMAIN f \ S)

PeerData == [lobby_id : LobbyId \cup {NoLobby}, ready : BOOLEAN,
             disconnected : BOOLEAN, order_id : Nat]

LobbyData == [host : PeerId \cup {NoPeer}, peer_ids : SUBSET PeerId,
              max_players : Int, sealed : BOOLEAN, password : Password,
              name : Title, tags : SUBSET Tag, order_id_counter : Nat]

NewPeer == [lobby_id |-> NoLobby, ready |-> FALSE, disconnected |-> FALSE, order_id |-> 0]

\* Mutants of leave_lobby: a stale order id, a stale lobby id, no valid order id
leave_lobby_KeepsOrder(peer) ==
  [peer EXCEPT !.lobby_id = NoLobby, !.ready = FALSE, !.disconnected = FALSE]
leave_lobby_KeepsLobby(peer) ==
  [peer EXCEPT !.ready = FALSE, !.order_id = 0, !.disconnected = FALSE]
leave_lobby_Unordered(peer) ==
  [peer EXCEPT !.lobby_id = NoLobby, !.ready = FALSE, !.order_id = -1, !.disconnected = FALSE]

\* PeerData::leave_lobby
leave_lobby(peer) ==
  [peer EXCEPT !.lobby_id = NoLobby, !.ready = FALSE, !.order_id = 0, !.disconnected = FALSE]

\* What a list entry shows of a lobby, apart from its public data ("d"), which is not part
\* of this module: subscribers get no report when only that changes
to_dict(lobby) ==
  [n |-> lobby.name, h |-> lobby.host, s |-> lobby.sealed, m |-> lobby.max_players,
   p |-> Cardinality(lobby.peer_ids), has_password |-> lobby.password # NoPassword,
   t |-> lobby.tags]

Unlisted == [unlisted |-> TRUE]

\* std::remove and erase: s without p
Without(s, p) ==
  LET kept[i \in 0..Len(s)] ==
        IF i = 0 THEN <<>> ELSE IF s[i] = p THEN kept[i - 1] ELSE Append(kept[i - 1], s[i])
  IN kept[Len(s)]

NoAnswer == [to |-> NoPeer, replies |-> <<>>]
NoSweep == [active |-> FALSE, todo |-> {}, to_erase |-> {}]

\* send: a message to a peer that is known to be disconnected is dropped
send(S, type) == [to : S \ DOMAIN disconnected_peers, type : {type}]
reply(p, types) ==
  [to |-> p, replies |-> IF p \in DOMAIN disconnected_peers THEN <<>> ELSE types]

\* scripted_function_call: a hook returns nothing, a string, or raises an error
scripted_function_call(hook) ==
  IF hook \in Callbacks THEN {"allow", "string", "error"} ELSE {"allow"}
ErrorReply(verdict) == IF verdict = "error" THEN <<"ERROR">> ELSE <<>>

\* peers[q] for every q in S: a missing key would be inserted as an empty record
Access(S) == fabricated' = ~(S \subseteq DOMAIN peers)

InLobby(p) == peers[p].lobby_id # NoLobby
LobbyOf(p) == lobbies[peers[p].lobby_id]
Others(p) == LobbyOf(p).peer_ids \ {p}

-----------------------------------------------------------------------------
(* Steps shared by the handlers *)

\* The game thread is between two events, and nothing undefined has happened:
\* an insertion into the flat_map of peers moves the records that the running
\* handler holds references to, so the model follows the program no further
Idle == ~sweep.active /\ ~fabricated

\* handle_events takes command c of peer p from the queue
Handles(p, c) ==
  /\ Idle
  /\ c \in Commands
  /\ p \in sockets \cap DOMAIN peers
  /\ UNCHANGED <<conn, run_vars>>

\* on_error: nothing changes but the answer
Refuse(p, errors) ==
  /\ answer' = reply(p, errors)
  /\ notices' = {}
  /\ UNCHANGED <<data, fabricated>>

\* Answer p and notify S
Tell(p, types, S, type) ==
  /\ answer' = reply(p, types)
  /\ notices' = send(S, type)

\* Mutant of SetLobby: the list is not refreshed
SetLobby_NotListed(p, lobby, type) ==
  /\ lobbies' = [lobbies EXCEPT ![peers[p].lobby_id] = lobby]
  /\ Tell(p, <<type>>, Others(p), type)
  /\ UNCHANGED <<peers, peer_ordered_ids, lobbies_updated, fabricated>>

\* Change the lobby p sits in, tell its members, have subscribers told
SetLobby(p, lobby, type) ==
  /\ lobbies' = [lobbies EXCEPT ![peers[p].lobby_id] = lobby]
  /\ lobbies_updated' = lobbies_updated \cup {peers[p].lobby_id}
  /\ Tell(p, <<type>>, Others(p), type)
  /\ UNCHANGED <<peers, peer_ordered_ids, fabricated>>

-----------------------------------------------------------------------------
(* Connections *)

\* Mutant of Reconnected: a peer that is back stays in disconnected_peers
Reconnected_Forgotten(p) == disconnected_peers

\* The peers that are still disconnected once p is back
Reconnected(p) == Drop(disconnected_peers, {p})

on_connect(p) ==
  /\ Idle
  /\ p \notin sockets
  /\ sockets' = sockets \cup {p}
  /\ peers' = IF p \in DOMAIN peers THEN peers ELSE Put(peers, p, NewPeer)
  /\ disconnected_peers' = Reconnected(p)
  /\ \E verdict \in scripted_function_call("_on_peer_connected") :
       notices' = [to : {p}, type : {"PEER_STATE"} \cup Range(ErrorReply(verdict))]
  /\ answer' = NoAnswer
  /\ UNCHANGED <<lobbies, peer_ordered_ids, lobbies_updated, listing, run_vars, fabricated>>

\* The age of an earlier disconnection is kept (emplace does not overwrite)
on_close(p) ==
  /\ Idle
  /\ p \in sockets
  /\ sockets' = sockets \ {p}
  /\ lobby_listing_peers' = lobby_listing_peers \ {p}
  /\ told' = Drop(told, {p})
  /\ IF p \in DOMAIN peers
     THEN /\ peers' = [peers EXCEPT ![p].ready = FALSE, ![p].disconnected = TRUE]
          /\ disconnected_peers' = IF p \in DOMAIN disconnected_peers
                                   THEN disconnected_peers ELSE Put(disconnected_peers, p, 0)
          /\ notices' = IF peers[p].lobby_id \in DOMAIN lobbies
                        THEN send(Others(p), "PEER_DISCONNECTED") ELSE {}
     ELSE UNCHANGED <<peers, disconnected_peers>> /\ notices' = {}
  /\ answer' = NoAnswer
  /\ UNCHANGED <<lobbies, peer_ordered_ids, lobbies_updated, run_vars, fabricated>>

\* A message that is no JSON object, has an unknown command or an unknown
\* sender makes the server close the socket
on_rejected_message(p) ==
  /\ Idle
  /\ p \in sockets
  /\ answer' = [to |-> p, replies |-> <<"CLOSE">>]
  /\ notices' = {}
  /\ UNCHANGED <<data, listing, conn, run_vars, fabricated>>

-----------------------------------------------------------------------------
(* Entering a lobby *)

\* A new id is one that no lobby has and no pending report mentions
FreshLobbyId == LobbyId \ (DOMAIN lobbies \cup lobbies_updated)

NewLobby(p, m, pw, s, name, tags) ==
  [host |-> p, peer_ids |-> {p}, max_players |-> m, sealed |-> s, password |-> pw,
   name |-> name, tags |-> tags, order_id_counter |-> 0]

\* on_create_lobby after the errors "before", with tags already decoded
CreateLobby(p, before, pw, tags) ==
  \/ /\ InLobby(p)
     /\ Refuse(p, before \o <<"PEER_IS_IN_A_LOBBY">>)
  \/ /\ ~InLobby(p)
     /\ \E m \in MaxPlayersInput : m < 1
     /\ Refuse(p, before \o <<"LOBBY_FULL">>)
  \/ /\ ~InLobby(p)
     /\ \E m \in MaxPlayersInput : m >= 1
     /\ "error" \in scripted_function_call("_can_create_lobby")
     /\ peers' = [peers EXCEPT ![p] = leave_lobby(@)]
     /\ Tell(p, before \o <<"ERROR">>, {}, "ERROR")
     /\ UNCHANGED <<lobbies, peer_ordered_ids, lobbies_updated, fabricated>>
  \/ /\ ~InLobby(p)
     /\ \E m \in MaxPlayersInput, s \in SealInput \cup {Seal}, name \in Title, l \in FreshLobbyId,
           verdict \in scripted_function_call("_on_lobby_created") :
          /\ m >= 1
          /\ peers' = [peers EXCEPT ![p].lobby_id = l, ![p].disconnected = FALSE]
          /\ lobbies' = Put(lobbies, l, NewLobby(p, m, pw, s, name, tags))
          /\ peer_ordered_ids' = Put(peer_ordered_ids, l, <<p>>)
          /\ lobbies_updated' = lobbies_updated \cup {l}
          /\ Tell(p, before \o <<"LOBBY_CREATED">> \o ErrorReply(verdict), {}, "ERROR")
     /\ UNCHANGED fabricated

on_create_lobby(p) ==
  /\ Handles(p, "CREATE_LOBBY")
  /\ \/ \E pw \in Password, tags \in SUBSET Tag : CreateLobby(p, <<>>, pw, tags)
     \/ /\ ~InLobby(p)                         \* tags that cannot be decoded
        /\ \E m \in MaxPlayersInput : m >= 1
        /\ Refuse(p, <<"INVALID_TAGS">>)
  /\ UNCHANGED listing

\* A peer whose socket was lost comes back to the lobby it still sits in
Reconnecting(p) == peers[p].disconnected /\ InLobby(p)
JoinTarget(p, l) == IF Reconnecting(p) THEN peers[p].lobby_id ELSE l

\* Mutant of IsFull: one member too many
IsFull_OffByOne(lobby) ==
  lobby.max_players # 0 /\ Cardinality(lobby.peer_ids) > Unsigned(lobby.max_players)

IsFull(lobby) ==
  lobby.max_players # 0 /\ Cardinality(lobby.peer_ids) >= Unsigned(lobby.max_players)

\* The errors on_join_lobby may end with, and whether it can get past its checks
JoinErrors(p, l, pw) ==
  IF JoinTarget(p, l) \notin DOMAIN lobbies THEN {"LOBBY_NOT_FOUND"}
  ELSE IF ~Reconnecting(p) /\ InLobby(p) THEN {"PEER_IS_IN_A_LOBBY"}
  ELSE IF ~Reconnecting(p) /\ lobbies[l].password # pw THEN {"LOBBY_WRONG_PASSWORD"}
  ELSE IF ~Reconnecting(p) /\ IsFull(lobbies[l]) THEN {"LOBBY_FULL"}
  ELSE IF "error" \in scripted_function_call("_can_peer_join") THEN {"ERROR"}
  ELSE {}
MayJoin(p, l, pw) == JoinErrors(p, l, pw) \subseteq {"ERROR"}

\* std::sort by order_id: any arrangement of s whose order ids do not decrease
OrderId(q) == IF q \in DOMAIN peers THEN peers[q].order_id ELSE 0
SortedByOrderId(s, p, order) ==
  LET id(q) == IF q = p THEN order ELSE OrderId(q)
      n == Len(s)
  IN {t \in {[i \in 1..n |-> s[f[i]]] : f \in Bijection(1..n, 1..n)} :
        \A i, j \in 1..n : i < j => id(t[i]) <= id(t[j])}

Rejoin(p, before) ==
  /\ Reconnecting(p)
  /\ peers' = [peers EXCEPT ![p].ready = FALSE, ![p].disconnected = FALSE]
  /\ Access(LobbyOf(p).peer_ids)
  /\ Tell(p, Append(before, "JOINED_LOBBY"), Others(p), "PEER_RECONNECTED")
  /\ UNCHANGED <<lobbies, peer_ordered_ids, lobbies_updated>>

Enter(p, l, before) ==
  LET order == lobbies[l].order_id_counter + 1
      pushed == Append(peer_ordered_ids[l], p)
  IN
  /\ ~Reconnecting(p)
  /\ lobbies[l].order_id_counter < MaxJoins
  /\ peers' = [peers EXCEPT ![p].order_id = order, ![p].lobby_id = l, ![p].disconnected = FALSE]
  /\ lobbies' = [lobbies EXCEPT ![l].order_id_counter = order, ![l].peer_ids = @ \cup {p}]
  /\ \E sorted \in SortedByOrderId(pushed, p, order) :
       peer_ordered_ids' = [peer_ordered_ids EXCEPT ![l] = sorted]
  /\ lobbies_updated' = lobbies_updated \cup {l}
  /\ Access(lobbies[l].peer_ids \cup Range(pushed))
  /\ \E verdict \in scripted_function_call("_on_peer_joined") :
       Tell(p, Append(before, "JOINED_LOBBY") \o ErrorReply(verdict),
            lobbies[l].peer_ids \ {p}, "PEER_JOINED")

\* on_join_lobby when it returns true
JoinLobby(p, l, pw, before) ==
  /\ MayJoin(p, l, pw)
  /\ Rejoin(p, before) \/ Enter(p, l, before)

on_join_lobby(p) ==
  /\ Handles(p, "JOIN_LOBBY")
  /\ \E l \in LobbyId, pw \in Password :
       \/ \E e \in JoinErrors(p, l, pw) : Refuse(p, <<e>>)
       \/ JoinLobby(p, l, pw, <<>>)
  /\ UNCHANGED listing

\* Lobbies quick join looks at, up to the check of the host's record
OpenLobbies ==
  {l \in DOMAIN lobbies : /\ Unsigned(lobbies[l].max_players) > Cardinality(lobbies[l].peer_ids)
                          /\ ~lobbies[l].sealed
                          /\ lobbies[l].password = NoPassword}
HostMissing(l) == lobbies[l].host \notin DOMAIN peers \cup {NoPeer}
Candidates(tags) ==
  {l \in OpenLobbies : /\ lobbies[l].host \in DOMAIN peers => ~peers[lobbies[l].host].disconnected
                       /\ tags \subseteq lobbies[l].tags}

\* Every candidate is tried, in the order of a hash table, and each one that
\* refuses answers with an error of its own; only then is a lobby created.
\* "before" holds the answers so far.
QuickJoin(p, pw, tags, before) ==
  \/ Refuse(p, Append(before, "INVALID_TAGS"))
  \/ /\ \E c \in OpenLobbies : HostMissing(c)
     /\ fabricated' = TRUE
     /\ UNCHANGED <<data, out>>
  \/ \E refused \in SUBSET Candidates(tags) :
       \E e \in {"none"} \cup UNION {JoinErrors(p, c, pw) : c \in refused} :
         LET errors == before \o [i \in 1..Cardinality(refused) |-> e] IN
         /\ \A c \in refused : e \in JoinErrors(p, c, pw)
         /\ \/ \E c \in Candidates(tags) \ refused :
                 ~HostMissing(c) /\ JoinLobby(p, c, pw, errors)
            \/ /\ refused = Candidates(tags)
               /\ ~\E c \in OpenLobbies : HostMissing(c)
               /\ CreateLobby(p, errors, pw, tags)

\* A peer that sits in a lobby first tries to join as usual
on_quick_join(p) ==
  /\ Handles(p, "QUICK_JOIN")
  /\ \E l \in LobbyId \cup {NoLobby}, pw \in Password, tags \in SUBSET Tag :
       \/ InLobby(p) /\ JoinLobby(p, l, pw, <<>>)
       \/ \E before \in IF InLobby(p) THEN {<<e>> : e \in JoinErrors(p, l, pw)} ELSE {<<>>} :
            QuickJoin(p, pw, tags, before)
  /\ UNCHANGED listing

-----------------------------------------------------------------------------
(* Leaving a lobby *)

\* Games in which a lobby never outlives its host without passing to another member
Hosted == DisbandOnLeave \/ LobbyControl # "relay"

\* Mutant of Disbands: also in a game whose lobbies outlive their host
Disbands_AnyHost(lobby, p) == p = lobby.host

\* The host's departure turns everybody out
Disbands(lobby, p) ==
  /\ p = lobby.host
  /\ DisbandOnLeave \/ LobbyControl = "relay" \/ Cardinality(lobby.peer_ids) = 1

\* Mutant of NewHost: the leaver is not skipped
NewHost_Leaver(lobby, p) == Min(lobby.peer_ids)

\* The first other member, in the order of ids, is the next host
NewHost(lobby, p) == Min(lobby.peer_ids \ {p})

\* Mutants of Ends: a disbanded lobby is kept, an empty lobby is kept
Ends_WhenEmpty(lobby, p) == lobby.peer_ids \ {p} = {}
Ends_WhenDisbanded(lobby, p) == p = lobby.host /\ DisbandOnLeave

\* Whether nothing is left of the lobby once p is gone
Ends(lobby, p) == (p = lobby.host /\ DisbandOnLeave) \/ lobby.peer_ids \ {p} = {}

\* Mutant of KickAudience: the host is left out even if it did not ask
KickAudience_NotHost(lobby, p, by) == lobby.peer_ids \ {p, lobby.host}

\* Who hears of a kick without having asked for it
KickAudience(lobby, p, by) == ((lobby.peer_ids \ {p}) \cup {lobby.host}) \ {by}

\* Messages without a command id: those to the members who stay, and those to
\* a leaver who did not ask. "by" is the peer whose command is handled.
LeaveNotices(lobby, p, by, kicked, verdict) ==
  LET rest == lobby.peer_ids \ {p} IN
  /\ notices' =
       (IF Disbands(lobby, p) THEN send(rest, "LOBBY_KICKED")
        ELSE IF p = lobby.host THEN send(rest, "PEER_LEFT") \cup send(rest, "HOST_CHANGED")
        ELSE IF kicked THEN send(KickAudience(lobby, p, by), "PEER_KICKED")
        ELSE send(rest, "PEER_LEFT"))
       \cup (IF by = p THEN {}
             ELSE send({p}, IF p = lobby.host THEN "LOBBY_LEFT" ELSE "LOBBY_KICKED")
                  \cup [to : {p} \ DOMAIN disconnected_peers, type : Range(ErrorReply(verdict))])
  /\ answer' = IF by = NoPeer THEN NoAnswer
               ELSE IF by = p THEN reply(p, <<"LOBBY_LEFT">> \o ErrorReply(verdict))
               ELSE reply(by, <<"PEER_KICKED">>)

remove_peer_from_lobby(l, p, by, kicked) ==
  LET lobby == lobbies[l]
      leavers == IF Disbands(lobby, p) THEN lobby.peer_ids ELSE {p}
      new_host == IF p = lobby.host /\ ~Disbands(lobby, p) THEN NewHost(lobby, p) ELSE lobby.host
  IN
  /\ peers' = [q \in DOMAIN peers |-> IF q \in leavers THEN leave_lobby(peers[q]) ELSE peers[q]]
  /\ IF Ends(lobby, p)
     THEN /\ lobbies' = Drop(lobbies, {l})
          /\ peer_ordered_ids' = Drop(peer_ordered_ids, {l})
     ELSE /\ lobbies' = [lobbies EXCEPT ![l].host = new_host, ![l].peer_ids = @ \ {p}]
          /\ peer_ordered_ids' = [peer_ordered_ids EXCEPT ![l] = Without(@, p)]
  /\ lobbies_updated' = lobbies_updated \cup {l}
  /\ Access(lobby.peer_ids)
  /\ \E verdict \in scripted_function_call("_on_peer_leave") :
       LeaveNotices(lobby, p, by, kicked, verdict)

on_leave_lobby(p) ==
  /\ Handles(p, "LEAVE_LOBBY")
  /\ IF InLobby(p) THEN remove_peer_from_lobby(peers[p].lobby_id, p, p, FALSE)
     ELSE Refuse(p, <<"PEER_NOT_IN_A_LOBBY">>)
  /\ UNCHANGED listing

-----------------------------------------------------------------------------
(* Commands of the members of a lobby *)

\* The preconditions of these commands, each with the answer when it fails
Member(p, c, Do) ==
  /\ Handles(p, c)
  /\ IF InLobby(p) THEN Do ELSE Refuse(p, <<"PEER_NOT_IN_A_LOBBY">>)
  /\ UNCHANGED listing
Host(p, Do) == IF LobbyOf(p).host = p THEN Do ELSE Refuse(p, <<"PEER_NOT_HOST">>)
Malformed(p, error, Do) == Refuse(p, <<error>>) \/ Do

\* A hook refuses a command by returning a string or raising an error
Scripted(p, hook, Do) ==
  \/ /\ scripted_function_call(hook) \cap {"string", "error"} # {}
     /\ Refuse(p, <<"ERROR">>)
  \/ Do

on_kick_peer(p) ==
  Member(p, "KICK_PEER", Host(p,
    \E q \in PeerId :
      IF q \notin LobbyOf(p).peer_ids THEN Refuse(p, <<"PEER_NOT_IN_A_LOBBY">>)
      ELSE IF q = p THEN Refuse(p, <<"CANNOT_KICK_SELF">>)
      ELSE Scripted(p, "_can_host_kick",
                    remove_peer_from_lobby(peers[p].lobby_id, q, p, TRUE))))

set_lobby_ready(p, ready) ==
  LET type == IF ready THEN "PEER_READY" ELSE "PEER_UNREADY" IN
  /\ peers' = [peers EXCEPT ![p].ready = ready]
  /\ Tell(p, <<type>>, Others(p), type)
  /\ UNCHANGED <<lobbies, peer_ordered_ids, lobbies_updated, fabricated>>

on_lobby_ready(p) ==
  Member(p, "LOBBY_READY",
    IF peers[p].ready THEN Refuse(p, <<"PEER_IS_READY">>)
    ELSE Scripted(p, "_can_peer_ready", set_lobby_ready(p, TRUE)))

on_lobby_unready(p) ==
  Member(p, "LOBBY_UNREADY",
    IF ~peers[p].ready THEN Refuse(p, <<"PEER_IS_NOT_READY">>)
    ELSE Scripted(p, "_can_peer_ready", set_lobby_ready(p, FALSE)))

\* A lobby that is already in that state is neither reported nor announced
set_lobby_sealed(p, sealed, type) ==
  IF LobbyOf(p).sealed = sealed THEN Refuse(p, <<type>>)
  ELSE Scripted(p, "_can_host_seal", SetLobby(p, [LobbyOf(p) EXCEPT !.sealed = sealed], type))

on_seal_lobby(p) ==
  Member(p, "SEAL_LOBBY", Host(p, set_lobby_sealed(p, TRUE, "LOBBY_SEALED")))

on_unseal_lobby(p) ==
  Member(p, "UNSEAL_LOBBY", Host(p, set_lobby_sealed(p, FALSE, "LOBBY_UNSEALED")))

\* Any member, not only the host, may change the size, the name or the password
on_lobby_max_players(p) ==
  Member(p, "LOBBY_MAX_PLAYERS",
    \E m \in MaxPlayersInput :
      IF Unsigned(m) < Cardinality(LobbyOf(p).peer_ids) THEN Refuse(p, <<"LOBBY_FULL">>)
      ELSE Scripted(p, "_can_host_resize",
                    SetLobby(p, [LobbyOf(p) EXCEPT !.max_players = m], "LOBBY_MAX_PLAYERS")))

on_lobby_title(p) ==
  Member(p, "LOBBY_TITLE",
    \E name \in Title :
      Scripted(p, "_can_host_set_title",
               SetLobby(p, [LobbyOf(p) EXCEPT !.name = name], "LOBBY_TITLE")))

on_lobby_password(p) ==
  Member(p, "LOBBY_PASSWORD",
    \E pw \in Password :
      SetLobby(p, [LobbyOf(p) EXCEPT !.password = pw], "LOBBY_PASSWORD"))

\* A tag in the request is set, or erased where its value is null
on_lobby_tags(p) ==
  Member(p, "LOBBY_TAGS", Host(p, Malformed(p, "CANNOT_PARSE_JSON",
    \E set, null \in SUBSET Tag :
      Scripted(p, "_can_host_set_tags",
               SetLobby(p, [LobbyOf(p) EXCEPT !.tags = (@ \cup set) \ null], "LOBBY_TAGS")))))

\* Undecodable metadata is answered with an error and the chat goes on
on_chat_lobby(p) ==
  Member(p, "CHAT_LOBBY", Malformed(p, "INVALID_CHAT_MESSAGE",
    \E before \in {<<>>, <<"CANNOT_PARSE_JSON">>} :
      \/ /\ scripted_function_call("_can_peer_chat") \cap {"string", "error"} # {}
         /\ Refuse(p, Append(before, "ERROR"))
      \/ /\ Tell(p, Append(before, "CHAT"), Others(p), "CHAT")
         /\ UNCHANGED <<data, fabricated>>))

\* Runs a function of the script. What the function does to the lobby is left out here and
\* modelled in Scripts: what is claimed of this module is claimed without such effects
on_lobby_call(p) ==
  Member(p, "LOBBY_CALL",
    IF LobbyControl = "relay" THEN Refuse(p, <<"GAME_NOT_SCRIPTED">>)
    ELSE \E type \in {"INVALID_FUNCTION_MSG", "ERROR", "LOBBY_CALL"} : Refuse(p, <<type>>))

\* User data is kept with the peer and shown to its lobby, if it has one
on_user_data(p) ==
  /\ Handles(p, "USER_DATA")
  /\ Malformed(p, "CANNOT_PARSE_JSON",
       /\ Tell(p, <<"USER_DATA">>, IF InLobby(p) THEN Others(p) ELSE {}, "USER_DATA")
       /\ UNCHANGED <<data, fabricated>>)
  /\ UNCHANGED listing

-----------------------------------------------------------------------------
(* The list of lobbies *)

\* What a subscriber is shown of lobby l when it subscribes
Listable(p) == {l \in DOMAIN lobbies : ~lobbies[l].sealed \/ peers[p].lobby_id = l}

on_list_lobby(p) ==
  /\ Handles(p, "LIST_LOBBIES")
  /\ Refuse(p, <<"LOBBY_LIST">>)
  /\ IF p \in lobby_listing_peers THEN UNCHANGED listing
     ELSE /\ lobby_listing_peers' = lobby_listing_peers \cup {p}
          /\ \E selected \in SUBSET Listable(p) :
               /\ Cardinality(selected) = Min({MaxListed, Cardinality(Listable(p))})
               /\ told' = Put(told, p, [l \in LobbyId |-> IF l \in selected
                                          THEN to_dict(lobbies[l]) ELSE Unlisted])

on_stop_list_lobby(p) ==
  /\ Handles(p, "STOP_LIST_LOBBIES")
  /\ Refuse(p, IF p \in lobby_listing_peers THEN <<"LOBBY_STOP_LISTING">> ELSE <<"LOBBY_LIST">>)
  /\ lobby_listing_peers' = lobby_listing_peers \ {p}
  /\ told' = Drop(told, {p})

\* The entry of a lobby in a report: a deleted or sealed lobby is withdrawn
Entry(l) ==
  IF l \in DOMAIN lobbies THEN IF lobbies[l].sealed THEN Unlisted ELSE to_dict(lobbies[l])
  ELSE Unlisted

handle_lobby_list ==
  /\ Idle
  /\ lobbies_updated # {}
  /\ lobbies_updated' = {}
  /\ told' = [p \in DOMAIN told |->
                IF p \in DOMAIN disconnected_peers THEN told[p]
                ELSE [l \in LobbyId |-> IF l \in lobbies_updated THEN Entry(l) ELSE told[p][l]]]
  /\ notices' = send(lobby_listing_peers, "LOBBY_LIST")
  /\ answer' = NoAnswer
  /\ UNCHANGED <<peers, lobbies, peer_ordered_ids, lobby_listing_peers, conn, run_vars, fabricated>>

-----------------------------------------------------------------------------
(* Disconnected peers, and the clock *)

handle_disconnects_begin ==
  /\ Idle
  /\ since_disconnect > DisconnectInterval
  /\ since_disconnect' = 0
  /\ sweep' = [active |-> TRUE, todo |-> DOMAIN disconnected_peers, to_erase |-> {}]
  /\ answer' = NoAnswer
  /\ notices' = {}
  /\ UNCHANGED <<data, listing, conn, fabricated>>

\* Mutants of Expired: one unit too early, operands swapped
Expired_Early(p) == disconnected_peers[p] >= MaxReconnectionTime
Expired_Never(p) == -disconnected_peers[p] > MaxReconnectionTime

\* The time to reconnect is over
Expired(p) == disconnected_peers[p] > MaxReconnectionTime

\* One iteration of the loop: a peer without a lobby goes at once, one that
\* sits in a lobby when its time is over
handle_disconnects_visit ==
  LET p == Min(sweep.todo)
      seated == p \in DOMAIN peers /\ peers[p].lobby_id \in DOMAIN lobbies
  IN
  /\ sweep.active
  /\ ~fabricated
  /\ sweep.todo # {}
  /\ sweep' = [sweep EXCEPT !.todo = @ \ {p},
                            !.to_erase = IF ~seated \/ Expired(p) THEN @ \cup {p} ELSE @]
  /\ IF seated /\ Expired(p)
     THEN remove_peer_from_lobby(peers[p].lobby_id, p, NoPeer, TRUE)
     ELSE /\ peers' = [q \in DOMAIN peers |->
                         IF q = p /\ ~seated THEN leave_lobby(peers[q]) ELSE peers[q]]
          /\ answer' = NoAnswer
          /\ notices' = {}
          /\ UNCHANGED <<lobbies, peer_ordered_ids, lobbies_updated, fabricated>>
  /\ UNCHANGED <<listing, conn, since_disconnect>>

\* The peers that were not kept are forgotten
handle_disconnects_end ==
  /\ sweep.active
  /\ ~fabricated
  /\ sweep.todo = {}
  /\ sweep' = NoSweep
  /\ peers' = Drop(peers, sweep.to_erase)
  /\ disconnected_peers' = Drop(disconnected_peers, sweep.to_erase)
  /\ lobby_listing_peers' = lobby_listing_peers \ sweep.to_erase
  /\ told' = Drop(told, sweep.to_erase)
  /\ answer' = NoAnswer
  /\ notices' = {}
  /\ UNCHANGED <<lobbies, peer_ordered_ids, lobbies_updated, sockets, since_disconnect, fabricated>>

\* time_run: the clock moves on, also while the game thread is in a handler
Later(age, limit) == IF age > limit THEN age ELSE age + 1

time_run ==
  /\ since_disconnect' = Later(since_disconnect, DisconnectInterval)
  /\ disconnected_peers' = [p \in DOMAIN disconnected_peers |->
                              Later(disconnected_peers[p], MaxReconnectionTime)]
  /\ answer' = NoAnswer
  /\ notices' = {}
  /\ UNCHANGED <<data, listing, sockets, sweep, fabricated>>

-----------------------------------------------------------------------------
(* Specification *)

Init ==
  /\ peers = <<>>
  /\ lobbies = <<>>
  /\ peer_ordered_ids = <<>>
  /\ disconnected_peers = <<>>
  /\ lobby_listing_peers = {}
  /\ lobbies_updated = {}
  /\ since_disconnect = 0
  /\ sweep = NoSweep
  /\ fabricated = FALSE
  /\ sockets = {}
  /\ answer = NoAnswer
  /\ notices = {}
  /\ told = <<>>

Connection(p) == on_connect(p) \/ on_close(p) \/ on_rejected_message(p)

Seating(p) ==
  on_create_lobby(p) \/ on_join_lobby(p) \/ on_quick_join(p) \/ on_leave_lobby(p) \/ on_kick_peer(p)

Settings(p) ==
  \/ on_seal_lobby(p) \/ on_unseal_lobby(p) \/ on_lobby_max_players(p)
  \/ on_lobby_title(p) \/ on_lobby_password(p) \/ on_lobby_tags(p)

Talking(p) ==
  \/ on_lobby_ready(p) \/ on_lobby_unready(p) \/ on_chat_lobby(p) \/ on_lobby_call(p)
  \/ on_user_data(p) \/ on_list_lobby(p) \/ on_stop_list_lobby(p)

handle_events == \E p \in PeerId : Connection(p) \/ Seating(p) \/ Settings(p) \/ Talking(p)

handle_disconnects ==
  handle_disconnects_begin \/ handle_disconnects_visit \/ handle_disconnects_end

Next == handle_events \/ handle_disconnects \/ handle_lobby_list \/ time_run

Spec == Init /\ [][Next]_vars

\* The loop in GameThread::run gets to the sweep after at most 50 events, and
\* time_run writes the clock in a loop; clients are under no obligation
Fairness == WF_vars(time_run) /\ WF_vars(handle_disconnects) /\ WF_vars(handle_lobby_list)

FairSpec == Spec /\ Fairness

-----------------------------------------------------------------------------
(* Invariants *)

\* Type invariant of the game thread's state (game_data.h, peer_data.h, lobby_data.h).
TypeOK ==
  /\ DOMAIN peers \subseteq PeerId
  /\ peers \in [DOMAIN peers -> PeerData]
  /\ DOMAIN lobbies \subseteq LobbyId
  /\ lobbies \in [DOMAIN lobbies -> LobbyData]
  /\ DOMAIN peer_ordered_ids = DOMAIN lobbies
  /\ DOMAIN disconnected_peers \subseteq PeerId
  /\ disconnected_peers \in [DOMAIN disconnected_peers -> 0..(MaxReconnectionTime + 1)]
  /\ lobby_listing_peers \subseteq PeerId
  /\ lobbies_updated \subseteq LobbyId
  /\ since_disconnect \in 0..(DisconnectInterval + 1)
  /\ sweep \in [active : BOOLEAN, todo : SUBSET PeerId, to_erase : SUBSET PeerId]
  /\ fabricated \in BOOLEAN
  /\ sockets \subseteq PeerId
  /\ DOMAIN told = lobby_listing_peers

\* A peer that believes it sits in a lobby does: the lobby exists and has it among
\* its members. Every handler relies on this when it evaluates
\* game.lobbies[peer.lobby_id] without looking whether the key is there.
SeatsExist ==
  \A p \in DOMAIN peers : InLobby(p) =>
    /\ peers[p].lobby_id \in DOMAIN lobbies
    /\ p \in LobbyOf(p).peer_ids

\* The converse: every member of a lobby is a known peer that sits in this lobby,
\* so peer_ids never holds somebody who was turned out or has been forgotten.
MembersAgree ==
  \A l \in DOMAIN lobbies : \A p \in lobbies[l].peer_ids :
    p \in DOMAIN peers /\ peers[p].lobby_id = l

\* Every lobby is hosted by one of its members, across hand-overs, kicks and sweeps.
HostIsSeated == \A l \in DOMAIN lobbies : lobbies[l].host \in lobbies[l].peer_ids

\* peer_ordered_ids lists exactly the members, each once, in the order they came:
\* what scripts iterate over survives leaves, rejoins and the unstable sort.
JoinOrder ==
  \A l \in DOMAIN lobbies :
    LET s == peer_ordered_ids[l] IN
    /\ Range(s) = lobbies[l].peer_ids
    /\ \A i, j \in DOMAIN s : i < j => peers[s[i]].order_id < peers[s[j]].order_id
    /\ \A i \in DOMAIN s : peers[s[i]].order_id <= lobbies[l].order_id_counter

\* No lobby holds more members than its size, in the unsigned arithmetic that every
\* check uses, whatever order joins, reconnections and changes of the size come in. This
\* is about the commands of clients and the sweep: a script may write a size that does not
\* hold the members (script_lua.cpp:54-59), see SizesFit in Scripts.
WithinCapacity ==
  \A l \in DOMAIN lobbies :
    Cardinality(lobbies[l].peer_ids) <= Unsigned(lobbies[l].max_players)

\* A peer with an open socket is known, is not muted by send and is not waiting to
\* be swept, so no sweep can forget it, even one that its return interleaves with.
ConnectedKept ==
  /\ sockets \subseteq DOMAIN peers
  /\ sockets \cap DOMAIN disconnected_peers = {}
  /\ sockets \cap (sweep.todo \cup sweep.to_erase) = {}

\* No handler looks up a record that is not there: operator[] never inserts an
\* empty PeerData, which would also move the records under live references. A function of
\* a script can make one do so (fabricate in Scripts).
NothingFabricated == ~fabricated

\* Each command of this module is answered: its sender gets at least one message with the
\* command's id. Of the data commands, see SilenceChangesNothing in RelayData.
CommandAnswered == answer.to # NoPeer => answer.replies # <<>>

\* Subscriber p has last been told what is true of lobby l (a sealed lobby may also be known
\* to a member who subscribed in it)
Informed(p, l) ==
  \/ told[p][l] = Entry(l)
  \/ l \in DOMAIN lobbies /\ lobbies[l].sealed /\ told[p][l] = to_dict(lobbies[l])

\* Unless a report is pending, every subscriber knows of every lobby whether it is there
\* and open, its name, host, size, tags, number of members, and whether it has a password:
\* all that commands of clients and the sweep change in a list entry but its public data,
\* whose changes are not reported. Effects of scripts: Scripts, SettingsListedAfterCalls.
SettingsListed ==
  \A p \in lobby_listing_peers, l \in LobbyId \ lobbies_updated : Informed(p, l)

-----------------------------------------------------------------------------
(* Action properties *)

Hears(p, types) ==
  \/ \E n \in notices' : n.to = p /\ n.type \in types
  \/ answer'.to = p /\ Range(answer'.replies) \cap types # {}

Connected(p) == p \in sockets /\ p \in sockets'

\* A connected peer learns of every change of its lobby it is concerned by: of the
\* loss of its own seat, of members that come and go, and of a new host.
MembershipAnnounced ==
  [][\A p \in DOMAIN peers \cap DOMAIN peers' : Connected(p) /\ InLobby(p) =>
       LET l == peers[p].lobby_id IN
       IF peers'[p].lobby_id # l THEN Hears(p, {"LOBBY_LEFT", "LOBBY_KICKED"})
       ELSE /\ ~(lobbies'[l].peer_ids \subseteq lobbies[l].peer_ids) => Hears(p, {"PEER_JOINED"})
            /\ ~(lobbies[l].peer_ids \subseteq lobbies'[l].peer_ids) =>
                 Hears(p, {"PEER_LEFT", "PEER_KICKED"})
            /\ lobbies'[l].host # lobbies[l].host => Hears(p, {"HOST_CHANGED"})]_vars

\* The seat of a disconnected peer is kept for the whole reconnection time: before
\* that it is lost only by a kick or because the host's departure disbands the lobby.
SeatKept ==
  [][\A p \in DOMAIN disconnected_peers \cap DOMAIN peers :
       LET l == peers[p].lobby_id IN
       /\ InLobby(p)
       /\ disconnected_peers[p] <= MaxReconnectionTime
       /\ p \notin DOMAIN peers' \/ peers'[p].lobby_id # l
       => \/ answer'.to = lobbies[l].host
          \/ p # lobbies[l].host /\ l \notin DOMAIN lobbies']_vars

-----------------------------------------------------------------------------
(* Refinement *)

Service == INSTANCE LobbyService WITH
  seat <- [p \in PeerId |-> IF p \in DOMAIN peers THEN peers[p].lobby_id ELSE NoLobby],
  host <- [l \in DOMAIN lobbies |-> lobbies[l].host],
  HandsOver <- ~DisbandOnLeave

\* In a hosted game the handlers, the sweep and the clock implement LobbyService: each
\* step of theirs is one of its steps or changes neither seats nor hosts.
ImplementsService == Service!Spec

-----------------------------------------------------------------------------
(* Liveness *)

\* Nobody stays disconnected for ever: the peer returns or is forgotten.
DisconnectionEnds ==
  \A p \in PeerId : p \in DOMAIN disconnected_peers ~> p \notin DOMAIN disconnected_peers

\* A lobby none of whose members has a socket does not stay around for ever: in hosted
\* games, for in relay games without disband_on_leave the departure of the host leaves a
\* lobby that nobody sits in and no sweep visits (HostLeavingDisbands).
Abandoned(l) == l \in DOMAIN lobbies /\ lobbies[l].peer_ids \cap sockets = {}
AbandonedLobbyGone == \A l \in LobbyId : Abandoned(l) ~> ~Abandoned(l)

-----------------------------------------------------------------------------
(* What the documents say, and the code does not do *)

\* "disband lobby if host leaves" (game_thread.cpp:603): when the host's departure
\* turns all other members out, the lobby is gone.
HostLeavingDisbands ==
  [][\A l \in DOMAIN lobbies \cap DOMAIN lobbies' :
       LET h == lobbies[l].host IN
       h \in lobbies[l].peer_ids \ lobbies'[l].peer_ids =>
         \E q \in lobbies'[l].peer_ids \cap DOMAIN peers' : peers'[q].lobby_id = l]_vars

\* "Only works if you are host" (ARCHITECTURE.md:923): size, name and password of a
\* lobby are changed by its host only.
OnlyHostSets ==
  [][\A l \in DOMAIN lobbies \cap DOMAIN lobbies' :
       \/ answer'.to = lobbies[l].host
       \/ /\ lobbies'[l].max_players = lobbies[l].max_players
          /\ lobbies'[l].name = lobbies[l].name
          /\ lobbies'[l].password = lobbies[l].password]_vars

=============================================================================
