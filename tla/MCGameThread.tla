---------------------------- MODULE MCGameThread ----------------------------
(* Values of the constants of GameThread for model checking. *)
EXTENDS GameThread

TwoPeers   == {1, 2}
ThreePeers == {1, 2, 3}
EmptyId    == 0

\* -1 stands for every negative size a client can ask for
AnySize == {-1, 0, 1, 2}

SeatingCommands == {"CREATE_LOBBY", "JOIN_LOBBY", "LEAVE_LOBBY", "KICK_PEER"}
ListCommands == SeatingCommands \cup {"LIST_LOBBIES", "STOP_LIST_LOBBIES", "SEAL_LOBBY",
                                     "UNSEAL_LOBBY"}
MemberCommands ==
  {"CREATE_LOBBY", "JOIN_LOBBY", "QUICK_JOIN", "LEAVE_LOBBY", "LOBBY_READY", "LOBBY_UNREADY",
   "SEAL_LOBBY", "UNSEAL_LOBBY", "LOBBY_MAX_PLAYERS", "LOBBY_TITLE", "LOBBY_PASSWORD",
   "LOBBY_TAGS", "CHAT_LOBBY", "USER_DATA", "LOBBY_CALL"}

SizeCommands == {"CREATE_LOBBY", "JOIN_LOBBY", "LOBBY_MAX_PLAYERS"}

AllHooks == {"_on_peer_connected", "_can_create_lobby", "_on_lobby_created", "_can_peer_join",
             "_on_peer_joined", "_can_peer_chat", "_can_host_set_tags", "_can_host_kick",
             "_can_peer_ready", "_can_host_seal", "_on_peer_leave", "_can_host_resize",
             "_can_host_set_title"}

\* States that differ only in the messages sent last are one: no guard reads these. The
\* action properties read them in each step, before states are identified, and the last
\* line tells apart what CommandAnswered reads and has the notices evaluated
AllButMessages ==
  <<data, listing, conn, run_vars, fabricated, CommandAnswered, notices # {NoAnswer}>>
=============================================================================
