----------------------------- MODULE MCRelayData -----------------------------
(* Values of the constants of RelayData for model checking. *)
EXTENDS RelayData

TwoPeers   == {1, 2}
EmptyId    == 0

\* "LOBBY_CALL" is refused in relay games
RelayCommands ==
  {"CREATE_LOBBY", "JOIN_LOBBY", "QUICK_JOIN", "LEAVE_LOBBY", "KICK_PEER", "LOBBY_CALL",
   "LOBBY_DATA", "DATA_TO", "DATA_TO_ALL", "NOTIFY_TO", "LOBBY_NOTIFY"}

\* States that differ only in the messages sent last are one: no guard and no invariant
\* of this instance reads these; the last component only has them evaluated
AllButMessages ==
  <<data, listing, conn, run_vars, fabricated, shared, view, notices # {NoAnswer}>>
=============================================================================
