------------------------------ MODULE MCScripts ------------------------------
(* Values of the constants of Scripts for model checking. *)
EXTENDS Scripts

TwoPeers == {1, 2}
EmptyId  == 0

ScriptCommands == {"CREATE_LOBBY", "JOIN_LOBBY", "LEAVE_LOBBY"}

\* What no guard and no property of this instance reads: in which order members came,
\* the settings, as nobody lists, seals or asks for lobbies, the age of a disconnection
\* that has no seat to cost, the caller, and the messages that were sent last, which the
\* last line only has evaluated.  States that differ in nothing else are one
AllButSettings ==
  <<[p \in DOMAIN peers |-> [peers[p] EXCEPT !.order_id = 0]],
    [l \in DOMAIN lobbies |-> [lobbies[l] EXCEPT !.sealed = FALSE]],
    [p \in DOMAIN disconnected_peers |->
       IF p \in DOMAIN peers /\ InLobby(p) THEN disconnected_peers[p] ELSE 0],
    lobbies_updated \ DOMAIN lobbies, sockets, run_vars, fabricated, shared, view, unsent,
    [call EXCEPT !.settings = {}, !.caller = NoPeer],
    notices # {NoAnswer}>>

=============================================================================
