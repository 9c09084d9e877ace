---------------------------- MODULE LobbyService ----------------------------
(***************************************************************************)
(* What the lobbies of a game promise, whatever sockets, commands, hooks,  *)
(* sweeps and clocks bring it about: a peer sits in at most one lobby;     *)
(* every lobby is hosted by one of its members; one step enters or leaves  *)
(* one lobby; and when a host goes, either another member takes over or    *)
(* all members go with it.                                                 *)
(*                                                                         *)
(* GameThread implements this specification in hosted games.               *)
(***************************************************************************)
CONSTANTS
  PeerId,
  LobbyId,
  NoLobby,     \* where a peer sits that is in no lobby
  HandsOver    \* whether a lobby survives the departure of its host

VARIABLES
  seat,        \* the lobby each peer sits in
  host         \* the host of each open lobby

vars == <<seat, host>>

Members(l) == {p \in PeerId : seat[p] = l}

Create(p, l) ==
  /\ seat[p] = NoLobby
  /\ l \in LobbyId \ DOMAIN host
  /\ seat' = [seat EXCEPT ![p] = l]
  /\ host' = [k \in DOMAIN host \cup {l} |-> IF k = l THEN p ELSE host[k]]

Join(p, l) ==
  /\ seat[p] = NoLobby
  /\ l \in DOMAIN host
  /\ seat' = [seat EXCEPT ![p] = l]
  /\ UNCHANGED host

\* A member that is not the host leaves, is kicked or stays away too long
Leave(p) ==
  /\ seat[p] \in DOMAIN host
  /\ host[seat[p]] # p
  /\ seat' = [seat EXCEPT ![p] = NoLobby]
  /\ UNCHANGED host

\* The host goes and another member takes over
HandOver(p, q) ==
  /\ HandsOver
  /\ seat[p] \in DOMAIN host
  /\ host[seat[p]] = p
  /\ q \in Members(seat[p]) \ {p}
  /\ seat' = [seat EXCEPT ![p] = NoLobby]
  /\ host' = [host EXCEPT ![seat[p]] = q]

\* The host goes and the lobby with it: where lobbies are handed over, it was alone
Close(l) ==
  /\ l \in DOMAIN host
  /\ HandsOver => Members(l) = {host[l]}
  /\ seat' = [p \in PeerId |-> IF seat[p] = l THEN NoLobby ELSE seat[p]]
  /\ host' = [k \in DOMAIN host \ {l} |-> host[k]]

Init ==
  /\ seat = [p \in PeerId |-> NoLobby]
  /\ DOMAIN host = {}

Next ==
  \/ \E p \in PeerId, l \in LobbyId : Create(p, l) \/ Join(p, l)
  \/ \E p \in PeerId : Leave(p) \/ \E q \in PeerId : HandOver(p, q)
  \/ \E l \in LobbyId : Close(l)

Spec == Init /\ [][Next]_vars

=============================================================================
