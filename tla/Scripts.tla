------------------------------- MODULE Scripts -------------------------------
(***************************************************************************)
(* Calls of the functions of a game's script (src/src/lua/script_lua.cpp,  *)
(* script_lua_functions.cpp, and on_lobby_call, scripted_function_call,    *)
(* kick_peer and notify_lobby_changes in game_thread.cpp).                 *)
(*                                                                         *)
(* A call runs on the game thread.  What the script writes through the     *)
(* lobby object changes the records at once, and is queued there: as diffs *)
(* of data and as dirty flags of settings.  notify_lobby_changes sends     *)
(* what has queued up in the lobby and in its members when the call is     *)
(* over, and only then.                                                    *)
(*                                                                         *)
(* Left out: hooks, which are calls within handlers; the lobby's private   *)
(* data and the peers' user data, which are never sent after a call; and   *)
(* objects that a script keeps from one call to the next.                  *)
(***************************************************************************)
EXTENDS SharedData

CONSTANTS
  MaxEffects,           \* bound: effects of one call
  PublicWritten,        \* bound: peers whose public data the script writes
  PrivateWritten        \* bound: peers whose private data it writes

ASSUME ScriptAssumption ==
  /\ LobbyControl = "lua"
  /\ Callbacks = {}
  /\ "LOBBY_CALL" \notin Commands    \* its calls are modelled here
  /\ MaxEffects \in Nat
  /\ PublicWritten \cup PrivateWritten \subseteq PeerId

VARIABLES
  call,                 \* the function that runs: who called it, in which lobby
  unsent                \* the diffs of dirty data, by lobby or by peer

script_vars == <<data_vars, call, unsent>>

NoCall == [caller |-> NoPeer, lobby |-> NoLobby, effects |-> 0, settings |-> {}]
Running == call # NoCall

-----------------------------------------------------------------------------
(* Calls *)

\* A call has some effects and then returns, or fails, which is no different
on_lobby_call_begin(p) ==
  /\ Idle
  /\ ~Running
  /\ p \in sockets \cap DOMAIN peers
  /\ InLobby(p)
  /\ call' = [caller |-> p, lobby |-> peers[p].lobby_id, effects |-> MaxEffects, settings |-> {}]
  /\ UNCHANGED <<data_vars, unsent>>

\* The next effect of the call, on a lobby that still exists
Effect ==
  /\ ~fabricated
  /\ call.effects > 0
  /\ call.lobby \in DOMAIN lobbies

Next_effect == call' = [call EXCEPT !.effects = @ - 1]

Lobby == lobbies[call.lobby]

\* Mutant of Edits: an assignment leaves the diff as it was
Edits_KeepDiff(dict, diffs, x) ==
  {[data |-> Apply(Empty, new), diff |-> IF x \in DOMAIN diffs THEN diffs[x] ELSE <<>>] :
     new \in UNION {[K -> Value] : K \in SUBSET Key}}

\* A script writes one key of a dictionary, or assigns another one
Written(d, diff, k, v) == [data |-> Apply(d, [j \in {k} |-> v]), diff |-> Put(diff, k, v)]
Assigned(new) == [data |-> Apply(Empty, new), diff |-> new]

\* What a script can make of dict[x] and of its diff. To assign an equal dictionary is no
\* change
Edits(dict, diffs, x) ==
  {Written(dict[x], IF x \in DOMAIN diffs THEN diffs[x] ELSE <<>>, k, v) :
     k \in Key, v \in Value \cup {Null}}
  \cup
  {Assigned(new) : new \in {new \in UNION {[K -> Value] : K \in SUBSET Key} :
                              x \in DOMAIN diffs \/ dict[x] # Apply(Empty, new)}}

write_lobby_public_data ==
  /\ Effect
  /\ \E e \in Edits(lobby_public, unsent.lobby, call.lobby) :
       /\ lobby_public' = [lobby_public EXCEPT ![call.lobby] = e.data]
       /\ unsent' = [unsent EXCEPT !.lobby = Put(@, call.lobby, e.diff)]
  /\ Next_effect
  /\ UNCHANGED <<vars, lobby_private, peer_public, peer_private, view>>

write_peer_public_data(q) ==
  /\ Effect
  /\ q \in Lobby.peer_ids \cap DOMAIN peers \cap PublicWritten
  /\ \E e \in Edits(peer_public, unsent.public, q) :
       /\ peer_public' = [peer_public EXCEPT ![q] = e.data]
       /\ unsent' = [unsent EXCEPT !.public = Put(@, q, e.diff)]
  /\ Next_effect
  /\ UNCHANGED <<vars, lobby_public, lobby_private, peer_private, view>>

write_peer_private_data(q) ==
  /\ Effect
  /\ q \in Lobby.peer_ids \cap DOMAIN peers \cap PrivateWritten
  /\ \E e \in Edits(peer_private, unsent.private, q) :
       /\ peer_private' = [peer_private EXCEPT ![q] = e.data]
       /\ unsent' = [unsent EXCEPT !.private = Put(@, q, e.diff)]
  /\ Next_effect
  /\ UNCHANGED <<vars, lobby_public, lobby_private, peer_public, view>>

\* A setting is written at once and announced later, if it changes. A tag is announced
\* even if the script writes the value that it has
write_setting ==
  /\ Effect
  /\ \E lobby \in {[Lobby EXCEPT !.sealed = ~@]}
                  \cup {[Lobby EXCEPT !.max_players = m] : m \in MaxPlayersInput}
                  \cup {[Lobby EXCEPT !.name = n] : n \in Title}
                  \cup {[Lobby EXCEPT !.tags = t] : t \in SUBSET Tag} :
       /\ lobby # Lobby \/ lobby.tags # {}
       /\ lobbies' = [lobbies EXCEPT ![call.lobby] = lobby]
       /\ call' = [call EXCEPT
                     !.effects = @ - 1,
                     !.settings = @ \cup
                       (IF lobby.sealed # Lobby.sealed THEN {"sealed"}
                        ELSE IF lobby.max_players # Lobby.max_players THEN {"max_players"}
                        ELSE IF lobby.name # Lobby.name THEN {"name"} ELSE {"tags"})]
  /\ answer' = NoAnswer
  /\ notices' = {}
  /\ UNCHANGED <<peers, peer_ordered_ids, lobbies_updated, listing, conn, run_vars, fabricated,
                 shared, view, unsent>>

\* Mutant of HostAudience: not to the new host, as a comment there has it
HostAudience_Others(q) == Lobby.peer_ids \ {q}

\* Who is told of a new host
HostAudience(q) == Lobby.peer_ids

\* Any peer id will do. Subscribers of the list are not told
set_lobby_host(q) ==
  /\ Effect
  /\ Lobby.host # q
  /\ lobbies' = [lobbies EXCEPT ![call.lobby].host = q]
  /\ answer' = NoAnswer
  /\ notices' = send(HostAudience(q), "HOST_CHANGED")
  /\ Next_effect
  /\ UNCHANGED <<peers, peer_ordered_ids, lobbies_updated, listing, conn, run_vars, fabricated,
                 shared, view, unsent>>

\* What is queued for a peer stays queued when it leaves
UnsentKept ==
  unsent' = [lobby |-> Restrict(unsent.lobby, DOMAIN unsent.lobby \cap DOMAIN lobbies'),
             public |-> Restrict(unsent.public, DOMAIN unsent.public \cap DOMAIN peers'),
             private |-> Restrict(unsent.private, DOMAIN unsent.private \cap DOMAIN peers')]

kick_peer(q) ==
  /\ Effect
  /\ q \in Lobby.peer_ids
  /\ remove_peer_from_lobby(call.lobby, q, NoPeer, TRUE)
  /\ UNCHANGED <<listing, conn, run_vars>>
  /\ Carried
  /\ Next_effect
  /\ UnsentKept

\* leave_lobby where the data is concerned
Emptied(f, S) == [q \in DOMAIN f |-> IF q \in S THEN Empty ELSE f[q]]

\* Of a peer that is no member kick_peer clears the lobby and the flag "ready" all the
\* same, whatever lobby it sits in and is listed by.  One that set_lobby_host has made the
\* host hands the lobby over, or turns out members that stay in its list
kick_stranger(q) ==
  LET turned_out == IF Disbands(Lobby, q) THEN Lobby.peer_ids ELSE {}
      host == IF q = Lobby.host /\ ~Disbands(Lobby, q) THEN NewHost(Lobby, q) ELSE Lobby.host
  IN
  /\ Effect
  /\ q \in DOMAIN peers \ Lobby.peer_ids
  /\ peers' = [[x \in DOMAIN peers |-> IF x \in turned_out THEN leave_lobby(peers[x]) ELSE peers[x]]
                EXCEPT ![q].lobby_id = NoLobby, ![q].ready = FALSE]
  /\ IF Ends(Lobby, q)
     THEN /\ lobbies' = Drop(lobbies, {call.lobby})
          /\ peer_ordered_ids' = Drop(peer_ordered_ids, {call.lobby})
     ELSE lobbies' = [lobbies EXCEPT ![call.lobby].host = host] /\ UNCHANGED peer_ordered_ids
  /\ lobbies_updated' = lobbies_updated \cup {call.lobby}
  /\ Access(Lobby.peer_ids)
  /\ LeaveNotices(Lobby, q, NoPeer, TRUE, "allow")
  /\ lobby_public' = Kept(lobby_public) /\ lobby_private' = Kept(lobby_private)
  /\ peer_public' = Emptied(peer_public, turned_out)
  /\ peer_private' = Emptied(peer_private, turned_out)
  /\ view' = [p \in PeerId |->
                IF Hears(p, {"LOBBY_LEFT", "LOBBY_KICKED"}) THEN NoView
                ELSE IF Hears(p, {"PEER_LEFT", "PEER_KICKED"})
                  THEN [view[p] EXCEPT !.peers = Drop(@, {q})]
                ELSE view[p]]
  /\ Next_effect
  /\ UnsentKept
  /\ UNCHANGED <<listing, conn, run_vars>>

\* operator[] makes an empty record of the id of a peer that is not known, and an empty
\* lobby of the id of a lobby whose last member the call has kicked
fabricate ==
  /\ Running
  /\ ~fabricated
  /\ \/ call.lobby \notin DOMAIN lobbies
     \/ Effect /\ ~(PeerId \subseteq DOMAIN peers)
  /\ fabricated' = TRUE
  /\ call' = NoCall
  /\ UNCHANGED <<data, listing, conn, run_vars, out, shared, view, unsent>>

-----------------------------------------------------------------------------
(* The end of a call *)

\* d with what is queued in diffs for x
Flushed(d, diffs, x) == IF x \in DOMAIN diffs THEN Apply(d, diffs[x]) ELSE d

\* What the messages of notify_lobby_changes make of the view of member p
Updated(p) ==
  [view[p] EXCEPT
     !.lobby = Flushed(@, unsent.lobby, call.lobby),
     !.peers = [q \in DOMAIN @ |-> IF q \in Lobby.peer_ids THEN Flushed(@[q], unsent.public, q)
                                   ELSE @[q]],
     !.own = Flushed(@, unsent.private, p)]

SettingNotices ==
  UNION {send(Lobby.peer_ids, CASE s = "sealed" /\ Lobby.sealed -> "LOBBY_SEALED"
                                [] s = "sealed" /\ ~Lobby.sealed -> "LOBBY_UNSEALED"
                                [] s = "max_players" -> "LOBBY_MAX_PLAYERS"
                                [] s = "name" -> "LOBBY_TITLE"
                                [] s = "tags" -> "LOBBY_TAGS") : s \in call.settings}

\* The lobby is reported to the subscribers of the list once a setting has changed
Reported == IF call.settings = {} THEN {} ELSE {call.lobby}

\* Mutant of Delivered: the diff of the lobby stays
Delivered_Members ==
  [unsent EXCEPT !.public = Drop(@, Lobby.peer_ids), !.private = Drop(@, Lobby.peer_ids)]

\* What is still queued once the lobby's and its members' diffs are sent
Delivered ==
  [lobby |-> Drop(unsent.lobby, {call.lobby}),
   public |-> Drop(unsent.public, Lobby.peer_ids),
   private |-> Drop(unsent.private, Lobby.peer_ids)]

\* notify_lobby_changes, then the answer to the caller
on_lobby_call_end ==
  /\ Running
  /\ ~fabricated
  /\ call.lobby \in DOMAIN lobbies
  /\ view' = [p \in PeerId |-> IF p \in Reached(Lobby.peer_ids) THEN Updated(p) ELSE view[p]]
  /\ unsent' = Delivered
  /\ lobbies_updated' = lobbies_updated \cup Reported
  /\ \E type \in {"LOBBY_CALL", "ERROR"} : answer' = reply(call.caller, <<type>>)
  /\ notices' = SettingNotices
  /\ call' = NoCall
  /\ Access(Lobby.peer_ids)
  /\ UNCHANGED <<peers, lobbies, peer_ordered_ids, listing, conn, run_vars, shared>>

-----------------------------------------------------------------------------
(* Specification *)

ScriptInit ==
  /\ DataInit
  /\ call = NoCall
  /\ unsent = [lobby |-> <<>>, public |-> <<>>, private |-> <<>>]

\* Everything else waits until the call is over, or is not followed any further. The
\* clock may move on meanwhile, but no call looks at the ages it changes
BetweenCalls ==
  /\ Running => fabricated
  /\ GameStep
  /\ UnsentKept
  /\ UNCHANGED call

ScriptEffect ==
  \/ write_lobby_public_data \/ write_setting
  \/ \E q \in PeerId : \/ write_peer_public_data(q) \/ write_peer_private_data(q)
                       \/ set_lobby_host(q) \/ kick_peer(q) \/ kick_stranger(q)

ScriptNext ==
  \/ BetweenCalls
  \/ \E p \in PeerId : on_lobby_call_begin(p)
  \/ ScriptEffect
  \/ on_lobby_call_end
  \/ fabricate

ScriptSpec == ScriptInit /\ [][ScriptNext]_script_vars

-----------------------------------------------------------------------------
(* Properties *)

\* No call runs, and nothing undefined has happened in one
Settled == ~Running /\ ~fabricated

\* Type invariant of a call and of what it queues. Diffs live in the records of lobbies
\* and peers and go with them; those of a lobby do not outlive a call, those of a peer
\* do when the call turns the peer out.
ScriptTypeOK ==
  /\ call \in [caller : PeerId \cup {NoPeer}, lobby : LobbyId \cup {NoLobby},
              effects : 0..MaxEffects,
              settings : SUBSET {"sealed", "max_players", "name", "tags"}]
  /\ \A kind \in {"lobby", "public", "private"} : Range(unsent[kind]) \subseteq Diff
  /\ fabricated \/ DOMAIN unsent.lobby \subseteq {call.lobby} \cap DOMAIN lobbies
  /\ DOMAIN unsent.public \cup DOMAIN unsent.private \subseteq DOMAIN peers

\* Entries of d are the same in the view v
Shown(d, v) == \A k \in Key : d[k] # Null => v[k] = d[k]

\* p sits in every lobby that lists it. A script that kicks strangers can leave peers in the
\* lists of lobbies that they do not sit in.
SitsWhereListed(p) ==
  \A l \in DOMAIN lobbies :
    p \in lobbies[l].peer_ids => p \in DOMAIN peers /\ peers[p].lobby_id = l

\* When no call runs, every client in a lobby has been told each entry of the lobby's and
\* of its members' public data: diffs of this call and those left over from earlier ones,
\* whole dictionaries and what clients are sent when they join never add up to a missing
\* or an outdated entry.
PublicDataShown ==
  Settled => \A p \in PeerId : HasJoined(p) /\ SitsWhereListed(p) =>
    LET l == peers[p].lobby_id IN
    /\ Shown(lobby_public[l], view[p].lobby)
    /\ \A q \in lobbies[l].peer_ids : SitsWhereListed(q) =>
         q \in DOMAIN view[p].peers /\ Shown(peer_public[q], view[p].peers[q])

\* When no call runs, every client has been told each entry of its own private data.
OwnDataShown ==
  Settled => \A p \in sockets \cap DOMAIN peers : Shown(peer_private[p], view[p].own)

\* What a script writes reaches those that it is meant for by the end of the call.
DataShown == PublicDataShown /\ OwnDataShown

\* A list entry without the host's id
HostAside(e) == IF e = Unlisted THEN e ELSE [e EXCEPT !.h = NoPeer]

\* Informed, the host aside
InformedAside(p, l) ==
  \/ HostAside(told[p][l]) = HostAside(Entry(l))
  \/ /\ l \in DOMAIN lobbies /\ lobbies[l].sealed
     /\ HostAside(told[p][l]) = HostAside(to_dict(lobbies[l]))

\* When no call runs, every subscriber knows of every lobby what SettingsListed says, but
\* for the host, also of what scripts have set and whom they have kicked: the report that
\* notify_lobby_changes asks for and those of kicks make up for the writes that ask for
\* none. A script's new host is not reported.
SettingsListedAfterCalls ==
  Settled => \A p \in lobby_listing_peers, l \in LobbyId \ lobbies_updated :
               InformedAside(p, l)

\* A script gives a lobby no size that does not hold its members, and not 0, for which the
\* handlers do not look whether the lobby is full. One that does sets WithinCapacity aside.
SizesFit ==
  [][write_setting => \A l \in DOMAIN lobbies :
       lobbies'[l].max_players # lobbies[l].max_players =>
         /\ lobbies'[l].max_players # 0
         /\ Cardinality(lobbies[l].peer_ids) <= Unsigned(lobbies'[l].max_players)]_script_vars

\* A script does not kick peers out of other lobbies than its own. One that does makes a
\* client forget private data that its peer keeps.
KicksNobodyElsewhere ==
  [][\A q \in PeerId : kick_stranger(q) =>
       \A l \in DOMAIN lobbies : q \notin lobbies[l].peer_ids]_script_vars

=============================================================================
