--------------------------- MODULE WebSocketServer ---------------------------
(***************************************************************************)
(* Connections: WebSocketServer (src/src/websocket/websocket_server.cpp),  *)
(* the AuthenticationThread behind it, and the two queues that tie them to *)
(* the game thread.                                                        *)
(*                                                                         *)
(* Three threads take part.  The uWS loop runs the socket handlers and the *)
(* callbacks other threads defer to it, one at a time; the authentication  *)
(* thread answers upgrade requests; the game thread takes events from      *)
(* receive_queue.  Of the game thread only what matters here is kept: whom *)
(* it takes for connected, and that it gives up disconnected peers.        *)
(***************************************************************************)
EXTENDS Integers, FiniteSets, Sequences, Functions

CONSTANTS
  Socket,               \* connection attempts, numbered in the order they are made
  NoSocket,             \* nullptr
  GameId,               \* game ids: sequences, because keys concatenate them
  Token,                \* reconnection tokens, sequences too
  Jwt,                  \* the tokens that contain a dot
  Account,              \* the tokens platform:platform_id of logged in users
  DbEnabled,            \* Database::enabled
  MaxUsers,             \* max_users
  MaxMessages,          \* max_messages_per_second
  QueueLength,          \* message_queue_length
  MaxReconnectionTime,  \* MAX_RECONNECTION_TIME
  MaxDeferred           \* bound: callbacks waiting when the game thread defers another

ASSUME SocketAssumption ==
  /\ Socket \subseteq Nat
  /\ IsFiniteSet(Socket)
  /\ NoSocket \notin Socket

ASSUME TokenAssumption ==
  /\ Jwt \cup Account \subseteq Token
  /\ Jwt \cap Account = {}

ASSUME LimitAssumption ==
  /\ DbEnabled \in BOOLEAN
  /\ MaxUsers \in Nat
  /\ MaxMessages \in Nat
  /\ QueueLength \in Nat
  /\ MaxReconnectionTime \in Nat
  /\ MaxDeferred \in Nat

VARIABLES
  sockets,              \* PerSocketData of each attempt, and how far it got
  connection_data,      \* PeerConnectionData by peer id
  reconnections,        \* ReconnectionTokens by game id and token
  connected_users,
  authentication_queue, \* requests for AuthenticationThread, the one it has in hand included
  verifying,            \* that one waits for the login service
  deferred,             \* callbacks the loop has still to run
  receive_queue,        \* events for the game thread
  db_peers,             \* the table peers: the peer id of a token in a game
  game_peers,           \* what the game thread knows: "connected" or "disconnected"
  undefined             \* a dangling reference has been used

server == <<connection_data, reconnections, connected_users>>
game   == <<receive_queue, game_peers>>
vars   == <<sockets, server, authentication_queue, verifying, deferred, game, db_peers, undefined>>

-----------------------------------------------------------------------------
(* Records and helpers *)

Put(f, k, v) == [x \in DOMAIN f \cup {k} |-> IF x = k THEN v ELSE f[x]]
Drop(f, S) == Restrict(f, DOMAIN f \ S)

\* An attempt that nobody has made yet. small_uuid is taken to be unique: it is
\* the number of the attempt.
NewSocket(s) ==
  [state |-> "new", id |-> s, game_id |-> <<>>, reconnection_token |-> <<>>, message_count |-> 0]

Event(id, event) == [id |-> id, event |-> event]
Callback(do, s) == [do |-> do, socket |-> s, ids |-> {}]
ClearUsers(S) == [do |-> "clear_users", socket |-> NoSocket, ids |-> S]
SendClose(id) == [do |-> "close", socket |-> NoSocket, ids |-> {id}]

Open(s) == sockets[s].state = "open"

\* Key of reconnections: two strings put together without a separator
Key(game_id, token) == game_id \o token

\* The socket send() finds for a peer
SocketOf(id) == IF id \in DOMAIN connection_data THEN connection_data[id].ws ELSE NoSocket
SocketsOf(S) == {SocketOf(id) : id \in S} \ {NoSocket}

\* The sockets of W, one after the other
Orders(W) == Bijection(1..Cardinality(W), W)

\* Mutant of Unregistered: the pointer stays
Unregistered_Kept(W) == connection_data

\* on_close forgets a socket only where the entry of its id still points to it
Unregistered(W) ==
  [id \in DOMAIN connection_data |->
     IF \E w \in W : /\ sockets[w].id = id
                     /\ sockets[w].reconnection_token = connection_data[id].reconnection_token
                     /\ connection_data[id].ws = w
     THEN [connection_data[id] EXCEPT !.ws = NoSocket] ELSE connection_data[id]]

\* Mutants of CloseEvents and CountAfter: a close is not reported, or not counted
CloseEvents_None(order) == <<>>
CountAfter_Kept(order) == connected_users

\* on_close tells the game thread, and counts
CloseEvents(order) == [i \in 1..Len(order) |-> Event(sockets[order[i]].id, "CLOSE")]
CountAfter(order) == connected_users - Len(order)

Closed(W) ==
  [s \in Socket |-> IF s \in W THEN [sockets[s] EXCEPT !.state = "closed"] ELSE sockets[s]]

-----------------------------------------------------------------------------
(* Authentication *)

\* Requests the thread has not taken yet
Waiting == Len(authentication_queue) - (IF verifying THEN 1 ELSE 0)

\* Attempts are made in the order of their numbers. The request may be malformed;
\* a full house and a full queue turn it away
on_upgrade(s) ==
  /\ ~undefined
  /\ sockets[s].state = "new"
  /\ \A r \in Socket : r < s => sockets[r].state # "new"
  /\ \/ /\ connected_users <= MaxUsers
        /\ Waiting < MaxUsers
        /\ \E g \in GameId, t \in Token :
             sockets' = [sockets EXCEPT ![s].state = "authenticating", ![s].game_id = g,
                                        ![s].reconnection_token = t]
        /\ authentication_queue' = Append(authentication_queue, s)
     \/ /\ sockets' = Closed({s})
        /\ UNCHANGED authentication_queue
  /\ UNCHANGED <<server, verifying, deferred, game, db_peers, undefined>>

\* The client hangs up first. The callback writes through a reference to a
\* variable of on_upgrade, which has returned: the flag may get set, or anything
\* may happen, and the model goes no further
on_aborted(s) ==
  /\ ~undefined
  /\ sockets[s].state = "authenticating"
  /\ \/ sockets' = [sockets EXCEPT ![s].state = "aborted"] /\ UNCHANGED undefined
     \/ undefined' = TRUE /\ UNCHANGED sockets
  /\ UNCHANGED <<server, authentication_queue, verifying, deferred, game, db_peers>>

\* Mutant of Answers: nobody answers a login that fails
Answers_Lost(s) ==
  LET t == sockets[s].reconnection_token IN
  IF t \notin Jwt THEN {[token |-> t, calls |-> <<Callback("upgrade_anon", s)>>]}
  ELSE [token : Account \cup {t}, calls : {<<Callback("upgrade", s)>>}]
       \cup [token : {t}, calls : {<<>>}]

\* A token without a dot needs no login; a JWT is verified, which may fail, yield
\* an account, or (data or token of another type) leave the user anonymous
Answers(s) ==
  LET t == sockets[s].reconnection_token IN
  IF t \notin Jwt THEN {[token |-> t, calls |-> <<Callback("upgrade_anon", s)>>]}
  ELSE [token : Account \cup {t}, calls : {<<Callback("upgrade", s)>>}]
       \cup [token : {t}, calls : {<<Callback("reject", s)>>}]

NextToken == sockets[Head(authentication_queue)].reconnection_token

\* The thread asks the login service about the token at the head and waits for the answer,
\* with no limit of time: nobody behind it is answered meanwhile
verify_jwt ==
  /\ ~undefined
  /\ authentication_queue # <<>>
  /\ ~verifying
  /\ NextToken \in Jwt
  /\ verifying' = TRUE
  /\ UNCHANGED <<sockets, server, authentication_queue, deferred, game, db_peers, undefined>>

AuthenticationThread_run ==
  /\ ~undefined
  /\ authentication_queue # <<>>
  /\ verifying \/ NextToken \notin Jwt
  /\ authentication_queue' = Tail(authentication_queue)
  /\ verifying' = FALSE
  /\ LET s == Head(authentication_queue) IN
     \E answer \in Answers(s) :
       /\ sockets' = [sockets EXCEPT ![s].reconnection_token = answer.token]
       /\ deferred' = deferred \o answer.calls
  /\ UNCHANGED <<server, game, db_peers, undefined>>

-----------------------------------------------------------------------------
(* Socket handlers *)

\* on_close for each of the sockets in "order"
Closing(order) ==
  /\ connection_data' = Unregistered(Range(order))
  /\ connected_users' = CountAfter(order)
  /\ receive_queue' = receive_queue \o CloseEvents(order)

\* A known token that on_open turns away: it has expired, its peer is gone, or it
\* belongs to another game
Expired(k) == reconnections[k].age > MaxReconnectionTime
PeerGone(k) == reconnections[k].peer_id \notin DOMAIN connection_data
Refused(k, game_id) ==
  \/ Expired(k) \/ PeerGone(k)
  \/ connection_data[reconnections[k].peer_id].game_id # game_id

\* The socket is ended from within on_open: on_close runs although nothing was counted
RefuseOpen(s, id, k) ==
  /\ Refused(k, sockets[s].game_id)
  /\ reconnections' = IF Expired(k) \/ PeerGone(k) THEN Drop(reconnections, {k}) ELSE reconnections
  /\ sockets' = [sockets EXCEPT ![s].state = "closed", ![s].id = id]
  /\ connected_users' = connected_users - 1
  /\ receive_queue' = Append(receive_queue, Event(id, "CLOSE"))
  /\ UNCHANGED connection_data

\* Mutant of Replaced: the old socket of a peer that is back is not closed
Replaced_Kept(old) == {}

\* The socket a reconnecting peer still has is closed first
Replaced(old) == SocketsOf({old})

\* Enter the socket under its id, and tell the game thread
Register(s, id, W) ==
  LET data == sockets[s] IN
  /\ sockets' = [Closed(W) EXCEPT ![s].state = "open", ![s].id = id]
  /\ reconnections' = Put(reconnections, Key(data.game_id, data.reconnection_token),
                          [peer_id |-> id, age |-> 0])
  /\ connection_data' = Put(Unregistered(W), id,
                            [game_id |-> data.game_id, ws |-> s,
                             reconnection_token |-> data.reconnection_token])
  /\ \E order \in Orders(W) :
       /\ connected_users' = CountAfter(order) + 1
       /\ receive_queue' = receive_queue \o CloseEvents(order) \o <<Event(id, "OPEN")>>

\* A token that is known brings the peer id it stands for
on_open(s, id) ==
  LET k == Key(sockets[s].game_id, sockets[s].reconnection_token) IN
  \/ k \notin DOMAIN reconnections /\ Register(s, id, {})
  \/ k \in DOMAIN reconnections /\ RefuseOpen(s, id, k)
  \/ /\ k \in DOMAIN reconnections
     /\ ~Refused(k, sockets[s].game_id)
     /\ LET old == reconnections[k].peer_id IN Register(s, old, Replaced(old))

\* Mutant of OverLimit: one message too many
OverLimit_OffByOne(count) == count > MaxMessages + 1

OverLimit(count) == count > MaxMessages

\* The count after one more message, which need not rise above the limit
OneMore(count) == IF OverLimit(count) THEN count ELSE count + 1

\* A message within the rate window counts on, a later one starts a new window.
\* Over the limit, or where the queue is full, the peer's socket is closed
on_message(s) ==
  /\ ~undefined
  /\ Open(s)
  /\ \E count \in {1, OneMore(sockets[s].message_count)} :
       \/ /\ ~OverLimit(count)
          /\ Len(receive_queue) < QueueLength
          /\ sockets' = [sockets EXCEPT ![s].message_count = count]
          /\ receive_queue' = Append(receive_queue, Event(sockets[s].id, "MESSAGE"))
          /\ UNCHANGED <<connection_data, connected_users>>
       \/ /\ OverLimit(count) \/ Len(receive_queue) >= QueueLength
          /\ LET W == SocketsOf({sockets[s].id}) IN
             /\ sockets' = [Closed(W) EXCEPT ![s].message_count = count]
             /\ \E order \in Orders(W) : Closing(order)
  /\ UNCHANGED <<reconnections, authentication_queue, verifying, deferred, game_peers, db_peers,
                 undefined>>

\* The client closes, the idle timeout strikes, or too much is waiting to be sent
on_close(s) ==
  /\ ~undefined
  /\ Open(s)
  /\ sockets' = Closed({s})
  /\ Closing(<<s>>)
  /\ UNCHANGED <<reconnections, authentication_queue, verifying, deferred, game_peers, db_peers,
                 undefined>>

-----------------------------------------------------------------------------
(* Callbacks the loop runs for other threads *)

\* get_peer_or_insert: the peer id a token has in a game, its own if it is new
get_peer_or_insert(k, id) == IF k \in DOMAIN db_peers THEN db_peers[k] ELSE id

\* An anonymous user gets the id the database has for its token
upgrade_anon(s) ==
  LET k == <<sockets[s].reconnection_token, sockets[s].game_id>>
      id == get_peer_or_insert(k, sockets[s].id)
  IN
  IF DbEnabled THEN db_peers' = Put(db_peers, k, id) /\ on_open(s, id)
  ELSE UNCHANGED db_peers /\ on_open(s, sockets[s].id)

\* Mutant of Forgotten: the tokens stay
Forgotten_KeepsTokens(S) == reconnections

\* The tokens that go with the entries of S
Forgotten(S) ==
  Drop(reconnections, {Key(connection_data[id].game_id, connection_data[id].reconnection_token) :
                         id \in S \cap DOMAIN connection_data})

clear_users(S) ==
  /\ sockets' = Closed(SocketsOf(S))
  /\ \E order \in Orders(SocketsOf(S)) :
       /\ connected_users' = CountAfter(order)
       /\ receive_queue' = receive_queue \o CloseEvents(order)
  /\ reconnections' = Forgotten(S)
  /\ connection_data' = Drop(connection_data, S)

\* Upgrading opens the socket at once, unless the client is gone
run_deferred ==
  /\ ~undefined
  /\ deferred # <<>>
  /\ deferred' = Tail(deferred)
  /\ LET call == Head(deferred)
         s == call.socket
     IN
     \/ /\ call.do \in {"upgrade", "upgrade_anon", "reject"}
        /\ sockets[s].state = "aborted" \/ call.do = "reject"
        /\ sockets' = Closed({s})
        /\ UNCHANGED <<server, receive_queue, db_peers>>
     \/ /\ call.do = "upgrade_anon"
        /\ sockets[s].state # "aborted"
        /\ upgrade_anon(s)
     \/ /\ call.do = "upgrade"
        /\ sockets[s].state # "aborted"
        /\ on_open(s, sockets[s].id)
        /\ UNCHANGED db_peers
     \/ /\ call.do = "clear_users"
        /\ clear_users(call.ids)
        /\ UNCHANGED db_peers
     \/ /\ call.do = "close"
        /\ sockets' = Closed(SocketsOf(call.ids))
        /\ \E order \in Orders(SocketsOf(call.ids)) : Closing(order)
        /\ UNCHANGED <<reconnections, db_peers>>
  /\ UNCHANGED <<authentication_queue, verifying, game_peers, undefined>>

-----------------------------------------------------------------------------
(* The game thread, as far as connections go *)

\* A message may be answered by closing the socket: it is malformed, or its
\* sender is not known
handle_events ==
  /\ ~undefined
  /\ receive_queue # <<>>
  /\ receive_queue' = Tail(receive_queue)
  /\ LET e == Head(receive_queue) IN
     \/ /\ e.event = "OPEN"
        /\ game_peers' = Put(game_peers, e.id, "connected")
        /\ UNCHANGED deferred
     \/ /\ e.event = "CLOSE"
        /\ game_peers' = [id \in DOMAIN game_peers |->
                            IF id = e.id THEN "disconnected" ELSE game_peers[id]]
        /\ UNCHANGED deferred
     \/ /\ e.event = "MESSAGE"
        /\ e.id \in DOMAIN game_peers
        /\ UNCHANGED <<game_peers, deferred>>
     \/ /\ e.event = "MESSAGE"
        /\ Len(deferred) < MaxDeferred
        /\ deferred' = Append(deferred, SendClose(e.id))
        /\ UNCHANGED game_peers
  /\ UNCHANGED <<sockets, server, authentication_queue, verifying, db_peers, undefined>>

\* The sweep gives up the disconnected peers that have no lobby, and those that
\* have one for too long: which ones those are is up to GameThread
Disconnected == {id \in DOMAIN game_peers : game_peers[id] = "disconnected"}

handle_disconnects(to_erase) ==
  /\ ~undefined
  /\ to_erase # {}
  /\ Len(deferred) < MaxDeferred
  /\ game_peers' = Drop(game_peers, to_erase)
  /\ deferred' = Append(deferred, ClearUsers(to_erase))
  /\ UNCHANGED <<sockets, server, authentication_queue, verifying, receive_queue, db_peers,
                 undefined>>

\* get_time_now: ages saturate just above the threshold
Later(age) == IF age > MaxReconnectionTime THEN age ELSE age + 1

time_passes ==
  /\ reconnections' = [k \in DOMAIN reconnections |->
                         [reconnections[k] EXCEPT !.age = Later(@)]]
  /\ UNCHANGED <<sockets, connection_data, connected_users, authentication_queue, verifying,
                 deferred, game, db_peers, undefined>>

-----------------------------------------------------------------------------
(* Specification *)

Init ==
  /\ sockets = [s \in Socket |-> NewSocket(s)]
  /\ connection_data = <<>>
  /\ reconnections = <<>>
  /\ connected_users = 0
  /\ authentication_queue = <<>>
  /\ verifying = FALSE
  /\ deferred = <<>>
  /\ receive_queue = <<>>
  /\ db_peers = <<>>
  /\ game_peers = <<>>
  /\ undefined = FALSE

Handler(s) == on_upgrade(s) \/ on_aborted(s) \/ on_message(s) \/ on_close(s)

Next ==
  \/ \E s \in Socket : Handler(s)
  \/ verify_jwt \/ AuthenticationThread_run \/ run_deferred \/ handle_events
  \/ \E to_erase \in SUBSET Disconnected : handle_disconnects(to_erase)
  \/ time_passes

Spec == Init /\ [][Next]_vars

\* Every thread keeps taking what is queued for it, and no disconnected peer is
\* spared by every sweep: its time in a lobby is limited. That a login call returns is
\* up to the login service: no fairness of this server makes it
Fairness ==
  /\ WF_vars(verify_jwt \/ (~verifying /\ AuthenticationThread_run))
  /\ WF_vars(run_deferred) /\ WF_vars(handle_events)
  /\ \A id \in Socket :
       WF_vars(\E S \in SUBSET Disconnected : id \in S /\ handle_disconnects(S))

FairSpec == Spec /\ Fairness

-----------------------------------------------------------------------------
(* Invariants *)

\* Type invariant of the server's containers (websocket_server.h).
TypeOK ==
  /\ sockets \in [Socket -> [state : {"new", "authenticating", "aborted", "open", "closed"},
                             id : Socket, game_id : GameId \cup {<<>>},
                             reconnection_token : Token \cup {<<>>},
                             message_count : 0..(MaxMessages + 1)]]
  /\ DOMAIN connection_data \subseteq Socket
  /\ connection_data \in [DOMAIN connection_data ->
       [game_id : GameId, reconnection_token : Token, ws : Socket \cup {NoSocket}]]
  /\ reconnections \in [DOMAIN reconnections ->
       [peer_id : Socket, age : 0..(MaxReconnectionTime + 1)]]
  /\ connected_users \in Int
  /\ verifying \in BOOLEAN /\ (verifying => authentication_queue # <<>>)
  /\ DOMAIN game_peers \subseteq Socket
  /\ undefined \in BOOLEAN

\* The pointer kept for a peer is never that of a destroyed socket: send() and
\* clear_users() call through it.
NoDanglingSocket ==
  \A id \in DOMAIN connection_data :
    LET w == connection_data[id].ws IN w # NoSocket => Open(w) /\ sockets[w].id = id

\* Every open socket can be reached by the id of its peer: it gets the peer's
\* messages, and is closed when the peer is replaced or given up.
Registered == \A s \in Socket : Open(s) => SocketOf(sockets[s].id) = s

\* What the game thread will take peer id for once it has handled the events before i
Up(id, i) ==
  LET before == {j \in 1..(i - 1) : receive_queue[j].id = id /\ receive_queue[j].event # "MESSAGE"}
  IN IF before = {} THEN id \in DOMAIN game_peers /\ game_peers[id] = "connected"
     ELSE \E j \in before : /\ \A k \in before : k <= j
                            /\ receive_queue[j].event = "OPEN"

\* The game thread is told of peers in an order it can rely on: opens and closes of
\* a peer alternate, messages come in between, and once it has caught up it takes
\* for connected exactly the peers that have a socket.
EventsMatchSockets ==
  /\ \A i \in 1..Len(receive_queue) :
       LET e == receive_queue[i] IN
       /\ e.event = "OPEN" => ~Up(e.id, i)
       /\ e.event = "MESSAGE" => Up(e.id, i)
  /\ \A id \in Socket :
       Up(id, Len(receive_queue) + 1) <=> \E s \in Socket : Open(s) /\ sockets[s].id = id

\* A token always leads to a peer the server knows under that token, so nobody is
\* turned away because the peer behind the token is gone.
TokensLead ==
  \A k \in DOMAIN reconnections :
    /\ ~PeerGone(k)
    /\ LET c == connection_data[reconnections[k].peer_id]
       IN  Key(c.game_id, c.reconnection_token) = k

\* connected_users never exceeds the number of sockets, so a full house is never
\* reported while there is room.
NeverOvercounts == connected_users <= Cardinality({s \in Socket : Open(s)})

-----------------------------------------------------------------------------
(* Liveness *)

\* Where every login call returns, every attempt that is let in is decided: opened, refused,
\* or given up by the client. One call that never returns may leave all those behind it
\* undecided, anonymous ones included, for one thread makes the calls and waits.
AttemptsDecided ==
  []<>~verifying =>
    \A s \in Socket : sockets[s].state = "authenticating" ~>
                        (undefined \/ sockets[s].state \in {"aborted", "open", "closed"})

\* The entry of a peer without a socket is not kept for ever: the peer comes back,
\* or close event, sweep and clear_users remove the entry, one thread after another.
EntriesFreed ==
  \A id \in Socket :
    (id \in DOMAIN connection_data /\ SocketOf(id) = NoSocket) ~>
      (undefined \/ id \notin DOMAIN connection_data \/ SocketOf(id) # NoSocket)

-----------------------------------------------------------------------------
(* What the documents say, and the code does not do *)

\* "Closed with other peer reconnecting over you" (ARCHITECTURE.md:1024): a peer that
\* connects again takes the place of its old socket.
OneSocketPerPeer ==
  \A r, s \in Socket : Open(r) /\ Open(s) /\ r # s => sockets[r].id # sockets[s].id

=============================================================================
