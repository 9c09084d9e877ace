--------------------------- MODULE WebSocketProofs ---------------------------
(***************************************************************************)
(* Proofs about WebSocketServer, for any number of attempts, games, tokens *)
(* and callbacks: types, the pointers to sockets, the number of users, and *)
(* where ids do not come from the database, the ways by which a socket and *)
(* a token are found and what the game thread is told of sockets.          *)
(***************************************************************************)
EXTENDS WebSocketServer, FiniteSetTheorems, SequenceTheorems, TLAPS

\* The callbacks that decide an attempt
Decisions == {"upgrade", "upgrade_anon", "reject"}

Call == [do : Decisions \cup {"clear_users", "close"}, socket : Socket \cup {NoSocket},
         ids : SUBSET Socket]
EventRecord == [id : Socket, event : {"OPEN", "CLOSE", "MESSAGE"}]

\* The attempts that wait for a decision
Undecided ==
  {s \in Socket : /\ sockets[s].state \in {"authenticating", "aborted"}
                  /\ sockets[s].game_id \in GameId
                  /\ sockets[s].reconnection_token \in Token}

\* The records kept of sockets and peers
PerSocketData ==
  [state : {"new", "authenticating", "aborted", "open", "closed"},
   id : Socket, game_id : GameId \cup {<<>>}, reconnection_token : Token \cup {<<>>},
   message_count : 0..(MaxMessages + 1)]
PeerConnectionData == [game_id : GameId, reconnection_token : Token, ws : Socket \cup {NoSocket}]
ReconnectionToken == [peer_id : Socket, age : 0..(MaxReconnectionTime + 1)]

\* The part of TypeOK that the socket handlers write
ServerTypes ==
  /\ sockets \in [Socket -> PerSocketData]
  /\ DOMAIN connection_data \subseteq Socket
  /\ connection_data \in [DOMAIN connection_data -> PeerConnectionData]
  /\ reconnections \in [DOMAIN reconnections -> ReconnectionToken]
  /\ connected_users \in Int
  /\ receive_queue \in Seq(EventRecord)

TypeInv ==
  /\ ServerTypes
  /\ authentication_queue \in Seq(Socket)
  /\ deferred \in Seq(Call)
  /\ DOMAIN db_peers \subseteq Token \X GameId
  /\ db_peers \in [DOMAIN db_peers -> Socket]
  /\ DOMAIN game_peers \subseteq Socket
  /\ undefined \in BOOLEAN

\* A callback that decides an attempt
Decides(i) == i \in 1..Len(deferred) /\ deferred[i].do \in Decisions

\* What is queued, be it for the thread or for the loop, is an attempt that is not
\* decided yet, and is queued once
QueueInv ==
  /\ \A i \in 1..Len(authentication_queue) : authentication_queue[i] \in Undecided
  /\ \A i, j \in 1..Len(authentication_queue) :
       authentication_queue[i] = authentication_queue[j] => i = j
  /\ \A i \in 1..Len(deferred) :
       Decides(i) => deferred[i].socket \in Undecided
  /\ \A i, j \in 1..Len(deferred) :
       Decides(i) /\ Decides(j) /\ deferred[i].socket = deferred[j].socket => i = j
  /\ \A i \in 1..Len(authentication_queue), j \in 1..Len(deferred) :
       Decides(j) => authentication_queue[i] # deferred[j].socket

\* What an entry points to is open, and has its id and its token: this is what lets
\* on_close find the entry again
PointInv ==
  \A id \in DOMAIN connection_data :
    LET w == connection_data[id].ws IN
    w # NoSocket =>
      /\ Open(w)
      /\ sockets[w].id = id
      /\ sockets[w].reconnection_token = connection_data[id].reconnection_token

\* The sockets on which users are counted
OpenSockets == {s \in Socket : Open(s)}

\* The id of an attempt that is not decided is its own, and nobody else has it
FreshInv ==
  \A s \in Socket : sockets[s].state \in {"new", "authenticating", "aborted"} =>
    /\ sockets[s].id = s
    /\ s \notin DOMAIN connection_data
    /\ \A k \in DOMAIN reconnections : reconnections[k].peer_id # s
    /\ \A r \in Socket : sockets[r].id = s => r = s

-----------------------------------------------------------------------------
(* Helpers *)

\* Putting the sockets of W in an order loses none: on_close counts each once.
LEMMA OrderFacts ==
  ASSUME SocketAssumption, NEW W, W \subseteq Socket, NEW order \in Orders(W)
  PROVE  /\ IsFiniteSet(W)
         /\ Cardinality(W) \in Nat
         /\ order \in Seq(W)
         /\ Len(order) = Cardinality(W)
         /\ Range(order) = W
<1>1. IsFiniteSet(W)
  BY FS_Subset DEF SocketAssumption
<1>2. Cardinality(W) \in Nat
  BY <1>1, FS_CardinalityType
<1>3. order \in [1..Cardinality(W) -> W]
  BY DEF Orders, Bijection, Injection
<1>4. order \in Seq(W) /\ Len(order) = Cardinality(W)
  BY <1>2, <1>3
<1>5. \A w \in W : \E i \in 1..Cardinality(W) : order[i] = w
  BY DEF Orders, Bijection, Surjection
<1>6. Range(order) = W
  BY <1>3, <1>5 DEF Range
<1>7. QED
  BY <1>1, <1>2, <1>4, <1>6

\* What send() finds for a peer is no socket or one that is open.
LEMMA SocketsOfOpen ==
  ASSUME TypeInv, PointInv, NEW S
  PROVE  SocketsOf(S) \subseteq OpenSockets
<1>1. SUFFICES ASSUME NEW id \in S, SocketOf(id) # NoSocket PROVE SocketOf(id) \in OpenSockets
  BY DEF SocketsOf
<1>2. id \in DOMAIN connection_data
  BY <1>1 DEF SocketOf
<1>3. SocketOf(id) = connection_data[id].ws
  BY <1>2 DEF SocketOf
<1>4. Open(SocketOf(id))
  BY <1>1, <1>2, <1>3 DEF PointInv
<1>5. SocketOf(id) \in Socket
  BY <1>1, <1>2, <1>3 DEF TypeInv, ServerTypes, PeerConnectionData
<1>6. QED
  BY <1>4, <1>5 DEF OpenSockets

-----------------------------------------------------------------------------
(* Types *)

\* What the handlers write into the record of a socket.
LEMMA SocketRecord ==
  ASSUME NEW f \in [Socket -> PerSocketData], NEW s \in Socket
  PROVE  /\ \A g \in GameId, t \in Token :
              [f EXCEPT ![s].state = "authenticating", ![s].game_id = g,
                        ![s].reconnection_token = t] \in [Socket -> PerSocketData]
         /\ [f EXCEPT ![s].state = "aborted"] \in [Socket -> PerSocketData]
         /\ \A t \in Token : [f EXCEPT ![s].reconnection_token = t] \in [Socket -> PerSocketData]
         /\ \A count \in 0..(MaxMessages + 1) :
              [f EXCEPT ![s].message_count = count] \in [Socket -> PerSocketData]
         /\ \A id \in Socket :
              /\ [f EXCEPT ![s].state = "open", ![s].id = id] \in [Socket -> PerSocketData]
              /\ [f EXCEPT ![s].state = "closed", ![s].id = id] \in [Socket -> PerSocketData]
<1>1. ASSUME NEW g \in GameId, NEW t \in Token
      PROVE  [f EXCEPT ![s].state = "authenticating", ![s].game_id = g,
                       ![s].reconnection_token = t] \in [Socket -> PerSocketData]
  <2> DEFINE r == [f[s] EXCEPT !.state = "authenticating", !.game_id = g, !.reconnection_token = t]
  <2>1. r \in PerSocketData
    <3>1. \A d \in PerSocketData :
            [d EXCEPT !.state = "authenticating", !.game_id = g, !.reconnection_token = t]
              \in PerSocketData
      BY DEF PerSocketData
    <3>2. QED
      BY <3>1
  <2>2. [f EXCEPT ![s].state = "authenticating", ![s].game_id = g,
                  ![s].reconnection_token = t] = [f EXCEPT ![s] = r]
    OBVIOUS
  <2> HIDE DEF r
  <2>3. QED
    BY <2>1, <2>2
<1>2. [f EXCEPT ![s].state = "aborted"] \in [Socket -> PerSocketData]
  BY DEF PerSocketData
<1>3. ASSUME NEW t \in Token
      PROVE  [f EXCEPT ![s].reconnection_token = t] \in [Socket -> PerSocketData]
  BY DEF PerSocketData
<1>4. ASSUME NEW count \in 0..(MaxMessages + 1)
      PROVE  [f EXCEPT ![s].message_count = count] \in [Socket -> PerSocketData]
  BY DEF PerSocketData
<1>5. ASSUME NEW id \in Socket, NEW state \in {"open", "closed"}
      PROVE  [f EXCEPT ![s].state = state, ![s].id = id] \in [Socket -> PerSocketData]
  <2> DEFINE r == [f[s] EXCEPT !.state = state, !.id = id]
  <2>1. r \in PerSocketData
    <3>1. \A d \in PerSocketData : [d EXCEPT !.state = state, !.id = id] \in PerSocketData
      BY DEF PerSocketData
    <3>2. QED
      BY <3>1
  <2>2. [f EXCEPT ![s].state = state, ![s].id = id] = [f EXCEPT ![s] = r]
    OBVIOUS
  <2> HIDE DEF r
  <2>3. QED
    BY <2>1, <2>2
<1>6. QED
  BY <1>1, <1>2, <1>3, <1>4, <1>5

\* Closing sockets keeps the types of what is kept of them.
LEMMA ClosedTypes ==
  ASSUME TypeInv, SocketAssumption, NEW W, W \subseteq Socket
  PROVE  /\ Closed(W) \in [Socket -> PerSocketData]
         /\ DOMAIN Unregistered(W) = DOMAIN connection_data
         /\ Unregistered(W) \in [DOMAIN connection_data -> PeerConnectionData]
<1>1. sockets \in [Socket -> PerSocketData]
  BY DEF TypeInv, ServerTypes
<1>2. Closed(W) \in [Socket -> PerSocketData]
  BY <1>1 DEF Closed, PerSocketData
<1>3. connection_data \in [DOMAIN connection_data -> PeerConnectionData]
  BY DEF TypeInv, ServerTypes
<1>4. Unregistered(W) \in [DOMAIN connection_data -> PeerConnectionData]
  BY <1>3 DEF Unregistered, PeerConnectionData
<1>5. QED
  BY <1>2, <1>4 DEF Unregistered

\* The events and the count of what on_close does for an order of sockets.
LEMMA CloseEventTypes ==
  ASSUME TypeInv, SocketAssumption, NEW W, W \subseteq Socket, NEW order \in Orders(W)
  PROVE  /\ CloseEvents(order) \in Seq(EventRecord)
         /\ receive_queue \o CloseEvents(order) \in Seq(EventRecord)
         /\ CountAfter(order) = connected_users - Cardinality(W)
         /\ CountAfter(order) \in Int
<1>1. /\ order \in Seq(W) /\ Len(order) = Cardinality(W) /\ Cardinality(W) \in Nat
  BY OrderFacts
<1>2. \A i \in 1..Len(order) : sockets[order[i]].id \in Socket
  BY <1>1 DEF TypeInv, ServerTypes, PerSocketData
<1>3. CloseEvents(order) \in Seq(EventRecord)
  <2>1. \A i \in 1..Len(order) : Event(sockets[order[i]].id, "CLOSE") \in EventRecord
    BY <1>2 DEF Event, EventRecord
  <2>2. CloseEvents(order) \in [1..Len(order) -> EventRecord]
    BY <2>1 DEF CloseEvents
  <2>3. Len(order) \in Nat
    BY <1>1
  <2>4. QED
    BY <2>2, <2>3, SeqDef
<1>4. receive_queue \o CloseEvents(order) \in Seq(EventRecord)
  BY <1>3, ConcatProperties DEF TypeInv, ServerTypes
<1>5. CountAfter(order) = connected_users - Cardinality(W) /\ CountAfter(order) \in Int
  BY <1>1 DEF CountAfter, TypeInv, ServerTypes
<1>6. QED
  BY <1>3, <1>4, <1>5

\* on_close for sockets W keeps the types.
LEMMA ClosingTypes ==
  ASSUME TypeInv, SocketAssumption, NEW W, W \subseteq Socket,
         NEW order \in Orders(W), Closing(order),
         sockets' \in [Socket -> PerSocketData], UNCHANGED reconnections
  PROVE  ServerTypes'
<1>1. Range(order) = W
  BY OrderFacts
<1>2. connection_data' = Unregistered(W)
  BY <1>1 DEF Closing
<1>3. ServerTypes
  BY DEF TypeInv
<1>4. /\ DOMAIN connection_data' \subseteq Socket
      /\ connection_data' \in [DOMAIN connection_data' -> PeerConnectionData]
  BY <1>2, <1>3, ClosedTypes DEF ServerTypes
<1>5. connected_users' \in Int /\ receive_queue' \in Seq(EventRecord)
  BY CloseEventTypes DEF Closing
<1>6. QED
  BY <1>3, <1>4, <1>5 DEF ServerTypes

\* Entering a socket under an id keeps the types.
LEMMA RegisterTypes ==
  ASSUME TypeInv, SocketAssumption, LimitAssumption, NEW s \in Undecided,
         NEW id \in Socket, NEW W, W \subseteq Socket, Register(s, id, W)
  PROVE  ServerTypes'
<1>1. ServerTypes
  BY DEF TypeInv
<1>2. Closed(W) \in [Socket -> PerSocketData]
  BY ClosedTypes
<1>3. sockets' \in [Socket -> PerSocketData]
  BY <1>2, SocketRecord DEF Register, Undecided
<1>4. [game_id |-> sockets[s].game_id, ws |-> s,
       reconnection_token |-> sockets[s].reconnection_token] \in PeerConnectionData
  BY DEF PeerConnectionData, Undecided
<1>5. /\ DOMAIN connection_data' \subseteq Socket
      /\ connection_data' \in [DOMAIN connection_data' -> PeerConnectionData]
  BY <1>1, <1>4, ClosedTypes DEF Register, Put, ServerTypes
<1>6. [peer_id |-> id, age |-> 0] \in ReconnectionToken
  BY DEF ReconnectionToken, LimitAssumption
<1>7. reconnections' \in [DOMAIN reconnections' -> ReconnectionToken]
  BY <1>1, <1>6 DEF Register, Put, ServerTypes
<1>8. PICK order \in Orders(W) :
        /\ connected_users' = CountAfter(order) + 1
        /\ receive_queue' = receive_queue \o CloseEvents(order) \o <<Event(id, "OPEN")>>
  BY DEF Register
<1>9. connected_users' \in Int
  BY <1>8, CloseEventTypes
<1>10. <<Event(id, "OPEN")>> \in Seq(EventRecord)
  BY DEF Event, EventRecord
<1>11. receive_queue' \in Seq(EventRecord)
  BY <1>8, <1>10, CloseEventTypes, ConcatProperties
<1>12. QED
  BY <1>3, <1>5, <1>7, <1>9, <1>11 DEF ServerTypes

\* So does on_open, whatever it makes of the token.
LEMMA OpenTypes ==
  ASSUME TypeInv, SocketAssumption, LimitAssumption, NEW s \in Undecided,
         NEW id \in Socket, on_open(s, id)
  PROVE  ServerTypes'
<1> DEFINE k == Key(sockets[s].game_id, sockets[s].reconnection_token)
           old == reconnections[k].peer_id
<1>1. CASE Register(s, id, {})
  BY <1>1, RegisterTypes
<1>2. CASE RefuseOpen(s, id, k)
  <2>1. ServerTypes
    BY DEF TypeInv
  <2>2. sockets' \in [Socket -> PerSocketData]
    BY <1>2, <2>1, SocketRecord DEF RefuseOpen, ServerTypes, Undecided
  <2>3. reconnections' \in [DOMAIN reconnections' -> ReconnectionToken]
    BY <1>2, <2>1 DEF RefuseOpen, ServerTypes, Drop, Restrict
  <2>4. connected_users' \in Int
    BY <1>2, <2>1 DEF RefuseOpen, ServerTypes
  <2>5. receive_queue' \in Seq(EventRecord)
    BY <1>2, <2>1, AppendProperties DEF RefuseOpen, ServerTypes, Event, EventRecord
  <2>6. QED
    BY <1>2, <2>1, <2>2, <2>3, <2>4, <2>5 DEF RefuseOpen, ServerTypes
<1>3. CASE k \in DOMAIN reconnections /\ Register(s, old, Replaced(old))
  <2>1. old \in Socket
    BY <1>3 DEF TypeInv, ServerTypes, ReconnectionToken
  <2>2. Replaced(old) \subseteq Socket
    <3>1. SocketOf(old) \in Socket \cup {NoSocket}
      BY DEF TypeInv, ServerTypes, PeerConnectionData, SocketOf
    <3>2. QED
      BY <3>1 DEF Replaced, SocketsOf
  <2> HIDE DEF old
  <2>3. QED
    BY <1>3, <2>1, <2>2, RegisterTypes
<1>4. QED
  BY <1>1, <1>2, <1>3 DEF on_open

\* send and clear_users call through pointers of sockets only.
LEMMA SocketsOfType ==
  ASSUME TypeInv, NEW S
  PROVE  SocketsOf(S) \subseteq Socket
<1>1. \A id \in S : SocketOf(id) \in Socket \cup {NoSocket}
  BY DEF TypeInv, ServerTypes, PeerConnectionData, SocketOf
<1>2. QED
  BY <1>1 DEF SocketsOf

\* The callback that the loop runs next, and the attempt it decides.
LEMMA NextCallback ==
  ASSUME TypeInv, QueueInv, deferred # <<>>
  PROVE  /\ Head(deferred) \in Call
         /\ Head(deferred).do \in Decisions =>
              Head(deferred).socket \in Undecided
         /\ Tail(deferred) \in Seq(Call)
<1>1. deferred \in Seq(Call) /\ Len(deferred) \in Nat /\ 1 \in 1..Len(deferred)
  BY DEF TypeInv
<1>2. Head(deferred) = deferred[1] /\ Head(deferred) \in Call /\ Tail(deferred) \in Seq(Call)
  BY <1>1
<1>3. QED
  BY <1>1, <1>2 DEF QueueInv, Decides

\* The attempt that AuthenticationThread takes next, and its possible answers.
LEMMA NextAttempt ==
  ASSUME TypeInv, QueueInv, TokenAssumption, authentication_queue # <<>>,
         NEW s, s = Head(authentication_queue), NEW answer \in Answers(s)
  PROVE  /\ s \in Undecided
         /\ Tail(authentication_queue) \in Seq(Socket)
         /\ answer.token \in Token
         /\ \E do \in Decisions : answer.calls = <<Callback(do, s)>>
<1>1. /\ authentication_queue \in Seq(Socket) /\ Len(authentication_queue) \in Nat
      /\ 1 \in 1..Len(authentication_queue)
  BY DEF TypeInv
<1>2. s = authentication_queue[1] /\ s \in Socket /\ Tail(authentication_queue) \in Seq(Socket)
  BY <1>1
<1>3. s \in Undecided
  BY <1>1, <1>2 DEF QueueInv
<1>4. answer.token \in Token
  BY <1>3 DEF Answers, TokenAssumption, Undecided
<1>5. \E do \in Decisions : answer.calls = <<Callback(do, s)>>
  BY DEF Answers, Decisions
<1>6. QED
  BY <1>2, <1>3, <1>4, <1>5

Assumptions == SocketAssumption /\ TokenAssumption /\ LimitAssumption

\* Queueing an attempt, answering it and losing it.
LEMMA AttemptTypes ==
  ASSUME TypeInv, QueueInv, Assumptions,
         \/ \E s \in Socket : on_upgrade(s) \/ on_aborted(s)
         \/ AuthenticationThread_run
  PROVE  TypeInv'
<1> USE DEF TypeInv, Assumptions
<1>1. ASSUME NEW s \in Socket, on_upgrade(s) PROVE TypeInv'
  <2>1. sockets' \in [Socket -> PerSocketData]
    <3>1. CASE sockets' = Closed({s})
      BY <3>1, ClosedTypes
    <3>2. ASSUME NEW g \in GameId, NEW t \in Token,
                 sockets' = [sockets EXCEPT ![s].state = "authenticating", ![s].game_id = g,
                                            ![s].reconnection_token = t]
          PROVE  sockets' \in [Socket -> PerSocketData]
      BY <3>2, SocketRecord DEF ServerTypes
    <3>3. QED
      BY <1>1, <3>1, <3>2 DEF on_upgrade
  <2>2. authentication_queue' \in Seq(Socket)
    <3>1. \/ authentication_queue' = Append(authentication_queue, s)
          \/ authentication_queue' = authentication_queue
      BY <1>1 DEF on_upgrade
    <3>2. authentication_queue \in Seq(Socket)
      OBVIOUS
    <3>3. Append(authentication_queue, s) \in Seq(Socket)
      BY <3>2
    <3>4. QED
      BY <3>1, <3>2, <3>3
  <2>3. QED
    BY <1>1, <2>1, <2>2 DEF on_upgrade, ServerTypes, server, game
<1>2. ASSUME NEW s \in Socket, on_aborted(s) PROVE TypeInv'
  <2>1. sockets' \in [Socket -> PerSocketData]
    <3>1. sockets' = [sockets EXCEPT ![s].state = "aborted"] \/ sockets' = sockets
      BY <1>2 DEF on_aborted
    <3>2. sockets \in [Socket -> PerSocketData]
      BY DEF ServerTypes
    <3>3. [sockets EXCEPT ![s].state = "aborted"] \in [Socket -> PerSocketData]
      BY <3>2, SocketRecord
    <3>4. QED
      BY <3>1, <3>2, <3>3
  <2>2. undefined' \in BOOLEAN
    BY <1>2 DEF on_aborted
  <2>3. QED
    BY <1>2, <2>1, <2>2 DEF on_aborted, ServerTypes, server, game
<1>3. CASE AuthenticationThread_run
  <2> DEFINE s == Head(authentication_queue)
  <2>1. PICK answer \in Answers(s) :
          /\ sockets' = [sockets EXCEPT ![s].reconnection_token = answer.token]
          /\ deferred' = deferred \o answer.calls
    BY <1>3 DEF AuthenticationThread_run
  <2>2. authentication_queue # <<>> /\ authentication_queue' = Tail(authentication_queue)
    BY <1>3 DEF AuthenticationThread_run
  <2>3. /\ s \in Socket
        /\ Tail(authentication_queue) \in Seq(Socket)
        /\ answer.token \in Token
        /\ \E do \in Decisions : answer.calls = <<Callback(do, s)>>
    BY <2>2, NextAttempt DEF Undecided
  <2> HIDE DEF s
  <2>4. sockets' \in [Socket -> PerSocketData]
    BY <2>1, <2>3, SocketRecord DEF ServerTypes
  <2>5. answer.calls \in Seq(Call)
    BY <2>3 DEF Callback, Call
  <2>6. deferred' \in Seq(Call)
    BY <2>1, <2>5, ConcatProperties
  <2>7. QED
    BY <1>3, <2>2, <2>3, <2>4, <2>6 DEF AuthenticationThread_run, ServerTypes, server, game
<1>4. QED
  BY <1>1, <1>2, <1>3

\* Messages, and the ends of sockets.
LEMMA SocketTypes ==
  ASSUME TypeInv, Assumptions, NEW s \in Socket, on_message(s) \/ on_close(s)
  PROVE  TypeInv'
<1> USE DEF TypeInv, Assumptions
<1>1. ServerTypes /\ sockets[s].id \in Socket
  BY DEF ServerTypes, PerSocketData
<1>2. CASE on_message(s)
  <2>1. PICK count \in {1, OneMore(sockets[s].message_count)} :
          \/ /\ sockets' = [sockets EXCEPT ![s].message_count = count]
             /\ receive_queue' = Append(receive_queue, Event(sockets[s].id, "MESSAGE"))
             /\ UNCHANGED <<connection_data, connected_users>>
          \/ LET W == SocketsOf({sockets[s].id}) IN
             /\ sockets' = [Closed(W) EXCEPT ![s].message_count = count]
             /\ \E order \in Orders(W) : Closing(order)
    BY <1>2 DEF on_message
  <2>2. count \in 0..(MaxMessages + 1)
    BY <1>1 DEF OneMore, OverLimit, ServerTypes, PerSocketData, LimitAssumption
  <2> DEFINE W == SocketsOf({sockets[s].id})
  <2>3. ServerTypes'
    <3>1. CASE /\ sockets' = [sockets EXCEPT ![s].message_count = count]
               /\ receive_queue' = Append(receive_queue, Event(sockets[s].id, "MESSAGE"))
               /\ UNCHANGED <<connection_data, connected_users>>
      <4>1. sockets' \in [Socket -> PerSocketData]
        BY <1>1, <2>2, <3>1, SocketRecord DEF ServerTypes
      <4>2. receive_queue' \in Seq(EventRecord)
        BY <1>1, <3>1, AppendProperties DEF ServerTypes, Event, EventRecord
      <4>3. QED
        BY <1>1, <1>2, <3>1, <4>1, <4>2 DEF ServerTypes, on_message
    <3>2. ASSUME NEW order \in Orders(W), Closing(order),
                 sockets' = [Closed(W) EXCEPT ![s].message_count = count]
          PROVE  ServerTypes'
      <4>1. W \subseteq Socket
        BY SocketsOfType
      <4> HIDE DEF W
      <4>2. sockets' \in [Socket -> PerSocketData]
        BY <2>2, <3>2, <4>1, ClosedTypes, SocketRecord
      <4>3. QED
        BY <1>2, <3>2, <4>1, <4>2, ClosingTypes DEF on_message
    <3>3. QED
      BY <2>1, <3>1, <3>2
  <2>4. QED
    BY <1>2, <2>3 DEF on_message
<1>3. CASE on_close(s)
  <2>1. <<s>> \in Orders({s})
    <3>1. Cardinality({s}) = 1
      BY FS_Singleton
    <3>2. QED
      <4>1. <<s>> \in [1..1 -> {s}]
        OBVIOUS
      <4>2. \A a, b \in DOMAIN <<s>> : <<s>>[a] = <<s>>[b] => a = b
        OBVIOUS
      <4>3. \A t \in {s} : \E a \in 1..1 : <<s>>[a] = t
        OBVIOUS
      <4>4. QED
        BY <3>1, <4>1, <4>2, <4>3 DEF Orders, Bijection, Injection, Surjection, IsInjective
  <2>2. sockets' \in [Socket -> PerSocketData]
    BY <1>3, ClosedTypes DEF on_close
  <2>3. ServerTypes'
    BY <1>3, <2>1, <2>2, ClosingTypes DEF on_close
  <2>4. QED
    BY <1>3, <2>3 DEF on_close
<1>4. QED
  BY <1>2, <1>3


\* The callbacks that the loop runs.
LEMMA CallbackTypes ==
  ASSUME TypeInv, QueueInv, Assumptions, run_deferred
  PROVE  TypeInv'
<1> DEFINE call == Head(deferred)
           s == call.socket
<1>1. /\ call \in Call /\ Tail(deferred) \in Seq(Call)
      /\ call.do \in Decisions => s \in Undecided
  BY NextCallback DEF run_deferred
<1>2. /\ deferred' = Tail(deferred)
      /\ UNCHANGED <<authentication_queue, game_peers, undefined>>
  BY DEF run_deferred
<1>3. \/ /\ call.do \in Decisions
         /\ sockets' = Closed({s})
         /\ UNCHANGED <<server, receive_queue, db_peers>>
      \/ /\ call.do \in Decisions
         /\ upgrade_anon(s)
      \/ /\ call.do \in Decisions
         /\ on_open(s, sockets[s].id)
         /\ UNCHANGED db_peers
      \/ /\ clear_users(call.ids)
         /\ UNCHANGED db_peers
      \/ /\ sockets' = Closed(SocketsOf(call.ids))
         /\ \E order \in Orders(SocketsOf(call.ids)) : Closing(order)
         /\ UNCHANGED <<reconnections, db_peers>>
  BY DEF run_deferred, Decisions
<1> DEFINE S == call.ids
<1> HIDE DEF s, S
<1>4. ServerTypes
  BY DEF TypeInv
<1>5. /\ DOMAIN db_peers \subseteq Token \X GameId
      /\ db_peers \in [DOMAIN db_peers -> Socket]
  BY DEF TypeInv
<1> DEFINE TableTypes == /\ DOMAIN db_peers \subseteq Token \X GameId
                         /\ db_peers \in [DOMAIN db_peers -> Socket]
<1>6. SUFFICES ServerTypes' /\ TableTypes'
  BY <1>1, <1>2 DEF TypeInv
<1>7. SocketsOf(S) \subseteq Socket
  BY SocketsOfType
<1>8. CASE /\ call.do \in Decisions
           /\ sockets' = Closed({s})
           /\ UNCHANGED <<server, receive_queue, db_peers>>
  <2>1. sockets' \in [Socket -> PerSocketData]
    BY <1>1, <1>8, ClosedTypes DEF Assumptions, Undecided
  <2>2. QED
    BY <1>4, <1>5, <1>8, <2>1 DEF ServerTypes, server
<1>9. CASE call.do \in Decisions /\ upgrade_anon(s)
  <2> DEFINE k == <<sockets[s].reconnection_token, sockets[s].game_id>>
             id == get_peer_or_insert(k, sockets[s].id)
  <2>1. s \in Undecided /\ k \in Token \X GameId /\ sockets[s].id \in Socket
    BY <1>1, <1>4, <1>9 DEF Undecided, ServerTypes, PerSocketData
  <2>2. id \in Socket
    BY <1>5, <2>1 DEF get_peer_or_insert
  <2> HIDE DEF k, id
  <2>3. \/ db_peers' = Put(db_peers, k, id) /\ on_open(s, id)
        \/ db_peers' = db_peers /\ on_open(s, sockets[s].id)
    BY <1>9 DEF upgrade_anon, k, id
  <2>4. ServerTypes'
    BY <2>1, <2>2, <2>3, OpenTypes DEF Assumptions
  <2>5. CASE db_peers' = Put(db_peers, k, id)
    BY <1>5, <2>1, <2>2, <2>4, <2>5 DEF Put
  <2>6. CASE db_peers' = db_peers
    BY <1>5, <2>4, <2>6
  <2>7. QED
    BY <2>3, <2>5, <2>6
<1>10. CASE /\ call.do \in Decisions
            /\ on_open(s, sockets[s].id)
            /\ UNCHANGED db_peers
  <2>1. s \in Undecided /\ sockets[s].id \in Socket
    BY <1>1, <1>4, <1>10 DEF ServerTypes, PerSocketData, Undecided
  <2>2. ServerTypes'
    BY <1>10, <2>1, OpenTypes DEF Assumptions
  <2>3. QED
    BY <1>5, <1>10, <2>2
<1>11. CASE clear_users(S) /\ UNCHANGED db_peers
  <2>1. sockets' \in [Socket -> PerSocketData]
    BY <1>7, <1>11, ClosedTypes DEF clear_users, Assumptions
  <2>2. PICK order \in Orders(SocketsOf(S)) :
          /\ connected_users' = CountAfter(order)
          /\ receive_queue' = receive_queue \o CloseEvents(order)
    BY <1>11 DEF clear_users
  <2>3. connected_users' \in Int /\ receive_queue' \in Seq(EventRecord)
    BY <1>7, <2>2, CloseEventTypes DEF Assumptions
  <2>4. reconnections' \in [DOMAIN reconnections' -> ReconnectionToken]
    BY <1>4, <1>11 DEF clear_users, Forgotten, Drop, Restrict, ServerTypes
  <2>5. /\ DOMAIN connection_data' \subseteq Socket
        /\ connection_data' \in [DOMAIN connection_data' -> PeerConnectionData]
    BY <1>4, <1>11 DEF clear_users, Drop, Restrict, ServerTypes
  <2>6. QED
    BY <1>5, <1>11, <2>1, <2>3, <2>4, <2>5 DEF ServerTypes
<1>12. CASE /\ sockets' = Closed(SocketsOf(S))
            /\ \E order \in Orders(SocketsOf(S)) : Closing(order)
            /\ UNCHANGED <<reconnections, db_peers>>
  <2>1. sockets' \in [Socket -> PerSocketData]
    BY <1>7, <1>12, ClosedTypes DEF Assumptions
  <2>2. ServerTypes'
    BY <1>7, <1>12, <2>1, ClosingTypes DEF Assumptions
  <2>3. QED
    BY <1>5, <1>12, <2>2
<1>13. QED
  BY <1>3, <1>8, <1>9, <1>10, <1>11, <1>12 DEF S

\* Events, sweeps and the passing of time.
LEMMA GameTypes ==
  ASSUME TypeInv, Assumptions,
         \/ handle_events
         \/ \E to_erase \in SUBSET Disconnected : handle_disconnects(to_erase)
         \/ time_passes
  PROVE  TypeInv'
<1>1. /\ ServerTypes /\ DOMAIN game_peers \subseteq Socket /\ deferred \in Seq(Call)
      /\ receive_queue \in Seq(EventRecord)
  BY DEF TypeInv, ServerTypes
<1>2. CASE handle_events
  <2> DEFINE e == Head(receive_queue)
  <2>1. /\ receive_queue # <<>>
        /\ receive_queue' = Tail(receive_queue)
        /\ UNCHANGED <<sockets, server, authentication_queue, db_peers, undefined>>
    BY <1>2 DEF handle_events
  <2>2. e.id \in Socket /\ receive_queue' \in Seq(EventRecord)
    <3>1. e \in EventRecord /\ Tail(receive_queue) \in Seq(EventRecord)
      BY <1>1, <2>1
    <3>2. QED
      BY <2>1, <3>1 DEF EventRecord
  <2>3. \/ game_peers' = Put(game_peers, e.id, "connected") /\ UNCHANGED deferred
        \/ /\ game_peers' = [id \in DOMAIN game_peers |->
                              IF id = e.id THEN "disconnected" ELSE game_peers[id]]
           /\ UNCHANGED deferred
        \/ UNCHANGED <<game_peers, deferred>>
        \/ deferred' = Append(deferred, SendClose(e.id)) /\ UNCHANGED game_peers
    BY <1>2 DEF handle_events
  <2> HIDE DEF e
  <2>4. DOMAIN game_peers' \subseteq Socket
    BY <1>1, <2>2, <2>3 DEF Put
  <2>5. deferred' \in Seq(Call)
    <3>1. SendClose(e.id) \in Call
      BY <2>2 DEF SendClose, Call
    <3>2. Append(deferred, SendClose(e.id)) \in Seq(Call)
      BY <1>1, <3>1
    <3>3. QED
      BY <1>1, <2>3, <3>2
  <2>6. QED
    BY <2>1, <2>2, <2>4, <2>5 DEF TypeInv, ServerTypes, server
<1>3. ASSUME NEW to_erase \in SUBSET Disconnected, handle_disconnects(to_erase)
      PROVE  TypeInv'
  <2>1. to_erase \subseteq Socket
    BY <1>1 DEF Disconnected
  <2>2. ClearUsers(to_erase) \in Call
    BY <2>1 DEF ClearUsers, Call
  <2>3. deferred' \in Seq(Call)
    BY <1>1, <1>3, <2>2 DEF handle_disconnects
  <2>4. DOMAIN game_peers' \subseteq Socket
    BY <1>1, <1>3 DEF handle_disconnects, Drop, Restrict
  <2>5. QED
    BY <1>3, <2>3, <2>4 DEF handle_disconnects, TypeInv, ServerTypes, server
<1>4. CASE time_passes
  <2>1. \A age \in 0..(MaxReconnectionTime + 1) : Later(age) \in 0..(MaxReconnectionTime + 1)
    BY DEF Later, Assumptions, LimitAssumption
  <2>2. reconnections' \in [DOMAIN reconnections' -> ReconnectionToken]
    BY <1>1, <1>4, <2>1 DEF time_passes, ServerTypes, ReconnectionToken
  <2>3. QED
    BY <1>4, <2>2 DEF time_passes, TypeInv, ServerTypes, game
<1>5. QED
  BY <1>2, <1>3, <1>4

\* Every step keeps the types.
LEMMA TypeStep ==
  ASSUME TypeInv, QueueInv, Assumptions, [Next]_vars
  PROVE  TypeInv'
<1>1. CASE UNCHANGED vars
  BY <1>1 DEF vars, server, game, TypeInv, ServerTypes
<1>2. CASE verify_jwt
  BY <1>2 DEF verify_jwt, server, game, TypeInv, ServerTypes
<1>3. CASE Next
  BY <1>2, <1>3, AttemptTypes, SocketTypes, CallbackTypes, GameTypes DEF Next, Handler
<1>4. QED
  BY <1>1, <1>3

-----------------------------------------------------------------------------
(* Queues *)

\* Attempts that are queued stay so while nothing decides them.
LEMMA SameQueues ==
  ASSUME TypeInv, QueueInv, UNCHANGED <<authentication_queue, deferred>>,
         Undecided \subseteq Undecided'
  PROVE  QueueInv'
<1>1. \A i \in 1..Len(authentication_queue) : authentication_queue[i] \in Socket
  BY DEF TypeInv
<1>2. QED
  BY <1>1 DEF QueueInv, Decides

\* Closing open sockets touches no attempt that is not decided.
LEMMA ClosedOpen ==
  ASSUME TypeInv, NEW W, W \subseteq OpenSockets, NEW r \in Undecided
  PROVE  r \notin W /\ Closed(W)[r] = sockets[r]
BY DEF OpenSockets, Open, Undecided, Closed

\* Callbacks of the game thread decide nothing.
LEMMA MoreCallbacks ==
  ASSUME TypeInv, QueueInv, NEW c \in Call, c.do \notin Decisions,
         deferred' = Append(deferred, c), UNCHANGED <<authentication_queue, sockets>>
  PROVE  QueueInv'
<1>1. deferred \in Seq(Call) /\ Len(deferred) \in Nat
  BY DEF TypeInv
<1>2. /\ Len(deferred') = Len(deferred) + 1
      /\ \A i \in 1..Len(deferred) : deferred'[i] = deferred[i]
      /\ deferred'[Len(deferred) + 1] = c
  BY <1>1
<1>3. ASSUME NEW i \in 1..Len(deferred'), Decides(i)'
      PROVE  i \in 1..Len(deferred) /\ Decides(i) /\ deferred'[i] = deferred[i]
  BY <1>1, <1>2, <1>3 DEF Decides
<1>4. Undecided' = Undecided
  BY DEF Undecided
<1> HIDE DEF Decides, Undecided
<1>5. \A i \in 1..Len(authentication_queue)' : authentication_queue'[i] \in Undecided'
  BY <1>4 DEF QueueInv
<1>6. QED
  BY <1>3, <1>4, <1>5 DEF QueueInv

\* An attempt is made: it is queued once.
LEMMA UpgradeQueues ==
  ASSUME TypeInv, QueueInv, NEW s \in Socket, on_upgrade(s)
  PROVE  QueueInv'
<1>1. authentication_queue \in Seq(Socket) /\ Len(authentication_queue) \in Nat
  BY DEF TypeInv
<1>2. sockets[s].state = "new" /\ s \notin Undecided
  BY DEF on_upgrade, Undecided
<1>3. \A i \in 1..Len(authentication_queue) : authentication_queue[i] # s
  BY <1>2 DEF QueueInv
<1>4. \A i \in 1..Len(deferred) : Decides(i) => deferred[i].socket # s
  BY <1>2 DEF QueueInv
<1>5. \A r \in Socket : r # s => sockets'[r] = sockets[r]
  <2>1. CASE sockets' = Closed({s})
    BY <2>1 DEF Closed, TypeInv, ServerTypes
  <2>2. ASSUME NEW g \in GameId, NEW t \in Token,
               sockets' = [sockets EXCEPT ![s].state = "authenticating", ![s].game_id = g,
                                          ![s].reconnection_token = t]
        PROVE  \A r \in Socket : r # s => sockets'[r] = sockets[r]
    BY <2>2 DEF TypeInv, ServerTypes
  <2>3. QED
    BY <2>1, <2>2 DEF on_upgrade
<1>6. Undecided \subseteq Undecided'
  BY <1>2, <1>5 DEF Undecided
<1>7. UNCHANGED deferred
  BY DEF on_upgrade
<1>8. CASE UNCHANGED authentication_queue
  BY <1>6, <1>7, <1>8, SameQueues
<1>9. ASSUME NEW g \in GameId, NEW t \in Token,
             sockets' = [sockets EXCEPT ![s].state = "authenticating", ![s].game_id = g,
                                        ![s].reconnection_token = t],
             authentication_queue' = Append(authentication_queue, s)
      PROVE  QueueInv'
  <2>1. s \in Undecided'
    BY <1>9 DEF Undecided, TypeInv, ServerTypes, PerSocketData
  <2> DEFINE n == Len(authentication_queue)
  <2>2. /\ Len(authentication_queue') = n + 1
        /\ \A i \in 1..n : authentication_queue'[i] = authentication_queue[i]
        /\ authentication_queue'[n + 1] = s
    BY <1>1, <1>9
  <2>3. \A i \in 1..n : authentication_queue[i] \in Socket
    BY <1>1
  <2>4. \A i \in 1..(n + 1) : i = n + 1 \/ i \in 1..n
    BY <1>1
  <2> HIDE DEF n
  <2>5. \A i \in 1..Len(authentication_queue') : authentication_queue'[i] \in Undecided'
    BY <1>6, <2>1, <2>2, <2>3, <2>4 DEF QueueInv, n
  <2>6. \A i, j \in 1..Len(authentication_queue') :
          authentication_queue'[i] = authentication_queue'[j] => i = j
    BY <1>3, <2>2, <2>4 DEF QueueInv, n
  <2>7. \A i : Decides(i)' <=> Decides(i)
    BY <1>7 DEF Decides
  <2>8. \A i \in 1..Len(deferred') :
          Decides(i)' => deferred'[i].socket \in Undecided'
    BY <1>6, <1>7, <2>7 DEF QueueInv
  <2>9. \A i, j \in 1..Len(deferred') :
          Decides(i)' /\ Decides(j)' /\ deferred'[i].socket = deferred'[j].socket => i = j
    BY <1>7, <2>7 DEF QueueInv
  <2>10. \A i \in 1..Len(authentication_queue'), j \in 1..Len(deferred') :
           Decides(j)' => authentication_queue'[i] # deferred'[j].socket
    BY <1>4, <1>7, <2>2, <2>4, <2>7 DEF QueueInv, n
  <2>11. QED
    BY <2>5, <2>6, <2>8, <2>9, <2>10 DEF QueueInv
<1>10. QED
  BY <1>8, <1>9 DEF on_upgrade

\* An attempt is answered: it moves from one queue to the other.
LEMMA AnswerQueues ==
  ASSUME TypeInv, QueueInv, TokenAssumption, AuthenticationThread_run
  PROVE  QueueInv'
<1> DEFINE s == Head(authentication_queue)
           m == Len(authentication_queue)
           n == Len(deferred)
<1>1. /\ authentication_queue # <<>>
      /\ authentication_queue' = Tail(authentication_queue)
  BY DEF AuthenticationThread_run
<1>2. PICK answer \in Answers(s) :
        /\ sockets' = [sockets EXCEPT ![s].reconnection_token = answer.token]
        /\ deferred' = deferred \o answer.calls
  BY DEF AuthenticationThread_run
<1>3. s \in Undecided /\ answer.token \in Token
  BY <1>1, NextAttempt
<1>4. PICK do \in Decisions : answer.calls = <<Callback(do, s)>>
  BY <1>1, NextAttempt
<1>5. /\ authentication_queue \in Seq(Socket) /\ m \in Nat \ {0}
      /\ deferred \in Seq(Call) /\ n \in Nat
  BY <1>1 DEF TypeInv
<1>6. /\ s = authentication_queue[1]
      /\ Len(authentication_queue') = m - 1
      /\ \A i \in 1..(m - 1) : authentication_queue'[i] = authentication_queue[i + 1]
  BY <1>1, <1>5
<1>7. Callback(do, s) \in Call /\ Callback(do, s).do \in Decisions /\ Callback(do, s).socket = s
  BY <1>3 DEF Callback, Call, Undecided
<1>8. /\ Len(deferred') = n + 1
      /\ \A i \in 1..n : deferred'[i] = deferred[i]
      /\ deferred'[n + 1] = Callback(do, s)
  BY <1>2, <1>4, <1>5, <1>7
<1>9. Undecided \subseteq Undecided'
  BY <1>2, <1>3 DEF Undecided, TypeInv, ServerTypes, PerSocketData
<1>10. \A i \in 1..m : authentication_queue[i] \in Undecided
  BY <1>5 DEF QueueInv
<1>11. \A i, j \in 1..m : authentication_queue[i] = authentication_queue[j] => i = j
  BY DEF QueueInv
<1>12. 1 \in 1..m /\ \A i \in 1..(m - 1) : i + 1 \in 1..m /\ i + 1 # 1
  BY <1>5
<1>13. \A i \in 1..n : Decides(i) => deferred[i].socket # s
  BY <1>6, <1>12 DEF QueueInv
<1>14. \A i \in 1..(n + 1) : i = n + 1 \/ i \in 1..n
  BY <1>5
<1>15. \A i \in 1..n : Decides(i)' <=> Decides(i)
  BY <1>5, <1>8 DEF Decides
<1> HIDE DEF s, m, n
<1>16. \A i \in 1..(m - 1) : authentication_queue'[i] \in Undecided' /\ authentication_queue'[i] # s
  BY <1>6, <1>9, <1>10, <1>11, <1>12
<1>17. \A i, j \in 1..(m - 1) : authentication_queue'[i] = authentication_queue'[j] => i = j
  <2>1. \A i, j \in 1..(m - 1) : i + 1 = j + 1 => i = j
    BY <1>5
  <2>2. QED
    BY <1>6, <1>11, <1>12, <2>1
<1>18. \A i \in 1..(n + 1) :
         Decides(i)' => deferred'[i].socket \in Undecided'
  BY <1>3, <1>7, <1>8, <1>9, <1>14, <1>15 DEF QueueInv, n
<1>19. \A i, j \in 1..(n + 1) :
         Decides(i)' /\ Decides(j)' /\ deferred'[i].socket = deferred'[j].socket => i = j
  BY <1>7, <1>8, <1>13, <1>14, <1>15 DEF QueueInv, n
<1>20. \A i \in 1..(m - 1), j \in 1..(n + 1) :
         Decides(j)' => authentication_queue'[i] # deferred'[j].socket
  BY <1>6, <1>7, <1>8, <1>12, <1>14, <1>15, <1>16 DEF QueueInv, n, m
<1>21. QED
  BY <1>6, <1>8, <1>16, <1>17, <1>18, <1>19, <1>20 DEF QueueInv

\* A callback runs: the attempt it decides is in no queue any more.
LEMMA CallbackQueues ==
  ASSUME TypeInv, QueueInv, deferred # <<>>, deferred' = Tail(deferred),
         UNCHANGED authentication_queue,
         \A r \in Undecided :
           (Head(deferred).do \in Decisions => r # Head(deferred).socket) => r \in Undecided'
  PROVE  QueueInv'
<1> DEFINE n == Len(deferred)
<1>1. /\ deferred \in Seq(Call) /\ n \in Nat \ {0}
      /\ authentication_queue \in Seq(Socket)
  BY DEF TypeInv
<1>2. /\ Head(deferred) = deferred[1]
      /\ Len(deferred') = n - 1
      /\ \A i \in 1..(n - 1) : deferred'[i] = deferred[i + 1]
  BY <1>1
<1>3. 1 \in 1..n /\ \A i \in 1..(n - 1) : i + 1 \in 1..n /\ i + 1 # 1
  BY <1>1
<1>4. \A i \in 1..(n - 1) : Decides(i)' <=> Decides(i + 1)
  BY <1>1, <1>2, <1>3 DEF Decides
<1>5. Head(deferred).do \in Decisions => Decides(1)
  BY <1>2, <1>3 DEF Decides
<1>6. \A i \in 1..Len(authentication_queue) : authentication_queue[i] \in Socket
  BY <1>1
<1> HIDE DEF n
<1>7. \A i \in 1..Len(authentication_queue) : authentication_queue'[i] \in Undecided'
  BY <1>2, <1>3, <1>5, <1>6 DEF QueueInv, n
<1>8. \A i \in 1..(n - 1) :
        Decides(i)' => deferred'[i].socket \in Undecided'
  BY <1>2, <1>3, <1>4, <1>5 DEF QueueInv, n
<1>9. \A i, j \in 1..(n - 1) :
        Decides(i)' /\ Decides(j)' /\ deferred'[i].socket = deferred'[j].socket => i = j
  <2>1. \A i, j \in 1..(n - 1) : i + 1 = j + 1 => i = j
    BY <1>1
  <2>2. QED
    BY <1>2, <1>3, <1>4, <2>1 DEF QueueInv, n
<1>10. \A i \in 1..Len(authentication_queue), j \in 1..(n - 1) :
         Decides(j)' => authentication_queue[i] # deferred'[j].socket
  BY <1>2, <1>3, <1>4 DEF QueueInv, n
<1>11. QED
  BY <1>2, <1>7, <1>8, <1>9, <1>10 DEF QueueInv


\* on_open changes the sockets it closes and the one it opens, and no attempt besides.
LEMMA OpenWaiting ==
  ASSUME TypeInv, PointInv, NEW s \in Undecided, NEW id, on_open(s, id),
         NEW r \in Undecided, r # s
  PROVE  sockets'[r] = sockets[r]
<1> DEFINE k == Key(sockets[s].game_id, sockets[s].reconnection_token)
           old == reconnections[k].peer_id
<1>1. sockets \in [Socket -> PerSocketData] /\ s \in Socket /\ r \in Socket
  BY DEF TypeInv, ServerTypes, Undecided
<1>2. ASSUME NEW W, W \subseteq OpenSockets, NEW i,
             sockets' = [Closed(W) EXCEPT ![s].state = "open", ![s].id = i]
      PROVE  sockets'[r] = sockets[r]
  BY <1>1, <1>2, ClosedOpen DEF Closed
<1>3. Replaced(old) \subseteq OpenSockets
  BY SocketsOfOpen DEF Replaced
<1> HIDE DEF k, old
<1>4. CASE Register(s, id, {})
  BY <1>2, <1>4 DEF Register
<1>5. CASE Register(s, old, Replaced(old))
  BY <1>2, <1>3, <1>5 DEF Register
<1>6. CASE RefuseOpen(s, id, k)
  BY <1>1, <1>6 DEF RefuseOpen
<1>7. QED
  BY <1>4, <1>5, <1>6 DEF on_open, k, old

\* Every step keeps the queues.
LEMMA QueueStep ==
  ASSUME TypeInv, QueueInv, PointInv, Assumptions, [Next]_vars
  PROVE  QueueInv'
<1>0. sockets \in [Socket -> PerSocketData]
  BY DEF TypeInv, ServerTypes
<1>1. ASSUME UNCHANGED <<sockets, authentication_queue, deferred>> PROVE QueueInv'
  BY <1>1, SameQueues DEF Undecided
<1>2. ASSUME NEW W, W \subseteq OpenSockets, NEW r \in Undecided, sockets'[r] = Closed(W)[r]
      PROVE  r \in Undecided'
  BY <1>2, ClosedOpen DEF Undecided
<1>3. ASSUME NEW s \in Socket, on_upgrade(s) PROVE QueueInv'
  BY <1>3, UpgradeQueues
<1>4. ASSUME NEW s \in Socket, on_aborted(s) PROVE QueueInv'
  <2>1. sockets' = [sockets EXCEPT ![s].state = "aborted"] \/ sockets' = sockets
    BY <1>4 DEF on_aborted
  <2>2. Undecided \subseteq Undecided'
    <3>1. CASE sockets' = [sockets EXCEPT ![s].state = "aborted"]
      BY <1>0, <3>1 DEF Undecided, PerSocketData
    <3>2. CASE sockets' = sockets
      BY <3>2 DEF Undecided
    <3>3. QED
      BY <2>1, <3>1, <3>2
  <2>3. QED
    BY <1>4, <2>2, SameQueues DEF on_aborted
<1>5. ASSUME NEW s \in Socket, on_message(s) PROVE QueueInv'
  <2> DEFINE W == SocketsOf({sockets[s].id})
  <2>1. PICK count :
          \/ sockets' = [sockets EXCEPT ![s].message_count = count]
          \/ sockets' = [Closed(W) EXCEPT ![s].message_count = count]
    BY <1>5 DEF on_message
  <2>2. W \subseteq OpenSockets
    BY SocketsOfOpen
  <2> HIDE DEF W
  <2>3. \A r \in Undecided : r \in Socket /\ r # s
    BY <1>5 DEF on_message, Open, Undecided
  <2>4. ASSUME NEW r \in Undecided PROVE r \in Undecided'
    <3>1. CASE sockets' = [sockets EXCEPT ![s].message_count = count]
      BY <1>0, <2>3, <3>1 DEF Undecided
    <3>2. CASE sockets' = [Closed(W) EXCEPT ![s].message_count = count]
      <4>1. sockets'[r] = Closed(W)[r]
        BY <2>3, <3>2 DEF Closed
      <4>2. QED
        BY <1>2, <2>2, <4>1
    <3>3. QED
      BY <2>1, <3>1, <3>2
  <2>5. QED
    BY <1>5, <2>4, SameQueues DEF on_message
<1>6. ASSUME NEW s \in Socket, on_close(s) PROVE QueueInv'
  <2>1. {s} \subseteq OpenSockets /\ sockets' = Closed({s})
    BY <1>6 DEF on_close, OpenSockets
  <2>2. Undecided \subseteq Undecided'
    BY <1>2, <2>1
  <2>3. QED
    BY <1>6, <2>2, SameQueues DEF on_close
<1>7. CASE AuthenticationThread_run
  BY <1>7, AnswerQueues DEF Assumptions
<1>8. CASE run_deferred
  <2> DEFINE call == Head(deferred)
             s == call.socket
  <2>1. /\ deferred # <<>> /\ deferred' = Tail(deferred)
        /\ UNCHANGED authentication_queue
    BY <1>8 DEF run_deferred
  <2>2. call.do \in Decisions => s \in Undecided
    BY <2>1, NextCallback
  <2>3. SocketsOf(call.ids) \subseteq OpenSockets
    BY SocketsOfOpen
  <2>4. \/ call.do \in Decisions /\ sockets' = Closed({s})
        \/ call.do \in Decisions /\ \E id : on_open(s, id)
        \/ sockets' = Closed(SocketsOf(call.ids))
    BY <1>8 DEF run_deferred, Decisions, upgrade_anon, clear_users
  <2>5. ASSUME NEW r \in Undecided, call.do \in Decisions => r # s PROVE r \in Undecided'
    <3>1. CASE call.do \in Decisions /\ sockets' = Closed({s})
      BY <2>5, <3>1 DEF Closed, Undecided
    <3>2. CASE call.do \in Decisions /\ \E id : on_open(s, id)
      <4>1. sockets'[r] = sockets[r]
        BY <2>2, <2>5, <3>2, OpenWaiting
      <4>2. QED
        BY <4>1 DEF Undecided
    <3>3. CASE sockets' = Closed(SocketsOf(call.ids))
      BY <1>2, <2>3, <3>3
    <3>4. QED
      BY <2>4, <3>1, <3>2, <3>3
  <2>6. QED
    BY <2>1, <2>5, CallbackQueues
<1>9. CASE handle_events
  <2> DEFINE e == Head(receive_queue)
  <2>1. CASE UNCHANGED deferred
    BY <1>1, <1>9, <2>1 DEF handle_events
  <2>2. CASE deferred' = Append(deferred, SendClose(e.id))
    <3>1. receive_queue \in Seq(EventRecord) /\ receive_queue # <<>>
      BY <1>9 DEF handle_events, TypeInv, ServerTypes
    <3>2. e \in EventRecord
      BY <3>1
    <3>3. SendClose(e.id) \in Call /\ SendClose(e.id).do \notin Decisions
      BY <3>2 DEF SendClose, Call, EventRecord, Decisions
    <3>4. QED
      BY <1>9, <2>2, <3>3, MoreCallbacks DEF handle_events
  <2>3. QED
    BY <1>9, <2>1, <2>2 DEF handle_events
<1>10. ASSUME NEW to_erase \in SUBSET Disconnected, handle_disconnects(to_erase)
       PROVE  QueueInv'
  <2>1. ClearUsers(to_erase) \in Call /\ ClearUsers(to_erase).do \notin Decisions
    BY DEF ClearUsers, Call, Disconnected, TypeInv, Decisions
  <2>2. QED
    BY <1>10, <2>1, MoreCallbacks DEF handle_disconnects
<1>11. CASE time_passes
  BY <1>1, <1>11 DEF time_passes
<1>12. CASE UNCHANGED vars
  BY <1>1, <1>12 DEF vars
<1>13. CASE verify_jwt
  BY <1>1, <1>13 DEF verify_jwt
<1>14. QED
  BY <1>3, <1>4, <1>5, <1>6, <1>7, <1>8, <1>9, <1>10, <1>11, <1>12, <1>13 DEF Next, Handler

\* The thread waits for the login service only with an attempt in hand.
LoginInv == verifying \in BOOLEAN /\ (verifying => authentication_queue # <<>>)

\* Every step keeps LoginInv: only the thread itself takes attempts from its queue, and then
\* it waits no longer.
LEMMA LoginStep ==
  ASSUME TypeInv, LoginInv, [Next]_vars
  PROVE  LoginInv'
<1>1. authentication_queue \in Seq(Socket)
  BY DEF TypeInv
<1>2. ASSUME UNCHANGED <<authentication_queue, verifying>> PROVE LoginInv'
  BY <1>2 DEF LoginInv
<1>3. ASSUME NEW s \in Socket, on_upgrade(s) PROVE LoginInv'
  <2>1. verifying' = verifying
    BY <1>3 DEF on_upgrade
  <2>2. CASE authentication_queue' = authentication_queue
    BY <1>2, <2>1, <2>2
  <2>3. CASE authentication_queue' = Append(authentication_queue, s)
    <3>1. Append(authentication_queue, s) # <<>>
      BY <1>1, AppendProperties
    <3>2. QED
      BY <2>1, <2>3, <3>1 DEF LoginInv
  <2>4. QED
    BY <1>3, <2>2, <2>3 DEF on_upgrade
<1>4. ASSUME NEW s \in Socket, on_aborted(s) \/ on_message(s) \/ on_close(s) PROVE LoginInv'
  BY <1>2, <1>4 DEF on_aborted, on_message, on_close
<1>5. CASE verify_jwt
  BY <1>5 DEF verify_jwt, LoginInv
<1>6. CASE AuthenticationThread_run
  BY <1>6 DEF AuthenticationThread_run, LoginInv
<1>7. CASE run_deferred \/ handle_events \/ time_passes
  BY <1>2, <1>7 DEF run_deferred, handle_events, time_passes
<1>8. ASSUME NEW to_erase \in SUBSET Disconnected, handle_disconnects(to_erase) PROVE LoginInv'
  BY <1>2, <1>8 DEF handle_disconnects
<1>9. CASE UNCHANGED vars
  BY <1>2, <1>9 DEF vars
<1>10. QED
  BY <1>3, <1>4, <1>5, <1>6, <1>7, <1>8, <1>9 DEF Next, Handler

-----------------------------------------------------------------------------
(* What the handlers do to sockets and entries, one kind of step after the other *)

\* Where ids are those of the attempts, every open socket and every token is found
HomeInv == FreshInv /\ Registered /\ TokensLead

Holds == PointInv /\ NeverOvercounts
\* Holds in the next state too, and HomeInv if it did before
Kept == Holds' /\ (~DbEnabled /\ HomeInv => HomeInv')

\* No socket opens or closes, and entries and tokens stay.
LEMMA StayKeeps ==
  ASSUME TypeInv, Holds, UNCHANGED <<connection_data, connected_users>>,
         DOMAIN reconnections' = DOMAIN reconnections,
         \A k \in DOMAIN reconnections : reconnections'[k].peer_id = reconnections[k].peer_id,
         \A r \in Socket :
           /\ sockets'[r].id = sockets[r].id
           /\ sockets'[r].state = "open" <=> sockets[r].state = "open"
           /\ sockets[r].state = "open" =>
                sockets'[r].reconnection_token = sockets[r].reconnection_token
           /\ sockets'[r].state \in {"new", "authenticating", "aborted"} =>
                sockets[r].state \in {"new", "authenticating", "aborted"}
  PROVE  Kept
<1>1. PointInv'
  <2>1. SUFFICES ASSUME NEW id \in DOMAIN connection_data, connection_data[id].ws # NoSocket
                 PROVE  LET w == connection_data[id].ws IN
                        /\ sockets'[w].state = "open"
                        /\ sockets'[w].id = id
                        /\ sockets'[w].reconnection_token = connection_data[id].reconnection_token
    BY DEF PointInv, Open
  <2> DEFINE w == connection_data[id].ws
  <2>2. /\ w \in Socket /\ sockets[w].state = "open" /\ sockets[w].id = id
        /\ sockets[w].reconnection_token = connection_data[id].reconnection_token
    BY <2>1 DEF Holds, PointInv, Open, TypeInv, ServerTypes, PeerConnectionData
  <2>3. QED
    BY <2>2
<1>2. NeverOvercounts'
  <2>1. {r \in Socket : sockets'[r].state = "open"} = {r \in Socket : sockets[r].state = "open"}
    OBVIOUS
  <2>2. QED
    BY <2>1 DEF NeverOvercounts, Holds, Open
<1>3. ASSUME ~DbEnabled, HomeInv PROVE HomeInv'
  <2>1. FreshInv'
    BY <1>3 DEF HomeInv, FreshInv
  <2>2. Registered'
    BY <1>3 DEF HomeInv, Registered, Open, SocketOf
  <2>3. TokensLead'
    BY <1>3 DEF HomeInv, TokensLead, PeerGone, Key
  <2>4. QED
    BY <2>1, <2>2, <2>3 DEF HomeInv
<1>4. QED
  BY <1>1, <1>2, <1>3 DEF Kept, Holds

\* Fewer sockets: the count goes down by as many as close.
LEMMA CountClosed ==
  ASSUME SocketAssumption, TypeInv, NeverOvercounts, NEW W, W \subseteq OpenSockets,
         OpenSockets' = OpenSockets \ W, connected_users' = connected_users - Cardinality(W)
  PROVE  NeverOvercounts'
<1>1. IsFiniteSet(OpenSockets) /\ IsFiniteSet(W)
  BY FS_Subset DEF OpenSockets, SocketAssumption
<1>2. /\ Cardinality(OpenSockets \ W) = Cardinality(OpenSockets) - Cardinality(OpenSockets \cap W)
      /\ OpenSockets \cap W = W
  BY <1>1, FS_Difference
<1>3. /\ Cardinality(OpenSockets) \in Nat /\ Cardinality(W) \in Nat /\ connected_users \in Int
      /\ connected_users <= Cardinality(OpenSockets)
  BY <1>1, FS_CardinalityType DEF NeverOvercounts, OpenSockets, TypeInv, ServerTypes
<1>4. connected_users' <= Cardinality(OpenSockets')
  BY <1>2, <1>3
<1>5. QED
  BY <1>4 DEF NeverOvercounts, OpenSockets

\* The sockets of W close, and nothing else becomes of any socket
Close(W) ==
  \A r \in Socket :
    /\ sockets'[r].state = IF r \in W THEN "closed" ELSE sockets[r].state
    /\ sockets'[r].id = sockets[r].id
    /\ sockets'[r].game_id = sockets[r].game_id
    /\ sockets'[r].reconnection_token = sockets[r].reconnection_token

\* Of open sockets, the others stay open.
LEMMA StillOpen ==
  ASSUME NEW W, W \subseteq OpenSockets, Close(W)
  PROVE  /\ OpenSockets' = OpenSockets \ W
         /\ \A r \in Socket : Open(r)' <=> Open(r) /\ r \notin W
BY DEF Close, OpenSockets, Open

\* on_close for open sockets W: only entries that point to them are changed.
LEMMA ClosingKeeps ==
  ASSUME SocketAssumption, TypeInv, Holds, NEW W, W \subseteq OpenSockets, Close(W),
         NEW order \in Orders(W), Closing(order), UNCHANGED reconnections
  PROVE  Kept
<1>1. W \subseteq Socket
  BY DEF OpenSockets
<1>2. connection_data' = Unregistered(W) /\ connected_users' = connected_users - Cardinality(W)
  BY <1>1, OrderFacts, CloseEventTypes DEF Closing
<1>3. \A id \in DOMAIN connection_data :
        /\ connection_data'[id].ws # NoSocket => connection_data'[id] = connection_data[id]
        /\ connection_data'[id].game_id = connection_data[id].game_id
        /\ connection_data'[id].reconnection_token = connection_data[id].reconnection_token
  BY <1>2 DEF Unregistered, TypeInv, ServerTypes, PeerConnectionData
<1>4. DOMAIN connection_data' = DOMAIN connection_data
  BY <1>2 DEF Unregistered
<1>5. ASSUME NEW id \in DOMAIN connection_data, connection_data'[id].ws # NoSocket
      PROVE  /\ connection_data'[id] = connection_data[id]
             /\ connection_data[id].ws \in Socket \ W
             /\ Open(connection_data[id].ws)
             /\ sockets[connection_data[id].ws].id = id
             /\ sockets[connection_data[id].ws].reconnection_token
                  = connection_data[id].reconnection_token
  <2> DEFINE w == connection_data[id].ws
  <2>1. connection_data'[id] = connection_data[id] /\ w # NoSocket
    BY <1>3, <1>5
  <2>2. Open(w) /\ sockets[w].id = id
        /\ sockets[w].reconnection_token = connection_data[id].reconnection_token
    BY <2>1 DEF Holds, PointInv
  <2>3. w \in Socket
    BY <2>1 DEF TypeInv, ServerTypes, PeerConnectionData
  <2>4. w \notin W
    <3>1. SUFFICES ASSUME w \in W PROVE FALSE
      OBVIOUS
    <3>2. connection_data'[id] = [connection_data[id] EXCEPT !.ws = NoSocket]
      BY <1>2, <2>2, <3>1 DEF Unregistered
    <3>3. QED
      BY <1>5, <3>2 DEF TypeInv, ServerTypes, PeerConnectionData
  <2>5. QED
    BY <2>1, <2>2, <2>3, <2>4
<1>6. PointInv'
  <2>1. \A id \in DOMAIN connection_data : connection_data'[id].ws # NoSocket =>
          LET w == connection_data'[id].ws IN
          /\ sockets'[w].state = "open"
          /\ sockets'[w].id = id
          /\ sockets'[w].reconnection_token = connection_data'[id].reconnection_token
    <3>1. SUFFICES ASSUME NEW id \in DOMAIN connection_data, connection_data'[id].ws # NoSocket
                   PROVE  LET w == connection_data[id].ws IN
                          /\ sockets'[w].state = "open"
                          /\ sockets'[w].id = id
                          /\ sockets'[w].reconnection_token
                               = connection_data[id].reconnection_token
      BY <1>3
    <3> DEFINE w == connection_data[id].ws
    <3>2. /\ w \in Socket \ W /\ Open(w) /\ sockets[w].id = id
          /\ sockets[w].reconnection_token = connection_data[id].reconnection_token
      BY <1>5, <3>1
    <3> HIDE DEF w
    <3>3. /\ sockets'[w].state = "open"
          /\ sockets'[w].id = id
          /\ sockets'[w].reconnection_token = connection_data[id].reconnection_token
      BY <3>2 DEF Close, Open
    <3>4. QED
      BY <3>3 DEF w
  <2>2. QED
    BY <1>4, <2>1 DEF PointInv, Open
<1>7. NeverOvercounts'
  BY <1>2, StillOpen, CountClosed DEF Holds
<1>8. ASSUME ~DbEnabled, HomeInv PROVE HomeInv'
  <2>1. FreshInv'
    <3>1. \A r \in Socket : sockets'[r].state \in {"new", "authenticating", "aborted"} =>
                              sockets[r].state \in {"new", "authenticating", "aborted"}
      BY DEF Close
    <3>2. QED
      BY <1>4, <1>8, <3>1 DEF HomeInv, FreshInv, Close
  <2>2. Registered'
    <3>1. SUFFICES ASSUME NEW s \in Socket, Open(s)' PROVE SocketOf(sockets[s].id)' = s
      BY DEF Registered, Close
    <3>2. Open(s) /\ s \notin W /\ SocketOf(sockets[s].id) = s
      BY <1>8, <3>1, StillOpen DEF HomeInv, Registered
    <3> DEFINE id == sockets[s].id
    <3>3. id \in DOMAIN connection_data /\ connection_data[id].ws = s
      BY <3>2 DEF SocketOf, SocketAssumption
    <3>4. connection_data'[id] = connection_data[id]
      BY <1>2, <3>2, <3>3 DEF Unregistered
    <3>5. sockets'[s].id = id
      BY DEF Close
    <3>6. QED
      BY <1>4, <3>3, <3>4, <3>5 DEF SocketOf
  <2>3. TokensLead'
    BY <1>3, <1>4, <1>8 DEF HomeInv, TokensLead, PeerGone, Key
  <2>4. QED
    BY <2>1, <2>2, <2>3 DEF HomeInv
<1>9. QED
  BY <1>6, <1>7, <1>8 DEF Kept, Holds


\* clear_users: the peers of S go, with their sockets and their tokens.
LEMMA ClearKeeps ==
  ASSUME SocketAssumption, TypeInv, Holds, NEW S, clear_users(S)
  PROVE  Kept
<1> DEFINE W == SocketsOf(S)
<1>1. W \subseteq OpenSockets /\ W \subseteq Socket
  BY SocketsOfOpen DEF Holds, OpenSockets
<1>2. /\ sockets' = Closed(W)
      /\ connection_data' = Drop(connection_data, S)
      /\ reconnections' = Forgotten(S)
      /\ \E order \in Orders(W) : connected_users' = CountAfter(order)
  BY DEF clear_users
<1>3. \A id \in DOMAIN connection_data \cap S :
        connection_data[id].ws # NoSocket => connection_data[id].ws \in W
  BY DEF SocketsOf, SocketOf
<1>4. \A w \in W : \E id \in S \cap DOMAIN connection_data :
        w = connection_data[id].ws /\ sockets[w].id = id
  BY DEF SocketsOf, SocketOf, Holds, PointInv
<1> HIDE DEF W
<1>5. Close(W) /\ connected_users' = connected_users - Cardinality(W)
  BY <1>1, <1>2, CloseEventTypes DEF Close, Closed, TypeInv, ServerTypes, PerSocketData
<1>6. /\ DOMAIN connection_data' = DOMAIN connection_data \ S
      /\ \A id \in DOMAIN connection_data \ S : connection_data'[id] = connection_data[id]
  BY <1>2 DEF Drop, Restrict
<1>7. PointInv'
  <2>1. SUFFICES ASSUME NEW id \in DOMAIN connection_data \ S, connection_data[id].ws # NoSocket
                 PROVE  LET w == connection_data[id].ws IN
                        /\ sockets'[w].state = "open"
                        /\ sockets'[w].id = id
                        /\ sockets'[w].reconnection_token = connection_data[id].reconnection_token
    BY <1>6 DEF PointInv, Open
  <2> DEFINE w == connection_data[id].ws
  <2>2. /\ w \in Socket /\ Open(w) /\ sockets[w].id = id
        /\ sockets[w].reconnection_token = connection_data[id].reconnection_token
    BY <2>1 DEF Holds, PointInv, TypeInv, ServerTypes, PeerConnectionData
  <2>3. w \notin W
    BY <1>4, <2>2
  <2> HIDE DEF w
  <2>4. /\ sockets'[w].state = "open"
        /\ sockets'[w].id = id
        /\ sockets'[w].reconnection_token = connection_data[id].reconnection_token
    BY <1>5, <2>2, <2>3 DEF Close, Open
  <2>5. QED
    BY <2>4 DEF w
<1>8. NeverOvercounts'
  BY <1>1, <1>5, StillOpen, CountClosed DEF Holds
<1>9. ASSUME ~DbEnabled, HomeInv PROVE HomeInv'
  <2>1. /\ DOMAIN reconnections' \subseteq DOMAIN reconnections
        /\ \A k \in DOMAIN reconnections' :
             /\ reconnections'[k] = reconnections[k]
             /\ \A id \in S \cap DOMAIN connection_data :
                  k # Key(connection_data[id].game_id, connection_data[id].reconnection_token)
    BY <1>2 DEF Forgotten, Drop, Restrict
  <2>2. FreshInv'
    <3>1. \A r \in Socket : sockets'[r].state \in {"new", "authenticating", "aborted"} =>
                              sockets[r].state \in {"new", "authenticating", "aborted"}
      BY <1>5 DEF Close
    <3>2. QED
      BY <1>5, <1>6, <1>9, <2>1, <3>1 DEF HomeInv, FreshInv, Close
  <2>3. Registered'
    <3>1. SUFFICES ASSUME NEW s \in Socket, Open(s)' PROVE SocketOf(sockets[s].id)' = s
      BY DEF Registered
    <3> DEFINE id == sockets[s].id
    <3>2. Open(s) /\ s \notin W /\ SocketOf(id) = s
      BY <1>1, <1>5, <1>9, <3>1, StillOpen DEF HomeInv, Registered
    <3>3. id \in DOMAIN connection_data /\ connection_data[id].ws = s /\ s # NoSocket
      BY <3>2 DEF SocketOf, SocketAssumption
    <3>4. id \notin S
      BY <1>3, <3>2, <3>3
    <3>5. sockets'[s].id = id
      BY <1>5 DEF Close
    <3>6. QED
      BY <1>6, <3>3, <3>4, <3>5 DEF SocketOf
  <2>4. TokensLead'
    <3>1. SUFFICES ASSUME NEW k \in DOMAIN reconnections'
                   PROVE  LET id == reconnections'[k].peer_id IN
                          /\ id \in DOMAIN connection_data'
                          /\ Key(connection_data'[id].game_id,
                                 connection_data'[id].reconnection_token) = k
      BY DEF TokensLead, PeerGone, Key
    <3> DEFINE id == reconnections[k].peer_id
    <3>2. reconnections'[k] = reconnections[k] /\ k \in DOMAIN reconnections
      BY <2>1
    <3>3. /\ id \in DOMAIN connection_data
          /\ Key(connection_data[id].game_id, connection_data[id].reconnection_token) = k
      BY <1>9, <3>2 DEF HomeInv, TokensLead, PeerGone
    <3>4. id \notin S
      BY <2>1, <3>3
    <3>5. QED
      BY <1>6, <3>2, <3>3, <3>4
  <2>5. QED
    BY <2>2, <2>3, <2>4 DEF HomeInv
<1>10. QED
  BY <1>7, <1>8, <1>9 DEF Kept, Holds

\* A socket that on_open turns away: its close is counted although its opening was not.
LEMMA RefuseKeeps ==
  ASSUME SocketAssumption, TypeInv, Holds, NEW s \in Undecided, NEW id, NEW k, RefuseOpen(s, id, k),
         ~DbEnabled /\ HomeInv => id = s
  PROVE  Kept
<1>1. s \in Socket /\ ~Open(s) /\ sockets \in [Socket -> PerSocketData]
  BY DEF Undecided, Open, TypeInv, ServerTypes
<1>2. /\ sockets' = [sockets EXCEPT ![s].state = "closed", ![s].id = id]
      /\ UNCHANGED connection_data
      /\ connected_users' = connected_users - 1
      /\ DOMAIN reconnections' \subseteq DOMAIN reconnections
      /\ \A j \in DOMAIN reconnections' : reconnections'[j] = reconnections[j]
  BY DEF RefuseOpen, Drop, Restrict
<1>3. \A r \in Socket : r # s => sockets'[r] = sockets[r]
  BY <1>1, <1>2
<1>4. sockets'[s].state = "closed" /\ sockets'[s].id = id
  BY <1>1, <1>2 DEF PerSocketData
<1>5. PointInv'
  <2>1. \A i \in DOMAIN connection_data : connection_data[i].ws # NoSocket =>
          LET w == connection_data[i].ws IN w \in Socket /\ w # s
    BY <1>1 DEF Holds, PointInv, TypeInv, ServerTypes, PeerConnectionData
  <2>0. connection_data' = connection_data
    BY <1>2
  <2>2. SUFFICES ASSUME NEW i \in DOMAIN connection_data, connection_data[i].ws # NoSocket
                 PROVE  LET w == connection_data[i].ws IN
                        /\ sockets'[w].state = "open"
                        /\ sockets'[w].id = i
                        /\ sockets'[w].reconnection_token = connection_data[i].reconnection_token
    BY <2>0, Zenon DEF PointInv, Open
  <2> DEFINE w == connection_data[i].ws
  <2>3. sockets'[w] = sockets[w]
    BY <1>3, <2>1, <2>2
  <2>4. /\ sockets[w].state = "open"
        /\ sockets[w].id = i
        /\ sockets[w].reconnection_token = connection_data[i].reconnection_token
    BY <2>2 DEF Holds, PointInv, Open
  <2>5. QED
    BY <2>3, <2>4
<1>6. NeverOvercounts'
  <2>1. {r \in Socket : sockets'[r].state = "open"} = {r \in Socket : sockets[r].state = "open"}
    BY <1>1, <1>3, <1>4 DEF Open
  <2> DEFINE Opened == {r \in Socket : sockets[r].state = "open"}
             n == Cardinality(Opened)
  <2>2. connected_users \in Int /\ connected_users <= n
    BY DEF Holds, NeverOvercounts, Open, TypeInv, ServerTypes
  <2>3. n \in Nat
    <3>1. IsFiniteSet(Opened)
      BY FS_Subset DEF SocketAssumption
    <3>2. QED
      BY <3>1, FS_CardinalityType
  <2> HIDE DEF n
  <2>4. connected_users' <= n
    BY <1>2, <2>2, <2>3
  <2>5. QED
    BY <2>1, <2>4 DEF NeverOvercounts, Open, n
<1>7. ASSUME ~DbEnabled, HomeInv PROVE HomeInv'
  <2>1. sockets[s].id = s /\ id = s
    BY <1>1, <1>7 DEF HomeInv, FreshInv, Undecided
  <2>2. \A r \in Socket : sockets'[r].id = sockets[r].id
    BY <1>3, <1>4, <2>1
  <2>3. \A r \in Socket : sockets'[r].state \in {"new", "authenticating", "aborted"} =>
                            sockets[r].state \in {"new", "authenticating", "aborted"}
    BY <1>3, <1>4
  <2>4. FreshInv'
    <3>1. FreshInv
      BY <1>7 DEF HomeInv
    <3>2. \A j \in DOMAIN reconnections' :
            j \in DOMAIN reconnections /\ reconnections'[j].peer_id = reconnections[j].peer_id
      BY <1>2
    <3>3. DOMAIN connection_data' = DOMAIN connection_data
      BY <1>2
    <3>4. QED
      BY <2>2, <2>3, <3>1, <3>2, <3>3 DEF FreshInv
  <2>5. Registered'
    BY <1>2, <1>3, <1>4, <1>7 DEF HomeInv, Registered, Open, SocketOf
  <2>6. TokensLead'
    BY <1>2, <1>7 DEF HomeInv, TokensLead, PeerGone, Key
  <2>7. QED
    BY <2>4, <2>5, <2>6 DEF HomeInv
<1>8. QED
  BY <1>5, <1>6, <1>7 DEF Kept, Holds


\* An entry is made or taken over: W are the sockets that on_open closes for that.
LEMMA RegisterKeeps ==
  ASSUME SocketAssumption, TypeInv, Holds, NEW s \in Undecided, NEW id \in Socket,
         NEW W, W \subseteq OpenSockets, \A w \in W : sockets[w].id = id,
         Register(s, id, W),
         ~DbEnabled /\ HomeInv =>
           LET k == Key(sockets[s].game_id, sockets[s].reconnection_token) IN
           \/ id = s /\ W = {}
           \/ /\ k \in DOMAIN reconnections
              /\ id = reconnections[k].peer_id
              /\ W = SocketsOf({id})
  PROVE  Kept
<1> DEFINE k == Key(sockets[s].game_id, sockets[s].reconnection_token)
           c == [game_id |-> sockets[s].game_id, ws |-> s,
                 reconnection_token |-> sockets[s].reconnection_token]
<1>1. s \in Socket /\ ~Open(s) /\ sockets \in [Socket -> PerSocketData] /\ s # NoSocket
  BY DEF Undecided, Open, TypeInv, ServerTypes, SocketAssumption
<1>2. s \notin W /\ W \subseteq Socket
  BY <1>1 DEF OpenSockets
<1>3. sockets' = [Closed(W) EXCEPT ![s].state = "open", ![s].id = id]
  BY DEF Register
<1>4. /\ sockets'[s].state = "open" /\ sockets'[s].id = id
      /\ sockets'[s].reconnection_token = sockets[s].reconnection_token
      /\ sockets'[s].game_id = sockets[s].game_id
  <2>1. Closed(W)[s] = sockets[s] /\ sockets[s] \in PerSocketData
    BY <1>1, <1>2 DEF Closed
  <2>2. sockets'[s] = [sockets[s] EXCEPT !.state = "open", !.id = id]
    BY <1>1, <1>3, <2>1 DEF Closed
  <2>3. QED
    BY <2>1, <2>2 DEF PerSocketData
<1>5. \A r \in Socket \ {s} :
        /\ sockets'[r].state = IF r \in W THEN "closed" ELSE sockets[r].state
        /\ sockets'[r].id = sockets[r].id
        /\ sockets'[r].reconnection_token = sockets[r].reconnection_token
        /\ sockets'[r].game_id = sockets[r].game_id
  <2>1. TAKE r \in Socket \ {s}
  <2>2. sockets'[r] = Closed(W)[r] /\ sockets[r] \in PerSocketData
    BY <1>1, <1>3 DEF Closed
  <2>3. CASE r \in W
    <3>1. sockets'[r] = [sockets[r] EXCEPT !.state = "closed"]
      BY <2>2, <2>3 DEF Closed
    <3>2. QED
      BY <2>2, <2>3, <3>1 DEF PerSocketData
  <2>4. CASE r \notin W
    BY <2>2, <2>4 DEF Closed
  <2>5. QED
    BY <2>3, <2>4
<1>6. /\ DOMAIN connection_data' = DOMAIN connection_data \cup {id}
      /\ connection_data'[id] = c
      /\ \A i \in DOMAIN connection_data \ {id} : connection_data'[i] = Unregistered(W)[i]
  BY DEF Register, Put, Unregistered
<1>7. \A i \in DOMAIN connection_data \ {id} : connection_data'[i] = connection_data[i]
  BY <1>6 DEF Unregistered
<1>8. /\ DOMAIN reconnections' = DOMAIN reconnections \cup {k}
      /\ reconnections'[k] = [peer_id |-> id, age |-> 0]
      /\ \A j \in DOMAIN reconnections \ {k} : reconnections'[j] = reconnections[j]
  BY DEF Register, Put
<1>9. connected_users' = connected_users - Cardinality(W) + 1
  BY <1>2, CloseEventTypes DEF Register
<1>10. c.ws = s /\ c.game_id = sockets[s].game_id
       /\ c.reconnection_token = sockets[s].reconnection_token
  OBVIOUS
<1> HIDE DEF c
<1>11. PointInv'
  <2>1. SUFFICES ASSUME NEW i \in DOMAIN connection_data', connection_data'[i].ws # NoSocket
                 PROVE  LET w == connection_data'[i].ws IN
                        /\ sockets'[w].state = "open"
                        /\ sockets'[w].id = i
                        /\ sockets'[w].reconnection_token = connection_data'[i].reconnection_token
    BY DEF PointInv, Open
  <2>2. CASE i = id
    BY <1>4, <1>6, <1>10, <2>2
  <2>3. CASE i # id
    <3> DEFINE w == connection_data[i].ws
    <3>1. i \in DOMAIN connection_data /\ connection_data'[i] = connection_data[i]
      BY <1>6, <1>7, <2>3
    <3>2. /\ sockets[w].state = "open"
          /\ sockets[w].id = i
          /\ sockets[w].reconnection_token = connection_data[i].reconnection_token
      BY <2>1, <3>1 DEF Holds, PointInv, Open
    <3>3. w \in Socket
      BY <2>1, <3>1 DEF TypeInv, ServerTypes, PeerConnectionData
    <3>4. w # s /\ w \notin W
      BY <1>1, <2>3, <3>2 DEF Open
    <3> HIDE DEF w
    <3>5. /\ sockets'[w].state = "open"
          /\ sockets'[w].id = i
          /\ sockets'[w].reconnection_token = connection_data[i].reconnection_token
      BY <1>5, <3>2, <3>3, <3>4
    <3>6. QED
      BY <3>1, <3>5 DEF w
  <2>4. QED
    BY <2>2, <2>3
<1>12. NeverOvercounts'
  <2>1. OpenSockets' = (OpenSockets \ W) \cup {s}
    BY <1>1, <1>2, <1>4, <1>5 DEF OpenSockets, Open
  <2>2. s \notin OpenSockets \ W
    BY <1>1 DEF OpenSockets
  <2>3. IsFiniteSet(OpenSockets) /\ IsFiniteSet(W) /\ IsFiniteSet(OpenSockets \ W)
    BY FS_Subset DEF OpenSockets, SocketAssumption
  <2>4. /\ Cardinality(OpenSockets \ W) = Cardinality(OpenSockets) - Cardinality(OpenSockets \cap W)
        /\ OpenSockets \cap W = W
    BY <2>3, FS_Difference
  <2>5. Cardinality((OpenSockets \ W) \cup {s}) = Cardinality(OpenSockets \ W) + 1
    BY <2>2, <2>3, FS_AddElement
  <2>6. /\ Cardinality(OpenSockets) \in Nat /\ Cardinality(W) \in Nat
        /\ connected_users \in Int /\ connected_users <= Cardinality(OpenSockets)
    BY <2>3, FS_CardinalityType DEF Holds, NeverOvercounts, OpenSockets, TypeInv, ServerTypes
  <2>7. connected_users' <= Cardinality(OpenSockets')
    <3>1. Cardinality(OpenSockets') = Cardinality(OpenSockets) - Cardinality(W) + 1
      BY <2>1, <2>4, <2>5
    <3>2. QED
      BY <1>9, <2>6, <3>1
  <2>8. QED
    BY <2>7 DEF NeverOvercounts, OpenSockets
<1>13. ASSUME ~DbEnabled, HomeInv PROVE HomeInv'
  <2>1. \/ id = s /\ W = {}
        \/ /\ k \in DOMAIN reconnections
           /\ id = reconnections[k].peer_id
           /\ W = SocketsOf({id})
    BY <1>13
  <2>2. /\ sockets[s].id = s
        /\ s \notin DOMAIN connection_data
        /\ \A j \in DOMAIN reconnections : reconnections[j].peer_id # s
        /\ \A r \in Socket : sockets[r].id = s => r = s
    BY <1>1, <1>13 DEF HomeInv, FreshInv, Undecided
  <2> HIDE DEF k
  <2>3. \A r \in Socket : sockets[r].id = id => r = s \/ r \notin OpenSockets \ W
    <3>1. CASE id = s
      BY <2>2, <3>1
    <3>2. CASE W = SocketsOf({id})
      <4>1. SUFFICES ASSUME NEW r \in Socket, sockets[r].id = id, Open(r) PROVE r \in W
        BY DEF OpenSockets
      <4>2. SocketOf(id) = r /\ r # NoSocket
        BY <1>13, <4>1 DEF HomeInv, Registered, SocketAssumption
      <4>3. QED
        BY <3>2, <4>2 DEF SocketsOf
    <3>3. QED
      BY <2>1, <3>1, <3>2
  <2>4. ASSUME NEW r \in Socket, sockets'[r].state \in {"new", "authenticating", "aborted"}
        PROVE  /\ r # s /\ r # id
               /\ sockets[r].state \in {"new", "authenticating", "aborted"}
    <3>1. r # s /\ sockets[r].state \in {"new", "authenticating", "aborted"}
      BY <1>4, <1>5, <2>4
    <3>2. \A j \in DOMAIN reconnections : reconnections[j].peer_id # r
      BY <1>13, <3>1 DEF HomeInv, FreshInv
    <3>3. QED
      BY <2>1, <3>1, <3>2
  <2>5. FreshInv'
    <3>1. SUFFICES ASSUME NEW r \in Socket,
                          sockets'[r].state \in {"new", "authenticating", "aborted"}
                   PROVE  /\ sockets'[r].id = r
                          /\ r \notin DOMAIN connection_data'
                          /\ \A j \in DOMAIN reconnections' : reconnections'[j].peer_id # r
                          /\ \A q \in Socket : sockets'[q].id = r => q = r
      BY DEF FreshInv
    <3>2. /\ r # s /\ r # id
          /\ sockets[r].state \in {"new", "authenticating", "aborted"}
      BY <2>4, <3>1
    <3>3. /\ sockets[r].id = r
          /\ r \notin DOMAIN connection_data
          /\ \A j \in DOMAIN reconnections : reconnections[j].peer_id # r
          /\ \A q \in Socket : sockets[q].id = r => q = r
      BY <1>13, <3>2 DEF HomeInv, FreshInv
    <3>4. \A q \in Socket : sockets'[q].id = r => q = r
      BY <1>4, <1>5, <3>2, <3>3
    <3>5. \A j \in DOMAIN reconnections' : reconnections'[j].peer_id # r
      BY <1>8, <3>2, <3>3
    <3>6. sockets'[r].id = r /\ r \notin DOMAIN connection_data'
      BY <1>5, <1>6, <3>2, <3>3
    <3>7. QED
      BY <3>4, <3>5, <3>6
  <2>6. Registered'
    <3>1. SUFFICES ASSUME NEW r \in Socket, sockets'[r].state = "open"
                   PROVE  /\ sockets'[r].id \in DOMAIN connection_data'
                          /\ connection_data'[sockets'[r].id].ws = r
      BY DEF Registered, SocketOf, Open
    <3>2. CASE r = s
      BY <1>4, <1>6, <1>10, <3>2
    <3>3. CASE r # s
      <4>1. Open(r) /\ r \notin W /\ sockets'[r].id = sockets[r].id
        BY <1>5, <3>1, <3>3 DEF Open
      <4>2. sockets[r].id # id
        BY <2>3, <3>3, <4>1 DEF OpenSockets
      <4>3. SocketOf(sockets[r].id) = r /\ r # NoSocket
        BY <1>13, <4>1 DEF HomeInv, Registered, SocketAssumption
      <4>4. sockets[r].id \in DOMAIN connection_data /\ connection_data[sockets[r].id].ws = r
        BY <4>3 DEF SocketOf
      <4>5. QED
        BY <1>6, <1>7, <4>1, <4>2, <4>4
    <3>4. QED
      BY <3>2, <3>3
  <2>7. TokensLead'
    <3>1. SUFFICES ASSUME NEW j \in DOMAIN reconnections'
                   PROVE  LET i == reconnections'[j].peer_id IN
                          /\ i \in DOMAIN connection_data'
                          /\ Key(connection_data'[i].game_id,
                                 connection_data'[i].reconnection_token) = j
      BY DEF TokensLead, PeerGone, Key
    <3>2. CASE j = k
      <4>1. reconnections'[j].peer_id = id /\ id \in DOMAIN connection_data'
        BY <1>6, <1>8, <3>2
      <4>2. Key(connection_data'[id].game_id, connection_data'[id].reconnection_token) = k
        BY <1>6, <1>10 DEF k
      <4>3. QED
        BY <3>2, <4>1, <4>2
    <3>3. CASE j # k
      <4> DEFINE i == reconnections[j].peer_id
      <4>1. j \in DOMAIN reconnections /\ reconnections'[j] = reconnections[j]
        BY <1>8, <3>1, <3>3
      <4>2. /\ i \in DOMAIN connection_data
            /\ Key(connection_data[i].game_id, connection_data[i].reconnection_token) = j
        BY <1>13, <4>1 DEF HomeInv, TokensLead, PeerGone
      <4>3. i # id
        <5>1. CASE id = s
          BY <2>2, <4>1, <5>1
        <5>2. CASE k \in DOMAIN reconnections /\ id = reconnections[k].peer_id
          <6>1. Key(connection_data[id].game_id, connection_data[id].reconnection_token) = k
            BY <1>13, <5>2 DEF HomeInv, TokensLead, PeerGone
          <6>2. QED
            BY <3>3, <4>2, <6>1
        <5>3. QED
          BY <2>1, <5>1, <5>2
      <4>4. connection_data'[i] = connection_data[i] /\ i \in DOMAIN connection_data'
        BY <1>6, <1>7, <4>2, <4>3
      <4>5. QED
        BY <4>1, <4>2, <4>4
    <3>4. QED
      BY <3>2, <3>3
  <2>8. QED
    BY <2>5, <2>6, <2>7 DEF HomeInv
<1>14. QED
  BY <1>11, <1>12, <1>13 DEF Kept, Holds


\* on_open keeps all this, whatever it makes of the token.
LEMMA OpenKeeps ==
  ASSUME SocketAssumption, TypeInv, Holds, NEW s \in Undecided, NEW id \in Socket,
         on_open(s, id), ~DbEnabled /\ HomeInv => id = s
  PROVE  Kept
<1> DEFINE k == Key(sockets[s].game_id, sockets[s].reconnection_token)
           old == reconnections[k].peer_id
<1>1. CASE Register(s, id, {})
  <2>1. \E W \in SUBSET OpenSockets : W = {}
    OBVIOUS
  <2>2. PICK W \in SUBSET OpenSockets : W = {}
    BY <2>1
  <2>3. Register(s, id, W)
    BY <1>1, <2>2
  <2>4. /\ W \subseteq OpenSockets
        /\ \A w \in W : sockets[w].id = id
        /\ ~DbEnabled /\ HomeInv => id = s /\ W = {}
    BY <2>2
  <2> HIDE DEF k, old
  <2>5. QED
    BY <2>3, <2>4, RegisterKeeps
<1>2. CASE RefuseOpen(s, id, k)
  BY <1>2, RefuseKeeps
<1>3. CASE k \in DOMAIN reconnections /\ Register(s, old, Replaced(old))
  <2>1. old \in Socket
    BY <1>3 DEF TypeInv, ServerTypes, ReconnectionToken
  <2>2. Replaced(old) = SocketsOf({old})
    BY DEF Replaced
  <2>3. SocketsOf({old}) \subseteq OpenSockets
    BY SocketsOfOpen DEF Holds
  <2>4. \A w \in SocketsOf({old}) : sockets[w].id = old
    BY DEF SocketsOf, SocketOf, Holds, PointInv
  <2>5. \/ old = s /\ SocketsOf({old}) = {}
        \/ /\ k \in DOMAIN reconnections
           /\ old = reconnections[k].peer_id
           /\ SocketsOf({old}) = SocketsOf({old})
    BY <1>3
  <2> HIDE DEF old
  <2>6. QED
    BY <1>3, <2>1, <2>2, <2>3, <2>4, <2>5, RegisterKeeps
<1>4. QED
  BY <1>1, <1>2, <1>3 DEF on_open

\* Every step keeps the pointers and the count, and where ids are those of the attempts,
\* the ways to sockets and tokens.
LEMMA ServerStep ==
  ASSUME Assumptions, TypeInv, QueueInv, Holds, [Next]_vars
  PROVE  Kept
<1>0. sockets \in [Socket -> PerSocketData]
  BY DEF TypeInv, ServerTypes
<1>1. ASSUME UNCHANGED <<connection_data, connected_users>>,
             DOMAIN reconnections' = DOMAIN reconnections,
             \A k \in DOMAIN reconnections : reconnections'[k].peer_id = reconnections[k].peer_id,
             UNCHANGED sockets
      PROVE  Kept
  BY <1>1, StayKeeps
<1>2. ASSUME NEW s \in Socket, ~Open(s), UNCHANGED server,
             \A r \in Socket \ {s} : sockets'[r] = sockets[r],
             sockets'[s].id = sockets[s].id, sockets'[s].state # "open",
             sockets'[s].state = "closed"
               \/ sockets[s].state \in {"new", "authenticating", "aborted"}
      PROVE  Kept
  BY <1>2, StayKeeps DEF server, Open
<1>3. ASSUME NEW s \in Socket, on_upgrade(s) PROVE Kept
  <2>1. sockets[s].state = "new" /\ UNCHANGED server
    BY <1>3 DEF on_upgrade
  <2>2. CASE sockets' = Closed({s})
    BY <1>0, <1>2, <2>1, <2>2 DEF Closed, Open, PerSocketData
  <2>3. ASSUME NEW g \in GameId, NEW t \in Token,
               sockets' = [sockets EXCEPT ![s].state = "authenticating", ![s].game_id = g,
                                          ![s].reconnection_token = t]
        PROVE  Kept
    BY <1>0, <1>2, <2>1, <2>3 DEF Open, PerSocketData
  <2>4. QED
    BY <1>3, <2>2, <2>3 DEF on_upgrade
<1>4. ASSUME NEW s \in Socket, on_aborted(s) PROVE Kept
  <2>1. sockets[s].state = "authenticating" /\ UNCHANGED server
    BY <1>4 DEF on_aborted
  <2>2. CASE sockets' = [sockets EXCEPT ![s].state = "aborted"]
    BY <1>0, <1>2, <2>1, <2>2 DEF Open, PerSocketData
  <2>3. CASE sockets' = sockets
    BY <1>1, <2>1, <2>3 DEF server
  <2>4. QED
    BY <1>4, <2>2, <2>3 DEF on_aborted
<1>5. CASE AuthenticationThread_run
  <2> DEFINE s == Head(authentication_queue)
  <2>1. PICK answer \in Answers(s) :
          sockets' = [sockets EXCEPT ![s].reconnection_token = answer.token]
    BY <1>5 DEF AuthenticationThread_run
  <2>2. s \in Undecided /\ UNCHANGED server
    BY <1>5, NextAttempt DEF AuthenticationThread_run, Assumptions
  <2> HIDE DEF s
  <2>3. s \in Socket /\ sockets[s].state \in {"authenticating", "aborted"}
    BY <2>2 DEF Undecided
  <2>4. QED
    BY <1>0, <1>2, <2>1, <2>2, <2>3 DEF Open, PerSocketData
<1>6. ASSUME NEW s \in Socket, on_message(s) PROVE Kept
  <2> DEFINE W == SocketsOf({sockets[s].id})
  <2>1. PICK count :
          \/ /\ sockets' = [sockets EXCEPT ![s].message_count = count]
             /\ UNCHANGED <<connection_data, connected_users>>
          \/ /\ sockets' = [Closed(W) EXCEPT ![s].message_count = count]
             /\ \E order \in Orders(W) : Closing(order)
    BY <1>6 DEF on_message
  <2>2. W \subseteq OpenSockets /\ UNCHANGED reconnections
    BY <1>6, SocketsOfOpen DEF on_message, Holds
  <2> HIDE DEF W
  <2>3. CASE /\ sockets' = [sockets EXCEPT ![s].message_count = count]
             /\ UNCHANGED <<connection_data, connected_users>>
    <3>1. \A r \in Socket : /\ sockets'[r].id = sockets[r].id
                            /\ sockets'[r].state = sockets[r].state
                            /\ sockets'[r].reconnection_token = sockets[r].reconnection_token
      BY <1>0, <2>3 DEF PerSocketData
    <3>2. QED
      BY <2>2, <2>3, <3>1, StayKeeps
  <2>4. ASSUME sockets' = [Closed(W) EXCEPT ![s].message_count = count],
               NEW order \in Orders(W), Closing(order)
        PROVE  Kept
    <3>1. W \subseteq Socket
      BY <2>2 DEF OpenSockets
    <3>2. Closed(W) \in [Socket -> PerSocketData]
      BY <3>1, ClosedTypes DEF Assumptions
    <3>3. \A r \in Socket : /\ sockets'[r].id = Closed(W)[r].id
                            /\ sockets'[r].state = Closed(W)[r].state
                            /\ sockets'[r].game_id = Closed(W)[r].game_id
                            /\ sockets'[r].reconnection_token = Closed(W)[r].reconnection_token
      BY <2>4, <3>2 DEF PerSocketData
    <3>4. Close(W)
      BY <1>0, <3>3 DEF Close, Closed, PerSocketData
    <3>5. QED
      BY <2>2, <2>4, <3>4, ClosingKeeps DEF Assumptions
  <2>5. QED
    BY <2>1, <2>3, <2>4
<1>7. ASSUME NEW W, W \subseteq OpenSockets, sockets' = Closed(W),
             NEW order \in Orders(W), Closing(order), UNCHANGED reconnections
      PROVE  Kept
  <2>1. Close(W)
    BY <1>0, <1>7 DEF Close, Closed, PerSocketData
  <2>2. QED
    BY <1>7, <2>1, ClosingKeeps DEF Assumptions
<1>8. ASSUME NEW s \in Socket, on_close(s) PROVE Kept
  <2>1. {s} \subseteq OpenSockets /\ <<s>> \in Orders({s})
    <3>1. Cardinality({s}) = 1
      BY FS_Singleton
    <3>2. /\ <<s>> \in [1..1 -> {s}]
          /\ \A a, b \in DOMAIN <<s>> : <<s>>[a] = <<s>>[b] => a = b
          /\ \A t \in {s} : \E a \in 1..1 : <<s>>[a] = t
      OBVIOUS
    <3>3. <<s>> \in Orders({s})
      BY <3>1, <3>2 DEF Orders, Bijection, Injection, Surjection, IsInjective
    <3>4. QED
      BY <1>8, <3>3 DEF on_close, OpenSockets
  <2>2. QED
    BY <1>7, <1>8, <2>1 DEF on_close
<1>9. CASE run_deferred
  <2> DEFINE call == Head(deferred)
             s == call.socket
  <2>1. call.do \in Decisions => s \in Undecided
    BY <1>9, NextCallback DEF run_deferred
  <2>2. SocketsOf(call.ids) \subseteq OpenSockets
    BY SocketsOfOpen DEF Holds
  <2>3. \/ call.do \in Decisions /\ sockets' = Closed({s}) /\ UNCHANGED server
        \/ call.do \in Decisions /\ upgrade_anon(s)
        \/ call.do \in Decisions /\ on_open(s, sockets[s].id)
        \/ clear_users(call.ids)
        \/ /\ sockets' = Closed(SocketsOf(call.ids))
           /\ \E order \in Orders(SocketsOf(call.ids)) : Closing(order)
           /\ UNCHANGED reconnections
    BY <1>9 DEF run_deferred, Decisions
  <2> HIDE DEF s
  <2>4. CASE call.do \in Decisions /\ sockets' = Closed({s}) /\ UNCHANGED server
    <3>1. s \in Socket /\ ~Open(s)
      BY <2>1, <2>4 DEF Undecided, Open
    <3>2. QED
      BY <1>0, <1>2, <2>4, <3>1 DEF Closed, PerSocketData
  <2>5. ASSUME call.do \in Decisions
        PROVE  /\ sockets[s].id \in Socket
               /\ ~DbEnabled /\ HomeInv => sockets[s].id = s
    BY <1>0, <2>1, <2>5 DEF Undecided, PerSocketData, HomeInv, FreshInv
  <2>6. CASE call.do \in Decisions /\ on_open(s, sockets[s].id)
    BY <2>1, <2>5, <2>6, OpenKeeps DEF Assumptions
  <2>7. CASE call.do \in Decisions /\ upgrade_anon(s)
    <3> DEFINE k == <<sockets[s].reconnection_token, sockets[s].game_id>>
               id == get_peer_or_insert(k, sockets[s].id)
    <3>1. CASE ~DbEnabled
      BY <2>6, <2>7, <3>1 DEF upgrade_anon
    <3>2. CASE DbEnabled
      <4>1. on_open(s, id)
        BY <2>7, <3>2 DEF upgrade_anon
      <4>2. id \in Socket
        BY <2>5, <2>7 DEF get_peer_or_insert, TypeInv
      <4> HIDE DEF id
      <4>3. QED
        BY <2>1, <2>7, <3>2, <4>1, <4>2, OpenKeeps DEF Assumptions
    <3>3. QED
      BY <3>1, <3>2
  <2>8. CASE clear_users(call.ids)
    BY <2>8, ClearKeeps DEF Assumptions
  <2>9. CASE /\ sockets' = Closed(SocketsOf(call.ids))
             /\ \E order \in Orders(SocketsOf(call.ids)) : Closing(order)
             /\ UNCHANGED reconnections
    BY <1>7, <2>2, <2>9
  <2>10. QED
    BY <2>3, <2>4, <2>6, <2>7, <2>8, <2>9
<1>10. CASE handle_events
  BY <1>1, <1>10 DEF handle_events, server
<1>11. ASSUME NEW to_erase \in SUBSET Disconnected, handle_disconnects(to_erase) PROVE Kept
  BY <1>1, <1>11 DEF handle_disconnects, server
<1>12. CASE time_passes
  <2>1. \A k \in DOMAIN reconnections : reconnections'[k].peer_id = reconnections[k].peer_id
    BY <1>12 DEF time_passes, TypeInv, ServerTypes, ReconnectionToken
  <2>2. QED
    BY <1>1, <1>12, <2>1 DEF time_passes
<1>13. CASE UNCHANGED vars
  BY <1>1, <1>13 DEF vars, server
<1>14. CASE verify_jwt
  BY <1>1, <1>14 DEF verify_jwt, server
<1>15. QED
  BY <1>3, <1>4, <1>5, <1>6, <1>8, <1>9, <1>10, <1>11, <1>12, <1>13, <1>14 DEF Next, Handler

-----------------------------------------------------------------------------
(* What the game thread is told *)

\* An event that tells whether peer id has a socket
Tells(q, id, j) == q[j].id = id /\ q[j].event # "MESSAGE"

\* Up after the first n events of q, for a game thread that takes id for connected where "on"
UpIn(q, on, id, n) ==
  \/ on /\ \A j \in 1..n : ~Tells(q, id, j)
  \/ \E j \in 1..n : /\ Tells(q, id, j) /\ q[j].event = "OPEN"
                    /\ \A k \in 1..n : Tells(q, id, k) => k <= j

\* The events of q match the peers H that have a socket, where those of C are connected
Matches(q, C, H) ==
  /\ \A i \in 1..Len(q) :
       /\ q[i].event = "OPEN" => ~UpIn(q, q[i].id \in C, q[i].id, i - 1)
       /\ q[i].event = "MESSAGE" => UpIn(q, q[i].id \in C, q[i].id, i - 1)
  /\ \A id \in Socket : UpIn(q, id \in C, id, Len(q)) <=> id \in H

ConnectedPeers == {id \in DOMAIN game_peers : game_peers[id] = "connected"}
Served == {id \in Socket : \E s \in Socket : Open(s) /\ sockets[s].id = id}

EventsInv == Matches(receive_queue, ConnectedPeers, Served)

\* Up reads of the game thread only whom it takes for connected.
LEMMA UpIsUpIn == \A id, i : Up(id, i) <=> UpIn(receive_queue, id \in ConnectedPeers, id, i - 1)
<1> TAKE id, i
<1> DEFINE before == {j \in 1..(i - 1) : Tells(receive_queue, id, j)}
<1>1. Up(id, i) <=>
        IF before = {} THEN id \in ConnectedPeers
        ELSE \E j \in before : /\ \A k \in before : k <= j
                               /\ receive_queue[j].event = "OPEN"
  BY DEF Up, ConnectedPeers, Tells
<1>2. CASE before = {}
  BY <1>1, <1>2 DEF UpIn
<1>3. CASE before # {}
  <2>1. Up(id, i) <=> \E j \in before : /\ \A k \in before : k <= j
                                        /\ receive_queue[j].event = "OPEN"
    BY <1>1, <1>3
  <2>2. UpIn(receive_queue, id \in ConnectedPeers, id, i - 1) <=>
          \E j \in before : /\ \A k \in before : k <= j
                            /\ receive_queue[j].event = "OPEN"
    BY <1>3 DEF UpIn
  <2>3. QED
    BY <2>1, <2>2
<1>4. QED
  BY <1>2, <1>3

\* EventsInv is the property.
LEMMA EventsInvMatches ==
  ASSUME TypeInv, EventsInv
  PROVE  EventsMatchSockets
<1>1. \A id \in Socket : id \in Served <=> \E s \in Socket : Open(s) /\ sockets[s].id = id
  BY DEF Served
<1>2. Len(receive_queue) \in Nat /\ Len(receive_queue) + 1 - 1 = Len(receive_queue)
  BY DEF TypeInv, ServerTypes
<1>3. \A id : Up(id, Len(receive_queue) + 1) <=>
               UpIn(receive_queue, id \in ConnectedPeers, id, Len(receive_queue))
  BY <1>2, UpIsUpIn
<1>4. QED
  BY <1>1, <1>3, UpIsUpIn DEF EventsInv, Matches, EventsMatchSockets

\* What comes later changes nothing for the events before it; of closes that are
\* appended, one of the peer's takes it for disconnected.
LEMMA UpAppended ==
  ASSUME NEW q \in Seq(EventRecord), NEW r \in Seq(EventRecord), NEW on, NEW id
  PROVE  /\ \A i \in 0..Len(q) : UpIn(q \o r, on, id, i) <=> UpIn(q, on, id, i)
         /\ (\A j \in 1..Len(r) : r[j].event = "CLOSE") =>
              (UpIn(q \o r, on, id, Len(q \o r)) <=>
                 /\ \A j \in 1..Len(r) : r[j].id # id
                 /\ UpIn(q, on, id, Len(q)))
<1>1. /\ Len(q) \in Nat /\ Len(r) \in Nat /\ Len(q \o r) = Len(q) + Len(r)
      /\ \A j \in 1..Len(q) : (q \o r)[j] = q[j]
      /\ \A j \in 1..Len(r) : (q \o r)[Len(q) + j] = r[j]
  OBVIOUS
<1>2. \A j \in 1..Len(q) : /\ Tells(q \o r, id, j) <=> Tells(q, id, j)
                           /\ (q \o r)[j].event = q[j].event
  BY <1>1 DEF Tells
<1>3. ASSUME NEW i \in 0..Len(q)
      PROVE  UpIn(q \o r, on, id, i) <=> UpIn(q, on, id, i)
  <2>1. \A j \in 1..i : j \in 1..Len(q)
    BY <1>1
  <2> HIDE DEF Tells
  <2>2. QED
    BY <1>2, <2>1 DEF UpIn
<1>4. ASSUME \A j \in 1..Len(r) : r[j].event = "CLOSE"
      PROVE  UpIn(q \o r, on, id, Len(q \o r)) <=>
               /\ \A j \in 1..Len(r) : r[j].id # id
               /\ UpIn(q, on, id, Len(q))
  <2> DEFINE n == Len(q \o r)
  <2>1. \A j \in 1..n : j \in 1..Len(q) \/ \E k \in 1..Len(r) : j = Len(q) + k
    <3> TAKE j \in 1..n
    <3>1. CASE j <= Len(q)
      BY <1>1, <3>1
    <3>2. CASE j > Len(q)
      <4>1. j - Len(q) \in 1..Len(r) /\ j = Len(q) + (j - Len(q))
        BY <1>1, <3>2
      <4>2. QED
        BY <4>1
    <3>3. QED
      BY <1>1, <3>1, <3>2
  <2>2. \A k \in 1..Len(r) : /\ Len(q) + k \in 1..n
                             /\ Tells(q \o r, id, Len(q) + k) <=> r[k].id = id
                             /\ (q \o r)[Len(q) + k].event = "CLOSE"
    BY <1>1, <1>4 DEF Tells
  <2>3. (1..Len(q)) \subseteq 1..n
    BY <1>1
  <2>4. ASSUME NEW k \in 1..Len(r), r[k].id = id
        PROVE  ~UpIn(q \o r, on, id, n)
    <3>1. Len(q) + k \in 1..n /\ Tells(q \o r, id, Len(q) + k)
      BY <2>2, <2>4
    <3>2. ASSUME NEW j \in 1..n, (q \o r)[j].event = "OPEN", Len(q) + k <= j
          PROVE  FALSE
      <4>1. j \notin 1..Len(q)
        BY <1>1, <3>2
      <4>2. QED
        BY <2>1, <2>2, <3>2, <4>1
    <3>3. QED
      BY <2>3, <3>1, <3>2 DEF UpIn
  <2>5. ASSUME \A k \in 1..Len(r) : r[k].id # id
        PROVE  UpIn(q \o r, on, id, n) <=> UpIn(q, on, id, Len(q))
    <3>1. \A j \in 1..n : Tells(q \o r, id, j) => j \in 1..Len(q)
      BY <2>1, <2>2, <2>5
    <3>2. QED
      BY <1>2, <2>3, <3>1 DEF UpIn
  <2>6. QED
    BY <2>4, <2>5
<1>5. QED
  BY <1>3, <1>4

\* After one more event: an open or a close of the peer says it, anything else nothing.
LEMMA UpAfter ==
  ASSUME NEW q \in Seq(EventRecord), NEW e \in EventRecord, NEW on, NEW id
  PROVE  UpIn(Append(q, e), on, id, Len(q) + 1) <=>
           IF e.id = id /\ e.event # "MESSAGE" THEN e.event = "OPEN"
           ELSE UpIn(q, on, id, Len(q))
<1> DEFINE p == Append(q, e)
           n == Len(q) + 1
<1>1. /\ Len(q) \in Nat /\ p[n] = e
      /\ \A j \in 1..Len(q) : p[j] = q[j]
  OBVIOUS
<1>2. \A j : j \in 1..n <=> j \in 1..Len(q) \/ j = n
  BY <1>1
<1>3. n \in 1..n /\ (\A j \in 1..n : j <= n) /\ \A j \in 1..Len(q) : ~(n <= j)
  BY <1>1
<1>4. \A j \in 1..Len(q) : (Tells(p, id, j) <=> Tells(q, id, j)) /\ p[j].event = q[j].event
  BY <1>1 DEF Tells
<1>5. Tells(p, id, n) <=> e.id = id /\ e.event # "MESSAGE"
  BY <1>1 DEF Tells
<1>6. p[n].event = e.event
  BY <1>1
<1> HIDE DEF p, n
<1>7. CASE Tells(p, id, n)
  <2>1. UpIn(p, on, id, n) <=> p[n].event = "OPEN"
    BY <1>2, <1>3, <1>7 DEF UpIn
  <2>2. QED
    BY <1>5, <1>6, <1>7, <2>1 DEF p, n
<1>8. CASE ~Tells(p, id, n)
  <2>1. UpIn(p, on, id, n) <=> UpIn(q, on, id, Len(q))
    <3>1. \A j : j \in 1..n /\ Tells(p, id, j) <=> j \in 1..Len(q) /\ Tells(q, id, j)
      BY <1>2, <1>4, <1>8
    <3>2. \A j \in 1..Len(q) : p[j].event = q[j].event
      BY <1>4
    <3>3. QED
      BY <3>1, <3>2 DEF UpIn
  <2>2. QED
    BY <1>5, <1>8, <2>1 DEF p, n
<1>9. QED
  BY <1>7, <1>8

\* Taking the first event moves what it says from the queue to the game thread.
LEMMA UpTaken ==
  ASSUME NEW q \in Seq(EventRecord), q # <<>>, NEW on, NEW now, NEW id,
         IF Tells(q, id, 1) THEN now <=> q[1].event = "OPEN" ELSE now <=> on,
         NEW n \in 0..(Len(q) - 1)
  PROVE  UpIn(Tail(q), now, id, n) <=> UpIn(q, on, id, n + 1)
<1> DEFINE t == Tail(q)
<1>1. /\ Len(q) \in Nat \ {0} /\ Len(t) = Len(q) - 1
      /\ \A j \in 1..Len(t) : t[j] = q[j + 1]
  OBVIOUS
<1>2. \A j \in 1..n : /\ Tells(t, id, j) <=> Tells(q, id, j + 1)
                      /\ t[j].event = q[j + 1].event
  BY <1>1 DEF Tells
<1>3. /\ 1 \in 1..(n + 1)
      /\ \A j \in 1..(n + 1) : j = 1 \/ \E h \in 1..n : j = h + 1
      /\ \A j \in 1..n : j + 1 \in 1..(n + 1) /\ ~(j + 1 <= 1)
      /\ \A j, k \in 1..n : j <= k <=> j + 1 <= k + 1
  <2>1. ASSUME NEW j \in 1..(n + 1), j # 1 PROVE \E h \in 1..n : j = h + 1
    <3>1. j - 1 \in 1..n /\ j = (j - 1) + 1
      BY <2>1
    <3>2. QED
      BY <3>1
  <2>2. QED
    BY <1>1, <2>1
<1> HIDE DEF t
<1>4. CASE \A j \in 1..n : ~Tells(t, id, j)
  <2>1. ASSUME NEW j \in 1..(n + 1), Tells(q, id, j) PROVE j = 1
    <3>1. ASSUME NEW h \in 1..n, j = h + 1 PROVE FALSE
      BY <1>2, <1>4, <2>1, <3>1
    <3>2. QED
      BY <1>3, <3>1
  <2>2. UpIn(t, now, id, n) <=> now
    BY <1>4 DEF UpIn
  <2>3. UpIn(q, on, id, n + 1) <=> now
    BY <1>3, <2>1 DEF UpIn
  <2>4. QED
    BY <2>2, <2>3 DEF t
<1>5. CASE \E j \in 1..n : Tells(t, id, j)
  <2>1. PICK m \in 1..n : Tells(t, id, m)
    BY <1>5
  <2>2. m + 1 \in 1..(n + 1) /\ Tells(q, id, m + 1) /\ ~(m + 1 <= 1)
    BY <1>2, <1>3, <2>1
  <2>3. ASSUME UpIn(t, now, id, n) PROVE UpIn(q, on, id, n + 1)
    <3>1. PICK j \in 1..n : /\ Tells(t, id, j) /\ t[j].event = "OPEN"
                            /\ \A k \in 1..n : Tells(t, id, k) => k <= j
      BY <1>5, <2>3 DEF UpIn
    <3>2. j + 1 \in 1..(n + 1) /\ Tells(q, id, j + 1) /\ q[j + 1].event = "OPEN"
      BY <1>2, <1>3, <3>1
    <3>3. ASSUME NEW k \in 1..(n + 1), Tells(q, id, k) PROVE k <= j + 1
      <4>1. CASE k = 1
        BY <4>1
      <4>2. ASSUME NEW h \in 1..n, k = h + 1 PROVE k <= j + 1
        BY <1>2, <1>3, <3>1, <3>3, <4>2
      <4>3. QED
        BY <1>3, <4>1, <4>2
    <3>4. QED
      BY <1>3, <3>2, <3>3 DEF UpIn
  <2>4. ASSUME UpIn(q, on, id, n + 1) PROVE UpIn(t, now, id, n)
    <3>1. PICK j \in 1..(n + 1) : /\ Tells(q, id, j) /\ q[j].event = "OPEN"
                                  /\ \A k \in 1..(n + 1) : Tells(q, id, k) => k <= j
      BY <1>3, <2>2, <2>4 DEF UpIn
    <3>2. j # 1
      BY <2>2, <3>1
    <3>3. PICK h \in 1..n : j = h + 1
      BY <1>3, <3>2
    <3>4. Tells(t, id, h) /\ t[h].event = "OPEN"
      BY <1>2, <3>1, <3>3
    <3>5. ASSUME NEW k \in 1..n, Tells(t, id, k) PROVE k <= h
      <4>1. k + 1 \in 1..(n + 1) /\ Tells(q, id, k + 1)
        BY <1>2, <1>3, <3>5
      <4>2. k + 1 <= h + 1
        BY <3>1, <3>3, <4>1
      <4>3. QED
        BY <1>3, <4>2
    <3>6. QED
      BY <3>4, <3>5 DEF UpIn
  <2>5. QED
    BY <2>3, <2>4 DEF t
<1>6. QED
  BY <1>4, <1>5
\* Closes of open sockets, reported in any order, match.
LEMMA MatchesCloses ==
  ASSUME NEW q \in Seq(EventRecord), NEW r \in Seq(EventRecord), NEW C, NEW H, Matches(q, C, H),
         \A j \in 1..Len(r) : r[j].event = "CLOSE"
  PROVE  Matches(q \o r, C, {id \in H : \A j \in 1..Len(r) : r[j].id # id})
<1> DEFINE p == q \o r
           K == {id \in H : \A j \in 1..Len(r) : r[j].id # id}
<1>1. /\ Len(q) \in Nat /\ Len(r) \in Nat /\ Len(p) = Len(q) + Len(r)
      /\ \A j \in 1..Len(q) : p[j] = q[j]
      /\ \A j \in 1..Len(r) : p[Len(q) + j] = r[j]
  OBVIOUS
<1>2. ASSUME NEW i \in 1..Len(p)
      PROVE  /\ p[i].event = "OPEN" => ~UpIn(p, p[i].id \in C, p[i].id, i - 1)
             /\ p[i].event = "MESSAGE" => UpIn(p, p[i].id \in C, p[i].id, i - 1)
  <2>1. CASE i \in 1..Len(q)
    <3>1. p[i] = q[i] /\ i - 1 \in 0..Len(q)
      BY <1>1, <2>1
    <3>2. ASSUME NEW on, NEW id PROVE UpIn(p, on, id, i - 1) <=> UpIn(q, on, id, i - 1)
      BY <3>1, UpAppended
    <3>3. UpIn(p, q[i].id \in C, q[i].id, i - 1) <=> UpIn(q, q[i].id \in C, q[i].id, i - 1)
      BY <3>2
    <3>4. QED
      BY <2>1, <3>1, <3>3 DEF Matches
  <2>2. CASE i \notin 1..Len(q)
    <3>1. i - Len(q) \in 1..Len(r) /\ i = Len(q) + (i - Len(q))
      BY <1>1, <2>2
    <3>2. p[i].event = "CLOSE"
      BY <1>1, <3>1
    <3>3. QED
      BY <3>2
  <2>3. QED
    BY <2>1, <2>2
<1>3. ASSUME NEW id \in Socket PROVE UpIn(p, id \in C, id, Len(p)) <=> id \in K
  <2>1. UpIn(p, id \in C, id, Len(p)) <=>
          /\ \A j \in 1..Len(r) : r[j].id # id
          /\ UpIn(q, id \in C, id, Len(q))
    BY UpAppended
  <2>2. UpIn(q, id \in C, id, Len(q)) <=> id \in H
    BY DEF Matches
  <2>3. QED
    BY <2>1, <2>2
<1>4. QED
  BY <1>2, <1>3 DEF Matches

\* An open of a peer without a socket matches once it has one, a close once it has none,
\* and a message if it has one.
LEMMA MatchesAfter ==
  ASSUME NEW q \in Seq(EventRecord), NEW e \in EventRecord, NEW C, NEW H, Matches(q, C, H),
         NEW K,
         \/ e.event = "OPEN" /\ e.id \notin H /\ K = H \cup {e.id}
         \/ e.event = "CLOSE" /\ K = H \ {e.id}
         \/ e.event = "MESSAGE" /\ e.id \in H /\ K = H
  PROVE  Matches(Append(q, e), C, K)
<1> DEFINE p == Append(q, e)
           n == Len(q) + 1
<1>1. /\ Len(q) \in Nat /\ Len(p) = n /\ p[n] = e /\ n - 1 = Len(q)
      /\ \A j \in 1..Len(q) : p[j] = q[j]
      /\ \A i \in 1..n : i \in 1..Len(q) \/ i = n
      /\ e.id \in Socket
      /\ \A i \in 1..n : i - 1 \in 0..Len(q)
  BY DEF EventRecord
<1>2. ASSUME NEW on, NEW id, NEW i \in 0..Len(q)
      PROVE  UpIn(p, on, id, i) <=> UpIn(q, on, id, i)
  <2>1. <<e>> \in Seq(EventRecord) /\ p = q \o <<e>>
    OBVIOUS
  <2>2. UpIn(q \o <<e>>, on, id, i) <=> UpIn(q, on, id, i)
    BY <1>1, <2>1, UpAppended
  <2>3. QED
    BY <2>1, <2>2
<1>3. ASSUME NEW on, NEW id
      PROVE  UpIn(p, on, id, n) <=>
               IF e.id = id /\ e.event # "MESSAGE" THEN e.event = "OPEN"
               ELSE UpIn(q, on, id, Len(q))
  BY <1>1, UpAfter
<1>4. \A id \in Socket : UpIn(q, id \in C, id, Len(q)) <=> id \in H
  BY DEF Matches
<1> HIDE DEF p, n
<1>5. ASSUME NEW i \in 1..n
      PROVE  /\ p[i].event = "OPEN" => ~UpIn(p, p[i].id \in C, p[i].id, i - 1)
             /\ p[i].event = "MESSAGE" => UpIn(p, p[i].id \in C, p[i].id, i - 1)
  <2>1. CASE i \in 1..Len(q)
    <3>1. p[i] = q[i]
      BY <1>1, <2>1
    <3>2. UpIn(p, q[i].id \in C, q[i].id, i - 1) <=> UpIn(q, q[i].id \in C, q[i].id, i - 1)
      BY <1>1, <1>2
    <3>3. QED
      BY <2>1, <3>1, <3>2 DEF Matches
  <2>2. CASE i = n
    <3>1. p[i] = e
      BY <1>1, <2>2
    <3>2. UpIn(p, e.id \in C, e.id, i - 1) <=> UpIn(q, e.id \in C, e.id, i - 1)
      BY <1>1, <1>2
    <3>3. UpIn(q, e.id \in C, e.id, i - 1) <=> e.id \in H
      BY <1>1, <1>4, <2>2
    <3>4. QED
      BY <3>1, <3>2, <3>3
  <2>3. QED
    BY <1>1, <2>1, <2>2
<1>6. ASSUME NEW id \in Socket PROVE UpIn(p, id \in C, id, n) <=> id \in K
  <2>1. CASE e.id = id
    BY <1>3, <1>4, <2>1
  <2>2. CASE e.id # id
    BY <1>3, <1>4, <2>2
  <2>3. QED
    BY <2>1, <2>2
<1>7. QED
  BY <1>1, <1>5, <1>6 DEF Matches, p, n

\* What is left matches, once the game thread has taken the first event.
LEMMA MatchesTaken ==
  ASSUME NEW q \in Seq(EventRecord), q # <<>>, NEW C, NEW H, Matches(q, C, H), NEW D,
         \A id \in Socket : IF Tells(q, id, 1) THEN id \in D <=> q[1].event = "OPEN"
                            ELSE id \in D <=> id \in C
  PROVE  Matches(Tail(q), D, H)
<1> DEFINE t == Tail(q)
<1>1. /\ Len(q) \in Nat \ {0} /\ Len(t) = Len(q) - 1
      /\ \A j \in 1..Len(t) : t[j] = q[j + 1] /\ j + 1 \in 1..Len(q) /\ j \in 1..Len(q)
                              /\ q[j + 1] \in EventRecord
      /\ Len(t) + 1 = Len(q) /\ Len(t) \in 0..(Len(q) - 1)
  OBVIOUS
<1>2. ASSUME NEW id \in Socket, NEW i \in 0..(Len(q) - 1)
      PROVE  UpIn(t, id \in D, id, i) <=> UpIn(q, id \in C, id, i + 1)
  <2>1. IF Tells(q, id, 1) THEN id \in D <=> q[1].event = "OPEN" ELSE id \in D <=> id \in C
    OBVIOUS
  <2>2. QED
    BY <2>1, UpTaken
<1> HIDE DEF t
<1>3. ASSUME NEW i \in 1..Len(t)
      PROVE  /\ t[i].event = "OPEN" => ~UpIn(t, t[i].id \in D, t[i].id, i - 1)
             /\ t[i].event = "MESSAGE" => UpIn(t, t[i].id \in D, t[i].id, i - 1)
  <2>1. t[i] = q[i + 1] /\ i + 1 \in 1..Len(q) /\ q[i + 1].id \in Socket
        /\ i - 1 \in 0..(Len(q) - 1) /\ i - 1 + 1 = i /\ i + 1 - 1 = i
    BY <1>1 DEF EventRecord
  <2>2. UpIn(t, t[i].id \in D, t[i].id, i - 1) <=> UpIn(q, t[i].id \in C, t[i].id, i)
    BY <1>2, <2>1
  <2>3. QED
    BY <2>1, <2>2 DEF Matches
<1>4. ASSUME NEW id \in Socket PROVE UpIn(t, id \in D, id, Len(t)) <=> id \in H
  BY <1>1, <1>2 DEF Matches
<1>5. QED
  BY <1>3, <1>4 DEF Matches, t
\* The peers that have a socket stay the same where no socket opens or closes.
LEMMA ServedSame ==
  ASSUME \A r \in Socket : /\ Open(r)' <=> Open(r)
                           /\ Open(r) => sockets'[r].id = sockets[r].id
  PROVE  Served' = Served
BY DEF Served

\* Nothing is told, and nothing has to be.
LEMMA EventsStay ==
  ASSUME EventsInv, UNCHANGED game,
         \A r \in Socket : /\ Open(r)' <=> Open(r)
                           /\ Open(r) => sockets'[r].id = sockets[r].id
  PROVE  EventsInv'
<1>1. Served' = Served
  BY ServedSame
<1>2. receive_queue' = receive_queue /\ ConnectedPeers' = ConnectedPeers
  BY DEF game, ConnectedPeers
<1>3. QED
  BY <1>1, <1>2 DEF EventsInv

\* Two open sockets do not share an id, where every open socket is found under its id.
LEMMA OneSocket ==
  ASSUME Registered, NEW r \in Socket, NEW s \in Socket, Open(r), Open(s),
         sockets[r].id = sockets[s].id
  PROVE  r = s
BY DEF Registered

\* What on_close tells of sockets W.
LEMMA CloseEventIds ==
  ASSUME SocketAssumption, NEW W, W \subseteq Socket, NEW order \in Orders(W)
  PROVE  LET r == CloseEvents(order) IN
         /\ \A j \in 1..Len(r) : r[j].event = "CLOSE"
         /\ \A id : (\A j \in 1..Len(r) : r[j].id # id) <=> \A w \in W : sockets[w].id # id
<1> DEFINE r == CloseEvents(order)
<1>1. order \in Seq(W) /\ Range(order) = W
  BY OrderFacts
<1>2. Len(order) \in Nat /\ DOMAIN order = 1..Len(order)
  BY <1>1
<1>3. Len(r) = Len(order) /\ \A j \in 1..Len(order) : r[j] = Event(sockets[order[j]].id, "CLOSE")
  BY <1>2 DEF CloseEvents
<1>4. \A w : w \in W <=> \E j \in 1..Len(order) : order[j] = w
  BY <1>1, <1>2 DEF Range
<1> HIDE DEF r
<1>5. \A j \in 1..Len(r) : r[j].event = "CLOSE" /\ r[j].id = sockets[order[j]].id
  <2>1. \A id : Event(id, "CLOSE").event = "CLOSE" /\ Event(id, "CLOSE").id = id
    BY DEF Event
  <2>2. QED
    BY <1>3, <2>1
<1>6. \A id : (\A j \in 1..Len(r) : r[j].id # id) <=> \A w \in W : sockets[w].id # id
  <2> TAKE id
  <2>1. ASSUME NEW w \in W, sockets[w].id = id PROVE \E j \in 1..Len(r) : r[j].id = id
    <3>1. PICK j \in 1..Len(order) : order[j] = w
      BY <1>4
    <3>2. j \in 1..Len(r) /\ r[j].id = id
      BY <1>3, <1>5, <2>1, <3>1
    <3>3. QED
      BY <3>2
  <2>2. ASSUME NEW j \in 1..Len(r), r[j].id = id PROVE \E w \in W : sockets[w].id = id
    <3>1. order[j] \in W
      BY <1>3, <1>4
    <3>2. QED
      BY <1>5, <2>2, <3>1
  <2>3. QED
    BY <2>1, <2>2
<1>7. QED
  BY <1>5, <1>6 DEF r

\* What on_close of open sockets W tells the game thread matches what is left.
LEMMA ClosesMatch ==
  ASSUME SocketAssumption, TypeInv, EventsInv, NEW W, W \subseteq OpenSockets,
         NEW order \in Orders(W)
  PROVE  /\ receive_queue \o CloseEvents(order) \in Seq(EventRecord)
         /\ Matches(receive_queue \o CloseEvents(order), ConnectedPeers,
                    {id \in Served : \A w \in W : sockets[w].id # id})
<1> DEFINE r == CloseEvents(order)
<1>1. W \subseteq Socket
  BY DEF OpenSockets
<1>2. /\ r \in Seq(EventRecord) /\ receive_queue \in Seq(EventRecord)
      /\ receive_queue \o r \in Seq(EventRecord)
  BY <1>1, CloseEventTypes DEF TypeInv, ServerTypes
<1>3. /\ \A j \in 1..Len(r) : r[j].event = "CLOSE"
      /\ \A id : (\A j \in 1..Len(r) : r[j].id # id) <=> \A w \in W : sockets[w].id # id
  BY <1>1, CloseEventIds
<1> HIDE DEF r
<1>4. Matches(receive_queue \o r, ConnectedPeers,
              {id \in Served : \A j \in 1..Len(r) : r[j].id # id})
  BY <1>2, <1>3, MatchesCloses DEF EventsInv
<1>5. {id \in Served : \A j \in 1..Len(r) : r[j].id # id} =
        {id \in Served : \A w \in W : sockets[w].id # id}
  BY <1>3
<1>6. QED
  BY <1>2, <1>4, <1>5 DEF r

\* on_close for open sockets.
LEMMA ClosingEvents ==
  ASSUME SocketAssumption, TypeInv, Registered, EventsInv, NEW W, W \subseteq OpenSockets, Close(W),
         NEW order \in Orders(W), receive_queue' = receive_queue \o CloseEvents(order),
         UNCHANGED game_peers
  PROVE  EventsInv'
<1>1. \A s \in Socket : /\ Open(s)' <=> Open(s) /\ s \notin W
                        /\ sockets'[s].id = sockets[s].id
  BY StillOpen DEF Close
<1>2. \A w \in W : w \in Socket /\ Open(w)
  BY DEF OpenSockets
<1>3. Served' = {id \in Served : \A w \in W : sockets[w].id # id}
  <2>1. ASSUME NEW id \in Served'
        PROVE  id \in Served /\ \A w \in W : sockets[w].id # id
    BY <1>1, <1>2, OneSocket DEF Served
  <2>2. ASSUME NEW id \in Served, \A w \in W : sockets[w].id # id
        PROVE  id \in Served'
    BY <1>1, <2>2 DEF Served
  <2>3. QED
    BY <2>1, <2>2
<1>4. ConnectedPeers' = ConnectedPeers
  BY DEF ConnectedPeers
<1>5. QED
  BY <1>3, <1>4, ClosesMatch DEF EventsInv

\* on_open, where it enters the socket: its open event follows the closes of the sockets
\* that the peer had.
LEMMA RegisterEvents ==
  ASSUME SocketAssumption, TypeInv, Holds, HomeInv, EventsInv, NEW s \in Undecided,
         NEW id \in Socket, NEW W, Register(s, id, W), UNCHANGED game_peers,
         \/ id = s /\ W = {}
         \/ W = SocketsOf({id})
  PROVE  EventsInv'
<1>1. W \subseteq OpenSockets
  BY SocketsOfOpen DEF Holds
<1>2. PICK order \in Orders(W) :
        receive_queue' = receive_queue \o CloseEvents(order) \o <<Event(id, "OPEN")>>
  BY DEF Register
<1> DEFINE q == receive_queue \o CloseEvents(order)
           e == Event(id, "OPEN")
           H == {x \in Served : \A w \in W : sockets[w].id # x}
<1>3. q \in Seq(EventRecord) /\ Matches(q, ConnectedPeers, H)
  BY <1>1, ClosesMatch
<1>4. e \in EventRecord /\ e.event = "OPEN" /\ e.id = id
  BY DEF Event, EventRecord
<1>5. s \in Socket /\ ~Open(s) /\ \A w \in W : w \in Socket /\ Open(w) /\ w # s
  BY <1>1 DEF Undecided, Open, OpenSockets
<1>6. id \notin H
  <2>1. SUFFICES ASSUME NEW r \in Socket, Open(r), sockets[r].id = id
                 PROVE  r \in W
    BY DEF Served
  <2>2. CASE id = s
    <3>1. r = s
      BY <1>5, <2>1, <2>2 DEF HomeInv, FreshInv, Undecided
    <3>2. QED
      BY <1>5, <2>1, <3>1
  <2>3. CASE W = SocketsOf({id})
    <3>1. SocketOf(id) = r /\ r # NoSocket
      BY <2>1 DEF HomeInv, Registered, SocketAssumption
    <3>2. QED
      BY <2>3, <3>1 DEF SocketsOf
  <2>4. QED
    BY <2>2, <2>3
<1>7. /\ sockets'[s].id = id /\ Open(s)'
      /\ \A r \in Socket \ {s} : /\ Open(r)' <=> Open(r) /\ r \notin W
                                 /\ sockets'[r].id = sockets[r].id
  <2>1. sockets \in [Socket -> PerSocketData]
    BY DEF TypeInv, ServerTypes
  <2>2. sockets' = [Closed(W) EXCEPT ![s].state = "open", ![s].id = id]
    BY DEF Register
  <2>3. /\ Closed(W) \in [Socket -> PerSocketData]
        /\ \A r \in Socket : /\ Closed(W)[r].id = sockets[r].id
                             /\ Closed(W)[r].state = IF r \in W THEN "closed" ELSE sockets[r].state
    BY <2>1 DEF Closed, PerSocketData
  <2>4. sockets'[s].id = id /\ sockets'[s].state = "open"
    BY <1>5, <2>2, <2>3 DEF PerSocketData
  <2>5. \A r \in Socket \ {s} : sockets'[r] = Closed(W)[r]
    BY <1>5, <2>2, <2>3
  <2>6. QED
    BY <2>3, <2>4, <2>5 DEF Open
<1>8. Served' = H \cup {id}
  <2>1. ASSUME NEW x \in Served', x # id PROVE x \in H
    <3>1. PICK r \in Socket : Open(r)' /\ sockets'[r].id = x
      BY DEF Served
    <3>2. r # s /\ Open(r) /\ r \notin W /\ sockets[r].id = x
      BY <1>7, <2>1, <3>1
    <3>3. \A w \in W : sockets[w].id # x
      BY <1>5, <3>2, OneSocket DEF HomeInv
    <3>4. QED
      BY <3>2, <3>3 DEF Served
  <2>2. ASSUME NEW x \in H PROVE x \in Served'
    <3>1. PICK r \in Socket : Open(r) /\ sockets[r].id = x
      BY DEF Served
    <3>2. r \notin W /\ r # s
      BY <1>5, <3>1
    <3>3. QED
      BY <1>7, <3>1, <3>2 DEF Served
  <2>3. id \in Served'
    BY <1>5, <1>7 DEF Served
  <2>4. QED
    BY <2>1, <2>2, <2>3
<1>9. ConnectedPeers' = ConnectedPeers
  BY DEF ConnectedPeers
<1>10. receive_queue' = Append(q, e)
  <2>1. q \o <<e>> = Append(q, e)
    BY <1>3, <1>4
  <2>2. QED
    BY <1>2, <2>1
<1> HIDE DEF q, e, H
<1>11. Matches(Append(q, e), ConnectedPeers, H \cup {id})
  BY <1>3, <1>4, <1>6, MatchesAfter
<1>12. QED
  BY <1>8, <1>9, <1>10, <1>11 DEF EventsInv
\* on_open, where it ends the socket: the close event is about a peer that never had one.
LEMMA RefuseEvents ==
  ASSUME TypeInv, FreshInv, EventsInv, NEW s \in Undecided, NEW k, RefuseOpen(s, s, k),
         UNCHANGED game_peers
  PROVE  EventsInv'
<1> DEFINE e == Event(s, "CLOSE")
<1>1. e \in EventRecord /\ e.event = "CLOSE" /\ e.id = s
  BY DEF Event, EventRecord, Undecided
<1>2. s \in Socket /\ ~Open(s) /\ sockets[s].id = s
  BY DEF Undecided, Open, FreshInv
<1>3. s \notin Served
  BY <1>2 DEF Served, FreshInv, Undecided
<1>4. Served' = Served
  <2>1. sockets \in [Socket -> PerSocketData]
    BY DEF TypeInv, ServerTypes
  <2>2. sockets' = [sockets EXCEPT ![s].state = "closed", ![s].id = s]
    BY DEF RefuseOpen
  <2>3. /\ \A r \in Socket \ {s} : sockets'[r] = sockets[r]
        /\ sockets'[s].state = "closed"
    BY <1>2, <2>1, <2>2 DEF PerSocketData
  <2>4. \A r \in Socket : /\ Open(r)' <=> Open(r)
                          /\ Open(r) => sockets'[r].id = sockets[r].id
    BY <1>2, <2>3 DEF Open
  <2>5. QED
    BY <2>4, ServedSame
<1>5. receive_queue' = Append(receive_queue, e) /\ ConnectedPeers' = ConnectedPeers
  BY DEF RefuseOpen, ConnectedPeers
<1>6. Served = Served \ {s} /\ receive_queue \in Seq(EventRecord)
  BY <1>3 DEF TypeInv, ServerTypes
<1> HIDE DEF e
<1>7. Matches(Append(receive_queue, e), ConnectedPeers, Served)
  BY <1>1, <1>6, MatchesAfter DEF EventsInv
<1>8. QED
  BY <1>4, <1>5, <1>7 DEF EventsInv

\* So does on_open, whatever it makes of the token.
LEMMA OpenEvents ==
  ASSUME SocketAssumption, TypeInv, Holds, HomeInv, EventsInv, NEW s \in Undecided,
         on_open(s, s), UNCHANGED game_peers
  PROVE  EventsInv'
<1> DEFINE k == Key(sockets[s].game_id, sockets[s].reconnection_token)
           old == reconnections[k].peer_id
<1>0. s \in Socket
  BY DEF Undecided
<1>1. CASE Register(s, s, {})
  BY <1>0, <1>1, RegisterEvents
<1>2. CASE RefuseOpen(s, s, k)
  BY <1>2, RefuseEvents DEF HomeInv
<1>3. CASE k \in DOMAIN reconnections /\ Register(s, old, Replaced(old))
  <2>1. old \in Socket
    BY <1>3 DEF TypeInv, ServerTypes, ReconnectionToken
  <2>2. Replaced(old) = SocketsOf({old})
    BY DEF Replaced
  <2> HIDE DEF old
  <2>3. QED
    BY <1>3, <2>1, <2>2, RegisterEvents
<1>4. QED
  BY <1>1, <1>2, <1>3 DEF on_open

\* A message is told of a peer that has a socket.
LEMMA MessageEvents ==
  ASSUME TypeInv, EventsInv, NEW s \in Socket, Open(s), UNCHANGED game_peers,
         receive_queue' = Append(receive_queue, Event(sockets[s].id, "MESSAGE")),
         Served' = Served
  PROVE  EventsInv'
<1> DEFINE e == Event(sockets[s].id, "MESSAGE")
<1>1. sockets[s].id \in Socket
  BY DEF TypeInv, ServerTypes, PerSocketData
<1>2. e \in EventRecord /\ e.event = "MESSAGE" /\ e.id = sockets[s].id
  BY <1>1 DEF Event, EventRecord
<1>3. e.id \in Served
  BY <1>1, <1>2 DEF Served
<1>4. receive_queue' = Append(receive_queue, e) /\ ConnectedPeers' = ConnectedPeers
  BY DEF ConnectedPeers
<1>5. receive_queue \in Seq(EventRecord)
  BY DEF TypeInv, ServerTypes
<1> HIDE DEF e
<1>6. Matches(Append(receive_queue, e), ConnectedPeers, Served)
  BY <1>2, <1>3, <1>5, MatchesAfter DEF EventsInv
<1>7. QED
  BY <1>4, <1>6 DEF EventsInv

\* handle_events makes of its map what the event says.
LEMMA HandleEvents ==
  ASSUME TypeInv, EventsInv, handle_events
  PROVE  EventsInv'
<1> DEFINE e == Head(receive_queue)
<1>1. receive_queue \in Seq(EventRecord) /\ receive_queue # <<>>
      /\ receive_queue' = Tail(receive_queue) /\ UNCHANGED sockets
  BY DEF handle_events, TypeInv, ServerTypes
<1>2. e = receive_queue[1] /\ e \in EventRecord
  BY <1>1
<1>3. Served' = Served
  BY <1>1 DEF Served, Open
<1> HIDE DEF e
<1>4. ASSUME NEW id \in Socket
      PROVE  IF e.id = id /\ e.event # "MESSAGE" THEN id \in ConnectedPeers' <=> e.event = "OPEN"
             ELSE id \in ConnectedPeers' <=> id \in ConnectedPeers
  <2>1. CASE e.event = "OPEN" /\ game_peers' = Put(game_peers, e.id, "connected")
    <3>1. /\ DOMAIN game_peers' = DOMAIN game_peers \cup {e.id}
          /\ game_peers'[e.id] = "connected"
          /\ \A x \in DOMAIN game_peers \ {e.id} : game_peers'[x] = game_peers[x]
      BY <2>1 DEF Put
    <3>2. QED
      BY <2>1, <3>1 DEF ConnectedPeers
  <2>2. CASE /\ e.event = "CLOSE"
             /\ game_peers' = [x \in DOMAIN game_peers |->
                                 IF x = e.id THEN "disconnected" ELSE game_peers[x]]
    BY <2>2 DEF ConnectedPeers
  <2>3. CASE e.event = "MESSAGE" /\ game_peers' = game_peers
    BY <2>3 DEF ConnectedPeers
  <2>4. QED
    BY <2>1, <2>2, <2>3 DEF handle_events, e
<1>5. Matches(Tail(receive_queue), ConnectedPeers', Served)
  <2>1. \A id \in Socket :
          IF Tells(receive_queue, id, 1)
          THEN id \in ConnectedPeers' <=> receive_queue[1].event = "OPEN"
          ELSE id \in ConnectedPeers' <=> id \in ConnectedPeers
    BY <1>2, <1>4 DEF Tells
  <2>2. QED
    BY <1>1, <2>1, MatchesTaken DEF EventsInv
<1>6. QED
  BY <1>1, <1>3, <1>5 DEF EventsInv

\* EventsInv is inductive with HomeInv, where the database gives no ids.
LEMMA EventsStep ==
  ASSUME Assumptions, ~DbEnabled, TypeInv, QueueInv, Holds, HomeInv, EventsInv, [Next]_vars
  PROVE  EventsInv'
<1>0. sockets \in [Socket -> PerSocketData]
  BY DEF TypeInv, ServerTypes
<1>1. ASSUME NEW s \in Socket, ~Open(s), UNCHANGED game,
             \A r \in Socket \ {s} : sockets'[r] = sockets[r],
             sockets'[s].state # "open"
      PROVE  EventsInv'
  BY <1>1, EventsStay DEF Open
<1>2. ASSUME NEW s \in Socket, on_upgrade(s) PROVE EventsInv'
  <2>1. sockets[s].state = "new" /\ UNCHANGED game
    BY <1>2 DEF on_upgrade
  <2>2. CASE sockets' = Closed({s})
    BY <1>0, <1>1, <2>1, <2>2 DEF Closed, Open, PerSocketData
  <2>3. ASSUME NEW g \in GameId, NEW t \in Token,
               sockets' = [sockets EXCEPT ![s].state = "authenticating", ![s].game_id = g,
                                          ![s].reconnection_token = t]
        PROVE  EventsInv'
    BY <1>0, <1>1, <2>1, <2>3 DEF Open, PerSocketData
  <2>4. QED
    BY <1>2, <2>2, <2>3 DEF on_upgrade
<1>3. ASSUME NEW s \in Socket, on_aborted(s) PROVE EventsInv'
  <2>1. sockets[s].state = "authenticating" /\ UNCHANGED game
    BY <1>3 DEF on_aborted
  <2>2. CASE sockets' = [sockets EXCEPT ![s].state = "aborted"]
    BY <1>0, <1>1, <2>1, <2>2 DEF Open, PerSocketData
  <2>3. CASE sockets' = sockets
    BY <2>1, <2>3, EventsStay DEF Open
  <2>4. QED
    BY <1>3, <2>2, <2>3 DEF on_aborted
<1>4. CASE AuthenticationThread_run
  <2> DEFINE s == Head(authentication_queue)
  <2>1. PICK answer \in Answers(s) :
          sockets' = [sockets EXCEPT ![s].reconnection_token = answer.token]
    BY <1>4 DEF AuthenticationThread_run
  <2>2. s \in Undecided /\ UNCHANGED game
    BY <1>4, NextAttempt DEF AuthenticationThread_run, Assumptions
  <2> HIDE DEF s
  <2>3. s \in Socket /\ sockets[s].state \in {"authenticating", "aborted"}
    BY <2>2 DEF Undecided
  <2>4. QED
    BY <1>0, <1>1, <2>1, <2>2, <2>3 DEF Open, PerSocketData
<1>5. ASSUME NEW W, W \subseteq OpenSockets, Close(W), NEW order \in Orders(W),
             receive_queue' = receive_queue \o CloseEvents(order), UNCHANGED game_peers
      PROVE  EventsInv'
  BY <1>5, ClosingEvents DEF Assumptions, HomeInv
<1>6. ASSUME NEW W, sockets' = Closed(W) PROVE Close(W)
  BY <1>0, <1>6 DEF Close, Closed, PerSocketData
<1>7. ASSUME NEW s \in Socket, on_message(s) PROVE EventsInv'
  <2> DEFINE W == SocketsOf({sockets[s].id})
  <2>1. PICK count :
          \/ /\ sockets' = [sockets EXCEPT ![s].message_count = count]
             /\ receive_queue' = Append(receive_queue, Event(sockets[s].id, "MESSAGE"))
          \/ /\ sockets' = [Closed(W) EXCEPT ![s].message_count = count]
             /\ \E order \in Orders(W) : Closing(order)
    BY <1>7 DEF on_message
  <2>2. W \subseteq OpenSockets /\ UNCHANGED game_peers /\ Open(s)
    BY <1>7, SocketsOfOpen DEF on_message, Holds
  <2> HIDE DEF W
  <2>3. CASE /\ sockets' = [sockets EXCEPT ![s].message_count = count]
             /\ receive_queue' = Append(receive_queue, Event(sockets[s].id, "MESSAGE"))
    <3>1. \A r \in Socket : /\ Open(r)' <=> Open(r)
                            /\ Open(r) => sockets'[r].id = sockets[r].id
      BY <1>0, <2>3 DEF PerSocketData, Open
    <3>2. Served' = Served
      BY <3>1, ServedSame
    <3>3. QED
      BY <2>2, <2>3, <3>2, MessageEvents
  <2>4. ASSUME sockets' = [Closed(W) EXCEPT ![s].message_count = count],
               NEW order \in Orders(W), Closing(order)
        PROVE  EventsInv'
    <3>1. W \subseteq Socket
      BY <2>2 DEF OpenSockets
    <3>2. Closed(W) \in [Socket -> PerSocketData]
      BY <3>1, ClosedTypes DEF Assumptions
    <3>3. \A r \in Socket : /\ sockets'[r].id = Closed(W)[r].id
                            /\ sockets'[r].state = Closed(W)[r].state
                            /\ sockets'[r].game_id = Closed(W)[r].game_id
                            /\ sockets'[r].reconnection_token = Closed(W)[r].reconnection_token
      BY <2>4, <3>2 DEF PerSocketData
    <3>4. Close(W)
      BY <1>0, <3>3 DEF Close, Closed, PerSocketData
    <3>5. QED
      BY <1>5, <2>2, <2>4, <3>4 DEF Closing
  <2>5. QED
    BY <2>1, <2>3, <2>4
<1>8. ASSUME NEW s \in Socket, on_close(s) PROVE EventsInv'
  <2>1. {s} \subseteq OpenSockets /\ <<s>> \in Orders({s})
    <3>1. Cardinality({s}) = 1
      BY FS_Singleton
    <3>2. /\ <<s>> \in [1..1 -> {s}]
          /\ \A a, b \in DOMAIN <<s>> : <<s>>[a] = <<s>>[b] => a = b
          /\ \A t \in {s} : \E a \in 1..1 : <<s>>[a] = t
      OBVIOUS
    <3>3. <<s>> \in Orders({s})
      BY <3>1, <3>2 DEF Orders, Bijection, Injection, Surjection, IsInjective
    <3>4. QED
      BY <1>8, <3>3 DEF on_close, OpenSockets
  <2>2. Close({s})
    BY <1>6, <1>8 DEF on_close
  <2>3. receive_queue' = receive_queue \o CloseEvents(<<s>>) /\ UNCHANGED game_peers
    BY <1>8 DEF on_close, Closing
  <2>4. QED
    BY <1>5, <2>1, <2>2, <2>3
<1>9. CASE run_deferred
  <2> DEFINE call == Head(deferred)
             s == call.socket
             W == SocketsOf(call.ids)
  <2>1. (call.do \in Decisions => s \in Undecided) /\ UNCHANGED game_peers
    BY <1>9, NextCallback DEF run_deferred
  <2>2. W \subseteq OpenSockets
    BY SocketsOfOpen DEF Holds
  <2>3. \/ call.do \in Decisions /\ sockets' = Closed({s}) /\ UNCHANGED receive_queue
        \/ call.do \in Decisions /\ on_open(s, sockets[s].id)
        \/ /\ sockets' = Closed(W)
           /\ \E order \in Orders(W) : receive_queue' = receive_queue \o CloseEvents(order)
    BY <1>9 DEF run_deferred, Decisions, upgrade_anon, clear_users, Closing
  <2> HIDE DEF s, W
  <2>4. CASE call.do \in Decisions /\ sockets' = Closed({s}) /\ UNCHANGED receive_queue
    <3>1. s \in Socket /\ ~Open(s) /\ UNCHANGED game
      BY <2>1, <2>4 DEF Undecided, Open, game
    <3>2. QED
      BY <1>0, <1>1, <2>4, <3>1 DEF Closed, PerSocketData
  <2>5. CASE call.do \in Decisions /\ on_open(s, sockets[s].id)
    <3>1. s \in Undecided /\ sockets[s].id = s
      BY <2>1, <2>5 DEF Undecided, HomeInv, FreshInv
    <3>2. on_open(s, s)
      BY <2>5, <3>1
    <3>3. QED
      BY <2>1, <3>1, <3>2, OpenEvents DEF Assumptions
  <2>6. CASE /\ sockets' = Closed(W)
             /\ \E order \in Orders(W) : receive_queue' = receive_queue \o CloseEvents(order)
    BY <1>5, <1>6, <2>1, <2>2, <2>6
  <2>7. QED
    BY <2>3, <2>4, <2>5, <2>6
<1>10. CASE handle_events
  BY <1>10, HandleEvents
<1>11. ASSUME NEW to_erase \in SUBSET Disconnected, handle_disconnects(to_erase)
       PROVE  EventsInv'
  <2>1. /\ game_peers' = Drop(game_peers, to_erase) /\ UNCHANGED <<sockets, receive_queue>>
        /\ \A id \in to_erase : game_peers[id] = "disconnected"
    BY <1>11 DEF handle_disconnects, Disconnected
  <2>2. ConnectedPeers' = ConnectedPeers
    BY <2>1 DEF ConnectedPeers, Drop, Restrict
  <2>3. Served' = Served
    BY <2>1 DEF Served, Open
  <2>4. QED
    BY <2>1, <2>2, <2>3 DEF EventsInv
<1>12. ASSUME UNCHANGED <<sockets, game>> PROVE EventsInv'
  BY <1>12, EventsStay DEF Open
<1>13. CASE time_passes
  BY <1>12, <1>13 DEF time_passes
<1>14. CASE UNCHANGED vars
  BY <1>12, <1>14 DEF vars
<1>15. CASE verify_jwt
  BY <1>12, <1>15 DEF verify_jwt
<1>16. QED
  BY <1>2, <1>3, <1>4, <1>7, <1>8, <1>9, <1>10, <1>11, <1>13, <1>14, <1>15 DEF Next, Handler

-----------------------------------------------------------------------------
(* Theorems *)

ServerInv == TypeInv /\ QueueInv /\ LoginInv /\ Holds

\* The server starts without sockets, entries, tokens and callbacks.
LEMMA InitServer == Assumptions /\ Init => ServerInv /\ HomeInv
<1> SUFFICES ASSUME Assumptions, Init PROVE ServerInv /\ HomeInv
  OBVIOUS
<1>1. sockets \in [Socket -> PerSocketData] /\ \A s \in Socket : ~Open(s) /\ sockets[s].id = s
  BY DEF Init, NewSocket, PerSocketData, Open, Assumptions, LimitAssumption
<1>2. /\ connection_data = <<>> /\ reconnections = <<>> /\ db_peers = <<>> /\ game_peers = <<>>
      /\ authentication_queue = <<>> /\ deferred = <<>> /\ receive_queue = <<>>
      /\ connected_users = 0 /\ undefined = FALSE
  BY DEF Init
<1>3. DOMAIN connection_data = {} /\ DOMAIN reconnections = {} /\ DOMAIN db_peers = {}
      /\ DOMAIN game_peers = {}
  BY <1>2
<1>4. /\ connection_data \in [DOMAIN connection_data -> PeerConnectionData]
      /\ reconnections \in [DOMAIN reconnections -> ReconnectionToken]
      /\ db_peers \in [DOMAIN db_peers -> Socket]
  BY <1>2, <1>3
<1>5. TypeInv
  <2>1. <<>> \in Seq(EventRecord) /\ <<>> \in Seq(Socket) /\ <<>> \in Seq(Call)
    OBVIOUS
  <2>2. receive_queue \in Seq(EventRecord) /\ authentication_queue \in Seq(Socket)
        /\ deferred \in Seq(Call)
    BY <1>2, <2>1
  <2>31. connected_users \in Int
    BY <1>2
  <2>32. undefined \in BOOLEAN
    BY <1>2, Zenon
  <2>4. /\ DOMAIN connection_data \subseteq Socket
        /\ DOMAIN db_peers \subseteq Token \X GameId
        /\ DOMAIN game_peers \subseteq Socket
    BY <1>3
  <2>5. ServerTypes
    BY <1>1, <1>4, <2>2, <2>31, <2>4 DEF ServerTypes
  <2>6. QED
    BY <1>4, <2>2, <2>32, <2>4, <2>5 DEF TypeInv
<1>6. Len(deferred) = 0 /\ Len(authentication_queue) = 0
  BY <1>2
<1>7. QueueInv
  BY <1>6 DEF QueueInv
<1>8. PointInv
  BY <1>3 DEF PointInv
<1>9. NeverOvercounts
  <2>1. {s \in Socket : Open(s)} = {}
    BY <1>1
  <2>2. Cardinality({}) = 0
    BY FS_EmptySet
  <2>3. Cardinality({s \in Socket : Open(s)}) = 0
    BY <2>1, <2>2
  <2>4. QED
    BY <1>2, <2>3 DEF NeverOvercounts
<1>10. HomeInv
  BY <1>1, <1>3 DEF HomeInv, FreshInv, Registered, TokensLead
<1>11. LoginInv
  <2>1. verifying = FALSE
    BY DEF Init
  <2>2. QED
    BY <2>1, Zenon DEF LoginInv
<1>12. QED
  BY <1>5, <1>7, <1>8, <1>9, <1>10, <1>11 DEF ServerInv, Holds

\* ServerInv is inductive.
LEMMA ServerKeeps == Assumptions /\ ServerInv /\ [Next]_vars => ServerInv'
BY TypeStep, QueueStep, LoginStep, ServerStep DEF ServerInv, Holds, Kept

\* So is HomeInv with it, where the database gives no ids.
LEMMA HomeKeeps ==
  Assumptions /\ ~DbEnabled /\ ServerInv /\ HomeInv /\ [Next]_vars => HomeInv'
BY ServerStep DEF ServerInv, Kept

\* Nothing is queued and nobody is connected at the start.
LEMMA InitEvents == Assumptions /\ Init => EventsInv
<1> SUFFICES ASSUME Assumptions, Init PROVE EventsInv
  OBVIOUS
<1>1. \A s \in Socket : ~Open(s)
  BY DEF Init, NewSocket, Open
<1>2. receive_queue = <<>> /\ Len(receive_queue) = 0 /\ DOMAIN game_peers = {}
  BY DEF Init
<1>3. Served = {} /\ ConnectedPeers = {}
  BY <1>1, <1>2 DEF Served, ConnectedPeers
<1>4. \A id \in Socket :
        ~UpIn(receive_queue, id \in ConnectedPeers, id, Len(receive_queue))
  <2>1. \A id \in Socket : id \notin ConnectedPeers
    BY <1>3
  <2>2. \A j \in 1..Len(receive_queue) : FALSE
    BY <1>2
  <2>3. QED
    BY <2>1, <2>2 DEF UpIn
<1>5. \A i \in 1..Len(receive_queue) : FALSE
  BY <1>2
<1>6. QED
  BY <1>3, <1>4, <1>5 DEF EventsInv, Matches

\* EventsInv is kept by every step, where the database gives no ids.
LEMMA EventsKeep ==
  Assumptions /\ ~DbEnabled /\ ServerInv /\ HomeInv /\ EventsInv /\ [Next]_vars => EventsInv'
BY EventsStep DEF ServerInv

\* The assumptions on the constants, together.
LEMMA AssumptionsHold == Assumptions
BY SocketAssumption, TokenAssumption, LimitAssumption DEF Assumptions

\* The server's containers keep their types through every handler, callback and event.
THEOREM ServerTypeCorrect == Spec => []TypeOK
<1>1. ServerInv => TypeOK
  BY DEF ServerInv, TypeInv, LoginInv, ServerTypes, TypeOK, PerSocketData, PeerConnectionData,
         ReconnectionToken
<1>2. QED
  BY <1>1, AssumptionsHold, InitServer, ServerKeeps, PTL DEF Spec

\* send and clear_users never call through a pointer to a socket that has closed.
THEOREM NeverDangling == Spec => []NoDanglingSocket
<1>1. ServerInv => NoDanglingSocket
  BY DEF ServerInv, Holds, PointInv, NoDanglingSocket
<1>2. QED
  BY <1>1, AssumptionsHold, InitServer, ServerKeeps, PTL DEF Spec

\* on_open and on_close never count more users than there are open sockets.
THEOREM NeverCountsTooMany == Spec => []NeverOvercounts
<1>1. ServerInv => NeverOvercounts
  BY DEF ServerInv, Holds
<1>2. QED
  BY <1>1, AssumptionsHold, InitServer, ServerKeeps, PTL DEF Spec

\* Without ids from the database, every open socket is found under the id of its peer.
THEOREM AlwaysRegistered ==
  ASSUME ~DbEnabled
  PROVE  Spec => []Registered
<1>1. HomeInv => Registered
  BY DEF HomeInv
<1>2. QED
  BY <1>1, AssumptionsHold, InitServer, ServerKeeps, HomeKeeps, PTL DEF Spec

\* Without ids from the database, on_open never meets a token whose peer is gone.
THEOREM TokensAlwaysLead ==
  ASSUME ~DbEnabled
  PROVE  Spec => []TokensLead
<1>1. HomeInv => TokensLead
  BY DEF HomeInv
<1>2. QED
  BY <1>1, AssumptionsHold, InitServer, ServerKeeps, HomeKeeps, PTL DEF Spec

\* Without ids from the database, the events on_open, on_message and on_close queue are in
\* an order handle_events can rely on: nobody who is connected is opened again, no message
\* comes from a peer that is not, and the queue ends with those connected that have a socket.
THEOREM EventsAlwaysMatch ==
  ASSUME ~DbEnabled
  PROVE  Spec => []EventsMatchSockets
<1>1. ServerInv /\ EventsInv => EventsMatchSockets
  BY EventsInvMatches DEF ServerInv
<1>2. QED
  BY <1>1, AssumptionsHold, InitServer, InitEvents, ServerKeeps, HomeKeeps, EventsKeep, PTL DEF Spec

=============================================================================
