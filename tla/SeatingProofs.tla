---------------------------- MODULE SeatingProofs ----------------------------
(***************************************************************************)
(* Proofs about the members of a lobby, for games in which the departure   *)
(* of a host either hands its lobby over or ends it (Hosted).  In the      *)
(* other games, relay games without disband_on_leave, the departure leaves *)
(* a lobby of members who have been turned out: the run relay_host_leaves. *)
(*                                                                         *)
(* MembersAgree, HostIsSeated, JoinOrder and NothingFabricated need each   *)
(* other: a handler looks up the record of every member it finds in a      *)
(* lobby, and the record is there because members are seated; a sweep      *)
(* forgets only peers whose seat is gone.                                  *)
(***************************************************************************)
EXTENDS GameThreadProofs

\* Lobby l and its members agree on who sits there, who hosts it and who came first
LobbyInv(l) ==
  LET s == peer_ordered_ids[l]
      members == lobbies[l].peer_ids
  IN
  /\ \A p \in members : p \in DOMAIN peers /\ peers[p].lobby_id = l
  /\ lobbies[l].host \in members
  /\ s \in Seq(PeerId) /\ Range(s) = members
  /\ \A i, j \in DOMAIN s : i < j => peers[s[i]].order_id < peers[s[j]].order_id
  /\ \A i \in DOMAIN s : peers[s[i]].order_id <= lobbies[l].order_id_counter

\* What the commands keep, on top of DataInv
SeatInv ==
  /\ \A l \in DOMAIN lobbies : LobbyInv(l)
  /\ \A p \in DOMAIN peers : ~InLobby(p) => peers[p].order_id = 0
  /\ NothingFabricated

\* The peers a sweep is about to forget have no seat any more
SweptInv == \A p \in sweep.to_erase \cap DOMAIN peers : ~InLobby(p)

-----------------------------------------------------------------------------
(* Taking an element out of a sequence *)

\* The prefixes that std::remove has kept
Prefixes(s, p, m, F) ==
  F = [i \in 0..m |-> IF i = 0 THEN <<>>
                      ELSE IF s[i] = p THEN F[i - 1] ELSE Append(F[i - 1], s[i])]

\* The naturals are well-founded, as the recursion of Without needs it: a property that
\* fails fails first at 0 or after a number that has it.
LEMMA LeastCounterexample ==
  ASSUME NEW B, B \subseteq Nat, B # {}
  PROVE  \E m \in B : m = 0 \/ m - 1 \notin B
<1>1. PICK x \in B : \A y \in B : ~(<<y, x>> \in OpToRel(<, Nat))
  BY NatLessThanWellFounded, WFMin
<1>2. CASE x = 0
  BY <1>2
<1>3. CASE x # 0
  <2>1. <<x - 1, x>> \in OpToRel(<, Nat)
    BY <1>3 DEF OpToRel
  <2>2. QED
    BY <1>1, <2>1
<1>4. QED
  BY <1>2, <1>3

\* std::remove in remove_peer_from_lobby is defined on every prefix of peer_ordered_ids.
LEMMA KeptExists ==
  ASSUME NEW s, NEW p, NEW n \in Nat
  PROVE  \E F : Prefixes(s, p, n, F)
<1> DEFINE B == {m \in Nat : ~\E F : Prefixes(s, p, m, F)}
<1>1. SUFFICES ASSUME B # {} PROVE FALSE
  OBVIOUS
<1>2. PICK m \in B : m = 0 \/ m - 1 \notin B
  <2> HIDE DEF B
  <2>1. B \subseteq Nat
    BY DEF B
  <2>2. QED
    BY <1>1, <2>1, LeastCounterexample
<1>3. CASE m = 0
  <2> DEFINE G == [i \in 0..0 |-> <<>>]
  <2>1. Prefixes(s, p, 0, G)
    BY DEF Prefixes
  <2>2. QED
    BY <1>2, <1>3, <2>1
<1>4. CASE m # 0
  <2>1. PICK F : Prefixes(s, p, m - 1, F)
    BY <1>2, <1>4
  <2> DEFINE last == IF s[m] = p THEN F[m - 1] ELSE Append(F[m - 1], s[m])
             G == [i \in 0..m |-> IF i = m THEN last ELSE F[i]]
  <2>2. \A i \in 0..(m - 1) : G[i] = F[i]
    BY <1>4
  <2>3. \A i \in 0..m :
          G[i] = IF i = 0 THEN <<>> ELSE IF s[i] = p THEN G[i - 1] ELSE Append(G[i - 1], s[i])
    <3>1. ASSUME NEW i \in 0..(m - 1), i # 0 PROVE i - 1 \in 0..(m - 1)
      BY <1>4, <3>1
    <3>2. \A i \in 0..(m - 1) :
                  F[i] = IF i = 0 THEN <<>>
                         ELSE IF s[i] = p THEN F[i - 1] ELSE Append(F[i - 1], s[i])
      BY <2>1 DEF Prefixes
    <3>3. G[m] = last /\ G[m - 1] = F[m - 1]
      BY <1>4, <2>2
    <3> HIDE DEF G
    <3>4. QED
      BY <1>4, <2>2, <3>1, <3>2, <3>3
  <2>4. Prefixes(s, p, m, G)
    <3>1. G = [i \in 0..m |-> G[i]]
      OBVIOUS
    <3> HIDE DEF G
    <3>2. QED
      BY <2>3, <3>1 DEF Prefixes
  <2>5. QED
    BY <1>2, <2>4
<1>5. QED
  BY <1>3, <1>4

\* Without, the std::remove of remove_peer_from_lobby, is what is kept of the whole sequence.
LEMMA WithoutIsKept ==
  ASSUME NEW s, NEW p, Len(s) \in Nat
  PROVE  \E F : Prefixes(s, p, Len(s), F) /\ Without(s, p) = F[Len(s)]
<1> DEFINE F == CHOOSE F : Prefixes(s, p, Len(s), F)
<1>1. Prefixes(s, p, Len(s), F)
  BY KeptExists
<1>2. Without(s, p) = F[Len(s)]
  BY DEF Without, Prefixes
<1>3. QED
  BY <1>1, <1>2


\* The elements of t come from the first n positions of s, in the same order
InOrder(t, s, n) ==
  \A a, b \in DOMAIN t : a < b => \E j, k \in 1..n : j < k /\ t[a] = s[j] /\ t[b] = s[k]

\* t is what is left of the first n elements of s once p is taken out
LeftOf(S, s, p, n, t) ==
  t \in Seq(S) /\ Range(t) = {s[k] : k \in 1..n} \ {p} /\ InOrder(t, s, n)

\* Looking at one more id of peer_ordered_ids keeps it or drops it: what is left so far is
\* still a subsequence.
LEMMA LeftOfStep ==
  ASSUME NEW S, NEW s \in Seq(S), NEW p, NEW m \in 1..Len(s), NEW t, LeftOf(S, s, p, m - 1, t)
  PROVE  LeftOf(S, s, p, m, IF s[m] = p THEN t ELSE Append(t, s[m]))
<1>1. /\ s[m] \in S /\ m \in Nat \ {0} /\ t \in Seq(S)
      /\ {s[k] : k \in 1..m} = {s[k] : k \in 1..(m - 1)} \cup {s[m]}
      /\ Range(t) = {s[k] : k \in 1..(m - 1)} \ {p}
  BY DEF LeftOf
<1>2. \A j \in 1..(m - 1) : j \in 1..m /\ j < m
  BY <1>1
<1>3. InOrder(t, s, m)
  BY <1>2 DEF LeftOf, InOrder
<1>4. CASE s[m] = p
  <2>1. Range(t) = {s[k] : k \in 1..m} \ {p}
    BY <1>1, <1>4
  <2>2. QED
    BY <1>1, <1>3, <1>4, <2>1 DEF LeftOf
<1>5. CASE s[m] # p
  <2> DEFINE u == Append(t, s[m])
  <2>1. /\ u \in Seq(S)
        /\ DOMAIN u = 1..(Len(t) + 1)
        /\ DOMAIN t = 1..Len(t)
        /\ Len(t) \in Nat
        /\ \A a \in 1..Len(t) : u[a] = t[a]
        /\ u[Len(t) + 1] = s[m]
    BY <1>1
  <2> HIDE DEF u
  <2>2. \A a \in 1..(Len(t) + 1) : a \in 1..Len(t) \/ a = Len(t) + 1
    BY <2>1
  <2>3. Range(u) = {s[k] : k \in 1..m} \ {p}
    <3>1. Range(u) = Range(t) \cup {s[m]}
      BY <2>1, <2>2 DEF Range
    <3>2. QED
      BY <1>1, <1>5, <3>1
  <2>4. InOrder(u, s, m)
    <3>1. SUFFICES ASSUME NEW a \in DOMAIN u, NEW b \in DOMAIN u, a < b
                   PROVE  \E j, k \in 1..m : j < k /\ u[a] = s[j] /\ u[b] = s[k]
      BY DEF InOrder
    <3>2. a \in 1..Len(t) /\ u[a] = t[a]
      BY <2>1, <3>1
    <3>3. CASE b \in 1..Len(t)
      BY <1>3, <2>1, <3>1, <3>2, <3>3 DEF InOrder
    <3>4. CASE b = Len(t) + 1
      <4>1. t[a] \in Range(t)
        BY <2>1, <3>2 DEF Range
      <4>2. PICK j \in 1..(m - 1) : t[a] = s[j]
        BY <1>1, <4>1
      <4>3. j \in 1..m /\ m \in 1..m /\ j < m /\ u[b] = s[m]
        BY <1>1, <1>2, <2>1, <3>4
      <4>4. QED
        BY <3>2, <4>2, <4>3
    <3>5. QED
      BY <2>1, <2>2, <3>1, <3>3, <3>4
  <2>5. LeftOf(S, s, p, m, u)
    BY <2>1, <2>3, <2>4 DEF LeftOf
  <2>6. QED
    BY <1>5, <2>5 DEF u
<1>6. QED
  BY <1>4, <1>5

\* What the std::remove of remove_peer_from_lobby leaves of peer_ordered_ids: the ids other
\* than that of the leaver, in the order in which they were.
LEMMA WithoutFacts ==
  ASSUME NEW S, NEW s \in Seq(S), NEW p
  PROVE  LeftOf(S, s, p, Len(s), Without(s, p))
<1>1. PICK F : Prefixes(s, p, Len(s), F) /\ Without(s, p) = F[Len(s)]
  BY WithoutIsKept
<1> DEFINE B == {i \in 0..Len(s) : ~LeftOf(S, s, p, i, F[i])}
<1>2. \A i \in 0..Len(s) :
        F[i] = IF i = 0 THEN <<>> ELSE IF s[i] = p THEN F[i - 1] ELSE Append(F[i - 1], s[i])
  BY <1>1 DEF Prefixes
<1>3. B = {}
  <2>1. SUFFICES ASSUME B # {} PROVE FALSE
    OBVIOUS
  <2>2. PICK m \in B : m = 0 \/ m - 1 \notin B
    <3>1. B \subseteq Nat
      OBVIOUS
    <3> HIDE DEF B
    <3>2. QED
      BY <2>1, <3>1, LeastCounterexample
  <2>3. CASE m = 0
    <3>1. F[0] = <<>>
      BY <1>2
    <3>2. <<>> \in Seq(S) /\ DOMAIN <<>> = {} /\ Range(<<>>) = {} /\ 1..0 = {}
      BY DEF Range
    <3>3. LeftOf(S, s, p, 0, F[0])
      BY <3>1, <3>2 DEF LeftOf, InOrder
    <3>4. QED
      BY <2>2, <2>3, <3>3
  <2>4. CASE m # 0
    <3>1. m \in 1..Len(s) /\ m - 1 \in 0..Len(s)
      BY <2>2, <2>4
    <3>2. F[m] = IF s[m] = p THEN F[m - 1] ELSE Append(F[m - 1], s[m])
      BY <1>2, <2>4, <3>1
    <3>3. LeftOf(S, s, p, m - 1, F[m - 1])
      BY <2>2, <2>4, <3>1
    <3>4. QED
      BY <2>2, <3>1, <3>2, <3>3, LeftOfStep
  <2>5. QED
    BY <2>3, <2>4
<1>4. QED
  BY <1>1, <1>3
-----------------------------------------------------------------------------
(* The order of the members *)

\* Sorting a sequence whose keys are distinct already sorts it strictly.
LEMMA SortedFacts ==
  ASSUME NEW s \in Seq(PeerId), NEW p, NEW order, NEW t \in SortedByOrderId(s, p, order), NEW key,
         \A q \in Range(s) : key[q] \in Nat /\ key[q] = (IF q = p THEN order ELSE OrderId(q)),
         \A i, j \in DOMAIN s : i < j => key[s[i]] < key[s[j]]
  PROVE  /\ t \in Seq(PeerId)
         /\ Range(t) = Range(s)
         /\ \A i, j \in DOMAIN t : i < j => key[t[i]] < key[t[j]]
<1> DEFINE n == Len(s)
<1>1. PICK f \in Bijection(1..n, 1..n) :
        /\ t = [i \in 1..n |-> s[f[i]]]
        /\ \A i, j \in 1..n : i < j =>
             (IF t[i] = p THEN order ELSE OrderId(t[i]))
               <= (IF t[j] = p THEN order ELSE OrderId(t[j]))
  BY DEF SortedByOrderId
<1>2. /\ f \in [1..n -> 1..n]
      /\ \A i, j \in 1..n : f[i] = f[j] => i = j
      /\ \A k \in 1..n : \E i \in 1..n : f[i] = k
  BY <1>1 DEF Bijection, Injection, Surjection, IsInjective
<1>3. n \in Nat /\ DOMAIN s = 1..n /\ \A k \in 1..n : s[k] \in PeerId /\ s[k] \in Range(s)
  BY DEF Range
<1> HIDE DEF n
<1>4. DOMAIN t = 1..n /\ \A i \in 1..n : t[i] = s[f[i]] /\ t[i] \in Range(s)
  BY <1>1, <1>2, <1>3
<1>5. t \in Seq(PeerId)
  <2>1. \A i \in 1..n : t[i] \in PeerId
    BY <1>2, <1>3, <1>4
  <2>2. t = [i \in 1..n |-> t[i]]
    BY <1>1
  <2>3. QED
    BY <1>3, <2>1, <2>2
<1>6. Range(t) = Range(s)
  <2>1. ASSUME NEW x \in Range(s) PROVE x \in Range(t)
    <3>1. PICK k \in 1..n : x = s[k]
      BY <1>3 DEF Range
    <3>2. PICK i \in 1..n : f[i] = k
      BY <1>2
    <3>3. QED
      BY <1>4, <3>1, <3>2 DEF Range
  <2>2. ASSUME NEW x \in Range(t) PROVE x \in Range(s)
    BY <1>4, <2>2 DEF Range
  <2>3. QED
    BY <2>1, <2>2
<1>7. ASSUME NEW i \in 1..n, NEW j \in 1..n, i < j PROVE key[t[i]] < key[t[j]]
  <2>1. key[t[i]] <= key[t[j]]
    BY <1>1, <1>4, <1>7
  <2>2. f[i] # f[j] /\ f[i] \in 1..n /\ f[j] \in 1..n
    <3>1. i # j
      BY <1>3, <1>7
    <3>2. QED
      BY <1>2, <3>1
  <2>3. key[s[f[i]]] # key[s[f[j]]]
    <3>1. key[s[f[i]]] \in Nat /\ key[s[f[j]]] \in Nat
      BY <1>3, <2>2
    <3>2. f[i] < f[j] \/ f[j] < f[i]
      BY <1>3, <2>2
    <3>3. QED
      BY <1>3, <2>2, <3>1, <3>2
  <2>4. QED
    BY <1>4, <2>1, <2>3
<1>8. QED
  BY <1>4, <1>5, <1>6, <1>7

-----------------------------------------------------------------------------
(* Steps that leave a lobby alone *)

\* A lobby whose members, host and order did not change, and whose members kept
\* their records, is still in order.
LEMMA LobbyUntouched ==
  ASSUME NEW l, LobbyInv(l),
         lobbies'[l].peer_ids = lobbies[l].peer_ids,
         lobbies'[l].host = lobbies[l].host,
         lobbies'[l].order_id_counter = lobbies[l].order_id_counter,
         peer_ordered_ids'[l] = peer_ordered_ids[l],
         \A q \in lobbies[l].peer_ids :
           /\ q \in DOMAIN peers'
           /\ peers'[q].lobby_id = peers[q].lobby_id
           /\ peers'[q].order_id = peers[q].order_id
  PROVE  LobbyInv(l)'
<1> DEFINE s == peer_ordered_ids[l]
<1>1. \A i \in DOMAIN s : s[i] \in lobbies[l].peer_ids
  BY DEF LobbyInv, Range
<1>2. \A i \in DOMAIN s : peers'[s[i]].order_id = peers[s[i]].order_id
  BY <1>1
<1>3. QED
  BY <1>2 DEF LobbyInv

\* Steps that change neither a seat nor a lobby's members, host or order.
LEMMA SameSeats ==
  ASSUME SeatInv,
         DOMAIN peers \subseteq DOMAIN peers',
         \A q \in DOMAIN peers : /\ peers'[q].lobby_id = peers[q].lobby_id
                                 /\ peers'[q].order_id = peers[q].order_id,
         \A q \in DOMAIN peers' \ DOMAIN peers : peers'[q].order_id = 0,
         DOMAIN lobbies' = DOMAIN lobbies,
         \A l \in DOMAIN lobbies : /\ lobbies'[l].peer_ids = lobbies[l].peer_ids
                                   /\ lobbies'[l].host = lobbies[l].host
                                   /\ lobbies'[l].order_id_counter = lobbies[l].order_id_counter,
         UNCHANGED <<peer_ordered_ids, fabricated>>
  PROVE  SeatInv'
<1>1. ASSUME NEW l \in DOMAIN lobbies PROVE LobbyInv(l)'
  <2>1. LobbyInv(l)
    BY DEF SeatInv
  <2>2. \A q \in lobbies[l].peer_ids : q \in DOMAIN peers
    BY <2>1 DEF LobbyInv
  <2>3. QED
    BY <2>1, <2>2, LobbyUntouched
<1>2. QED
  BY <1>1 DEF SeatInv, InLobby, NothingFabricated

\* A command that is answered with an error leaves all seats as they are.
LEMMA RefuseSeats ==
  ASSUME SeatInv, NEW p, NEW e, Refuse(p, e)
  PROVE  SeatInv'
BY SameSeats DEF Refuse, data

\* A change of a lobby's settings (size, name, password, tags, seal) leaves its members, its
\* host and the order alone.
LEMMA SetLobbySeats ==
  ASSUME DataInv, SeatInv, NEW p \in DOMAIN peers, InLobby(p), NEW type, NEW lobby,
         lobby.peer_ids = LobbyOf(p).peer_ids, lobby.host = LobbyOf(p).host,
         lobby.order_id_counter = LobbyOf(p).order_id_counter,
         SetLobby(p, lobby, type)
  PROVE  SeatInv'
<1>1. peers[p].lobby_id \in DOMAIN lobbies
  BY SeatFacts
<1>2. lobbies' = [lobbies EXCEPT ![peers[p].lobby_id] = lobby]
      /\ UNCHANGED <<peers, peer_ordered_ids, fabricated>>
  BY DEF SetLobby
<1>3. QED
  BY <1>1, <1>2, SameSeats DEF LobbyOf

-----------------------------------------------------------------------------
(* Entering and leaving *)

\* A new lobby (on_create_lobby) starts with its host as the only member.
LEMMA CreateLobbySeats ==
  ASSUME DataInv, SeatInv, NEW p \in DOMAIN peers, NEW before, NEW pw, NEW tags,
         CreateLobby(p, before, pw, tags)
  PROVE  SeatInv'
<1>1. CASE \E e : Refuse(p, e)
  BY <1>1, RefuseSeats
<1>2. CASE /\ ~InLobby(p)
           /\ peers' = [peers EXCEPT ![p] = leave_lobby(@)]
           /\ UNCHANGED <<lobbies, peer_ordered_ids, lobbies_updated, fabricated>>
  <2>1. peers[p].lobby_id = NoLobby /\ peers[p].order_id = 0 /\ peers[p] \in PeerData
    BY <1>2 DEF SeatInv, InLobby, DataInv
  <2>2. leave_lobby(peers[p]).lobby_id = NoLobby /\ leave_lobby(peers[p]).order_id = 0
    BY <2>1 DEF leave_lobby, PeerData
  <2>3. QED
    BY <1>2, <2>1, <2>2, SameSeats
<1>3. ASSUME NEW m, NEW s, NEW name, NEW l \in FreshLobbyId,
             ~InLobby(p),
             peers' = [peers EXCEPT ![p].lobby_id = l, ![p].disconnected = FALSE],
             lobbies' = Put(lobbies, l, NewLobby(p, m, pw, s, name, tags)),
             peer_ordered_ids' = Put(peer_ordered_ids, l, <<p>>),
             fabricated' = fabricated
      PROVE  SeatInv'
  <2>1. l \in LobbyId /\ l \notin DOMAIN lobbies /\ l # NoLobby /\ p \in PeerId
    BY IdAssumption DEF FreshLobbyId, DataInv
  <2>2. /\ DOMAIN lobbies' = DOMAIN lobbies \cup {l}
        /\ lobbies'[l].peer_ids = {p} /\ lobbies'[l].host = p /\ lobbies'[l].order_id_counter = 0
        /\ peer_ordered_ids'[l] = <<p>>
        /\ \A k \in DOMAIN lobbies :
             lobbies'[k] = lobbies[k] /\ peer_ordered_ids'[k] = peer_ordered_ids[k]
    BY <1>3, <2>1 DEF Put, NewLobby, DataInv
  <2>3. peers[p] \in PeerData /\ peers[p].order_id = 0
    BY <1>3 DEF DataInv, SeatInv
  <2>4. /\ DOMAIN peers' = DOMAIN peers
        /\ peers'[p].lobby_id = l /\ peers'[p].order_id = 0
        /\ \A q \in DOMAIN peers \ {p} : peers'[q] = peers[q]
    BY <1>3, <2>3 DEF PeerData
  <2>5. ASSUME NEW k \in DOMAIN lobbies PROVE LobbyInv(k)'
    <3>1. LobbyInv(k) /\ k # NoLobby
      BY IdAssumption DEF SeatInv, DataInv
    <3>2. \A q \in lobbies[k].peer_ids : q \in DOMAIN peers \ {p}
      BY <1>3, <3>1 DEF LobbyInv, InLobby
    <3>3. QED
      BY <2>2, <2>4, <3>1, <3>2, LobbyUntouched
  <2>6. LobbyInv(l)'
    <3>1. <<p>> \in Seq(PeerId) /\ Range(<<p>>) = {p} /\ DOMAIN <<p>> = {1} /\ <<p>>[1] = p
      BY <2>1 DEF Range
    <3>2. QED
      BY <2>2, <2>4, <3>1 DEF LobbyInv
  <2>7. QED
    BY <1>3, <2>1, <2>2, <2>4, <2>5, <2>6 DEF SeatInv, InLobby, NothingFabricated
<1>4. QED
  BY <1>1, <1>2, <1>3, Zenon DEF CreateLobby

\* A peer that joins (on_join_lobby) is the last in the order of the members, and the
\* sort that follows leaves it there.
LEMMA EnterSeats ==
  ASSUME DataInv, SeatInv, NEW p \in DOMAIN peers, NEW l \in DOMAIN lobbies, NEW before,
         ~InLobby(p), Enter(p, l, before)
  PROVE  SeatInv'
<1> DEFINE order == lobbies[l].order_id_counter + 1
           pushed == Append(peer_ordered_ids[l], p)
           members == lobbies[l].peer_ids
           s == peer_ordered_ids[l]
           key == [q \in members \cup {p} |-> IF q = p THEN order ELSE peers[q].order_id]
<1>1. /\ peers' = [peers EXCEPT ![p].order_id = order, ![p].lobby_id = l, ![p].disconnected = FALSE]
      /\ lobbies' = [lobbies EXCEPT ![l].order_id_counter = order, ![l].peer_ids = @ \cup {p}]
      /\ fabricated' = ~(members \cup Range(pushed) \subseteq DOMAIN peers)
  BY DEF Enter, Access
<1>2. PICK t \in SortedByOrderId(pushed, p, order) :
        peer_ordered_ids' = [peer_ordered_ids EXCEPT ![l] = t]
  BY DEF Enter
<1>3. /\ l \in LobbyId /\ l # NoLobby /\ p \in PeerId
      /\ lobbies[l] \in LobbyData /\ peers[p] \in PeerData
      /\ members \subseteq PeerId
      /\ lobbies[l].order_id_counter \in Nat /\ order \in Nat
      /\ DOMAIN peer_ordered_ids = DOMAIN lobbies
  BY IdAssumption DEF DataInv, LobbyData
<1>4. LobbyInv(l)
  BY DEF SeatInv
<1>5. p \notin members
  BY <1>3, <1>4 DEF LobbyInv, InLobby
<1>6. /\ s \in Seq(PeerId) /\ Range(s) = members /\ members \subseteq DOMAIN peers
      /\ \A i, j \in DOMAIN s : i < j => peers[s[i]].order_id < peers[s[j]].order_id
      /\ \A i \in DOMAIN s : peers[s[i]].order_id <= lobbies[l].order_id_counter
  BY <1>4 DEF LobbyInv
<1>7. /\ DOMAIN peers' = DOMAIN peers
      /\ peers'[p].lobby_id = l /\ peers'[p].order_id = order
      /\ \A q \in DOMAIN peers \ {p} : peers'[q] = peers[q]
  <2> HIDE DEF order
  <2> QED
    BY <1>1, <1>3 DEF PeerData
<1>8. /\ DOMAIN lobbies' = DOMAIN lobbies
      /\ lobbies'[l].peer_ids = members \cup {p}
      /\ lobbies'[l].host = lobbies[l].host
      /\ lobbies'[l].order_id_counter = order
      /\ \A k \in DOMAIN lobbies \ {l} : lobbies'[k] = lobbies[k]
  <2> HIDE DEF order
  <2> QED
    BY <1>1, <1>3 DEF LobbyData
<1>9. /\ pushed \in Seq(PeerId)
      /\ DOMAIN s = 1..Len(s) /\ Len(s) \in Nat
      /\ DOMAIN pushed = 1..(Len(s) + 1)
      /\ \A i \in 1..Len(s) : pushed[i] = s[i] /\ s[i] \in members
      /\ pushed[Len(s) + 1] = p
      /\ Range(pushed) = members \cup {p}
  <2>1. /\ pushed \in Seq(PeerId)
        /\ DOMAIN s = 1..Len(s) /\ Len(s) \in Nat
        /\ DOMAIN pushed = 1..(Len(s) + 1)
        /\ \A i \in 1..Len(s) : pushed[i] = s[i]
        /\ pushed[Len(s) + 1] = p
    BY <1>3, <1>6
  <2>2. \A i \in 1..Len(s) : s[i] \in members
    BY <1>6, <2>1 DEF Range
  <2> HIDE DEF pushed, s
  <2>3. \A i \in 1..(Len(s) + 1) : i \in 1..Len(s) \/ i = Len(s) + 1
    BY <2>1
  <2>4. \A i \in 1..Len(s) : i \in 1..(Len(s) + 1)
    BY <2>1
  <2>5. Range(pushed) = Range(s) \cup {p}
    BY <2>1, <2>3, <2>4 DEF Range
  <2>6. QED
    BY <1>6, <2>1, <2>2, <2>5
<1>10. \A q \in members : key[q] = peers[q].order_id /\ key[q] = OrderId(q) /\ key[q] \in Nat
  BY <1>5, <1>6 DEF OrderId, DataInv, PeerData
<1>11. key[p] = order
  OBVIOUS
<1>12. \A i, j \in DOMAIN pushed : i < j => key[pushed[i]] < key[pushed[j]]
  <2> HIDE DEF key, pushed, s
  <2>1. SUFFICES ASSUME NEW i \in DOMAIN pushed, NEW j \in DOMAIN pushed, i < j
                 PROVE  key[pushed[i]] < key[pushed[j]]
    OBVIOUS
  <2>2. i \in 1..Len(s) /\ pushed[i] = s[i] /\ s[i] \in members
    BY <1>9, <2>1
  <2>3. CASE j \in 1..Len(s)
    BY <1>6, <1>9, <1>10, <2>1, <2>2, <2>3
  <2>4. CASE j = Len(s) + 1
    <3>1. key[s[i]] <= lobbies[l].order_id_counter /\ key[s[i]] \in Nat
      BY <1>6, <1>9, <1>10, <2>2
    <3>2. QED
      BY <1>3, <1>9, <1>11, <2>2, <2>4, <3>1
  <2>5. QED
    BY <1>9, <2>1, <2>3, <2>4
<1>13. /\ t \in Seq(PeerId) /\ Range(t) = members \cup {p}
       /\ \A i, j \in DOMAIN t : i < j => key[t[i]] < key[t[j]]
  <2>1. \A q \in Range(pushed) :
          key[q] \in Nat /\ key[q] = (IF q = p THEN order ELSE OrderId(q))
    BY <1>3, <1>5, <1>9, <1>10, <1>11
  <2> HIDE DEF key, pushed, order, members
  <2>2. pushed \in Seq(PeerId) /\ t \in SortedByOrderId(pushed, p, order)
    BY <1>2, <1>9
  <2>3. /\ t \in Seq(PeerId) /\ Range(t) = Range(pushed)
        /\ \A i, j \in DOMAIN t : i < j => key[t[i]] < key[t[j]]
    BY <1>12, <2>1, <2>2, SortedFacts
  <2>4. QED
    BY <1>9, <2>3
<1>14. \A q \in members \cup {p} : /\ q \in DOMAIN peers'
                                   /\ peers'[q].lobby_id = l
                                   /\ key[q] = peers'[q].order_id
                                   /\ key[q] <= order
  <2>1. \A q \in members : peers[q].lobby_id = l
    BY <1>4 DEF LobbyInv
  <2>2. \A q \in members : \E i \in DOMAIN s : s[i] = q
    BY <1>6 DEF Range
  <2>3. \A q \in members : key[q] <= order
    <3> HIDE DEF key, s
    <3> QED
      BY <1>3, <1>6, <1>10, <2>2
  <2> HIDE DEF key, order
  <2>4. QED
    BY <1>3, <1>5, <1>6, <1>7, <1>10, <1>11, <2>1, <2>3
<1>15. LobbyInv(l)'
  <2>1. peer_ordered_ids'[l] = t
    BY <1>2, <1>3
  <2>2. lobbies[l].host \in members
    BY <1>4 DEF LobbyInv
  <2>3. \A i \in DOMAIN t : t[i] \in members \cup {p}
    BY <1>13 DEF Range
  <2> HIDE DEF key, order, members
  <2>4. QED
    BY <1>8, <1>13, <1>14, <2>1, <2>2, <2>3 DEF LobbyInv
<1>16. ASSUME NEW k \in DOMAIN lobbies \ {l} PROVE LobbyInv(k)'
  <2>1. LobbyInv(k) /\ k # NoLobby
    BY IdAssumption DEF SeatInv, DataInv
  <2>2. \A q \in lobbies[k].peer_ids : q \in DOMAIN peers \ {p}
    BY <2>1 DEF LobbyInv, InLobby
  <2>3. peer_ordered_ids'[k] = peer_ordered_ids[k]
    BY <1>2, <1>3
  <2>4. QED
    BY <1>7, <1>8, <2>1, <2>2, <2>3, LobbyUntouched
<1>17. ~fabricated'
  BY <1>1, <1>6, <1>9
<1>18. QED
  <2> HIDE DEF order
  <2> QED
    BY <1>3, <1>7, <1>8, <1>15, <1>16, <1>17 DEF SeatInv, InLobby, NothingFabricated

\* on_join_lobby: a peer that comes back finds its seat, the others enter.
LEMMA JoinLobbySeats ==
  ASSUME DataInv, SeatInv, NEW p \in DOMAIN peers, NEW l, NEW pw, NEW before,
         JoinLobby(p, l, pw, before)
  PROVE  SeatInv'
<1>1. CASE Rejoin(p, before)
  <2>1. /\ peers' = [peers EXCEPT ![p].ready = FALSE, ![p].disconnected = FALSE]
        /\ UNCHANGED <<lobbies, peer_ordered_ids>>
        /\ fabricated' = ~(LobbyOf(p).peer_ids \subseteq DOMAIN peers)
    BY <1>1 DEF Rejoin, Access
  <2>2. peers[p].lobby_id \in DOMAIN lobbies
    BY <1>1, SeatFacts DEF Rejoin, Reconnecting
  <2>3. LobbyOf(p).peer_ids \subseteq DOMAIN peers
    BY <2>2 DEF SeatInv, LobbyInv, LobbyOf
  <2>4. fabricated' = fabricated
    BY <2>1, <2>3 DEF SeatInv, NothingFabricated, DataInv
  <2>5. /\ DOMAIN peers' = DOMAIN peers
        /\ \A q \in DOMAIN peers : /\ peers'[q].lobby_id = peers[q].lobby_id
                                   /\ peers'[q].order_id = peers[q].order_id
    BY <2>1 DEF DataInv, PeerData
  <2>6. QED
    BY <2>1, <2>4, <2>5, SameSeats
<1>2. CASE Enter(p, l, before)
  <2>1. ~Reconnecting(p)
    BY <1>2 DEF Enter
  <2>2. l \in DOMAIN lobbies /\ ~InLobby(p)
    BY <2>1 DEF JoinLobby, MayJoin, JoinErrors, JoinTarget
  <2>3. QED
    BY <1>2, <2>2, EnterSeats
<1>3. QED
  BY <1>1, <1>2 DEF JoinLobby

\* peer_ordered_ids, and so the set of members, is finite.
LEMMA FiniteRange ==
  ASSUME NEW S, NEW s \in Seq(S)
  PROVE  IsFiniteSet(Range(s))
<1>1. DOMAIN s = 1..Len(s) /\ Len(s) \in Nat
  OBVIOUS
<1>2. IsFiniteSet(DOMAIN s)
  BY <1>1, FS_Interval
<1>3. s \in Surjection(DOMAIN s, Range(s))
  BY DEF Surjection, Range
<1>4. QED
  BY <1>2, <1>3, FS_Surjection

\* In a hosted game, remove_peer_from_lobby turns out the leaver alone or ends the lobby.
LEMMA HostedLeavers ==
  ASSUME Hosted, NEW lobby, NEW p \in lobby.peer_ids, IsFiniteSet(lobby.peer_ids),
         Disbands(lobby, p)
  PROVE  Ends(lobby, p)
<1>1. CASE DisbandOnLeave
  BY <1>1 DEF Disbands, Ends
<1>2. CASE ~DisbandOnLeave
  <2>1. Cardinality(lobby.peer_ids) = 1
    BY <1>2 DEF Hosted, Disbands
  <2>2. lobby.peer_ids \ {p} = {}
    <3>1. PICK x : lobby.peer_ids = {x}
      BY <2>1, FS_Singleton
    <3>2. QED
      BY <3>1
  <2>3. QED
    BY <2>2 DEF Ends
<1>3. QED
  BY <1>1, <1>2

\* remove_peer_from_lobby: the members that stay keep their order and have a host.
LEMMA RemoveSeats ==
  ASSUME Hosted, DataInv, SeatInv, NEW l \in DOMAIN lobbies, NEW p \in lobbies[l].peer_ids,
         NEW by, NEW kicked, remove_peer_from_lobby(l, p, by, kicked)
  PROVE  /\ SeatInv'
         /\ DOMAIN peers' = DOMAIN peers
         /\ \A q \in DOMAIN peers : ~InLobby(q) \/ q = p => peers'[q].lobby_id = NoLobby
<1> DEFINE lobby == lobbies[l]
           leavers == IF Disbands(lobby, p) THEN lobby.peer_ids ELSE {p}
           rest == lobby.peer_ids \ {p}
           s == peer_ordered_ids[l]
           new_host == IF p = lobby.host /\ ~Disbands(lobby, p) THEN NewHost(lobby, p)
                       ELSE lobby.host
<1>1. /\ l \in LobbyId /\ l # NoLobby /\ lobby \in LobbyData
      /\ lobby.peer_ids \subseteq PeerId
      /\ DOMAIN peer_ordered_ids = DOMAIN lobbies
      /\ LobbyInv(l)
  BY IdAssumption DEF DataInv, SeatInv, LobbyData
<1>2. /\ peers' = [q \in DOMAIN peers |-> IF q \in leavers THEN leave_lobby(peers[q]) ELSE peers[q]]
      /\ fabricated' = ~(lobby.peer_ids \subseteq DOMAIN peers)
  BY DEF remove_peer_from_lobby, Access
<1>3. p \in leavers /\ leavers \subseteq lobby.peer_ids
  OBVIOUS
<1>4. lobby.peer_ids \subseteq DOMAIN peers /\ \A q \in lobby.peer_ids : peers[q].lobby_id = l
  BY <1>1 DEF LobbyInv
<1>5. ~fabricated'
  BY <1>2, <1>4
<1>6. /\ DOMAIN peers' = DOMAIN peers
      /\ \A q \in DOMAIN peers \cap leavers : peers'[q].lobby_id = NoLobby /\ peers'[q].order_id = 0
      /\ \A q \in DOMAIN peers \ leavers : peers'[q] = peers[q]
  <2> HIDE DEF leavers
  <2>1. \A q \in DOMAIN peers : peers[q] \in PeerData
    BY DEF DataInv
  <2>2. \A q \in DOMAIN peers :
          leave_lobby(peers[q]).lobby_id = NoLobby /\ leave_lobby(peers[q]).order_id = 0
    BY <2>1 DEF leave_lobby, PeerData
  <2>3. QED
    BY <1>2, <2>2
<1>7. \A q \in DOMAIN peers : peers'[q].lobby_id = NoLobby => peers'[q].order_id = 0
  BY <1>6 DEF SeatInv, InLobby
<1>8. \A q \in DOMAIN peers : ~InLobby(q) \/ q = p => peers'[q].lobby_id = NoLobby
  BY <1>6 DEF InLobby
<1>9. ASSUME NEW k \in DOMAIN lobbies \ {l}, lobbies'[k] = lobbies[k],
             peer_ordered_ids'[k] = peer_ordered_ids[k]
      PROVE  LobbyInv(k)'
  <2>1. LobbyInv(k)
    BY DEF SeatInv
  <2>2. \A q \in lobbies[k].peer_ids : q \in DOMAIN peers \ leavers
    <3> HIDE DEF leavers
    <3> QED
      BY <1>3, <1>4, <2>1 DEF LobbyInv
  <2>3. QED
    BY <1>6, <1>9, <2>1, <2>2, LobbyUntouched
<1>10. CASE Ends(lobby, p)
  <2>1. lobbies' = Drop(lobbies, {l}) /\ peer_ordered_ids' = Drop(peer_ordered_ids, {l})
    BY <1>10 DEF remove_peer_from_lobby
  <2>2. /\ DOMAIN lobbies' = DOMAIN lobbies \ {l}
        /\ \A k \in DOMAIN lobbies \ {l} :
             lobbies'[k] = lobbies[k] /\ peer_ordered_ids'[k] = peer_ordered_ids[k]
    BY <1>1, <2>1 DEF Drop, Restrict
  <2>3. QED
    BY <1>5, <1>6, <1>7, <1>8, <1>9, <2>2 DEF SeatInv, InLobby, NothingFabricated
<1>11. CASE ~Ends(lobby, p)
  <2>1. ~Disbands(lobby, p) /\ leavers = {p} /\ rest # {}
    <3>1. IsFiniteSet(lobby.peer_ids) /\ p \in lobby.peer_ids
      BY <1>1, FiniteRange DEF LobbyInv
    <3> HIDE DEF lobby
    <3>2. ~Disbands(lobby, p)
      BY <1>11, <3>1, HostedLeavers
    <3>3. QED
      BY <1>11, <3>2 DEF Ends
  <2>2. /\ lobbies' = [lobbies EXCEPT ![l].host = new_host, ![l].peer_ids = @ \ {p}]
        /\ peer_ordered_ids' = [peer_ordered_ids EXCEPT ![l] = Without(@, p)]
    BY <1>11 DEF remove_peer_from_lobby
  <2>3. new_host \in rest
    <3>1. CASE p = lobby.host
      BY <1>1, <2>1, <3>1, MinInSet, IdAssumption DEF NewHost
    <3>2. CASE p # lobby.host
      BY <1>1, <3>2 DEF LobbyInv
    <3>3. QED
      BY <3>1, <3>2
  <2> HIDE DEF new_host
  <2>4. /\ DOMAIN lobbies' = DOMAIN lobbies
        /\ lobbies'[l].peer_ids = rest
        /\ lobbies'[l].host = new_host
        /\ lobbies'[l].order_id_counter = lobby.order_id_counter
        /\ peer_ordered_ids'[l] = Without(s, p)
        /\ \A k \in DOMAIN lobbies \ {l} :
             lobbies'[k] = lobbies[k] /\ peer_ordered_ids'[k] = peer_ordered_ids[k]
    BY <1>1, <2>2 DEF LobbyData
  <2> DEFINE u == Without(s, p)
  <2>5. /\ s \in Seq(PeerId) /\ Range(s) = lobby.peer_ids
        /\ \A i, j \in DOMAIN s : i < j => peers[s[i]].order_id < peers[s[j]].order_id
        /\ \A i \in DOMAIN s : peers[s[i]].order_id <= lobby.order_id_counter
        /\ DOMAIN s = 1..Len(s)
    BY <1>1 DEF LobbyInv
  <2>6. u \in Seq(PeerId) /\ Range(u) = rest /\ InOrder(u, s, Len(s))
    <3>1. LeftOf(PeerId, s, p, Len(s), u)
      BY <2>5, WithoutFacts
    <3>2. Range(s) = {s[k] : k \in 1..Len(s)}
      BY <2>5 DEF Range
    <3>3. QED
      BY <2>5, <3>1, <3>2 DEF LeftOf
  <2> HIDE DEF u
  <2>7. \A q \in rest : q \in DOMAIN peers' /\ peers'[q] = peers[q]
    BY <1>4, <1>6, <2>1
  <2>8. \A i \in DOMAIN u : u[i] \in rest /\ \E k \in DOMAIN s : u[i] = s[k]
    BY <2>5, <2>6 DEF Range
  <2>9. \A i, j \in DOMAIN u : i < j => peers[u[i]].order_id < peers[u[j]].order_id
    <3>1. SUFFICES ASSUME NEW i \in DOMAIN u, NEW j \in DOMAIN u, i < j
                   PROVE  peers[u[i]].order_id < peers[u[j]].order_id
      OBVIOUS
    <3>2. PICK a, b \in 1..Len(s) : a < b /\ u[i] = s[a] /\ u[j] = s[b]
      BY <2>6, <3>1 DEF InOrder
    <3>3. QED
      BY <2>5, <3>2
  <2>10. LobbyInv(l)'
    <3> HIDE DEF lobby, rest
    <3>1. /\ \A i, j \in DOMAIN u : i < j => peers'[u[i]].order_id < peers'[u[j]].order_id
          /\ \A i \in DOMAIN u : peers'[u[i]].order_id <= lobby.order_id_counter
      BY <2>5, <2>7, <2>8, <2>9
    <3>2. \A q \in rest : peers'[q].lobby_id = l
      BY <1>4, <2>7 DEF rest
    <3>3. QED
      BY <2>3, <2>4, <2>6, <2>7, <3>1, <3>2 DEF LobbyInv, u
  <2>11. QED
    BY <1>5, <1>6, <1>7, <1>8, <1>9, <2>4, <2>10 DEF SeatInv, InLobby, NothingFabricated
<1>12. QED
  BY <1>10, <1>11

-----------------------------------------------------------------------------
(* The steps of LobbyService that the helpers take *)

\* A step of LobbyService, or one that it does not see
Serves == [Service!Next]_(Service!vars)

\* The lobby each peer sits in
SeatOf(p) == IF p \in DOMAIN peers THEN peers[p].lobby_id ELSE NoLobby

\* Steps that change neither a seat nor a host are no steps of LobbyService.
LEMMA SameService ==
  ASSUME \A p \in PeerId : SeatOf(p)' = SeatOf(p),
         DOMAIN lobbies' = DOMAIN lobbies,
         \A l \in DOMAIN lobbies : lobbies'[l].host = lobbies[l].host
  PROVE  Serves
<1>1. /\ [p \in PeerId |-> SeatOf(p)'] = [p \in PeerId |-> SeatOf(p)]
      /\ [l \in DOMAIN lobbies' |-> lobbies'[l].host] = [l \in DOMAIN lobbies |-> lobbies[l].host]
  OBVIOUS
<1>2. QED
  BY <1>1 DEF Serves, Service!vars, SeatOf

\* on_create_lobby is a Create of LobbyService, or refuses and changes nothing there.
LEMMA CreateLobbyServes ==
  ASSUME DataInv, SeatInv, NEW p \in DOMAIN peers, NEW before, NEW pw, NEW tags,
         CreateLobby(p, before, pw, tags)
  PROVE  Serves
<1>1. CASE \E e : Refuse(p, e)
  BY <1>1, SameService DEF Refuse, data, SeatOf
<1>2. CASE /\ ~InLobby(p)
           /\ peers' = [peers EXCEPT ![p] = leave_lobby(@)]
           /\ UNCHANGED <<lobbies, peer_ordered_ids, lobbies_updated, fabricated>>
  <2>1. peers[p] \in PeerData /\ peers[p].lobby_id = NoLobby
    BY <1>2 DEF DataInv, InLobby
  <2>2. leave_lobby(peers[p]).lobby_id = NoLobby
    BY <2>1, LeaveLobbyType
  <2>3. \A q \in PeerId : SeatOf(q)' = SeatOf(q)
    BY <1>2, <2>1, <2>2 DEF SeatOf
  <2>4. QED
    BY <1>2, <2>3, SameService
<1>3. ASSUME NEW m, NEW s, NEW name, NEW l \in FreshLobbyId,
             ~InLobby(p),
             peers' = [peers EXCEPT ![p].lobby_id = l, ![p].disconnected = FALSE],
             lobbies' = Put(lobbies, l, NewLobby(p, m, pw, s, name, tags))
      PROVE  Serves
  <2>1. l \in LobbyId /\ l \notin DOMAIN lobbies /\ p \in PeerId /\ peers[p] \in PeerData
    BY DEF FreshLobbyId, DataInv
  <2>2. /\ SeatOf(p) = NoLobby /\ SeatOf(p)' = l
        /\ \A q \in PeerId \ {p} : SeatOf(q)' = SeatOf(q)
    BY <1>3, <2>1 DEF SeatOf, InLobby, PeerData
  <2>3. /\ DOMAIN lobbies' = DOMAIN lobbies \cup {l}
        /\ \A k \in DOMAIN lobbies' : lobbies'[k].host = IF k = l THEN p ELSE lobbies[k].host
    BY <1>3, <2>1 DEF Put, NewLobby
  <2>4. Service!Create(p, l)
    BY <2>1, <2>2, <2>3 DEF Service!Create, SeatOf
  <2>5. QED
    BY <2>1, <2>4 DEF Serves, Service!Next
<1>4. QED
  BY <1>1, <1>2, <1>3, Zenon DEF CreateLobby

\* on_join_lobby is a Join of LobbyService; a peer that comes back to its seat, or is
\* refused, changes nothing there.
LEMMA JoinLobbyServes ==
  ASSUME DataInv, SeatInv, NEW p \in DOMAIN peers, NEW l, NEW pw, NEW before,
         JoinLobby(p, l, pw, before)
  PROVE  Serves
<1>1. CASE Rejoin(p, before)
  <2>1. \A q \in PeerId : SeatOf(q)' = SeatOf(q)
    BY <1>1 DEF Rejoin, SeatOf, DataInv, PeerData
  <2>2. QED
    BY <1>1, <2>1, SameService DEF Rejoin
<1>2. CASE Enter(p, l, before)
  <2>1. l \in DOMAIN lobbies /\ l \in LobbyId /\ ~InLobby(p) /\ p \in PeerId
        /\ peers[p] \in PeerData /\ lobbies[l] \in LobbyData
    BY <1>2 DEF JoinLobby, MayJoin, JoinErrors, JoinTarget, Enter, DataInv
  <2>2. /\ SeatOf(p) = NoLobby /\ SeatOf(p)' = l
        /\ \A q \in PeerId \ {p} : SeatOf(q)' = SeatOf(q)
    BY <1>2, <2>1 DEF Enter, SeatOf, InLobby, PeerData
  <2>3. /\ DOMAIN lobbies' = DOMAIN lobbies
        /\ \A k \in DOMAIN lobbies : lobbies'[k].host = lobbies[k].host
    BY <1>2, <2>1 DEF Enter, LobbyData
  <2>4. Service!Join(p, l)
    BY <2>1, <2>2, <2>3 DEF Service!Join, SeatOf
  <2>5. QED
    BY <2>1, <2>4 DEF Serves, Service!Next
<1>3. QED
  BY <1>1, <1>2 DEF JoinLobby

\* A member that is turned out alone leaves or hands its lobby over; otherwise the
\* lobby closes.
LEMMA RemoveServes ==
  ASSUME Hosted, DataInv, SeatInv, NEW l \in DOMAIN lobbies, NEW p \in lobbies[l].peer_ids,
         NEW by, NEW kicked, remove_peer_from_lobby(l, p, by, kicked)
  PROVE  Serves
<1> DEFINE lobby == lobbies[l]
           leavers == IF Disbands(lobby, p) THEN lobby.peer_ids ELSE {p}
           new_host == IF p = lobby.host /\ ~Disbands(lobby, p) THEN NewHost(lobby, p)
                       ELSE lobby.host
<1>1. /\ l \in LobbyId /\ l # NoLobby /\ lobby \in LobbyData
      /\ p \in lobby.peer_ids /\ lobby.peer_ids \subseteq PeerId
      /\ LobbyInv(l)
      /\ IsFiniteSet(lobby.peer_ids)
  BY IdAssumption, FiniteRange DEF DataInv, SeatInv, LobbyData, LobbyInv
<1>2. /\ lobby.peer_ids \subseteq DOMAIN peers
      /\ \A q \in lobby.peer_ids : SeatOf(q) = l
      /\ \A q \in PeerId : SeatOf(q) = l => q \in lobby.peer_ids
  BY <1>1 DEF LobbyInv, SeatOf, DataInv, SeatsExist, InLobby, LobbyOf
<1>3. \A q \in PeerId : SeatOf(q)' = IF q \in leavers THEN NoLobby ELSE SeatOf(q)
  <2>1. peers' = [q \in DOMAIN peers |-> IF q \in leavers THEN leave_lobby(peers[q]) ELSE peers[q]]
    BY DEF remove_peer_from_lobby
  <2>2. \A q \in DOMAIN peers : leave_lobby(peers[q]).lobby_id = NoLobby
    BY LeaveLobbyType DEF DataInv
  <2> HIDE DEF leavers
  <2>3. QED
    BY <2>1, <2>2 DEF SeatOf
<1>4. lobby.host \in lobby.peer_ids
  BY <1>1 DEF LobbyInv
<1>5. CASE Ends(lobby, p)
  <2>1. leavers = lobby.peer_ids
    BY <1>1, <1>5 DEF Ends, Disbands
  <2>2. \A q \in PeerId : SeatOf(q)' = IF SeatOf(q) = l THEN NoLobby ELSE SeatOf(q)
    <3> HIDE DEF leavers
    <3> QED
      BY <1>1, <1>2, <1>3, <2>1
  <2>3. /\ DOMAIN lobbies' = DOMAIN lobbies \ {l}
        /\ \A k \in DOMAIN lobbies' : lobbies'[k] = lobbies[k]
    BY <1>5 DEF remove_peer_from_lobby, Drop, Restrict
  <2>4. ~DisbandOnLeave => {q \in PeerId : SeatOf(q) = l} = {lobby.host}
    BY <1>1, <1>2, <1>4, <1>5 DEF Ends
  <2>5. Service!Close(l)
    BY <2>2, <2>3, <2>4 DEF Service!Close, Service!Members, SeatOf
  <2>6. QED
    BY <1>1, <2>5 DEF Serves, Service!Next
<1>6. CASE ~Ends(lobby, p)
  <2>1. ~Disbands(lobby, p) /\ lobby.peer_ids \ {p} # {}
    <3> HIDE DEF lobby
    <3>1. ~Disbands(lobby, p)
      BY <1>1, <1>6, HostedLeavers
    <3>2. QED
      BY <1>6, <3>1 DEF Ends
  <2>2. lobbies' = [lobbies EXCEPT ![l].host = new_host, ![l].peer_ids = @ \ {p}]
    BY <1>6 DEF remove_peer_from_lobby
  <2>3. /\ DOMAIN lobbies' = DOMAIN lobbies
        /\ lobbies'[l].host = new_host
        /\ \A k \in DOMAIN lobbies \ {l} : lobbies'[k] = lobbies[k]
    <3> HIDE DEF new_host
    <3> QED
      BY <1>1, <2>2 DEF LobbyData
  <2>4. \A q \in PeerId : SeatOf(q)' = IF q = p THEN NoLobby ELSE SeatOf(q)
    BY <1>3, <2>1
  <2>5. CASE p = lobby.host
    <3>1. new_host \in lobby.peer_ids \ {p}
      BY <1>1, <2>1, <2>5, MinInSet, IdAssumption DEF NewHost
    <3>2. ~DisbandOnLeave
      BY <1>6, <2>5 DEF Ends
    <3>3. PICK q \in PeerId : q = new_host
      BY <1>1, <3>1
    <3> HIDE DEF new_host
    <3>4. SeatOf(q) = l /\ q # p /\ SeatOf(p) = l /\ lobbies'[l].host = q /\ p \in PeerId
      BY <1>1, <1>2, <2>3, <3>1, <3>3
    <3>5. Service!HandOver(p, q)
      BY <1>1, <2>3, <2>4, <2>5, <3>2, <3>4 DEF Service!HandOver, Service!Members, SeatOf
    <3>6. QED
      BY <3>4, <3>5 DEF Serves, Service!Next
  <2>6. CASE p # lobby.host
    <3>1. SeatOf(p) = l /\ \A k \in DOMAIN lobbies : lobbies'[k].host = lobbies[k].host
      BY <1>1, <1>2, <2>3, <2>6
    <3>2. Service!Leave(p)
      BY <1>1, <2>3, <2>4, <2>6, <3>1 DEF Service!Leave, SeatOf
    <3>3. QED
      BY <1>1, <3>2 DEF Serves, Service!Next
  <2>7. QED
    BY <2>5, <2>6
<1>7. QED
  BY <1>5, <1>6

-----------------------------------------------------------------------------
(* The handlers *)

\* What every step owes: seats and lobbies that agree, and a step of LobbyService
Seats == SeatInv' /\ Serves

\* An error answered by any handler is a stutter of LobbyService.
LEMMA RefuseKeeps ==
  ASSUME SeatInv, NEW p, NEW e, Refuse(p, e)
  PROVE  Seats
BY RefuseSeats, SameService DEF Seats, Refuse, data, SeatOf

\* Quick join tries the lobbies of hosts it finds, and a hosted game has their records.
LEMMA QuickJoinKeeps ==
  ASSUME DataInv, SeatInv, NEW p \in DOMAIN peers, NEW pw, NEW tags, NEW before,
         QuickJoin(p, pw, tags, before)
  PROVE  Seats
<1>1. \A c \in OpenLobbies : ~HostMissing(c)
  BY DEF OpenLobbies, HostMissing, SeatInv, LobbyInv
<1>2. \/ \E errors : Refuse(p, errors)
      \/ \E c, errors : JoinLobby(p, c, pw, errors)
      \/ \E errors : CreateLobby(p, errors, pw, tags)
  BY <1>1, Zenon DEF QuickJoin
<1>3. QED
  BY <1>2, RefuseKeeps, JoinLobbySeats, JoinLobbyServes, CreateLobbySeats, CreateLobbyServes
     DEF Seats

\* The commands that seat peers and turn them out.
LEMMA SeatingKeeps ==
  ASSUME Hosted, DataInv, SeatInv, NEW p, Seating(p)
  PROVE  Seats
<1>1. CASE on_create_lobby(p)
  <2>1. p \in DOMAIN peers
    BY <1>1, HandledPeer DEF on_create_lobby
  <2>2. CASE \E pw \in Password, tags \in SUBSET Tag : CreateLobby(p, <<>>, pw, tags)
    BY <2>1, <2>2, CreateLobbySeats, CreateLobbyServes DEF Seats
  <2>3. CASE Refuse(p, <<"INVALID_TAGS">>)
    BY <2>3, RefuseKeeps
  <2>4. QED
    BY <1>1, <2>2, <2>3 DEF on_create_lobby
<1>2. CASE on_join_lobby(p)
  <2>1. p \in DOMAIN peers
    BY <1>2, HandledPeer DEF on_join_lobby
  <2>2. PICK l \in LobbyId, pw \in Password :
          (\E e \in JoinErrors(p, l, pw) : Refuse(p, <<e>>)) \/ JoinLobby(p, l, pw, <<>>)
    BY <1>2 DEF on_join_lobby
  <2>3. QED
    BY <2>1, <2>2, RefuseKeeps, JoinLobbySeats, JoinLobbyServes DEF Seats
<1>3. CASE on_quick_join(p)
  <2>1. p \in DOMAIN peers
    BY <1>3, HandledPeer DEF on_quick_join
  <2>2. PICK l \in LobbyId \cup {NoLobby}, pw \in Password, tags \in SUBSET Tag :
          \/ InLobby(p) /\ JoinLobby(p, l, pw, <<>>)
          \/ \E before : QuickJoin(p, pw, tags, before)
    BY <1>3 DEF on_quick_join
  <2>3. QED
    BY <2>1, <2>2, JoinLobbySeats, JoinLobbyServes, QuickJoinKeeps DEF Seats
<1>4. CASE on_leave_lobby(p)
  <2>1. p \in DOMAIN peers
    BY <1>4, HandledPeer DEF on_leave_lobby
  <2>2. CASE InLobby(p) /\ remove_peer_from_lobby(peers[p].lobby_id, p, p, FALSE)
    <3>1. peers[p].lobby_id \in DOMAIN lobbies /\ p \in lobbies[peers[p].lobby_id].peer_ids
      BY <2>1, <2>2, SeatFacts DEF LobbyOf
    <3>2. QED
      BY <2>2, <3>1, RemoveSeats, RemoveServes DEF Seats
  <2>3. CASE Refuse(p, <<"PEER_NOT_IN_A_LOBBY">>)
    BY <2>3, RefuseKeeps
  <2>4. QED
    BY <1>4, <2>2, <2>3 DEF on_leave_lobby
<1>5. CASE on_kick_peer(p)
  <2>1. p \in DOMAIN peers
    BY <1>5, HandledPeer DEF on_kick_peer, Member
  <2>2. CASE \E errors : Refuse(p, errors)
    BY <2>2, RefuseKeeps
  <2>3. CASE InLobby(p) /\ \E q \in LobbyOf(p).peer_ids :
               remove_peer_from_lobby(peers[p].lobby_id, q, p, TRUE)
    <3>1. peers[p].lobby_id \in DOMAIN lobbies
      BY <2>1, <2>3, SeatFacts
    <3>2. PICK q \in lobbies[peers[p].lobby_id].peer_ids :
            remove_peer_from_lobby(peers[p].lobby_id, q, p, TRUE)
      BY <2>3 DEF LobbyOf
    <3>3. QED
      BY <3>1, <3>2, RemoveSeats, RemoveServes DEF Seats
  <2>4. CASE InLobby(p) /\ LobbyOf(p).host = p
    <3>1. PICK q \in PeerId :
            IF q \notin LobbyOf(p).peer_ids THEN Refuse(p, <<"PEER_NOT_IN_A_LOBBY">>)
            ELSE IF q = p THEN Refuse(p, <<"CANNOT_KICK_SELF">>)
            ELSE Scripted(p, "_can_host_kick",
                          remove_peer_from_lobby(peers[p].lobby_id, q, p, TRUE))
      BY <1>5, <2>4 DEF on_kick_peer, Member, Host
    <3>2. QED
      BY <2>2, <2>3, <2>4, <3>1 DEF Scripted
  <2>5. CASE ~(InLobby(p) /\ LobbyOf(p).host = p)
    BY <1>5, <2>2, <2>5 DEF on_kick_peer, Member, Host
  <2>6. QED
    BY <2>4, <2>5
<1>6. QED
  BY <1>1, <1>2, <1>3, <1>4, <1>5 DEF Seating

\* A change of settings keeps members, host and order.
LEMMA SettingKeeps ==
  ASSUME DataInv, SeatInv, NEW p \in DOMAIN peers, InLobby(p), NEW type, NEW lobby,
         lobby.peer_ids = LobbyOf(p).peer_ids, lobby.host = LobbyOf(p).host,
         lobby.order_id_counter = LobbyOf(p).order_id_counter,
         SetLobby(p, lobby, type)
  PROVE  Seats
<1>1. peers[p].lobby_id \in DOMAIN lobbies
  BY SeatFacts
<1>2. /\ lobbies' = [lobbies EXCEPT ![peers[p].lobby_id] = lobby]
      /\ UNCHANGED peers
  BY DEF SetLobby
<1>3. Serves
  BY <1>1, <1>2, SameService DEF LobbyOf, SeatOf
<1>4. QED
  BY <1>3, SetLobbySeats DEF Seats

\* The handlers of settings keep SeatInv and are stutters of LobbyService.
LEMMA SettingsKeep ==
  ASSUME DataInv, SeatInv, NEW p, Settings(p)
  PROVE  Seats
<1>1. p \in DOMAIN peers
  BY HandledPeer DEF Settings, on_seal_lobby, on_unseal_lobby, on_lobby_max_players,
     on_lobby_title, on_lobby_password, on_lobby_tags, Member
<1>2. CASE \E errors : Refuse(p, errors)
  BY <1>2, RefuseKeeps
<1>3. ASSUME InLobby(p), NEW type, NEW lobby,
             \/ \E x : lobby = [LobbyOf(p) EXCEPT !.sealed = x]
             \/ \E x : lobby = [LobbyOf(p) EXCEPT !.max_players = x]
             \/ \E x : lobby = [LobbyOf(p) EXCEPT !.name = x]
             \/ \E x : lobby = [LobbyOf(p) EXCEPT !.password = x]
             \/ \E x : lobby = [LobbyOf(p) EXCEPT !.tags = x],
             SetLobby(p, lobby, type)
      PROVE  Seats
  <2>1. LobbyOf(p) \in LobbyData
    BY <1>1, <1>3, SeatFacts
  <2>2. /\ lobby.peer_ids = LobbyOf(p).peer_ids
        /\ lobby.host = LobbyOf(p).host
        /\ lobby.order_id_counter = LobbyOf(p).order_id_counter
    BY <1>3, <2>1 DEF LobbyData
  <2>3. QED
    BY <1>1, <1>3, <2>2, SettingKeeps
<1>4. CASE on_seal_lobby(p) \/ on_unseal_lobby(p)
  BY <1>2, <1>3, <1>4
  DEF on_seal_lobby, on_unseal_lobby, Member, Host, set_lobby_sealed, Scripted
<1>5. CASE on_lobby_max_players(p)
  BY <1>2, <1>3, <1>5 DEF on_lobby_max_players, Member, Scripted
<1>6. CASE on_lobby_title(p)
  BY <1>2, <1>3, <1>6 DEF on_lobby_title, Member, Scripted
<1>7. CASE on_lobby_password(p)
  BY <1>2, <1>3, <1>7 DEF on_lobby_password, Member
<1>8. CASE on_lobby_tags(p)
  <2>1. CASE InLobby(p) /\ \E set, null \in SUBSET Tag :
               SetLobby(p, [LobbyOf(p) EXCEPT !.tags = (@ \cup set) \ null], "LOBBY_TAGS")
    BY <1>3, <2>1
  <2>2. QED
    BY <1>2, <1>8, <2>1 DEF on_lobby_tags, Member, Host, Malformed, Scripted
<1>9. QED
  BY <1>4, <1>5, <1>6, <1>7, <1>8 DEF Settings

\* The rest of the commands change no seat.
LEMMA TalkingKeeps ==
  ASSUME DataInv, SeatInv, NEW p, Talking(p)
  PROVE  Seats
<1>1. CASE \E errors : Refuse(p, errors)
  BY <1>1, RefuseKeeps
<1>2. CASE UNCHANGED <<data, fabricated>>
  BY <1>2, SameSeats, SameService DEF Seats, data, SeatOf
<1>3. CASE \E ready : p \in DOMAIN peers /\ set_lobby_ready(p, ready)
  <2>1. /\ UNCHANGED <<lobbies, peer_ordered_ids, fabricated>>
        /\ DOMAIN peers' = DOMAIN peers
        /\ \A q \in DOMAIN peers : /\ peers'[q].lobby_id = peers[q].lobby_id
                                   /\ peers'[q].order_id = peers[q].order_id
    BY <1>3 DEF set_lobby_ready, DataInv, PeerData
  <2>2. QED
    BY <2>1, SameSeats, SameService DEF Seats, SeatOf
<1>4. CASE on_lobby_ready(p) \/ on_lobby_unready(p)
  BY <1>1, <1>3, <1>4, HandledPeer DEF on_lobby_ready, on_lobby_unready, Member, Scripted
<1>5. CASE on_chat_lobby(p)
  BY <1>1, <1>2, <1>5 DEF on_chat_lobby, Member, Malformed
<1>6. CASE on_lobby_call(p)
  BY <1>1, <1>6 DEF on_lobby_call, Member
<1>7. CASE on_user_data(p)
  BY <1>1, <1>2, <1>7 DEF on_user_data, Malformed
<1>8. CASE on_list_lobby(p) \/ on_stop_list_lobby(p)
  BY <1>1, <1>8 DEF on_list_lobby, on_stop_list_lobby
<1>9. QED
  BY <1>4, <1>5, <1>6, <1>7, <1>8 DEF Talking

\* A socket that opens brings a peer without a seat; one that closes leaves the seat.
LEMMA ConnectionSeats ==
  ASSUME DataInv, SeatInv, NEW p \in PeerId, Connection(p)
  PROVE  Seats
<1>1. CASE on_connect(p)
  <2>1. /\ DOMAIN peers' = DOMAIN peers \cup {p}
        /\ \A q \in DOMAIN peers : peers'[q] = peers[q]
        /\ p \notin DOMAIN peers => peers'[p].lobby_id = NoLobby /\ peers'[p].order_id = 0
        /\ UNCHANGED <<lobbies, peer_ordered_ids, fabricated>>
    BY <1>1 DEF on_connect, Put, NewPeer
  <2>2. SeatInv'
    BY <2>1, SameSeats
  <2>3. QED
    BY <2>1, <2>2, SameService DEF Seats, SeatOf
<1>2. CASE on_close(p)
  <2>1. /\ DOMAIN peers' = DOMAIN peers
        /\ \A q \in DOMAIN peers : /\ peers'[q].lobby_id = peers[q].lobby_id
                                   /\ peers'[q].order_id = peers[q].order_id
    <3>1. CASE p \in DOMAIN peers
      <4>1. peers' = [peers EXCEPT ![p].ready = FALSE, ![p].disconnected = TRUE]
        BY <1>2, <3>1 DEF on_close
      <4>2. QED
        BY <3>1, <4>1 DEF DataInv, PeerData
    <3>2. CASE p \notin DOMAIN peers
      BY <1>2, <3>2 DEF on_close
    <3>3. QED
      BY <3>1, <3>2
  <2>2. UNCHANGED <<lobbies, peer_ordered_ids, fabricated>>
    BY <1>2 DEF on_close
  <2>3. QED
    BY <2>1, <2>2, SameSeats, SameService DEF Seats, SeatOf
<1>3. CASE on_rejected_message(p)
  BY <1>3, SameSeats, SameService DEF Seats, SeatOf, on_rejected_message, data
<1>4. QED
  BY <1>1, <1>2, <1>3 DEF Connection

-----------------------------------------------------------------------------
(* The sweep *)

\* Commands, and sockets that open and close, come between two sweeps.
LEMMA EventIdle ==
  ASSUME NEW p \in PeerId, Connection(p) \/ Seating(p) \/ Settings(p) \/ Talking(p)
  PROVE  Idle /\ sweep' = sweep
<1>1. CASE Connection(p)
  BY <1>1 DEF Connection, on_connect, on_close, on_rejected_message, run_vars
<1>2. CASE Seating(p) \/ Settings(p) \/ Talking(p)
  <2>1. UNCHANGED run_vars
    BY <1>2, CommandPeers
  <2>2. Idle
    BY <1>2 DEF Seating, Settings, Talking, on_create_lobby, on_join_lobby, on_quick_join,
       on_leave_lobby, on_kick_peer, on_seal_lobby, on_unseal_lobby, on_lobby_max_players,
       on_lobby_title, on_lobby_password, on_lobby_tags, on_lobby_ready, on_lobby_unready,
       on_chat_lobby, on_lobby_call, on_user_data, on_list_lobby, on_stop_list_lobby, Member,
       Handles
  <2>3. QED
    BY <2>1, <2>2 DEF run_vars
<1>3. QED
  BY <1>1, <1>2

\* A sweep is about to forget only peers that have no seat any more, in every kind of game:
\* nobody can take a seat before it is over.
LEMMA NextSwept == Inv /\ KeepInv /\ SweptInv /\ [Next]_vars => SweptInv'
<1>1. SUFFICES ASSUME Inv, KeepInv, SweptInv, [Next]_vars PROVE SweptInv'
  OBVIOUS
<1>2. CASE ~sweep.active /\ sweep' = sweep
  BY <1>1, <1>2 DEF KeepInv, SweptInv
<1>3. CASE handle_events
  BY <1>2, <1>3, EventIdle DEF handle_events, Idle
<1>4. CASE handle_disconnects_begin \/ handle_disconnects_end
  BY <1>4 DEF handle_disconnects_begin, handle_disconnects_end, NoSweep, SweptInv
<1>5. CASE handle_disconnects_visit
  <2> DEFINE p == Min(sweep.todo)
             seated == p \in DOMAIN peers /\ peers[p].lobby_id \in DOMAIN lobbies
  <2>1. sweep' = [sweep EXCEPT !.todo = @ \ {p},
                    !.to_erase = IF ~seated \/ Expired(p) THEN @ \cup {p} ELSE @]
    BY <1>5 DEF handle_disconnects_visit
  <2>2. ASSUME NEW S, peers' = [q \in DOMAIN peers |-> IF q \in S THEN leave_lobby(peers[q])
                                                     ELSE peers[q]],
               seated /\ Expired(p) => p \in S
        PROVE  SweptInv'
    <3>1. /\ DOMAIN peers' = DOMAIN peers
          /\ \A q \in DOMAIN peers : q \in S \/ ~InLobby(q) => peers'[q].lobby_id = NoLobby
      BY <1>1, <2>2, LeaveLobbyType DEF Inv, DataInv, InLobby
    <3>2. p \in DOMAIN peers /\ ~seated => ~InLobby(p)
      BY <1>1 DEF Inv, DataInv, SeatsExist
    <3> HIDE DEF p, seated
    <3>3. QED
      BY <1>1, <2>1, <2>2, <3>1, <3>2 DEF SweptInv, InLobby, Inv, RunInv
  <2>3. CASE seated /\ Expired(p)
    <3>1. remove_peer_from_lobby(peers[p].lobby_id, p, NoPeer, TRUE)
      BY <1>5, <2>3 DEF handle_disconnects_visit
    <3>2. p \in lobbies[peers[p].lobby_id].peer_ids
      BY <1>1, <2>3, IdAssumption DEF Inv, DataInv, SeatsExist, InLobby, LobbyOf
    <3> HIDE DEF p
    <3>3. QED
      BY <2>2, <3>1, <3>2 DEF remove_peer_from_lobby
  <2>4. CASE ~(seated /\ Expired(p))
    <3>1. peers' = [q \in DOMAIN peers |->
                      IF q = p /\ ~seated THEN leave_lobby(peers[q]) ELSE peers[q]]
      BY <1>5, <2>4 DEF handle_disconnects_visit
    <3> HIDE DEF p, seated
    <3>2. \A q : q = p /\ ~seated <=> q \in IF seated THEN {} ELSE {p}
      OBVIOUS
    <3>3. QED
      BY <2>2, <2>4, <3>1, <3>2
  <2>5. QED
    BY <2>3, <2>4
<1>6. CASE UNCHANGED peers /\ sweep' = sweep
  BY <1>1, <1>6 DEF SweptInv, InLobby
<1>7. CASE handle_lobby_list \/ time_run \/ UNCHANGED vars
  BY <1>6, <1>7 DEF handle_lobby_list, time_run, vars, data, run_vars
<1>8. QED
  BY <1>1, <1>3, <1>4, <1>5, <1>7 DEF Next, handle_disconnects

\* A sweep turns out the peers whose time is over, and forgets only peers without a seat.
LEMMA SweepSeats ==
  ASSUME Hosted, Inv, SeatInv, SweptInv, handle_disconnects
  PROVE  Seats
<1>1. CASE handle_disconnects_begin
  BY <1>1, SameSeats, SameService DEF handle_disconnects_begin, data, Seats, SeatOf
<1>2. CASE handle_disconnects_visit
  <2> DEFINE p == Min(sweep.todo)
             seated == p \in DOMAIN peers /\ peers[p].lobby_id \in DOMAIN lobbies
  <2>1. CASE seated /\ Expired(p)
    <3>1. remove_peer_from_lobby(peers[p].lobby_id, p, NoPeer, TRUE)
      BY <1>2, <2>1 DEF handle_disconnects_visit
    <3>2. peers[p].lobby_id \in DOMAIN lobbies /\ p \in lobbies[peers[p].lobby_id].peer_ids
      BY <2>1, IdAssumption DEF Inv, DataInv, SeatsExist, InLobby, LobbyOf
    <3> HIDE DEF p
    <3>3. QED
      BY <3>1, <3>2, RemoveSeats, RemoveServes DEF Inv, Seats
  <2>2. CASE ~(seated /\ Expired(p))
    <3>1. /\ peers' = [q \in DOMAIN peers |->
                         IF q = p /\ ~seated THEN leave_lobby(peers[q]) ELSE peers[q]]
          /\ UNCHANGED <<lobbies, peer_ordered_ids, lobbies_updated, fabricated>>
      BY <1>2, <2>2 DEF handle_disconnects_visit
    <3>2. \A q \in DOMAIN peers : q = p /\ ~seated =>
            /\ peers[q].lobby_id = NoLobby /\ peers[q].order_id = 0
            /\ leave_lobby(peers[q]).lobby_id = NoLobby /\ leave_lobby(peers[q]).order_id = 0
      BY DEF Inv, DataInv, SeatsExist, SeatInv, InLobby, leave_lobby, PeerData
    <3> HIDE DEF p, seated
    <3>3. /\ DOMAIN peers' = DOMAIN peers
          /\ \A q \in DOMAIN peers : /\ peers'[q].lobby_id = peers[q].lobby_id
                                     /\ peers'[q].order_id = peers[q].order_id
      BY <3>1, <3>2
    <3>4. QED
      BY <3>1, <3>3, SameSeats, SameService DEF Seats, SeatOf
  <2>3. QED
    BY <2>1, <2>2
<1>3. CASE handle_disconnects_end
  <2>1. /\ DOMAIN peers' = DOMAIN peers \ sweep.to_erase
        /\ \A q \in DOMAIN peers' : peers'[q] = peers[q]
        /\ UNCHANGED <<lobbies, peer_ordered_ids, fabricated>>
    BY <1>3 DEF handle_disconnects_end, Drop, Restrict
  <2>2. ASSUME NEW l \in DOMAIN lobbies PROVE LobbyInv(l)'
    <3>1. LobbyInv(l) /\ l # NoLobby
      BY IdAssumption DEF SeatInv, Inv, DataInv
    <3>2. \A q \in lobbies[l].peer_ids : q \in DOMAIN peers'
      BY <2>1, <3>1 DEF LobbyInv, SweptInv, InLobby
    <3>3. QED
      BY <2>1, <3>1, <3>2, LobbyUntouched
  <2>3. SeatInv'
    BY <2>1, <2>2 DEF SeatInv, InLobby, NothingFabricated
  <2>4. Serves
    <3>1. \A q \in PeerId : SeatOf(q)' = SeatOf(q)
      BY <2>1 DEF SeatOf, SweptInv, InLobby
    <3>2. QED
      BY <2>1, <3>1, SameService
  <2>5. QED
    BY <2>3, <2>4 DEF Seats
<1>4. QED
  BY <1>1, <1>2, <1>3 DEF handle_disconnects

-----------------------------------------------------------------------------
(* The inductive invariant of hosted games and what follows from it *)

HostedInv == Inv /\ KeepInv /\ SeatInv /\ SweptInv

\* The empty game has nobody seated.
LEMMA InitHosted == Init => HostedInv /\ Service!Init
<1>1. SUFFICES ASSUME Init PROVE HostedInv /\ Service!Init
  OBVIOUS
<1>2. /\ peers = <<>> /\ lobbies = <<>> /\ peer_ordered_ids = <<>>
      /\ ~fabricated /\ sockets = {} /\ sweep = NoSweep
  BY <1>1 DEF Init
<1>3. DOMAIN peers = {} /\ DOMAIN lobbies = {}
  BY <1>2
<1>4. KeepInv /\ SeatInv /\ SweptInv
  BY <1>2, <1>3 DEF KeepInv, NoSweep, SeatInv, NothingFabricated, SweptInv
<1>5. Service!Init
  BY <1>3 DEF Service!Init
<1>6. QED
  BY <1>1, <1>4, <1>5, InitInv DEF HostedInv

\* Every step of the game thread keeps HostedInv and serves LobbyService.
LEMMA NextHosted == Hosted /\ HostedInv /\ [Next]_vars => HostedInv' /\ Serves
<1>1. SUFFICES ASSUME Hosted, HostedInv, [Next]_vars PROVE Seats
  BY NextInv, NextKeeps, NextSwept DEF HostedInv, Seats
<1>2. CASE handle_events
  BY <1>1, <1>2, ConnectionSeats, SeatingKeeps, SettingsKeep, TalkingKeeps
  DEF handle_events, HostedInv, Inv
<1>3. CASE handle_disconnects
  BY <1>1, <1>3, SweepSeats DEF HostedInv
<1>4. CASE UNCHANGED <<peers, lobbies, peer_ordered_ids, fabricated>>
  BY <1>1, <1>4, SameSeats, SameService DEF HostedInv, Seats, SeatOf
<1>5. CASE handle_lobby_list \/ time_run \/ UNCHANGED vars
  BY <1>4, <1>5 DEF handle_lobby_list, time_run, vars, data
<1>6. QED
  BY <1>1, <1>2, <1>3, <1>5 DEF Next

\* The parts of SeatInv that the runs check.
LEMMA HostedFacts ==
  HostedInv => MembersAgree /\ HostIsSeated /\ JoinOrder /\ NothingFabricated
BY DEF HostedInv, SeatInv, LobbyInv, MembersAgree, HostIsSeated, JoinOrder

\* MembersAgree holds in every hosted game: peer_ids never keeps somebody who left, was
\* kicked, was turned out with the host or has been forgotten by a sweep.
THEOREM MembersAlwaysAgree ==
  ASSUME Hosted
  PROVE  Spec => []MembersAgree
BY InitHosted, NextHosted, HostedFacts, PTL DEF Spec

\* HostIsSeated holds in every hosted game: remove_peer_from_lobby always finds a new host
\* among the members that stay.
THEOREM HostAlwaysSeated ==
  ASSUME Hosted
  PROVE  Spec => []HostIsSeated
BY InitHosted, NextHosted, HostedFacts, PTL DEF Spec

\* JoinOrder holds in every hosted game: neither std::sort, which is not stable, nor
\* std::remove disturbs the order in which the members came.
THEOREM OrderAlwaysKept ==
  ASSUME Hosted
  PROVE  Spec => []JoinOrder
BY InitHosted, NextHosted, HostedFacts, PTL DEF Spec

\* NothingFabricated holds in every hosted game: no handler evaluates game.peers[id] for
\* an id that is not there, so operator[] never moves records under live references. What
\* functions of a script do is no part of Spec; one of theirs can (fabricate in Scripts).
THEOREM NothingEverFabricated ==
  ASSUME Hosted
  PROVE  Spec => []NothingFabricated
BY InitHosted, NextHosted, HostedFacts, PTL DEF Spec

\* A hosted game implements LobbyService: every step of a handler, a sweep or the clock
\* is one of its steps or changes neither seats nor hosts.
THEOREM ServiceImplemented ==
  ASSUME Hosted
  PROVE  Spec => ImplementsService
<1>1. HostedInv /\ [Next]_vars => HostedInv' /\ [Service!Next]_(Service!vars)
  BY NextHosted DEF Serves
<1>2. QED
  BY <1>1, InitHosted, PTL DEF Spec, ImplementsService, Service!Spec

=============================================================================
