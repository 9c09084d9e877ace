-------------------------- MODULE LeaderboardProofs --------------------------
(***************************************************************************)
(* Proofs about Leaderboard, for any users, scores, modes and bounds.      *)
(***************************************************************************)
EXTENDS Leaderboard, FiniteSetTheorems, WellFoundedInduction, NaturalsInduction, TLAPS

USE UserAssumption, ScoreAssumption, MessageAssumption

\* A statement of leaderboard_set_score leaves a well-formed table well-formed.
LEMMA SavedType ==
  ASSUME NEW board, DOMAIN board \subseteq User, board \in [DOMAIN board -> Bigint],
         NEW msg \in Message
  PROVE  /\ DOMAIN Saved(board, msg) \subseteq User
         /\ Saved(board, msg) \in [DOMAIN Saved(board, msg) -> Bigint]
  BY DEF Saved, Fails, Message

\* The type invariant BoardTypeOK is kept by every step of the program, of its database
\* thread and of its HTTP handlers.
LEMMA TypeStep == BoardTypeOK /\ [BoardNext]_board_vars => BoardTypeOK'
<1> SUFFICES ASSUME BoardTypeOK, [BoardNext]_board_vars PROVE BoardTypeOK'
  OBVIOUS
<1> USE DEF BoardTypeOK, queue_vars, lookup_vars
<1>1. ASSUME NEW msg \in Message, leaderboards_set_score(msg) PROVE BoardTypeOK'
  BY <1>1 DEF leaderboards_set_score
<1>2. CASE DatabaseThread_run
  BY <1>2 DEF DatabaseThread_run, Next_message
<1>3. CASE leaderboard_set_score
  BY <1>3, SavedType DEF leaderboard_set_score
<1>4. CASE terminate
  <2>0. /\ database_queue' \in Seq(Message)
        /\ lookup' \in [user : User \cup {NoUser}, score : Int, ahead : SUBSET User]
    <3>1. <<>> \in Seq(Message)
      OBVIOUS
    <3>2. NoLookup \in [user : User \cup {NoUser}, score : Int, ahead : SUBSET User]
      BY DEF NoLookup
    <3> QED BY <1>4, <3>1, <3>2 DEF terminate
  <2>1. CASE UNCHANGED leaderboards
    BY <1>4, <2>0, <2>1 DEF terminate
  <2>2. CASE saving # NoMessage /\ leaderboards' = Saved(leaderboards, saving)
    <3>1. /\ DOMAIN leaderboards' \subseteq User
          /\ leaderboards' \in [DOMAIN leaderboards' -> Bigint]
      BY <2>2, SavedType
    <3> QED BY <1>4, <2>0, <3>1 DEF terminate
  <2> QED BY <1>4, <2>1, <2>2 DEF terminate
<1>5. CASE connect_to_db
  BY <1>5 DEF connect_to_db
<1>6. ASSUME NEW u \in User, get_user_score_first(u) PROVE BoardTypeOK'
  <2>1. Ahead(leaderboards, leaderboards[u]) \subseteq User
    BY DEF Ahead
  <2>2. u \in DOMAIN leaderboards => leaderboards[u] \in Int
    OBVIOUS
  <2>3. CASE u \in DOMAIN leaderboards
    BY <1>6, <2>1, <2>2, <2>3 DEF get_user_score_first
  <2>4. CASE u \notin DOMAIN leaderboards
    <3>1. NoneShown \in [ranked : BOOLEAN, ahead : SUBSET User, rank : Int]
      BY DEF NoneShown
    <3> QED BY <1>6, <2>4, <3>1 DEF get_user_score_first
  <2> QED BY <2>3, <2>4
<1>7. CASE get_user_score_second
  <2>1. IsFiniteSet(Counted(leaderboards, lookup))
    BY FS_Subset DEF Counted, Ahead
  <2>2. Cardinality(Counted(leaderboards, lookup)) \in Nat
    BY <2>1, FS_CardinalityType
  <2> QED BY <1>7, <2>2 DEF get_user_score_second, NoLookup
<1>8. CASE UNCHANGED board_vars
  BY <1>8 DEF board_vars
<1> QED BY <1>1, <1>2, <1>3, <1>4, <1>5, <1>6, <1>7, <1>8 DEF BoardNext, BoardStep

\* Queue, table and look-up always have the types of database_thread.h and of the table's
\* columns: no score out of range is ever committed.
THEOREM BoardTypeCorrect == BoardSpec => []BoardTypeOK
<1>1. BoardInit => BoardTypeOK
  BY DEF BoardInit, BoardTypeOK, NoLookup, NoneShown
<1> QED BY <1>1, TypeStep, PTL DEF BoardSpec

-----------------------------------------------------------------------------
(* Scores that only rise *)

\* With the modes "best", and "inc" of scores that are not negative, a statement of
\* leaderboard_set_score keeps every row and lowers no score.
LEMMA SavedRises ==
  ASSUME Rising,
         NEW board, DOMAIN board \subseteq User, board \in [DOMAIN board -> Bigint],
         NEW msg \in Message, NEW u \in DOMAIN board
  PROVE  u \in DOMAIN Saved(board, msg) /\ Saved(board, msg)[u] >= board[u]
<1>1. CASE Fails(board, msg)
  BY <1>1 DEF Saved
<1>2. CASE ~Fails(board, msg) /\ u # msg.peer_id
  BY <1>2 DEF Saved
<1>3. CASE ~Fails(board, msg) /\ u = msg.peer_id
  <2>1. Saved(board, msg)[u] = Updated(board[u], msg)
    BY <1>3 DEF Saved, NewScore
  <2>2. /\ board[u] \in Int
        /\ msg.score \in Int
        /\ msg.leaderboard_type \in Mode
    BY DEF Message
  <2>3. CASE msg.leaderboard_type = "best"
    BY <2>1, <2>2, <2>3, <1>3 DEF Updated, Better, Saved
  <2>4. CASE msg.leaderboard_type = "inc"
    <3>1. msg.score \in Nat
      BY <2>2, <2>4 DEF Rising, Message
    <3> QED BY <2>1, <2>2, <2>4, <3>1, <1>3 DEF Updated, Saved
  <2> QED BY <2>2, <2>3, <2>4 DEF Rising
<1> QED BY <1>1, <1>2, <1>3

\* So no step lowers a score: the table is written by leaderboard_set_score alone.
LEMMA TableRises ==
  ASSUME Rising, BoardTypeOK, [BoardNext]_board_vars, NEW u \in DOMAIN leaderboards
  PROVE  u \in DOMAIN leaderboards' /\ leaderboards'[u] >= leaderboards[u]
<1> USE DEF BoardTypeOK
<1>0. leaderboards[u] \in Int
  OBVIOUS
<1>1. CASE leaderboards' = leaderboards
  BY <1>0, <1>1
<1>2. CASE saving # NoMessage /\ leaderboards' = Saved(leaderboards, saving)
  BY <1>2, SavedRises
<1>3. \/ leaderboards' = leaderboards
      \/ saving # NoMessage /\ leaderboards' = Saved(leaderboards, saving)
  BY DEF BoardNext, BoardStep, leaderboards_set_score, DatabaseThread_run, leaderboard_set_score,
         terminate, connect_to_db, get_user_score_first, get_user_score_second, board_vars,
         queue_vars, lookup_vars
<1> QED BY <1>1, <1>2, <1>3

\* A best score never falls and is never forgotten, whatever the threads interleave and
\* whenever the program ends.
THEOREM BestAlwaysKept == BoardSpec => BestKept
<1>1. BoardTypeOK /\ [BoardNext]_board_vars =>
        [Rising => \A u \in DOMAIN leaderboards :
           u \in DOMAIN leaderboards' /\ leaderboards'[u] >= leaderboards[u]]_board_vars
  BY TableRises
<1> QED BY <1>1, BoardTypeCorrect, PTL DEF BoardSpec, BestKept

\* Between the two statements of a look-up, whoever was ahead stays ahead of the score read.
LookupInv ==
  Rising => /\ \A v \in lookup.ahead : v \in DOMAIN leaderboards /\ leaderboards[v] > lookup.score
            /\ NeverFlattered

\* The second statement of leaderboard_get_user_score counts at least those who were ahead
\* when the first one ran.
LEMMA LookupStep == BoardTypeOK /\ LookupInv /\ [BoardNext]_board_vars => LookupInv'
<1> SUFFICES ASSUME BoardTypeOK, LookupInv, [BoardNext]_board_vars, Rising PROVE LookupInv'
  BY DEF LookupInv, Rising
<1>1. ASSUME NEW u \in User, get_user_score_first(u) PROVE LookupInv'
  <2>1. CASE u \in DOMAIN leaderboards
    BY <1>1, <2>1 DEF get_user_score_first, LookupInv, NeverFlattered, Ahead, queue_vars, Rising
  <2>2. CASE u \notin DOMAIN leaderboards
    BY <1>1, <2>2 DEF get_user_score_first, LookupInv, NeverFlattered, NoneShown, queue_vars, Rising
  <2> QED BY <2>1, <2>2
<1>2. CASE get_user_score_second
  <2>1. lookup.ahead \subseteq Counted(leaderboards, lookup)
    BY DEF LookupInv, Counted, Ahead
  <2>2. IsFiniteSet(Counted(leaderboards, lookup))
    BY FS_Subset DEF Counted, Ahead, BoardTypeOK
  <2>3. /\ Cardinality(lookup.ahead) <= Cardinality(Counted(leaderboards, lookup))
        /\ Cardinality(lookup.ahead) \in Nat
        /\ Cardinality(Counted(leaderboards, lookup)) \in Nat
    BY <2>1, <2>2, FS_Subset, FS_CardinalityType
  <2>4. NeverFlattered'
    BY <1>2, <2>3 DEF get_user_score_second, NeverFlattered
  <2> QED BY <1>2, <2>4 DEF get_user_score_second, LookupInv, NoLookup
<1>3. CASE UNCHANGED lookup_vars \/ (lookup' = NoLookup /\ UNCHANGED shown)
  <2>1. NeverFlattered'
    BY <1>3 DEF LookupInv, NeverFlattered, lookup_vars, Rising
  <2>2. ASSUME NEW v \in lookup'.ahead, lookup' = lookup
        PROVE  v \in DOMAIN leaderboards' /\ leaderboards'[v] > lookup'.score
    <3>1. v \in DOMAIN leaderboards /\ leaderboards[v] > lookup.score
      BY <2>2 DEF LookupInv
    <3>2. v \in DOMAIN leaderboards' /\ leaderboards'[v] >= leaderboards[v]
      BY <3>1, TableRises
    <3>3. BoardTypeOK'
      BY TypeStep
    <3>4. leaderboards[v] \in Int /\ leaderboards'[v] \in Int /\ lookup.score \in Int
      BY <3>1, <3>2, <3>3 DEF BoardTypeOK
    <3> QED BY <2>2, <3>1, <3>2, <3>4
  <2>3. lookup' = NoLookup => lookup'.ahead = {}
    BY DEF NoLookup
  <2> QED BY <1>3, <2>1, <2>2, <2>3 DEF LookupInv, lookup_vars
<1>4. UNCHANGED lookup_vars \/ (lookup' = NoLookup /\ UNCHANGED shown)
      \/ get_user_score_second \/ \E u \in User : get_user_score_first(u)
  BY DEF BoardNext, BoardStep, leaderboards_set_score, DatabaseThread_run, leaderboard_set_score,
         terminate, connect_to_db, board_vars, lookup_vars
<1> QED BY <1>1, <1>2, <1>3, <1>4

\* Nobody is ever shown a better rank than the one held when the score was read.
THEOREM NobodyFlattered == BoardSpec => []NeverFlattered
<1>1. BoardInit => LookupInv
  BY DEF BoardInit, LookupInv, NoLookup, NoneShown, NeverFlattered
<1>2. LookupInv => NeverFlattered
  BY DEF LookupInv, NeverFlattered
<1> QED BY <1>1, <1>2, LookupStep, BoardTypeCorrect, PTL DEF BoardSpec

-----------------------------------------------------------------------------
(* Scores on their way *)

\* F holds the table before the first of n messages and after each of them
SavedOneByOne(board, msgs, n, F) ==
  F = [i \in 0..n |-> IF i = 0 THEN board ELSE Saved(F[i - 1], msgs[i])]

\* A set of numbers that is not empty has a member whose predecessor is not in it.
LEMMA LeastCounterexample ==
  ASSUME NEW B, B \subseteq Nat, B # {}
  PROVE  \E m \in B : m = 0 \/ m - 1 \notin B
<1>1. PICK x \in B : \A y \in B : ~(<<y, x>> \in OpToRel(<, Nat))
  BY NatLessThanWellFounded, WFMin
<1>2. CASE x # 0
  <2>1. <<x - 1, x>> \in OpToRel(<, Nat)
    BY <1>2 DEF OpToRel
  <2> QED BY <1>1, <2>1
<1> QED BY <1>2

\* The tables that DatabaseThread writes one after the other exist for every queue.
LEMMA SavedOneByOneExists ==
  ASSUME NEW board, NEW msgs, NEW n \in Nat
  PROVE  \E F : SavedOneByOne(board, msgs, n, F)
<1> DEFINE B == {m \in Nat : ~\E F : SavedOneByOne(board, msgs, m, F)}
<1> SUFFICES ASSUME B # {} PROVE FALSE
  OBVIOUS
<1>1. PICK m \in B : m = 0 \/ m - 1 \notin B
  <2>1. B \subseteq Nat
    OBVIOUS
  <2> HIDE DEF B
  <2> QED BY <2>1, LeastCounterexample
<1>2. CASE m = 0
  <2> DEFINE G == [i \in 0..0 |-> board]
  <2>1. SavedOneByOne(board, msgs, 0, G)
    BY DEF SavedOneByOne
  <2> QED BY <1>1, <1>2, <2>1
<1>3. CASE m # 0
  <2>1. PICK F : SavedOneByOne(board, msgs, m - 1, F)
    BY <1>1, <1>3
  <2> DEFINE last == Saved(F[m - 1], msgs[m])
             G == [i \in 0..m |-> IF i = m THEN last ELSE F[i]]
  <2>2. \A i \in 0..(m - 1) : G[i] = F[i]
    BY <1>3
  <2>3. \A i \in 0..m : G[i] = IF i = 0 THEN board ELSE Saved(G[i - 1], msgs[i])
    <3>1. ASSUME NEW i \in 0..(m - 1), i # 0 PROVE i - 1 \in 0..(m - 1)
      BY <1>3, <3>1
    <3>2. \A i \in 0..(m - 1) : F[i] = IF i = 0 THEN board ELSE Saved(F[i - 1], msgs[i])
      BY <2>1 DEF SavedOneByOne
    <3>3. G[m] = last /\ G[m - 1] = F[m - 1]
      BY <1>3, <2>2
    <3> HIDE DEF G
    <3> QED BY <1>3, <2>2, <3>1, <3>2, <3>3
  <2>4. SavedOneByOne(board, msgs, m, G)
    <3>1. G = [i \in 0..m |-> G[i]]
      OBVIOUS
    <3> HIDE DEF G
    <3> QED BY <2>3, <3>1 DEF SavedOneByOne
  <2> QED BY <1>1, <2>4
<1> QED BY <1>2, <1>3

\* What a queue makes of the table is the last of those tables.
LEMMA SavedAllFacts ==
  ASSUME NEW board, NEW msgs, Len(msgs) \in Nat
  PROVE  \E F : /\ SavedAll(board, msgs) = F[Len(msgs)]
                /\ \A i \in 0..Len(msgs) :
                     F[i] = IF i = 0 THEN board ELSE Saved(F[i - 1], msgs[i])
<1> DEFINE F == CHOOSE F : SavedOneByOne(board, msgs, Len(msgs), F)
<1>1. SavedOneByOne(board, msgs, Len(msgs), F)
  BY SavedOneByOneExists
<1>2. SavedAll(board, msgs) = F[Len(msgs)]
  BY DEF SavedAll, SavedOneByOne
<1> HIDE DEF F
<1> QED BY <1>1, <1>2 DEF SavedOneByOne

\* An empty queue leaves the table as it is.
LEMMA SavedNone ==
  ASSUME NEW board
  PROVE  SavedAll(board, <<>>) = board
<1>1. Len(<<>>) = 0
  OBVIOUS
<1> QED BY <1>1, SavedAllFacts

\* A message that leaderboards_set_score appends is applied after all others.
LEMMA SavedLast ==
  ASSUME NEW board, NEW s \in Seq(Message), NEW msg \in Message
  PROVE  SavedAll(board, Append(s, msg)) = Saved(SavedAll(board, s), msg)
<1> DEFINE n == Len(s)
           t == Append(s, msg)
<1>0. n \in Nat /\ Len(t) = n + 1 /\ t[n + 1] = msg /\ \A i \in 1..n : t[i] = s[i]
  OBVIOUS
<1>1. PICK F : /\ SavedAll(board, s) = F[n]
               /\ \A i \in 0..n : F[i] = IF i = 0 THEN board ELSE Saved(F[i - 1], s[i])
  BY <1>0, SavedAllFacts
<1> HIDE DEF t, n
<1>2. PICK G : /\ SavedAll(board, t) = G[n + 1]
               /\ \A i \in 0..(n + 1) : G[i] = IF i = 0 THEN board ELSE Saved(G[i - 1], t[i])
  <2>1. Len(t) \in Nat
    BY <1>0
  <2> QED BY <1>0, <2>1, SavedAllFacts
<1> DEFINE B == {i \in 0..n : F[i] # G[i]}
<1>3. B = {}
  <2> SUFFICES ASSUME B # {} PROVE FALSE
    OBVIOUS
  <2>1. PICK m \in B : m = 0 \/ m - 1 \notin B
    <3>1. B \subseteq Nat
      BY <1>0
    <3> HIDE DEF B
    <3> QED BY <3>1, LeastCounterexample
  <2>2. m \in 0..n /\ m \in 0..(n + 1) /\ (m # 0 => m - 1 \in 0..n /\ m \in 1..n)
    BY <1>0
  <2>3. m # 0 => F[m - 1] = G[m - 1] /\ s[m] = t[m]
    BY <1>0, <2>1, <2>2
  <2> QED BY <1>1, <1>2, <2>1, <2>2, <2>3
<1>4. F[n] = G[n] /\ n + 1 \in 0..(n + 1) /\ n + 1 # 0 /\ (n + 1) - 1 = n
  BY <1>0, <1>3
<1>5. G[n + 1] = Saved(G[n], msg)
  BY <1>0, <1>2, <1>4
<1> QED BY <1>1, <1>2, <1>4, <1>5 DEF t

\* The message that try_dequeue takes is applied before all others.
LEMMA SavedFirst ==
  ASSUME NEW board, NEW s \in Seq(Message), s # <<>>
  PROVE  SavedAll(board, s) = SavedAll(Saved(board, Head(s)), Tail(s))
<1> DEFINE n == Len(s) - 1
           t == Tail(s)
           next == Saved(board, Head(s))
<1>0. n \in Nat /\ Len(s) = n + 1 /\ Len(t) = n /\ Head(s) = s[1] /\ \A i \in 1..n : t[i] = s[i + 1]
  OBVIOUS
<1> HIDE DEF t, n
<1>1. PICK F : /\ SavedAll(board, s) = F[n + 1]
               /\ \A i \in 0..(n + 1) : F[i] = IF i = 0 THEN board ELSE Saved(F[i - 1], s[i])
  <2>1. Len(s) \in Nat
    OBVIOUS
  <2>2. PICK F : /\ SavedAll(board, s) = F[Len(s)]
                 /\ \A i \in 0..Len(s) : F[i] = IF i = 0 THEN board ELSE Saved(F[i - 1], s[i])
    BY <2>1, SavedAllFacts
  <2> QED BY <1>0, <2>2
<1> HIDE DEF next
<1>2. PICK G : /\ SavedAll(next, t) = G[n]
               /\ \A i \in 0..n : G[i] = IF i = 0 THEN next ELSE Saved(G[i - 1], t[i])
  BY <1>0, SavedAllFacts
<1> DEFINE B == {i \in 0..n : F[i + 1] # G[i]}
<1>3. B = {}
  <2> SUFFICES ASSUME B # {} PROVE FALSE
    OBVIOUS
  <2>1. PICK m \in B : m = 0 \/ m - 1 \notin B
    <3>1. B \subseteq Nat
      BY <1>0
    <3> HIDE DEF B
    <3> QED BY <3>1, LeastCounterexample
  <2>2. m \in 0..n /\ m \in Nat /\ m + 1 \in 0..(n + 1) /\ (m + 1) - 1 = m /\ m + 1 # 0
    BY <1>0
  <2>3. F[m + 1] = Saved(F[m], s[m + 1])
    BY <1>1, <2>2
  <2>4. CASE m = 0
    <3>1. F[0] = board /\ G[0] = next
      BY <1>0, <1>1, <1>2
    <3> QED BY <1>0, <2>1, <2>3, <2>4, <3>1 DEF next
  <2>5. CASE m # 0
    <3>1. m - 1 \in 0..n /\ (m - 1) + 1 = m /\ m \in 1..n
      BY <1>0, <2>2, <2>5
    <3>2. F[m] = G[m - 1]
      BY <2>1, <2>5, <3>1
    <3>3. G[m] = Saved(G[m - 1], t[m]) /\ t[m] = s[m + 1]
      BY <1>0, <1>2, <2>2, <2>5, <3>1
    <3> QED BY <2>1, <2>3, <3>2, <3>3
  <2> QED BY <2>4, <2>5
<1>4. F[n + 1] = G[n]
  BY <1>0, <1>3
<1> QED BY <1>1, <1>2, <1>4 DEF next, t

\* Each step takes the next message to where it is due: into the queue, from there to the
\* transaction, and into the table.
LEMMA ArriveStep == BoardTypeOK /\ ScoresArrive /\ [BoardNext]_board_vars => ScoresArrive'
<1> SUFFICES ASSUME BoardTypeOK, ScoresArrive, [BoardNext]_board_vars PROVE ScoresArrive'
  OBVIOUS
<1>0. database_queue \in Seq(Message)
  BY DEF BoardTypeOK
<1>1. ASSUME NEW msg \in Message, leaderboards_set_score(msg) PROVE ScoresArrive'
  BY <1>0, <1>1, SavedLast DEF leaderboards_set_score, ScoresArrive
<1>2. CASE DatabaseThread_run
  <2>1. Head(database_queue) \in Message
    BY <1>0, <1>2 DEF DatabaseThread_run
  <2>2. due = SavedAll(Saved(leaderboards, Head(database_queue)), Tail(database_queue))
    BY <1>0, <1>2, SavedFirst DEF DatabaseThread_run, ScoresArrive
  <2> QED BY <1>2, <2>1, <2>2 DEF DatabaseThread_run, Next_message, ScoresArrive
<1>3. CASE leaderboard_set_score
  BY <1>3 DEF leaderboard_set_score, ScoresArrive
<1>4. CASE terminate
  BY <1>4, SavedNone DEF terminate, ScoresArrive
<1>5. CASE UNCHANGED <<queue_vars, leaderboards>>
  BY <1>5 DEF queue_vars, ScoresArrive
<1> QED BY <1>1, <1>2, <1>3, <1>4, <1>5 DEF BoardNext, BoardStep, connect_to_db,
           get_user_score_first, get_user_score_second, board_vars

\* Every score that scripts send is applied once and in the order of sending, until the end
\* of the program.
THEOREM ScoresAlwaysArrive == BoardSpec => []ScoresArrive
<1>1. BoardInit => ScoresArrive
  BY SavedNone DEF BoardInit, ScoresArrive
<1> QED BY <1>1, ArriveStep, BoardTypeCorrect, PTL DEF BoardSpec

=============================================================================
