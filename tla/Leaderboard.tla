----------------------------- MODULE Leaderboard -----------------------------
(***************************************************************************)
(* One leaderboard of one game: scores go from the scripts, which the game *)
(* thread runs, through a queue to DatabaseThread, which alone writes the  *)
(* table; the HTTP handlers read it on the thread of the sockets           *)
(* (src/src/database, src/src/main.cpp).                                   *)
(*                                                                         *)
(* The table outlives the program. Everything else goes with it: neither   *)
(* DatabaseThread::run nor the handlers catch what pqxx throws, so that a  *)
(* lost connection or a score out of range ends the process, and with it   *)
(* the queue. The thread of the database reads from the queue only where   *)
(* the database is enabled, which is assumed here.                         *)
(***************************************************************************)
EXTENDS Integers, FiniteSets, Sequences

CONSTANTS
  User,                 \* user ids that scripts name
  Score,                \* scores that scripts pass
  Mode,                 \* the modes that scripts use
  Bigint,               \* the range of the column "score"
  NoMessage,            \* DatabaseThread has no message in hand
  NoUser,               \* no look-up is going on
  MaxQueued             \* bound: messages in the queue

ASSUME UserAssumption == IsFiniteSet(User) /\ NoUser \notin User

ASSUME ScoreAssumption ==
  /\ Bigint \subseteq Int
  /\ Score \subseteq Bigint
  /\ Mode \subseteq {"set", "best", "inc", "dec"}
  /\ MaxQueued \in Nat

VARIABLES
  database_queue,       \* scores on their way to DatabaseThread
  saving,               \* the message whose transaction is open
  leaderboards,         \* the table: the score of every user that has one
  running,              \* the program runs
  lookup,               \* leaderboard_get_user_score between its two statements
  \* history
  due,                  \* what the table will be once all scores are in
  shown                 \* the last answer to a look-up

queue_vars  == <<database_queue, saving, due>>
lookup_vars == <<lookup, shown>>
board_vars  == <<queue_vars, leaderboards, running, lookup_vars>>

Message == [peer_id : User, score : Score, leaderboard_type : Mode]

ASSUME MessageAssumption == NoMessage \notin Message

-----------------------------------------------------------------------------
(* The statements *)

\* Mutant of Better: the latest score counts
Better_Latest(old, score) == score

\* GREATEST
Better(old, score) == IF old > score THEN old ELSE score

\* ON CONFLICT DO UPDATE: the new score of a user that has one
Updated(old, msg) ==
  CASE msg.leaderboard_type = "set"  -> msg.score
    [] msg.leaderboard_type = "best" -> Better(old, msg.score)
    [] msg.leaderboard_type = "inc"  -> old + msg.score
    [] msg.leaderboard_type = "dec"  -> old - msg.score

\* The first score of a user is inserted as it is, in every mode
NewScore(board, msg) ==
  IF msg.peer_id \in DOMAIN board THEN Updated(board[msg.peer_id], msg) ELSE msg.score

\* Mutant of Fails: the column wraps or widens instead
Fails_Never(board, msg) == FALSE

\* A sum that does not fit its column is an error
Fails(board, msg) == NewScore(board, msg) \notin Bigint

Saved(board, msg) ==
  IF Fails(board, msg) THEN board
  ELSE [u \in DOMAIN board \cup {msg.peer_id} |->
          IF u = msg.peer_id THEN NewScore(board, msg) ELSE board[u]]

\* One statement after the other
SavedAll(board, msgs) ==
  LET after[i \in 0..Len(msgs)] == IF i = 0 THEN board ELSE Saved(after[i - 1], msgs[i])
  IN after[Len(msgs)]

\* SELECT COUNT(*) ... WHERE score > $3 counts these
Ahead(board, score) == {u \in DOMAIN board : board[u] > score}

-----------------------------------------------------------------------------
(* The program *)

NoLookup == [user |-> NoUser, score |-> 0, ahead |-> {}]
NoneShown == [ranked |-> FALSE, ahead |-> {}, rank |-> -1]

\* GameThread::leaderboards_set_score
leaderboards_set_score(msg) ==
  /\ running
  /\ Len(database_queue) < MaxQueued
  /\ database_queue' = Append(database_queue, msg)
  /\ due' = Saved(due, msg)
  /\ UNCHANGED <<saving, leaderboards, running, lookup_vars>>

\* Mutant of Next_message: the latest first
Next_message_Last == database_queue[Len(database_queue)]

\* try_dequeue
Next_message == Head(database_queue)

DatabaseThread_run ==
  /\ running
  /\ saving = NoMessage
  /\ database_queue # <<>>
  /\ saving' = Next_message
  /\ database_queue' = Tail(database_queue)
  /\ UNCHANGED <<due, leaderboards, running, lookup_vars>>

\* The transaction commits
leaderboard_set_score ==
  /\ running
  /\ saving # NoMessage
  /\ ~Fails(leaderboards, saving)
  /\ leaderboards' = Saved(leaderboards, saving)
  /\ saving' = NoMessage
  /\ UNCHANGED <<database_queue, due, running, lookup_vars>>

\* An exception or exit(1) ends the process, with what was queued. The
\* transaction that was open has been committed or not
terminate ==
  /\ running
  /\ running' = FALSE
  /\ \/ UNCHANGED leaderboards
     \/ saving # NoMessage /\ leaderboards' = Saved(leaderboards, saving)
  /\ database_queue' = <<>>
  /\ saving' = NoMessage
  /\ lookup' = NoLookup
  /\ due' = leaderboards'
  /\ UNCHANGED shown

\* The program is started again; connect_to_db finds the table as it is
connect_to_db ==
  /\ ~running
  /\ running' = TRUE
  /\ UNCHANGED <<queue_vars, leaderboards, lookup_vars>>

\* SELECT score: a user without one is answered at once, without a rank
get_user_score_first(u) ==
  /\ running
  /\ lookup = NoLookup
  /\ IF u \in DOMAIN leaderboards
     THEN /\ lookup' = [user |-> u, score |-> leaderboards[u],
                        ahead |-> Ahead(leaderboards, leaderboards[u])]
          /\ UNCHANGED shown
     ELSE /\ shown' = NoneShown
          /\ UNCHANGED lookup
  /\ UNCHANGED <<queue_vars, leaderboards, running>>

\* The second statement sees what has been committed since the first, which
\* may include a new score of the user itself
Counted(board, look) == Ahead(board, look.score)

get_user_score_second ==
  /\ running
  /\ lookup # NoLookup
  /\ shown' = [ranked |-> TRUE, ahead |-> lookup.ahead,
               rank |-> Cardinality(Counted(leaderboards, lookup)) + 1]
  /\ lookup' = NoLookup
  /\ UNCHANGED <<queue_vars, leaderboards, running>>

-----------------------------------------------------------------------------
(* Specification *)

BoardInit ==
  /\ database_queue = <<>>
  /\ saving = NoMessage
  /\ leaderboards = <<>>
  /\ running = TRUE
  /\ lookup = NoLookup
  /\ due = <<>>
  /\ shown = NoneShown

\* What goes on beside the game thread
BoardStep ==
  \/ DatabaseThread_run \/ leaderboard_set_score \/ terminate \/ connect_to_db
  \/ \E u \in User : get_user_score_first(u)
  \/ get_user_score_second

BoardNext == BoardStep \/ \E msg \in Message : leaderboards_set_score(msg)

BoardSpec == BoardInit /\ [][BoardNext]_board_vars

-----------------------------------------------------------------------------
(* Properties *)

\* Type invariant of the queue, the table and the look-up.
BoardTypeOK ==
  /\ database_queue \in Seq(Message)
  /\ saving \in Message \cup {NoMessage}
  /\ DOMAIN leaderboards \subseteq User
  /\ leaderboards \in [DOMAIN leaderboards -> Bigint]
  /\ running \in BOOLEAN
  /\ lookup \in [user : User \cup {NoUser}, score : Int, ahead : SUBSET User]
  /\ shown \in [ranked : BOOLEAN, ahead : SUBSET User, rank : Int]

\* Scores that are on their way arrive, each once and in the order in which the game
\* thread sent them: with what is in hand and in the queue the table becomes what all
\* requests since the last start of the program make of it.
ScoresArrive ==
  due = SavedAll(IF saving = NoMessage THEN leaderboards ELSE Saved(leaderboards, saving),
                 database_queue)

\* Nothing a script does can lower a score
Rising == Mode \subseteq {"best", "inc"} /\ (Mode = {"best"} \/ Score \subseteq Nat)

\* A best score never falls and is never forgotten: not by a later, worse score, nor
\* by a transaction that is lost, nor by the end of the program.
BestKept ==
  [][Rising => \A u \in DOMAIN leaderboards :
                 u \in DOMAIN leaderboards' /\ leaderboards'[u] >= leaderboards[u]]_board_vars

\* The rank is counted after the score was read, in another statement: commits in
\* between may make it worse than it was, never better.
NeverFlattered == Rising /\ shown.ranked => shown.rank > Cardinality(shown.ahead)

=============================================================================
