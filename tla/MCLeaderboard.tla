---------------------------- MODULE MCLeaderboard ----------------------------
(* Instances of Leaderboard for TLC *)
EXTENDS Leaderboard

\* A column so narrow that sums of scores overflow it
NarrowBigint == -3..3

=============================================================================
