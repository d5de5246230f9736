---------------------------- MODULE MCLeaderboard ----------------------------
(* Small instances of Leaderboard: keepers and protocols are interchangeable.  *)
EXTENDS Leaderboard, TLC

Symmetry == Permutations(Keepers) \cup Permutations(Protocols)
===============================================================================
