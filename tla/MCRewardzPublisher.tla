-------------------------- MODULE MCRewardzPublisher --------------------------
(* Small instances of RewardzPublisher: rows 1 and 2 belong to authority A,    *)
(* row 3 to B, and row 4 to a malformed authority that can never be redeemed.  *)
EXTENDS RewardzPublisher, TLC

MCAuthority == [r \in Rows |-> CASE r \in {1, 2} -> "A" [] r = 3 -> "B" [] OTHER -> "bad"]

MCAmount == [r \in Rows |-> 1]

KeeperSymmetry == Permutations(Keepers)
===============================================================================
