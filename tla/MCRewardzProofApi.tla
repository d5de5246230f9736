-------------------------- MODULE MCRewardzProofApi ---------------------------
(* Small instances of RewardzProofApi: rows 1 and 2 are A's, row 3 is B's and  *)
(* row 4 belongs to a malformed authority.                                     *)
EXTENDS RewardzProofApi, TLC

MCAuthority == [r \in Rows |-> CASE r \in {1, 2} -> "A" [] r = 3 -> "B" [] OTHER -> "bad"]

MCAmount == [r \in Rows |-> 1]
===============================================================================
