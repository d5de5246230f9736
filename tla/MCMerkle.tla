------------------------------ MODULE MCMerkle ------------------------------
(* Trees of 1 to 11 leaves: every shape of odd tails up to four levels.        *)
EXTENDS Merkle

MCEntries == [i \in 1..11 |-> [authority |-> i, amount |-> 1]]
===============================================================================
