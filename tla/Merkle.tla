------------------------------- MODULE Merkle -------------------------------
(* The tree of both rails (src/src/merkle.rs, src/src/rewardz_merkle.rs): the  *)
(* levels are built bottom-up, then each leaf's proof is read off them.        *)
(*                                                                             *)
(* Abstractions.  Keccak256 is free: a leaf hash is the entry, a pair hash the *)
(* unordered pair, since the smaller sibling is hashed first.  The authorities *)
(* of the entries are distinct, as GROUP BY makes them.                        *)
EXTENDS Integers, SequencesExt

CONSTANT Entries      \* sequence of [authority, amount]; the input is a prefix

ASSUME EntriesAssumption == Entries \in Seq(ToSet(Entries))

VARIABLES size,       \* number of entries in the input
          levels,     \* the levels built so far, leaves first
          leaf,       \* entry whose proof is being read
          depth,      \* level its walk has reached
          idx,        \* index on that level, 0-based as in the code
          proof,      \* the proof so far
          proofs      \* finished proofs

vars == <<size, levels, leaf, depth, idx, proof, proofs>>

-------------------------------------------------------------------------------
(* Here and below, a definition named for a plausible bug is a mutant of the   *)
(* one after it; no action uses it.                                            *)
HashLeafOfAuthority(entry) == [leaf |-> entry.authority]

HashLeaf(entry) == [leaf |-> entry]

HashPair(a, b) == [pair |-> {a, b}]

Leaves == [i \in 1..size |-> HashLeaf(Entries[i])]

(* The level above: pairs of neighbours, and an odd tail promoted unhashed.    *)
NextLevel(prev) ==
  [i \in 1..((Len(prev) + 1) \div 2) |->
     IF 2 * i <= Len(prev) THEN HashPair(prev[2 * i - 1], prev[2 * i]) ELSE prev[2 * i - 1]]

SiblingToTheRight(i) == i + 1

Sibling(i) == IF i % 2 = 0 THEN i + 1 ELSE i - 1

Verify(hash, elements, root) ==
  LET current[i \in 0..Len(elements)] ==
        IF i = 0 THEN hash ELSE HashPair(current[i - 1], elements[i])
  IN  current[Len(elements)] = root

-------------------------------------------------------------------------------
Init ==
  /\ size \in 1..Len(Entries)
  /\ levels = <<Leaves>>
  /\ leaf = 1
  /\ depth = 1
  /\ idx = 0
  /\ proof = <<>>
  /\ proofs = <<>>

Built == Len(Last(levels)) = 1

BuildLevel ==
  /\ ~Built
  /\ levels' = Append(levels, NextLevel(Last(levels)))
  /\ UNCHANGED <<size, leaf, depth, idx, proof, proofs>>

(* One level of the walk of a leaf: a sibling if there is one.                 *)
WalkUp ==
  /\ Built
  /\ leaf <= size
  /\ depth < Len(levels)
  /\ proof' = IF Sibling(idx) < Len(levels[depth])
              THEN Append(proof, levels[depth][Sibling(idx) + 1]) ELSE proof
  /\ idx' = idx \div 2
  /\ depth' = depth + 1
  /\ UNCHANGED <<size, levels, leaf, proofs>>

(* proofs.insert; the next leaf starts from the bottom.                        *)
FinishProof ==
  /\ Built
  /\ leaf <= size
  /\ depth = Len(levels)
  /\ proofs' = Append(proofs, proof)
  /\ leaf' = leaf + 1
  /\ depth' = 1
  /\ idx' = leaf
  /\ proof' = <<>>
  /\ UNCHANGED <<size, levels>>

Next == BuildLevel \/ WalkUp \/ FinishProof

Spec == Init /\ [][Next]_vars

-------------------------------------------------------------------------------
(* Properties *)

TreeRoot == Last(levels)[1]

(* The loop invariant: the proof so far opens the node the walk has reached,   *)
(* promoted nodes included; so a finished proof opens the root.                *)
ProofsOpenTheRoot ==
  /\ Built /\ leaf <= size =>
       Verify(HashLeaf(Entries[leaf]), proof, levels[depth][idx + 1])
  /\ \A i \in DOMAIN proofs : Verify(HashLeaf(Entries[i]), proofs[i], TreeRoot)

(* A proof opens the root for its own authority and amount only: no other      *)
(* authority, no other amount, not even one that belongs to the tree.          *)
Claims == {[authority |-> e.authority, amount |-> n] : e \in ToSet(Entries), n \in 0..2}

ProofsAreExact ==
  \A i \in DOMAIN proofs, c \in Claims :
    Verify(HashLeaf(c), proofs[i], TreeRoot) => c.authority = Entries[i].authority
                                                /\ c.amount = Entries[i].amount
===============================================================================
