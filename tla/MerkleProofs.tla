----------------------------- MODULE MerkleProofs -----------------------------
(* For any entries: each proof that is read off the tree opens the root, and   *)
(* opens it for its own entry only.                                            *)
EXTENDS Merkle, SequenceTheorems, WellFoundedInduction, TLAPS

(* Inductions go by a least counterexample: a nonempty set of natural numbers  *)
(* has a least element, and a set that holds 0 and every successor holds all.  *)
LEMMA LeastNumber ==
  ASSUME NEW T \in SUBSET Nat, T # {}
  PROVE  \E n \in T : \A m \in T : ~(m < n)
<1>1. IsWellFoundedOn(OpToRel(<, Nat), Nat)
  BY NatLessThanWellFounded
<1>2. \E n \in T : \A m \in T : ~(<<m, n>> \in OpToRel(<, Nat))
  BY <1>1, WFMin
<1>3. QED
  BY <1>2 DEF OpToRel

LEMMA CountingUp ==
  ASSUME NEW T \in SUBSET Nat, 0 \in T, \A n \in T : n + 1 \in T
  PROVE  T = Nat
<1>1. SUFFICES ASSUME Nat \ T # {} PROVE FALSE
  OBVIOUS
<1>2. PICK n \in Nat \ T : \A m \in Nat \ T : ~(m < n)
  BY <1>1, LeastNumber
<1>3. n - 1 \in Nat \ T
  BY <1>2
<1>4. QED
  BY <1>2, <1>3

-------------------------------------------------------------------------------
(* Hashes *)

(* Neither hash collides, and a pair hash does not depend on the order.        *)
LEMMA HashesAreFree ==
  ASSUME NEW a, NEW b, NEW c
  PROVE  /\ HashLeaf(a) = HashLeaf(b) => a = b
         /\ HashPair(a, c) = HashPair(b, c) => a = b
         /\ HashPair(a, b) = HashPair(b, a)
<1>1. HashLeaf(a) = HashLeaf(b) => a = b
  BY DEF HashLeaf
<1>2. ASSUME HashPair(a, c) = HashPair(b, c) PROVE a = b
  <2>1. {a, c} = {b, c}
    BY <1>2 DEF HashPair
  <2>2. QED
    BY <2>1
<1>3. HashPair(a, b) = HashPair(b, a)
  BY DEF HashPair
<1>4. QED
  BY <1>1, <1>2, <1>3

(* The values a verifier goes through after m elements.                        *)
Opening(g, m, hash, elements) ==
  /\ g[0] = hash
  /\ \A i \in 1..m : g[i] = HashPair(g[i - 1], elements[i])

Unrolled(g, hash, elements) ==
  g = [i \in 0..Len(elements) |->
         IF i = 0 THEN hash ELSE HashPair(g[i - 1], elements[i])]

LEMMA VerifyIsChosen ==
  ASSUME NEW hash, NEW elements, NEW root
  PROVE  Verify(hash, elements, root)
           <=> (CHOOSE g : Unrolled(g, hash, elements))[Len(elements)] = root
BY DEF Verify, Unrolled

LEMMA OpeningExists ==
  ASSUME NEW hash, NEW elements, NEW m \in Nat
  PROVE  \E g : g = [i \in 0..m |-> g[i]] /\ Opening(g, m, hash, elements)
<1> DEFINE Opens(n) == \E g : g = [i \in 0..n |-> g[i]] /\ Opening(g, n, hash, elements)
           T == {n \in Nat : Opens(n)}
<1>1. 0 \in T
  <2>1. PICK g : g = [i \in 0..0 |-> hash]
    OBVIOUS
  <2>2. g = [i \in 0..0 |-> g[i]] /\ g[0] = hash
    BY <2>1
  <2>3. QED
    BY <2>2 DEF Opening
<1>2. ASSUME NEW n \in T PROVE n + 1 \in T
  <2>1. PICK g : Opening(g, n, hash, elements)
    OBVIOUS
  <2>2. PICK h : h = [i \in 0..(n + 1) |->
                        IF i <= n THEN g[i] ELSE HashPair(g[n], elements[n + 1])]
    OBVIOUS
  <2>3. h = [i \in 0..(n + 1) |-> h[i]]
    BY <2>2
  <2>4. h[0] = hash
    BY <2>1, <2>2 DEF Opening
  <2>5. \A i \in 1..n : h[i] = HashPair(h[i - 1], elements[i])
    BY <2>1, <2>2 DEF Opening
  <2>6. h[n + 1] = HashPair(h[n], elements[n + 1])
    BY <2>2
  <2>7. Opening(h, n + 1, hash, elements)
    BY <2>4, <2>5, <2>6 DEF Opening
  <2>8. QED
    BY <2>3, <2>7
<1>3. m \in T
  BY <1>1, <1>2, CountingUp
<1>4. QED
  BY <1>3

LEMMA OpeningsAgree ==
  ASSUME NEW hash, NEW elements, NEW m \in Nat,
         NEW g, Opening(g, m, hash, elements),
         NEW h, Opening(h, m, hash, elements)
  PROVE  g[m] = h[m]
<1> DEFINE T == {n \in Nat : n <= m => g[n] = h[n]}
<1>1. 0 \in T
  BY DEF Opening
<1>2. ASSUME NEW n \in T, n + 1 <= m PROVE n + 1 \in T
  <2>1. g[n] = h[n]
    BY <1>2
  <2>2. /\ g[n + 1] = HashPair(g[n], elements[n + 1])
        /\ h[n + 1] = HashPair(h[n], elements[n + 1])
    BY <1>2 DEF Opening
  <2>3. QED
    BY <2>1, <2>2
<1>3. T = Nat
  <2>1. \A n \in T : n + 1 \in T
    BY <1>2
  <2>2. QED
    BY <1>1, <2>1, CountingUp
<1>4. QED
  BY <1>3

(* A proof verifies when some opening by its elements ends in the root.        *)
LEMMA VerifyOpens ==
  ASSUME NEW hash, NEW elements, NEW root, Len(elements) \in Nat
  PROVE  Verify(hash, elements, root)
           <=> \E g : Opening(g, Len(elements), hash, elements) /\ g[Len(elements)] = root
<1>1. ASSUME NEW g, Unrolled(g, hash, elements)
      PROVE  Opening(g, Len(elements), hash, elements)
  BY <1>1 DEF Unrolled, Opening
<1>2. \E g : Unrolled(g, hash, elements)
  <2>1. PICK g : /\ g = [i \in 0..Len(elements) |-> g[i]]
                 /\ Opening(g, Len(elements), hash, elements)
    BY OpeningExists
  <2>2. PICK h : h = [i \in 0..Len(elements) |->
                        IF i = 0 THEN hash ELSE HashPair(g[i - 1], elements[i])]
    OBVIOUS
  <2>3. ASSUME NEW i \in 0..Len(elements) PROVE h[i] = g[i]
    <3>1. CASE i = 0
      BY <2>1, <2>2, <3>1 DEF Opening
    <3>2. CASE i \in 1..Len(elements)
      <4>1. h[i] = HashPair(g[i - 1], elements[i])
        BY <2>2, <3>2
      <4>2. QED
        BY <2>1, <3>2, <4>1 DEF Opening
    <3>3. QED
      BY <3>1, <3>2
  <2>4. h = g
    BY <2>1, <2>2, <2>3
  <2>5. QED
    BY <2>2, <2>4 DEF Unrolled
<1>3. PICK c : /\ Opening(c, Len(elements), hash, elements)
               /\ Verify(hash, elements, root) <=> c[Len(elements)] = root
  BY <1>1, <1>2, VerifyIsChosen
<1>4. \A g : Opening(g, Len(elements), hash, elements) => g[Len(elements)] = c[Len(elements)]
  BY <1>3, OpeningsAgree
<1>5. QED
  BY <1>3, <1>4

LEMMA EmptyProofVerifies ==
  ASSUME NEW hash
  PROVE  Verify(hash, <<>>, hash)
<1>1. Len(<<>>) = 0
  OBVIOUS
<1>2. PICK g : g = [i \in 0..0 |-> hash]
  OBVIOUS
<1>3. Opening(g, 0, hash, <<>>) /\ g[0] = hash
  BY <1>2 DEF Opening
<1>4. QED
  BY <1>1, <1>3, VerifyOpens

IsSeq(s) == \E S : s \in Seq(S)

LEMMA Appending ==
  ASSUME NEW s, IsSeq(s), NEW e
  PROVE  /\ Len(s) \in Nat
         /\ DOMAIN s = 1..Len(s)
         /\ IsSeq(Append(s, e))
         /\ Len(Append(s, e)) = Len(s) + 1
         /\ \A i \in 1..Len(s) : Append(s, e)[i] = s[i]
         /\ Append(s, e)[Len(s) + 1] = e
<1>1. PICK S : s \in Seq(S)
  BY DEF IsSeq
<1>2. PICK U : U = S \cup {e}
  OBVIOUS
<1>3. s \in Seq(U) /\ e \in U
  BY <1>1, <1>2, SeqMonotonic
<1>4. QED
  BY <1>3, AppendProperties, LenProperties DEF IsSeq

(* A proof that opens a node, with the node's sibling appended, opens the pair.*)
LEMMA AppendedSiblingVerifies ==
  ASSUME NEW hash, NEW elements, IsSeq(elements), NEW node, NEW sibling,
         Verify(hash, elements, node)
  PROVE  Verify(hash, Append(elements, sibling), HashPair(node, sibling))
<1>1. PICK n, longer : n = Len(elements) /\ longer = Append(elements, sibling)
  OBVIOUS
<1>2. /\ n \in Nat
      /\ Len(longer) = n + 1
      /\ \A i \in 1..n : longer[i] = elements[i]
      /\ longer[n + 1] = sibling
  BY <1>1, Appending
<1>3. PICK g : Opening(g, n, hash, elements) /\ g[n] = node
  BY <1>1, <1>2, VerifyOpens
<1>4. PICK h : h = [i \in 0..(n + 1) |-> IF i <= n THEN g[i] ELSE HashPair(node, sibling)]
  OBVIOUS
<1>5. h[0] = hash
  BY <1>2, <1>3, <1>4 DEF Opening
<1>6. \A i \in 1..n : h[i] = HashPair(h[i - 1], longer[i])
  BY <1>2, <1>3, <1>4 DEF Opening
<1>7. h[n] = node /\ h[n + 1] = HashPair(node, sibling)
  BY <1>2, <1>3, <1>4
<1>8. \A i \in 1..(n + 1) : h[i] = HashPair(h[i - 1], longer[i])
  <2>1. h[n + 1] = HashPair(h[n], longer[n + 1])
    BY <1>2, <1>7
  <2>2. \A i \in 1..(n + 1) : i \in 1..n \/ i = n + 1
    BY <1>2
  <2>3. (n + 1) - 1 = n
    BY <1>2
  <2>4. QED
    BY <1>6, <2>1, <2>2, <2>3
<1>9. Opening(h, n + 1, hash, longer)
  BY <1>5, <1>8 DEF Opening
<1>10. n + 1 \in Nat
  BY <1>2
<1>11. QED
  BY <1>1, <1>2, <1>7, <1>9, <1>10, VerifyOpens

(* One proof opens one root for one hash: back from the root, each value on    *)
(* the way is determined by the pair it is in and the other of that pair.      *)
LEMMA ProofsDetermineHash ==
  ASSUME NEW hash, NEW other, NEW elements, NEW root, Len(elements) \in Nat,
         Verify(hash, elements, root), Verify(other, elements, root)
  PROVE  hash = other
<1>1. PICK n : n = Len(elements)
  OBVIOUS
<1>2. PICK g : Opening(g, n, hash, elements) /\ g[n] = root
  BY <1>1, VerifyOpens
<1>3. PICK h : Opening(h, n, other, elements) /\ h[n] = root
  BY <1>1, VerifyOpens
<1> DEFINE T == {k \in Nat : k <= n => g[n - k] = h[n - k]}
<1>4. 0 \in T
  BY <1>1, <1>2, <1>3
<1>5. ASSUME NEW k \in T PROVE k + 1 \in T
  <2>1. SUFFICES ASSUME k + 1 <= n PROVE g[n - (k + 1)] = h[n - (k + 1)]
    OBVIOUS
  <2>2. PICK i : i = n - k
    OBVIOUS
  <2>3. i \in 1..n /\ i - 1 = n - (k + 1) /\ k <= n
    BY <1>1, <2>1, <2>2
  <2>4. g[i] = h[i]
    BY <2>2, <2>3
  <2>5. HashPair(g[i - 1], elements[i]) = HashPair(h[i - 1], elements[i])
    BY <1>2, <1>3, <2>3, <2>4 DEF Opening
  <2>6. g[i - 1] = h[i - 1]
    BY <2>5, HashesAreFree
  <2>7. QED
    BY <2>3, <2>6
<1>6. n \in T
  BY <1>1, <1>4, <1>5, CountingUp
<1>7. g[0] = h[0]
  BY <1>1, <1>6
<1>8. QED
  BY <1>2, <1>3, <1>7 DEF Opening

-------------------------------------------------------------------------------
(* Levels *)

IsLevel(level) == /\ IsSeq(level)
                  /\ Len(level) \in Nat \ {0}
                  /\ DOMAIN level = 1..Len(level)

LEMMA LeavesAreALevel ==
  ASSUME size \in Nat \ {0}
  PROVE  /\ IsLevel(Leaves)
         /\ Len(Leaves) = size
         /\ \A i \in 1..size : Leaves[i] = HashLeaf(Entries[i])
<1>1. PICK S : S = {HashLeaf(Entries[i]) : i \in 1..size}
  OBVIOUS
<1>2. Leaves \in [1..size -> S]
  BY <1>1 DEF Leaves
<1>3. Leaves \in Seq(S) /\ Len(Leaves) = size
  BY <1>2
<1>4. QED
  BY <1>2, <1>3 DEF IsLevel, IsSeq, Leaves

LEMMA NextLevelIsALevel ==
  ASSUME NEW prev, IsLevel(prev)
  PROVE  /\ IsLevel(NextLevel(prev))
         /\ Len(NextLevel(prev)) = (Len(prev) + 1) \div 2
         /\ \A i \in 1..((Len(prev) + 1) \div 2) :
              NextLevel(prev)[i] = IF 2 * i <= Len(prev)
                                   THEN HashPair(prev[2 * i - 1], prev[2 * i])
                                   ELSE prev[2 * i - 1]
<1>1. PICK n : n = (Len(prev) + 1) \div 2
  OBVIOUS
<1>2. n \in Nat \ {0}
  BY <1>1 DEF IsLevel
<1>3. PICK level : level = NextLevel(prev)
  OBVIOUS
<1>4. /\ level = [i \in 1..n |-> level[i]]
      /\ \A i \in 1..n : level[i] = IF 2 * i <= Len(prev)
                                    THEN HashPair(prev[2 * i - 1], prev[2 * i])
                                    ELSE prev[2 * i - 1]
  BY <1>1, <1>3 DEF NextLevel
<1>5. PICK S : S = {level[i] : i \in 1..n}
  OBVIOUS
<1>6. level \in [1..n -> S]
  BY <1>4, <1>5
<1>7. level \in Seq(S) /\ Len(level) = n
  BY <1>2, <1>6
<1>8. IsLevel(level)
  BY <1>2, <1>6, <1>7 DEF IsLevel, IsSeq
<1>9. QED
  BY <1>1, <1>3, <1>4, <1>7, <1>8

(* One step up the tree: the parent is the pair of a node and its sibling, or  *)
(* the node itself when the level ends before a sibling.                       *)
LEMMA ParentOfNode ==
  ASSUME NEW level, IsLevel(level), NEW i \in Nat, i < Len(level)
  PROVE  /\ i \div 2 \in Nat
         /\ i \div 2 < Len(NextLevel(level))
         /\ Sibling(i) \in Nat
         /\ NextLevel(level)[(i \div 2) + 1] =
              IF Sibling(i) < Len(level)
              THEN HashPair(level[i + 1], level[Sibling(i) + 1]) ELSE level[i + 1]
<1>1. PICK n, h : n = Len(level) /\ h = i \div 2
  OBVIOUS
<1>2. /\ n \in Nat \ {0}
      /\ i < n
      /\ h \in Nat
      /\ i = 2 * h \/ i = 2 * h + 1
      /\ i = 2 * h => i % 2 = 0
      /\ i = 2 * h + 1 => i % 2 = 1
  BY <1>1 DEF IsLevel
<1>3. h + 1 \in 1..((n + 1) \div 2)
  BY <1>2
<1>4. NextLevel(level)[h + 1] = IF 2 * (h + 1) <= n
                                THEN HashPair(level[2 * (h + 1) - 1], level[2 * (h + 1)])
                                ELSE level[2 * (h + 1) - 1]
  BY <1>1, <1>3, NextLevelIsALevel
<1>5. Len(NextLevel(level)) = (n + 1) \div 2
  BY <1>1, NextLevelIsALevel
<1>6. CASE i = 2 * h
  <2>1. Sibling(i) = i + 1
    BY <1>2, <1>6 DEF Sibling
  <2>2. 2 * (h + 1) - 1 = i + 1 /\ 2 * (h + 1) = (i + 1) + 1 /\ (2 * (h + 1) <= n <=> i + 1 < n)
    BY <1>2, <1>6
  <2>3. QED
    BY <1>1, <1>2, <1>3, <1>4, <1>5, <2>1, <2>2
<1>7. CASE i = 2 * h + 1
  <2>1. Sibling(i) = i - 1
    BY <1>2, <1>7 DEF Sibling
  <2>2. 2 * (h + 1) - 1 = (i - 1) + 1 /\ 2 * (h + 1) = i + 1 /\ 2 * (h + 1) <= n /\ i - 1 < n
    BY <1>2, <1>7
  <2>3. i - 1 \in Nat
    BY <1>2, <1>7
  <2>4. HashPair(level[(i - 1) + 1], level[i + 1]) = HashPair(level[i + 1], level[(i - 1) + 1])
    BY HashesAreFree
  <2>5. NextLevel(level)[h + 1] = HashPair(level[(i - 1) + 1], level[i + 1])
    BY <1>4, <2>2
  <2>6. QED
    BY <1>1, <1>2, <1>3, <1>5, <2>1, <2>2, <2>3, <2>4, <2>5
<1>8. QED
  BY <1>2, <1>6, <1>7

-------------------------------------------------------------------------------
(* The inductive invariant *)

(* Each level is made from the one below it.                                   *)
TreeIsMadeOfLevels ==
  /\ size \in Nat \ {0}
  /\ IsSeq(levels)
  /\ Len(levels) \in Nat \ {0}
  /\ levels[1] = Leaves
  /\ \A d \in 1..Len(levels) : IsLevel(levels[d])
  /\ \A d \in 1..(Len(levels) - 1) : levels[d + 1] = NextLevel(levels[d])

(* The walk stays on the tree and starts when the tree is complete.            *)
WalkIsOnTheTree ==
  /\ leaf \in 1..(size + 1)
  /\ depth \in 1..Len(levels)
  /\ idx \in Nat
  /\ leaf <= size => idx < Len(levels[depth])
  /\ ~Built => depth = 1 /\ leaf = 1
  /\ IsSeq(proof)
  /\ IsSeq(proofs)
  /\ Len(proofs) = leaf - 1
  /\ \A i \in 1..Len(proofs) : IsSeq(proofs[i])

(* What is read so far opens the node reached, what is finished the root.      *)
ProofsOpen ==
  /\ leaf <= size => Verify(HashLeaf(Entries[leaf]), proof, levels[depth][idx + 1])
  /\ \A i \in 1..Len(proofs) : Verify(HashLeaf(Entries[i]), proofs[i], TreeRoot)

TreeInvariant == TreeIsMadeOfLevels /\ WalkIsOnTheTree /\ ProofsOpen

LEMMA InitIsSound == Init => TreeInvariant
<1> SUFFICES ASSUME Init PROVE TreeInvariant
  OBVIOUS
<1>1. size \in Nat \ {0}
  BY EntriesAssumption DEF Init
<1>2. IsLevel(Leaves) /\ Len(Leaves) = size /\ Leaves[1] = HashLeaf(Entries[1])
  BY <1>1, LeavesAreALevel
<1>3. levels = <<Leaves>> /\ Len(levels) = 1 /\ levels[1] = Leaves
  BY DEF Init
<1>4. IsSeq(levels) /\ IsSeq(<<>>)
  <2>1. <<Leaves>> \in Seq({Leaves}) /\ <<>> \in Seq({})
    OBVIOUS
  <2>2. QED
    BY <2>1, <1>3 DEF IsSeq
<1>5. TreeIsMadeOfLevels
  BY <1>1, <1>2, <1>3, <1>4 DEF TreeIsMadeOfLevels
<1>6. WalkIsOnTheTree
  BY <1>1, <1>2, <1>3, <1>4 DEF Init, WalkIsOnTheTree
<1>7. ProofsOpen
  BY <1>2, <1>3, EmptyProofVerifies DEF Init, ProofsOpen
<1>8. QED
  BY <1>5, <1>6, <1>7 DEF TreeInvariant

LEMMA BuildLevelIsSound ==
  ASSUME TreeInvariant, BuildLevel
  PROVE  TreeInvariant'
<1> USE DEF TreeInvariant
<1>1. PICK n, level : n = Len(levels) /\ level = NextLevel(levels[n])
  OBVIOUS
<1>2. /\ n \in Nat \ {0}
      /\ levels' = Append(levels, level)
  BY <1>1 DEF TreeIsMadeOfLevels, BuildLevel, Last
<1>3. /\ IsSeq(levels')
      /\ Len(levels') = n + 1
      /\ \A d \in 1..n : levels'[d] = levels[d]
      /\ levels'[n + 1] = level
  BY <1>1, <1>2, Appending DEF TreeIsMadeOfLevels
<1>4. IsLevel(level)
  BY <1>1, <1>2, NextLevelIsALevel DEF TreeIsMadeOfLevels
<1>5. TreeIsMadeOfLevels'
  <2>1. size' = size /\ Leaves' = Leaves
    BY DEF BuildLevel, Leaves
  <2>2. levels'[1] = Leaves'
    BY <1>2, <1>3, <2>1 DEF TreeIsMadeOfLevels
  <2>3. \A d \in 1..(n + 1) : d \in 1..n \/ d = n + 1
    BY <1>2
  <2>4. \A d \in 1..(n + 1) : IsLevel(levels'[d])
    BY <1>1, <1>3, <1>4, <2>3 DEF TreeIsMadeOfLevels
  <2>5. ASSUME NEW d \in 1..n PROVE levels'[d + 1] = NextLevel(levels'[d])
    <3>1. CASE d = n
      BY <1>1, <1>2, <1>3, <3>1
    <3>2. CASE d \in 1..(n - 1)
      <4>1. levels[d + 1] = NextLevel(levels[d])
        BY <1>1, <3>2 DEF TreeIsMadeOfLevels
      <4>2. d \in 1..n /\ d + 1 \in 1..n
        BY <1>2, <3>2
      <4>3. QED
        BY <1>3, <4>1, <4>2
    <3>3. d = n \/ d \in 1..(n - 1)
      BY <1>2
    <3>4. QED
      BY <3>1, <3>2, <3>3
  <2>6. (n + 1) - 1 = n /\ n + 1 \in Nat \ {0}
    BY <1>2
  <2>7. QED
    BY <1>3, <2>1, <2>2, <2>4, <2>5, <2>6 DEF TreeIsMadeOfLevels
<1>6. depth = 1 /\ leaf = 1 /\ Len(proofs) = 0 /\ levels'[depth] = levels[depth]
  BY <1>2, <1>3 DEF BuildLevel, WalkIsOnTheTree
<1>7. UNCHANGED <<size, leaf, depth, idx, proof, proofs>>
  BY DEF BuildLevel
<1>8. WalkIsOnTheTree'
  BY <1>1, <1>2, <1>3, <1>6, <1>7 DEF WalkIsOnTheTree
<1>9. ProofsOpen'
  BY <1>6, <1>7 DEF ProofsOpen
<1>10. QED
  BY <1>5, <1>8, <1>9

LEMMA WalkUpIsSound ==
  ASSUME TreeInvariant, WalkUp
  PROVE  TreeInvariant'
<1> USE DEF TreeInvariant
<1>1. PICK level, hash : level = levels[depth] /\ hash = HashLeaf(Entries[leaf])
  OBVIOUS
<1>2. /\ leaf <= size
      /\ depth \in 1..(Len(levels) - 1)
      /\ depth + 1 \in 1..Len(levels)
      /\ IsLevel(level)
      /\ levels[depth + 1] = NextLevel(level)
      /\ idx \in Nat
      /\ idx < Len(level)
      /\ IsSeq(proof)
      /\ Verify(hash, proof, level[idx + 1])
  <2>1. /\ leaf <= size
        /\ depth \in 1..Len(levels)
        /\ depth \in 1..(Len(levels) - 1)
        /\ depth + 1 \in 1..Len(levels)
    BY DEF WalkUp, TreeIsMadeOfLevels, WalkIsOnTheTree
  <2>2. IsLevel(level) /\ levels[depth + 1] = NextLevel(level)
    BY <1>1, <2>1 DEF TreeIsMadeOfLevels
  <2>3. QED
    BY <1>1, <2>1, <2>2 DEF WalkIsOnTheTree, ProofsOpen
<1>3. PICK parent : parent = NextLevel(level)[(idx \div 2) + 1]
  OBVIOUS
<1>4. /\ idx \div 2 \in Nat
      /\ idx \div 2 < Len(NextLevel(level))
      /\ parent = IF Sibling(idx) < Len(level)
                  THEN HashPair(level[idx + 1], level[Sibling(idx) + 1]) ELSE level[idx + 1]
  BY <1>2, <1>3, ParentOfNode
<1>5. UNCHANGED <<size, levels, leaf, proofs>>
  BY DEF WalkUp
<1>6. IsSeq(proof') /\ Verify(hash, proof', parent)
  <2>1. CASE Sibling(idx) < Len(level)
    <3>1. proof' = Append(proof, level[Sibling(idx) + 1])
      BY <1>1, <2>1 DEF WalkUp
    <3>2. QED
      BY <1>2, <1>4, <2>1, <3>1, Appending, AppendedSiblingVerifies
  <2>2. CASE ~(Sibling(idx) < Len(level))
    BY <1>1, <1>2, <1>4, <2>2 DEF WalkUp
  <2>3. QED
    BY <2>1, <2>2
<1>7. idx' = idx \div 2 /\ depth' = depth + 1
  BY DEF WalkUp
<1>8. TreeIsMadeOfLevels'
  BY <1>5 DEF TreeIsMadeOfLevels, Leaves
<1>9. WalkIsOnTheTree'
  <2>1. Built /\ Built'
    BY <1>5 DEF WalkUp, Built
  <2>2. QED
    BY <1>2, <1>4, <1>5, <1>6, <1>7, <2>1 DEF WalkIsOnTheTree
<1>10. ProofsOpen'
  <2>1. levels'[depth'][idx' + 1] = parent
    BY <1>2, <1>3, <1>5, <1>7
  <2>2. TreeRoot' = TreeRoot
    BY <1>5 DEF TreeRoot
  <2>3. QED
    BY <1>1, <1>5, <1>6, <2>1, <2>2 DEF ProofsOpen
<1>11. QED
  BY <1>8, <1>9, <1>10

LEMMA FinishProofIsSound ==
  ASSUME TreeInvariant, FinishProof
  PROVE  TreeInvariant'
<1> USE DEF TreeInvariant
<1>1. UNCHANGED <<size, levels>>
  BY DEF FinishProof
<1>2. leaf \in 1..size /\ size \in Nat \ {0} /\ Len(levels) \in Nat \ {0}
  BY DEF FinishProof, WalkIsOnTheTree, TreeIsMadeOfLevels
<1>3. levels[depth][idx + 1] = TreeRoot
  BY <1>2 DEF FinishProof, Built, WalkIsOnTheTree, TreeRoot, Last
<1>4. Verify(HashLeaf(Entries[leaf]), proof, TreeRoot)
  BY <1>2, <1>3 DEF ProofsOpen
<1>5. /\ proofs' = Append(proofs, proof)
      /\ Len(proofs) = leaf - 1
      /\ IsSeq(proofs')
      /\ Len(proofs') = leaf
      /\ \A i \in 1..(leaf - 1) : proofs'[i] = proofs[i]
      /\ proofs'[leaf] = proof
  BY <1>2, Appending DEF FinishProof, WalkIsOnTheTree
<1>6. leaf' = leaf + 1 /\ depth' = 1 /\ idx' = leaf /\ proof' = <<>>
  BY DEF FinishProof
<1>7. \A i \in 1..leaf : i \in 1..(leaf - 1) \/ i = leaf
  BY <1>2
<1>8. levels[1] = Leaves /\ Len(Leaves) = size
      /\ \A i \in 1..size : Leaves[i] = HashLeaf(Entries[i])
  BY <1>2, LeavesAreALevel DEF TreeIsMadeOfLevels
<1>9. TreeIsMadeOfLevels'
  BY <1>1 DEF TreeIsMadeOfLevels, Leaves
<1>10. WalkIsOnTheTree'
  <2>1. IsSeq(proof')
    <3>1. <<>> \in Seq({})
      OBVIOUS
    <3>2. QED
      BY <3>1, <1>6 DEF IsSeq
  <2>2. \A i \in 1..leaf : IsSeq(proofs'[i])
    BY <1>5, <1>7 DEF WalkIsOnTheTree
  <2>3. Built'
    BY <1>1 DEF FinishProof, Built
  <2>4. leaf' \in 1..(size' + 1) /\ depth' \in 1..Len(levels') /\ idx' \in Nat
        /\ Len(proofs') = leaf' - 1
    BY <1>1, <1>2, <1>5, <1>6
  <2>5. leaf' <= size' => idx' < Len(levels'[depth'])
    BY <1>1, <1>2, <1>6, <1>8
  <2>6. QED
    BY <1>5, <2>1, <2>2, <2>3, <2>4, <2>5 DEF WalkIsOnTheTree
<1>11. ProofsOpen'
  <2>1. TreeRoot' = TreeRoot
    BY <1>1 DEF TreeRoot
  <2>2. \A i \in 1..leaf : Verify(HashLeaf(Entries[i]), proofs'[i], TreeRoot)
    BY <1>4, <1>5, <1>7 DEF ProofsOpen
  <2>3. leaf' <= size' => levels'[depth'][idx' + 1] = HashLeaf(Entries[leaf'])
    BY <1>1, <1>2, <1>6, <1>8
  <2>4. QED
    BY <1>5, <1>6, <2>1, <2>2, <2>3, EmptyProofVerifies DEF ProofsOpen
<1>12. QED
  BY <1>9, <1>10, <1>11

(* The invariant holds throughout the construction.                            *)
THEOREM TreeIsSound == Spec => []TreeInvariant
<1>1. Init => TreeInvariant
  BY InitIsSound
<1>2. TreeInvariant /\ [Next]_vars => TreeInvariant'
  <2> SUFFICES ASSUME TreeInvariant, [Next]_vars PROVE TreeInvariant'
    OBVIOUS
  <2>1. CASE UNCHANGED vars
    BY <2>1 DEF vars, TreeInvariant, TreeIsMadeOfLevels, WalkIsOnTheTree, ProofsOpen,
                Built, Leaves, TreeRoot
  <2>2. QED
    BY <2>1, BuildLevelIsSound, WalkUpIsSound, FinishProofIsSound DEF Next
<1>3. QED
  BY <1>1, <1>2, PTL DEF Spec

(* Every proof the code hands out opens the root of the tree.                  *)
THEOREM ProofsOpenRoot == Spec => []ProofsOpenTheRoot
<1>1. TreeInvariant => ProofsOpenTheRoot
  <2> SUFFICES ASSUME TreeInvariant PROVE ProofsOpenTheRoot
    OBVIOUS
  <2>1. DOMAIN proofs = 1..Len(proofs)
    BY Appending DEF TreeInvariant, WalkIsOnTheTree
  <2>2. QED
    BY <2>1 DEF TreeInvariant, ProofsOpen, ProofsOpenTheRoot
<1>2. QED
  BY <1>1, TreeIsSound, PTL

(* A proof opens the root for no other claim: not of another authority, not of *)
(* another amount, not of anything at all but its own entry.                   *)
ProofsBindTheirEntry ==
  \A i \in DOMAIN proofs : \A claim :
    Verify(HashLeaf(claim), proofs[i], TreeRoot) => claim = Entries[i]

LEMMA ProofsBind == TreeInvariant => ProofsBindTheirEntry
<1> SUFFICES ASSUME TreeInvariant, NEW i \in DOMAIN proofs, NEW claim,
                    Verify(HashLeaf(claim), proofs[i], TreeRoot)
             PROVE  claim = Entries[i]
  BY DEF ProofsBindTheirEntry
<1>1. i \in 1..Len(proofs)
  BY Appending DEF TreeInvariant, WalkIsOnTheTree
<1>2. Verify(HashLeaf(Entries[i]), proofs[i], TreeRoot) /\ IsSeq(proofs[i])
  BY <1>1 DEF TreeInvariant, WalkIsOnTheTree, ProofsOpen
<1>3. Len(proofs[i]) \in Nat
  BY <1>2, Appending
<1>4. HashLeaf(claim) = HashLeaf(Entries[i])
  BY <1>2, <1>3, ProofsDetermineHash
<1>5. QED
  BY <1>4, HashesAreFree

THEOREM ProofsBindEntries == Spec => []ProofsBindTheirEntry
BY ProofsBind, TreeIsSound, PTL

(* In particular for the claims that the runs enumerate.                       *)
THEOREM ProofsExact == Spec => []ProofsAreExact
<1>1. TreeInvariant => ProofsAreExact
  BY ProofsBind DEF ProofsBindTheirEntry, ProofsAreExact
<1>2. QED
  BY <1>1, TreeIsSound, PTL

-------------------------------------------------------------------------------
(* No other proof either: of all sequences of hashes, not only those that are  *)
(* read off the tree, and of all trees with the same root.                     *)

IsTree(t, n, entries) ==
  /\ n \in Nat \ {0}
  /\ Len(t) \in Nat \ {0}
  /\ \A d \in 1..Len(t) : IsLevel(t[d])
  /\ Len(t[1]) = n /\ \A i \in 1..n : t[1][i] = HashLeaf(entries[i])
  /\ \A d \in 1..(Len(t) - 1) : t[d + 1] = NextLevel(t[d])
  /\ Len(t[Len(t)]) = 1

IsNodeAt(x, t, d) == \E i \in 1..Len(t[d]) : x = t[d][i]

IsNode(x, t) == \E d \in 1..Len(t) : IsNodeAt(x, t, d)

LEMMA LeafIsNoPair ==
  ASSUME NEW a, NEW b, NEW c
  PROVE  HashLeaf(a) # HashPair(b, c)
<1>1. DOMAIN HashLeaf(a) = {"leaf"} /\ DOMAIN HashPair(b, c) = {"pair"}
  BY DEF HashLeaf, HashPair
<1>2. QED
  BY <1>1

(* A node is a leaf of the tree or the pair of two of its nodes: a node that   *)
(* was promoted is met again on the lowest level it comes from.                *)
LEMMA NodeCases ==
  ASSUME NEW t, NEW n, NEW entries, IsTree(t, n, entries), NEW x, IsNode(x, t)
  PROVE  \/ \E i \in 1..n : x = HashLeaf(entries[i])
         \/ \E a, b : IsNode(a, t) /\ IsNode(b, t) /\ x = HashPair(a, b)
<1> DEFINE T == {d \in 1..Len(t) : IsNodeAt(x, t, d)}
<1>1. T \in SUBSET Nat /\ T # {}
  BY DEF IsNode, IsTree
<1>2. PICK d \in T : \A c \in T : ~(c < d)
  BY <1>1, LeastNumber
<1>3. PICK i \in 1..Len(t[d]) : x = t[d][i]
  BY <1>2 DEF IsNodeAt
<1>4. CASE d = 1
  BY <1>3, <1>4 DEF IsTree
<1>5. CASE d # 1
  <2>1. PICK c, prev : c = d - 1 /\ prev = t[c]
    OBVIOUS
  <2>2. /\ c \in 1..Len(t)
        /\ c \in 1..(Len(t) - 1)
        /\ c + 1 = d
        /\ c < d
    BY <1>2, <1>5, <2>1 DEF IsTree
  <2>3. IsLevel(prev) /\ t[d] = NextLevel(prev)
    BY <2>1, <2>2 DEF IsTree
  <2>4. i \in 1..((Len(prev) + 1) \div 2) /\ Len(prev) \in Nat
    BY <1>3, <2>3, NextLevelIsALevel DEF IsLevel
  <2>5. x = IF 2 * i <= Len(prev) THEN HashPair(prev[2 * i - 1], prev[2 * i])
            ELSE prev[2 * i - 1]
    BY <1>3, <2>3, <2>4, NextLevelIsALevel
  <2>6. 2 * i - 1 \in 1..Len(prev)
    BY <2>4
  <2>7. \A j \in 1..Len(prev) : IsNodeAt(prev[j], t, c) /\ IsNode(prev[j], t)
    BY <2>1, <2>2 DEF IsNode, IsNodeAt
  <2>8. CASE 2 * i <= Len(prev)
    <3>1. 2 * i \in 1..Len(prev)
      BY <2>4, <2>8
    <3>2. IsNode(prev[2 * i - 1], t) /\ IsNode(prev[2 * i], t)
      BY <2>6, <2>7, <3>1
    <3>3. x = HashPair(prev[2 * i - 1], prev[2 * i])
      BY <2>5, <2>8
    <3>4. QED
      BY <3>2, <3>3
  <2>9. CASE ~(2 * i <= Len(prev))
    <3>1. IsNodeAt(x, t, c)
      BY <2>5, <2>6, <2>7, <2>9
    <3>2. c \in T
      BY <2>2, <3>1
    <3>3. QED
      BY <1>2, <2>2, <3>2
  <2>10. QED
    BY <2>8, <2>9
<1>6. QED
  BY <1>4, <1>5

LEMMA LeafNodesAreEntries ==
  ASSUME NEW t, NEW n, NEW entries, IsTree(t, n, entries),
         NEW claim, IsNode(HashLeaf(claim), t)
  PROVE  \E i \in 1..n : claim = entries[i]
<1>1. PICK i \in 1..n : HashLeaf(claim) = HashLeaf(entries[i])
  BY NodeCases, LeafIsNoPair
<1>2. QED
  BY <1>1, HashesAreFree

LEMMA PartsOfNodesAreNodes ==
  ASSUME NEW t, NEW n, NEW entries, IsTree(t, n, entries),
         NEW a, NEW b, IsNode(HashPair(a, b), t)
  PROVE  IsNode(a, t) /\ IsNode(b, t)
<1>1. PICK c, d : IsNode(c, t) /\ IsNode(d, t) /\ HashPair(a, b) = HashPair(c, d)
  BY NodeCases, LeafIsNoPair
<1>2. {a, b} = {c, d}
  BY <1>1 DEF HashPair
<1>3. (a = c \/ a = d) /\ (b = c \/ b = d)
  BY <1>2
<1>4. QED
  BY <1>1, <1>3

(* Whatever opens the root of a tree is an entry of it.                        *)
LEMMA OpenedClaimsAreEntries ==
  ASSUME NEW t, NEW n, NEW entries, IsTree(t, n, entries),
         NEW claim, NEW elements, Len(elements) \in Nat,
         Verify(HashLeaf(claim), elements, t[Len(t)][1])
  PROVE  \E i \in 1..n : claim = entries[i]
<1>1. PICK m : m = Len(elements)
  OBVIOUS
<1>2. PICK g : Opening(g, m, HashLeaf(claim), elements) /\ g[m] = t[Len(t)][1]
  BY <1>1, VerifyOpens
<1> DEFINE T == {k \in Nat : k <= m => IsNode(g[m - k], t)}
<1>3. 0 \in T
  <2>1. Len(t) \in 1..Len(t) /\ 1 \in 1..Len(t[Len(t)])
    BY DEF IsTree
  <2>2. IsNode(g[m], t)
    BY <1>2, <2>1 DEF IsNode, IsNodeAt
  <2>3. QED
    BY <1>1, <2>2
<1>4. ASSUME NEW k \in T PROVE k + 1 \in T
  <2>1. SUFFICES ASSUME k + 1 <= m PROVE IsNode(g[m - (k + 1)], t)
    OBVIOUS
  <2>2. PICK i : i = m - k
    OBVIOUS
  <2>3. i \in 1..m /\ i - 1 = m - (k + 1) /\ k <= m
    BY <1>1, <2>1, <2>2
  <2>4. IsNode(g[i], t) /\ g[i] = HashPair(g[i - 1], elements[i])
    BY <1>2, <2>2, <2>3 DEF Opening
  <2>5. IsNode(g[i - 1], t)
    BY <2>4, PartsOfNodesAreNodes
  <2>6. QED
    BY <2>3, <2>5
<1>5. m \in T
  BY <1>1, <1>3, <1>4, CountingUp
<1>6. IsNode(g[0], t)
  BY <1>1, <1>5
<1>7. IsNode(HashLeaf(claim), t)
  BY <1>2, <1>6 DEF Opening
<1>8. QED
  BY <1>7, LeafNodesAreEntries

(* Soundness: once the tree is built, no sequence of hashes whatever opens its *)
(* root for a claim that is not one of its entries.                            *)
NoForgedProofs ==
  Built => \A claim, elements :
    IsSeq(elements) /\ Verify(HashLeaf(claim), elements, TreeRoot)
      => \E i \in 1..size : claim = Entries[i]

LEMMA LevelsAreATree == TreeInvariant /\ Built => IsTree(levels, size, Entries)
<1> SUFFICES ASSUME TreeInvariant, Built PROVE IsTree(levels, size, Entries)
  OBVIOUS
<1>1. levels[1] = Leaves /\ size \in Nat \ {0}
  BY DEF TreeInvariant, TreeIsMadeOfLevels
<1>2. Len(levels[1]) = size /\ \A i \in 1..size : levels[1][i] = HashLeaf(Entries[i])
  BY <1>1, LeavesAreALevel
<1>3. QED
  BY <1>1, <1>2 DEF TreeInvariant, TreeIsMadeOfLevels, IsTree, Built, Last

THEOREM NoProofIsForged == Spec => []NoForgedProofs
<1>1. TreeInvariant => NoForgedProofs
  <2> SUFFICES ASSUME TreeInvariant, Built, NEW claim, NEW elements, IsSeq(elements),
                      Verify(HashLeaf(claim), elements, TreeRoot)
               PROVE  \E i \in 1..size : claim = Entries[i]
    BY DEF NoForgedProofs
  <2>1. IsTree(levels, size, Entries)
    BY LevelsAreATree
  <2>2. Len(elements) \in Nat
    BY Appending
  <2>3. TreeRoot = levels[Len(levels)][1]
    BY DEF TreeRoot, Last
  <2>4. QED
    BY <2>1, <2>2, <2>3, OpenedClaimsAreEntries
<1>2. QED
  BY <1>1, TreeIsSound, PTL

LEMMA SharedRootSharesNodes ==
  ASSUME NEW t, NEW n, NEW entries, IsTree(t, n, entries),
         NEW u, NEW m, NEW others, IsTree(u, m, others),
         t[Len(t)][1] = u[Len(u)][1]
  PROVE  \A i \in 1..n : \E j \in 1..m : entries[i] = others[j]
<1>1. PICK top : top = Len(t)
  OBVIOUS
<1> DEFINE T == {k \in Nat : k < top => \A i \in 1..Len(t[top - k]) : IsNode(t[top - k][i], u)}
<1>2. 0 \in T
  <2>1. Len(u) \in 1..Len(u) /\ 1 \in 1..Len(u[Len(u)])
    BY DEF IsTree
  <2>2. IsNode(t[top][1], u)
    BY <1>1, <2>1 DEF IsNode, IsNodeAt
  <2>3. Len(t[top]) = 1 /\ \A i \in 1..1 : i = 1
    BY <1>1 DEF IsTree
  <2>4. top - 0 = top
    BY <1>1 DEF IsTree
  <2>5. QED
    BY <2>2, <2>3, <2>4
<1>3. ASSUME NEW k \in T PROVE k + 1 \in T
  <2>1. SUFFICES ASSUME k + 1 < top, NEW i \in 1..Len(t[top - (k + 1)])
                 PROVE  IsNode(t[top - (k + 1)][i], u)
    OBVIOUS
  <2>2. PICK d, level, h : d = top - (k + 1) /\ level = t[d] /\ h = (i + 1) \div 2
    OBVIOUS
  <2>3. d \in 1..(top - 1) /\ d \in 1..top /\ d + 1 = top - k /\ k < top
    BY <1>1, <2>1, <2>2 DEF IsTree
  <2>4. IsLevel(level) /\ t[d + 1] = NextLevel(level)
    BY <1>1, <2>2, <2>3 DEF IsTree
  <2>5. /\ i \in 1..Len(level)
        /\ Len(level) \in Nat
        /\ h \in 1..((Len(level) + 1) \div 2)
        /\ i = 2 * h - 1 \/ i = 2 * h
    <3>1. i \in 1..Len(level) /\ Len(level) \in Nat
      BY <2>1, <2>2, <2>4 DEF IsLevel
    <3>2. h = (i + 1) \div 2
      BY <2>2
    <3>3. QED
      BY <3>1, <3>2
  <2>6. IsNode(t[d + 1][h], u)
    BY <2>3, <2>4, <2>5, NextLevelIsALevel
  <2>7. t[d + 1][h] = IF 2 * h <= Len(level) THEN HashPair(level[2 * h - 1], level[2 * h])
                      ELSE level[2 * h - 1]
    BY <2>4, <2>5, NextLevelIsALevel
  <2>8. CASE 2 * h <= Len(level)
    <3>1. IsNode(level[2 * h - 1], u) /\ IsNode(level[2 * h], u)
      BY <2>6, <2>7, <2>8, PartsOfNodesAreNodes
    <3>2. QED
      BY <2>2, <2>5, <3>1
  <2>9. CASE ~(2 * h <= Len(level))
    <3>1. i = 2 * h - 1
      BY <2>5, <2>9
    <3>2. QED
      BY <2>2, <2>6, <2>7, <2>9, <3>1
  <2>10. QED
    BY <2>8, <2>9
<1>4. top - 1 \in T /\ top \in Nat \ {0}
  <2>1. top \in Nat \ {0}
    BY <1>1 DEF IsTree
  <2>2. T = Nat
    BY <1>2, <1>3, CountingUp
  <2>3. top - 1 \in Nat
    BY <2>1
  <2> HIDE DEF T
  <2>4. QED
    BY <2>1, <2>2, <2>3
<1>5. \A i \in 1..n : IsNode(HashLeaf(entries[i]), u)
  <2>1. top - (top - 1) = 1 /\ top - 1 < top
    BY <1>4
  <2>2. QED
    BY <1>4, <2>1 DEF IsTree
<1>6. QED
  BY <1>5, LeafNodesAreEntries

(* A root stands for its entries: two trees with one root, of any sizes and in *)
(* any order, have the same authorities with the same amounts.  This is why    *)
(* RewardzPublisher and PointRoot may take a root to be the table it is of.    *)
THEOREM RootDeterminesEntries ==
  ASSUME NEW t, NEW n, NEW entries, IsTree(t, n, entries),
         NEW u, NEW m, NEW others, IsTree(u, m, others),
         t[Len(t)][1] = u[Len(u)][1]
  PROVE  {entries[i] : i \in 1..n} = {others[j] : j \in 1..m}
<1>1. \A i \in 1..n : \E j \in 1..m : entries[i] = others[j]
  BY SharedRootSharesNodes
<1>2. \A j \in 1..m : \E i \in 1..n : others[j] = entries[i]
  BY SharedRootSharesNodes
<1>3. ASSUME NEW x
      PROVE  x \in {entries[i] : i \in 1..n} <=> x \in {others[j] : j \in 1..m}
  BY <1>1, <1>2
<1>4. QED
  BY <1>3
===============================================================================
