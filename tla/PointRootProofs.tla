---------------------------- MODULE PointRootProofs ----------------------------
(* For any number of keepers, wallets, epochs and faults: the proofs table     *)
(* opens the chain's own roots, and every total in a tree, in a transaction or *)
(* on chain is one its wallet has earned.                                      *)
EXTENDS PointRoot, TLAPS

USE ConstantsAssumption DEF NoRow

Trees == UNION {[ws -> 1..MaxPoints] : ws \in SUBSET WellFormed}

(* A row of the proofs table has these columns and no other.                   *)
RowsAreRecords ==
  \A row \in proofs :
    row = [epoch |-> row.epoch, root |-> row.root,
           authority |-> row.authority, amount |-> row.amount]

(* The chain's epoch is its latest, so that an epoch names one root.           *)
OneRootPerEpoch ==
  /\ \A v \in landed : v.epoch <= chain.epoch
  /\ \A u, v \in landed : u.epoch = v.epoch => u = v

(* What a keeper is about to save proofs of is what landed.                    *)
LandedTreesAreKept ==
  \A k \in Keepers : /\ pc[k] \in {"sent", "landed"} => epoch[k] >= 1
                     /\ pc[k] = "landed" => TxOf(k) \in landed

PointRootInvariant ==
  /\ TypeOK
  /\ RowsAreRecords
  /\ OneRootPerEpoch
  /\ LandedTreesAreKept
  /\ ProofRowsMatchChain
  /\ PointsAreAccounted

-------------------------------------------------------------------------------
(* The leaves of a tree, and the transaction that carries it.                  *)

LEMMA TreesAreRoots ==
  ASSUME NEW f \in Trees
  PROVE  IsRoot(f)
BY DEF Trees, IsRoot

LEMMA LeavesAreATree ==
  ASSUME TypeOK
  PROVE  Leaves \in Trees
<1>1. \A w \in {u \in WellFormed : points[u] > 0} : points[w] \in 1..MaxPoints
  BY DEF TypeOK
<1>2. Leaves \in [{u \in WellFormed : points[u] > 0} -> 1..MaxPoints]
  BY <1>1 DEF Leaves
<1>3. QED
  BY <1>2 DEF Trees

LEMMA NoLeavesIsATree == NoLeaves \in Trees /\ IsRoot(NoLeaves)
<1>1. NoLeaves \in [{} -> 1..MaxPoints]
  BY DEF NoLeaves
<1>2. NoLeaves \in Trees
  BY <1>1 DEF Trees
<1>3. QED
  BY <1>2, TreesAreRoots

LEMMA TxIsTyped ==
  ASSUME TypeOK, NEW k \in Keepers
  PROVE  IsTx(TxOf(k))
<1>1. epoch[k] \in 0..MaxEpoch /\ tree[k] \in Trees
  BY DEF TypeOK, Trees
<1>2. IsRoot(tree[k])
  BY <1>1, TreesAreRoots
<1>3. QED
  BY <1>1, <1>2 DEF TxOf, IsTx

LEMMA InitIsSafe == Init => PointRootInvariant
<1> SUFFICES ASSUME Init PROVE PointRootInvariant
  OBVIOUS
<1>1. TypeOK
  <2>1. IsTx(NoRoot)
    BY NoLeavesIsATree DEF NoRoot, IsTx
  <2>2. tree \in [Keepers -> Trees]
    BY NoLeavesIsATree DEF Init
  <2>3. QED
    BY <2>1, <2>2 DEF Init, TypeOK, Trees
<1>2. PointsAreAccounted
  BY NoLeavesIsATree DEF Init, PointsAreAccounted, NoLeaves
<1>3. QED
  BY <1>1, <1>2 DEF Init, PointRootInvariant, RowsAreRecords, OneRootPerEpoch,
       LandedTreesAreKept, ProofRowsMatchChain

-------------------------------------------------------------------------------
(* Users.                                                                      *)

(* Points that only grow keep what was summed of them accounted for.           *)
LEMMA GrowthKeepsTotals ==
  ASSUME PointRootInvariant,
         TypeOK',
         UNCHANGED <<chainVars, strays, tree>>,
         \A u \in Wallets : points[u] <= points'[u],
         \A u \in Wallets : points'[u] = balances'[u] /\ points'[u] <= Bonus + other'[u]
  PROVE  PointsAreAccounted'
<1>1. /\ points \in [Wallets -> NoRow..MaxPoints]
      /\ points' \in [Wallets -> NoRow..MaxPoints]
      /\ landed' = landed /\ strays' = strays /\ tree' = tree
  BY DEF PointRootInvariant, TypeOK, chainVars
<1>2. ASSUME NEW f, IsRoot(f), NEW u \in Wallets, u \in DOMAIN f, f[u] <= points[u]
      PROVE  f[u] <= points'[u]
  <2>1. f[u] \in Int /\ points[u] \in Int /\ points'[u] \in Int
    BY <1>1, <1>2 DEF IsRoot
  <2>2. QED
    BY <1>2, <2>1
<1>3. ASSUME NEW u \in Wallets, NEW v \in landed \cup strays, u \in DOMAIN v.leaves
      PROVE  v.leaves[u] <= points'[u]
  <2>1. IsRoot(v.leaves) /\ v.leaves[u] <= points[u]
    BY <1>3 DEF PointRootInvariant, TypeOK, PointsAreAccounted, IsTx
  <2>2. QED
    BY <1>2, <1>3, <2>1
<1>4. ASSUME NEW u \in Wallets, NEW k \in Keepers, u \in DOMAIN tree[k]
      PROVE  tree[k][u] <= points'[u]
  <2>1. tree[k] \in Trees /\ tree[k][u] <= points[u]
    BY <1>4 DEF PointRootInvariant, TypeOK, PointsAreAccounted, Trees
  <2>2. QED
    BY <1>2, <1>4, <2>1, TreesAreRoots
<1>5. QED
  BY <1>1, <1>3, <1>4 DEF PointsAreAccounted

LEMMA EarnIsSafe ==
  ASSUME PointRootInvariant, NEW w \in Wallets, Earn(w)
  PROVE  PointRootInvariant'
<1> DEFINE total == IF points[w] = NoRow THEN 1 ELSE points[w] + 1
<1>1. /\ points' = [points EXCEPT ![w] = total]
      /\ balances' = [balances EXCEPT ![w] = total]
      /\ other' = [other EXCEPT ![w] = @ + 1]
      /\ points[w] < MaxPoints
      /\ UNCHANGED <<chainVars, strays, proofs, pc, epoch, tree, faults>>
  BY DEF Earn
<1>2. /\ points \in [Wallets -> NoRow..MaxPoints]
      /\ balances \in [Wallets -> NoRow..MaxPoints]
      /\ other \in [Wallets -> Nat]
  BY DEF PointRootInvariant, TypeOK
<1>3. total \in 1..MaxPoints /\ points[w] <= total
  BY <1>1, <1>2
<1>4. TypeOK'
  BY <1>1, <1>2, <1>3 DEF PointRootInvariant, TypeOK, chainVars, IsTx
<1>5. PointsAreAccounted'
  <2>1. \A u \in Wallets : points[u] <= points'[u]
    BY <1>1, <1>2, <1>3
  <2>2. \A u \in Wallets : points'[u] = balances'[u] /\ points'[u] <= Bonus + other'[u]
    BY <1>1, <1>2, <1>3 DEF PointRootInvariant, PointsAreAccounted
  <2>3. QED
    BY <1>1, <1>4, <2>1, <2>2, GrowthKeepsTotals
<1>6. QED
  BY <1>1, <1>4, <1>5 DEF PointRootInvariant, RowsAreRecords, OneRootPerEpoch,
       LandedTreesAreKept, ProofRowsMatchChain, chainVars, TxOf

(* A wallet that has points or a row keeps them: the award is made once.       *)
LEMMA BootstrapAwardIsSafe ==
  ASSUME PointRootInvariant, NEW w \in Wallets, BootstrapAward(w)
  PROVE  PointRootInvariant'
<1>1. /\ points' = [points EXCEPT ![w] = Awarded(w)]
      /\ balances' = IF points[w] = NoRow /\ balances[w] = NoRow
                     THEN [balances EXCEPT ![w] = Bonus] ELSE balances
      /\ UNCHANGED <<other, chainVars, strays, proofs, pc, epoch, tree, faults>>
  BY DEF BootstrapAward
<1>2. /\ points \in [Wallets -> NoRow..MaxPoints]
      /\ balances \in [Wallets -> NoRow..MaxPoints]
      /\ other \in [Wallets -> Nat]
      /\ points[w] = balances[w]
  BY DEF PointRootInvariant, TypeOK, PointsAreAccounted
<1>3. Awarded(w) \in NoRow..MaxPoints /\ points[w] <= Awarded(w)
  BY <1>2 DEF Awarded
<1>4. TypeOK'
  BY <1>1, <1>2, <1>3 DEF PointRootInvariant, TypeOK, chainVars, IsTx
<1>5. PointsAreAccounted'
  <2>1. \A u \in Wallets : points[u] <= points'[u]
    BY <1>1, <1>2, <1>3
  <2>2. \A u \in Wallets : points'[u] = balances'[u] /\ points'[u] <= Bonus + other'[u]
    BY <1>1, <1>2, <1>3 DEF PointRootInvariant, PointsAreAccounted, Awarded
  <2>3. QED
    BY <1>1, <1>4, <2>1, <2>2, GrowthKeepsTotals
<1>6. QED
  BY <1>1, <1>4, <1>5 DEF PointRootInvariant, RowsAreRecords, OneRootPerEpoch,
       LandedTreesAreKept, ProofRowsMatchChain, chainVars, TxOf
-------------------------------------------------------------------------------
(* Keepers.                                                                    *)

(* A tick that starts, ends or gives up: a keeper drops its tree, and may      *)
(* leave its transaction behind.                                               *)
Drops(k) ==
  /\ pc' \in {[pc EXCEPT ![k] = "idle"], [pc EXCEPT ![k] = "starting"]}
  /\ epoch' \in [Keepers -> 0..MaxEpoch]
  /\ \A j \in Keepers \ {k} : epoch'[j] = epoch[j]
  /\ tree' \in {tree, [tree EXCEPT ![k] = NoLeaves]}
  /\ strays' = strays \/ strays' = strays \cup {TxOf(k)}
  /\ faults' \in 0..MaxFaults
  /\ UNCHANGED <<userVars, chainVars, proofs>>

LEMMA DropIsSafe ==
  ASSUME PointRootInvariant, NEW k \in Keepers, Drops(k)
  PROVE  PointRootInvariant'
<1>1. /\ tree \in [Keepers -> Trees] /\ pc \in [Keepers -> {"starting", "idle", "sent", "landed"}]
      /\ epoch \in [Keepers -> 0..MaxEpoch]
  BY DEF PointRootInvariant, TypeOK, Trees
<1>2. /\ points' = points /\ balances' = balances /\ other' = other
      /\ chain' = chain /\ landed' = landed /\ proofs' = proofs
  BY DEF Drops, userVars, chainVars
<1>3. /\ tree' \in [Keepers -> Trees]
      /\ \A j \in Keepers : tree'[j] = tree[j] \/ tree'[j] = NoLeaves
      /\ \A j \in Keepers \ {k} : tree'[j] = tree[j]
  BY <1>1, NoLeavesIsATree DEF Drops
<1>4. /\ pc' \in [Keepers -> {"starting", "idle", "sent", "landed"}]
      /\ pc'[k] \in {"idle", "starting"}
      /\ \A j \in Keepers \ {k} : pc'[j] = pc[j]
  BY <1>1 DEF Drops
<1>5. TypeOK'
  <2>1. \A v \in landed' \cup strays' : IsTx(v)
    BY <1>2, TxIsTyped DEF PointRootInvariant, TypeOK, Drops
  <2>2. QED
    BY <1>2, <1>3, <1>4, <2>1 DEF PointRootInvariant, TypeOK, Drops, Trees
<1>6. LandedTreesAreKept'
  BY <1>2, <1>3, <1>4 DEF PointRootInvariant, LandedTreesAreKept, TxOf, Drops
<1>7. PointsAreAccounted'
  <2>1. ASSUME NEW w \in Wallets, NEW v \in strays', w \in DOMAIN v.leaves
        PROVE  v.leaves[w] <= points[w]
    BY <2>1 DEF PointRootInvariant, PointsAreAccounted, TxOf, Drops
  <2>2. ASSUME NEW w \in Wallets, NEW j \in Keepers, w \in DOMAIN tree'[j]
        PROVE  tree'[j][w] <= points[w]
    BY <1>3, <2>2 DEF PointRootInvariant, PointsAreAccounted, NoLeaves
  <2>3. QED
    BY <1>2, <2>1, <2>2 DEF PointRootInvariant, PointsAreAccounted
<1>8. QED
  BY <1>2, <1>5, <1>6, <1>7 DEF PointRootInvariant, RowsAreRecords, OneRootPerEpoch,
       ProofRowsMatchChain

LEMMA TickEndsAreDrops ==
  ASSUME PointRootInvariant, NEW k \in Keepers,
         \/ \E e \in StartEpochs : Start(k, e)
         \/ SkipEmpty(k) \/ FailTick(k) \/ RejectOwn(k)
         \/ Timeout(k) \/ SkipSave(k) \/ Restart(k)
  PROVE  Drops(k)
<1>1. /\ epoch \in [Keepers -> 0..MaxEpoch]
      /\ pc \in [Keepers -> {"starting", "idle", "sent", "landed"}]
      /\ faults \in 0..MaxFaults
      /\ \A e \in StartEpochs : e \in 0..MaxEpoch
  BY DEF PointRootInvariant, TypeOK, StartEpochs, IsTx
<1>2. ASSUME NEW e \in StartEpochs, Start(k, e)
      PROVE  Drops(k)
  BY <1>1, <1>2 DEF Start, Drops, Goto
<1>3. CASE SkipEmpty(k)
  <2>1. pc' = [pc EXCEPT ![k] = "idle"]
    BY <1>1, <1>3 DEF SkipEmpty
  <2>2. QED
    BY <1>1, <1>3, <2>1 DEF SkipEmpty, Drops
<1>4. CASE FailTick(k)
  BY <1>1, <1>4 DEF FailTick, EndInError, AfterError, Fault, Goto, Drops
<1>5. CASE RejectOwn(k)
  BY <1>1, <1>5 DEF RejectOwn, EndInError, AfterError, Goto, Drops
<1>6. CASE Timeout(k)
  BY <1>1, <1>6 DEF Timeout, EndInError, AfterError, Abandon, Fault, Goto, Drops
<1>7. CASE SkipSave(k)
  BY <1>1, <1>7 DEF SkipSave, EndPublished, Fault, Goto, Drops
<1>8. CASE Restart(k)
  BY <1>1, <1>8 DEF Restart, Abandon, Fault, Goto, Drops
<1>9. QED
  BY <1>2, <1>3, <1>4, <1>5, <1>6, <1>7, <1>8

LEMMA SendRootIsSafe ==
  ASSUME PointRootInvariant, NEW k \in Keepers, SendRoot(k)
  PROVE  PointRootInvariant'
<1>1. /\ pc' = [pc EXCEPT ![k] = "sent"]
      /\ epoch' = [epoch EXCEPT ![k] = @ + 1]
      /\ tree' = [tree EXCEPT ![k] = Leaves]
      /\ epoch[k] < MaxEpoch
      /\ UNCHANGED <<userVars, chainVars, strays, proofs, faults>>
  BY DEF SendRoot, Goto
<1>2. /\ tree \in [Keepers -> Trees]
      /\ pc \in [Keepers -> {"starting", "idle", "sent", "landed"}]
      /\ epoch \in [Keepers -> 0..MaxEpoch]
      /\ Leaves \in Trees
  BY LeavesAreATree DEF PointRootInvariant, TypeOK, Trees
<1>3. /\ tree' \in [Keepers -> Trees]
      /\ pc' \in [Keepers -> {"starting", "idle", "sent", "landed"}]
      /\ epoch' \in [Keepers -> 0..MaxEpoch]
      /\ epoch'[k] >= 1 /\ pc'[k] = "sent" /\ tree'[k] = Leaves
      /\ \A j \in Keepers \ {k} :
            pc'[j] = pc[j] /\ epoch'[j] = epoch[j] /\ tree'[j] = tree[j]
  BY <1>1, <1>2
<1>4. TypeOK'
  BY <1>1, <1>3 DEF PointRootInvariant, TypeOK, Trees, userVars, chainVars, IsTx
<1>5. LandedTreesAreKept'
  BY <1>1, <1>3 DEF PointRootInvariant, LandedTreesAreKept, TxOf, chainVars
<1>6. PointsAreAccounted'
  <2>1. ASSUME NEW w \in Wallets, w \in DOMAIN Leaves
        PROVE  Leaves[w] <= points[w]
    BY <2>1 DEF Leaves, PointRootInvariant, TypeOK
  <2>2. ASSUME NEW w \in Wallets, NEW j \in Keepers, w \in DOMAIN tree'[j]
        PROVE  tree'[j][w] <= points[w]
    BY <1>3, <2>1, <2>2 DEF PointRootInvariant, PointsAreAccounted
  <2>3. QED
    BY <1>1, <2>2 DEF PointRootInvariant, PointsAreAccounted, userVars, chainVars
<1>7. QED
  BY <1>1, <1>4, <1>5, <1>6 DEF PointRootInvariant, RowsAreRecords, OneRootPerEpoch,
       ProofRowsMatchChain, chainVars

(* A root that lands is newer than every root before it.                       *)
LEMMA LandingKeepsOneRoot ==
  ASSUME PointRootInvariant, NEW tx, IsTx(tx), Accepts(tx), Apply(tx)
  PROVE  /\ OneRootPerEpoch'
         /\ landed' = landed \cup {tx} /\ chain' = tx
         /\ \A v \in landed : v.epoch < tx.epoch
<1>1. /\ tx.epoch \in Nat /\ chain.epoch \in Nat
      /\ \A v \in landed : v.epoch \in Nat
  BY DEF PointRootInvariant, TypeOK, IsTx
<1>2. QED
  BY <1>1 DEF PointRootInvariant, OneRootPerEpoch, Accepts, Apply

LEMMA LandOwnIsSafe ==
  ASSUME PointRootInvariant, NEW k \in Keepers, LandOwn(k)
  PROVE  PointRootInvariant'
<1>1. /\ pc[k] = "sent"
      /\ Accepts(TxOf(k)) /\ Apply(TxOf(k))
      /\ pc' = [pc EXCEPT ![k] = "landed"]
      /\ UNCHANGED <<userVars, strays, proofs, epoch, tree, faults>>
  BY DEF LandOwn, Goto
<1>2. /\ OneRootPerEpoch'
      /\ landed' = landed \cup {TxOf(k)} /\ chain' = TxOf(k)
  BY <1>1, TxIsTyped, LandingKeepsOneRoot DEF PointRootInvariant
<1>3. /\ pc \in [Keepers -> {"starting", "idle", "sent", "landed"}]
      /\ IsTx(TxOf(k))
  BY TxIsTyped DEF PointRootInvariant, TypeOK
<1>4. TypeOK'
  BY <1>1, <1>2, <1>3 DEF PointRootInvariant, TypeOK, userVars
<1>5. LandedTreesAreKept'
  BY <1>1, <1>2, <1>3 DEF PointRootInvariant, LandedTreesAreKept, TxOf
<1>6. ProofRowsMatchChain'
  BY <1>1, <1>2 DEF PointRootInvariant, ProofRowsMatchChain
<1>7. PointsAreAccounted'
  BY <1>1, <1>2 DEF PointRootInvariant, PointsAreAccounted, TxOf, userVars
<1>8. QED
  BY <1>1, <1>2, <1>4, <1>5, <1>6, <1>7 DEF PointRootInvariant, RowsAreRecords

LEMMA LandStrayIsSafe ==
  ASSUME PointRootInvariant, NEW t \in strays, LandStray(t)
  PROVE  PointRootInvariant'
<1>1. /\ Accepts(t) /\ Apply(t)
      /\ strays' = strays \ {t}
      /\ UNCHANGED <<userVars, proofs, pc, epoch, tree, faults>>
      /\ IsTx(t)
  BY DEF LandStray, PointRootInvariant, TypeOK
<1>2. /\ OneRootPerEpoch'
      /\ landed' = landed \cup {t} /\ chain' = t
  BY <1>1, LandingKeepsOneRoot
<1>3. TypeOK'
  BY <1>1, <1>2 DEF PointRootInvariant, TypeOK, userVars
<1>4. LandedTreesAreKept'
  BY <1>1, <1>2 DEF PointRootInvariant, LandedTreesAreKept, TxOf
<1>5. ProofRowsMatchChain'
  BY <1>1, <1>2 DEF PointRootInvariant, ProofRowsMatchChain
<1>6. PointsAreAccounted'
  BY <1>1, <1>2 DEF PointRootInvariant, PointsAreAccounted, userVars
<1>7. QED
  BY <1>1, <1>2, <1>3, <1>4, <1>5, <1>6 DEF PointRootInvariant, RowsAreRecords

LEMMA DropStrayIsSafe ==
  ASSUME PointRootInvariant, NEW t \in strays, DropStray(t)
  PROVE  PointRootInvariant'
<1>1. /\ strays' \subseteq strays
      /\ UNCHANGED <<userVars, chainVars, proofs, pc, epoch, tree, faults>>
  BY DEF DropStray
<1>2. TypeOK'
  BY <1>1 DEF PointRootInvariant, TypeOK, userVars, chainVars, IsTx
<1>3. PointsAreAccounted'
  BY <1>1 DEF PointRootInvariant, PointsAreAccounted, userVars, chainVars
<1>4. QED
  BY <1>1, <1>2, <1>3 DEF PointRootInvariant, RowsAreRecords, OneRootPerEpoch,
       LandedTreesAreKept, ProofRowsMatchChain, chainVars, TxOf

-------------------------------------------------------------------------------
(* Saving proofs, maybe for a root another keeper has overtaken.               *)

(* What is in the table afterwards, from before and from the tick.             *)
LEMMA SavedRows ==
  ASSUME PointRootInvariant, NEW k \in Keepers, SaveProofs(k)
  PROVE  /\ TxOf(k) \in landed
         /\ \A row \in proofs' :
               \/ row \in proofs /\ row.epoch > epoch[k]
               \/ row \in NewRows(k)
         /\ \A row \in proofs :
               row.epoch > epoch[k] => row \in proofs'
         /\ \A row \in proofs :
               row.epoch = epoch[k] => row \in proofs' /\ row \in NewRows(k)
         /\ NewRows(k) \subseteq proofs'
<1>1. /\ TxOf(k) \in landed
      /\ proofs' = (Kept(epoch[k]) \ Overwritten(k)) \cup NewRows(k)
  BY DEF SaveProofs, PointRootInvariant, LandedTreesAreKept
<1>2. /\ epoch[k] \in Nat
      /\ \A row \in proofs : row.epoch \in Nat
  BY DEF PointRootInvariant, TypeOK
<1>3. ASSUME NEW row \in proofs, row.epoch = epoch[k]
      PROVE  row \in Overwritten(k) /\ row \in NewRows(k)
  <2>1. PICK v \in landed : /\ v.epoch = row.epoch
                            /\ v.leaves = row.root
                            /\ row.authority \in DOMAIN v.leaves
                            /\ row.amount = v.leaves[row.authority]
    BY DEF PointRootInvariant, ProofRowsMatchChain
  <2>2. v = TxOf(k)
    BY <1>1, <1>3, <2>1 DEF PointRootInvariant, OneRootPerEpoch, TxOf
  <2>3. /\ row.root = tree[k]
        /\ row.authority \in DOMAIN tree[k]
        /\ row.amount = tree[k][row.authority]
    BY <2>1, <2>2 DEF TxOf
  <2>4. row = [epoch |-> epoch[k], root |-> tree[k], authority |-> row.authority,
               amount |-> tree[k][row.authority]]
    BY <1>3, <2>3 DEF PointRootInvariant, RowsAreRecords
  <2>5. QED
    BY <1>3, <2>3, <2>4 DEF Overwritten, NewRows
<1>4. \A row \in Overwritten(k) : row.epoch = epoch[k]
  BY DEF Overwritten
<1>5. \A row \in proofs : row \in Kept(epoch[k]) <=> row.epoch >= epoch[k]
  BY DEF Kept
<1>6. Kept(epoch[k]) \subseteq proofs
  BY DEF Kept
<1>7. QED
  BY <1>1, <1>2, <1>3, <1>4, <1>5, <1>6

LEMMA SaveProofsIsSafe ==
  ASSUME PointRootInvariant, NEW k \in Keepers, SaveProofs(k)
  PROVE  PointRootInvariant'
<1>1. /\ pc[k] = "landed"
      /\ pc' = [pc EXCEPT ![k] = "idle"]
      /\ tree' = [tree EXCEPT ![k] = NoLeaves]
      /\ UNCHANGED <<userVars, chainVars, strays, faults, epoch>>
  BY DEF SaveProofs, EndPublished, Goto
<1>2. /\ tree \in [Keepers -> Trees] /\ NoLeaves \in Trees
      /\ pc \in [Keepers -> {"starting", "idle", "sent", "landed"}]
      /\ epoch[k] \in 1..MaxEpoch
  BY <1>1, NoLeavesIsATree DEF PointRootInvariant, TypeOK, Trees, LandedTreesAreKept
<1>3. /\ tree' \in [Keepers -> Trees] /\ tree'[k] = NoLeaves
      /\ pc' \in [Keepers -> {"starting", "idle", "sent", "landed"}] /\ pc'[k] = "idle"
      /\ \A j \in Keepers \ {k} : pc'[j] = pc[j] /\ tree'[j] = tree[j]
  BY <1>1, <1>2
<1>4. ASSUME NEW row \in NewRows(k)
      PROVE  /\ row.epoch = epoch[k] /\ row.root = tree[k]
             /\ row.authority \in DOMAIN tree[k]
             /\ row.amount = tree[k][row.authority]
             /\ row = [epoch |-> row.epoch, root |-> row.root,
                       authority |-> row.authority, amount |-> row.amount]
  BY DEF NewRows
<1>5. IsRoot(tree[k]) /\ \A w \in DOMAIN tree[k] : tree[k][w] \in 1..MaxPoints
  BY <1>2, TreesAreRoots DEF IsRoot
<1>6. TypeOK'
  <2>1. ASSUME NEW row \in proofs'
        PROVE  /\ row.epoch \in 1..MaxEpoch /\ IsRoot(row.root)
               /\ row.authority \in DOMAIN row.root /\ row.amount \in 1..MaxPoints
    BY <1>2, <1>4, <1>5, SavedRows DEF PointRootInvariant, TypeOK
  <2>2. QED
    BY <1>1, <1>3, <2>1 DEF PointRootInvariant, TypeOK, Trees, userVars, chainVars, IsTx
<1>7. RowsAreRecords'
  BY <1>4, SavedRows DEF PointRootInvariant, RowsAreRecords
<1>8. LandedTreesAreKept'
  BY <1>1, <1>3 DEF PointRootInvariant, LandedTreesAreKept, TxOf, chainVars
<1>9. PointsAreAccounted'
  BY <1>1, <1>3 DEF PointRootInvariant, PointsAreAccounted, userVars, chainVars, NoLeaves
<1>10. ProofRowsMatchChain'
  <2>1. ASSUME NEW row \in NewRows(k)
        PROVE  \E v \in landed :
                 /\ v.epoch = row.epoch /\ v.leaves = row.root
                 /\ row.authority \in DOMAIN v.leaves
                 /\ row.amount = v.leaves[row.authority]
                 /\ \A w \in DOMAIN v.leaves :
                       \E r \in proofs' : r.epoch = v.epoch /\ r.authority = w
    <3>1. TxOf(k) \in landed /\ TxOf(k).epoch = epoch[k] /\ TxOf(k).leaves = tree[k]
      BY SavedRows DEF TxOf
    <3>2. ASSUME NEW w \in DOMAIN tree[k]
          PROVE  \E r \in proofs' : r.epoch = epoch[k] /\ r.authority = w
      <4> DEFINE r == [epoch |-> epoch[k], root |-> tree[k], authority |-> w,
                       amount |-> tree[k][w]]
      <4>1. r \in proofs' /\ r.epoch = epoch[k] /\ r.authority = w
        BY SavedRows DEF NewRows
      <4>2. QED
        BY <4>1
    <3>3. QED
      BY <1>4, <3>1, <3>2
  <2>2. ASSUME NEW row \in proofs, row.epoch > epoch[k]
        PROVE  \E v \in landed :
                 /\ v.epoch = row.epoch /\ v.leaves = row.root
                 /\ row.authority \in DOMAIN v.leaves
                 /\ row.amount = v.leaves[row.authority]
                 /\ \A w \in DOMAIN v.leaves :
                       \E r \in proofs' : r.epoch = v.epoch /\ r.authority = w
    <3>1. PICK v \in landed :
                 /\ v.epoch = row.epoch /\ v.leaves = row.root
                 /\ row.authority \in DOMAIN v.leaves
                 /\ row.amount = v.leaves[row.authority]
                 /\ \A w \in DOMAIN v.leaves :
                       \E r \in proofs : r.epoch = v.epoch /\ r.authority = w
      BY DEF PointRootInvariant, ProofRowsMatchChain
    <3>2. \A r \in proofs : r.epoch = v.epoch => r \in proofs'
      BY <2>2, <3>1, SavedRows
    <3>3. QED
      BY <3>1, <3>2
  <2>3. landed' = landed
    BY <1>1 DEF chainVars
  <2>4. QED
    BY <2>1, <2>2, <2>3, SavedRows DEF ProofRowsMatchChain
<1>11. QED
  BY <1>1, <1>6, <1>7, <1>8, <1>9, <1>10 DEF PointRootInvariant, OneRootPerEpoch, chainVars

LEMMA NextIsSafe == PointRootInvariant /\ [Next]_vars => PointRootInvariant'
<1> SUFFICES ASSUME PointRootInvariant, [Next]_vars PROVE PointRootInvariant'
  OBVIOUS
<1>1. ASSUME NEW k \in Keepers, Cron(k) PROVE PointRootInvariant'
  <2>1. CASE SendRoot(k)
    BY <2>1, SendRootIsSafe
  <2>2. CASE LandOwn(k)
    BY <2>2, LandOwnIsSafe
  <2>3. CASE SaveProofs(k)
    BY <2>3, SaveProofsIsSafe
  <2>4. CASE \/ \E e \in StartEpochs : Start(k, e)
             \/ SkipEmpty(k) \/ FailTick(k) \/ RejectOwn(k)
             \/ Timeout(k) \/ SkipSave(k) \/ Restart(k)
    BY <2>4, TickEndsAreDrops, DropIsSafe
  <2>5. QED
    BY <1>1, <2>1, <2>2, <2>3, <2>4 DEF Cron
<1>2. ASSUME NEW w \in Wallets, Earn(w) \/ BootstrapAward(w) PROVE PointRootInvariant'
  BY <1>2, EarnIsSafe, BootstrapAwardIsSafe
<1>3. ASSUME NEW t \in strays, LandStray(t) \/ DropStray(t) PROVE PointRootInvariant'
  BY <1>3, LandStrayIsSafe, DropStrayIsSafe
<1>4. CASE UNCHANGED vars
  BY <1>4 DEF vars, userVars, chainVars, PointRootInvariant, TypeOK, IsTx, RowsAreRecords,
       OneRootPerEpoch, LandedTreesAreKept, TxOf, ProofRowsMatchChain, PointsAreAccounted
<1>5. QED
  BY <1>1, <1>2, <1>3, <1>4 DEF Next

-------------------------------------------------------------------------------

(* The inductive invariant of the points rail: what keepers hold, send and     *)
(* save is of roots the chain takes at most one of per epoch.                  *)
THEOREM PointRootIsSafe == Spec => []PointRootInvariant
BY InitIsSafe, NextIsSafe, PTL DEF Spec

(* Type correctness, malformed wallets and empty trees included.               *)
THEOREM TypeCorrect == Spec => []TypeOK
<1>1. PointRootInvariant => TypeOK
  BY DEF PointRootInvariant
<1>2. QED
  BY <1>1, PointRootIsSafe, PTL

(* save_merkle_proofs leaves, of every epoch it keeps, all the proofs of the   *)
(* root that landed and no other, whichever keepers save late.                 *)
THEOREM ProofsAreOfTheChain == Spec => []ProofRowsMatchChain
<1>1. PointRootInvariant => ProofRowsMatchChain
  BY DEF PointRootInvariant
<1>2. QED
  BY <1>1, PointRootIsSafe, PTL

(* The bootstrap award reaches a tree once per wallet, however its requests    *)
(* race each other, other earnings and the publisher.                          *)
THEOREM AwardsAreCountedOnce == Spec => []PointsAreAccounted
<1>1. PointRootInvariant => PointsAreAccounted
  BY DEF PointRootInvariant
<1>2. QED
  BY <1>1, PointRootIsSafe, PTL

(* A keeper that saves late keeps the proofs of the root on chain.             *)
LEMMA StepKeepsNewerProofs ==
  ASSUME PointRootInvariant, [Next]_vars, NEW row \in proofs, row.epoch = chain.epoch
  PROVE  row \in proofs'
<1>1. ASSUME NEW k \in Keepers, SaveProofs(k) PROVE row \in proofs'
  <2>1. TxOf(k) \in landed /\ epoch[k] \in Nat /\ row.epoch \in Nat
    BY <1>1, SavedRows DEF PointRootInvariant, TypeOK
  <2>2. epoch[k] <= chain.epoch
    BY <2>1 DEF PointRootInvariant, OneRootPerEpoch, TxOf
  <2>3. row.epoch > epoch[k] \/ row.epoch = epoch[k]
    BY <2>1, <2>2
  <2>4. QED
    BY <1>1, <2>3, SavedRows
<1>2. ASSUME NEW k \in Keepers, Cron(k), ~SaveProofs(k) PROVE proofs' = proofs
  BY <1>2 DEF Cron, Start, SendRoot, SkipEmpty, FailTick, LandOwn, RejectOwn, Timeout,
       SkipSave, Restart
<1>3. ASSUME NEW w \in Wallets, Earn(w) \/ BootstrapAward(w) PROVE proofs' = proofs
  BY <1>3 DEF Earn, BootstrapAward
<1>4. ASSUME NEW t \in strays, LandStray(t) \/ DropStray(t) PROVE proofs' = proofs
  BY <1>4 DEF LandStray, DropStray
<1>5. CASE UNCHANGED vars
  BY <1>5 DEF vars
<1>6. QED
  BY <1>1, <1>2, <1>3, <1>4, <1>5 DEF Next

(* DELETE FROM merkle_proofs WHERE epoch < e and the update in place never     *)
(* cost the root on chain a proof.                                             *)
THEOREM NewerProofsAreKept == Spec => NewerProofsStay
<1>1. PointRootInvariant /\ [Next]_vars =>
        [\A row \in proofs : row.epoch = chain.epoch => row \in proofs']_vars
  BY StepKeepsNewerProofs
<1>2. QED
  BY <1>1, PointRootIsSafe, PTL DEF Spec, NewerProofsStay
===============================================================================
