----------------------------- MODULE RewardzProofs ----------------------------
(* For any keepers, rows, lag and bounds: the rail keeps RailInvariant, and    *)
(* with it its record, its stamps, the operators' freezes and the ledger.  For *)
(* any clients beside it, the proof endpoint's answers match the chain.        *)
EXTENDS RewardzProofApi, FiniteSetTheorems, WellFoundedInduction, TLAPS

USE DEF Phases

(* What a read of the chain returns: an earlier or the current account value.  *)
LEMMA ViewsAreHistory ==
  ASSUME RailInvariant, NEW v \in Views
  PROVE  /\ v \in Accounts
         /\ v.epoch \in Nat
         /\ v.epoch <= chain.epoch
         /\ v.epoch = chain.epoch => v = chain
<1>1. chain \in Accounts /\ landed \subseteq Accounts /\ MaxEpoch \in Nat
  BY ConstantsAssumption DEF RailInvariant, TypeOK
<1>2. CASE v \in landed
  <2>1. v \in Accounts /\ v.epoch \in 1..chain.epoch
    BY <1>1, <1>2 DEF RailInvariant, LandedInOrder
  <2>2. chain.epoch \in Nat
    BY <1>1 DEF Accounts
  <2>3. v.epoch = chain.epoch => v = chain
    <3>1. chain.epoch # 0
      BY <2>1, <2>2
    <3>2. chain \in landed
      BY <3>1 DEF RailInvariant, LandedInOrder
    <3>3. QED
      BY <1>2, <3>2 DEF RailInvariant, LandedInOrder
  <2>4. QED
    BY <2>1, <2>2, <2>3
<1>3. CASE v = Uninitialised
  BY <1>1, <1>3 DEF Uninitialised, Accounts, RailInvariant, LandedInOrder
<1>4. QED
  BY <1>2, <1>3 DEF Views

(* Ending a tick cannot break what holds of each keeper.                       *)
LEMMA ForgetIsSafe ==
  ASSUME RailInvariant, NEW p \in Keepers, Forget(p),
         UNCHANGED <<chainVars, committed>>
  PROVE  /\ pc' \in [Keepers -> Phases]
         /\ epoch' \in [Keepers -> 0..MaxEpoch]
         /\ cutoff' \in [Keepers -> SUBSET Rows]
         /\ tree' \in [Keepers -> SUBSET Rows]
         /\ deny' \in [Keepers -> SUBSET DenyEntries]
         /\ LandedInOrder'
         /\ \A k \in Keepers : tree'[k] \subseteq committed'
         /\ \A k \in Keepers : Publishing(k)' => epoch'[k] \in 1..(chain'.epoch + 1)
         /\ \A k \in Keepers : epoch'[k] = chain'.epoch + 1 =>
              /\ pc'[k] \in {"built", "sent"} => chain'.rows \cup due' \subseteq tree'[k]
              /\ MonotoneReads /\ pc'[k] = "sent" => deny'[k] = chain'.deny
<1>1. /\ pc' \in [Keepers -> Phases]
      /\ epoch' \in [Keepers -> 0..MaxEpoch]
      /\ cutoff' \in [Keepers -> SUBSET Rows]
      /\ tree' \in [Keepers -> SUBSET Rows]
      /\ deny' \in [Keepers -> SUBSET DenyEntries]
  BY ConstantsAssumption DEF RailInvariant, TypeOK, Forget
<1>2. pc'[p] = "idle" /\ tree'[p] = {}
  BY DEF RailInvariant, TypeOK, Forget
<1>3. \A k \in Keepers \ {p} : /\ pc'[k] = pc[k]
                               /\ epoch'[k] = epoch[k]
                               /\ tree'[k] = tree[k]
                               /\ deny'[k] = deny[k]
  BY DEF RailInvariant, TypeOK, Forget
<1>4. LandedInOrder'
  BY <1>2, <1>3 DEF RailInvariant, LandedInOrder, chainVars, TxOf, Uninitialised
<1>5. \A k \in Keepers : tree'[k] \subseteq committed'
  BY <1>2, <1>3 DEF RailInvariant, OnlyCommittedRows
<1>6. \A k \in Keepers : Publishing(k)' => epoch'[k] \in 1..(chain'.epoch + 1)
  BY <1>2, <1>3 DEF RailInvariant, NoEpochAhead, Publishing, chainVars
<1>7. \A k \in Keepers : epoch'[k] = chain'.epoch + 1 =>
              /\ pc'[k] \in {"built", "sent"} => chain'.rows \cup due' \subseteq tree'[k]
              /\ MonotoneReads /\ pc'[k] = "sent" => deny'[k] = chain'.deny
  BY <1>2, <1>3 DEF RailInvariant, NextToLandIsFresh, chainVars
<1>8. QED
  BY <1>1, <1>4, <1>5, <1>6, <1>7

(* A tick that ends with no other effect: refusals, errors, dry runs, rejected *)
(* transactions, unrecorded publishes.                                         *)
LEMMA TickEndsSafely ==
  ASSUME RailInvariant, NEW p \in Keepers, Forget(p),
         UNCHANGED <<dbVars, chainVars, strays, lastKnown, dry>>
  PROVE  RailInvariant'
<1>1. committed' = committed
  BY DEF dbVars
<1>2. TypeOK'
  BY <1>1, ForgetIsSafe DEF RailInvariant, TypeOK, dbVars, chainVars
<1>3. OnlyCommittedRows' /\ NoEpochAhead' /\ NextToLandIsFresh'
  BY <1>1, ForgetIsSafe
  DEF RailInvariant, OnlyCommittedRows, NoEpochAhead, NextToLandIsFresh, chainVars
<1>4. RecordsMatchChain' /\ StampNamesPublishedLeaf'
  BY DEF RailInvariant, RecordsMatchChain, StampNamesPublishedLeaf, dbVars, chainVars
<1>5. QED
  BY <1>1, <1>2, <1>3, <1>4, ForgetIsSafe DEF RailInvariant

(* The next epoch lands.  Everything else in flight is now too old to be       *)
(* accepted, whatever it carries.                                              *)
LEMMA LandsSafely ==
  ASSUME RailInvariant, NEW tx \in Accounts, tx.epoch = chain.epoch + 1,
         tx.rows \subseteq committed, Apply(tx),
         strays' \subseteq strays,
         \A p \in Keepers : pc'[p] = pc[p] \/ (pc'[p] = "landed" /\ TxOf(p) = tx),
         UNCHANGED <<dbVars, tickVars>>
  PROVE  /\ chain' \in Accounts
         /\ landed' \subseteq Accounts
         /\ due' \subseteq Rows
         /\ LandedInOrder'
         /\ OnlyCommittedRows'
         /\ NoEpochAhead'
         /\ NextToLandIsFresh'
         /\ RecordsMatchChain'
         /\ StampNamesPublishedLeaf'
<1>1. chain.epoch \in Nat /\ chain'.epoch = chain.epoch + 1 /\ chain' = tx
  BY ConstantsAssumption DEF RailInvariant, TypeOK, Accounts, Apply
<1>2. chain' \in Accounts /\ landed' \subseteq Accounts /\ due' \subseteq Rows
  BY DEF RailInvariant, TypeOK, Apply
<1>3. \A p \in Keepers : TxOf(p)' = TxOf(p)
  BY DEF TxOf, tickVars
<1>4. LandedInOrder'
  <2>1. \A v \in landed' : v.epoch \in 1..chain'.epoch
    BY <1>1 DEF RailInvariant, LandedInOrder, Apply
  <2>2. \A v, w \in landed' : v.epoch = w.epoch => v = w
    BY <1>1 DEF RailInvariant, LandedInOrder, Apply
  <2>3. chain'.epoch # 0 /\ chain' \in landed'
    BY <1>1 DEF Apply
  <2>4. \A p \in Keepers : pc'[p] = "landed" => TxOf(p)' \in landed'
    BY <1>3 DEF RailInvariant, LandedInOrder, Apply
  <2>5. QED
    BY <2>1, <2>2, <2>3, <2>4 DEF LandedInOrder
<1>5. OnlyCommittedRows'
  BY <1>1 DEF RailInvariant, OnlyCommittedRows, Apply, dbVars, tickVars
<1>6. /\ \A p \in Keepers : Publishing(p)' => epoch'[p] \in 1..chain'.epoch
      /\ \A t \in strays' : t.epoch \in 1..chain'.epoch
  BY <1>1 DEF RailInvariant, NoEpochAhead, Publishing, tickVars
<1>7. NoEpochAhead'
  BY <1>1, <1>6 DEF NoEpochAhead
<1>8. NextToLandIsFresh'
  BY <1>1, <1>6 DEF NextToLandIsFresh, Publishing
<1>9. RecordsMatchChain' /\ StampNamesPublishedLeaf'
  BY DEF RailInvariant, RecordsMatchChain, StampNamesPublishedLeaf, dbVars, Apply
<1>10. QED
  BY <1>2, <1>4, <1>5, <1>7, <1>8, <1>9

LEMMA LandOwnIsSafe ==
  ASSUME RailInvariant, NEW p \in Keepers, LandOwn(p)
  PROVE  RailInvariant'
<1>1. TxOf(p) \in Accounts
  BY DEF RailInvariant, TypeOK, TxOf, Accounts
<1>2. TxOf(p).epoch = chain.epoch + 1 /\ TxOf(p).rows \subseteq committed
  BY ConstantsAssumption
  DEF LandOwn, Accepts, TxOf, RailInvariant, NoEpochAhead, Publishing,
      OnlyCommittedRows, TypeOK, Accounts
<1>3. \A k \in Keepers : pc'[k] = pc[k] \/ (pc'[k] = "landed" /\ TxOf(k) = TxOf(p))
  BY DEF LandOwn, RailInvariant, TypeOK
<1>4. pc' \in [Keepers -> Phases]
  BY DEF LandOwn, RailInvariant, TypeOK
<1>5. QED
  BY <1>1, <1>2, <1>3, <1>4, LandsSafely
  DEF LandOwn, RailInvariant, TypeOK, dbVars, tickVars

LEMMA LandStrayIsSafe ==
  ASSUME RailInvariant, NEW t \in strays, LandStray(t)
  PROVE  RailInvariant'
<1>1. t \in Accounts
  BY DEF RailInvariant, TypeOK
<1>2. t.epoch = chain.epoch + 1 /\ t.rows \subseteq committed
  BY ConstantsAssumption, <1>1
  DEF LandStray, Accepts, RailInvariant, NoEpochAhead, OnlyCommittedRows,
      TypeOK, Accounts
<1>3. QED
  BY <1>1, <1>2, LandsSafely
  DEF LandStray, RailInvariant, TypeOK, dbVars, tickVars

LEMMA OpsSetDenyListIsSafe ==
  ASSUME RailInvariant, NEW d \in SUBSET DenyEntries, OpsSetDenyList(d)
  PROVE  RailInvariant'
<1> DEFINE tx == [epoch |-> chain.epoch + 1, rows |-> chain.rows, deny |-> d]
<1>1. tx \in Accounts
  BY ConstantsAssumption DEF OpsSetDenyList, RailInvariant, TypeOK, Accounts
<1>2. tx.epoch = chain.epoch + 1 /\ tx.rows \subseteq committed
  BY DEF RailInvariant, OnlyCommittedRows, TypeOK, Accounts
<1>3. Apply(tx)
  BY DEF OpsSetDenyList
<1> HIDE DEF tx
<1>4. QED
  BY <1>1, <1>2, <1>3, LandsSafely
  DEF OpsSetDenyList, RailInvariant, TypeOK, dbVars, tickVars

(* A transaction nobody waits for carries what its keeper's did.               *)
LEMMA AbandonIsSafe ==
  ASSUME RailInvariant, NEW p \in Keepers, pc[p] = "sent", Forget(p), Abandon(p),
         UNCHANGED <<dbVars, chainVars>>, lastKnown' \in [Keepers -> 0..MaxEpoch],
         dry' \in [Keepers -> DryRunModes]
  PROVE  RailInvariant'
<1>1. committed' = committed
  BY DEF dbVars
<1>2. TxOf(p) \in Accounts
  BY DEF RailInvariant, TypeOK, TxOf, Accounts
<1>3. TypeOK'
  BY <1>1, <1>2, ForgetIsSafe
  DEF RailInvariant, TypeOK, Abandon, dbVars, chainVars
<1>4. OnlyCommittedRows'
  BY <1>1, ForgetIsSafe
  DEF RailInvariant, OnlyCommittedRows, Abandon, TxOf, chainVars
<1>5. NoEpochAhead'
  BY <1>1, ForgetIsSafe
  DEF RailInvariant, NoEpochAhead, Publishing, Abandon, TxOf, chainVars
<1>6. NextToLandIsFresh'
  BY <1>1, ForgetIsSafe
  DEF RailInvariant, NextToLandIsFresh, Abandon, TxOf, chainVars
<1>7. RecordsMatchChain' /\ StampNamesPublishedLeaf'
  BY DEF RailInvariant, RecordsMatchChain, StampNamesPublishedLeaf, dbVars, chainVars
<1>8. QED
  BY <1>1, <1>3, <1>4, <1>5, <1>6, <1>7, ForgetIsSafe DEF RailInvariant

LEMMA RestartIsSafe ==
  ASSUME RailInvariant, NEW p \in Keepers, Restart(p)
  PROVE  RailInvariant'
<1>1. /\ lastKnown' \in [Keepers -> 0..MaxEpoch]
      /\ dry' \in [Keepers -> DryRunModes]
  BY ConstantsAssumption DEF Restart, RailInvariant, TypeOK
<1>2. CASE pc[p] = "sent"
  BY <1>1, <1>2, AbandonIsSafe DEF Restart
<1>3. CASE pc[p] # "sent"
  <2>1. strays' = strays /\ committed' = committed
    BY <1>3 DEF Restart, dbVars
  <2>2. TypeOK'
    BY <1>1, <2>1, ForgetIsSafe DEF Restart, RailInvariant, TypeOK, dbVars, chainVars
  <2>3. OnlyCommittedRows' /\ NoEpochAhead' /\ NextToLandIsFresh'
    BY <2>1, ForgetIsSafe
    DEF Restart, RailInvariant, OnlyCommittedRows, NoEpochAhead, NextToLandIsFresh,
        chainVars
  <2>4. RecordsMatchChain' /\ StampNamesPublishedLeaf'
    BY DEF Restart, RailInvariant, RecordsMatchChain, StampNamesPublishedLeaf, dbVars,
           chainVars
  <2>5. QED
    BY <2>1, <2>2, <2>3, <2>4, ForgetIsSafe DEF Restart, RailInvariant
<1>4. QED
  BY <1>2, <1>3

(* The steps of a tick that only move one keeper forward.                      *)
LEMMA ReadEpochIsSafe ==
  ASSUME RailInvariant, NEW p \in Keepers, NEW v \in Views, ReadEpoch(p, v)
  PROVE  RailInvariant'
<1>1. NextEpoch(v) \in 1..(chain.epoch + 1) /\ NextEpoch(v) \in 0..MaxEpoch
  BY ConstantsAssumption, ViewsAreHistory
  DEF ReadEpoch, NextEpoch, RailInvariant, TypeOK, Accounts
<1>2. v.epoch \in 0..MaxEpoch
  BY ViewsAreHistory DEF Accounts
<1>3. TypeOK'
  BY <1>1, <1>2 DEF ReadEpoch, RailInvariant, TypeOK, dbVars, chainVars
<1>4. /\ pc'[p] = "ticked"
      /\ \A k \in Keepers \ {p} : pc'[k] = pc[k] /\ epoch'[k] = epoch[k]
  BY DEF ReadEpoch, RailInvariant, TypeOK
<1>5. LandedInOrder' /\ OnlyCommittedRows'
  BY <1>4
  DEF ReadEpoch, RailInvariant, LandedInOrder, OnlyCommittedRows, TxOf, Uninitialised,
      dbVars, chainVars
<1>6. NoEpochAhead'
  BY <1>1, <1>4
  DEF ReadEpoch, RailInvariant, TypeOK, NoEpochAhead, Publishing, chainVars
<1>7. NextToLandIsFresh'
  BY <1>4 DEF ReadEpoch, RailInvariant, NextToLandIsFresh, chainVars
<1>8. RecordsMatchChain' /\ StampNamesPublishedLeaf'
  BY DEF ReadEpoch, RailInvariant, RecordsMatchChain, StampNamesPublishedLeaf, dbVars,
         chainVars
<1>9. QED
  BY <1>3, <1>5, <1>6, <1>7, <1>8 DEF RailInvariant

LEMMA CaptureCutoffIsSafe ==
  ASSUME RailInvariant, NEW p \in Keepers, CaptureCutoff(p)
  PROVE  RailInvariant'
<1>1. TypeOK'
  BY DEF CaptureCutoff, RailInvariant, TypeOK, dbVars, chainVars
<1>2. /\ pc[p] = "ticked" /\ pc'[p] = "cutoff"
      /\ \A k \in Keepers \ {p} : pc'[k] = pc[k]
  BY DEF CaptureCutoff, RailInvariant, TypeOK
<1>3. LandedInOrder' /\ OnlyCommittedRows'
  BY <1>2
  DEF CaptureCutoff, RailInvariant, LandedInOrder, OnlyCommittedRows, TxOf,
      Uninitialised, dbVars, chainVars
<1>4. NoEpochAhead' /\ NextToLandIsFresh'
  BY <1>2
  DEF CaptureCutoff, RailInvariant, NoEpochAhead, NextToLandIsFresh, Publishing, chainVars
<1>5. RecordsMatchChain' /\ StampNamesPublishedLeaf'
  BY DEF CaptureCutoff, RailInvariant, RecordsMatchChain, StampNamesPublishedLeaf,
         dbVars, chainVars
<1>6. QED
  BY <1>1, <1>3, <1>4, <1>5 DEF RailInvariant

(* The tree holds everything committed, so everything claimable and due.       *)
LEMMA BuildTreeIsSafe ==
  ASSUME RailInvariant, NEW p \in Keepers, BuildTree(p)
  PROVE  RailInvariant'
<1>1. TypeOK'
  BY DEF BuildTree, Summed, RailInvariant, TypeOK, dbVars, chainVars
<1>2. /\ pc[p] = "cutoff" /\ pc'[p] = "built" /\ tree'[p] = committed
      /\ \A k \in Keepers \ {p} : pc'[k] = pc[k] /\ tree'[k] = tree[k]
  BY DEF BuildTree, Summed, RailInvariant, TypeOK
<1>3. LandedInOrder' /\ OnlyCommittedRows'
  BY <1>2
  DEF BuildTree, RailInvariant, LandedInOrder, OnlyCommittedRows, TxOf, Uninitialised,
      dbVars, chainVars
<1>4. NoEpochAhead'
  BY <1>2 DEF BuildTree, RailInvariant, NoEpochAhead, Publishing, chainVars
<1>5. NextToLandIsFresh'
  BY <1>2 DEF BuildTree, RailInvariant, OnlyCommittedRows, NextToLandIsFresh, chainVars
<1>6. RecordsMatchChain' /\ StampNamesPublishedLeaf'
  BY DEF BuildTree, RailInvariant, RecordsMatchChain, StampNamesPublishedLeaf, dbVars,
         chainVars
<1>7. QED
  BY <1>1, <1>3, <1>4, <1>5, <1>6 DEF RailInvariant

(* With monotone reads a transaction that can still land carries the deny list *)
(* in force: the view read is no older than the epoch the tick started from.   *)
LEMMA SubmitRootIsSafe ==
  ASSUME RailInvariant, NEW p \in Keepers, NEW v \in Views, SubmitRoot(p, v)
  PROVE  RailInvariant'
<1>1. v \in Accounts /\ v.deny \in SUBSET DenyEntries
  BY ViewsAreHistory DEF Accounts
<1>2. TypeOK'
  BY <1>1
  DEF SubmitRoot, EchoedDenyList, RailInvariant, TypeOK, dbVars, chainVars
<1>3. /\ pc[p] = "built" /\ pc'[p] = "sent" /\ deny'[p] = v.deny
      /\ \A k \in Keepers \ {p} : pc'[k] = pc[k] /\ deny'[k] = deny[k]
  BY DEF SubmitRoot, EchoedDenyList, RailInvariant, TypeOK
<1>4. LandedInOrder' /\ OnlyCommittedRows'
  BY <1>3
  DEF SubmitRoot, RailInvariant, LandedInOrder, OnlyCommittedRows, TxOf, Uninitialised,
      dbVars, chainVars
<1>5. NoEpochAhead'
  BY <1>3 DEF SubmitRoot, RailInvariant, NoEpochAhead, Publishing, chainVars
<1>6. MonotoneReads /\ epoch[p] = chain.epoch + 1 => v = chain
  <2>1. chain.epoch \in Nat
    BY DEF RailInvariant, TypeOK, Accounts
  <2>2. QED
    BY <2>1, ViewsAreHistory DEF SubmitRoot
<1>7. NextToLandIsFresh'
  BY <1>3, <1>6 DEF SubmitRoot, RailInvariant, NextToLandIsFresh, chainVars
<1>8. RecordsMatchChain' /\ StampNamesPublishedLeaf'
  BY DEF SubmitRoot, RailInvariant, RecordsMatchChain, StampNamesPublishedLeaf, dbVars,
         chainVars
<1>9. QED
  BY <1>2, <1>4, <1>5, <1>7, <1>8 DEF RailInvariant

LEMMA InsertIsSafe ==
  ASSUME RailInvariant, NEW r \in Rows, BeginInsert(r) \/ CommitInsert(r)
  PROVE  RailInvariant'
<1>1. /\ committed \subseteq committed'
      /\ UNCHANGED <<stamp, rootEpochs, chainVars, strays, pc, lastKnown, dry, tickVars>>
  BY DEF BeginInsert, CommitInsert
<1>2. TypeOK'
  BY <1>1 DEF BeginInsert, CommitInsert, RailInvariant, TypeOK, chainVars, tickVars
<1>3. LandedInOrder' /\ OnlyCommittedRows' /\ NoEpochAhead'
  BY <1>1
  DEF RailInvariant, LandedInOrder, OnlyCommittedRows, NoEpochAhead, Publishing, TxOf,
      Uninitialised, chainVars, tickVars
<1>4. NextToLandIsFresh' /\ RecordsMatchChain' /\ StampNamesPublishedLeaf'
  BY <1>1
  DEF RailInvariant, NextToLandIsFresh, RecordsMatchChain, StampNamesPublishedLeaf,
      chainVars, tickVars
<1>5. QED
  BY <1>2, <1>3, <1>4 DEF RailInvariant

(* The record names the value this keeper landed; if a row for the epoch is    *)
(* there already, it is the same one, because an epoch lands once.             *)
LEMMA RecordPublishIsSafe ==
  ASSUME RailInvariant, NEW p \in Keepers, RecordPublish(p)
  PROVE  RailInvariant'
<1>1. TxOf(p) \in landed /\ committed' = committed
  BY DEF RecordPublish, RailInvariant, LandedInOrder
<1>2. epoch[p] \in 1..MaxEpoch
  BY <1>1
  DEF TxOf, RailInvariant, TypeOK, LandedInOrder, Accounts
<1>3. \E rec \in rootEpochs' : rec.epoch = epoch[p] /\ rec.root = Root(tree[p])
  <2>1. CASE \E rec \in rootEpochs : rec.epoch = epoch[p]
    <3>1. PICK rec \in rootEpochs : rec.epoch = epoch[p]
      BY <2>1
    <3>2. PICK v \in landed : v.epoch = rec.epoch /\ Root(v.rows) = rec.root
      BY DEF RailInvariant, RecordsMatchChain
    <3>3. v = TxOf(p)
      BY <1>1, <3>1, <3>2 DEF RailInvariant, LandedInOrder, TxOf
    <3>4. v.rows = tree[p]
      BY <3>3 DEF TxOf
    <3>5. rec \in rootEpochs'
      BY <2>1 DEF RecordPublish
    <3>6. QED
      BY <3>1, <3>2, <3>4, <3>5
  <2>2. CASE ~\E rec \in rootEpochs : rec.epoch = epoch[p]
    <3>1. EpochRow(p) \in rootEpochs'
      BY <2>2 DEF RecordPublish
    <3>2. EpochRow(p).epoch = epoch[p] /\ EpochRow(p).root = Root(tree[p])
      BY DEF EpochRow
    <3>3. QED
      BY <3>1, <3>2
  <2>3. QED
    BY <2>1, <2>2
<1>4. TypeOK'
  <2>1. stamp' \in [Rows -> 0..MaxEpoch]
    BY <1>2 DEF RecordPublish, RailInvariant, TypeOK
  <2>2. \A rec \in rootEpochs' : rec.epoch \in 1..MaxEpoch
    BY <1>2 DEF RecordPublish, EpochRow, RailInvariant, TypeOK
  <2>3. QED
    BY <1>1, <2>1, <2>2, ForgetIsSafe DEF RecordPublish, RailInvariant, TypeOK, chainVars
<1>5. OnlyCommittedRows' /\ NoEpochAhead' /\ NextToLandIsFresh' /\ LandedInOrder'
  BY <1>1, ForgetIsSafe
  DEF RecordPublish, RailInvariant, OnlyCommittedRows, NoEpochAhead, NextToLandIsFresh,
      chainVars
<1>6. RecordsMatchChain'
  <2>1. CASE \E rec \in rootEpochs : rec.epoch = epoch[p]
    BY <2>1 DEF RecordPublish, RailInvariant, RecordsMatchChain, chainVars
  <2>2. CASE ~\E rec \in rootEpochs : rec.epoch = epoch[p]
    BY <1>1, <2>2
    DEF RecordPublish, EpochRow, RailInvariant, RecordsMatchChain, TxOf, chainVars
  <2>3. QED
    BY <2>1, <2>2
<1>7. StampNamesPublishedLeaf'
  <2> SUFFICES ASSUME NEW r \in Rows, stamp'[r] > 0
               PROVE  \E rec \in rootEpochs' : /\ rec.epoch = stamp'[r]
                                               /\ Authority[r] \in DOMAIN rec.root
    BY DEF StampNamesPublishedLeaf
  <2>1. CASE r \in Backfilled(p)
    <3>1. stamp'[r] = epoch[p] /\ Authority[r] \in Leaves(tree[p])
      BY <2>1 DEF RecordPublish, Backfilled
    <3>2. QED
      BY <1>3, <3>1 DEF Root
  <2>2. CASE r \notin Backfilled(p)
    <3>1. stamp'[r] = stamp[r] /\ rootEpochs \subseteq rootEpochs'
      BY <2>2 DEF RecordPublish
    <3>2. QED
      BY <3>1 DEF RailInvariant, StampNamesPublishedLeaf
  <2>3. QED
    BY <2>1, <2>2
<1>8. QED
  BY <1>4, <1>5, <1>6, <1>7 DEF RailInvariant

LEMMA DropStrayIsSafe ==
  ASSUME RailInvariant, NEW t \in strays, DropStray(t)
  PROVE  RailInvariant'
<1>1. TypeOK' /\ LandedInOrder' /\ OnlyCommittedRows'
  BY DEF DropStray, RailInvariant, TypeOK, LandedInOrder, OnlyCommittedRows, TxOf,
         Uninitialised, dbVars, chainVars, tickVars
<1>2. NoEpochAhead' /\ NextToLandIsFresh' /\ RecordsMatchChain' /\ StampNamesPublishedLeaf'
  BY DEF DropStray, RailInvariant, NoEpochAhead, NextToLandIsFresh, Publishing,
         RecordsMatchChain, StampNamesPublishedLeaf, dbVars, chainVars, tickVars
<1>3. QED
  BY <1>1, <1>2 DEF RailInvariant

-------------------------------------------------------------------------------

LEMMA InitIsSafe == Init => RailInvariant
<1> SUFFICES ASSUME Init PROVE RailInvariant
  OBVIOUS
<1>1. TypeOK
  BY ConstantsAssumption DEF Init, TypeOK, Accounts, Uninitialised
<1>2. LandedInOrder /\ OnlyCommittedRows /\ NoEpochAhead
  BY DEF Init, LandedInOrder, OnlyCommittedRows, NoEpochAhead, Publishing, Uninitialised
<1>3. NextToLandIsFresh /\ RecordsMatchChain /\ StampNamesPublishedLeaf
  BY DEF Init, NextToLandIsFresh, RecordsMatchChain, StampNamesPublishedLeaf,
         Uninitialised
<1>4. QED
  BY <1>1, <1>2, <1>3 DEF RailInvariant

LEMMA TickIsSafe ==
  ASSUME RailInvariant, NEW p \in Keepers, Tick(p)
  PROVE  RailInvariant'
<1>1. ASSUME NEW v \in Views, ReadEpoch(p, v) PROVE RailInvariant'
  BY <1>1, ReadEpochIsSafe
<1>2. ASSUME NEW v \in Views, SubmitRoot(p, v) PROVE RailInvariant'
  BY <1>2, SubmitRootIsSafe
<1>3. CASE CaptureCutoff(p)
  BY <1>3, CaptureCutoffIsSafe
<1>4. CASE BuildTree(p)
  BY <1>4, BuildTreeIsSafe
<1>5. CASE RefuseOverCap(p)
  BY <1>5, TickEndsSafely DEF RefuseOverCap
<1>6. CASE DryRunStop(p)
  BY <1>6, TickEndsSafely DEF DryRunStop
<1>7. CASE FailTick(p)
  BY <1>7, TickEndsSafely DEF FailTick
<1>8. CASE LandOwn(p)
  BY <1>8, LandOwnIsSafe
<1>9. CASE RejectOwn(p)
  BY <1>9, TickEndsSafely DEF RejectOwn
<1>10. CASE Timeout(p)
  BY <1>10, AbandonIsSafe DEF Timeout, RailInvariant, TypeOK
<1>11. CASE RecordPublish(p)
  BY <1>11, RecordPublishIsSafe
<1>12. CASE SkipRecord(p)
  BY <1>12, TickEndsSafely DEF SkipRecord
<1>13. CASE Restart(p)
  BY <1>13, RestartIsSafe
<1>14. QED
  BY <1>1, <1>2, <1>3, <1>4, <1>5, <1>6, <1>7, <1>8, <1>9, <1>10, <1>11, <1>12, <1>13
  DEF Tick

LEMMA NextIsSafe == RailInvariant /\ [Next]_vars => RailInvariant'
<1> SUFFICES ASSUME RailInvariant, [Next]_vars PROVE RailInvariant'
  OBVIOUS
<1>1. ASSUME NEW p \in Keepers, Tick(p) PROVE RailInvariant'
  BY <1>1, TickIsSafe
<1>2. ASSUME NEW r \in Rows, BeginInsert(r) \/ CommitInsert(r) PROVE RailInvariant'
  BY <1>2, InsertIsSafe
<1>3. ASSUME NEW t \in strays, LandStray(t) PROVE RailInvariant'
  BY <1>3, LandStrayIsSafe
<1>4. ASSUME NEW t \in strays, DropStray(t) PROVE RailInvariant'
  BY <1>4, DropStrayIsSafe
<1>5. ASSUME NEW d \in SUBSET DenyEntries, OpsSetDenyList(d) PROVE RailInvariant'
  BY <1>5, OpsSetDenyListIsSafe
<1>6. CASE UNCHANGED vars
  BY <1>6
  DEF vars, dbVars, chainVars, tickVars, RailInvariant, TypeOK, LandedInOrder,
      OnlyCommittedRows, NoEpochAhead, NextToLandIsFresh, Publishing, TxOf,
      RecordsMatchChain, StampNamesPublishedLeaf
<1>7. QED
  BY <1>1, <1>2, <1>3, <1>4, <1>5, <1>6 DEF Next

(* The invariant the keepers' races rest on holds of every behaviour.          *)
THEOREM RailIsSafe == Spec => []RailInvariant
<1>1. Init => RailInvariant
  BY InitIsSafe
<1>2. RailInvariant /\ [Next]_vars => RailInvariant'
  BY NextIsSafe
<1>3. QED
  BY <1>1, <1>2, PTL DEF Spec

(* Every variable keeps its type.                                              *)
THEOREM TypeCorrect == Spec => []TypeOK
<1>1. RailInvariant => TypeOK
  BY DEF RailInvariant
<1>2. QED
  BY <1>1, RailIsSafe, PTL

(* rewardz_root_epochs never disagrees with what the chain took.               *)
THEOREM RecordIsFaithful == Spec => []RecordsMatchChain
<1>1. RailInvariant => RecordsMatchChain
  BY DEF RailInvariant
<1>2. QED
  BY <1>1, RailIsSafe, PTL

(* A stamp always names a recorded root with a leaf for the row's authority.   *)
THEOREM StampsNameLeaves == Spec => []StampNamesPublishedLeaf
<1>1. RailInvariant => StampNamesPublishedLeaf
  BY DEF RailInvariant
<1>2. QED
  BY <1>1, RailIsSafe, PTL

-------------------------------------------------------------------------------

(* The cap check stands for what is sent and for what is sent late.            *)
LEMMA TickKeepsCap ==
  ASSUME RailInvariant, CapIsKept, NEW p \in Keepers, Tick(p)
  PROVE  CapIsKept'
<1> USE DEF CapIsKept
<1>1. pc \in [Keepers -> Phases] /\ tree \in [Keepers -> SUBSET Rows]
  BY DEF RailInvariant, TypeOK
<1>2. ASSUME NEW v \in Views, ReadEpoch(p, v) \/ SubmitRoot(p, v) PROVE CapIsKept'
  BY <1>1, <1>2 DEF ReadEpoch, SubmitRoot, chainVars
<1>3. CASE CaptureCutoff(p)
  BY <1>1, <1>3 DEF CaptureCutoff, chainVars
<1>4. CASE BuildTree(p)
  <2>1. Total(Summed) <= Cap /\ tree' = [tree EXCEPT ![p] = Summed]
    BY <1>4 DEF BuildTree, UnderCap
  <2>2. tree'[p] = Summed /\ \A k \in Keepers \ {p} : tree'[k] = tree[k] /\ pc'[k] = pc[k]
    BY <1>1, <1>4, <2>1 DEF BuildTree
  <2>3. \A k \in Keepers : pc'[k] \in {"built", "sent"} => Total(tree'[k]) <= Cap
    BY <2>1, <2>2
  <2>4. QED
    BY <1>4, <2>3 DEF BuildTree, chainVars
<1>5. CASE LandOwn(p)
  BY <1>1, <1>5 DEF LandOwn, Apply, TxOf, tickVars
<1>6. CASE RecordPublish(p)
  BY <1>1, <1>6 DEF RecordPublish, Forget, chainVars
<1>7. CASE Timeout(p)
  BY <1>1, <1>7 DEF Timeout, Abandon, TxOf, Forget, chainVars
<1>8. CASE Restart(p)
  BY <1>1, <1>8 DEF Restart, Abandon, TxOf, Forget, chainVars
<1>9. CASE RefuseOverCap(p) \/ DryRunStop(p) \/ FailTick(p) \/ RejectOwn(p) \/ SkipRecord(p)
  BY <1>1, <1>9
  DEF RefuseOverCap, DryRunStop, FailTick, RejectOwn, SkipRecord, Forget, chainVars
<1>10. QED
  BY <1>2, <1>3, <1>4, <1>5, <1>6, <1>7, <1>8, <1>9 DEF Tick

(* No root over the cap is ever on chain, or on its way there.                 *)
THEOREM CapHolds == Spec => []CapIsKept
<1>1. Init => CapIsKept
  BY DEF Init, CapIsKept, Uninitialised
<1>2. RailInvariant /\ CapIsKept /\ [Next]_vars => CapIsKept'
  <2> SUFFICES ASSUME RailInvariant, CapIsKept, [Next]_vars PROVE CapIsKept'
    OBVIOUS
  <2>1. ASSUME NEW p \in Keepers, Tick(p) PROVE CapIsKept'
    BY <2>1, TickKeepsCap
  <2>2. ASSUME NEW r \in Rows, BeginInsert(r) \/ CommitInsert(r) PROVE CapIsKept'
    BY <2>2 DEF BeginInsert, CommitInsert, CapIsKept, chainVars, tickVars
  <2>3. ASSUME NEW t \in strays, LandStray(t) PROVE CapIsKept'
    BY <2>3 DEF LandStray, Apply, CapIsKept, tickVars
  <2>4. ASSUME NEW t \in strays, DropStray(t) PROVE CapIsKept'
    BY <2>4 DEF DropStray, CapIsKept, chainVars, tickVars
  <2>5. ASSUME NEW d \in SUBSET DenyEntries, OpsSetDenyList(d) PROVE CapIsKept'
    <3>1. chain.epoch > 0 /\ chain'.rows = chain.rows
      BY <2>5 DEF OpsSetDenyList, Apply
    <3>2. QED
      BY <2>5, <3>1 DEF OpsSetDenyList, CapIsKept, tickVars
  <2>6. CASE UNCHANGED vars
    BY <2>6 DEF vars, chainVars, tickVars, CapIsKept
  <2>7. QED
    BY <2>1, <2>2, <2>3, <2>4, <2>5, <2>6 DEF Next
<1>3. QED
  BY <1>1, <1>2, RailIsSafe, PTL DEF Spec

-------------------------------------------------------------------------------

(* What lands next is fresh: this is all the remaining theorems need.          *)
LEMMA OwnLandsFresh ==
  ASSUME RailInvariant, NEW p \in Keepers, LandOwn(p)
  PROVE  /\ chain' = TxOf(p)
         /\ chain'.epoch = chain.epoch + 1
         /\ chain.rows \cup due \subseteq chain'.rows
         /\ chain'.rows \subseteq committed
         /\ MonotoneReads => chain'.deny = chain.deny
<1>1. epoch[p] = chain.epoch + 1
  BY ConstantsAssumption
  DEF LandOwn, Accepts, TxOf, RailInvariant, NoEpochAhead, Publishing, TypeOK, Accounts
<1>2. chain' = TxOf(p)
  BY DEF LandOwn, Apply
<1>3. QED
  BY <1>1, <1>2
  DEF LandOwn, TxOf, RailInvariant, NextToLandIsFresh, OnlyCommittedRows

LEMMA StrayLandsFresh ==
  ASSUME RailInvariant, NEW t \in strays, LandStray(t)
  PROVE  /\ chain' = t
         /\ chain'.epoch = chain.epoch + 1
         /\ chain.rows \cup due \subseteq chain'.rows
         /\ chain'.rows \subseteq committed
         /\ MonotoneReads => chain'.deny = chain.deny
<1>1. t.epoch = chain.epoch + 1
  BY ConstantsAssumption
  DEF LandStray, Accepts, RailInvariant, NoEpochAhead, TypeOK, Accounts
<1>2. QED
  BY <1>1
  DEF LandStray, Apply, RailInvariant, NextToLandIsFresh, OnlyCommittedRows

(* If a keeper's reads never go back in time within a tick, no publish ever    *)
(* drops or adds a freeze: the echo of the deny list races with the operators  *)
(* and loses by being rejected.                                                *)
THEOREM DenyListKept == MonotoneReads => (Spec => PublishKeepsDenyList)
<1> SUFFICES ASSUME MonotoneReads PROVE Spec => PublishKeepsDenyList
  OBVIOUS
<1>1. RailInvariant =>
        [(\E p \in Keepers : LandOwn(p)) \/ (\E t \in strays : LandStray(t))
           => chain'.deny = chain.deny]_vars
  BY OwnLandsFresh, StrayLandsFresh
<1>2. QED
  BY <1>1, RailIsSafe, PTL DEF PublishKeepsDenyList

(* Every step of the rail is a step of the ledger or changes nothing it sees.  *)
LEMMA StepImplementsLedger ==
  ASSUME RailInvariant, [Next]_vars
  PROVE  [Ledger!Next]_(Ledger!vars)
<1>1. ASSUME NEW p \in Keepers, LandOwn(p) PROVE Ledger!Publish
  <2>1. chain'.rows \in SUBSET committed /\ Ledger!Advance(chain'.rows)
    BY <1>1, OwnLandsFresh DEF Ledger!Advance, LandOwn, Apply, dbVars
  <2>2. QED
    BY <1>1, <2>1, OwnLandsFresh DEF Ledger!Publish
<1>2. ASSUME NEW t \in strays, LandStray(t) PROVE Ledger!Publish
  <2>1. chain'.rows \in SUBSET committed /\ Ledger!Advance(chain'.rows)
    BY <1>2, StrayLandsFresh DEF Ledger!Advance, LandStray, Apply, dbVars
  <2>2. QED
    BY <1>2, <2>1, StrayLandsFresh DEF Ledger!Publish
<1>3. ASSUME NEW d \in SUBSET DenyEntries, OpsSetDenyList(d) PROVE Ledger!Republish
  BY <1>3 DEF OpsSetDenyList, Apply, Ledger!Republish, Ledger!Advance, dbVars
<1>4. ASSUME NEW r \in Rows, CommitInsert(r)
      PROVE  \E e \in Rows \ committed : Ledger!Earn(e)
  BY <1>4 DEF CommitInsert, Ledger!Earn, chainVars
<1>5. ASSUME NEW r \in Rows, BeginInsert(r) PROVE UNCHANGED Ledger!vars
  BY <1>5 DEF BeginInsert, Ledger!vars, chainVars
<1>6. ASSUME NEW t \in strays, DropStray(t) PROVE UNCHANGED Ledger!vars
  BY <1>6 DEF DropStray, Ledger!vars, dbVars, chainVars
<1>7. ASSUME NEW p \in Keepers, Tick(p), ~LandOwn(p) PROVE UNCHANGED Ledger!vars
  BY <1>7
  DEF Tick, ReadEpoch, SubmitRoot, CaptureCutoff, BuildTree, RefuseOverCap, DryRunStop,
      FailTick, RejectOwn, Timeout, RecordPublish, SkipRecord, Restart, Ledger!vars,
      dbVars, chainVars
<1>8. CASE UNCHANGED vars
  BY <1>8 DEF vars, dbVars, chainVars, Ledger!vars
<1>9. QED
  BY <1>1, <1>2, <1>3, <1>4, <1>5, <1>6, <1>7, <1>8 DEF Next, Ledger!Next

(* The whole rail implements the ledger: no epoch is skipped, nothing          *)
(* claimable is taken back, nothing uncommitted is published, and an earning   *)
(* waits at most for the second keeper publish after it was committed.         *)
THEOREM LedgerImplemented == Spec => ImplementsLedger
<1>1. Init => Ledger!Init
  BY DEF Init, Uninitialised, Ledger!Init
<1>2. RailInvariant /\ [Next]_vars => [Ledger!Next]_(Ledger!vars)
  BY StepImplementsLedger
<1>3. QED
  BY <1>1, <1>2, RailIsSafe, PTL DEF Spec, Ledger!Spec, ImplementsLedger

-------------------------------------------------------------------------------
(* Sums.  The fold of the community modules is a recursive function on the   *)
(* subsets of a finite set.  Inductions go by a least counterexample, on the *)
(* natural numbers: a nonempty set of them has a least element, and a set    *)
(* that holds 0 and every successor holds all.                               *)
LEMMA LeastNumber ==
  ASSUME NEW T \in SUBSET Nat, T # {}
  PROVE  \E n \in T : \A m \in T : ~(m < n)
<1>1. IsWellFoundedOn(OpToRel(<, Nat), Nat)
  BY NatLessThanWellFounded
<1>2. \E n \in T : \A m \in T : ~(<<m, n>> \in OpToRel(<, Nat))
  BY <1>1, WFMin
<1>3. QED
  BY <1>2 DEF OpToRel

LEMMA CountingUp ==
  ASSUME NEW T \in SUBSET Nat, 0 \in T, \A n \in T : n + 1 \in T
  PROVE  T = Nat
<1>1. SUFFICES ASSUME Nat \ T # {} PROVE FALSE
  OBVIOUS
<1>2. PICK n \in Nat \ T : \A m \in Nat \ T : ~(m < n)
  BY <1>1, LeastNumber
<1>3. n - 1 \in Nat \ T
  BY <1>2
<1>4. QED
  BY <1>2, <1>3

(* The definition of SumFunctionOnSet, one step of its recursion at a time.  *)
Picked(s) == CHOOSE x \in s : TRUE

SumStep(g, f, s) == IF s = {} THEN 0 ELSE f[Picked(s)] + g[s \ {Picked(s)}]

SumsBelow(g, f, S) == g = [s \in SUBSET S |-> SumStep(g, f, s)]

LEMMA SumIsChosen ==
  ASSUME NEW f, NEW S
  PROVE  SumFunctionOnSet(f, S) = (CHOOSE g : SumsBelow(g, f, S))[S]
BY DEF SumFunctionOnSet, FoldFunctionOnSet, MapThenFoldSet, SumsBelow, SumStep, Picked

(* Taking out an element leaves one fewer.                                   *)
LEMMA Smaller ==
  ASSUME NEW s, IsFiniteSet(s), NEW x \in s
  PROVE  /\ IsFiniteSet(s \ {x})
         /\ Cardinality(s \ {x}) \in Nat
         /\ Cardinality(s) = Cardinality(s \ {x}) + 1
<1>1. IsFiniteSet(s \ {x}) /\ Cardinality(s \ {x}) = Cardinality(s) - 1
  BY FS_RemoveElement
<1>2. Cardinality(s) \in Nat /\ Cardinality(s \ {x}) \in Nat
  BY <1>1, FS_CardinalityType
<1>3. QED
  BY <1>1, <1>2

(* The recursion has a solution: extend one for the sets of at most n        *)
(* elements to those of n + 1.                                               *)
LEMMA SumExists ==
  ASSUME NEW D, NEW f \in [D -> Nat], NEW S \in SUBSET D, IsFiniteSet(S)
  PROVE  \E g \in [SUBSET S -> Nat] : SumsBelow(g, f, S)
<1> DEFINE Upto(n) == \E g \in [SUBSET S -> Nat] :
                        \A s \in SUBSET S : Cardinality(s) <= n => g[s] = SumStep(g, f, s)
           T == {n \in Nat : Upto(n)}
<1>1. \A s \in SUBSET S : IsFiniteSet(s) /\ Cardinality(s) \in Nat
  BY FS_Subset, FS_CardinalityType
<1>2. 0 \in T
  <2>1. [s \in SUBSET S |-> 0] \in [SUBSET S -> Nat]
    OBVIOUS
  <2>2. \A s \in SUBSET S : Cardinality(s) <= 0 => s = {}
    BY <1>1, FS_EmptySet
  <2>3. Upto(0)
    BY <2>1, <2>2 DEF SumStep
  <2>4. QED
    BY <2>3
<1>3. ASSUME NEW n \in T
      PROVE  n + 1 \in T
  <2>1. PICK g \in [SUBSET S -> Nat] :
          \A s \in SUBSET S : Cardinality(s) <= n => g[s] = SumStep(g, f, s)
    BY <1>3
  <2>2. ASSUME NEW s \in SUBSET S, s # {}
        PROVE  /\ Picked(s) \in s
               /\ f[Picked(s)] \in Nat
               /\ s \ {Picked(s)} \in SUBSET S
               /\ Cardinality(s \ {Picked(s)}) \in Nat
               /\ Cardinality(s) = Cardinality(s \ {Picked(s)}) + 1
    <3>1. Picked(s) \in s
      BY <2>2 DEF Picked
    <3>2. QED
      BY <3>1, <1>1, Smaller
  <2>3. ASSUME NEW s \in SUBSET S
        PROVE  SumStep(g, f, s) \in Nat
    <3>1. CASE s = {}
      BY <3>1 DEF SumStep
    <3>2. CASE s # {}
      <4>1. f[Picked(s)] \in Nat /\ g[s \ {Picked(s)}] \in Nat
        BY <2>2, <3>2
      <4>2. QED
        BY <4>1, <3>2 DEF SumStep
    <3>3. QED
      BY <3>1, <3>2
  <2> DEFINE h == [s \in SUBSET S |-> IF Cardinality(s) <= n THEN g[s] ELSE SumStep(g, f, s)]
  <2>4. h \in [SUBSET S -> Nat]
    BY <2>3
  <2>5. ASSUME NEW s \in SUBSET S, Cardinality(s) <= n + 1
        PROVE  h[s] = SumStep(h, f, s)
    <3>1. h[s] = SumStep(g, f, s)
      BY <2>1
    <3>2. CASE s = {}
      BY <3>1, <3>2 DEF SumStep
    <3>3. CASE s # {}
      <4>1. Cardinality(s \ {Picked(s)}) <= n /\ s \ {Picked(s)} \in SUBSET S
        BY <2>2, <3>3, <2>5, <1>1
      <4>2. h[s \ {Picked(s)}] = g[s \ {Picked(s)}]
        BY <4>1
      <4>3. QED
        BY <3>1, <3>3, <4>2 DEF SumStep
    <3>4. QED
      BY <3>2, <3>3
  <2>6. Upto(n + 1)
    BY <2>4, <2>5
  <2>7. QED
    BY <2>6
<1>4. T = Nat
  BY <1>2, <1>3, CountingUp
<1>5. Cardinality(S) \in T
  BY <1>1, <1>4
<1>6. PICK g \in [SUBSET S -> Nat] :
        \A s \in SUBSET S : Cardinality(s) <= Cardinality(S) => g[s] = SumStep(g, f, s)
  BY <1>5
<1>7. \A s \in SUBSET S : Cardinality(s) <= Cardinality(S)
  BY FS_Subset
<1>8. QED
  BY <1>6, <1>7 DEF SumsBelow

(* Solutions over different sets agree where both are defined.               *)
LEMMA SumsAgree ==
  ASSUME NEW f, NEW S, IsFiniteSet(S), NEW U \in SUBSET S,
         NEW g, SumsBelow(g, f, S), NEW h, SumsBelow(h, f, U)
  PROVE  g[U] = h[U]
<1> DEFINE T == {Cardinality(s) : s \in {s \in SUBSET U : g[s] # h[s]}}
<1>1. \A s \in SUBSET U : IsFiniteSet(s) /\ Cardinality(s) \in Nat /\ s \in SUBSET S
  BY FS_Subset, FS_CardinalityType
<1>2. SUFFICES ASSUME g[U] # h[U] PROVE FALSE
  OBVIOUS
<1>3. T \in SUBSET Nat /\ T # {}
  BY <1>1, <1>2
<1>4. PICK n \in T : \A m \in T : ~(m < n)
  BY <1>3, LeastNumber
<1>5. PICK s \in SUBSET U : g[s] # h[s] /\ Cardinality(s) = n
  BY <1>4
<1>6. g[s] = SumStep(g, f, s) /\ h[s] = SumStep(h, f, s)
  BY <1>1 DEF SumsBelow
<1>7. s # {}
  BY <1>5, <1>6 DEF SumStep
<1>8. Picked(s) \in s
  BY <1>7 DEF Picked
<1>9. g[s \ {Picked(s)}] # h[s \ {Picked(s)}]
  BY <1>5, <1>6, <1>7 DEF SumStep
<1>10. Cardinality(s \ {Picked(s)}) \in T
  BY <1>9
<1>11. Cardinality(s \ {Picked(s)}) < n
  BY <1>1, <1>5, <1>8, Smaller
<1>12. QED
  BY <1>4, <1>10, <1>11

LEMMA SumOfNone ==
  ASSUME NEW D, NEW f \in [D -> Nat]
  PROVE  SumFunctionOnSet(f, {}) = 0
<1>1. {} \in SUBSET D /\ IsFiniteSet({})
  BY FS_EmptySet
<1>2. PICK g : SumsBelow(g, f, {}) /\ SumFunctionOnSet(f, {}) = g[{}]
  BY <1>1, SumExists, SumIsChosen
<1>3. QED
  BY <1>2 DEF SumsBelow, SumStep

LEMMA SumOfPicked ==
  ASSUME NEW D, NEW f \in [D -> Nat], NEW S \in SUBSET D, IsFiniteSet(S), S # {}
  PROVE  /\ Picked(S) \in S
         /\ SumFunctionOnSet(f, S) = f[Picked(S)] + SumFunctionOnSet(f, S \ {Picked(S)})
<1>1. Picked(S) \in S
  BY DEF Picked
<1>2. PICK U : U = S \ {Picked(S)}
  OBVIOUS
<1>3. U \in SUBSET S /\ U \in SUBSET D /\ IsFiniteSet(U)
  BY <1>2, FS_Subset
<1>4. PICK g : SumsBelow(g, f, S) /\ SumFunctionOnSet(f, S) = g[S]
  BY SumExists, SumIsChosen
<1>5. PICK h : SumsBelow(h, f, U) /\ SumFunctionOnSet(f, U) = h[U]
  BY <1>3, SumExists, SumIsChosen
<1>6. g[U] = h[U]
  BY <1>3, <1>4, <1>5, SumsAgree
<1>7. g[S] = f[Picked(S)] + g[U]
  BY <1>2, <1>4 DEF SumsBelow, SumStep
<1>8. QED
  BY <1>1, <1>2, <1>4, <1>5, <1>6, <1>7

LEMMA SumIsNat ==
  ASSUME NEW D, NEW f \in [D -> Nat], NEW S \in SUBSET D, IsFiniteSet(S)
  PROVE  SumFunctionOnSet(f, S) \in Nat
<1>1. PICK g \in [SUBSET S -> Nat] : SumsBelow(g, f, S)
  BY SumExists
<1>2. PICK h : SumsBelow(h, f, S) /\ SumFunctionOnSet(f, S) = h[S]
  BY <1>1, SumIsChosen
<1>3. S \in SUBSET S
  OBVIOUS
<1>4. g[S] = h[S]
  BY <1>1, <1>2, <1>3, SumsAgree
<1>5. QED
  BY <1>1, <1>2, <1>3, <1>4

(* A sum does not depend on the order in which elements are picked.          *)
LEMMA SumTakesOut ==
  ASSUME NEW D, NEW f \in [D -> Nat], NEW S \in SUBSET D, IsFiniteSet(S), NEW x \in S
  PROVE  SumFunctionOnSet(f, S) = f[x] + SumFunctionOnSet(f, S \ {x})
<1> DEFINE Splits(s, y) == SumFunctionOnSet(f, s) = f[y] + SumFunctionOnSet(f, s \ {y})
           Bad == {s \in SUBSET S : \E y \in s : ~Splits(s, y)}
           T == {Cardinality(s) : s \in Bad}
<1> HIDE DEF Splits
<1>1. \A s \in SUBSET S : /\ IsFiniteSet(s) /\ s \in SUBSET D
                         /\ Cardinality(s) \in Nat
                         /\ SumFunctionOnSet(f, s) \in Nat
  BY FS_Subset, FS_CardinalityType, SumIsNat
<1>2. SUFFICES ASSUME ~Splits(S, x) PROVE FALSE
  BY DEF Splits
<1>3. T \in SUBSET Nat /\ T # {}
  BY <1>1, <1>2
<1>4. PICK n \in T : \A m \in T : ~(m < n)
  BY <1>3, LeastNumber
<1>5. PICK s \in SUBSET S : (\E y \in s : ~Splits(s, y)) /\ Cardinality(s) = n
  BY <1>4
<1>6. PICK y \in s : ~Splits(s, y)
  BY <1>5
<1>7. \A u \in SUBSET S : Cardinality(u) < n => \A z \in u : Splits(u, z)
  BY <1>4
<1> DEFINE c == Picked(s)
<1>8. c \in s /\ Splits(s, c)
  BY <1>1, <1>6, SumOfPicked DEF Splits
<1>9. c # y
  BY <1>6, <1>8
<1> HIDE DEF c
<1>10. Splits(s \ {c}, y)
  <2>1. Cardinality(s \ {c}) < n /\ s \ {c} \in SUBSET S
    BY <1>1, <1>5, <1>8, Smaller
  <2>2. QED
    BY <2>1, <1>6, <1>7, <1>9
<1>11. Splits(s \ {y}, c)
  <2>1. Cardinality(s \ {y}) < n /\ s \ {y} \in SUBSET S
    BY <1>1, <1>5, Smaller
  <2>2. QED
    BY <2>1, <1>7, <1>8, <1>9
<1>12. (s \ {c}) \ {y} = (s \ {y}) \ {c}
  OBVIOUS
<1>13. /\ f[c] \in Nat /\ f[y] \in Nat
       /\ SumFunctionOnSet(f, (s \ {c}) \ {y}) \in Nat
  BY <1>1, <1>8
<1>14. SumFunctionOnSet(f, s) = f[c] + (f[y] + SumFunctionOnSet(f, (s \ {c}) \ {y}))
  BY <1>8, <1>10 DEF Splits
<1>15. SumFunctionOnSet(f, s \ {y}) = f[c] + SumFunctionOnSet(f, (s \ {c}) \ {y})
  BY <1>11, <1>12 DEF Splits
<1>16. Splits(s, y)
  BY <1>13, <1>14, <1>15 DEF Splits
<1>17. QED
  BY <1>6, <1>16

(* What all this is for: a sum of naturals grows with its set.               *)
LEMMA SumGrows ==
  ASSUME NEW D, NEW f \in [D -> Nat], NEW S \in SUBSET D, IsFiniteSet(S), NEW U \in SUBSET S
  PROVE  SumFunctionOnSet(f, U) <= SumFunctionOnSet(f, S)
<1> DEFINE Bad == {s \in SUBSET S : U \subseteq s /\ SumFunctionOnSet(f, U) > SumFunctionOnSet(f, s)}
           T == {Cardinality(s) : s \in Bad}
<1>1. \A s \in SUBSET S : /\ IsFiniteSet(s) /\ s \in SUBSET D
                         /\ Cardinality(s) \in Nat
                         /\ SumFunctionOnSet(f, s) \in Nat
  BY FS_Subset, FS_CardinalityType, SumIsNat
<1>2. SUFFICES ASSUME S \in Bad PROVE FALSE
  BY <1>1
<1>3. T \in SUBSET Nat /\ T # {}
  BY <1>1, <1>2
<1>4. PICK n \in T : \A m \in T : ~(m < n)
  BY <1>3, LeastNumber
<1>5. PICK s \in Bad : Cardinality(s) = n
  BY <1>4
<1>6. U # s
  BY <1>1, <1>5
<1>7. PICK x \in s : x \notin U
  BY <1>5, <1>6
<1>8. s \ {x} \in SUBSET S /\ U \subseteq s \ {x}
  BY <1>5, <1>7
<1>9. Cardinality(s \ {x}) < n
  BY <1>1, <1>5, <1>7, <1>8, Smaller
<1>10. s \ {x} \notin Bad
  BY <1>4, <1>9
<1>11. SumFunctionOnSet(f, s) = f[x] + SumFunctionOnSet(f, s \ {x})
  BY <1>1, <1>5, <1>7, SumTakesOut
<1>12. f[x] \in Nat
  BY <1>5, <1>7
<1>13. QED
  BY <1>1, <1>5, <1>8, <1>10, <1>11, <1>12

-------------------------------------------------------------------------------

(* Authorities' totals grow with the rows: more rows, more leaves.             *)
LEMMA CumulativeGrows ==
  ASSUME NEW rows \in SUBSET Rows, IsFiniteSet(rows), NEW fewer \in SUBSET rows, NEW a
  PROVE  /\ Cumulative(fewer, a) \in Nat
         /\ Cumulative(rows, a) \in Nat
         /\ Cumulative(fewer, a) <= Cumulative(rows, a)
<1>1. PICK U, S : /\ U = {r \in fewer : Authority[r] = a}
                  /\ S = {r \in rows : Authority[r] = a}
  OBVIOUS
<1>2. U \in SUBSET S /\ U \in SUBSET Rows /\ S \in SUBSET Rows
  BY <1>1
<1>3. IsFiniteSet(S) /\ IsFiniteSet(U)
  BY <1>1, FS_Subset
<1>4. Amount \in [Rows -> Nat]
  BY ConstantsAssumption
<1>5. Cumulative(fewer, a) = SumFunctionOnSet(Amount, U)
  BY <1>1 DEF Cumulative
<1>6. Cumulative(rows, a) = SumFunctionOnSet(Amount, S)
  BY <1>1 DEF Cumulative
<1>7. QED
  BY <1>2, <1>3, <1>4, <1>5, <1>6, SumIsNat, SumGrows

(* If fewer rows have the same root, so has everything between.                *)
LEMMA RootsBetween ==
  ASSUME NEW rows \in SUBSET Rows, IsFiniteSet(rows),
         NEW between \in SUBSET rows, NEW fewer \in SUBSET between,
         Root(rows) = Root(fewer)
  PROVE  Root(between) = Root(rows) /\ Leaves(between) = Leaves(rows)
<1>1. /\ IsFiniteSet(between)
      /\ between \in SUBSET Rows
  BY FS_Subset
<1>2. ASSUME NEW a
      PROVE  /\ Cumulative(fewer, a) \in Nat
             /\ Cumulative(between, a) \in Nat
             /\ Cumulative(rows, a) \in Nat
             /\ Cumulative(fewer, a) <= Cumulative(between, a)
             /\ Cumulative(between, a) <= Cumulative(rows, a)
  <2>1. /\ Cumulative(between, a) \in Nat
        /\ Cumulative(rows, a) \in Nat
        /\ Cumulative(between, a) <= Cumulative(rows, a)
    BY CumulativeGrows
  <2>2. /\ Cumulative(fewer, a) \in Nat
        /\ Cumulative(fewer, a) <= Cumulative(between, a)
    BY <1>1, CumulativeGrows
  <2>3. QED
    BY <2>1, <2>2
<1>3. Leaves(fewer) = Leaves(rows)
  BY DEF Root
<1>4. \A a \in Leaves(rows) : Cumulative(fewer, a) = Cumulative(rows, a)
  BY <1>3 DEF Root
<1>5. Leaves(between) = Leaves(rows)
  <2>1. ASSUME NEW a \in Redeemable
        PROVE  a \in Leaves(between) <=> a \in Leaves(rows)
    <3>1. a \in Leaves(fewer) => a \in Leaves(between)
      BY <1>2 DEF Leaves
    <3>2. a \in Leaves(between) => a \in Leaves(rows)
      BY <1>2 DEF Leaves
    <3>3. QED
      BY <3>1, <3>2, <1>3
  <2>2. QED
    BY <2>1 DEF Leaves
<1>6. \A a \in Leaves(rows) : Cumulative(between, a) = Cumulative(rows, a)
  BY <1>2, <1>4
<1>7. QED
  BY <1>5, <1>6 DEF Root

(* A larger sum: more elements, or larger ones.                                *)
LEMMA SumDominates ==
  ASSUME NEW D, NEW f \in [D -> Nat], NEW E, NEW g \in [E -> Nat],
         NEW S \in SUBSET D, S \in SUBSET E, IsFiniteSet(S),
         \A x \in S : f[x] <= g[x]
  PROVE  SumFunctionOnSet(f, S) <= SumFunctionOnSet(g, S)
<1> DEFINE Bad == {s \in SUBSET S : SumFunctionOnSet(f, s) > SumFunctionOnSet(g, s)}
           T == {Cardinality(s) : s \in Bad}
<1>1. \A s \in SUBSET S : /\ IsFiniteSet(s) /\ s \in SUBSET D /\ s \in SUBSET E
                         /\ Cardinality(s) \in Nat
                         /\ SumFunctionOnSet(f, s) \in Nat
                         /\ SumFunctionOnSet(g, s) \in Nat
  BY FS_Subset, FS_CardinalityType, SumIsNat
<1>2. SUFFICES ASSUME S \in Bad PROVE FALSE
  BY <1>1
<1>3. T \in SUBSET Nat /\ T # {}
  BY <1>1, <1>2
<1>4. PICK n \in T : \A m \in T : ~(m < n)
  BY <1>3, LeastNumber
<1>5. PICK s \in Bad : Cardinality(s) = n
  BY <1>4
<1>6. s # {}
  <2>1. SumFunctionOnSet(f, {}) = 0 /\ SumFunctionOnSet(g, {}) = 0
    BY SumOfNone
  <2>2. QED
    BY <1>5, <2>1
<1>7. PICK x \in s : TRUE
  BY <1>6
<1>8. s \ {x} \in SUBSET S
  BY <1>5
<1>9. Cardinality(s \ {x}) < n
  BY <1>1, <1>5, <1>7, <1>8, Smaller
<1>10. s \ {x} \notin Bad
  BY <1>4, <1>9
<1>11. SumFunctionOnSet(f, s) = f[x] + SumFunctionOnSet(f, s \ {x})
  BY <1>1, <1>5, <1>7, SumTakesOut
<1>12. SumFunctionOnSet(g, s) = g[x] + SumFunctionOnSet(g, s \ {x})
  BY <1>1, <1>5, <1>7, SumTakesOut
<1>13. f[x] \in Nat /\ g[x] \in Nat /\ f[x] <= g[x]
  BY <1>5, <1>7
<1>14. QED
  BY <1>1, <1>5, <1>8, <1>10, <1>11, <1>12, <1>13

(* The total that is compared with the cap grows with the rows.                *)
LEMMA TotalGrows ==
  ASSUME NEW rows \in SUBSET Rows, IsFiniteSet(rows), NEW fewer \in SUBSET rows
  PROVE  /\ Total(fewer) \in Nat
         /\ Total(rows) \in Nat
         /\ Total(fewer) <= Total(rows)
<1>1. ASSUME NEW some \in SUBSET rows
      PROVE  /\ IsFiniteSet(some) /\ some \in SUBSET Rows
             /\ IsFiniteSet(Leaves(some))
             /\ Root(some) \in [Leaves(some) -> Nat]
             /\ Total(some) = SumFunctionOnSet(Root(some), Leaves(some))
  <2>1. IsFiniteSet(some) /\ some \in SUBSET Rows
    BY FS_Subset
  <2>2. \A a : Cumulative(some, a) \in Nat
    BY <2>1, CumulativeGrows
  <2>3. IsFiniteSet({Authority[r] : r \in some})
    <3>1. PICK T, f : T = {Authority[r] : r \in some} /\ f = [r \in some |-> Authority[r]]
      OBVIOUS
    <3>2. f \in Surjection(some, T)
      BY <3>1 DEF Surjection
    <3>3. QED
      BY <2>1, <3>1, <3>2, FS_Surjection
  <2>4. ASSUME NEW a \in Leaves(some) PROVE a \in {Authority[r] : r \in some}
    <3>1. SUFFICES ASSUME {r \in some : Authority[r] = a} = {} PROVE FALSE
      OBVIOUS
    <3>2. Cumulative(some, a) = 0
      BY <3>1, SumOfNone, ConstantsAssumption DEF Cumulative
    <3>3. QED
      BY <3>2 DEF Leaves
  <2>5. IsFiniteSet(Leaves(some))
    <3>1. Leaves(some) \in SUBSET {Authority[r] : r \in some}
      BY <2>4
    <3>2. QED
      BY <2>3, <3>1, FS_Subset
  <2>6. Root(some) \in [Leaves(some) -> Nat] /\ DOMAIN Root(some) = Leaves(some)
    BY <2>2 DEF Root
  <2>7. QED
    BY <2>1, <2>5, <2>6 DEF Total, SumFunction
<1>2. PICK U, S : U = Leaves(fewer) /\ S = Leaves(rows)
  OBVIOUS
<1>3. U \in SUBSET S /\ \A a \in U : Root(fewer)[a] <= Root(rows)[a]
  <2>1. \A a : /\ Cumulative(fewer, a) \in Nat
               /\ Cumulative(rows, a) \in Nat
               /\ Cumulative(fewer, a) <= Cumulative(rows, a)
    BY CumulativeGrows
  <2>2. U \in SUBSET S
    BY <1>2, <2>1 DEF Leaves
  <2>3. QED
    BY <1>2, <2>1, <2>2 DEF Root
<1>4. /\ Total(fewer) = SumFunctionOnSet(Root(fewer), U)
      /\ Total(rows) = SumFunctionOnSet(Root(rows), S)
      /\ Root(fewer) \in [U -> Nat]
      /\ Root(rows) \in [S -> Nat]
      /\ IsFiniteSet(U) /\ IsFiniteSet(S)
  BY <1>1, <1>2
<1>5. SumFunctionOnSet(Root(fewer), U) <= SumFunctionOnSet(Root(rows), U)
  BY <1>3, <1>4, SumDominates
<1>6. SumFunctionOnSet(Root(rows), U) <= SumFunctionOnSet(Root(rows), S)
  BY <1>3, <1>4, SumGrows
<1>7. /\ SumFunctionOnSet(Root(fewer), U) \in Nat
      /\ SumFunctionOnSet(Root(rows), U) \in Nat
      /\ SumFunctionOnSet(Root(rows), S) \in Nat
  BY <1>3, <1>4, SumIsNat
<1>8. QED
  BY <1>4, <1>5, <1>6, <1>7

-------------------------------------------------------------------------------

(* The endpoint only reads, so what was proved of the rail alone may be cited  *)
(* of the rail with clients beside it.                                         *)
LEMMA ClientsLeaveTheRailAlone == RailSpec => Spec
<1>1. ApiInit => Init
  BY DEF ApiInit
<1>2. [RailNext]_allVars => [Next]_vars
  BY DEF RailNext, ApiNext, ReadOnchainRoot, Unavailable, DatabaseError, Answer, allVars
<1>3. QED
  BY <1>1, <1>2, PTL DEF RailSpec, Spec

(* What carries the answers: finitely many rows, a history that only grew, and *)
(* requests that hold some of it.                                              *)
HistoryGrows == /\ IsFiniteSet(committed)
                /\ \A v \in landed : v.rows \subseteq chain.rows

RequestsHoldHistory == /\ DOMAIN asked = Requests
                       /\ DOMAIN onchain = Requests
                       /\ DOMAIN reply = Requests
                       /\ \A q \in Requests : onchain[q].rows \subseteq chain.rows

LEMMA LandingGrowsHistory ==
  ASSUME RailInvariant, HistoryGrows, NEW tx, Apply(tx),
         chain.rows \subseteq tx.rows, UNCHANGED committed
  PROVE  HistoryGrows' /\ chain.rows \subseteq chain'.rows
BY DEF HistoryGrows, Apply

LEMMA StepGrowsHistory ==
  ASSUME RailInvariant, HistoryGrows, [Next]_vars
  PROVE  HistoryGrows' /\ chain.rows \subseteq chain'.rows
<1>1. ASSUME NEW p \in Keepers, LandOwn(p)
      PROVE  HistoryGrows' /\ chain.rows \subseteq chain'.rows
  BY <1>1, OwnLandsFresh, LandingGrowsHistory DEF LandOwn, dbVars, Apply
<1>2. ASSUME NEW t \in strays, LandStray(t)
      PROVE  HistoryGrows' /\ chain.rows \subseteq chain'.rows
  BY <1>2, StrayLandsFresh, LandingGrowsHistory DEF LandStray, dbVars, Apply
<1>3. ASSUME NEW d \in SUBSET DenyEntries, OpsSetDenyList(d)
      PROVE  HistoryGrows' /\ chain.rows \subseteq chain'.rows
  BY <1>3 DEF OpsSetDenyList, Apply, dbVars, HistoryGrows
<1>4. ASSUME NEW r \in Rows, CommitInsert(r)
      PROVE  HistoryGrows' /\ chain.rows \subseteq chain'.rows
  <2>1. committed' = committed \cup {r} /\ UNCHANGED <<chain, landed>>
    BY <1>4 DEF CommitInsert, chainVars
  <2>2. IsFiniteSet(committed')
    BY <2>1, FS_AddElement DEF HistoryGrows
  <2>3. QED
    BY <2>1, <2>2 DEF HistoryGrows
<1>5. ASSUME UNCHANGED <<chainVars, committed>>
      PROVE  HistoryGrows' /\ chain.rows \subseteq chain'.rows
  BY <1>5 DEF HistoryGrows, chainVars
<1>6. ASSUME NEW p \in Keepers, Tick(p), ~LandOwn(p)
      PROVE  UNCHANGED <<chainVars, committed>>
  <2>1. ASSUME NEW v \in Views, ReadEpoch(p, v) \/ SubmitRoot(p, v)
        PROVE  UNCHANGED <<chainVars, committed>>
    BY <2>1 DEF ReadEpoch, SubmitRoot, dbVars
  <2>2. CASE CaptureCutoff(p) \/ BuildTree(p) \/ RefuseOverCap(p) \/ DryRunStop(p)
    BY <2>2 DEF CaptureCutoff, BuildTree, RefuseOverCap, DryRunStop, dbVars
  <2>3. CASE FailTick(p) \/ RejectOwn(p) \/ Timeout(p) \/ RecordPublish(p)
             \/ SkipRecord(p) \/ Restart(p)
    BY <2>3 DEF FailTick, RejectOwn, Timeout, RecordPublish, SkipRecord, Restart, dbVars
  <2>4. QED
    BY <1>6, <2>1, <2>2, <2>3 DEF Tick
<1>7. ASSUME NEW r \in Rows, BeginInsert(r)
      PROVE  UNCHANGED <<chainVars, committed>>
  BY <1>7 DEF BeginInsert
<1>8. ASSUME NEW t \in strays, DropStray(t)
      PROVE  UNCHANGED <<chainVars, committed>>
  BY <1>8 DEF DropStray, dbVars
<1>9. CASE UNCHANGED vars
  BY <1>5, <1>9 DEF vars, dbVars
<1>10. QED
  BY <1>1, <1>2, <1>3, <1>4, <1>5, <1>6, <1>7, <1>8, <1>9 DEF Next

(* A request reads a root the chain had, and the chain only adds to it.        *)
LEMMA StepKeepsRequests ==
  ASSUME RailInvariant, HistoryGrows, RequestsHoldHistory, [RailNext]_allVars
  PROVE  RequestsHoldHistory'
<1>1. CASE [Next]_vars /\ UNCHANGED apiVars
  BY <1>1, StepGrowsHistory DEF RequestsHoldHistory, apiVars
<1>2. ASSUME NEW q \in Requests, NEW a \in Redeemable, NEW v \in Views,
             ReadOnchainRoot(q, a, v)
      PROVE  RequestsHoldHistory'
  <2>1. v.rows \subseteq chain.rows
    BY DEF Views, Uninitialised, HistoryGrows
  <2>2. QED
    BY <1>2, <2>1 DEF ReadOnchainRoot, RequestsHoldHistory, vars, chainVars
<1>3. ASSUME NEW q \in Requests, Unavailable(q) \/ DatabaseError(q) \/ Answer(q)
      PROVE  RequestsHoldHistory'
  <2>1. PICK answer : Close(q, answer) /\ UNCHANGED vars
    BY <1>3 DEF Unavailable, DatabaseError, Answer
  <2>2. Uninitialised.rows = {}
    BY DEF Uninitialised
  <2>3. QED
    BY <2>1, <2>2 DEF Close, RequestsHoldHistory, vars, chainVars
<1>4. CASE UNCHANGED allVars
  BY <1>1, <1>4 DEF allVars
<1>5. QED
  BY <1>1, <1>2, <1>3, <1>4 DEF RailNext, ApiNext

(* An answer given is one the chain backs when the earnings are read.          *)
LEMMA AnswerIsBacked ==
  ASSUME RailInvariant, HistoryGrows, RequestsHoldHistory, NEW q \in Requests, Answer(q)
  PROVE  /\ reply'[q].status = 200 => reply'[q].root = Root(chain.rows)
         /\ reply'[q].status = 404 => asked[q] \notin Leaves(chain.rows)
<1>1. CASE RootMismatch(q)
  <2>1. reply'[q] = Failed(503)
    BY <1>1 DEF Answer, Close, RequestsHoldHistory
  <2>2. Failed(503).status = 503
    BY DEF Failed, NoReply
  <2>3. QED
    BY <2>1, <2>2
<1>2. CASE ~RootMismatch(q)
  <2>1. reply'[q] = [status |-> IF asked[q] \in Leaves(committed) THEN 200 ELSE 404,
                     about |-> asked[q], epoch |-> onchain[q].epoch,
                     root |-> Root(committed)]
    BY <1>2 DEF Answer, Close, RequestsHoldHistory
  <2>2. Root(committed) = Root(onchain[q].rows)
    BY <1>2 DEF RootMismatch
  <2>3. /\ committed \in SUBSET Rows
        /\ IsFiniteSet(committed)
        /\ chain.rows \in SUBSET committed
        /\ onchain[q].rows \in SUBSET chain.rows
    BY DEF RailInvariant, TypeOK, OnlyCommittedRows, HistoryGrows, RequestsHoldHistory
  <2>4. Root(chain.rows) = Root(committed) /\ Leaves(chain.rows) = Leaves(committed)
    BY <2>2, <2>3, RootsBetween
  <2>5. QED
    BY <2>1, <2>4
<1>3. QED
  BY <1>1, <1>2

(* A 200 serves the root the chain holds when the earnings are read, and a 404 *)
(* is true of it, however old the root is that the request compared with.      *)
THEOREM AnswersAreTrue == RailSpec => AnswersMatchChain
<1> DEFINE Backed == \A q \in Requests : Answer(q) =>
                       /\ reply'[q].status = 200 => reply'[q].root = Root(chain.rows)
                       /\ reply'[q].status = 404 => asked[q] \notin Leaves(chain.rows)
<1>1. ApiInit => HistoryGrows /\ RequestsHoldHistory
  BY FS_EmptySet DEF ApiInit, Init, Uninitialised, HistoryGrows, RequestsHoldHistory
<1>2. RailInvariant /\ HistoryGrows /\ RequestsHoldHistory /\ [RailNext]_allVars
        => HistoryGrows' /\ RequestsHoldHistory'
  <2>1. [RailNext]_allVars => [Next]_vars
    BY DEF RailNext, ApiNext, ReadOnchainRoot, Unavailable, DatabaseError, Answer, allVars
  <2>2. QED
    BY <2>1, StepGrowsHistory, StepKeepsRequests
<1>3. RailInvariant /\ HistoryGrows /\ RequestsHoldHistory => Backed
  BY AnswerIsBacked
<1>4. RailInvariant /\ HistoryGrows /\ RequestsHoldHistory /\ [RailNext]_allVars
        => [Backed]_allVars
  BY <1>3
<1>5. RailSpec => []RailInvariant
  BY ClientsLeaveTheRailAlone, RailIsSafe
<1>6. QED
  BY <1>1, <1>2, <1>4, <1>5, PTL DEF RailSpec, AnswersMatchChain

-------------------------------------------------------------------------------

(* In amounts: what an authority may claim under the root never shrinks.       *)
ClaimsNeverShrink ==
  [][\A a \in Authorities : Cumulative(chain.rows, a) <= Cumulative(chain'.rows, a)]_vars

LEMMA StepGrowsClaims ==
  ASSUME RailInvariant, HistoryGrows, RailInvariant', HistoryGrows', [Next]_vars,
         NEW a \in Authorities
  PROVE  /\ Cumulative(chain.rows, a) \in Nat
         /\ Cumulative(chain'.rows, a) \in Nat
         /\ Cumulative(chain.rows, a) <= Cumulative(chain'.rows, a)
<1>1. chain'.rows \in SUBSET committed' /\ committed' \in SUBSET Rows
  BY DEF RailInvariant, TypeOK, OnlyCommittedRows
<1>2. IsFiniteSet(chain'.rows) /\ chain'.rows \in SUBSET Rows
  BY <1>1, FS_Subset DEF HistoryGrows
<1>3. chain.rows \in SUBSET chain'.rows
  BY StepGrowsHistory
<1>4. QED
  BY <1>2, <1>3, CumulativeGrows

(* Claims are cumulative, so a claimant who missed an epoch has lost nothing.  *)
THEOREM ClaimsGrow == Spec => ClaimsNeverShrink
<1>1. Init => HistoryGrows
  BY FS_EmptySet DEF Init, HistoryGrows
<1>2. RailInvariant /\ HistoryGrows /\ [Next]_vars => HistoryGrows'
  BY StepGrowsHistory
<1>3. RailInvariant /\ RailInvariant' /\ HistoryGrows /\ HistoryGrows' /\ [Next]_vars
        => [\A a \in Authorities : Cumulative(chain.rows, a) <= Cumulative(chain'.rows, a)]_vars
  BY StepGrowsClaims
<1>4. QED
  BY <1>1, <1>2, <1>3, RailIsSafe, PTL DEF Spec, ClaimsNeverShrink

-------------------------------------------------------------------------------

(* What a client was served is never more than the chain pays from then on, to *)
(* any authority of the tree that was served: no publish that races the        *)
(* answer, loses its confirmation or lands late takes an amount back that a    *)
(* client was told.                                                            *)
ServedStaysClaimable ==
  \A q \in Requests : reply[q].status = 200 =>
    \A a \in DOMAIN reply[q].root :
      a \in Leaves(chain.rows) /\ reply[q].root[a] <= Cumulative(chain.rows, a)

ServedAreAmounts ==
  \A q \in Requests : reply[q].status = 200 =>
    \A a \in DOMAIN reply[q].root : reply[q].root[a] \in Nat

(* What is served is claimable in the state in which it is answered.           *)
LEMMA AnswerIsClaimable ==
  ASSUME RailInvariant, HistoryGrows, RequestsHoldHistory,
         ServedStaysClaimable, ServedAreAmounts, NEW q \in Requests, Answer(q)
  PROVE  ServedStaysClaimable' /\ ServedAreAmounts'
<1>1. chain' = chain
  BY DEF Answer, vars, chainVars
<1>2. \A k \in Requests \ {q} : reply'[k] = reply[k]
  BY DEF Answer, Close, RequestsHoldHistory
<1>3. reply'[q].status = 200 => reply'[q].root = Root(chain.rows)
  BY AnswerIsBacked
<1>4. ASSUME NEW a \in Leaves(chain.rows)
      PROVE  /\ Root(chain.rows)[a] \in Nat
             /\ Root(chain.rows)[a] <= Cumulative(chain.rows, a)
  <2>1. chain.rows \in SUBSET committed /\ committed \in SUBSET Rows
    BY DEF RailInvariant, TypeOK, OnlyCommittedRows
  <2>2. IsFiniteSet(chain.rows) /\ chain.rows \in SUBSET Rows
    BY <2>1, FS_Subset DEF HistoryGrows
  <2>3. a \in Authorities
    BY ConstantsAssumption DEF Leaves
  <2>4. Cumulative(chain.rows, a) \in Nat
    BY <2>2, <2>3, CumulativeGrows
  <2>5. QED
    BY <2>4 DEF Root
<1>5. DOMAIN Root(chain.rows) = Leaves(chain.rows)
  BY DEF Root
<1>6. QED
  BY <1>1, <1>2, <1>3, <1>4, <1>5 DEF ServedStaysClaimable, ServedAreAmounts

(* The rail moves on: claims only grow under the answers given.                *)
LEMMA RailStepKeepsServed ==
  ASSUME RailInvariant, HistoryGrows, RailInvariant', HistoryGrows', [Next]_vars,
         UNCHANGED apiVars, ServedStaysClaimable, ServedAreAmounts
  PROVE  ServedStaysClaimable'
<1> SUFFICES ASSUME NEW q \in Requests, reply[q].status = 200,
                    NEW a \in DOMAIN reply[q].root
             PROVE  a \in Leaves(chain'.rows) /\ reply[q].root[a] <= Cumulative(chain'.rows, a)
  BY DEF ServedStaysClaimable, apiVars
<1>1. /\ a \in Leaves(chain.rows) /\ reply[q].root[a] \in Nat
      /\ reply[q].root[a] <= Cumulative(chain.rows, a)
  BY DEF ServedStaysClaimable, ServedAreAmounts
<1>2. a \in Redeemable /\ a \in Authorities /\ Cumulative(chain.rows, a) > 0
  BY <1>1, ConstantsAssumption DEF Leaves
<1>3. /\ Cumulative(chain.rows, a) \in Nat /\ Cumulative(chain'.rows, a) \in Nat
      /\ Cumulative(chain.rows, a) <= Cumulative(chain'.rows, a)
  BY <1>2, StepGrowsClaims
<1>4. QED
  BY <1>1, <1>2, <1>3 DEF Leaves

LEMMA RequestStepKeepsServed ==
  ASSUME RailInvariant, HistoryGrows, RequestsHoldHistory,
         ServedStaysClaimable, ServedAreAmounts, ApiNext
  PROVE  ServedStaysClaimable' /\ ServedAreAmounts'
<1>1. Failed(503).status = 503 /\ Failed(500).status = 500 /\ NoReply.status = 0
  BY DEF Failed, NoReply
<1>2. ASSUME NEW q \in Requests, Answer(q)
      PROVE  ServedStaysClaimable' /\ ServedAreAmounts'
  BY <1>2, AnswerIsClaimable
<1>3. ASSUME NEW q \in Requests, chain' = chain, reply'[q].status # 200,
             \A k \in Requests \ {q} : reply'[k] = reply[k]
      PROVE  ServedStaysClaimable' /\ ServedAreAmounts'
  BY <1>3 DEF ServedStaysClaimable, ServedAreAmounts
<1>4. ASSUME NEW q \in Requests, NEW a \in Redeemable, NEW v \in Views,
             ReadOnchainRoot(q, a, v)
      PROVE  ServedStaysClaimable' /\ ServedAreAmounts'
  BY <1>1, <1>3, <1>4 DEF ReadOnchainRoot, RequestsHoldHistory, vars, chainVars
<1>5. ASSUME NEW q \in Requests, Unavailable(q) \/ DatabaseError(q)
      PROVE  ServedStaysClaimable' /\ ServedAreAmounts'
  BY <1>1, <1>3, <1>5
  DEF Unavailable, DatabaseError, Close, RequestsHoldHistory, vars, chainVars
<1>6. QED
  BY <1>2, <1>4, <1>5 DEF ApiNext

(* A client may rely for good on what it was served.                           *)
THEOREM ServedIsKept == RailSpec => []ServedStaysClaimable
<1> DEFINE Inv == HistoryGrows /\ RequestsHoldHistory /\ ServedStaysClaimable /\ ServedAreAmounts
<1>1. ApiInit => Inv
  BY FS_EmptySet
  DEF ApiInit, Init, Uninitialised, NoReply, HistoryGrows, RequestsHoldHistory,
      ServedStaysClaimable, ServedAreAmounts
<1>2. RailInvariant /\ RailInvariant' /\ Inv /\ [RailNext]_allVars => Inv'
  <2> SUFFICES ASSUME RailInvariant, RailInvariant', Inv, [RailNext]_allVars PROVE Inv'
    OBVIOUS
  <2>1. [Next]_vars
    BY DEF RailNext, ApiNext, ReadOnchainRoot, Unavailable, DatabaseError, Answer, allVars
  <2>2. HistoryGrows' /\ RequestsHoldHistory'
    BY <2>1, StepGrowsHistory, StepKeepsRequests
  <2>3. CASE UNCHANGED apiVars
    <3>1. ServedAreAmounts'
      BY <2>3 DEF ServedAreAmounts, apiVars
    <3>2. QED
      BY <2>1, <2>2, <2>3, <3>1, RailStepKeepsServed
  <2>4. CASE ApiNext
    BY <2>2, <2>4, RequestStepKeepsServed
  <2>5. QED
    BY <2>3, <2>4 DEF RailNext, allVars
<1>3. RailSpec => []RailInvariant
  BY ClientsLeaveTheRailAlone, RailIsSafe
<1>4. QED
  BY <1>1, <1>2, <1>3, PTL DEF RailSpec

-------------------------------------------------------------------------------

(* A total that is over the cap stays over it.                                 *)
LEMMA OverCapStaysOver ==
  ASSUME RailInvariant, HistoryGrows, RailInvariant', HistoryGrows', [Next]_vars,
         ~UnderCap(Summed)
  PROVE  ~UnderCap(Summed)'
<1>1. committed \in SUBSET committed'
  <2>1. ASSUME NEW p \in Keepers, Tick(p) PROVE committed' = committed
    BY <2>1
    DEF Tick, ReadEpoch, SubmitRoot, CaptureCutoff, BuildTree, RefuseOverCap, DryRunStop,
        FailTick, LandOwn, RejectOwn, Timeout, RecordPublish, SkipRecord, Restart, dbVars
  <2>2. ASSUME NEW r \in Rows, BeginInsert(r) \/ CommitInsert(r)
        PROVE  committed \in SUBSET committed'
    BY <2>2 DEF BeginInsert, CommitInsert
  <2>3. ASSUME NEW t \in strays, LandStray(t) \/ DropStray(t) PROVE committed' = committed
    BY <2>3 DEF LandStray, DropStray, dbVars
  <2>4. ASSUME NEW d \in SUBSET DenyEntries, OpsSetDenyList(d) PROVE committed' = committed
    BY <2>4 DEF OpsSetDenyList, dbVars
  <2>5. QED
    BY <2>1, <2>2, <2>3, <2>4 DEF Next, vars, dbVars
<1>2. committed' \in SUBSET Rows /\ IsFiniteSet(committed')
  BY DEF RailInvariant, TypeOK, HistoryGrows
<1>3. /\ Total(committed) \in Nat
      /\ Total(committed') \in Nat
      /\ Total(committed) <= Total(committed')
  BY <1>1, <1>2, TotalGrows
<1>4. Cap \in Nat
  BY ConstantsAssumption
<1>5. QED
  BY <1>3, <1>4 DEF UnderCap, Summed

(* Past the cap and with nothing in flight, no step moves the claimable rows.  *)
LEMMA StoppedStaysStopped ==
  ASSUME RailInvariant, HistoryGrows, RailInvariant', HistoryGrows', [Next]_vars, Stopped
  PROVE  Stopped' /\ chain'.rows = chain.rows
<1>1. ~UnderCap(Summed)'
  BY OverCapStaysOver DEF Stopped
<1>2. SUFFICES /\ strays' = {}
               /\ \A k \in Keepers : pc'[k] \notin {"built", "sent"}
               /\ chain'.rows = chain.rows
  BY <1>1 DEF Stopped
<1>3. /\ strays = {}
      /\ pc \in [Keepers -> Phases]
      /\ \A k \in Keepers : pc[k] \notin {"built", "sent"}
      /\ ~UnderCap(Summed)
  BY DEF Stopped, RailInvariant, TypeOK
<1>4. ASSUME NEW p \in Keepers, Tick(p)
      PROVE  /\ strays' = {} /\ chain' = chain
             /\ \A k \in Keepers : pc'[k] \notin {"built", "sent"}
  <2>1. /\ ~BuildTree(p) /\ ~DryRunStop(p) /\ ~LandOwn(p) /\ ~RejectOwn(p) /\ ~Timeout(p)
        /\ \A v \in Views : ~SubmitRoot(p, v)
    BY <1>3 DEF BuildTree, DryRunStop, LandOwn, RejectOwn, Timeout, SubmitRoot
  <2>2. ASSUME NEW v \in Views, ReadEpoch(p, v)
        PROVE  pc' = [pc EXCEPT ![p] = "ticked"] /\ UNCHANGED <<strays, chain>>
    BY <2>2 DEF ReadEpoch, chainVars
  <2>3. CASE CaptureCutoff(p)
    BY <1>3, <2>3 DEF CaptureCutoff, chainVars
  <2>4. CASE RefuseOverCap(p) \/ FailTick(p) \/ RecordPublish(p) \/ SkipRecord(p)
    BY <1>3, <2>4 DEF RefuseOverCap, FailTick, RecordPublish, SkipRecord, Forget, chainVars
  <2>5. CASE Restart(p)
    BY <1>3, <2>5 DEF Restart, Forget, chainVars
  <2>6. QED
    BY <1>3, <1>4, <2>1, <2>2, <2>3, <2>4, <2>5 DEF Tick
<1>5. ASSUME NEW r \in Rows, BeginInsert(r) \/ CommitInsert(r)
      PROVE  UNCHANGED <<strays, pc, chain>>
  BY <1>5 DEF BeginInsert, CommitInsert, chainVars
<1>6. ASSUME NEW d \in SUBSET DenyEntries, OpsSetDenyList(d)
      PROVE  chain'.rows = chain.rows /\ UNCHANGED <<strays, pc>>
  BY <1>6 DEF OpsSetDenyList, Apply
<1>7. CASE UNCHANGED vars
  BY <1>3, <1>7 DEF vars, chainVars
<1>8. QED
  BY <1>3, <1>4, <1>5, <1>6, <1>7 DEF Next

(* A cap on the lifetime total, once passed, ends the rail for good.           *)
THEOREM RailStops == Spec => StopsForGood
<1>1. Init => HistoryGrows
  BY FS_EmptySet DEF Init, HistoryGrows
<1>2. RailInvariant /\ HistoryGrows /\ [Next]_vars => HistoryGrows'
  BY StepGrowsHistory
<1>3. RailInvariant /\ RailInvariant' /\ HistoryGrows /\ HistoryGrows' /\ [Next]_vars
        => [Stopped => Stopped' /\ chain'.rows = chain.rows]_vars
  BY StoppedStaysStopped
<1>4. QED
  BY <1>1, <1>2, <1>3, RailIsSafe, PTL DEF Spec, StopsForGood
===============================================================================
