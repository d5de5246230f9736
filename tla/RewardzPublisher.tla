--------------------------- MODULE RewardzPublisher ---------------------------
(* The Rewardz rail: every keeper process runs start_rewardz_publisher_cron,   *)
(* each tick of which reads the on-chain epoch, takes a database cutoff, sums  *)
(* the earnings, submits set_rewardz_root and records what it published        *)
(* (src/src/rewardz_publisher.rs, src/src/db.rs).                              *)
(*                                                                             *)
(* Abstractions.  A timestamp is the set of rows whose INSERT began before it. *)
(* A Merkle root is the function from leaf authority to cumulative amount (no  *)
(* collisions).  A read of the chain returns some account value at most MaxLag *)
(* epochs old; with MonotoneReads a keeper never reads, within one tick, an    *)
(* older value than it already read.                                           *)
EXTENDS Integers, FiniteSetsExt

CONSTANTS Keepers,        \* processes running the publisher cron
          Rows,           \* rewardz_earnings rows that may be inserted
          Authorities,    \* protocol_authority strings
          Authority,      \* [Rows -> Authorities]
          Amount,         \* [Rows -> Nat], BIGINT amounts
          Redeemable,     \* the authorities that parse as a pubkey
          Cap,            \* max_rewardz_per_epoch of the league config
          DryRunModes,    \* values REWARDZ_PUBLISHER_DRY_RUN may have
          DenyEntries,    \* authorities the operators may freeze
          MaxLag,         \* staleness of an RPC read, in epochs
          MonotoneReads,  \* no read in a tick goes behind an earlier one
          MaxEpoch,       \* bound: last epoch published
          CommitBound,    \* bound: rows are committed up to this epoch
          MaxStrays       \* bound: abandoned transactions pending at once

ASSUME ConstantsAssumption ==
  /\ Authority \in [Rows -> Authorities]
  /\ Amount \in [Rows -> Nat]
  /\ Redeemable \subseteq Authorities
  /\ Cap \in Nat
  /\ DryRunModes \subseteq BOOLEAN
  /\ MaxLag \in Nat
  /\ MonotoneReads \in BOOLEAN
  /\ MaxEpoch \in Nat
  /\ CommitBound \in Nat
  /\ MaxStrays \in Nat

VARIABLES begun,        \* rows whose INSERT has begun (created_at is assigned)
          committed,    \* rows other transactions can see
          stamp,        \* included_in_root_epoch of each row, 0 = NULL
          rootEpochs,   \* table rewardz_root_epochs
          chain,        \* the RewardzRoot account
          landed,       \* every value the account has had since initialised
          strays,       \* transactions sent that no keeper waits for any more
          pc,           \* where each keeper is in its tick
          lastKnown,    \* last_known_epoch
          dry,          \* is_dry_run()
          epoch,        \* next_epoch of the tick
          cutoff,       \* the rows created_at <= cutoff selects
          tree,         \* the rows summed into the tree
          deny,         \* deny list echoed in the transaction
          due           \* history: rows committed before the last chain advance

dbVars == <<begun, committed, stamp, rootEpochs>>
chainVars == <<chain, landed, due>>
tickVars == <<epoch, cutoff, tree, deny>>
vars == <<dbVars, chainVars, strays, pc, lastKnown, dry, tickVars>>

Phases == {"idle", "ticked", "cutoff", "built", "sent", "landed"}

-------------------------------------------------------------------------------
(* Trees *)

Cumulative(rows, a) == SumFunctionOnSet(Amount, {r \in rows : Authority[r] = a})

(* The leaves: malformed authorities and non-positive sums are dropped.        *)
Leaves(rows) == {a \in Redeemable : Cumulative(rows, a) > 0}

Root(rows) == [a \in Leaves(rows) |-> Cumulative(rows, a)]

Total(rows) == SumFunction(Root(rows))

-------------------------------------------------------------------------------
(* The chain, external: set_rewardz_root overwrites the account with any       *)
(* strictly newer epoch.                                                       *)

Uninitialised == [epoch |-> 0, rows |-> {}, deny |-> {}]

Accounts == [epoch : 0..MaxEpoch, rows : SUBSET Rows, deny : SUBSET DenyEntries]

AcceptsSameEpoch(tx) == tx.epoch >= chain.epoch

Accepts(tx) == tx.epoch > chain.epoch

Apply(tx) == /\ chain' = tx
             /\ landed' = landed \cup {tx}
             /\ due' = committed

(* What an RPC node may return for the account.                                *)
Views == {v \in landed \cup {Uninitialised} : v.epoch + MaxLag >= chain.epoch}

-------------------------------------------------------------------------------
(* What a tick computes.  Each definition that ends in a plausible bug's name  *)
(* is a mutant of the one after it; no action uses it.                         *)

NextEpochNotAdvanced(v) == v.epoch

NextEpoch(v) == v.epoch + 1

SummedUnstampedOnly == {r \in committed : stamp[r] = 0}

(* The SUM has no included_in_root_epoch filter: leaves are cumulative.        *)
Summed == committed

UnderCapOfNewRows(rows) == Total({r \in rows : stamp[r] = 0}) <= Cap

UnderCap(rows) == Total(rows) <= Cap

EchoNothing(v) == {}

EchoedDenyList(v) == v.deny

TxOf(p) == [epoch |-> epoch[p], rows |-> tree[p], deny |-> deny[p]]

EpochRowOfEpochRead(p) == [epoch |-> epoch[p] - 1, root |-> Root(tree[p])]

EpochRow(p) == [epoch |-> epoch[p], root |-> Root(tree[p])]

BackfilledAnyAuthority(p) == {r \in committed \cap cutoff[p] : stamp[r] = 0}

(* The rows the backfill UPDATE selects.                                       *)
Backfilled(p) ==
  {r \in committed \cap cutoff[p] :
     stamp[r] = 0 /\ Authority[r] \in Leaves(tree[p])}

-------------------------------------------------------------------------------
Init ==
  /\ begun = {}
  /\ committed = {}
  /\ stamp = [r \in Rows |-> 0]
  /\ rootEpochs = {}
  /\ chain = Uninitialised
  /\ landed = {}
  /\ strays = {}
  /\ pc = [p \in Keepers |-> "idle"]
  /\ lastKnown = [p \in Keepers |-> 0]
  /\ dry \in [Keepers -> DryRunModes]
  /\ epoch = [p \in Keepers |-> 0]
  /\ cutoff = [p \in Keepers |-> {}]
  /\ tree = [p \in Keepers |-> {}]
  /\ deny = [p \in Keepers |-> {}]
  /\ due = {}

(* A cron or the admin backend inserts an earning: created_at is fixed when    *)
(* the transaction begins, the row is visible when it commits.                 *)
BeginInsert(r) ==
  /\ r \notin begun
  /\ chain.epoch <= CommitBound
  /\ begun' = begun \cup {r}
  /\ UNCHANGED <<committed, stamp, rootEpochs, chainVars, strays, pc, lastKnown,
                 dry, tickVars>>

CommitInsert(r) ==
  /\ r \in begun \ committed
  /\ chain.epoch <= CommitBound
  /\ committed' = committed \cup {r}
  /\ UNCHANGED <<begun, stamp, rootEpochs, chainVars, strays, pc, lastKnown, dry,
                 tickVars>>

(* The tick ends: what it held in locals is gone.                              *)
Forget(p) == /\ pc' = [pc EXCEPT ![p] = "idle"]
             /\ epoch' = [epoch EXCEPT ![p] = 0]
             /\ cutoff' = [cutoff EXCEPT ![p] = {}]
             /\ tree' = [tree EXCEPT ![p] = {}]
             /\ deny' = [deny EXCEPT ![p] = {}]

(* load_current_epoch returned v.  A missing account after an epoch was seen   *)
(* skips the tick; otherwise the tick will publish the next epoch.             *)
ReadEpoch(p, v) ==
  /\ pc[p] = "idle"
  /\ v \in Views
  /\ v.epoch < MaxEpoch
  /\ v.epoch = 0 => lastKnown[p] = 0
  /\ lastKnown' = [lastKnown EXCEPT ![p] = v.epoch]
  /\ epoch' = [epoch EXCEPT ![p] = NextEpoch(v)]
  /\ pc' = [pc EXCEPT ![p] = "ticked"]
  /\ UNCHANGED <<dbVars, chainVars, strays, dry, cutoff, tree, deny>>

(* SELECT NOW(), in a statement of its own.                                    *)
CaptureCutoff(p) ==
  /\ pc[p] = "ticked"
  /\ cutoff' = [cutoff EXCEPT ![p] = begun]
  /\ pc' = [pc EXCEPT ![p] = "cutoff"]
  /\ UNCHANGED <<dbVars, chainVars, strays, lastKnown, dry, epoch, tree, deny>>

(* The grouped SUM is under the cap: the tree is built over what it saw.       *)
BuildTree(p) ==
  /\ pc[p] = "cutoff"
  /\ UnderCap(Summed)
  /\ tree' = [tree EXCEPT ![p] = Summed]
  /\ pc' = [pc EXCEPT ![p] = "built"]
  /\ UNCHANGED <<dbVars, chainVars, strays, lastKnown, dry, epoch, cutoff, deny>>

RefuseOverCap(p) ==
  /\ pc[p] = "cutoff"
  /\ ~UnderCap(Summed)
  /\ Forget(p)
  /\ UNCHANGED <<dbVars, chainVars, strays, lastKnown, dry>>

DryRunStop(p) ==
  /\ pc[p] = "built"
  /\ dry[p]
  /\ Forget(p)
  /\ UNCHANGED <<dbVars, chainVars, strays, lastKnown, dry>>

(* Read the deny list from view v, take a blockhash, sign and send.            *)
SubmitRoot(p, v) ==
  /\ pc[p] = "built"
  /\ ~dry[p]
  /\ v \in Views
  /\ MonotoneReads => v.epoch + 1 >= epoch[p]
  /\ deny' = [deny EXCEPT ![p] = EchoedDenyList(v)]
  /\ pc' = [pc EXCEPT ![p] = "sent"]
  /\ UNCHANGED <<dbVars, chainVars, strays, lastKnown, dry, epoch, cutoff, tree>>

(* An error before anything was sent: database, RPC read or blockhash.         *)
FailTick(p) ==
  /\ pc[p] \in {"ticked", "cutoff", "built"}
  /\ Forget(p)
  /\ UNCHANGED <<dbVars, chainVars, strays, lastKnown, dry>>

LandOwn(p) ==
  /\ pc[p] = "sent"
  /\ Accepts(TxOf(p))
  /\ Apply(TxOf(p))
  /\ pc' = [pc EXCEPT ![p] = "landed"]
  /\ UNCHANGED <<dbVars, strays, lastKnown, dry, tickVars>>

(* The program rejects the transaction, in simulation or in a block.           *)
RejectOwn(p) ==
  /\ pc[p] = "sent"
  /\ ~Accepts(TxOf(p))
  /\ Forget(p)
  /\ UNCHANGED <<dbVars, chainVars, strays, lastKnown, dry>>

(* Whoever waited for p's transaction is gone; the transaction may still land. *)
Abandon(p) == /\ Cardinality(strays) < MaxStrays
              /\ strays' = strays \cup {TxOf(p)}

(* send_and_confirm_transaction gives up.                                      *)
Timeout(p) ==
  /\ pc[p] = "sent"
  /\ Abandon(p)
  /\ Forget(p)
  /\ UNCHANGED <<dbVars, chainVars, lastKnown, dry>>

(* record_rewardz_root_publish, one database transaction: the epoch row, and   *)
(* the backfill of the unstamped visible rows of the tree's authorities.       *)
RecordPublish(p) ==
  /\ pc[p] = "landed"
  /\ rootEpochs' = IF \E rec \in rootEpochs : rec.epoch = epoch[p]
                   THEN rootEpochs ELSE rootEpochs \cup {EpochRow(p)}
  /\ stamp' = [r \in Rows |-> IF r \in Backfilled(p) THEN epoch[p] ELSE stamp[r]]
  /\ Forget(p)
  /\ UNCHANGED <<begun, committed, chainVars, strays, lastKnown, dry>>

(* The confirmation is lost, or the database write fails and is only logged.   *)
SkipRecord(p) ==
  /\ pc[p] = "landed"
  /\ Forget(p)
  /\ UNCHANGED <<dbVars, chainVars, strays, lastKnown, dry>>

LandStray(t) ==
  /\ t \in strays
  /\ Accepts(t)
  /\ Apply(t)
  /\ strays' = strays \ {t}
  /\ UNCHANGED <<dbVars, pc, lastKnown, dry, tickVars>>

(* The blockhash expires, or the program rejects it.                           *)
DropStray(t) ==
  /\ t \in strays
  /\ strays' = strays \ {t}
  /\ UNCHANGED <<dbVars, chainVars, pc, lastKnown, dry, tickVars>>

(* The process dies anywhere and comes back with empty memory.                 *)
Restart(p) ==
  /\ IF pc[p] = "sent" THEN Abandon(p) ELSE UNCHANGED strays
  /\ Forget(p)
  /\ lastKnown' = [lastKnown EXCEPT ![p] = 0]
  /\ \E mode \in DryRunModes : dry' = [dry EXCEPT ![p] = mode]
  /\ UNCHANGED <<dbVars, chainVars>>

(* The operators' separate flow edits the deny list: set_rewardz_root with     *)
(* the root already on chain.                                                  *)
OpsSetDenyList(d) ==
  /\ chain.epoch \in 1..(MaxEpoch - 1)
  /\ d # chain.deny
  /\ Apply([epoch |-> chain.epoch + 1, rows |-> chain.rows, deny |-> d])
  /\ UNCHANGED <<dbVars, strays, pc, lastKnown, dry, tickVars>>

-------------------------------------------------------------------------------
(* One step of keeper p's cron, its failures included.                         *)
Tick(p) == \/ \E v \in Views : ReadEpoch(p, v) \/ SubmitRoot(p, v)
           \/ CaptureCutoff(p)
           \/ BuildTree(p)
           \/ RefuseOverCap(p)
           \/ DryRunStop(p)
           \/ FailTick(p)
           \/ LandOwn(p)
           \/ RejectOwn(p)
           \/ Timeout(p)
           \/ RecordPublish(p)
           \/ SkipRecord(p)
           \/ Restart(p)

Next == \/ \E p \in Keepers : Tick(p)
        \/ \E r \in Rows : BeginInsert(r) \/ CommitInsert(r)
        \/ \E t \in strays : LandStray(t) \/ DropStray(t)
        \/ \E d \in SUBSET DenyEntries : OpsSetDenyList(d)

Spec == Init /\ [][Next]_vars

(* A tick that has read the present epoch.                                     *)
Current(p) == epoch[p] = chain.epoch + 1

(* Ticks keep coming and keep ending, and a step that stays possible in ticks  *)
(* that read the present epoch is not refused in all of them by the database,  *)
(* the RPC node, the cluster or the supervisor.                                *)
KeeperFairness(p) ==
  /\ WF_vars(Tick(p))
  /\ SF_vars(ReadEpoch(p, chain))
  /\ SF_vars(Current(p) /\ CaptureCutoff(p))
  /\ SF_vars(Current(p) /\ BuildTree(p))
  /\ SF_vars(Current(p) /\ SubmitRoot(p, chain))
  /\ SF_vars(LandOwn(p))

-------------------------------------------------------------------------------
(* Properties *)

TypeOK ==
  /\ begun \subseteq Rows
  /\ committed \subseteq begun
  /\ stamp \in [Rows -> 0..MaxEpoch]
  /\ \A rec \in rootEpochs : rec.epoch \in 1..MaxEpoch
  /\ chain \in Accounts
  /\ landed \subseteq Accounts
  /\ strays \subseteq Accounts
  /\ pc \in [Keepers -> Phases]
  /\ lastKnown \in [Keepers -> 0..MaxEpoch]
  /\ dry \in [Keepers -> DryRunModes]
  /\ epoch \in [Keepers -> 0..MaxEpoch]
  /\ cutoff \in [Keepers -> SUBSET Rows]
  /\ tree \in [Keepers -> SUBSET Rows]
  /\ deny \in [Keepers -> SUBSET DenyEntries]
  /\ due \subseteq Rows

(* Keepers between the epoch read and the outcome of the transaction.          *)
Publishing(p) == pc[p] \in {"ticked", "cutoff", "built", "sent"}

(* Account values: one per epoch, none ahead of the account's.                 *)
LandedInOrder ==
  /\ \A v \in landed : v.epoch \in 1..chain.epoch
  /\ \A v, w \in landed : v.epoch = w.epoch => v = w
  /\ IF chain.epoch = 0 THEN chain = Uninitialised ELSE chain \in landed
  /\ \A p \in Keepers : pc[p] = "landed" => TxOf(p) \in landed

(* Nobody publishes rows that were rolled back or never committed.             *)
OnlyCommittedRows ==
  /\ chain.rows \cup due \subseteq committed
  /\ \A p \in Keepers : tree[p] \subseteq committed
  /\ \A t \in strays : t.rows \subseteq committed

(* No transaction skips an epoch.                                              *)
NoEpochAhead ==
  /\ \A p \in Keepers : Publishing(p) => epoch[p] \in 1..(chain.epoch + 1)
  /\ \A t \in strays : t.epoch \in 1..(chain.epoch + 1)

(* A transaction that could be the next to land holds all rows under the root, *)
(* all rows committed before the chain last moved, and the freezes in force.   *)
NextToLandIsFresh ==
  /\ \A p \in Keepers : epoch[p] = chain.epoch + 1 =>
       /\ pc[p] \in {"built", "sent"} => chain.rows \cup due \subseteq tree[p]
       /\ MonotoneReads /\ pc[p] = "sent" => deny[p] = chain.deny
  /\ \A t \in strays : t.epoch = chain.epoch + 1 =>
       /\ chain.rows \cup due \subseteq t.rows
       /\ MonotoneReads => t.deny = chain.deny

(* rewardz_root_epochs is a faithful record: at most one root per epoch, and   *)
(* it is the root the chain took at that epoch, whatever keepers raced.        *)
RecordsMatchChain ==
  \A rec \in rootEpochs :
    /\ \E v \in landed : v.epoch = rec.epoch /\ Root(v.rows) = rec.root
    /\ \A other \in rootEpochs : other.epoch = rec.epoch => other = rec

(* A stamped row names a recorded epoch whose on-chain root has a leaf for the *)
(* row's authority.                                                            *)
StampNamesPublishedLeaf ==
  \A r \in Rows : stamp[r] > 0 =>
    \E rec \in rootEpochs : /\ rec.epoch = stamp[r]
                            /\ Authority[r] \in DOMAIN rec.root

(* The inductive invariant: whatever is still in flight, at any delay, can     *)
(* land without taking an earning or a freeze back.                            *)
RailInvariant ==
  /\ TypeOK
  /\ LandedInOrder
  /\ OnlyCommittedRows
  /\ NoEpochAhead
  /\ NextToLandIsFresh
  /\ RecordsMatchChain
  /\ StampNamesPublishedLeaf

(* A step that does not come from the operators' flow leaves the on-chain      *)
(* freezes as they are, however the two flows interleave.                      *)
PublishKeepsDenyList ==
  [][(\E p \in Keepers : LandOwn(p)) \/ (\E t \in strays : LandStray(t))
       => chain'.deny = chain.deny]_vars

(* "We refuse to publish a root that exceeds the cap": not the on-chain root,  *)
(* nor what any keeper or late transaction could still put there, adds up to   *)
(* more, however rows and stamps change between the check and the landing.     *)
CapIsKept ==
  /\ chain.epoch > 0 => Total(chain.rows) <= Cap
  /\ \A t \in strays : Total(t.rows) <= Cap
  /\ \A p \in Keepers : pc[p] \in {"built", "sent"} => Total(tree[p]) <= Cap

(* "A root that exceeds the cap" is over it for good: the total is a lifetime   *)
(* one.  Once it is past and nothing is on its way, the claimable rows stay    *)
(* what they are, whatever is earned, recorded, retried or restarted later;    *)
(* only a higher cap, here a constant, would change that.                      *)
Stopped == /\ ~UnderCap(Summed)
           /\ strays = {}
           /\ \A p \in Keepers : pc[p] \notin {"built", "sent"}

StopsForGood == [][Stopped => Stopped' /\ chain'.rows = chain.rows]_vars

(* The rail implements the ledger: epochs have no holes, nothing claimable is  *)
(* ever taken back, and each keeper publish folds in all that was committed    *)
(* before the chain last advanced.                                             *)
Ledger == INSTANCE RewardzLedger
            WITH Earnings <- Rows, epoch <- chain.epoch, earned <- committed,
                 claimable <- chain.rows

ImplementsLedger == Ledger!Spec

(* "included_in_root_epoch records the FIRST epoch that included it": the      *)
(* epoch a row is stamped with summed it, and no earlier epoch on record did.  *)
StampIsFirstEpoch ==
  \A r \in Rows, v \in landed :
    /\ stamp[r] = v.epoch => r \in v.rows
    /\ stamp[r] > v.epoch /\ (\E rec \in rootEpochs : rec.epoch = v.epoch)
         => r \notin v.rows
===============================================================================
