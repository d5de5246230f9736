------------------------------- MODULE PointRoot -------------------------------
(* The points rail: keepers publish the Merkle root of users.total_points      *)
(* (src/src/publisher.rs) and save its proofs (src/src/db.rs), and the API      *)
(* awards bootstrap points (src/src/api.rs).  The epoch lives in the keeper's  *)
(* memory: it is read from the chain once, at start, and moves with every      *)
(* tick, published or not.                                                     *)
(*                                                                             *)
(* A Merkle root is the function from wallet to amount, its leaves.            *)
EXTENDS Integers, FiniteSets

CONSTANTS Keepers,        \* processes running the publisher cron
          Wallets,        \* users.wallet_address values
          WellFormed,     \* those that parse as a pubkey
          Bonus,          \* bootstrap_amount
          MaxPoints,      \* bound: points of a wallet
          MaxEpoch,       \* bound: last epoch a keeper tries
          ChangeBound,    \* bound: points change while keepers are at or below it
          MaxFaults,      \* bound: crashes, errors and lost confirmations
          MaxStrays       \* bound: abandoned transactions pending at once

ASSUME ConstantsAssumption ==
  /\ WellFormed \subseteq Wallets
  /\ Bonus \in Nat \ {0}
  /\ MaxPoints \in Nat /\ Bonus <= MaxPoints
  /\ MaxEpoch \in Nat
  /\ ChangeBound \in Nat
  /\ MaxFaults \in Nat
  /\ MaxStrays \in Nat

VARIABLES points,      \* users.total_points, NoRow when there is no row
          balances,    \* user_balances.total_earned, NoRow when there is no row
          other,       \* history: points earned outside the bootstrap award
          chain,       \* the PointRoot account
          landed,      \* every value the account has had
          strays,      \* transactions sent that no keeper waits for any more
          proofs,      \* table merkle_proofs
          pc,          \* where each keeper is in its tick
          epoch,       \* the epoch each keeper holds in memory
          tree,        \* the leaves of the tick's tree
          faults       \* crashes and errors so far

userVars == <<points, balances, other>>
chainVars == <<chain, landed>>
vars == <<userVars, chainVars, strays, proofs, pc, epoch, tree, faults>>

NoRow == -1
NoLeaves == [w \in {} |-> 0]
NoRoot == [epoch |-> 0, leaves |-> NoLeaves]

-------------------------------------------------------------------------------
(* What a step computes.  A definition named for a bug is a mutant of the one  *)
(* after it; no action uses it.                                                *)

(* The leaves: malformed wallets and totals that are not positive are dropped. *)
Leaves == [w \in {u \in WellFormed : points[u] > 0} |-> points[w]]

TxOf(k) == [epoch |-> epoch[k], leaves |-> tree[k]]

(* What load_current_epoch may return: some value the account has had, or      *)
(* None, which counts as 0, for a missing account and for an RPC error alike.  *)
StartEpochs == {0} \cup {v.epoch : v \in landed}

RetriedAfterError(k) == epoch[k] - 1

(* The epoch is not taken back when its tick fails.                            *)
AfterError(k) == epoch[k]

KeptNothing(e) == {}

(* DELETE FROM merkle_proofs WHERE epoch < e.                                  *)
Kept(e) == {row \in proofs : row.epoch >= e}

RowsOfUsersNow(k) ==
  {[epoch |-> epoch[k], root |-> tree[k], authority |-> w, amount |-> points[w]] :
     w \in DOMAIN tree[k]}

(* One proof row per entry of the tree that was published.                     *)
NewRows(k) ==
  {[epoch |-> epoch[k], root |-> tree[k], authority |-> w, amount |-> tree[k][w]] :
     w \in DOMAIN tree[k]}

(* Rows the INSERT updates in place, ON CONFLICT (epoch, authority).           *)
Overwritten(k) ==
  {row \in proofs : row.epoch = epoch[k] /\ row.authority \in DOMAIN tree[k]}

AwardedOnTop(w) == IF points[w] = NoRow THEN Bonus ELSE points[w] + Bonus

(* INSERT ... ON CONFLICT (wallet_address) DO NOTHING.                         *)
Awarded(w) == IF points[w] = NoRow THEN Bonus ELSE points[w]

-------------------------------------------------------------------------------
(* The chain, external: set_point_root takes any strictly newer epoch.         *)
Accepts(tx) == tx.epoch > chain.epoch

Apply(tx) == chain' = tx /\ landed' = landed \cup {tx}

-------------------------------------------------------------------------------
Init == /\ points = [w \in Wallets |-> NoRow]
        /\ balances = [w \in Wallets |-> NoRow]
        /\ other = [w \in Wallets |-> 0]
        /\ chain = NoRoot
        /\ landed = {}
        /\ strays = {}
        /\ proofs = {}
        /\ pc = [k \in Keepers |-> "starting"]
        /\ epoch = [k \in Keepers |-> 0]
        /\ tree = [k \in Keepers |-> NoLeaves]
        /\ faults = 0

PointsMayChange == \A k \in Keepers : epoch[k] <= ChangeBound

(* The API service credits a wallet, keeping both tables in step.              *)
Earn(w) ==
  /\ PointsMayChange
  /\ points[w] < MaxPoints
  /\ LET total == IF points[w] = NoRow THEN 1 ELSE points[w] + 1
     IN  /\ points' = [points EXCEPT ![w] = total]
         /\ balances' = [balances EXCEPT ![w] = total]
  /\ other' = [other EXCEPT ![w] = @ + 1]
  /\ UNCHANGED <<chainVars, strays, proofs, pc, epoch, tree, faults>>

(* POST /bootstrap-award: the UserStake check lets the request through when    *)
(* the account is missing and when the RPC read fails, so the wallet's row is  *)
(* the only guard; both tables are written in one transaction.                 *)
BootstrapAward(w) ==
  /\ PointsMayChange
  /\ w \in WellFormed
  /\ points' = [points EXCEPT ![w] = Awarded(w)]
  /\ balances' = IF points[w] = NoRow /\ balances[w] = NoRow
                 THEN [balances EXCEPT ![w] = Bonus] ELSE balances
  /\ UNCHANGED <<other, chainVars, strays, proofs, pc, epoch, tree, faults>>

Goto(k, phase) == pc' = [pc EXCEPT ![k] = phase]

Fault == faults < MaxFaults /\ faults' = faults + 1

(* The process starts: load_current_epoch returned e.                          *)
Start(k, e) ==
  /\ pc[k] = "starting"
  /\ e \in StartEpochs
  /\ epoch' = [epoch EXCEPT ![k] = e]
  /\ Goto(k, "idle")
  /\ UNCHANGED <<userVars, chainVars, strays, proofs, tree, faults>>

(* A tick moves the epoch, reads the users, builds their tree and sends it.    *)
SendRoot(k) ==
  /\ pc[k] = "idle"
  /\ epoch[k] < MaxEpoch
  /\ DOMAIN Leaves # {}
  /\ epoch' = [epoch EXCEPT ![k] = @ + 1]
  /\ tree' = [tree EXCEPT ![k] = Leaves]
  /\ Goto(k, "sent")
  /\ UNCHANGED <<userVars, chainVars, strays, proofs, faults>>

(* No user has points: the tick publishes nothing, and its epoch is used up.   *)
SkipEmpty(k) ==
  /\ pc[k] = "idle"
  /\ epoch[k] < MaxEpoch
  /\ DOMAIN Leaves = {}
  /\ epoch' = [epoch EXCEPT ![k] = @ + 1]
  /\ UNCHANGED <<userVars, chainVars, strays, proofs, pc, tree, faults>>

(* The tick is over, in error; what it held in locals is gone.                 *)
EndInError(k) == /\ Goto(k, "idle")
                 /\ epoch' = [epoch EXCEPT ![k] = AfterError(k)]
                 /\ tree' = [tree EXCEPT ![k] = NoLeaves]

(* The users or the blockhash could not be read: nothing was sent.             *)
FailTick(k) ==
  /\ pc[k] = "sent"
  /\ epoch[k] < MaxEpoch
  /\ Fault
  /\ EndInError(k)
  /\ UNCHANGED <<userVars, chainVars, strays, proofs>>

LandOwn(k) ==
  /\ pc[k] = "sent"
  /\ Accepts(TxOf(k))
  /\ Apply(TxOf(k))
  /\ Goto(k, "landed")
  /\ UNCHANGED <<userVars, strays, proofs, epoch, tree, faults>>

(* The program rejects an epoch the chain has reached.                         *)
RejectOwn(k) ==
  /\ pc[k] = "sent"
  /\ ~Accepts(TxOf(k))
  /\ EndInError(k)
  /\ UNCHANGED <<userVars, chainVars, strays, proofs, faults>>

Abandon(k) == /\ Cardinality(strays) < MaxStrays
              /\ strays' = strays \cup {TxOf(k)}

(* send_and_confirm_transaction gives up; the transaction may still land.      *)
Timeout(k) ==
  /\ pc[k] = "sent"
  /\ epoch[k] < MaxEpoch
  /\ Fault
  /\ Abandon(k)
  /\ EndInError(k)
  /\ UNCHANGED <<userVars, chainVars, proofs>>

EndPublished(k) == /\ Goto(k, "idle")
                   /\ tree' = [tree EXCEPT ![k] = NoLeaves]
                   /\ UNCHANGED epoch

(* save_merkle_proofs, one database transaction.                               *)
SaveProofs(k) ==
  /\ pc[k] = "landed"
  /\ proofs' = (Kept(epoch[k]) \ Overwritten(k)) \cup NewRows(k)
  /\ EndPublished(k)
  /\ UNCHANGED <<userVars, chainVars, strays, faults>>

(* It fails, and the failure is only logged.                                   *)
SkipSave(k) ==
  /\ pc[k] = "landed"
  /\ epoch[k] < MaxEpoch
  /\ Fault
  /\ EndPublished(k)
  /\ UNCHANGED <<userVars, chainVars, strays, proofs>>

(* The process dies anywhere and comes back to read the epoch again.           *)
Restart(k) ==
  /\ epoch[k] < MaxEpoch
  /\ Fault
  /\ IF pc[k] = "sent" THEN Abandon(k) ELSE UNCHANGED strays
  /\ Goto(k, "starting")
  /\ epoch' = [epoch EXCEPT ![k] = 0]
  /\ tree' = [tree EXCEPT ![k] = NoLeaves]
  /\ UNCHANGED <<userVars, chainVars, proofs>>

LandStray(t) ==
  /\ t \in strays
  /\ Accepts(t)
  /\ Apply(t)
  /\ strays' = strays \ {t}
  /\ UNCHANGED <<userVars, proofs, pc, epoch, tree, faults>>

DropStray(t) ==
  /\ t \in strays
  /\ strays' = strays \ {t}
  /\ UNCHANGED <<userVars, chainVars, proofs, pc, epoch, tree, faults>>

Cron(k) == \/ \E e \in StartEpochs : Start(k, e)
           \/ SendRoot(k)
           \/ SkipEmpty(k)
           \/ FailTick(k)
           \/ LandOwn(k)
           \/ RejectOwn(k)
           \/ Timeout(k)
           \/ SaveProofs(k)
           \/ SkipSave(k)
           \/ Restart(k)

Next == \/ \E k \in Keepers : Cron(k)
        \/ \E w \in Wallets : Earn(w) \/ BootstrapAward(w)
        \/ \E t \in strays : LandStray(t) \/ DropStray(t)

Spec == Init /\ [][Next]_vars

(* Every keeper keeps ticking.  Faults end by their bound, so nothing more is  *)
(* assumed: not that a first read succeeds, nor that a transaction lands.      *)
FairSpec == Spec /\ \A k \in Keepers : WF_vars(Cron(k))

-------------------------------------------------------------------------------
(* Properties *)

IsRoot(f) == /\ DOMAIN f \subseteq WellFormed
             /\ f = [w \in DOMAIN f |-> f[w]]
             /\ \A w \in DOMAIN f : f[w] \in 1..MaxPoints

IsTx(v) == /\ v = [epoch |-> v.epoch, leaves |-> v.leaves]
           /\ v.epoch \in 0..MaxEpoch
           /\ IsRoot(v.leaves)

TypeOK ==
  /\ points \in [Wallets -> NoRow..MaxPoints]
  /\ balances \in [Wallets -> NoRow..MaxPoints]
  /\ other \in [Wallets -> Nat]
  /\ IsTx(chain)
  /\ \A v \in landed \cup strays : IsTx(v)
  /\ \A row \in proofs : /\ row.epoch \in 1..MaxEpoch
                         /\ IsRoot(row.root)
                         /\ row.authority \in DOMAIN row.root
                         /\ row.amount \in 1..MaxPoints
  /\ pc \in [Keepers -> {"starting", "idle", "sent", "landed"}]
  /\ epoch \in [Keepers -> 0..MaxEpoch]
  /\ tree \in [Keepers -> UNION {[ws -> 1..MaxPoints] : ws \in SUBSET WellFormed}]
  /\ faults \in 0..MaxFaults

(* The proofs table opens the chain's own roots: a row carries the root the    *)
(* chain took at its epoch and the amount of that root's leaf, and an epoch    *)
(* with a row has a row for every leaf, however late, stale or overtaken the   *)
(* keeper that saved them.                                                     *)
ProofRowsMatchChain ==
  \A row \in proofs : \E v \in landed :
    /\ v.epoch = row.epoch
    /\ v.leaves = row.root
    /\ row.authority \in DOMAIN v.leaves
    /\ row.amount = v.leaves[row.authority]
    /\ \A w \in DOMAIN v.leaves : \E r \in proofs : r.epoch = v.epoch /\ r.authority = w

(* Saving proofs late, for a root another keeper has overtaken, never costs    *)
(* the newer root its proofs: a row only goes when the chain has moved past    *)
(* its epoch.                                                                  *)
NewerProofsStay ==
  [][\A row \in proofs : row.epoch = chain.epoch => row \in proofs']_vars

(* No transaction and no root, on chain or still under way, credits a wallet    *)
(* with more than one bootstrap award on top of what it earned elsewhere,      *)
(* though awards race each other and the on-chain guard fails open.            *)
PointsAreAccounted ==
  \A w \in Wallets :
    /\ points[w] = balances[w]
    /\ points[w] <= Bonus + other[w]
    /\ \A v \in landed \cup strays : w \in DOMAIN v.leaves => v.leaves[w] <= points[w]
    /\ \A k \in Keepers : w \in DOMAIN tree[k] => tree[k][w] <= points[w]

(* "Load current epoch from on-chain PointRoot to survive process restarts":   *)
(* whatever a well-formed wallet has is eventually provable against the root   *)
(* on chain, even when that first read fails and the keeper starts from 0,     *)
(* far behind the chain.                                                       *)
Provable(w, n) ==
  \E row \in proofs : /\ row.authority = w
                      /\ row.amount >= n
                      /\ row.epoch = chain.epoch
                      /\ row.root = chain.leaves

EventuallyProvable ==
  \A w \in WellFormed, n \in 1..MaxPoints : points[w] >= n ~> Provable(w, n)
===============================================================================
