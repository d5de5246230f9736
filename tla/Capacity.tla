------------------------------ MODULE Capacity ------------------------------
(* A league protocol's issuance capacity: the stake watcher                    *)
(* (src/src/stake_watcher.rs) mirrors the on-chain stake and unlocks capacity  *)
(* at the first stake it sees; the capacity-reset cron                         *)
(* (src/src/capacity_reset.rs) refreshes it once a window; the API spends it.  *)
(*                                                                             *)
(* Abstractions.  The age of capacity_window_start counts clock steps up to    *)
(* the cadence, past which nothing distinguishes ages.  A stake is what        *)
(* direct.saturating_add(rented) gives; its account is never closed.           *)
EXTENDS Naturals

CONSTANTS Watchers,     \* processes running start_stake_watcher_cron
          Protocols,
          MaxStake,     \* bound: stakes on chain
          Ratio,        \* issuance_ratio
          Grant,        \* starter_grant_rewardz
          MaxStored,    \* i64::MAX, what the columns can hold
          Null,         \* SQL NULL, or no account
          Cadence,      \* clock steps in a capacity window
          StakeChanges  \* bound: times a stake changes

ASSUME ConstantsAssumption ==
  /\ MaxStake \in Nat
  /\ Ratio \in Nat
  /\ MaxStored \in Nat
  /\ Grant \in 0..MaxStored
  /\ Cadence \in Nat \ {0}
  /\ StakeChanges \in Nat
  /\ Null \notin Nat /\ Null \notin Protocols

VARIABLES stake,      \* ProtocolStake on chain, Null before the account exists
          changes,    \* stake changes so far
          joined,     \* protocols with a referral_code
          mirror,     \* protocols.active_stake
          remaining,  \* protocols.remaining_capacity
          age,        \* NOW() - capacity_window_start, Null with no window
          unlocked,   \* is capacity_unlocked_at set?
          events,     \* capacity_unlocked rows of protocol_events
          todo,       \* protocols a watcher's tick has still to visit
          loaded,     \* the rows load_protocols gave it
          sample      \* the stake it has read but not applied

chainVars == <<stake, changes>>
rowVars == <<joined, mirror, remaining, age, unlocked, events>>
watcherVars == <<todo, loaded, sample>>
vars == <<chainVars, rowVars, watcherVars>>

Stakes == 0..MaxStake
Amounts == 0..MaxStored
MirrorValues == Amounts \cup {Null}
NoSample == [protocol |-> Null]

(* Here and below, a definition named for a plausible bug is a mutant of the   *)
(* one after it; no action uses it.                                            *)
StoredUnclamped(n) == n

(* A u64 or u128 as the i64 that is written.                                   *)
Stored(n) == IF n > MaxStored THEN MaxStored ELSE n

-------------------------------------------------------------------------------
UnlocksOnReturn(row, observed) == observed > 0 /\ row.mirror \in {Null, 0}

(* is_first_unlock, from the row of the load and the stake just read.          *)
FirstUnlock(row, observed) == observed > 0 /\ ~row.unlocked

SkipsKnownStake(row, observed) == row.mirror # Null /\ ~FirstUnlock(row, observed)

(* The fast path: nothing to mirror and nothing to unlock.                     *)
NothingToDo(row, observed) ==
  ~FirstUnlock(row, observed) /\ row.mirror = Stored(observed)

ElapsedEarly(p) == age[p] = Null \/ age[p] + 1 >= Cadence

(* capacity_window_start IS NULL, or the cadence has passed since.             *)
WindowElapsed(p) == age[p] = Null \/ age[p] >= Cadence

-------------------------------------------------------------------------------
Init ==
  /\ stake = [p \in Protocols |-> Null]
  /\ changes = 0
  /\ joined = {}
  /\ mirror = [p \in Protocols |-> Null]
  /\ remaining = [p \in Protocols |-> Null]
  /\ age = [p \in Protocols |-> Null]
  /\ unlocked = [p \in Protocols |-> FALSE]
  /\ events = [p \in Protocols |-> 0]
  /\ todo = [w \in Watchers |-> {}]
  /\ loaded = [w \in Watchers |-> [p \in {} |-> Null]]
  /\ sample = [w \in Watchers |-> NoSample]

Idle(w) == todo[w] = {} /\ sample[w] = NoSample

Forget(w) ==
  /\ sample' = [sample EXCEPT ![w] = NoSample]
  /\ loaded' = [loaded EXCEPT ![w] = IF todo[w] = {} THEN [p \in {} |-> Null] ELSE @]

(* A tick starts: load_protocols.                                              *)
Load(w) ==
  /\ Idle(w)
  /\ joined # {}
  /\ todo' = [todo EXCEPT ![w] = joined]
  /\ loaded' = [loaded EXCEPT ![w] =
       [p \in joined |-> [mirror |-> mirror[p], unlocked |-> unlocked[p]]]]
  /\ UNCHANGED <<chainVars, rowVars, sample>>

(* read_active_stake of the next protocol.                                     *)
Read(w, p) ==
  /\ p \in todo[w]
  /\ sample[w] = NoSample
  /\ stake[p] # Null
  /\ sample' = [sample EXCEPT ![w] = [protocol |-> p, stake |-> stake[p]]]
  /\ todo' = [todo EXCEPT ![w] = @ \ {p}]
  /\ UNCHANGED <<chainVars, rowVars, loaded>>

(* No account yet, an RPC error, a malformed account or admin wallet: the loop *)
(* goes on with the next protocol.                                             *)
SkipProtocol(w, p) ==
  /\ p \in todo[w]
  /\ sample[w] = NoSample
  /\ todo' = [todo EXCEPT ![w] = @ \ {p}]
  /\ loaded' = [loaded EXCEPT ![w] = IF todo[w] = {p} THEN [q \in {} |-> Null] ELSE @]
  /\ UNCHANGED <<chainVars, rowVars, sample>>

(* apply_sample: one transaction, or none.                                     *)
Apply(w, p) ==
  LET observed == sample[w].stake
      row == loaded[w][p]
  IN
  /\ sample[w].protocol = p
  /\ IF NothingToDo(row, observed)
     THEN UNCHANGED rowVars
     ELSE /\ mirror' = [mirror EXCEPT ![p] = Stored(observed)]
          /\ IF FirstUnlock(row, observed)
             THEN /\ remaining' = [remaining EXCEPT ![p] = Stored(Ratio * observed)]
                  /\ age' = [age EXCEPT ![p] = 0]
                  /\ unlocked' = [unlocked EXCEPT ![p] = TRUE]
                  /\ events' = [events EXCEPT ![p] = @ + 1]
             ELSE UNCHANGED <<remaining, age, unlocked, events>>
          /\ UNCHANGED joined
  /\ Forget(w)
  /\ UNCHANGED <<chainVars, todo>>

(* The transaction rolls back; the loop goes on.                               *)
FailApply(w) ==
  /\ sample[w] # NoSample
  /\ Forget(w)
  /\ UNCHANGED <<chainVars, rowVars, todo>>

(* The process dies and restarts, or load_protocols fails.                     *)
Restart(w) ==
  /\ ~Idle(w)
  /\ todo' = [todo EXCEPT ![w] = {}]
  /\ loaded' = [loaded EXCEPT ![w] = [p \in {} |-> Null]]
  /\ sample' = [sample EXCEPT ![w] = NoSample]
  /\ UNCHANGED <<chainVars, rowVars>>

(* reset_capacities: one statement over every protocol, league member or not.  *)
ResetCapacities ==
  LET due == {p \in Protocols : WindowElapsed(p)} IN
  /\ due # {}
  /\ remaining' = [p \in Protocols |-> IF p \in due THEN Grant ELSE remaining[p]]
  /\ age' = [p \in Protocols |-> IF p \in due THEN 0 ELSE age[p]]
  /\ UNCHANGED <<chainVars, joined, mirror, unlocked, events, watcherVars>>

-------------------------------------------------------------------------------
(* What others do: the API and the chain, external, and the clock.             *)

Join(p) ==
  /\ p \notin joined
  /\ joined' = joined \cup {p}
  /\ UNCHANGED <<chainVars, mirror, remaining, age, unlocked, events, watcherVars>>

Spend(p) ==
  /\ remaining[p] # Null
  /\ remaining[p] > 0
  /\ remaining' = [remaining EXCEPT ![p] = @ - 1]
  /\ UNCHANGED <<chainVars, joined, mirror, age, unlocked, events, watcherVars>>

ChangeStake(p, s) ==
  /\ changes < StakeChanges
  /\ stake[p] # s
  /\ stake' = [stake EXCEPT ![p] = s]
  /\ changes' = changes + 1
  /\ UNCHANGED <<rowVars, watcherVars>>

ClockStep ==
  /\ \E p \in Protocols : age[p] # Null /\ age[p] < Cadence
  /\ age' = [p \in Protocols |-> IF age[p] = Null \/ age[p] = Cadence THEN age[p]
                                 ELSE age[p] + 1]
  /\ UNCHANGED <<chainVars, joined, mirror, remaining, unlocked, events, watcherVars>>

Next == \/ \E w \in Watchers : \/ Load(w)
                               \/ \E p \in Protocols :
                                    Read(w, p) \/ SkipProtocol(w, p) \/ Apply(w, p)
                               \/ FailApply(w)
                               \/ Restart(w)
        \/ ResetCapacities
        \/ \E p \in Protocols : Join(p) \/ Spend(p) \/ (\E s \in Stakes : ChangeStake(p, s))
        \/ ClockStep

Spec == Init /\ [][Next]_vars

(* The interval ticks, and neither the RPC node nor the database fails for a   *)
(* protocol for ever.                                                          *)
FairSpec ==
  /\ Spec
  /\ \A w \in Watchers :
       /\ WF_vars(Load(w))
       /\ \A p \in Protocols :
            /\ SF_vars(Read(w, p))
            /\ SF_vars(Apply(w, p))
            /\ WF_vars(SkipProtocol(w, p))

-------------------------------------------------------------------------------
(* Properties *)

LoadedRows == [mirror : MirrorValues, unlocked : BOOLEAN]

TypeOK ==
  /\ stake \in [Protocols -> Stakes \cup {Null}]
  /\ changes \in 0..StakeChanges
  /\ joined \subseteq Protocols
  /\ mirror \in [Protocols -> MirrorValues]
  /\ remaining \in [Protocols -> Amounts \cup {Null}]
  /\ age \in [Protocols -> 0..Cadence \cup {Null}]
  /\ unlocked \in [Protocols -> BOOLEAN]
  /\ events \in [Protocols -> Nat]
  /\ todo \in [Watchers -> SUBSET Protocols]
  /\ loaded \in [Watchers -> UNION {[ps -> LoadedRows] : ps \in SUBSET Protocols}]
  /\ sample \in [Watchers -> [protocol : Protocols, stake : Stakes] \cup {NoSample}]

(* "the FIRST-EVER transition": a protocol is unlocked at most once, and told  *)
(* so exactly then, through stale rows, failed transactions and restarts.      *)
UnlockedOnce == \A p \in Protocols : events[p] = IF unlocked[p] THEN 1 ELSE 0

(* "prevents a protocol from cycling stake to refresh its capacity window      *)
(* mid-cadence": a window starts afresh when it is the first, when the cadence *)
(* has passed, or at the one unlock; and only then does capacity grow.         *)
MayRefresh(p) == \/ age[p] = Null
                 \/ age[p] >= Cadence
                 \/ ~unlocked[p] /\ unlocked'[p]

Refreshes(p) == \/ age'[p] # Null /\ (age[p] = Null \/ age'[p] < age[p])
                \/ remaining'[p] # Null /\ (remaining[p] = Null \/ remaining'[p] > remaining[p])

NoEarlyRefresh == [][\A p \in Protocols : Refreshes(p) => MayRefresh(p)]_vars

(* Once the stakes rest, every league protocol's mirror shows its stake, and a *)
(* staked one is unlocked.                                                     *)
StakesAreMirrored ==
  <>[](\A p \in joined : stake[p] # Null =>
         /\ mirror[p] = Stored(stake[p])
         /\ stake[p] > 0 => unlocked[p])
===============================================================================
