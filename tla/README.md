# Keeper bot: a verification project

This directory models the REWARDZ keeper bot (`src/src/*.rs`) in TLA+. TLC checks
the models on small instances and TLAPS proves the central invariants for every
value of their constants. Paths below are relative to the repository's `src/src/`
unless they say otherwise.

Contents: [the system](#1-the-system), [the plan](#2-the-plan),
[modules and code](#3-modules-and-code), [runs](#4-runs-and-their-bounds),
[fairness](#5-fairness), [proofs](#6-proofs), [where code and documents
disagree](#7-where-the-code-and-its-documents-disagree), [what is not
modelled](#8-what-is-not-modelled).

## 1. The system

One binary, four ways to run it: `serve-api`, `run-crons`, `full` (both) and the
one-shot `start-round` (`main.rs`). `run_crons` starts every cron as a tokio task
of its own; tasks share the Postgres pool and the admin keypair and nothing else.
Each cron is a loop: wait for the interval, run one tick to its end, log its error
if it has one. So ticks of one cron never overlap within a process, and ticks of
different crons, or of the same cron in two processes, interleave at every
`.await` and every RPC call. Everything that survives a tick is in the database or
on the chain, apart from the epoch each root publisher keeps in memory.

| Component | State | Operations | What makes it correct |
| --- | --- | --- | --- |
| Rewardz root publisher (`rewardz_publisher.rs`, `db.rs`) | `rewardz_earnings`, `rewardz_root_epochs`, the on-chain RewardzRoot (epoch, root, deny list), `last_known_epoch` | one tick: read epoch, cutoff, SUM, cap, tree, dry run, deny list, send, record | epochs without holes, nothing claimable taken back, records that match the chain, freezes kept, earnings eventually claimable |
| Rewardz proof endpoint (`api.rs`) | none | read the root, read the earnings, rebuild, compare, answer | an answer agrees with the chain |
| Mining game loop (`game_loop.rs`) | on-chain GameConfig and GameRound | start or settle a round, at most one per tick; `start-round` once | nothing cranked ahead of the schedule, every round settled |
| Leaderboard (`leaderboard.rs`) | snapshot table, bonus earnings | rank and insert, award | budget per day, only eligible protocols, each row awarded |
| Stake watcher (`stake_watcher.rs`) | `active_stake`, `remaining_capacity`, `capacity_window_start`, `capacity_unlocked_at`, `protocol_events` | load rows, read a stake, apply the sample | one unlock ever, mirrors follow the chain |
| Capacity reset (`capacity_reset.rs`) | the same capacity columns | one UPDATE | no refresh within a window |
| Merkle trees (`merkle.rs`, `rewardz_merkle.rs`) | none | build a tree and its proofs, verify | each proof opens the root for its own leaf only |
| PointRoot publisher (`publisher.rs`, `db.rs`) | in-memory epoch, `merkle_proofs`, on-chain PointRoot | send the root, save the proofs | proofs open the roots the chain took, all points become provable |
| Milestone processor (`milestone_processor.rs`) | `rewardz_earnings` | one INSERT per slug, gated on flags and earlier awards | each milestone once, and no award from a statement that began under an open flag |
| Anti-abuse scanner (`anti_abuse.rs`) | `abuse_flags` | three INSERTs gated on open flags | a flag freezes accrual, and one detector's collision does not lose flags for good |
| Visibility (`visibility_tick.rs`) | `protocols.visibility`, events | load, decide, apply one by one | events form a chain, and visibility comes to rest where conduct puts it |
| Subscriptions (`subscriptions.rs`) | `subscriptions` | load up to 100 due rows, call the API, advance the streak | no starvation, a period counted once |
| Bootstrap award, receipts (`api.rs`) | `users`, `user_balances` | one transaction per award; receipts are only signed | one award per wallet |
| Rental (`rental.rs`) | on-chain rentals | settle active rentals in a loop | a failure does not stop the others |
| Quality score (`quality_score.rs`) | `protocols.quality_score` | one formula per protocol | it follows activity, so that visibility can recover |
| Configuration (`league_config.rs`, `config.rs`, `hex.rs`) | none | presets, environment, formatting | - |

How components interact:

- The milestone processor and the leaderboard insert `rewardz_earnings`; the rail
  sums them and stamps them; the proof endpoint sums them again.
- The scanner's flags gate milestones and visibility; visibility gates the
  leaderboard; capacity and quality feed visibility.
- The watcher and the reset both write a protocol's capacity window; the API (another
  service) spends it.
- The chain is shared with operators (the deny list) and with anybody (the game's
  instructions are permissionless).

What is hard here: decisions made on a chain view that lags; transactions whose
confirmation is lost and which land ticks later; several SQL statements where one
transaction would be needed; rows that are visible later than their timestamp; two
keepers during a deployment; midnight between two statements; and crashes between
any two of these.

## 2. The plan

In order of importance, and where it stands:

1. **The Rewardz rail** (done): `RewardzLedger` (the abstract promise),
   `RewardzPublisher` (the implementation);
   `RewardzProofApi` composes the proof endpoint with the publishers, and the promise
   to a client (`EventuallyServed`) is stated on the composition. `RewardzProofs` is about
   both.
2. **The game loop** (done): `RoundSchedule` (the abstract promise), `GameLoop`,
   `GameLoopProofs`.
3. **The leaderboard** (done): `Leaderboard`, `LeaderboardProofs`.
4. **Capacity** (done): `Capacity`, `CapacityProofs`.
5. **Merkle** (done): `Merkle`, `MerkleProofs`.
6. **The points rail** (done): `PointRoot`, `PointRootProofs`, with the bootstrap award
   that feeds it.
7. **The league** (done): `League`, `LeagueProofs`, the scanner, the milestone
   processor, the quality score and the visibility tick around one database.
8. **Subscriptions** (done): `Subscriptions`, `SubscriptionsProofs`.

Left: the order of the leaves, base58 text against bytes under the database's collation,
on which the roots of two keepers with different databases depend; `League` composed
with `Leaderboard` (visibility is an input of the latter); an abstract specification of
the points rail, like the one of the Rewardz rail.

The modules are written without RECURSIVE operators, with named assumptions on the
constants and one action per step, so that the checked definitions are the ones the
proofs use.

## 3. Modules and code

| Module | Models |
| --- | --- |
| `RewardzLedger` | what the rail promises: `Earn`, `Publish`, `Republish` |
| `RewardzPublisher` | `start_rewardz_publisher_cron`, `publish_rewardz_root`, `record_rewardz_root_publish`, and the RewardzRoot account (external) |
| `MCRewardzPublisher` | instances of it: who owns which row, amounts |
| `RewardzProofApi`, `MCRewardzProofApi` | `get_rewardz_proof`, beside all of the above |
| `RoundSchedule` | what the crons promise of the game: ask only for cranks that are due |
| `GameLoop` | `tick_game_loop`, `start_round`, `settle_round`, `run_start_round_once`, and the two instructions (external) |
| `Leaderboard`, `MCLeaderboard` | `write_snapshot_and_bonuses`, and visibility changes as its environment |
| `Capacity` | the watcher's `tick` and `apply_sample`, `reset_capacities` |
| `Merkle`, `MCMerkle` | `build_merkle_tree`, `build_rewardz_tree`, the verifiers |
| `PointRoot` | `start_publisher_cron`, `publish_root`, `save_merkle_proofs`, the bootstrap award, and the PointRoot account (external) |
| `League` | the ticks of `anti_abuse`, `milestone_processor`, `quality_score`, `visibility_tick`, and users, time and operators (external) |
| `Subscriptions` | the poll of `subscriptions.rs`, one step per HTTP call and per UPDATE |
| `*Proofs` | the theorems of section 6 |

**RewardzPublisher.** `pc[p]` is where keeper `p` is in its tick: `idle` (waiting),
`ticked` (epoch read), `cutoff` (`SELECT NOW()` done), `built` (tree built),
`sent` (in `send_and_confirm_transaction`), `landed` (on chain, not recorded). Locals
of the tick are `epoch`, `cutoff`, `tree`, `deny`; `lastKnown` survives ticks and
`dry` is the environment variable. `ReadEpoch` is `load_current_epoch` with the
missing-account rule, `CaptureCutoff` the timestamp, `BuildTree`/`RefuseOverCap` the
SUM and the cap, `DryRunStop` the dry run, `SubmitRoot` the deny-list read and the
send, `LandOwn`/`RejectOwn`/`Timeout` its three outcomes, `RecordPublish` the one
database transaction and `SkipRecord` its failure, which the code only logs.
`Restart` loses all of it anywhere. A transaction whose keeper is gone becomes a
`stray`, which may land any number of steps later or be dropped.
The abstractions: a timestamp is the set of rows whose INSERT had begun, since
`created_at` is the start of the inserting transaction, and a row becomes visible in
a later step (`CommitInsert`); a root is the map from authority to cumulative amount; an
RPC read returns some value the account had, at most `MaxLag` epochs old.
`MonotoneReads` says that within a tick a read is not older than the one before it,
which a single node gives and a load-balanced endpoint may not; only the deny-list
property needs it.

**RewardzProofApi.** A request is two steps, the on-chain read and the database
read, and all of `RewardzPublisher` moves in between: `RailNext` is a step of the
rail or a step of a request. `AnswersMatchChain` is about one request, and
`EventuallyServed` about the rail and a client that keeps asking, together.

**GameLoop.** One action per read, because the chain moves between them; the node
serves a `view` that lags (finalized commitment) and catches up. A missing account
after an RPC error opens a guard (`PreflightPasses`, `GuardPasses` have no condition on
the view), as `load_game_round` returns `None` for both. Rounds last a constant
number of slots. `RoundSchedule` keeps the chain of `GameLoop` and forgets the rest:
what the crons have in flight becomes the rounds they asked to start and to settle
(`CronAsks`), and everybody else becomes `Outsiders`.

**Leaderboard.** Three steps: the first statement starts (it fixes CURRENT_DATE and
its snapshot), commits (`ON CONFLICT DO NOTHING` per row), and the second statement
runs. The ranking is any order of the eligible protocols. `shownOn` is a history
variable: who was eligible at some time of each day.

**Capacity.** `Load`, `Read`, `Apply` follow `tick`; a row is as old as its load,
a sample as old as its read. Ages of windows are counted to the cadence.

**PointRoot.** `epoch[k]` is the keeper's memory: `Start` reads it from the chain, or
gets 0 when the account is missing or the RPC fails (`load_current_epoch` returns
`None` for both), every tick adds one, also a tick that publishes nothing or fails.
`SendRoot` is the read of the users with the tree and the send, `LandOwn`, `RejectOwn`,
`Timeout` its outcomes, `SaveProofs` the one transaction that deletes older epochs and
upserts the rows, `SkipSave` its failure, which is only logged. `BootstrapAward` is the
one transaction of the API; its on-chain guard lets the request through when the
account is missing and when the read fails, so `INSERT ... ON CONFLICT DO NOTHING` is the
guard that is left. `other` is a history variable: what a wallet earned elsewhere.

**League.** A statement of Postgres decides on the snapshot it starts with, so each is
two steps: `Detect` and `RaiseFlags`, `BeginAward` and `CommitAward`, `ComputeScore` and
`WriteScore`; the visibility tick is `LoadSnapshots` and then one `ApplyTransition` or
`FailTransition` per protocol. What the SQL counts is an input (`suspect`, `reached`,
`activity`, `lowCapacity`) and moves between any two steps. Two scanners can collide on
the unique index of open flags, which rolls the whole statement back
(`FailDetector`). `slipped` is a history variable: award statements that committed for a
protocol with an open flag.

**Subscriptions.** Time is the order in which subscriptions fall due, `line`. `Load` takes
the first `Limit` rows with their streaks, `Resolve` and `ResolveFails` are the HTTP call,
`Update` writes what was computed from the loaded row, `AbortPoll` is the `?` after a
database error, or a crash. `periods` and `late` are history variables.

**Merkle.** A state machine of `build`: levels bottom-up, then one walk per leaf.
Hashes are free constructors, and a pair is unordered since the code sorts it. `Verify`
is the loop of `verify_proof`, a function of the elements consumed.

## 4. Runs and their bounds

| Run | Checks | Instance and why it is enough |
| --- | --- | --- |
| `rewardz_safety` | `TypeOK`, `RecordsMatchChain`, `StampNamesPublishedLeaf`, `RailInvariant`, `CapIsKept`, `PublishKeepsDenyList`, `StopsForGood`, `ImplementsLedger` | two (interchangeable) keepers that may restart in dry-run mode, two rows of two authorities that together pass the cap, lag 1, one stray, 3 epochs, one freezable authority: a race, its loser, a late landing, a refusal and a freeze between read and landing all occur; the proofs remove the bounds |
| `rewardz_cap` | `EventuallyServed`, violated | one keeper and one client, a cap of 1 and two rows of 1 |
| `rewardz_stamp` | `StampIsFirstEpoch`, violated | one keeper, two rows of one authority |
| `proof_api` | `AnswersMatchChain`, `EventuallyServed` | one keeper, one client, two rows of one authority, lag 1, 2 epochs and a cap that is never reached; rows are committed while the chain is at epoch 0, so that two publishes fit below `MaxEpoch` and the second must close the gap |
| `game` | `TypeOK`, `CronTxsAreDue`, `GameInvariant`, `EveryRoundSettles`, `ImplementsSchedule` | a cron, a one-shot, third parties, two rounds of one slot and one slot of intermission, one stray |
| `leaderboard` | `BudgetPerDate`, `HiddenEarnNothing`, `LeaderboardInvariant` | two keepers, three protocols for two places, two days; keepers and protocols are symmetric |
| `leaderboard_pairing` | `EveryRowIsAwarded`, violated | one keeper, one protocol |
| `capacity` | `TypeOK`, `UnlockedOnce`, `NoEarlyRefresh`, `StakesAreMirrored` | one watcher, two protocols, four stake changes (stake, unstake, stake again, and one more), capacity 3 clamped at 2 |
| `merkle` | `ProofsOpenTheRoot`, `ProofsAreExact` | sizes 1 to 11: every pattern of odd tails up to four levels above the leaves |
| `points` | `TypeOK`, `ProofRowsMatchChain`, `PointsAreAccounted`, `NewerProofsStay`, `EventuallyProvable` | two keepers, two wallets of up to 2 points (an award of 1 and another earning), 3 epochs, one fault (a crash, a failed read, a lost confirmation or a lost save) and one stray: a keeper that starts over from 0, a keeper overtaken between landing and saving, and a late landing all occur. Points change while no keeper is past epoch 1, so that later epochs remain to publish them |
| `subscriptions` | `TypeOK`, `StreakIsEarned`, `StreakIsKept`, `DueAreServed` | two executors, batches of two out of three subscriptions, of which one never resolves and so holds a place in each batch; two periods, so a row can be a period old |
| `league` | `TypeOK`, `AccrualIsFrozen`, `TimelineIsHonest`, `VisibilityConverges` | two scanners that collide, one processor with two milestones, one visibility cron, and three changes of the inputs: suspect, cleared and back, or hidden and back |

Bounds that are not of the system: `MaxEpoch`, `CommitBound`, `MaxStrays` (rail),
`MaxRound`, `MaxStrays` and the slot limit at the crank slot (game), `MaxDate`
(leaderboard), `MaxStake`, `StakeChanges` (capacity), `MaxPoints`, `MaxEpoch`,
`ChangeBound`, `MaxFaults`, `MaxStrays` (points), `MaxPeriods` (subscriptions), `MaxMoves`
(league). `CHECK_DEADLOCK FALSE` is set for `merkle` (the builder returns) and for
`capacity`, `points` and `league`, where the bounded inputs are used up and nothing is left
to do; the other runs check deadlock.

Each property of a passing run has a mutant, a plausible bug of the code under which
it fails; these are the definitions named for a bug just before the real one
(`AcceptsSameEpoch`, `EchoNothing`, `CrankSlotAtEnd`, ...). No action uses them.

`ImplementsLedger` is the deepest of the rail's properties. It says that a publish
by a keeper, however late and from whichever process, folds in everything claimable and
everything that was committed when the chain last moved. It rests on the order of
the steps of a tick: the epoch is read before the earnings are summed, so a
transaction for the next epoch has seen all that was committed at the chain's last
move, and any older one is rejected by the epoch check.

`StopsForGood` is the safety side of run `rewardz_cap`. Once the committed earnings add up to
more than the cap and no transaction built before is left, the claimable rows stay what
they are in every later state, whoever ticks, restarts or retries.

`ImplementsSchedule` says of the game what a cron is responsible for: each crank it asks for
was due by the chain's own slot when it asked, and a round that moves was asked for by a
cron unless there is an outsider. The instance has outsiders, so in the run the first half
is what is at stake; `CronsAloneKeepTime` (section 6) is the second, for a deployment
where nobody else cranks.

`UnlockedOnce` holds for one watcher. The gate is read when the tick begins and the
UPDATE does not repeat it, so with `Watchers = {w1, w2}` TLC finds two unlocks and
two events; `railway.worker.json` runs one replica, but a rolling deployment has two
for a while.

`AccrualIsFrozen` is stated as the code can keep it. The gate is a part of the award's
statement, so it sees the flags committed when that statement began: a statement in
flight when a flag commits still awards. One statement per processor is the most that can
slip, however many milestones a protocol has reached, and nothing takes it back.

`HiddenEarnNothing` is about a protocol that is hidden all day. Only the snapshot statement
looks at visibility, so one hidden between the snapshot and the bonus is paid, in the
model as in the code.

`TimelineIsHonest` is about the two statements of a transition: neither is kept without
the other. With one visibility cron the column is what the snapshot said when its turn
comes; with two, the `from` of an event may be stale.

`ProofsOpenTheRoot` holds for leaves in any order. That two keepers build one root needs
the same order, which `db.rs:149` leaves to the database's collation and
`rewardz_merkle.rs:84` asserts in debug builds only; the models have one order.

`EventuallyProvable` holds although the epoch is read once: a keeper that started from 0 on
a failed read sends rejected epochs until its counter passes the chain's. It takes a
tick per epoch, which at the default interval can be long, and the proofs table is
replaced only by then.

`StreakIsKept` excludes updates from a row that was loaded before the subscription fell
due again (`late`). Such an update writes a streak computed a period ago over the one
written since; TLC shows it with two executors as soon as the exception is dropped.

The second tick of a day is announced as a no-op (`leaderboard.rs:207-211`). It is one
when the first filled all `leaderboard_top_n` ranks; otherwise a newly eligible
protocol takes a free rank and a bonus. `BudgetPerDate` holds either way.

## 5. Fairness

Ticks come from `tokio::time::interval` and never stop; a tick's error is logged
and the loop goes on. So a keeper's reads, builds and sends are retried for ever,
and the assumption is that no cause of failure lasts for ever for a step that keeps
being possible:

- rail: strong fairness of the reads of the current account, the cutoff, the build,
  the send and the landing (each can be interrupted by a failure infinitely often,
  and is retried); weak fairness of the outcomes that only end a tick. No
  fairness of inserts, of operators, of strays, or of successful recording.
- game: slots pass and the node catches up (weak); the cron's steps as above, and a
  guard reads the account rightly again and again (a start passes a guard that the
  view does not close). No fairness of third parties or the one-shot: the cron alone
  keeps the game going.
- proof endpoint: the keeper's fairness, a client that keeps asking and, once it reads
  the present account, is not failed by the database for ever (strong).
- capacity: the watcher's loads (weak), reads and applies (strong). Nothing about
  the reset, the API or the stakers; stakes change finitely often by the bound.
- points: weak fairness of each keeper's next step, whichever it is. Faults end by their
  bound, so no more is needed: not that a first read succeeds, nor that a
  transaction lands.
- subscriptions: polls keep coming, and a call or an UPDATE that is possible in poll
  after poll succeeds in some (strong, per subscription). This includes that every
  HTTP call returns, which the code does not ensure: the client is built without a
  timeout (`subscriptions.rs:80`), and the cron awaits each tick.
- league: crons keep ticking (weak) and no statement fails on every try (strong). Nothing
  about the milestone processor, on which visibility does not depend.

`Restart` and all failures stay enabled under fairness.

## 6. Proofs

All are checked by TLAPS for every value of the constants that satisfies the
module's `ConstantsAssumption` (`EntriesAssumption` for the trees: the entries are a
sequence). No further assumption is made, except that `DenyListKept` assumes
`MonotoneReads`, two theorems of `Capacity` assume the one watcher of the deployment,
`CronsAloneKeepTime` that nobody but crons cranks, and `TimelineIsHonest` says itself
that it is about one visibility cron.

| Theorem | Says |
| --- | --- |
| `RewardzProofs!RailIsSafe` | `Spec => []RailInvariant` |
| `TypeCorrect`, `RecordIsFaithful`, `StampsNameLeaves` | its parts as theorems |
| `CapHolds` | `Spec => []CapIsKept`, given `RailInvariant` |
| `DenyListKept` | `MonotoneReads => (Spec => PublishKeepsDenyList)` |
| `LedgerImplemented` | `Spec => ImplementsLedger` |
| `ClaimsGrow`, `RailStops` | `Spec => ClaimsNeverShrink`: no authority's claimable total shrinks from one root to the next; `Spec => StopsForGood` |
| `AnswersAreTrue`, `ServedIsKept` | `RailSpec => AnswersMatchChain`; `RailSpec => []ServedStaysClaimable`: an amount a client was served stays claimable, whatever is published after |
| `GameLoopProofs!GameIsSafe`, `TypeCorrect`, `CronKeepsSchedule` | `[]GameInvariant`, `[]TypeOK`, `[]CronTxsAreDue` |
| `ScheduleImplemented`, `CronsAloneKeepTime` | `Spec => ImplementsSchedule`; without outsiders, `Spec => RoundsMoveOnTime`: no round is settled or followed before its crank slot |
| `LeaderboardProofs!LeaderboardIsSafe`, `BudgetIsKept`, `HiddenAreNotPaid` | `[]LeaderboardInvariant`, `[]BudgetPerDate`, `[]HiddenEarnNothing` |
| `MerkleProofs!TreeIsSound`, `ProofsOpenRoot`, `ProofsExact`, `ProofsBindEntries` | `[]TreeInvariant`, `[]ProofsOpenTheRoot`, `[]ProofsAreExact`, and the same for any claim whatever |
| `NoProofIsForged`, `RootDeterminesEntries` | no sequence of hashes opens a root for a claim that is not an entry; two trees with one root have the same entries |
| `PointRootProofs!TypeCorrect`, `ProofsAreOfTheChain`, `AwardsAreCountedOnce`, `NewerProofsAreKept` | `[]TypeOK`, `[]ProofRowsMatchChain`, `[]PointsAreAccounted`, `NewerProofsStay` |
| `LeagueProofs!TypeCorrect`, `AccrualFreezes`, `EventsFormAChain` | `[]TypeOK`, `[]AccrualIsFrozen`, `TimelineIsHonest` |
| `SubscriptionsProofs!TypeCorrect`, `StreaksAreEarned`, `StreaksAreKept` | `[]TypeOK`, `[]StreakIsEarned`, `StreakIsKept` |
| `CapacityProofs!TypeCorrect` | `[]TypeOK`, for any number of watchers |
| `UnlocksAreSingle`, `RefreshesAreDue` | `OneWatcher => (Spec => []UnlockedOnce)`, `OneWatcher => (Spec => NoEarlyRefresh)` |

**The rail.** `RecordsMatchChain` is not inductive: recording a publish is right
only if what the keeper sent is what landed (`LandedInOrder`), and one epoch has one
value only because the program accepts newer epochs. The refinement needs more. That a
landing takes nothing back is a claim about transactions in flight, so the
invariant speaks of them: no transaction is ahead of the next epoch
(`NoEpochAhead`), and one that is for the next epoch contains all that is under the
root, all that was committed at the last move, and the freezes in force
(`NextToLandIsFresh`). Older ones cannot land. The proof has one lemma per group of
actions and one step per conjunct they can disturb; each action then maps to `Earn`,
`Publish`, `Republish` or a stutter.

**Amounts.** `ClaimsNeverShrink`, `StopsForGood` and `AnswersMatchChain` compare sums of
earnings, so they need that a sum over a finite set grows with the set. `SumFunctionOnSet`
is a fold, defined by a choice of its recursion; that it exists and has the expected
equation for every finite set is an induction. The library's induction theorems take an
operator as a parameter, which no installed prover can instantiate, so the induction is
done on sets: the sizes for which a statement fails have a smallest member
(`LeastNumber`, from `WFMin` and `NatLessThanWellFounded`), and there the step fails
(`SumExists`, `SumsAgree`, `SumTakesOut`, `SumGrows`).

**The proof endpoint.** The tree a request rebuilds is compared with a root that may be epochs
old. If they are equal, the chain's root of now is squeezed between them: its rows
contain those of the root read (`HistoryGrows`, `RequestsHoldHistory`) and are among the
rows visible now, so each authority's sum lies between two equal ones (`RootsBetween`).
That is why it is enough to compare roots and not epochs, and it rests on reading the
chain before the database. The endpoint writes nothing, so `RailInvariant` holds beside its
clients too (a lemma). `ServedIsKept` puts the two together: what is served is the chain's
own tree when it is served, and from then on the claims under a root only grow
(`StepGrowsClaims`), whichever keeper's transaction lands next and however late.

**The cap.** Once the visible earnings exceed it, no build passes (`UnderCap` is about the
whole sum, `TotalGrows`), so nothing new is sent; what operators send repeats the rows on
chain.

**The game.** `CronTxsAreDue` speaks of the chain now, the decision was made on
what the node showed then. `ReadsAreHistory` bounds reads by the present, and being
due is stable: slots only grow, settled rounds stay settled, and a round's end does
not change once it started. `DecisionsStayDue` carries it through the guards. For the
schedule, every step but a send or a landing leaves the chain alone and adds nothing to
what is in flight (`QuietTick`, `FlightShrinks`); a send is an `AskStart` or `AskSettle`
because its decision is due; and a landing was asked for, unless it comes from a
one-shot, whose strays `StraysHaveSenders` tracks, or a third party.

**The trees.** `TreeInvariant` says that each level is `NextLevel` of the one below
(`TreeIsMadeOfLevels`), that the walk's index is on its level (`WalkIsOnTheTree`) and
that the proof so far opens the node the walk has reached (`ProofsOpen`, which is
`ProofsOpenTheRoot` during the construction as well). One more element of a proof is one
more `HashPair`; a promoted node is the same on both levels, so it needs none. That a
proof opens the root for nothing else follows from the freedom of the hash: a chain of
pairs of a given length has one start. `NoProofIsForged` needs no proof of the
builder's: a node is a leaf hash or the pair of two nodes, so going back from the root
each hash that was computed is a node, down to the claim's, which is not a pair and so
an entry's. `RootDeterminesEntries` walks two trees at once. It is why
`RewardzPublisher` and `PointRoot` may take a root to be the table it was built from.

**The leaderboard.** `BudgetPerDate` is a bound on a cardinality. It follows from
the distinct ranks: a day's bonuses inject into the day's rows
(`BonusesAreBacked`), the rows into `1..TopN`.

**The points rail.** `ProofRowsMatchChain` speaks of the table, and a keeper writes it
ticks after it sent the root. Two facts carry it: the chain takes at most one root per
epoch, so an epoch names a root (`OneRootPerEpoch`), and what a keeper is about to save
is what landed, not what the users have now (`LandedTreesAreKept`). The upsert of an
epoch then replaces rows by equal ones, and the deletion of older epochs cannot reach
the chain's (`NewerProofsStay`). `PointsAreAccounted` follows since a tree is never
ahead of the table it was read from.

**The league.** `AccrualIsFrozen` is a bound on slips that already happened;
`SlipsAreBounded` adds the awards that can still slip: slips and awards in flight for
a flagged protocol are together at most the number of processors, and no new award
begins. For `TimelineIsHonest`, only the one cron writes the column, so each transition
it has yet to apply starts from where the column is, one per protocol (`PendingIsFresh`).

**Subscriptions.** A loaded row is behind the period in which it was loaded
(`RowsAreEarned`), which is why a second update of a period adds nothing. `RowsAgree` says
that all rows loaded in the current period are the same and repeat its first update,
unless a late one came between. The line is a sequence; the lemmas on what is left of it
when a subscription leaves are proved with `SequenceTheorems`.

**Capacity.** The unlock is decided on a loaded row. With one watcher the marker in the
row is still the marker in the table (`LoadedIsCurrent`), since no one else sets it and
the watcher drops a row once it treated it. With two watchers that fails, and so
does `UnlockedOnce`. Types do not depend on it: `Stored` clamps every amount.

Model-checked only: everything about liveness (`EventuallyServed`, `EveryRoundSettles`,
`StakesAreMirrored`, `EventuallyProvable`, `DueAreServed`, `VisibilityConverges`), which the
prover cannot do under fairness. Every invariant and action property of the passing
runs has its theorem.

## 7. Where the code and its documents disagree

Three runs show a statement of the repository that the code does not keep.

1. `rewardz_cap`: `max_rewardz_per_epoch` is compared with the total of
   cumulative leaves (`rewardz_publisher.rs:112`). That total is a lifetime one, so
   passing it stops publishing for good (`RailStops` proves it for any earnings); "A
   subsequent publish closes the gap" (`api.rs:469`) is then untrue.
2. `rewardz_stamp`: a row whose transaction began before the cutoff and committed
   after the SUM is stamped with an epoch that did not include it; `db.rs:182-185`
   says the stamp "records the FIRST epoch that included it". Claims are not
   affected, they are cumulative.
3. `leaderboard_pairing`: a failure between the two statements leaves a day's rows
   without bonuses; `leaderboard.rs:166-169` says the counts are always equal.

Noted while modelling, without a run of their own:

- A lost confirmation and a node that does not show the first transaction yet let the
  next tick send a second start, which `game_loop.rs:206-211` describes as a no-op. The
  program rejects it, and it costs one failed tick.
- `visibility_tick.rs:34-35` says that "newcomers therefore land in at_risk
  immediately", a protocol without any event; infinite inactivity is past the inactivity window too, so `decide` hides
  it at the first tick.
- `milestone_processor.rs:24-26` says accrual is frozen under an open flag. The
  milestones are gated; the leaderboard's bonus is not, it asks for visibility only.
- The number of replicas matters: `railway.worker.json` runs one
  worker, and `UnlockedOnce` and `TimelineIsHonest` need it. A rolling deployment has two
  for a while.

## 8. What is not modelled

- Rental settlement (`rental.rs`) keeps no state of its own: each tick sends
  `settle_rental` for every account it lists. What that changes is in a program of which
  the repository has a discriminator only.
- Configuration (`config.rs`), hex formatting and the JSON dump of
  `league_config.rs` are data; the values that steer a cron are CONSTANTS.
- Receipt signing keeps no state. The optional cranker loop of `game_loop.rs` is a
  heartbeat that does nothing yet.
- Scores and predicates are numeric SQL over event counts. Their results are arbitrary
  orders (leaderboard), inputs (milestones, detectors) or two levels, at the health floor
  and above it (quality score).
- Within `League` every protocol is active in the sense of its status column, a flag's
  severity is high or not, and social milestones, which no statement awards, are absent.
  Within `Subscriptions` nobody pauses or cancels, and frequencies and multipliers are
  functions of what is there. Within `Capacity` a stake account is never closed.
- The order of leaves, and so the collation of `ORDER BY protocol_authority`
  (`db.rs:149`): every process shares one database here.
- The on-chain programs, the API service and Postgres are outside the repository and
  modelled by what the code relies on: the root programs take strictly newer epochs and
  `set_rewardz_root` overwrites the deny list, the game program checks the round's order
  and end, unique indexes refuse duplicates, and `created_at` is the start of the
  transaction. The tables' definitions are not in the repository either; where an
  `ON CONFLICT` names columns, a matching index is assumed.
