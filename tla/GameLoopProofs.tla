---------------------------- MODULE GameLoopProofs ----------------------------
(* For any processes, round length, intermission and bounds: the cron keeps    *)
(* the schedule, whatever is stale, lost, late or cranked by someone else.     *)
EXTENDS GameLoop, TLAPS

USE DEF Phases, Keepers

(* Something due stays due: slots only pass, rounds only settle, and the end   *)
(* of a round that was started never moves.                                    *)
LEMMA DueIsStable ==
  ASSUME GameInvariant, NEW tx \in Txs, Due(tx),
         slot' \in Nat, slot' >= slot,
         \/ UNCHANGED <<cur, open, ends>>
         \/ open /\ ~open' /\ UNCHANGED <<cur, ends>>
         \/ /\ ~open /\ cur' = cur + 1 /\ cur' \in 1..MaxRound
            /\ ends' = [ends EXCEPT ![cur'] = slot + RoundSlots]
  PROVE  Due(tx)'
<1>1. /\ cur \in Nat /\ slot \in Nat /\ open \in BOOLEAN
      /\ ends \in [1..MaxRound -> Nat]
      /\ MaxRound \in Nat /\ Intermission \in Nat
  BY ConstantsAssumption DEF GameInvariant, TypeOK
<1>2. \A n \in 1..cur : ends'[n] = ends[n]
  BY <1>1 DEF GameInvariant, TypeOK
<1>3. CASE tx.kind = "start" /\ tx.round = 1
  BY <1>3 DEF Due
<1>4. CASE /\ tx.kind = "start" /\ tx.round > 1 /\ Settled(tx.round - 1)
           /\ slot >= ends[tx.round - 1] + Intermission
  <2>1. tx.round \in Nat /\ tx.round - 1 \in 1..cur
    BY <1>1, <1>4 DEF Txs, Settled
  <2>2. Settled(tx.round - 1)'
    BY <1>1, <1>4, <2>1 DEF Settled
  <2>3. slot' >= ends'[tx.round - 1] + Intermission
    <3>1. ends[tx.round - 1] \in Nat
      BY <1>1, <2>1 DEF GameInvariant, TypeOK
    <3>2. ends'[tx.round - 1] = ends[tx.round - 1]
      BY <1>2, <2>1
    <3>3. slot >= ends[tx.round - 1] + Intermission
      BY <1>4
    <3>4. slot \in Nat /\ Intermission \in Nat
      BY <1>1
    <3>5. QED
      BY <3>1, <3>2, <3>3, <3>4
  <2>4. QED
    BY <1>4, <2>2, <2>3 DEF Due
<1>5. CASE /\ tx.kind = "settle" /\ tx.round \in 1..cur
           /\ slot >= ends[tx.round] + Intermission
  <2>1. tx.round \in 1..cur' /\ ends'[tx.round] = ends[tx.round] /\ ends[tx.round] \in Nat
    BY <1>1, <1>2, <1>5 DEF GameInvariant, TypeOK
  <2>2. slot' >= ends'[tx.round] + Intermission
    BY <1>1, <1>5, <2>1
  <2>3. QED
    BY <1>5, <2>1, <2>2 DEF Due
<1>6. QED
  BY <1>3, <1>4, <1>5 DEF Due

(* The same for what a cron has decided but not sent.                          *)
LEMMA RoundFactsAreStable ==
  ASSUME GameInvariant, NEW n \in 1..cur, slot' \in Nat, slot' >= slot,
         \/ UNCHANGED <<cur, open, ends>>
         \/ open /\ ~open' /\ UNCHANGED <<cur, ends>>
         \/ /\ ~open /\ cur' = cur + 1 /\ cur' \in 1..MaxRound
            /\ ends' = [ends EXCEPT ![cur'] = slot + RoundSlots]
  PROVE  /\ Settled(n) => Settled(n)'
         /\ slot >= ends[n] + Intermission => slot' >= ends'[n] + Intermission
<1>1. /\ cur \in Nat /\ slot \in Nat /\ n \in Nat /\ open \in BOOLEAN
      /\ ends \in [1..MaxRound -> Nat] /\ ends[n] \in Nat
      /\ MaxRound \in Nat /\ Intermission \in Nat
  BY ConstantsAssumption DEF GameInvariant, TypeOK
<1>2. ends'[n] = ends[n]
  BY <1>1 DEF GameInvariant, TypeOK
<1>3. QED
  BY <1>1, <1>2 DEF Settled

(* What a transaction does to the chain.                                       *)
LEMMA ApplyShape ==
  ASSUME GameInvariant, NEW tx \in Txs, Accepts(tx), Apply(tx)
  PROVE  /\ slot' = slot
         /\ \/ open /\ ~open' /\ UNCHANGED <<cur, ends>>
            \/ /\ ~open /\ open' /\ cur' = cur + 1 /\ cur' \in 1..MaxRound
               /\ ends' = [ends EXCEPT ![cur'] = slot + RoundSlots]
         /\ cur' \in 0..MaxRound
         /\ open' \in BOOLEAN
         /\ ends' \in [1..MaxRound -> Nat]
<1>1. /\ slot \in Nat /\ cur \in 0..MaxRound /\ open \in BOOLEAN
      /\ ends \in [1..MaxRound -> Nat] /\ slot + RoundSlots \in Nat
  BY ConstantsAssumption DEF GameInvariant, TypeOK
<1>2. tx.round \in 1..MaxRound /\ tx.kind \in {"start", "settle"}
  BY DEF Txs
<1>3. CASE tx.kind = "start"
  <2>1. /\ ~open /\ tx.round = cur + 1 /\ open' = TRUE /\ cur' = tx.round
        /\ slot' = slot /\ ends' = [ends EXCEPT ![tx.round] = slot + RoundSlots]
    BY <1>3 DEF Accepts, Apply
  <2>2. ends' \in [1..MaxRound -> Nat]
    BY <1>1, <2>1
  <2>3. QED
    BY <1>1, <1>2, <2>1, <2>2
<1>4. CASE tx.kind = "settle"
  <2>1. open /\ open' = FALSE /\ UNCHANGED <<slot, cur, ends>>
    BY <1>4 DEF Accepts, Apply
  <2>2. QED
    BY <1>1, <2>1
<1>5. QED
  BY <1>2, <1>3, <1>4

(* The chain moves and the locals of the keepers do not, but for a phase that  *)
(* promises no more than the one before.                                       *)
LEMMA ChainMovesSafely ==
  ASSUME GameInvariant,
         slot' \in Nat, slot' >= slot,
         cur' \in 0..MaxRound, open' \in BOOLEAN, ends' \in [1..MaxRound -> Nat],
         \/ UNCHANGED <<cur, open, ends>>
         \/ open /\ ~open' /\ UNCHANGED <<cur, ends>>
         \/ /\ ~open /\ open' /\ cur' = cur + 1 /\ cur' \in 1..MaxRound
            /\ ends' = [ends EXCEPT ![cur'] = slot + RoundSlots],
         strays' \subseteq strays,
         pc' \in [Keepers -> Phases],
         \A p \in Keepers : pc'[p] \in {pc[p], "confirming"},
         UNCHANGED <<view, cfg, now>>
  PROVE  GameInvariant'
<1>1. TypeOK'
  <2>1. /\ view' \in [slot : Nat, cur : 0..MaxRound, open : BOOLEAN]
        /\ cfg' \in [Keepers -> 0..MaxRound]
        /\ now' \in [Keepers -> Nat]
    BY DEF GameInvariant, TypeOK
  <2>2. strays' \subseteq Txs
    BY DEF GameInvariant, TypeOK
  <2>3. QED
    BY <2>1, <2>2 DEF TypeOK
<1>2. cur \in Nat /\ slot \in Nat /\ view.slot \in Nat /\ view.cur \in Nat
  BY ConstantsAssumption DEF GameInvariant, TypeOK
<1>3. ReadsAreHistory'
  BY <1>2 DEF GameInvariant, ReadsAreHistory
<1>4. DecisionsStayDue'
  <2> SUFFICES ASSUME NEW p \in Crons
      PROVE  /\ pc'[p] = "slot" => cfg'[p] > 0
             /\ pc'[p] \in {"preflight", "guard", "submit", "startSent"} /\ cfg'[p] > 0 =>
                  Settled(cfg[p])' /\ slot' >= ends'[cfg'[p]] + Intermission
             /\ pc'[p] \in {"settle", "settleSent"} =>
                  cfg'[p] > 0 /\ slot' >= ends'[cfg'[p]] + Intermission
    BY DEF DecisionsStayDue
  <2>1. cfg'[p] = cfg[p] /\ cfg[p] \in Nat /\ cfg[p] <= cur
    BY <1>2, ConstantsAssumption DEF GameInvariant, TypeOK, ReadsAreHistory
  <2>2. CASE cfg[p] > 0
    <3>1. cfg[p] \in 1..cur
      BY <1>2, <2>1, <2>2
    <3>2. /\ Settled(cfg[p]) => Settled(cfg[p])'
          /\ slot >= ends[cfg[p]] + Intermission => slot' >= ends'[cfg'[p]] + Intermission
      BY <2>1, <3>1, RoundFactsAreStable
    <3>3. QED
      BY <2>1, <2>2, <3>2 DEF GameInvariant, DecisionsStayDue
  <2>3. CASE ~(cfg[p] > 0)
    BY <2>1, <2>3 DEF GameInvariant, DecisionsStayDue
  <2>4. QED
    BY <2>2, <2>3
<1>5. StraysStayDue'
  <2> SUFFICES ASSUME NEW tx \in strays', tx.cron PROVE Due(tx)'
    BY DEF StraysStayDue
  <2>1. tx \in Txs /\ Due(tx)
    BY DEF GameInvariant, TypeOK, StraysStayDue
  <2>2. QED
    BY <2>1, DueIsStable
<1>6. OneShotsOnlyStart'
  BY DEF GameInvariant, OneShotsOnlyStart
<1>7. QED
  BY <1>1, <1>3, <1>4, <1>5, <1>6 DEF GameInvariant

(* Only keeper p moves, and where it goes is justified.                        *)
LEMMA KeeperMovesSafely ==
  ASSUME GameInvariant, NEW p \in Keepers, NEW phase \in Phases,
         NEW c \in 0..MaxRound, NEW s \in Nat,
         pc' = [pc EXCEPT ![p] = phase],
         cfg' = [cfg EXCEPT ![p] = c],
         now' = [now EXCEPT ![p] = s],
         c <= view.cur, s <= view.slot,
         p \in Crons => /\ phase = "slot" => c > 0
                        /\ phase \in {"preflight", "guard", "submit", "startSent"} /\ c > 0 =>
                             Settled(c) /\ slot >= ends[c] + Intermission
                        /\ phase \in {"settle", "settleSent"} =>
                             c > 0 /\ slot >= ends[c] + Intermission,
         p \in OneShots => phase \notin {"config", "slot", "settle", "settleSent"},
         phase = "startSent" => c < MaxRound,
         strays' \subseteq Txs,
         \A tx \in strays' : tx.cron => Due(tx),
         UNCHANGED <<chainVars, view>>
  PROVE  GameInvariant'
<1>1. TypeOK'
  BY DEF GameInvariant, TypeOK, chainVars
<1>2. /\ pc'[p] = phase /\ cfg'[p] = c /\ now'[p] = s
      /\ \A k \in Keepers \ {p} : pc'[k] = pc[k] /\ cfg'[k] = cfg[k] /\ now'[k] = now[k]
  BY DEF GameInvariant, TypeOK
<1>3. ReadsAreHistory'
  BY <1>2 DEF GameInvariant, ReadsAreHistory, chainVars
<1>4. DecisionsStayDue'
  <2> SUFFICES ASSUME NEW k \in Crons
      PROVE  /\ pc'[k] = "slot" => cfg'[k] > 0
             /\ pc'[k] \in {"preflight", "guard", "submit", "startSent"} /\ cfg'[k] > 0 =>
                  Settled(cfg[k])' /\ slot' >= ends'[cfg'[k]] + Intermission
             /\ pc'[k] \in {"settle", "settleSent"} =>
                  cfg'[k] > 0 /\ slot' >= ends'[cfg'[k]] + Intermission
    BY DEF DecisionsStayDue
  <2>1. CASE k = p
    BY <1>2, <2>1 DEF Settled, chainVars
  <2>2. CASE k # p
    BY <1>2, <2>2 DEF GameInvariant, DecisionsStayDue, Settled, chainVars
  <2>3. QED
    BY <2>1, <2>2
<1>5. StraysStayDue'
  BY DEF StraysStayDue, Due, Settled, chainVars
<1>6. OneShotsOnlyStart'
  BY <1>2 DEF GameInvariant, OneShotsOnlyStart
<1>7. QED
  BY <1>1, <1>3, <1>4, <1>5, <1>6 DEF GameInvariant

(* A phase change that keeps what was read.                                    *)
LEMMA PhaseMovesSafely ==
  ASSUME GameInvariant, NEW p \in Keepers, NEW phase \in Phases,
         Goto(p, phase),
         p \in Crons =>
           /\ phase = "slot" => cfg[p] > 0
           /\ phase \in {"preflight", "guard", "submit", "startSent"} /\ cfg[p] > 0 =>
                Settled(cfg[p]) /\ slot >= ends[cfg[p]] + Intermission
           /\ phase \in {"settle", "settleSent"} =>
                cfg[p] > 0 /\ slot >= ends[cfg[p]] + Intermission,
         p \in OneShots => phase \notin {"config", "slot", "settle", "settleSent"},
         phase = "startSent" => cfg[p] < MaxRound,
         UNCHANGED <<chainVars, view, strays, cfg, now>>
  PROVE  GameInvariant'
<1>1. /\ cfg[p] \in 0..MaxRound /\ now[p] \in Nat
      /\ cfg' = [cfg EXCEPT ![p] = cfg[p]] /\ now' = [now EXCEPT ![p] = now[p]]
  BY DEF GameInvariant, TypeOK
<1>2. cfg[p] <= view.cur /\ now[p] <= view.slot
  BY DEF GameInvariant, ReadsAreHistory
<1>3. strays' \subseteq Txs /\ \A tx \in strays' : tx.cron => Due(tx)
  BY DEF GameInvariant, TypeOK, StraysStayDue
<1>4. QED
  BY <1>1, <1>2, <1>3, KeeperMovesSafely DEF Goto

LEMMA TickEndsSafely ==
  ASSUME GameInvariant, NEW p \in Keepers, EndTick(p),
         UNCHANGED <<chainVars, view>>,
         strays' \subseteq Txs, \A tx \in strays' : tx.cron => Due(tx)
  PROVE  GameInvariant'
<1>1. view.cur \in Nat /\ view.slot \in Nat /\ MaxRound \in Nat
  BY ConstantsAssumption DEF GameInvariant, TypeOK
<1>2. "idle" \in Phases /\ 0 \in 0..MaxRound /\ 0 \in Nat /\ 0 <= view.cur /\ 0 <= view.slot
  BY <1>1
<1>3. QED
  BY <1>2, KeeperMovesSafely DEF EndTick, Goto

-------------------------------------------------------------------------------

LEMMA ReadConfigIsSafe ==
  ASSUME GameInvariant, NEW p \in Keepers, ReadConfig(p)
  PROVE  GameInvariant'
<1> DEFINE phase == IF p \in OneShots THEN "preflight" ELSE "config"
<1>1. view.cur \in 0..MaxRound /\ view.cur <= view.cur
  BY ConstantsAssumption DEF GameInvariant, TypeOK
<1>2. now[p] \in Nat /\ now[p] <= view.slot /\ now' = [now EXCEPT ![p] = now[p]]
  BY DEF GameInvariant, TypeOK, ReadsAreHistory, ReadConfig
<1>3. /\ phase \in Phases
      /\ p \in Crons => phase = "config"
      /\ p \in OneShots => phase = "preflight"
      /\ phase # "startSent"
  BY ConstantsAssumption
<1>4. pc' = [pc EXCEPT ![p] = phase] /\ cfg' = [cfg EXCEPT ![p] = view.cur]
  BY DEF ReadConfig, Goto
<1>5. strays' \subseteq Txs /\ \A tx \in strays' : tx.cron => Due(tx)
  BY DEF ReadConfig, GameInvariant, TypeOK, StraysStayDue
<1> HIDE DEF phase
<1>6. QED
  BY <1>1, <1>2, <1>3, <1>4, <1>5, KeeperMovesSafely DEF ReadConfig

LEMMA ReadSlotIsSafe ==
  ASSUME GameInvariant, NEW p \in Keepers, ReadSlot(p)
  PROVE  GameInvariant'
<1> DEFINE phase == IF cfg[p] = 0 THEN "preflight" ELSE "slot"
<1>1. /\ cfg[p] \in 0..MaxRound /\ cfg[p] <= view.cur
      /\ view.slot \in Nat /\ view.slot <= view.slot
      /\ cfg' = [cfg EXCEPT ![p] = cfg[p]]
  BY DEF GameInvariant, TypeOK, ReadsAreHistory, ReadSlot
<1>2. /\ phase \in Phases
      /\ phase = "slot" => cfg[p] > 0
      /\ phase \notin {"settle", "settleSent"} /\ phase # "startSent"
      /\ ~(phase \in {"preflight", "guard", "submit", "startSent"} /\ cfg[p] > 0)
  BY <1>1, ConstantsAssumption
<1>3. pc' = [pc EXCEPT ![p] = phase] /\ now' = [now EXCEPT ![p] = view.slot]
  BY DEF ReadSlot, Goto
<1>4. strays' \subseteq Txs /\ \A tx \in strays' : tx.cron => Due(tx)
  BY DEF ReadSlot, GameInvariant, TypeOK, StraysStayDue
<1>5. p \notin OneShots
  BY DEF ReadSlot, GameInvariant, OneShotsOnlyStart
<1> HIDE DEF phase
<1>6. QED
  BY <1>1, <1>2, <1>3, <1>4, <1>5, KeeperMovesSafely DEF ReadSlot

(* The decision, from a slot and a round that may both be old: the slot read   *)
(* has passed, and a round the node shows settled is settled.                  *)
LEMMA ReadRoundDueIsSafe ==
  ASSUME GameInvariant, NEW p \in Keepers, ReadRoundDue(p)
  PROVE  GameInvariant'
<1> DEFINE phase == IF ShownUnsettled(cfg[p]) THEN "settle" ELSE "preflight"
<1>1. /\ slot \in Nat /\ cur \in Nat /\ view.slot \in Nat /\ view.cur \in Nat
      /\ cfg[p] \in 0..MaxRound /\ now[p] \in Nat /\ open \in BOOLEAN
      /\ MaxRound \in Nat /\ Intermission \in Nat
  BY ConstantsAssumption DEF GameInvariant, TypeOK
<1>2. p \in Crons => cfg[p] > 0 /\ slot >= ends[cfg[p]] + Intermission
  <2> SUFFICES ASSUME p \in Crons
               PROVE  cfg[p] > 0 /\ slot >= ends[cfg[p]] + Intermission
    OBVIOUS
  <2>1. cfg[p] > 0
    BY DEF ReadRoundDue, GameInvariant, DecisionsStayDue
  <2>2. ends[cfg[p]] \in Nat
    BY <1>1, <2>1 DEF GameInvariant, TypeOK
  <2>3. now[p] <= slot
    BY <1>1 DEF GameInvariant, ReadsAreHistory
  <2>4. QED
    BY <1>1, <2>1, <2>2, <2>3 DEF ReadRoundDue, CrankSlot
<1>3. phase = "preflight" => Settled(cfg[p])
  <2> SUFFICES ASSUME ~ShownUnsettled(cfg[p]) PROVE Settled(cfg[p])
    OBVIOUS
  <2>1. cfg[p] <= view.cur /\ view.cur <= cur /\ (view.cur = cur /\ ~view.open => ~open)
    BY DEF GameInvariant, ReadsAreHistory
  <2>2. CASE cfg[p] < view.cur
    BY <1>1, <2>1, <2>2 DEF Settled
  <2>3. CASE cfg[p] = view.cur /\ ~view.open
    BY <1>1, <2>1, <2>3 DEF Settled
  <2>4. QED
    BY <1>1, <2>1, <2>2, <2>3 DEF ShownUnsettled
<1>4. phase \in {"settle", "preflight"} /\ phase \in Phases
  OBVIOUS
<1>5. Goto(p, phase) /\ UNCHANGED <<chainVars, view, strays, cfg, now>>
  BY DEF ReadRoundDue
<1>6. p \notin OneShots
  BY DEF ReadRoundDue, GameInvariant, OneShotsOnlyStart
<1> HIDE DEF phase
<1>7. QED
  BY <1>2, <1>3, <1>4, <1>5, <1>6, PhaseMovesSafely

LEMMA PassesAndSubmitsAreSafe ==
  ASSUME GameInvariant, NEW p \in Keepers,
         PreflightPasses(p) \/ GuardPasses(p) \/ SubmitStart(p) \/ SubmitSettle(p)
  PROVE  GameInvariant'
<1> DEFINE after == IF cfg[p] > 0 THEN "guard" ELSE "submit"
<1>1. p \in Crons =>
        /\ pc[p] \in {"preflight", "guard", "submit"} /\ cfg[p] > 0 =>
             Settled(cfg[p]) /\ slot >= ends[cfg[p]] + Intermission
        /\ pc[p] = "settle" => cfg[p] > 0 /\ slot >= ends[cfg[p]] + Intermission
  BY DEF GameInvariant, DecisionsStayDue
<1>2. CASE PreflightPasses(p)
  <2>1. after \in {"guard", "submit"} /\ after \in Phases
    OBVIOUS
  <2>2. Goto(p, after) /\ pc[p] = "preflight" /\ UNCHANGED <<chainVars, view, strays, cfg, now>>
    BY <1>2 DEF PreflightPasses
  <2> HIDE DEF after
  <2>3. QED
    BY <1>1, <2>1, <2>2, PhaseMovesSafely
<1>3. CASE GuardPasses(p)
  BY <1>1, <1>3, PhaseMovesSafely DEF GuardPasses
<1>4. CASE SubmitStart(p)
  BY <1>1, <1>4, PhaseMovesSafely DEF SubmitStart
<1>5. CASE SubmitSettle(p)
  <2>1. p \notin OneShots
    BY <1>5 DEF SubmitSettle, GameInvariant, OneShotsOnlyStart
  <2>2. QED
    BY <1>1, <1>5, <2>1, PhaseMovesSafely DEF SubmitSettle
<1>6. QED
  BY <1>2, <1>3, <1>4, <1>5

(* What a cron leaves behind unconfirmed was due when it was sent.             *)
LEMMA SentTxIsDue ==
  ASSUME GameInvariant, NEW p \in Keepers, Sent(p)
  PROVE  /\ TxOf(p) \in Txs
         /\ TxOf(p).cron => Due(TxOf(p))
<1>1. /\ cfg[p] \in 0..MaxRound /\ MaxRound \in Nat /\ cur \in Nat
      /\ view.cur \in Nat /\ cfg[p] <= cur
  <2>1. /\ cfg[p] \in 0..MaxRound /\ MaxRound \in Nat /\ cur \in Nat /\ view.cur \in Nat
    BY ConstantsAssumption DEF GameInvariant, TypeOK
  <2>2. QED
    BY <2>1 DEF GameInvariant, ReadsAreHistory
<1>2. CASE pc[p] = "startSent"
  <2>1. /\ TxOf(p).kind = "start" /\ TxOf(p).round = cfg[p] + 1
        /\ TxOf(p).cron = (p \in Crons)
    BY <1>2 DEF TxOf, StartTx, NextRound
  <2>2. TxOf(p) \in Txs
    BY <1>1, <1>2
    DEF TxOf, StartTx, NextRound, Txs, GameInvariant, OneShotsOnlyStart
  <2>3. CASE cfg[p] = 0
    <3>1. TxOf(p).round = 1
      BY <2>1, <2>3
    <3>2. Due(TxOf(p))
      BY <2>1, <3>1 DEF Due
    <3>3. QED
      BY <2>2, <3>2
  <2>4. CASE cfg[p] > 0
    <3>1. p \in Crons => Settled(cfg[p]) /\ slot >= ends[cfg[p]] + Intermission
      BY <1>2, <2>4 DEF GameInvariant, DecisionsStayDue
    <3>2. TxOf(p).round > 1 /\ TxOf(p).round - 1 = cfg[p]
      BY <1>1, <2>1, <2>4
    <3>3. p \in Crons => Due(TxOf(p))
      BY <2>1, <3>1, <3>2 DEF Due
    <3>4. QED
      BY <2>1, <2>2, <3>3
  <2>5. QED
    BY <1>1, <2>3, <2>4
<1>3. CASE pc[p] = "settleSent"
  <2>1. /\ TxOf(p).kind = "settle" /\ TxOf(p).round = cfg[p]
        /\ TxOf(p).cron = (p \in Crons)
    BY <1>3 DEF TxOf, SettleTx
  <2>2. p \in Crons => cfg[p] \in 1..cur /\ slot >= ends[cfg[p]] + Intermission
    BY <1>1, <1>3 DEF GameInvariant, DecisionsStayDue
  <2>3. TxOf(p) \in Txs
    <3>1. p \in Crons /\ cfg[p] > 0
      BY <1>3 DEF GameInvariant, OneShotsOnlyStart, DecisionsStayDue
    <3>2. QED
      BY <1>1, <1>3, <3>1 DEF TxOf, SettleTx, Txs
  <2>4. QED
    BY <1>3, <2>1, <2>2, <2>3 DEF Due
<1>4. QED
  BY <1>2, <1>3 DEF Sent

LEMMA LandingIsSafe ==
  ASSUME GameInvariant, NEW tx \in Txs, Accepts(tx), Apply(tx),
         strays' \subseteq strays,
         pc' \in [Keepers -> Phases],
         \A p \in Keepers : pc'[p] \in {pc[p], "confirming"},
         UNCHANGED <<view, cfg, now>>
  PROVE  GameInvariant'
<1>1. slot' \in Nat /\ slot' >= slot
  BY ApplyShape DEF GameInvariant, TypeOK
<1>2. QED
  BY <1>1, ApplyShape, ChainMovesSafely

LEMMA SlotPassesIsSafe ==
  ASSUME GameInvariant, SlotPasses
  PROVE  GameInvariant'
<1>1. slot' \in Nat /\ slot' >= slot
  BY DEF SlotPasses, GameInvariant, TypeOK
<1>2. /\ cur' \in 0..MaxRound /\ open' \in BOOLEAN /\ ends' \in [1..MaxRound -> Nat]
      /\ pc' \in [Keepers -> Phases] /\ \A p \in Keepers : pc'[p] \in {pc[p], "confirming"}
      /\ UNCHANGED <<cur, open, ends>> /\ UNCHANGED <<view, cfg, now>>
      /\ strays' \subseteq strays
  BY DEF SlotPasses, localVars, GameInvariant, TypeOK
<1>3. QED
  BY <1>1, <1>2, ChainMovesSafely

LEMMA ViewCatchesUpIsSafe ==
  ASSUME GameInvariant, ViewCatchesUp
  PROVE  GameInvariant'
<1>1. /\ slot \in Nat /\ cur \in 0..MaxRound /\ open \in BOOLEAN /\ MaxRound \in Nat
      /\ view.slot \in Nat /\ view.cur \in Nat
  BY ConstantsAssumption DEF GameInvariant, TypeOK
<1>2. view'.slot = slot /\ view'.cur = cur /\ view'.open = open
  BY DEF ViewCatchesUp, Chain
<1>3. TypeOK'
  BY DEF ViewCatchesUp, Chain, GameInvariant, TypeOK, chainVars, localVars
<1>4. ReadsAreHistory'
  <2>1. \A p \in Keepers : cfg[p] \in Nat /\ now[p] \in Nat
    BY <1>1 DEF GameInvariant, TypeOK
  <2>2. \A p \in Keepers : cfg[p] <= cur /\ now[p] <= slot
    BY <1>1, <2>1 DEF GameInvariant, ReadsAreHistory
  <2>3. QED
    BY <1>1, <1>2, <2>2 DEF ViewCatchesUp, ReadsAreHistory, chainVars, localVars
<1>5. DecisionsStayDue' /\ OneShotsOnlyStart' /\ StraysStayDue'
  BY DEF ViewCatchesUp, GameInvariant, DecisionsStayDue, OneShotsOnlyStart,
         StraysStayDue, Due, Settled, chainVars, localVars
<1>6. QED
  BY <1>3, <1>4, <1>5 DEF GameInvariant

LEMMA InterruptIsSafe ==
  ASSUME GameInvariant, NEW p \in Keepers, Interrupt(p)
  PROVE  GameInvariant'
<1>1. strays' \subseteq strays \cup (IF Sent(p) THEN {TxOf(p)} ELSE {})
  BY DEF Interrupt
<1>2. strays' \subseteq Txs /\ \A tx \in strays' : tx.cron => Due(tx)
  BY <1>1, SentTxIsDue DEF GameInvariant, TypeOK, StraysStayDue
<1>3. QED
  BY <1>2, TickEndsSafely DEF Interrupt

LEMMA LandOwnIsSafe ==
  ASSUME GameInvariant, NEW p \in Keepers, LandOwn(p)
  PROVE  GameInvariant'
<1>1. TxOf(p) \in Txs
  BY SentTxIsDue DEF LandOwn
<1>2. pc' \in [Keepers -> Phases] /\ \A k \in Keepers : pc'[k] \in {pc[k], "confirming"}
  BY DEF LandOwn, Goto, GameInvariant, TypeOK
<1>3. QED
  BY <1>1, <1>2, LandingIsSafe DEF LandOwn

-------------------------------------------------------------------------------

LEMMA TickIsSafe ==
  ASSUME GameInvariant, NEW p \in Keepers, Tick(p)
  PROVE  GameInvariant'
<1>1. strays \subseteq Txs /\ \A tx \in strays : tx.cron => Due(tx)
  BY DEF GameInvariant, TypeOK, StraysStayDue
<1>2. CASE ReadConfig(p)
  BY <1>2, ReadConfigIsSafe
<1>3. CASE ReadSlot(p)
  BY <1>3, ReadSlotIsSafe
<1>4. CASE ReadRoundNotDue(p)
  BY <1>1, <1>4, TickEndsSafely DEF ReadRoundNotDue
<1>5. CASE ReadRoundDue(p)
  BY <1>5, ReadRoundDueIsSafe
<1>6. CASE PreflightSkips(p)
  BY <1>1, <1>6, TickEndsSafely DEF PreflightSkips
<1>7. CASE GuardSkips(p)
  BY <1>1, <1>7, TickEndsSafely DEF GuardSkips
<1>8. CASE PreflightPasses(p) \/ GuardPasses(p) \/ SubmitStart(p) \/ SubmitSettle(p)
  BY <1>8, PassesAndSubmitsAreSafe
<1>9. CASE FailTick(p)
  BY <1>1, <1>9, TickEndsSafely DEF FailTick
<1>10. CASE LandOwn(p)
  BY <1>10, LandOwnIsSafe
<1>11. CASE RejectOwn(p)
  BY <1>1, <1>11, TickEndsSafely DEF RejectOwn
<1>12. CASE Confirm(p)
  BY <1>1, <1>12, TickEndsSafely DEF Confirm
<1>13. CASE Interrupt(p)
  BY <1>13, InterruptIsSafe
<1>14. QED
  BY <1>2, <1>3, <1>4, <1>5, <1>6, <1>7, <1>8, <1>9, <1>10, <1>11, <1>12, <1>13
  DEF Tick

LEMMA NextIsSafe == GameInvariant /\ [Next]_vars => GameInvariant'
<1> SUFFICES ASSUME GameInvariant, [Next]_vars PROVE GameInvariant'
  OBVIOUS
<1>1. pc \in [Keepers -> Phases] /\ strays \subseteq Txs
  BY DEF GameInvariant, TypeOK
<1>2. ASSUME NEW p \in Keepers, Tick(p) PROVE GameInvariant'
  BY <1>2, TickIsSafe
<1>3. CASE SlotPasses
  BY <1>3, SlotPassesIsSafe
<1>4. CASE ViewCatchesUp
  BY <1>4, ViewCatchesUpIsSafe
<1>5. ASSUME NEW t \in strays, LandStray(t) PROVE GameInvariant'
  BY <1>1, <1>5, LandingIsSafe DEF LandStray, localVars
<1>6. ASSUME NEW tx \in Txs, ThirdPartyCrank(tx) PROVE GameInvariant'
  BY <1>1, <1>6, LandingIsSafe DEF ThirdPartyCrank, localVars
<1>7. ASSUME NEW t \in strays, DropStray(t) PROVE GameInvariant'
  BY <1>7
  DEF DropStray, GameInvariant, TypeOK, ReadsAreHistory, DecisionsStayDue,
      OneShotsOnlyStart, StraysStayDue, Due, Settled, chainVars, localVars
<1>8. CASE UNCHANGED vars
  BY <1>8
  DEF vars, GameInvariant, TypeOK, ReadsAreHistory, DecisionsStayDue,
      OneShotsOnlyStart, StraysStayDue, Due, Settled, chainVars, localVars
<1>9. QED
  BY <1>2, <1>3, <1>4, <1>5, <1>6, <1>7, <1>8 DEF Next

LEMMA InitIsSafe == Init => GameInvariant
<1> SUFFICES ASSUME Init PROVE GameInvariant
  OBVIOUS
<1>1. TypeOK
  <2>1. 0 \in 0..MaxRound /\ 0 \in Nat /\ "idle" \in Phases
    BY ConstantsAssumption
  <2>2. /\ ends \in [1..MaxRound -> Nat] /\ strays \subseteq Txs
        /\ view \in [slot : Nat, cur : 0..MaxRound, open : BOOLEAN]
    BY <2>1 DEF Init
  <2>3. /\ pc \in [Keepers -> Phases] /\ cfg \in [Keepers -> 0..MaxRound]
        /\ now \in [Keepers -> Nat]
    BY <2>1 DEF Init
  <2>4. QED
    BY <2>1, <2>2, <2>3 DEF Init, TypeOK
<1>2. ReadsAreHistory /\ DecisionsStayDue /\ OneShotsOnlyStart /\ StraysStayDue
  BY DEF Init, ReadsAreHistory, DecisionsStayDue, OneShotsOnlyStart, StraysStayDue
<1>3. QED
  BY <1>1, <1>2 DEF GameInvariant

(* The cron's knowledge of the game is never ahead of the chain.               *)
THEOREM GameIsSafe == Spec => []GameInvariant
<1>1. QED
  BY InitIsSafe, NextIsSafe, PTL DEF Spec

(* Every variable keeps its type.                                              *)
THEOREM TypeCorrect == Spec => []TypeOK
<1>1. GameInvariant => TypeOK
  BY DEF GameInvariant
<1>2. QED
  BY <1>1, GameIsSafe, PTL

(* Nothing a cron has sent can crank ahead of the schedule, ever.              *)
THEOREM CronKeepsSchedule == Spec => []CronTxsAreDue
<1>1. GameInvariant => CronTxsAreDue
  BY SentTxIsDue DEF GameInvariant, StraysStayDue, CronTxsAreDue, InFlight
<1>2. QED
  BY <1>1, GameIsSafe, PTL

-------------------------------------------------------------------------------
(* The schedule.                                                               *)

(* The unscheduled transactions nobody waits for come from one-shots.          *)
StraysHaveSenders == OneShots = {} => \A tx \in strays : tx.cron

(* The chain moves only under somebody's transaction, and only one-shots and   *)
(* third parties send what the schedule does not ask for.                      *)
Outsiders == ThirdParties \/ OneShots # {}

LEMMA UnscheduledComeFromOneShots == Spec => []StraysHaveSenders
<1>1. Init => StraysHaveSenders
  BY DEF Init, StraysHaveSenders
<1>2. StraysHaveSenders /\ [Next]_vars => StraysHaveSenders'
  <2> SUFFICES ASSUME OneShots = {}, \A tx \in strays : tx.cron, [Next]_vars
               PROVE  \A tx \in strays' : tx.cron
    BY DEF StraysHaveSenders
  <2>1. \A p \in Keepers : TxOf(p).cron
    BY DEF TxOf, StartTx, SettleTx
  <2>2. ASSUME NEW p \in Keepers, Tick(p)
        PROVE  strays' \subseteq strays \cup {TxOf(p)}
    BY <2>2
    DEF Tick, ReadConfig, ReadSlot, ReadRoundNotDue, ReadRoundDue, PreflightSkips,
        PreflightPasses, GuardSkips, GuardPasses, SubmitStart, SubmitSettle, FailTick,
        LandOwn, RejectOwn, Confirm, Interrupt
  <2>3. CASE SlotPasses \/ ViewCatchesUp \/ UNCHANGED vars
    BY <2>3 DEF SlotPasses, ViewCatchesUp, vars
  <2>4. ASSUME NEW t \in strays, LandStray(t) \/ DropStray(t)
        PROVE  strays' \subseteq strays
    BY <2>4 DEF LandStray, DropStray
  <2>5. ASSUME NEW tx \in Txs, ThirdPartyCrank(tx) PROVE strays' = strays
    BY <2>5 DEF ThirdPartyCrank
  <2>6. QED
    BY <2>1, <2>2, <2>3, <2>4, <2>5 DEF Next
<1>3. QED
  BY <1>1, <1>2, PTL DEF Spec

(* A keeper that is not left sending adds nothing to what is in flight.        *)
LEMMA FlightShrinks ==
  ASSUME NEW p \in Keepers, NEW phase, phase \notin {"startSent", "settleSent"},
         pc \in [Keepers -> Phases],
         Goto(p, phase),
         \A k \in Keepers \ {p} : cfg'[k] = cfg[k],
         strays' \subseteq InFlight
  PROVE  InFlight' \subseteq InFlight
<1>1. pc'[p] = phase /\ \A k \in Keepers \ {p} : pc'[k] = pc[k]
  BY DEF Goto
<1>2. ASSUME NEW k \in Keepers, Sent(k)'
      PROVE  Sent(k) /\ TxOf(k)' = TxOf(k)
  <2>1. k # p
    BY <1>1, <1>2 DEF Sent
  <2>2. QED
    BY <1>1, <1>2, <2>1 DEF Sent, TxOf, StartTx, SettleTx, NextRound
<1>3. QED
  BY <1>2 DEF InFlight

(* A keeper that sends adds that transaction and nothing else.                 *)
LEMMA FlightGrows ==
  ASSUME NEW p \in Keepers, NEW phase \in {"startSent", "settleSent"},
         pc \in [Keepers -> Phases],
         ~Sent(p), Goto(p, phase), UNCHANGED <<cfg, strays>>
  PROVE  InFlight' = InFlight \cup {TxOf(p)'}
<1>1. pc'[p] = phase /\ \A k \in Keepers \ {p} : pc'[k] = pc[k]
  BY DEF Goto
<1>2. Sent(p)'
  BY <1>1 DEF Sent
<1>3. \A k \in Keepers \ {p} : Sent(k)' = Sent(k) /\ TxOf(k)' = TxOf(k)
  BY <1>1 DEF Sent, TxOf, StartTx, SettleTx, NextRound
<1>4. QED
  BY <1>2, <1>3 DEF InFlight

(* Fewer transactions in flight are fewer cranks asked for.                    *)
LEMMA AskedShrinks ==
  ASSUME InFlight' \subseteq InFlight
  PROVE  Schedule!Forget
BY DEF Schedule!Forget, CronAsks

(* One transaction more is one crank asked for more, if a cron sent it.        *)
LEMMA AskedGrows ==
  ASSUME NEW tx, NEW kind, InFlight' = InFlight \cup {tx}
  PROVE  /\ tx.cron /\ tx.kind = kind => CronAsks(kind)' = CronAsks(kind) \cup {tx.round}
         /\ ~(tx.cron /\ tx.kind = kind) => CronAsks(kind)' = CronAsks(kind)
<1> DEFINE asks == {t \in InFlight : t.cron /\ t.kind = kind}
<1>1. CASE tx.cron /\ tx.kind = kind
  <2>1. {t \in InFlight' : t.cron /\ t.kind = kind} = asks \cup {tx}
    BY <1>1
  <2>2. CronAsks(kind)' = {t.round : t \in asks \cup {tx}}
    BY <2>1 DEF CronAsks
  <2> HIDE DEF asks
  <2>3. {t.round : t \in asks \cup {tx}} = {t.round : t \in asks} \cup {tx.round}
    OBVIOUS
  <2>4. QED
    BY <1>1, <2>2, <2>3 DEF CronAsks, asks
<1>2. CASE ~(tx.cron /\ tx.kind = kind)
  <2>1. {t \in InFlight' : t.cron /\ t.kind = kind} = asks
    BY <1>2
  <2>2. QED
    BY <1>2, <2>1 DEF CronAsks
<1>3. QED
  BY <1>1, <1>2

(* A landing is a step of the schedule: a cron asked for it, or an outsider    *)
(* is about.                                                                   *)
LEMMA LandingKeepsSchedule ==
  ASSUME GameInvariant, NEW tx \in Txs, Accepts(tx), Apply(tx),
         IF tx.cron THEN tx \in InFlight ELSE Outsiders,
         InFlight' \subseteq InFlight
  PROVE  Schedule!Start \/ Schedule!Settle
<1>1. /\ cur \in Nat /\ MaxRound \in Nat /\ tx.round \in 1..MaxRound
      /\ tx.kind \in {"start", "settle"} /\ tx.cron \in BOOLEAN
  BY ConstantsAssumption DEF GameInvariant, TypeOK, Txs
<1>2. Outsiders \/ tx.round \in CronAsks(tx.kind)
  BY <1>1 DEF CronAsks
<1>3. Schedule!Forget
  BY AskedShrinks
<1>4. CASE tx.kind = "start"
  <2>1. tx.round = cur + 1 /\ ~open /\ cur < MaxRound
    BY <1>1, <1>4 DEF Accepts
  <2>2. /\ cur' = cur + 1 /\ open' = TRUE /\ slot' = slot
        /\ ends' = [ends EXCEPT ![cur + 1] = slot + RoundSlots]
    BY <1>4, <2>1 DEF Apply
  <2>3. Schedule!Start
    BY <1>2, <1>3, <1>4, <2>1, <2>2 DEF Schedule!Start, Outsiders
  <2>4. QED
    BY <2>3
<1>5. CASE tx.kind = "settle"
  <2>1. tx.round = cur /\ open /\ slot >= ends[cur]
    BY <1>5 DEF Accepts
  <2>2. open' = FALSE /\ UNCHANGED <<slot, cur, ends>>
    BY <1>5 DEF Apply
  <2>3. Schedule!Settle
    BY <1>2, <1>3, <1>5, <2>1, <2>2 DEF Schedule!Settle, Outsiders
  <2>4. QED
    BY <2>3
<1>6. QED
  BY <1>1, <1>4, <1>5

(* What a cron sends is asked for when it is due; what a one-shot sends is not *)
(* asked for by the schedule at all.                                           *)
LEMMA SubmitStartKeepsSchedule ==
  ASSUME GameInvariant, NEW p \in Keepers, SubmitStart(p)
  PROVE  \/ \E n \in 1..MaxRound : Schedule!AskStart(n)
         \/ UNCHANGED Schedule!vars
<1> DEFINE n == cfg[p] + 1
           tx == TxOf(p)'
<1>1. /\ cfg[p] \in 0..MaxRound /\ cfg[p] < MaxRound /\ MaxRound \in Nat
      /\ pc \in [Keepers -> Phases] /\ pc[p] = "submit"
  BY ConstantsAssumption DEF GameInvariant, TypeOK, SubmitStart
<1>2. tx.kind = "start" /\ tx.round = n /\ tx.cron = (p \in Crons)
  BY <1>1 DEF SubmitStart, Goto, TxOf, StartTx, NextRound
<1>3. InFlight' = InFlight \cup {tx}
  BY <1>1, FlightGrows DEF SubmitStart, Sent
<1>4. UNCHANGED <<slot, cur, open, ends>>
  BY DEF SubmitStart, chainVars
<1>5. n - 1 = cfg[p] /\ n \in 1..MaxRound
  BY <1>1
<1>6. cfg[p] > 0 \/ cfg[p] = 0
  BY <1>1
<1> HIDE DEF tx
<1>7. CronAsks("settle")' = CronAsks("settle")
  BY <1>2, <1>3, AskedGrows
<1>8. CASE p \in Crons
  <2>1. CronAsks("start")' = CronAsks("start") \cup {n}
    BY <1>2, <1>3, <1>8, AskedGrows
  <2>2. Schedule!Over(n - 1) /\ Schedule!CrankDue(n - 1)
    <3>1. CASE cfg[p] > 0
      BY <1>1, <1>5, <1>8, <3>1
      DEF GameInvariant, DecisionsStayDue, Settled, Schedule!Over, Schedule!CrankDue
    <3>2. CASE cfg[p] = 0
      BY <1>5, <3>2 DEF Schedule!Over, Schedule!CrankDue
    <3>3. QED
      BY <1>6, <3>1, <3>2
  <2>3. Schedule!AskStart(n)
    BY <1>4, <1>7, <2>1, <2>2 DEF Schedule!AskStart, Schedule!chain
  <2>4. QED
    BY <1>5, <2>3
<1>9. CASE p \notin Crons
  <2>1. CronAsks("start")' = CronAsks("start")
    BY <1>2, <1>3, <1>9, AskedGrows
  <2>2. QED
    BY <1>4, <1>7, <2>1 DEF Schedule!vars, Schedule!chain
<1>10. QED
  BY <1>8, <1>9

LEMMA SubmitSettleKeepsSchedule ==
  ASSUME GameInvariant, NEW p \in Keepers, SubmitSettle(p)
  PROVE  \E n \in 1..MaxRound : Schedule!AskSettle(n)
<1> DEFINE n == cfg[p]
           tx == TxOf(p)'
<1>1. /\ n \in 0..MaxRound /\ MaxRound \in Nat /\ cur \in Nat /\ view.cur \in Nat
      /\ pc \in [Keepers -> Phases] /\ pc[p] = "settle"
  BY ConstantsAssumption DEF GameInvariant, TypeOK, SubmitSettle
<1>2. p \in Crons
  BY <1>1 DEF GameInvariant, OneShotsOnlyStart
<1>3. n > 0 /\ n <= cur /\ slot >= ends[n] + Intermission
  BY <1>1, <1>2 DEF GameInvariant, DecisionsStayDue, ReadsAreHistory
<1>4. tx.kind = "settle" /\ tx.round = n /\ tx.cron
  BY <1>1, <1>2 DEF SubmitSettle, Goto, TxOf, SettleTx
<1>5. InFlight' = InFlight \cup {tx}
  BY <1>1, FlightGrows DEF SubmitSettle, Sent
<1> HIDE DEF tx
<1>6. /\ CronAsks("settle")' = CronAsks("settle") \cup {n}
      /\ CronAsks("start")' = CronAsks("start")
  BY <1>4, <1>5, AskedGrows
<1>7. Schedule!AskSettle(n)
  BY <1>3, <1>6
  DEF SubmitSettle, chainVars, Schedule!AskSettle, Schedule!CrankDue, Schedule!chain
<1>8. QED
  BY <1>1, <1>3, <1>7

(* Every other step of a tick but a landing leaves the chain alone and sends   *)
(* nothing.                                                                    *)
LEMMA QuietTick ==
  ASSUME GameInvariant, NEW p \in Keepers, Tick(p),
         ~SubmitStart(p), ~SubmitSettle(p), ~LandOwn(p)
  PROVE  Schedule!Forget /\ UNCHANGED Schedule!chain
<1>1. pc \in [Keepers -> Phases]
  BY DEF GameInvariant, TypeOK
<1>2. strays' \subseteq InFlight
  BY DEF Tick, ReadConfig, ReadSlot, ReadRoundNotDue, ReadRoundDue, PreflightSkips,
         PreflightPasses, GuardSkips, GuardPasses, FailTick, RejectOwn, Confirm,
         Interrupt, InFlight
<1>3. \E phase \in Phases \ {"startSent", "settleSent"} : Goto(p, phase)
  BY DEF Tick, ReadConfig, ReadSlot, ReadRoundNotDue, ReadRoundDue, PreflightSkips,
         PreflightPasses, GuardSkips, GuardPasses, FailTick, RejectOwn, Confirm,
         Interrupt, EndTick
<1>4. \A k \in Keepers \ {p} : cfg'[k] = cfg[k]
  BY DEF Tick, ReadConfig, ReadSlot, ReadRoundNotDue, ReadRoundDue, PreflightSkips,
         PreflightPasses, GuardSkips, GuardPasses, FailTick, RejectOwn, Confirm,
         Interrupt, EndTick, GameInvariant, TypeOK
<1>5. InFlight' \subseteq InFlight
  BY <1>1, <1>2, <1>3, <1>4, FlightShrinks
<1>6. UNCHANGED Schedule!chain
  BY DEF Tick, ReadConfig, ReadSlot, ReadRoundNotDue, ReadRoundDue, PreflightSkips,
         PreflightPasses, GuardSkips, GuardPasses, FailTick, RejectOwn, Confirm,
         Interrupt, chainVars, Schedule!chain
<1>7. QED
  BY <1>5, <1>6, AskedShrinks

LEMMA LandOwnKeepsSchedule ==
  ASSUME GameInvariant, NEW p \in Keepers, LandOwn(p)
  PROVE  Schedule!Start \/ Schedule!Settle
<1>1. TxOf(p) \in Txs /\ TxOf(p) \in InFlight
  BY SentTxIsDue DEF LandOwn, InFlight
<1>2. TxOf(p).cron \/ Outsiders
  BY DEF TxOf, StartTx, SettleTx, Outsiders
<1>3. InFlight' \subseteq InFlight
  <2>1. pc \in [Keepers -> Phases]
    BY DEF GameInvariant, TypeOK
  <2>2. Goto(p, "confirming") /\ strays' = strays /\ cfg' = cfg
    BY DEF LandOwn
  <2>3. strays' \subseteq InFlight
    BY <2>2 DEF InFlight
  <2>4. QED
    BY <2>1, <2>2, <2>3, FlightShrinks
<1>4. Accepts(TxOf(p)) /\ Apply(TxOf(p))
  BY DEF LandOwn
<1>5. QED
  BY <1>1, <1>2, <1>3, <1>4, LandingKeepsSchedule

LEMMA StepKeepsSchedule ==
  ASSUME GameInvariant, StraysHaveSenders, [Next]_vars
  PROVE  [Schedule!Next]_(Schedule!vars)
<1>1. strays \subseteq Txs
  BY DEF GameInvariant, TypeOK
<1>2. ASSUME UNCHANGED <<pc, cfg>>, strays' \subseteq strays
      PROVE  InFlight' \subseteq InFlight
  BY <1>2 DEF InFlight, Sent, TxOf, StartTx, SettleTx, NextRound
<1>3. ASSUME NEW p \in Keepers, Tick(p) PROVE Schedule!Next \/ UNCHANGED Schedule!vars
  <2>1. CASE SubmitStart(p)
    BY <2>1, SubmitStartKeepsSchedule DEF Schedule!Next
  <2>2. CASE SubmitSettle(p)
    BY <2>2, SubmitSettleKeepsSchedule DEF Schedule!Next
  <2>3. CASE LandOwn(p)
    BY <2>3, LandOwnKeepsSchedule DEF Schedule!Next
  <2>4. CASE ~SubmitStart(p) /\ ~SubmitSettle(p) /\ ~LandOwn(p)
    BY <1>3, <2>4, QuietTick DEF Schedule!Next
  <2>5. QED
    BY <2>1, <2>2, <2>3, <2>4
<1>4. CASE SlotPasses
  <2>1. CronAsks("start")' = CronAsks("start") /\ CronAsks("settle")' = CronAsks("settle")
    BY <1>4
    DEF SlotPasses, localVars, CronAsks, InFlight, Sent, TxOf, StartTx, SettleTx, NextRound
  <2>2. QED
    BY <1>4, <2>1 DEF SlotPasses, Schedule!SlotPasses, Schedule!Next
<1>5. CASE ViewCatchesUp
  BY <1>2, <1>5, AskedShrinks
  DEF ViewCatchesUp, chainVars, localVars, Schedule!chain, Schedule!Next
<1>6. ASSUME NEW t \in strays, LandStray(t) PROVE Schedule!Start \/ Schedule!Settle
  <2>1. IF t.cron THEN t \in InFlight ELSE Outsiders
    BY <1>6 DEF InFlight, StraysHaveSenders, Outsiders
  <2>2. InFlight' \subseteq InFlight
    BY <1>2, <1>6 DEF LandStray, localVars
  <2>3. QED
    BY <1>1, <1>6, <2>1, <2>2, LandingKeepsSchedule DEF LandStray
<1>7. ASSUME NEW t \in strays, DropStray(t) PROVE Schedule!Next
  BY <1>2, <1>7, AskedShrinks
  DEF DropStray, chainVars, localVars, Schedule!chain, Schedule!Next
<1>8. ASSUME NEW tx \in Txs, ThirdPartyCrank(tx) PROVE Schedule!Start \/ Schedule!Settle
  <2>1. IF tx.cron THEN tx \in InFlight ELSE Outsiders
    BY <1>8 DEF ThirdPartyCrank, Outsiders
  <2>2. InFlight' \subseteq InFlight
    BY <1>2, <1>8 DEF ThirdPartyCrank, localVars
  <2>3. QED
    BY <1>8, <2>1, <2>2, LandingKeepsSchedule DEF ThirdPartyCrank
<1>9. CASE UNCHANGED vars
  BY <1>2, <1>9, AskedShrinks
  DEF vars, chainVars, localVars, Schedule!chain, Schedule!Next
<1>10. QED
  BY <1>3, <1>4, <1>5, <1>6, <1>7, <1>8, <1>9 DEF Next, Schedule!Next

LEMMA InitKeepsSchedule == Init => Schedule!Init
<1> SUFFICES ASSUME Init PROVE Schedule!Init
  OBVIOUS
<1>1. InFlight = {}
  BY DEF Init, InFlight, Sent
<1>2. CronAsks("start") = {} /\ CronAsks("settle") = {}
  BY <1>1 DEF CronAsks
<1>3. QED
  BY <1>2 DEF Init, Schedule!Init

(* The game loop implements the schedule: whatever is stale, lost or late, the *)
(* crons ask only for what is due, and rounds move one after the other because *)
(* they or an outsider asked.                                                  *)
THEOREM ScheduleImplemented == Spec => ImplementsSchedule
<1>1. QED
  BY InitKeepsSchedule, StepKeepsSchedule, GameIsSafe, UnscheduledComeFromOneShots, PTL
  DEF Spec, ImplementsSchedule, Schedule!Spec

(* Where only crons crank, any number of them, no round is settled before its  *)
(* crank slot and none follows another before that: the intermission the game  *)
(* is configured with is never cut short.                                      *)
RoundsMoveOnTime ==
  [][cur' # cur \/ open' # open => cur = 0 \/ slot >= CrankSlot(cur)]_vars

THEOREM CronsAloneKeepTime ==
  ASSUME ~ThirdParties, OneShots = {}
  PROVE  Spec => RoundsMoveOnTime
<1>1. ASSUME GameInvariant, StraysHaveSenders, [Next]_vars, cur' # cur \/ open' # open
      PROVE  cur = 0 \/ slot >= CrankSlot(cur)
  <2>1. CronTxsAreDue
    BY <1>1, SentTxIsDue DEF GameInvariant, StraysStayDue, CronTxsAreDue, InFlight
  <2>2. /\ CronAsks("start") \subseteq {n \in 1..MaxRound : Schedule!CrankDue(n - 1)}
        /\ CronAsks("settle") \subseteq {n \in 1..cur : Schedule!CrankDue(n)}
    <3>1. \A tx \in InFlight : tx \in Txs
      BY <1>1, SentTxIsDue DEF GameInvariant, TypeOK, InFlight
    <3>2. QED
      BY <2>1, <3>1 DEF CronAsks, CronTxsAreDue, Due, Txs, Schedule!CrankDue
  <2>3. Schedule!Start \/ Schedule!Settle
    BY <1>1, StepKeepsSchedule
    DEF Schedule!Next, Schedule!SlotPasses, Schedule!AskStart, Schedule!AskSettle,
        Schedule!vars, Schedule!chain
  <2>4. cur \in Nat /\ (cur + 1) - 1 = cur
    BY <1>1, ConstantsAssumption DEF GameInvariant, TypeOK
  <2>5. Schedule!CrankDue(cur)
    BY <2>2, <2>3, <2>4 DEF Schedule!Start, Schedule!Settle
  <2>6. QED
    BY <2>5 DEF Schedule!CrankDue, CrankSlot
<1>2. QED
  BY <1>1, GameIsSafe, UnscheduledComeFromOneShots, PTL DEF Spec, RoundsMoveOnTime

===============================================================================
