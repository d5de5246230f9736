------------------------------- MODULE GameLoop -------------------------------
(* The mining-game cranker (src/src/game_loop.rs): every tick of               *)
(* tick_game_loop reads the config, the slot and the round, and sends at most  *)
(* one start_round or settle_round.  `start-round` processes run start_round   *)
(* alone.  Both instructions are permissionless, so anyone may send them too.  *)
(*                                                                             *)
(* Abstractions.  The RPC node serves a snapshot `view` of the chain that lags *)
(* behind it (finalized commitment) and only moves forward.  The game is       *)
(* initialised.  Rounds last RoundSlots slots.                                 *)
EXTENDS Naturals, FiniteSets

CONSTANTS Crons,          \* processes running start_game_loop_cron
          OneShots,       \* processes running `start-round`
          ThirdParties,   \* does anyone else crank as well?
          RoundSlots,     \* slots a round is open
          Intermission,   \* intermission_slots of GameConfig
          MaxRound,       \* bound: rounds started
          MaxStrays       \* bound: abandoned transactions pending at once

ASSUME ConstantsAssumption ==
  /\ Crons \cap OneShots = {}
  /\ ThirdParties \in BOOLEAN
  /\ RoundSlots \in Nat
  /\ Intermission \in Nat
  /\ MaxRound \in Nat
  /\ MaxStrays \in Nat

Keepers == Crons \cup OneShots

VARIABLES slot,       \* slot of the chain
          cur,        \* GameConfig.current_round_id
          open,       \* is round cur unsettled?
          ends,       \* end_slot of each round started
          view,       \* the chain as the RPC node shows it
          strays,     \* transactions sent that nobody waits for any more
          pc,         \* where each keeper is in its tick
          cfg,        \* config.current_round_id it read
          now         \* current_slot it read

chainVars == <<slot, cur, open, ends>>
localVars == <<pc, cfg, now>>
vars == <<chainVars, view, strays, localVars>>

Phases == {"idle", "config", "slot", "settle", "preflight", "guard", "submit",
           "startSent", "settleSent", "confirming"}

Chain == [slot |-> slot, cur |-> cur, open |-> open]

(* Here and below, a definition named for a plausible bug is a mutant of the   *)
(* one after it; no action uses it.                                            *)
CrankSlotAtEnd(n) == ends[n]

(* crank_slot of round n.                                                      *)
CrankSlot(n) == ends[n] + Intermission

ShownAtAll(n) == n \in 1..view.cur

(* Round n as the RPC node shows it: there, and not settled.                   *)
ShownUnsettled(n) == n = view.cur /\ view.open

RoundAfterNext(p) == cfg[p] + 2

(* next_round_id, checked_add(1).                                              *)
NextRound(p) == cfg[p] + 1

-------------------------------------------------------------------------------
(* The chain, external.                                                        *)

StartTx(n, cron) == [kind |-> "start", round |-> n, cron |-> cron]
SettleTx(n, cron) == [kind |-> "settle", round |-> n, cron |-> cron]

Txs == [kind : {"start", "settle"}, round : 1..MaxRound, cron : BOOLEAN]

(* start_round creates the next round once the previous one is settled         *)
(* (RoundNotSettled otherwise); settle_round settles an open round that ended. *)
Accepts(tx) == IF tx.kind = "start"
               THEN tx.round = cur + 1 /\ ~open
               ELSE tx.round = cur /\ open /\ slot >= ends[cur]

Apply(tx) == IF tx.kind = "start"
             THEN /\ cur' = tx.round
                  /\ open' = TRUE
                  /\ ends' = [ends EXCEPT ![tx.round] = slot + RoundSlots]
                  /\ UNCHANGED slot
             ELSE /\ open' = FALSE
                  /\ UNCHANGED <<slot, cur, ends>>

(* Slots pass.  Beyond the crank slot of the current round more of them change *)
(* no guard, so the bound stops them there.                                    *)
SlotPasses ==
  /\ cur > 0
  /\ slot < CrankSlot(cur)
  /\ slot' = slot + 1
  /\ UNCHANGED <<cur, open, ends, view, strays, localVars>>

ViewCatchesUp ==
  /\ view # Chain
  /\ view' = Chain
  /\ UNCHANGED <<chainVars, strays, localVars>>

(* Anyone else cranks.                                                         *)
ThirdPartyCrank(tx) ==
  /\ ThirdParties
  /\ ~tx.cron
  /\ Accepts(tx)
  /\ Apply(tx)
  /\ UNCHANGED <<view, strays, localVars>>

-------------------------------------------------------------------------------
Init ==
  /\ slot = 0
  /\ cur = 0
  /\ open = FALSE
  /\ ends = [n \in 1..MaxRound |-> 0]
  /\ view = [slot |-> 0, cur |-> 0, open |-> FALSE]
  /\ strays = {}
  /\ pc = [p \in Keepers |-> "idle"]
  /\ cfg = [p \in Keepers |-> 0]
  /\ now = [p \in Keepers |-> 0]

Goto(p, phase) == pc' = [pc EXCEPT ![p] = phase]

EndTick(p) == /\ Goto(p, "idle")
              /\ cfg' = [cfg EXCEPT ![p] = 0]
              /\ now' = [now EXCEPT ![p] = 0]

(* load_game_config.  A one-shot goes straight to start_round.                 *)
ReadConfig(p) ==
  /\ pc[p] = "idle"
  /\ cfg' = [cfg EXCEPT ![p] = view.cur]
  /\ Goto(p, IF p \in OneShots THEN "preflight" ELSE "config")
  /\ UNCHANGED <<chainVars, view, strays, now>>

(* get_slot; with no round yet the tick starts the first one.                  *)
ReadSlot(p) ==
  /\ pc[p] = "config"
  /\ now' = [now EXCEPT ![p] = view.slot]
  /\ Goto(p, IF cfg[p] = 0 THEN "preflight" ELSE "slot")
  /\ UNCHANGED <<chainVars, view, strays, cfg>>

(* load_game_round of the current round, and the decision: before the crank    *)
(* slot nothing is due; after it an open round is settled, and a settled one   *)
(* followed.                                                                   *)
ReadRoundNotDue(p) ==
  /\ pc[p] = "slot"
  /\ now[p] < CrankSlot(cfg[p])
  /\ EndTick(p)
  /\ UNCHANGED <<chainVars, view, strays>>

ReadRoundDue(p) ==
  /\ pc[p] = "slot"
  /\ now[p] >= CrankSlot(cfg[p])
  /\ Goto(p, IF ShownUnsettled(cfg[p]) THEN "settle" ELSE "preflight")
  /\ UNCHANGED <<chainVars, view, strays, cfg, now>>

(* First guard of start_round: the target round is active.  An RPC error reads *)
(* as a missing account and lets the start through.                            *)
PreflightSkips(p) ==
  /\ pc[p] = "preflight"
  /\ ShownUnsettled(NextRound(p))
  /\ EndTick(p)
  /\ UNCHANGED <<chainVars, view, strays>>

PreflightPasses(p) ==
  /\ pc[p] = "preflight"
  /\ Goto(p, IF cfg[p] > 0 THEN "guard" ELSE "submit")
  /\ UNCHANGED <<chainVars, view, strays, cfg, now>>

(* Second guard: the previous round is unsettled.  It fails open as well.      *)
GuardSkips(p) ==
  /\ pc[p] = "guard"
  /\ ShownUnsettled(cfg[p])
  /\ EndTick(p)
  /\ UNCHANGED <<chainVars, view, strays>>

GuardPasses(p) ==
  /\ pc[p] = "guard"
  /\ Goto(p, "submit")
  /\ UNCHANGED <<chainVars, view, strays, cfg, now>>

SubmitStart(p) ==
  /\ pc[p] = "submit"
  /\ cfg[p] < MaxRound
  /\ Goto(p, "startSent")
  /\ UNCHANGED <<chainVars, view, strays, cfg, now>>

(* load_deployments only feeds the log; settle_round takes no player account.  *)
SubmitSettle(p) ==
  /\ pc[p] = "settle"
  /\ Goto(p, "settleSent")
  /\ UNCHANGED <<chainVars, view, strays, cfg, now>>

(* A read or the blockhash fails; the round account cannot be read.            *)
FailTick(p) ==
  /\ pc[p] \in {"config", "slot", "settle", "submit"}
  /\ EndTick(p)
  /\ UNCHANGED <<chainVars, view, strays>>

Sent(p) == pc[p] \in {"startSent", "settleSent"}

TxOf(p) == IF pc[p] = "startSent" THEN StartTx(NextRound(p), p \in Crons)
                                  ELSE SettleTx(cfg[p], p \in Crons)

LandOwn(p) ==
  /\ Sent(p)
  /\ Accepts(TxOf(p))
  /\ Apply(TxOf(p))
  /\ Goto(p, "confirming")
  /\ UNCHANGED <<view, strays, cfg, now>>

RejectOwn(p) ==
  /\ Sent(p)
  /\ ~Accepts(TxOf(p))
  /\ EndTick(p)
  /\ UNCHANGED <<chainVars, view, strays>>

(* send_and_confirm_transaction returns once the node shows the transaction.   *)
Confirm(p) ==
  /\ pc[p] = "confirming"
  /\ view = Chain
  /\ EndTick(p)
  /\ UNCHANGED <<chainVars, view, strays>>

(* The confirmation gives up, or the process dies and restarts: whatever was   *)
(* sent may still land.                                                        *)
Interrupt(p) ==
  /\ pc[p] # "idle"
  /\ IF Sent(p) THEN /\ Cardinality(strays) < MaxStrays
                     /\ strays' = strays \cup {TxOf(p)}
                ELSE UNCHANGED strays
  /\ EndTick(p)
  /\ UNCHANGED <<chainVars, view>>

LandStray(t) ==
  /\ t \in strays
  /\ Accepts(t)
  /\ Apply(t)
  /\ strays' = strays \ {t}
  /\ UNCHANGED <<view, localVars>>

DropStray(t) ==
  /\ t \in strays
  /\ strays' = strays \ {t}
  /\ UNCHANGED <<chainVars, view, localVars>>

-------------------------------------------------------------------------------
Tick(p) == \/ ReadConfig(p)
           \/ ReadSlot(p)
           \/ ReadRoundNotDue(p)
           \/ ReadRoundDue(p)
           \/ PreflightSkips(p)
           \/ PreflightPasses(p)
           \/ GuardSkips(p)
           \/ GuardPasses(p)
           \/ SubmitStart(p)
           \/ SubmitSettle(p)
           \/ FailTick(p)
           \/ LandOwn(p)
           \/ RejectOwn(p)
           \/ Confirm(p)
           \/ Interrupt(p)

Next == \/ \E p \in Keepers : Tick(p)
        \/ SlotPasses
        \/ ViewCatchesUp
        \/ \E t \in strays : LandStray(t) \/ DropStray(t)
        \/ \E tx \in Txs : ThirdPartyCrank(tx)

Spec == Init /\ [][Next]_vars

(* Slots pass, the node keeps up, and a cron step that stays possible happens: *)
(* the interval ticks and no error lasts for ever.                             *)
CronFairness(p) ==
  /\ SF_vars(ReadConfig(p))
  /\ SF_vars(ReadSlot(p))
  /\ SF_vars(ReadRoundDue(p))
  /\ WF_vars(ReadRoundNotDue(p))
  /\ WF_vars(PreflightSkips(p))
  /\ SF_vars(~ShownUnsettled(NextRound(p)) /\ PreflightPasses(p))
  /\ WF_vars(GuardSkips(p))
  /\ SF_vars(~ShownUnsettled(cfg[p]) /\ GuardPasses(p))
  /\ SF_vars(SubmitStart(p))
  /\ SF_vars(SubmitSettle(p))
  /\ SF_vars(LandOwn(p))
  /\ WF_vars(RejectOwn(p))
  /\ WF_vars(Confirm(p))

FairSpec == /\ Spec
            /\ WF_vars(SlotPasses)
            /\ WF_vars(ViewCatchesUp)
            /\ \A p \in Crons : CronFairness(p)

-------------------------------------------------------------------------------
(* Properties *)

TypeOK ==
  /\ slot \in Nat
  /\ cur \in 0..MaxRound
  /\ open \in BOOLEAN
  /\ ends \in [1..MaxRound -> Nat]
  /\ view \in [slot : Nat, cur : 0..MaxRound, open : BOOLEAN]
  /\ strays \subseteq Txs
  /\ pc \in [Keepers -> Phases]
  /\ cfg \in [Keepers -> 0..MaxRound]
  /\ now \in [Keepers -> Nat]

Settled(n) == n < cur \/ (n = cur /\ ~open)

(* The schedule the keeper promises: the first round at once, every other      *)
(* crank after the intermission, a start only after a settled round.           *)
Due(tx) ==
  \/ tx.kind = "start" /\ tx.round = 1
  \/ /\ tx.kind = "start"
     /\ tx.round > 1
     /\ Settled(tx.round - 1)
     /\ slot >= ends[tx.round - 1] + Intermission
  \/ /\ tx.kind = "settle"
     /\ tx.round \in 1..cur
     /\ slot >= ends[tx.round] + Intermission

InFlight == strays \cup {TxOf(p) : p \in {k \in Keepers : Sent(k)}}

(* Whatever a cron has sent, however stale its reads were and however late it  *)
(* lands, the chain had reached the slot the schedule asks for.                *)
CronTxsAreDue == \A tx \in InFlight : tx.cron => Due(tx)

(* The node never shows what has not happened, and no keeper knows more than   *)
(* the node showed it.                                                         *)
ReadsAreHistory ==
  /\ view.slot <= slot
  /\ view.cur <= cur
  /\ view.cur = cur /\ ~view.open => ~open
  /\ \A p \in Keepers : cfg[p] <= view.cur /\ now[p] <= view.slot

(* A cron past its decision made it about a round whose crank slot has come,   *)
(* and on the way to a start that round is settled.                            *)
DecisionsStayDue ==
  \A p \in Crons :
    /\ pc[p] = "slot" => cfg[p] > 0
    /\ pc[p] \in {"preflight", "guard", "submit", "startSent"} /\ cfg[p] > 0 =>
         Settled(cfg[p]) /\ slot >= ends[cfg[p]] + Intermission
    /\ pc[p] \in {"settle", "settleSent"} =>
         cfg[p] > 0 /\ slot >= ends[cfg[p]] + Intermission

(* A one-shot only ever starts a round; nobody starts one beyond the bound.    *)
OneShotsOnlyStart ==
  /\ \A p \in OneShots : pc[p] \notin {"config", "slot", "settle", "settleSent"}
  /\ \A p \in Keepers : pc[p] = "startSent" => cfg[p] < MaxRound

StraysStayDue == \A tx \in strays : tx.cron => Due(tx)

(* The inductive invariant.                                                    *)
GameInvariant ==
  /\ TypeOK
  /\ ReadsAreHistory
  /\ DecisionsStayDue
  /\ OneShotsOnlyStart
  /\ StraysStayDue

(* Every round is opened and settled, with crashes, lost confirmations, a      *)
(* lagging node and other crankers in between.                                 *)
EveryRoundSettles == <>(cur = MaxRound /\ ~open)

(* The rounds a cron has a transaction of this kind in flight for.             *)
CronAsks(kind) == {tx.round : tx \in {t \in InFlight : t.cron /\ t.kind = kind}}

Schedule == INSTANCE RoundSchedule
            WITH Outsiders <- ThirdParties \/ OneShots # {},
                 starts <- CronAsks("start"),
                 settles <- CronAsks("settle")

(* Stale reads, fail-open guards, crashes and late transactions come to no     *)
(* more than this: the crons ask for what is due, and rounds move because they *)
(* or an outsider asked.                                                       *)
ImplementsSchedule == Schedule!Spec
===============================================================================
