----------------------------- MODULE Leaderboard -----------------------------
(* The daily league leaderboard (src/src/leaderboard.rs): one statement ranks  *)
(* the eligible protocols and inserts the top-N rows of CURRENT_DATE, a second *)
(* one awards a bonus to the rows of CURRENT_DATE.  Each commits by itself, so *)
(* midnight, a crash, a database error or another tick may fall in between.    *)
(*                                                                             *)
(* Abstractions.  A ranking is any order of the eligible protocols, since the  *)
(* signal may shift between two ticks; what hides a protocol is left open.     *)
(* Both tables are sets of rows, and the unique indexes are the guards of the  *)
(* inserts: ON CONFLICT DO NOTHING skips a row that one of them refuses.       *)
EXTENDS Naturals, FiniteSets

CONSTANTS Keepers,     \* processes running start_leaderboard_cron
          Protocols,
          TopN,        \* leaderboard_top_n
          MaxDate      \* bound: days that pass

ASSUME ConstantsAssumption ==
  /\ IsFiniteSet(Protocols)
  /\ TopN \in Nat
  /\ MaxDate \in Nat

VARIABLES date,        \* CURRENT_DATE
          hidden,      \* protocols that are hidden, or not active
          shownOn,     \* history: who was not, at some time of each day
          snapshots,   \* rows of league_leaderboard_snapshots
          bonuses,     \* rows of rewardz_earnings with reason leaderboard:<date>
          pc,          \* where each keeper is in its tick
          plan         \* the rows its first statement is about to insert

vars == <<date, hidden, shownOn, snapshots, bonuses, pc, plan>>

Dates == 0..MaxDate

Snapshots == [date : Dates, rank : 1..TopN, protocol : Protocols]

Bonuses == [date : Dates, protocol : Protocols]

-------------------------------------------------------------------------------
(* Here and below, a definition named for a plausible bug is a mutant of the   *)
(* one after it; no action uses it.                                            *)
EligibleWhateverVisibility == Protocols

(* status = 'active' AND visibility <> 'hidden'.                               *)
Eligible == Protocols \ hidden

(* ROW_NUMBER() over the eligible protocols: any order of them.                *)
Rankings ==
  {rk \in [Eligible -> 1..Cardinality(Eligible)] :
     \A p, q \in Eligible : rk[p] = rk[q] => p = q}

(* The rows the first statement selects: WHERE rk <= $1.                       *)
Selected(rk) ==
  {row \in [date : {date}, rank : 1..TopN, protocol : DOMAIN rk] :
     row.rank = rk[row.protocol]}

ConflictsOnProtocolOnly(row) ==
  \E s \in snapshots : s.date = row.date /\ s.protocol = row.protocol

(* Migration 040: (snapshot_date, rank) and (snapshot_date, protocol_id).      *)
Conflicts(row) ==
  \E s \in snapshots :
    /\ s.date = row.date
    /\ s.rank = row.rank \/ s.protocol = row.protocol

AwardedFromRanking == {[date |-> date, protocol |-> p] : p \in Eligible}

(* What the second statement selects, in the snapshot table and not in the     *)
(* ranking.  Awarding a row twice does nothing (migration 045).                *)
Awarded == {[date |-> s.date, protocol |-> s.protocol] :
              s \in {t \in snapshots : t.date = date}}

-------------------------------------------------------------------------------
Init ==
  /\ date = 0
  /\ hidden \in SUBSET Protocols
  /\ shownOn = [d \in Dates |-> IF d = 0 THEN Protocols \ hidden ELSE {}]
  /\ snapshots = {}
  /\ bonuses = {}
  /\ pc = [k \in Keepers |-> "idle"]
  /\ plan = [k \in Keepers |-> {}]

(* The first statement starts: it fixes CURRENT_DATE and sees who is eligible. *)
Rank(k, rk) ==
  /\ pc[k] = "idle"
  /\ plan' = [plan EXCEPT ![k] = Selected(rk)]
  /\ pc' = [pc EXCEPT ![k] = "insert"]
  /\ UNCHANGED <<date, hidden, shownOn, snapshots, bonuses>>

(* It commits.  Rows that were in the way by then are skipped, and a statement *)
(* that inserted nothing ends the tick.                                        *)
InsertSnapshot(k) ==
  LET new == {row \in plan[k] : ~Conflicts(row)} IN
  /\ pc[k] = "insert"
  /\ snapshots' = snapshots \cup new
  /\ pc' = [pc EXCEPT ![k] = IF new = {} THEN "idle" ELSE "award"]
  /\ plan' = [plan EXCEPT ![k] = {}]
  /\ UNCHANGED <<date, hidden, shownOn, bonuses>>

(* The second statement, on the CURRENT_DATE of its own start.                 *)
AwardBonuses(k) ==
  /\ pc[k] = "award"
  /\ bonuses' = bonuses \cup Awarded
  /\ pc' = [pc EXCEPT ![k] = "idle"]
  /\ UNCHANGED <<date, hidden, shownOn, snapshots, plan>>

(* A statement fails, or the process dies and restarts.                        *)
FailTick(k) ==
  /\ pc[k] # "idle"
  /\ pc' = [pc EXCEPT ![k] = "idle"]
  /\ plan' = [plan EXCEPT ![k] = {}]
  /\ UNCHANGED <<date, hidden, shownOn, snapshots, bonuses>>

(* visibility_tick, or anything else that writes status or visibility.         *)
ChangeVisibility(p) ==
  /\ hidden' = IF p \in hidden THEN hidden \ {p} ELSE hidden \cup {p}
  /\ shownOn' = [shownOn EXCEPT ![date] = @ \cup (Protocols \ hidden')]
  /\ UNCHANGED <<date, snapshots, bonuses, pc, plan>>

Midnight ==
  /\ date < MaxDate
  /\ date' = date + 1
  /\ shownOn' = [shownOn EXCEPT ![date + 1] = Protocols \ hidden]
  /\ UNCHANGED <<hidden, snapshots, bonuses, pc, plan>>

Next == \/ \E k \in Keepers : \/ \E rk \in Rankings : Rank(k, rk)
                              \/ InsertSnapshot(k)
                              \/ AwardBonuses(k)
                              \/ FailTick(k)
        \/ \E p \in Protocols : ChangeVisibility(p)
        \/ Midnight

Spec == Init /\ [][Next]_vars

-------------------------------------------------------------------------------
(* Properties *)

TypeOK ==
  /\ date \in Dates
  /\ hidden \subseteq Protocols
  /\ shownOn \in [Dates -> SUBSET Protocols]
  /\ snapshots \subseteq Snapshots
  /\ bonuses \subseteq Bonuses
  /\ pc \in [Keepers -> {"idle", "insert", "award"}]
  /\ plan \in [Keepers -> SUBSET Snapshots]

(* A day costs at most TopN bonuses, however many ticks, keepers, crashes and  *)
(* shifts of the ranking the day sees.                                         *)
BudgetPerDate ==
  \A d \in Dates : Cardinality({b \in bonuses : b.date = d}) <= TopN

(* No protocol has two ranks on a day, and no rank two protocols.              *)
Distinct(rows) ==
  \A s, t \in rows : s.date = t.date /\ (s.rank = t.rank \/ s.protocol = t.protocol) => s = t

RanksAreDistinct == /\ Distinct(snapshots)
                    /\ \A k \in Keepers : Distinct(plan[k])

(* "Source-of-truth is the snapshot table": a bonus is backed by a row of the  *)
(* same day for the same protocol.                                             *)
BonusesAreBacked ==
  \A b \in bonuses : \E s \in snapshots : s.date = b.date /\ s.protocol = b.protocol

(* "Hidden protocols can't earn the bonus": one that was hidden or inactive    *)
(* all day earns nothing for that day, though the statements run later and     *)
(* perhaps after midnight.                                                     *)
HiddenEarnNothing == \A b \in bonuses : b.protocol \in shownOn[b.date]

RowsWereEligible ==
  /\ Protocols \ hidden \subseteq shownOn[date]
  /\ \A s \in snapshots : s.protocol \in shownOn[s.date] /\ s.date <= date
  /\ \A k \in Keepers : \A s \in plan[k] : s.protocol \in shownOn[s.date] /\ s.date <= date

(* The inductive invariant.                                                    *)
LeaderboardInvariant ==
  /\ TypeOK
  /\ RanksAreDistinct
  /\ BonusesAreBacked
  /\ RowsWereEligible

(* "the bonus row count always equals the snapshot row count": once no tick is *)
(* under way, each row has its bonus.                                          *)
EveryRowIsAwarded ==
  (\A k \in Keepers : pc[k] = "idle") =>
    \A s \in snapshots : [date |-> s.date, protocol |-> s.protocol] \in bonuses
===============================================================================
