-------------------------- MODULE LeaderboardProofs --------------------------
(* For any keepers, protocols, league size and number of days: the snapshot is *)
(* a partial ranking, and the bonuses of a day are backed by it.               *)
EXTENDS Leaderboard, FiniteSetTheorems, TLAPS

USE ConstantsAssumption DEF Dates

(* A statement plans distinct ranks for eligible protocols, of its own date.   *)
LEMMA SelectedIsRanking ==
  ASSUME TypeOK, NEW rk \in Rankings
  PROVE  /\ Selected(rk) \subseteq Snapshots
         /\ Distinct(Selected(rk))
         /\ \A s \in Selected(rk) : s.date = date /\ s.protocol \in Protocols \ hidden
<1>1. DOMAIN rk = Protocols \ hidden
  BY DEF Rankings, Eligible
<1>2. Selected(rk) \subseteq Snapshots
  BY <1>1 DEF Selected, Snapshots, TypeOK
<1>3. ASSUME NEW s \in Selected(rk), NEW t \in Selected(rk),
             s.rank = t.rank \/ s.protocol = t.protocol
      PROVE  s = t
  <2>1. /\ s \in [date : {date}, rank : 1..TopN, protocol : DOMAIN rk]
        /\ t \in [date : {date}, rank : 1..TopN, protocol : DOMAIN rk]
        /\ s.rank = rk[s.protocol] /\ t.rank = rk[t.protocol]
    BY DEF Selected
  <2>2. s.protocol = t.protocol
    BY <1>1, <1>3, <2>1 DEF Rankings, Eligible
  <2>3. QED
    BY <2>1, <2>2
<1>4. QED
  BY <1>1, <1>2, <1>3 DEF Distinct, Selected

LEMMA RankIsSafe ==
  ASSUME LeaderboardInvariant, NEW k \in Keepers, NEW rk \in Rankings, Rank(k, rk)
  PROVE  LeaderboardInvariant'
<1>1. /\ Selected(rk) \subseteq Snapshots
      /\ Distinct(Selected(rk))
      /\ \A s \in Selected(rk) : s.date = date /\ s.protocol \in Protocols \ hidden
  BY SelectedIsRanking DEF LeaderboardInvariant
<1>2. /\ plan \in [Keepers -> SUBSET Snapshots]
      /\ plan' = [plan EXCEPT ![k] = Selected(rk)]
      /\ date \in Nat
  BY DEF LeaderboardInvariant, TypeOK, Rank
<1>3. TypeOK'
  BY <1>1, <1>2 DEF LeaderboardInvariant, TypeOK, Rank
<1>4. \A j \in Keepers : plan'[j] = IF j = k THEN Selected(rk) ELSE plan[j]
  BY <1>2
<1>5. RanksAreDistinct'
  <2>1. Distinct(snapshots)' /\ \A j \in Keepers \ {k} : Distinct(plan[j])'
    BY <1>4 DEF LeaderboardInvariant, RanksAreDistinct, Distinct, Rank
  <2>2. Distinct(plan[k])'
    BY <1>1, <1>4 DEF Distinct
  <2>3. QED
    BY <2>1, <2>2 DEF RanksAreDistinct
<1>6. RowsWereEligible'
  <2>1. \A s \in Selected(rk) : s.protocol \in shownOn[s.date] /\ s.date <= date
    BY <1>1, <1>2 DEF LeaderboardInvariant, RowsWereEligible
  <2>2. QED
    BY <1>4, <2>1 DEF LeaderboardInvariant, RowsWereEligible, Rank
<1>7. BonusesAreBacked'
  BY DEF LeaderboardInvariant, BonusesAreBacked, Rank
<1>8. QED
  BY <1>3, <1>5, <1>6, <1>7 DEF LeaderboardInvariant

LEMMA InsertSnapshotIsSafe ==
  ASSUME LeaderboardInvariant, NEW k \in Keepers, InsertSnapshot(k)
  PROVE  LeaderboardInvariant'
<1> DEFINE new == {row \in plan[k] : ~Conflicts(row)}
<1>1. /\ snapshots' = snapshots \cup new
      /\ plan' = [plan EXCEPT ![k] = {}]
      /\ pc' = [pc EXCEPT ![k] = IF new = {} THEN "idle" ELSE "award"]
      /\ UNCHANGED <<date, hidden, shownOn, bonuses>>
  BY DEF InsertSnapshot
<1>2. new \subseteq plan[k] /\ \A row \in new : ~Conflicts(row)
  OBVIOUS
<1> HIDE DEF new
<1>3. plan \in [Keepers -> SUBSET Snapshots]
  BY DEF LeaderboardInvariant, TypeOK
<1>4. \A j \in Keepers : plan'[j] \subseteq plan[j]
  BY <1>1, <1>3
<1>5. TypeOK'
  <2>1. snapshots' \subseteq Snapshots /\ plan' \in [Keepers -> SUBSET Snapshots]
    BY <1>1, <1>2, <1>3 DEF LeaderboardInvariant, TypeOK
  <2>2. pc' \in [Keepers -> {"idle", "insert", "award"}]
    BY <1>1 DEF LeaderboardInvariant, TypeOK
  <2>3. QED
    BY <1>1, <2>1, <2>2 DEF LeaderboardInvariant, TypeOK
<1>6. RanksAreDistinct'
  <2>1. Distinct(snapshots) /\ Distinct(new)
    BY <1>2 DEF LeaderboardInvariant, RanksAreDistinct, Distinct
  <2>2. ASSUME NEW s \in new, NEW t \in snapshots, s.date = t.date
        PROVE  s.rank # t.rank /\ s.protocol # t.protocol
    BY <1>2, <2>2 DEF Conflicts
  <2>3. Distinct(snapshots)'
    BY <1>1, <2>1, <2>2 DEF Distinct
  <2>4. \A j \in Keepers : Distinct(plan[j])'
    BY <1>4 DEF LeaderboardInvariant, RanksAreDistinct, Distinct
  <2>5. QED
    BY <2>3, <2>4 DEF RanksAreDistinct
<1>7. BonusesAreBacked'
  BY <1>1 DEF LeaderboardInvariant, BonusesAreBacked
<1>8. RowsWereEligible'
  BY <1>1, <1>2, <1>4 DEF LeaderboardInvariant, RowsWereEligible
<1>9. QED
  BY <1>5, <1>6, <1>7, <1>8 DEF LeaderboardInvariant

LEMMA AwardBonusesIsSafe ==
  ASSUME LeaderboardInvariant, NEW k \in Keepers, AwardBonuses(k)
  PROVE  LeaderboardInvariant'
<1>1. /\ Awarded \subseteq Bonuses
      /\ \A b \in Awarded : \E s \in snapshots : s.date = b.date /\ s.protocol = b.protocol
  <2> SUFFICES ASSUME NEW s \in snapshots
      PROVE  /\ [date |-> s.date, protocol |-> s.protocol] \in Bonuses
             /\ \E t \in snapshots : t.date = s.date /\ t.protocol = s.protocol
    BY DEF Awarded
  <2>1. QED
    BY DEF LeaderboardInvariant, TypeOK, Snapshots, Bonuses
<1>2. /\ bonuses' = bonuses \cup Awarded
      /\ UNCHANGED <<date, hidden, shownOn, snapshots, plan>>
  BY DEF AwardBonuses
<1>3. TypeOK'
  BY <1>1 DEF LeaderboardInvariant, TypeOK, AwardBonuses
<1>4. BonusesAreBacked'
  BY <1>1, <1>2 DEF LeaderboardInvariant, BonusesAreBacked
<1>5. RanksAreDistinct' /\ RowsWereEligible'
  BY <1>2 DEF LeaderboardInvariant, RanksAreDistinct, Distinct, RowsWereEligible
<1>6. QED
  BY <1>3, <1>4, <1>5 DEF LeaderboardInvariant

LEMMA FailTickIsSafe ==
  ASSUME LeaderboardInvariant, NEW k \in Keepers, FailTick(k)
  PROVE  LeaderboardInvariant'
<1>1. /\ plan' = [plan EXCEPT ![k] = {}]
      /\ UNCHANGED <<date, hidden, shownOn, snapshots, bonuses>>
  BY DEF FailTick
<1>2. \A j \in Keepers : plan'[j] \subseteq plan[j]
  BY <1>1 DEF LeaderboardInvariant, TypeOK
<1>3. TypeOK'
  BY DEF LeaderboardInvariant, TypeOK, FailTick
<1>4. RanksAreDistinct' /\ BonusesAreBacked' /\ RowsWereEligible'
  BY <1>1, <1>2
  DEF LeaderboardInvariant, RanksAreDistinct, Distinct, BonusesAreBacked, RowsWereEligible
<1>5. QED
  BY <1>3, <1>4 DEF LeaderboardInvariant

(* The days change and visibility does: the history of a day only grows.       *)
LEMMA DayGoesOnSafely ==
  ASSUME LeaderboardInvariant,
         hidden' \subseteq Protocols, date' \in Dates, date' >= date,
         shownOn' \in [Dates -> SUBSET Protocols],
         \A d \in Dates : d <= date => shownOn[d] \subseteq shownOn'[d],
         Protocols \ hidden' \subseteq shownOn'[date'],
         UNCHANGED <<snapshots, bonuses, pc, plan>>
  PROVE  LeaderboardInvariant'
<1>1. TypeOK'
  BY DEF LeaderboardInvariant, TypeOK
<1>2. RanksAreDistinct' /\ BonusesAreBacked'
  BY DEF LeaderboardInvariant, RanksAreDistinct, Distinct, BonusesAreBacked
<1>3. RowsWereEligible'
  <2>1. date \in Nat /\ date' \in Nat
    BY DEF LeaderboardInvariant, TypeOK
  <2>2. /\ \A s \in snapshots : s.date \in Dates
        /\ \A k \in Keepers : \A s \in plan[k] : s.date \in Dates
    BY DEF LeaderboardInvariant, TypeOK, Snapshots
  <2>3. /\ \A s \in snapshots : s.protocol \in shownOn'[s.date] /\ s.date <= date'
        /\ \A k \in Keepers : \A s \in plan[k] : s.protocol \in shownOn'[s.date] /\ s.date <= date'
    BY <2>1, <2>2 DEF LeaderboardInvariant, RowsWereEligible
  <2>4. QED
    BY <2>3 DEF RowsWereEligible
<1>4. QED
  BY <1>1, <1>2, <1>3 DEF LeaderboardInvariant

LEMMA ChangeVisibilityIsSafe ==
  ASSUME LeaderboardInvariant, NEW p \in Protocols, ChangeVisibility(p)
  PROVE  LeaderboardInvariant'
<1>1. date \in Dates /\ date <= date /\ shownOn \in [Dates -> SUBSET Protocols]
  BY DEF LeaderboardInvariant, TypeOK
<1>2. hidden' \subseteq Protocols
  BY DEF LeaderboardInvariant, TypeOK, ChangeVisibility
<1>3. /\ date' = date /\ UNCHANGED <<snapshots, bonuses, pc, plan>>
      /\ shownOn' = [shownOn EXCEPT ![date] = @ \cup (Protocols \ hidden')]
  BY DEF ChangeVisibility
<1>4. /\ shownOn' \in [Dates -> SUBSET Protocols]
      /\ \A d \in Dates : shownOn[d] \subseteq shownOn'[d]
      /\ Protocols \ hidden' \subseteq shownOn'[date']
  BY <1>1, <1>3
<1>5. QED
  BY <1>1, <1>2, <1>3, <1>4, DayGoesOnSafely

LEMMA MidnightIsSafe ==
  ASSUME LeaderboardInvariant, Midnight
  PROVE  LeaderboardInvariant'
<1>1. /\ date \in Nat /\ date' = date + 1 /\ date' \in Dates /\ date' >= date
      /\ hidden' \subseteq Protocols
      /\ shownOn \in [Dates -> SUBSET Protocols]
      /\ shownOn' = [shownOn EXCEPT ![date'] = Protocols \ hidden']
      /\ UNCHANGED <<snapshots, bonuses, pc, plan>>
  BY DEF LeaderboardInvariant, TypeOK, Midnight
<1>2. /\ shownOn' \in [Dates -> SUBSET Protocols]
      /\ \A d \in Dates : d <= date => shownOn[d] \subseteq shownOn'[d]
      /\ Protocols \ hidden' \subseteq shownOn'[date']
  BY <1>1
<1>3. QED
  BY <1>1, <1>2, DayGoesOnSafely

-------------------------------------------------------------------------------

LEMMA NextIsSafe == LeaderboardInvariant /\ [Next]_vars => LeaderboardInvariant'
<1> SUFFICES ASSUME LeaderboardInvariant, [Next]_vars PROVE LeaderboardInvariant'
  OBVIOUS
<1>1. ASSUME NEW k \in Keepers, NEW rk \in Rankings, Rank(k, rk)
      PROVE  LeaderboardInvariant'
  BY <1>1, RankIsSafe
<1>2. ASSUME NEW k \in Keepers, InsertSnapshot(k) PROVE LeaderboardInvariant'
  BY <1>2, InsertSnapshotIsSafe
<1>3. ASSUME NEW k \in Keepers, AwardBonuses(k) PROVE LeaderboardInvariant'
  BY <1>3, AwardBonusesIsSafe
<1>4. ASSUME NEW k \in Keepers, FailTick(k) PROVE LeaderboardInvariant'
  BY <1>4, FailTickIsSafe
<1>5. ASSUME NEW p \in Protocols, ChangeVisibility(p) PROVE LeaderboardInvariant'
  BY <1>5, ChangeVisibilityIsSafe
<1>6. CASE Midnight
  BY <1>6, MidnightIsSafe
<1>7. CASE UNCHANGED vars
  BY <1>7
  DEF vars, LeaderboardInvariant, TypeOK, RanksAreDistinct, Distinct, BonusesAreBacked,
      RowsWereEligible
<1>8. QED
  BY <1>1, <1>2, <1>3, <1>4, <1>5, <1>6, <1>7 DEF Next

LEMMA InitIsSafe == Init => LeaderboardInvariant
<1> SUFFICES ASSUME Init PROVE LeaderboardInvariant
  OBVIOUS
<1>1. 0 \in Dates /\ shownOn \in [Dates -> SUBSET Protocols] /\ shownOn[0] = Protocols \ hidden
  BY DEF Init
<1>2. TypeOK
  BY <1>1 DEF Init, TypeOK
<1>3. RanksAreDistinct /\ BonusesAreBacked /\ RowsWereEligible
  BY <1>1 DEF Init, RanksAreDistinct, Distinct, BonusesAreBacked, RowsWereEligible
<1>4. QED
  BY <1>2, <1>3 DEF LeaderboardInvariant

(* The snapshot is a partial ranking of protocols that were eligible, and it   *)
(* backs every bonus.                                                          *)
THEOREM LeaderboardIsSafe == Spec => []LeaderboardInvariant
<1>1. QED
  BY InitIsSafe, NextIsSafe, PTL DEF Spec

(* The bonuses of a day map into the ranks 1..TopN, no two to the same.        *)
LEMMA BackedBonusesFitBudget == LeaderboardInvariant => BudgetPerDate
<1> SUFFICES ASSUME LeaderboardInvariant, NEW d \in Dates
             PROVE  Cardinality({b \in bonuses : b.date = d}) <= TopN
  BY DEF BudgetPerDate
<1> DEFINE paid == {b \in bonuses : b.date = d}
           rowOf(b) == CHOOSE s \in snapshots : s.date = b.date /\ s.protocol = b.protocol
           rankOf == [b \in paid |-> rowOf(b).rank]
<1>1. \A b \in paid : /\ rowOf(b) \in snapshots
                      /\ rowOf(b).date = d /\ rowOf(b).protocol = b.protocol
  BY DEF LeaderboardInvariant, BonusesAreBacked
<1>2. \A b \in paid : rowOf(b).rank \in 1..TopN
  BY <1>1 DEF LeaderboardInvariant, TypeOK, Snapshots
<1>3. ASSUME NEW a \in paid, NEW b \in paid, rowOf(a).rank = rowOf(b).rank
      PROVE  a = b
  <2>1. rowOf(a) = rowOf(b)
    BY <1>1, <1>3 DEF LeaderboardInvariant, RanksAreDistinct, Distinct
  <2>2. a.protocol = b.protocol /\ a.date = b.date
    BY <1>1, <2>1
  <2>3. a \in Bonuses /\ b \in Bonuses
    BY DEF LeaderboardInvariant, TypeOK
  <2>4. QED
    BY <2>2, <2>3 DEF Bonuses
<1> HIDE DEF rowOf
<1>4. rankOf \in Injection(paid, 1..TopN)
  BY <1>2, <1>3 DEF Injection, IsInjective
<1> HIDE DEF rankOf, paid
<1>5. IsFiniteSet(1..TopN) /\ Cardinality(1..TopN) = TopN
  BY FS_Interval
<1>6. Cardinality(paid) <= Cardinality(1..TopN)
  BY <1>4, <1>5, FS_Injection
<1>7. QED
  BY <1>5, <1>6 DEF paid

(* No day costs more than TopN bonuses.                                        *)
THEOREM BudgetIsKept == Spec => []BudgetPerDate
<1>1. QED
  BY LeaderboardIsSafe, BackedBonusesFitBudget, PTL

(* A protocol that was hidden all day is not paid for the day.                 *)
THEOREM HiddenAreNotPaid == Spec => []HiddenEarnNothing
<1>1. LeaderboardInvariant => HiddenEarnNothing
  BY DEF LeaderboardInvariant, BonusesAreBacked, RowsWereEligible, HiddenEarnNothing
<1>2. QED
  BY <1>1, LeaderboardIsSafe, PTL
===============================================================================
