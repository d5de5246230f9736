------------------------------ MODULE LeagueProofs ------------------------------
(* For any number of protocols, detectors, milestones and processes: a flag    *)
(* freezes accrual but for the awards already in flight, and with one          *)
(* visibility cron the event timeline is a chain.                              *)
EXTENDS League, FiniteSetTheorems, TLAPS

USE ConstantsAssumption

(* The processors with an award to p in flight.                                *)
Awarding(p) == {q \in Processors : \E e \in awarding[q] : e[1] = p}

(* Every award that slipped past a flag was in flight when it was raised.      *)
SlipsAreBounded ==
  \A p \in Protocols :
    /\ ~Flagged(p) => slipped[p] = 0
    /\ Flagged(p) => slipped[p] + Cardinality(Awarding(p)) <= Cardinality(Processors)

(* The column and its event are written together.                              *)
ColumnIsLastEvent ==
  \A p \in Protocols : visibility[p] = lastEvent[p].to

(* Nobody but the one cron writes the column, and it keeps one transition per  *)
(* protocol: what it has yet to apply starts from where the column is.         *)
PendingIsFresh ==
  Cardinality(Tickers) = 1 =>
    \A t \in Tickers : \A x, y \in pending[t] :
      /\ x.from = visibility[x.protocol]
      /\ x.protocol = y.protocol => x = y

LeagueInvariant ==
  /\ TypeOK
  /\ SlipsAreBounded
  /\ ColumnIsLastEvent
  /\ PendingIsFresh

LEMMA AwardingIsFinite ==
  ASSUME NEW p \in Protocols
  PROVE  /\ IsFiniteSet(Awarding(p))
         /\ Cardinality(Awarding(p)) \in Nat
         /\ Cardinality(Awarding(p)) <= Cardinality(Processors)
         /\ Cardinality(Processors) \in Nat
<1>1. Awarding(p) \in SUBSET Processors
  BY DEF Awarding
<1>2. QED
  BY <1>1, FS_Subset, FS_CardinalityType

LEMMA InitIsSafe == Init => LeagueInvariant
<1> SUFFICES ASSUME Init PROVE LeagueInvariant
  OBVIOUS
<1>1. TypeOK
  BY DEF Init, TypeOK, Levels
<1>2. SlipsAreBounded
  BY DEF Init, SlipsAreBounded, Flagged
<1>3. QED
  BY <1>1, <1>2 DEF Init, LeagueInvariant, ColumnIsLastEvent, PendingIsFresh

-------------------------------------------------------------------------------
(* Types.                                                                      *)

LEMMA InputsAreTyped ==
  ASSUME TypeOK, Inputs
  PROVE  TypeOK'
<1>1. ASSUME NEW p \in Protocols, NEW ms \in SUBSET Milestones, PointEvent(p, ms)
      PROVE  TypeOK'
  BY <1>1 DEF TypeOK, PointEvent, Move, flagVars, awardVars, scoreVars, visibilityVars
<1>2. ASSUME NEW p \in Protocols, TimePasses(p)
      PROVE  TypeOK'
  BY <1>2 DEF TypeOK, TimePasses, Move, flagVars, awardVars, scoreVars, visibilityVars
<1>3. ASSUME NEW p \in Protocols, CapacityChanges(p)
      PROVE  TypeOK'
  BY <1>3 DEF TypeOK, CapacityChanges, Move, flagVars, awardVars, scoreVars, visibilityVars
<1>4. ASSUME NEW f \in Protocols \X Kinds, BehaviourChanges(f)
      PROVE  TypeOK'
  BY <1>4 DEF TypeOK, BehaviourChanges, Move, flagVars, awardVars, scoreVars, visibilityVars
<1>5. ASSUME NEW f \in Protocols \X Kinds, Escalate(f)
      PROVE  TypeOK'
  BY <1>5 DEF TypeOK, Escalate, Move, flagVars, awardVars, scoreVars, visibilityVars
<1>6. ASSUME NEW f \in Protocols \X Kinds, Resolve(f)
      PROVE  TypeOK'
  BY <1>6 DEF TypeOK, Resolve, Move, flagVars, awardVars, scoreVars, visibilityVars
<1>7. QED
  BY <1>1, <1>2, <1>3, <1>4, <1>5, <1>6 DEF Inputs

LEMMA CronsAreTyped ==
  ASSUME TypeOK,
         \/ \E s \in Scanners : Scan(s)
         \/ \E q \in Processors : Award(q)
         \/ Score
  PROVE  TypeOK'
<1>1. ASSUME NEW s \in Scanners, Scan(s)
      PROVE  TypeOK'
  <2>1. ASSUME NEW k \in Kinds, Detect(s, k) PROVE TypeOK'
    BY <2>1 DEF TypeOK, Detect, inputVars, awardVars, scoreVars, visibilityVars
  <2>2. CASE RaiseFlags(s)
    BY <2>2 DEF TypeOK, RaiseFlags, inputVars, awardVars, scoreVars, visibilityVars
  <2>3. CASE FailDetector(s)
    BY <2>3 DEF TypeOK, FailDetector, inputVars, awardVars, scoreVars, visibilityVars
  <2>4. QED
    BY <1>1, <2>1, <2>2, <2>3 DEF Scan
<1>2. ASSUME NEW q \in Processors, Award(q)
      PROVE  TypeOK'
  <2>1. ASSUME NEW m \in Milestones, BeginAward(q, m) PROVE TypeOK'
    BY <2>1 DEF TypeOK, BeginAward, inputVars, flagVars, scoreVars, visibilityVars
  <2>2. CASE CommitAward(q)
    <3>1. slipped' \in [Protocols -> Nat]
      BY <2>2 DEF TypeOK, CommitAward
    <3>2. earned' \subseteq reached
      BY <2>2 DEF TypeOK, CommitAward
    <3>3. QED
      BY <2>2, <3>1, <3>2
         DEF TypeOK, CommitAward, inputVars, flagVars, scoreVars, visibilityVars
  <2>3. CASE FailAward(q)
    BY <2>3 DEF TypeOK, FailAward, inputVars, flagVars, scoreVars, visibilityVars
  <2>4. QED
    BY <1>2, <2>1, <2>2, <2>3 DEF Award
<1>3. CASE Score
  <2>1. ASSUME NEW p \in Protocols, ComputeScore(p) PROVE TypeOK'
    BY <2>1 DEF TypeOK, ComputeScore, NewScore, inputVars, flagVars, awardVars,
         visibilityVars
  <2>2. ASSUME NEW p \in Protocols, WriteScore(p) PROVE TypeOK'
    BY <2>2 DEF TypeOK, WriteScore, inputVars, flagVars, awardVars, visibilityVars
  <2>3. CASE FailScore
    BY <2>3 DEF TypeOK, FailScore, inputVars, flagVars, awardVars, visibilityVars
  <2>4. QED
    BY <1>3, <2>1, <2>2, <2>3 DEF Score
<1>4. QED
  BY <1>1, <1>2, <1>3

LEMMA VisibilityIsTyped ==
  ASSUME TypeOK, NEW t \in Tickers, VisibilityTick(t)
  PROVE  TypeOK'
<1>1. CASE LoadSnapshots(t)
  <2>1. ASSUME NEW x \in Transitions
        PROVE  /\ x \in [protocol : Protocols, from : Levels, to : Levels]
               /\ x.from # x.to
    BY DEF Transitions, Snapshots, Decide, Levels, TypeOK
  <2>2. QED
    BY <1>1, <2>1 DEF TypeOK, LoadSnapshots, inputVars, flagVars, awardVars, scoreVars
<1>2. ASSUME NEW p \in Protocols, ApplyTransition(t, p)
      PROVE  TypeOK'
  BY <1>2 DEF TypeOK, ApplyTransition, inputVars, flagVars, awardVars, scoreVars
<1>3. ASSUME NEW p \in Protocols, FailTransition(t, p)
      PROVE  TypeOK'
  BY <1>3 DEF TypeOK, FailTransition, RolledBack, inputVars, flagVars, awardVars, scoreVars
<1>4. QED
  BY <1>1, <1>2, <1>3 DEF VisibilityTick
-------------------------------------------------------------------------------
(* Accrual: each action that touches a flag, an award in flight or the count.  *)

LEMMA ResolveKeepsBound ==
  ASSUME LeagueInvariant, NEW f \in Protocols \X Kinds, Resolve(f)
  PROVE  SlipsAreBounded'
<1>1. /\ open' = open \ {f}
      /\ slipped' = IF \E g \in open \ {f} : g[1] = f[1] THEN slipped
                    ELSE [slipped EXCEPT ![f[1]] = 0]
      /\ UNCHANGED awarding
      /\ slipped \in [Protocols -> Nat]
  BY DEF Resolve, LeagueInvariant, TypeOK
<1>2. ASSUME NEW p \in Protocols
      PROVE  /\ Flagged(p)' => Flagged(p) /\ slipped'[p] = slipped[p]
             /\ ~Flagged(p)' => slipped'[p] = 0
             /\ Awarding(p)' = Awarding(p)
  <2>1. CASE p = f[1]
    BY <1>1, <2>1 DEF Flagged, Awarding
  <2>2. CASE p # f[1]
    <3>1. Flagged(p)' <=> Flagged(p)
      BY <1>1, <2>2 DEF Flagged
    <3>2. slipped'[p] = slipped[p]
      BY <1>1, <2>2
    <3>3. QED
      BY <1>1, <3>1, <3>2 DEF LeagueInvariant, SlipsAreBounded, Awarding
  <2>3. QED
    BY <2>1, <2>2
<1>3. QED
  BY <1>2 DEF LeagueInvariant, SlipsAreBounded

LEMMA RaiseFlagsKeepsBound ==
  ASSUME LeagueInvariant, NEW s \in Scanners, RaiseFlags(s)
  PROVE  SlipsAreBounded'
<1>1. /\ open' = open \cup flagging[s]
      /\ UNCHANGED <<awarding, slipped>>
  BY DEF RaiseFlags, awardVars
<1>2. ASSUME NEW p \in Protocols
      PROVE  /\ ~Flagged(p)' => slipped'[p] = 0
             /\ Flagged(p)' =>
                  slipped'[p] + Cardinality(Awarding(p)') <= Cardinality(Processors)
  <2>1. Awarding(p)' = Awarding(p) /\ slipped'[p] = slipped[p]
    BY <1>1 DEF Awarding
  <2>2. Flagged(p) => Flagged(p)'
    BY <1>1 DEF Flagged
  <2>3. CASE Flagged(p)
    BY <2>1, <2>2, <2>3 DEF LeagueInvariant, SlipsAreBounded
  <2>4. CASE ~Flagged(p)
    BY <2>1, <2>4, AwardingIsFinite DEF LeagueInvariant, SlipsAreBounded
  <2>5. QED
    BY <2>3, <2>4
<1>3. QED
  BY <1>2 DEF SlipsAreBounded

(* The gate: a statement that begins under a flag takes no row of its protocol. *)
LEMMA BeginAwardKeepsBound ==
  ASSUME LeagueInvariant, NEW q \in Processors, NEW m \in Milestones, BeginAward(q, m)
  PROVE  SlipsAreBounded'
<1> DEFINE rows == {e \in reached \ earned : e[2] = m /\ Gate(e[1])}
<1>1. /\ awarding[q] = {}
      /\ awarding' = [awarding EXCEPT ![q] = rows]
      /\ awarding \in [Processors -> SUBSET reached]
      /\ UNCHANGED <<open, slipped>>
  BY DEF BeginAward, flagVars, LeagueInvariant, TypeOK
<1>2. \A e \in rows : ~Flagged(e[1])
  BY DEF Gate
<1> HIDE DEF rows
<1>3. ASSUME NEW p \in Protocols, Flagged(p)
      PROVE  Awarding(p)' = Awarding(p)
  BY <1>1, <1>2, <1>3 DEF Awarding
<1>4. \A p \in Protocols : (Flagged(p)' <=> Flagged(p)) /\ slipped'[p] = slipped[p]
  BY <1>1 DEF Flagged
<1>5. QED
  BY <1>3, <1>4 DEF LeagueInvariant, SlipsAreBounded

(* An award that ends leaves the set of those in flight, and slips at most     *)
(* once.                                                                       *)
LEMMA AwardEndsKeepBound ==
  ASSUME LeagueInvariant, NEW q \in Processors, CommitAward(q) \/ FailAward(q)
  PROVE  SlipsAreBounded'
<1>1. /\ awarding' = [awarding EXCEPT ![q] = {}]
      /\ awarding \in [Processors -> SUBSET reached]
      /\ UNCHANGED open
      /\ slipped \in [Protocols -> Nat]
  BY DEF CommitAward, FailAward, flagVars, LeagueInvariant, TypeOK
<1>2. ASSUME NEW p \in Protocols
      PROVE  /\ ~Flagged(p) => slipped'[p] = slipped[p]
             /\ \/ slipped'[p] = slipped[p]
                \/ slipped'[p] = slipped[p] + 1 /\ q \in Awarding(p)
  <2>1. CASE FailAward(q)
    BY <2>1 DEF FailAward
  <2>2. CASE CommitAward(q)
    BY <2>2 DEF CommitAward, Awarding
  <2>3. QED
    BY <2>1, <2>2
<1>3. ASSUME NEW p \in Protocols
      PROVE  /\ ~Flagged(p)' => slipped'[p] = 0
             /\ Flagged(p)' =>
                  slipped'[p] + Cardinality(Awarding(p)') <= Cardinality(Processors)
  <2>1. Flagged(p)' <=> Flagged(p)
    BY <1>1 DEF Flagged
  <2>2. Awarding(p)' = Awarding(p) \ {q}
    BY <1>1 DEF Awarding
  <2>3. Cardinality(Awarding(p)') =
          IF q \in Awarding(p) THEN Cardinality(Awarding(p)) - 1
          ELSE Cardinality(Awarding(p))
    BY <2>2, AwardingIsFinite, FS_RemoveElement
  <2>4. /\ slipped[p] \in Nat /\ Cardinality(Awarding(p)) \in Nat
        /\ Cardinality(Processors) \in Nat
    BY <1>1, AwardingIsFinite
  <2>5. CASE Flagged(p)
    BY <1>2, <2>1, <2>3, <2>4, <2>5 DEF LeagueInvariant, SlipsAreBounded
  <2>6. CASE ~Flagged(p)
    BY <1>2, <2>1, <2>6 DEF LeagueInvariant, SlipsAreBounded
  <2>7. QED
    BY <2>5, <2>6
<1>4. QED
  BY <1>3 DEF SlipsAreBounded

LEMMA SlipsStayBounded ==
  ASSUME LeagueInvariant, [Next]_vars
  PROVE  SlipsAreBounded'
<1>1. CASE UNCHANGED <<open, awarding, slipped>>
  BY <1>1 DEF LeagueInvariant, SlipsAreBounded, Flagged, Awarding
<1>2. CASE Inputs
  <2>1. ASSUME NEW f \in Protocols \X Kinds, Resolve(f) PROVE SlipsAreBounded'
    BY <2>1, ResolveKeepsBound
  <2>2. ASSUME ~\E f \in Protocols \X Kinds : Resolve(f)
        PROVE  UNCHANGED <<open, awarding, slipped>>
    BY <1>2, <2>2 DEF Inputs, PointEvent, TimePasses, CapacityChanges, BehaviourChanges,
         Escalate, flagVars, awardVars
  <2>3. QED
    BY <1>1, <2>1, <2>2
<1>3. ASSUME NEW s \in Scanners, Scan(s) PROVE SlipsAreBounded'
  <2>1. CASE RaiseFlags(s)
    BY <2>1, RaiseFlagsKeepsBound
  <2>2. CASE (\E k \in Kinds : Detect(s, k)) \/ FailDetector(s)
    BY <1>1, <2>2 DEF Detect, FailDetector, awardVars
  <2>3. QED
    BY <1>3, <2>1, <2>2 DEF Scan
<1>4. ASSUME NEW q \in Processors, Award(q) PROVE SlipsAreBounded'
  BY <1>4, BeginAwardKeepsBound, AwardEndsKeepBound DEF Award
<1>5. CASE Score
  BY <1>1, <1>5 DEF Score, ComputeScore, WriteScore, FailScore, flagVars, awardVars
<1>6. ASSUME NEW t \in Tickers, VisibilityTick(t) PROVE SlipsAreBounded'
  BY <1>1, <1>6 DEF VisibilityTick, LoadSnapshots, ApplyTransition, FailTransition,
       flagVars, awardVars
<1>7. CASE UNCHANGED vars
  BY <1>1, <1>7 DEF vars, flagVars, awardVars
<1>8. QED
  BY <1>2, <1>3, <1>4, <1>5, <1>6, <1>7 DEF Next

-------------------------------------------------------------------------------
(* The timeline.                                                               *)

LEMMA OneTicker ==
  ASSUME Cardinality(Tickers) = 1, NEW t \in Tickers, NEW u \in Tickers
  PROVE  t = u
BY FS_Singleton

(* A load takes one snapshot of each protocol, with the column as it is.       *)
LEMMA TransitionsAreFresh ==
  ASSUME NEW x \in Transitions, NEW y \in Transitions
  PROVE  /\ x.from = visibility[x.protocol]
         /\ x.protocol = y.protocol => x = y
BY DEF Transitions, Snapshots

LEMMA VisibilityKeepsTimeline ==
  ASSUME LeagueInvariant, NEW t \in Tickers, VisibilityTick(t)
  PROVE  ColumnIsLastEvent' /\ PendingIsFresh'
<1>0. /\ visibility \in [Protocols -> Levels]
      /\ lastEvent \in [Protocols -> [from : Levels \cup {"none"}, to : Levels]]
      /\ pending \in [Tickers -> SUBSET [protocol : Protocols, from : Levels, to : Levels]]
  BY DEF LeagueInvariant, TypeOK
<1>1. CASE LoadSnapshots(t)
  <2>1. /\ pending' = [pending EXCEPT ![t] = Transitions]
        /\ UNCHANGED <<visibility, lastEvent>>
    BY <1>1 DEF LoadSnapshots
  <2>2. PendingIsFresh'
    BY <1>0, <2>1, TransitionsAreFresh DEF LeagueInvariant, PendingIsFresh
  <2>3. QED
    BY <2>1, <2>2 DEF LeagueInvariant, ColumnIsLastEvent
<1>2. ASSUME NEW p \in Protocols, ApplyTransition(t, p)
      PROVE  ColumnIsLastEvent' /\ PendingIsFresh'
  <2>1. PICK x \in pending[t] :
          /\ x.protocol = p
          /\ visibility' = [visibility EXCEPT ![p] = x.to]
          /\ lastEvent' = [lastEvent EXCEPT ![p] = [from |-> x.from, to |-> x.to]]
          /\ pending' = [pending EXCEPT ![t] = @ \ {x}]
    BY <1>2 DEF ApplyTransition
  <2>2. ColumnIsLastEvent'
    BY <1>0, <2>1 DEF LeagueInvariant, ColumnIsLastEvent
  <2>3. ASSUME Cardinality(Tickers) = 1, NEW u \in Tickers,
               NEW y \in pending'[u], NEW z \in pending'[u]
        PROVE  /\ y.from = visibility'[y.protocol]
               /\ y.protocol = z.protocol => y = z
    <3>1. u = t
      BY <2>3, OneTicker
    <3>2. y \in pending[t] \ {x} /\ z \in pending[t] \ {x}
      BY <1>0, <2>1, <2>3, <3>1
    <3>3. y.protocol # p
      BY <2>1, <2>3, <3>2 DEF LeagueInvariant, PendingIsFresh
    <3>4. visibility'[y.protocol] = visibility[y.protocol]
      BY <1>0, <2>1, <3>2, <3>3
    <3>5. QED
      BY <2>3, <3>2, <3>4 DEF LeagueInvariant, PendingIsFresh
  <2>4. PendingIsFresh'
    BY <2>3 DEF PendingIsFresh
  <2>5. QED
    BY <2>2, <2>4
<1>3. ASSUME NEW p \in Protocols, FailTransition(t, p)
      PROVE  ColumnIsLastEvent' /\ PendingIsFresh'
  <2>1. /\ UNCHANGED <<visibility, lastEvent>>
        /\ \A u \in Tickers : pending'[u] \subseteq pending[u]
    BY <1>0, <1>3 DEF FailTransition, RolledBack
  <2>2. QED
    BY <2>1 DEF LeagueInvariant, ColumnIsLastEvent, PendingIsFresh
<1>4. QED
  BY <1>1, <1>2, <1>3 DEF VisibilityTick

LEMMA OthersKeepTimeline ==
  ASSUME [Next]_vars, ~\E t \in Tickers : VisibilityTick(t)
  PROVE  UNCHANGED visibilityVars
<1>1. CASE Inputs
  BY <1>1 DEF Inputs, PointEvent, TimePasses, CapacityChanges, BehaviourChanges, Escalate,
       Resolve
<1>2. ASSUME NEW s \in Scanners, Scan(s) PROVE UNCHANGED visibilityVars
  BY <1>2 DEF Scan, Detect, RaiseFlags, FailDetector
<1>3. ASSUME NEW q \in Processors, Award(q) PROVE UNCHANGED visibilityVars
  BY <1>3 DEF Award, BeginAward, CommitAward, FailAward
<1>4. CASE Score
  BY <1>4 DEF Score, ComputeScore, WriteScore, FailScore
<1>5. CASE UNCHANGED vars
  BY <1>5 DEF vars
<1>6. QED
  BY <1>1, <1>2, <1>3, <1>4, <1>5 DEF Next

LEMMA NextIsSafe == LeagueInvariant /\ [Next]_vars => LeagueInvariant'
<1> SUFFICES ASSUME LeagueInvariant, [Next]_vars PROVE LeagueInvariant'
  OBVIOUS
<1>1. TypeOK'
  <2>1. CASE UNCHANGED vars
    BY <2>1 DEF LeagueInvariant, TypeOK, vars, inputVars, flagVars, awardVars, scoreVars,
         visibilityVars
  <2>2. QED
    BY <2>1, InputsAreTyped, CronsAreTyped, VisibilityIsTyped DEF Next, LeagueInvariant
<1>2. ColumnIsLastEvent' /\ PendingIsFresh'
  <2>1. CASE \E t \in Tickers : VisibilityTick(t)
    BY <2>1, VisibilityKeepsTimeline
  <2>2. CASE ~\E t \in Tickers : VisibilityTick(t)
    BY <2>2, OthersKeepTimeline
       DEF LeagueInvariant, ColumnIsLastEvent, PendingIsFresh, visibilityVars
  <2>3. QED
    BY <2>1, <2>2
<1>3. QED
  BY <1>1, <1>2, SlipsStayBounded DEF LeagueInvariant

-------------------------------------------------------------------------------

(* The inductive invariant of the league's crons.                              *)
THEOREM LeagueIsSafe == Spec => []LeagueInvariant
BY InitIsSafe, NextIsSafe, PTL DEF Spec

(* Type correctness: flags, awards and transitions in flight included.         *)
THEOREM TypeCorrect == Spec => []TypeOK
<1>1. LeagueInvariant => TypeOK
  BY DEF LeagueInvariant
<1>2. QED
  BY <1>1, LeagueIsSafe, PTL

(* "rewardz accrual is frozen until the flag is cleared": at most one award    *)
(* statement of each milestone processor overtakes a fresh flag.               *)
THEOREM AccrualFreezes == Spec => []AccrualIsFrozen
<1>1. ASSUME LeagueInvariant PROVE AccrualIsFrozen
  <2>1. ASSUME NEW p \in Protocols PROVE slipped[p] <= Cardinality(Processors)
    <3>1. /\ slipped[p] \in Nat /\ Cardinality(Awarding(p)) \in Nat
          /\ Cardinality(Processors) \in Nat
      BY <1>1, AwardingIsFinite DEF LeagueInvariant, TypeOK
    <3>2. QED
      BY <1>1, <3>1 DEF LeagueInvariant, SlipsAreBounded
  <2>2. QED
    BY <2>1 DEF AccrualIsFrozen
<1>2. QED
  BY <1>1, LeagueIsSafe, PTL

(* One step of the one visibility cron adds one link to the chain.             *)
LEMMA StepIsHonest ==
  ASSUME LeagueInvariant, LeagueInvariant', [Next]_vars, Cardinality(Tickers) = 1,
         NEW p \in Protocols
  PROVE  /\ visibility'[p] = lastEvent'[p].to
         /\ lastEvent'[p] # lastEvent[p] \/ visibility'[p] # visibility[p] =>
              /\ lastEvent'[p].from = visibility[p]
              /\ visibility'[p] # visibility[p]
<1>1. visibility'[p] = lastEvent'[p].to
  BY DEF LeagueInvariant, ColumnIsLastEvent
<1>2. ASSUME NEW t \in Tickers, NEW r \in Protocols, ApplyTransition(t, r)
      PROVE  \/ lastEvent'[p] = lastEvent[p] /\ visibility'[p] = visibility[p]
             \/ lastEvent'[p].from = visibility[p] /\ visibility'[p] # visibility[p]
  <2>1. PICK x \in pending[t] :
          /\ x.protocol = r
          /\ visibility' = [visibility EXCEPT ![r] = x.to]
          /\ lastEvent' = [lastEvent EXCEPT ![r] = [from |-> x.from, to |-> x.to]]
    BY <1>2 DEF ApplyTransition
  <2>2. /\ x.from = visibility[r] /\ x.from # x.to
        /\ r \in DOMAIN visibility /\ r \in DOMAIN lastEvent
    BY <2>1 DEF LeagueInvariant, TypeOK, PendingIsFresh
  <2>3. QED
    BY <2>1, <2>2
<1>3. ASSUME NEW t \in Tickers, VisibilityTick(t), ~\E r \in Protocols : ApplyTransition(t, r)
      PROVE  UNCHANGED <<visibility, lastEvent>>
  BY <1>3 DEF VisibilityTick, LoadSnapshots, FailTransition, RolledBack
<1>4. CASE \E t \in Tickers : VisibilityTick(t)
  BY <1>1, <1>2, <1>3, <1>4
<1>5. CASE ~\E t \in Tickers : VisibilityTick(t)
  BY <1>1, <1>5, OthersKeepTimeline DEF visibilityVars
<1>6. QED
  BY <1>4, <1>5

(* "Keeps `/protocols/:id/events` honest": each event of the one visibility    *)
(* cron starts where the last one ended, and ends where the column is.         *)
THEOREM EventsFormAChain == Spec => TimelineIsHonest
<1>1. LeagueInvariant /\ LeagueInvariant' /\ [Next]_vars =>
        [Cardinality(Tickers) = 1 =>
           \A p \in Protocols :
             /\ visibility'[p] = lastEvent'[p].to
             /\ lastEvent'[p] # lastEvent[p] \/ visibility'[p] # visibility[p] =>
                  /\ lastEvent'[p].from = visibility[p]
                  /\ visibility'[p] # visibility[p]]_vars
  BY StepIsHonest
<1>2. QED
  BY <1>1, LeagueIsSafe, PTL DEF Spec, TimelineIsHonest
===============================================================================
