---------------------------- MODULE CapacityProofs ----------------------------
(* For any protocols, stakes and cadence: the columns stay in their types, and *)
(* with the one watcher the code is deployed with, a protocol is unlocked once *)
(* and its window is refreshed no earlier than the cadence allows.             *)
EXTENDS Capacity, TLAPS

USE ConstantsAssumption DEF Stakes, Amounts

OneWatcher == \A v, w \in Watchers : v = w

(* Nobody but the watcher unlocks: what it loaded of the protocols it has yet  *)
(* to treat is still so.                                                       *)
LoadedIsCurrent ==
  \A w \in Watchers :
    /\ \A p \in todo[w] : /\ p \in DOMAIN loaded[w]
                          /\ loaded[w][p].unlocked = unlocked[p]
    /\ sample[w] # NoSample =>
         /\ sample[w].protocol \notin todo[w]
         /\ sample[w].protocol \in DOMAIN loaded[w]
         /\ loaded[w][sample[w].protocol].unlocked = unlocked[sample[w].protocol]

(* Whatever the number of watchers.                                            *)
LoadedIsThere ==
  \A w \in Watchers :
    /\ todo[w] \subseteq DOMAIN loaded[w]
    /\ sample[w] # NoSample => sample[w].protocol \in DOMAIN loaded[w]

TypeInvariant == TypeOK /\ LoadedIsThere

CapacityInvariant == TypeInvariant /\ UnlockedOnce /\ LoadedIsCurrent

Tables == UNION {[ps -> LoadedRows] : ps \in SUBSET Protocols}

LEMMA EmptyTable == [p \in {} |-> Null] \in Tables
<1>1. [p \in {} |-> Null] \in [{} -> LoadedRows]
  OBVIOUS
<1>2. QED
  BY <1>1 DEF Tables

(* A clamped amount fits the column.                                           *)
LEMMA StoredFits ==
  ASSUME NEW n \in Nat
  PROVE  Stored(n) \in 0..MaxStored
BY DEF Stored

-------------------------------------------------------------------------------
(* The steps of a watcher.                                                     *)

LEMMA WatcherIsTyped ==
  ASSUME TypeInvariant, NEW w \in Watchers,
         \/ Load(w)
         \/ \E p \in Protocols : Read(w, p) \/ SkipProtocol(w, p)
         \/ FailApply(w)
         \/ Restart(w)
  PROVE  TypeInvariant'
<1>1. /\ todo \in [Watchers -> SUBSET Protocols]
      /\ loaded \in [Watchers -> Tables]
      /\ sample \in [Watchers -> [protocol : Protocols, stake : Stakes] \cup {NoSample}]
      /\ [p \in {} |-> Null] \in Tables
  BY EmptyTable DEF TypeInvariant, TypeOK, Tables
<1>2. CASE Load(w)
  <2>1. [p \in joined |-> [mirror |-> mirror[p], unlocked |-> unlocked[p]]] \in Tables
    <3>1. joined \subseteq Protocols
      BY DEF TypeInvariant, TypeOK
    <3>2. [p \in joined |-> [mirror |-> mirror[p], unlocked |-> unlocked[p]]]
            \in [joined -> LoadedRows]
      BY <3>1 DEF TypeInvariant, TypeOK, LoadedRows
    <3>3. QED
      BY <3>1, <3>2 DEF Tables
  <2>2. TypeOK'
    BY <1>1, <1>2, <2>1 DEF TypeInvariant, TypeOK, Load, chainVars, rowVars, Tables
  <2>3. LoadedIsThere'
    BY <1>1, <1>2 DEF TypeInvariant, LoadedIsThere, Load, Idle
  <2>4. QED
    BY <2>2, <2>3 DEF TypeInvariant
<1>3. ASSUME NEW p \in Protocols, Read(w, p) PROVE TypeInvariant'
  <2>1. stake[p] \in Stakes
    BY <1>3 DEF Read, TypeInvariant, TypeOK
  <2>2. TypeOK'
    BY <1>1, <1>3, <2>1 DEF TypeInvariant, TypeOK, Read, chainVars, rowVars
  <2>3. LoadedIsThere'
    BY <1>1, <1>3 DEF TypeInvariant, LoadedIsThere, Read
  <2>4. QED
    BY <2>2, <2>3 DEF TypeInvariant
<1>4. ASSUME NEW p \in Protocols, SkipProtocol(w, p) PROVE TypeInvariant'
  <2>1. TypeOK'
    BY <1>1, <1>4 DEF TypeInvariant, TypeOK, SkipProtocol, chainVars, rowVars, Tables
  <2>2. LoadedIsThere'
    BY <1>1, <1>4 DEF TypeInvariant, LoadedIsThere, SkipProtocol
  <2>3. QED
    BY <2>1, <2>2 DEF TypeInvariant
<1>5. CASE FailApply(w)
  <2>1. TypeOK'
    BY <1>1, <1>5 DEF TypeInvariant, TypeOK, FailApply, Forget, chainVars, rowVars, Tables
  <2>2. LoadedIsThere'
    BY <1>1, <1>5 DEF TypeInvariant, LoadedIsThere, FailApply, Forget
  <2>3. QED
    BY <2>1, <2>2 DEF TypeInvariant
<1>6. CASE Restart(w)
  <2>1. TypeOK'
    BY <1>1, <1>6 DEF TypeInvariant, TypeOK, Restart, chainVars, rowVars, Tables
  <2>2. LoadedIsThere'
    BY <1>1, <1>6 DEF TypeInvariant, LoadedIsThere, Restart
  <2>3. QED
    BY <2>1, <2>2 DEF TypeInvariant
<1>7. QED
  BY <1>2, <1>3, <1>4, <1>5, <1>6

(* apply_sample treats a row that was loaded with a stake that was read.       *)
LEMMA AppliedSample ==
  ASSUME TypeInvariant, NEW w \in Watchers, NEW p \in Protocols, Apply(w, p)
  PROVE  /\ sample[w] # NoSample
         /\ sample[w].stake \in Nat
         /\ p \in DOMAIN loaded[w] /\ loaded[w][p] \in LoadedRows
<1>1. sample[w].protocol = p
  BY DEF Apply
<1>2. sample[w] \in [protocol : Protocols, stake : Stakes]
  BY <1>1 DEF TypeInvariant, TypeOK, NoSample
<1>3. p \in DOMAIN loaded[w] /\ sample[w] # NoSample
  BY <1>1, <1>2 DEF TypeInvariant, LoadedIsThere, NoSample
<1>4. loaded[w] \in Tables
  BY DEF TypeInvariant, TypeOK, Tables
<1>5. QED
  BY <1>2, <1>3, <1>4 DEF Tables

LEMMA ApplyIsTyped ==
  ASSUME TypeInvariant, NEW w \in Watchers, NEW p \in Protocols, Apply(w, p)
  PROVE  TypeInvariant'
<1> DEFINE observed == sample[w].stake
           row == loaded[w][p]
<1>1. observed \in Nat /\ row \in LoadedRows
  BY AppliedSample
<1>2. Stored(observed) \in 0..MaxStored /\ Stored(Ratio * observed) \in 0..MaxStored
  <2>1. Ratio * observed \in Nat
    BY <1>1
  <2>2. QED
    BY <1>1, <2>1, StoredFits
<1>3. /\ \/ UNCHANGED rowVars
         \/ /\ mirror' = [mirror EXCEPT ![p] = Stored(observed)]
            /\ remaining' = [remaining EXCEPT ![p] = Stored(Ratio * observed)]
            /\ age' = [age EXCEPT ![p] = 0]
            /\ unlocked' = [unlocked EXCEPT ![p] = TRUE]
            /\ events' = [events EXCEPT ![p] = @ + 1]
            /\ joined' = joined
         \/ /\ mirror' = [mirror EXCEPT ![p] = Stored(observed)]
            /\ UNCHANGED <<joined, remaining, age, unlocked, events>>
      /\ Forget(w)
      /\ UNCHANGED <<chainVars, todo>>
  BY DEF Apply
<1> HIDE DEF observed, row
<1>4. /\ todo \in [Watchers -> SUBSET Protocols]
      /\ loaded \in [Watchers -> Tables]
      /\ sample \in [Watchers -> [protocol : Protocols, stake : Stakes] \cup {NoSample}]
      /\ [q \in {} |-> Null] \in Tables
  BY EmptyTable DEF TypeInvariant, TypeOK, Tables
<1>5. /\ loaded' \in [Watchers -> Tables]
      /\ sample' \in [Watchers -> [protocol : Protocols, stake : Stakes] \cup {NoSample}]
  BY <1>3, <1>4 DEF Forget
<1>6. /\ mirror' \in [Protocols -> MirrorValues]
      /\ remaining' \in [Protocols -> Amounts \cup {Null}]
      /\ age' \in [Protocols -> 0..Cadence \cup {Null}]
      /\ unlocked' \in [Protocols -> BOOLEAN]
      /\ events' \in [Protocols -> Nat]
      /\ joined' \subseteq Protocols
  <2>1. CASE UNCHANGED rowVars
    BY <2>1 DEF rowVars, TypeInvariant, TypeOK
  <2>2. CASE /\ mirror' = [mirror EXCEPT ![p] = Stored(observed)]
             /\ remaining' = [remaining EXCEPT ![p] = Stored(Ratio * observed)]
             /\ age' = [age EXCEPT ![p] = 0]
             /\ unlocked' = [unlocked EXCEPT ![p] = TRUE]
             /\ events' = [events EXCEPT ![p] = @ + 1]
             /\ joined' = joined
    <3>1. mirror' \in [Protocols -> MirrorValues]
      BY <1>2, <2>2 DEF TypeInvariant, TypeOK, MirrorValues
    <3>2. remaining' \in [Protocols -> Amounts \cup {Null}]
      BY <1>2, <2>2 DEF TypeInvariant, TypeOK
    <3>3. age' \in [Protocols -> 0..Cadence \cup {Null}]
      BY <2>2 DEF TypeInvariant, TypeOK
    <3>4. unlocked' \in [Protocols -> BOOLEAN]
      BY <2>2 DEF TypeInvariant, TypeOK
    <3>5. events' \in [Protocols -> Nat]
      BY <2>2 DEF TypeInvariant, TypeOK
    <3>6. QED
      BY <2>2, <3>1, <3>2, <3>3, <3>4, <3>5 DEF TypeInvariant, TypeOK
  <2>3. CASE /\ mirror' = [mirror EXCEPT ![p] = Stored(observed)]
             /\ UNCHANGED <<joined, remaining, age, unlocked, events>>
    BY <1>2, <2>3 DEF TypeInvariant, TypeOK, MirrorValues
  <2>4. QED
    BY <1>3, <2>1, <2>2, <2>3
<1>7. TypeOK'
  BY <1>3, <1>5, <1>6 DEF TypeInvariant, TypeOK, chainVars, Tables
<1>8. LoadedIsThere'
  BY <1>3, <1>4 DEF TypeInvariant, LoadedIsThere, Forget
<1>9. QED
  BY <1>7, <1>8 DEF TypeInvariant

-------------------------------------------------------------------------------
(* The reset cron, the API, the chain and the clock.                           *)

LEMMA OthersAreTyped ==
  ASSUME TypeInvariant,
         \/ ResetCapacities
         \/ \E p \in Protocols :
              Join(p) \/ Spend(p) \/ (\E s \in Stakes : ChangeStake(p, s))
         \/ ClockStep
  PROVE  TypeInvariant'
<1>1. UNCHANGED watcherVars
  BY DEF ResetCapacities, Join, Spend, ChangeStake, ClockStep
<1>2. LoadedIsThere'
  BY <1>1 DEF TypeInvariant, LoadedIsThere, watcherVars
<1>3. TypeOK'
  <2>1. CASE ResetCapacities
    BY <2>1 DEF TypeInvariant, TypeOK, ResetCapacities, chainVars, watcherVars
  <2>2. ASSUME NEW p \in Protocols, Join(p) PROVE TypeOK'
    BY <2>2 DEF TypeInvariant, TypeOK, Join, chainVars, watcherVars
  <2>3. ASSUME NEW p \in Protocols, Spend(p) PROVE TypeOK'
    <3>1. remaining[p] \in Amounts
      BY <2>3 DEF Spend, TypeInvariant, TypeOK
    <3>2. remaining[p] - 1 \in Amounts
      BY <2>3, <3>1 DEF Spend
    <3>3. QED
      BY <2>3, <3>2 DEF TypeInvariant, TypeOK, Spend, chainVars, watcherVars
  <2>4. ASSUME NEW p \in Protocols, NEW s \in Stakes, ChangeStake(p, s) PROVE TypeOK'
    BY <2>4 DEF TypeInvariant, TypeOK, ChangeStake, rowVars, watcherVars
  <2>5. CASE ClockStep
    <3>1. ASSUME NEW p \in Protocols, age[p] # Null, age[p] # Cadence
          PROVE  age[p] + 1 \in 0..Cadence
      BY <3>1 DEF TypeInvariant, TypeOK
    <3>2. age' \in [Protocols -> 0..Cadence \cup {Null}]
      BY <2>5, <3>1 DEF ClockStep, TypeInvariant, TypeOK
    <3>3. QED
      BY <2>5, <3>2 DEF TypeInvariant, TypeOK, ClockStep, chainVars, watcherVars
  <2>6. QED
    BY <2>1, <2>2, <2>3, <2>4, <2>5
<1>4. QED
  BY <1>2, <1>3 DEF TypeInvariant

LEMMA TypeIsInductive ==
  /\ Init => TypeInvariant
  /\ TypeInvariant /\ [Next]_vars => TypeInvariant'
<1>1. ASSUME Init PROVE TypeInvariant
  <2>1. TypeOK
    <3>1. loaded \in [Watchers -> Tables]
      <4>1. \A w \in Watchers : [p \in {} |-> Null] \in Tables
        BY EmptyTable
      <4>2. QED
        BY <1>1, <4>1 DEF Init
    <3>2. /\ changes \in 0..StakeChanges
          /\ sample \in [Watchers -> [protocol : Protocols, stake : Stakes] \cup {NoSample}]
          /\ todo \in [Watchers -> SUBSET Protocols]
      BY <1>1 DEF Init
    <3>3. QED
      BY <1>1, <3>1, <3>2 DEF Init, TypeOK, MirrorValues, Tables
  <2>2. QED
    BY <1>1, <2>1 DEF TypeInvariant, LoadedIsThere, Init
<1>2. ASSUME TypeInvariant, [Next]_vars PROVE TypeInvariant'
  <2>1. CASE UNCHANGED vars
    BY <1>2, <2>1 DEF vars, chainVars, rowVars, watcherVars, TypeInvariant, TypeOK,
         LoadedIsThere
  <2>2. QED
    BY <1>2, <2>1, WatcherIsTyped, ApplyIsTyped, OthersAreTyped DEF Next
<1>3. QED
  BY <1>1, <1>2

(* Type correctness for any number of watchers: stakes and capacities beyond   *)
(* the column's range are clamped before they are written.                     *)
THEOREM TypeCorrect == Spec => []TypeOK
<1>1. TypeInvariant => TypeOK
  BY DEF TypeInvariant
<1>2. QED
  BY <1>1, TypeIsInductive, PTL DEF Spec

-------------------------------------------------------------------------------
(* One watcher.                                                                *)

(* A step that unlocks nothing and forgets nothing it should keep.             *)
LEMMA WatcherKeepsMarkers ==
  ASSUME CapacityInvariant, NEW w \in Watchers,
         \/ Load(w)
         \/ \E p \in Protocols : Read(w, p) \/ SkipProtocol(w, p)
         \/ FailApply(w)
         \/ Restart(w)
  PROVE  UnlockedOnce' /\ LoadedIsCurrent'
<1>1. /\ todo \in [Watchers -> SUBSET Protocols]
      /\ loaded \in [Watchers -> Tables]
      /\ sample \in [Watchers -> [protocol : Protocols, stake : Stakes] \cup {NoSample}]
      /\ joined \subseteq Protocols
  BY DEF CapacityInvariant, TypeInvariant, TypeOK, Tables
<1>2. UNCHANGED rowVars
  BY DEF Load, Read, SkipProtocol, FailApply, Restart
<1>3. UnlockedOnce'
  BY <1>2 DEF CapacityInvariant, UnlockedOnce, rowVars
<1>4. LoadedIsCurrent'
  <2>1. CASE Load(w)
    BY <1>1, <1>2, <2>1 DEF CapacityInvariant, LoadedIsCurrent, Load, Idle, rowVars
  <2>2. ASSUME NEW p \in Protocols, Read(w, p) PROVE LoadedIsCurrent'
    BY <1>1, <1>2, <2>2 DEF CapacityInvariant, LoadedIsCurrent, Read, rowVars
  <2>3. ASSUME NEW p \in Protocols, SkipProtocol(w, p) PROVE LoadedIsCurrent'
    BY <1>1, <1>2, <2>3 DEF CapacityInvariant, LoadedIsCurrent, SkipProtocol, rowVars
  <2>4. CASE FailApply(w)
    BY <1>1, <1>2, <2>4 DEF CapacityInvariant, LoadedIsCurrent, FailApply, Forget, rowVars
  <2>5. CASE Restart(w)
    BY <1>1, <1>2, <2>5 DEF CapacityInvariant, LoadedIsCurrent, Restart, rowVars
  <2>6. QED
    BY <2>1, <2>2, <2>3, <2>4, <2>5
<1>5. QED
  BY <1>3, <1>4

(* The one step that unlocks: the marker loaded is the marker in the row.      *)
LEMMA ApplyUnlocksOnce ==
  ASSUME OneWatcher, CapacityInvariant, NEW w \in Watchers, NEW p \in Protocols,
         Apply(w, p)
  PROVE  /\ UnlockedOnce' /\ LoadedIsCurrent'
         /\ \A q \in Protocols :
              \/ UNCHANGED <<remaining[q], age[q]>>
              \/ ~unlocked[q] /\ unlocked'[q]
<1>1. /\ todo \in [Watchers -> SUBSET Protocols]
      /\ loaded \in [Watchers -> Tables]
      /\ sample \in [Watchers -> [protocol : Protocols, stake : Stakes] \cup {NoSample}]
      /\ unlocked \in [Protocols -> BOOLEAN]
      /\ events \in [Protocols -> Nat]
      /\ remaining \in [Protocols -> Amounts \cup {Null}]
      /\ age \in [Protocols -> 0..Cadence \cup {Null}]
  BY DEF CapacityInvariant, TypeInvariant, TypeOK, Tables
<1>2. sample[w] # NoSample /\ sample[w].protocol = p
  BY AppliedSample DEF CapacityInvariant, Apply
<1>3. loaded[w][p].unlocked = unlocked[p] /\ p \notin todo[w]
  BY <1>2 DEF CapacityInvariant, LoadedIsCurrent
<1>4. /\ \/ UNCHANGED <<remaining, age, unlocked, events>>
         \/ /\ ~unlocked[p]
            /\ unlocked' = [unlocked EXCEPT ![p] = TRUE]
            /\ events' = [events EXCEPT ![p] = @ + 1]
            /\ \E n : remaining' = [remaining EXCEPT ![p] = n]
            /\ \E n : age' = [age EXCEPT ![p] = n]
      /\ Forget(w)
      /\ todo' = todo
  BY <1>3 DEF Apply, rowVars, FirstUnlock
<1>5. UnlockedOnce'
  BY <1>1, <1>4 DEF CapacityInvariant, UnlockedOnce
<1>6. \A q \in Protocols : \/ UNCHANGED <<remaining[q], age[q]>>
                           \/ ~unlocked[q] /\ unlocked'[q]
  BY <1>1, <1>4
<1>7. LoadedIsCurrent'
  <2>1. sample'[w] = NoSample
    BY <1>1, <1>4 DEF Forget
  <2>2. \A v \in Watchers : v = w
    BY DEF OneWatcher
  <2>3. \A q \in todo[w] : q # p /\ unlocked'[q] = unlocked[q]
    BY <1>1, <1>3, <1>4
  <2>4. todo[w] # {} => loaded' = loaded
    BY <1>1, <1>4 DEF Forget
  <2>5. QED
    BY <1>4, <2>1, <2>2, <2>3, <2>4 DEF CapacityInvariant, LoadedIsCurrent
<1>8. QED
  BY <1>5, <1>6, <1>7

LEMMA OthersKeepMarkers ==
  ASSUME CapacityInvariant,
         \/ ResetCapacities
         \/ \E p \in Protocols :
              Join(p) \/ Spend(p) \/ (\E s \in Stakes : ChangeStake(p, s))
         \/ ClockStep
  PROVE  UnlockedOnce' /\ LoadedIsCurrent'
<1>1. UNCHANGED <<unlocked, events, watcherVars>>
  BY DEF ResetCapacities, Join, Spend, ChangeStake, ClockStep, rowVars
<1>2. QED
  BY <1>1 DEF CapacityInvariant, UnlockedOnce, LoadedIsCurrent, watcherVars

LEMMA CapacityIsInductive ==
  ASSUME OneWatcher
  PROVE  /\ Init => CapacityInvariant
         /\ CapacityInvariant /\ [Next]_vars => CapacityInvariant'
<1>1. ASSUME Init PROVE CapacityInvariant
  BY <1>1, TypeIsInductive DEF Init, CapacityInvariant, UnlockedOnce, LoadedIsCurrent
<1>2. ASSUME CapacityInvariant, [Next]_vars PROVE CapacityInvariant'
  <2>1. TypeInvariant'
    BY <1>2, TypeIsInductive DEF CapacityInvariant
  <2>2. UnlockedOnce' /\ LoadedIsCurrent'
    <3>1. CASE UNCHANGED vars
      BY <1>2, <3>1 DEF CapacityInvariant, vars, rowVars, watcherVars, UnlockedOnce,
           LoadedIsCurrent
    <3>2. QED
      BY <1>2, <3>1, WatcherKeepsMarkers, ApplyUnlocksOnce, OthersKeepMarkers DEF Next
  <2>3. QED
    BY <2>1, <2>2 DEF CapacityInvariant
<1>3. QED
  BY <1>1, <1>2

(* The one watcher of the deployment unlocks and announces a protocol once,    *)
(* through restarts, rolled back transactions and rows loaded long before.     *)
THEOREM UnlocksAreSingle == OneWatcher => (Spec => []UnlockedOnce)
<1> SUFFICES ASSUME OneWatcher PROVE Spec => []UnlockedOnce
  OBVIOUS
<1>1. Init => CapacityInvariant
  BY CapacityIsInductive
<1>2. CapacityInvariant /\ [Next]_vars => CapacityInvariant'
  BY CapacityIsInductive
<1>3. CapacityInvariant => UnlockedOnce
  BY DEF CapacityInvariant
<1>4. QED
  BY <1>1, <1>2, <1>3, PTL DEF Spec

(* A window starts afresh, or capacity grows, only at the first window, after  *)
(* the cadence, or at the one unlock: no cycle of stakes brings it forward.    *)
LEMMA RefreshIsDue ==
  ASSUME OneWatcher, CapacityInvariant, [Next]_vars, NEW p \in Protocols, Refreshes(p)
  PROVE  MayRefresh(p)
<1>1. /\ remaining \in [Protocols -> Amounts \cup {Null}]
      /\ age \in [Protocols -> 0..Cadence \cup {Null}]
  BY DEF CapacityInvariant, TypeInvariant, TypeOK
<1>2. CASE UNCHANGED <<remaining, age>>
  BY <1>1, <1>2 DEF Refreshes, MayRefresh
<1>3. ASSUME NEW w \in Watchers, NEW q \in Protocols, Apply(w, q) PROVE MayRefresh(p)
  <2>1. UNCHANGED <<remaining[p], age[p]>> \/ (~unlocked[p] /\ unlocked'[p])
    BY <1>3, ApplyUnlocksOnce
  <2>2. QED
    BY <1>1, <2>1 DEF Refreshes, MayRefresh
<1>4. CASE ResetCapacities
  BY <1>1, <1>4 DEF ResetCapacities, WindowElapsed, Refreshes, MayRefresh
<1>5. ASSUME NEW q \in Protocols, Spend(q) PROVE MayRefresh(p)
  BY <1>1, <1>5 DEF Spend, Refreshes, MayRefresh
<1>6. CASE ClockStep
  BY <1>1, <1>6 DEF ClockStep, Refreshes, MayRefresh
<1>7. QED
  BY <1>2, <1>3, <1>4, <1>5, <1>6 DEF Next, vars, rowVars, Load, Read, SkipProtocol,
       FailApply, Restart, Join, ChangeStake

THEOREM RefreshesAreDue == OneWatcher => (Spec => NoEarlyRefresh)
<1> SUFFICES ASSUME OneWatcher PROVE Spec => NoEarlyRefresh
  OBVIOUS
<1>1. Init => CapacityInvariant
  BY CapacityIsInductive
<1>2. CapacityInvariant /\ [Next]_vars => CapacityInvariant'
  BY CapacityIsInductive
<1>3. CapacityInvariant /\ [Next]_vars =>
        [\A p \in Protocols : Refreshes(p) => MayRefresh(p)]_vars
  BY RefreshIsDue
<1>4. QED
  BY <1>1, <1>2, <1>3, PTL DEF Spec, NoEarlyRefresh
===============================================================================
