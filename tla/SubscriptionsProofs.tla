-------------------------- MODULE SubscriptionsProofs --------------------------
(* For any number of executors, subscriptions and periods and any LIMIT: a     *)
(* streak counts periods, each at most once, and only a late update can take   *)
(* it back.                                                                    *)
EXTENDS Subscriptions, SequenceTheorems, TLAPS

USE ConstantsAssumption

(* The rows an executor has loaded and not treated yet.                        *)
RowsOf(e) == {batch[e][i] : i \in DOMAIN batch[e]}

(* A row was due when it was loaded: its streak was behind its period.         *)
RowsAreEarned ==
  \A e \in Executors : \A row \in RowsOf(e) :
    /\ row.period <= periods[row.sub]
    /\ row.streak <= row.longest
    /\ row.longest < row.period

(* A subscription is due until the first update of a period: so all rows of    *)
(* the current period are the same, and repeat that update.                    *)
RowsAgree ==
  \A e \in Executors : \A row \in RowsOf(e) :
    row.sub \notin late /\ row.period = periods[row.sub] =>
      IF row.sub \in Due
      THEN streak[row.sub] = row.streak /\ longest[row.sub] = row.longest
      ELSE streak[row.sub] = NewStreak(row) /\ longest[row.sub] = NewLongest(row)

SubscriptionsInvariant ==
  /\ TypeOK
  /\ StreakIsEarned
  /\ RowsAreEarned
  /\ RowsAgree

-------------------------------------------------------------------------------
(* Sequences.                                                                  *)

(* What is left after the head are rows of the same batch.                     *)
LEMMA HeadAndTail ==
  ASSUME NEW S, NEW b \in Seq(S), b # <<>>
  PROVE  /\ 1 \in DOMAIN b /\ Head(b) = b[1] /\ Head(b) \in S
         /\ Tail(b) \in Seq(S)
         /\ \A i \in DOMAIN Tail(b) : i + 1 \in DOMAIN b /\ Tail(b)[i] = b[i + 1]
OBVIOUS

(* The elements of a sequence without its k-th one.                            *)
LEMMA RemovedPosition ==
  ASSUME NEW S, NEW q \in Seq(S), NEW k \in 1..Len(q)
  PROVE  LET r == SubSeq(q, 1, k - 1) \o SubSeq(q, k + 1, Len(q))
         IN  /\ r \in Seq(S)
             /\ DOMAIN r = 1..(Len(q) - 1)
             /\ \A i \in 1..(Len(q) - 1) : r[i] = IF i < k THEN q[i] ELSE q[i + 1]
<1> DEFINE a == SubSeq(q, 1, k - 1)
           c == SubSeq(q, k + 1, Len(q))
<1>1. Len(q) \in Nat /\ DOMAIN q = 1..Len(q) /\ \A i \in 1..Len(q) : q[i] \in S
  OBVIOUS
<1> HIDE DEF a, c
<1>2. /\ a \in Seq(S) /\ Len(a) = k - 1
      /\ \A i \in 1..(k - 1) : a[i] = q[i]
  <2>1. \A i \in 1..(k - 1) : q[i] \in S
    BY <1>1
  <2>2. /\ a \in Seq(S)
        /\ Len(a) = IF 1 <= k - 1 THEN k - 1 - 1 + 1 ELSE 0
        /\ \A i \in 1..(k - 1 - 1 + 1) : a[i] = q[1 + i - 1]
    BY <1>1, <2>1, SubSeqProperties DEF a
  <2>3. QED
    BY <1>1, <2>2
<1>3. /\ c \in Seq(S) /\ Len(c) = Len(q) - k
      /\ \A i \in 1..(Len(q) - k) : c[i] = q[k + i]
  <2>1. \A i \in (k + 1)..Len(q) : q[i] \in S
    BY <1>1
  <2>2. /\ c \in Seq(S)
        /\ Len(c) = IF k + 1 <= Len(q) THEN Len(q) - (k + 1) + 1 ELSE 0
        /\ \A i \in 1..(Len(q) - (k + 1) + 1) : c[i] = q[k + 1 + i - 1]
    BY <1>1, <2>1, SubSeqProperties DEF c
  <2>3. ASSUME NEW i \in 1..(Len(q) - k) PROVE c[i] = q[k + i]
    <3>1. i \in 1..(Len(q) - (k + 1) + 1) /\ k + 1 + i - 1 = k + i
      BY <1>1
    <3>2. QED
      BY <2>2, <3>1
  <2>4. Len(c) = Len(q) - k
    <3>1. CASE k + 1 <= Len(q)
      <4>1. Len(c) = Len(q) - (k + 1) + 1 /\ k \in Int
        BY <2>2, <3>1
      <4>2. QED
        BY <1>1, <4>1
    <3>2. CASE ~(k + 1 <= Len(q))
      <4>1. Len(c) = 0
        BY <2>2, <3>2
      <4>2. k \in Int /\ k <= Len(q) /\ Len(q) \in Int
        BY <1>1
      <4>3. Len(q) - k = 0
        BY <3>2, <4>2
      <4>4. QED
        BY <4>1, <4>3
    <3>3. QED
      BY <3>1, <3>2
  <2>5. QED
    BY <2>2, <2>3, <2>4
<1>4. /\ a \o c \in Seq(S)
      /\ Len(a \o c) = Len(q) - 1
      /\ \A i \in 1..(Len(q) - 1) : (a \o c)[i] = IF i <= k - 1 THEN a[i] ELSE c[i - (k - 1)]
  <2>1. /\ a \o c \in Seq(S)
        /\ Len(a \o c) = Len(a) + Len(c)
        /\ \A i \in 1..(Len(a) + Len(c)) :
              (a \o c)[i] = IF i <= Len(a) THEN a[i] ELSE c[i - Len(a)]
    BY <1>2, <1>3, ConcatProperties
  <2>2. Len(a) = k - 1 /\ Len(a) + Len(c) = Len(q) - 1
    BY <1>1, <1>2, <1>3
  <2>3. QED
    BY <2>1, <2>2
<1>5. ASSUME NEW i \in 1..(Len(q) - 1)
      PROVE  (a \o c)[i] = IF i < k THEN q[i] ELSE q[i + 1]
  <2>1. CASE i < k
    <3>1. i \in 1..(k - 1)
      BY <1>1, <2>1
    <3>2. QED
      BY <1>2, <1>4, <2>1, <3>1
  <2>2. CASE i >= k
    <3>1. i - (k - 1) \in 1..(Len(q) - k) /\ k + (i - (k - 1)) = i + 1 /\ ~(i <= k - 1)
      BY <1>1, <2>2
    <3>2. c[i - (k - 1)] = q[i + 1]
      BY <1>3, <3>1
    <3>3. (a \o c)[i] = c[i - (k - 1)]
      BY <1>4, <3>1
    <3>4. QED
      BY <1>1, <2>2, <3>2, <3>3
  <2>3. i < k \/ i >= k
    BY <1>1
  <2>4. QED
    BY <2>1, <2>2, <2>3
<1>6. DOMAIN (a \o c) = 1..(Len(q) - 1)
  BY <1>4, LenProperties
<1>7. QED
  BY <1>4, <1>5, <1>6 DEF a, c

(* The line without one subscription is still a line.                          *)
LEMMA LeaveLineRemoves ==
  ASSUME TypeOK, NEW s \in Subs, LeaveLine(s)
  PROVE  /\ line' \in Seq(Subs)
         /\ \A i, j \in DOMAIN line' : line'[i] = line'[j] => i = j
         /\ Due' = Due \ {s}
<1>1. line \in Seq(Subs) /\ \A i, j \in DOMAIN line : line[i] = line[j] => i = j
  BY DEF TypeOK
<1>2. CASE s \notin Due
  BY <1>1, <1>2 DEF LeaveLine, Due
<1>3. CASE s \in Due
  <2> DEFINE k == CHOOSE j \in DOMAIN line : line[j] = s
  <2>1. k \in DOMAIN line /\ line[k] = s
    BY <1>3 DEF Due
  <2>2. line' = SubSeq(line, 1, k - 1) \o SubSeq(line, k + 1, Len(line))
    BY <1>3 DEF LeaveLine
  <2> HIDE DEF k
  <2>3. DOMAIN line = 1..Len(line) /\ Len(line) \in Nat /\ k \in 1..Len(line)
    BY <1>1, <2>1
  <2>4. LET r == SubSeq(line, 1, k - 1) \o SubSeq(line, k + 1, Len(line))
        IN  /\ r \in Seq(Subs)
            /\ DOMAIN r = 1..(Len(line) - 1)
            /\ \A i \in 1..(Len(line) - 1) : r[i] = IF i < k THEN line[i] ELSE line[i + 1]
    <3>1. line \in Seq(Subs) /\ k \in 1..Len(line)
      BY <1>1, <2>3
    <3>2. QED
      BY <3>1, RemovedPosition, Zenon
  <2>5. /\ line' \in Seq(Subs)
        /\ DOMAIN line' = 1..(Len(line) - 1)
        /\ DOMAIN line = 1..Len(line) /\ Len(line) \in Nat /\ k \in 1..Len(line)
        /\ \A i \in 1..(Len(line) - 1) :
             line'[i] = IF i < k THEN line[i] ELSE line[i + 1]
    BY <2>2, <2>3, <2>4, Zenon
  <2>6. ASSUME NEW i \in DOMAIN line', NEW j \in DOMAIN line', line'[i] = line'[j]
        PROVE  i = j
    <3>1. \A m \in DOMAIN line' : \E n \in DOMAIN line :
            /\ line'[m] = line[n]
            /\ n = IF m < k THEN m ELSE m + 1
      BY <2>5
    <3>2. PICK m \in DOMAIN line : line'[i] = line[m] /\ m = IF i < k THEN i ELSE i + 1
      BY <3>1
    <3>3. PICK n \in DOMAIN line : line'[j] = line[n] /\ n = IF j < k THEN j ELSE j + 1
      BY <3>1
    <3>4. m = n
      BY <1>1, <2>6, <3>2, <3>3
    <3>5. QED
      BY <2>5, <3>2, <3>3, <3>4
  <2>7. ASSUME NEW i \in DOMAIN line'
        PROVE  line'[i] \in Due /\ line'[i] # s
    BY <1>1, <2>1, <2>5 DEF Due
  <2>8. ASSUME NEW i \in DOMAIN line, line[i] # s
        PROVE  \E j \in DOMAIN line' : line'[j] = line[i]
    <3>1. CASE i < k
      BY <2>5, <3>1
    <3>2. CASE i > k
      <4>1. i - 1 \in DOMAIN line' /\ line'[i - 1] = line[i]
        BY <2>5, <3>2
      <4>2. QED
        BY <4>1
    <3>3. QED
      BY <2>1, <2>5, <2>8, <3>1, <3>2
  <2>9. QED
    BY <2>5, <2>6, <2>7, <2>8 DEF Due
<1>4. QED
  BY <1>2, <1>3

-------------------------------------------------------------------------------
(* Steps.                                                                      *)

LEMMA InitIsSafe == Init => SubscriptionsInvariant
BY DEF Init, SubscriptionsInvariant, TypeOK, StreakIsEarned, RowsAreEarned, RowsAgree,
   RowsOf, Due

LEMMA FallDueIsSafe ==
  ASSUME SubscriptionsInvariant, NEW s \in Subs, FallDue(s)
  PROVE  SubscriptionsInvariant'
<1>1. /\ s \notin Due
      /\ periods[s] < MaxPeriods
      /\ line' = Append(line, s)
      /\ periods' = [periods EXCEPT ![s] = @ + 1]
      /\ UNCHANGED <<streak, longest, late, batch, resolved>>
  BY DEF FallDue
<1>2. /\ line \in Seq(Subs) /\ \A i, j \in DOMAIN line : line[i] = line[j] => i = j
      /\ periods \in [Subs -> 0..MaxPeriods]
      /\ streak \in [Subs -> 0..MaxPeriods] /\ longest \in [Subs -> 0..MaxPeriods]
      /\ batch \in [Executors -> Seq(Rows)]
  BY DEF SubscriptionsInvariant, TypeOK
<1>3. /\ line' \in Seq(Subs)
      /\ Len(line') = Len(line) + 1 /\ line'[Len(line) + 1] = s
      /\ \A i \in 1..Len(line) : line'[i] = line[i]
      /\ DOMAIN line' = 1..(Len(line) + 1) /\ DOMAIN line = 1..Len(line)
      /\ Len(line) \in Nat
  BY <1>1, <1>2
<1>4. Due' = Due \cup {s}
  <2>1. ASSUME NEW i \in DOMAIN line' PROVE line'[i] \in Due \cup {s}
    BY <1>3 DEF Due
  <2>2. ASSUME NEW i \in DOMAIN line PROVE line[i] \in Due'
    BY <1>3 DEF Due
  <2>3. s \in Due'
    BY <1>3 DEF Due
  <2>4. QED
    BY <2>1, <2>2, <2>3 DEF Due
<1>5. TypeOK'
  <2>1. \A i, j \in DOMAIN line' : line'[i] = line'[j] => i = j
    BY <1>1, <1>2, <1>3 DEF Due
  <2>2. periods' \in [Subs -> 0..MaxPeriods]
    <3>1. periods[s] + 1 \in 0..MaxPeriods
      BY <1>1, <1>2
    <3>2. QED
      BY <1>1, <1>2, <3>1
  <2>3. /\ streak' \in [Subs -> 0..MaxPeriods] /\ longest' \in [Subs -> 0..MaxPeriods]
        /\ batch' \in [Executors -> Seq(Rows)]
    BY <1>1, <1>2
  <2>4. /\ late' \subseteq Subs /\ resolved' \in [Executors -> BOOLEAN]
        /\ \A e \in Executors : resolved'[e] => batch'[e] # <<>>
    BY <1>1 DEF SubscriptionsInvariant, TypeOK
  <2>5. line' \in Seq(Subs)
    BY <1>3
  <2>6. QED
    BY <2>1, <2>2, <2>3, <2>4, <2>5, Zenon DEF TypeOK
<1>6. StreakIsEarned'
  BY <1>1, <1>2, <1>4 DEF SubscriptionsInvariant, StreakIsEarned
<1>7. ASSUME NEW e \in Executors, NEW row \in RowsOf(e)
      PROVE  row \in Rows
  BY <1>2 DEF RowsOf
<1>8. \A e \in Executors : RowsOf(e)' = RowsOf(e)
  BY <1>1 DEF RowsOf
<1>9. RowsAreEarned'
  <2>1. \A u \in Subs : periods[u] <= periods'[u] /\ periods'[u] \in Nat /\ periods[u] \in Nat
    BY <1>1, <1>2
  <2>2. QED
    BY <1>7, <1>8, <2>1 DEF SubscriptionsInvariant, RowsAreEarned, Rows
<1>10. RowsAgree'
  <2>1. ASSUME NEW e \in Executors, NEW row \in RowsOf(e), row.sub = s
        PROVE  row.period # periods'[s]
    BY <1>1, <1>2, <1>7, <2>1 DEF SubscriptionsInvariant, RowsAreEarned, Rows
  <2>2. ASSUME NEW e \in Executors, NEW row \in RowsOf(e), row.sub # s
        PROVE  periods'[row.sub] = periods[row.sub] /\ (row.sub \in Due' <=> row.sub \in Due)
    BY <1>1, <1>2, <1>4, <1>7, <2>2 DEF Rows
  <2>3. QED
    BY <1>1, <1>8, <2>1, <2>2 DEF SubscriptionsInvariant, RowsAgree, NewStreak, NewLongest
<1>11. QED
  BY <1>5, <1>6, <1>9, <1>10 DEF SubscriptionsInvariant

LEMMA LoadIsSafe ==
  ASSUME SubscriptionsInvariant, NEW e \in Executors, Load(e)
  PROVE  SubscriptionsInvariant'
<1>1. /\ batch[e] = <<>>
      /\ batch' = [batch EXCEPT ![e] = Loaded]
      /\ UNCHANGED <<line, streak, longest, periods, late, resolved>>
  BY DEF Load, rowVars
<1>2. /\ line \in Seq(Subs)
      /\ periods \in [Subs -> 0..MaxPeriods]
      /\ streak \in [Subs -> 0..MaxPeriods] /\ longest \in [Subs -> 0..MaxPeriods]
      /\ batch \in [Executors -> Seq(Rows)]
      /\ resolved \in [Executors -> BOOLEAN] /\ ~resolved[e]
  BY <1>1 DEF SubscriptionsInvariant, TypeOK
<1> DEFINE n == IF Len(line) < Limit THEN Len(line) ELSE Limit
<1>3. n \in Nat /\ n <= Len(line) /\ DOMAIN line = 1..Len(line) /\ Len(line) \in Nat
  BY <1>2
<1>4. Loaded = [i \in 1..n |-> RowOf(line[i])]
  BY DEF Loaded
<1> HIDE DEF n
<1>5. ASSUME NEW i \in 1..n
      PROVE  /\ RowOf(line[i]) \in Rows
             /\ line[i] \in Due /\ line[i] \in Subs
  <2>1. i \in DOMAIN line /\ line[i] \in Subs
    BY <1>2, <1>3
  <2>2. /\ streak[line[i]] \in 0..MaxPeriods /\ longest[line[i]] \in 0..MaxPeriods
        /\ periods[line[i]] \in 0..MaxPeriods
    BY <1>2, <2>1
  <2>3. QED
    BY <2>1, <2>2 DEF RowOf, Rows, Due
<1>6. Loaded \in Seq(Rows) /\ DOMAIN Loaded = 1..n
  BY <1>3, <1>4, <1>5
<1>7. TypeOK'
  BY <1>1, <1>2, <1>6 DEF SubscriptionsInvariant, TypeOK
<1>8. ASSUME NEW f \in Executors, NEW row \in RowsOf(f)'
      PROVE  \/ f # e /\ row \in RowsOf(f)
             \/ \E s \in Subs : s \in Due /\ row = RowOf(s)
  BY <1>1, <1>2, <1>4, <1>5, <1>6 DEF RowsOf
<1>9. ASSUME NEW s \in Subs, s \in Due
      PROVE  /\ RowOf(s).sub = s /\ RowOf(s).period = periods[s]
             /\ RowOf(s).streak = streak[s] /\ RowOf(s).longest = longest[s]
             /\ streak[s] <= longest[s] /\ longest[s] < periods[s]
             /\ periods[s] \in Nat
  BY <1>2, <1>9 DEF RowOf, SubscriptionsInvariant, StreakIsEarned
<1>10. Due' = Due
  BY <1>1 DEF Due
<1>11. StreakIsEarned'
  BY <1>1, <1>10 DEF SubscriptionsInvariant, StreakIsEarned
<1>12. RowsAreEarned'
  <2>1. ASSUME NEW f \in Executors, NEW row \in RowsOf(f)'
        PROVE  row.period <= periods[row.sub] /\ row.streak <= row.longest
               /\ row.longest < row.period
    BY <1>8, <1>9, <2>1 DEF SubscriptionsInvariant, RowsAreEarned
  <2>2. QED
    BY <1>1, <2>1 DEF RowsAreEarned
<1>13. RowsAgree'
  <2>1. ASSUME NEW f \in Executors, NEW row \in RowsOf(f)',
               row.sub \notin late, row.period = periods[row.sub]
        PROVE  IF row.sub \in Due
               THEN streak[row.sub] = row.streak /\ longest[row.sub] = row.longest
               ELSE streak[row.sub] = NewStreak(row) /\ longest[row.sub] = NewLongest(row)
    <3>1. CASE f # e /\ row \in RowsOf(f)
      BY <2>1, <3>1 DEF SubscriptionsInvariant, RowsAgree
    <3>2. ASSUME NEW s \in Subs, s \in Due, row = RowOf(s)
          PROVE  row.sub \in Due /\ streak[row.sub] = row.streak
                 /\ longest[row.sub] = row.longest
      BY <1>9, <3>2
    <3>3. QED
      BY <1>8, <2>1, <3>1, <3>2
  <2>2. QED
    BY <1>1, <1>10, <2>1 DEF RowsAgree, NewStreak, NewLongest
<1>14. QED
  BY <1>7, <1>11, <1>12, <1>13 DEF SubscriptionsInvariant

(* Calls that answer, fail or are cut off: rows are lost, and nothing written. *)
LEMMA NoUpdateIsSafe ==
  ASSUME SubscriptionsInvariant, NEW e \in Executors,
         Resolve(e) \/ ResolveFails(e) \/ AbortPoll(e)
  PROVE  /\ SubscriptionsInvariant'
         /\ UNCHANGED rowVars
<1>1. /\ batch \in [Executors -> Seq(Rows)]
      /\ resolved \in [Executors -> BOOLEAN]
      /\ streak \in [Subs -> 0..MaxPeriods]
      /\ batch[e] # <<>>
      /\ batch[e] \in Seq(Rows)
  BY DEF SubscriptionsInvariant, TypeOK, Resolve, ResolveFails, AbortPoll
<1>2. UNCHANGED rowVars
  <2>1. CASE ResolveFails(e)
    BY <1>1, <2>1 DEF ResolveFails, StreakAfterFailure, rowVars
  <2>2. CASE Resolve(e) \/ AbortPoll(e)
    BY <2>2 DEF Resolve, AbortPoll, rowVars
  <2>3. QED
    BY <2>1, <2>2
<1>3. /\ batch' \in [Executors -> Seq(Rows)]
      /\ resolved' \in [Executors -> BOOLEAN]
      /\ \A f \in Executors : resolved'[f] => batch'[f] # <<>>
      /\ \A f \in Executors : RowsOf(f)' \subseteq RowsOf(f)
  <2>1. CASE Resolve(e)
    BY <1>1, <2>1 DEF Resolve, RowsOf, SubscriptionsInvariant, TypeOK
  <2>2. CASE ResolveFails(e)
    <3>1. /\ batch' = [batch EXCEPT ![e] = Tail(@)]
          /\ resolved' = resolved /\ ~resolved[e]
      BY <2>2 DEF ResolveFails, AfterFailure
    <3>2. /\ Tail(batch[e]) \in Seq(Rows)
          /\ \A i \in DOMAIN Tail(batch[e]) :
                i + 1 \in DOMAIN batch[e] /\ Tail(batch[e])[i] = batch[e][i + 1]
      BY <1>1, HeadAndTail
    <3>3. QED
      BY <1>1, <3>1, <3>2 DEF RowsOf, SubscriptionsInvariant, TypeOK
  <2>3. CASE AbortPoll(e)
    BY <1>1, <2>3 DEF AbortPoll, RowsOf, SubscriptionsInvariant, TypeOK
  <2>4. QED
    BY <2>1, <2>2, <2>3
<1>4. TypeOK'
  BY <1>2, <1>3 DEF SubscriptionsInvariant, TypeOK, rowVars
<1>5. Due' = Due
  BY <1>2 DEF rowVars, Due
<1>6. StreakIsEarned'
  BY <1>2, <1>5 DEF SubscriptionsInvariant, StreakIsEarned, rowVars
<1>7. RowsAreEarned'
  BY <1>2, <1>3 DEF SubscriptionsInvariant, RowsAreEarned, rowVars
<1>8. RowsAgree'
  BY <1>2, <1>3, <1>5 DEF SubscriptionsInvariant, RowsAgree, rowVars, NewStreak, NewLongest
<1>9. QED
  BY <1>2, <1>4, <1>6, <1>7, <1>8 DEF SubscriptionsInvariant

(* The row an update is made from, and what it leaves of the batches.          *)
LEMMA UpdatedRow ==
  ASSUME SubscriptionsInvariant, NEW e \in Executors, Update(e)
  PROVE  \E row \in RowsOf(e) :
           /\ row \in Rows
           /\ row.streak + 1 <= NewLongest(row)
           /\ NewLongest(row) <= row.period
           /\ row.period <= periods[row.sub]
           /\ NewLongest(row) \in Nat
           /\ streak' = [streak EXCEPT ![row.sub] = row.streak + 1]
           /\ longest' = [longest EXCEPT ![row.sub] = NewLongest(row)]
           /\ LeaveLine(row.sub)
           /\ late' = IF row.period < periods[row.sub] THEN late \cup {row.sub} ELSE late
           /\ batch' \in [Executors -> Seq(Rows)]
           /\ resolved' \in [Executors -> BOOLEAN]
           /\ \A f \in Executors : resolved'[f] => batch'[f] # <<>>
           /\ \A f \in Executors : RowsOf(f)' \subseteq RowsOf(f)
           /\ periods' = periods
<1>1. /\ batch \in [Executors -> Seq(Rows)]
      /\ resolved \in [Executors -> BOOLEAN]
      /\ batch[e] # <<>> /\ batch[e] \in Seq(Rows)
  BY DEF SubscriptionsInvariant, TypeOK, Update
<1>2. /\ 1 \in DOMAIN batch[e] /\ Head(batch[e]) = batch[e][1] /\ Head(batch[e]) \in Rows
      /\ Tail(batch[e]) \in Seq(Rows)
      /\ \A i \in DOMAIN Tail(batch[e]) :
            i + 1 \in DOMAIN batch[e] /\ Tail(batch[e])[i] = batch[e][i + 1]
  BY <1>1, HeadAndTail
<1> DEFINE row == Head(batch[e])
<1>3. row \in RowsOf(e) /\ row \in Rows
  BY <1>2 DEF RowsOf
<1>4. /\ streak' = [streak EXCEPT ![row.sub] = row.streak + 1]
      /\ longest' = [longest EXCEPT ![row.sub] = NewLongest(row)]
      /\ LeaveLine(row.sub)
      /\ late' = IF row.period < periods[row.sub] THEN late \cup {row.sub} ELSE late
      /\ batch' = [batch EXCEPT ![e] = Tail(@)]
      /\ resolved' = [resolved EXCEPT ![e] = FALSE]
      /\ periods' = periods
  BY DEF Update, NewStreak
<1>5. /\ batch' \in [Executors -> Seq(Rows)]
      /\ resolved' \in [Executors -> BOOLEAN]
      /\ \A f \in Executors : resolved'[f] => batch'[f] # <<>>
      /\ \A f \in Executors : RowsOf(f)' \subseteq RowsOf(f)
  BY <1>1, <1>2, <1>4 DEF RowsOf, SubscriptionsInvariant, TypeOK
<1> HIDE DEF row
<1>6. /\ row.period <= periods[row.sub] /\ row.longest < row.period
      /\ row.streak <= row.longest
      /\ row.streak \in Nat /\ row.longest \in Nat /\ row.period \in Nat
  BY <1>3 DEF SubscriptionsInvariant, RowsAreEarned, Rows
<1>7. /\ row.streak + 1 <= NewLongest(row) /\ NewLongest(row) <= row.period
      /\ NewLongest(row) \in Nat
  BY <1>6 DEF NewLongest, NewStreak
<1>8. QED
  BY <1>3, <1>4, <1>5, <1>6, <1>7

LEMMA UpdateIsSafe ==
  ASSUME SubscriptionsInvariant, NEW e \in Executors, Update(e)
  PROVE  /\ SubscriptionsInvariant'
         /\ \A s \in Subs \ late' : streak'[s] >= streak[s] /\ longest'[s] >= longest[s]
<1>1. PICK row \in RowsOf(e) :
           /\ row \in Rows
           /\ row.streak + 1 <= NewLongest(row)
           /\ NewLongest(row) <= row.period
           /\ row.period <= periods[row.sub]
           /\ NewLongest(row) \in Nat
           /\ streak' = [streak EXCEPT ![row.sub] = row.streak + 1]
           /\ longest' = [longest EXCEPT ![row.sub] = NewLongest(row)]
           /\ LeaveLine(row.sub)
           /\ late' = IF row.period < periods[row.sub] THEN late \cup {row.sub} ELSE late
           /\ batch' \in [Executors -> Seq(Rows)]
           /\ resolved' \in [Executors -> BOOLEAN]
           /\ \A f \in Executors : resolved'[f] => batch'[f] # <<>>
           /\ \A f \in Executors : RowsOf(f)' \subseteq RowsOf(f)
           /\ periods' = periods
  BY UpdatedRow
<1>2. /\ row.sub \in Subs /\ row.streak \in Nat /\ row.longest \in Nat /\ row.period \in Nat
      /\ periods \in [Subs -> 0..MaxPeriods]
      /\ streak \in [Subs -> 0..MaxPeriods] /\ longest \in [Subs -> 0..MaxPeriods]
  BY <1>1 DEF Rows, SubscriptionsInvariant, TypeOK
<1>3. /\ line' \in Seq(Subs)
      /\ \A i, j \in DOMAIN line' : line'[i] = line'[j] => i = j
      /\ Due' = Due \ {row.sub}
  BY <1>1, <1>2, LeaveLineRemoves DEF SubscriptionsInvariant
<1>4. /\ streak' \in [Subs -> 0..MaxPeriods] /\ longest' \in [Subs -> 0..MaxPeriods]
      /\ streak'[row.sub] = row.streak + 1 /\ longest'[row.sub] = NewLongest(row)
      /\ \A s \in Subs \ {row.sub} : streak'[s] = streak[s] /\ longest'[s] = longest[s]
  BY <1>1, <1>2
<1>5. TypeOK'
  BY <1>1, <1>2, <1>3, <1>4 DEF SubscriptionsInvariant, TypeOK
<1>6. StreakIsEarned'
  BY <1>1, <1>2, <1>3, <1>4 DEF SubscriptionsInvariant, StreakIsEarned
<1>7. RowsAreEarned'
  BY <1>1 DEF SubscriptionsInvariant, RowsAreEarned
<1>8. ASSUME row.sub \notin late'
      PROVE  /\ row.period = periods[row.sub]
             /\ row.sub \notin late
             /\ IF row.sub \in Due
                THEN streak[row.sub] = row.streak /\ longest[row.sub] = row.longest
                ELSE streak[row.sub] = NewStreak(row) /\ longest[row.sub] = NewLongest(row)
  <2>1. row.sub \notin late /\ ~(row.period < periods[row.sub])
    BY <1>1, <1>8
  <2>2. row.period = periods[row.sub]
    BY <1>1, <1>2, <2>1
  <2>3. QED
    BY <2>1, <2>2 DEF SubscriptionsInvariant, RowsAgree
<1>9. ASSUME NEW f \in Executors, NEW r \in RowsOf(f)',
             r.sub \notin late', r.period = periods[r.sub]
      PROVE  IF r.sub \in Due'
             THEN streak'[r.sub] = r.streak /\ longest'[r.sub] = r.longest
             ELSE streak'[r.sub] = NewStreak(r) /\ longest'[r.sub] = NewLongest(r)
  <2>1. /\ r \in RowsOf(f) /\ r \in Rows /\ r.sub \in Subs /\ r.sub \notin late
    <3>1. r \in RowsOf(f) /\ r.sub \notin late
      BY <1>1, <1>9
    <3>2. r \in Rows
      BY <3>1 DEF RowsOf, SubscriptionsInvariant, TypeOK
    <3>3. QED
      BY <3>1, <3>2 DEF Rows
  <2>2. IF r.sub \in Due
        THEN streak[r.sub] = r.streak /\ longest[r.sub] = r.longest
        ELSE streak[r.sub] = NewStreak(r) /\ longest[r.sub] = NewLongest(r)
    BY <1>9, <2>1 DEF SubscriptionsInvariant, RowsAgree
  <2>3. CASE r.sub # row.sub
    BY <1>3, <1>4, <2>1, <2>2, <2>3
  <2>4. CASE r.sub = row.sub
    <3>1. /\ r.sub \notin Due'
          /\ streak'[r.sub] = NewStreak(row) /\ longest'[r.sub] = NewLongest(row)
      BY <1>3, <1>4, <2>4 DEF NewStreak
    <3>2. NewStreak(row) = NewStreak(r) /\ NewLongest(row) = NewLongest(r)
      <4>1. CASE r.sub \in Due
        BY <1>8, <1>9, <2>2, <2>4, <4>1 DEF NewStreak, NewLongest
      <4>2. CASE r.sub \notin Due
        BY <1>8, <1>9, <2>2, <2>4, <4>2
      <4>3. QED
        BY <4>1, <4>2
    <3>3. QED
      BY <3>1, <3>2
  <2>5. QED
    BY <2>3, <2>4
<1>10. RowsAgree'
  BY <1>1, <1>9 DEF RowsAgree, NewStreak, NewLongest
<1>11. ASSUME NEW s \in Subs \ late'
       PROVE  streak'[s] >= streak[s] /\ longest'[s] >= longest[s]
  <2>1. CASE s # row.sub
    BY <1>2, <1>4, <2>1
  <2>2. CASE s = row.sub
    BY <1>2, <1>4, <1>8, <2>2 DEF NewStreak, NewLongest
  <2>3. QED
    BY <2>1, <2>2
<1>12. QED
  BY <1>5, <1>6, <1>7, <1>10, <1>11 DEF SubscriptionsInvariant

LEMMA NextIsSafe == SubscriptionsInvariant /\ [Next]_vars => SubscriptionsInvariant'
<1> SUFFICES ASSUME SubscriptionsInvariant, [Next]_vars PROVE SubscriptionsInvariant'
  OBVIOUS
<1>1. ASSUME NEW e \in Executors, Poll(e) PROVE SubscriptionsInvariant'
  BY <1>1, LoadIsSafe, NoUpdateIsSafe, UpdateIsSafe DEF Poll
<1>2. ASSUME NEW s \in Subs, FallDue(s) PROVE SubscriptionsInvariant'
  BY <1>2, FallDueIsSafe
<1>3. CASE UNCHANGED vars
  BY <1>3 DEF vars, rowVars, SubscriptionsInvariant, TypeOK, StreakIsEarned, RowsAreEarned,
       RowsAgree, RowsOf, Due, NewStreak, NewLongest
<1>4. QED
  BY <1>1, <1>2, <1>3 DEF Next

-------------------------------------------------------------------------------

(* The inductive invariant of the executors: loaded rows are behind their      *)
(* period, and rows of one period agree.                                       *)
THEOREM SubscriptionsAreSafe == Spec => []SubscriptionsInvariant
BY InitIsSafe, NextIsSafe, PTL DEF Spec

(* Type correctness: the line has no subscription twice, and no streak is      *)
(* longer than the number of periods there can be.                             *)
THEOREM TypeCorrect == Spec => []TypeOK
<1>1. SubscriptionsInvariant => TypeOK
  BY DEF SubscriptionsInvariant
<1>2. QED
  BY <1>1, SubscriptionsAreSafe, PTL

(* The UPDATE from a loaded row never counts a period twice, however many      *)
(* executors overlap and however late they come.                               *)
THEOREM StreaksAreEarned == Spec => []StreakIsEarned
<1>1. SubscriptionsInvariant => StreakIsEarned
  BY DEF SubscriptionsInvariant
<1>2. QED
  BY <1>1, SubscriptionsAreSafe, PTL

LEMMA StepKeepsStreaks ==
  ASSUME SubscriptionsInvariant, [Next]_vars, NEW s \in Subs \ late'
  PROVE  streak'[s] >= streak[s] /\ longest'[s] >= longest[s]
<1>1. streak[s] \in Nat /\ longest[s] \in Nat
  BY DEF SubscriptionsInvariant, TypeOK
<1>2. ASSUME NEW e \in Executors, Update(e)
      PROVE  streak'[s] >= streak[s] /\ longest'[s] >= longest[s]
  BY <1>2, UpdateIsSafe
<1>3. ASSUME NEW e \in Executors, Resolve(e) \/ ResolveFails(e) \/ AbortPoll(e)
      PROVE  UNCHANGED <<streak, longest>>
  BY <1>3, NoUpdateIsSafe DEF rowVars
<1>4. ASSUME NEW e \in Executors, Load(e) PROVE UNCHANGED <<streak, longest>>
  BY <1>4 DEF Load, rowVars
<1>5. ASSUME NEW u \in Subs, FallDue(u) PROVE UNCHANGED <<streak, longest>>
  BY <1>5 DEF FallDue
<1>6. CASE UNCHANGED vars
  BY <1>1, <1>6 DEF vars, rowVars
<1>7. QED
  BY <1>1, <1>2, <1>3, <1>4, <1>5, <1>6 DEF Next, Poll

(* "Don't break streak on API failure", nor on an aborted batch, nor on polls  *)
(* that overlap within a period.                                               *)
THEOREM StreaksAreKept == Spec => StreakIsKept
<1>1. SubscriptionsInvariant /\ [Next]_vars =>
        [\A s \in Subs \ late' :
           streak'[s] >= streak[s] /\ longest'[s] >= longest[s]]_vars
  BY StepKeepsStreaks
<1>2. QED
  BY <1>1, SubscriptionsAreSafe, PTL DEF Spec, StreakIsKept
===============================================================================
