----------------------------- MODULE Subscriptions -----------------------------
(* The subscription executor (src/src/subscriptions.rs): every poll loads the  *)
(* subscriptions that have been due longest, at most LIMIT of them, resolves   *)
(* the intent of each over HTTP, and on success writes a streak computed from  *)
(* the row it loaded.  Polls of two processes may overlap.                     *)
(*                                                                             *)
(* Time is the order in which subscriptions fall due.                          *)
EXTENDS Integers, Sequences

CONSTANTS Executors,      \* processes running the subscription cron
          Subs,           \* active subscriptions
          Broken,         \* those whose intent the API never resolves
          Limit,          \* LIMIT of the poll's query
          MaxPeriods      \* bound: times a subscription falls due

ASSUME ConstantsAssumption ==
  /\ Broken \subseteq Subs
  /\ Limit \in Nat \ {0}
  /\ MaxPeriods \in Nat

VARIABLES line,        \* due subscriptions, ORDER BY next_due_at
          streak,      \* streak_current
          longest,     \* streak_longest
          periods,     \* history: times each subscription fell due
          late,        \* history: subscriptions updated from a row of an earlier period
          batch,       \* due_subs: the loaded rows an executor has yet to treat
          resolved     \* the API has resolved the intent of the batch's first row

rowVars == <<line, streak, longest, periods, late>>
vars == <<rowVars, batch, resolved>>

Due == {line[i] : i \in DOMAIN line}

-------------------------------------------------------------------------------
(* What a poll computes.  A definition named for a bug is a mutant of the one  *)
(* after it; no action uses it.                                                *)

(* A loaded row; period is a history of when it was loaded.                    *)
RowOf(s) ==
  [sub |-> s, streak |-> streak[s], longest |-> longest[s], period |-> periods[s]]

Loaded == [i \in 1..(IF Len(line) < Limit THEN Len(line) ELSE Limit) |-> RowOf(line[i])]

StreakInTable(row) == streak[row.sub] + 1

NewStreak(row) == row.streak + 1

NewLongest(row) ==
  IF row.longest < NewStreak(row) THEN NewStreak(row) ELSE row.longest

BrokenOff(row) == 0

(* "Don't break streak on API failure".                                        *)
StreakAfterFailure(row) == streak[row.sub]

GivesUp(rows) == <<>>

(* A failure leaves the rest of the batch to be treated.                       *)
AfterFailure(rows) == Tail(rows)

-------------------------------------------------------------------------------
Init == /\ line = <<>>
        /\ streak = [s \in Subs |-> 0]
        /\ longest = [s \in Subs |-> 0]
        /\ periods = [s \in Subs |-> 0]
        /\ late = {}
        /\ batch = [e \in Executors |-> <<>>]
        /\ resolved = [e \in Executors |-> FALSE]

(* next_due_at passes.                                                         *)
FallDue(s) ==
  /\ s \notin Due
  /\ periods[s] < MaxPeriods
  /\ line' = Append(line, s)
  /\ periods' = [periods EXCEPT ![s] = @ + 1]
  /\ UNCHANGED <<streak, longest, late, batch, resolved>>

(* A poll finds due subscriptions.                                             *)
Load(e) ==
  /\ batch[e] = <<>>
  /\ line # <<>>
  /\ batch' = [batch EXCEPT ![e] = Loaded]
  /\ UNCHANGED <<rowVars, resolved>>

(* POST /v1/intents/resolve succeeds.                                          *)
Resolve(e) ==
  /\ batch[e] # <<>>
  /\ ~resolved[e]
  /\ Head(batch[e]).sub \notin Broken
  /\ resolved' = [resolved EXCEPT ![e] = TRUE]
  /\ UNCHANGED <<rowVars, batch>>

(* It answers an error status, or cannot be reached: the row stays due.        *)
ResolveFails(e) ==
  /\ batch[e] # <<>>
  /\ ~resolved[e]
  /\ LET row == Head(batch[e])
     IN  streak' = [streak EXCEPT ![row.sub] = StreakAfterFailure(row)]
  /\ batch' = [batch EXCEPT ![e] = AfterFailure(@)]
  /\ UNCHANGED <<line, longest, periods, late, resolved>>

(* next_due_at moves into the future; the row may have been served already.    *)
LeaveLine(s) ==
  line' = IF s \notin Due THEN line
          ELSE LET i == CHOOSE j \in DOMAIN line : line[j] = s
               IN  SubSeq(line, 1, i - 1) \o SubSeq(line, i + 1, Len(line))

(* The UPDATE, from the values loaded with the batch.                          *)
Update(e) ==
  /\ resolved[e]
  /\ LET row == Head(batch[e])
     IN  /\ streak' = [streak EXCEPT ![row.sub] = NewStreak(row)]
         /\ longest' = [longest EXCEPT ![row.sub] = NewLongest(row)]
         /\ LeaveLine(row.sub)
         /\ late' = IF row.period < periods[row.sub] THEN late \cup {row.sub} ELSE late
  /\ batch' = [batch EXCEPT ![e] = Tail(@)]
  /\ resolved' = [resolved EXCEPT ![e] = FALSE]
  /\ UNCHANGED periods

(* The poll ends before its batch does: the UPDATE fails and its `?` returns,  *)
(* or the process dies.                                                        *)
AbortPoll(e) ==
  /\ batch[e] # <<>>
  /\ batch' = [batch EXCEPT ![e] = <<>>]
  /\ resolved' = [resolved EXCEPT ![e] = FALSE]
  /\ UNCHANGED rowVars

Poll(e) == Load(e) \/ Resolve(e) \/ ResolveFails(e) \/ Update(e) \/ AbortPoll(e)

Next == \/ \E e \in Executors : Poll(e)
        \/ \E s \in Subs : FallDue(s)

Spec == Init /\ [][Next]_vars

Treats(e, s) == batch[e] # <<>> /\ Head(batch[e]).sub = s

(* Polls keep coming, every HTTP call returns, and a step that is possible in  *)
(* poll after poll is not prevented each time by the network, the database or  *)
(* a crash.                                                                    *)
ExecutorFairness(e) ==
  /\ WF_vars(Poll(e))
  /\ \A s \in Broken : SF_vars(Treats(e, s) /\ ResolveFails(e))
  /\ \A s \in Subs \ Broken : /\ SF_vars(Treats(e, s) /\ Resolve(e))
                              /\ SF_vars(Treats(e, s) /\ Update(e))

FairSpec == Spec /\ \A e \in Executors : ExecutorFairness(e)

-------------------------------------------------------------------------------
(* Properties *)

Rows == [sub : Subs, streak : 0..MaxPeriods, longest : 0..MaxPeriods,
         period : 0..MaxPeriods]

TypeOK ==
  /\ line \in Seq(Subs)
  /\ \A i, j \in DOMAIN line : line[i] = line[j] => i = j
  /\ streak \in [Subs -> 0..MaxPeriods]
  /\ longest \in [Subs -> 0..MaxPeriods]
  /\ periods \in [Subs -> 0..MaxPeriods]
  /\ late \subseteq Subs
  /\ batch \in [Executors -> Seq(Rows)]
  /\ resolved \in [Executors -> BOOLEAN]
  /\ \A e \in Executors : resolved[e] => batch[e] # <<>>

(* A period is never counted twice: executors that overlap on a subscription,  *)
(* however old the row each of them loaded, leave a streak no longer than the  *)
(* number of periods there were, and shorter while one is still due.           *)
StreakIsEarned ==
  \A s \in Subs : /\ streak[s] <= longest[s]
                  /\ longest[s] <= periods[s]
                  /\ s \in Due => streak[s] < periods[s] /\ longest[s] < periods[s]

(* "Don't break streak on API failure": failures, aborted batches and polls     *)
(* that overlap within a period never take a streak or a record back.  Only an *)
(* executor that came through a whole period late can have caused that.        *)
StreakIsKept ==
  [][\A s \in Subs \ late' : streak'[s] >= streak[s] /\ longest'[s] >= longest[s]]_vars

(* Failing subscriptions keep their places at the head of the line; as long as *)
(* they do not fill a whole batch, every other due subscription is served.     *)
DueAreServed ==
  \A s \in Subs \ Broken : s \in Due ~> s \notin Due
===============================================================================
