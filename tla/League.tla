--------------------------------- MODULE League --------------------------------
(* The league's crons around one database: the anti-abuse scanner raises flags *)
(* (src/src/anti_abuse.rs), the milestone processor awards what is not flagged *)
(* (src/src/milestone_processor.rs), the quality score and the visibility tick *)
(* follow (src/src/quality_score.rs, src/src/visibility_tick.rs).  Each        *)
(* decides on the snapshot of one statement and commits later, in its own task.*)
(*                                                                             *)
(* All protocols have status 'active'.  What the statements compute from       *)
(* point_events is an input: which detector thresholds a protocol crosses,     *)
(* which milestones it has reached, and how recent its last event is.          *)
EXTENDS Integers, FiniteSets

CONSTANTS Protocols, Kinds, Milestones,
          Scanners,       \* processes running the anti-abuse cron
          Processors,     \* processes running the milestone cron
          Tickers,        \* processes running the visibility cron
          MaxMoves        \* bound: changes of the inputs

ASSUME ConstantsAssumption ==
  /\ IsFiniteSet(Processors) /\ IsFiniteSet(Tickers)
  /\ MaxMoves \in Nat

VARIABLES suspect,      \* <<protocol, kind>>: the detector's threshold is crossed
          reached,      \* <<protocol, milestone>>: the predicate holds
          activity,     \* age of the last event: recent, quiet, gone (or none)
          lowCapacity,  \* protocols at or below the first capacity warning
          open,         \* abuse_flags rows with resolved_at IS NULL
          high,         \* those a human escalated to severity 'high'
          earned,       \* rewardz_earnings rows, <<protocol, milestone>>
          score,        \* quality_score: at the Blink-health floor, or above it
          visibility,   \* protocols.visibility
          lastEvent,    \* the last visibility_change in protocol_events
          flagging,     \* rows a scanner's INSERT is about to commit
          awarding,     \* rows a processor's INSERT is about to commit
          scoring,      \* the score about to be written, if any
          pending,      \* transitions a visibility tick has yet to apply
          slipped,      \* history: awards made to a protocol since it was flagged
          moves         \* changes of the inputs so far

inputVars == <<suspect, reached, activity, lowCapacity, moves>>
flagVars == <<open, high, flagging>>
awardVars == <<earned, awarding, slipped>>
scoreVars == <<score, scoring>>
visibilityVars == <<visibility, lastEvent, pending>>
vars == <<inputVars, flagVars, awardVars, scoreVars, visibilityVars>>

Flagged(p) == \E f \in open : f[1] = p

-------------------------------------------------------------------------------
(* What the crons compute.  A definition named for a bug is a mutant of the    *)
(* one after it; no action uses it.                                            *)

GateLeftOpen(p) == TRUE

(* The abuse gate every milestone statement shares.                            *)
Gate(p) == ~Flagged(p)

(* Completions are a placeholder of 1.0, so without a wallet in the activity   *)
(* window the score is 0.2, which is the floor.  Social credits, which the     *)
(* milestone processor never awards, are left out.                             *)
NewScore(p) == IF activity[p] = "recent" THEN "above" ELSE "floor"

DecideOnHighFlagsOnly(p) ==
  IF activity[p] = "gone" \/ \E f \in high : f[1] = p THEN "hidden"
  ELSE IF p \in lowCapacity \/ activity[p] = "quiet" \/ score[p] = "floor"
       THEN "at_risk" ELSE "active"

(* decide().                                                                   *)
Decide(p) ==
  IF activity[p] = "gone" \/ \E f \in high : f[1] = p THEN "hidden"
  ELSE IF p \in lowCapacity \/ Flagged(p) \/ activity[p] = "quiet" \/ score[p] = "floor"
       THEN "at_risk" ELSE "active"

Snapshots == {[protocol |-> p, from |-> visibility[p], to |-> Decide(p)] : p \in Protocols}

AllSnapshots == Snapshots

(* A snapshot whose decision is what it loaded is passed over.                 *)
Transitions == {x \in Snapshots : x.from # x.to}

UpdateIsKept(x) == [visibility EXCEPT ![x.protocol] = x.to]

(* The column is rolled back with the event that could not be written.         *)
RolledBack(x) == visibility

-------------------------------------------------------------------------------
Init == /\ suspect = {}
        /\ reached = {}
        /\ activity \in [Protocols -> {"recent", "gone"}]
        /\ lowCapacity = {}
        /\ open = {}
        /\ high = {}
        /\ earned = {}
        /\ score = [p \in Protocols |-> "above"]
        /\ visibility = [p \in Protocols |-> "active"]
        /\ lastEvent = [p \in Protocols |-> [from |-> "none", to |-> "active"]]
        /\ flagging = [s \in Scanners |-> {}]
        /\ awarding = [q \in Processors |-> {}]
        /\ scoring = {}
        /\ pending = [t \in Tickers |-> {}]
        /\ slipped = [p \in Protocols |-> 0]
        /\ moves = 0

-------------------------------------------------------------------------------
(* The inputs: users, time, the API's issuance and operators.                  *)

Move == moves < MaxMoves /\ moves' = moves + 1

PointEvent(p, ms) ==
  /\ Move
  /\ activity' = [activity EXCEPT ![p] = "recent"]
  /\ reached' = reached \cup {<<p, m>> : m \in ms}
  /\ UNCHANGED <<suspect, lowCapacity, flagVars, awardVars, scoreVars, visibilityVars>>

TimePasses(p) ==
  /\ Move
  /\ activity[p] # "gone"
  /\ activity' = [activity EXCEPT ![p] = IF @ = "recent" THEN "quiet" ELSE "gone"]
  /\ UNCHANGED <<suspect, reached, lowCapacity, flagVars, awardVars, scoreVars,
                 visibilityVars>>

CapacityChanges(p) ==
  /\ Move
  /\ lowCapacity' = IF p \in lowCapacity THEN lowCapacity \ {p} ELSE lowCapacity \cup {p}
  /\ UNCHANGED <<suspect, reached, activity, flagVars, awardVars, scoreVars,
                 visibilityVars>>

BehaviourChanges(f) ==
  /\ Move
  /\ suspect' = IF f \in suspect THEN suspect \ {f} ELSE suspect \cup {f}
  /\ UNCHANGED <<reached, activity, lowCapacity, flagVars, awardVars, scoreVars,
                 visibilityVars>>

Escalate(f) ==
  /\ Move
  /\ f \in open \ high
  /\ high' = high \cup {f}
  /\ UNCHANGED <<suspect, reached, activity, lowCapacity, open, flagging, awardVars,
                 scoreVars, visibilityVars>>

Resolve(f) ==
  /\ Move
  /\ f \in open
  /\ open' = open \ {f}
  /\ high' = high \ {f}
  /\ slipped' = IF \E g \in open \ {f} : g[1] = f[1] THEN slipped
                ELSE [slipped EXCEPT ![f[1]] = 0]
  /\ UNCHANGED <<suspect, reached, activity, lowCapacity, flagging, earned, awarding,
                 scoreVars, visibilityVars>>

-------------------------------------------------------------------------------
(* The anti-abuse tick: one INSERT ... SELECT per detector.  The detectors do  *)
(* not depend on each other, nor on another one's failure.                     *)

Detect(s, k) ==
  LET rows == {f \in suspect \ open : f[2] = k}
  IN  /\ flagging[s] = {}
      /\ rows # {}
      /\ flagging' = [flagging EXCEPT ![s] = rows]
      /\ UNCHANGED <<inputVars, open, high, awardVars, scoreVars, visibilityVars>>

RaiseFlags(s) ==
  /\ flagging[s] # {}
  /\ flagging[s] \cap open = {}
  /\ open' = open \cup flagging[s]
  /\ flagging' = [flagging EXCEPT ![s] = {}]
  /\ UNCHANGED <<inputVars, high, awardVars, scoreVars, visibilityVars>>

(* An error; a flag another scanner opened meanwhile is one, by the unique     *)
(* index on open flags, and undoes the whole statement.                        *)
FailDetector(s) ==
  /\ flagging[s] # {}
  /\ flagging' = [flagging EXCEPT ![s] = {}]
  /\ UNCHANGED <<inputVars, open, high, awardVars, scoreVars, visibilityVars>>

(* The milestone tick: one INSERT ... SELECT per slug.                         *)
BeginAward(q, m) ==
  LET rows == {e \in reached \ earned : e[2] = m /\ Gate(e[1])}
  IN  /\ awarding[q] = {}
      /\ rows # {}
      /\ awarding' = [awarding EXCEPT ![q] = rows]
      /\ UNCHANGED <<inputVars, flagVars, earned, slipped, scoreVars, visibilityVars>>

(* ON CONFLICT (protocol_id, milestone_id) DO NOTHING.                         *)
CommitAward(q) ==
  LET new == awarding[q] \ earned
  IN  /\ awarding[q] # {}
      /\ earned' = earned \cup new
      /\ slipped' = [p \in Protocols |->
                       IF Flagged(p) /\ \E e \in new : e[1] = p
                       THEN slipped[p] + 1 ELSE slipped[p]]
      /\ awarding' = [awarding EXCEPT ![q] = {}]
      /\ UNCHANGED <<inputVars, flagVars, scoreVars, visibilityVars>>

FailAward(q) ==
  /\ awarding[q] # {}
  /\ awarding' = [awarding EXCEPT ![q] = {}]
  /\ UNCHANGED <<inputVars, flagVars, earned, slipped, scoreVars, visibilityVars>>

(* The quality-score tick, score_one, hidden protocols included: reads, then   *)
(* an UPDATE.  Only scores that change are steps.                              *)
ComputeScore(p) ==
  /\ scoring = {}
  /\ NewScore(p) # score[p]
  /\ scoring' = {[protocol |-> p, score |-> NewScore(p)]}
  /\ UNCHANGED <<inputVars, flagVars, awardVars, score, visibilityVars>>

WriteScore(p) ==
  \E x \in scoring :
    /\ x.protocol = p
    /\ score' = [score EXCEPT ![p] = x.score]
    /\ scoring' = {}
    /\ UNCHANGED <<inputVars, flagVars, awardVars, visibilityVars>>

FailScore ==
  /\ scoring # {}
  /\ scoring' = {}
  /\ UNCHANGED <<inputVars, flagVars, awardVars, score, visibilityVars>>

(* The visibility tick: one SELECT, then a transaction per transition.         *)
LoadSnapshots(t) ==
  /\ pending[t] = {}
  /\ Transitions # {}
  /\ pending' = [pending EXCEPT ![t] = Transitions]
  /\ UNCHANGED <<inputVars, flagVars, awardVars, scoreVars, visibility, lastEvent>>

ApplyTransition(t, p) ==
  \E x \in pending[t] :
    /\ x.protocol = p
    /\ visibility' = [visibility EXCEPT ![p] = x.to]
    /\ lastEvent' = [lastEvent EXCEPT ![p] = [from |-> x.from, to |-> x.to]]
    /\ pending' = [pending EXCEPT ![t] = @ \ {x}]
    /\ UNCHANGED <<inputVars, flagVars, awardVars, scoreVars>>

FailTransition(t, p) ==
  \E x \in pending[t] :
    /\ x.protocol = p
    /\ pending' = [pending EXCEPT ![t] = @ \ {x}]
    /\ visibility' = RolledBack(x)
    /\ UNCHANGED <<inputVars, flagVars, awardVars, scoreVars, lastEvent>>

-------------------------------------------------------------------------------
Inputs == \/ \E p \in Protocols, ms \in SUBSET Milestones : PointEvent(p, ms)
          \/ \E p \in Protocols : TimePasses(p) \/ CapacityChanges(p)
          \/ \E f \in Protocols \X Kinds : BehaviourChanges(f) \/ Escalate(f) \/ Resolve(f)

Scan(s) == (\E k \in Kinds : Detect(s, k)) \/ RaiseFlags(s) \/ FailDetector(s)

Award(q) == (\E m \in Milestones : BeginAward(q, m)) \/ CommitAward(q) \/ FailAward(q)

Score == (\E p \in Protocols : ComputeScore(p) \/ WriteScore(p)) \/ FailScore

VisibilityTick(t) ==
  LoadSnapshots(t) \/ \E p \in Protocols : ApplyTransition(t, p) \/ FailTransition(t, p)

Next == \/ Inputs
        \/ \E s \in Scanners : Scan(s)
        \/ \E q \in Processors : Award(q)
        \/ Score
        \/ \E t \in Tickers : VisibilityTick(t)

Spec == Init /\ [][Next]_vars

(* The crons keep ticking, and no statement fails on every try.                *)
FairSpec ==
  /\ Spec
  /\ \A s \in Scanners : /\ WF_vars(Scan(s)) /\ SF_vars(RaiseFlags(s))
                         /\ \A k \in Kinds : SF_vars(Detect(s, k))
  /\ \A p \in Protocols : SF_vars(ComputeScore(p)) /\ SF_vars(WriteScore(p))
  /\ WF_vars(Score)
  /\ \A t \in Tickers : /\ WF_vars(VisibilityTick(t))
                        /\ \A p \in Protocols : SF_vars(ApplyTransition(t, p))

-------------------------------------------------------------------------------
(* Properties *)

Levels == {"active", "at_risk", "hidden"}

TypeOK ==
  /\ suspect \subseteq Protocols \X Kinds
  /\ reached \subseteq Protocols \X Milestones
  /\ activity \in [Protocols -> {"recent", "quiet", "gone"}]
  /\ lowCapacity \subseteq Protocols
  /\ open \subseteq Protocols \X Kinds
  /\ high \subseteq open
  /\ earned \subseteq reached
  /\ score \in [Protocols -> {"above", "floor"}]
  /\ visibility \in [Protocols -> Levels]
  /\ lastEvent \in [Protocols -> [from : Levels \cup {"none"}, to : Levels]]
  /\ flagging \in [Scanners -> SUBSET (Protocols \X Kinds)]
  /\ awarding \in [Processors -> SUBSET reached]
  /\ scoring \subseteq [protocol : Protocols, score : {"above", "floor"}]
  /\ pending \in [Tickers -> SUBSET [protocol : Protocols, from : Levels, to : Levels]]
  /\ \A t \in Tickers : \A x \in pending[t] : x.from # x.to
  /\ slipped \in [Protocols -> Nat]
  /\ moves \in 0..MaxMoves

(* "rewardz accrual is frozen until the flag is cleared": a flag that commits  *)
(* while awards are in flight is overtaken by at most one statement of each    *)
(* processor, and by none that begins later, however many milestones the       *)
(* protocol has reached.                                                       *)
AccrualIsFrozen ==
  \A p \in Protocols : slipped[p] <= Cardinality(Processors)

(* "Keeps `/protocols/:id/events` honest": with one visibility cron, each      *)
(* event takes up where the last one left off, and the column is where the     *)
(* last one ended, however stale the snapshot it was decided on.               *)
TimelineIsHonest ==
  [][Cardinality(Tickers) = 1 =>
       \A p \in Protocols :
         /\ visibility'[p] = lastEvent'[p].to
         /\ lastEvent'[p] # lastEvent[p] \/ visibility'[p] # visibility[p] =>
              /\ lastEvent'[p].from = visibility[p]
              /\ visibility'[p] # visibility[p]]_vars

(* What a protocol's own conduct calls for, flagged and scored or not yet.     *)
Deserved(p) ==
  IF activity[p] = "gone" \/ \E f \in high : f[1] = p THEN "hidden"
  ELSE IF \/ p \in lowCapacity \/ activity[p] = "quiet" \/ Flagged(p)
          \/ \E f \in suspect : f[1] = p
       THEN "at_risk" ELSE "active"

(* Abuse costs visibility, and good conduct regains it, from hidden too: when  *)
(* a protocol's conduct settles, the scanner, the score and the visibility     *)
(* tick between them, each on stale snapshots and with failing statements,     *)
(* bring the column to what it calls for, and it stays there.                  *)
VisibilityConverges ==
  \A p \in Protocols, v \in Levels :
    <>[](Deserved(p) = v) => <>[](visibility[p] = v)
===============================================================================
