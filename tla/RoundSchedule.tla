---------------------------- MODULE RoundSchedule ----------------------------
(* The schedule of the mining game, free of keepers, ticks, RPC and lost       *)
(* transactions: rounds open and close one after the other, and the keeper     *)
(* asks for a crank only once the crank slot of the round before has come.  A  *)
(* round moves because somebody asked, and without outsiders only the keeper   *)
(* does.                                                                       *)
EXTENDS Naturals

CONSTANTS Outsiders,      \* does anyone but the keeper crank?
          RoundSlots,     \* slots a round is open
          Intermission,   \* slots between a round's end and the next crank
          MaxRound

VARIABLES slot,           \* slot of the chain
          cur,            \* the last round started, 0 = none
          open,           \* is it unsettled?
          ends,           \* end slot of each round started
          starts,         \* rounds the keeper has asked to start
          settles         \* rounds the keeper has asked to settle

chain == <<slot, cur, open, ends>>
vars == <<chain, starts, settles>>

(* Round n is over, and its crank slot has come.  The first round waits for    *)
(* nothing.                                                                    *)
Over(n) == n = 0 \/ n < cur \/ (n = cur /\ ~open)

CrankDue(n) == n = 0 \/ slot >= ends[n] + Intermission

Init == /\ slot = 0
        /\ cur = 0
        /\ open = FALSE
        /\ ends = [n \in 1..MaxRound |-> 0]
        /\ starts = {}
        /\ settles = {}

SlotPasses == /\ slot' = slot + 1
              /\ UNCHANGED <<cur, open, ends, starts, settles>>

AskStart(n) == /\ Over(n - 1)
               /\ CrankDue(n - 1)
               /\ starts' = starts \cup {n}
               /\ UNCHANGED <<chain, settles>>

AskSettle(n) == /\ n <= cur
                /\ CrankDue(n)
                /\ settles' = settles \cup {n}
                /\ UNCHANGED <<chain, starts>>

(* What was asked may be done with, refused or lost, at any time.              *)
Forget == starts' \subseteq starts /\ settles' \subseteq settles

Start == /\ cur < MaxRound
         /\ ~open
         /\ Outsiders \/ cur + 1 \in starts
         /\ cur' = cur + 1
         /\ open' = TRUE
         /\ ends' = [ends EXCEPT ![cur + 1] = slot + RoundSlots]
         /\ slot' = slot
         /\ Forget

Settle == /\ open
          /\ slot >= ends[cur]
          /\ Outsiders \/ cur \in settles
          /\ open' = FALSE
          /\ UNCHANGED <<slot, cur, ends>>
          /\ Forget

Next == \/ SlotPasses
        \/ \E n \in 1..MaxRound : AskStart(n) \/ AskSettle(n)
        \/ Forget /\ UNCHANGED chain
        \/ Start
        \/ Settle

Spec == Init /\ [][Next]_vars
==============================================================================
