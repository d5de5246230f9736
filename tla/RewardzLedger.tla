----------------------------- MODULE RewardzLedger -----------------------------
(* What the Rewardz rail promises a protocol, free of keepers, RPC and rows    *)
(* in flight: earnings only accumulate, the chain moves one epoch at a time,   *)
(* what was claimable stays claimable, and an earning that was already booked  *)
(* when the chain last advanced is folded in by the next keeper publish.       *)
EXTENDS Naturals

CONSTANT Earnings              \* every earning that may ever be booked

VARIABLES epoch,               \* epoch of the on-chain RewardzRoot, 0 = none
          earned,              \* earnings booked (committed in the database)
          claimable,           \* earnings under the on-chain root
          due                  \* earnings booked before the last chain advance

vars == <<epoch, earned, claimable, due>>

Init == /\ epoch = 0
        /\ earned = {}
        /\ claimable = {}
        /\ due = {}

Earn(r) == /\ earned' = earned \cup {r}
           /\ UNCHANGED <<epoch, claimable, due>>

(* The chain takes the root over C as its next epoch.                          *)
Advance(C) == /\ epoch' = epoch + 1
              /\ claimable' = C
              /\ due' = earned
              /\ UNCHANGED earned

(* A keeper publish: everything claimable and everything due, nothing that was *)
(* never booked.                                                               *)
Publish == \E C \in SUBSET earned : claimable \cup due \subseteq C /\ Advance(C)

(* The operators' deny-list flow sends the same root again.                    *)
Republish == Advance(claimable)

Next == (\E r \in Earnings \ earned : Earn(r)) \/ Publish \/ Republish

Spec == Init /\ [][Next]_vars
================================================================================
