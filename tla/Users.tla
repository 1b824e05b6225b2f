-------------------------------- MODULE Users --------------------------------
(***************************************************************************)
(* The programs a user of this repository has: the demo endpoints, the        *)
(* evidence runner and the AggLayer helper's plans.  They share nothing, and  *)
(* a behaviour is one of them.                                                *)
(***************************************************************************)
EXTENDS SwapUsers, AggLayer

vars == <<swapVars, aggVars>>

Init == InitSwapUsers({"demo", "e2e", "plan", "claim"}) /\ InitAggLayer

Swap  == program \in {"demo", "e2e"} /\ NextSwap /\ UNCHANGED aggVars
Plan  == program = "plan" /\ NextPlan /\ UNCHANGED swapVars
Claim == program = "claim" /\ NextClaim /\ UNCHANGED swapVars

Next == Swap \/ Plan \/ Claim

Spec == Init /\ [][Next]_vars /\ FairClaims

TypeOK == SwapUsersTypeOK /\ AggLayerTypeOK
=============================================================================
