----------------------------- MODULE PlansState -----------------------------
(* What Plans promises, and the part of its state that the promises are    *)
(* about.                                                                  *)
EXTENDS Integers, Sequences

CONSTANTS
  PlanId,
  PlanLife   \* how long a plan may be applied

PlansAssumption == PlanLife \in Nat
ASSUME PlansAssumption

VARIABLES
  plans,   \* [PlanId -> its row of INFRA_PLANS]
  trail,   \* [PlanId -> its rows of INFRA_AUDIT]
  made     \* [PlanId -> the settings its resource was made under, as often as it was]

\* A plan makes its resource at most once, and under the settings the owner saw, whoever
\* applies it at the same time, changes the settings meanwhile or stops in between.
MadeAsPlanned ==
  \A p \in PlanId : Len(made[p]) <= 1 /\ (Len(made[p]) = 1 => made[p][1] = plans[p].settings)

\* A resource that was made is never taken for one that was not: its plan says so, or says
\* that somebody has to look, and the audit has one row for each state the plan went through.
PlansTellWhatHappened ==
  \A p \in PlanId :
    /\ plans[p].state \in {"none", "planned"} => made[p] = <<>>
    /\ plans[p].state = "applied" => made[p] # <<>>
    /\ trail[p] = [started |-> IF plans[p].state \in {"none", "planned"} THEN 0 ELSE 1,
                   applied |-> IF plans[p].state = "applied" THEN 1 ELSE 0,
                   uncertain |-> IF plans[p].state = "uncertain" THEN 1 ELSE 0]

\* A resource is made once for a plan, under the settings the plan was made for, and what the
\* plan and its audit say of it is so (Infrastructure.apply).
PlansAreTrue == MadeAsPlanned /\ PlansTellWhatHappened
=============================================================================
