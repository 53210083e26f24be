----------------------------- MODULE MCMetering -----------------------------
(* Small instances of Metering and Credits that share no state: the model  *)
(* calls of an account by their rate, and a hold that may be left behind,  *)
(* under maintenance that is scheduled for ever.  part says which one a    *)
(* behaviour is about; the other one stays as it begins.                   *)
EXTENDS Metering, TLC

CONSTANTS k1, k2, p1, p2, basic, NoPlan, NoKey

VARIABLES holdClock, subscriber, slips, posted, billed, job, part

holdVars == <<holdClock, subscriber, slips, posted, billed, job>>

\* A call of no tokens costs nothing; a small one costs half of a big one, and the provider nothing.
Prices == [big |-> [none |-> 0, some |-> 2], small |-> [none |-> 0, some |-> 1]]
Costs == [big |-> [none |-> 0, some |-> 1], small |-> [none |-> 0, some |-> 0]]
Limits == [own |-> [short |-> 1, period |-> 2], pro |-> [short |-> 1, period |-> 1]]
Lengths == [short |-> 2, period |-> 3]

\* The subscribed plan has caps first, the assigned one afterwards.
Uncapped == [big |-> NoCap, small |-> NoCap]
Capped == [big |-> [short |-> 2, period |-> 2], small |-> [short |-> 1, period |-> 2]]
Tariffs ==
  <<[own |-> [caps |-> Capped, cost |-> 1], pro |-> [caps |-> Uncapped, cost |-> 1]],
    [own |-> [caps |-> Uncapped, cost |-> 1], pro |-> [caps |-> Capped, cost |-> 1]]>>

Maintenance == [op |-> "maintain", key |-> NoKey]
Abandoned ==
  {[op |-> "change", key |-> k1, plan |-> basic], [op |-> "reserve", key |-> k2, credits |-> 1],
   [op |-> "release", key |-> k2], Maintenance}

Holds == INSTANCE Credits WITH
  Process <- {p1, p2}, Scheduler <- p1, Call <- Abandoned, Plan <- {basic}, Window <- {"day", "week", "period"},
  Limit <- [plan \in {basic} |-> [day |-> 2, week |-> 3, period |-> 4]],
  Length <- [day |-> 1, week |-> 2, period |-> 4], HoldTtl <- 1, MaxHolds <- 2, MaxNow <- 2, Prompt <- FALSE,
  now <- holdClock, acct <- subscriber, receipts <- slips

PartsInit ==
  /\ Init /\ Holds!Init
  /\ part = "metering" \/ (part = "holds" /\ acct.renews)

\* The settings change, or the other plan is assigned, or neither and the subscription was cancelled;
\* administrators act up to time 1.  Of the reservations, which are alike, k1 is the first.
MeterBounds ==
  /\ acct'.grant = NoGrant \/ acct'.grant.plan = "pro"
  /\ version' = 1 \/ acct'.grant = NoGrant
  /\ acct.renews \/ (version' = 1 /\ acct'.grant = NoGrant)
  /\ now <= 1 \/ (version' = version /\ acct'.grant \in {acct.grant, NoGrant})
  /\ receipts'[k1] = NoReceipt => receipts'[k2] = NoReceipt

PartsNext ==
  /\ UNCHANGED part
  /\ \/ part = "metering" /\ Next /\ MeterBounds /\ UNCHANGED holdVars
     \/ part = "holds" /\ Holds!Next /\ UNCHANGED vars

\* The fairness of Credits' FairSpec.
Holding(action) == part = "holds" /\ action
PartsSpec ==
  /\ PartsInit /\ [][PartsNext]_<<vars, holdVars, part>>
  /\ WF_holdVars(Holding(Holds!Fail(p1) \/ Holds!Read(p1) \/ Holds!Commit(p1)))
  /\ SF_holdVars(Holding(Holds!Begin(p1, Maintenance)))
  /\ SF_holdVars(Holding(job[p1].call = Maintenance /\ Holds!Read(p1)))
  /\ SF_holdVars(Holding(job[p1].call = Maintenance /\ Holds!Commit(p1)))

-----------------------------------------------------------------------------
\* A hold that runs out and that nobody settles is released: maintenance finds it at last, whatever
\* it competes with (Subscriptions.runMaintenance).
ExpiredHoldsAreReleased == Holds!ExpiredHoldsAreReleased
=============================================================================
