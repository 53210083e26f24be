----------------------------- MODULE MCCredits -----------------------------
(* Small instances of what one service does for its subscribers and for    *)
(* the administrators of its catalog, which share no state: two of         *)
(* Credits, requests that cross each other and the clock, and a            *)
(* subscription that is charged, cancelled, lapses and is taken up again,  *)
(* with all its windows and a maintenance that keeps up; and Catalog, with *)
(* two administrators.  part says which one a behaviour is about; the      *)
(* others' variables are 0, or stay as Credits and Catalog begin.          *)
EXTENDS Credits, CatalogState, TLC

CONSTANTS
  p1, p2, basic, plus, k1, k2, k3, k4, k5, k6,
  MaxRow,
  Parts  \* what a behaviour may be about

Requests == Permutations({p1, p2})

Windows == {"day", "week", "period"}
AllWindows == Windows \cup {"short"}

\* The day binds before the week, and the week before the period.
LimitsOf(windows) ==
  [plan \in Plan |-> [w \in windows |->
     CASE w = "short" -> 2 [] w = "day" -> 2 [] w = "week" -> 3
       [] w = "period" -> IF plan = basic THEN 4 ELSE 6]]

LengthsOf(windows) == [w \in windows |-> CASE w = "short" -> 1 [] w = "day" -> 1 [] w = "week" -> 2 [] w = "period" -> 4]

Limits == LimitsOf(Window)
Lengths == LengthsOf(Window)

Start == [op |-> "change", key |-> k1, plan |-> basic]
Consume(k, n) == [op |-> "consume", key |-> k, credits |-> n]
Reserve(k, n) == [op |-> "reserve", key |-> k, credits |-> n]
Settle(k, n) == [op |-> "settle", key |-> k, credits |-> n]
Release(k) == [op |-> "release", key |-> k]
Buy(k, n) == [op |-> "record", key |-> k, credits |-> n]
Cancel == [op |-> "cancel", key |-> NoKey]

Upgrade(k) == [op |-> "change", key |-> k, plan |-> plus]
Courtesy(k, windows) == [op |-> "reset", key |-> k, scope |-> windows]

\* Two reservations, one settled above what it reserved, a charge, a courtesy reset
\* and a change of plan.
Turns == {Start, Reserve(k2, 2), Settle(k2, 3), Release(k2), Reserve(k3, 1), Consume(k4, 2),
          Courtesy(k5, {"day"}), Upgrade(k6), Maintenance}

\* A subscription that is cancelled, lapses, and is taken up again.
Lapses == {Start, [Start EXCEPT !.key = k2], Cancel, Consume(k3, 2), Reserve(k4, 1), Settle(k4, 2),
           Reserve(k6, 1), Buy(k5, 1), Maintenance}

\* A hold that may be left behind.
Abandoned == {Start, Reserve(k2, 1), Release(k2), Maintenance}

\* What the statement does not follow.
Upgrades == {Start, Upgrade(k2), Consume(k3, 2), Maintenance}
Courtesies == {Start, Courtesy(k2, {"day"}), Consume(k3, 2), Maintenance}
Idles == {Start, Consume(k2, 1), Maintenance}
LateCancels == {Start, Cancel, Maintenance}

-----------------------------------------------------------------------------
(* What a behaviour is about.                                              *)

LapsingLimits == LimitsOf(AllWindows)
LapsingLengths == LengthsOf(AllWindows)

VARIABLES clock, account, replies, statement, debits, request, edits, part

lapsingVars == <<clock, account, replies, statement, debits, request>>

Lapsing == INSTANCE Credits WITH
  Process <- {p1}, Call <- Lapses, Window <- AllWindows, Limit <- LapsingLimits, Length <- LapsingLengths,
  MaxHolds <- 1, MaxNow <- 8, Prompt <- TRUE,
  now <- clock, acct <- account, receipts <- replies, posted <- statement, billed <- debits, job <- request

\* What a version sells is one of two things; which one is first makes no difference.
C == INSTANCE Catalog WITH Request <- {p1, p2}, Content <- {basic, plus}, request <- edits

catalogVars == <<catalog, versions, last, mapped, products, prices, edits, late>>

NoLapses == clock = 0 /\ account = 0 /\ replies = 0 /\ statement = 0 /\ debits = 0 /\ request = 0

PartsInit ==
  /\ part \in Parts
  /\ Init
  /\ (part = "lapses" /\ Lapsing!Init) \/ (part # "lapses" /\ NoLapses)
  /\ C!Init /\ catalog.plan.content = basic /\ (part # "catalog" => catalog.plan.enabled)

PartsNext ==
  /\ UNCHANGED part
  /\ \/ part = "races" /\ Next /\ UNCHANGED <<lapsingVars, catalogVars>>
     \/ part = "lapses" /\ Lapsing!Next /\ UNCHANGED <<vars, catalogVars>>
     \/ part = "catalog" /\ C!Next /\ UNCHANGED <<vars, lapsingVars>>

PartsSpec == PartsInit /\ [][PartsNext]_<<vars, lapsingVars, catalogVars, part>>

-----------------------------------------------------------------------------
\* The statement sums to the balance, through rollovers of the week and of the period
\* (settleWindows), as long as maintenance keeps up.
LapsesStatementIsBalance == part = "lapses" => Lapsing!StatementIsBalance
=============================================================================
