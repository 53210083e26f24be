------------------------------ MODULE Metering ------------------------------
(***************************************************************************)
(* packages/subscriptions: the model calls of one account, priced by their *)
(* rate, under an own plan (mode "none") and the plans an administrator    *)
(* assigns for a period, which override it; the caps of rates and of       *)
(* provider cost, which are those of the settings and not of the           *)
(* subscription; and what preflight() says of a call before it is made.    *)
(*                                                                         *)
(* A call reads the clock, the account and the settings, and commits only  *)
(* if the account is as it was.  The settings are not asked again: any of  *)
(* the moments since the account was written last may be the one it knows. *)
(***************************************************************************)
EXTENDS Integers, Sequences, FiniteSets, FiniteSetsExt

CONSTANTS
  HoldKey,  \* keys of reservations
  Plan, Own,  \* the plans, and the one the user subscribed to
  Rate,
  Sizes,    \* the token counts of calls
  Price, Cost,  \* [Rate -> [Sizes -> the credits, and the provider cost, of a call]]; either may be 0
  Window,   \* the usage windows; "period" is the plan's
  Limit,    \* [Plan -> [Window -> credits]]
  Length,   \* [Window -> time]
  Settings, \* the settings one after the other: [Plan -> [caps : [Rate -> NoCap or [Window -> credits]], cost : Nat]]
  Balance,  \* the additional credits of the user
  HoldTtl, MaxHolds,
  MaxNow,   \* bound of the clock
  NoCap, NoRate

ASSUME MeteringAssumption ==
  /\ Own \in Plan /\ Price \in [Rate -> [Sizes -> Nat]] /\ Cost \in [Rate -> [Sizes -> Nat]]
  /\ "period" \in Window /\ Window \subseteq {"short", "day", "week", "period"}
  /\ Limit \in [Plan -> [Window -> Nat]] /\ Length \in [Window -> Nat \ {0}]
  /\ Settings \in Seq([Plan -> [caps : [Rate -> [Window -> Nat] \cup {NoCap}], cost : Nat]]) /\ Settings # <<>>
  /\ Balance \in Nat /\ HoldTtl \in Nat /\ NoRate \notin Rate

VARIABLES
  now,
  version,   \* of the settings
  acct,      \* the row of SUB_ACCOUNTS
  receipts,  \* [HoldKey -> the receipt of a reservation]
  moments,   \* the clock and the settings, as they were since the account was written last
  excused    \* rates whose caps changed, or whose usage was not reserved in full

vars == <<now, version, acct, receipts, moments, excused>>

settings == Settings[version]

-----------------------------------------------------------------------------
Zero == [w \in Window |-> 0]
\* The windows of a period start with it; the short one at its first use.
Anchored(t) == [w \in Window |-> IF w = "short" THEN t - Length[w] ELSE t]
Begun(plan, t) ==
  [plan |-> plan, start |-> t, ends |-> t + Length["period"], used |-> Zero,
   from |-> Anchored(t), rates |-> [r \in Rate |-> Zero]]
NoGrant == [Begun(Own, 0) EXCEPT !.ends = 0]
NoReceipt == [status |-> "none", rate |-> NoRate]

Init ==
  /\ now = 0 /\ version = 1
  /\ \E renews \in BOOLEAN :
       acct = [own |-> Begun(Own, 0), renews |-> renews, grant |-> NoGrant, balance |-> Balance, holds |-> {},
               cost |-> [start |-> 0, minor |-> 0]]
  /\ receipts = [k \in HoldKey |-> NoReceipt]
  /\ moments = {[at |-> 0, settings |-> Settings[1]]}
  /\ excused = {}

Least(m, n) == IF m < n THEN m ELSE n
Positive(n) == IF n > 0 THEN n ELSE 0
Credits(rate, size) == Price[rate][size]

\* The credits of some holds, counted one by one.
Units(holds) == UNION {{h} \X (1..h.credits) : h \in holds}
CreditsOf(holds) == Cardinality(Units(holds))

-----------------------------------------------------------------------------
(* normalized(), effective(), blocked(), free()                            *)

Renewed(e, t) == Begun(e.plan, e.start + ((t - e.start) \div Length["period"]) * Length["period"])

Over(e, w, t) == w # "period" /\ t >= e.from[w] + Length[w]

\* A window that is over takes the usage of the rates with it.
Rolled(e, t) ==
  [e EXCEPT
     !.used = [w \in Window |-> IF Over(e, w, t) THEN 0 ELSE @[w]],
     !.rates = [r \in Rate |-> [w \in Window |-> IF Over(e, w, t) THEN 0 ELSE @[r][w]]],
     !.from = [w \in Window |->
       IF ~Over(e, w, t) THEN @[w]
       ELSE IF w = "short" THEN t ELSE @[w] + ((t - @[w]) \div Length[w]) * Length[w]]]

\* Only the own plan is renewed, unless it was cancelled.
Normalized(a, t) ==
  [a EXCEPT
     !.own = Rolled(IF a.renews /\ t >= @.ends THEN Renewed(@, t) ELSE @, t),
     !.grant = IF @ = NoGrant THEN @ ELSE Rolled(@, t)]

Effective(a, t) == IF t < a.grant.ends THEN a.grant ELSE a.own
WithEffective(a, t, e) == IF t < a.grant.ends THEN [a EXCEPT !.grant = e] ELSE [a EXCEPT !.own = e]

Blocked(a, t) == t >= Effective(a, t).ends

ActiveHolds(a, t) == {h \in a.holds : t < h.expiresAt}

AllowanceLeft(a, t) ==
  LET e == Effective(a, t) IN
    IF Blocked(a, t) THEN 0 ELSE Positive(Min({Limit[e.plan][w] - e.used[w] : w \in Window}))

Free(a, t) ==
  LET allowance == AllowanceLeft(a, t)
      spendable == Positive(allowance + a.balance - CreditsOf(ActiveHolds(a, t)))
  IN [allowance |-> Least(allowance, spendable), balance |-> spendable - Least(allowance, spendable)]

-----------------------------------------------------------------------------
(* rateCap(), rateWindows(), countRate(), addCost(), margin()              *)

CapOf(a, t, s, rate) == IF Blocked(a, t) THEN NoCap ELSE s[Effective(a, t).plan].caps[rate]

\* Bug: a reservation counts until somebody sweeps it.
ReservedUntilSwept(a, t, rate) == CreditsOf({h \in a.holds : h.rate = rate})

Reserved(a, t, rate) == CreditsOf({h \in ActiveHolds(a, t) : h.rate = rate})

Exceeded(a, t, s, rate, credits) ==
  LET cap == CapOf(a, t, s, rate) IN
    cap # NoCap
      /\ \E w \in Window : Effective(a, t).rates[rate][w] + Reserved(a, t, rate) + credits > cap[w]

\* Rates without a cap are not counted.
Counted(a, t, s, rate, credits) ==
  IF CapOf(a, t, s, rate) = NoCap THEN a
  ELSE WithEffective(a, t, [Effective(a, t) EXCEPT !.rates[rate] = [w \in Window |-> @[w] + credits]])

\* The cost of one period is kept: that of the plan in force.  What costs nothing leaves it alone.
Spent(a, t, cost) ==
  LET start == Effective(a, t).start IN
    IF cost = 0 THEN a
    ELSE [a EXCEPT !.cost = [start |-> start, minor |-> cost + (IF @.start = start THEN @.minor ELSE 0)]]

PeriodCost(a, t) == IF a.cost.start = Effective(a, t).start THEN a.cost.minor ELSE 0

ExceedsMargin(a, t, s, rate, size) ==
  ~Blocked(a, t) /\ PeriodCost(a, t) + Cost[rate][size] > s[Effective(a, t).plan].cost

-----------------------------------------------------------------------------
(* consumeUsage(), reserve(), settle(), release()                          *)

Charged(a, t, allowance, balance) ==
  [WithEffective(a, t, [Effective(a, t) EXCEPT !.used = [w \in Window |-> @[w] + allowance]]) EXCEPT
     !.balance = @ - balance]

\* Bug: a call that costs nothing is consumed.
ConsumesNothing(a, t, s, rate, size) ==
  LET credits == Credits(rate, size)
      free == Free(a, t)
  IN
    /\ ~Blocked(a, t)
    /\ credits - Least(credits, free.allowance) <= free.balance
    /\ ~Exceeded(a, t, s, rate, credits)

\* What costs nothing is refused.
Consumes(a, t, s, rate, size) ==
  LET credits == Credits(rate, size)
      free == Free(a, t)
  IN
    /\ credits >= 1
    /\ ~Blocked(a, t)
    /\ credits - Least(credits, free.allowance) <= free.balance
    /\ ~Exceeded(a, t, s, rate, credits)

Consumed(a, t, s, rate, size) ==
  LET credits == Credits(rate, size)
      allowance == Least(credits, Free(a, t).allowance)
  IN Spent(Counted(Charged(a, t, allowance, credits - allowance), t, s, rate, credits), t, Cost[rate][size])

Swept(a, t) == [a EXCEPT !.holds = ActiveHolds(a, t)]

Reserves(a, t, s, rate, size) ==
  LET credits == Credits(rate, size)
      swept == Swept(a, t)
      free == Free(swept, t)
  IN
    /\ ~Blocked(a, t)
    /\ Cardinality(swept.holds) < MaxHolds
    /\ credits <= free.allowance + free.balance
    /\ ~Exceeded(swept, t, s, rate, credits)

\* Bug: the hold is not one of its rate.
HoldOfNoRate(a, t, s, k, rate, size) ==
  [key |-> k, credits |-> Credits(rate, size), expiresAt |-> t + HoldTtl, rate |-> NoRate]

Hold(a, t, s, k, rate, size) ==
  [key |-> k, credits |-> Credits(rate, size), expiresAt |-> t + HoldTtl,
   rate |-> IF CapOf(a, t, s, rate) = NoCap THEN NoRate ELSE rate]

\* What is used beyond what is free is charged to nobody, but counts for its rate and cost.
Settled(a, t, s, k, rate, size) ==
  LET rest == [Swept(a, t) EXCEPT !.holds = {h \in @ : h.key # k}]
      used == Credits(rate, size)
      free == Free(rest, t)
      allowance == Least(used, free.allowance)
  IN Spent(Counted(Charged(rest, t, allowance, Least(used - allowance, free.balance)), t, s, rate, used),
           t, Cost[rate][size])

\* What is used was reserved, and still is.
Covers(a, t, k, credits) == \E h \in ActiveHolds(a, t) : h.key = k /\ credits <= h.credits

-----------------------------------------------------------------------------
(* Calls, each at the moment m at which it read the account as a.  What    *)
(* conflicts, fails or is refused begins again, or does not.               *)

Commits(next) ==
  /\ acct' = next /\ moments' = {[at |-> now, settings |-> settings]}
  /\ UNCHANGED <<now, version>>

Consume(m, a, rate, size) ==
  /\ Consumes(a, m.at, m.settings, rate, size)
  /\ Commits(Consumed(a, m.at, m.settings, rate, size))
  /\ UNCHANGED <<receipts, excused>>

Reserve(m, a, k, rate, size) ==
  /\ receipts[k] = NoReceipt /\ Reserves(a, m.at, m.settings, rate, size)
  /\ Commits([Swept(a, m.at) EXCEPT !.holds = @ \cup {Hold(a, m.at, m.settings, k, rate, size)}])
  /\ receipts' = [receipts EXCEPT ![k] = [status |-> "active", rate |-> rate]]
  /\ UNCHANGED excused

\* A receipt that expired is settled like an active one.
Settle(m, a, k, size) ==
  LET rate == receipts[k].rate IN
    /\ receipts[k].status = "active"
    /\ Commits(Settled(a, m.at, m.settings, k, rate, size))
    /\ receipts' = [receipts EXCEPT ![k].status = "settled"]
    /\ excused' = excused \cup (IF Covers(a, m.at, k, Credits(rate, size)) THEN {} ELSE {rate})

Release(m, a, k) ==
  /\ receipts[k].status = "active"
  /\ Commits([a EXCEPT !.holds = {h \in ActiveHolds(a, m.at) : h.key # k}])
  /\ receipts' = [receipts EXCEPT ![k].status = "released"]
  /\ UNCHANGED excused

\* grant() of a plan: a new period, under caps that nothing was reserved for.
\* One such plan at a time, so that the clock bounds their number.
Grant(m, a, plan) ==
  /\ acct.grant.ends <= m.at
  /\ Commits([a EXCEPT !.grant = Rolled(Begun(plan, m.at), m.at)])
  /\ excused' = Rate
  /\ UNCHANGED receipts

\* saveSettings() by an operator.
Configure ==
  /\ version < Len(Settings) /\ version' = version + 1 /\ excused' = Rate
  /\ moments' = moments \cup {[at |-> now, settings |-> settings']}
  /\ UNCHANGED <<now, acct, receipts>>

Tick ==
  /\ now < MaxNow /\ now' = now + 1
  /\ moments' = moments \cup {[at |-> now', settings |-> settings]}
  /\ UNCHANGED <<version, acct, receipts, excused>>

Next ==
  \/ \E m \in moments : \E a \in {Normalized(acct, m.at)} :
       \/ \E rate \in Rate, size \in Sizes : Consume(m, a, rate, size)
       \/ \E k \in HoldKey, rate \in Rate, size \in Sizes : Reserve(m, a, k, rate, size)
       \/ \E k \in HoldKey, size \in Sizes : Settle(m, a, k, size)
       \/ \E k \in HoldKey : Release(m, a, k)
       \/ \E plan \in Plan : Grant(m, a, plan)
  \/ Configure \/ Tick

Spec == Init /\ [][Next]_vars

-----------------------------------------------------------------------------
(* preflight() and degrade()                                               *)

Cheaper(x, y, size) ==
  \/ Cost[x][size] < Cost[y][size]
  \/ Cost[x][size] = Cost[y][size] /\ Credits(x, size) < Credits(y, size)

\* Bug: an offer is not held against its own cap.
OfferedUncapped(a, t, s, rate, size, available) ==
  {r \in Rate \ {rate} :
     Cheaper(r, rate, size) /\ Credits(r, size) <= available /\ ~ExceedsMargin(a, t, s, r, size)}

Offered(a, t, s, rate, size, available) ==
  {r \in Rate \ {rate} :
     /\ Cheaper(r, rate, size) /\ Credits(r, size) <= available
     /\ ~Exceeded(a, t, s, r, Credits(r, size)) /\ ~ExceedsMargin(a, t, s, r, size)}

Preflight(rate, size) ==
  LET a == Normalized(acct, now)
      credits == Credits(rate, size)
      free == Free(a, now)
      available == IF Blocked(a, now) THEN 0 ELSE free.allowance + free.balance
      missing == Positive(credits - available)
      capped == Exceeded(a, now, settings, rate, credits)
      exceeded == ExceedsMargin(a, now, settings, rate, size)
      options == Offered(a, now, settings, rate, size, available)
      best == {r \in options : ~\E x \in options : Cheaper(r, x, size)}
  IN [fits |-> ~Blocked(a, now) /\ missing = 0 /\ ~capped,
      exceeded |-> exceeded,
      degrade |-> IF ~Blocked(a, now) /\ (missing > 0 \/ capped \/ exceeded) THEN best ELSE {}]

-----------------------------------------------------------------------------
(* Properties.                                                             *)

\* What preflight() says fits is what reserve() would accept at this moment and, unless it costs
\* nothing, what consumeUsage() would: of a call that costs nothing preflight() says that it fits, and
\* consumeUsage() refuses it.  What preflight() offers instead is cheaper, fits, and keeps within the
\* provider cost.
PreflightKeepsItsWord ==
  \A rate \in Rate, size \in Sizes :
    LET a == Normalized(acct, now)
        told == Preflight(rate, size)
    IN
      /\ (told.fits /\ Credits(rate, size) > 0) = Consumes(a, now, settings, rate, size)
      /\ (told.fits /\ Cardinality(ActiveHolds(a, now)) < MaxHolds) = Reserves(a, now, settings, rate, size)
      /\ \A r \in told.degrade : Preflight(r, size).fits /\ ~Preflight(r, size).exceeded

\* Calls that run side by side do not overshoot the cap of a rate together, while the caps and the
\* plan in force stay and nobody uses more than he reserved.
CapsHold ==
  LET a == Normalized(acct, now) IN
    \A rate \in Rate \ excused, w \in Window :
      LET cap == CapOf(a, now, settings, rate) IN
        cap # NoCap => Effective(a, now).rates[rate][w] + Reserved(a, now, rate) <= cap[w]
\* preflight() keeps its word and the caps hold (Subscriptions.preflight, degrade, consumeUsage, reserve,
\* settle).
MetersAreTrue == PreflightKeepsItsWord /\ CapsHold
=============================================================================
