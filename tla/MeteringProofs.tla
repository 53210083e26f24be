--------------------------- MODULE MeteringProofs ---------------------------
(* What Metering promises of caps and of preflight(), for any rates,       *)
(* prices, caps, windows and plans, and however many calls cross.          *)
EXTENDS Metering, FiniteSetTheorems, TLAPS

Reservation == [key : HoldKey, credits : Nat, expiresAt : Nat, rate : Rate \cup {NoRate}]
Usage == [plan : Plan, start : Int, ends : Int, used : [Window -> Nat], from : [Window -> Int],
          rates : [Rate -> [Window -> Nat]]]
Account == [own : Usage, renews : BOOLEAN, grant : Usage, balance : Int, holds : SUBSET Reservation,
            cost : [start : Int, minor : Nat]]
Tariff == [Plan -> [caps : [Rate -> [Window -> Nat] \cup {NoCap}], cost : Nat]]

\* An account whose holds can be counted.
Sound(a) == a \in Account /\ IsFiniteSet(a.holds)

MeterTypes ==
  /\ now \in Nat /\ version \in 1..Len(Settings)
  /\ Sound(acct)
  /\ receipts \in [HoldKey -> [status : {"none", "active", "settled", "released"}, rate : Rate \cup {NoRate}]]
  /\ \A k \in HoldKey : receipts[k].status = "active" => receipts[k].rate \in Rate
  /\ moments \in SUBSET [at : Nat, settings : Tariff] /\ [at |-> now, settings |-> Settings[version]] \in moments
  /\ \A m \in moments : m.at <= now
  /\ excused \in SUBSET Rate

\* While a rate is not excused, its cap is the first one and the own plan is in force.
CapFor(rate) == Settings[1][Own].caps[rate]

Steady ==
  /\ version = 1 /\ acct.grant = NoGrant /\ acct.own.plan = Own
  /\ \A m \in moments : m.settings = Settings[1]

\* A hold is of the rate of its reservation, if that has a cap.
HoldFits(h) ==
  receipts[h.key].status = "active" /\ (CapFor(receipts[h.key].rate) # NoCap => h.rate = receipts[h.key].rate)

\* What is counted and what is held at a moment is within the cap.
Within(a, t, rate) ==
  CapFor(rate) # NoCap => \A w \in Window : a.own.rates[rate][w] + Reserved(a, t, rate) <= CapFor(rate)[w]

IInv ==
  /\ MeterTypes
  /\ excused # Rate => Steady /\ \A h \in acct.holds : HoldFits(h)
  /\ \A rate \in Rate \ excused : \A m \in moments : Within(acct, m.at, rate)

-----------------------------------------------------------------------------
(* The credits of some holds.                                              *)

LEMMA UnitsAreFinite ==
  ASSUME NEW hs \in SUBSET Reservation, IsFiniteSet(hs)
  PROVE  IsFiniteSet(Units(hs)) /\ CreditsOf(hs) \in Nat
<1> DEFINE own(h) == {h} \X (1..h.credits)
           all == {own(h) : h \in hs}
<1>1. IsFiniteSet(all)
  <2> DEFINE f == [h \in hs |-> own(h)]
  <2>1. f \in Surjection(hs, all)
    BY DEF Surjection
  <2> QED BY <2>1, FS_Surjection
<1>2. ASSUME NEW h \in hs PROVE IsFiniteSet(own(h))
  <2>1. h.credits \in Nat
    BY DEF Reservation
  <2>2. IsFiniteSet({h})
    BY FS_Singleton
  <2>3. IsFiniteSet(1..h.credits)
    BY <2>1, FS_Interval
  <2> QED BY <2>2, <2>3, FS_Product
<1>3. \A u \in all : IsFiniteSet(u)
  BY <1>2
<1>4. Units(hs) = UNION all
  BY DEF Units
<1>5. IsFiniteSet(UNION all)
  <2> HIDE DEF all
  <2> QED BY <1>1, <1>3, FS_UNION
<1> QED BY <1>4, <1>5, FS_CardinalityType DEF CreditsOf

\* Holds that go take their credits along.
LEMMA Removed ==
  ASSUME NEW hs \in SUBSET Reservation, IsFiniteSet(hs), NEW gone \in SUBSET hs
  PROVE  /\ IsFiniteSet(gone) /\ IsFiniteSet(hs \ gone)
         /\ CreditsOf(hs \ gone) = CreditsOf(hs) - CreditsOf(gone)
<1>1. IsFiniteSet(gone) /\ IsFiniteSet(hs \ gone)
  BY FS_Subset
<1>2. Units(hs \ gone) = Units(hs) \ Units(gone) /\ Units(hs) \cap Units(gone) = Units(gone)
  BY DEF Units
<1>3. Cardinality(Units(hs) \ Units(gone)) = Cardinality(Units(hs)) - Cardinality(Units(hs) \cap Units(gone))
  BY UnitsAreFinite, FS_Difference
<1> QED BY <1>1, <1>2, <1>3 DEF CreditsOf

LEMMA OneHold ==
  ASSUME NEW h \in Reservation
  PROVE  CreditsOf({h}) = h.credits
<1>1. h.credits \in Nat
  BY DEF Reservation
<1>2. IsFiniteSet({h}) /\ Cardinality({h}) = 1
  BY FS_Singleton
<1>3. IsFiniteSet(1..h.credits) /\ Cardinality(1..h.credits) = h.credits
  <2>1. /\ IsFiniteSet(1..h.credits)
        /\ Cardinality(1..h.credits) = IF 1 > h.credits THEN 0 ELSE h.credits - 1 + 1
    <3>1. 1 \in Int /\ h.credits \in Int
      BY <1>1
    <3> QED BY ONLY <3>1, FS_Interval
  <2> QED BY ONLY <1>1, <2>1
<1>4. Cardinality({h} \X (1..h.credits)) = Cardinality({h}) * Cardinality(1..h.credits)
  BY <1>2, <1>3, FS_Product
<1>5. Units({h}) = {h} \X (1..h.credits)
  BY DEF Units
<1>6. Cardinality(Units({h})) = Cardinality({h}) * Cardinality(1..h.credits)
  BY <1>4, <1>5
<1>7. Cardinality(Units({h})) = 1 * h.credits
  BY <1>2, <1>3, <1>6
<1> QED BY <1>1, <1>7 DEF CreditsOf

\* Fewer holds hold no more, and less by one of those that are gone.
LEMMA Fewer ==
  ASSUME NEW hs \in SUBSET Reservation, IsFiniteSet(hs), NEW some \in SUBSET hs
  PROVE  /\ IsFiniteSet(some) /\ CreditsOf(some) \in Nat /\ CreditsOf(hs) \in Nat
         /\ CreditsOf(some) <= CreditsOf(hs)
         /\ \A h \in hs \ some : CreditsOf(some) + h.credits <= CreditsOf(hs)
<1>1. IsFiniteSet(some) /\ IsFiniteSet(hs \ some) /\ CreditsOf(hs \ some) = CreditsOf(hs) - CreditsOf(some)
  BY Removed
<1>2. CreditsOf(hs) \in Nat /\ CreditsOf(some) \in Nat /\ CreditsOf(hs \ some) \in Nat
  BY <1>1, UnitsAreFinite
<1>3. ASSUME NEW h \in hs \ some PROVE h.credits <= CreditsOf(hs \ some)
  <2>1. {h} \in SUBSET (hs \ some) /\ h \in Reservation
    OBVIOUS
  <2>2. IsFiniteSet((hs \ some) \ {h}) /\ CreditsOf((hs \ some) \ {h}) = CreditsOf(hs \ some) - CreditsOf({h})
    BY <1>1, <2>1, Removed
  <2>3. CreditsOf((hs \ some) \ {h}) \in Nat
    BY <2>2, UnitsAreFinite
  <2>4. CreditsOf({h}) = h.credits /\ h.credits \in Nat
    BY <2>1, OneHold DEF Reservation
  <2> QED BY <1>2, <2>2, <2>3, <2>4
<1>4. \A h \in hs \ some : CreditsOf(some) + h.credits <= CreditsOf(hs)
  <2>1. SUFFICES ASSUME NEW h \in hs \ some PROVE CreditsOf(some) + h.credits <= CreditsOf(hs)
    OBVIOUS
  <2>2. h.credits \in Nat
    BY DEF Reservation
  <2>3. h.credits <= CreditsOf(hs \ some)
    BY <1>3
  <2> QED BY <1>1, <1>2, <2>2, <2>3
<1>5. CreditsOf(some) <= CreditsOf(hs)
  BY <1>1, <1>2
<1> QED BY <1>1, <1>2, <1>4, <1>5

\* A hold that comes brings its credits at most.
LEMMA Added ==
  ASSUME NEW hs \in SUBSET Reservation, IsFiniteSet(hs), NEW h \in Reservation
  PROVE  /\ IsFiniteSet(hs \cup {h})
         /\ CreditsOf(hs \cup {h}) \in Nat /\ CreditsOf(hs) \in Nat
         /\ CreditsOf(hs \cup {h}) <= CreditsOf(hs) + h.credits
<1>1. IsFiniteSet(hs \cup {h}) /\ hs \cup {h} \in SUBSET Reservation
  BY FS_AddElement
<1>2. {h} \in SUBSET (hs \cup {h}) /\ (hs \cup {h}) \ {h} \in SUBSET hs
  OBVIOUS
<1>3. CreditsOf((hs \cup {h}) \ {h}) = CreditsOf(hs \cup {h}) - CreditsOf({h})
  BY <1>1, <1>2, Removed
<1>4. CreditsOf((hs \cup {h}) \ {h}) <= CreditsOf(hs) /\ CreditsOf((hs \cup {h}) \ {h}) \in Nat
  BY <1>2, Fewer
<1>5. CreditsOf({h}) = h.credits /\ h.credits \in Nat
  BY OneHold DEF Reservation
<1>6. CreditsOf(hs \cup {h}) \in Nat /\ CreditsOf(hs) \in Nat
  BY <1>1, UnitsAreFinite
<1> QED BY <1>1, <1>3, <1>4, <1>5, <1>6

-----------------------------------------------------------------------------
(* Accounts and their windows.                                             *)

LEMMA Constants ==
  /\ Own \in Plan /\ "period" \in Window /\ NoRate \notin Rate /\ HoldTtl \in Nat /\ Balance \in Nat
  /\ \A w \in Window : Length[w] \in Nat \ {0}
  /\ \A plan \in Plan, w \in Window : Limit[plan][w] \in Nat
  /\ \A rate \in Rate, size \in Sizes : Price[rate][size] \in Nat /\ Cost[rate][size] \in Nat
BY MeteringAssumption

LEMMA TariffsAre ==
  /\ Len(Settings) \in Nat \ {0}
  /\ \A n \in 1..Len(Settings) : Settings[n] \in Tariff
<1>1. Settings \in Seq(Tariff) /\ Settings # <<>>
  BY MeteringAssumption DEF Tariff
<1> QED BY <1>1

LEMMA CreditsAre ==
  ASSUME NEW rate \in Rate, NEW size \in Sizes
  PROVE  Credits(rate, size) \in Nat /\ Cost[rate][size] \in Nat
BY Constants DEF Credits

LEMMA BegunIs ==
  ASSUME NEW plan \in Plan, NEW t \in Int
  PROVE  /\ Begun(plan, t) \in Usage /\ Begun(plan, t).plan = plan
         /\ \A r \in Rate, w \in Window : Begun(plan, t).rates[r][w] = 0
<1>1. Zero \in [Window -> Nat] /\ \A w \in Window : Zero[w] = 0
  BY DEF Zero
<1>2. t + Length["period"] \in Int /\ Anchored(t) \in [Window -> Int]
  BY Constants DEF Anchored
<1> HIDE DEF Zero
<1> QED BY <1>1, <1>2 DEF Begun, Usage

LEMMA NoGrantIs == NoGrant \in Usage /\ NoGrant.ends = 0
<1>1. Begun(Own, 0) \in Usage
  BY Constants, BegunIs
<1> QED BY <1>1 DEF NoGrant, Usage

\* e has no more counted than d.
Eases(d, e) == e.plan = d.plan /\ \A r \in Rate, w \in Window : e.rates[r][w] <= d.rates[r][w]

LEMMA RolledIs ==
  ASSUME NEW e \in Usage, NEW t \in Nat
  PROVE  Rolled(e, t) \in Usage /\ Eases(e, Rolled(e, t))
<1> DEFINE used == [w \in Window |-> IF Over(e, w, t) THEN 0 ELSE e.used[w]]
           rates == [r \in Rate |-> [w \in Window |-> IF Over(e, w, t) THEN 0 ELSE e.rates[r][w]]]
           from == [w \in Window |->
             IF ~Over(e, w, t) THEN e.from[w]
             ELSE IF w = "short" THEN t ELSE e.from[w] + ((t - e.from[w]) \div Length[w]) * Length[w]]
<1>1. used \in [Window -> Nat]
  BY DEF Usage
<1>2. rates \in [Rate -> [Window -> Nat]] /\ \A r \in Rate, w \in Window : rates[r][w] <= e.rates[r][w]
  <2>1. e.rates \in [Rate -> [Window -> Nat]]
    BY DEF Usage
  <2> QED BY <2>1
<1>3. ASSUME NEW w \in Window PROVE from[w] \in Int
  <2>1. Length[w] \in Nat \ {0} /\ e.from[w] \in Int
    BY Constants DEF Usage
  <2>2. (t - e.from[w]) \div Length[w] \in Int
    BY <2>1
  <2>3. e.from[w] + ((t - e.from[w]) \div Length[w]) * Length[w] \in Int
    BY <2>1, <2>2
  <2> QED BY <2>1, <2>3
<1>4. from \in [Window -> Int]
  BY <1>3
<1>5. Rolled(e, t) = [e EXCEPT !.used = used, !.rates = rates, !.from = from]
  BY DEF Rolled, Usage
<1> HIDE DEF used, rates, from
<1> QED BY <1>1, <1>2, <1>4, <1>5 DEF Usage, Eases

LEMMA RenewedIs ==
  ASSUME NEW e \in Usage, NEW t \in Nat
  PROVE  Renewed(e, t) \in Usage /\ Eases(e, Renewed(e, t))
<1> DEFINE start == e.start + ((t - e.start) \div Length["period"]) * Length["period"]
<1>1. e.start \in Int /\ e.plan \in Plan /\ e.rates \in [Rate -> [Window -> Nat]]
  BY DEF Usage
<1>2. start \in Int
  <2>1. Length["period"] \in Nat \ {0}
    BY Constants
  <2>2. (t - e.start) \div Length["period"] \in Int
    BY <1>1, <2>1
  <2> QED BY <1>1, <2>1, <2>2
<1>3. Renewed(e, t) = Begun(e.plan, start)
  BY DEF Renewed
<1> HIDE DEF start
<1> QED BY <1>1, <1>2, <1>3, BegunIs DEF Eases

LEMMA NormalizedIs ==
  ASSUME NEW a, Sound(a), NEW t \in Nat
  PROVE  /\ Sound(Normalized(a, t)) /\ Normalized(a, t).holds = a.holds
         /\ Eases(a.own, Normalized(a, t).own)
         /\ a.grant = NoGrant => Normalized(a, t).grant = NoGrant
<1> DEFINE renewed == IF a.renews /\ t >= a.own.ends THEN Renewed(a.own, t) ELSE a.own
           own == Rolled(renewed, t)
           grant == IF a.grant = NoGrant THEN a.grant ELSE Rolled(a.grant, t)
<1>1. a.own \in Usage /\ a.grant \in Usage
  BY DEF Sound, Account
<1>2. renewed \in Usage /\ Eases(a.own, renewed)
  <2>1. \A r \in Rate, w \in Window : a.own.rates[r][w] \in Nat
    BY <1>1 DEF Usage
  <2>2. Eases(a.own, a.own)
    BY <2>1 DEF Eases
  <2>3. Renewed(a.own, t) \in Usage /\ Eases(a.own, Renewed(a.own, t))
    BY <1>1, RenewedIs
  <2> QED BY <1>1, <2>2, <2>3
<1>3. own \in Usage /\ Eases(renewed, own)
  <2> HIDE DEF renewed
  <2> QED BY <1>2, RolledIs
<1>4. Eases(a.own, own)
  <2> HIDE DEF renewed, own
  <2>1. \A r \in Rate, w \in Window :
          a.own.rates[r][w] \in Nat /\ renewed.rates[r][w] \in Nat /\ own.rates[r][w] \in Nat
    BY <1>1, <1>2, <1>3 DEF Usage
  <2> QED BY <1>2, <1>3, <2>1 DEF Eases
<1>5. grant \in Usage /\ (a.grant = NoGrant => grant = NoGrant)
  BY <1>1, RolledIs
<1>6. Normalized(a, t) = [a EXCEPT !.own = own, !.grant = grant]
  BY DEF Normalized, Sound, Account
<1> HIDE DEF own, grant
<1> QED BY <1>3, <1>4, <1>5, <1>6 DEF Sound, Account

\* What is left of the window that has least left.
LEMMA LeastLeft ==
  ASSUME NEW f \in [Window -> Int]
  PROVE  Min({f[w] : w \in Window}) \in Int
<1> DEFINE left == {f[w] : w \in Window}
           n1 == f["period"]
           n2 == IF "day" \in Window /\ f["day"] < n1 THEN f["day"] ELSE n1
           n3 == IF "week" \in Window /\ f["week"] < n2 THEN f["week"] ELSE n2
           n4 == IF "short" \in Window /\ f["short"] < n3 THEN f["short"] ELSE n3
<1>1. "period" \in Window /\ \A w \in Window : w \in {"short", "day", "week", "period"}
  BY MeteringAssumption
<1>2. n1 \in left /\ n1 \in Int
  BY <1>1
<1>3. n2 \in left /\ n2 \in Int /\ n2 <= n1 /\ ("day" \in Window => n2 <= f["day"])
  BY <1>2
<1>4. n3 \in left /\ n3 \in Int /\ n3 <= n2 /\ ("week" \in Window => n3 <= f["week"])
  <2> HIDE DEF n2
  <2> QED BY <1>3
<1>5. n4 \in left /\ n4 \in Int /\ n4 <= n3 /\ ("short" \in Window => n4 <= f["short"])
  <2> HIDE DEF n3
  <2> QED BY <1>4
<1>6. \A w \in Window : n4 <= f[w]
  <2> HIDE DEF n2, n3, n4
  <2> SUFFICES ASSUME NEW w \in Window PROVE n4 <= f[w]
    OBVIOUS
  <2>1. w \in {"short", "day", "week", "period"} /\ f[w] \in Int
    BY <1>1
  <2> QED BY <1>2, <1>3, <1>4, <1>5, <2>1
<1>7. \A x \in left : n4 <= x
  BY <1>6
<1>8. Min(left) \in left
  <2>1. Min(left) = CHOOSE x \in left : \A y \in left : x =< y
    BY DEF Min
  <2> HIDE DEF left, n4
  <2> QED BY <1>5, <1>7, <2>1
<1> QED BY <1>8

LEMMA EffectiveIs ==
  ASSUME NEW a, Sound(a), NEW t \in Nat
  PROVE  /\ Effective(a, t) \in Usage
         /\ a.grant = NoGrant => Effective(a, t) = a.own
         /\ \A e \in Usage : e.ends = Effective(a, t).ends =>
              /\ Sound(WithEffective(a, t, e)) /\ Effective(WithEffective(a, t, e), t) = e
              /\ WithEffective(a, t, e).holds = a.holds
              /\ a.grant = NoGrant => WithEffective(a, t, e).grant = NoGrant /\ WithEffective(a, t, e).own = e
<1>1. a.own \in Usage /\ a.grant \in Usage /\ a.grant.ends \in Int
  BY DEF Sound, Account, Usage
<1>2. a.grant = NoGrant => ~(t < a.grant.ends)
  BY NoGrantIs
<1>3. ASSUME NEW e \in Usage, e.ends = Effective(a, t).ends
      PROVE  /\ Sound(WithEffective(a, t, e)) /\ Effective(WithEffective(a, t, e), t) = e
             /\ WithEffective(a, t, e).holds = a.holds
             /\ a.grant = NoGrant => WithEffective(a, t, e).grant = NoGrant /\ WithEffective(a, t, e).own = e
  <2>1. CASE t < a.grant.ends
    <3>1. WithEffective(a, t, e) = [a EXCEPT !.grant = e] /\ e.ends = a.grant.ends
      BY <1>3, <2>1 DEF WithEffective, Effective
    <3> QED BY <1>2, <2>1, <3>1 DEF Sound, Account, Effective
  <2>2. CASE ~(t < a.grant.ends)
    <3>1. WithEffective(a, t, e) = [a EXCEPT !.own = e]
      BY <2>2 DEF WithEffective
    <3> QED BY <1>2, <2>2, <3>1 DEF Sound, Account, Effective
  <2> QED BY <2>1, <2>2
<1> QED BY <1>1, <1>2, <1>3 DEF Effective

LEMMA ActiveHoldsAre ==
  ASSUME NEW a, Sound(a), NEW t \in Nat
  PROVE  /\ ActiveHolds(a, t) \in SUBSET Reservation /\ IsFiniteSet(ActiveHolds(a, t))
         /\ CreditsOf(ActiveHolds(a, t)) \in Nat
<1>1. ActiveHolds(a, t) \in SUBSET a.holds /\ a.holds \in SUBSET Reservation
  BY DEF ActiveHolds, Sound, Account
<1> QED BY <1>1, Fewer DEF Sound

LEMMA FreeIs ==
  ASSUME NEW a, Sound(a), NEW t \in Nat
  PROVE  Free(a, t).allowance \in Nat /\ Free(a, t).balance \in Nat
<1> DEFINE e == Effective(a, t)
           held == CreditsOf(ActiveHolds(a, t))
           allowance == AllowanceLeft(a, t)
           spendable == Positive(allowance + a.balance - held)
<1>1. allowance \in Nat
  <2> DEFINE left == [w \in Window |-> Limit[e.plan][w] - e.used[w]]
  <2>1. e.plan \in Plan /\ e.used \in [Window -> Nat]
    BY EffectiveIs DEF Usage
  <2>2. \A w \in Window : Limit[e.plan][w] \in Nat
    BY <2>1, Constants
  <2>3. left \in [Window -> Int]
    BY <2>1, <2>2
  <2>4. {left[w] : w \in Window} = {Limit[e.plan][w] - e.used[w] : w \in Window}
    OBVIOUS
  <2> HIDE DEF left
  <2>5. Min({Limit[e.plan][w] - e.used[w] : w \in Window}) \in Int
    BY <2>3, <2>4, LeastLeft
  <2>6. AllowanceLeft(a, t) = IF Blocked(a, t) THEN 0 ELSE Positive(Min({Limit[e.plan][w] - e.used[w] : w \in Window}))
    BY DEF AllowanceLeft
  <2> HIDE DEF e
  <2> QED BY <2>5, <2>6 DEF Positive
<1>2. held \in Nat /\ a.balance \in Int
  BY ActiveHoldsAre DEF Sound, Account
<1>3. spendable \in Nat
  <2> HIDE DEF allowance, held
  <2> QED BY <1>1, <1>2 DEF Positive
<1>4. Free(a, t) = [allowance |-> Least(allowance, spendable), balance |-> spendable - Least(allowance, spendable)]
  BY DEF Free
<1> HIDE DEF allowance, spendable
<1> QED BY <1>1, <1>3, <1>4 DEF Least

-----------------------------------------------------------------------------
(* What preflight() says.                                                  *)

\* Holds that are over count for nobody, swept or not.
LEMMA SweptIs ==
  ASSUME NEW a, Sound(a), NEW t \in Nat
  PROVE  /\ Sound(Swept(a, t)) /\ Swept(a, t).holds = ActiveHolds(a, t)
         /\ Swept(a, t).own = a.own /\ Swept(a, t).grant = a.grant
         /\ Blocked(Swept(a, t), t) <=> Blocked(a, t)
         /\ Free(Swept(a, t), t) = Free(a, t)
         /\ \A s, rate : CapOf(Swept(a, t), t, s, rate) = CapOf(a, t, s, rate)
         /\ \A rate : Reserved(Swept(a, t), t, rate) = Reserved(a, t, rate)
         /\ \A s, rate, credits :
              Exceeded(Swept(a, t), t, s, rate, credits) <=> Exceeded(a, t, s, rate, credits)
<1> DEFINE b == Swept(a, t)
<1>1. b = [a EXCEPT !.holds = ActiveHolds(a, t)]
  BY DEF Swept
<1>2. Sound(b) /\ b.holds = ActiveHolds(a, t) /\ b.own = a.own /\ b.grant = a.grant /\ b.balance = a.balance
  BY <1>1, ActiveHoldsAre DEF Sound, Account
<1> HIDE DEF b
<1>3. Effective(b, t) = Effective(a, t)
  BY <1>2 DEF Effective
<1>4. Blocked(b, t) <=> Blocked(a, t)
  BY <1>3 DEF Blocked
<1>5. ActiveHolds(b, t) = ActiveHolds(a, t)
  BY <1>2 DEF ActiveHolds
<1>6. AllowanceLeft(b, t) = AllowanceLeft(a, t)
  BY <1>3, <1>4 DEF AllowanceLeft
<1>7. Free(b, t) = Free(a, t)
  BY <1>2, <1>5, <1>6 DEF Free
<1>8. \A s, rate : CapOf(b, t, s, rate) = CapOf(a, t, s, rate)
  BY <1>3, <1>4 DEF CapOf
<1>9. \A rate : Reserved(b, t, rate) = Reserved(a, t, rate)
  BY <1>5 DEF Reserved
<1>10. \A s, rate, credits : Exceeded(b, t, s, rate, credits) <=> Exceeded(a, t, s, rate, credits)
  BY <1>3, <1>8, <1>9 DEF Exceeded
<1> QED BY <1>2, <1>4, <1>7, <1>8, <1>9, <1>10 DEF b

LEMMA FitsMeans ==
  ASSUME MeterTypes, NEW rate \in Rate, NEW size \in Sizes
  PROVE  LET a == Normalized(acct, now)
             free == Free(a, now)
         IN  Preflight(rate, size).fits <=>
               /\ ~Blocked(a, now) /\ Credits(rate, size) <= free.allowance + free.balance
               /\ ~Exceeded(a, now, settings, rate, Credits(rate, size))
<1> DEFINE a == Normalized(acct, now)
           credits == Credits(rate, size)
           free == Free(a, now)
           available == IF Blocked(a, now) THEN 0 ELSE free.allowance + free.balance
           missing == Positive(credits - available)
<1>1. Sound(a)
  BY NormalizedIs DEF MeterTypes
<1>2. free.allowance \in Nat /\ free.balance \in Nat /\ credits \in Nat
  <2> HIDE DEF a
  <2> QED BY <1>1, FreeIs, CreditsAre DEF MeterTypes
<1>3. Preflight(rate, size).fits <=> ~Blocked(a, now) /\ missing = 0 /\ ~Exceeded(a, now, settings, rate, credits)
  BY DEF Preflight
<1>4. ~Blocked(a, now) => (missing = 0 <=> credits <= free.allowance + free.balance)
  <2> HIDE DEF a, free, credits
  <2> QED BY <1>2 DEF Positive
<1> QED BY <1>3, <1>4

LEMMA PreflightIsTrue == MeterTypes => PreflightKeepsItsWord
<1> SUFFICES ASSUME MeterTypes, NEW rate \in Rate, NEW size \in Sizes
             PROVE  LET a == Normalized(acct, now)
                        told == Preflight(rate, size)
                    IN  /\ (told.fits /\ Credits(rate, size) > 0) = Consumes(a, now, settings, rate, size)
                        /\ (told.fits /\ Cardinality(ActiveHolds(a, now)) < MaxHolds) = Reserves(a, now, settings, rate, size)
                        /\ \A r \in told.degrade : Preflight(r, size).fits /\ ~Preflight(r, size).exceeded
  BY DEF PreflightKeepsItsWord
<1> DEFINE a == Normalized(acct, now)
           told == Preflight(rate, size)
           credits == Credits(rate, size)
           free == Free(a, now)
<1>1. Sound(a) /\ now \in Nat
  BY NormalizedIs DEF MeterTypes
<1>2. free.allowance \in Nat /\ free.balance \in Nat /\ credits \in Nat
  <2> HIDE DEF a
  <2> QED BY <1>1, FreeIs, CreditsAre
<1>3. told.fits <=> /\ ~Blocked(a, now) /\ credits <= free.allowance + free.balance
                    /\ ~Exceeded(a, now, settings, rate, credits)
  BY FitsMeans
<1>4. Consumes(a, now, settings, rate, size) <=>
        /\ credits > 0 /\ ~Blocked(a, now) /\ credits <= free.allowance + free.balance
        /\ ~Exceeded(a, now, settings, rate, credits)
  <2>1. Consumes(a, now, settings, rate, size) <=>
          /\ credits >= 1 /\ ~Blocked(a, now) /\ credits - Least(credits, free.allowance) <= free.balance
          /\ ~Exceeded(a, now, settings, rate, credits)
    BY DEF Consumes
  <2> HIDE DEF a, free, credits
  <2> QED BY <1>2, <2>1 DEF Least
<1>5. Reserves(a, now, settings, rate, size) <=>
        /\ ~Blocked(a, now) /\ Cardinality(ActiveHolds(a, now)) < MaxHolds
        /\ credits <= free.allowance + free.balance
        /\ ~Exceeded(a, now, settings, rate, credits)
  <2> HIDE DEF a
  <2> QED BY <1>1, SweptIs DEF Reserves
<1>6. ASSUME NEW r \in told.degrade PROVE Preflight(r, size).fits /\ ~Preflight(r, size).exceeded
  <2> DEFINE available == IF Blocked(a, now) THEN 0 ELSE free.allowance + free.balance
  <2>1. ~Blocked(a, now) /\ r \in Offered(a, now, settings, rate, size, available)
    <3> HIDE DEF a, free
    <3> QED BY DEF Preflight, a, free
  <2>2. /\ r \in Rate /\ Credits(r, size) <= free.allowance + free.balance
        /\ ~Exceeded(a, now, settings, r, Credits(r, size)) /\ ~ExceedsMargin(a, now, settings, r, size)
    <3> HIDE DEF a, free
    <3> QED BY <2>1 DEF Offered
  <2>3. Preflight(r, size).fits
    BY <2>1, <2>2, FitsMeans
  <2>4. ~Preflight(r, size).exceeded
    BY <2>2 DEF Preflight
  <2> QED BY <2>3, <2>4
<1>7. told.fits \in BOOLEAN /\ Consumes(a, now, settings, rate, size) \in BOOLEAN
      /\ Reserves(a, now, settings, rate, size) \in BOOLEAN
  BY DEF Preflight, Consumes, Reserves
<1> HIDE DEF a, told, free
<1>8. (told.fits /\ Credits(rate, size) > 0) = Consumes(a, now, settings, rate, size)
  BY <1>3, <1>4, <1>7
<1>9. (told.fits /\ Cardinality(ActiveHolds(a, now)) < MaxHolds) = Reserves(a, now, settings, rate, size)
  BY <1>3, <1>5, <1>7
<1> QED BY <1>6, <1>8, <1>9 DEF a, told

-----------------------------------------------------------------------------
(* What calls do to the account.                                           *)

\* Usage that is charged, counted and paid for is that of one rate, if it has a cap.
AfterUse(a, t, s, rate, credits, cost, allowance, balance) ==
  Spent(Counted(Charged(a, t, allowance, balance), t, s, rate, credits), t, cost)

Uses(a, b, capped, rate, credits) ==
  /\ b.holds = a.holds
  /\ a.grant = NoGrant =>
       /\ b.grant = NoGrant /\ b.own.plan = a.own.plan
       /\ \A r \in Rate, w \in Window :
            b.own.rates[r][w] = a.own.rates[r][w] + IF r = rate /\ capped THEN credits ELSE 0

LEMMA UsedIs ==
  ASSUME NEW a, Sound(a), NEW t \in Nat, NEW s, NEW rate \in Rate,
         NEW allowance \in Nat, NEW balance \in Int, NEW credits \in Nat, NEW cost \in Nat
  PROVE  LET b == AfterUse(a, t, s, rate, credits, cost, allowance, balance)
         IN  Sound(b) /\ Uses(a, b, CapOf(a, t, s, rate) # NoCap, rate, credits)
<1> DEFINE e == Effective(a, t)
           charged == [e EXCEPT !.used = [w \in Window |-> @[w] + allowance]]
           c == Charged(a, t, allowance, balance)
           counted == [charged EXCEPT !.rates[rate] = [w \in Window |-> @[w] + credits]]
           d == Counted(c, t, s, rate, credits)
           b == Spent(d, t, cost)
<1>1. e \in Usage /\ (a.grant = NoGrant => e = a.own)
  BY EffectiveIs
<1>2. charged \in Usage /\ charged.ends = e.ends /\ charged.plan = e.plan /\ charged.rates = e.rates
  <2> HIDE DEF e
  <2> QED BY <1>1 DEF Usage
<1>3. /\ Sound(c) /\ Effective(c, t) = charged /\ c.holds = a.holds
      /\ a.grant = NoGrant => c.grant = NoGrant /\ c.own = charged
  <2> DEFINE f == WithEffective(a, t, charged)
  <2>1. /\ Sound(f) /\ Effective(f, t) = charged /\ f.holds = a.holds
        /\ a.grant = NoGrant => f.grant = NoGrant /\ f.own = charged
    <3> HIDE DEF charged
    <3> QED BY <1>2, EffectiveIs
  <2>2. c = [f EXCEPT !.balance = @ - balance]
    BY DEF Charged
  <2> HIDE DEF f, c, charged
  <2> QED BY <2>1, <2>2 DEF Sound, Account, Effective
<1>4. /\ counted \in Usage /\ counted.ends = charged.ends /\ counted.plan = charged.plan
      /\ \A r \in Rate, w \in Window :
           counted.rates[r][w] = charged.rates[r][w] + IF r = rate THEN credits ELSE 0
  <2> HIDE DEF charged
  <2>1. charged.rates \in [Rate -> [Window -> Nat]]
    BY <1>2 DEF Usage
  <2> DEFINE rates == [charged.rates EXCEPT ![rate] = [w \in Window |-> @[w] + credits]]
  <2>2. rates \in [Rate -> [Window -> Nat]]
    BY <2>1
  <2>3. \A r \in Rate, w \in Window :
          rates[r][w] = charged.rates[r][w] + IF r = rate THEN credits ELSE 0
    BY <2>1
  <2>4. counted = [charged EXCEPT !.rates = rates]
    BY <1>2 DEF Usage
  <2> HIDE DEF rates, counted
  <2> QED BY <1>2, <2>2, <2>3, <2>4 DEF Usage
<1>5. CapOf(c, t, s, rate) = CapOf(a, t, s, rate)
  <2>1. Effective(c, t).ends = Effective(a, t).ends /\ Effective(c, t).plan = Effective(a, t).plan
    BY <1>2, <1>3
  <2> HIDE DEF c
  <2> QED BY <2>1 DEF CapOf, Blocked
<1>6. /\ Sound(d) /\ d.holds = a.holds
      /\ a.grant = NoGrant => d.grant = NoGrant /\ d.own.plan = a.own.plan
      /\ a.grant = NoGrant => \A r \in Rate, w \in Window :
           d.own.rates[r][w] = a.own.rates[r][w] + IF r = rate /\ CapOf(a, t, s, rate) # NoCap THEN credits ELSE 0
  <2>0. a.own.rates \in [Rate -> [Window -> Nat]]
    BY DEF Sound, Account, Usage
  <2>1. CASE CapOf(a, t, s, rate) = NoCap
    <3>1. d = c
      BY <1>5, <2>1 DEF Counted
    <3> HIDE DEF c, d, charged, e
    <3> QED BY <1>1, <1>2, <1>3, <2>0, <2>1, <3>1
  <2>2. CASE CapOf(a, t, s, rate) # NoCap
    <3>1. d = WithEffective(c, t, counted)
      BY <1>3, <1>5, <2>2 DEF Counted
    <3>2. /\ Sound(d) /\ d.holds = c.holds
          /\ c.grant = NoGrant => d.grant = NoGrant /\ d.own = counted
      <4> HIDE DEF c, d, counted, charged
      <4> QED BY <1>3, <1>4, <3>1, EffectiveIs
    <3> HIDE DEF c, d, counted, charged, e
    <3> QED BY <1>1, <1>2, <1>3, <1>4, <2>2, <3>2
  <2> QED BY <2>1, <2>2
<1>7. Sound(b) /\ b.holds = d.holds /\ b.own = d.own /\ b.grant = d.grant
  <2> HIDE DEF d
  <2>1. Effective(d, t).start \in Int
    BY <1>6, EffectiveIs DEF Usage
  <2>2. d.cost.minor \in Nat /\ d \in Account
    BY <1>6 DEF Sound, Account
  <2>3. cost + (IF d.cost.start = Effective(d, t).start THEN d.cost.minor ELSE 0) \in Nat
    BY <2>2
  <2>4. CASE cost = 0
    BY <1>6, <2>4 DEF Spent
  <2>5. CASE cost # 0
    <3>1. b = [d EXCEPT !.cost = [start |-> Effective(d, t).start,
                 minor |-> cost + (IF @.start = Effective(d, t).start THEN @.minor ELSE 0)]]
      BY <2>5 DEF Spent
    <3> HIDE DEF b
    <3> QED BY <1>6, <2>1, <2>2, <2>3, <3>1 DEF Sound, Account
  <2> QED BY <2>4, <2>5
<1> HIDE DEF b, d
<1> QED BY <1>6, <1>7 DEF b, d, AfterUse, Uses

\* Holds run out: what was within a cap stays within it.
LEMMA WithinStays ==
  ASSUME NEW a, Sound(a), NEW t \in Nat, NEW u \in Nat, t <= u, NEW rate \in Rate, Within(a, t, rate)
  PROVE  Within(a, u, rate)
<1> DEFINE before == {h \in ActiveHolds(a, t) : h.rate = rate}
           after == {h \in ActiveHolds(a, u) : h.rate = rate}
<1>1. before \in SUBSET Reservation /\ IsFiniteSet(before)
  <2>1. before \in SUBSET ActiveHolds(a, t)
    OBVIOUS
  <2> QED BY <2>1, ActiveHoldsAre, Fewer
<1>2. after \in SUBSET before
  <2>1. \A h \in a.holds : h.expiresAt \in Nat
    BY DEF Sound, Account, Reservation
  <2> QED BY <2>1 DEF ActiveHolds
<1>3. CreditsOf(after) \in Nat /\ CreditsOf(before) \in Nat /\ CreditsOf(after) <= CreditsOf(before)
  <2> HIDE DEF before, after
  <2> QED BY <1>1, <1>2, Fewer
<1>4. CASE CapFor(rate) # NoCap
  <2> SUFFICES ASSUME NEW w \in Window PROVE a.own.rates[rate][w] + CreditsOf(after) <= CapFor(rate)[w]
    BY DEF Within, Reserved
  <2>1. a.own.rates[rate][w] + CreditsOf(before) <= CapFor(rate)[w]
    BY <1>4 DEF Within, Reserved
  <2>2. a.own.rates[rate][w] \in Nat
    BY DEF Sound, Account, Usage
  <2>3. CapFor(rate)[w] \in Nat
    <3>1. Settings[1] \in Tariff /\ Own \in Plan
      BY TariffsAre, Constants
    <3> QED BY <1>4, <3>1 DEF CapFor, Tariff
  <2> HIDE DEF before, after
  <2> QED BY <1>3, <2>1, <2>2, <2>3
<1> QED BY <1>4 DEF Within

LEMMA ReservedIs ==
  ASSUME NEW a, Sound(a), NEW t \in Nat, NEW rate \in Rate
  PROVE  Reserved(a, t, rate) \in Nat /\ \A w \in Window : a.own.rates[rate][w] \in Nat
<1>1. ActiveHolds(a, t) \in SUBSET Reservation /\ IsFiniteSet(ActiveHolds(a, t))
  BY ActiveHoldsAre
<1>2. {h \in ActiveHolds(a, t) : h.rate = rate} \in SUBSET ActiveHolds(a, t)
  OBVIOUS
<1>3. a.own \in Usage
  BY DEF Sound, Account
<1> QED BY <1>1, <1>2, <1>3, Fewer DEF Reserved, Usage

LEMMA CapIs ==
  ASSUME NEW rate \in Rate, CapFor(rate) # NoCap
  PROVE  \A w \in Window : CapFor(rate)[w] \in Nat
<1>1. Settings[1] \in Tariff /\ Own \in Plan
  BY TariffsAre, Constants
<1> QED BY <1>1 DEF CapFor, Tariff

-----------------------------------------------------------------------------
(* Every step keeps the invariant.                                         *)

LEMMA Initially == Init => IInv
<1> SUFFICES ASSUME Init PROVE IInv
  OBVIOUS
<1>1. Len(Settings) \in Nat \ {0} /\ Settings[1] \in Tariff
  BY TariffsAre
<1>2. Begun(Own, 0) \in Usage /\ Begun(Own, 0).plan = Own
      /\ \A r \in Rate, w \in Window : Begun(Own, 0).rates[r][w] = 0
  BY Constants, BegunIs
<1>3. acct.own = Begun(Own, 0) /\ acct.grant = NoGrant /\ acct.holds = {} /\ Sound(acct)
  <2>1. PICK renews \in BOOLEAN :
          acct = [own |-> Begun(Own, 0), renews |-> renews, grant |-> NoGrant, balance |-> Balance, holds |-> {},
                  cost |-> [start |-> 0, minor |-> 0]]
    BY DEF Init
  <2> QED BY <1>2, <2>1, NoGrantIs, Constants, FS_EmptySet DEF Sound, Account
<1>4. moments = {[at |-> 0, settings |-> Settings[1]]} /\ now = 0 /\ version = 1 /\ excused = {}
  BY DEF Init
<1>5. MeterTypes
  <2>1. receipts \in [HoldKey -> [status : {"none", "active", "settled", "released"}, rate : Rate \cup {NoRate}]]
        /\ \A k \in HoldKey : receipts[k].status # "active"
    BY DEF Init, NoReceipt
  <2> QED BY <1>1, <1>3, <1>4, <2>1 DEF MeterTypes
<1>6. Steady /\ \A h \in acct.holds : HoldFits(h)
  BY <1>2, <1>3, <1>4 DEF Steady
<1>7. ASSUME NEW rate \in Rate PROVE Within(acct, 0, rate)
  <2>1. Reserved(acct, 0, rate) = 0
    <3>1. {h \in ActiveHolds(acct, 0) : h.rate = rate} = {}
      BY <1>3 DEF ActiveHolds
    <3>2. Units({}) = {} /\ Cardinality({}) = 0
      BY FS_EmptySet DEF Units
    <3> QED BY <3>1, <3>2 DEF Reserved, CreditsOf
  <2>2. ASSUME CapFor(rate) # NoCap, NEW w \in Window PROVE CapFor(rate)[w] \in Nat
    BY <1>1, <2>2, Constants DEF CapFor, Tariff
  <2> QED BY <1>2, <1>3, <2>1, <2>2 DEF Within
<1> QED BY <1>4, <1>5, <1>6, <1>7 DEF IInv

\* What a call reads at a moment.
LEMMA Reads ==
  ASSUME IInv, NEW m \in moments
  PROVE  LET a == Normalized(acct, m.at)
         IN  /\ m.at \in Nat /\ m.at <= now /\ m.settings \in Tariff /\ Sound(a) /\ a.holds = acct.holds
             /\ excused # Rate =>
                  /\ a.grant = NoGrant /\ a.own.plan = Own /\ Effective(a, m.at) = a.own
                  /\ \A rate \in Rate :
                       CapOf(a, m.at, m.settings, rate) = IF Blocked(a, m.at) THEN NoCap ELSE CapFor(rate)
             /\ \A rate \in Rate \ excused : Within(a, m.at, rate)
<1> DEFINE a == Normalized(acct, m.at)
<1>1. m.at \in Nat /\ m.at <= now /\ m.settings \in Tariff
  BY DEF IInv, MeterTypes
<1>2. /\ Sound(a) /\ a.holds = acct.holds /\ Eases(acct.own, a.own)
      /\ acct.grant = NoGrant => a.grant = NoGrant
  BY <1>1, NormalizedIs DEF IInv, MeterTypes
<1> HIDE DEF a
<1>3. ASSUME excused # Rate
      PROVE  /\ a.grant = NoGrant /\ a.own.plan = Own /\ Effective(a, m.at) = a.own
             /\ \A rate \in Rate :
                  CapOf(a, m.at, m.settings, rate) = IF Blocked(a, m.at) THEN NoCap ELSE CapFor(rate)
  <2>1. acct.grant = NoGrant /\ acct.own.plan = Own /\ m.settings = Settings[1]
    BY <1>3 DEF IInv, Steady
  <2>2. a.grant = NoGrant /\ a.own.plan = Own /\ Effective(a, m.at) = a.own
    BY <1>1, <1>2, <2>1, EffectiveIs DEF Eases
  <2> QED BY <2>1, <2>2 DEF CapOf, CapFor
<1>4. ASSUME NEW rate \in Rate \ excused PROVE Within(a, m.at, rate)
  <2>1. Reserved(a, m.at, rate) = Reserved(acct, m.at, rate)
    BY <1>2 DEF Reserved, ActiveHolds
  <2>2. Reserved(acct, m.at, rate) \in Nat
    <3>1. Sound(acct)
      BY DEF IInv, MeterTypes
    <3>2. ActiveHolds(acct, m.at) \in SUBSET Reservation /\ IsFiniteSet(ActiveHolds(acct, m.at))
      BY <1>1, <3>1, ActiveHoldsAre
    <3>3. {h \in ActiveHolds(acct, m.at) : h.rate = rate} \in SUBSET ActiveHolds(acct, m.at)
      OBVIOUS
    <3> QED BY <3>2, <3>3, Fewer DEF Reserved
  <2>3. SUFFICES ASSUME CapFor(rate) # NoCap, NEW w \in Window
                 PROVE  a.own.rates[rate][w] + Reserved(acct, m.at, rate) <= CapFor(rate)[w]
    BY <2>1 DEF Within
  <2>4. acct.own.rates[rate][w] + Reserved(acct, m.at, rate) <= CapFor(rate)[w]
    BY <2>3 DEF IInv, Within
  <2>5. a.own.rates[rate][w] <= acct.own.rates[rate][w]
    BY <1>2 DEF Eases
  <2>6. a.own.rates[rate][w] \in Nat /\ acct.own.rates[rate][w] \in Nat
    <3>1. a.own \in Usage /\ acct.own \in Usage
      BY <1>2 DEF IInv, MeterTypes, Sound, Account
    <3> QED BY <3>1 DEF Usage
  <2>7. CapFor(rate)[w] \in Nat
    <3>1. Settings[1] \in Tariff /\ Own \in Plan
      BY TariffsAre, Constants
    <3> QED BY <2>3, <3>1 DEF CapFor, Tariff
  <2> QED BY <2>2, <2>4, <2>5, <2>6, <2>7
<1> QED BY <1>1, <1>2, <1>3, <1>4 DEF a

\* What is written has to be within the caps at the moment of which it is.
LEMMA CommitKeeps ==
  ASSUME IInv, NEW m \in moments, NEW b, Sound(b), Commits(b),
         receipts' \in [HoldKey -> [status : {"none", "active", "settled", "released"}, rate : Rate \cup {NoRate}]],
         \A k \in HoldKey : receipts'[k].status = "active" => receipts'[k].rate \in Rate,
         excused' \in SUBSET Rate, excused \subseteq excused',
         excused' # Rate => b.grant = NoGrant /\ b.own.plan = Own /\ \A h \in b.holds : HoldFits(h)',
         \A rate \in Rate \ excused' : Within(b, m.at, rate)
  PROVE  IInv'
<1>1. /\ acct' = b /\ moments' = {[at |-> now, settings |-> Settings[version]]}
      /\ now' = now /\ version' = version
  BY DEF Commits, settings
<1>2. m.at \in Nat /\ m.at <= now /\ now \in Nat /\ version \in 1..Len(Settings)
  BY Reads DEF IInv, MeterTypes
<1>3. Settings[version] \in Tariff
  BY <1>2, TariffsAre
<1>4. Sound(b)'
  BY <1>1
<1>5. MeterTypes'
  <2>1. moments' \in SUBSET [at : Nat, settings : Tariff] /\ \A n \in moments' : n.at <= now
    BY <1>1, <1>2, <1>3
  <2>2. Sound(acct')
    BY <1>1
  <2>3. Sound(acct)'
    BY <2>2 DEF Sound, Account, Reservation, Usage
  <2> QED BY <1>1, <1>2, <2>1, <2>3 DEF MeterTypes
<1>6. excused' # Rate => Steady' /\ \A h \in acct'.holds : HoldFits(h)'
  <2> SUFFICES ASSUME excused' # Rate PROVE Steady' /\ \A h \in acct'.holds : HoldFits(h)'
    OBVIOUS
  <2>1. excused # Rate
    OBVIOUS
  <2>2. version = 1
    BY <2>1 DEF IInv, Steady
  <2> QED BY <1>1, <2>2 DEF Steady
<1>7. ASSUME NEW rate \in Rate \ excused', NEW n \in moments' PROVE Within(acct, n.at, rate)'
  <2>1. n.at = now
    BY <1>1, <1>7
  <2>2. Within(b, now, rate)
    BY <1>2, WithinStays
  <2> QED BY <1>1, <2>1, <2>2 DEF Within, Reserved, ActiveHolds
<1> QED BY <1>5, <1>6, <1>7 DEF IInv

LEMMA ConsumeKeeps ==
  ASSUME IInv, NEW m \in moments, NEW rate \in Rate, NEW size \in Sizes,
         Consume(m, Normalized(acct, m.at), rate, size)
  PROVE  IInv'
<1> DEFINE a == Normalized(acct, m.at)
           s == m.settings
           credits == Credits(rate, size)
           free == Free(a, m.at)
           allowance == Least(credits, free.allowance)
           cost == Cost[rate][size]
           balance == credits - allowance
           b == AfterUse(a, m.at, s, rate, credits, cost, allowance, balance)
<1>1. Consumes(a, m.at, s, rate, size) /\ Commits(b) /\ receipts' = receipts /\ excused' = excused
  BY DEF Consume, Consumed, AfterUse
<1>2. m.at \in Nat /\ Sound(a) /\ a.holds = acct.holds
  BY Reads
<1>3. credits \in Nat /\ cost \in Nat /\ allowance \in Nat /\ balance \in Int
  <2>1. credits \in Nat /\ cost \in Nat
    BY CreditsAre
  <2>2. free.allowance \in Nat
    <3> HIDE DEF a
    <3> QED BY <1>2, FreeIs
  <2> HIDE DEF a, credits, free
  <2> QED BY <2>1, <2>2 DEF Least
<1>4. ~Blocked(a, m.at) /\ ~Exceeded(a, m.at, s, rate, credits)
  BY <1>1 DEF Consumes
<1>5. Sound(b) /\ Uses(a, b, CapOf(a, m.at, s, rate) # NoCap, rate, credits)
  <2> HIDE DEF a, s, credits, allowance, balance, cost
  <2> QED BY <1>2, <1>3, UsedIs
<1> HIDE DEF credits, cost, allowance, b
<1>6. ASSUME excused # Rate
      PROVE  b.grant = NoGrant /\ b.own.plan = Own /\ \A h \in b.holds : HoldFits(h)'
  <2>1. a.grant = NoGrant /\ a.own.plan = Own
    BY <1>6, Reads
  <2>2. \A h \in acct.holds : HoldFits(h)
    BY <1>6 DEF IInv
  <2> HIDE DEF a
  <2> QED BY <1>1, <1>2, <1>5, <2>1, <2>2 DEF HoldFits, Uses
<1>7. ASSUME NEW r \in Rate \ excused PROVE Within(b, m.at, r)
  <2>1. /\ a.grant = NoGrant /\ Effective(a, m.at) = a.own /\ Within(a, m.at, r)
        /\ CapOf(a, m.at, s, rate) = CapFor(rate)
    BY <1>4, Reads
  <2> HIDE DEF a, s
  <2>2. Reserved(b, m.at, r) = Reserved(a, m.at, r)
    BY <1>5 DEF Reserved, ActiveHolds, Uses
  <2>3. SUFFICES ASSUME CapFor(r) # NoCap, NEW w \in Window
                 PROVE  b.own.rates[r][w] + Reserved(a, m.at, r) <= CapFor(r)[w]
    BY <2>2 DEF Within
  <2>4. CASE r # rate
    <3>1. b.own.rates[r][w] = a.own.rates[r][w] + 0 /\ a.own.rates[r][w] \in Nat
      BY <1>2, <1>5, <2>1, <2>4 DEF Sound, Account, Usage, Uses
    <3> QED BY <2>1, <2>3, <3>1 DEF Within
  <2>5. CASE r = rate
    <3>1. b.own.rates[r][w] = a.own.rates[r][w] + credits
      BY <1>5, <2>1, <2>3, <2>5 DEF Uses
    <3>2. ~(a.own.rates[r][w] + Reserved(a, m.at, r) + credits > CapFor(r)[w])
      BY <1>4, <2>1, <2>3, <2>5 DEF Exceeded
    <3>3. a.own.rates[r][w] \in Nat /\ Reserved(a, m.at, r) \in Nat /\ CapFor(r)[w] \in Nat
      BY <1>2, <2>3, ReservedIs, CapIs
    <3> QED BY <1>3, <3>1, <3>2, <3>3
  <2> QED BY <2>4, <2>5
<1>8. /\ receipts' \in [HoldKey -> [status : {"none", "active", "settled", "released"}, rate : Rate \cup {NoRate}]]
      /\ \A k \in HoldKey : receipts'[k].status = "active" => receipts'[k].rate \in Rate
      /\ excused' \in SUBSET Rate
  BY <1>1 DEF IInv, MeterTypes
<1> HIDE DEF a, s
<1> QED BY <1>1, <1>5, <1>6, <1>7, <1>8, CommitKeeps

\* What is written keeps the caps if neither usage nor holds of a rate grew.
LEMMA WithinLess ==
  ASSUME NEW a, Sound(a), NEW b, Sound(b), NEW t \in Nat, NEW rate \in Rate, Within(a, t, rate),
         \A w \in Window : b.own.rates[rate][w] <= a.own.rates[rate][w],
         \A h \in b.holds : h.rate = rate => h \in a.holds
  PROVE  Within(b, t, rate)
<1> DEFINE before == {h \in ActiveHolds(a, t) : h.rate = rate}
           after == {h \in ActiveHolds(b, t) : h.rate = rate}
<1>1. before \in SUBSET Reservation /\ IsFiniteSet(before)
  <2>1. before \in SUBSET ActiveHolds(a, t)
    OBVIOUS
  <2> QED BY <2>1, ActiveHoldsAre, Fewer
<1>2. after \in SUBSET before
  BY DEF ActiveHolds
<1>3. Reserved(b, t, rate) <= Reserved(a, t, rate)
  <2>1. CreditsOf(after) <= CreditsOf(before)
    <3> HIDE DEF before, after
    <3> QED BY <1>1, <1>2, Fewer
  <2> QED BY <2>1 DEF Reserved
<1>4. SUFFICES ASSUME CapFor(rate) # NoCap, NEW w \in Window
               PROVE  b.own.rates[rate][w] + Reserved(b, t, rate) <= CapFor(rate)[w]
  BY DEF Within
<1>5. a.own.rates[rate][w] + Reserved(a, t, rate) <= CapFor(rate)[w]
  BY <1>4 DEF Within
<1>6. /\ a.own.rates[rate][w] \in Nat /\ b.own.rates[rate][w] \in Nat /\ CapFor(rate)[w] \in Nat
      /\ Reserved(a, t, rate) \in Nat /\ Reserved(b, t, rate) \in Nat
  BY <1>4, ReservedIs, CapIs
<1>7. b.own.rates[rate][w] <= a.own.rates[rate][w]
  OBVIOUS
<1> QED BY <1>3, <1>5, <1>6, <1>7

LEMMA ReserveKeeps ==
  ASSUME IInv, NEW m \in moments, NEW k \in HoldKey, NEW rate \in Rate, NEW size \in Sizes,
         Reserve(m, Normalized(acct, m.at), k, rate, size)
  PROVE  IInv'
<1> DEFINE a == Normalized(acct, m.at)
           s == m.settings
           credits == Credits(rate, size)
           swept == Swept(a, m.at)
           h == Hold(a, m.at, s, k, rate, size)
           b == [swept EXCEPT !.holds = @ \cup {h}]
<1>1. /\ receipts[k] = NoReceipt /\ Reserves(a, m.at, s, rate, size) /\ Commits(b)
      /\ receipts' = [receipts EXCEPT ![k] = [status |-> "active", rate |-> rate]] /\ excused' = excused
  BY DEF Reserve
<1>2. m.at \in Nat /\ Sound(a) /\ a.holds = acct.holds
  BY Reads
<1>3. credits \in Nat
  BY CreditsAre
<1> HIDE DEF a, s
<1>4. /\ Sound(swept) /\ swept.holds = ActiveHolds(a, m.at) /\ swept.own = a.own /\ swept.grant = a.grant
      /\ swept.holds \in SUBSET acct.holds
  BY <1>2, SweptIs DEF ActiveHolds
<1>5. ~Blocked(a, m.at) /\ ~Exceeded(a, m.at, s, rate, credits)
  BY <1>1, <1>2, SweptIs DEF Reserves
<1>6. /\ h \in Reservation /\ h.key = k /\ h.credits = credits
      /\ h.rate = IF CapOf(a, m.at, s, rate) = NoCap THEN NoRate ELSE rate
  <2>1. m.at + HoldTtl \in Nat
    BY <1>2, Constants
  <2> QED BY <1>3, <2>1 DEF Hold, Reservation
<1> HIDE DEF swept, h
<1>7. /\ Sound(b) /\ b.holds = swept.holds \cup {h} /\ b.own = a.own /\ b.grant = a.grant
  BY <1>4, <1>6, FS_AddElement DEF Sound, Account
<1> HIDE DEF b, credits
<1>8. ASSUME excused # Rate
      PROVE  b.grant = NoGrant /\ b.own.plan = Own /\ \A x \in b.holds : HoldFits(x)'
  <2>1. a.grant = NoGrant /\ a.own.plan = Own /\ CapOf(a, m.at, s, rate) = CapFor(rate)
    BY <1>5, <1>8, Reads DEF a, s
  <2>2. ASSUME NEW x \in swept.holds PROVE HoldFits(x)'
    <3>1. HoldFits(x) /\ x.key \in HoldKey
      BY <1>4, <1>8 DEF IInv, Sound, Account, Reservation
    <3>2. x.key # k
      BY <1>1, <3>1 DEF HoldFits, NoReceipt
    <3>3. receipts'[x.key] = receipts[x.key]
      BY <1>1, <3>1, <3>2 DEF IInv, MeterTypes
    <3> QED BY <3>1, <3>3 DEF HoldFits
  <2>3. ASSUME NEW x, x = h PROVE HoldFits(x)'
    <3>1. receipts'[k] = [status |-> "active", rate |-> rate]
      BY <1>1 DEF IInv, MeterTypes
    <3>2. x.key = k /\ x.rate = IF CapFor(rate) = NoCap THEN NoRate ELSE rate
      BY <1>6, <2>1, <2>3
    <3> QED BY <3>1, <3>2 DEF HoldFits, CapFor
  <2>4. \A x \in b.holds : x \in swept.holds \/ x = h
    BY <1>7
  <2> QED BY <1>7, <2>1, <2>2, <2>3, <2>4
<1>9. ASSUME NEW r \in Rate \ excused PROVE Within(b, m.at, r)
  <2>1. /\ Within(a, m.at, r) /\ Effective(a, m.at) = a.own /\ CapOf(a, m.at, s, rate) = CapFor(rate)
    BY <1>5, Reads DEF a, s
  <2>2. CASE r # rate
    <3>1. h.rate # r
      BY <1>6, <2>2, Constants
    <3>2. \A x \in b.holds : x.rate = r => x \in a.holds
      BY <1>2, <1>4, <1>7, <3>1
    <3>3. \A w \in Window : b.own.rates[r][w] <= a.own.rates[r][w]
      BY <1>2, <1>7, ReservedIs
    <3> QED BY <1>2, <1>7, <2>1, <3>2, <3>3, WithinLess
  <2>3. CASE r = rate
    <3> DEFINE before == {x \in ActiveHolds(a, m.at) : x.rate = r}
               after == {x \in ActiveHolds(b, m.at) : x.rate = r}
    <3>1. before \in SUBSET Reservation /\ IsFiniteSet(before)
      <4>1. before \in SUBSET ActiveHolds(a, m.at)
        OBVIOUS
      <4> QED BY <1>2, <4>1, ActiveHoldsAre, Fewer
    <3>2. after \in SUBSET (before \cup {h})
      BY <1>4, <1>7 DEF ActiveHolds
    <3>3. CreditsOf(after) <= CreditsOf(before) + credits /\ CreditsOf(after) \in Nat /\ CreditsOf(before) \in Nat
      <4> HIDE DEF before, after
      <4>1. /\ IsFiniteSet(before \cup {h}) /\ CreditsOf(before \cup {h}) \in Nat /\ CreditsOf(before) \in Nat
            /\ CreditsOf(before \cup {h}) <= CreditsOf(before) + credits
        BY <1>6, <3>1, Added
      <4>2. before \cup {h} \in SUBSET Reservation
        BY <1>6, <3>1
      <4>3. CreditsOf(after) \in Nat /\ CreditsOf(after) <= CreditsOf(before \cup {h})
        BY <3>2, <4>1, <4>2, Fewer
      <4> QED BY <1>3, <4>1, <4>3
    <3>4. SUFFICES ASSUME CapFor(r) # NoCap, NEW w \in Window
                   PROVE  b.own.rates[r][w] + CreditsOf(after) <= CapFor(r)[w]
      BY DEF Within, Reserved
    <3>5. ~(a.own.rates[r][w] + CreditsOf(before) + credits > CapFor(r)[w])
      BY <1>5, <2>1, <2>3, <3>4 DEF Exceeded, Reserved
    <3>6. a.own.rates[r][w] \in Nat /\ CapFor(r)[w] \in Nat /\ b.own.rates[r][w] = a.own.rates[r][w]
      BY <1>2, <1>7, <3>4, ReservedIs, CapIs
    <3> HIDE DEF before, after
    <3> QED BY <1>3, <3>3, <3>5, <3>6
  <2> QED BY <2>2, <2>3
<1>10. /\ receipts' \in [HoldKey -> [status : {"none", "active", "settled", "released"}, rate : Rate \cup {NoRate}]]
       /\ \A n \in HoldKey : receipts'[n].status = "active" => receipts'[n].rate \in Rate
       /\ excused' \in SUBSET Rate
  BY <1>1 DEF IInv, MeterTypes
<1> QED BY <1>1, <1>7, <1>8, <1>9, <1>10, CommitKeeps
LEMMA ReleaseKeeps ==
  ASSUME IInv, NEW m \in moments, NEW k \in HoldKey, Release(m, Normalized(acct, m.at), k)
  PROVE  IInv'
<1> DEFINE a == Normalized(acct, m.at)
           b == [a EXCEPT !.holds = {h \in ActiveHolds(a, m.at) : h.key # k}]
<1>1. /\ receipts[k].status = "active" /\ Commits(b)
      /\ receipts' = [receipts EXCEPT ![k].status = "released"] /\ excused' = excused
  BY DEF Release
<1>2. m.at \in Nat /\ Sound(a) /\ a.holds = acct.holds
  BY Reads
<1> HIDE DEF a
<1>3. /\ Sound(b) /\ b.own = a.own /\ b.grant = a.grant
      /\ b.holds \in SUBSET a.holds /\ \A h \in b.holds : h.key # k
  BY <1>2, ActiveHoldsAre, FS_Subset DEF Sound, Account, ActiveHolds
<1> HIDE DEF b
<1>4. ASSUME excused # Rate
      PROVE  b.grant = NoGrant /\ b.own.plan = Own /\ \A x \in b.holds : HoldFits(x)'
  <2>1. a.grant = NoGrant /\ a.own.plan = Own
    BY <1>4, Reads DEF a
  <2>2. ASSUME NEW x \in b.holds PROVE HoldFits(x)'
    <3>1. HoldFits(x) /\ x.key \in HoldKey /\ x.key # k
      BY <1>2, <1>3, <1>4 DEF IInv, Sound, Account, Reservation
    <3>2. receipts'[x.key] = receipts[x.key]
      BY <1>1, <3>1 DEF IInv, MeterTypes
    <3> QED BY <3>1, <3>2 DEF HoldFits
  <2> QED BY <1>3, <2>1, <2>2
<1>5. ASSUME NEW r \in Rate \ excused PROVE Within(b, m.at, r)
  <2>1. Within(a, m.at, r)
    BY Reads DEF a
  <2>2. \A w \in Window : b.own.rates[r][w] <= a.own.rates[r][w]
    BY <1>2, <1>3, ReservedIs
  <2>3. \A x \in b.holds : x.rate = r => x \in a.holds
    BY <1>3
  <2> QED BY <1>2, <1>3, <2>1, <2>2, <2>3, WithinLess
<1>6. /\ receipts' \in [HoldKey -> [status : {"none", "active", "settled", "released"}, rate : Rate \cup {NoRate}]]
      /\ \A n \in HoldKey : receipts'[n].status = "active" => receipts'[n].rate \in Rate
      /\ excused' \in SUBSET Rate
  BY <1>1 DEF IInv, MeterTypes
<1> QED BY <1>1, <1>3, <1>4, <1>5, <1>6, CommitKeeps

\* What was reserved in full takes the place of its hold.
LEMMA SettleKeeps ==
  ASSUME IInv, NEW m \in moments, NEW k \in HoldKey, NEW size \in Sizes,
         Settle(m, Normalized(acct, m.at), k, size)
  PROVE  IInv'
<1> DEFINE a == Normalized(acct, m.at)
           s == m.settings
           rate == receipts[k].rate
           credits == Credits(rate, size)
           cost == Cost[rate][size]
           rest == [Swept(a, m.at) EXCEPT !.holds = {h \in @ : h.key # k}]
           allowance == Least(credits, Free(rest, m.at).allowance)
           balance == Least(credits - allowance, Free(rest, m.at).balance)
           b == AfterUse(rest, m.at, s, rate, credits, cost, allowance, balance)
<1>1. /\ receipts[k].status = "active" /\ Commits(b)
      /\ receipts' = [receipts EXCEPT ![k].status = "settled"]
      /\ excused' = excused \cup (IF Covers(a, m.at, k, credits) THEN {} ELSE {rate})
  BY DEF Settle, Settled, AfterUse
<1>2. m.at \in Nat /\ Sound(a) /\ a.holds = acct.holds
  BY Reads
<1>3. rate \in Rate
  BY <1>1 DEF IInv, MeterTypes
<1> HIDE DEF a, s, rate
<1>4. credits \in Nat /\ cost \in Nat
  BY <1>3, CreditsAre
<1> HIDE DEF credits, cost
<1>5. /\ Sound(rest) /\ rest.own = a.own /\ rest.grant = a.grant
      /\ rest.holds = {h \in ActiveHolds(a, m.at) : h.key # k}
  <2>1. /\ Sound(Swept(a, m.at)) /\ Swept(a, m.at).holds = ActiveHolds(a, m.at)
        /\ Swept(a, m.at).own = a.own /\ Swept(a, m.at).grant = a.grant
    BY <1>2, SweptIs
  <2> QED BY <2>1, FS_Subset DEF Sound, Account
<1> HIDE DEF rest
<1>6. allowance \in Nat /\ balance \in Int
  <2>1. Free(rest, m.at).allowance \in Nat /\ Free(rest, m.at).balance \in Nat
    BY <1>2, <1>5, FreeIs
  <2> QED BY <1>4, <2>1 DEF Least
<1> HIDE DEF allowance, balance
<1>7. Sound(b) /\ Uses(rest, b, CapOf(rest, m.at, s, rate) # NoCap, rate, credits)
  BY <1>2, <1>3, <1>4, <1>5, <1>6, UsedIs
<1> HIDE DEF b
<1>8. b.holds = {h \in ActiveHolds(a, m.at) : h.key # k} /\ b.holds \in SUBSET acct.holds
  BY <1>2, <1>5, <1>7 DEF Uses, ActiveHolds
<1>9. ASSUME excused # Rate
      PROVE  /\ a.grant = NoGrant /\ b.grant = NoGrant /\ b.own.plan = Own
             /\ \A x \in b.holds : HoldFits(x)'
             /\ \A r \in Rate, w \in Window :
                  b.own.rates[r][w] <= a.own.rates[r][w] + IF r = rate THEN credits ELSE 0
  <2>1. a.grant = NoGrant /\ a.own.plan = Own
    BY <1>9, Reads DEF a
  <2>2. ASSUME NEW x \in b.holds PROVE HoldFits(x)'
    <3>1. HoldFits(x) /\ x.key \in HoldKey /\ x.key # k
      BY <1>8, <1>9 DEF IInv, MeterTypes, Sound, Account, Reservation
    <3>2. receipts'[x.key] = receipts[x.key]
      BY <1>1, <3>1 DEF IInv, MeterTypes
    <3> QED BY <3>1, <3>2 DEF HoldFits
  <2>3. ASSUME NEW r \in Rate, NEW w \in Window
        PROVE  b.own.rates[r][w] <= a.own.rates[r][w] + IF r = rate THEN credits ELSE 0
    <3>1. a.own.rates[r][w] \in Nat
      BY <1>2, ReservedIs
    <3>2. b.own.rates[r][w] = a.own.rates[r][w]
                              + IF r = rate /\ CapOf(rest, m.at, s, rate) # NoCap THEN credits ELSE 0
      BY <1>5, <1>7, <2>1 DEF Uses
    <3> QED BY <1>4, <3>1, <3>2
  <2>4. b.grant = NoGrant /\ b.own.plan = Own
    BY <1>5, <1>7, <2>1 DEF Uses
  <2> QED BY <2>1, <2>2, <2>3, <2>4
<1>10. ASSUME NEW r \in Rate \ excused' PROVE Within(b, m.at, r)
  <2>1. r \in Rate \ excused /\ Within(a, m.at, r)
    BY <1>1, Reads DEF a
  <2>2. ASSUME NEW w \in Window
        PROVE  /\ b.own.rates[r][w] <= a.own.rates[r][w] + IF r = rate THEN credits ELSE 0
               /\ b.own.rates[r][w] \in Nat /\ a.own.rates[r][w] \in Nat
    BY <1>2, <1>7, <1>9, <2>1, ReservedIs
  <2>3. CASE r # rate
    <3>1. \A w \in Window : b.own.rates[r][w] <= a.own.rates[r][w]
      BY <2>2, <2>3
    <3>2. \A x \in b.holds : x.rate = r => x \in a.holds
      BY <1>2, <1>8
    <3> QED BY <1>2, <1>7, <2>1, <3>1, <3>2, WithinLess
  <2>4. CASE r = rate
    <3> SUFFICES ASSUME CapFor(r) # NoCap, NEW w \in Window
                 PROVE  b.own.rates[r][w] + Reserved(b, m.at, r) <= CapFor(r)[w]
      BY DEF Within
    <3> DEFINE before == {x \in ActiveHolds(a, m.at) : x.rate = r}
               after == {x \in ActiveHolds(b, m.at) : x.rate = r}
    <3>1. PICK h \in ActiveHolds(a, m.at) : h.key = k /\ credits <= h.credits
      BY <1>1, <2>4 DEF Covers
    <3>2. h \in acct.holds /\ HoldFits(h)
      BY <1>2, <2>1 DEF IInv, ActiveHolds
    <3>3. h.rate = r
      BY <2>4, <3>1, <3>2 DEF HoldFits, rate
    <3>4. before \in SUBSET Reservation /\ IsFiniteSet(before)
      <4>1. before \in SUBSET ActiveHolds(a, m.at)
        OBVIOUS
      <4> QED BY <1>2, <4>1, ActiveHoldsAre, Fewer
    <3>5. after \in SUBSET before /\ h \in before \ after
      BY <1>8, <3>1, <3>3 DEF ActiveHolds
    <3>6. /\ CreditsOf(after) \in Nat /\ CreditsOf(before) \in Nat /\ h.credits \in Nat
          /\ CreditsOf(after) + h.credits <= CreditsOf(before)
      <4>1. h \in Reservation
        BY <3>4, <3>5
      <4> HIDE DEF before, after
      <4> QED BY <3>4, <3>5, <4>1, Fewer DEF Reservation
    <3>7. a.own.rates[r][w] + CreditsOf(before) <= CapFor(r)[w] /\ CapFor(r)[w] \in Nat
      BY <2>1, CapIs DEF Within, Reserved
    <3>8. Reserved(b, m.at, r) = CreditsOf(after)
      BY DEF Reserved
    <3> HIDE DEF before, after
    <3> QED BY <1>4, <2>2, <2>4, <3>1, <3>6, <3>7, <3>8
  <2> QED BY <2>3, <2>4
<1>11. /\ receipts' \in [HoldKey -> [status : {"none", "active", "settled", "released"}, rate : Rate \cup {NoRate}]]
       /\ \A n \in HoldKey : receipts'[n].status = "active" => receipts'[n].rate \in Rate
       /\ excused' \in SUBSET Rate /\ excused \subseteq excused'
  BY <1>1, <1>3 DEF IInv, MeterTypes
<1>12. excused' # Rate => excused # Rate
  BY <1>11 DEF IInv, MeterTypes
<1> QED BY <1>1, <1>7, <1>9, <1>10, <1>11, <1>12, CommitKeeps

\* A plan that is assigned leaves no cap that was kept so far.
LEMMA GrantKeeps ==
  ASSUME IInv, NEW m \in moments, NEW plan \in Plan, Grant(m, Normalized(acct, m.at), plan)
  PROVE  IInv'
<1> DEFINE a == Normalized(acct, m.at)
           b == [a EXCEPT !.grant = Rolled(Begun(plan, m.at), m.at)]
<1>1. Commits(b) /\ receipts' = receipts /\ excused' = Rate
  BY DEF Grant
<1>2. m.at \in Nat /\ Sound(a)
  BY Reads
<1> HIDE DEF a
<1>3. Rolled(Begun(plan, m.at), m.at) \in Usage
  BY <1>2, BegunIs, RolledIs
<1>4. Sound(b)
  BY <1>2, <1>3 DEF Sound, Account
<1> HIDE DEF b
<1>5. /\ receipts' \in [HoldKey -> [status : {"none", "active", "settled", "released"}, rate : Rate \cup {NoRate}]]
      /\ \A n \in HoldKey : receipts'[n].status = "active" => receipts'[n].rate \in Rate
      /\ excused' \in SUBSET Rate /\ excused \subseteq excused'
  BY <1>1 DEF IInv, MeterTypes
<1> QED BY <1>1, <1>4, <1>5, CommitKeeps

LEMMA ConfigureKeeps == ASSUME IInv, Configure PROVE IInv'
<1>1. /\ version' \in 1..Len(Settings) /\ excused' = Rate
      /\ moments' = moments \cup {[at |-> now, settings |-> Settings[version']]}
      /\ now' = now /\ acct' = acct /\ receipts' = receipts
  BY TariffsAre DEF Configure, settings, IInv, MeterTypes
<1>2. Settings[version'] \in Tariff
  BY <1>1, TariffsAre
<1>3. Sound(acct)'
  BY <1>1 DEF IInv, MeterTypes, Sound, Account, Reservation, Usage
<1>4. moments' \in SUBSET [at : Nat, settings : Tariff] /\ \A n \in moments' : n.at <= now
  BY <1>1, <1>2 DEF IInv, MeterTypes
<1>5. MeterTypes'
  BY <1>1, <1>3, <1>4 DEF IInv, MeterTypes
<1> QED BY <1>1, <1>5 DEF IInv

LEMMA TickKeeps == ASSUME IInv, Tick PROVE IInv'
<1>1. /\ now' = now + 1 /\ now \in Nat
      /\ moments' = moments \cup {[at |-> now + 1, settings |-> Settings[version]]}
      /\ version' = version /\ acct' = acct /\ receipts' = receipts /\ excused' = excused
  BY DEF Tick, settings, IInv, MeterTypes
<1>2. Settings[version] \in Tariff
  BY TariffsAre DEF IInv, MeterTypes
<1>3. Sound(acct)'
  BY <1>1 DEF IInv, MeterTypes, Sound, Account, Reservation, Usage
<1>4. moments' \in SUBSET [at : Nat, settings : Tariff] /\ \A n \in moments' : n.at <= now'
  BY <1>1, <1>2 DEF IInv, MeterTypes
<1>5. MeterTypes'
  BY <1>1, <1>3, <1>4 DEF IInv, MeterTypes
<1>6. ASSUME excused # Rate PROVE Steady' /\ \A x \in acct'.holds : HoldFits(x)'
  BY <1>1, <1>6 DEF IInv, Steady, HoldFits
<1>7. ASSUME NEW r \in Rate \ excused, NEW n \in moments' PROVE Within(acct, n.at, r)'
  <2>1. Within(acct, n.at, r)
    <3>1. CASE n \in moments
      BY <3>1 DEF IInv
    <3>2. CASE n.at = now + 1
      <4>1. PICK o \in moments : o.at \in Nat /\ o.at <= now
        BY DEF IInv, MeterTypes
      <4> QED BY <1>1, <3>2, <4>1, WithinStays DEF IInv, MeterTypes
    <3> QED BY <1>1, <3>1, <3>2
  <2> QED BY <1>1, <2>1 DEF Within, Reserved, ActiveHolds, CapFor
<1> QED BY <1>1, <1>5, <1>6, <1>7 DEF IInv
LEMMA Inductive == IInv /\ [Next]_vars => IInv'
<1> SUFFICES ASSUME IInv, [Next]_vars PROVE IInv'
  OBVIOUS
<1>1. ASSUME NEW m \in moments, NEW rate \in Rate, NEW size \in Sizes,
             Consume(m, Normalized(acct, m.at), rate, size)
      PROVE  IInv'
  BY <1>1, ConsumeKeeps
<1>2. ASSUME NEW m \in moments, NEW k \in HoldKey, NEW rate \in Rate, NEW size \in Sizes,
             Reserve(m, Normalized(acct, m.at), k, rate, size)
      PROVE  IInv'
  BY <1>2, ReserveKeeps
<1>3. ASSUME NEW m \in moments, NEW k \in HoldKey, NEW size \in Sizes,
             Settle(m, Normalized(acct, m.at), k, size)
      PROVE  IInv'
  BY <1>3, SettleKeeps
<1>4. ASSUME NEW m \in moments, NEW k \in HoldKey, Release(m, Normalized(acct, m.at), k)
      PROVE  IInv'
  BY <1>4, ReleaseKeeps
<1>5. ASSUME NEW m \in moments, NEW plan \in Plan, Grant(m, Normalized(acct, m.at), plan)
      PROVE  IInv'
  BY <1>5, GrantKeeps
<1>6. CASE Configure
  BY <1>6, ConfigureKeeps
<1>7. CASE Tick
  BY <1>7, TickKeeps
<1>8. CASE UNCHANGED vars
  BY <1>8 DEF vars, IInv, MeterTypes, Steady, Within, Reserved, ActiveHolds, HoldFits, CapFor,
              Sound, Account, Reservation, Usage
<1> QED BY <1>1, <1>2, <1>3, <1>4, <1>5, <1>6, <1>7, <1>8 DEF Next

-----------------------------------------------------------------------------
\* The caps of now are among those that a call may have read.
LEMMA CapsAreHeld ==
  ASSUME IInv
  PROVE  CapsHold
<1> DEFINE m == [at |-> now, settings |-> settings]
           a == Normalized(acct, now)
<1>1. SUFFICES ASSUME NEW rate \in Rate \ excused, NEW w \in Window, CapOf(a, now, settings, rate) # NoCap
               PROVE  Effective(a, now).rates[rate][w] + Reserved(a, now, rate) <= CapOf(a, now, settings, rate)[w]
  BY DEF CapsHold
<1>2. /\ m \in moments /\ m.at = now /\ m.settings = settings
  BY DEF IInv, MeterTypes, settings
<1> HIDE DEF m
<1>3. /\ Effective(a, now) = a.own /\ Within(a, now, rate)
      /\ CapOf(a, now, settings, rate) = IF Blocked(a, now) THEN NoCap ELSE CapFor(rate)
  BY <1>2, Reads
<1> HIDE DEF a
<1> QED BY <1>1, <1>3 DEF Within

\* What preflight() says fits is granted at that moment, and what it offers instead fits; and no rate
\* passes its cap while the caps and the plan in force stay and nobody uses more than he reserved.
THEOREM MetersStayTrue == Spec => []MetersAreTrue
<1>1. IInv => MetersAreTrue
  BY PreflightIsTrue, CapsAreHeld DEF MetersAreTrue, IInv
<1> QED BY Initially, Inductive, <1>1, PTL DEF Spec
=============================================================================
