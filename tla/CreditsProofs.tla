---------------------------- MODULE CreditsProofs ----------------------------
(* What Credits promises, for any requests, plans, limits, windows and     *)
(* lengths of holds.                                                       *)
EXTENDS Credits, FiniteSetTheorems, TLAPS

Hold == [key : Key, credits : Nat, expiresAt : Nat]
Granted == [plan : Plan \cup {NoPlan}, start : Int, allowance : Nat]
Account == [plan : Plan \cup {NoPlan}, start : Nat, ends : Nat, cancel : BOOLEAN, used : [Window -> Nat],
            from : [Window -> Int], balance : Nat, holds : SUBSET Hold, open : Granted]
Receipt == [status : Statuses, credits : Nat, charged : Nat]

\* An account whose periods end after they start and whose holds can be counted.
Sound(a) == a \in Account /\ a.start <= a.ends /\ IsFiniteSet(a.holds)

-----------------------------------------------------------------------------
(* The credits of some holds.                                              *)

\* Holds whose credits can be counted.
Holds == {hs \in SUBSET Hold : IsFiniteSet(hs)}

LEMMA UnitsAreFinite ==
  ASSUME NEW hs \in Holds
  PROVE  IsFiniteSet(Units(hs)) /\ CreditsOf(hs) \in Nat
<1> DEFINE own(h) == {h} \X (1..h.credits)
           all == {own(h) : h \in hs}
<1>1. IsFiniteSet(hs) /\ hs \subseteq Hold
  BY DEF Holds
<1>2. IsFiniteSet(all)
  <2> DEFINE f == [h \in hs |-> own(h)]
  <2>1. f \in Surjection(hs, all)
    BY DEF Surjection
  <2> QED BY <1>1, <2>1, FS_Surjection
<1>3. ASSUME NEW h \in hs PROVE IsFiniteSet(own(h))
  <2>1. h.credits \in Nat
    BY <1>1 DEF Hold
  <2>2. IsFiniteSet({h}) /\ IsFiniteSet(1..h.credits)
    <3>1. IsFiniteSet({h})
      BY FS_Singleton
    <3>2. IsFiniteSet(1..h.credits)
      BY <2>1, FS_Interval
    <3> QED BY <3>1, <3>2
  <2> QED BY <2>2, FS_Product
<1>4. \A u \in all : IsFiniteSet(u)
  BY <1>3
<1>5. Units(hs) = UNION all
  BY DEF Units
<1>6. IsFiniteSet(UNION all)
  <2> HIDE DEF all
  <2> QED BY <1>2, <1>4, FS_UNION
<1>7. IsFiniteSet(Units(hs))
  BY <1>5, <1>6
<1> QED BY <1>7, FS_CardinalityType DEF CreditsOf

\* Holds that go take their credits along.
LEMMA Removed ==
  ASSUME NEW hs \in Holds, NEW gone \in SUBSET hs
  PROVE  /\ gone \in Holds /\ hs \ gone \in Holds
         /\ CreditsOf(hs \ gone) = CreditsOf(hs) - CreditsOf(gone)
<1>1. gone \in Holds /\ hs \ gone \in Holds
  BY FS_Subset DEF Holds
<1>2. Units(hs \ gone) = Units(hs) \ Units(gone)
  BY DEF Units
<1>3. Units(hs) \cap Units(gone) = Units(gone)
  BY DEF Units
<1>4. IsFiniteSet(Units(hs))
  BY UnitsAreFinite
<1>5. Cardinality(Units(hs) \ Units(gone)) = Cardinality(Units(hs)) - Cardinality(Units(hs) \cap Units(gone))
  BY <1>4, FS_Difference
<1> QED BY <1>1, <1>2, <1>3, <1>5 DEF CreditsOf

\* A hold that is new brings its credits.
LEMMA Added ==
  ASSUME NEW hs \in Holds, NEW h \in Hold, h \notin hs
  PROVE  /\ hs \cup {h} \in Holds
         /\ CreditsOf(hs \cup {h}) = CreditsOf(hs) + h.credits
<1>1. hs \cup {h} \in Holds
  BY FS_AddElement DEF Holds
<1>2. {h} \in SUBSET (hs \cup {h}) /\ (hs \cup {h}) \ {h} = hs
  OBVIOUS
<1>3. CreditsOf(hs) = CreditsOf(hs \cup {h}) - CreditsOf({h})
  BY <1>1, <1>2, Removed
<1>4. CreditsOf({h}) = h.credits
  <2>1. h.credits \in Nat
    BY DEF Hold
  <2>2. Units({h}) = {h} \X (1..h.credits)
    BY DEF Units
  <2>3. IsFiniteSet({h}) /\ Cardinality({h}) = 1
    BY FS_Singleton
  <2>4. IsFiniteSet(1..h.credits) /\ Cardinality(1..h.credits) = h.credits
    BY <2>1, FS_Interval
  <2>5. Cardinality({h} \X (1..h.credits)) = Cardinality({h}) * Cardinality(1..h.credits)
    BY <2>3, <2>4, FS_Product
  <2>6. Cardinality(Units({h})) = Cardinality({h}) * Cardinality(1..h.credits)
    BY <2>2, <2>5
  <2>7. Cardinality(Units({h})) = 1 * h.credits
    BY <2>3, <2>4, <2>6
  <2> QED BY <2>1, <2>7 DEF CreditsOf
<1>5. CreditsOf(hs) \in Nat /\ CreditsOf(hs \cup {h}) \in Nat /\ h.credits \in Nat
  BY <1>1, UnitsAreFinite DEF Hold
<1> QED BY <1>1, <1>3, <1>4, <1>5

\* Fewer holds hold no more.
LEMMA Fewer ==
  ASSUME NEW hs \in Holds, NEW some \in SUBSET hs
  PROVE  some \in Holds /\ CreditsOf(some) <= CreditsOf(hs)
<1>1. some \in Holds /\ hs \ some \in Holds /\ CreditsOf(hs \ some) = CreditsOf(hs) - CreditsOf(some)
  BY Removed
<1>2. CreditsOf(hs) \in Nat /\ CreditsOf(some) \in Nat /\ CreditsOf(hs \ some) \in Nat
  BY <1>1, UnitsAreFinite
<1> QED BY <1>1, <1>2

-----------------------------------------------------------------------------
(* Accounts: their windows and what is left of them.                       *)

\* An account keeps its plan, its balance and its holds.
Keeps(a, b) ==
  b.plan = a.plan /\ b.cancel = a.cancel /\ b.balance = a.balance /\ b.holds = a.holds /\ b.open = a.open

LEMMA PeriodIsSound ==
  ASSUME NEW a \in Account, IsFiniteSet(a.holds), NEW s \in Nat
  PROVE  Sound(Period(a, s)) /\ Keeps(a, Period(a, s)) /\ Period(a, s).start = s /\ Period(a, s).ends = s + Length["period"]
<1>1. Length["period"] \in Nat /\ \A w \in Window : Length[w] \in Nat
  BY WindowAssumption
<1>2. Zero \in [Window -> Nat]
  BY DEF Zero
<1>3. Anchored(s) \in [Window -> Int]
  BY <1>1 DEF Anchored
<1>4. s + Length["period"] \in Nat /\ s <= s + Length["period"]
  BY <1>1
<1>5. Period(a, s) = [a EXCEPT !.start = s, !.ends = s + Length["period"], !.used = Zero, !.from = Anchored(s)]
  BY DEF Period
<1> HIDE DEF Zero, Anchored
<1> QED BY <1>2, <1>3, <1>4, <1>5 DEF Sound, Keeps, Account

LEMMA RolledIsSound ==
  ASSUME NEW a, Sound(a), NEW t \in Nat
  PROVE  Sound(Rolled(a, t)) /\ Keeps(a, Rolled(a, t)) /\ Rolled(a, t).start = a.start /\ Rolled(a, t).ends = a.ends
<1> DEFINE used == [w \in Window |-> IF Over(a, w, t) THEN 0 ELSE a.used[w]]
           from == [w \in Window |->
             IF ~Over(a, w, t) THEN a.from[w]
             ELSE IF w = "short" THEN t ELSE a.from[w] + ((t - a.from[w]) \div Length[w]) * Length[w]]
<1>1. used \in [Window -> Nat]
  BY DEF Sound, Account
<1>2. ASSUME NEW w \in Window PROVE from[w] \in Int
  <2>1. Length[w] \in Nat \ {0} /\ a.from[w] \in Int
    BY WindowAssumption DEF Sound, Account
  <2>2. (t - a.from[w]) \div Length[w] \in Int
    BY <2>1
  <2>3. a.from[w] + ((t - a.from[w]) \div Length[w]) * Length[w] \in Int
    BY <2>1, <2>2
  <2> QED BY <2>1, <2>3
<1>3. from \in [Window -> Int]
  BY <1>2
<1>4. Rolled(a, t) = [a EXCEPT !.used = used, !.from = from]
  BY DEF Rolled, Sound, Account
<1> HIDE DEF used, from
<1> QED BY <1>1, <1>3, <1>4 DEF Sound, Keeps, Account

LEMMA RenewedIsSound ==
  ASSUME NEW a, Sound(a), NEW t \in Nat
  PROVE  Sound(Renewed(a, t)) /\ Keeps(a, Renewed(a, t))
<1>1. CASE a.cancel \/ t < a.ends
  BY <1>1 DEF Renewed, Keeps
<1>2. CASE ~(a.cancel \/ t < a.ends)
  <2> DEFINE n == (t - a.start) \div Length["period"]
             s == a.start + n * Length["period"]
  <2>1. a.start \in Nat /\ a.ends \in Nat /\ a.start <= t /\ Length["period"] \in Nat \ {0}
    BY <1>2, WindowAssumption DEF Sound, Account
  <2>2. n \in Nat
    BY <2>1
  <2>3. n * Length["period"] \in Nat
    <3> HIDE DEF n
    <3> QED BY <2>1, <2>2
  <2>4. s \in Nat
    <3> HIDE DEF n
    <3> QED BY <2>1, <2>3
  <2>5. Renewed(a, t) = Period(a, s)
    BY <1>2 DEF Renewed
  <2> HIDE DEF s
  <2> QED BY <2>4, <2>5, PeriodIsSound DEF Sound
<1> QED BY <1>1, <1>2

LEMMA NormalizedIsSound ==
  ASSUME NEW a, Sound(a), NEW t \in Nat
  PROVE  Sound(Normalized(a, t)) /\ Keeps(a, Normalized(a, t))
<1>1. Sound(Renewed(a, t)) /\ Keeps(a, Renewed(a, t))
  BY RenewedIsSound
<1>2. Sound(Rolled(Renewed(a, t), t)) /\ Keeps(Renewed(a, t), Rolled(Renewed(a, t), t))
  BY <1>1, RolledIsSound
<1> QED BY <1>1, <1>2 DEF Normalized, Keeps

\* What is left of the window that has least left.
LEMMA LeastLeft ==
  ASSUME NEW f \in [Window -> Int]
  PROVE  LET left == {f[w] : w \in Window}
         IN  Min(left) \in left /\ \A x \in left : Min(left) <= x
<1> DEFINE left == {f[w] : w \in Window}
           Below(x) == x \in left /\ \A y \in left : x <= y
<1>1. f["day"] \in left /\ f["week"] \in left /\ f["period"] \in left
  BY WindowAssumption
<1>2. \A x \in left : x \in Int
  OBVIOUS
<1>3. \E x \in left : Below(x)
  <2>1. CASE "short" \in Window
    <3>1. Window = {"short", "day", "week", "period"}
      BY <2>1, WindowAssumption
    <3>2. f["short"] \in left /\ left = {f["short"], f["day"], f["week"], f["period"]}
      BY <3>1
    <3> HIDE DEF left
    <3> QED BY <1>1, <1>2, <3>2
  <2>2. CASE "short" \notin Window
    <3>1. Window = {"day", "week", "period"}
      BY <2>2, WindowAssumption
    <3>2. left = {f["day"], f["week"], f["period"]}
      BY <3>1
    <3> HIDE DEF left
    <3> QED BY <1>1, <1>2, <3>2
  <2> QED BY <2>1, <2>2
<1>4. Below(Min(left))
  <2>1. Min(left) = CHOOSE x \in left : \A y \in left : x =< y
    BY DEF Min
  <2> HIDE DEF left
  <2> QED BY <1>3, <2>1
<1> QED BY <1>4

\* What is left in the windows of an account, whether its plan is active or not.
Left(a) == [w \in Window |-> Limit[a.plan][w] - a.used[w]]

LEMMA LeftInWindows ==
  ASSUME NEW a, Sound(a), a.plan # NoPlan
  PROVE  /\ Left(a) \in [Window -> Int]
         /\ {Limit[a.plan][w] - a.used[w] : w \in Window} = {Left(a)[w] : w \in Window}
<1>1. a.plan \in Plan /\ a.used \in [Window -> Nat]
  BY DEF Sound, Account
<1>2. Limit[a.plan] \in [Window -> Nat]
  BY <1>1, WindowAssumption
<1>3. \A w \in Window : Limit[a.plan][w] - a.used[w] \in Int
  BY <1>1, <1>2
<1> QED BY <1>3 DEF Left

LEMMA AllowanceIsNatural ==
  ASSUME NEW a, Sound(a), NEW t \in Nat
  PROVE  AllowanceLeft(a, t) \in Nat
<1>1. CASE Active(a, t)
  <2> DEFINE least == Min({Left(a)[w] : w \in Window})
  <2>1. Left(a) \in [Window -> Int] /\ AllowanceLeft(a, t) = Positive(least)
    BY <1>1, LeftInWindows DEF Active, AllowanceLeft
  <2>2. least \in {Left(a)[w] : w \in Window}
    BY <2>1, LeastLeft
  <2>3. least \in Int
    BY <2>1, <2>2
  <2> HIDE DEF least
  <2> QED BY <2>1, <2>3 DEF Positive
<1> QED BY <1>1 DEF AllowanceLeft

\* A charge that the allowance covers takes its credits from what is left.
LEMMA ChargeTakes ==
  ASSUME NEW a, Sound(a), NEW b, Sound(b), NEW t \in Nat, NEW n \in Nat, n <= AllowanceLeft(a, t),
         b.plan = a.plan, b.ends = a.ends, b.used = [w \in Window |-> a.used[w] + n]
  PROVE  AllowanceLeft(b, t) = AllowanceLeft(a, t) - n
<1>1. AllowanceLeft(a, t) \in Nat /\ (Active(b, t) <=> Active(a, t))
  BY AllowanceIsNatural DEF Active
<1>2. CASE ~Active(a, t)
  BY <1>1, <1>2 DEF AllowanceLeft
<1>3. CASE Active(a, t)
  <2> DEFINE left == {Left(a)[w] : w \in Window}
             after == {Left(b)[w] : w \in Window}
  <2>1. /\ Left(a) \in [Window -> Int] /\ Left(b) \in [Window -> Int]
        /\ AllowanceLeft(a, t) = Positive(Min(left)) /\ AllowanceLeft(b, t) = Positive(Min(after))
    <3>1. Active(b, t) /\ a.plan # NoPlan /\ b.plan # NoPlan
      BY <1>1, <1>3 DEF Active
    <3>2. Left(a) \in [Window -> Int] /\ AllowanceLeft(a, t) = Positive(Min(left))
      <4>1. AllowanceLeft(a, t) = Positive(Min({Limit[a.plan][w] - a.used[w] : w \in Window}))
        BY <1>3 DEF AllowanceLeft
      <4>2. Left(a) \in [Window -> Int] /\ {Limit[a.plan][w] - a.used[w] : w \in Window} = left
        BY <3>1, LeftInWindows
      <4> HIDE DEF left
      <4> QED BY <4>1, <4>2
    <3>3. Left(b) \in [Window -> Int] /\ AllowanceLeft(b, t) = Positive(Min(after))
      <4>1. AllowanceLeft(b, t) = Positive(Min({Limit[b.plan][w] - b.used[w] : w \in Window}))
        BY <3>1 DEF AllowanceLeft
      <4>2. Left(b) \in [Window -> Int] /\ {Limit[b.plan][w] - b.used[w] : w \in Window} = after
        BY <3>1, LeftInWindows
      <4> HIDE DEF after
      <4> QED BY <4>1, <4>2
    <3> QED BY <3>2, <3>3
  <2>2. ASSUME NEW w \in Window PROVE Left(b)[w] = Left(a)[w] - n
    <3>1. a.plan \in Plan /\ a.used[w] \in Nat
      BY <1>3 DEF Active, Sound, Account
    <3>2. Limit[a.plan][w] \in Nat
      BY <3>1, WindowAssumption
    <3>3. b.used[w] = a.used[w] + n
      OBVIOUS
    <3>4. Left(a)[w] = Limit[a.plan][w] - a.used[w] /\ Left(b)[w] = Limit[a.plan][w] - b.used[w]
      BY DEF Left
    <3> QED BY <3>1, <3>2, <3>3, <3>4
  <2>3. Min(left) \in left /\ \A x \in left : Min(left) <= x
    BY <2>1, LeastLeft
  <2>4. Min(after) \in after /\ \A x \in after : Min(after) <= x
    BY <2>1, LeastLeft
  <2>5. PICK v \in Window : Min(left) = Left(a)[v]
    BY <2>3
  <2>6. PICK u \in Window : Min(after) = Left(b)[u]
    BY <2>4
  <2>7. Min(left) <= Left(a)[u] /\ Min(after) <= Left(b)[v]
    BY <2>3, <2>4
  <2>8. Left(a)[u] \in Int /\ Left(a)[v] \in Int /\ Left(b)[u] = Left(a)[u] - n /\ Left(b)[v] = Left(a)[v] - n
    BY <2>1, <2>2
  <2> HIDE DEF left, after
  <2>9. Min(after) = Min(left) - n /\ Min(left) \in Int
    BY <2>5, <2>6, <2>7, <2>8
  <2> QED BY <2>1, <2>9 DEF Positive
<1> QED BY <1>2, <1>3

LEMMA HeldIsNatural ==
  ASSUME NEW a, Sound(a), NEW t
  PROVE  /\ a.holds \in Holds /\ Expired(a, t) \in SUBSET a.holds
         /\ a.holds \ Expired(a, t) \in Holds /\ Held(a, t) \in Nat
<1>1. a.holds \in Holds /\ Expired(a, t) \in SUBSET a.holds
  BY DEF Sound, Account, Holds, Expired
<1>2. a.holds \ Expired(a, t) \in Holds
  BY <1>1, Removed
<1> QED BY <1>1, <1>2, UnitsAreFinite DEF Held

\* What a charge can use is what is left beyond the holds, and no more than there is.
LEMMA FreeIsCovered ==
  ASSUME NEW a, Sound(a), NEW t \in Nat
  PROVE  /\ Free(a, t).allowance \in Nat /\ Free(a, t).allowance <= AllowanceLeft(a, t)
         /\ Free(a, t).balance \in Nat /\ Free(a, t).balance <= a.balance
         /\ Free(a, t).allowance + Free(a, t).balance = Positive(AllowanceLeft(a, t) + a.balance - Held(a, t))
<1> DEFINE allowance == AllowanceLeft(a, t)
           spendable == Positive(allowance + a.balance - Held(a, t))
<1>1. allowance \in Nat /\ a.balance \in Nat /\ Held(a, t) \in Nat
  BY AllowanceIsNatural, HeldIsNatural DEF Sound, Account
<1>2. /\ Free(a, t).allowance = Least(allowance, spendable)
      /\ Free(a, t).balance = spendable - Least(allowance, spendable)
  BY DEF Free
<1> HIDE DEF allowance
<1>3. spendable \in Nat /\ spendable <= allowance + a.balance
  BY <1>1 DEF Positive
<1> HIDE DEF spendable
<1>4. /\ Free(a, t).allowance \in Nat /\ Free(a, t).allowance <= allowance
      /\ Free(a, t).balance \in Nat /\ Free(a, t).balance <= a.balance
      /\ Free(a, t).allowance + Free(a, t).balance = spendable
  BY <1>1, <1>2, <1>3 DEF Least
<1> QED BY <1>4 DEF allowance, spendable

-----------------------------------------------------------------------------
(* Drafts.                                                                 *)

WellFormed(d) ==
  /\ d = [acct |-> d.acct, receipts |-> d.receipts, credits |-> d.credits, held |-> d.held, debits |-> d.debits]
  /\ Sound(d.acct) /\ d.receipts \in [Key -> Receipt] /\ d.held \in Int /\ d.debits \in Nat

\* The rows as they are stored.
Stored == Sound(acct) /\ receipts \in [Key -> Receipt]

LEMMA SettledIsWellFormed ==
  ASSUME Stored, NEW a, Sound(a), NEW t \in Nat
  PROVE  /\ WellFormed(Settled(a, t))
         /\ Settled(a, t).receipts = receipts /\ Settled(a, t).held = 0 /\ Settled(a, t).debits = 0
         /\ Settled(a, t).acct = [a EXCEPT !.open = Current(a, t)]
<1>1. Current(a, t) \in Granted
  <2>1. CASE Active(a, t)
    <3>1. a.plan \in Plan /\ a.from["week"] \in Int /\ Limit[a.plan]["week"] \in Nat
      BY <2>1, WindowAssumption DEF Active, Sound, Account
    <3> QED BY <2>1, <3>1 DEF Current, Granted
  <2>2. CASE ~Active(a, t)
    BY <2>2 DEF Current, NoWindow, Granted
  <2> QED BY <2>1, <2>2
<1>2. Sound([a EXCEPT !.open = Current(a, t)])
  <2> HIDE DEF Current
  <2> QED BY <1>1 DEF Sound, Account
<1> QED BY <1>2 DEF Settled, WellFormed, Stored

LEMMA FreshIsWellFormed ==
  ASSUME Stored, NEW t \in Nat
  PROVE  /\ WellFormed(Fresh(t))
         /\ Fresh(t).receipts = receipts /\ Fresh(t).held = 0 /\ Fresh(t).debits = 0
         /\ Fresh(t).acct.holds = acct.holds /\ Fresh(t).acct.balance = acct.balance
<1> DEFINE a == Normalized(acct, t)
<1>1. Sound(a) /\ Keeps(acct, a)
  BY NormalizedIsSound DEF Stored
<1>2. Fresh(t) = Settled(a, t)
  BY DEF Fresh
<1> HIDE DEF a
<1>3. Fresh(t).acct = [a EXCEPT !.open = Current(a, t)]
  BY <1>1, <1>2, SettledIsWellFormed
<1>4. Fresh(t).acct.holds = a.holds /\ Fresh(t).acct.balance = a.balance
  BY <1>1, <1>3 DEF Sound, Account
<1>5. /\ WellFormed(Settled(a, t))
      /\ Settled(a, t).receipts = receipts /\ Settled(a, t).held = 0 /\ Settled(a, t).debits = 0
  BY <1>1, SettledIsWellFormed
<1> QED BY <1>1, <1>2, <1>4, <1>5 DEF Keeps

LEMMA ReceivedIsWellFormed ==
  ASSUME NEW d, WellFormed(d), NEW k \in Key, NEW status \in Statuses, NEW credits \in Nat
  PROVE  LET r == Receive(d, k, status, credits)
         IN  /\ WellFormed(r) /\ r.acct = d.acct /\ r.held = d.held /\ r.debits = d.debits
             /\ r.receipts = [d.receipts EXCEPT ![k] = [status |-> status, credits |-> credits, charged |-> d.debits]]
<1> DEFINE told == [status |-> status, credits |-> credits, charged |-> d.debits]
           r == Receive(d, k, status, credits)
<1>1. told \in Receipt
  BY DEF Receipt, WellFormed
<1>2. r = [d EXCEPT !.receipts[k] = told]
  BY DEF Receive
<1> HIDE DEF told, r
<1>3. r = [d EXCEPT !.receipts = [d.receipts EXCEPT ![k] = told]]
  BY <1>2
<1>4. [d.receipts EXCEPT ![k] = told] \in [Key -> Receipt]
  BY <1>1 DEF WellFormed
<1>5. r = [acct |-> d.acct, receipts |-> [d.receipts EXCEPT ![k] = told], credits |-> d.credits,
           held |-> d.held, debits |-> d.debits]
  BY <1>3 DEF WellFormed
<1>6. WellFormed(r) /\ r.acct = d.acct /\ r.held = d.held /\ r.debits = d.debits
      /\ r.receipts = [d.receipts EXCEPT ![k] = told]
  BY <1>4, <1>5 DEF WellFormed
<1> QED BY <1>6 DEF told, r

\* Another account, and other credits, in a draft.
Redrawn(d, a, credits) == [d EXCEPT !.acct = a, !.credits = credits]

LEMMA RedrawnIsWellFormed ==
  ASSUME NEW d, WellFormed(d), NEW a, Sound(a), NEW credits
  PROVE  /\ WellFormed(Redrawn(d, a, credits))
         /\ Redrawn(d, a, credits).acct = a /\ Redrawn(d, a, credits).receipts = d.receipts
         /\ Redrawn(d, a, credits).held = d.held /\ Redrawn(d, a, credits).debits = d.debits
<1> DEFINE r == Redrawn(d, a, credits)
<1>1. r = [acct |-> r.acct, receipts |-> r.receipts, credits |-> r.credits, held |-> r.held, debits |-> r.debits]
  <2>1. d = [acct |-> d.acct, receipts |-> d.receipts, credits |-> d.credits, held |-> d.held, debits |-> d.debits]
    BY DEF WellFormed
  <2>2. r = [d EXCEPT !.acct = a, !.credits = credits]
    BY DEF Redrawn
  <2> HIDE DEF r
  <2> QED BY <2>1, <2>2
<1>2. r.acct = a /\ r.receipts = d.receipts /\ r.held = d.held /\ r.debits = d.debits
  BY DEF Redrawn, WellFormed
<1> HIDE DEF r
<1>3. WellFormed(r)
  BY <1>1, <1>2 DEF WellFormed
<1> QED BY <1>2, <1>3 DEF r

\* An account after a charge.
Less(a, allowance, balance) ==
  [a EXCEPT !.balance = a.balance - balance, !.used = [w \in Window |-> a.used[w] + allowance]]

LEMMA ChargedIsWellFormed ==
  ASSUME NEW d, WellFormed(d), NEW allowance \in Nat, NEW balance \in Nat, balance <= d.acct.balance
  PROVE  LET r == Charge(d, allowance, balance)
         IN  /\ WellFormed(r) /\ r.receipts = d.receipts /\ r.held = d.held
             /\ r.debits = d.debits + allowance + balance
             /\ r.acct = Less(d.acct, allowance, balance)
<1> DEFINE used == [w \in Window |-> d.acct.used[w] + allowance]
           a == [d.acct EXCEPT !.balance = d.acct.balance - balance, !.used = used]
           r == Charge(d, allowance, balance)
<1>1. used \in [Window -> Nat] /\ d.acct.balance - balance \in Nat
  BY DEF WellFormed, Sound, Account
<1>2. r = [acct |-> a, receipts |-> d.receipts, credits |-> d.credits - allowance - balance, held |-> d.held,
           debits |-> d.debits + allowance + balance]
  <2>1. r = [d EXCEPT !.acct = [d.acct EXCEPT !.balance = @ - balance, !.used = used],
                      !.credits = @ - allowance - balance,
                      !.debits = @ + allowance + balance]
    BY DEF Charge, WellFormed, Sound, Account
  <2> HIDE DEF used
  <2> QED BY <2>1 DEF WellFormed, Sound, Account
<1> HIDE DEF used
<1>3. Sound(a)
  BY <1>1 DEF WellFormed, Sound, Account
<1> HIDE DEF a, r
<1>4. WellFormed(r) /\ r.receipts = d.receipts /\ r.held = d.held /\ r.acct = a
      /\ r.debits = d.debits + allowance + balance
  BY <1>2, <1>3 DEF WellFormed
<1> QED BY <1>4 DEF r, a, used, Less

\* The holds hs and the receipts rs tell the same of every key but skip.
Claims(hs, rs, skip) ==
  /\ \A h \in hs : h.key # skip => rs[h.key].status = "active" /\ rs[h.key].credits = h.credits
  /\ \A k \in Key \ {skip} : rs[k].status = "active" => \E h \in hs : h.key = k
  /\ \A g, h \in hs : g.key = h.key => g = h

\* A draft that only lets holds go.
Drops(d, r, gone) ==
  /\ gone \in SUBSET d.acct.holds
  /\ r.acct = [d.acct EXCEPT !.holds = d.acct.holds \ gone]
  /\ r.held = d.held + CreditsOf(r.acct.holds) - CreditsOf(d.acct.holds)
  /\ r.debits = d.debits

\* What is left of a draft when some holds go and the receipts become rs.
Without(d, gone, rs) ==
  [acct |-> [d.acct EXCEPT !.holds = d.acct.holds \ gone], receipts |-> rs, credits |-> d.credits,
   held |-> d.held - CreditsOf(gone), debits |-> d.debits]

LEMMA DropIsWellFormed ==
  ASSUME NEW d, WellFormed(d), NEW gone \in SUBSET d.acct.holds, NEW rs \in [Key -> Receipt]
  PROVE  WellFormed(Without(d, gone, rs)) /\ Drops(d, Without(d, gone, rs), gone)
<1> DEFINE a == [d.acct EXCEPT !.holds = d.acct.holds \ gone]
           r == Without(d, gone, rs)
<1>1. d.acct.holds \in Holds
  BY DEF WellFormed, Sound, Account, Holds
<1>2. /\ d.acct.holds \ gone \in Holds /\ gone \in Holds
      /\ CreditsOf(d.acct.holds \ gone) = CreditsOf(d.acct.holds) - CreditsOf(gone)
  BY <1>1, Removed
<1>3. CreditsOf(d.acct.holds \ gone) \in Nat /\ CreditsOf(d.acct.holds) \in Nat /\ CreditsOf(gone) \in Nat
  BY <1>1, <1>2, UnitsAreFinite
<1>4. Sound(a) /\ a.holds = d.acct.holds \ gone
  BY <1>2 DEF WellFormed, Sound, Account, Holds
<1>5. r = [acct |-> a, receipts |-> rs, credits |-> d.credits, held |-> d.held - CreditsOf(gone), debits |-> d.debits]
  BY DEF Without
<1>6. d.held \in Int /\ d.debits \in Nat
  BY DEF WellFormed
<1> HIDE DEF a, r
<1>7. d.held - CreditsOf(gone) \in Int
      /\ d.held - CreditsOf(gone) = d.held + CreditsOf(d.acct.holds \ gone) - CreditsOf(d.acct.holds)
  BY <1>2, <1>3, <1>6
<1>8. r.receipts = rs /\ r.acct = a /\ r.debits = d.debits /\ r.held = d.held - CreditsOf(gone)
      /\ r = [acct |-> r.acct, receipts |-> r.receipts, credits |-> r.credits, held |-> r.held, debits |-> r.debits]
  BY <1>5
<1>9. r.held = d.held + CreditsOf(r.acct.holds) - CreditsOf(d.acct.holds)
  BY <1>4, <1>7, <1>8
<1>10. WellFormed(r)
  BY <1>4, <1>6, <1>7, <1>8 DEF WellFormed
<1> QED BY <1>8, <1>9, <1>10 DEF Drops, a, r

\* Sweeping ends the receipts of the holds it lets go, but for the one of skip.
LEMMA Sweeping ==
  ASSUME Stored, Claims(acct.holds, receipts, NoKey), NEW t \in Nat, NEW skip
  PROVE  LET d == Swept(Fresh(t), t, skip)
         IN  /\ WellFormed(d) /\ Drops(Fresh(t), d, Expired(acct, t)) /\ Claims(d.acct.holds, d.receipts, skip)
             /\ \A k \in Key :
                  \/ d.receipts[k] = receipts[k]
                  \/ /\ k # skip /\ receipts[k].status = "active"
                     /\ d.receipts[k] = [receipts[k] EXCEPT !.status = "expired"]
<1> DEFINE f == Fresh(t)
           gone == Expired(acct, t)
           keys == {h.key : h \in gone} \ {skip}
           rs == [k \in Key |-> IF k \in keys /\ receipts[k].status = "active"
                                  THEN [receipts[k] EXCEPT !.status = "expired"] ELSE receipts[k]]
           d == Swept(f, t, skip)
<1>1. WellFormed(f) /\ f.receipts = receipts /\ f.acct.holds = acct.holds
  BY FreshIsWellFormed
<1>2. gone = Expired(f.acct, t) /\ gone \in SUBSET f.acct.holds
  BY <1>1 DEF Expired
<1>3. rs \in [Key -> Receipt]
  BY DEF Stored, Receipt, Statuses
<1> HIDE DEF f
<1>4. d = Without(f, gone, rs)
  <2>1. rs = [k \in Key |-> IF k \in keys /\ f.receipts[k].status = "active"
                              THEN [f.receipts[k] EXCEPT !.status = "expired"] ELSE f.receipts[k]]
    BY <1>1
  <2>2. d = [f EXCEPT !.acct = [f.acct EXCEPT !.holds = @ \ gone], !.held = @ - CreditsOf(gone), !.receipts = rs]
    BY <1>1, <1>2, <2>1 DEF Swept, WellFormed, Sound, Account
  <2> HIDE DEF rs, gone, d
  <2> QED BY <1>1, <2>2 DEF Without, WellFormed, Sound, Account
<1> HIDE DEF gone, d
<1>5. WellFormed(d) /\ Drops(f, d, gone) /\ d.receipts = rs
  <2>1. WellFormed(d) /\ Drops(f, d, gone)
    BY <1>1, <1>2, <1>3, <1>4, DropIsWellFormed
  <2> QED BY <1>4, <2>1 DEF Without
<1>6. d.acct.holds = acct.holds \ gone
  BY <1>1, <1>5 DEF Drops, WellFormed, Sound, Account
<1>7. Claims(acct.holds \ gone, rs, skip)
  <2>1. acct.holds \subseteq Hold /\ NoKey \notin Key
    BY DEF Stored, Sound, Account, Key
  <2>2. ASSUME NEW h \in acct.holds \ gone PROVE h.key \in Key /\ h.key \notin keys
    <3>1. h.key \in Key
      BY <2>1 DEF Hold
    <3>2. ASSUME NEW g \in gone, g.key = h.key PROVE FALSE
      BY <1>1, <1>2, <3>2 DEF Claims
    <3> QED BY <3>1, <3>2
  <2>3. \A h \in acct.holds \ gone : h.key # skip => rs[h.key].status = "active" /\ rs[h.key].credits = h.credits
    BY <2>1, <2>2 DEF Claims
  <2>4. ASSUME NEW k \in Key \ {skip}, rs[k].status = "active" PROVE \E h \in acct.holds \ gone : h.key = k
    <3>1. k \notin keys /\ receipts[k].status = "active"
      BY <2>4 DEF Stored, Receipt
    <3>2. PICK h \in acct.holds : h.key = k
      BY <2>1, <3>1 DEF Claims
    <3> QED BY <2>4, <3>1, <3>2
  <2>5. \A g, h \in acct.holds \ gone : g.key = h.key => g = h
    BY DEF Claims
  <2> QED BY <2>3, <2>4, <2>5 DEF Claims
<1>8. \A k \in Key : rs[k] = receipts[k] \/ (k # skip /\ receipts[k].status = "active"
                                             /\ rs[k] = [receipts[k] EXCEPT !.status = "expired"])
  OBVIOUS
<1> HIDE DEF rs
<1> QED BY <1>5, <1>6, <1>7, <1>8 DEF d, f, gone

\* The hold of a key is let go.
LEMMA Unholding ==
  ASSUME NEW d, WellFormed(d), NEW k
  PROVE  LET mine == {h \in d.acct.holds : h.key = k}
         IN  WellFormed(Unhold(d, k)) /\ Drops(d, Unhold(d, k), mine) /\ Unhold(d, k).receipts = d.receipts
<1> DEFINE mine == {h \in d.acct.holds : h.key = k}
<1>1. Unhold(d, k) = Without(d, mine, d.receipts)
  <2>1. Unhold(d, k) = [d EXCEPT !.acct = [d.acct EXCEPT !.holds = @ \ mine], !.held = @ - CreditsOf(mine)]
    BY DEF Unhold, WellFormed, Sound, Account
  <2> HIDE DEF mine
  <2> QED BY <2>1 DEF Without, WellFormed, Sound, Account
<1>2. mine \in SUBSET d.acct.holds /\ d.receipts \in [Key -> Receipt]
  BY DEF WellFormed
<1> HIDE DEF mine
<1>3. WellFormed(Unhold(d, k)) /\ Drops(d, Unhold(d, k), mine)
  BY <1>1, <1>2, DropIsWellFormed
<1>4. Unhold(d, k).receipts = d.receipts
  BY <1>1 DEF Without
<1> QED BY <1>3, <1>4 DEF mine

-----------------------------------------------------------------------------
(* What each call commits.                                                 *)

Uncharged(rs) == \A k \in Key : rs[k].status \notin {"charged", "settled"} => rs[k].charged = 0

Rows == Stored /\ Claims(acct.holds, receipts, NoKey) /\ Uncharged(receipts)

\* What may become of a receipt.
Follows(r, s) ==
  \/ s = r
  \/ r.status = "none"
  \/ r.status = "active" /\ s.status \in {"settled", "released", "expired"}
  \/ r.status = "expired" /\ s.status = "settled"

\* A receipt that stays as it was, or expires.
Lapses(r, s) == s = r \/ (r.status = "active" /\ s = [r EXCEPT !.status = "expired"])

\* A draft that keeps the rows in agreement and charges the key of its call only.
Right(c, d) ==
  /\ WellFormed(d)
  /\ d.held = CreditsOf(d.acct.holds) - CreditsOf(acct.holds)
  /\ Claims(d.acct.holds, d.receipts, NoKey)
  /\ \A k \in Key : k # c.key => Lapses(receipts[k], d.receipts[k])
  /\ c.key \in Key =>
       /\ d.receipts[c.key].charged = d.debits
       /\ d.receipts[c.key].status \notin {"charged", "settled"} => d.debits = 0
       /\ Follows(receipts[c.key], d.receipts[c.key])

\* The holds of an account are covered by what is left of it.
Covered(a, t) == Held(a, t) <= AllowanceLeft(a, t) + a.balance

LEMMA KeysAreKeys == NoKey \notin Key /\ \A c \in Call : c.key \in Key <=> c.key # NoKey
  BY DEF Key

LEMMA ChargeCovers ==
  ASSUME NEW d, WellFormed(d), NEW t \in Nat, NEW n \in Nat, NEW m \in Nat,
         n <= Free(d.acct, t).allowance, m <= Free(d.acct, t).balance
  PROVE  n + m = 0 \/ Covered(Charge(d, n, m).acct, t)
<1> DEFINE a == d.acct
           b == Charge(d, n, m).acct
<1>1. Sound(a)
  BY DEF WellFormed
<1>2. /\ AllowanceLeft(a, t) \in Nat /\ Held(a, t) \in Nat /\ a.balance \in Nat
  BY <1>1, AllowanceIsNatural, HeldIsNatural DEF Sound, Account
<1>3. /\ Free(a, t).allowance \in Nat /\ Free(a, t).allowance <= AllowanceLeft(a, t)
      /\ Free(a, t).balance \in Nat /\ Free(a, t).balance <= a.balance
      /\ Free(a, t).allowance + Free(a, t).balance = Positive(AllowanceLeft(a, t) + a.balance - Held(a, t))
  BY <1>1, FreeIsCovered
<1>4. n <= AllowanceLeft(a, t) /\ m <= a.balance
  BY <1>2, <1>3
<1>5. /\ WellFormed(Charge(d, n, m))
      /\ b = Less(a, n, m)
  BY <1>4, ChargedIsWellFormed
<1>6. Sound(b)
  BY <1>5 DEF WellFormed
<1> HIDE DEF a, b
<1>7. /\ b.balance = a.balance - m /\ b.used = [w \in Window |-> a.used[w] + n]
      /\ b.plan = a.plan /\ b.ends = a.ends /\ b.holds = a.holds
  BY <1>1, <1>5 DEF Sound, Account, Less
<1>8. AllowanceLeft(b, t) = AllowanceLeft(a, t) - n
  BY <1>1, <1>4, <1>6, <1>7, ChargeTakes
<1>9. Held(b, t) = Held(a, t)
  BY <1>7 DEF Held, Expired
<1>10. n + m = 0 \/ Held(a, t) <= (AllowanceLeft(a, t) - n) + (a.balance - m)
  <2> DEFINE left == AllowanceLeft(a, t)
             held == Held(a, t)
             fa == Free(a, t).allowance
             fb == Free(a, t).balance
  <2>1. left \in Nat /\ held \in Nat /\ a.balance \in Nat /\ fa \in Nat /\ fb \in Nat /\ n <= fa /\ m <= fb
        /\ fa + fb = Positive(left + a.balance - held)
    BY <1>2, <1>3 DEF a
  <2> HIDE DEF left, held, fa, fb
  <2>2. n + m = 0 \/ held <= (left - n) + (a.balance - m)
    BY <2>1 DEF Positive
  <2> QED BY <2>2 DEF left, held
<1> QED BY <1>7, <1>8, <1>9, <1>10 DEF Covered, a, b

\* A call that had no receipt gets one, and leaves the holds alone.
LEMMA ReceivingIsRight ==
  ASSUME Rows, NEW c, c.key \in Key, receipts[c.key].status = "none",
         NEW d, WellFormed(d), d.receipts = receipts, d.held = 0, d.acct.holds = acct.holds,
         NEW status \in Statuses \ {"none", "active"}, NEW credits \in Nat,
         status # "charged" => d.debits = 0
  PROVE  Right(c, Receive(d, c.key, status, credits))
<1> DEFINE r == Receive(d, c.key, status, credits)
           told == [status |-> status, credits |-> credits, charged |-> d.debits]
<1>1. /\ WellFormed(r) /\ r.acct = d.acct /\ r.held = d.held /\ r.debits = d.debits
      /\ r.receipts = [receipts EXCEPT ![c.key] = told]
  BY ReceivedIsWellFormed
<1>2. CreditsOf(acct.holds) \in Nat
  BY UnitsAreFinite DEF Rows, Stored, Sound, Account, Holds
<1>3. receipts \in [Key -> Receipt] /\ acct.holds \subseteq Hold
  BY DEF Rows, Stored, Sound, Account
<1> HIDE DEF r
<1>4. r.receipts[c.key] = told /\ \A k \in Key : k # c.key => r.receipts[k] = receipts[k]
  BY <1>1, <1>3
<1>5. Claims(acct.holds, r.receipts, NoKey)
  <2>1. ASSUME NEW h \in acct.holds PROVE h.key \in Key /\ h.key # NoKey /\ h.key # c.key
    BY <1>3, KeysAreKeys DEF Rows, Claims, Hold
  <2>2. \A h \in acct.holds : h.key # NoKey => r.receipts[h.key].status = "active" /\ r.receipts[h.key].credits = h.credits
    BY <1>4, <2>1 DEF Rows, Claims
  <2>3. \A k \in Key \ {NoKey} : r.receipts[k].status = "active" => \E h \in acct.holds : h.key = k
    BY <1>4 DEF Rows, Claims
  <2> QED BY <2>2, <2>3 DEF Rows, Claims
<1>6. r.held = CreditsOf(r.acct.holds) - CreditsOf(acct.holds)
  BY <1>1, <1>2
<1>7. /\ r.receipts[c.key].charged = r.debits
      /\ r.receipts[c.key].status \notin {"charged", "settled"} => r.debits = 0
      /\ Follows(receipts[c.key], r.receipts[c.key])
  BY <1>1, <1>4 DEF Follows
<1> QED BY <1>1, <1>4, <1>5, <1>6, <1>7 DEF Right, Lapses, r

LEMMA KeyIsNew ==
  ASSUME NEW c \in Call, c.op \in {"change", "consume", "record", "reserve", "reset"}, ~Answered(c, ReceiptOf(c))
  PROVE  c.key \in Key /\ receipts[c.key].status = "none"
<1>1. c.key # NoKey
  BY CallAssumption
<1>2. c.key \in Key /\ ReceiptOf(c) = receipts[c.key]
  BY <1>1, KeysAreKeys DEF ReceiptOf
<1> QED BY <1>2 DEF Answered

LEMMA ConsumeIsRight ==
  ASSUME Rows, NEW c \in Call, c.op = "consume", ~Answered(c, ReceiptOf(c)), NEW t \in Nat, ~Refuses(c, t)
  PROVE  Right(c, Consumed(c, t)) /\ Covered(Consumed(c, t).acct, t)
<1> DEFINE f == Fresh(t)
           free == Free(f.acct, t)
           n == Least(c.credits, free.allowance)
           d == Charge(f, n, c.credits - n)
<1>1. c.key \in Key /\ receipts[c.key].status = "none" /\ c.credits \in Nat \ {0}
  BY KeyIsNew, CallAssumption
<1>2. /\ WellFormed(f) /\ f.receipts = receipts /\ f.held = 0 /\ f.debits = 0
      /\ f.acct.holds = acct.holds
  BY FreshIsWellFormed DEF Rows
<1>3. free.allowance \in Nat /\ free.balance \in Nat /\ free.balance <= f.acct.balance
  BY <1>2, FreeIsCovered DEF WellFormed
<1>4. c.credits <= free.allowance + free.balance
  <2>1. ~(c.credits > free.allowance + free.balance)
    BY DEF Refuses, Unaffordable
  <2> HIDE DEF free
  <2> QED BY <1>1, <1>3, <2>1
<1> HIDE DEF f, free
<1>5. /\ n \in Nat /\ c.credits - n \in Nat /\ n <= free.allowance /\ c.credits - n <= free.balance
      /\ c.credits - n <= f.acct.balance /\ n + (c.credits - n) # 0
  <2>1. f.acct.balance \in Nat
    BY <1>2 DEF WellFormed, Sound, Account
  <2> QED BY <1>1, <1>3, <1>4, <2>1 DEF Least
<1> HIDE DEF n
<1>6. WellFormed(d) /\ d.receipts = receipts /\ d.held = 0 /\ d.acct.holds = acct.holds
  <2>1. WellFormed(d) /\ d.receipts = f.receipts /\ d.held = f.held /\ d.acct = Less(f.acct, n, c.credits - n)
    BY <1>2, <1>5, ChargedIsWellFormed
  <2>2. d.acct.holds = f.acct.holds
    BY <1>2, <2>1 DEF Less, WellFormed, Sound, Account
  <2> QED BY <1>2, <2>1, <2>2
<1>7. Covered(d.acct, t)
  BY <1>2, <1>5, ChargeCovers DEF free
<1> HIDE DEF d
<1>8. Consumed(c, t) = Receive(d, c.key, "charged", c.credits)
  BY DEF Consumed, d, n, free, f
<1>9. Right(c, Consumed(c, t))
  BY <1>1, <1>6, <1>8, ReceivingIsRight DEF Statuses
<1>10. Consumed(c, t).acct = d.acct
  BY <1>6, <1>8 DEF Receive, WellFormed
<1> QED BY <1>7, <1>9, <1>10

LEMMA ChangeIsRight ==
  ASSUME Rows, NEW c \in Call, c.op = "change", ~Answered(c, ReceiptOf(c)), NEW t \in Nat
  PROVE  Right(c, Changed(c, t))
<1> DEFINE next == [acct EXCEPT !.plan = c.plan, !.cancel = FALSE]
           begun == IF Continuing(t) THEN next ELSE Period(next, t)
           a == Normalized(begun, t)
           d == Settled(a, t)
<1>1. c.key \in Key /\ receipts[c.key].status = "none" /\ c.plan \in Plan
  BY KeyIsNew, CallAssumption
<1>2. Stored /\ Sound(next) /\ next \in Account /\ IsFiniteSet(next.holds) /\ next.holds = acct.holds
  BY <1>1 DEF Rows, Stored, Sound, Account
<1> HIDE DEF next
<1>3. Sound(begun) /\ begun.holds = acct.holds
  BY <1>2, PeriodIsSound DEF Keeps
<1> HIDE DEF begun
<1>4. Sound(a) /\ a.holds = acct.holds
  BY <1>3, NormalizedIsSound DEF Keeps
<1> HIDE DEF a
<1>5. /\ WellFormed(d) /\ d.receipts = receipts /\ d.held = 0 /\ d.debits = 0 /\ d.acct = [a EXCEPT !.open = Current(a, t)]
  BY <1>2, <1>4, SettledIsWellFormed
<1>6. d.acct.holds = acct.holds
  BY <1>4, <1>5 DEF Sound, Account
<1> HIDE DEF d
<1>7. Changed(c, t) = Receive(d, c.key, "changed", 0)
  BY DEF Changed, d, a, begun, next
<1>8. "changed" \in Statuses \ {"none", "active"} /\ 0 \in Nat
  BY DEF Statuses
<1>9. WellFormed(d) /\ d.receipts = receipts /\ d.held = 0 /\ d.debits = 0
  BY <1>5
<1> QED BY <1>1, <1>6, <1>7, <1>8, <1>9, ReceivingIsRight

LEMMA RecordIsRight ==
  ASSUME Rows, NEW c \in Call, c.op = "record", ~Answered(c, ReceiptOf(c)), NEW t \in Nat
  PROVE  Right(c, Recorded(c, t))
<1> DEFINE f == Fresh(t)
           a == [f.acct EXCEPT !.balance = f.acct.balance + c.credits]
           d == [f EXCEPT !.acct.balance = @ + c.credits, !.credits = @ + c.credits]
<1>1. c.key \in Key /\ receipts[c.key].status = "none" /\ c.credits \in Nat
  BY KeyIsNew, CallAssumption
<1>2. /\ WellFormed(f) /\ f.receipts = receipts /\ f.held = 0 /\ f.debits = 0
      /\ f.acct.holds = acct.holds
  BY FreshIsWellFormed DEF Rows
<1> HIDE DEF f
<1>3. Sound(a) /\ a.holds = acct.holds
  BY <1>1, <1>2 DEF WellFormed, Sound, Account
<1>4. d = Redrawn(f, a, f.credits + c.credits)
  <2>1. d = [f EXCEPT !.acct = [f.acct EXCEPT !.balance = @ + c.credits], !.credits = @ + c.credits]
    BY <1>2 DEF WellFormed, Sound, Account
  <2>2. a = [f.acct EXCEPT !.balance = @ + c.credits]
    BY <1>2 DEF WellFormed, Sound, Account
  <2> HIDE DEF a
  <2> QED BY <1>2, <2>1, <2>2 DEF Redrawn, WellFormed
<1> HIDE DEF a, d
<1>5. WellFormed(d) /\ d.receipts = receipts /\ d.held = 0 /\ d.debits = 0 /\ d.acct.holds = acct.holds
  BY <1>2, <1>3, <1>4, RedrawnIsWellFormed
<1>6. Recorded(c, t) = Receive(d, c.key, "recorded", c.credits)
  BY DEF Recorded, d, f
<1> QED BY <1>1, <1>5, <1>6, ReceivingIsRight DEF Statuses

LEMMA ResetIsRight ==
  ASSUME Rows, NEW c \in Call, c.op = "reset", ~Answered(c, ReceiptOf(c)), NEW t \in Nat
  PROVE  Right(c, Reset(c, t))
<1> DEFINE f == Fresh(t)
           used == [w \in Window |-> IF w \in c.scope THEN 0 ELSE f.acct.used[w]]
           a == [f.acct EXCEPT !.used = used]
           credits == f.credits + AllowanceLeft(a, t) - AllowanceLeft(f.acct, t)
           d == Redrawn(f, a, credits)
<1>1. c.key \in Key /\ receipts[c.key].status = "none"
  BY KeyIsNew
<1>2. /\ WellFormed(f) /\ f.receipts = receipts /\ f.held = 0 /\ f.debits = 0
      /\ f.acct.holds = acct.holds
  BY FreshIsWellFormed DEF Rows
<1> HIDE DEF f
<1>3. used \in [Window -> Nat]
  BY <1>2 DEF WellFormed, Sound, Account
<1>4. Reset(c, t) = Receive(d, c.key, "reset", 0)
  <2>1. a = [f.acct EXCEPT !.used = [w \in Window |-> IF w \in c.scope THEN 0 ELSE @[w]]]
    BY <1>2 DEF WellFormed, Sound, Account
  <2> HIDE DEF used, a
  <2> QED BY <1>2, <2>1 DEF Reset, Redrawn, WellFormed, f
<1> HIDE DEF used
<1>5. Sound(a) /\ a.holds = acct.holds
  BY <1>2, <1>3 DEF WellFormed, Sound, Account
<1> HIDE DEF a, credits
<1> HIDE DEF d
<1>7. WellFormed(d) /\ d.receipts = receipts /\ d.held = 0 /\ d.debits = 0 /\ d.acct.holds = acct.holds
  BY <1>2, <1>5, RedrawnIsWellFormed DEF d
<1> QED BY <1>1, <1>4, <1>7, ReceivingIsRight DEF Statuses

LEMMA SweptRows ==
  ASSUME Rows, NEW t \in Nat, NEW skip
  PROVE  LET d == Swept(Fresh(t), t, skip)
         IN  /\ WellFormed(d) /\ d.held = CreditsOf(d.acct.holds) - CreditsOf(acct.holds) /\ d.debits = 0
             /\ d.acct = [Fresh(t).acct EXCEPT !.holds = acct.holds \ Expired(acct, t)]
             /\ d.acct.holds = acct.holds \ Expired(acct, t) /\ d.acct.balance = acct.balance
             /\ Claims(d.acct.holds, d.receipts, skip)
             /\ \A k \in Key : Lapses(receipts[k], d.receipts[k]) /\ (k = skip => d.receipts[k] = receipts[k])
<1> DEFINE f == Fresh(t)
           d == Swept(f, t, skip)
<1>1. /\ WellFormed(f) /\ f.held = 0 /\ f.debits = 0
      /\ f.acct.holds = acct.holds /\ f.acct.balance = acct.balance
  BY FreshIsWellFormed DEF Rows
<1>2. /\ WellFormed(d) /\ Drops(f, d, Expired(acct, t)) /\ Claims(d.acct.holds, d.receipts, skip)
      /\ \A k \in Key :
           \/ d.receipts[k] = receipts[k]
           \/ /\ k # skip /\ receipts[k].status = "active"
              /\ d.receipts[k] = [receipts[k] EXCEPT !.status = "expired"]
  BY Sweeping DEF Rows
<1> HIDE DEF f, d
<1>3. d.acct = [f.acct EXCEPT !.holds = acct.holds \ Expired(acct, t)] /\ d.debits = 0
      /\ d.held = 0 + CreditsOf(d.acct.holds) - CreditsOf(acct.holds)
  BY <1>1, <1>2 DEF Drops
<1>4. d.acct.holds = acct.holds \ Expired(acct, t) /\ d.acct.balance = acct.balance
  BY <1>1, <1>3 DEF WellFormed, Sound, Account
<1>5. CreditsOf(d.acct.holds) \in Nat /\ CreditsOf(acct.holds) \in Nat
  <2>1. d.acct.holds \in Holds /\ acct.holds \in Holds
    BY <1>2 DEF WellFormed, Rows, Stored, Sound, Account, Holds
  <2> QED BY <2>1, UnitsAreFinite
<1>6. d.held = CreditsOf(d.acct.holds) - CreditsOf(acct.holds)
  BY <1>3, <1>5
<1>7. \A k \in Key : Lapses(receipts[k], d.receipts[k]) /\ (k = skip => d.receipts[k] = receipts[k])
  BY <1>2 DEF Lapses
<1> QED BY <1>2, <1>3, <1>4, <1>6, <1>7 DEF f, d

\* Another account, and other credits held, in a draft.
Holding(d, a, held) == [d EXCEPT !.acct = a, !.held = held]

LEMMA HoldingIsWellFormed ==
  ASSUME NEW d, WellFormed(d), NEW a, Sound(a), NEW held \in Int
  PROVE  /\ WellFormed(Holding(d, a, held))
         /\ Holding(d, a, held).acct = a /\ Holding(d, a, held).receipts = d.receipts
         /\ Holding(d, a, held).held = held /\ Holding(d, a, held).debits = d.debits
<1> DEFINE r == Holding(d, a, held)
<1>1. r = [acct |-> r.acct, receipts |-> r.receipts, credits |-> r.credits, held |-> r.held, debits |-> r.debits]
  <2>1. d = [acct |-> d.acct, receipts |-> d.receipts, credits |-> d.credits, held |-> d.held, debits |-> d.debits]
    BY DEF WellFormed
  <2>2. r = [d EXCEPT !.acct = a, !.held = held]
    BY DEF Holding
  <2> HIDE DEF r
  <2> QED BY <2>1, <2>2
<1>2. r.acct = a /\ r.receipts = d.receipts /\ r.held = held /\ r.debits = d.debits
  BY DEF Holding, WellFormed
<1> HIDE DEF r
<1>3. WellFormed(r)
  BY <1>1, <1>2 DEF WellFormed
<1> QED BY <1>2, <1>3 DEF r

LEMMA ReserveIsRight ==
  ASSUME Rows, NEW c \in Call, c.op = "reserve", ~Answered(c, ReceiptOf(c)), NEW t \in Nat, ~Refuses(c, t)
  PROVE  Right(c, Reserved(c, t)) /\ (Covered(Reserved(c, t).acct, t) \/ c.credits = 0)
<1> DEFINE f == Fresh(t)
           s == Swept(f, t, NoKey)
           h == [key |-> c.key, credits |-> c.credits, expiresAt |-> t + HoldTtl]
           a == [s.acct EXCEPT !.holds = s.acct.holds \cup {h}]
           d == Holding(s, a, s.held + c.credits)
           told == [status |-> "active", credits |-> c.credits, charged |-> 0]
           r == Receive(d, c.key, "active", c.credits)
<1>1. c.key \in Key /\ receipts[c.key].status = "none" /\ c.credits \in Nat
  BY KeyIsNew, CallAssumption
<1>2. /\ WellFormed(f) /\ f.acct.holds = acct.holds /\ f.acct.balance = acct.balance
  BY FreshIsWellFormed DEF Rows
<1>3. /\ WellFormed(s) /\ s.held = CreditsOf(s.acct.holds) - CreditsOf(acct.holds) /\ s.debits = 0
      /\ s.acct = [f.acct EXCEPT !.holds = acct.holds \ Expired(acct, t)]
      /\ s.acct.holds = acct.holds \ Expired(acct, t) /\ s.acct.balance = acct.balance
      /\ Claims(s.acct.holds, s.receipts, NoKey)
  BY SweptRows
<1>4. \A k \in Key : Lapses(receipts[k], s.receipts[k])
  BY SweptRows
<1> HIDE DEF f, s
<1>5. h \in Hold /\ s.acct.holds \in Holds /\ s.receipts \in [Key -> Receipt]
  BY <1>1, <1>3, WindowAssumption DEF Hold, Holds, WellFormed, Sound, Account
<1>6. s.receipts[c.key].status = "none" /\ \A g \in s.acct.holds : g.key \in Key /\ g.key # c.key /\ g.key # NoKey
  <2>1. s.receipts[c.key].status = "none"
    BY <1>1, <1>4 DEF Lapses
  <2>2. \A g \in s.acct.holds : g.key \in Key /\ g.key # NoKey
    BY <1>5, KeysAreKeys DEF Holds, Hold
  <2> QED BY <1>3, <2>1, <2>2 DEF Claims
<1>7. /\ s.acct.holds \cup {h} \in Holds
      /\ CreditsOf(s.acct.holds \cup {h}) = CreditsOf(s.acct.holds) + c.credits
  BY <1>5, <1>6, Added
<1>8. Sound(a) /\ a.holds = s.acct.holds \cup {h} /\ a.balance = acct.balance
      /\ a.plan = s.acct.plan /\ a.ends = s.acct.ends /\ a.used = s.acct.used
  BY <1>3, <1>7 DEF WellFormed, Sound, Account, Holds
<1> HIDE DEF a
<1>9. /\ CreditsOf(s.acct.holds) \in Nat /\ CreditsOf(acct.holds) \in Nat /\ acct.holds \in Holds
  BY <1>5, UnitsAreFinite DEF Rows, Stored, Sound, Account, Holds
<1>10. s.held + c.credits \in Int /\ s.held + c.credits = CreditsOf(a.holds) - CreditsOf(acct.holds)
  BY <1>1, <1>3, <1>7, <1>8, <1>9
<1>11. /\ WellFormed(d) /\ d.acct = a /\ d.receipts = s.receipts /\ d.held = s.held + c.credits /\ d.debits = 0
  BY <1>3, <1>8, <1>10, HoldingIsWellFormed
<1> HIDE DEF d
<1>12. "active" \in Statuses
  BY DEF Statuses
<1>13. /\ WellFormed(r) /\ r.acct = a /\ r.held = d.held /\ r.debits = 0
       /\ r.receipts = [s.receipts EXCEPT ![c.key] = told]
  <2>1. /\ WellFormed(r) /\ r.acct = d.acct /\ r.held = d.held /\ r.debits = d.debits
        /\ r.receipts = [d.receipts EXCEPT ![c.key] = [status |-> "active", credits |-> c.credits, charged |-> d.debits]]
    BY <1>1, <1>11, <1>12, ReceivedIsWellFormed
  <2> HIDE DEF r
  <2> QED BY <1>11, <2>1
<1>14. Reserved(c, t) = r
  <2>1. d = [s EXCEPT !.acct = [s.acct EXCEPT !.holds = @ \cup {h}], !.held = @ + c.credits]
    BY <1>3 DEF d, a, Holding, WellFormed, Sound, Account
  <2>2. d = [s EXCEPT !.acct.holds = @ \cup {h}, !.held = @ + c.credits]
    BY <1>3, <2>1 DEF WellFormed, Sound, Account
  <2> QED BY <2>2 DEF Reserved, s, f
<1> HIDE DEF r
<1>15. r.receipts[c.key] = told /\ \A k \in Key : k # c.key => r.receipts[k] = s.receipts[k]
  BY <1>1, <1>5, <1>13
<1>16. Claims(a.holds, r.receipts, NoKey)
  <2>1. ASSUME NEW g \in a.holds PROVE r.receipts[g.key].status = "active" /\ r.receipts[g.key].credits = g.credits
    <3>1. CASE g = h
      BY <1>15, <3>1
    <3>2. CASE g \in s.acct.holds
      BY <1>3, <1>6, <1>15, <3>2 DEF Claims
    <3> QED BY <1>8, <2>1, <3>1, <3>2
  <2>2. ASSUME NEW k \in Key \ {NoKey}, r.receipts[k].status = "active" PROVE \E g \in a.holds : g.key = k
    <3>1. CASE k = c.key
      <4>1. h \in a.holds /\ h.key = k
        BY <1>8, <3>1
      <4> QED BY <4>1
    <3>2. CASE k # c.key
      BY <1>3, <1>8, <1>15, <2>2, <3>2 DEF Claims
    <3> QED BY <3>1, <3>2
  <2>3. ASSUME NEW g \in a.holds, NEW i \in a.holds, g.key = i.key PROVE g = i
    <3>1. h.key = c.key /\ \A j \in a.holds : j = h \/ (j \in s.acct.holds /\ j.key # c.key)
      BY <1>6, <1>8
    <3>2. CASE g = h
      <4>1. g.key = c.key
        BY <3>1, <3>2
      <4>2. i = h
        BY <2>3, <3>1, <4>1
      <4> QED BY <3>2, <4>2
    <3>3. CASE g \in s.acct.holds /\ g # h
      <4>1. i \in s.acct.holds
        BY <2>3, <3>1, <3>3
      <4> QED BY <1>3, <2>3, <3>3, <4>1 DEF Claims
    <3> QED BY <3>1, <3>2, <3>3
  <2> QED BY <2>1, <2>2, <2>3 DEF Claims
<1>17. Right(c, r)
  BY <1>1, <1>4, <1>10, <1>11, <1>13, <1>15, <1>16 DEF Right, Follows
<1>18. Covered(a, t) \/ c.credits = 0
  <2> DEFINE left == AllowanceLeft(f.acct, t)
             held == CreditsOf(s.acct.holds)
  <2>1. Sound(f.acct)
    BY <1>2 DEF WellFormed
  <2>2. AllowanceLeft(a, t) = left /\ left \in Nat /\ acct.balance \in Nat
    <3>1. a.plan = f.acct.plan /\ a.ends = f.acct.ends /\ a.used = f.acct.used
      BY <1>3, <1>8, <2>1 DEF Sound, Account
    <3>2. AllowanceLeft(a, t) = left
      BY <3>1 DEF AllowanceLeft, Active
    <3> QED BY <2>1, <3>2, AllowanceIsNatural DEF Rows, Stored, Sound, Account
  <2>3. Held(f.acct, t) = held
    BY <1>2, <1>3 DEF Held, Expired
  <2>4. Held(a, t) <= held + c.credits /\ Held(a, t) \in Nat
    <3>1. a.holds \ Expired(a, t) \in SUBSET a.holds /\ a.holds \in Holds
      BY <1>7, <1>8
    <3>2. CreditsOf(a.holds \ Expired(a, t)) <= CreditsOf(a.holds)
      BY <3>1, Fewer
    <3> QED BY <1>7, <1>8, <3>2, HeldIsNatural DEF Held
  <2>5. c.credits <= Positive(left + acct.balance - held)
    <3>1. ~(c.credits > Free(f.acct, t).allowance + Free(f.acct, t).balance)
      BY DEF Refuses, Unaffordable, f
    <3>2. /\ Free(f.acct, t).allowance \in Nat /\ Free(f.acct, t).balance \in Nat
          /\ Free(f.acct, t).allowance + Free(f.acct, t).balance = Positive(left + acct.balance - held)
      BY <1>2, <2>1, <2>3, FreeIsCovered
    <3> QED BY <1>1, <3>1, <3>2
  <2> HIDE DEF left, held
  <2>6. held \in Nat
    BY <1>9 DEF held
  <2>7. c.credits = 0 \/ Held(a, t) <= left + acct.balance
    BY <1>1, <2>2, <2>4, <2>5, <2>6 DEF Positive
  <2> QED BY <1>8, <2>2, <2>7 DEF Covered
<1> QED BY <1>13, <1>14, <1>17, <1>18

LEMMA UnheldRows ==
  ASSUME Rows, NEW c, c.key \in Key, NEW t \in Nat
  PROVE  LET d == Unheld(c, t)
         IN  /\ WellFormed(d) /\ d.held = CreditsOf(d.acct.holds) - CreditsOf(acct.holds) /\ d.debits = 0
             /\ d.acct.balance = acct.balance
             /\ Claims(d.acct.holds, d.receipts, c.key) /\ \A h \in d.acct.holds : h.key # c.key
             /\ \A k \in Key : Lapses(receipts[k], d.receipts[k])
<1> DEFINE s == Swept(Fresh(t), t, c.key)
           mine == {h \in s.acct.holds : h.key = c.key}
           d == Unhold(s, c.key)
<1>1. /\ WellFormed(s) /\ s.held = CreditsOf(s.acct.holds) - CreditsOf(acct.holds) /\ s.debits = 0
      /\ s.acct.balance = acct.balance /\ Claims(s.acct.holds, s.receipts, c.key)
  BY SweptRows
<1>2. \A k \in Key : Lapses(receipts[k], s.receipts[k])
  BY SweptRows
<1> HIDE DEF s
<1>3. WellFormed(d) /\ Drops(s, d, mine) /\ d.receipts = s.receipts
  BY <1>1, Unholding
<1>4. Unheld(c, t) = d
  BY DEF Unheld, s
<1> HIDE DEF d
<1>5. d.acct.holds = s.acct.holds \ mine /\ d.acct.balance = acct.balance /\ d.debits = 0
  BY <1>1, <1>3 DEF Drops, WellFormed, Sound, Account
<1>6. CreditsOf(d.acct.holds) \in Nat /\ CreditsOf(s.acct.holds) \in Nat /\ CreditsOf(acct.holds) \in Nat
  <2>1. d.acct.holds \in Holds /\ s.acct.holds \in Holds /\ acct.holds \in Holds
    BY <1>1, <1>3 DEF WellFormed, Rows, Stored, Sound, Account, Holds
  <2> QED BY <2>1, UnitsAreFinite
<1>7. d.held = s.held + CreditsOf(d.acct.holds) - CreditsOf(s.acct.holds)
  BY <1>3 DEF Drops
<1>8. d.held = CreditsOf(d.acct.holds) - CreditsOf(acct.holds)
  BY <1>1, <1>6, <1>7
<1>9. \A h \in d.acct.holds : h \in s.acct.holds /\ h.key # c.key
  BY <1>5
<1>10. \A k \in Key \ {c.key} : s.receipts[k].status = "active" => \E h \in d.acct.holds : h.key = k
  BY <1>1, <1>5 DEF Claims
<1>11. Claims(d.acct.holds, d.receipts, c.key)
  BY <1>1, <1>3, <1>9, <1>10 DEF Claims
<1> QED BY <1>2, <1>3, <1>4, <1>5, <1>8, <1>9, <1>11

\* A reservation ends with its hold gone.
LEMMA EndingIsRight ==
  ASSUME Rows, NEW c, c.key \in Key, NEW d, WellFormed(d),
         d.held = CreditsOf(d.acct.holds) - CreditsOf(acct.holds),
         Claims(d.acct.holds, d.receipts, c.key), \A h \in d.acct.holds : h.key # c.key,
         \A k \in Key : Lapses(receipts[k], d.receipts[k]),
         NEW status \in {"settled", "released", "expired"}, NEW credits \in Nat,
         status # "settled" => d.debits = 0,
         receipts[c.key].status = "active" \/ (receipts[c.key].status = "expired" /\ status = "settled")
  PROVE  Right(c, Receive(d, c.key, status, credits))
<1> DEFINE r == Receive(d, c.key, status, credits)
           told == [status |-> status, credits |-> credits, charged |-> d.debits]
<1>1. /\ WellFormed(r) /\ r.acct = d.acct /\ r.held = d.held /\ r.debits = d.debits
      /\ r.receipts = [d.receipts EXCEPT ![c.key] = told]
  <2>1. status \in Statuses
    BY DEF Statuses
  <2> QED BY <2>1, ReceivedIsWellFormed
<1>2. d.receipts \in [Key -> Receipt] /\ d.acct.holds \subseteq Hold
  BY DEF WellFormed, Sound, Account
<1> HIDE DEF r
<1>3. r.receipts[c.key] = told /\ \A k \in Key : k # c.key => r.receipts[k] = d.receipts[k]
  BY <1>1, <1>2
<1>4. Claims(d.acct.holds, r.receipts, NoKey)
  <2>1. \A h \in d.acct.holds : r.receipts[h.key].status = "active" /\ r.receipts[h.key].credits = h.credits
    <3>1. \A h \in d.acct.holds : h.key \in Key /\ h.key # c.key
      BY <1>2 DEF Hold
    <3> QED BY <1>3, <3>1 DEF Claims
  <2>2. ASSUME NEW k \in Key, r.receipts[k].status = "active" PROVE \E h \in d.acct.holds : h.key = k
    <3>1. k # c.key /\ d.receipts[k].status = "active"
      BY <1>3, <2>2
    <3> QED BY <3>1 DEF Claims
  <2> QED BY <2>1, <2>2 DEF Claims
<1>5. /\ r.receipts[c.key].charged = r.debits
      /\ r.receipts[c.key].status \notin {"charged", "settled"} => r.debits = 0
      /\ Follows(receipts[c.key], r.receipts[c.key])
  BY <1>1, <1>3 DEF Follows
<1>6. \A k \in Key : k # c.key => Lapses(receipts[k], r.receipts[k])
  BY <1>3
<1> QED BY <1>1, <1>4, <1>5, <1>6 DEF Right, r

LEMMA ReleaseIsRight ==
  ASSUME Rows, NEW c \in Call, c.op = "release", ~Answered(c, ReceiptOf(c)), NEW t \in Nat
  PROVE  Right(c, Released(c, t))
<1> DEFINE d == Unheld(c, t)
           status == IF c.key \in {h.key : h \in acct.holds \ Expired(acct, t)} THEN "released" ELSE "expired"
<1>1. c.key \in Key /\ receipts[c.key].status = "active" /\ receipts[c.key].credits \in Nat
  <2>1. c.key \in Key
    BY CallAssumption, KeysAreKeys
  <2>2. ReceiptOf(c) = receipts[c.key] /\ receipts[c.key] \in Receipt
    BY <2>1, KeysAreKeys DEF ReceiptOf, Rows, Stored
  <2> QED BY <2>1, <2>2 DEF Answered, Receipt
<1>2. /\ WellFormed(d) /\ d.held = CreditsOf(d.acct.holds) - CreditsOf(acct.holds) /\ d.debits = 0
      /\ Claims(d.acct.holds, d.receipts, c.key) /\ \A h \in d.acct.holds : h.key # c.key
      /\ \A k \in Key : Lapses(receipts[k], d.receipts[k])
  BY <1>1, UnheldRows
<1>3. status \in {"settled", "released", "expired"} /\ status # "settled"
  OBVIOUS
<1>4. Released(c, t) = Receive(d, c.key, status, receipts[c.key].credits)
  BY DEF Released
<1> HIDE DEF d, status
<1> QED BY <1>1, <1>2, <1>3, <1>4, EndingIsRight

LEMMA SettleIsRight ==
  ASSUME Rows, NEW c \in Call, c.op = "settle", ~Answered(c, ReceiptOf(c)), NEW t \in Nat
  PROVE  LET r == SettledCall(c, t)
         IN  Right(c, r) /\ (Covered(r.acct, t) \/ (r.acct.balance = acct.balance /\ r.debits = 0))
<1> DEFINE u == Unheld(c, t)
           free == Free(u.acct, t)
           n == Least(c.credits, free.allowance)
           m == FromBalance(c.credits, n, free)
           d == Charge(u, n, m)
           r == SettledCall(c, t)
<1>1. /\ c.key \in Key /\ receipts[c.key].status \in {"active", "expired"} /\ receipts[c.key].credits \in Nat
      /\ c.credits \in Nat
  <2>1. c.key \in Key /\ c.credits \in Nat
    BY CallAssumption, KeysAreKeys
  <2>2. ReceiptOf(c) = receipts[c.key] /\ receipts[c.key] \in Receipt
    BY <2>1, KeysAreKeys DEF ReceiptOf, Rows, Stored
  <2> QED BY <2>1, <2>2 DEF Answered, Receipt
<1>2. /\ WellFormed(u) /\ u.held = CreditsOf(u.acct.holds) - CreditsOf(acct.holds) /\ u.debits = 0
      /\ u.acct.balance = acct.balance
      /\ Claims(u.acct.holds, u.receipts, c.key) /\ \A h \in u.acct.holds : h.key # c.key
      /\ \A k \in Key : Lapses(receipts[k], u.receipts[k])
  BY <1>1, UnheldRows
<1>3. r = Receive(d, c.key, "settled", receipts[c.key].credits)
  BY DEF SettledCall
<1> HIDE DEF u, r
<1>4. free.allowance \in Nat /\ free.balance \in Nat /\ free.balance <= u.acct.balance /\ u.acct.balance \in Nat
  <2>1. Sound(u.acct)
    BY <1>2 DEF WellFormed
  <2> QED BY <2>1, FreeIsCovered DEF Sound, Account
<1> HIDE DEF free
<1>5. n \in Nat /\ n <= free.allowance /\ n <= c.credits
  BY <1>1, <1>4 DEF Least
<1> HIDE DEF n
<1>6. m \in Nat /\ m <= free.balance /\ m <= u.acct.balance
  BY <1>1, <1>4, <1>5 DEF FromBalance, Least
<1> HIDE DEF m
<1>7. /\ WellFormed(d) /\ d.receipts = u.receipts /\ d.held = u.held
      /\ d.debits = u.debits + n + m /\ d.acct = Less(u.acct, n, m)
  BY <1>2, <1>5, <1>6, ChargedIsWellFormed
<1>8. n + m = 0 \/ Covered(d.acct, t)
  BY <1>2, <1>5, <1>6, ChargeCovers DEF free
<1> HIDE DEF d
<1>9. d.acct.holds = u.acct.holds /\ d.acct.balance = acct.balance - m
  BY <1>2, <1>7 DEF Less, WellFormed, Sound, Account
<1>10. Right(c, r)
  BY <1>1, <1>2, <1>3, <1>7, <1>9, EndingIsRight
<1>11. r.acct = d.acct /\ r.debits = d.debits
  BY <1>3, <1>7 DEF Receive, WellFormed
<1>12. Covered(r.acct, t) \/ (r.acct.balance = acct.balance /\ r.debits = 0)
  <2>1. CASE n + m = 0
    BY <1>2, <1>4, <1>5, <1>6, <1>7, <1>9, <1>11, <2>1
  <2>2. CASE Covered(d.acct, t)
    BY <1>11, <2>2
  <2> QED BY <1>8, <2>1, <2>2
<1> QED BY <1>10, <1>12 DEF r

LEMMA CancelIsRight ==
  ASSUME Rows, NEW c \in Call, c.op = "cancel", NEW t \in Nat
  PROVE  Right(c, Canceled(t))
<1> DEFINE a == [acct EXCEPT !.cancel = TRUE]
           d == Canceled(t)
<1>1. c.key \notin Key
  BY CallAssumption, KeysAreKeys
<1>2. Sound(a) /\ a.holds = acct.holds
  BY DEF Rows, Stored, Sound, Account
<1>3. d = [acct |-> a, receipts |-> receipts, credits |-> 0, held |-> 0, debits |-> 0]
  BY DEF Canceled
<1> HIDE DEF a, d
<1>4. CreditsOf(acct.holds) \in Nat
  BY UnitsAreFinite DEF Rows, Stored, Sound, Account, Holds
<1>5. WellFormed(d) /\ d.held = CreditsOf(d.acct.holds) - CreditsOf(acct.holds) /\ d.acct.holds = acct.holds
      /\ d.receipts = receipts
  BY <1>2, <1>3, <1>4 DEF WellFormed, Rows, Stored
<1> QED BY <1>1, <1>5 DEF Right, Rows, Lapses, d

LEMMA MaintainIsRight ==
  ASSUME Rows, NEW c \in Call, c.op = "maintain", NEW t \in Nat
  PROVE  Right(c, Maintained(t))
<1> DEFINE d == Swept(Fresh(t), t, NoKey)
<1>1. c.key \notin Key
  BY CallAssumption, KeysAreKeys
<1>2. WellFormed(d) /\ d.held = CreditsOf(d.acct.holds) - CreditsOf(acct.holds) /\ Claims(d.acct.holds, d.receipts, NoKey)
      /\ \A k \in Key : Lapses(receipts[k], d.receipts[k])
  BY SweptRows
<1> HIDE DEF d
<1>3. Right(c, d)
  BY <1>1, <1>2 DEF Right
<1> QED BY <1>3 DEF Maintained, d

\* A call that its receipt lets begin and the account does not refuse.
LEMMA DraftIsRight ==
  ASSUME Rows, NEW c \in Call, ~Answered(c, ReceiptOf(c)), NEW t \in Nat, ~Refuses(c, t)
  PROVE  Right(c, Draft(c, t))
<1>1. CASE c.op = "change"
  BY <1>1, ChangeIsRight DEF Draft
<1>2. CASE c.op = "cancel"
  BY <1>2, CancelIsRight DEF Draft
<1>3. CASE c.op = "consume"
  BY <1>3, ConsumeIsRight DEF Draft
<1>4. CASE c.op = "record"
  BY <1>4, RecordIsRight DEF Draft
<1>5. CASE c.op = "reserve"
  BY <1>5, ReserveIsRight DEF Draft
<1>6. CASE c.op = "settle"
  BY <1>6, SettleIsRight DEF Draft
<1>7. CASE c.op = "release"
  BY <1>7, ReleaseIsRight DEF Draft
<1>8. CASE c.op = "reset"
  BY <1>8, ResetIsRight DEF Draft
<1>9. CASE c.op = "maintain"
  BY <1>9, MaintainIsRight DEF Draft
<1> QED BY <1>1, <1>2, <1>3, <1>4, <1>5, <1>6, <1>7, <1>8, <1>9, CallAssumption DEF Ops

-----------------------------------------------------------------------------
(* The inductive invariant.                                                *)

Job == [phase : {"idle", "account", "commit"}, call : Call \cup {Maintenance}, seen : Receipt,
        fresh : BOOLEAN, at : 0..MaxNow]

\* The receipt a call read did not answer it.
Asked(j) == j.phase # "idle" => j.call \in Call /\ ~Answered(j.call, j.seen)

\* The account as it is did not refuse a call that can still commit.
Admitted(j) == j.phase = "commit" /\ j.fresh => ~Refuses(j.call, j.at)

Jobs == job \in [Process -> Job] /\ \A p \in Process : Asked(job[p]) /\ Admitted(job[p])

Sums == posted.held = CreditsOf(acct.holds) /\ billed \in [Key -> Nat] /\ ChargedOnce

IInv == now \in 0..MaxNow /\ Rows /\ Sums /\ Jobs

LEMMA NoneHeld == CreditsOf({}) = 0
<1>1. Units({}) = {}
  BY DEF Units
<1> QED BY <1>1, FS_EmptySet DEF CreditsOf

LEMMA Start == Init => IInv
<1> SUFFICES ASSUME Init PROVE IInv
  OBVIOUS
<1>1. now \in 0..MaxNow /\ 0 \in 0..MaxNow
  BY WindowAssumption DEF Init
<1>2. NoReceipt \in Receipt
  BY DEF NoReceipt, Receipt, Statuses
<1>3. receipts \in [Key -> Receipt] /\ \A k \in Key : receipts[k] = NoReceipt
  BY <1>2 DEF Init
<1>4. acct.holds = {} /\ IsFiniteSet(acct.holds)
  BY FS_EmptySet DEF Init
<1>5. Sound(acct)
  <2>1. Zero \in [Window -> Nat] /\ Zero \in [Window -> Int]
    BY DEF Zero
  <2>2. NoWindow \in Granted
    BY DEF NoWindow, Granted
  <2> HIDE DEF Zero, NoWindow
  <2> QED BY <1>4, <2>1, <2>2 DEF Init, Sound, Account
<1>6. Rows
  BY <1>3, <1>4, <1>5 DEF Rows, Stored, Claims, Uncharged, NoReceipt
<1>7. Sums
  BY <1>3, <1>4, NoneHeld DEF Sums, Init, ChargedOnce, NoReceipt
<1>8. Jobs
  <2>1. Idle \in Job /\ Idle.phase = "idle"
    BY <1>1, <1>2 DEF Idle, Job
  <2>2. \A p \in Process : job[p] = Idle
    BY DEF Init
  <2> QED BY <2>1, <2>2 DEF Init, Jobs, Asked, Admitted
<1> QED BY <1>1, <1>6, <1>7, <1>8 DEF IInv

\* What a step that leaves the rows alone keeps.
LEMMA RowsUntouched ==
  ASSUME IInv, UNCHANGED <<acct, receipts, posted, billed>>
  PROVE  Rows' /\ Sums' /\ \A c, t : Refuses(c, t)' <=> Refuses(c, t)
<1>1. Rows' /\ Sums'
  BY DEF IInv, Rows, Sums, Stored, ChargedOnce
<1>2. \A c, t : Refuses(c, t)' <=> Refuses(c, t)
  BY DEF Refuses, Continuing, IdleAccount, Unaffordable, Fresh, Settled
<1> QED BY <1>1, <1>2

LEMMA BeginKeeps ==
  ASSUME IInv, NEW p \in Process, NEW c \in Call, Begin(p, c)
  PROVE  IInv'
<1> DEFINE j == [Idle EXCEPT !.phase = "account", !.call = c, !.seen = ReceiptOf(c)]
<1>1. Rows' /\ Sums' /\ \A d, t : Refuses(d, t)' <=> Refuses(d, t)
  BY RowsUntouched DEF Begin
<1>2. ReceiptOf(c) \in Receipt
  BY KeysAreKeys DEF ReceiptOf, NoReceipt, Receipt, Statuses, IInv, Rows, Stored
<1>3. j \in Job /\ Asked(j) /\ j.phase = "account"
  <2>1. j = [phase |-> "account", call |-> c, seen |-> ReceiptOf(c), fresh |-> FALSE, at |-> 0]
    <3>1. Idle = [phase |-> "idle", call |-> Maintenance, seen |-> NoReceipt, fresh |-> FALSE, at |-> 0]
      BY DEF Idle
    <3>2. j = [Idle EXCEPT !.phase = "account", !.call = c, !.seen = ReceiptOf(c)]
      OBVIOUS
    <3> HIDE DEF j
    <3> QED BY <3>1, <3>2
  <2>2. 0 \in 0..MaxNow /\ ~Answered(c, ReceiptOf(c))
    BY WindowAssumption DEF Begin
  <2> HIDE DEF j
  <2> QED BY <1>2, <2>1, <2>2 DEF Job, Asked
<1>4. job' = [job EXCEPT ![p] = j]
  BY DEF Begin
<1> HIDE DEF j
<1>5. Jobs'
  BY <1>1, <1>3, <1>4 DEF Jobs, Asked, Admitted, IInv
<1> QED BY <1>1, <1>5 DEF IInv, Begin

LEMMA ReadKeeps ==
  ASSUME IInv, NEW p \in Process, Read(p)
  PROVE  IInv'
<1> DEFINE i == job[p]
           j == IF Refuses(i.call, now) THEN Idle ELSE [i EXCEPT !.phase = "commit", !.fresh = TRUE, !.at = now]
<1>1. Rows' /\ Sums' /\ \A d, t : Refuses(d, t)' <=> Refuses(d, t)
  BY RowsUntouched DEF Read
<1>2. i \in Job /\ Asked(i) /\ i.phase = "account" /\ now \in 0..MaxNow
  BY DEF IInv, Jobs, Read
<1>3. Idle \in Job /\ Idle.phase = "idle"
  BY WindowAssumption DEF Idle, Job, NoReceipt, Receipt, Statuses
<1>4. job' = [job EXCEPT ![p] = j]
  BY DEF Read
<1> HIDE DEF i
<1>5. j \in Job /\ Asked(j) /\ Admitted(j)
  <2>1. CASE Refuses(i.call, now)
    BY <1>3, <2>1 DEF Asked, Admitted
  <2>2. CASE ~Refuses(i.call, now)
    <3>1. j = [phase |-> "commit", call |-> i.call, seen |-> i.seen, fresh |-> TRUE, at |-> now]
      BY <1>2, <2>2 DEF Job
    <3> HIDE DEF j
    <3> QED BY <1>2, <2>2, <3>1 DEF Job, Asked, Admitted
  <2> QED BY <2>1, <2>2
<1> HIDE DEF j
<1>6. job' \in [Process -> Job] /\ \A q \in Process : job'[q] = IF q = p THEN j ELSE job[q]
  BY <1>4, <1>5 DEF IInv, Jobs
<1>7. \A q \in Process : Asked(job'[q]) /\ Admitted(job'[q])
  BY <1>5, <1>6 DEF IInv, Jobs
<1>8. Jobs'
  BY <1>1, <1>6, <1>7 DEF Jobs, Asked, Admitted
<1> QED BY <1>1, <1>8 DEF IInv, Read

LEMMA FailKeeps ==
  ASSUME IInv, NEW p \in Process, Fail(p)
  PROVE  IInv'
<1>1. Rows' /\ Sums' /\ \A d, t : Refuses(d, t)' <=> Refuses(d, t)
  BY RowsUntouched DEF Fail
<1>2. Idle \in Job /\ Idle.phase = "idle"
  BY WindowAssumption DEF Idle, Job, NoReceipt, Receipt, Statuses
<1>3. job' = [job EXCEPT ![p] = Idle]
  BY DEF Fail
<1> HIDE DEF Idle
<1>4. Jobs'
  BY <1>1, <1>2, <1>3 DEF IInv, Jobs, Asked, Admitted
<1> QED BY <1>1, <1>4 DEF IInv, Fail

LEMMA TickKeeps ==
  ASSUME IInv, Tick
  PROVE  IInv'
<1>1. Rows' /\ Sums' /\ \A d, t : Refuses(d, t)' <=> Refuses(d, t)
  BY RowsUntouched DEF Tick
<1>2. Jobs'
  BY <1>1 DEF IInv, Jobs, Asked, Admitted, Tick
<1>3. now' \in 0..MaxNow
  BY WindowAssumption DEF IInv, Tick
<1> QED BY <1>1, <1>2, <1>3 DEF IInv

\* What a call commits is right.
LEMMA CommitIsRight ==
  ASSUME IInv, NEW p \in Process, Commit(p)
  PROVE  LET c == job[p].call
             d == Draft(c, job[p].at)
         IN  /\ c \in Call /\ ~Answered(c, ReceiptOf(c)) /\ job[p].at \in Nat /\ ~Refuses(c, job[p].at)
             /\ Right(c, d)
             /\ acct' = d.acct /\ receipts' = d.receipts /\ posted'.held = posted.held + d.held
             /\ billed' = [k \in Key |-> IF k = c.key THEN billed[k] + d.debits ELSE billed[k]]
<1> DEFINE c == job[p].call
           t == job[p].at
           d == Draft(c, t)
<1>1. Rows /\ job[p] \in Job /\ Asked(job[p]) /\ Admitted(job[p])
  BY DEF IInv, Jobs
<1>2. job[p].phase = "commit" /\ job[p].fresh /\ ReceiptOf(c) = job[p].seen
  BY DEF Commit, Unchanged
<1>3. c \in Call /\ ~Answered(c, ReceiptOf(c)) /\ ~Refuses(c, t)
  BY <1>1, <1>2 DEF Asked, Admitted
<1>4. t \in Nat
  BY <1>1, WindowAssumption DEF Job
<1>5. /\ acct' = d.acct /\ receipts' = d.receipts
      /\ posted' = [credits |-> posted.credits + d.credits, held |-> posted.held + d.held]
      /\ billed' = [k \in Key |-> IF k = c.key THEN billed[k] + d.debits ELSE billed[k]]
  BY DEF Commit
<1>6. posted'.held = posted.held + d.held
  <2> HIDE DEF d
  <2> QED BY <1>5
<1> HIDE DEF d, c, t
<1>7. Right(c, d)
  BY <1>1, <1>3, <1>4, DraftIsRight DEF d
<1> QED BY <1>3, <1>4, <1>5, <1>6, <1>7 DEF c, d, t

\* A key that is still to be answered has not been charged.
LEMMA KeyIsUncharged ==
  ASSUME Rows, NEW c \in Call, c.key \in Key, ~Answered(c, ReceiptOf(c))
  PROVE  receipts[c.key].charged = 0
<1>1. ReceiptOf(c) = receipts[c.key]
  BY KeysAreKeys DEF ReceiptOf
<1>2. receipts[c.key].status \notin {"charged", "settled"}
  BY <1>1 DEF Answered
<1> QED BY <1>2 DEF Rows, Uncharged

LEMMA CommitKeeps ==
  ASSUME IInv, NEW p \in Process, Commit(p)
  PROVE  IInv'
<1> DEFINE c == job[p].call
           d == Draft(c, job[p].at)
<1>1. /\ c \in Call /\ ~Answered(c, ReceiptOf(c))
      /\ Right(c, d)
      /\ acct' = d.acct /\ receipts' = d.receipts /\ posted'.held = posted.held + d.held
      /\ billed' = [k \in Key |-> IF k = c.key THEN billed[k] + d.debits ELSE billed[k]]
  BY CommitIsRight
<1>2. c.key \in Key => receipts[c.key].charged = 0
  BY <1>1, KeyIsUncharged DEF IInv
<1> HIDE DEF c, d
<1>3. /\ WellFormed(d) /\ d.held = CreditsOf(d.acct.holds) - CreditsOf(acct.holds)
      /\ Claims(d.acct.holds, d.receipts, NoKey)
  BY <1>1 DEF Right
<1>4. ASSUME NEW k \in Key
      PROVE  /\ receipts'[k].charged = IF k = c.key THEN d.debits ELSE receipts[k].charged
             /\ receipts'[k].status \notin {"charged", "settled"} => receipts'[k].charged = 0
  <2>1. CASE k = c.key
    BY <1>1, <2>1 DEF Right
  <2>2. CASE k # c.key
    <3>1. Lapses(receipts[k], receipts'[k])
      BY <1>1, <2>2 DEF Right
    <3>2. receipts[k] \in Receipt /\ (receipts[k].status \notin {"charged", "settled"} => receipts[k].charged = 0)
      BY DEF IInv, Rows, Stored, Uncharged
    <3>3. receipts'[k] = receipts[k] \/ (receipts'[k].charged = receipts[k].charged /\ receipts[k].status = "active")
      BY <3>1, <3>2 DEF Lapses, Receipt
    <3> QED BY <2>2, <3>2, <3>3
  <2> QED BY <2>1, <2>2
<1>5. Rows'
  <2>1. Stored'
    BY <1>1, <1>3 DEF Stored, WellFormed
  <2>2. Claims(acct.holds, receipts, NoKey)'
    BY <1>1, <1>3
  <2>3. Uncharged(receipts)'
    BY <1>4 DEF Uncharged
  <2> QED BY <2>1, <2>2, <2>3 DEF Rows
<1>6. Sums'
  <2>1. posted.held = CreditsOf(acct.holds) /\ CreditsOf(acct.holds) \in Nat /\ CreditsOf(d.acct.holds) \in Nat
    <3>1. acct.holds \in Holds /\ d.acct.holds \in Holds
      BY <1>3 DEF WellFormed, IInv, Rows, Stored, Sound, Account, Holds
    <3> QED BY <3>1, UnitsAreFinite DEF IInv, Sums
  <2>2. posted'.held = CreditsOf(d.acct.holds)
    BY <1>1, <1>3, <2>1
  <2>3. (posted.held = CreditsOf(acct.holds))'
    BY <1>1, <2>2
  <2>4. d.debits \in Nat /\ billed \in [Key -> Nat] /\ \A k \in Key : billed[k] = receipts[k].charged
    BY <1>3 DEF WellFormed, IInv, Sums, ChargedOnce
  <2>5. billed' \in [Key -> Nat]
    BY <1>1, <2>4
  <2>6. ASSUME NEW k \in Key PROVE billed'[k] = receipts'[k].charged
    <3>1. CASE k = c.key
      BY <1>1, <1>2, <1>4, <2>4, <3>1
    <3>2. CASE k # c.key
      BY <1>1, <1>4, <2>4, <3>2
    <3> QED BY <3>1, <3>2
  <2> QED BY <2>3, <2>5, <2>6 DEF Sums, ChargedOnce
<1>7. Jobs'
  <2>1. job' = [q \in Process |-> IF q = p THEN Idle ELSE [job[q] EXCEPT !.fresh = FALSE]]
    BY DEF Commit
  <2>2. Idle \in Job /\ Idle.phase = "idle"
    BY WindowAssumption DEF Idle, Job, NoReceipt, Receipt, Statuses
  <2> HIDE DEF Idle
  <2>3. ASSUME NEW q \in Process
        PROVE  job'[q] \in Job /\ Asked(job'[q]) /\ (job'[q].phase = "idle" \/ ~job'[q].fresh)
    <3>1. CASE q = p
      BY <2>1, <2>2, <3>1 DEF Asked
    <3>2. CASE q # p
      <4> DEFINE j == [job[q] EXCEPT !.fresh = FALSE]
      <4>1. job[q] \in Job /\ Asked(job[q]) /\ job'[q] = j
        BY <2>1, <3>2 DEF IInv, Jobs
      <4>2. /\ j \in Job /\ j.phase = job[q].phase /\ j.call = job[q].call /\ j.seen = job[q].seen
            /\ j.fresh = FALSE
        BY <4>1 DEF Job
      <4> HIDE DEF j
      <4> QED BY <4>1, <4>2 DEF Asked
    <3> QED BY <3>1, <3>2
  <2>4. job' \in [Process -> Job]
    <3>1. job' = [q \in Process |-> job'[q]]
      BY <2>1
    <3> QED BY <2>3, <3>1
  <2> QED BY <2>3, <2>4 DEF Jobs, Asked, Admitted
<1> QED BY <1>5, <1>6, <1>7 DEF IInv, Commit

LEMMA StepKeeps == IInv /\ [Next]_vars => IInv'
<1> SUFFICES ASSUME IInv, [Next]_vars PROVE IInv'
  OBVIOUS
<1>1. ASSUME NEW p \in Process, NEW c \in Call, Begin(p, c) PROVE IInv'
  BY <1>1, BeginKeeps
<1>2. ASSUME NEW p \in Process, Read(p) PROVE IInv'
  BY <1>2, ReadKeeps
<1>3. ASSUME NEW p \in Process, Commit(p) PROVE IInv'
  BY <1>3, CommitKeeps
<1>4. ASSUME NEW p \in Process, Fail(p) PROVE IInv'
  BY <1>4, FailKeeps
<1>5. CASE Tick
  BY <1>5, TickKeeps
<1>6. CASE UNCHANGED vars
  <2>1. Rows' /\ Sums' /\ \A d, t : Refuses(d, t)' <=> Refuses(d, t)
    BY <1>6, RowsUntouched DEF vars
  <2> QED BY <1>6, <2>1 DEF IInv, Jobs, Asked, Admitted, vars
<1> QED BY <1>1, <1>2, <1>3, <1>4, <1>5, <1>6 DEF Next

LEMMA Inductive == Spec => []IInv
BY Start, StepKeeps, PTL DEF Spec

-----------------------------------------------------------------------------
(* What follows.                                                           *)

\* The rows of an account are well formed (its additional credits never go below 0), and
\* its holds, its active reservations and the held credits of its statement agree, after
\* any calls, conflicts, crashes and runs of maintenance (sweepHolds(), reserve(), settle()
\* and release()).
THEOREM RowsStayTrue == Spec => []RowsAgree
<1>1. IInv => RowsAgree
  <2> SUFFICES ASSUME IInv PROVE RowsAgree
    OBVIOUS
  <2>1. /\ Sound(acct) /\ receipts \in [Key -> Receipt] /\ Claims(acct.holds, receipts, NoKey)
        /\ posted.held = CreditsOf(acct.holds) /\ billed \in [Key -> Nat] /\ now \in 0..MaxNow
    BY DEF IInv, Rows, Stored, Sums
  <2>2. posted.held \in Nat
    <3>1. acct.holds \in Holds
      BY <2>1 DEF Sound, Account, Holds
    <3> QED BY <2>1, <3>1, UnitsAreFinite
  <2>3. \A p \in Process : job[p].phase \in {"idle", "account", "commit"} /\ job[p].call \in Call \cup {Maintenance}
    BY DEF IInv, Jobs, Job
  <2>4. TypeOK
    BY <2>1, <2>2, <2>3 DEF TypeOK, Sound, Account, Hold, Receipt
  <2>5. HeldIsHolds
    BY <2>1 DEF HeldIsHolds
  <2>6. HoldsAreReceipts
    <3>1. \A h \in acct.holds : h.key # NoKey
      BY <2>1, KeysAreKeys DEF Sound, Account, Hold
    <3> QED BY <2>1, <3>1, KeysAreKeys DEF Claims, HoldsAreReceipts
  <2> QED BY <2>4, <2>5, <2>6 DEF RowsAgree
<1> QED BY <1>1, Inductive, PTL

\* All that was ever debited for a key is what its receipt says, however often the call was
\* retried, repeated or raced by another process with the same key (commitOnce()).
THEOREM ChargesAreOnce == Spec => []ChargedOnce
<1>1. IInv => ChargedOnce
  BY DEF IInv, Sums
<1> QED BY <1>1, Inductive, PTL

\* The answer a receipt gives is never taken back: a charge stays a charge, and a
\* reservation that was settled or released stays so (Answered() and the conditions of
\* the transaction).
THEOREM ReceiptsStay == Spec => ReceiptsAreFinal
<1>1. IInv /\ [Next]_vars => [KeepsReceipts]_receipts
  <2> SUFFICES ASSUME IInv, [Next]_vars, receipts' # receipts PROVE KeepsReceipts
    OBVIOUS
  <2>1. PICK p \in Process : Commit(p)
    BY DEF Next, vars, Begin, Read, Fail, Tick
  <2> DEFINE c == job[p].call
             d == Draft(c, job[p].at)
  <2>2. Right(c, d) /\ receipts' = d.receipts
    BY <2>1, CommitIsRight
  <2> HIDE DEF c, d
  <2>3. ASSUME NEW k \in Key PROVE Follows(receipts[k], receipts'[k])
    <3>1. CASE k = c.key
      BY <2>2, <3>1 DEF Right
    <3>2. CASE k # c.key
      <4>1. Lapses(receipts[k], receipts'[k]) /\ receipts[k] \in Receipt
        BY <2>2, <3>2 DEF Right, IInv, Rows, Stored
      <4> QED BY <4>1 DEF Lapses, Follows, Receipt
    <3> QED BY <3>1, <3>2
  <2> QED BY <2>3 DEF KeepsReceipts, Follows
<1> QED BY <1>1, Inductive, PTL DEF Spec, ReceiptsAreFinal

\* Whoever reserved can settle in full: no consume(), reserve() or settle() spends what the
\* active reservations of others hold (free()).
THEOREM HoldsAreCovered == Spec => HoldsStayCovered
<1>1. IInv /\ [Next]_vars => [KeepsHoldsCovered]_vars
  <2> SUFFICES ASSUME IInv, Next, NEW p \in Process, NEW op \in {"consume", "reserve", "settle"}, Commits(p, op)
               PROVE  \/ Covered(acct', job[p].at)
                      \/ op = "settle" /\ acct'.balance = acct.balance /\ billed' = billed
                      \/ op = "reserve" /\ job[p].call.credits = 0
    BY DEF KeepsHoldsCovered, Covered
  <2> DEFINE c == job[p].call
             t == job[p].at
             d == Draft(c, t)
  <2>1. job[p].phase = "commit" /\ c.op = op /\ acct' # acct /\ job'[p].phase = "idle"
    BY DEF Commits
  <2>2. Commit(p)
    <3>1. PICK q \in Process : Commit(q)
      BY <2>1 DEF Next, Begin, Read, Fail, Tick
    <3>2. CASE q = p
      BY <3>1, <3>2
    <3>3. CASE q # p
      <4>1. job'[p] = [job[p] EXCEPT !.fresh = FALSE] /\ job[p] \in Job
        BY <3>1, <3>3 DEF Commit, IInv, Jobs
      <4>2. job'[p].phase = job[p].phase
        BY <4>1 DEF Job
      <4> QED BY <2>1, <4>2
    <3> QED BY <3>2, <3>3
  <2>3. /\ c \in Call /\ ~Answered(c, ReceiptOf(c)) /\ t \in Nat /\ ~Refuses(c, t)
        /\ acct' = d.acct /\ billed' = [k \in Key |-> IF k = c.key THEN billed[k] + d.debits ELSE billed[k]]
    BY <2>2, CommitIsRight
  <2>4. Rows /\ billed \in [Key -> Nat]
    BY DEF IInv, Sums
  <2>5. CASE op = "consume"
    <3>1. d = Consumed(c, t)
      BY <2>1, <2>5 DEF Draft
    <3>2. Covered(d.acct, t)
      <4> HIDE DEF c, t, d
      <4> QED BY <2>1, <2>3, <2>4, <2>5, <3>1, ConsumeIsRight
    <3> QED BY <2>3, <3>2
  <2>6. CASE op = "reserve"
    <3>1. d = Reserved(c, t)
      BY <2>1, <2>6 DEF Draft
    <3>2. Covered(d.acct, t) \/ c.credits = 0
      <4> HIDE DEF c, t, d
      <4> QED BY <2>1, <2>3, <2>4, <2>6, <3>1, ReserveIsRight
    <3> QED BY <2>3, <2>6, <3>2
  <2>7. CASE op = "settle"
    <3>1. d = SettledCall(c, t)
      BY <2>1, <2>7 DEF Draft
    <3>2. Covered(d.acct, t) \/ (d.acct.balance = acct.balance /\ d.debits = 0)
      <4> HIDE DEF c, t, d
      <4> QED BY <2>1, <2>3, <2>4, <2>7, <3>1, SettleIsRight
    <3>3. CASE d.acct.balance = acct.balance /\ d.debits = 0
      <4>1. acct'.balance = acct.balance
        BY <2>3, <3>3
      <4>2. billed' = billed
        <5> HIDE DEF c, d
        <5> QED BY <2>3, <2>4, <3>3
      <4> QED BY <2>7, <4>1, <4>2
    <3> QED BY <2>3, <3>2, <3>3
  <2> QED BY <2>5, <2>6, <2>7
<1> QED BY <1>1, Inductive, PTL DEF Spec, HoldsStayCovered
=============================================================================
