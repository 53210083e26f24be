------------------------------ MODULE Credits ------------------------------
(***************************************************************************)
(* packages/subscriptions: the account of one user, its reservations and   *)
(* its statement, for one product of an unpaid plan (mode "none").         *)
(*                                                                         *)
(* A call reads the receipt of its idempotency key, then the account, and  *)
(* commits account, receipts and statement entries in one transaction that *)
(* holds only if neither changed since it was read.  retry() and a caller  *)
(* that asks again are both a call that begins anew; a transaction may     *)
(* also fail for other reasons, and a process may stop at any point.       *)
(*                                                                         *)
(* now is the clock, in units that divide every window; a call reads it    *)
(* once, with the account.  The statement is its running sums.             *)
(***************************************************************************)
EXTENDS Integers, FiniteSets, FiniteSetsExt

CONSTANTS
  Process,   \* concurrent requests, maintenance included
  Scheduler, \* the one process among them that is certain to run maintenance
  Call,      \* the calls they make: [op, key, ...]
  Plan,
  Window,    \* the usage windows of the product, with or without "short"
  Limit,     \* [Plan -> [Window -> credits]]
  Length,    \* [Window -> time]; the period is the plan's, the others the product's
  HoldTtl,   \* how long a reservation holds its credits
  MaxHolds,  \* MAX_ACTIVE_RESERVATIONS
  MaxNow,    \* bound of the clock
  Prompt,    \* whether windows are settled, and calls committed, before time moves on
  NoPlan, NoKey

Ops == {"change", "cancel", "consume", "record", "reserve", "settle", "release", "reset", "maintain"}

Key == {c.key : c \in Call} \ {NoKey}

ASSUME WindowAssumption ==
  /\ {"day", "week", "period"} \subseteq Window /\ Window \subseteq {"short", "day", "week", "period"}
  /\ Limit \in [Plan -> [Window -> Nat]] /\ Length \in [Window -> Nat \ {0}]
  /\ HoldTtl \in Nat /\ MaxNow \in Nat
ASSUME CallAssumption ==
  /\ NoPlan \notin Plan /\ Scheduler \in Process
  /\ \A c \in Call : c.op \in Ops /\ (c.key = NoKey <=> c.op \in {"cancel", "maintain"})
  /\ \A c \in Call : c.op = "change" => c.plan \in Plan
  /\ \A c \in Call : c.op = "consume" => c.credits \in Nat \ {0}
  /\ \A c \in Call : c.op \in {"record", "reserve", "settle"} => c.credits \in Nat

VARIABLES
  now,
  acct,      \* the row of SUB_ACCOUNTS
  receipts,  \* [Key -> the receipt of a call or a reservation]
  posted,    \* sums of credits and held over the entries of SUB_LEDGER
  billed,    \* [Key -> the credits debited by the entries that name it]
  job        \* [Process -> the call it is making]

vars == <<now, acct, receipts, posted, billed, job>>

-----------------------------------------------------------------------------
NoWindow == [plan |-> NoPlan, start |-> 0, allowance |-> 0]
Zero == [w \in Window |-> 0]
NoReceipt == [status |-> "none", credits |-> 0, charged |-> 0]
Maintenance == [op |-> "maintain", key |-> NoKey]
Idle == [phase |-> "idle", call |-> Maintenance, seen |-> NoReceipt,
         fresh |-> FALSE, at |-> 0]

\* open is ledgerWindows: the weekly window the statement granted last.
Init ==
  /\ now = 0
  /\ acct = [plan |-> NoPlan, start |-> 0, ends |-> 0, cancel |-> FALSE, used |-> Zero,
             from |-> Zero, balance |-> 0, holds |-> {}, open |-> NoWindow]
  /\ receipts = [k \in Key |-> NoReceipt]
  /\ posted = [credits |-> 0, held |-> 0]
  /\ billed = [k \in Key |-> 0]
  /\ job = [p \in Process |-> Idle]

Least(m, n) == IF m < n THEN m ELSE n
Positive(n) == IF n > 0 THEN n ELSE 0

-----------------------------------------------------------------------------
(* Windows: normalized(), allowanceLeft(), held() and free() at time t.    *)

\* The windows of a period start with it; the short one at its first use.
Anchored(s) == [w \in Window |-> IF w = "short" THEN s - Length[w] ELSE s]

Period(a, s) == [a EXCEPT !.start = s, !.ends = s + Length["period"], !.used = Zero, !.from = Anchored(s)]

Renewed(a, t) ==
  IF a.cancel \/ t < a.ends THEN a
  ELSE Period(a, a.start + ((t - a.start) \div Length["period"]) * Length["period"])

Over(a, w, t) == w # "period" /\ t >= a.from[w] + Length[w]

Rolled(a, t) ==
  [a EXCEPT
     !.used = [w \in Window |-> IF Over(a, w, t) THEN 0 ELSE @[w]],
     !.from = [w \in Window |->
       IF ~Over(a, w, t) THEN @[w]
       ELSE IF w = "short" THEN t ELSE @[w] + ((t - @[w]) \div Length[w]) * Length[w]]]

Normalized(a, t) == IF a.plan = NoPlan THEN a ELSE Rolled(Renewed(a, t), t)

Active(a, t) == a.plan # NoPlan /\ t < a.ends

AllowanceLeft(a, t) ==
  IF Active(a, t) THEN Positive(Min({Limit[a.plan][w] - a.used[w] : w \in Window})) ELSE 0

\* The credits of some holds, counted one by one.
Units(holds) == UNION {{h} \X (1..h.credits) : h \in holds}
CreditsOf(holds) == Cardinality(Units(holds))
Expired(a, t) == {h \in a.holds : t >= h.expiresAt}
Held(a, t) == CreditsOf(a.holds \ Expired(a, t))

\* Bug: active reservations do not count against a charge.
FreeIgnoringHolds(a, t) == [allowance |-> AllowanceLeft(a, t), balance |-> a.balance]

\* What a charge can use, net of the active holds, from the allowance first.
Free(a, t) ==
  LET allowance == AllowanceLeft(a, t)
      spendable == Positive(allowance + a.balance - Held(a, t))
  IN [allowance |-> Least(allowance, spendable), balance |-> spendable - Least(allowance, spendable)]

-----------------------------------------------------------------------------
(* The statement: rollover() between the window granted last and today's.  *)

Current(a, t) ==
  IF Active(a, t) THEN [plan |-> a.plan, start |-> a.from["week"], allowance |-> Limit[a.plan]["week"]]
  ELSE NoWindow

\* A weekly window ends after its length or with the period.
Following(a, s) ==
  Least(s + Length["week"],
        a.start + ((s - a.start) \div Length["period"] + 1) * Length["period"])

\* The idle windows between two times.
Skipped(a, first, last) ==
  LET skips[s \in first..last] == IF s = last THEN 0 ELSE 1 + skips[Least(Following(a, s), last)]
  IN skips[first]

\* Bug: the usage is read after normalized() reset the counters of a closed week.
WeekUsedNormalized(raw, s) ==
  LET a == Normalized(raw, now) IN IF a.from["week"] = s THEN a.used["week"] ELSE 0

\* The usage of a window is read from the counters as stored.
WeekUsed(raw, s) == IF raw.from["week"] = s THEN raw.used["week"] ELSE 0

Expiry(raw, a, t) ==
  LET old == raw.open
      next == Current(a, t)
  IN IF old = NoWindow \/ (next.plan = old.plan /\ next.start = old.start) THEN 0
     ELSE Positive(old.allowance - WeekUsed(raw, old.start))
          + (IF next.plan # old.plan THEN 0
             ELSE old.allowance * Skipped(a, Least(Following(a, old.start), next.start), next.start))

Allowance(raw, a, t) ==
  LET next == Current(a, t)
  IN IF next.plan = raw.open.plan /\ next.start = raw.open.start THEN 0 ELSE next.allowance

-----------------------------------------------------------------------------
(* A draft is what a call would commit: the account, the receipts, and the *)
(* credits, held credits and debits of its statement entries.              *)

\* settleWindows() for the account a made of the stored one.
Settled(a, t) ==
  [acct |-> [a EXCEPT !.open = Current(a, t)],
   receipts |-> receipts,
   credits |-> Allowance(acct, a, t) - Expiry(acct, a, t),
   held |-> 0,
   debits |-> 0]

Fresh(t) == Settled(Normalized(acct, t), t)

\* Bug: an expired hold is dropped and its receipt stays active.
SweptAccountOnly(d, t, skip) ==
  [d EXCEPT !.acct.holds = @ \ Expired(d.acct, t),
            !.held = @ - CreditsOf(Expired(d.acct, t))]

\* sweepHolds(): releases the expired holds; the receipt of skip is its caller's.
Swept(d, t, skip) ==
  LET keys == {h.key : h \in Expired(d.acct, t)} \ {skip}
  IN [d EXCEPT !.acct.holds = @ \ Expired(d.acct, t),
               !.held = @ - CreditsOf(Expired(d.acct, t)),
               !.receipts = [k \in Key |-> IF k \in keys /\ @[k].status = "active"
                                             THEN [@[k] EXCEPT !.status = "expired"] ELSE @[k]]]

Charge(d, allowance, balance) ==
  [d EXCEPT !.acct.balance = @ - balance,
            !.acct.used = [w \in Window |-> @[w] + allowance],
            !.credits = @ - allowance - balance,
            !.debits = @ + allowance + balance]

Receive(d, k, status, credits) ==
  [d EXCEPT !.receipts[k] = [status |-> status, credits |-> credits, charged |-> d.debits]]

-----------------------------------------------------------------------------
(* The calls: what each refuses, and its draft.                            *)

Continuing(t) == acct.plan # NoPlan /\ t < acct.ends

Changed(c, t) ==
  LET next == [acct EXCEPT !.plan = c.plan, !.cancel = FALSE]
  IN Receive(Settled(Normalized(IF Continuing(t) THEN next ELSE Period(next, t), t), t), c.key, "changed", 0)

Canceled(t) ==
  [acct |-> [acct EXCEPT !.cancel = TRUE], receipts |-> receipts, credits |-> 0, held |-> 0, debits |-> 0]

Consumed(c, t) ==
  LET allowance == Least(c.credits, Free(Fresh(t).acct, t).allowance)
  IN Receive(Charge(Fresh(t), allowance, c.credits - allowance), c.key, "charged", c.credits)

Unaffordable(c, t) ==
  LET free == Free(Fresh(t).acct, t) IN c.credits > free.allowance + free.balance

Recorded(c, t) ==
  Receive([Fresh(t) EXCEPT !.acct.balance = @ + c.credits, !.credits = @ + c.credits],
          c.key, "recorded", c.credits)

Reserved(c, t) ==
  Receive([Swept(Fresh(t), t, NoKey) EXCEPT
             !.acct.holds = @ \cup {[key |-> c.key, credits |-> c.credits, expiresAt |-> t + HoldTtl]},
             !.held = @ + c.credits],
          c.key, "active", c.credits)

Unhold(d, k) ==
  LET mine == {h \in d.acct.holds : h.key = k}
  IN [d EXCEPT !.acct.holds = @ \ mine, !.held = @ - CreditsOf(mine)]

Unheld(c, t) == Unhold(Swept(Fresh(t), t, c.key), c.key)

\* What settle() takes from the balance: what is left uncovered is not charged.
FromBalance(used, allowance, free) == Least(used - allowance, free.balance)

SettledCall(c, t) ==
  LET free == Free(Unheld(c, t).acct, t)
      allowance == Least(c.credits, free.allowance)
  IN Receive(Charge(Unheld(c, t), allowance, FromBalance(c.credits, allowance, free)),
             c.key, "settled", receipts[c.key].credits)

Released(c, t) ==
  Receive(Unheld(c, t), c.key,
          IF c.key \in {h.key : h \in acct.holds \ Expired(acct, t)} THEN "released" ELSE "expired",
          receipts[c.key].credits)

\* reset() posts the change of what is left, the least over the windows.
Reset(c, t) ==
  LET a == Fresh(t).acct
      zeroed == [a EXCEPT !.used = [w \in Window |-> IF w \in c.scope THEN 0 ELSE @[w]]]
  IN Receive([Fresh(t) EXCEPT !.acct = zeroed, !.credits = @ + AllowanceLeft(zeroed, t) - AllowanceLeft(a, t)],
             c.key, "reset", 0)

Maintained(t) == Swept(Fresh(t), t, NoKey)

\* Bug: expired holds alone are no reason to write the account.
IdleAccountWindowsOnly(t) ==
  /\ acct.plan = NoPlan \/ acct.cancel \/ t < acct.ends
  /\ Allowance(acct, Normalized(acct, t), t) = 0 /\ Expiry(acct, Normalized(acct, t), t) = 0

\* maintenance() writes an account to renew it, to close a window or to sweep holds.
IdleAccount(t) ==
  /\ acct.plan = NoPlan \/ acct.cancel \/ t < acct.ends
  /\ Allowance(acct, Normalized(acct, t), t) = 0 /\ Expiry(acct, Normalized(acct, t), t) = 0
  /\ Expired(acct, t) = {}

Draft(c, t) ==
  CASE c.op = "change"   -> Changed(c, t)
    [] c.op = "cancel"   -> Canceled(t)
    [] c.op = "consume"  -> Consumed(c, t)
    [] c.op = "record"   -> Recorded(c, t)
    [] c.op = "reserve"  -> Reserved(c, t)
    [] c.op = "settle"   -> SettledCall(c, t)
    [] c.op = "release"  -> Released(c, t)
    [] c.op = "reset"    -> Reset(c, t)
    [] c.op = "maintain" -> Maintained(t)

Refuses(c, t) ==
  \/ c.op = "change" /\ Continuing(t) /\ acct.plan = c.plan
  \/ c.op = "cancel" /\ (acct.plan = NoPlan \/ acct.cancel)
  \/ c.op = "reset" /\ acct.plan = NoPlan
  \/ c.op = "maintain" /\ IdleAccount(t)
  \/ c.op \in {"consume", "reserve"} /\ (~Active(Normalized(acct, t), t) \/ Unaffordable(c, t))
  \/ c.op = "reserve" /\ Cardinality(acct.holds \ Expired(acct, t)) >= MaxHolds

\* Bug: settle() does not tell a released reservation from an expired one.
AnsweredUnlessReleased(c, r) ==
  CASE c.op = "settle"  -> r.status \in {"none", "settled"}
    [] c.op = "release" -> r.status # "active"
    [] OTHER            -> r.status # "none"

\* The receipt alone answers the call: a replay, a 404 or a 409.
Answered(c, r) ==
  CASE c.op = "settle"  -> r.status \notin {"active", "expired"}
    [] c.op = "release" -> r.status # "active"
    [] OTHER            -> r.status # "none"

-----------------------------------------------------------------------------
(* The steps of a call.                                                    *)

ReceiptOf(c) == IF c.key = NoKey THEN NoReceipt ELSE receipts[c.key]

Begin(p, c) ==
  /\ job[p].phase = "idle"
  /\ ~Answered(c, ReceiptOf(c))
  /\ job' = [job EXCEPT ![p] = [Idle EXCEPT !.phase = "account", !.call = c, !.seen = ReceiptOf(c)]]
  /\ UNCHANGED <<now, acct, receipts, posted, billed>>

Read(p) ==
  /\ job[p].phase = "account"
  /\ job' = [job EXCEPT ![p] = IF Refuses(job[p].call, now) THEN Idle
                               ELSE [@ EXCEPT !.phase = "commit", !.fresh = TRUE, !.at = now]]
  /\ UNCHANGED <<now, acct, receipts, posted, billed>>

\* Bug: the receipt is written whatever it became since it was read.
UnchangedAccount(j) == j.fresh

\* Neither the account nor the receipt changed since it was read.
Unchanged(j) == j.fresh /\ ReceiptOf(j.call) = j.seen

Commit(p) ==
  /\ job[p].phase = "commit"
  /\ Unchanged(job[p])
  /\ \E d \in {Draft(job[p].call, job[p].at)} :
       /\ acct' = d.acct
       /\ receipts' = d.receipts
       /\ posted' = [credits |-> posted.credits + d.credits, held |-> posted.held + d.held]
       /\ billed' = [k \in Key |-> IF k = job[p].call.key THEN billed[k] + d.debits ELSE billed[k]]
  /\ job' = [q \in Process |-> IF q = p THEN Idle ELSE [job[q] EXCEPT !.fresh = FALSE]]
  /\ UNCHANGED now

\* A Conflict, another error, or the end of the process.
Fail(p) ==
  /\ job[p].phase # "idle"
  /\ job' = [job EXCEPT ![p] = Idle]
  /\ UNCHANGED <<now, acct, receipts, posted, billed>>

\* Maintenance keeps up with the windows, and no commit is older than a unit of time.
UpToDate ==
  /\ acct.open = NoWindow \/ now < Following(acct, acct.open.start)
  /\ \A p \in Process : job[p].phase = "commit" => job[p].at = now

Tick ==
  /\ now < MaxNow
  /\ Prompt => UpToDate
  /\ now' = now + 1
  /\ UNCHANGED <<acct, receipts, posted, billed, job>>

Next ==
  \/ \E p \in Process : (\E c \in Call : Begin(p, c)) \/ Read(p) \/ Commit(p) \/ Fail(p)
  \/ Tick

Spec == Init /\ [][Next]_vars

\* Every call of the scheduler's process ends; it runs maintenance for ever, and one
\* run in so many gets through.
FairSpec ==
  /\ Spec
  /\ WF_vars(Read(Scheduler) \/ Commit(Scheduler) \/ Fail(Scheduler))
  /\ SF_vars(Begin(Scheduler, Maintenance))
  /\ SF_vars(job[Scheduler].call = Maintenance /\ Read(Scheduler))
  /\ SF_vars(job[Scheduler].call = Maintenance /\ Commit(Scheduler))

-----------------------------------------------------------------------------
Statuses == {"none", "charged", "recorded", "changed", "reset", "active", "settled", "released", "expired"}

(* Well-formed rows; in particular additional credits never go negative    *)
(* (settle() charges no more than is covered).                             *)
TypeOK ==
  /\ now \in 0..MaxNow
  /\ acct.plan \in Plan \cup {NoPlan} /\ acct.start \in Nat /\ acct.ends \in Nat
  /\ acct.balance \in Nat /\ acct.used \in [Window -> Nat] /\ acct.from \in [Window -> Int]
  /\ acct.holds \subseteq [key : Key, credits : Nat, expiresAt : Nat]
  /\ receipts \in [Key -> [status : Statuses, credits : Nat, charged : Nat]]
  /\ posted.held \in Nat
  /\ billed \in [Key -> Nat]
  /\ \A p \in Process : job[p].phase \in {"idle", "account", "commit"} /\ job[p].call \in Call \cup {Maintenance}

(* The statement and the balances never disagree (ledger.ts; check() of    *)
(* reservations.test.mjs): its credits sum to the weekly allowance left of *)
(* the open window plus the additional credits.                            *)
StatementIsBalance ==
  posted.credits = acct.open.allowance - (IF acct.open = NoWindow THEN 0 ELSE WeekUsed(acct, acct.open.start))
                   + acct.balance

(* The held column of the statement sums to the holds of the account,      *)
(* whichever of settle, release and expiry ended each of them.             *)
HeldIsHolds == posted.held = CreditsOf(acct.holds)

(* Holds and reservations tell the same story: the account holds credits   *)
(* for exactly the active receipts, in the reserved amount.                *)
HoldsAreReceipts ==
  /\ \A h \in acct.holds : receipts[h.key].status = "active" /\ receipts[h.key].credits = h.credits
  /\ \A k \in Key : receipts[k].status = "active" => \E h \in acct.holds : h.key = k

(* What the rows of an account say of its holds agrees.                    *)
RowsAgree == TypeOK /\ HeldIsHolds /\ HoldsAreReceipts

(* A retried or repeated call never charges twice: all debits that name a  *)
(* key come to what its receipt says was charged.                          *)
ChargedOnce == \A k \in Key : billed[k] = receipts[k].charged

(* What a receipt says is final, but for a reservation: active until it is *)
(* settled, released or expired, and an expired one may still be settled.  *)
KeepsReceipts ==
  \A k \in Key :
    \/ receipts'[k] = receipts[k]
    \/ receipts[k].status = "none"
    \/ receipts[k].status = "active" /\ receipts'[k].status \in {"settled", "released", "expired"}
    \/ receipts[k].status = "expired" /\ receipts'[k].status = "settled"

\* Every step keeps the receipts that ended (see above).
ReceiptsAreFinal == [][KeepsReceipts]_receipts

Commits(p, op) == job[p].phase = "commit" /\ job[p].call.op = op /\ acct' # acct /\ job'[p].phase = "idle"

(* No charge and no reservation spends what another active reservation     *)
(* holds: whoever reserved can settle in full.  An estimate may come to no *)
(* credits, and its reservation then takes none.                           *)
KeepsHoldsCovered ==
  \A p \in Process, op \in {"consume", "reserve", "settle"} :
    Commits(p, op) /\ Held(acct', job[p].at) > 0 =>
      \/ Held(acct', job[p].at) <= AllowanceLeft(acct', job[p].at) + acct'.balance
      \/ op = "settle" /\ acct'.balance = acct.balance /\ billed' = billed
      \/ op = "reserve" /\ job[p].call.credits = 0

\* Every step keeps the holds covered (see above).
HoldsStayCovered == [][KeepsHoldsCovered]_vars

(* A crash never leaves credits blocked (subscriptions-reservations.md):   *)
(* maintenance records the release of every hold that expired, if nobody   *)
(* settles or releases it.                                                 *)
ExpiredHoldsAreReleased ==
  \A k \in Key : (\E h \in acct.holds : h.key = k /\ now >= h.expiresAt) ~> (\A h \in acct.holds : h.key # k)

(* Cancelling keeps the access the user has until the period ends (the     *)
(* statement entry cancel() writes says so).                               *)
CancelKeepsAccess ==
  [][\A p \in Process :
       Commits(p, "cancel") /\ Active(Normalized(acct, job[p].at), job[p].at)
         => Active(Normalized(acct', job[p].at), job[p].at)]_vars
=============================================================================
