------------------------------ MODULE Billing -------------------------------
(***************************************************************************)
(* packages/subscriptions and packages/subscriptions-stripe: the paid      *)
(* plans of one user.  Stripe keeps the subscription; the account row      *)
(* follows it.                                                             *)
(*                                                                         *)
(* A billing request (change or cancel) records its idempotency key, asks  *)
(* Stripe, records the answer and synchronizes; webhooks and the profile   *)
(* page synchronize too.  Between any two of these steps other requests    *)
(* run, the process may stop, and an answer of Stripe may be lost although *)
(* its effect is there.  Stripe forgets an idempotency key after KeyLife.  *)
(*                                                                         *)
(* A conditional write fails when the account row was written since it was *)
(* read.  Such a request changes nothing any more, so the write that makes *)
(* it fail ends it (Conflicts).  version counts the changes at Stripe;     *)
(* change n sends webhook event n.                                         *)
(***************************************************************************)
EXTENDS Integers, FiniteSets, Bags

CONSTANTS
  Process,     \* concurrent requests
  Request,     \* the billing requests of the user: [key, action, plan]
  Plan,
  Subs,        \* ids of subscriptions at Stripe, 1..n
  Delivered,   \* the changes whose webhook is delivered, as often as it takes
  Refuse,      \* age beyond which a pending operation is not retried
  KeyLife,     \* how long Stripe remembers an idempotency key
  MaxVersion,  \* bound of the changes at Stripe
  MaxUsed,     \* bound of the charges in a period
  MaxNow,      \* bound of the clock
  NoPlan, NoKey

Key == {r.key : r \in Request}

\* Subscriptions are numbered from 1 on; an operation is not retried any more when Stripe
\* forgets its key (23 hours against 24).
BillingAssumption ==
  /\ IsFiniteSet(Subs) /\ Subs \subseteq Nat \ {0} /\ Delivered \subseteq Nat \ {0}
  /\ \A r \in Request : r.action \in {"change", "cancel"}
  /\ Refuse \in Nat /\ KeyLife \in Nat /\ Refuse < KeyLife
  /\ MaxVersion \in Nat /\ MaxUsed \in Nat /\ NoKey \notin Key
ASSUME BillingAssumption
Event == Delivered

VARIABLES
  now,
  acct,    \* the row of SUB_ACCOUNTS; as is the version it was last synchronized with
  ops,     \* [Key -> the row of SUB_BILLING_OP]
  stripe,  \* [Subs -> the subscription at Stripe]
  version, \* how often a subscription changed at Stripe
  memo,    \* [Key -> what Stripe remembers of a request with this key]
  made,    \* [Key -> how often Stripe carried out a request with this key]
  seen,    \* [Event -> "no", or how its row of SUB_EVENTS came about: "applied" or "early"]
  posted,  \* the billing entries of the statement and the count of cancellations
  sold,    \* the bag of <<subscription, period, plan>> that Stripe began
  charges, \* [period -> the charges accepted in it]
  job      \* [Process -> its request]

vars == <<now, acct, ops, stripe, version, memo, made, seen, posted, sold, charges, job>>
atStripe == <<stripe, version, sold>>

-----------------------------------------------------------------------------
NoOp == [state |-> "none", request |-> NoKey, at |-> 0]
NoSub == [status |-> "none", plan |-> NoPlan, period |-> 0, cancel |-> FALSE]
NoMemo == [action |-> "none", sub |-> 0, at |-> 0]
NoSnapshot == [sub |-> NoSub, version |-> 0]
Idle == [phase |-> "idle", request |-> NoKey, event |-> 0,
         sub |-> 0, snapshot |-> NoSnapshot]

Period == 0..MaxVersion
Live == {"active", "past_due", "incomplete"}

Init ==
  /\ now = 0
  /\ acct = [customer |-> FALSE, sub |-> 0, op |-> NoKey, plan |-> NoPlan, status |-> "none",
             period |-> 0, cancel |-> FALSE, used |-> 0, as |-> 0]
  /\ ops = [k \in Key |-> NoOp]
  /\ stripe = [s \in Subs |-> NoSub] /\ version = 0
  /\ memo = [k \in Key |-> NoMemo]
  /\ made = [k \in Key |-> 0]
  /\ seen = [e \in Event |-> "no"]
  /\ posted = [plans |-> EmptyBag, canceled |-> 0]
  /\ sold = EmptyBag
  /\ charges = [n \in Period |-> 0]
  /\ job = [p \in Process |-> Idle]

Go(p, phase) == job' = [job EXCEPT ![p] = IF phase = "idle" THEN Idle ELSE [@ EXCEPT !.phase = phase]]

\* Those who will write the account row on the condition that it is as they read it.
Conditional(j) == j.phase \in {"claim", "write"} \/ (j.phase = "snapshot" /\ j.sub # 0)

\* Bug: the row is written whatever became of it.
ConflictsNever(j) == j

\* A write of the account row ends them.
Conflicts(j) == [q \in Process |-> IF Conditional(j[q]) THEN Idle ELSE j[q]]

-----------------------------------------------------------------------------
(* billingOperation(): recording the request.                              *)

\* Bug: a second operation may begin while one is pending.
AdmitsAnother(r) ==
  /\ ops[r.key].state # "none" => ops[r.key].request = r
  /\ ops[r.key].state # "done"

\* A key names one request (its fingerprint), and one operation is pending at a time.
Admits(r) ==
  /\ ops[r.key].state # "none" => ops[r.key].request = r
  /\ ops[r.key].state # "done"
  /\ acct.op \in {NoKey, r.key}

\* Bug: an operation is retried however old it is.
AlwaysTimely(k) == TRUE

\* An operation that began too long ago needs reconciliation.
Timely(k) == now - ops[k].at <= Refuse

\* cancel() without a paid subscription is the unpaid one, which module Credits has.
Begin(p, r) ==
  /\ job[p].phase = "idle" /\ Admits(r)
  /\ r.action = "cancel" => acct.sub # 0
  /\ ops[r.key].state = "started" => Timely(r.key)
  /\ job' = [job EXCEPT ![p] = [Idle EXCEPT !.request = r,
               !.phase = IF ops[r.key].state = "none" THEN "claim" ELSE "customer"]]
  /\ UNCHANGED <<now, acct, ops, atStripe, memo, made, seen, posted, charges>>

Claim(p) ==
  /\ job[p].phase = "claim"
  /\ LET r == job[p].request
     IN /\ ops' = [ops EXCEPT ![r.key] = [state |-> "started", request |-> r, at |-> now]]
        /\ acct' = [acct EXCEPT !.op = r.key]
        /\ job' = [Conflicts(job) EXCEPT ![p] = [job[p] EXCEPT !.phase = "customer"]]
  /\ UNCHANGED <<now, atStripe, memo, made, seen, posted, charges>>

\* provider.customer() answers the same id for the same user; the row of SUB_CUSTOMERS is
\* written with the account.
Customer(p) ==
  /\ job[p].phase = "customer" /\ ~acct.customer
  /\ acct' = [acct EXCEPT !.customer = TRUE]
  /\ job' = Conflicts(job)
  /\ UNCHANGED <<now, ops, atStripe, memo, made, seen, posted, charges>>

\* Reads the account once more, and the request as it was recorded.
ReadRequest(p) ==
  /\ job[p].phase = "customer" /\ acct.customer
  /\ job' = [job EXCEPT ![p].phase = "call", ![p].sub = acct.sub]
  /\ UNCHANGED <<now, acct, ops, atStripe, memo, made, seen, posted, charges>>

-----------------------------------------------------------------------------
(* Stripe.                                                                 *)

\* A subscription changes: the next version, and what was sold by it.
Becomes(s, sub) ==
  /\ version < MaxVersion
  /\ stripe' = [stripe EXCEPT ![s] = sub]
  /\ version' = version + 1
  /\ sold' = IF <<sub.period, sub.plan>> # <<stripe[s].period, stripe[s].plan>>
               THEN sold (+) SetToBag({<<s, sub.period, sub.plan>>}) ELSE sold

Unused(s) == stripe[s].status = "none" /\ \A t \in Subs : t < s => stripe[t].status # "none"

\* StripeBilling.change: a subscription that is over is replaced by a new one.
Replaces(s) == s = 0 \/ stripe[s].status = "canceled"

\* The first payment is confirmed later (default_incomplete), unless nothing is due.
Creates(s, plan) ==
  /\ Unused(s)
  /\ \E status \in {"incomplete", "active"} :
       Becomes(s, [status |-> status, plan |-> plan, period |-> version + 1, cancel |-> FALSE])

\* A new price holds once it is paid (pending_if_incomplete): now, or not at all.
Updates(s, plan) ==
  /\ stripe[s].status \in Live
  /\ \E next \in {plan, stripe[s].plan} : Becomes(s, [stripe[s] EXCEPT !.plan = next])

Effect(r, known, s) ==
  CASE r.action = "cancel" -> s = known /\ stripe[s].status \in Live /\ Becomes(s, [stripe[s] EXCEPT !.cancel = TRUE])
    [] r.action = "change" -> IF Replaces(known) THEN Creates(s, r.plan) ELSE s = known /\ Updates(s, r.plan)

\* The kind of request Stripe sees; a key that is used for another kind is an error.
Asks(r, known) ==
  IF r.action = "cancel" THEN "cancel" ELSE IF Replaces(known) THEN "create" ELSE "update"

Remembers(k) == memo[k].action # "none" /\ now - memo[k].at < KeyLife

Answers(p, s) ==
  \/ job' = [job EXCEPT ![p].phase = "finalize", ![p].sub = s]
  \/ Go(p, "idle")

Call(p) ==
  /\ job[p].phase = "call"
  /\ LET r == job[p].request
         known == job[p].sub
     IN \/ /\ Remembers(r.key) /\ memo[r.key].action = Asks(r, known)
           /\ Answers(p, memo[r.key].sub)
           /\ UNCHANGED <<atStripe, memo, made>>
        \/ /\ ~Remembers(r.key)
           /\ \E s \in Subs :
                /\ Effect(r, known, s)
                /\ memo' = [memo EXCEPT ![r.key] = [action |-> Asks(r, known), sub |-> s, at |-> now]]
                /\ made' = [made EXCEPT ![r.key] = @ + 1]
                /\ Answers(p, s)
  /\ UNCHANGED <<now, acct, ops, seen, posted, charges>>

\* What Stripe does by itself: payments succeed or fail, periods end, subscriptions are deleted.
Pays(s) == stripe[s].status \in {"incomplete", "past_due"} /\ Becomes(s, [stripe[s] EXCEPT !.status = "active"])
Renews(s) ==
  /\ stripe[s].status = "active" /\ ~stripe[s].cancel
  /\ \E status \in {"active", "past_due"} :
       Becomes(s, [stripe[s] EXCEPT !.status = status, !.period = version + 1])
Expires(s) ==
  /\ stripe[s].status \in Live
  /\ stripe[s].cancel \/ stripe[s].status # "active"
  /\ Becomes(s, [stripe[s] EXCEPT !.status = "canceled"])

Remote ==
  /\ \E s \in Subs : Pays(s) \/ Renews(s) \/ Expires(s)
  /\ UNCHANGED <<now, acct, ops, memo, made, seen, posted, charges, job>>

-----------------------------------------------------------------------------
(* billingOperation(): recording the answer.                               *)

Synchronizes(p) == job' = [job EXCEPT ![p] = [Idle EXCEPT !.phase = "sync"]]

Finalize(p) ==
  /\ job[p].phase = "finalize"
  /\ LET k == job[p].request.key
     IN CASE ops[k].state = "done" -> Synchronizes(p) /\ UNCHANGED <<acct, ops>>
          [] ops[k].state # "done" /\ acct.op # k -> Go(p, "idle") /\ UNCHANGED <<acct, ops>>
          [] OTHER ->
               /\ ops' = [ops EXCEPT ![k].state = "done"]
               /\ acct' = [acct EXCEPT !.op = NoKey,
                                        !.sub = IF job[p].request.action = "change" THEN job[p].sub ELSE @]
               /\ job' = [Conflicts(job) EXCEPT ![p] = [Idle EXCEPT !.phase = "sync"]]
  /\ UNCHANGED <<now, atStripe, memo, made, seen, posted, charges>>

-----------------------------------------------------------------------------
(* sync().                                                                 *)

\* The user's page begins here; requests and webhooks come to it.
SyncRead(p) ==
  /\ job[p].phase \in {"idle", "sync"} /\ acct.customer
  /\ job' = [job EXCEPT ![p].phase = "snapshot", ![p].sub = acct.sub]
  /\ UNCHANGED <<now, acct, ops, atStripe, memo, made, seen, posted, charges>>

\* Without a subscription the snapshot has nothing to write.
Snapshot(p) ==
  /\ job[p].phase = "snapshot"
  /\ IF job[p].sub = 0
       THEN Go(p, IF job[p].event = 0 THEN "idle" ELSE "record")
       ELSE job' = [job EXCEPT ![p].phase = "write",
                      ![p].snapshot = [sub |-> stripe[job[p].sub], version |-> version]]
  /\ UNCHANGED <<now, acct, ops, atStripe, memo, made, seen, posted, charges>>

\* Bug: usage starts again with every synchronization.
RenewedAlways(sub) == TRUE

Renewed(sub) == acct.period # sub.period

\* A paid period, or another plan in it, is an entry of the statement.
Starts(sub) == sub.status = "active" /\ (Renewed(sub) \/ acct.plan # sub.plan)

\* Bug: the end of a subscription counts as another cancellation.
CancelsTwice(sub) ==
  \/ sub.cancel /\ ~acct.cancel
  \/ sub.status = "canceled" /\ acct.status # "canceled"

Cancels(sub) ==
  \/ sub.cancel /\ ~acct.cancel
  \/ sub.status = "canceled" /\ acct.status # "canceled" /\ ~acct.cancel

SyncWrite(p) ==
  /\ job[p].phase = "write"
  /\ LET sub == job[p].snapshot.sub
     IN /\ acct' = [acct EXCEPT !.plan = sub.plan, !.status = sub.status, !.period = sub.period,
                                !.cancel = sub.cancel, !.as = job[p].snapshot.version,
                                !.used = IF Renewed(sub) THEN 0 ELSE @]
        /\ posted' = [plans |-> IF Starts(sub)
                        THEN posted.plans (+) SetToBag({<<job[p].sub, sub.period, sub.plan>>})
                        ELSE posted.plans,
                      canceled |-> posted.canceled + IF Cancels(sub) THEN 1 ELSE 0]
        /\ job' = [Conflicts(job) EXCEPT ![p] =
                     IF job[p].event = 0 THEN Idle ELSE [job[p] EXCEPT !.phase = "record", !.snapshot = NoSnapshot]]
  /\ UNCHANGED <<now, ops, atStripe, memo, made, seen, charges>>

-----------------------------------------------------------------------------
(* webhook().                                                              *)

Webhook(p, e) ==
  /\ job[p].phase = "idle"
  /\ e <= version /\ seen[e] = "no" /\ acct.customer
  /\ job' = [job EXCEPT ![p] = [Idle EXCEPT !.phase = "sync", !.event = e]]
  /\ UNCHANGED <<now, acct, ops, atStripe, memo, made, seen, posted, charges>>

Record(p) ==
  /\ job[p].phase = "record"
  /\ seen' = [seen EXCEPT ![job[p].event] =
                IF @ # "no" THEN @ ELSE IF job[p].sub = 0 THEN "early" ELSE "applied"]
  /\ Go(p, "idle")
  /\ UNCHANGED <<now, acct, ops, atStripe, memo, made, posted, charges>>

-----------------------------------------------------------------------------
\* A charge of the plan's allowance (consume, of which module Credits has the rest).
Consume ==
  /\ acct.status = "active" /\ acct.used < MaxUsed
  /\ acct' = [acct EXCEPT !.used = @ + 1]
  /\ charges' = [charges EXCEPT ![acct.period] = @ + 1]
  /\ job' = Conflicts(job)
  /\ UNCHANGED <<now, ops, atStripe, memo, made, seen, posted>>

\* An error, a refusal of Stripe or the end of the process.
Fail(p) ==
  /\ job[p].phase # "idle"
  /\ Go(p, "idle")
  /\ UNCHANGED <<now, acct, ops, atStripe, memo, made, seen, posted, charges>>

\* A request takes less than the time between Refuse and KeyLife; time matters to a pending
\* operation alone.
Tick ==
  /\ now < MaxNow /\ \E k \in Key : ops[k].state = "started"
  /\ \A p \in Process : job[p].phase \notin {"claim", "customer", "call"}
  /\ now' = now + 1
  /\ UNCHANGED <<acct, ops, atStripe, memo, made, seen, posted, charges, job>>

Next ==
  \/ \E p \in Process :
       \/ \E r \in Request : Begin(p, r)
       \/ Claim(p) \/ Customer(p) \/ ReadRequest(p) \/ Call(p) \/ Finalize(p)
       \/ SyncRead(p) \/ Snapshot(p) \/ SyncWrite(p)
       \/ \E e \in Event : Webhook(p, e)
       \/ Record(p) \/ Fail(p)
  \/ Remote \/ Consume \/ Tick

Spec == Init /\ [][Next]_vars

-----------------------------------------------------------------------------
(* Properties.                                                             *)

\* Types, at most one operation pending, and an answer recorded only for an operation that
\* was begun.
TypeOK ==
  /\ acct.op \in Key \cup {NoKey} /\ acct.sub \in Subs \cup {0}
  /\ acct.period \in Period /\ acct.used \in 0..MaxUsed /\ acct.as \in 0..version
  /\ \A k \in Key : ops[k].state = "started" => acct.op = k
  /\ \A k \in Key : ops[k].state = "none" => made[k] = 0

\* Whatever is retried, lost, run twice at a time or left for days, Stripe carries out a
\* billing request at most once.
BilledOnce == \A k \in Key : made[k] <= 1

\* At most one operation is pending, an answer is that of an operation that was begun, and a
\* request is billed once (Subscriptions.operation, replayOperation).
OperationsBillOnce == TypeOK /\ BilledOnce

\* The user never has two subscriptions that may be charged (billingOperation, change).
OneSubscription == Cardinality({s \in Subs : stripe[s].status \in Live}) <= 1

\* Synchronizations that overlap never put an older state of Stripe over a newer one (sync).
GoesForward == acct'.as >= acct.as
NeverGoesBack == [][GoesForward]_vars

\* An event that is answered and recorded is either in the account, or it came before the
\* account knew its subscription; it is not delivered again (webhook).
SeenEventsAreApplied == \A e \in Event : seen[e] = "applied" => acct.as >= e

\* The allowance used is what was charged since the period began: no synchronization loses a
\* charge that runs beside it, or keeps the usage of another period.
UsageIsCharged == acct.used = charges[acct.period]

\* The statement shows a paid period or a change of plan, and a cancellation is counted, at
\* most as often as it happened.
StatedAtMostOnce ==
  /\ posted.plans \sqsubseteq sold
  /\ posted.canceled <= Cardinality({s \in Subs : stripe[s].cancel \/ stripe[s].status = "canceled"})

\* However synchronizations, charges and renewals cross, the usage of a period is what was
\* charged in it, and the statement shows what happened at most once (sync, consume).
RenewalsAreCounted == UsageIsCharged /\ StatedAtMostOnce

\* Every period the account is active in is on the statement.
PaidPeriodsAreStated ==
  acct.status = "active" => BagIn(<<acct.sub, acct.period, acct.plan>>, posted.plans)
=============================================================================
