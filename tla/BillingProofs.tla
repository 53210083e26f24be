---------------------------- MODULE BillingProofs ----------------------------
(* What Billing promises of operations, subscriptions, events and the      *)
(* statement, for any number of requests, of subscriptions and of changes  *)
(* at Stripe, what Notices promises of mail, for any number of notices and *)
(* of runs of maintenance(), and what Catalog promises of the plan that is *)
(* sold, for any number of administrators and of versions.                 *)
EXTENDS Billing, NoticesState, CatalogState, FiniteSetTheorems, TLAPS

CONSTANTS MaxClock, NoNotice
VARIABLES wants
N == INSTANCE Notices

CONSTANTS Editor, Content, MaxRow
VARIABLE request
O == INSTANCE Catalog WITH Request <- Editor

-----------------------------------------------------------------------------
(* The subscriptions.                                                      *)

PlanValue == {r.plan : r \in Request} \cup {NoPlan}
Status == {"none", "incomplete", "active", "past_due", "canceled"}
SubRow == [status : Status, plan : PlanValue, period : Nat, cancel : BOOLEAN]
Phase == {"idle", "claim", "customer", "call", "finalize", "sync", "snapshot", "write", "record"}
Job == [phase : Phase, request : Request \cup {NoKey}, event : Event \cup {0}, sub : Subs \cup {0},
        snapshot : [sub : SubRow, version : Nat]]

Types ==
  /\ now \in Nat
  /\ acct \in [customer : BOOLEAN, sub : Subs \cup {0}, op : Key \cup {NoKey}, plan : PlanValue, status : Status,
               period : Nat, cancel : BOOLEAN, used : 0..MaxUsed, as : Nat]
  /\ ops \in [Key -> [state : {"none", "started", "done"}, request : Request \cup {NoKey}, at : Nat]]
  /\ stripe \in [Subs -> SubRow]
  /\ version \in 0..MaxVersion
  /\ memo \in [Key -> [action : {"none", "cancel", "create", "update"}, sub : Subs \cup {0}, at : Nat]]
  /\ made \in [Key -> {0, 1}]
  /\ seen \in [Event -> {"no", "applied", "early"}]
  /\ posted = [plans |-> posted.plans, canceled |-> posted.canceled]
  /\ IsABag(posted.plans) /\ posted.canceled \in Nat
  /\ IsABag(sold)
  /\ charges \in [Period -> Nat]
  /\ job \in [Process -> Job]

-----------------------------------------------------------------------------
(* Operations.                                                             *)

\* A row of an operation is that of the request with its key, and the pending one is the account's.
OpFits(k) ==
  /\ ops[k].state = "started" <=> acct.op = k
  /\ ops[k].state = "none" => made[k] = 0
  /\ ops[k].state = "done" => made[k] = 1
  /\ ops[k].state # "none" => ops[k].request \in Request /\ ops[k].request.key = k /\ ops[k].at <= now

Used(s) == stripe[s].status # "none"

\* What Stripe remembers of it is not older than its row.
MemoFits(k) ==
  /\ made[k] = 0 => memo[k].action = "none"
  /\ made[k] = 1 =>
       /\ ops[k].at <= memo[k].at
       /\ memo[k].sub \in Subs /\ Used(memo[k].sub)
       /\ memo[k].action = "cancel" <=> ops[k].request.action = "cancel"
       /\ memo[k].action # "none"

\* What a request that was carried out and is not recorded yet did to the subscriptions.
EffectFits(k) ==
  acct.op = k /\ made[k] = 1 =>
    /\ memo[k].action = "create" => memo[k].sub > acct.sub
    /\ memo[k].action \in {"update", "cancel"} => memo[k].sub = acct.sub

\* The call is for the account as it is, unless it was made already.
RequestFits(j) ==
  /\ j.phase \in {"claim", "customer", "call", "finalize"} => j.request \in Request
  /\ j.phase = "claim" => acct.op = NoKey /\ ops[j.request.key].state = "none"
  /\ j.phase \in {"customer", "call", "finalize"} =>
       ops[j.request.key].state # "none" /\ ops[j.request.key].request = j.request
  /\ j.phase \in {"customer", "call"} => now - ops[j.request.key].at <= Refuse
  /\ j.phase = "call" /\ made[j.request.key] = 0 => j.sub = acct.sub
  /\ j.phase = "finalize" => made[j.request.key] = 1 /\ j.sub = memo[j.request.key].sub

-----------------------------------------------------------------------------
(* Subscriptions.                                                          *)

\* A subscription follows others that are over.
Succession ==
  \A s, t \in Subs : t < s /\ Used(s) => stripe[t].status = "canceled" /\ stripe[t].period <= stripe[s].period

\* The newest one is the account's, or that of the operation that is pending.
Created(s) == acct.op # NoKey /\ made[acct.op] = 1 /\ memo[acct.op].action = "create" /\ memo[acct.op].sub = s
Newest == \A s \in Subs : Used(s) => s <= acct.sub \/ Created(s)

SubFits(s) ==
  /\ stripe[s].period <= version
  /\ ~Used(s) => stripe[s] = NoSub

\* What is so later of a subscription that was like this.
Follows(old, new) ==
  /\ old.period <= new.period
  /\ old.cancel => new.cancel
  /\ old.status = "canceled" => new = old

-----------------------------------------------------------------------------
(* The account and the statement.                                          *)

AccountFits ==
  /\ acct.sub = 0 => acct.period = 0
  /\ acct.sub # 0 => Used(acct.sub) /\ acct.period <= stripe[acct.sub].period
  /\ acct.as <= version
  /\ \A n \in Period : n > acct.period => charges[n] = 0
  /\ UsageIsCharged

\* A snapshot is not older than the account, nor than the event that asked for it.
SnapshotFits(j) ==
  /\ j.event <= version
  /\ j.phase = "snapshot" /\ j.sub # 0 => j.sub = acct.sub
  /\ j.phase = "write" =>
       /\ j.sub = acct.sub /\ acct.sub # 0
       /\ j.snapshot.version \in acct.as..version /\ j.event <= j.snapshot.version
       /\ acct.period <= j.snapshot.sub.period /\ Follows(j.snapshot.sub, stripe[acct.sub])
  /\ j.phase = "record" /\ j.sub # 0 => j.event <= acct.as

\* How often something is in a bag.
Copies(e, B) == IF e \in DOMAIN B THEN B[e] ELSE 0

Shown(s, sub) == <<s, sub.period, sub.plan>>
Stated(e) == Copies(e, posted.plans)
Sold(e) == Copies(e, sold)

\* Where the newer state differs from the older one, it was sold once more than it was stated.
Ahead(s, older, newer) == Shown(s, older) # Shown(s, newer) => Stated(Shown(s, newer)) < Sold(Shown(s, newer))

BooksFit ==
  /\ \A e \in DOMAIN sold : e[1] \in Subs /\ Used(e[1])
  /\ \A s \in Subs : Used(s) => Sold(Shown(s, stripe[s])) > 0
  /\ \A e \in DOMAIN posted.plans : e \in DOMAIN sold /\ e[1] <= acct.sub
  /\ posted.plans \sqsubseteq sold
  /\ acct.sub # 0 => Ahead(acct.sub, acct, stripe[acct.sub])

StatementFits(j) ==
  j.phase = "write" => Ahead(j.sub, acct, j.snapshot.sub) /\ Ahead(j.sub, j.snapshot.sub, stripe[j.sub])

\* The cancellations of earlier subscriptions, and of the account's if what was read shows it.
Over(s) == stripe[s].cancel \/ stripe[s].status = "canceled"
Before == {s \in Subs : s < acct.sub /\ Over(s)}
Shows(sub) ==
  IF stripe[acct.sub].cancel THEN sub.cancel
  ELSE stripe[acct.sub].status = "canceled" /\ sub.status = "canceled" /\ ~sub.cancel

CancellationsFit ==
  \/ posted.canceled <= Cardinality(Before)
  \/ /\ posted.canceled <= Cardinality(Before) + 1
     /\ acct.sub # 0 /\ Shows(acct)
     /\ \A p \in Process : job[p].phase = "write" => Shows(job[p].snapshot.sub)

IInv ==
  /\ Types
  /\ \A k \in Key : OpFits(k) /\ MemoFits(k) /\ EffectFits(k)
  /\ \A p \in Process : RequestFits(job[p]) /\ SnapshotFits(job[p]) /\ StatementFits(job[p])
  /\ Succession /\ Newest
  /\ \A s \in Subs : SubFits(s)
  /\ AccountFits /\ SeenEventsAreApplied
  /\ BooksFit /\ CancellationsFit

-----------------------------------------------------------------------------
(* Constants and bags.                                                     *)

LEMMA Constants ==
  /\ 0 \notin Subs /\ Subs \subseteq Nat /\ IsFiniteSet(Subs) /\ 0 \notin Event /\ Event \subseteq Nat
  /\ Refuse \in Nat /\ KeyLife \in Nat /\ Refuse < KeyLife /\ MaxVersion \in Nat /\ MaxUsed \in Nat
  /\ NoKey \notin Key
BY BillingAssumption DEF BillingAssumption, Event

LEMMA SubsAreNumbers == ASSUME NEW t \in Subs PROVE t \in Nat /\ t > 0
BY Constants

LEMMA RequestsAre ==
  ASSUME NEW r \in Request
  PROVE  r.key \in Key /\ r.action \in {"change", "cancel"} /\ r.plan \in PlanValue
BY BillingAssumption DEF BillingAssumption, Key, PlanValue

LEMMA CopiesAre ==
  ASSUME NEW B, IsABag(B), NEW e
  PROVE  Copies(e, B) \in Nat /\ (Copies(e, B) > 0 <=> e \in DOMAIN B)
BY DEF IsABag, Copies

LEMMA OneMore ==
  ASSUME NEW B, IsABag(B), NEW x
  PROVE  /\ IsABag(B (+) SetToBag({x})) /\ DOMAIN (B (+) SetToBag({x})) = DOMAIN B \cup {x}
         /\ \A e : Copies(e, B (+) SetToBag({x})) = Copies(e, B) + IF e = x THEN 1 ELSE 0
<1> DEFINE C == B (+) SetToBag({x})
<1>1. C = [e \in DOMAIN B \cup {x} |-> (IF e \in DOMAIN B THEN B[e] ELSE 0) + (IF e \in {x} THEN 1 ELSE 0)]
  BY DEF (+), SetToBag
<1>2. \A e \in DOMAIN B : B[e] \in Nat /\ B[e] > 0
  BY DEF IsABag
<1>3. IsABag(C) /\ DOMAIN C = DOMAIN B \cup {x}
  BY <1>1, <1>2 DEF IsABag
<1>4. ASSUME NEW e PROVE Copies(e, C) = Copies(e, B) + IF e = x THEN 1 ELSE 0
  <2> HIDE DEF C
  <2>1. CASE e \in DOMAIN C
    BY <1>1, <1>2, <1>3, <2>1 DEF Copies
  <2>2. CASE e \notin DOMAIN C
    BY <1>3, <2>2 DEF Copies
  <2> QED BY <2>1, <2>2
<1> QED BY <1>3, <1>4

LEMMA Within ==
  ASSUME NEW B, NEW C, IsABag(B), IsABag(C)
  PROVE  B \sqsubseteq C <=> \A e : Copies(e, B) <= Copies(e, C)
<1>1. ASSUME B \sqsubseteq C, NEW e PROVE Copies(e, B) <= Copies(e, C)
  BY <1>1 DEF \sqsubseteq, IsABag, Copies
<1>2. ASSUME \A e : Copies(e, B) <= Copies(e, C) PROVE B \sqsubseteq C
  <2>1. ASSUME NEW e \in DOMAIN B PROVE e \in DOMAIN C /\ B[e] <= C[e]
    <3>1. Copies(e, B) = B[e] /\ Copies(e, B) > 0 /\ Copies(e, B) <= Copies(e, C)
      BY <1>2, CopiesAre DEF Copies
    <3>2. Copies(e, B) \in Nat /\ Copies(e, C) \in Nat /\ (Copies(e, C) > 0 <=> e \in DOMAIN C)
      BY CopiesAre
    <3> QED BY <3>1, <3>2 DEF Copies
  <2> QED BY <2>1 DEF \sqsubseteq
<1> QED BY <1>1, <1>2

-----------------------------------------------------------------------------
(* The beginning.                                                          *)

LEMMA IdleIsJob == Idle \in Job
BY Constants DEF Idle, Job, NoSnapshot, NoSub, SubRow, Phase, Status, PlanValue

LEMMA Start == Init => IInv
<1> SUFFICES ASSUME Init PROVE IInv
  OBVIOUS
<1>1. IsABag(EmptyBag) /\ DOMAIN EmptyBag = {} /\ EmptyBag \sqsubseteq EmptyBag
  BY DEF IsABag, EmptyBag, SetToBag, \sqsubseteq
<1>2. Period \subseteq Nat /\ 0 \in Period
  BY Constants DEF Period
<1>3. NoSub \in SubRow /\ NoSub.status = "none" /\ NoSub.period = 0
  BY DEF NoSub, SubRow, Status, PlanValue
<1>4. Types
  <2> HIDE DEF Idle
  <2> QED BY <1>1, <1>2, <1>3, IdleIsJob, Constants DEF Init, Types, NoOp, NoMemo, NoSub, Status, PlanValue
<1>5. ASSUME NEW k \in Key PROVE OpFits(k) /\ MemoFits(k) /\ EffectFits(k)
  BY Constants DEF Init, OpFits, MemoFits, EffectFits, NoOp, NoMemo
<1>6. ASSUME NEW p \in Process PROVE RequestFits(job[p]) /\ SnapshotFits(job[p]) /\ StatementFits(job[p])
  BY DEF Init, RequestFits, SnapshotFits, StatementFits, Idle
<1>7. \A s \in Subs : ~Used(s) /\ SubFits(s)
  BY <1>3 DEF Init, Used, SubFits
<1>8. Succession /\ Newest
  BY <1>7 DEF Succession, Newest
<1>9. AccountFits /\ SeenEventsAreApplied
  BY <1>2 DEF Init, AccountFits, UsageIsCharged, SeenEventsAreApplied
<1>10. BooksFit
  BY <1>1, <1>7 DEF Init, BooksFit
<1>11. CancellationsFit
  <2>1. Before \subseteq Subs
    BY DEF Before
  <2>2. Cardinality(Before) \in Nat
    BY <2>1, Constants, FS_Subset, FS_CardinalityType
  <2> QED BY <2>2 DEF Init, CancellationsFit
<1> QED BY <1>4, <1>5, <1>6, <1>7, <1>8, <1>9, <1>10, <1>11 DEF IInv

-----------------------------------------------------------------------------
(* Steps of a request that change nothing but itself.                      *)

Moves(p) == job' \in [Process -> Job] /\ \A q \in Process : q # p => job'[q] = job[q]

LEMMA Moving ==
  ASSUME Types, NEW p \in Process, NEW j \in Job, job' = [job EXCEPT ![p] = j]
  PROVE  Moves(p) /\ job'[p] = j
BY DEF Types, Moves

LEMMA JobStep ==
  ASSUME IInv, NEW p \in Process, Moves(p),
         UNCHANGED <<now, acct, ops, atStripe, memo, made, posted, charges>>,
         seen' \in [Event -> {"no", "applied", "early"}], SeenEventsAreApplied',
         RequestFits(job[p])', SnapshotFits(job[p])', StatementFits(job[p])',
         job'[p].phase = "write" /\ acct.sub # 0 /\ Shows(acct) => Shows(job'[p].snapshot.sub)
  PROVE  IInv'
<1>1. Types'
  BY DEF IInv, Types, Moves, atStripe
<1>2. ASSUME NEW k \in Key PROVE (OpFits(k) /\ MemoFits(k) /\ EffectFits(k))'
  BY DEF IInv, OpFits, MemoFits, EffectFits, Used, atStripe
<1>3. ASSUME NEW q \in Process PROVE (RequestFits(job[q]) /\ SnapshotFits(job[q]) /\ StatementFits(job[q]))'
  <2>1. CASE q = p
    BY <2>1
  <2>2. CASE q # p
    <3>1. RequestFits(job[q]) /\ SnapshotFits(job[q]) /\ StatementFits(job[q]) /\ job'[q] = job[q]
      BY <2>2 DEF IInv, Moves
    <3>2. RequestFits(job[q])'
      BY <3>1 DEF RequestFits
    <3>3. SnapshotFits(job[q])'
      BY <3>1 DEF SnapshotFits, atStripe
    <3>4. StatementFits(job[q])'
      BY <3>1 DEF StatementFits, Ahead, Stated, Sold, atStripe
    <3> QED BY <3>2, <3>3, <3>4
  <2> QED BY <2>1, <2>2
<1>4. Succession' /\ Newest' /\ \A s \in Subs : SubFits(s)'
  BY DEF IInv, Succession, Newest, Created, Used, SubFits, atStripe
<1>5. AccountFits'
  BY DEF IInv, AccountFits, UsageIsCharged, Used, atStripe
<1>6. BooksFit'
  BY DEF IInv, BooksFit, Used, Ahead, Stated, Sold, atStripe
<1>7. CancellationsFit'
  <2>1. UNCHANGED <<Before, acct, stripe, posted>>
    BY DEF Before, Over, atStripe
  <2>2. ASSUME posted.canceled <= Cardinality(Before) PROVE CancellationsFit'
    BY <2>1, <2>2 DEF CancellationsFit
  <2>3. ASSUME posted.canceled <= Cardinality(Before) + 1, acct.sub # 0, Shows(acct),
               \A q \in Process : job[q].phase = "write" => Shows(job[q].snapshot.sub)
        PROVE  CancellationsFit'
    <3>1. Shows(acct)'
      BY <2>1, <2>3 DEF Shows
    <3>2. ASSUME NEW q \in Process, job'[q].phase = "write" PROVE Shows(job[q].snapshot.sub)'
      <4>1. Shows(job'[q].snapshot.sub)
        BY <2>3, <3>2 DEF Moves
      <4> QED BY <2>1, <4>1 DEF Shows
    <3> QED BY <2>1, <2>3, <3>1, <3>2 DEF CancellationsFit
  <2> QED BY <2>2, <2>3 DEF IInv, CancellationsFit
<1> QED BY <1>1, <1>2, <1>3, <1>4, <1>5, <1>6, <1>7 DEF IInv

\* A request that ends, or whose process ends.
LEMMA Ends ==
  ASSUME IInv, NEW p \in Process, job' = [job EXCEPT ![p] = Idle],
         UNCHANGED <<now, acct, ops, atStripe, memo, made, posted, charges>>,
         seen' \in [Event -> {"no", "applied", "early"}], SeenEventsAreApplied'
  PROVE  IInv'
<1>1. Moves(p) /\ job'[p] = Idle
  BY IdleIsJob, Moving DEF IInv
<1>2. Idle.phase = "idle" /\ Idle.event = 0
  BY DEF Idle
<1>3. version' \in Nat
  BY Constants DEF IInv, Types, atStripe
<1> HIDE DEF Idle
<1>4. RequestFits(job[p])' /\ SnapshotFits(job[p])' /\ StatementFits(job[p])'
  BY <1>1, <1>2, <1>3 DEF RequestFits, SnapshotFits, StatementFits
<1> QED BY <1>1, <1>2, <1>4, JobStep

LEMMA Quiet ==
  ASSUME IInv, UNCHANGED <<acct, seen>>
  PROVE  seen' \in [Event -> {"no", "applied", "early"}] /\ SeenEventsAreApplied'
BY DEF IInv, Types, SeenEventsAreApplied

LEMMA FailStep == ASSUME IInv, NEW p \in Process, Fail(p) PROVE IInv'
BY Ends, Quiet DEF Fail, Go

LEMMA BeginStep == ASSUME IInv, NEW p \in Process, NEW r \in Request, Begin(p, r) PROVE IInv'
<1> DEFINE j == [Idle EXCEPT !.request = r,
                   !.phase = IF ops[r.key].state = "none" THEN "claim" ELSE "customer"]
<1>1. /\ j \in Job /\ j.request = r /\ j.event = 0
      /\ j.phase = IF ops[r.key].state = "none" THEN "claim" ELSE "customer"
  BY IdleIsJob DEF Job, Idle, Phase
<1>2. job' = [job EXCEPT ![p] = j]
  BY DEF Begin
<1> HIDE DEF j
<1>3. Moves(p) /\ job'[p] = j
  BY <1>1, <1>2, Moving DEF IInv
<1>4. r.key \in Key /\ version \in Nat /\ NoKey \notin Key
  BY RequestsAre, Constants DEF IInv, Types
<1>5. /\ ops[r.key].state # "none" => ops[r.key].request = r /\ Timely(r.key)
      /\ ops[r.key].state = "none" => acct.op = NoKey
  BY <1>4 DEF Begin, Admits, IInv, Types, OpFits
<1>6. RequestFits(job[p])' /\ SnapshotFits(job[p])' /\ StatementFits(job[p])'
  <2>1. UNCHANGED <<now, acct, ops, atStripe, memo, made, seen, posted, charges>>
    BY DEF Begin
  <2>2. RequestFits(job[p])'
    BY <1>1, <1>3, <1>4, <1>5, <2>1 DEF RequestFits, Timely
  <2>3. SnapshotFits(job[p])' /\ StatementFits(job[p])'
    BY <1>1, <1>3, <1>4, <2>1 DEF SnapshotFits, StatementFits, atStripe
  <2> QED BY <2>2, <2>3
<1> QED BY <1>1, <1>3, <1>6, Quiet, JobStep DEF Begin

LEMMA ReadRequestStep == ASSUME IInv, NEW p \in Process, ReadRequest(p) PROVE IInv'
<1> DEFINE j == [job[p] EXCEPT !.phase = "call", !.sub = acct.sub]
<1>1. /\ j \in Job /\ j.request = job[p].request /\ j.event = job[p].event
      /\ j.phase = "call" /\ j.sub = acct.sub
  <2>1. job[p] \in Job /\ acct.sub \in Subs \cup {0}
    BY DEF IInv, Types
  <2> QED BY <2>1 DEF Job, Phase
<1>2. job' = [job EXCEPT ![p] = j]
  BY DEF ReadRequest, IInv, Types
<1> HIDE DEF j
<1>3. Moves(p) /\ job'[p] = j
  BY <1>1, <1>2, Moving DEF IInv
<1>4. RequestFits(job[p]) /\ SnapshotFits(job[p]) /\ job[p].phase = "customer"
  BY DEF IInv, ReadRequest
<1>5. RequestFits(job[p])' /\ SnapshotFits(job[p])' /\ StatementFits(job[p])'
  BY <1>1, <1>3, <1>4 DEF ReadRequest, RequestFits, SnapshotFits, StatementFits, atStripe
<1> QED BY <1>1, <1>3, <1>5, Quiet, JobStep DEF ReadRequest

LEMMA SyncReadStep == ASSUME IInv, NEW p \in Process, SyncRead(p) PROVE IInv'
<1> DEFINE j == [job[p] EXCEPT !.phase = "snapshot", !.sub = acct.sub]
<1>1. /\ j \in Job /\ j.event = job[p].event
      /\ j.phase = "snapshot" /\ j.sub = acct.sub
  <2>1. job[p] \in Job /\ acct.sub \in Subs \cup {0}
    BY DEF IInv, Types
  <2> QED BY <2>1 DEF Job, Phase
<1>2. job' = [job EXCEPT ![p] = j]
  BY DEF SyncRead, IInv, Types
<1> HIDE DEF j
<1>3. Moves(p) /\ job'[p] = j
  BY <1>1, <1>2, Moving DEF IInv
<1>4. SnapshotFits(job[p])
  BY DEF IInv
<1>5. RequestFits(job[p])' /\ SnapshotFits(job[p])' /\ StatementFits(job[p])'
  BY <1>1, <1>3, <1>4 DEF SyncRead, RequestFits, SnapshotFits, StatementFits, atStripe
<1> QED BY <1>1, <1>3, <1>5, Quiet, JobStep DEF SyncRead

LEMMA WebhookStep == ASSUME IInv, NEW p \in Process, NEW e \in Event, Webhook(p, e) PROVE IInv'
<1> DEFINE j == [Idle EXCEPT !.phase = "sync", !.event = e]
<1>1. j \in Job /\ j.event = e /\ j.phase = "sync"
  BY IdleIsJob DEF Job, Idle, Phase
<1>2. job' = [job EXCEPT ![p] = j]
  BY DEF Webhook
<1> HIDE DEF j
<1>3. Moves(p) /\ job'[p] = j
  BY <1>1, <1>2, Moving DEF IInv
<1>4. RequestFits(job[p])' /\ SnapshotFits(job[p])' /\ StatementFits(job[p])'
  BY <1>1, <1>3 DEF Webhook, RequestFits, SnapshotFits, StatementFits, atStripe
<1> QED BY <1>1, <1>3, <1>4, Quiet, JobStep DEF Webhook

LEMMA RecordStep == ASSUME IInv, NEW p \in Process, Record(p) PROVE IInv'
<1>1. seen' \in [Event -> {"no", "applied", "early"}]
  BY DEF Record, IInv, Types
<1>2. ASSUME NEW e \in Event, seen'[e] = "applied" PROVE acct'.as >= e
  <2>1. CASE seen[e] = "applied"
    BY <2>1 DEF Record, IInv, SeenEventsAreApplied
  <2>2. CASE seen[e] # "applied"
    <3>1. e = job[p].event /\ job[p].sub # 0
      BY <1>2, <2>2 DEF Record, IInv, Types
    <3>2. e <= acct.as /\ acct.as \in Nat /\ e \in Nat
      BY <3>1, Constants DEF Record, IInv, SnapshotFits, Types
    <3> QED BY <3>2 DEF Record
  <2> QED BY <2>1, <2>2
<1>3. SeenEventsAreApplied'
  BY <1>2 DEF SeenEventsAreApplied
<1> QED BY <1>1, <1>3, Ends DEF Record, Go

\* Stripe's subscription is read: what was written before is older.
LEMMA SnapshotStep == ASSUME IInv, NEW p \in Process, Snapshot(p) PROVE IInv'
<1>0. /\ SnapshotFits(job[p]) /\ job[p].phase = "snapshot" /\ job[p] \in Job
      /\ UNCHANGED <<now, acct, ops, atStripe, memo, made, seen, posted, charges>>
  BY DEF IInv, Types, Snapshot
<1>1. CASE job[p].sub = 0 /\ job[p].event = 0
  BY <1>0, <1>1, Ends, Quiet DEF Snapshot, Go
<1>2. CASE job[p].sub = 0 /\ job[p].event # 0
  <2> DEFINE j == [job[p] EXCEPT !.phase = "record"]
  <2>1. j \in Job /\ j.event = job[p].event /\ j.phase = "record" /\ j.sub = 0
    BY <1>0, <1>2 DEF Job, Phase
  <2>2. job' = [job EXCEPT ![p] = j]
    BY <1>2 DEF Snapshot, Go, IInv, Types
  <2> HIDE DEF j
  <2>3. Moves(p) /\ job'[p] = j
    BY <2>1, <2>2, Moving DEF IInv
  <2>4. RequestFits(job[p])' /\ SnapshotFits(job[p])' /\ StatementFits(job[p])'
    BY <1>0, <2>1, <2>3 DEF RequestFits, SnapshotFits, StatementFits, atStripe
  <2> QED BY <1>0, <2>1, <2>3, <2>4, Quiet, JobStep
<1>3. CASE job[p].sub # 0
  <2> DEFINE j == [job[p] EXCEPT !.phase = "write", !.snapshot = [sub |-> stripe[job[p].sub], version |-> version]]
  <2>1. job[p].sub = acct.sub /\ acct.sub \in Subs
    BY <1>0, <1>3 DEF SnapshotFits, Job
  <2>2. stripe[acct.sub] \in SubRow /\ version \in Nat /\ acct.as \in Nat
    BY <2>1, Constants DEF IInv, Types
  <2>3. /\ j \in Job /\ j.event = job[p].event /\ j.phase = "write" /\ j.sub = acct.sub
        /\ j.snapshot.sub = stripe[acct.sub] /\ j.snapshot.version = version
    BY <1>0, <2>1, <2>2 DEF Job, Phase
  <2>4. job' = [job EXCEPT ![p] = j]
    BY <1>3 DEF Snapshot, IInv, Types
  <2> HIDE DEF j
  <2>5. Moves(p) /\ job'[p] = j
    BY <2>3, <2>4, Moving DEF IInv
  <2>6. /\ acct.sub # 0 /\ acct.as <= version /\ acct.period <= stripe[acct.sub].period
        /\ Ahead(acct.sub, acct, stripe[acct.sub])
    BY <2>1, Constants DEF IInv, AccountFits, BooksFit
  <2>7. Follows(stripe[acct.sub], stripe[acct.sub])
    BY <2>2 DEF Follows, SubRow
  <2>8. SnapshotFits(job[p])'
    BY <1>0, <2>2, <2>3, <2>5, <2>6, <2>7 DEF SnapshotFits, atStripe
  <2>9. Ahead(j.sub, acct, j.snapshot.sub) /\ Ahead(j.sub, j.snapshot.sub, stripe[j.sub])
    BY <2>3, <2>6 DEF Ahead
  <2>10. StatementFits(job[p])'
    BY <1>0, <2>3, <2>5, <2>9 DEF StatementFits, Ahead, Stated, Sold, atStripe
  <2>11. RequestFits(job[p])'
    BY <2>3, <2>5 DEF RequestFits
  <2>12. Shows(acct) => Shows(j.snapshot.sub)
    BY <2>2, <2>3 DEF Shows, SubRow
  <2> QED BY <1>0, <2>3, <2>5, <2>8, <2>10, <2>11, <2>12, Quiet, JobStep
<1> QED BY <1>1, <1>2, <1>3

-----------------------------------------------------------------------------
(* Subscriptions change at Stripe.                                         *)

\* The subscription that changes is the newest one, and what becomes of it follows from what it was.
Advances(s, new) ==
  /\ new \in SubRow /\ new.status # "none"
  /\ stripe[s].status # "canceled" /\ Follows(stripe[s], new)
  /\ new.period = version + 1 \/ (Used(s) /\ new.period = stripe[s].period)
  /\ \A t \in Subs : /\ t < s => stripe[t].status = "canceled"
                     /\ t > s => ~Used(t)

LEMMA LiveAdvances ==
  ASSUME IInv, NEW s \in Subs, stripe[s].status \in Live, NEW new \in SubRow, new.status # "none",
         Follows(stripe[s], new), new.period = version + 1 \/ new.period = stripe[s].period
  PROVE  Advances(s, new)
BY DEF Advances, IInv, Succession, Used, Live

LEMMA Becoming ==
  ASSUME IInv, NEW s \in Subs, NEW new, Advances(s, new), Becomes(s, new), UNCHANGED posted
  PROVE  /\ version' = version + 1 /\ version \in Nat /\ version' \in 0..MaxVersion
         /\ stripe' \in [Subs -> SubRow] /\ stripe'[s] = new
         /\ \A t \in Subs : t # s => stripe'[t] = stripe[t]
         /\ IsABag(sold')
         /\ \A e : Copies(e, sold) <= Copies(e, sold')
         /\ \A e \in DOMAIN sold' : e \in DOMAIN sold \/ e[1] = s
         /\ Shown(s, new) # Shown(s, stripe[s]) => Copies(Shown(s, new), sold') = Copies(Shown(s, new), sold) + 1
<1> DEFINE x == <<s, new.period, new.plan>>
<1>1. IsABag(sold) /\ version \in 0..MaxVersion /\ stripe \in [Subs -> SubRow]
  BY DEF IInv, Types
<1>2. version' = version + 1 /\ version \in Nat /\ version' \in 0..MaxVersion
  BY <1>1, Constants DEF Becomes
<1>3. stripe' \in [Subs -> SubRow] /\ stripe'[s] = new /\ \A t \in Subs : t # s => stripe'[t] = stripe[t]
  BY <1>1 DEF Becomes, Advances
<1>4. sold' = sold \/ sold' = sold (+) SetToBag({x})
  BY DEF Becomes
<1>5. Shown(s, new) # Shown(s, stripe[s]) => sold' = sold (+) SetToBag({x})
  BY DEF Becomes, Shown
<1>6. x = Shown(s, new) /\ x[1] = s
  BY DEF Shown
<1> HIDE DEF x
<1>7. \A e : Copies(e, sold) \in Nat
  BY <1>1, CopiesAre
<1>8. ASSUME sold' = sold (+) SetToBag({x})
      PROVE  /\ IsABag(sold') /\ DOMAIN sold' = DOMAIN sold \cup {x}
             /\ \A e : Copies(e, sold') = Copies(e, sold) + IF e = x THEN 1 ELSE 0
  BY <1>1, <1>8, OneMore
<1> QED BY <1>1, <1>2, <1>3, <1>4, <1>5, <1>6, <1>7, <1>8

LEMMA FollowsAlong ==
  ASSUME NEW a \in SubRow, NEW b \in SubRow, NEW c \in SubRow, Follows(a, b), Follows(b, c)
  PROVE  Follows(a, c)
BY DEF Follows, SubRow

\* A subscription that changes does not put the statement ahead of what was sold.
LEMMA AheadLater ==
  ASSUME IInv, NEW s \in Subs, NEW new, Advances(s, new), Becomes(s, new), UNCHANGED posted,
         NEW t \in Subs, Used(t), NEW older, Ahead(t, older, stripe[t])
  PROVE  Shown(t, older) # Shown(t, stripe'[t]) =>
           Copies(Shown(t, stripe'[t]), posted.plans) < Copies(Shown(t, stripe'[t]), sold')
<1> SUFFICES ASSUME Shown(t, older) # Shown(t, stripe'[t])
             PROVE  Copies(Shown(t, stripe'[t]), posted.plans) < Copies(Shown(t, stripe'[t]), sold')
  OBVIOUS
<1> DEFINE e == Shown(t, stripe'[t])
<1>1. IsABag(posted.plans) /\ IsABag(sold) /\ IsABag(sold') /\ posted.plans \sqsubseteq sold
  BY Becoming DEF IInv, Types, BooksFit
<1>2. /\ Copies(e, posted.plans) \in Nat /\ Copies(e, sold) \in Nat /\ Copies(e, sold') \in Nat
      /\ Copies(e, posted.plans) <= Copies(e, sold)
  BY <1>1, CopiesAre, Within
<1>3. Copies(e, sold) <= Copies(e, sold')
  BY Becoming
<1>4. CASE e = Shown(t, stripe[t])
  <2>1. Copies(e, posted.plans) < Copies(e, sold)
    BY <1>4 DEF Ahead, Stated, Sold
  <2> QED BY <1>2, <1>3, <2>1
<1>5. CASE e # Shown(t, stripe[t])
  <2>1. t = s /\ stripe'[t] = new
    BY <1>5, Becoming
  <2>2. Copies(e, sold') = Copies(e, sold) + 1
    BY <1>5, <2>1, Becoming
  <2> QED BY <1>2, <2>2
<1> QED BY <1>4, <1>5

\* A step of Stripe with all that goes with it at the request that asked for it.
LEMMA StripeStep ==
  ASSUME IInv, NEW s \in Subs, NEW new, Advances(s, new), Becomes(s, new),
         UNCHANGED <<now, acct, ops, seen, posted, charges>>,
         job' \in [Process -> Job],
         \A q \in Process : job'[q] = job[q] \/ (job'[q].phase \in {"idle", "finalize"} /\ job'[q].event <= version),
         memo' \in [Key -> [action : {"none", "cancel", "create", "update"}, sub : Subs \cup {0}, at : Nat]],
         made' \in [Key -> {0, 1}],
         \A k \in Key : (OpFits(k) /\ MemoFits(k) /\ EffectFits(k))',
         \A q \in Process : RequestFits(job[q])',
         Newest'
  PROVE  IInv'
<1>0. /\ version' = version + 1 /\ version \in Nat /\ version' \in 0..MaxVersion
      /\ stripe' \in [Subs -> SubRow] /\ stripe'[s] = new /\ \A t \in Subs : t # s => stripe'[t] = stripe[t]
  BY Becoming
<1>1. stripe \in [Subs -> SubRow] /\ acct.sub \in Subs \cup {0} /\ acct.period \in Nat /\ acct.as \in Nat
  BY Constants DEF IInv, Types, Period
<1>2. /\ new \in SubRow /\ new.status # "none" /\ stripe[s].status # "canceled" /\ Follows(stripe[s], new)
      /\ new.period = version + 1 \/ (Used(s) /\ new.period = stripe[s].period)
      /\ \A t \in Subs : /\ t < s => stripe[t].status = "canceled"
                         /\ t > s => ~Used(t)
  BY DEF Advances
<1>3. \A t \in Subs : stripe[t].period \in Nat /\ stripe'[t].period \in Nat /\ stripe[t].period <= version
  BY <1>0, <1>1 DEF SubRow, IInv, SubFits
<1>4. \A t \in Subs : (Used(t) => Used(t)') /\ Follows(stripe[t], stripe'[t])
  BY <1>0, <1>1, <1>2 DEF Used, Follows, SubRow
<1>5. Types'
  BY <1>0, Becoming DEF IInv, Types
<1>6. Succession'
  <2> SUFFICES ASSUME NEW u \in Subs, NEW t \in Subs, t < u, stripe'[u].status # "none"
               PROVE  stripe'[t].status = "canceled" /\ stripe'[t].period <= stripe'[u].period
    BY DEF Succession, Used
  <2>0. t \in Nat /\ u \in Nat /\ s \in Nat
    BY Constants
  <2>1. CASE u = s
    <3>1. stripe[t].status = "canceled" /\ stripe'[t] = stripe[t] /\ stripe[t].period <= version
      BY <1>0, <1>2, <1>3, <2>0, <2>1
    <3>2. Used(s) => stripe[t].period <= stripe[s].period
      BY <2>1 DEF IInv, Succession
    <3> QED BY <1>0, <1>2, <1>3, <2>1, <3>1, <3>2
  <2>2. CASE u # s
    <3>1. Used(u) /\ stripe'[u] = stripe[u]
      BY <1>0, <2>2 DEF Used
    <3>2. stripe[t].status = "canceled" /\ stripe[t].period <= stripe[u].period
      BY <3>1 DEF IInv, Succession
    <3>3. t # s
      BY <1>2, <3>2
    <3> QED BY <1>0, <3>1, <3>2, <3>3
  <2> QED BY <2>1, <2>2
<1>7. ASSUME NEW t \in Subs PROVE SubFits(t)'
  <2>1. CASE t = s
    BY <1>0, <1>2, <1>3, <2>1 DEF SubFits, Used
  <2>2. CASE t # s
    BY <1>0, <1>3, <2>2 DEF SubFits, Used, IInv
  <2> QED BY <2>1, <2>2
<1>8. AccountFits'
  <2>1. acct.sub # 0 => Used(acct.sub)' /\ acct.period <= stripe'[acct.sub].period
    BY <1>1, <1>3, <1>4 DEF IInv, AccountFits, Follows
  <2> QED BY <1>0, <1>1, <2>1 DEF IInv, AccountFits, UsageIsCharged
<1>9. ASSUME NEW q \in Process PROVE SnapshotFits(job[q])' /\ StatementFits(job[q])'
  <2>0. job'[q] \in Job /\ job'[q].event \in Nat /\ job[q] \in Job
    BY Constants DEF Job, IInv, Types
  <2>1. CASE job'[q].phase \in {"idle", "finalize"} /\ job'[q].event <= version
    BY <1>0, <2>0, <2>1 DEF SnapshotFits, StatementFits
  <2>2. CASE job'[q] = job[q]
    <3>1. SnapshotFits(job[q]) /\ StatementFits(job[q])
      BY DEF IInv
    <3>2. ASSUME job[q].phase = "write"
          PROVE  /\ acct.sub \in Subs /\ job[q].sub = acct.sub /\ job[q].snapshot.sub \in SubRow
                 /\ job[q].snapshot.version \in Nat
                 /\ Used(acct.sub) /\ Follows(job[q].snapshot.sub, stripe'[acct.sub])
      <4>1. acct.sub \in Subs /\ job[q].sub = acct.sub /\ job[q].snapshot.sub \in SubRow /\ job[q].snapshot.version \in Nat
        BY <1>1, <2>0, <3>1, <3>2 DEF SnapshotFits, Job
      <4>2. Used(acct.sub) /\ Follows(job[q].snapshot.sub, stripe[acct.sub])
        BY <3>1, <3>2, <4>1 DEF SnapshotFits, IInv, AccountFits
      <4>3. stripe[acct.sub] \in SubRow /\ stripe'[acct.sub] \in SubRow /\ Follows(stripe[acct.sub], stripe'[acct.sub])
        BY <1>0, <1>1, <1>4, <4>1
      <4> QED BY <4>1, <4>2, <4>3, FollowsAlong
    <3>3. SnapshotFits(job[q])'
      BY <1>0, <1>1, <2>0, <2>2, <3>1, <3>2 DEF SnapshotFits
    <3>4. ASSUME job[q].phase = "write"
          PROVE  /\ Ahead(job[q].sub, acct, job[q].snapshot.sub)'
                 /\ Ahead(job[q].sub, job[q].snapshot.sub, stripe[job[q].sub])'
      <4> DEFINE e == Shown(job[q].sub, job[q].snapshot.sub)
      <4>1. Copies(e, posted.plans) \in Nat /\ Copies(e, sold) \in Nat /\ Copies(e, sold') \in Nat
            /\ Copies(e, sold) <= Copies(e, sold')
        BY Becoming, CopiesAre DEF IInv, Types
      <4>2. Ahead(job[q].sub, acct, job[q].snapshot.sub) /\ Ahead(job[q].sub, job[q].snapshot.sub, stripe[job[q].sub])
        BY <3>1, <3>4 DEF StatementFits
      <4>3. Ahead(job[q].sub, acct, job[q].snapshot.sub)'
        BY <2>2, <4>1, <4>2 DEF Ahead, Stated, Sold
      <4>4. Ahead(job[q].sub, job[q].snapshot.sub, stripe[job[q].sub])'
        BY <2>2, <3>2, <3>4, <4>2, AheadLater DEF Ahead, Stated, Sold
      <4> QED BY <4>3, <4>4
    <3>5. StatementFits(job[q])'
      BY <2>2, <3>4 DEF StatementFits
    <3> QED BY <3>3, <3>5
  <2> QED BY <2>1, <2>2
<1>10. SeenEventsAreApplied'
  BY DEF IInv, SeenEventsAreApplied
<1>11. BooksFit'
  <2>1. IsABag(sold) /\ IsABag(sold') /\ IsABag(posted.plans) /\ posted.plans \sqsubseteq sold
    BY Becoming DEF IInv, Types, BooksFit
  <2>2. \A e : /\ Copies(e, sold) <= Copies(e, sold') /\ Copies(e, posted.plans) <= Copies(e, sold)
               /\ Copies(e, sold) \in Nat /\ Copies(e, sold') \in Nat /\ Copies(e, posted.plans) \in Nat
    BY <2>1, Becoming, CopiesAre, Within
  <2>3. \A e \in DOMAIN sold' : e[1] \in Subs /\ Used(e[1])'
    <3>1. Used(s)'
      BY <1>0, <1>2 DEF Used
    <3> QED BY <1>4, <3>1, Becoming DEF IInv, BooksFit
  <2>4. ASSUME NEW t \in Subs, Used(t)' PROVE Copies(Shown(t, stripe'[t]), sold') > 0
    <3>1. CASE Shown(t, stripe'[t]) = Shown(t, stripe[t]) /\ Used(t)
      BY <2>2, <3>1 DEF IInv, BooksFit, Sold
    <3>2. CASE Shown(t, stripe'[t]) # Shown(t, stripe[t])
      <4>1. t = s
        BY <1>0, <3>2
      <4> QED BY <1>0, <2>2, <3>2, <4>1, Becoming
    <3>3. CASE ~Used(t)
      <4>1. t = s /\ stripe[s].period = 0 /\ new.period = version + 1
        BY <1>0, <1>2, <2>4, <3>3 DEF Used, IInv, SubFits, NoSub
      <4>2. Shown(t, stripe'[t]) # Shown(t, stripe[t])
        BY <1>0, <4>1 DEF Shown
      <4> QED BY <3>2, <4>2
    <3> QED BY <3>1, <3>2, <3>3
  <2>5. \A e \in DOMAIN posted.plans : e \in DOMAIN sold' /\ e[1] <= acct.sub
    BY <2>1, <2>2, CopiesAre DEF IInv, BooksFit
  <2>6. posted.plans \sqsubseteq sold'
    <3>1. \A e : Copies(e, posted.plans) <= Copies(e, sold')
      BY <2>2
    <3> QED BY <2>1, <3>1, Within
  <2>7. acct.sub # 0 => Ahead(acct.sub, acct, stripe[acct.sub])'
    <3> SUFFICES ASSUME acct.sub # 0 PROVE Ahead(acct.sub, acct, stripe[acct.sub])'
      OBVIOUS
    <3>1. acct.sub \in Subs /\ Used(acct.sub) /\ Ahead(acct.sub, acct, stripe[acct.sub])
      BY <1>1 DEF IInv, AccountFits, BooksFit
    <3> QED BY <3>1, AheadLater DEF Ahead, Stated, Sold
  <2> QED BY <2>3, <2>4, <2>5, <2>6, <2>7 DEF BooksFit, Sold
<1>12. CancellationsFit'
  <2>1. ~(s < acct.sub)
    <3>1. acct.sub # 0 => acct.sub \in Subs /\ Used(acct.sub)
      BY <1>1 DEF IInv, AccountFits
    <3>2. s \in Nat /\ s # 0 /\ \A t \in Subs : t \in Nat
      BY Constants
    <3>3. \A t \in Subs : s < t => ~Used(t)
      BY <1>2, <3>2
    <3>4. CASE acct.sub = 0
      BY <3>2, <3>4
    <3>5. CASE acct.sub # 0
      BY <3>1, <3>3, <3>5
    <3> QED BY <3>4, <3>5
  <2>2. \A t \in Subs : t < acct.sub => (Over(t) <=> Over(t)')
    BY <1>0, <2>1 DEF Over
  <2>3. Before' = Before
    BY <2>2 DEF Before
  <2>4. ASSUME acct.sub # 0, NEW sub, Shows(sub)
        PROVE  IF stripe'[acct.sub].cancel THEN sub.cancel
               ELSE stripe'[acct.sub].status = "canceled" /\ sub.status = "canceled" /\ ~sub.cancel
    <3>1. acct.sub \in Subs
      BY <1>1, <2>4
    <3>2. CASE acct.sub = s
      BY <1>0, <1>2, <2>4, <3>2 DEF Shows, Follows
    <3>3. CASE acct.sub # s
      BY <1>0, <2>4, <3>1, <3>3 DEF Shows
    <3> QED BY <3>2, <3>3
  <2>5. ASSUME posted.canceled <= Cardinality(Before) PROVE CancellationsFit'
    BY <2>3, <2>5 DEF CancellationsFit
  <2>6. ASSUME posted.canceled <= Cardinality(Before) + 1, acct.sub # 0, Shows(acct),
               \A q \in Process : job[q].phase = "write" => Shows(job[q].snapshot.sub)
        PROVE  CancellationsFit'
    <3>1. Shows(acct)'
      BY <2>4, <2>6 DEF Shows
    <3>2. ASSUME NEW q \in Process, job'[q].phase = "write" PROVE Shows(job[q].snapshot.sub)'
      <4>1. job'[q] = job[q] /\ Shows(job[q].snapshot.sub)
        BY <2>6, <3>2
      <4> QED BY <2>4, <2>6, <4>1 DEF Shows
    <3> QED BY <2>3, <2>6, <3>1, <3>2 DEF CancellationsFit
  <2> QED BY <2>5, <2>6 DEF IInv, CancellationsFit
<1> QED BY <1>5, <1>6, <1>7, <1>8, <1>9, <1>10, <1>11, <1>12 DEF IInv

\* What Stripe does by itself.
LEMMA RemoteStep == ASSUME IInv, Remote PROVE IInv'
<1>1. PICK s \in Subs : Pays(s) \/ Renews(s) \/ Expires(s)
  BY DEF Remote
<1>2. stripe[s] \in SubRow /\ version \in Nat /\ version + 1 \in Nat
  BY Constants DEF IInv, Types
<1>3. UNCHANGED <<now, acct, ops, memo, made, seen, posted, charges, job>>
  BY DEF Remote
<1>4. PICK new : /\ Becomes(s, new) /\ stripe[s].status \in Live
                 /\ new \in SubRow /\ new.status # "none" /\ new.cancel = stripe[s].cancel
                 /\ new.period = version + 1 \/ new.period = stripe[s].period
  <2>1. CASE Pays(s)
    <3> DEFINE new == [stripe[s] EXCEPT !.status = "active"]
    <3>1. new \in SubRow /\ new.status = "active" /\ new.cancel = stripe[s].cancel /\ new.period = stripe[s].period
      BY <1>2 DEF SubRow, Status
    <3> QED BY <2>1, <3>1 DEF Pays, Live
  <2>2. CASE Renews(s)
    <3>1. PICK status \in {"active", "past_due"} :
                 Becomes(s, [stripe[s] EXCEPT !.status = status, !.period = version + 1])
      BY <2>2 DEF Renews
    <3> DEFINE new == [stripe[s] EXCEPT !.status = status, !.period = version + 1]
    <3>2. new \in SubRow /\ new.status # "none" /\ new.cancel = stripe[s].cancel /\ new.period = version + 1
      BY <1>2 DEF SubRow, Status
    <3> QED BY <2>2, <3>1, <3>2 DEF Renews, Live
  <2>3. CASE Expires(s)
    <3> DEFINE new == [stripe[s] EXCEPT !.status = "canceled"]
    <3>1. new \in SubRow /\ new.status = "canceled" /\ new.cancel = stripe[s].cancel /\ new.period = stripe[s].period
      BY <1>2 DEF SubRow, Status
    <3> QED BY <2>3, <3>1 DEF Expires, Live
  <2> QED BY <1>1, <2>1, <2>2, <2>3
<1>5. stripe[s].period \in Nat /\ stripe[s].period <= version
  BY <1>2 DEF SubRow, IInv, SubFits
<1>6. Follows(stripe[s], new)
  BY <1>2, <1>4, <1>5 DEF Follows, Live
<1>7. Advances(s, new)
  BY <1>4, <1>6, LiveAdvances
<1>8. \A t \in Subs : Used(t)' <=> Used(t)
  BY <1>4, <1>7, Becoming, <1>3 DEF Used, Live
<1>9. Newest'
  BY <1>3, <1>8 DEF IInv, Newest, Created
<1>10. \A k \in Key : (OpFits(k) /\ MemoFits(k) /\ EffectFits(k))'
  BY <1>3, <1>8 DEF IInv, OpFits, MemoFits, EffectFits
<1>11. \A q \in Process : RequestFits(job[q])'
  BY <1>3 DEF IInv, RequestFits
<1>12. /\ job' \in [Process -> Job] /\ made' \in [Key -> {0, 1}]
       /\ memo' \in [Key -> [action : {"none", "cancel", "create", "update"}, sub : Subs \cup {0}, at : Nat]]
  BY <1>3 DEF IInv, Types
<1> QED BY <1>3, <1>4, <1>7, <1>9, <1>10, <1>11, <1>12, StripeStep

\* A billing request that Stripe carries out: the first time, and for the account as it is.
LEMMA FirstCall ==
  ASSUME IInv, NEW p \in Process, job[p].phase = "call", ~Remembers(job[p].request.key)
  PROVE  LET k == job[p].request.key
         IN /\ job[p].request \in Request /\ k \in Key /\ made[k] = 0 /\ acct.op = k /\ job[p].sub = acct.sub
            /\ ops[k].state = "started" /\ ops[k].request = job[p].request /\ ops[k].at <= now /\ ops[k].at \in Nat
<1> DEFINE k == job[p].request.key
<1>1. RequestFits(job[p])
  BY DEF IInv
<1>2. job[p].request \in Request /\ k \in Key
  BY <1>1, RequestsAre DEF RequestFits
<1>3. ops[k].state # "none" /\ ops[k].request = job[p].request /\ now - ops[k].at <= Refuse
  BY <1>1 DEF RequestFits
<1>4. /\ made[k] \in {0, 1} /\ ops[k].at \in Nat /\ memo[k].at \in Nat /\ now \in Nat
      /\ ops[k].state \in {"none", "started", "done"}
  BY <1>2 DEF IInv, Types
<1>5. OpFits(k) /\ MemoFits(k)
  BY <1>2 DEF IInv
<1>6. made[k] # 1
  <2> SUFFICES ASSUME made[k] = 1 PROVE FALSE
    OBVIOUS
  <2>1. memo[k].action # "none" /\ ops[k].at <= memo[k].at
    BY <1>5 DEF MemoFits
  <2>2. now - memo[k].at < KeyLife
    BY <1>3, <1>4, <2>1, Constants
  <2> QED BY <2>1, <2>2 DEF Remembers
<1> QED BY <1>1, <1>2, <1>3, <1>4, <1>5, <1>6 DEF OpFits, RequestFits

LEMMA EffectAdvances ==
  ASSUME IInv, NEW k \in Key, acct.op = k, made[k] = 0, NEW r \in Request,
         NEW s \in Subs, Effect(r, acct.sub, s)
  PROVE  \E new : /\ Advances(s, new) /\ Becomes(s, new)
                  /\ Asks(r, acct.sub) = "create" => s > acct.sub
                  /\ Asks(r, acct.sub) # "create" => s = acct.sub
<1>1. stripe[s] \in SubRow /\ version \in Nat /\ stripe[s].period \in Nat /\ r.plan \in PlanValue
  BY RequestsAre, Constants DEF IInv, Types, SubRow
<1>2. \A t \in Subs : t \in Nat /\ t > 0
  BY SubsAreNumbers
<1>3. acct.sub \in Subs \cup {0}
  BY DEF IInv, Types
<1>4. \A t \in Subs : Used(t) => t <= acct.sub
  BY DEF IInv, Newest, Created
<1>5. CASE r.action = "cancel"
  <2> DEFINE new == [stripe[s] EXCEPT !.cancel = TRUE]
  <2>1. s = acct.sub /\ stripe[s].status \in Live /\ Becomes(s, new) /\ Asks(r, acct.sub) = "cancel"
    BY <1>5 DEF Effect, Asks
  <2>2. new \in SubRow /\ new.status = stripe[s].status /\ new.cancel /\ new.period = stripe[s].period
    BY <1>1 DEF SubRow
  <2> HIDE DEF new
  <2>3. Follows(stripe[s], new) /\ new.status # "none"
    BY <1>1, <2>1, <2>2 DEF Follows, Live
  <2>4. Advances(s, new)
    BY <2>1, <2>2, <2>3, LiveAdvances
  <2> QED BY <2>1, <2>4
<1>6. CASE r.action = "change" /\ ~Replaces(acct.sub)
  <2>1. s = acct.sub /\ Updates(s, r.plan) /\ Asks(r, acct.sub) = "update"
    BY <1>6 DEF Effect, Asks
  <2>2. PICK next \in {r.plan, stripe[s].plan} : Becomes(s, [stripe[s] EXCEPT !.plan = next])
    BY <2>1 DEF Updates
  <2> DEFINE new == [stripe[s] EXCEPT !.plan = next]
  <2>3. /\ new \in SubRow /\ new.status = stripe[s].status /\ new.cancel = stripe[s].cancel
        /\ new.period = stripe[s].period
    BY <1>1 DEF SubRow
  <2>4. stripe[s].status \in Live /\ Becomes(s, new)
    BY <2>1, <2>2 DEF Updates
  <2> HIDE DEF new
  <2>5. Follows(stripe[s], new) /\ new.status # "none"
    BY <1>1, <2>3, <2>4 DEF Follows, Live
  <2>6. Advances(s, new)
    BY <2>3, <2>4, <2>5, LiveAdvances
  <2> QED BY <2>1, <2>4, <2>6
<1>7. CASE r.action = "change" /\ Replaces(acct.sub)
  <2>1. Creates(s, r.plan) /\ Asks(r, acct.sub) = "create"
    BY <1>7 DEF Effect, Asks
  <2>2. PICK status \in {"incomplete", "active"} :
          Becomes(s, [status |-> status, plan |-> r.plan, period |-> version + 1, cancel |-> FALSE])
    BY <2>1 DEF Creates
  <2> DEFINE new == [status |-> status, plan |-> r.plan, period |-> version + 1, cancel |-> FALSE]
  <2>3. new \in SubRow /\ new.status # "none" /\ new.period = version + 1
    BY <1>1 DEF SubRow, Status
  <2>4. ~Used(s) /\ \A t \in Subs : t < s => Used(t)
    BY <2>1 DEF Creates, Unused, Used
  <2>5. stripe[s].status = "none" /\ stripe[s].period = 0 /\ ~stripe[s].cancel
    BY <2>4 DEF Used, IInv, SubFits, NoSub
  <2>6. Follows(stripe[s], new)
    BY <1>1, <2>3, <2>5 DEF Follows
  <2>7. acct.sub # 0 => Used(acct.sub) /\ stripe[acct.sub].status = "canceled"
    BY <1>7 DEF Replaces, Used
  <2>8. s > acct.sub
    <3>1. s # acct.sub
      BY <1>3, <2>4, <2>7, <1>2
    <3>2. CASE acct.sub = 0
      BY <1>2, <3>2
    <3>3. CASE acct.sub # 0
      <4>1. acct.sub \in Subs /\ ~(s < acct.sub)
        BY <1>3, <2>5, <2>7, <3>3 DEF IInv, Succession
      <4> QED BY <1>2, <3>1, <4>1
    <3> QED BY <3>2, <3>3
  <2>9. ASSUME NEW t \in Subs
        PROVE  /\ t < s => stripe[t].status = "canceled"
               /\ t > s => ~Used(t)
    <3>0. t \in Nat /\ s \in Nat /\ acct.sub \in Nat
      BY <1>2, <1>3
    <3>1. ASSUME t < s PROVE stripe[t].status = "canceled"
      <4>1. Used(t) /\ t <= acct.sub
        BY <1>4, <2>4, <3>1
      <4>2. CASE t = acct.sub
        BY <1>2, <2>7, <4>2
      <4>3. CASE t < acct.sub
        <5>1. acct.sub \in Subs /\ Used(acct.sub)
          BY <1>2, <1>3, <2>7, <4>3
        <5> QED BY <4>3, <5>1 DEF IInv, Succession
      <4> QED BY <3>0, <4>1, <4>2, <4>3
    <3>2. t > s => ~Used(t)
      BY <1>4, <2>8, <3>0
    <3> QED BY <3>1, <3>2
  <2>10. Advances(s, new)
    BY <2>3, <2>5, <2>6, <2>9 DEF Advances
  <2> QED BY <2>1, <2>2, <2>8, <2>10
<1> QED BY <1>5, <1>6, <1>7, RequestsAre

LEMMA CallStep == ASSUME IInv, NEW p \in Process, Call(p) PROVE IInv'
<1> DEFINE r == job[p].request
           k == r.key
<1>1. /\ RequestFits(job[p]) /\ SnapshotFits(job[p]) /\ job[p] \in Job /\ job[p].phase = "call"
      /\ UNCHANGED <<now, acct, ops, seen, posted, charges>>
  BY DEF IInv, Types, Call
<1>2. r \in Request /\ k \in Key
  BY <1>1, RequestsAre DEF RequestFits
<1>3. ASSUME Remembers(k), Answers(p, memo[k].sub), UNCHANGED <<atStripe, memo, made>>
      PROVE  IInv'
  <2>1. CASE Go(p, "idle")
    BY <1>1, <1>3, <2>1, Ends, Quiet DEF Go
  <2>2. CASE job' = [job EXCEPT ![p].phase = "finalize", ![p].sub = memo[k].sub]
    <3> DEFINE j == [job[p] EXCEPT !.phase = "finalize", !.sub = memo[k].sub]
    <3>1. memo[k].sub \in Subs \cup {0} /\ made[k] = 1
      BY <1>2, <1>3 DEF IInv, Types, MemoFits, Remembers
    <3>2. j \in Job /\ j.request = r /\ j.event = job[p].event /\ j.phase = "finalize" /\ j.sub = memo[k].sub
      BY <1>1, <3>1 DEF Job, Phase
    <3>3. job' = [job EXCEPT ![p] = j]
      BY <2>2 DEF IInv, Types
    <3> HIDE DEF j
    <3>4. Moves(p) /\ job'[p] = j
      BY <3>2, <3>3, Moving DEF IInv
    <3>5. RequestFits(job[p])'
      BY <1>1, <1>3, <3>1, <3>2, <3>4 DEF RequestFits
    <3>6. SnapshotFits(job[p])' /\ StatementFits(job[p])'
      BY <1>1, <1>3, <3>2, <3>4 DEF SnapshotFits, StatementFits, atStripe
    <3> QED BY <1>1, <1>3, <3>2, <3>4, <3>5, <3>6, Quiet, JobStep
  <2> QED BY <1>3, <2>1, <2>2 DEF Answers
<1>4. ASSUME ~Remembers(k), NEW s \in Subs, Effect(r, job[p].sub, s),
             memo' = [memo EXCEPT ![k] = [action |-> Asks(r, job[p].sub), sub |-> s, at |-> now]],
             made' = [made EXCEPT ![k] = @ + 1], Answers(p, s)
      PROVE  IInv'
  <2>1. /\ made[k] = 0 /\ acct.op = k /\ job[p].sub = acct.sub /\ ops[k].state = "started" /\ ops[k].request = r
        /\ ops[k].at <= now /\ ops[k].at \in Nat
    BY <1>1, <1>4, FirstCall
  <2>2. PICK new : /\ Advances(s, new) /\ Becomes(s, new)
                   /\ Asks(r, acct.sub) = "create" => s > acct.sub
                   /\ Asks(r, acct.sub) # "create" => s = acct.sub
    BY <1>2, <1>4, <2>1, EffectAdvances
  <2>3. /\ Asks(r, acct.sub) \in {"cancel", "create", "update"}
        /\ Asks(r, acct.sub) = "cancel" <=> r.action = "cancel"
    BY DEF Asks
  <2>4. /\ made' \in [Key -> {0, 1}] /\ made'[k] = 1 /\ \A l \in Key : l # k => made'[l] = made[l]
        /\ memo' \in [Key -> [action : {"none", "cancel", "create", "update"}, sub : Subs \cup {0}, at : Nat]]
        /\ memo'[k] = [action |-> Asks(r, acct.sub), sub |-> s, at |-> now]
        /\ \A l \in Key : l # k => memo'[l] = memo[l]
    BY <1>2, <1>4, <2>1, <2>3 DEF IInv, Types
  <2>5. ASSUME NEW l \in Key PROVE (OpFits(l) /\ MemoFits(l) /\ EffectFits(l))'
    <3>0. Used(s)' /\ \A t \in Subs : Used(t) => Used(t)'
      BY <2>2, Becoming, <1>1 DEF Used, Advances
    <3>1. OpFits(l) /\ MemoFits(l) /\ EffectFits(l)
      BY DEF IInv
    <3>2. CASE l = k
      <4>1. OpFits(l)'
        BY <1>1, <2>1, <2>4, <3>1, <3>2 DEF OpFits
      <4>2. MemoFits(l)'
        BY <1>1, <2>1, <2>3, <2>4, <3>0, <3>2 DEF MemoFits
      <4>3. EffectFits(l)'
        BY <1>1, <2>2, <2>4, <3>2 DEF EffectFits
      <4> QED BY <4>1, <4>2, <4>3
    <3>3. CASE l # k
      BY <1>1, <2>1, <2>4, <3>0, <3>1, <3>3 DEF OpFits, MemoFits, EffectFits
    <3> QED BY <3>2, <3>3
  <2>6. Newest'
    <3>1. \A t \in Subs : Used(t) => t <= acct.sub
      BY <2>1 DEF IInv, Newest, Created
    <3>2. ASSUME NEW t \in Subs, Used(t)' PROVE t <= acct.sub \/ Created(t)'
      <4>1. CASE t = s
        <5>1. CASE Asks(r, acct.sub) = "create"
          <6>1. acct'.op = k /\ k # NoKey
            BY <1>1, <1>2, <2>1, Constants
          <6> QED BY <2>4, <4>1, <5>1, <6>1 DEF Created
        <5>2. CASE Asks(r, acct.sub) # "create"
          <6>1. t \in Nat /\ t = acct.sub
            BY <2>2, <4>1, <5>2, Constants
          <6> QED BY <6>1
        <5> QED BY <5>1, <5>2
      <4>2. CASE t # s
        BY <1>1, <2>2, <3>1, <3>2, <4>2, Becoming DEF Used
      <4> QED BY <4>1, <4>2
    <3> QED BY <1>1, <3>2 DEF Newest
  <2>7. /\ job' \in [Process -> Job] /\ \A q \in Process : q # p => job'[q] = job[q]
        /\ \/ job'[p].phase = "idle" /\ job'[p].event = 0
           \/ /\ job'[p].phase = "finalize" /\ job'[p].event = job[p].event
              /\ job'[p].request = r /\ job'[p].sub = s
    <3>1. CASE Go(p, "idle")
      <4>1. job' = [job EXCEPT ![p] = Idle]
        BY <3>1 DEF Go
      <4>2. Moves(p) /\ job'[p] = Idle
        BY <4>1, IdleIsJob, Moving DEF IInv
      <4> QED BY <4>2 DEF Moves, Idle
    <3>2. CASE job' = [job EXCEPT ![p].phase = "finalize", ![p].sub = s]
      <4> DEFINE j == [job[p] EXCEPT !.phase = "finalize", !.sub = s]
      <4>1. j \in Job /\ j.phase = "finalize" /\ j.event = job[p].event /\ j.request = r /\ j.sub = s
        BY <1>1 DEF Job, Phase
      <4>2. job' = [job EXCEPT ![p] = j]
        BY <3>2 DEF IInv, Types
      <4> HIDE DEF j
      <4>3. Moves(p) /\ job'[p] = j
        BY <4>1, <4>2, Moving DEF IInv
      <4> QED BY <4>1, <4>3 DEF Moves
    <3> QED BY <1>4, <3>1, <3>2 DEF Answers
  <2>8. ASSUME NEW q \in Process PROVE RequestFits(job[q])'
    <3>1. CASE q = p
      <4>1. CASE job'[p].phase = "idle"
        BY <3>1, <4>1 DEF RequestFits
      <4>2. CASE job'[p].phase = "finalize" /\ job'[p].request = r /\ job'[p].sub = s
        BY <1>1, <1>2, <2>1, <2>4, <3>1, <4>2 DEF RequestFits
      <4> QED BY <2>7, <4>1, <4>2
    <3>2. CASE q # p
      <4>1. RequestFits(job[q]) /\ job'[q] = job[q]
        BY <2>7, <3>2 DEF IInv
      <4>2. job[q].phase \in {"call", "finalize"} => job[q].request.key \in Key
        BY <4>1, RequestsAre DEF RequestFits
      <4> QED BY <1>1, <2>1, <2>4, <4>1, <4>2 DEF RequestFits
    <3> QED BY <3>1, <3>2
  <2>9. job[p].event <= version /\ 0 <= version
    BY <1>1, Constants DEF SnapshotFits, IInv, Types
  <2>10. \A q \in Process : job'[q] = job[q] \/ (job'[q].phase \in {"idle", "finalize"} /\ job'[q].event <= version)
    BY <2>7, <2>9
  <2> QED BY <1>1, <2>2, <2>4, <2>5, <2>6, <2>7, <2>8, <2>10, StripeStep
<1> QED BY <1>3, <1>4 DEF Call

LEMMA TickStep == ASSUME IInv, Tick PROVE IInv'
<1>1. /\ now' = now + 1 /\ now \in Nat
      /\ UNCHANGED <<acct, ops, stripe, version, sold, memo, made, seen, posted, charges, job>>
      /\ \A p \in Process : job[p].phase \notin {"claim", "customer", "call"}
  BY DEF Tick, IInv, Types, atStripe
<1>2. Types'
  BY <1>1 DEF IInv, Types
<1>3. ASSUME NEW k \in Key PROVE (OpFits(k) /\ MemoFits(k) /\ EffectFits(k))'
  <2>1. OpFits(k) /\ MemoFits(k) /\ EffectFits(k) /\ ops[k].at \in Nat
    BY DEF IInv, Types
  <2> QED BY <1>1, <2>1 DEF OpFits, MemoFits, EffectFits, Used
<1>4. ASSUME NEW p \in Process PROVE (RequestFits(job[p]) /\ SnapshotFits(job[p]) /\ StatementFits(job[p]))'
  <2>1. RequestFits(job[p]) /\ SnapshotFits(job[p]) /\ StatementFits(job[p])
    BY DEF IInv
  <2> QED BY <1>1, <2>1 DEF RequestFits, SnapshotFits, StatementFits, Ahead, Stated, Sold
<1>5. Succession' /\ Newest' /\ \A s \in Subs : SubFits(s)'
  BY <1>1 DEF IInv, Succession, Newest, Created, Used, SubFits
<1>6. AccountFits' /\ SeenEventsAreApplied'
  BY <1>1 DEF IInv, AccountFits, UsageIsCharged, Used, SeenEventsAreApplied
<1>7. BooksFit'
  BY <1>1 DEF IInv, BooksFit, Used, Ahead, Stated, Sold
<1>8. CancellationsFit'
  BY <1>1 DEF IInv, CancellationsFit, Before, Over, Shows
<1> QED BY <1>2, <1>3, <1>4, <1>5, <1>6, <1>7, <1>8 DEF IInv

LEMMA Stutter == ASSUME IInv, UNCHANGED vars PROVE IInv'
<1>1. UNCHANGED <<now, acct, ops, stripe, version, sold, memo, made, seen, posted, charges, job>>
  BY DEF vars
<1>2. Types'
  BY <1>1 DEF IInv, Types
<1>3. ASSUME NEW k \in Key PROVE (OpFits(k) /\ MemoFits(k) /\ EffectFits(k))'
  BY <1>1 DEF IInv, OpFits, MemoFits, EffectFits, Used
<1>4. ASSUME NEW p \in Process PROVE (RequestFits(job[p]) /\ SnapshotFits(job[p]) /\ StatementFits(job[p]))'
  BY <1>1 DEF IInv, RequestFits, SnapshotFits, StatementFits, Ahead, Stated, Sold
<1>5. Succession' /\ Newest' /\ \A s \in Subs : SubFits(s)'
  BY <1>1 DEF IInv, Succession, Newest, Created, Used, SubFits
<1>6. AccountFits' /\ SeenEventsAreApplied'
  BY <1>1 DEF IInv, AccountFits, UsageIsCharged, Used, SeenEventsAreApplied
<1>7. BooksFit'
  BY <1>1 DEF IInv, BooksFit, Used, Ahead, Stated, Sold
<1>8. CancellationsFit'
  BY <1>1 DEF IInv, CancellationsFit, Before, Over, Shows
<1> QED BY <1>2, <1>3, <1>4, <1>5, <1>6, <1>7, <1>8 DEF IInv

-----------------------------------------------------------------------------
(* The account row is written.                                             *)

\* A request that another one's write of the account row did not end.
LEMMA Bystanders ==
  ASSUME IInv, NEW q \in Process, job'[q] = Conflicts(job)[q],
         UNCHANGED <<now, stripe, version, memo, made>>,
         \A k \in Key : ops[k].state # "none" =>
           ops'[k].state # "none" /\ ops'[k].request = ops[k].request /\ ops'[k].at = ops[k].at,
         acct'.as >= acct.as, acct'.as \in Nat,
         \A k \in Key : ops[k].state = "started" /\ made[k] = 0 => acct'.sub = acct.sub
  PROVE  /\ RequestFits(job[q])' /\ SnapshotFits(job[q])' /\ StatementFits(job[q])'
         /\ job'[q] \in Job /\ job'[q].phase # "write"
<1>1. job[q] \in Job /\ acct.as \in Nat /\ version \in Nat
  BY Constants DEF IInv, Types
<1>2. CASE job'[q] = Idle
  <2>1. Idle.phase = "idle" /\ Idle.event = 0
    BY DEF Idle
  <2> HIDE DEF Idle
  <2> QED BY <1>1, <1>2, <2>1, IdleIsJob DEF RequestFits, SnapshotFits, StatementFits
<1>3. CASE job'[q] = job[q] /\ ~Conditional(job[q])
  <2>1. RequestFits(job[q]) /\ SnapshotFits(job[q])
    BY DEF IInv
  <2>2. job[q].phase \notin {"claim", "write"} /\ (job[q].phase = "snapshot" => job[q].sub = 0)
    BY <1>3 DEF Conditional
  <2>3. ASSUME job[q].phase \in {"customer", "call", "finalize"}
        PROVE  LET k == job[q].request.key
               IN k \in Key /\ ops[k].state # "none" /\ (made[k] = 0 => ops[k].state = "started")
    <3> DEFINE k == job[q].request.key
    <3>1. k \in Key /\ ops[k].state # "none"
      BY <2>1, <2>3, RequestsAre DEF RequestFits
    <3>2. ops[k].state \in {"none", "started", "done"} /\ OpFits(k)
      BY <3>1 DEF IInv, Types
    <3> QED BY <3>1, <3>2 DEF OpFits
  <2>4. RequestFits(job[q])'
    <3>1. CASE job[q].phase \in {"customer", "call", "finalize"}
      <4> DEFINE k == job[q].request.key
      <4>1. /\ ops'[k].state # "none" /\ ops'[k].request = ops[k].request /\ ops'[k].at = ops[k].at
            /\ made[k] = 0 => acct'.sub = acct.sub
        BY <2>3, <3>1
      <4> QED BY <1>3, <2>1, <2>2, <3>1, <4>1 DEF RequestFits
    <3>2. CASE job[q].phase \notin {"customer", "call", "finalize"}
      BY <1>3, <2>2, <3>2 DEF RequestFits
    <3> QED BY <3>1, <3>2
  <2>5. job[q].event \in Nat
    <3>1. job[q].event \in Event \cup {0}
      BY <1>1 DEF Job
    <3>2. \A e \in Event \cup {0} : e \in Nat
      BY Constants
    <3> QED BY <3>1, <3>2
  <2>6. SnapshotFits(job[q])'
    BY <1>1, <1>3, <2>1, <2>2, <2>5 DEF SnapshotFits
  <2> QED BY <1>1, <1>3, <2>2, <2>4, <2>6 DEF StatementFits
<1> QED BY <1>2, <1>3 DEF Conflicts

\* A write that leaves alone what the account knows of Stripe.
LEMMA Touched ==
  ASSUME IInv, UNCHANGED <<stripe, version, sold, posted, seen>>,
         acct'.sub = acct.sub, acct'.plan = acct.plan, acct'.status = acct.status, acct'.period = acct.period,
         acct'.cancel = acct.cancel, acct'.as = acct.as,
         \A q \in Process : job'[q].phase # "write"
  PROVE  Succession' /\ (\A s \in Subs : SubFits(s)') /\ SeenEventsAreApplied' /\ BooksFit' /\ CancellationsFit'
<1>1. Succession' /\ \A s \in Subs : SubFits(s)'
  BY DEF IInv, Succession, Used, SubFits
<1>2. SeenEventsAreApplied'
  BY DEF IInv, SeenEventsAreApplied
<1>3. BooksFit'
  BY DEF IInv, BooksFit, Used, Ahead, Shown, Stated, Sold
<1>4. Before' = Before /\ (Shows(acct)' <=> Shows(acct))
  BY DEF Before, Over, Shows
<1>5. CancellationsFit'
  BY <1>4 DEF IInv, CancellationsFit
<1> QED BY <1>1, <1>2, <1>3, <1>5

LEMMA ClaimStep == ASSUME IInv, NEW p \in Process, Claim(p) PROVE IInv'
<1> DEFINE r == job[p].request
           k == r.key
           j == [job[p] EXCEPT !.phase = "customer"]
<1>1. /\ UNCHANGED <<now, stripe, version, sold, memo, made, seen, posted, charges>>
      /\ ops' = [ops EXCEPT ![k] = [state |-> "started", request |-> r, at |-> now]]
      /\ acct' = [acct EXCEPT !.op = k]
      /\ job' = [Conflicts(job) EXCEPT ![p] = j]
  BY DEF Claim, atStripe
<1>2. r \in Request /\ acct.op = NoKey /\ ops[k].state = "none" /\ job[p] \in Job /\ job[p].event <= version
  BY DEF Claim, IInv, Types, RequestFits, SnapshotFits
<1>3. k \in Key /\ now \in Nat /\ NoKey \notin Key /\ acct.as \in Nat /\ Refuse \in Nat
  BY <1>2, RequestsAre, Constants DEF IInv, Types
<1>4. j \in Job /\ j.phase = "customer" /\ j.request = r /\ j.event = job[p].event
  BY <1>2 DEF Job, Phase
<1>5. job'[p] = j /\ \A q \in Process : q # p => job'[q] = Conflicts(job)[q]
  BY <1>1 DEF Conflicts
<1> HIDE DEF j
<1>6. /\ acct'.op = k /\ acct'.sub = acct.sub /\ acct'.plan = acct.plan /\ acct'.status = acct.status
      /\ acct'.period = acct.period /\ acct'.cancel = acct.cancel /\ acct'.as = acct.as /\ acct'.used = acct.used
  BY <1>1 DEF IInv, Types
<1>7. ops'[k] = [state |-> "started", request |-> r, at |-> now] /\ \A l \in Key : l # k => ops'[l] = ops[l]
  BY <1>1, <1>3 DEF IInv, Types
<1>8. ASSUME NEW q \in Process, q # p
      PROVE  /\ RequestFits(job[q])' /\ SnapshotFits(job[q])' /\ StatementFits(job[q])'
             /\ job'[q] \in Job /\ job'[q].phase # "write"
  BY <1>1, <1>2, <1>3, <1>5, <1>6, <1>7, <1>8, Bystanders
<1>9. RequestFits(job[p])' /\ SnapshotFits(job[p])' /\ StatementFits(job[p])'
  BY <1>1, <1>2, <1>3, <1>4, <1>5, <1>7 DEF RequestFits, SnapshotFits, StatementFits
<1>10. \A q \in Process : job'[q] \in Job /\ job'[q].phase # "write"
  BY <1>4, <1>5, <1>8
<1>11. job' \in [Process -> Job]
  BY <1>1, <1>10 DEF Conflicts
<1>12. Types'
  BY <1>1, <1>2, <1>3, <1>11 DEF IInv, Types
<1>13. ASSUME NEW l \in Key PROVE (OpFits(l) /\ MemoFits(l) /\ EffectFits(l))'
  <2>1. OpFits(l) /\ MemoFits(l) /\ EffectFits(l)
    BY DEF IInv
  <2>2. CASE l = k
    BY <1>1, <1>2, <1>3, <1>6, <1>7, <2>1, <2>2 DEF OpFits, MemoFits, EffectFits
  <2>3. CASE l # k
    BY <1>1, <1>2, <1>3, <1>6, <1>7, <2>1, <2>3 DEF OpFits, MemoFits, EffectFits, Used
  <2> QED BY <2>2, <2>3
<1>14. Newest'
  BY <1>1, <1>2, <1>6 DEF IInv, Newest, Created, Used
<1>15. AccountFits'
  BY <1>1, <1>6 DEF IInv, AccountFits, UsageIsCharged, Used
<1> QED BY <1>1, <1>6, <1>8, <1>9, <1>10, <1>12, <1>13, <1>14, <1>15, Touched DEF IInv

LEMMA CustomerStep == ASSUME IInv, NEW p \in Process, Customer(p) PROVE IInv'
<1>1. /\ UNCHANGED <<now, ops, stripe, version, sold, memo, made, seen, posted, charges>>
      /\ acct' = [acct EXCEPT !.customer = TRUE] /\ job' = Conflicts(job)
  BY DEF Customer, atStripe
<1>2. /\ acct'.op = acct.op /\ acct'.sub = acct.sub /\ acct'.plan = acct.plan /\ acct'.status = acct.status
      /\ acct'.period = acct.period /\ acct'.cancel = acct.cancel /\ acct'.as = acct.as /\ acct'.used = acct.used
      /\ acct.as \in Nat
  BY <1>1 DEF IInv, Types
<1>3. ASSUME NEW q \in Process
      PROVE  /\ RequestFits(job[q])' /\ SnapshotFits(job[q])' /\ StatementFits(job[q])'
             /\ job'[q] \in Job /\ job'[q].phase # "write"
  BY <1>1, <1>2, Bystanders
<1>4. job' \in [Process -> Job]
  BY <1>1, <1>3 DEF Conflicts
<1>5. Types'
  BY <1>1, <1>4 DEF IInv, Types
<1>6. ASSUME NEW l \in Key PROVE (OpFits(l) /\ MemoFits(l) /\ EffectFits(l))'
  BY <1>1, <1>2 DEF IInv, OpFits, MemoFits, EffectFits, Used
<1>7. Newest'
  BY <1>1, <1>2 DEF IInv, Newest, Created, Used
<1>8. AccountFits'
  BY <1>1, <1>2 DEF IInv, AccountFits, UsageIsCharged, Used
<1> QED BY <1>1, <1>2, <1>3, <1>5, <1>6, <1>7, <1>8, Touched DEF IInv

LEMMA PeriodOfAccount == ASSUME IInv PROVE acct.period \in Period
<1>1. acct.period \in Nat /\ version \in 0..MaxVersion /\ acct.sub \in Subs \cup {0} /\ stripe \in [Subs -> SubRow]
  BY DEF IInv, Types
<1>2. CASE acct.sub = 0
  BY <1>1, <1>2, Constants DEF IInv, AccountFits, Period
<1>3. CASE acct.sub # 0
  <2>1. acct.period <= stripe[acct.sub].period /\ stripe[acct.sub].period <= version /\ stripe[acct.sub].period \in Nat
    BY <1>1, <1>3 DEF IInv, AccountFits, SubFits, SubRow
  <2> QED BY <1>1, <2>1, Constants DEF Period
<1> QED BY <1>2, <1>3

LEMMA ConsumeStep == ASSUME IInv, Consume PROVE IInv'
<1>1. /\ UNCHANGED <<now, ops, stripe, version, sold, memo, made, seen, posted>>
      /\ acct.used < MaxUsed
      /\ acct' = [acct EXCEPT !.used = acct.used + 1] /\ job' = Conflicts(job)
      /\ charges' = [charges EXCEPT ![acct.period] = @ + 1]
  BY DEF Consume, atStripe, IInv, Types
<1>2. /\ acct'.op = acct.op /\ acct'.sub = acct.sub /\ acct'.plan = acct.plan /\ acct'.status = acct.status
      /\ acct'.period = acct.period /\ acct'.cancel = acct.cancel /\ acct'.as = acct.as
      /\ acct'.used = acct.used + 1 /\ acct.as \in Nat /\ acct'.used \in 0..MaxUsed
  BY <1>1, Constants DEF IInv, Types
<1>3. ASSUME NEW q \in Process
      PROVE  /\ RequestFits(job[q])' /\ SnapshotFits(job[q])' /\ StatementFits(job[q])'
             /\ job'[q] \in Job /\ job'[q].phase # "write"
  BY <1>1, <1>2, Bystanders
<1>4. job' \in [Process -> Job]
  BY <1>1, <1>3 DEF Conflicts
<1>5. /\ acct.period \in Period /\ charges \in [Period -> Nat] /\ UsageIsCharged
      /\ \A n \in Period : n > acct.period => charges[n] = 0
      /\ Period \subseteq Nat
  <2>1. Period \subseteq Nat
    BY Constants DEF Period
  <2> QED BY <2>1, PeriodOfAccount DEF IInv, Types, AccountFits
<1>6. Types'
  <2>1. charges' \in [Period -> Nat]
    BY <1>1, <1>5
  <2>2. acct' \in [customer : BOOLEAN, sub : Subs \cup {0}, op : Key \cup {NoKey}, plan : PlanValue, status : Status,
                   period : Nat, cancel : BOOLEAN, used : 0..MaxUsed, as : Nat]
    BY <1>1, <1>2 DEF IInv, Types
  <2> QED BY <1>1, <1>4, <2>1, <2>2 DEF IInv, Types
<1>7. ASSUME NEW l \in Key PROVE (OpFits(l) /\ MemoFits(l) /\ EffectFits(l))'
  BY <1>1, <1>2 DEF IInv, OpFits, MemoFits, EffectFits, Used
<1>8. Newest'
  BY <1>1, <1>2 DEF IInv, Newest, Created, Used
<1>9. AccountFits'
  <2>1. UsageIsCharged'
    BY <1>1, <1>2, <1>5 DEF UsageIsCharged
  <2>2. \A n \in Period : n > acct'.period => charges'[n] = 0
    BY <1>1, <1>2, <1>5
  <2> QED BY <1>1, <1>2, <2>1, <2>2 DEF IInv, AccountFits, Used
<1> QED BY <1>1, <1>2, <1>3, <1>6, <1>7, <1>8, <1>9, Touched DEF IInv

LEMMA Earlier ==
  IsFiniteSet(Before) /\ Cardinality(Before) \in Nat
<1>1. Before \subseteq Subs
  BY DEF Before
<1> QED BY <1>1, Constants, FS_Subset, FS_CardinalityType

\* The answer of Stripe is recorded: the account may follow a newer subscription from now on.
LEMMA FinalizeStep == ASSUME IInv, NEW p \in Process, Finalize(p) PROVE IInv'
<1> DEFINE r == job[p].request
           k == r.key
           j == [Idle EXCEPT !.phase = "sync"]
<1>0. j \in Job /\ j.phase = "sync" /\ j.event = 0
  BY IdleIsJob DEF Job, Idle, Phase
<1>1. /\ UNCHANGED <<now, stripe, version, sold, memo, made, seen, posted, charges>>
      /\ r \in Request /\ k \in Key /\ k # NoKey /\ job[p].phase = "finalize"
      /\ made[k] = 1 /\ job[p].sub = memo[k].sub /\ ops[k].state # "none" /\ ops[k].request = r
      /\ version \in Nat
  BY RequestsAre, Constants DEF Finalize, IInv, RequestFits, Types, atStripe
<1>2. CASE ops[k].state = "done" /\ Synchronizes(p) /\ UNCHANGED <<acct, ops>>
  <2>1. job' = [job EXCEPT ![p] = j]
    BY <1>2 DEF Synchronizes
  <2> HIDE DEF j
  <2>2. Moves(p) /\ job'[p] = j
    BY <1>0, <2>1, Moving DEF IInv
  <2>3. RequestFits(job[p])' /\ SnapshotFits(job[p])' /\ StatementFits(job[p])'
    BY <1>0, <1>1, <2>2 DEF RequestFits, SnapshotFits, StatementFits
  <2> QED BY <1>0, <1>1, <1>2, <2>2, <2>3, Quiet, JobStep DEF atStripe
<1>3. CASE Go(p, "idle") /\ UNCHANGED <<acct, ops>>
  BY <1>1, <1>3, Ends, Quiet DEF Go, atStripe
<1>4. CASE /\ ops[k].state # "done" /\ acct.op = k
           /\ ops' = [ops EXCEPT ![k].state = "done"]
           /\ acct' = [acct EXCEPT !.op = NoKey, !.sub = IF r.action = "change" THEN job[p].sub ELSE @]
           /\ job' = [Conflicts(job) EXCEPT ![p] = j]
  <2> DEFINE new == IF r.action = "change" THEN job[p].sub ELSE acct.sub
  <2>1. OpFits(k) /\ MemoFits(k) /\ EffectFits(k) /\ memo[k].sub \in Subs /\ Used(memo[k].sub)
    BY <1>1 DEF IInv, MemoFits
  <2>2. /\ acct.sub \in Subs \cup {0} /\ \A t \in Subs : t \in Nat /\ t # 0
        /\ stripe \in [Subs -> SubRow] /\ acct.as \in Nat /\ acct.period \in Nat
        /\ memo[k].action \in {"none", "cancel", "create", "update"}
    BY <1>1, Constants DEF IInv, Types
  <2>3. /\ new \in Subs \cup {0}
        /\ \/ new = acct.sub
           \/ new \in Subs /\ new > acct.sub /\ Used(new)
        /\ memo[k].action = "create" => new = memo[k].sub
    BY <1>1, <1>4, <2>1, <2>2, RequestsAre DEF MemoFits, EffectFits
  <2>4. /\ acct'.op = NoKey /\ acct'.sub = new /\ acct'.plan = acct.plan /\ acct'.status = acct.status
        /\ acct'.period = acct.period /\ acct'.cancel = acct.cancel /\ acct'.as = acct.as /\ acct'.used = acct.used
        /\ acct' \in [customer : BOOLEAN, sub : Subs \cup {0}, op : Key \cup {NoKey}, plan : PlanValue, status : Status,
                      period : Nat, cancel : BOOLEAN, used : 0..MaxUsed, as : Nat]
    <3>1. acct' = [acct EXCEPT !.op = NoKey, !.sub = new]
      BY <1>4 DEF IInv, Types
    <3> HIDE DEF new
    <3> QED BY <2>3, <3>1 DEF IInv, Types
  <2>5. /\ ops' \in [Key -> [state : {"none", "started", "done"}, request : Request \cup {NoKey}, at : Nat]]
        /\ ops'[k].state = "done" /\ ops'[k].request = ops[k].request /\ ops'[k].at = ops[k].at
        /\ \A l \in Key : l # k => ops'[l] = ops[l]
    BY <1>1, <1>4 DEF IInv, Types
  <2>6. job'[p] = j /\ \A q \in Process : q # p => job'[q] = Conflicts(job)[q]
    BY <1>4 DEF Conflicts
  <2> HIDE DEF new, j
  <2>7. \A l \in Key : ops[l].state = "started" => l = k
    BY <1>4 DEF IInv, OpFits
  <2>8. ASSUME NEW q \in Process, q # p
        PROVE  /\ RequestFits(job[q])' /\ SnapshotFits(job[q])' /\ StatementFits(job[q])'
               /\ job'[q] \in Job /\ job'[q].phase # "write"
    BY <1>1, <2>2, <2>4, <2>5, <2>6, <2>7, <2>8, Bystanders
  <2>9. RequestFits(job[p])' /\ SnapshotFits(job[p])' /\ StatementFits(job[p])'
    BY <1>0, <1>1, <2>6 DEF RequestFits, SnapshotFits, StatementFits
  <2>10. \A q \in Process : job'[q] \in Job /\ job'[q].phase # "write"
    BY <1>0, <2>6, <2>8
  <2>11. job' \in [Process -> Job]
    BY <1>4, <2>10 DEF Conflicts
  <2>12. Types'
    BY <1>1, <2>4, <2>5, <2>11 DEF IInv, Types
  <2>13. ASSUME NEW l \in Key PROVE (OpFits(l) /\ MemoFits(l) /\ EffectFits(l))'
    <3>1. OpFits(l) /\ MemoFits(l) /\ l # NoKey
      BY Constants DEF IInv
    <3>2. CASE l = k
      BY <1>1, <2>4, <2>5, <3>1, <3>2 DEF OpFits, MemoFits, EffectFits, Used
    <3>3. CASE l # k
      BY <1>1, <2>4, <2>5, <2>7, <3>1, <3>3 DEF OpFits, MemoFits, EffectFits, Used
    <3> QED BY <3>2, <3>3
  <2>14. Newest'
    <3>1. ASSUME NEW t \in Subs, Used(t) PROVE t <= new
      <4>1. t <= acct.sub \/ Created(t)
        BY <3>1 DEF IInv, Newest
      <4>2. acct.sub <= new /\ new \in Nat /\ acct.sub \in Nat /\ t \in Nat
        BY <2>2, <2>3
      <4>3. CASE t <= acct.sub
        BY <4>2, <4>3
      <4>4. CASE Created(t)
        BY <1>4, <2>3, <4>2, <4>4 DEF Created
      <4> QED BY <4>1, <4>3, <4>4
    <3> QED BY <1>1, <2>4, <3>1 DEF Newest, Used
  <2>15. Succession' /\ \A s \in Subs : SubFits(s)'
    BY <1>1 DEF IInv, Succession, Used, SubFits
  <2>16. AccountFits'
    <3>1. new = 0 => acct.period = 0
      BY <2>2, <2>3 DEF IInv, AccountFits
    <3>2. new # 0 => Used(new) /\ acct.period <= stripe[new].period
      <4>1. CASE new = acct.sub
        BY <4>1 DEF IInv, AccountFits
      <4>2. CASE new # acct.sub /\ acct.sub = 0
        BY <2>2, <2>3, <4>2 DEF IInv, AccountFits, SubRow
      <4>3. CASE new # acct.sub /\ acct.sub # 0
        <5>1. new \in Subs /\ acct.sub \in Subs /\ acct.sub < new /\ Used(new)
          BY <2>2, <2>3, <4>3
        <5>2. stripe[acct.sub].period <= stripe[new].period /\ acct.period <= stripe[acct.sub].period
          BY <4>3, <5>1 DEF IInv, Succession, AccountFits
        <5> QED BY <2>2, <5>1, <5>2 DEF SubRow
      <4> QED BY <4>1, <4>2, <4>3
    <3> QED BY <1>1, <2>4, <3>1, <3>2 DEF IInv, AccountFits, UsageIsCharged, Used
  <2>17. SeenEventsAreApplied'
    BY <1>1, <2>4 DEF IInv, SeenEventsAreApplied
  <2>18. BooksFit'
    <3>1. \A e \in DOMAIN posted.plans : e[1] <= new /\ e[1] \in Subs
      BY <2>2, <2>3 DEF IInv, BooksFit
    <3>2. new # 0 => Ahead(new, acct, stripe[new])
      <4>1. CASE new = acct.sub
        BY <4>1 DEF IInv, BooksFit
      <4>2. CASE new # acct.sub
        <5> DEFINE e == Shown(new, stripe[new])
        <5>1. Sold(e) > 0 /\ new \in Subs /\ ~(new <= acct.sub)
          BY <2>2, <2>3, <4>2 DEF IInv, BooksFit
        <5>2. e \notin DOMAIN posted.plans
          BY <5>1 DEF IInv, BooksFit, Shown
        <5>3. Stated(e) = 0
          BY <5>2 DEF Stated, Copies
        <5> QED BY <5>1, <5>3 DEF Ahead
      <4> QED BY <4>1, <4>2
    <3>3. acct'.sub # 0 => Ahead(acct.sub, acct, stripe[acct.sub])'
      BY <1>1, <2>4, <3>2 DEF Ahead, Shown, Stated, Sold
    <3> QED BY <1>1, <2>4, <3>1, <3>3 DEF IInv, BooksFit, Used, Sold
  <2>19. CancellationsFit'
    <3>1. CASE new = acct.sub
      <4>1. Before' = Before /\ (Shows(acct)' <=> Shows(acct))
        BY <1>1, <2>4, <3>1 DEF Before, Over, Shows
      <4> QED BY <1>1, <2>4, <2>10, <3>1, <4>1 DEF IInv, CancellationsFit
    <3>2. CASE new # acct.sub
      <4>1. new \in Subs /\ acct.sub \in Nat /\ acct.sub < new /\ Used(new) /\ acct'.sub = new
        BY <2>2, <2>3, <2>4, <3>2
      <4>2. Before \subseteq Before'
        BY <1>1, <2>2, <4>1 DEF Before, Over
      <4>3. IsFiniteSet(Before') /\ Cardinality(Before') \in Nat
        <5>1. Before' \subseteq Subs
          BY DEF Before
        <5> QED BY <5>1, Constants, FS_Subset, FS_CardinalityType
      <4>4. Cardinality(Before) <= Cardinality(Before') /\ Cardinality(Before) \in Nat
        BY <4>2, <4>3, Earlier, FS_Subset
      <4>5. acct.sub # 0 => Cardinality(Before) + 1 <= Cardinality(Before')
        <5> SUFFICES ASSUME acct.sub # 0 PROVE Cardinality(Before) + 1 <= Cardinality(Before')
          OBVIOUS
        <5>1. acct.sub \in Subs /\ stripe[acct.sub].status = "canceled"
          BY <2>2, <4>1 DEF IInv, Succession
        <5>2. acct.sub \in Before' /\ acct.sub \notin Before
          BY <1>1, <4>1, <5>1 DEF Before, Over
        <5>3. Cardinality(Before \cup {acct.sub}) = Cardinality(Before) + 1
          BY <5>2, Earlier, FS_AddElement
        <5>4. Before \cup {acct.sub} \subseteq Before'
          BY <4>2, <5>2
        <5>5. Cardinality(Before \cup {acct.sub}) <= Cardinality(Before')
          BY <4>3, <5>4, FS_Subset
        <5> QED BY <5>3, <5>5
      <4>6. posted.canceled \in Nat /\ posted' = posted
        BY <1>1 DEF IInv, Types
      <4>7. posted.canceled <= Cardinality(Before')
        BY <4>3, <4>4, <4>5, <4>6 DEF IInv, CancellationsFit
      <4> QED BY <4>6, <4>7 DEF CancellationsFit
    <3> QED BY <3>1, <3>2
  <2> QED BY <2>8, <2>9, <2>12, <2>13, <2>14, <2>15, <2>16, <2>17, <2>18, <2>19 DEF IInv
<1> QED BY <1>2, <1>3, <1>4 DEF Finalize

\* The snapshot is written: what it shows beyond the account is stated, a cancellation counted.
LEMMA SyncWriteStep == ASSUME IInv, NEW p \in Process, SyncWrite(p) PROVE IInv'
<1> DEFINE sub == job[p].snapshot.sub
           s == acct.sub
           x == <<job[p].sub, sub.period, sub.plan>>
           j == IF job[p].event = 0 THEN Idle ELSE [job[p] EXCEPT !.phase = "record", !.snapshot = NoSnapshot]
<1>1. /\ UNCHANGED <<now, ops, stripe, version, sold, memo, made, seen, charges>>
      /\ acct' = [acct EXCEPT !.plan = sub.plan, !.status = sub.status, !.period = sub.period,
                              !.cancel = sub.cancel, !.as = job[p].snapshot.version,
                              !.used = IF Renewed(sub) THEN 0 ELSE @]
      /\ posted' = [plans |-> IF Starts(sub) THEN posted.plans (+) SetToBag({x}) ELSE posted.plans,
                    canceled |-> posted.canceled + IF Cancels(sub) THEN 1 ELSE 0]
      /\ job' = [Conflicts(job) EXCEPT ![p] = j]
  BY DEF SyncWrite, atStripe
<1>2. job[p] \in Job /\ job[p].phase = "write" /\ SnapshotFits(job[p]) /\ StatementFits(job[p])
  BY DEF SyncWrite, IInv, Types
<1>3. /\ s \in Subs /\ s # 0 /\ job[p].sub = s /\ Used(s) /\ sub \in SubRow /\ stripe[s] \in SubRow
      /\ job[p].snapshot.version \in acct.as..version /\ job[p].event <= job[p].snapshot.version
      /\ acct.period <= sub.period /\ Follows(sub, stripe[s])
      /\ Ahead(s, acct, sub) /\ Ahead(s, sub, stripe[s])
      /\ acct.period \in Nat /\ acct.as \in Nat /\ version \in 0..MaxVersion
  BY <1>2 DEF SnapshotFits, StatementFits, IInv, Types, Job, AccountFits
<1>4. /\ job[p].snapshot.version \in Nat /\ job[p].snapshot.version >= acct.as /\ job[p].snapshot.version <= version
      /\ sub.period \in Nat /\ stripe[s].period \in Nat /\ sub.period <= stripe[s].period
      /\ stripe[s].period <= version /\ job[p].event <= version /\ version \in Nat
  <2>1. version \in Nat /\ job[p].snapshot.version \in Nat
    BY <1>2, <1>3, Constants DEF Job
  <2>2. sub.period \in Nat /\ stripe[s].period \in Nat /\ sub.period <= stripe[s].period
    BY <1>3 DEF SubRow, Follows
  <2>3. stripe[s].period <= version
    BY <1>3 DEF IInv, SubFits
  <2>4. job[p].event <= version
    BY <1>2 DEF SnapshotFits
  <2> QED BY <1>3, <2>1, <2>2, <2>3, <2>4
<1>5. sub.period \in Period /\ Period \subseteq Nat
  BY <1>3, <1>4, Constants DEF Period
<1>6. /\ acct'.op = acct.op /\ acct'.sub = s /\ acct'.plan = sub.plan /\ acct'.status = sub.status
      /\ acct'.period = sub.period /\ acct'.cancel = sub.cancel /\ acct'.as = job[p].snapshot.version
      /\ acct'.used = IF Renewed(sub) THEN 0 ELSE acct.used
      /\ acct' \in [customer : BOOLEAN, sub : Subs \cup {0}, op : Key \cup {NoKey}, plan : PlanValue, status : Status,
                    period : Nat, cancel : BOOLEAN, used : 0..MaxUsed, as : Nat]
  <2>1. acct \in [customer : BOOLEAN, sub : Subs \cup {0}, op : Key \cup {NoKey}, plan : PlanValue, status : Status,
                  period : Nat, cancel : BOOLEAN, used : 0..MaxUsed, as : Nat]
    BY DEF IInv, Types
  <2>2. sub.plan \in PlanValue /\ sub.status \in Status /\ sub.cancel \in BOOLEAN
    BY <1>3 DEF SubRow
  <2>3. (IF Renewed(sub) THEN 0 ELSE acct.used) \in 0..MaxUsed
    BY <2>1, Constants
  <2> HIDE DEF sub
  <2> QED BY <1>1, <1>4, <2>1, <2>2, <2>3
<1>7. /\ job'[p] = j /\ \A q \in Process : q # p => job'[q] = Conflicts(job)[q]
  BY <1>1 DEF Conflicts
<1>8. /\ j \in Job /\ j.phase \in {"idle", "record"} /\ j.event \in {0, job[p].event}
  <2>1. Idle \in Job /\ Idle.phase = "idle" /\ Idle.event = 0
    BY IdleIsJob DEF Idle
  <2>2. NoSnapshot \in [sub : SubRow, version : Nat]
    BY IdleIsJob DEF Idle, Job
  <2>3. /\ [job[p] EXCEPT !.phase = "record", !.snapshot = NoSnapshot] \in Job
        /\ [job[p] EXCEPT !.phase = "record", !.snapshot = NoSnapshot].phase = "record"
        /\ [job[p] EXCEPT !.phase = "record", !.snapshot = NoSnapshot].event = job[p].event
    BY <1>2, <2>2 DEF Job, Phase
  <2> QED BY <2>1, <2>3
<1> HIDE DEF j
<1>9. ASSUME NEW q \in Process, q # p
      PROVE  /\ RequestFits(job[q])' /\ SnapshotFits(job[q])' /\ StatementFits(job[q])'
             /\ job'[q] \in Job /\ job'[q].phase # "write"
  BY <1>1, <1>4, <1>6, <1>7, <1>9, Bystanders
<1>10. RequestFits(job[p])' /\ SnapshotFits(job[p])' /\ StatementFits(job[p])'
  <2>1. job'[p] = j /\ j.phase \in {"idle", "record"}
    BY <1>7, <1>8
  <2>2. j.event <= version /\ j.event <= acct'.as
    BY <1>3, <1>4, <1>6, <1>8
  <2>3. SnapshotFits(job[p])'
    BY <1>1, <2>1, <2>2 DEF SnapshotFits
  <2>4. RequestFits(job[p])' /\ StatementFits(job[p])'
    BY <2>1 DEF RequestFits, StatementFits
  <2> QED BY <2>3, <2>4
<1>11. \A q \in Process : job'[q] \in Job /\ job'[q].phase # "write"
  BY <1>7, <1>8, <1>9
<1>12. job' \in [Process -> Job]
  BY <1>1, <1>11 DEF Conflicts
<1>13. IsABag(posted.plans) /\ posted.canceled \in Nat /\ IsABag(sold) /\ x = Shown(s, sub) /\ x[1] = s
  BY <1>3 DEF IInv, Types, Shown
<1> HIDE DEF x
<1>14. /\ IsABag(posted'.plans)
       /\ posted'.plans = posted.plans \/ (Starts(sub) /\ posted'.plans = posted.plans (+) SetToBag({x}))
       /\ posted'.canceled = posted.canceled + IF Cancels(sub) THEN 1 ELSE 0
       /\ posted' = [plans |-> posted'.plans, canceled |-> posted'.canceled]
  BY <1>1, <1>13, OneMore
<1>15. Types'
  <2>1. posted'.canceled \in Nat
    BY <1>13, <1>14
  <2> HIDE DEF sub, s
  <2> QED BY <1>1, <1>6, <1>12, <1>14, <2>1 DEF IInv, Types
<1>16. ASSUME NEW l \in Key PROVE (OpFits(l) /\ MemoFits(l) /\ EffectFits(l))'
  BY <1>1, <1>6 DEF IInv, OpFits, MemoFits, EffectFits, Used
<1>17. Newest' /\ Succession' /\ \A t \in Subs : SubFits(t)'
  BY <1>1, <1>6 DEF IInv, Newest, Created, Succession, Used, SubFits
<1>18. UsageIsCharged'
  <2>1. CASE Renewed(sub)
    <3>1. acct.period < sub.period
      BY <1>3, <1>4, <2>1 DEF Renewed
    <3>2. charges[sub.period] = 0
      BY <1>5, <3>1 DEF IInv, AccountFits
    <3> QED BY <1>1, <1>6, <2>1, <3>2 DEF UsageIsCharged
  <2>2. CASE ~Renewed(sub)
    BY <1>1, <1>6, <2>2 DEF UsageIsCharged, Renewed, IInv, AccountFits
  <2> QED BY <2>1, <2>2
<1>19. AccountFits'
  <2>1. \A n \in Period : n > sub.period => charges[n] = 0
    <3>1. \A n \in Period : n > acct.period => charges[n] = 0
      BY DEF IInv, AccountFits
    <3>2. \A n \in Period : n > sub.period => n > acct.period
      BY <1>3, <1>4, <1>5
    <3> QED BY <3>1, <3>2
  <2> HIDE DEF sub, s
  <2> QED BY <1>1, <1>3, <1>4, <1>6, <1>18, <2>1 DEF AccountFits, Used
<1>20. SeenEventsAreApplied'
  <2>1. seen' = seen /\ acct.as \in Nat /\ acct'.as \in Nat /\ acct.as <= acct'.as
    BY <1>1, <1>3, <1>4, <1>6
  <2> HIDE DEF sub, s
  <2>2. SUFFICES ASSUME NEW e \in Event, seen[e] = "applied"
                 PROVE  acct'.as >= e
    BY <2>1 DEF SeenEventsAreApplied, Event
  <2>3. acct.as >= e
    BY <2>2 DEF IInv, SeenEventsAreApplied
  <2>4. e \in Nat
    BY <2>2, Constants
  <2> QED BY <2>1, <2>3, <2>4
<1>21. BooksFit'
  <2>1. \A e : Copies(e, posted.plans) \in Nat /\ Copies(e, sold) \in Nat /\ Copies(e, posted.plans) <= Copies(e, sold)
    BY <1>13, CopiesAre, Within DEF IInv, BooksFit
  <2>2. /\ \A e : e # x => Copies(e, posted'.plans) = Copies(e, posted.plans)
        /\ \A e : Copies(e, posted'.plans) <= Copies(e, sold)
        /\ \A e \in DOMAIN posted'.plans : e \in DOMAIN posted.plans \/ (e = x /\ x \in DOMAIN sold)
    <3>1. CASE posted'.plans = posted.plans
      BY <2>1, <3>1
    <3>2. CASE Starts(sub) /\ posted'.plans = posted.plans (+) SetToBag({x})
      <4>1. Shown(s, acct) # Shown(s, sub)
        BY <3>2 DEF Starts, Renewed, Shown
      <4>2. Copies(x, posted.plans) < Copies(x, sold)
        BY <1>3, <1>13, <4>1 DEF Ahead, Stated, Sold
      <4>3. x \in DOMAIN sold
        BY <1>13, <2>1, <4>2, CopiesAre
      <4>4. /\ DOMAIN posted'.plans = DOMAIN posted.plans \cup {x}
            /\ \A e : Copies(e, posted'.plans) = Copies(e, posted.plans) + IF e = x THEN 1 ELSE 0
        <5> DEFINE C == posted.plans (+) SetToBag({x})
        <5>1. DOMAIN C = DOMAIN posted.plans \cup {x}
          BY <1>13, OneMore
        <5>2. \A e : Copies(e, C) = Copies(e, posted.plans) + IF e = x THEN 1 ELSE 0
          <6>1. IsABag(posted.plans)
            BY <1>13
          <6> QED BY <6>1, OneMore
        <5>3. posted'.plans = C
          BY <3>2
        <5> HIDE DEF C
        <5> QED BY <5>1, <5>2, <5>3
      <4> QED BY <2>1, <4>2, <4>3, <4>4
    <3> QED BY <1>14, <3>1, <3>2
  <2>3. posted'.plans \sqsubseteq sold
    BY <1>13, <1>14, <2>2, Within
  <2>4. \A e \in DOMAIN posted'.plans : e \in DOMAIN sold /\ e[1] <= s
    <3>1. \A e \in DOMAIN posted.plans : e \in DOMAIN sold /\ e[1] <= s
      BY DEF IInv, BooksFit
    <3>2. s <= s
      <4>1. s \in Subs
        BY <1>3
      <4>2. s \in Nat
        BY <4>1, SubsAreNumbers
      <4> QED BY <4>2
    <3> QED BY <1>13, <2>2, <3>1, <3>2
  <2>5. Ahead(acct.sub, acct, stripe[acct.sub])'
    <3>1. Shown(s, acct') = x
      BY <1>6, <1>13 DEF Shown
    <3>2. Shown(s, stripe[s]) # x => Copies(Shown(s, stripe[s]), posted.plans) < Copies(Shown(s, stripe[s]), sold)
      BY <1>3, <1>13 DEF Ahead, Stated, Sold
    <3>3. Shown(s, acct') # Shown(s, stripe[s]) => Copies(Shown(s, stripe[s]), posted'.plans) < Copies(Shown(s, stripe[s]), sold)
      BY <2>2, <3>1, <3>2
    <3> QED BY <1>1, <1>6, <3>3 DEF Ahead, Stated, Sold
  <2> QED BY <1>1, <1>6, <2>3, <2>4, <2>5 DEF IInv, BooksFit, Used, Sold
<1>22. CancellationsFit'
  <2>1. Before' = Before /\ (Shows(acct)' <=> Shows(sub))
    BY <1>1, <1>6 DEF Before, Over, Shows
  <2>2. /\ sub.status = "canceled" => stripe[s] = sub
        /\ sub.cancel => stripe[s].cancel
        /\ sub.cancel \in BOOLEAN /\ stripe[s].cancel \in BOOLEAN /\ acct.cancel \in BOOLEAN
    BY <1>3 DEF Follows, SubRow, IInv, Types
  <2>3. Shows(acct) => ~Cancels(sub)
    BY <2>2 DEF Shows, Cancels
  <2>4. Cancels(sub) => Shows(sub)
    BY <2>2 DEF Shows, Cancels
  <2>5. CASE posted.canceled <= Cardinality(Before)
    <3>1. CASE Cancels(sub)
      BY <1>3, <1>6, <1>11, <1>13, <1>14, <2>1, <2>4, <2>5, <3>1, Earlier DEF CancellationsFit
    <3>2. CASE ~Cancels(sub)
      BY <1>13, <1>14, <2>1, <2>5, <3>2, Earlier DEF CancellationsFit
    <3> QED BY <3>1, <3>2
  <2>6. CASE /\ posted.canceled <= Cardinality(Before) + 1 /\ Shows(acct)
             /\ \A q \in Process : job[q].phase = "write" => Shows(job[q].snapshot.sub)
    <3>1. Shows(sub) /\ ~Cancels(sub)
      BY <1>2, <2>3, <2>6
    <3> QED BY <1>3, <1>6, <1>11, <1>13, <1>14, <2>1, <2>6, <3>1, Earlier DEF CancellationsFit
  <2> QED BY <2>5, <2>6 DEF IInv, CancellationsFit
<1> QED BY <1>9, <1>10, <1>15, <1>16, <1>17, <1>19, <1>20, <1>21, <1>22 DEF IInv

-----------------------------------------------------------------------------
(* The theorems.                                                           *)

LEMMA Steps == IInv /\ [Next]_vars => IInv'
<1> SUFFICES ASSUME IInv, [Next]_vars PROVE IInv'
  OBVIOUS
<1>1. ASSUME NEW p \in Process, NEW r \in Request, Begin(p, r) PROVE IInv'
  BY <1>1, BeginStep
<1>2. ASSUME NEW p \in Process, Claim(p) PROVE IInv'
  BY <1>2, ClaimStep
<1>3. ASSUME NEW p \in Process, Customer(p) PROVE IInv'
  BY <1>3, CustomerStep
<1>4. ASSUME NEW p \in Process, ReadRequest(p) PROVE IInv'
  BY <1>4, ReadRequestStep
<1>5. ASSUME NEW p \in Process, Call(p) PROVE IInv'
  BY <1>5, CallStep
<1>6. ASSUME NEW p \in Process, Finalize(p) PROVE IInv'
  BY <1>6, FinalizeStep
<1>7. ASSUME NEW p \in Process, SyncRead(p) PROVE IInv'
  BY <1>7, SyncReadStep
<1>8. ASSUME NEW p \in Process, Snapshot(p) PROVE IInv'
  BY <1>8, SnapshotStep
<1>9. ASSUME NEW p \in Process, SyncWrite(p) PROVE IInv'
  BY <1>9, SyncWriteStep
<1>10. ASSUME NEW p \in Process, NEW e \in Event, Webhook(p, e) PROVE IInv'
  BY <1>10, WebhookStep
<1>11. ASSUME NEW p \in Process, Record(p) \/ Fail(p) PROVE IInv'
  BY <1>11, RecordStep, FailStep
<1>12. ASSUME Remote \/ Consume \/ Tick PROVE IInv'
  BY <1>12, RemoteStep, ConsumeStep, TickStep
<1>13. CASE UNCHANGED vars
  BY <1>13, Stutter
<1> QED BY <1>1, <1>2, <1>3, <1>4, <1>5, <1>6, <1>7, <1>8, <1>9, <1>10, <1>11, <1>12, <1>13 DEF Next

LEMMA Always == Spec => []IInv
BY Start, Steps, PTL DEF Spec

\* Whatever is retried, lost, run twice at a time or left for days: one operation is pending at
\* most, and Stripe carries a billing request out once (billingOperation).
THEOREM OperationsAreBilledOnce == Spec => []OperationsBillOnce
<1>1. IInv => OperationsBillOnce
  <2> SUFFICES ASSUME IInv PROVE TypeOK /\ BilledOnce
    BY DEF OperationsBillOnce
  <2>1. acct.op \in Key \cup {NoKey} /\ acct.sub \in Subs \cup {0} /\ acct.used \in 0..MaxUsed
    BY DEF IInv, Types
  <2>2. acct.as \in 0..version
    BY Constants DEF IInv, Types, AccountFits
  <2>3. \A k \in Key : /\ ops[k].state = "started" => acct.op = k
                       /\ ops[k].state = "none" => made[k] = 0
                       /\ made[k] <= 1
    BY DEF IInv, OpFits, Types
  <2> QED BY <2>1, <2>2, <2>3, PeriodOfAccount DEF TypeOK, BilledOnce
<1> QED BY <1>1, Always, PTL

\* The user has one subscription at most that may be charged: a new one is asked for only when
\* the one before is over, and only once (change).
THEOREM OneIsCharged == Spec => []OneSubscription
<1>1. IInv => OneSubscription
  <2> SUFFICES ASSUME IInv PROVE Cardinality({s \in Subs : stripe[s].status \in Live}) <= 1
    BY DEF OneSubscription
  <2> DEFINE Charged == {s \in Subs : stripe[s].status \in Live}
  <2>1. \A s, t \in Charged : s = t
    <3> SUFFICES ASSUME NEW s \in Charged, NEW t \in Charged, s # t PROVE FALSE
      OBVIOUS
    <3>1. s \in Subs /\ t \in Subs /\ Used(s) /\ Used(t) /\ stripe[s].status # "canceled" /\ stripe[t].status # "canceled"
      BY DEF Live, Used
    <3>2. s < t \/ t < s
      BY <3>1, Constants
    <3> QED BY <3>1, <3>2 DEF IInv, Succession
  <2>2. CASE Charged = {}
    BY <2>2, FS_EmptySet
  <2>3. CASE Charged # {}
    <3>1. PICK s \in Charged : TRUE
      BY <2>3
    <3>2. Charged = {s}
      BY <2>1
    <3> QED BY <3>2, FS_Singleton
  <2> QED BY <2>2, <2>3
<1> QED BY <1>1, Always, PTL

\* A delivered event that is recorded as applied is in the account (webhook).
THEOREM SeenEventsAreInTheAccount == Spec => []SeenEventsAreApplied
<1>1. IInv => SeenEventsAreApplied
  BY DEF IInv
<1> QED BY <1>1, Always, PTL

\* No synchronization loses a charge beside it, states a period twice or counts a cancellation
\* twice (sync, consume).
THEOREM RenewalsAndChargesAgree == Spec => []RenewalsAreCounted
<1>1. IInv => RenewalsAreCounted
  <2> SUFFICES ASSUME IInv PROVE UsageIsCharged /\ StatedAtMostOnce
    BY DEF RenewalsAreCounted
  <2> DEFINE Ended == {s \in Subs : stripe[s].cancel \/ stripe[s].status = "canceled"}
  <2>1. UsageIsCharged /\ posted.plans \sqsubseteq sold
    BY DEF IInv, AccountFits, BooksFit
  <2>2. Before \subseteq Ended /\ IsFiniteSet(Ended) /\ Cardinality(Ended) \in Nat
    <3>1. Before \subseteq Ended /\ Ended \subseteq Subs
      BY DEF Before, Over
    <3> QED BY <3>1, Constants, FS_Subset, FS_CardinalityType
  <2>3. Cardinality(Before) <= Cardinality(Ended) /\ Cardinality(Before) \in Nat
    BY <2>2, Earlier, FS_Subset
  <2>4. posted.canceled \in Nat
    BY DEF IInv, Types
  <2>5. CASE posted.canceled <= Cardinality(Before)
    BY <2>1, <2>2, <2>3, <2>4, <2>5 DEF StatedAtMostOnce
  <2>6. CASE posted.canceled <= Cardinality(Before) + 1 /\ acct.sub # 0 /\ Shows(acct)
    <3>1. acct.sub \in Subs /\ acct.sub \in Nat
      BY <2>6, Constants DEF IInv, Types
    <3>2. acct.sub \in Ended /\ acct.sub \notin Before
      BY <2>6, <3>1 DEF Shows, Before
    <3>3. Cardinality(Before \cup {acct.sub}) = Cardinality(Before) + 1
      BY <3>2, Earlier, FS_AddElement
    <3>4. Before \cup {acct.sub} \subseteq Ended
      BY <2>2, <3>2
    <3>5. Cardinality(Before) + 1 <= Cardinality(Ended)
      BY <2>2, <3>3, <3>4, FS_Subset
    <3>6. posted.canceled <= Cardinality(Ended)
      BY <2>2, <2>3, <2>4, <2>6, <3>5
    <3> QED BY <2>1, <3>6 DEF StatedAtMostOnce
  <2> QED BY <2>5, <2>6 DEF IInv, CancellationsFit
<1> QED BY <1>1, Always, PTL

\* Synchronizations that overlap never put an older state of Stripe over a newer one: the account
\* row is written by who read it last before (sync).
THEOREM SynchronizationsGoForward == Spec => NeverGoesBack
<1>1. IInv /\ [Next]_vars => [GoesForward]_vars
  <2> SUFFICES ASSUME IInv, Next PROVE GoesForward
    OBVIOUS
  <2>0. acct.as \in Nat
    BY DEF IInv, Types
  <2>1. ASSUME NEW p \in Process, SyncWrite(p) PROVE acct'.as >= acct.as
    <3>1. job[p].snapshot.version \in acct.as..version /\ version \in Int
      BY <2>1, Constants DEF SyncWrite, IInv, SnapshotFits, Types
    <3>2. acct'.as = job[p].snapshot.version
      BY <2>1 DEF SyncWrite, IInv, Types
    <3> QED BY <2>0, <3>1, <3>2
  <2>2. ASSUME NEW p \in Process, Claim(p) \/ Customer(p) PROVE acct'.as = acct.as
    BY <2>2 DEF Claim, Customer, IInv, Types
  <2>3. ASSUME NEW p \in Process, Finalize(p) PROVE acct'.as = acct.as
    BY <2>3 DEF Finalize, IInv, Types
  <2>4. ASSUME NEW p \in Process,
               \/ \E r \in Request : Begin(p, r)
               \/ ReadRequest(p) \/ Call(p) \/ SyncRead(p) \/ Snapshot(p)
               \/ \E e \in Event : Webhook(p, e)
               \/ Record(p) \/ Fail(p)
        PROVE  acct' = acct
    BY <2>4 DEF Begin, ReadRequest, Call, SyncRead, Snapshot, Webhook, Record, Fail
  <2>5. Consume => acct'.as = acct.as
    BY DEF Consume, IInv, Types
  <2>6. Remote \/ Tick => acct' = acct
    BY DEF Remote, Tick
  <2>7. acct'.as >= acct.as
    BY <2>0, <2>1, <2>2, <2>3, <2>4, <2>5, <2>6 DEF Next
  <2> QED BY <2>7 DEF GoesForward
<1> QED BY <1>1, Always, PTL DEF Spec, NeverGoesBack

-----------------------------------------------------------------------------
(* The notices of maintenance().                                           *)

MailRow == [version : Nat, sent : BOOLEAN, until : Nat]
Holding == {"notify", "mark"}
MailRun ==
  [phase : {"idle", "remind", "list", "next", "claim"} \cup Holding, key : Notice \cup {NoNotice},
   row : MailRow, list : [Notice -> MailRow]]

NoticesShape ==
  /\ clock \in Nat
  /\ mail \in [Notice -> MailRow]
  /\ run \in [Runner -> MailRun]
  /\ told \in [Notice -> [posted : Nat, sent : BOOLEAN]]

\* What is in the mail was put there once, and what is not has no row.
MailIsTrue ==
  \A k \in Notice : /\ mail[k].version = 0 => mail[k] = N!NoRow /\ told[k].posted = 0
                    /\ told[k].posted <= 1
                    /\ mail[k].sent => told[k].sent

\* What a run knows of a row is older than the row, unless it is the row.
KnowsAtMost(known, row) == known.version <= row.version /\ (known.version = row.version => known = row)

\* What a run knows: its list is not newer than the mail, it claims what was free when it looked
\* at it, and what it has claimed is its own until somebody writes it.
RunFits(q) ==
  /\ \A k \in Notice : KnowsAtMost(q.list[k], mail[k])
  /\ q.phase # "idle" /\ q.phase \notin {"list", "next"} => q.key \in Notice
  /\ q.phase = "claim" => /\ 0 < q.row.version /\ q.row.version <= mail[q.key].version /\ ~q.row.sent
                          /\ q.row.version = mail[q.key].version => mail[q.key].until <= clock
  /\ q.phase \in Holding => 0 < q.row.version /\ KnowsAtMost(q.row, mail[q.key])
  /\ q.phase = "notify" => q.row.version = mail[q.key].version \/ q.row.until <= clock
  /\ q.phase = "mark" => told[q.key].sent

\* Two runs hold different versions of a notice.
OneHolds ==
  \A p, q \in Runner :
    p # q /\ run[p].phase \in Holding /\ run[q].phase \in Holding /\ run[p].key = run[q].key
      => run[p].row.version # run[q].row.version

NoticesInv == NoticesShape /\ MailIsTrue /\ (\A p \in Runner : RunFits(run[p])) /\ OneHolds

-----------------------------------------------------------------------------
LEMMA RunShape ==
  ASSUME NEW q \in MailRun
  PROVE  /\ q.phase \in {"idle", "remind", "list", "next", "claim"} \cup Holding
         /\ q.key \in Notice \cup {NoNotice} /\ q.row \in MailRow /\ q.list \in [Notice -> MailRow]
         /\ q.row.version \in Nat /\ q.row.until \in Nat /\ q.row.sent \in BOOLEAN
BY DEF MailRun, MailRow

\* The step of a run that writes no mail and holds nothing it did not hold.
LEMMA OneRunMoves ==
  ASSUME NoticesInv, NEW p \in Runner, NEW q \in MailRun, run' = [run EXCEPT ![p] = q], RunFits(q),
         UNCHANGED <<clock, mail, told>>,
         q.phase \in Holding => run[p].phase \in Holding /\ q.key = run[p].key /\ q.row = run[p].row
  PROVE  NoticesInv'
<1>1. NoticesShape' /\ MailIsTrue'
  BY DEF NoticesInv, NoticesShape, MailIsTrue
<1>2. \A r \in Runner : RunFits(run'[r])
  BY DEF NoticesInv, NoticesShape
<1>3. \A r \in Runner : RunFits(run[r])'
  BY <1>2 DEF RunFits
<1>4. OneHolds'
  BY DEF NoticesInv, NoticesShape, OneHolds
<1> QED BY <1>1, <1>3, <1>4 DEF NoticesInv

LEMMA RunEnds ==
  ASSUME NoticesInv, NEW p \in Runner, N!Ends(p), UNCHANGED <<clock, mail, told>>
  PROVE  NoticesInv'
<1>1. N!Idle \in MailRun /\ N!Idle.phase = "idle" /\ N!Idle.list = [k \in Notice |-> N!NoRow]
  BY DEF N!Idle, N!NoRow, N!Notice, Notice, MailRun, MailRow
<1>2. RunFits(N!Idle)
  BY <1>1 DEF RunFits, KnowsAtMost, NoticesInv, NoticesShape, MailIsTrue, N!NoRow, MailRow, Holding
<1> QED BY <1>1, <1>2, OneRunMoves DEF N!Ends, Holding

\* The mail grows by one version of one row: nobody else holds that version.
LEMMA OneRowChanges ==
  ASSUME NoticesInv, NoticesShape', MailIsTrue', NEW k \in Notice, NEW others \in SUBSET Runner, clock' = clock,
         mail'[k].version = mail[k].version + 1, \A n \in Notice \ {k} : mail'[n] = mail[n],
         \A n \in Notice : told[n].sent => told'[n].sent,
         \A r \in others : run'[r] = run[r],
         \A r \in others :
           run[r].phase = "notify" /\ run[r].key = k /\ run[r].row.version = mail[k].version => mail[k].until <= clock,
         \A p \in Runner \ others :
           RunFits(run[p])' /\ (run'[p].phase \in Holding => run'[p].key = k /\ run'[p].row.version = mail'[k].version),
         \A p, q \in Runner \ others : p = q
  PROVE  NoticesInv'
<1>1. \A n \in Notice : mail[n] \in MailRow /\ mail'[n] \in MailRow /\ mail[n].version \in Nat /\ mail'[n].version \in Nat
  BY DEF NoticesInv, NoticesShape, MailRow
<1>2. ASSUME NEW known \in MailRow, NEW n \in Notice, KnowsAtMost(known, mail[n]) PROVE KnowsAtMost(known, mail'[n])
  BY <1>1, <1>2 DEF KnowsAtMost, MailRow
<1>3. ASSUME NEW r \in others PROVE RunFits(run[r])'
  <2>1. run'[r] = run[r] /\ RunFits(run[r]) /\ run[r] \in MailRun
    BY DEF NoticesInv, NoticesShape
  <2> DEFINE q == run[r]
  <2>2. /\ q.list \in [Notice -> MailRow] /\ q.row \in MailRow /\ q.row.version \in Nat
        /\ q.phase \notin {"idle", "list", "next"} => q.key \in Notice
    BY <2>1, RunShape DEF RunFits
  <2>3. \A n \in Notice : KnowsAtMost(q.list[n], mail'[n])
    BY <1>2, <2>1, <2>2 DEF RunFits
  <2>4. q.phase = "claim" => /\ 0 < q.row.version /\ q.row.version <= mail'[q.key].version /\ ~q.row.sent
                             /\ q.row.version = mail'[q.key].version => mail'[q.key].until <= clock
    <3>1. CASE q.key = k
      BY <1>1, <2>1, <2>2, <3>1 DEF RunFits
    <3>2. CASE q.key # k
      BY <1>1, <2>1, <2>2, <3>2 DEF RunFits
    <3> QED BY <3>1, <3>2
  <2>5. q.phase \in Holding => 0 < q.row.version /\ KnowsAtMost(q.row, mail'[q.key])
    BY <1>2, <2>1, <2>2 DEF RunFits, Holding
  <2>6. q.phase = "notify" => q.row.version = mail'[q.key].version \/ q.row.until <= clock
    <3>1. CASE q.key = k
      <4>1. q.phase = "notify" => KnowsAtMost(q.row, mail[k])
        BY <2>1, <3>1 DEF RunFits, Holding
      <4> QED BY <2>1, <3>1, <4>1 DEF RunFits, KnowsAtMost
    <3>2. CASE q.key # k
      BY <2>1, <2>2, <3>2 DEF RunFits
    <3> QED BY <3>1, <3>2
  <2>7. q.phase = "mark" => told'[q.key].sent
    BY <2>1, <2>2 DEF RunFits
  <2> QED BY <2>1, <2>2, <2>3, <2>4, <2>5, <2>6, <2>7 DEF RunFits
<1>4. OneHolds'
  <2>1. ASSUME NEW r \in others, run'[r].phase \in Holding, run'[r].key = k PROVE run'[r].row.version < mail'[k].version
    <3>1. KnowsAtMost(run[r].row, mail[k]) /\ run[r] \in MailRun
      BY <2>1 DEF NoticesInv, NoticesShape, RunFits
    <3> QED BY <1>1, <3>1, RunShape DEF KnowsAtMost
  <2>2. \A r \in Runner : run'[r].row.version \in Nat
    BY RunShape DEF NoticesShape
  <2>3. ASSUME NEW r \in Runner, NEW s \in Runner, r # s, run'[r].phase \in Holding, run'[s].phase \in Holding,
               run'[r].key = run'[s].key, run'[r].row.version = run'[s].row.version
        PROVE  FALSE
    <3>1. CASE r \in others /\ s \in others
      BY <2>3, <3>1 DEF NoticesInv, OneHolds
    <3>2. CASE r \notin others
      BY <1>1, <2>1, <2>2, <2>3, <3>2
    <3>3. CASE s \notin others
      BY <1>1, <2>1, <2>2, <2>3, <3>3
    <3> QED BY <3>1, <3>2, <3>3
  <2> QED BY <2>3 DEF OneHolds
<1> QED BY <1>3, <1>4 DEF NoticesInv

\* The same for the step of a run.
LEMMA OneRunChangesARow ==
  ASSUME NoticesInv, NoticesShape', MailIsTrue', NEW k \in Notice, NEW p \in Runner, clock' = clock,
         mail'[k].version = mail[k].version + 1, \A n \in Notice \ {k} : mail'[n] = mail[n],
         \A n \in Notice : told[n].sent => told'[n].sent,
         \A r \in Runner \ {p} : run'[r] = run[r],
         \A r \in Runner \ {p} :
           run[r].phase = "notify" /\ run[r].key = k /\ run[r].row.version = mail[k].version => mail[k].until <= clock,
         RunFits(run[p])', run'[p].phase \in Holding => run'[p].key = k /\ run'[p].row.version = mail'[k].version
  PROVE  NoticesInv'
<1> DEFINE others == Runner \ {p}
<1>1. others \in SUBSET Runner /\ Runner \ others = {p}
  OBVIOUS
<1>2. \A r \in others :
        /\ run'[r] = run[r]
        /\ run[r].phase = "notify" /\ run[r].key = k /\ run[r].row.version = mail[k].version => mail[k].until <= clock
  OBVIOUS
<1> HIDE DEF others
<1>3. \A r, s \in Runner \ others : r = s
  BY <1>1
<1>4. \A r \in Runner \ others :
        RunFits(run[r])' /\ (run'[r].phase \in Holding => run'[r].key = k /\ run'[r].row.version = mail'[k].version)
  BY <1>1
<1> QED BY <1>1, <1>2, <1>3, <1>4, OneRowChanges

LEMMA PostedFits ==
  ASSUME NoticesInv, NEW k \in Notice, mail[k].version = 0, N!Posted(k), clock' = clock,
         run' \in [Runner -> MailRun]
  PROVE  /\ NoticesShape' /\ MailIsTrue' /\ mail'[k].version = mail[k].version + 1
         /\ \A n \in Notice \ {k} : mail'[n] = mail[n]
         /\ \A n \in Notice : told[n].sent => told'[n].sent
<1> DEFINE row == [N!NoRow EXCEPT !.version = 1]
           note == [told[k] EXCEPT !.posted = told[k].posted + 1]
<1>1. row \in MailRow /\ row.version = 1 /\ ~row.sent
  BY DEF N!NoRow, MailRow
<1>2. told[k].posted = 0 /\ told[k] \in [posted : Nat, sent : BOOLEAN]
  BY DEF NoticesInv, NoticesShape, MailIsTrue
<1>3. note \in [posted : Nat, sent : BOOLEAN] /\ note.posted = 1 /\ note.sent = told[k].sent
  BY <1>2
<1>4. mail' = [mail EXCEPT ![k] = row] /\ told' = [told EXCEPT ![k] = note]
  BY DEF N!Posted
<1> HIDE DEF row, note
<1>5. NoticesShape'
  BY <1>1, <1>3, <1>4 DEF NoticesInv, NoticesShape
<1>6. MailIsTrue'
  BY <1>1, <1>3, <1>4 DEF NoticesInv, NoticesShape, MailIsTrue
<1> QED BY <1>1, <1>3, <1>4, <1>5, <1>6 DEF NoticesInv, NoticesShape

\* What is put there is nobody's: no run has seen a version of it.
LEMMA NobodyHoldsNothing ==
  ASSUME NoticesInv, NEW k \in Notice, mail[k].version = 0, NEW p \in Runner, run[p].phase \in Holding
  PROVE  run[p].key # k
<1>1. run[p].row.version \in Nat /\ RunFits(run[p])
  BY RunShape DEF NoticesInv, NoticesShape
<1> QED BY <1>1 DEF RunFits, KnowsAtMost

\* A run that claims a notice is its only holder, and the lease of the holder before it is over.
LEMMA ClaimKeeps == ASSUME NoticesInv, NEW p \in Runner, N!Claim(p) PROVE NoticesInv'
<1> DEFINE k == run[p].key
           row == [run[p].row EXCEPT !.version = run[p].row.version + 1]
           q == [run[p] EXCEPT !.phase = "notify", !.row = row]
<1>1. /\ run[p].phase = "claim" /\ run[p] \in MailRun /\ RunFits(run[p]) /\ k \in Notice /\ mail[k] \in MailRow
      /\ run[p].row \in MailRow /\ run[p].row.version + 1 \in Nat /\ UNCHANGED <<clock, wants, told>>
  BY RunShape DEF N!Claim, NoticesInv, NoticesShape, RunFits, MailRow, Holding
<1>2. CASE ~N!Same(k, run[p].row)
  <2> DEFINE next == [run[p] EXCEPT !.phase = "next"]
  <2>1. run' = [run EXCEPT ![p] = next] /\ UNCHANGED mail
    BY <1>2 DEF N!Claim, N!Goes
  <2>2. next \in MailRun /\ next.phase = "next" /\ next.list = run[p].list
    BY <1>1 DEF MailRun
  <2> HIDE DEF next
  <2>3. RunFits(next)
    BY <1>1, <2>2 DEF RunFits, Holding
  <2> QED BY <1>1, <2>1, <2>2, <2>3, OneRunMoves DEF Holding
<1>3. CASE N!Same(k, run[p].row)
  <2>1. mail' = [mail EXCEPT ![k] = row] /\ run' = [run EXCEPT ![p] = q]
    BY <1>1, <1>3 DEF N!Claim
  <2>2. /\ row \in MailRow /\ row.version = mail[k].version + 1 /\ row.version > 0 /\ row.sent = FALSE
        /\ mail[k].until <= clock
    BY <1>1, <1>3 DEF MailRow, N!Same, RunFits
  <2>3. q \in MailRun /\ q.phase = "notify" /\ q.key = k /\ q.row = row /\ q.list = run[p].list
    BY <1>1, <2>2 DEF MailRun, Holding
  <2>4. /\ mail'[k] = row /\ \A n \in Notice \ {k} : mail'[n] = mail[n]
        /\ run'[p] = q /\ \A r \in Runner \ {p} : run'[r] = run[r]
    BY <1>1, <2>1 DEF NoticesInv, NoticesShape
  <2> HIDE DEF q, row, k
  <2>5. NoticesShape' /\ MailIsTrue'
    BY <1>1, <2>1, <2>2, <2>3, <2>4 DEF NoticesInv, NoticesShape, MailIsTrue
  <2>6. RunFits(run[p])'
    <3>1. \A n \in Notice : KnowsAtMost(q.list[n], mail'[n])
      <4> SUFFICES ASSUME NEW n \in Notice PROVE KnowsAtMost(q.list[n], mail'[n])
        OBVIOUS
      <4>1. KnowsAtMost(q.list[n], mail[n]) /\ q.list[n].version \in Nat /\ mail[n].version \in Nat
        BY <1>1, <2>3, RunShape DEF RunFits, NoticesInv, NoticesShape, MailRow
      <4>2. CASE n = k
        BY <2>2, <2>4, <4>1, <4>2 DEF KnowsAtMost
      <4>3. CASE n # k
        BY <2>4, <4>1, <4>3
      <4> QED BY <4>2, <4>3
    <3> QED BY <1>1, <2>2, <2>3, <2>4, <3>1 DEF RunFits, KnowsAtMost, Holding, MailRow
  <2>7. \A r \in Runner \ {p} : run'[r] = run[r]
    BY <2>4
  <2> QED BY <1>1, <2>2, <2>3, <2>4, <2>5, <2>6, OneRunChangesARow DEF Holding
<1> QED BY <1>2, <1>3

\* A run only marks what it still holds.
LEMMA MarkKeeps == ASSUME NoticesInv, NEW p \in Runner, N!Mark(p) PROVE NoticesInv'
<1> DEFINE k == run[p].key
           row == [run[p].row EXCEPT !.version = run[p].row.version + 1, !.sent = TRUE]
           q == [run[p] EXCEPT !.phase = "next"]
<1>1. /\ run[p].phase = "mark" /\ run[p] \in MailRun /\ RunFits(run[p]) /\ k \in Notice /\ mail[k] \in MailRow
      /\ run[p].row \in MailRow /\ run[p].row.version + 1 \in Nat /\ UNCHANGED <<clock, wants, told>>
      /\ run' = [run EXCEPT ![p] = q]
  BY RunShape DEF N!Mark, N!Goes, NoticesInv, NoticesShape, RunFits, MailRow, Holding
<1>2. q \in MailRun /\ q.phase = "next" /\ q.list = run[p].list
  BY <1>1 DEF MailRun
<1>3. CASE ~N!Same(k, run[p].row)
  <2>1. UNCHANGED mail
    BY <1>3 DEF N!Mark
  <2> HIDE DEF q
  <2>2. RunFits(q)
    BY <1>1, <1>2 DEF RunFits, Holding
  <2> QED BY <1>1, <1>2, <2>1, <2>2, OneRunMoves DEF Holding
<1>4. CASE N!Same(k, run[p].row)
  <2>1. mail' = [mail EXCEPT ![k] = row]
    BY <1>4 DEF N!Mark
  <2>2. row \in MailRow /\ row.version = mail[k].version + 1 /\ row.sent = TRUE /\ told[k].sent
    BY <1>1, <1>4 DEF MailRow, N!Same, RunFits
  <2>3. /\ mail'[k] = row /\ \A n \in Notice \ {k} : mail'[n] = mail[n]
        /\ run'[p] = q /\ \A r \in Runner \ {p} : run'[r] = run[r]
    BY <1>1, <2>1 DEF NoticesInv, NoticesShape
  <2>4. ASSUME NEW r \in Runner \ {p}, run[r].phase = "notify", run[r].key = k, run[r].row.version = mail[k].version
        PROVE  FALSE
    BY <1>1, <1>4, <2>4 DEF NoticesInv, OneHolds, Holding, N!Same
  <2> HIDE DEF q, row, k
  <2>5. NoticesShape' /\ MailIsTrue'
    BY <1>1, <1>2, <2>1, <2>2, <2>3 DEF NoticesInv, NoticesShape, MailIsTrue, MailRow
  <2>6. RunFits(run[p])'
    <3>1. \A n \in Notice : KnowsAtMost(q.list[n], mail'[n])
      <4> SUFFICES ASSUME NEW n \in Notice PROVE KnowsAtMost(q.list[n], mail'[n])
        OBVIOUS
      <4>1. KnowsAtMost(q.list[n], mail[n]) /\ q.list[n].version \in Nat /\ mail[n].version \in Nat
        BY <1>1, <1>2, RunShape DEF RunFits, NoticesInv, NoticesShape, MailRow
      <4>2. CASE n = k
        BY <2>2, <2>3, <4>1, <4>2 DEF KnowsAtMost
      <4>3. CASE n # k
        BY <2>3, <4>1, <4>3
      <4> QED BY <4>2, <4>3
    <3> QED BY <1>2, <2>3, <3>1 DEF RunFits, Holding
  <2> QED BY <1>1, <1>2, <2>2, <2>3, <2>4, <2>5, <2>6, OneRunChangesARow DEF Holding
<1> QED BY <1>3, <1>4

\* However runs of maintenance overlap and wherever they stop, a notice is in the hands of one
\* until its lease is over, and what is marked was sent (maintenance).
THEOREM NoticesStayInOneHand == N!Spec => []NoticesAreInOneHand
<1>1. N!Init => NoticesInv
  <2> SUFFICES ASSUME N!Init PROVE NoticesInv
    OBVIOUS
  <2>1. N!Idle \in MailRun /\ N!NoRow \in MailRow /\ N!Idle.phase = "idle" /\ N!Idle.list = [k \in Notice |-> N!NoRow]
    BY DEF N!Idle, N!NoRow, N!Notice, Notice, MailRun, MailRow
  <2>2. /\ clock = 0 /\ mail = [k \in Notice |-> N!NoRow] /\ run = [p \in Runner |-> N!Idle]
        /\ told = [k \in Notice |-> [posted |-> 0, sent |-> FALSE]]
    BY DEF N!Init, N!Notice, Notice
  <2>3. NoticesShape
    BY <2>1, <2>2 DEF NoticesShape
  <2>4. MailIsTrue
    BY <2>2 DEF MailIsTrue, N!NoRow
  <2>5. \A p \in Runner : RunFits(run[p])
    <3>1. \A p \in Runner : run[p] = N!Idle
      BY <2>2
    <3>2. \A k \in Notice : N!Idle.list[k] = mail[k] /\ KnowsAtMost(N!Idle.list[k], mail[k])
      BY <2>1, <2>2 DEF KnowsAtMost, N!NoRow
    <3> QED BY <2>1, <3>1, <3>2 DEF RunFits, Holding
  <2> QED BY <2>1, <2>2, <2>3, <2>4, <2>5 DEF NoticesInv, OneHolds, Holding
<1>2. NoticesInv /\ [N!Next]_(N!vars) => NoticesInv'
  <2> SUFFICES ASSUME NoticesInv, [N!Next]_(N!vars) PROVE NoticesInv'
    OBVIOUS
  <2>1. \A p \in Runner : run[p] \in MailRun /\ RunFits(run[p])
    BY DEF NoticesInv, NoticesShape
  <2>2. ASSUME NEW p \in Runner, NEW k \in Notice, N!Remind(p, k) PROVE NoticesInv'
    <3> DEFINE q == [run[p] EXCEPT !.phase = IF mail[k].version = 0 THEN "remind" ELSE "list", !.key = k]
    <3>1. run' = [run EXCEPT ![p] = q] /\ UNCHANGED <<clock, mail, told>>
      BY <2>2 DEF N!Remind
    <3>2. q \in MailRun /\ q.phase \in {"remind", "list"} /\ q.key = k /\ q.list = run[p].list
      BY <2>1 DEF MailRun
    <3> HIDE DEF q
    <3>3. RunFits(q)
      BY <2>1, <3>2 DEF RunFits, Holding
    <3> QED BY <3>1, <3>2, <3>3, OneRunMoves DEF Holding
  <2>3. ASSUME NEW p \in Runner, N!Post(p) PROVE NoticesInv'
    <3> DEFINE k == run[p].key
               q == [N!Idle EXCEPT !.phase = "list"]
    <3>1. k \in Notice /\ clock' = clock /\ run' = [run EXCEPT ![p] = q]
      BY <2>1, <2>3 DEF N!Post, RunFits
    <3>2. q \in MailRun /\ q.phase = "list" /\ q.list = [n \in Notice |-> N!NoRow]
      BY DEF N!Idle, N!NoRow, N!Notice, Notice, MailRun, MailRow
    <3>3. CASE ~N!Same(k, N!NoRow)
      <4>1. UNCHANGED <<mail, told>>
        BY <2>3, <3>3 DEF N!Post
      <4> HIDE DEF q
      <4>2. RunFits(q)
        BY <3>2 DEF RunFits, KnowsAtMost, NoticesInv, NoticesShape, MailIsTrue, N!NoRow, MailRow, Holding
      <4> QED BY <3>1, <3>2, <4>1, <4>2, OneRunMoves DEF Holding
    <3>4. CASE N!Same(k, N!NoRow)
      <4>1. N!Posted(k) /\ mail[k].version = 0
        BY <2>3, <3>4 DEF N!Post, N!Same, N!NoRow
      <4>2. run'[p] = q /\ (\A r \in Runner \ {p} : run'[r] = run[r]) /\ run' \in [Runner -> MailRun]
        BY <3>1, <3>2 DEF NoticesInv, NoticesShape
      <4> HIDE DEF q, k
      <4>3. /\ NoticesShape' /\ MailIsTrue' /\ mail'[k].version = mail[k].version + 1
            /\ \A n \in Notice \ {k} : mail'[n] = mail[n]
            /\ \A n \in Notice : told[n].sent => told'[n].sent
        BY <3>1, <4>1, <4>2, PostedFits
      <4>4. RunFits(run[p])'
        <5>1. \A n \in Notice : KnowsAtMost(N!NoRow, mail'[n])
          BY <4>3 DEF KnowsAtMost, NoticesShape, MailIsTrue, N!NoRow, MailRow
        <5>2. \A n \in Notice : KnowsAtMost(q.list[n], mail'[n])
          BY <3>2, <5>1
        <5> QED BY <3>2, <4>2, <5>2 DEF RunFits, Holding
      <4>5. \A r \in Runner : run[r].phase = "notify" => run[r].key # k
        BY <3>1, <4>1, NobodyHoldsNothing DEF Holding
      <4> QED BY <3>1, <3>2, <4>2, <4>3, <4>4, <4>5, OneRunChangesARow DEF Holding
    <3> QED BY <3>3, <3>4
  <2>4. ASSUME NEW p \in Runner, N!List(p) PROVE NoticesInv'
    <3> DEFINE q == [N!Idle EXCEPT !.phase = "next", !.list = mail]
    <3>1. run' = [run EXCEPT ![p] = q] /\ UNCHANGED <<clock, mail, told>>
      BY <2>4 DEF N!List
    <3>2. q \in MailRun /\ q.phase = "next" /\ q.list = mail
      BY DEF N!Idle, N!NoRow, N!Notice, Notice, MailRun, MailRow, NoticesInv, NoticesShape
    <3> HIDE DEF q
    <3>3. RunFits(q)
      BY <3>2 DEF RunFits, KnowsAtMost, NoticesInv, NoticesShape, MailRow, Holding
    <3> QED BY <3>1, <3>2, <3>3, OneRunMoves DEF Holding
  <2>5. ASSUME NEW p \in Runner, NEW k \in Notice, N!Take(p, k) PROVE NoticesInv'
    <3> DEFINE row == [run[p].list[k] EXCEPT !.until = clock + Lease]
               q == [run[p] EXCEPT !.phase = "claim", !.key = k, !.list = [run[p].list EXCEPT ![k] = N!NoRow], !.row = row]
    <3>1. /\ run' = [run EXCEPT ![p] = q] /\ UNCHANGED <<clock, mail, told>>
          /\ run[p].list[k].version > 0 /\ ~run[p].list[k].sent /\ run[p].list[k].until <= clock
      BY <2>5 DEF N!Take, N!Due
    <3>2. run[p].list[k] \in MailRow /\ clock + Lease \in Nat /\ run[p].list \in [Notice -> MailRow] /\ N!NoRow \in MailRow
      BY <2>1, RunShape, NoticesAssumption DEF NoticesInv, NoticesShape, N!NoRow, MailRow, NoticesAssumption
    <3>3. row \in MailRow /\ row.version = run[p].list[k].version /\ row.sent = run[p].list[k].sent
      BY <3>2 DEF MailRow
    <3>4. q \in MailRun /\ q.phase = "claim" /\ q.key = k /\ q.row = row /\ q.list = [run[p].list EXCEPT ![k] = N!NoRow]
      BY <2>1, <3>2, <3>3 DEF MailRun
    <3> HIDE DEF q, row
    <3>5. KnowsAtMost(run[p].list[k], mail[k]) /\ KnowsAtMost(N!NoRow, mail[k])
      BY <2>1 DEF RunFits, KnowsAtMost, NoticesInv, NoticesShape, MailIsTrue, N!NoRow, MailRow
    <3>6. RunFits(q)
      BY <2>1, <3>1, <3>2, <3>3, <3>4, <3>5 DEF RunFits, KnowsAtMost, Holding
    <3> QED BY <3>1, <3>4, <3>6, OneRunMoves DEF Holding
  <2>6. ASSUME NEW p \in Runner, N!Notify(p) PROVE NoticesInv'
    <3>1. run[p].phase = "notify" /\ UNCHANGED <<clock, wants, mail>> /\ run[p].key \in Notice
      BY <2>1, <2>6 DEF N!Notify, RunFits
    <3>2. \/ N!Goes(p, "next") /\ UNCHANGED told
          \/ told' = [told EXCEPT ![run[p].key].sent = TRUE] /\ (N!Goes(p, "mark") \/ N!Goes(p, "next"))
      BY <2>6 DEF N!Notify
    <3>3. /\ told' \in [Notice -> [posted : Nat, sent : BOOLEAN]]
          /\ \A n \in Notice : told'[n].posted = told[n].posted /\ (told[n].sent => told'[n].sent)
          /\ N!Goes(p, "mark") => told'[run[p].key].sent
      <4>1. told \in [Notice -> [posted : Nat, sent : BOOLEAN]] /\ run[p].key \in Notice /\ run \in [Runner -> MailRun]
        BY <3>1 DEF NoticesInv, NoticesShape
      <4>2. CASE told' = [told EXCEPT ![run[p].key].sent = TRUE]
        BY <4>1, <4>2
      <4>3. CASE N!Goes(p, "next") /\ UNCHANGED told
        <5>1. run'[p].phase = "next"
          BY <4>1, <4>3 DEF N!Goes, MailRun
        <5>2. N!Goes(p, "mark") => run'[p].phase = "mark"
          BY <4>1 DEF N!Goes, MailRun
        <5> QED BY <4>1, <4>3, <5>1, <5>2
      <4> QED BY <3>2, <4>2, <4>3
    <3>4. PICK phase \in {"mark", "next"} : run' = [run EXCEPT ![p] = [run[p] EXCEPT !.phase = phase]]
                                            /\ (phase = "mark" => told'[run[p].key].sent)
      BY <3>2, <3>3 DEF N!Goes
    <3> DEFINE q == [run[p] EXCEPT !.phase = phase]
    <3>5. q \in MailRun /\ q.phase = phase /\ q.key = run[p].key /\ q.row = run[p].row /\ q.list = run[p].list
      BY <2>1 DEF MailRun, Holding
    <3>6. run' = [run EXCEPT ![p] = q]
      BY <3>4
    <3> HIDE DEF q
    <3>7. NoticesShape' /\ MailIsTrue'
      BY <3>1, <3>3, <3>5, <3>6 DEF NoticesInv, NoticesShape, MailIsTrue
    <3>8. \A r \in Runner : RunFits(run[r])'
      <4> SUFFICES ASSUME NEW r \in Runner PROVE RunFits(run[r])'
        OBVIOUS
      <4>1. CASE r = p
        <5>1. run'[r] = q
          BY <3>6, <4>1 DEF NoticesInv, NoticesShape
        <5> QED BY <2>1, <3>1, <3>4, <3>5, <5>1 DEF RunFits, Holding
      <4>2. CASE r # p
        <5>1. run'[r] = run[r]
          BY <3>6, <4>2 DEF NoticesInv, NoticesShape
        <5> QED BY <2>1, <3>1, <3>3, <5>1 DEF RunFits, Holding
      <4> QED BY <4>1, <4>2
    <3>9. OneHolds'
      BY <3>1, <3>5, <3>6 DEF NoticesInv, NoticesShape, OneHolds, Holding
    <3> QED BY <3>7, <3>8, <3>9 DEF NoticesInv
  <2>7. ASSUME NEW p \in Runner, N!Stop(p) PROVE NoticesInv'
    BY <2>7, RunEnds DEF N!Stop
  <2>8. ASSUME NEW k \in Notice, N!Webhook(k) PROVE NoticesInv'
    <3>1. N!Posted(k) /\ mail[k].version = 0 /\ UNCHANGED <<clock, run>> /\ run' \in [Runner -> MailRun]
      BY <2>8 DEF N!Webhook, N!NoRow, NoticesInv, NoticesShape
    <3>2. /\ NoticesShape' /\ MailIsTrue' /\ mail'[k].version = mail[k].version + 1
          /\ \A n \in Notice \ {k} : mail'[n] = mail[n]
          /\ \A n \in Notice : told[n].sent => told'[n].sent
      BY <3>1, PostedFits
    <3>3. \A r \in Runner : run[r].phase = "notify" => run[r].key # k
      BY <3>1, NobodyHoldsNothing DEF Holding
    <3>4. Runner \in SUBSET Runner /\ \A r \in Runner : run'[r] = run[r]
      BY <3>1
    <3> QED BY <3>1, <3>2, <3>3, <3>4, OneRowChanges
  <2>9. CASE N!Prefer \/ UNCHANGED N!vars
    <3>1. UNCHANGED <<clock, mail, run, told>>
      BY <2>9 DEF N!Prefer, N!vars
    <3> QED BY <3>1 DEF NoticesInv, NoticesShape, MailIsTrue, RunFits, OneHolds
  <2>10. CASE N!Tick
    <3>1. clock' = clock + 1 /\ UNCHANGED <<mail, run, told>> /\ clock \in Nat
      BY <2>10 DEF N!Tick, NoticesInv, NoticesShape
    <3>2. \A k \in Notice : mail[k].until \in Nat
      BY DEF NoticesInv, NoticesShape, MailRow
    <3>3. \A r \in Runner : RunFits(run[r])'
      <4> SUFFICES ASSUME NEW r \in Runner PROVE RunFits(run[r])'
        OBVIOUS
      <4>1. run[r].row.until \in Nat
        BY <2>1, RunShape
      <4> QED BY <2>1, <3>1, <3>2, <4>1 DEF RunFits, Holding
    <3> QED BY <3>1, <3>3 DEF NoticesInv, NoticesShape, MailIsTrue, OneHolds
  <2>11. \A p \in Runner : N!Claim(p) \/ N!Mark(p) => NoticesInv'
    BY ClaimKeeps, MarkKeeps
  <2> QED BY <2>2, <2>3, <2>4, <2>5, <2>6, <2>7, <2>8, <2>9, <2>10, <2>11 DEF N!Next, N!Notice, Notice
<1>3. NoticesInv => NoticesAreInOneHand
  BY DEF NoticesInv, MailIsTrue, RunFits, NoticesAreInOneHand, NoticesAreClaimed, NoticesAreTrue
<1> QED BY <1>1, <1>2, <1>3, PTL DEF N!Spec

-----------------------------------------------------------------------------
(* The catalog.                                                            *)

Offer == [version : Version, content : Content, enabled : BOOLEAN, price : Nat]
Operation == [id : Nat, plan : Offer, previous : Offer \cup {NoOffer}]
CatalogRow == [version : Nat, plan : Offer, operation : Operation \cup {NoOperation}]
Draft == [content : Content, enabled : BOOLEAN, restored : BOOLEAN]

PublishSteps == {"product", "price", "productOn", "priceOn", "priceOff", "productOff", "current"}
Edit ==
  {O!Idle} \cup [phase : {"save"}, row : CatalogRow, draft : Draft]
    \cup [phase : {"link", "previous"}, row : CatalogRow] \cup [phase : {"begin"}, row : CatalogRow, op : Operation]
    \cup [phase : PublishSteps, op : Operation] \cup [phase : {"finish"}, op : Operation, row : CatalogRow]

CatalogTypes ==
  /\ catalog \in CatalogRow /\ catalog.version # 0
  /\ versions \in [Version -> Offer \cup {NoOffer}] /\ mapped \in [Version -> Offer \cup {NoOffer}]
  /\ last \in Offer \cup {NoOffer}
  /\ products \in [Version -> {"none", "active", "inactive"}]
  /\ prices \in [Version -> [state : {"none", "active", "inactive"}, content : Content \cup {NoContent}]]
  /\ request \in [Editor -> Edit]

\* What a version sells: that of the plan, or of its predecessor in the history.
Told(v) == IF v = catalog.plan.version THEN catalog.plan.content ELSE versions[v].content
Known(p) == p.version <= catalog.plan.version /\ p.content = Told(p.version)
Priced(v) == prices[v].state # "none"

\* Every version is told by one row.
HistoryFits ==
  \A v \in Version :
    /\ versions[v] # NoOffer <=> v < catalog.plan.version
    /\ versions[v] # NoOffer => versions[v].version = v
    /\ mapped[v] # NoOffer => Known(mapped[v])
    /\ Priced(v) => v <= catalog.plan.version /\ prices[v].content = Told(v)

LastFits == last # NoOffer => Known(last) /\ Priced(last.version)

PublicationFits(op) ==
  /\ op.id # 0 /\ op.id < catalog.version
  /\ Known(op.plan)
  /\ op.previous # NoOffer => Known(op.previous) /\ Priced(op.previous.version)

OperationFits == Publishing => PublicationFits(catalog.operation) /\ catalog.operation.previous = last

\* A row that was read is the row, if its version is.
ReadFits(row) == row.version # 0 /\ row.version <= catalog.version /\ (row.version = catalog.version => row = catalog)

IsCurrent(op) == op.id = catalog.operation.id
ProductIs(v, state) == <<"product", v>> \in late \/ products[v] = state
PriceIs(v, state) == <<"price", v>> \in late \/ prices[v].state = state

\* How far Stripe follows a request that works for the operation.
Done(q) ==
  LET new == q.op.plan.version
      old == q.op.previous.version
      state == O!Of(q.op.plan.enabled)
  IN
    /\ q.phase \in {"priceOn", "priceOff", "productOff", "current", "finish"} => ProductIs(new, state)
    /\ q.phase \in {"priceOff", "productOff", "current", "finish"} => PriceIs(new, state)
    /\ q.phase \in {"productOff", "current", "finish"} /\ O!Replaces(q.op) => PriceIs(old, "inactive")
    /\ q.phase \in {"current", "finish"} /\ O!Replaces(q.op) => ProductIs(old, "inactive")

\* The product and the price of an operation that is over are there, so nobody makes them late.
Works(q) ==
  /\ PublicationFits(q.op)
  /\ IsCurrent(q.op) => q.op = catalog.operation /\ Done(q)
  /\ q.phase # "product" \/ ~IsCurrent(q.op) => products[q.op.plan.version] # "none"
  /\ q.phase \notin {"product", "price"} \/ ~IsCurrent(q.op) => Priced(q.op.plan.version)
  /\ q.phase \in {"priceOff", "productOff"} => O!Replaces(q.op)

EditFits(q) ==
  /\ q.phase \in {"save", "link", "previous", "begin", "finish"} => ReadFits(q.row)
  /\ q.phase \in {"save", "link", "previous", "begin"} => q.row.operation = NoOperation
  /\ q.phase = "begin" => /\ q.op.id = q.row.version /\ q.op.id # 0 /\ q.op.plan = q.row.plan
                          /\ q.row.version = catalog.version => q.op.previous = last
  /\ q.phase \in PublishSteps \cup {"finish"} => Works(q)
  /\ q.phase = "finish" /\ q.row.version = catalog.version => IsCurrent(q.op)

EditsFit == \A r \in Editor : EditFits(request[r])

\* While an operation is under way, what it does not name is not sold.
SellingFits ==
  \A v \in Version :
    /\ ~Publishing =>
         LET isSold == v = last.version /\ last.enabled IN
           /\ <<"product", v>> \notin late => (products[v] = "active" <=> isSold)
           /\ <<"price", v>> \notin late => (prices[v].state = "active" <=> isSold)
    /\ Publishing /\ v # catalog.plan.version /\ v # last.version =>
         /\ <<"product", v>> \notin late => products[v] # "active"
         /\ <<"price", v>> \notin late => prices[v].state # "active"

CatalogInv ==
  /\ CatalogTypes /\ HistoryFits /\ LastFits /\ OperationFits /\ PublicationsKeepEdits /\ EditsFit /\ SellingFits

LEMMA SameWords ==
  /\ O!Publishing <=> Publishing
  /\ O!NoOperation = NoOperation /\ O!NoOffer = NoOffer /\ O!NoPrice = NoPrice /\ O!Foreign = Foreign
  /\ O!Version = Version
BY DEF O!Publishing, Publishing, O!NoOperation, NoOperation, O!NoOffer, NoOffer, O!NoPrice, NoPrice, O!Foreign, Foreign,
       O!Version, Version

LEMMA SnapshotsAreKnown ==
  ASSUME CatalogInv, NEW p \in Snapshots
  PROVE  p \in Offer /\ Known(p)
<1> USE DEF CatalogInv, CatalogTypes, CatalogRow, Operation
<1>1. NoOffer \notin Offer
  BY DEF NoOffer, Offer, Version
<1>2. p # NoOffer
  BY DEF Snapshots
<1>3. CASE p = catalog.plan
  BY <1>3 DEF Known, Told, Offer, Version
<1>4. CASE p = catalog.operation.plan
  BY <1>2, <1>4 DEF OperationFits, PublicationFits, Publishing, NoOperation
<1>5. CASE p = last
  BY <1>2, <1>5 DEF LastFits
<1>6. ASSUME NEW v \in Version, p = versions[v]
      PROVE  p \in Offer /\ Known(p)
  <2>1. v < catalog.plan.version /\ p.version = v /\ p \in Offer
    BY <1>2, <1>6 DEF HistoryFits
  <2>2. catalog.plan.version \in Nat
    BY DEF Offer, Version
  <2> QED
    BY <2>1, <2>2, <1>6 DEF Known, Told, Version
<1>7. ASSUME NEW v \in Version, p = mapped[v]
      PROVE  p \in Offer /\ Known(p)
  BY <1>2, <1>7 DEF HistoryFits
<1> QED
  BY <1>3, <1>4, <1>5, <1>6, <1>7 DEF Snapshots

LEMMA CatalogInvIsTrue == CatalogInv => CatalogIsTrue
<1> SUFFICES ASSUME CatalogInv
             PROVE  VersionsMeanOneThing /\ OneVersionIsSold
  BY DEF CatalogIsTrue, CatalogInv
<1>1. VersionsMeanOneThing
  <2> SUFFICES ASSUME NEW p \in Snapshots
               PROVE  /\ \A q \in Snapshots : q.version = p.version => q.content = p.content
                      /\ prices[p.version].state # "none" => prices[p.version].content = p.content
    BY DEF VersionsMeanOneThing
  <2>1. p.version \in Version /\ p.content = Told(p.version)
    BY SnapshotsAreKnown DEF Known, Offer
  <2>2. \A q \in Snapshots : q.content = Told(q.version)
    BY SnapshotsAreKnown DEF Known
  <2>3. Priced(p.version) => prices[p.version].content = Told(p.version)
    BY <2>1 DEF CatalogInv, HistoryFits
  <2> QED
    BY <2>1, <2>2, <2>3 DEF Priced
<1>2. OneVersionIsSold
  BY DEF OneVersionIsSold, CatalogInv, SellingFits
<1> QED
  BY <1>1, <1>2

\* What leaves the rows and Stripe alone has to answer for the requests it changes only.
LEMMA QuietKeeps ==
  ASSUME CatalogInv, UNCHANGED <<catalog, versions, last, mapped, products, prices, late>>,
         request' \in [Editor -> Edit],
         \A x \in Editor : request'[x] = request[x] \/ EditFits(request'[x])
  PROVE  CatalogInv'
<1>1. CatalogTypes' /\ HistoryFits' /\ LastFits' /\ OperationFits' /\ PublicationsKeepEdits' /\ SellingFits'
  BY DEF CatalogInv, CatalogTypes, HistoryFits, LastFits, OperationFits, PublicationsKeepEdits, SellingFits,
         Publishing, PublicationFits, Known, Told, Priced
<1>2. ASSUME NEW x \in Editor
      PROVE  EditFits(request[x])'
  <2>1. EditFits(request'[x])
    BY DEF CatalogInv, EditsFit
  <2>2. PICK q : q = request'[x]
    OBVIOUS
  <2>3. EditFits(q)
    BY <2>1, <2>2
  <2>4. EditFits(q)'
    BY <2>3 DEF EditFits, ReadFits, Works, PublicationFits, IsCurrent, Done, Known, Told, Priced, ProductIs, PriceIs
  <2> QED
    BY <2>2, <2>4
<1> QED
  BY <1>1, <1>2 DEF CatalogInv, EditsFit

LEMMA IdleFits == EditFits(O!Idle) /\ EditFits(O!Idle)' /\ O!Idle \in Edit
BY DEF EditFits, O!Idle, PublishSteps, Edit

LEMMA EndsQuietly ==
  ASSUME CatalogInv, NEW r \in Editor, O!Ends(r), UNCHANGED <<catalog, versions, last, mapped, products, prices, late>>
  PROVE  CatalogInv'
<1>1. request' \in [Editor -> Edit]
  BY IdleFits DEF CatalogInv, CatalogTypes, O!Ends
<1>2. \A x \in Editor : request'[x] = request[x] \/ EditFits(request'[x])
  BY IdleFits DEF CatalogInv, CatalogTypes, O!Ends
<1> QED
  BY <1>1, <1>2, QuietKeeps

LEMMA EditKeeps ==
  ASSUME CatalogInv, NEW r \in Editor, NEW draft \in O!Drafts, O!Edit(r, draft)
  PROVE  CatalogInv'
<1> DEFINE new == [phase |-> "save", row |-> catalog, draft |-> draft]
<1>1. draft \in Draft
  <2>1. CASE draft \in [content : Content, enabled : BOOLEAN, restored : {FALSE}]
    BY <2>1 DEF Draft
  <2>2. CASE draft \notin [content : Content, enabled : BOOLEAN, restored : {FALSE}]
    <3>1. PICK p \in {catalog.plan} \cup ({versions[v] : v \in Version} \ {NoOffer}) :
            draft = [content |-> p.content, enabled |-> catalog.plan.enabled, restored |-> TRUE]
      BY <2>2, SameWords DEF O!Drafts
    <3>2. p \in Offer /\ catalog.plan \in Offer
      BY <3>1 DEF CatalogInv, CatalogTypes, CatalogRow
    <3>3. p.content \in Content /\ catalog.plan.enabled \in BOOLEAN
      BY <3>2 DEF Offer
    <3> QED
      BY <3>1, <3>3 DEF Draft
  <2> QED
    BY <2>1, <2>2
<1>2. new \in Edit
  BY <1>1 DEF Edit, CatalogInv, CatalogTypes
<1>3. EditFits(new)
  BY SameWords DEF EditFits, ReadFits, O!Edit, O!Editable, Publishing, PublishSteps, CatalogInv, CatalogTypes, CatalogRow
<1>4. request' = [request EXCEPT ![r] = new]
  BY DEF O!Edit
<1> HIDE DEF new
<1>5. request' \in [Editor -> Edit]
  BY <1>2, <1>4 DEF CatalogInv, CatalogTypes
<1>6. \A x \in Editor : request'[x] = request[x] \/ EditFits(request'[x])
  BY <1>3, <1>4 DEF CatalogInv, CatalogTypes
<1> QED
  BY <1>5, <1>6, QuietKeeps DEF O!Edit, O!stripeVars

\* A request goes on with what it knows.
LEMMA NewRequestKeeps ==
  ASSUME CatalogInv, NEW r \in Editor, NEW new \in Edit, EditFits(new),
         request' = [request EXCEPT ![r] = new], UNCHANGED <<catalog, versions, last, mapped, products, prices, late>>
  PROVE  CatalogInv'
<1>1. request' \in [Editor -> Edit]
  BY DEF CatalogInv, CatalogTypes
<1>2. \A x \in Editor : request'[x] = request[x] \/ EditFits(request'[x])
  BY DEF CatalogInv, CatalogTypes
<1> QED
  BY <1>1, <1>2, QuietKeeps

LEMMA LinkKeeps ==
  ASSUME CatalogInv, NEW r \in Editor, O!Link(r)
  PROVE  CatalogInv'
<1> DEFINE new == [phase |-> "link", row |-> catalog]
<1>1. new \in Edit
  BY DEF Edit, CatalogInv, CatalogTypes
<1>2. EditFits(new)
  BY SameWords DEF EditFits, ReadFits, O!Link, O!Editable, Publishing, PublishSteps, CatalogInv, CatalogTypes, CatalogRow
<1>3. request' = [request EXCEPT ![r] = new] /\ UNCHANGED <<catalog, versions, last, mapped, products, prices, late>>
  BY DEF O!Link, O!stripeVars
<1> QED
  BY <1>1, <1>2, <1>3, NewRequestKeeps

\* Whoever begins anew, or takes an operation up again, works for it from the product on.
LEMMA TakingUpFits ==
  ASSUME CatalogInv, Publishing
  PROVE  /\ [phase |-> "product", op |-> catalog.operation] \in Edit
         /\ EditFits([phase |-> "product", op |-> catalog.operation])
<1> DEFINE new == [phase |-> "product", op |-> catalog.operation]
<1>1. catalog.operation \in Operation
  BY DEF CatalogInv, CatalogTypes, CatalogRow, Publishing
<1>2. new \in [phase : PublishSteps, op : Operation]
  BY <1>1 DEF PublishSteps
<1>3. Works(new)
  BY DEF Works, CatalogInv, OperationFits, IsCurrent, Done
<1>4. EditFits(new)
  BY <1>3 DEF EditFits
<1> QED
  BY <1>2, <1>4 DEF Edit

LEMMA PublishKeeps ==
  ASSUME CatalogInv, NEW r \in Editor, O!Publish(r)
  PROVE  CatalogInv'
<1>1. CASE Publishing
  <2>1. request' = [request EXCEPT ![r] = [phase |-> "product", op |-> catalog.operation]]
    BY <1>1, SameWords DEF O!Publish
  <2> QED
    BY <1>1, <2>1, TakingUpFits, NewRequestKeeps DEF O!Publish, O!stripeVars
<1>2. CASE ~Publishing
  <2> DEFINE new == [phase |-> "previous", row |-> catalog]
  <2>1. new \in Edit
    BY DEF Edit, CatalogInv, CatalogTypes
  <2>2. EditFits(new)
    BY <1>2 DEF EditFits, ReadFits, Publishing, PublishSteps, CatalogInv, CatalogTypes, CatalogRow
  <2>3. request' = [request EXCEPT ![r] = new]
    BY <1>2, SameWords DEF O!Publish
  <2> QED
    BY <2>1, <2>2, <2>3, NewRequestKeeps DEF O!Publish, O!stripeVars
<1> QED
  BY <1>1, <1>2

\* A request of one phase or another is a record with what that phase knows.
LEMMA EditForms ==
  ASSUME NEW q \in Edit
  PROVE  /\ q.phase = "save" => q \in [phase : {"save"}, row : CatalogRow, draft : Draft]
         /\ q.phase \in {"link", "previous"} => q \in [phase : {"link", "previous"}, row : CatalogRow]
         /\ q.phase = "begin" => q \in [phase : {"begin"}, row : CatalogRow, op : Operation]
         /\ q.phase \in PublishSteps => q \in [phase : PublishSteps, op : Operation]
         /\ q.phase = "finish" => q \in [phase : {"finish"}, op : Operation, row : CatalogRow]
BY DEF Edit, PublishSteps, O!Idle

LEMMA ReadPreviousKeeps ==
  ASSUME CatalogInv, NEW r \in Editor, O!ReadPrevious(r)
  PROVE  CatalogInv'
<1> DEFINE q == request[r]
           op == [id |-> q.row.version, plan |-> q.row.plan, previous |-> last]
           new == [phase |-> "begin", row |-> q.row, op |-> op]
<1>1. q \in Edit /\ EditFits(q) /\ q.phase = "previous"
  BY DEF CatalogInv, CatalogTypes, EditsFit, O!ReadPrevious
<1>2. q.row \in CatalogRow
  BY <1>1, EditForms
<1>3. op \in Operation
  BY <1>2 DEF CatalogInv, CatalogTypes, CatalogRow, Operation
<1>4. new \in Edit
  BY <1>2, <1>3 DEF Edit
<1>5. q.row.version # 0
  BY <1>1 DEF EditFits, ReadFits
<1>6. EditFits(new)
  BY <1>1, <1>5 DEF EditFits, PublishSteps
<1>7. request' = [request EXCEPT ![r] = new] /\ UNCHANGED <<catalog, versions, last, mapped, products, prices, late>>
  BY DEF O!ReadPrevious, O!stripeVars
<1> QED
  BY <1>4, <1>6, <1>7, NewRequestKeeps

LEMMA ReadCurrentKeeps ==
  ASSUME CatalogInv, NEW r \in Editor, O!ReadCurrent(r)
  PROVE  CatalogInv'
<1>1. CASE ~O!StillPending(request[r].op)
  BY <1>1, EndsQuietly DEF O!ReadCurrent, O!stripeVars
<1>2. CASE O!StillPending(request[r].op)
  <2> DEFINE q == request[r]
             new == [phase |-> "finish", op |-> q.op, row |-> catalog]
  <2>1. q \in Edit /\ EditFits(q) /\ q.phase = "current"
    BY DEF CatalogInv, CatalogTypes, EditsFit, O!ReadCurrent
  <2>2. q.op \in Operation /\ q.phase \in PublishSteps
    BY <2>1, EditForms DEF PublishSteps
  <2>3. new \in Edit
    BY <2>2 DEF Edit, CatalogInv, CatalogTypes
  <2>4. Works(q)
    BY <2>1, <2>2 DEF EditFits
  <2>5. Works(new)
    BY <2>1, <2>4 DEF Works, Done
  <2>6. EditFits(new)
    BY <1>2, <2>5 DEF EditFits, ReadFits, O!StillPending, IsCurrent, PublishSteps, CatalogInv, CatalogTypes, CatalogRow
  <2>7. request' = [request EXCEPT ![r] = new] /\ UNCHANGED <<catalog, versions, last, mapped, products, prices, late>>
    BY <1>2 DEF O!ReadCurrent, O!stripeVars
  <2> QED
    BY <2>3, <2>6, <2>7, NewRequestKeeps
<1> QED
  BY <1>1, <1>2

-----------------------------------------------------------------------------
(* Writes at Stripe.                                                       *)

\* What Stripe has for the operation stays as requests for it left it.
Followed(c) ==
  /\ ProductIs(c.plan.version, O!Of(c.plan.enabled)) => ProductIs(c.plan.version, O!Of(c.plan.enabled))'
  /\ PriceIs(c.plan.version, O!Of(c.plan.enabled)) => PriceIs(c.plan.version, O!Of(c.plan.enabled))'
  /\ O!Replaces(c) =>
       /\ ProductIs(c.previous.version, "inactive") => ProductIs(c.previous.version, "inactive")'
       /\ PriceIs(c.previous.version, "inactive") => PriceIs(c.previous.version, "inactive")'

LEMMA RequestsGoOn ==
  ASSUME CatalogInv, UNCHANGED <<catalog, versions, last, mapped>>,
         \A v \in Version : Priced(v) => Priced(v)',
         \A v \in Version : products[v] # "none" => products'[v] # "none",
         NEW c \in Operation \cup {NoOperation}, c = catalog.operation, Publishing => Followed(c)
  PROVE  /\ LastFits' /\ OperationFits' /\ PublicationsKeepEdits'
         /\ \A q \in Edit : EditFits(q) => EditFits(q)'
<1>1. \A p \in Offer : Known(p) => Known(p)'
  BY DEF Known, Told
<1>2. \A op \in Operation : PublicationFits(op) => PublicationFits(op)'
  <2> SUFFICES ASSUME NEW op \in Operation, PublicationFits(op)
               PROVE  PublicationFits(op)'
    OBVIOUS
  <2>1. op.plan \in Offer /\ op.previous \in Offer \cup {NoOffer}
    BY DEF Operation
  <2>2. op.previous # NoOffer => op.previous.version \in Version
    BY <2>1 DEF Offer
  <2> QED
    BY <1>1, <2>1, <2>2 DEF PublicationFits
<1>3. LastFits'
  <2>1. last # NoOffer => last \in Offer /\ last.version \in Version
    BY DEF CatalogInv, CatalogTypes, Offer
  <2> QED
    BY <1>1, <2>1 DEF CatalogInv, LastFits
<1>4. OperationFits'
  <2>1. Publishing => c \in Operation
    BY DEF Publishing
  <2>2. Publishing => PublicationFits(c)'
    BY <1>2, <2>1 DEF CatalogInv, OperationFits
  <2>3. PublicationFits(c)' => PublicationFits(catalog.operation)'
    OBVIOUS
  <2> QED
    BY <2>2, <2>3 DEF CatalogInv, OperationFits, Publishing
<1>5. PublicationsKeepEdits'
  BY DEF CatalogInv, PublicationsKeepEdits, Publishing
<1>6. ASSUME NEW q \in Edit, EditFits(q)
      PROVE  EditFits(q)'
  <2>1. ASSUME q.phase \in PublishSteps \cup {"finish"}
        PROVE  Works(q)'
    <3>1. Works(q) /\ q.op \in Operation
      BY <1>6, <2>1, EditForms DEF EditFits
    <3>2. q.op.plan.version \in Version
      BY <3>1 DEF Operation, Offer
    <3>3. PublicationFits(q.op)'
      BY <1>2, <3>1 DEF Works
    <3>4. IsCurrent(q.op)' <=> IsCurrent(q.op)
      BY DEF IsCurrent
    <3>5. ASSUME IsCurrent(q.op)
          PROVE  q.op = catalog.operation /\ Done(q)'
      <4>1. q.op = c /\ Done(q) /\ q.op.id # 0
        BY <3>1, <3>5 DEF Works, PublicationFits
      <4>2. Publishing
        BY <4>1 DEF Publishing, NoOperation
      <4>3. Followed(q.op)
        BY <4>1, <4>2
      <4> QED
        BY <4>1, <4>3 DEF Done, Followed
    <3> QED
      BY <3>1, <3>2, <3>3, <3>4, <3>5 DEF Works
  <2>2. q.phase \in {"save", "link", "previous", "begin", "finish"} => ReadFits(q.row)'
    BY <1>6 DEF EditFits, ReadFits
  <2> QED
    BY <1>6, <2>1, <2>2 DEF EditFits, IsCurrent
<1> QED
  BY <1>3, <1>4, <1>5, <1>6

LEMMA StripeKeeps ==
  ASSUME CatalogInv, UNCHANGED <<catalog, versions, last, mapped>>,
         \A v \in Version : Priced(v) => Priced(v)',
         \A v \in Version : products[v] # "none" => products'[v] # "none",
         NEW c \in Operation \cup {NoOperation}, c = catalog.operation, Publishing => Followed(c),
         products' \in [Version -> {"none", "active", "inactive"}],
         prices' \in [Version -> [state : {"none", "active", "inactive"}, content : Content \cup {NoContent}]],
         HistoryFits', SellingFits',
         NEW r \in Editor, NEW new \in Edit, request' = [request EXCEPT ![r] = new], EditFits(new)'
  PROVE  CatalogInv'
<1>1. /\ LastFits' /\ OperationFits' /\ PublicationsKeepEdits'
      /\ \A q \in Edit : EditFits(q) => EditFits(q)'
  BY RequestsGoOn
<1>2. CatalogTypes'
  BY DEF CatalogInv, CatalogTypes
<1>3. ASSUME NEW x \in Editor
      PROVE  EditFits(request[x])'
  <2>1. CASE x = r
    BY <2>1 DEF CatalogInv, CatalogTypes
  <2>2. CASE x # r
    <3>1. PICK q \in Edit : q = request[x]
      BY DEF CatalogInv, CatalogTypes
    <3>2. request'[x] = q
      BY <2>2, <3>1 DEF CatalogInv, CatalogTypes
    <3>3. EditFits(q)'
      BY <1>1, <3>1 DEF CatalogInv, EditsFit
    <3> QED
      BY <3>2, <3>3
  <2> QED
    BY <2>1, <2>2
<1> QED
  BY <1>1, <1>2, <1>3 DEF CatalogInv, EditsFit

\* What an operation writes at Stripe, and in which state it leaves it.
Target(op, v, s) ==
  \/ v = op.plan.version /\ s = O!Of(op.plan.enabled)
  \/ O!Replaces(op) /\ v = op.previous.version /\ s = "inactive"

LEMMA TargetsOfTheOperation ==
  ASSUME CatalogInv, NEW op \in Operation, PublicationFits(op), IsCurrent(op) => op = catalog.operation,
         NEW v \in Version, NEW s, Target(op, v, s)
  PROVE  /\ s \in {"active", "inactive"}
         /\ IsCurrent(op) => Publishing /\ (v = catalog.plan.version \/ v = last.version)
         /\ ~Publishing => ~IsCurrent(op)
<1>1. s \in {"active", "inactive"}
  BY DEF Target, O!Of
<1>2. IsCurrent(op) => Publishing
  BY DEF PublicationFits, IsCurrent, Publishing, NoOperation
<1>3. Publishing => catalog.operation.plan = catalog.plan /\ catalog.operation.previous = last
  BY DEF CatalogInv, OperationFits, PublicationsKeepEdits
<1> QED
  BY <1>1, <1>2, <1>3 DEF Target

LEMMA ProductWritten ==
  ASSUME CatalogInv, NEW op \in Operation, PublicationFits(op), IsCurrent(op) => op = catalog.operation,
         NEW v \in Version, NEW s, Target(op, v, s),
         products' = [products EXCEPT ![v] = s],
         late' = IF IsCurrent(op) THEN late \ {<<"product", v>>} ELSE late \cup {<<"product", v>>},
         UNCHANGED <<catalog, versions, last, mapped, prices>>,
         NEW c \in Operation \cup {NoOperation}, c = catalog.operation
  PROVE  /\ \A w \in Version : Priced(w) => Priced(w)'
         /\ \A w \in Version : products[w] # "none" => products'[w] # "none"
         /\ Publishing => Followed(c)
         /\ products' \in [Version -> {"none", "active", "inactive"}]
         /\ prices' \in [Version -> [state : {"none", "active", "inactive"}, content : Content \cup {NoContent}]]
         /\ HistoryFits' /\ SellingFits' /\ ProductIs(v, s)'
<1>1. s \in {"active", "inactive"}
  BY TargetsOfTheOperation
<1>2. \A w \in Version : products'[w] = IF w = v THEN s ELSE products[w]
  BY DEF CatalogInv, CatalogTypes
<1>3. \A w \in Version : w # v => (<<"product", w>> \in late' <=> <<"product", w>> \in late)
  OBVIOUS
<1>4. \A w \in Version : <<"price", w>> \in late' <=> <<"price", w>> \in late
  OBVIOUS
<1>5. ProductIs(v, s)'
  BY <1>2 DEF ProductIs
<1>6. ~IsCurrent(op) => <<"product", v>> \in late'
  OBVIOUS
<1>7. Publishing => Followed(c)
  <2> SUFFICES ASSUME Publishing
               PROVE  Followed(c)
    OBVIOUS
  <2>1. c \in Operation /\ PublicationFits(c)
    BY DEF Publishing, CatalogInv, OperationFits
  <2>2. c.plan.version \in Version /\ (O!Replaces(c) => c.previous.version \in Version)
    BY <2>1, SameWords DEF Operation, Offer, O!Replaces
  <2>3. \A w \in Version, t \in {"active", "inactive"} : PriceIs(w, t) => PriceIs(w, t)'
    BY <1>4 DEF PriceIs
  <2>4. ASSUME NEW w \in Version, NEW t, ProductIs(w, t), IsCurrent(op) /\ w = v => s = t
        PROVE  ProductIs(w, t)'
    BY <1>2, <1>3, <1>6, <2>4 DEF ProductIs
  <2>5. O!Of(c.plan.enabled) \in {"active", "inactive"}
    BY DEF O!Of
  <2>6. IsCurrent(op) => op = c
    OBVIOUS
  <2>7. ProductIs(c.plan.version, O!Of(c.plan.enabled)) => ProductIs(c.plan.version, O!Of(c.plan.enabled))'
    <3>1. IsCurrent(op) /\ c.plan.version = v => s = O!Of(c.plan.enabled)
      BY <2>6 DEF Target, O!Replaces
    <3> QED
      BY <2>2, <2>4, <3>1
  <2>8. O!Replaces(c) /\ ProductIs(c.previous.version, "inactive") => ProductIs(c.previous.version, "inactive")'
    <3>1. O!Replaces(c) /\ IsCurrent(op) /\ c.previous.version = v => s = "inactive"
      BY <2>6 DEF Target, O!Replaces
    <3> QED
      BY <2>2, <2>4, <3>1
  <2> QED
    BY <2>2, <2>3, <2>5, <2>7, <2>8 DEF Followed
<1>8. HistoryFits'
  BY DEF CatalogInv, HistoryFits, Known, Told, Priced
<1>9. SellingFits'
  <2> SUFFICES ASSUME NEW w \in Version
               PROVE  /\ ~Publishing =>
                           LET isSold == w = last.version /\ last.enabled IN
                             /\ <<"product", w>> \notin late' => (products'[w] = "active" <=> isSold)
                             /\ <<"price", w>> \notin late' => (prices[w].state = "active" <=> isSold)
                      /\ Publishing /\ w # catalog.plan.version /\ w # last.version =>
                           /\ <<"product", w>> \notin late' => products'[w] # "active"
                           /\ <<"price", w>> \notin late' => prices[w].state # "active"
    BY DEF SellingFits, Publishing
  <2>1. CASE w = v
    <3>1. (~Publishing => ~IsCurrent(op)) /\ (IsCurrent(op) => w = catalog.plan.version \/ w = last.version)
      BY <2>1, TargetsOfTheOperation
    <3> QED
      BY <1>4, <1>6, <2>1, <3>1 DEF CatalogInv, SellingFits
  <2>2. CASE w # v
    BY <1>2, <1>3, <1>4, <2>2 DEF CatalogInv, SellingFits
  <2> QED
    BY <2>1, <2>2
<1> QED
  BY <1>1, <1>2, <1>5, <1>7, <1>8, <1>9 DEF Priced, CatalogInv, CatalogTypes

LEMMA PriceWritten ==
  ASSUME CatalogInv, NEW op \in Operation, PublicationFits(op), IsCurrent(op) => op = catalog.operation,
         NEW v \in Version, NEW s, Target(op, v, s), Priced(v),
         prices' = [prices EXCEPT ![v].state = s],
         late' = IF IsCurrent(op) THEN late \ {<<"price", v>>} ELSE late \cup {<<"price", v>>},
         UNCHANGED <<catalog, versions, last, mapped, products>>,
         NEW c \in Operation \cup {NoOperation}, c = catalog.operation
  PROVE  /\ \A w \in Version : Priced(w) => Priced(w)'
         /\ \A w \in Version : products[w] # "none" => products'[w] # "none"
         /\ Publishing => Followed(c)
         /\ products' \in [Version -> {"none", "active", "inactive"}]
         /\ prices' \in [Version -> [state : {"none", "active", "inactive"}, content : Content \cup {NoContent}]]
         /\ HistoryFits' /\ SellingFits' /\ PriceIs(v, s)'
<1>1. s \in {"active", "inactive"}
  BY TargetsOfTheOperation
<1>2. \A w \in Version : /\ prices'[w].state = IF w = v THEN s ELSE prices[w].state
                         /\ prices'[w].content = prices[w].content
  BY DEF CatalogInv, CatalogTypes
<1>3. \A w \in Version : w # v => (<<"price", w>> \in late' <=> <<"price", w>> \in late)
  OBVIOUS
<1>4. \A w \in Version : <<"product", w>> \in late' <=> <<"product", w>> \in late
  OBVIOUS
<1>5. PriceIs(v, s)'
  BY <1>2 DEF PriceIs
<1>6. ~IsCurrent(op) => <<"price", v>> \in late'
  OBVIOUS
<1>7. Publishing => Followed(c)
  <2> SUFFICES ASSUME Publishing
               PROVE  Followed(c)
    OBVIOUS
  <2>1. c \in Operation /\ PublicationFits(c)
    BY DEF Publishing, CatalogInv, OperationFits
  <2>2. c.plan.version \in Version /\ (O!Replaces(c) => c.previous.version \in Version)
    BY <2>1, SameWords DEF Operation, Offer, O!Replaces
  <2>3. \A w \in Version, t \in {"active", "inactive"} : ProductIs(w, t) => ProductIs(w, t)'
    BY <1>4 DEF ProductIs
  <2>4. ASSUME NEW w \in Version, NEW t, PriceIs(w, t), IsCurrent(op) /\ w = v => s = t
        PROVE  PriceIs(w, t)'
    BY <1>2, <1>3, <1>6, <2>4 DEF PriceIs
  <2>5. O!Of(c.plan.enabled) \in {"active", "inactive"}
    BY DEF O!Of
  <2>6. IsCurrent(op) => op = c
    OBVIOUS
  <2>7. PriceIs(c.plan.version, O!Of(c.plan.enabled)) => PriceIs(c.plan.version, O!Of(c.plan.enabled))'
    <3>1. IsCurrent(op) /\ c.plan.version = v => s = O!Of(c.plan.enabled)
      BY <2>6 DEF Target, O!Replaces
    <3> QED
      BY <2>2, <2>4, <3>1
  <2>8. O!Replaces(c) /\ PriceIs(c.previous.version, "inactive") => PriceIs(c.previous.version, "inactive")'
    <3>1. O!Replaces(c) /\ IsCurrent(op) /\ c.previous.version = v => s = "inactive"
      BY <2>6 DEF Target, O!Replaces
    <3> QED
      BY <2>2, <2>4, <3>1
  <2> QED
    BY <2>2, <2>3, <2>5, <2>7, <2>8 DEF Followed
<1>8. HistoryFits'
  <2>1. \A w \in Version : Priced(w)' <=> Priced(w)
    BY <1>1, <1>2 DEF Priced
  <2> QED
    BY <1>2, <2>1 DEF CatalogInv, HistoryFits, Known, Told
<1>9. SellingFits'
  <2> SUFFICES ASSUME NEW w \in Version
               PROVE  /\ ~Publishing =>
                           LET isSold == w = last.version /\ last.enabled IN
                             /\ <<"product", w>> \notin late' => (products[w] = "active" <=> isSold)
                             /\ <<"price", w>> \notin late' => (prices'[w].state = "active" <=> isSold)
                      /\ Publishing /\ w # catalog.plan.version /\ w # last.version =>
                           /\ <<"product", w>> \notin late' => products[w] # "active"
                           /\ <<"price", w>> \notin late' => prices'[w].state # "active"
    BY DEF SellingFits, Publishing
  <2>1. CASE w = v
    <3>1. (~Publishing => ~IsCurrent(op)) /\ (IsCurrent(op) => w = catalog.plan.version \/ w = last.version)
      BY <2>1, TargetsOfTheOperation
    <3> QED
      BY <1>4, <1>6, <2>1, <3>1 DEF CatalogInv, SellingFits
  <2>2. CASE w # v
    BY <1>2, <1>3, <1>4, <2>2 DEF CatalogInv, SellingFits
  <2> QED
    BY <2>1, <2>2
<1>10. prices' \in [Version -> [state : {"none", "active", "inactive"}, content : Content \cup {NoContent}]]
  BY <1>1 DEF CatalogInv, CatalogTypes
<1> QED
  BY <1>1, <1>2, <1>5, <1>7, <1>8, <1>9, <1>10 DEF Priced, CatalogInv, CatalogTypes

\* A request that works for an operation, and the operation as it knows it.
LEMMA Working ==
  ASSUME CatalogInv, NEW r \in Editor, request[r].phase \in PublishSteps
  PROVE  \E q \in [phase : PublishSteps, op : Operation] :
           /\ q = request[r] /\ q \in Edit /\ EditFits(q) /\ Works(q)
           /\ q.op.plan.version \in Version
           /\ O!Replaces(q.op) => q.op.previous.version \in Version /\ Priced(q.op.previous.version)
           /\ Target(q.op, q.op.plan.version, O!Of(q.op.plan.enabled))
           /\ O!Replaces(q.op) => Target(q.op, q.op.previous.version, "inactive")
<1>1. PICK q \in Edit : q = request[r]
  BY DEF CatalogInv, CatalogTypes
<1>2. q \in [phase : PublishSteps, op : Operation] /\ EditFits(q)
  BY <1>1, EditForms DEF CatalogInv, EditsFit
<1>3. Works(q)
  BY <1>2 DEF EditFits
<1>4. q.op \in Operation /\ q.op.plan \in Offer /\ q.op.previous \in Offer \cup {NoOffer}
  BY <1>2 DEF Operation
<1>5. q.op.plan.version \in Version
  BY <1>4 DEF Offer
<1>6. O!Replaces(q.op) => q.op.previous # NoOffer
  BY SameWords DEF O!Replaces
<1>7. O!Replaces(q.op) => q.op.previous.version \in Version /\ Priced(q.op.previous.version)
  BY <1>3, <1>4, <1>6 DEF Works, PublicationFits, Offer
<1> QED
  BY <1>1, <1>2, <1>3, <1>5, <1>7 DEF Target

LEMMA GoesOn ==
  ASSUME CatalogInv, NEW r \in Editor, NEW q \in [phase : PublishSteps, op : Operation], q = request[r],
         NEW next \in PublishSteps, O!Goes(r, next)
  PROVE  /\ request' = [request EXCEPT ![r] = [phase |-> next, op |-> q.op]]
         /\ [phase |-> next, op |-> q.op] \in Edit
<1>1. [phase |-> next, op |-> q.op] \in [phase : PublishSteps, op : Operation]
  OBVIOUS
<1>2. [q EXCEPT !.phase = next] = [phase |-> next, op |-> q.op]
  OBVIOUS
<1>3. request' = [request EXCEPT ![r] = [q EXCEPT !.phase = next]]
  BY DEF O!Goes
<1> QED
  BY <1>1, <1>2, <1>3 DEF Edit

LEMMA ProductOnKeeps ==
  ASSUME CatalogInv, NEW r \in Editor, O!ProductOn(r)
  PROVE  CatalogInv'
<1>1. request[r].phase \in PublishSteps /\ request[r].phase = "productOn"
  BY DEF O!ProductOn, PublishSteps
<1>2. PICK q \in [phase : PublishSteps, op : Operation] :
        /\ q = request[r] /\ q \in Edit /\ EditFits(q) /\ Works(q)
        /\ q.op.plan.version \in Version
        /\ Target(q.op, q.op.plan.version, O!Of(q.op.plan.enabled))
  BY <1>1, Working
<1> DEFINE v == q.op.plan.version
           s == O!Of(q.op.plan.enabled)
<1>3. /\ products' = [products EXCEPT ![v] = s]
      /\ late' = IF IsCurrent(q.op) THEN late \ {<<"product", v>>} ELSE late \cup {<<"product", v>>}
      /\ UNCHANGED <<catalog, versions, last, mapped, prices>>
  BY <1>2 DEF O!ProductOn, O!Writes, IsCurrent
<1>4. PICK c \in Operation \cup {NoOperation} : c = catalog.operation
  BY DEF CatalogInv, CatalogTypes, CatalogRow
<1>5. PublicationFits(q.op) /\ (IsCurrent(q.op) => q.op = catalog.operation) /\ q.op \in Operation
  BY <1>1, <1>2 DEF Works
<1>6. /\ \A w \in Version : Priced(w) => Priced(w)'
      /\ \A w \in Version : products[w] # "none" => products'[w] # "none"
      /\ Publishing => Followed(c)
      /\ products' \in [Version -> {"none", "active", "inactive"}]
      /\ prices' \in [Version -> [state : {"none", "active", "inactive"}, content : Content \cup {NoContent}]]
      /\ HistoryFits' /\ SellingFits' /\ ProductIs(v, s)'
  BY <1>2, <1>3, <1>4, <1>5, ProductWritten
<1>7. Works(q)'
  <2>1. EditFits(q)'
    BY <1>2, <1>3, <1>4, <1>6, RequestsGoOn
  <2> QED
    BY <2>1 DEF EditFits
<1>8. PICK next \in PublishSteps : O!Goes(r, next) /\ next = "priceOn"
  BY <1>2 DEF O!ProductOn, PublishSteps
<1>9. PICK new : new = [phase |-> next, op |-> q.op]
  OBVIOUS
<1>10. new \in Edit /\ request' = [request EXCEPT ![r] = new]
  BY <1>2, <1>8, <1>9, GoesOn
<1>11. EditFits(new)'
  <2>1. Works(new)'
    BY <1>1, <1>2, <1>6, <1>7, <1>8, <1>9 DEF Works, Done
  <2> QED
    BY <1>8, <1>9, <2>1 DEF EditFits, PublishSteps
<1> QED
  BY <1>3, <1>4, <1>6, <1>10, <1>11, StripeKeeps

LEMMA PriceOnKeeps ==
  ASSUME CatalogInv, NEW r \in Editor, O!PriceOn(r)
  PROVE  CatalogInv'
<1>1. request[r].phase \in PublishSteps /\ request[r].phase = "priceOn"
  BY DEF O!PriceOn, PublishSteps
<1>2. PICK q \in [phase : PublishSteps, op : Operation] :
        /\ q = request[r] /\ q \in Edit /\ EditFits(q) /\ Works(q)
        /\ q.op.plan.version \in Version
        /\ Target(q.op, q.op.plan.version, O!Of(q.op.plan.enabled))
  BY <1>1, Working
<1> DEFINE v == q.op.plan.version
           s == O!Of(q.op.plan.enabled)
<1>3. /\ prices' = [prices EXCEPT ![v].state = s]
      /\ late' = IF IsCurrent(q.op) THEN late \ {<<"price", v>>} ELSE late \cup {<<"price", v>>}
      /\ UNCHANGED <<catalog, versions, last, mapped, products>>
  BY <1>2 DEF O!PriceOn, O!Writes, IsCurrent
<1>4. PICK c \in Operation \cup {NoOperation} : c = catalog.operation
  BY DEF CatalogInv, CatalogTypes, CatalogRow
<1>5. PublicationFits(q.op) /\ (IsCurrent(q.op) => q.op = catalog.operation) /\ q.op \in Operation /\ Priced(v)
  BY <1>1, <1>2 DEF Works
<1>6. /\ \A w \in Version : Priced(w) => Priced(w)'
      /\ \A w \in Version : products[w] # "none" => products'[w] # "none"
      /\ Publishing => Followed(c)
      /\ products' \in [Version -> {"none", "active", "inactive"}]
      /\ prices' \in [Version -> [state : {"none", "active", "inactive"}, content : Content \cup {NoContent}]]
      /\ HistoryFits' /\ SellingFits' /\ PriceIs(v, s)'
  BY <1>2, <1>3, <1>4, <1>5, PriceWritten
<1>7. Works(q)'
  <2>1. EditFits(q)'
    BY <1>2, <1>3, <1>4, <1>6, RequestsGoOn
  <2> QED
    BY <2>1 DEF EditFits
<1>8. PICK next \in PublishSteps : O!Goes(r, next) /\ next = (IF O!Replaces(q.op) THEN "priceOff" ELSE "current")
  BY <1>2 DEF O!PriceOn, PublishSteps
<1>9. PICK new : new = [phase |-> next, op |-> q.op]
  OBVIOUS
<1>10. new \in Edit /\ request' = [request EXCEPT ![r] = new]
  BY <1>2, <1>8, <1>9, GoesOn
<1>11. EditFits(new)'
  <2>1. Works(new)'
    BY <1>1, <1>2, <1>6, <1>7, <1>8, <1>9 DEF Works, Done
  <2> QED
    BY <1>8, <1>9, <2>1 DEF EditFits, PublishSteps
<1> QED
  BY <1>3, <1>4, <1>6, <1>10, <1>11, StripeKeeps

LEMMA PriceOffKeeps ==
  ASSUME CatalogInv, NEW r \in Editor, O!PriceOff(r)
  PROVE  CatalogInv'
<1>1. request[r].phase \in PublishSteps /\ request[r].phase = "priceOff"
  BY DEF O!PriceOff, PublishSteps
<1>2. PICK q \in [phase : PublishSteps, op : Operation] :
        /\ q = request[r] /\ q \in Edit /\ EditFits(q) /\ Works(q)
        /\ q.op.previous.version \in Version /\ Priced(q.op.previous.version)
        /\ O!Replaces(q.op) /\ Target(q.op, q.op.previous.version, "inactive")
  BY <1>1, Working DEF Works
<1> DEFINE v == q.op.previous.version
           s == "inactive"
<1>3. /\ prices' = [prices EXCEPT ![v].state = s]
      /\ late' = IF IsCurrent(q.op) THEN late \ {<<"price", v>>} ELSE late \cup {<<"price", v>>}
      /\ UNCHANGED <<catalog, versions, last, mapped, products>>
  BY <1>2 DEF O!PriceOff, O!Writes, IsCurrent
<1>4. PICK c \in Operation \cup {NoOperation} : c = catalog.operation
  BY DEF CatalogInv, CatalogTypes, CatalogRow
<1>5. PublicationFits(q.op) /\ (IsCurrent(q.op) => q.op = catalog.operation) /\ q.op \in Operation /\ Priced(v)
  BY <1>1, <1>2 DEF Works
<1>6. /\ \A w \in Version : Priced(w) => Priced(w)'
      /\ \A w \in Version : products[w] # "none" => products'[w] # "none"
      /\ Publishing => Followed(c)
      /\ products' \in [Version -> {"none", "active", "inactive"}]
      /\ prices' \in [Version -> [state : {"none", "active", "inactive"}, content : Content \cup {NoContent}]]
      /\ HistoryFits' /\ SellingFits' /\ PriceIs(v, s)'
  BY <1>2, <1>3, <1>4, <1>5, PriceWritten
<1>7. Works(q)'
  <2>1. EditFits(q)'
    BY <1>2, <1>3, <1>4, <1>6, RequestsGoOn
  <2> QED
    BY <2>1 DEF EditFits
<1>8. PICK next \in PublishSteps : O!Goes(r, next) /\ next = "productOff"
  BY <1>2 DEF O!PriceOff, PublishSteps
<1>9. PICK new : new = [phase |-> next, op |-> q.op]
  OBVIOUS
<1>10. new \in Edit /\ request' = [request EXCEPT ![r] = new]
  BY <1>2, <1>8, <1>9, GoesOn
<1>11. EditFits(new)'
  <2>1. Works(new)'
    BY <1>1, <1>2, <1>6, <1>7, <1>8, <1>9 DEF Works, Done
  <2> QED
    BY <1>8, <1>9, <2>1 DEF EditFits, PublishSteps
<1> QED
  BY <1>3, <1>4, <1>6, <1>10, <1>11, StripeKeeps

LEMMA ProductOffKeeps ==
  ASSUME CatalogInv, NEW r \in Editor, O!ProductOff(r)
  PROVE  CatalogInv'
<1>1. request[r].phase \in PublishSteps /\ request[r].phase = "productOff"
  BY DEF O!ProductOff, PublishSteps
<1>2. PICK q \in [phase : PublishSteps, op : Operation] :
        /\ q = request[r] /\ q \in Edit /\ EditFits(q) /\ Works(q)
        /\ q.op.previous.version \in Version /\ Priced(q.op.previous.version)
        /\ O!Replaces(q.op) /\ Target(q.op, q.op.previous.version, "inactive")
  BY <1>1, Working DEF Works
<1> DEFINE v == q.op.previous.version
           s == "inactive"
<1>3. /\ products' = [products EXCEPT ![v] = s]
      /\ late' = IF IsCurrent(q.op) THEN late \ {<<"product", v>>} ELSE late \cup {<<"product", v>>}
      /\ UNCHANGED <<catalog, versions, last, mapped, prices>>
  BY <1>2 DEF O!ProductOff, O!Writes, IsCurrent
<1>4. PICK c \in Operation \cup {NoOperation} : c = catalog.operation
  BY DEF CatalogInv, CatalogTypes, CatalogRow
<1>5. PublicationFits(q.op) /\ (IsCurrent(q.op) => q.op = catalog.operation) /\ q.op \in Operation
  BY <1>1, <1>2 DEF Works
<1>6. /\ \A w \in Version : Priced(w) => Priced(w)'
      /\ \A w \in Version : products[w] # "none" => products'[w] # "none"
      /\ Publishing => Followed(c)
      /\ products' \in [Version -> {"none", "active", "inactive"}]
      /\ prices' \in [Version -> [state : {"none", "active", "inactive"}, content : Content \cup {NoContent}]]
      /\ HistoryFits' /\ SellingFits' /\ ProductIs(v, s)'
  BY <1>2, <1>3, <1>4, <1>5, ProductWritten
<1>7. Works(q)'
  <2>1. EditFits(q)'
    BY <1>2, <1>3, <1>4, <1>6, RequestsGoOn
  <2> QED
    BY <2>1 DEF EditFits
<1>8. PICK next \in PublishSteps : O!Goes(r, next) /\ next = "current"
  BY <1>2 DEF O!ProductOff, PublishSteps
<1>9. PICK new : new = [phase |-> next, op |-> q.op]
  OBVIOUS
<1>10. new \in Edit /\ request' = [request EXCEPT ![r] = new]
  BY <1>2, <1>8, <1>9, GoesOn
<1>11. EditFits(new)'
  <2>1. Works(new)'
    BY <1>1, <1>2, <1>6, <1>7, <1>8, <1>9 DEF Works, Done
  <2> QED
    BY <1>8, <1>9, <2>1 DEF EditFits, PublishSteps
<1> QED
  BY <1>3, <1>4, <1>6, <1>10, <1>11, StripeKeeps

\* The first product, or price, of a version is made for the operation that is under way.
LEMMA FirstIsCurrent ==
  ASSUME CatalogInv, NEW q \in [phase : PublishSteps, op : Operation], Works(q),
         \/ products[q.op.plan.version] = "none"
         \/ q.phase = "price" /\ ~Priced(q.op.plan.version)
  PROVE  /\ Publishing /\ IsCurrent(q.op) /\ q.op = catalog.operation
         /\ q.op.plan.version = catalog.plan.version
<1>1. IsCurrent(q.op) /\ q.op = catalog.operation /\ q.op.id # 0
  BY DEF Works, PublicationFits
<1>2. Publishing
  BY <1>1 DEF Publishing, NoOperation
<1> QED
  BY <1>1, <1>2 DEF CatalogInv, PublicationsKeepEdits

LEMMA ProductKeeps ==
  ASSUME CatalogInv, NEW r \in Editor, O!Product(r)
  PROVE  CatalogInv'
<1>1. request[r].phase \in PublishSteps /\ request[r].phase = "product"
  BY DEF O!Product, PublishSteps
<1>2. PICK q \in [phase : PublishSteps, op : Operation] :
        /\ q = request[r] /\ q \in Edit /\ EditFits(q) /\ Works(q)
        /\ q.op.plan.version \in Version
  BY <1>1, Working
<1> DEFINE v == q.op.plan.version
           s == IF products[v] = "none" THEN O!Of(q.op.plan.enabled) ELSE products[v]
<1>3. /\ products' = [products EXCEPT ![v] = s]
      /\ UNCHANGED <<catalog, versions, last, mapped, prices, late>>
  BY <1>2 DEF O!Product
<1>4. PICK c \in Operation \cup {NoOperation} : c = catalog.operation
  BY DEF CatalogInv, CatalogTypes, CatalogRow
<1>5. O!Of(q.op.plan.enabled) \in {"active", "inactive"}
  BY DEF O!Of
<1>6. products[v] = "none" => /\ Publishing /\ q.op = c /\ v = catalog.plan.version
  BY <1>2, <1>4, FirstIsCurrent
<1>7. \A w \in Version : products'[w] = IF w = v THEN s ELSE products[w]
  BY <1>2, <1>3 DEF CatalogInv, CatalogTypes
<1>8. /\ products' \in [Version -> {"none", "active", "inactive"}]
      /\ prices' \in [Version -> [state : {"none", "active", "inactive"}, content : Content \cup {NoContent}]]
  BY <1>2, <1>3, <1>5 DEF CatalogInv, CatalogTypes
<1>9. /\ \A w \in Version : Priced(w) => Priced(w)'
      /\ \A w \in Version : products[w] # "none" => products'[w] # "none"
      /\ products'[v] # "none"
  BY <1>2, <1>3, <1>5, <1>7 DEF Priced
<1>10. Publishing => Followed(c)
  <2> SUFFICES ASSUME Publishing
               PROVE  Followed(c)
    OBVIOUS
  <2>1. c \in Operation /\ PublicationFits(c)
    BY <1>4 DEF Publishing, CatalogInv, OperationFits
  <2>2. c.plan.version \in Version /\ (O!Replaces(c) => c.previous.version \in Version)
    BY <2>1, SameWords DEF Operation, Offer, O!Replaces
  <2>3. \A w \in Version : \A t : PriceIs(w, t) => PriceIs(w, t)'
    BY <1>3 DEF PriceIs
  <2>4. ASSUME NEW w \in Version, NEW t \in {"active", "inactive"}, ProductIs(w, t)
        PROVE  ProductIs(w, t)' \/ (w = c.plan.version /\ products[w] = "none")
    BY <1>3, <1>6, <1>7, <2>4 DEF ProductIs
  <2>5. ASSUME NEW w \in Version, NEW t \in {"active", "inactive"}, ProductIs(w, t), products[w] = "none"
        PROVE  ProductIs(w, t)'
    BY <1>3, <2>5 DEF ProductIs
  <2>6. O!Of(c.plan.enabled) \in {"active", "inactive"}
    BY DEF O!Of
  <2> QED
    BY <2>2, <2>3, <2>4, <2>5, <2>6 DEF Followed
<1>11. HistoryFits'
  BY <1>3 DEF CatalogInv, HistoryFits, Known, Told, Priced
<1>12. SellingFits'
  <2>1. \A w \in Version : products'[w] = products[w] \/ (Publishing /\ w = catalog.plan.version)
    BY <1>6, <1>7
  <2> QED
    BY <1>3, <2>1 DEF CatalogInv, SellingFits, Publishing
<1>13. Works(q)'
  <2>1. EditFits(q)'
    BY <1>2, <1>3, <1>4, <1>9, <1>10, RequestsGoOn
  <2> QED
    BY <2>1 DEF EditFits
<1>14. O!Goes(r, "price") /\ "price" \in PublishSteps
  BY DEF O!Product, PublishSteps
<1>15. PICK new : new = [phase |-> "price", op |-> q.op]
  OBVIOUS
<1>16. new \in Edit /\ request' = [request EXCEPT ![r] = new]
  BY <1>2, <1>14, <1>15, GoesOn
<1>17. EditFits(new)'
  <2>1. Works(new)'
    BY <1>1, <1>2, <1>9, <1>13, <1>15 DEF Works, Done
  <2> QED
    BY <1>15, <2>1 DEF EditFits, PublishSteps
<1> QED
  BY <1>3, <1>4, <1>8, <1>9, <1>10, <1>11, <1>12, <1>16, <1>17, StripeKeeps

LEMMA PriceKeeps ==
  ASSUME CatalogInv, NEW r \in Editor, O!Price(r)
  PROVE  CatalogInv'
<1>1. request[r].phase \in PublishSteps /\ request[r].phase = "price"
  BY DEF O!Price, PublishSteps
<1>2. PICK q \in [phase : PublishSteps, op : Operation] :
        /\ q = request[r] /\ q \in Edit /\ EditFits(q) /\ Works(q)
        /\ q.op.plan.version \in Version
  BY <1>1, Working
<1> DEFINE v == q.op.plan.version
           first == [state |-> O!Of(q.op.plan.enabled), content |-> q.op.plan.content]
<1>3. CASE Priced(v) /\ prices[v].content # q.op.plan.content
  <2>1. O!Ends(r) /\ UNCHANGED <<catalog, versions, last, mapped, products, prices, late>>
    BY <1>2, <1>3 DEF O!Price, Priced
  <2> QED
    BY <2>1, EndsQuietly
<1>4. CASE ~(Priced(v) /\ prices[v].content # q.op.plan.content)
  <2>1. PICK c \in Operation \cup {NoOperation} : c = catalog.operation
    BY DEF CatalogInv, CatalogTypes, CatalogRow
  <2>2. /\ prices' = [prices EXCEPT ![v] = IF Priced(v) THEN @ ELSE first]
        /\ UNCHANGED <<catalog, versions, last, mapped, products, late>>
    BY <1>2 DEF O!Price, Priced, CatalogInv, CatalogTypes
  <2>3. O!Of(q.op.plan.enabled) \in {"active", "inactive"}
    BY DEF O!Of
  <2>4. ~Priced(v) => /\ Publishing /\ q.op = c /\ v = catalog.plan.version
    BY <1>1, <1>2, <2>1, FirstIsCurrent
  <2>5. \A w \in Version : prices'[w] = IF w = v /\ ~Priced(v) THEN first ELSE prices[w]
    BY <1>2, <2>2 DEF CatalogInv, CatalogTypes
  <2>6. q.op.plan \in Offer /\ q.op.plan.content \in Content /\ Known(q.op.plan)
    BY <1>2 DEF Operation, Offer, Works, PublicationFits
  <2>7. /\ products' \in [Version -> {"none", "active", "inactive"}]
        /\ prices' \in [Version -> [state : {"none", "active", "inactive"}, content : Content \cup {NoContent}]]
    BY <1>2, <2>2, <2>3, <2>6 DEF CatalogInv, CatalogTypes
  <2>8. /\ \A w \in Version : Priced(w) => Priced(w)'
        /\ \A w \in Version : products[w] # "none" => products'[w] # "none"
        /\ Priced(v)'
    BY <1>2, <2>2, <2>3, <2>5 DEF Priced
  <2>9. Publishing => Followed(c)
    <3> SUFFICES ASSUME Publishing
                 PROVE  Followed(c)
      OBVIOUS
    <3>1. c \in Operation /\ PublicationFits(c)
      BY <2>1 DEF Publishing, CatalogInv, OperationFits
    <3>2. c.plan.version \in Version /\ (O!Replaces(c) => c.previous.version \in Version)
      BY <3>1, SameWords DEF Operation, Offer, O!Replaces
    <3>3. \A w \in Version : \A t : ProductIs(w, t) => ProductIs(w, t)'
      BY <2>2 DEF ProductIs
    <3>4. ASSUME NEW w \in Version, NEW t \in {"active", "inactive"}, PriceIs(w, t)
          PROVE  PriceIs(w, t)'
      <4>1. CASE Priced(w)
        BY <2>2, <2>5, <3>4, <4>1 DEF PriceIs
      <4>2. CASE ~Priced(w)
        BY <2>2, <3>4, <4>2 DEF PriceIs, Priced
      <4> QED
        BY <4>1, <4>2
    <3>5. O!Of(c.plan.enabled) \in {"active", "inactive"}
      BY DEF O!Of
    <3> QED
      BY <3>2, <3>3, <3>4, <3>5 DEF Followed
  <2>10. HistoryFits'
    <3> SUFFICES ASSUME NEW w \in Version
                 PROVE  /\ versions[w] # NoOffer <=> w < catalog.plan.version
                        /\ versions[w] # NoOffer => versions[w].version = w
                        /\ mapped[w] # NoOffer => Known(mapped[w])
                        /\ Priced(w)' => w <= catalog.plan.version /\ prices'[w].content = Told(w)
      BY <2>2 DEF HistoryFits, Known, Told
    <3>1. CASE w = v /\ ~Priced(v)
      BY <2>5, <2>6, <3>1 DEF CatalogInv, HistoryFits, Known
    <3>2. CASE ~(w = v /\ ~Priced(v))
      BY <2>5, <3>2 DEF CatalogInv, HistoryFits, Priced
    <3> QED
      BY <3>1, <3>2
  <2>11. SellingFits'
    <3>1. \A w \in Version : prices'[w] = prices[w] \/ (Publishing /\ w = catalog.plan.version)
      BY <2>4, <2>5
    <3> QED
      BY <2>2, <3>1 DEF CatalogInv, SellingFits, Publishing
  <2>12. Works(q)'
    <3>1. EditFits(q)'
      BY <1>2, <2>1, <2>2, <2>8, <2>9, RequestsGoOn
    <3> QED
      BY <3>1 DEF EditFits
  <2>13. O!Goes(r, "productOn") /\ "productOn" \in PublishSteps
    BY <1>2, <1>4 DEF O!Price, Priced, PublishSteps
  <2>14. PICK new : new = [phase |-> "productOn", op |-> q.op]
    OBVIOUS
  <2>15. new \in Edit /\ request' = [request EXCEPT ![r] = new]
    BY <1>2, <2>13, <2>14, GoesOn
  <2>16. EditFits(new)'
    <3>1. Works(new)'
      BY <1>1, <1>2, <2>8, <2>12, <2>14 DEF Works, Done
    <3> QED
      BY <2>14, <3>1 DEF EditFits, PublishSteps
  <2> QED
    BY <2>1, <2>2, <2>7, <2>8, <2>9, <2>10, <2>11, <2>15, <2>16, StripeKeeps
<1> QED
  BY <1>3, <1>4

-----------------------------------------------------------------------------
(* Writes of the row of the settings.                                      *)

\* A row that is written makes every row that was read an old one.
LEMMA RowWriteKeeps ==
  ASSUME CatalogInv, UNCHANGED <<products, prices, late>>,
         catalog' \in CatalogRow, catalog'.version = catalog.version + 1,
         catalog.plan.version <= catalog'.plan.version,
         \A w \in Version : w <= catalog.plan.version => Told(w)' = Told(w),
         catalog'.operation.id \in {0, catalog.version},
         Publishing => /\ products[catalog.operation.plan.version] # "none"
                       /\ Priced(catalog.operation.plan.version),
         versions' \in [Version -> Offer \cup {NoOffer}], mapped' \in [Version -> Offer \cup {NoOffer}],
         last' \in Offer \cup {NoOffer},
         \A w \in Version : /\ versions'[w] # NoOffer <=> w < catalog'.plan.version
                            /\ versions'[w] # NoOffer => versions'[w].version = w
                            /\ mapped'[w] # mapped[w] => Known(mapped[w])',
         LastFits', OperationFits', PublicationsKeepEdits', SellingFits',
         NEW r \in Editor, NEW new \in Edit, request' = [request EXCEPT ![r] = new], EditFits(new)'
  PROVE  CatalogInv'
<1>1. catalog.version \in Nat /\ catalog.plan.version \in Version /\ catalog'.plan.version \in Version
  BY DEF CatalogInv, CatalogTypes, CatalogRow, Offer
<1>2. \A p \in Offer : Known(p) => Known(p)'
  <2> SUFFICES ASSUME NEW p \in Offer, Known(p)
               PROVE  Known(p)'
    OBVIOUS
  <2>1. p.version \in Version /\ p.version <= catalog.plan.version
    BY DEF Known, Offer
  <2>2. Told(p.version)' = Told(p.version)
    BY <2>1
  <2> QED
    BY <1>1, <2>1, <2>2 DEF Known, Version
<1>3. CatalogTypes'
  BY <1>1 DEF CatalogInv, CatalogTypes
<1>4. HistoryFits'
  <2> SUFFICES ASSUME NEW w \in Version
               PROVE  /\ versions'[w] # NoOffer <=> w < catalog'.plan.version
                      /\ versions'[w] # NoOffer => versions'[w].version = w
                      /\ (mapped[w] # NoOffer => Known(mapped[w]))'
                      /\ Priced(w)' => w <= catalog'.plan.version /\ prices[w].content = Told(w)'
    BY DEF HistoryFits
  <2>1. (mapped[w] # NoOffer => Known(mapped[w]))'
    <3>1. CASE mapped'[w] = mapped[w]
      <4>1. PICK p : p = mapped[w]
        OBVIOUS
      <4>2. p # NoOffer => p \in Offer /\ Known(p)
        BY <4>1 DEF CatalogInv, CatalogTypes, HistoryFits
      <4>3. p # NoOffer => Known(p)'
        BY <1>2, <4>2
      <4> QED
        BY <3>1, <4>1, <4>3
    <3>2. CASE mapped'[w] # mapped[w]
      BY <3>2
    <3> QED
      BY <3>1, <3>2
  <2>2. Priced(w)' => w <= catalog'.plan.version /\ prices[w].content = Told(w)'
    <3>1. Priced(w)' => Priced(w)
      BY DEF Priced
    <3>2. Priced(w) => w <= catalog.plan.version /\ prices[w].content = Told(w)
      BY DEF CatalogInv, HistoryFits
    <3> QED
      BY <1>1, <3>1, <3>2 DEF Version
  <2> QED
    BY <2>1, <2>2
<1>5. ASSUME NEW q \in Edit, EditFits(q)
      PROVE  EditFits(q)'
  <2>1. ASSUME q.phase \in {"save", "link", "previous", "begin", "finish"}
        PROVE  ReadFits(q.row)' /\ q.row.version # catalog'.version
    <3>1. ReadFits(q.row) /\ q.row \in CatalogRow
      BY <1>5, <2>1, EditForms DEF EditFits
    <3> QED
      BY <1>1, <3>1 DEF ReadFits, CatalogRow
  <2>2. ASSUME q.phase \in PublishSteps \cup {"finish"}
        PROVE  Works(q)'
    <3>1. Works(q) /\ q.op \in Operation
      BY <1>5, <2>2, EditForms DEF EditFits
    <3>2. q.op.plan \in Offer /\ q.op.previous \in Offer \cup {NoOffer} /\ q.op.id \in Nat
      BY <3>1 DEF Operation
    <3>3. \A w \in Version : Priced(w) <=> Priced(w)'
      BY DEF Priced
    <3>4. q.op.plan.version \in Version /\ (q.op.previous # NoOffer => q.op.previous.version \in Version)
      BY <3>2 DEF Offer
    <3>5. PublicationFits(q.op)'
      BY <1>1, <1>2, <3>1, <3>2, <3>3, <3>4 DEF Works, PublicationFits
    <3>6. ~IsCurrent(q.op)'
      BY <1>1, <3>1, <3>2 DEF Works, PublicationFits, IsCurrent
    <3>7. products[q.op.plan.version] # "none" /\ Priced(q.op.plan.version)
      <4>1. CASE IsCurrent(q.op)
        <5>1. q.op = catalog.operation /\ q.op.id # 0
          BY <3>1, <4>1 DEF Works, PublicationFits
        <5>2. Publishing
          BY <5>1 DEF Publishing, NoOperation
        <5> QED
          BY <5>1, <5>2
      <4>2. CASE ~IsCurrent(q.op)
        BY <3>1, <4>2 DEF Works
      <4> QED
        BY <4>1, <4>2
    <3>8. Priced(q.op.plan.version)'
      BY <3>3, <3>4, <3>7
    <3> QED
      BY <3>1, <3>5, <3>6, <3>7, <3>8 DEF Works
  <2> QED
    BY <1>5, <2>1, <2>2 DEF EditFits
<1>6. ASSUME NEW x \in Editor
      PROVE  EditFits(request[x])'
  <2>1. CASE x = r
    BY <2>1 DEF CatalogInv, CatalogTypes
  <2>2. CASE x # r
    <3>1. PICK q \in Edit : q = request[x]
      BY DEF CatalogInv, CatalogTypes
    <3>2. request'[x] = q
      BY <2>2, <3>1 DEF CatalogInv, CatalogTypes
    <3>3. EditFits(q)'
      BY <1>5, <3>1 DEF CatalogInv, EditsFit
    <3> QED
      BY <3>2, <3>3
  <2> QED
    BY <2>1, <2>2
<1> QED
  BY <1>3, <1>4, <1>6 DEF CatalogInv, EditsFit

LEMMA SaveKeeps ==
  ASSUME CatalogInv, NEW r \in Editor, O!Save(r)
  PROVE  CatalogInv'
<1>1. PICK q \in [phase : {"save"}, row : CatalogRow, draft : Draft] : q = request[r] /\ EditFits(q)
  BY EditForms DEF CatalogInv, CatalogTypes, EditsFit, O!Save
<1> DEFINE prior == q.row.plan
           changed == O!Changed(prior, q.draft)
           saves == catalog.version = q.row.version /\ (changed => versions[prior.version] = NoOffer)
<1>2. CASE ~saves
  <2>1. O!Ends(r) /\ UNCHANGED <<catalog, versions, last, mapped, products, prices, late>>
    BY <1>1, <1>2, SameWords DEF O!Save, O!stripeVars
  <2> QED
    BY <2>1, EndsQuietly
<1>3. CASE saves
  <2>1. q.row = catalog /\ catalog.operation = NoOperation /\ ~Publishing
    BY <1>1, <1>3 DEF EditFits, ReadFits, Publishing
  <2>2. PICK plan : plan = O!Saved(prior, q.draft)
    OBVIOUS
  <2>3. /\ catalog' = [catalog EXCEPT !.version = @ + 1, !.plan = plan]
        /\ versions' = IF changed THEN [versions EXCEPT ![prior.version] = prior] ELSE versions
        /\ changed => prior.version < MaxOffer
        /\ UNCHANGED <<last, mapped, products, prices, late>> /\ O!Ends(r)
    BY <1>1, <1>3, <2>1, <2>2, SameWords DEF O!Save, O!stripeVars
  <2>4. prior \in Offer /\ prior = catalog.plan /\ prior.version \in Version /\ q.draft \in Draft
    BY <1>1, <2>1 DEF CatalogRow, Offer
  <2>5. CASE changed
    <3>1. plan = [version |-> prior.version + 1, content |-> q.draft.content, enabled |-> q.draft.enabled, price |-> NoPrice]
      BY <2>2, <2>5, SameWords DEF O!Saved
    <3>2. plan.version = prior.version + 1 /\ plan.version \in Version /\ plan \in Offer
      BY <2>3, <2>4, <2>5, <3>1, CatalogAssumption DEF Offer, Version, Draft, NoPrice, CatalogAssumption
    <3>3. catalog' = [version |-> catalog.version + 1, plan |-> plan, operation |-> catalog.operation]
      BY <2>3 DEF CatalogInv, CatalogTypes, CatalogRow
    <3>4. catalog' \in CatalogRow
      BY <3>2, <3>3 DEF CatalogInv, CatalogTypes, CatalogRow
    <3>5. \A w \in Version : versions'[w] = IF w = prior.version THEN prior ELSE versions[w]
      BY <2>3, <2>5 DEF CatalogInv, CatalogTypes
    <3>6. \A w \in Version : w <= catalog.plan.version => Told(w)' = Told(w)
      BY <2>4, <3>2, <3>3, <3>5 DEF Told, Version
    <3>7. prior # NoOffer
      BY <2>4 DEF Offer, NoOffer, Version
    <3>8. \A w \in Version : /\ versions'[w] # NoOffer <=> w < catalog'.plan.version
                             /\ versions'[w] # NoOffer => versions'[w].version = w
      BY <2>4, <3>2, <3>3, <3>5, <3>7 DEF CatalogInv, HistoryFits, Version
    <3>9. plan.price \notin Version
      BY <3>1 DEF NoPrice, Version
    <3>10. PublicationsKeepEdits' /\ OperationFits' /\ SellingFits'
      BY <2>1, <2>3, <3>3, <3>9 DEF PublicationsKeepEdits, OperationFits, SellingFits, Publishing, CatalogInv
    <3>11. LastFits'
      <4>1. last # NoOffer => last.version \in Version /\ Known(last) /\ Priced(last.version)
        BY DEF CatalogInv, LastFits, CatalogTypes, Offer
      <4>2. last # NoOffer => Known(last)'
        BY <2>3, <2>4, <3>2, <3>3, <3>6, <4>1 DEF Known, Version
      <4> QED
        BY <2>3, <4>1, <4>2 DEF LastFits, Priced
    <3>12. /\ versions' \in [Version -> Offer \cup {NoOffer}]
           /\ catalog'.version = catalog.version + 1 /\ catalog'.operation.id = 0
           /\ catalog.plan.version <= catalog'.plan.version
      BY <2>1, <2>3, <2>4, <3>2, <3>3 DEF CatalogInv, CatalogTypes, NoOperation, Version
    <3> QED
      BY <2>1, <2>3, <3>4, <3>6, <3>8, <3>10, <3>11, <3>12, IdleFits, RowWriteKeeps DEF CatalogInv, CatalogTypes, O!Ends
  <2>6. CASE ~changed
    <3>1. plan = [prior EXCEPT !.content = q.draft.content, !.enabled = q.draft.enabled]
      BY <2>2, <2>6, SameWords DEF O!Saved
    <3>2. plan.version = prior.version /\ plan.content = prior.content /\ plan.price = prior.price /\ plan \in Offer
      BY <2>4, <2>6, <3>1 DEF Offer, Draft, O!Changed
    <3>3. catalog' = [version |-> catalog.version + 1, plan |-> plan, operation |-> catalog.operation]
      BY <2>3 DEF CatalogInv, CatalogTypes, CatalogRow
    <3>4. catalog' \in CatalogRow
      BY <3>2, <3>3 DEF CatalogInv, CatalogTypes, CatalogRow
    <3>5. versions' = versions
      BY <2>3, <2>6
    <3>6. \A w : Told(w)' = Told(w)
      BY <2>4, <3>2, <3>3, <3>5 DEF Told
    <3>7. PublicationsKeepEdits' /\ OperationFits' /\ SellingFits'
      BY <2>1, <2>3, <2>4, <3>2, <3>3 DEF PublicationsKeepEdits, OperationFits, SellingFits, Publishing, CatalogInv
    <3>8. LastFits'
      BY <2>3, <2>4, <3>2, <3>3, <3>6 DEF LastFits, Known, Priced, CatalogInv
    <3>9. \A w \in Version : /\ versions'[w] # NoOffer <=> w < catalog'.plan.version
                             /\ versions'[w] # NoOffer => versions'[w].version = w
      BY <2>4, <3>2, <3>3, <3>5 DEF CatalogInv, HistoryFits
    <3>10. /\ catalog'.version = catalog.version + 1 /\ catalog'.operation.id = 0
           /\ catalog.plan.version <= catalog'.plan.version
      BY <2>1, <2>4, <3>2, <3>3 DEF NoOperation, Version
    <3> QED
      BY <2>1, <2>3, <3>4, <3>5, <3>6, <3>7, <3>8, <3>9, <3>10, IdleFits, RowWriteKeeps
      DEF CatalogInv, CatalogTypes, O!Ends
  <2> QED
    BY <2>5, <2>6
<1> QED
  BY <1>2, <1>3

LEMMA LinkedKeeps ==
  ASSUME CatalogInv, NEW r \in Editor, O!Linked(r)
  PROVE  CatalogInv'
<1>1. PICK q \in Edit : q = request[r] /\ EditFits(q) /\ q.phase = "link"
  BY DEF CatalogInv, CatalogTypes, EditsFit, O!Linked
<1>2. CASE catalog.version # q.row.version
  <2>1. O!Ends(r) /\ UNCHANGED <<catalog, versions, last, mapped, products, prices, late>>
    BY <1>1, <1>2 DEF O!Linked, O!stripeVars
  <2> QED
    BY <2>1, EndsQuietly
<1>3. CASE catalog.version = q.row.version
  <2>1. catalog.operation = NoOperation /\ ~Publishing
    BY <1>1, <1>3 DEF EditFits, ReadFits, Publishing
  <2>2. PICK plan : plan = [catalog.plan EXCEPT !.price = Foreign]
    OBVIOUS
  <2>3. catalog' = [catalog EXCEPT !.version = @ + 1, !.plan = plan]
    BY <1>1, <1>3, <2>2, SameWords DEF O!Linked
  <2>4. UNCHANGED <<versions, last, mapped, products, prices, late>> /\ O!Ends(r)
    BY DEF O!Linked, O!stripeVars
  <2>5. catalog.plan \in Offer /\ catalog.plan.version \in Version
    BY DEF CatalogInv, CatalogTypes, CatalogRow, Offer
  <2>6. Foreign \in Nat /\ Foreign \notin Version
    BY CatalogAssumption DEF CatalogAssumption, Foreign, Version
  <2>7. /\ plan.version = catalog.plan.version /\ plan.content = catalog.plan.content /\ plan.price = Foreign
        /\ plan \in Offer
    BY <2>2, <2>5, <2>6 DEF Offer
  <2>8. catalog' = [version |-> catalog.version + 1, plan |-> plan, operation |-> catalog.operation]
    BY <2>3 DEF CatalogInv, CatalogTypes, CatalogRow
  <2>9. catalog' \in CatalogRow
    BY <2>7, <2>8 DEF CatalogInv, CatalogTypes, CatalogRow
  <2>10. \A w : Told(w)' = Told(w)
    BY <2>4, <2>7, <2>8 DEF Told
  <2>11. PublicationsKeepEdits' /\ OperationFits' /\ SellingFits'
    BY <2>1, <2>4, <2>6, <2>7, <2>8 DEF PublicationsKeepEdits, OperationFits, SellingFits, Publishing, CatalogInv
  <2>12. LastFits'
    BY <2>4, <2>7, <2>8, <2>10 DEF LastFits, Known, Priced, CatalogInv
  <2>13. \A w \in Version : /\ versions'[w] # NoOffer <=> w < catalog'.plan.version
                            /\ versions'[w] # NoOffer => versions'[w].version = w
    BY <2>4, <2>7, <2>8 DEF CatalogInv, HistoryFits
  <2>14. /\ catalog'.version = catalog.version + 1 /\ catalog'.operation.id = 0
         /\ catalog.plan.version <= catalog'.plan.version
    BY <2>1, <2>5, <2>7, <2>8 DEF NoOperation, Version
  <2> QED
    BY <2>1, <2>4, <2>9, <2>10, <2>11, <2>12, <2>13, <2>14, IdleFits, RowWriteKeeps
    DEF CatalogInv, CatalogTypes, O!Ends
<1> QED
  BY <1>2, <1>3

LEMMA BeginOperationKeeps ==
  ASSUME CatalogInv, NEW r \in Editor, O!BeginOperation(r)
  PROVE  CatalogInv'
<1>1. PICK q \in [phase : {"begin"}, row : CatalogRow, op : Operation] : q = request[r] /\ EditFits(q)
  BY EditForms DEF CatalogInv, CatalogTypes, EditsFit, O!BeginOperation
<1>2. CASE catalog.version # q.row.version
  <2>1. O!Ends(r) /\ UNCHANGED <<catalog, versions, last, mapped, products, prices, late>>
    BY <1>1, <1>2 DEF O!BeginOperation, O!stripeVars
  <2> QED
    BY <2>1, EndsQuietly
<1>3. CASE catalog.version = q.row.version
  <2>1. catalog.operation = NoOperation /\ ~Publishing
    BY <1>1, <1>3 DEF EditFits, ReadFits, Publishing
  <2>2. PICK op \in Operation : op = q.op
    BY <1>1
  <2>3. op.id = catalog.version /\ op.id # 0 /\ op.plan = catalog.plan /\ op.previous = last
    BY <1>1, <1>3, <2>2 DEF EditFits, ReadFits
  <2>4. catalog' = [catalog EXCEPT !.version = @ + 1, !.operation = op]
    BY <1>1, <1>3, <2>2 DEF O!BeginOperation
  <2>5. PICK new : new = [phase |-> "product", op |-> op]
    OBVIOUS
  <2>6. /\ UNCHANGED <<versions, last, mapped, products, prices, late>>
        /\ request' = [request EXCEPT ![r] = new]
    BY <1>1, <1>3, <2>2, <2>5 DEF O!BeginOperation, O!stripeVars
  <2>7. new \in Edit
    BY <2>5 DEF Edit, PublishSteps
  <2>8. catalog' = [version |-> catalog.version + 1, plan |-> catalog.plan, operation |-> op]
    BY <2>4 DEF CatalogInv, CatalogTypes, CatalogRow
  <2>9. catalog' \in CatalogRow /\ catalog.plan.version \in Version
    BY <2>8 DEF CatalogInv, CatalogTypes, CatalogRow, Offer
  <2>10. \A w : Told(w)' = Told(w)
    BY <2>6, <2>8 DEF Told
  <2>11. LastFits'
    BY <2>6, <2>8, <2>10 DEF LastFits, Known, Priced, CatalogInv
  <2>12. PublicationFits(op)'
    <3>1. op.id < catalog'.version
      BY <2>3, <2>8 DEF CatalogInv, CatalogTypes, CatalogRow
    <3>2. Known(op.plan)'
      BY <2>3, <2>8, <2>9 DEF Known, Told, Version
    <3>3. op.previous # NoOffer => Known(op.previous)' /\ Priced(op.previous.version)'
      BY <2>3, <2>6, <2>11 DEF LastFits
    <3> QED
      BY <2>3, <3>1, <3>2, <3>3 DEF PublicationFits
  <2>13. OperationFits'
    BY <2>3, <2>6, <2>8, <2>12 DEF OperationFits
  <2>14. PublicationsKeepEdits'
    BY <2>3, <2>6, <2>8 DEF PublicationsKeepEdits, CatalogInv
  <2>15. SellingFits'
    <3>1. Publishing'
      BY <2>3, <2>8 DEF Publishing, NoOperation
    <3> QED
      BY <2>1, <2>6, <3>1 DEF SellingFits, CatalogInv
  <2>16. \A w \in Version : /\ versions'[w] # NoOffer <=> w < catalog'.plan.version
                            /\ versions'[w] # NoOffer => versions'[w].version = w
    BY <2>6, <2>8 DEF CatalogInv, HistoryFits
  <2>17. /\ catalog'.version = catalog.version + 1 /\ catalog'.operation.id = catalog.version
         /\ catalog.plan.version <= catalog'.plan.version
    BY <2>3, <2>8, <2>9 DEF Version
  <2>18. EditFits(new)'
    <3>1. Works(new)'
      BY <2>5, <2>8, <2>12 DEF Works, Done, IsCurrent
    <3> QED
      BY <2>5, <3>1 DEF EditFits, PublishSteps
  <2> QED
    BY <2>1, <2>6, <2>7, <2>9, <2>10, <2>11, <2>13, <2>14, <2>15, <2>16, <2>17, <2>18, RowWriteKeeps
    DEF CatalogInv, CatalogTypes
<1> QED
  BY <1>2, <1>3

LEMMA FinishKeeps ==
  ASSUME CatalogInv, NEW r \in Editor, O!Finish(r)
  PROVE  CatalogInv'
<1>1. PICK q \in [phase : {"finish"}, op : Operation, row : CatalogRow] : q = request[r] /\ EditFits(q)
  BY EditForms DEF CatalogInv, CatalogTypes, EditsFit, O!Finish
<1>2. CASE catalog.version # q.row.version
  <2>1. O!Ends(r) /\ UNCHANGED <<catalog, versions, last, mapped, products, prices, late>>
    BY <1>1, <1>2 DEF O!Finish, O!stripeVars
  <2> QED
    BY <2>1, EndsQuietly
<1>3. CASE catalog.version = q.row.version
  <2>1. PICK op \in Operation : op = q.op
    BY <1>1
  <2>2. Works(q) /\ IsCurrent(op)
    BY <1>1, <1>3, <2>1 DEF EditFits
  <2>3. op = catalog.operation /\ Done(q) /\ op.id # 0 /\ Priced(op.plan.version) /\ products[op.plan.version] # "none"
    BY <1>1, <2>1, <2>2 DEF Works, PublicationFits
  <2>4. Publishing
    BY <2>3 DEF Publishing, NoOperation
  <2>5. op.plan = catalog.plan /\ op.previous = last
    BY <2>3, <2>4 DEF CatalogInv, PublicationsKeepEdits, OperationFits
  <2>6. op.plan \in Offer /\ op.plan.version \in Version
    BY DEF Operation, Offer
  <2> DEFINE v == op.plan.version
  <2>7. PICK plan : plan = [op.plan EXCEPT !.price = v]
    OBVIOUS
  <2>8. /\ plan \in Offer /\ plan.version = v /\ plan.content = op.plan.content /\ plan.enabled = op.plan.enabled
        /\ plan.price = v
    BY <2>6, <2>7 DEF Offer, Version
  <2>9. plan # NoOffer
    BY <2>6, <2>8 DEF NoOffer, Version
  <2>10. /\ catalog' = [version |-> catalog.version + 1, plan |-> plan, operation |-> NoOperation]
         /\ last' = plan /\ mapped' = [mapped EXCEPT ![v] = plan]
         /\ UNCHANGED <<versions, products, prices, late>> /\ O!Ends(r)
    BY <1>1, <1>3, <2>1, <2>7, SameWords DEF O!Finish, O!stripeVars
  <2>11. catalog' \in CatalogRow
    BY <2>8, <2>10 DEF CatalogInv, CatalogTypes, CatalogRow
  <2>12. \A w : Told(w)' = Told(w)
    BY <2>5, <2>8, <2>10 DEF Told
  <2>13. Known(plan)'
    BY <2>6, <2>8, <2>10 DEF Known, Told, Version
  <2>14. LastFits'
    BY <2>3, <2>8, <2>10, <2>13 DEF LastFits, Priced
  <2>15. ~Publishing'
    BY <2>10 DEF Publishing
  <2>16. OperationFits'
    BY <2>15 DEF OperationFits
  <2>17. mapped' \in [Version -> Offer \cup {NoOffer}] /\ mapped'[v] = plan
    BY <2>6, <2>8, <2>10 DEF CatalogInv, CatalogTypes
  <2>18. PublicationsKeepEdits'
    BY <2>8, <2>9, <2>10, <2>15, <2>17 DEF PublicationsKeepEdits
  <2>19. SellingFits'
    <3> SUFFICES ASSUME NEW w \in Version
                 PROVE  /\ <<"product", w>> \notin late => (products[w] = "active" <=> w = v /\ plan.enabled)
                        /\ <<"price", w>> \notin late => (prices[w].state = "active" <=> w = v /\ plan.enabled)
      BY <2>8, <2>10, <2>15 DEF SellingFits
    <3>1. plan.enabled \in BOOLEAN
      BY <2>8 DEF Offer
    <3>2. O!Of(op.plan.enabled) = "active" <=> plan.enabled
      BY <2>8, <3>1 DEF O!Of
    <3>3. CASE w = v
      <4>1. ProductIs(v, O!Of(op.plan.enabled)) /\ PriceIs(v, O!Of(op.plan.enabled))
        BY <1>1, <2>1, <2>3 DEF Done
      <4> QED
        BY <3>2, <3>3, <4>1 DEF ProductIs, PriceIs
    <3>4. CASE w # v /\ w = last.version
      <4>1. last # NoOffer
        BY <3>4 DEF NoOffer, Version
      <4>2. O!Replaces(op)
        BY <2>5, <3>4, <4>1, SameWords DEF O!Replaces
      <4>3. ProductIs(w, "inactive") /\ PriceIs(w, "inactive")
        BY <1>1, <2>1, <2>3, <2>5, <3>4, <4>2 DEF Done
      <4> QED
        BY <3>4, <4>3 DEF ProductIs, PriceIs
    <3>5. CASE w # v /\ w # last.version
      BY <2>4, <2>5, <3>5 DEF CatalogInv, SellingFits
    <3> QED
      BY <3>3, <3>4, <3>5
  <2>20. \A w \in Version : /\ versions'[w] # NoOffer <=> w < catalog'.plan.version
                            /\ versions'[w] # NoOffer => versions'[w].version = w
    BY <2>5, <2>8, <2>10 DEF CatalogInv, HistoryFits
  <2>21. \A w \in Version : mapped'[w] # mapped[w] => Known(mapped[w])'
    <3> SUFFICES ASSUME NEW w \in Version, mapped'[w] # mapped[w]
                 PROVE  Known(mapped[w])'
      OBVIOUS
    <3>1. w = v
      BY <2>10 DEF CatalogInv, CatalogTypes
    <3> QED
      BY <2>13, <2>17, <3>1
  <2>22. /\ catalog'.version = catalog.version + 1 /\ catalog'.operation.id = 0
         /\ catalog.plan.version <= catalog'.plan.version
    BY <2>5, <2>6, <2>8, <2>10 DEF NoOperation, Version
  <2>23. last' \in Offer \cup {NoOffer} /\ versions' \in [Version -> Offer \cup {NoOffer}]
    BY <2>8, <2>10 DEF CatalogInv, CatalogTypes
  <2> QED
    BY <2>3, <2>10, <2>11, <2>12, <2>14, <2>16, <2>17, <2>18, <2>19, <2>20, <2>21, <2>22, <2>23, IdleFits, RowWriteKeeps
    DEF O!Ends
<1> QED
  BY <1>2, <1>3

-----------------------------------------------------------------------------
LEMMA CatalogInvInit == O!Init => CatalogInv
<1> SUFFICES ASSUME O!Init
             PROVE  CatalogInv
  OBVIOUS
<1>1. PICK c \in Content, on \in BOOLEAN :
        catalog = [version |-> 1, operation |-> NoOperation,
                   plan |-> [version |-> 1, content |-> c, enabled |-> on, price |-> NoPrice]]
  BY SameWords DEF O!Init
<1>2. PICK plan : plan = [version |-> 1, content |-> c, enabled |-> on, price |-> NoPrice]
  OBVIOUS
<1>3. plan \in Offer /\ plan.version = 1 /\ plan.price = 0
  BY <1>2, CatalogAssumption DEF Offer, Version, NoPrice, CatalogAssumption
<1>4. /\ catalog = [version |-> 1, operation |-> NoOperation, plan |-> plan] /\ ~Publishing
  BY <1>1, <1>2 DEF Publishing
<1>5. /\ versions = [v \in Version |-> NoOffer] /\ last = NoOffer /\ mapped = [v \in Version |-> NoOffer]
      /\ products = [v \in Version |-> "none"]
      /\ prices = [v \in Version |-> [state |-> "none", content |-> NoContent]]
      /\ request = [r \in Editor |-> O!Idle] /\ late = {}
  BY SameWords DEF O!Init
<1>6. CatalogTypes
  <2>1. catalog \in CatalogRow /\ catalog.version # 0
    BY <1>3, <1>4 DEF CatalogRow
  <2> QED
    BY <1>5, <2>1, IdleFits DEF CatalogTypes
<1>7. HistoryFits
  BY <1>3, <1>4, <1>5 DEF HistoryFits, Priced, Version
<1>8. LastFits /\ OperationFits /\ PublicationsKeepEdits
  BY <1>3, <1>4, <1>5 DEF LastFits, OperationFits, PublicationsKeepEdits, Version
<1>9. EditsFit
  BY <1>5, IdleFits DEF EditsFit
<1>10. SellingFits
  BY <1>4, <1>5 DEF SellingFits, NoOffer, Version
<1> QED
  BY <1>6, <1>7, <1>8, <1>9, <1>10 DEF CatalogInv

LEMMA CatalogInvNext == CatalogInv /\ [O!Next]_(O!vars) => CatalogInv'
<1> SUFFICES ASSUME CatalogInv, [O!Next]_(O!vars)
             PROVE  CatalogInv'
  OBVIOUS
<1>1. CASE UNCHANGED O!vars
  <2>1. request' = request /\ UNCHANGED <<catalog, versions, last, mapped, products, prices, late>>
    BY <1>1 DEF O!vars
  <2> QED
    BY <2>1, QuietKeeps DEF CatalogInv, CatalogTypes
<1>2. ASSUME NEW r \in Editor, O!Fail(r)
      PROVE  CatalogInv'
  BY <1>2, EndsQuietly DEF O!Fail, O!stripeVars
<1>3. ASSUME NEW r \in Editor, NEW draft \in O!Drafts, O!Edit(r, draft)
      PROVE  CatalogInv'
  BY <1>3, EditKeeps
<1>4. CASE O!Next
  BY <1>2, <1>3, <1>4, SaveKeeps, LinkKeeps, LinkedKeeps, PublishKeeps, ReadPreviousKeeps, BeginOperationKeeps,
     ProductKeeps, PriceKeeps, ProductOnKeeps, PriceOnKeeps, PriceOffKeeps, ProductOffKeeps, ReadCurrentKeeps,
     FinishKeeps DEF O!Next
<1> QED
  BY <1>1, <1>4

\* However administrators edit, link and publish at the same time, and wherever they stop, a
\* version of the plan is one offer, no edit is lost in a publication, and Stripe sells what was
\* published last, for any number of administrators, of contents and of versions
\* (Subscriptions.saveSettings, publishPlan, StripeCatalog.publish).
THEOREM CatalogStaysTrue == O!Spec => []CatalogIsTrue
<1>1. O!Spec => []CatalogInv
  BY CatalogInvInit, CatalogInvNext, PTL DEF O!Spec
<1> QED
  BY <1>1, CatalogInvIsTrue, PTL
=============================================================================
