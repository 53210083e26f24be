----------------------------- MODULE Migrations -----------------------------
(***************************************************************************)
(* packages/migrations: MigrationRunner.up and .down under the lease of    *)
(* class Lock, the history kept in the application's own store, and the    *)
(* loop of Umzug (a library: it reads the executed migrations, then for    *)
(* each one left runs its step and logs it).                               *)
(*                                                                         *)
(* A runner is one call of up() or down(): its owner is unique.  The lock  *)
(* and the history records are rows of the store; version 0 is no row.     *)
(* A lease is live until it expires: the clock is the choice of when.      *)
(* Every transaction commits, is refused, fails unwritten, or commits and  *)
(* loses its acknowledgement.                                              *)
(***************************************************************************)
EXTENDS Integers, Sequences, FiniteSets

CONSTANTS
  Runner,        \* calls of up() or down()
  Plan,          \* the declared migrations, in order
  Irreversible,  \* those without a down step
  Checksums,     \* checksums a migration may declare
  Declares,      \* [Runner -> checksum its migrations declare]
  Overdue,       \* runners whose lease may expire while they work
  NoRunner, NoSum

Migration == {Plan[i] : i \in DOMAIN Plan}

ASSUME PlanAssumption ==
  /\ Plan \in Seq(Migration)
  /\ \A i, j \in DOMAIN Plan : Plan[i] = Plan[j] => i = j
  /\ Irreversible \subseteq Migration
ASSUME RunnerAssumption ==
  /\ NoRunner \notin Runner /\ Overdue \subseteq Runner
  /\ Declares \in [Runner -> Checksums] /\ NoSum \notin Checksums

VARIABLES
  lock,      \* the row of MIGRATION_LOCKS
  history,   \* [Migration -> its row of MIGRATIONS]
  pc,        \* [Runner -> where in up() or down() it is]
  mode,      \* [Runner -> "up" or "down"]
  version,   \* [Runner -> Lock.version, the lock version it believes is its own]
  todo,      \* [Runner -> the migrations Umzug still has to run for it]
  count,     \* [Runner -> how many migrations down() asked Umzug to revert]
  record,    \* [Runner -> version of the history row unlogMigration() read]
  ran        \* migrations whose up step completed since they were last unlogged

vars == <<lock, history, pc, mode, version, todo, count, record, ran>>
own == <<mode, todo, count, record>>

-----------------------------------------------------------------------------
NoLock == [version |-> 0, owner |-> NoRunner, live |-> FALSE]
NoRecord == [version |-> 0, checksum |-> NoSum]
RecordOf(r) == [version |-> 1, checksum |-> Declares[r]]

PC == {"idle", "acquire", "verify", "plan", "select", "renew", "step", "read", "log",
       "release", "delete", "done", "crashed"}

\* Between acquire() and release() a runner works under its lease.
Working == {"verify", "plan", "select", "renew", "step", "read", "log"}

Before(n, m) == \E i \in 1..n : Plan[i] = m

\* Earlier runs, of the build of runner b, left the first n migrations applied.
Init ==
  /\ lock = NoLock
  /\ \E n \in 0..Len(Plan), b \in Runner :
       /\ history = [m \in Migration |-> IF Before(n, m) THEN RecordOf(b) ELSE NoRecord]
       /\ ran = {m \in Migration : Before(n, m)}
  /\ pc = [r \in Runner |-> "idle"]
  /\ mode \in [Runner -> {"up", "down"}]
  /\ version = [r \in Runner |-> 0]
  /\ todo = [r \in Runner |-> <<>>]
  /\ count = [r \in Runner |-> 0]
  /\ record = [r \in Runner |-> 0]

Goto(r, p) == pc' = [pc EXCEPT ![r] = p]

-----------------------------------------------------------------------------
(* Lock                                                                    *)

LockRow(r, v) == [version |-> v, owner |-> r, live |-> TRUE]

\* acquire(), up to its transaction: a live lease turns the runner away.
ReadLock(r) ==
  /\ pc[r] = "idle"
  /\ \/ /\ lock.version = 0 \/ ~lock.live
        /\ version' = [version EXCEPT ![r] = lock.version]
        /\ Goto(r, "acquire")
     \/ /\ lock.version # 0 /\ lock.live
        /\ Goto(r, "done")
        /\ UNCHANGED version
  /\ UNCHANGED <<lock, history, ran, own>>

\* Bug: the lock row is written without a condition.
AcquireUnconditionally(r) ==
  /\ pc[r] = "acquire"
  /\ lock' = LockRow(r, version[r] + 1)
  /\ version' = [version EXCEPT ![r] = @ + 1]
  /\ Goto(r, "verify")
  /\ UNCHANGED <<history, ran, own>>

\* Any failure of the transaction reads as a lock held by another.
Acquire(r) ==
  /\ pc[r] = "acquire"
  /\ \/ /\ lock.version = version[r]
        /\ lock' = LockRow(r, version[r] + 1)
        /\ \/ version' = [version EXCEPT ![r] = @ + 1] /\ Goto(r, "verify")
           \/ UNCHANGED version /\ Goto(r, "done")
     \/ Goto(r, "done") /\ UNCHANGED <<lock, version>>
  /\ UNCHANGED <<history, ran, own>>

\* Bug: the lease is renewed whoever holds it.
RenewsBlindly(r) == lock' = LockRow(r, lock.version + 1)

\* commit(): the lease renewal, on which the writes of the same transaction depend.
Renews(r) ==
  /\ lock.version = version[r]
  /\ lock' = LockRow(r, version[r] + 1)

\* After a transaction that committed: heard of, or lost.
Heard(r, next) ==
  \/ version' = [version EXCEPT ![r] = @ + 1] /\ Goto(r, next)
  \/ UNCHANGED version /\ Goto(r, "release")

\* release(), up to its transaction: only a lock that is still its own.
ReadOwnLock(r) ==
  /\ pc[r] = "release"
  /\ Goto(r, IF lock.version = version[r] /\ lock.owner = r THEN "delete" ELSE "done")
  /\ UNCHANGED <<lock, history, version, ran, own>>

Release(r) ==
  /\ pc[r] = "delete"
  /\ Goto(r, "done")
  /\ \/ lock.version = version[r] /\ lock' = NoLock
     \/ UNCHANGED lock
  /\ UNCHANGED <<history, version, ran, own>>

-----------------------------------------------------------------------------
(* MigrationRunner and Umzug                                               *)

Applied(m) == history[m].version # 0

\* The migrations at some positions of the plan, in its order.
InOrder(positions) ==
  [k \in 1..Cardinality(positions) |->
     Plan[CHOOSE i \in positions : Cardinality({j \in positions : j <= i}) = k]]
Executed == InOrder({i \in DOMAIN Plan : Applied(Plan[i])})
Pending == InOrder({i \in DOMAIN Plan : ~Applied(Plan[i])})

\* verifyHistory(): an applied migration whose checksum changed fails the run.
Verify(r) ==
  /\ pc[r] = "verify"
  /\ IF \E m \in Migration : Applied(m) /\ history[m].checksum # Declares[r]
       THEN Goto(r, "release")
       ELSE Goto(r, IF mode[r] = "down" THEN "plan" ELSE "select")
  /\ UNCHANGED <<lock, history, version, ran, own>>

Last(s, n) == SubSeq(s, Len(s) - n + 1, Len(s))
\* Bug: down() reverts in application order.
Unreversed(s) == s
Reversed(s) == [i \in 1..Len(s) |-> s[Len(s) - i + 1]]

\* Bug: irreversible targets are not refused.
PlanDownAnyway(r) ==
  /\ pc[r] = "plan"
  /\ \E n \in 0..Len(Executed) :
       /\ count' = [count EXCEPT ![r] = n]
       /\ Goto(r, IF n = 0 THEN "release" ELSE "select")
  /\ UNCHANGED <<lock, history, version, mode, todo, record, ran>>

\* down() chooses its targets and refuses them all if one is irreversible.
PlanDown(r) ==
  /\ pc[r] = "plan"
  /\ \E n \in 0..Len(Executed) :
       /\ count' = [count EXCEPT ![r] = n]
       /\ Goto(r, IF n = 0 \/ \E i \in 1..n : Last(Executed, n)[i] \in Irreversible
                    THEN "release" ELSE "select")
  /\ UNCHANGED <<lock, history, version, mode, todo, record, ran>>

\* Umzug turns to the next migration of a list; one without a down step has
\* nothing to run, and its record is read at once.
First(r, list) ==
  IF list = <<>> THEN "release"
  ELSE IF mode[r] = "down" /\ Head(list) \in Irreversible THEN "read" ELSE "renew"

\* Umzug reads the history: up() runs a prefix of what is pending (all of it,
\* or up to an option), down() the last ones executed, newest first.
Select(r) ==
  /\ pc[r] = "select"
  /\ \/ mode[r] = "up" /\ \E n \in 0..Len(Pending) : todo' = [todo EXCEPT ![r] = SubSeq(Pending, 1, n)]
     \/ mode[r] = "down" /\ \E n \in {IF count[r] < Len(Executed) THEN count[r] ELSE Len(Executed)} :
          todo' = [todo EXCEPT ![r] = Reversed(Last(Executed, n))]
  /\ Goto(r, First(r, todo'[r]))
  /\ count' = [count EXCEPT ![r] = 0]
  /\ UNCHANGED <<lock, history, version, mode, record, ran>>

Renew(r) ==
  /\ pc[r] = "renew"
  /\ \/ Renews(r) /\ Heard(r, "step")
     \/ Goto(r, "release") /\ UNCHANGED <<lock, version>>
  /\ UNCHANGED <<history, ran, own>>

\* Bug: a run goes on after a step that throws.
RunStepSkipping(r) ==
  /\ pc[r] = "step"
  /\ \/ /\ ran' = IF mode[r] = "up" THEN ran \cup {Head(todo[r])} ELSE ran
        /\ Goto(r, IF mode[r] = "up" THEN "log" ELSE "read")
        /\ UNCHANGED todo
     \/ /\ todo' = [todo EXCEPT ![r] = Tail(@)]
        /\ Goto(r, First(r, Tail(todo[r])))
        /\ UNCHANGED ran
  /\ UNCHANGED <<lock, history, version, mode, count, record>>

\* The step of the migration at hand: it completes, or it throws.
RunStep(r) ==
  /\ pc[r] = "step"
  /\ \/ /\ ran' = IF mode[r] = "up" THEN ran \cup {Head(todo[r])} ELSE ran
        /\ Goto(r, IF mode[r] = "up" THEN "log" ELSE "read")
     \/ Goto(r, "release") /\ UNCHANGED ran
  /\ UNCHANGED <<lock, history, version, own>>

\* unlogMigration(), up to its transaction.
ReadRecord(r) ==
  /\ pc[r] = "read"
  /\ record' = [record EXCEPT ![r] = history[Head(todo[r])].version]
  /\ Goto(r, "log")
  /\ UNCHANGED <<lock, history, version, mode, todo, count, ran>>

\* logMigration() creates the record, unlogMigration() deletes the one it read;
\* if it read none it renews the lease and no more.
Logs(r, m) ==
  \/ /\ mode[r] = "up" /\ ~Applied(m)
     /\ history' = [history EXCEPT ![m] = RecordOf(r)]
     /\ UNCHANGED ran
  \/ /\ mode[r] = "down" /\ record[r] # 0 /\ history[m].version = record[r]
     /\ history' = [history EXCEPT ![m] = NoRecord]
     /\ ran' = ran \ {m}
  \/ /\ mode[r] = "down" /\ record[r] = 0
     /\ UNCHANGED <<history, ran>>

Log(r) ==
  /\ pc[r] = "log"
  /\ todo' = [todo EXCEPT ![r] = Tail(@)]
  /\ record' = [record EXCEPT ![r] = 0]
  /\ \/ Renews(r) /\ Logs(r, Head(todo[r])) /\ Heard(r, First(r, Tail(todo[r])))
     \/ Goto(r, "release") /\ UNCHANGED <<lock, history, version, ran>>
  /\ UNCHANGED <<mode, count>>

Step(r) ==
  \/ ReadLock(r) \/ Acquire(r) \/ Verify(r) \/ PlanDown(r) \/ Select(r) \/ Renew(r)
  \/ RunStep(r) \/ ReadRecord(r) \/ Log(r) \/ ReadOwnLock(r) \/ Release(r)

-----------------------------------------------------------------------------
Crash(r) ==
  /\ pc[r] \notin {"idle", "done", "crashed"}
  /\ Goto(r, "crashed")
  /\ UNCHANGED <<lock, history, version, ran, own>>

\* A lease runs out when its holder is gone, or is slower than lockTtlMs.
Gone == {"done", "crashed"}
Expire ==
  /\ lock.version # 0 /\ lock.live
  /\ lock.owner \in Overdue \/ pc[lock.owner] \in Gone
  /\ lock' = [lock EXCEPT !.live = FALSE]
  /\ UNCHANGED <<history, pc, version, ran, own>>

Next == Expire \/ \E r \in Runner : Step(r) \/ Crash(r)

Spec == Init /\ [][Next]_vars

-----------------------------------------------------------------------------
TypeOK ==
  /\ lock \in [version : Nat, owner : Runner \cup {NoRunner}, live : BOOLEAN]
  /\ history \in [Migration -> [version : {0, 1}, checksum : Checksums \cup {NoSum}]]
  /\ pc \in [Runner -> PC]
  /\ mode \in [Runner -> {"up", "down"}]
  /\ version \in [Runner -> Nat]
  /\ todo \in [Runner -> Seq(Migration)]
  /\ count \in [Runner -> Nat]
  /\ record \in [Runner -> {0, 1}]
  /\ ran \subseteq Migration

(* One runner at a time (comment above class MigrationRunner).             *)
OneRunner == \A r, s \in Runner : pc[r] \in Working /\ pc[s] \in Working => r = s

(* A migration is recorded only once its step has completed.               *)
RecordedRan == \A m \in Migration : Applied(m) => m \in ran

(* The applied migrations are the first ones of the plan, whatever runs    *)
(* failed, crashed or were reverted in between.                            *)
AppliedIsPrefix ==
  \A i, j \in DOMAIN Plan : i < j /\ Applied(Plan[j]) => Applied(Plan[i])

(* Applied checksums are immutable: whatever is applied was declared alike *)
(* by one build, since a runner that declares otherwise fails before it    *)
(* writes (comment above class MigrationRunner).                           *)
OneDeclaration ==
  \E b \in Runner : \A m \in Migration : Applied(m) => history[m] = RecordOf(b)

(* What the next run finds is what the runs before it did.                 *)
HistoriesAreTrue == TypeOK /\ RecordedRan /\ AppliedIsPrefix /\ OneDeclaration

(* down() refuses irreversible migrations (same comment): Umzug, which     *)
(* reads the history again after the check, unlogs none of them.           *)
IrreversibleStays ==
  [][\A m \in Irreversible : Applied(m) => Applied(m)']_history

(* A runner that lost its lease stops without recording anything           *)
(* (docs/migrations.md; comment of Lock.commit).                           *)
RecordsUnderOwnLease ==
  [][\A r \in Runner : pc[r] = "log" /\ history' # history /\ pc'[r] # "log" => lock.owner = r]_vars

(* Release only our own lease; a lost lease is left for its new holder     *)
(* (comment of Lock.release).                                              *)
ReleasesOwnLease ==
  [][\A r \in Runner : pc[r] = "delete" /\ lock.version # 0 /\ lock'.version = 0 /\ pc'[r] # "delete"
       => lock.owner = r]_vars
=============================================================================
