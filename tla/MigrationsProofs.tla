--------------------------- MODULE MigrationsProofs --------------------------
(* When the lease of Migrations does what it is for, for any number of     *)
(* runners.  release() deletes the row of the lock and the next acquire()  *)
(* starts again at version 1, so the versions that the writes compare tell *)
(* holders apart only while nobody remembers one from before a release.    *)
EXTENDS Migrations, FiniteSetTheorems, SequenceTheorems, TLAPS

\* From its acquisition to its release, and whoever still compares a version.
Holding == Working \cup {"release", "delete"}
Remembering == Holding \cup {"acquire"}

\* A release leaves nobody behind who has read the version of a lock.
Forgets ==
  lock.version # 0 /\ lock'.version = 0 =>
    \A s \in Runner : pc[s] \in Remembering /\ pc'[s] \in Remembering => version[s] = 0

NoVersionReturns == [][Forgets]_vars

Shape ==
  /\ lock = [version |-> lock.version, owner |-> lock.owner, live |-> lock.live]
  /\ lock.version \in Nat /\ lock.live \in BOOLEAN
  /\ pc \in [Runner -> PC]
  /\ version \in [Runner -> Nat]

\* Who holds the version of the lock is its owner.
VersionsTell ==
  \A r \in Runner : pc[r] \in Holding =>
    /\ 0 < version[r] /\ version[r] <= lock.version
    /\ version[r] = lock.version => lock.owner = r

\* Who is about to take the lock over has seen it expired.
TakeoversAreDue ==
  \A s \in Runner : pc[s] = "acquire" =>
    version[s] <= lock.version /\ (version[s] = lock.version => version[s] = 0 \/ ~lock.live)

IInv == Shape /\ VersionsTell /\ TakeoversAreDue

\* The lease of a runner that is not late outlives it.
HoldersOwn == \A r \in Runner : pc[r] \in Holding => lock.owner = r /\ lock.live /\ lock.version # 0

-----------------------------------------------------------------------------
LEMMA Initially == Init => IInv /\ HoldersOwn
BY DEF Init, IInv, HoldersOwn, Shape, VersionsTell, TakeoversAreDue, NoLock, PC, Holding, Working

\* The place of one runner changes.
LEMMA Going ==
  ASSUME pc \in [Runner -> PC], NEW r \in Runner, NEW p \in PC, Goto(r, p)
  PROVE  pc' \in [Runner -> PC] /\ pc'[r] = p /\ \A s \in Runner \ {r} : pc'[s] = pc[s]
BY DEF Goto

LEMMA Places == Holding \subseteq PC /\ "acquire" \notin Holding /\ "done" \notin Holding /\ "crashed" \notin Holding
                /\ {"acquire", "done", "crashed"} \subseteq PC
BY DEF Holding, Working, PC

LEMMA Firsts == ASSUME NEW r, NEW list PROVE First(r, list) \in Holding
BY DEF First, Holding, Working

-----------------------------------------------------------------------------
\* A step that moves one runner on, under its lease or away from it, and writes nothing.
LEMMA MovingKeeps ==
  ASSUME IInv, NEW r \in Runner, UNCHANGED <<lock, version>>, NEW p \in PC, Goto(r, p),
         p # "acquire", p \in Holding => pc[r] \in Holding
  PROVE  IInv' /\ (HoldersOwn => HoldersOwn')
<1>1. pc' \in [Runner -> PC] /\ pc'[r] = p /\ \A s \in Runner \ {r} : pc'[s] = pc[s]
  BY Going DEF IInv, Shape
<1> QED BY <1>1 DEF IInv, Shape, VersionsTell, TakeoversAreDue, HoldersOwn

\* A write over the version that a runner has read.
LEMMA WritingKeeps ==
  ASSUME IInv, NEW r \in Runner, pc[r] \in Remembering, Renews(r), NEW p \in Holding \cup {"done"},
         Goto(r, p),
         \/ version' = [version EXCEPT ![r] = @ + 1]
         \/ version' = version /\ p # "done" /\ pc[r] \in Holding
         \/ version' = version /\ p = "done"
  PROVE  IInv' /\ (HoldersOwn => HoldersOwn')
<1>1. pc' \in [Runner -> PC] /\ pc'[r] = p /\ \A s \in Runner \ {r} : pc'[s] = pc[s]
  BY Going, Places DEF IInv, Shape
<1>2. /\ lock.version = version[r] /\ version[r] \in Nat
      /\ lock'.version = lock.version + 1 /\ lock'.owner = r /\ lock'.live = TRUE
  BY DEF IInv, Shape, Renews, LockRow
<1>3. /\ version' \in [Runner -> Nat] /\ \A s \in Runner \ {r} : version'[s] = version[s]
      /\ version'[r] \in {version[r], version[r] + 1}
      /\ pc'[r] \in Holding => version'[r] = version[r] + 1 \/ pc[r] \in Holding
  BY <1>1, Places DEF IInv, Shape
<1>4. Shape'
  BY <1>1, <1>2, <1>3 DEF IInv, Shape, Renews, LockRow
<1>5. VersionsTell'
  BY <1>1, <1>2, <1>3 DEF IInv, Shape, VersionsTell
<1>6. TakeoversAreDue'
  BY <1>1, <1>2, <1>3, Places DEF IInv, Shape, TakeoversAreDue
<1>7. ASSUME HoldersOwn PROVE HoldersOwn'
  <2>1. \A s \in Runner \ {r} : pc[s] \notin Holding
    <3>1. CASE pc[r] \in Holding
      BY <1>7, <3>1 DEF HoldersOwn
    <3>2. CASE pc[r] = "acquire"
      BY <1>2, <1>7, <3>2 DEF HoldersOwn, IInv, TakeoversAreDue
    <3> QED BY <3>1, <3>2 DEF Remembering
  <2> QED BY <1>1, <1>2, <2>1 DEF HoldersOwn, IInv, Shape
<1> QED BY <1>4, <1>5, <1>6, <1>7 DEF IInv

Keeps == IInv' /\ (HoldersOwn => HoldersOwn')

LEMMA ReadLockKeeps == ASSUME IInv, NEW r \in Runner, ReadLock(r) PROVE Keeps
<1>1. CASE lock.version # 0 /\ lock.live /\ Goto(r, "done") /\ UNCHANGED version
  BY <1>1, MovingKeeps, Places DEF ReadLock, Keeps
<1>2. CASE (lock.version = 0 \/ ~lock.live) /\ version' = [version EXCEPT ![r] = lock.version] /\ Goto(r, "acquire")
  <2>1. pc' \in [Runner -> PC] /\ pc'[r] = "acquire" /\ \A s \in Runner \ {r} : pc'[s] = pc[s]
    BY <1>2, Going, Places DEF IInv, Shape
  <2>2. /\ version' \in [Runner -> Nat] /\ version'[r] = lock.version /\ lock' = lock
        /\ \A s \in Runner \ {r} : version'[s] = version[s]
    BY <1>2 DEF IInv, Shape, ReadLock
  <2> QED BY <1>2, <2>1, <2>2, Places DEF Keeps, IInv, Shape, VersionsTell, TakeoversAreDue, HoldersOwn
<1> QED BY <1>1, <1>2 DEF ReadLock

LEMMA AcquireKeeps == ASSUME IInv, NEW r \in Runner, Acquire(r) PROVE Keeps
<1>1. pc[r] \in Remembering /\ pc[r] \notin Holding /\ "verify" \in Holding
  BY Places DEF Acquire, Remembering, Holding, Working
<1>2. CASE Goto(r, "done") /\ UNCHANGED <<lock, version>>
  BY <1>2, MovingKeeps, Places DEF Keeps
<1>3. CASE Renews(r) /\ version' = [version EXCEPT ![r] = @ + 1] /\ Goto(r, "verify")
  BY <1>1, <1>3, WritingKeeps DEF Keeps
<1>4. CASE Renews(r) /\ UNCHANGED version /\ Goto(r, "done")
  BY <1>1, <1>4, WritingKeeps DEF Keeps
<1> QED BY <1>2, <1>3, <1>4 DEF Acquire, Renews

\* The steps between two writes.
LEMMA StepsKeep ==
  ASSUME IInv, NEW r \in Runner,
         Verify(r) \/ PlanDown(r) \/ Select(r) \/ RunStep(r) \/ ReadRecord(r) \/ ReadOwnLock(r)
  PROVE  Keeps
<1>1. UNCHANGED <<lock, version>> /\ pc[r] \in Holding
  BY DEF Verify, PlanDown, Select, RunStep, ReadRecord, ReadOwnLock, Holding, Working
<1>2. PICK p \in Holding \cup {"done"} : Goto(r, p)
  <2>1. {"release", "plan", "select", "log", "read", "delete"} \subseteq Holding
    BY DEF Holding, Working
  <2>2. CASE Verify(r)
    BY <2>1, <2>2 DEF Verify
  <2>3. CASE PlanDown(r)
    BY <2>1, <2>3 DEF PlanDown
  <2>4. CASE Select(r)
    BY <2>4, Firsts DEF Select
  <2>5. CASE RunStep(r)
    BY <2>1, <2>5 DEF RunStep
  <2>6. CASE ReadRecord(r)
    BY <2>1, <2>6 DEF ReadRecord
  <2>7. CASE ReadOwnLock(r)
    BY <2>1, <2>7 DEF ReadOwnLock
  <2> QED BY <2>2, <2>3, <2>4, <2>5, <2>6, <2>7
<1> QED BY <1>1, <1>2, MovingKeeps, Places DEF Keeps

\* The steps that write under the lease, or fail.
LEMMA LeasedWritesKeep == ASSUME IInv, NEW r \in Runner, Renew(r) \/ Log(r) PROVE Keeps
<1>1. pc[r] \in Holding /\ pc[r] \in Remembering /\ {"release", "step"} \subseteq Holding /\ "done" \notin Holding
  BY Places DEF Renew, Log, Holding, Working, Remembering
<1>2. CASE Goto(r, "release") /\ UNCHANGED <<lock, version>>
  BY <1>1, <1>2, MovingKeeps, Places DEF Keeps
<1>3. ASSUME NEW p \in Holding, Renews(r), Heard(r, p) PROVE Keeps
  <2>1. CASE version' = [version EXCEPT ![r] = @ + 1] /\ Goto(r, p)
    BY <1>1, <1>3, <2>1, WritingKeeps DEF Keeps
  <2>2. CASE UNCHANGED version /\ Goto(r, "release")
    BY <1>1, <1>3, <2>2, WritingKeeps DEF Keeps
  <2> QED BY <1>3, <2>1, <2>2 DEF Heard
<1>4. CASE Renew(r)
  BY <1>1, <1>2, <1>3, <1>4 DEF Renew
<1>5. CASE Log(r)
  BY <1>2, <1>3, <1>5, Firsts DEF Log
<1> QED BY <1>4, <1>5

\* The one step that needs versions not to return.
LEMMA ReleaseKeeps == ASSUME IInv, NEW r \in Runner, Release(r), Forgets PROVE Keeps
<1>1. pc[r] \in Holding /\ Goto(r, "done") /\ UNCHANGED version
  BY DEF Release, Holding
<1>2. CASE UNCHANGED lock
  BY <1>1, <1>2, MovingKeeps, Places DEF Keeps
<1>3. CASE lock.version = version[r] /\ lock' = NoLock
  <2>1. pc' \in [Runner -> PC] /\ pc'[r] = "done" /\ \A s \in Runner \ {r} : pc'[s] = pc[s]
    BY <1>1, Going, Places DEF IInv, Shape
  <2>2. lock.version # 0 /\ lock'.version = 0
    BY <1>1, <1>3 DEF IInv, VersionsTell, NoLock, Shape
  <2>3. \A s \in Runner : pc'[s] \in Remembering => pc[s] \in Remembering /\ version[s] = 0
    BY <2>1, <2>2, Places DEF Forgets, Remembering
  <2>4. \A s \in Runner : pc'[s] \notin Holding
    BY <2>1, <2>3, Places DEF IInv, VersionsTell, Remembering
  <2>5. TakeoversAreDue'
    BY <1>1, <2>2, <2>3 DEF TakeoversAreDue, Remembering
  <2>6. Shape'
    BY <1>1, <1>3, <2>1 DEF IInv, Shape, NoLock
  <2> QED BY <2>4, <2>5, <2>6 DEF Keeps, IInv, VersionsTell, HoldersOwn
<1> QED BY <1>2, <1>3 DEF Release

\* A lease runs out: nobody is late, so nobody held it.
LEMMA ExpireKeeps ==
  ASSUME IInv, Expire
  PROVE  IInv' /\ (Overdue = {} /\ HoldersOwn => HoldersOwn')
<1>1. /\ lock'.version = lock.version /\ lock'.owner = lock.owner /\ lock'.live = FALSE
      /\ lock' = [version |-> lock'.version, owner |-> lock'.owner, live |-> lock'.live]
      /\ UNCHANGED <<pc, version>>
  BY DEF Expire, IInv, Shape
<1>2. IInv'
  BY <1>1 DEF IInv, Shape, VersionsTell, TakeoversAreDue
<1>3. ASSUME Overdue = {}, HoldersOwn PROVE \A s \in Runner : pc'[s] \notin Holding
  <2>1. pc[lock.owner] \in Gone
    BY <1>3 DEF Expire
  <2>2. pc[lock.owner] \notin Holding
    BY <2>1, Places DEF Gone
  <2> QED BY <1>1, <1>3, <2>2 DEF HoldersOwn
<1>4. Overdue = {} /\ HoldersOwn => HoldersOwn'
  BY <1>3 DEF HoldersOwn
<1> QED BY <1>2, <1>4

LEMMA CrashKeeps == ASSUME IInv, NEW r \in Runner, Crash(r) PROVE Keeps
BY MovingKeeps, Places DEF Crash, Keeps

LEMMA Preserved ==
  ASSUME IInv, [Next]_vars, [Forgets]_vars
  PROVE  IInv' /\ (Overdue = {} /\ HoldersOwn => HoldersOwn')
<1>1. CASE UNCHANGED vars
  BY <1>1 DEF vars, IInv, Shape, VersionsTell, TakeoversAreDue, HoldersOwn
<1>2. CASE Expire
  BY <1>2, ExpireKeeps
<1>3. ASSUME NEW r \in Runner, Step(r) \/ Crash(r) PROVE Keeps
  <2>1. CASE Release(r) /\ Forgets
    BY <2>1, ReleaseKeeps
  <2>2. CASE Release(r) /\ UNCHANGED vars
    BY <2>2 DEF vars, Keeps, IInv, Shape, VersionsTell, TakeoversAreDue, HoldersOwn
  <2> QED BY <1>3, <2>1, <2>2, ReadLockKeeps, AcquireKeeps, StepsKeep, LeasedWritesKeep, CrashKeeps DEF Step
<1> QED BY <1>1, <1>2, <1>3 DEF Next, Keeps

-----------------------------------------------------------------------------
LEMMA Invariance == Spec /\ NoVersionReturns => []IInv
<1>1. IInv /\ [Next]_vars /\ [Forgets]_vars => IInv'
  BY Preserved
<1> QED BY <1>1, Initially, PTL DEF Spec, NoVersionReturns

\* The place of a runner is changed by its own steps, and by its crash.
LEMMA OwnStep ==
  ASSUME IInv, Next, NEW r \in Runner, pc'[r] # pc[r]
  PROVE  Step(r) \/ Crash(r)
<1>1. ASSUME NEW s \in Runner, Step(s) \/ Crash(s) PROVE \E p : Goto(s, p)
  <2>1. CASE ReadLock(s) \/ Acquire(s) \/ Verify(s)
    BY <2>1 DEF ReadLock, Acquire, Verify
  <2>2. CASE PlanDown(s) \/ Select(s)
    BY <2>2 DEF PlanDown, Select
  <2>3. CASE Renew(s) \/ Log(s)
    BY <2>3 DEF Renew, Log, Heard
  <2>4. CASE RunStep(s) \/ ReadRecord(s)
    BY <2>4 DEF RunStep, ReadRecord
  <2>5. CASE ReadOwnLock(s) \/ Release(s) \/ Crash(s)
    BY <2>5 DEF ReadOwnLock, Release, Crash
  <2> QED BY <1>1, <2>1, <2>2, <2>3, <2>4, <2>5 DEF Step
<1>2. ASSUME NEW s \in Runner, s # r, Step(s) \/ Crash(s) PROVE FALSE
  <2>1. PICK p : Goto(s, p)
    BY <1>1, <1>2
  <2> QED BY <1>2, <2>1 DEF Goto, IInv, Shape
<1>3. ~Expire
  BY DEF Expire
<1> QED BY <1>2, <1>3 DEF Next

\* One runner works at a time (comment above class MigrationRunner), whatever crashes, fails or
\* stays unanswered, while nobody is late and no version returns.
THEOREM RunnersExclude ==
  ASSUME Overdue = {}
  PROVE  Spec /\ NoVersionReturns => []OneRunner
<1>1. Init => HoldersOwn
  BY Initially
<1>2. IInv /\ HoldersOwn /\ [Next]_vars /\ [Forgets]_vars => HoldersOwn'
  BY Preserved
<1>3. HoldersOwn => OneRunner
  BY DEF HoldersOwn, OneRunner, Holding
<1> QED BY <1>1, <1>2, <1>3, Invariance, PTL DEF Spec, NoVersionReturns

\* Late or not, a runner records nothing under the lease of another, and releases only its own
\* (comments of Lock.commit and Lock.release), while no version returns.
THEOREM OwnLeasesOnly == Spec /\ NoVersionReturns => RecordsUnderOwnLease /\ ReleasesOwnLease
<1> DEFINE Records == \A r \in Runner : pc[r] = "log" /\ history' # history /\ pc'[r] # "log" => lock.owner = r
           Releases == \A r \in Runner :
             pc[r] = "delete" /\ lock.version # 0 /\ lock'.version = 0 /\ pc'[r] # "delete" => lock.owner = r
<1>1. IInv /\ [Next]_vars => [Records]_vars
  <2> SUFFICES ASSUME IInv, Next, NEW r \in Runner, pc[r] = "log", history' # history, pc'[r] # "log"
               PROVE  lock.owner = r
    OBVIOUS
  <2>1. Log(r) /\ Renews(r)
    <3>1. Step(r) \/ Crash(r)
      BY OwnStep
    <3> QED BY <3>1 DEF Step, Crash, ReadLock, Acquire, Verify, PlanDown, Select, Renew, RunStep, ReadRecord, Log, ReadOwnLock, Release
  <2> QED BY <2>1 DEF IInv, VersionsTell, Holding, Working, Renews
<1>2. IInv /\ [Next]_vars => [Releases]_vars
  <2> SUFFICES ASSUME IInv, Next, NEW r \in Runner, pc[r] = "delete", lock.version # 0, lock'.version = 0, pc'[r] # "delete"
               PROVE  lock.owner = r
    OBVIOUS
  <2>1. Release(r)
    <3>1. Step(r) \/ Crash(r)
      BY OwnStep
    <3> QED BY <3>1 DEF Step, Crash, ReadLock, Acquire, Verify, PlanDown, Select, Renew, RunStep, ReadRecord, Log, ReadOwnLock, Release
  <2>2. lock.version = version[r]
    BY <2>1 DEF Release
  <2> QED BY <2>2 DEF IInv, VersionsTell, Holding
<1> HIDE DEF Records, Releases
<1>3. Spec /\ NoVersionReturns => [][Records]_vars /\ [][Releases]_vars
  BY <1>1, <1>2, Invariance, PTL DEF Spec, NoVersionReturns
<1> QED BY <1>3 DEF Records, Releases, RecordsUnderOwnLease, ReleasesOwnLease

-----------------------------------------------------------------------------
(* The history.                                                            *)

\* Whose version is that of the lock: the one runner whose writes can succeed.
Current(r) == pc[r] \in Holding /\ version[r] = lock.version

Verified == {"plan", "select", "renew", "step", "read", "log"}
Doing == {"renew", "step", "read", "log"}

AppliedTo(a) == \A i \in DOMAIN Plan : Applied(Plan[i]) <=> i <= a

Agrees(r) == \A m \in Migration : Applied(m) => history[m].checksum = Declares[r]
Spared(r, a) == count[r] <= a /\ \A i \in 1..count[r] : Plan[a - i + 1] \notin Irreversible
Forward(r, a) == Len(todo[r]) <= Len(Plan) - a /\ \A i \in 1..Len(todo[r]) : todo[r][i] = Plan[a + i]
Backward(r, a) ==
  /\ Len(todo[r]) <= a
  /\ \A i \in 1..Len(todo[r]) : todo[r][i] = Plan[a - i + 1] /\ todo[r][i] \notin Irreversible

\* What the runner whose writes can succeed has in hand follows from the history that there is.
Prepared(r, a) ==
  /\ pc[r] \in Verified => Agrees(r)
  /\ pc[r] = "select" /\ mode[r] = "down" => Spared(r, a)
  /\ pc[r] \in Doing /\ mode[r] = "up" => Forward(r, a)
  /\ pc[r] \in Doing /\ mode[r] = "down" => Backward(r, a)
  /\ pc[r] = "log" /\ mode[r] = "up" => Head(todo[r]) \in ran
  /\ pc[r] = "log" /\ mode[r] = "down" => record[r] = 1

Fits(a) == AppliedTo(a) /\ \A r \in Runner : Current(r) => Prepared(r, a)

HasOne(r) == (pc[r] \in Doing => todo[r] # <<>>) /\ (pc[r] = "read" => mode[r] = "down")

HInv ==
  /\ TypeOK /\ RecordedRan /\ OneDeclaration
  /\ \A r \in Runner : HasOne(r)
  /\ \E a \in 0..Len(Plan) : Fits(a)

-----------------------------------------------------------------------------
\* A run of the plan, in its order.
LEMMA InOrderRun ==
  ASSUME NEW lo \in 0..Len(Plan), NEW hi \in lo..Len(Plan)
  PROVE  /\ InOrder(lo + 1..hi) \in Seq(Migration) /\ Len(InOrder(lo + 1..hi)) = hi - lo
         /\ \A k \in 1..hi - lo : InOrder(lo + 1..hi)[k] = Plan[lo + k]
<1> DEFINE S == lo + 1..hi
           Place(k) == CHOOSE i \in S : Cardinality({j \in S : j <= i}) = k
<1>1. Len(Plan) \in Nat /\ DOMAIN Plan = 1..Len(Plan) /\ lo \in Nat /\ hi \in Nat
  BY PlanAssumption, LenProperties
<1>2. Cardinality(S) = hi - lo
  <2>1. Cardinality(lo + 1..hi) = IF lo + 1 > hi THEN 0 ELSE hi - (lo + 1) + 1
    BY <1>1, FS_Interval
  <2> QED BY <1>1, <2>1
<1>3. ASSUME NEW i \in S PROVE Cardinality({j \in S : j <= i}) = i - lo
  <2>1. {j \in S : j <= i} = lo + 1..i
    BY <1>1
  <2>2. Cardinality(lo + 1..i) = i - lo
    BY <1>1, FS_Interval
  <2> QED BY <2>1, <2>2
<1>4. ASSUME NEW k \in 1..hi - lo PROVE Place(k) = lo + k /\ Plan[lo + k] \in Migration
  <2>1. lo + k \in S /\ (lo + k) - lo = k /\ lo + k \in 1..Len(Plan)
    BY <1>1
  <2>2. \A i \in S : Cardinality({j \in S : j <= i}) = k <=> i = lo + k
    BY <1>1, <1>3, <2>1
  <2> HIDE DEF S
  <2>3. Place(k) = lo + k
    BY <2>1, <2>2
  <2> QED BY <1>1, <2>1, <2>3 DEF Migration
<1>5. InOrder(S) = [k \in 1..hi - lo |-> Plan[Place(k)]]
  BY <1>2 DEF InOrder
<1> HIDE DEF S, Place
<1>6. InOrder(S) = [k \in 1..hi - lo |-> Plan[lo + k]]
  BY <1>4, <1>5
<1>7. hi - lo \in Nat
  BY <1>1
<1> QED BY <1>4, <1>6, <1>7 DEF S

\* Of a history that is the beginning of the plan, what is executed and what is pending.
LEMMA Lists ==
  ASSUME NEW a \in 0..Len(Plan), AppliedTo(a)
  PROVE  /\ Executed \in Seq(Migration) /\ Len(Executed) = a /\ \A i \in 1..a : Executed[i] = Plan[i]
         /\ Pending \in Seq(Migration) /\ Len(Pending) = Len(Plan) - a
         /\ \A i \in 1..Len(Plan) - a : Pending[i] = Plan[a + i]
<1>1. Len(Plan) \in Nat /\ DOMAIN Plan = 1..Len(Plan) /\ a \in Nat
  BY PlanAssumption, LenProperties
<1>2. {i \in DOMAIN Plan : Applied(Plan[i])} = 0 + 1..a
  BY <1>1 DEF AppliedTo
<1>3. {i \in DOMAIN Plan : ~Applied(Plan[i])} = a + 1..Len(Plan)
  BY <1>1 DEF AppliedTo
<1>4. /\ InOrder(0 + 1..a) \in Seq(Migration) /\ Len(InOrder(0 + 1..a)) = a - 0
      /\ \A k \in 1..a - 0 : InOrder(0 + 1..a)[k] = Plan[0 + k]
  <2>1. 0 \in 0..Len(Plan) /\ a \in 0..Len(Plan)
    BY <1>1
  <2> QED BY <2>1, InOrderRun
<1>5. /\ InOrder(a + 1..Len(Plan)) \in Seq(Migration) /\ Len(InOrder(a + 1..Len(Plan))) = Len(Plan) - a
      /\ \A k \in 1..Len(Plan) - a : InOrder(a + 1..Len(Plan))[k] = Plan[a + k]
  <2>1. a \in 0..Len(Plan) /\ Len(Plan) \in a..Len(Plan)
    BY <1>1
  <2> QED BY <2>1, InOrderRun
<1>6. Executed = InOrder(0 + 1..a) /\ Pending = InOrder(a + 1..Len(Plan))
  BY <1>2, <1>3 DEF Executed, Pending
<1>7. /\ Executed \in Seq(Migration) /\ Len(Executed) = a - 0 /\ a - 0 = a
      /\ \A k \in 1..a - 0 : Executed[k] = Plan[0 + k]
  BY <1>1, <1>4, <1>6
<1>8. \A i \in 1..a : Executed[i] = Plan[i]
  BY <1>1, <1>7
<1> QED BY <1>5, <1>6, <1>7, <1>8

\* The last of a list, from its end.
LEMMA Lasts ==
  ASSUME NEW s \in Seq(Migration), NEW n \in 0..Len(s)
  PROVE  /\ Last(s, n) \in Seq(Migration) /\ Len(Last(s, n)) = n /\ \A i \in 1..n : Last(s, n)[i] = s[Len(s) - n + i]
         /\ Reversed(Last(s, n)) \in Seq(Migration) /\ Len(Reversed(Last(s, n))) = n
         /\ \A i \in 1..n : Reversed(Last(s, n))[i] = s[Len(s) - i + 1]
<1> DEFINE t == Last(s, n)
           l == Len(s)
<1>1. l \in Nat /\ n \in Nat /\ \A i \in 1..l : s[i] \in Migration
  BY LenProperties, ElementOfSeq
<1>2. t \in Seq(Migration) /\ Len(t) = n /\ \A i \in 1..n : t[i] = s[l - n + i]
  <2>1. \A i \in l - n + 1..l : s[i] \in Migration
    BY <1>1
  <2>2. t = SubSeq(s, l - n + 1, l)
    BY DEF Last
  <2>3. l - n + 1 \in Int /\ l \in Int
    BY <1>1
  <2> HIDE DEF t, l
  <2>4. /\ t \in Seq(Migration) /\ Len(t) = (IF l - n + 1 <= l THEN l - (l - n + 1) + 1 ELSE 0)
        /\ \A i \in 1..l - (l - n + 1) + 1 : t[i] = s[l - n + 1 + i - 1]
    BY <2>1, <2>2, <2>3, SubSeqProperties
  <2>5. l - (l - n + 1) + 1 = n /\ Len(t) = n
    BY <1>1, <2>4
  <2>6. \A i \in 1..n : l - n + 1 + i - 1 = l - n + i
    BY <1>1
  <2> QED BY <2>4, <2>5, <2>6
<1> HIDE DEF t
<1>3. Reversed(t) = [i \in 1..n |-> t[n - i + 1]]
  BY <1>2 DEF Reversed
<1>4. \A i \in 1..n : n - i + 1 \in 1..n /\ l - n + (n - i + 1) = l - i + 1
  BY <1>1
<1>5. \A i \in 1..n : t[n - i + 1] = s[l - i + 1] /\ t[n - i + 1] \in Migration
  BY <1>1, <1>2, <1>4
<1>6. Reversed(t) \in Seq(Migration) /\ Len(Reversed(t)) = n
  BY <1>1, <1>3, <1>5
<1> QED BY <1>2, <1>3, <1>5, <1>6 DEF t

-----------------------------------------------------------------------------
\* Whoever else has read the version of the lock loses it to a write, or a release.
LEMMA OthersLose ==
  ASSUME IInv, IInv', NEW s \in Runner, pc'[s] = pc[s], version'[s] = version[s],
         lock'.version \in {0, lock.version + 1}
  PROVE  ~Current(s)'
<1> SUFFICES ASSUME Current(s)' PROVE FALSE
  OBVIOUS
<1>1. pc[s] \in Holding /\ version[s] = lock'.version
  BY DEF Current
<1>2. 0 < version[s] /\ version[s] <= lock.version /\ version[s] \in Nat /\ lock.version \in Nat
  BY <1>1 DEF IInv, Shape, VersionsTell
<1> QED BY <1>1, <1>2

\* The others keep what they have in hand, or have lost the lock.
LEMMA OthersPrepared ==
  ASSUME IInv, IInv', NEW a \in 0..Len(Plan), Fits(a), NEW r \in Runner, NEW s \in Runner, s # r,
         pc'[s] = pc[s], version'[s] = version[s], todo'[s] = todo[s], count'[s] = count[s],
         record'[s] = record[s], mode' = mode, ran \subseteq ran',
         \/ lock'.version = lock.version /\ history' = history
         \/ lock'.version \in {0, lock.version + 1},
         Current(s)'
  PROVE  history' = history /\ Prepared(s, a)'
<1>1. lock'.version = lock.version /\ history' = history
  BY OthersLose
<1>2. Prepared(s, a)
  BY <1>1 DEF Fits, Current
<1> QED BY <1>1, <1>2 DEF Prepared, Agrees, Spared, Forward, Backward, Applied

\* A runner that is done with the plan, or has not begun with it, and leaves the history alone.
LEMMA AwayKeeps ==
  ASSUME HInv, IInv, IInv', NEW r \in Runner, NEW p \in PC \ Verified, Goto(r, p),
         UNCHANGED <<history, ran, mode, todo, count, record>>,
         version' \in [Runner -> Nat], \A s \in Runner \ {r} : version'[s] = version[s],
         lock' \in [version : Nat, owner : Runner \cup {NoRunner}, live : BOOLEAN],
         lock'.version \in {0, lock.version, lock.version + 1}
  PROVE  HInv'
<1>1. pc' \in [Runner -> PC] /\ pc'[r] = p /\ \A s \in Runner \ {r} : pc'[s] = pc[s]
  BY Going DEF IInv, Shape
<1>2. TypeOK' /\ RecordedRan' /\ OneDeclaration'
  BY <1>1 DEF HInv, TypeOK, RecordedRan, OneDeclaration, Applied
<1>3. Doing \subseteq Verified /\ "select" \in Verified /\ "log" \in Verified
  BY DEF Doing, Verified
<1>4. \A s \in Runner : HasOne(s)'
  BY <1>1, <1>3 DEF HInv, HasOne, Doing
<1>5. PICK a \in 0..Len(Plan) : Fits(a)
  BY DEF HInv
<1>6. \A s \in Runner \ {r} : Current(s)' => Prepared(s, a)'
  BY <1>1, <1>5, OthersPrepared
<1>7. Prepared(r, a)'
  BY <1>1, <1>3 DEF Prepared
<1>8. Fits(a)'
  BY <1>5, <1>6, <1>7 DEF Fits, AppliedTo, Applied
<1> QED BY <1>2, <1>4, <1>8 DEF HInv

\* A runner that goes on with its list, or makes one, and leaves the lock and the history alone.
LEMMA OwnKeeps ==
  ASSUME HInv, IInv, IInv', NEW r \in Runner, pc[r] \in Holding, NEW p \in PC, Goto(r, p),
         UNCHANGED <<lock, version, history, mode>>, ran \subseteq ran', ran' \subseteq Migration,
         todo' \in [Runner -> Seq(Migration)], count' \in [Runner -> Nat], record' \in [Runner -> {0, 1}],
         \A s \in Runner \ {r} : todo'[s] = todo[s] /\ count'[s] = count[s] /\ record'[s] = record[s],
         p \in Doing => todo'[r] # <<>>, p = "read" => mode[r] = "down",
         \A a \in 0..Len(Plan) : AppliedTo(a) /\ Current(r) /\ Prepared(r, a) => Prepared(r, a)'
  PROVE  HInv'
<1>1. pc' \in [Runner -> PC] /\ pc'[r] = p /\ \A s \in Runner \ {r} : pc'[s] = pc[s]
  BY Going DEF IInv, Shape
<1>2. TypeOK' /\ RecordedRan' /\ OneDeclaration'
  BY <1>1 DEF HInv, TypeOK, RecordedRan, OneDeclaration, Applied
<1>3. \A s \in Runner : HasOne(s)'
  BY <1>1 DEF HInv, HasOne
<1>4. PICK a \in 0..Len(Plan) : Fits(a)
  BY DEF HInv
<1>5. \A s \in Runner \ {r} : Current(s)' => Prepared(s, a)'
  BY <1>1, <1>4, OthersPrepared
<1>6. Current(r)' => Prepared(r, a)'
  BY <1>4 DEF Fits, Current
<1>7. Fits(a)'
  BY <1>4, <1>5, <1>6 DEF Fits, AppliedTo, Applied
<1> QED BY <1>2, <1>3, <1>7 DEF HInv

LEMMA Doings == Doing \subseteq Holding /\ Doing \subseteq Verified /\ Verified \subseteq Holding /\ Holding \subseteq PC
BY DEF Doing, Verified, Holding, Working, PC

LEMMA ReadLockHistory == ASSUME HInv, IInv, IInv', NEW r \in Runner, ReadLock(r) PROVE HInv'
<1>1. {"acquire", "done"} \subseteq PC \ Verified
  BY DEF PC, Verified
<1>2. version' \in [Runner -> Nat] /\ \A s \in Runner \ {r} : version'[s] = version[s]
  BY DEF ReadLock, IInv, Shape
<1>3. lock' = lock /\ lock \in [version : Nat, owner : Runner \cup {NoRunner}, live : BOOLEAN]
  BY DEF ReadLock, HInv, TypeOK
<1> QED BY <1>1, <1>2, <1>3, AwayKeeps DEF ReadLock, own

LEMMA AcquireHistory == ASSUME HInv, IInv, IInv', NEW r \in Runner, Acquire(r) PROVE HInv'
<1>1. {"verify", "done"} \subseteq PC \ Verified
  BY DEF PC, Verified
<1>2. version' \in [Runner -> Nat] /\ \A s \in Runner \ {r} : version'[s] = version[s]
  BY DEF Acquire, IInv, Shape
<1>3. /\ lock' \in [version : Nat, owner : Runner \cup {NoRunner}, live : BOOLEAN]
      /\ lock'.version \in {lock.version, lock.version + 1}
  <2>1. CASE lock' = lock
    BY <2>1 DEF HInv, TypeOK
  <2>2. CASE lock.version = version[r] /\ lock' = LockRow(r, version[r] + 1)
    BY <2>2 DEF LockRow, HInv, TypeOK
  <2> QED BY <2>1, <2>2 DEF Acquire
<1> QED BY <1>1, <1>2, <1>3, AwayKeeps DEF Acquire, own

LEMMA ReleaseHistory ==
  ASSUME HInv, IInv, IInv', NEW r \in Runner, ReadOwnLock(r) \/ Release(r) \/ Crash(r)
  PROVE  HInv'
<1>1. {"delete", "done", "crashed"} \subseteq PC \ Verified
  BY DEF PC, Verified
<1>2. version' = version /\ version \in [Runner -> Nat]
  BY DEF ReadOwnLock, Release, Crash, IInv, Shape
<1>3. lock' \in [version : Nat, owner : Runner \cup {NoRunner}, live : BOOLEAN] /\ lock'.version \in {0, lock.version}
  <2>1. CASE lock' = lock
    BY <2>1 DEF HInv, TypeOK
  <2>2. CASE lock' = NoLock
    BY <2>2 DEF NoLock
  <2> QED BY <2>1, <2>2 DEF ReadOwnLock, Release, Crash
<1> QED BY <1>1, <1>2, <1>3, AwayKeeps DEF ReadOwnLock, Release, Crash, own

LEMMA VerifyHistory == ASSUME HInv, IInv, IInv', NEW r \in Runner, Verify(r) PROVE HInv'
<1>1. pc[r] \in Holding /\ {"release", "plan", "select"} \subseteq PC /\ "release" \notin Verified
  BY DEF Verify, Holding, Working, PC, Verified
<1>2. CASE Goto(r, "release")
  BY <1>1, <1>2, AwayKeeps DEF Verify, own, HInv, TypeOK
<1>3. ASSUME NEW p \in {"plan", "select"}, Goto(r, p), Agrees(r), p = "select" => mode[r] # "down" PROVE HInv'
  <2>1. pc'[r] = p /\ p \notin Doing /\ p # "log"
    BY <1>1, <1>3, Going DEF IInv, Shape, Doing
  <2>2. Agrees(r)' /\ mode' = mode
    BY <1>3 DEF Verify, Agrees, Applied, own
  <2>3. \A a \in 0..Len(Plan) : Prepared(r, a)'
    BY <1>3, <2>1, <2>2 DEF Prepared
  <2> QED BY <1>1, <1>3, <2>1, <2>3, OwnKeeps DEF Verify, own, HInv, TypeOK
<1> QED BY <1>2, <1>3 DEF Verify, Agrees

LEMMA RenewHistory == ASSUME HInv, IInv, IInv', NEW r \in Runner, Renew(r) PROVE HInv'
<1>1. pc[r] = "renew" /\ pc[r] \in Holding /\ {"release", "step"} \subseteq PC /\ "release" \notin Verified
  BY DEF Renew, Holding, Working, PC, Verified
<1>2. UNCHANGED <<history, ran, mode, todo, count, record>>
  BY DEF Renew, own
<1>3. CASE Goto(r, "release") /\ UNCHANGED <<lock, version>>
  BY <1>1, <1>2, <1>3, AwayKeeps DEF HInv, TypeOK
<1>4. CASE Renews(r) /\ Heard(r, "step")
  <2>1. /\ lock' \in [version : Nat, owner : Runner \cup {NoRunner}, live : BOOLEAN]
        /\ lock'.version = lock.version + 1 /\ lock.version = version[r]
    BY <1>4 DEF Renews, LockRow, HInv, TypeOK
  <2>2. version' \in [Runner -> Nat] /\ \A s \in Runner \ {r} : version'[s] = version[s]
    BY <1>4 DEF Heard, IInv, Shape
  <2>3. CASE Goto(r, "release")
    BY <1>1, <1>2, <2>1, <2>2, <2>3, AwayKeeps
  <2>4. CASE Goto(r, "step")
    <3>1. pc' \in [Runner -> PC] /\ pc'[r] = "step" /\ \A s \in Runner \ {r} : pc'[s] = pc[s]
      BY <1>1, <2>4, Going DEF IInv, Shape
    <3>2. TypeOK' /\ RecordedRan' /\ OneDeclaration'
      BY <1>2, <2>1, <2>2, <3>1 DEF HInv, TypeOK, RecordedRan, OneDeclaration, Applied
    <3>3. \A s \in Runner : HasOne(s)'
      BY <1>1, <1>2, <3>1 DEF HInv, HasOne, Doing
    <3>4. PICK a \in 0..Len(Plan) : Fits(a)
      BY DEF HInv
    <3>5. \A s \in Runner \ {r} : Current(s)' => Prepared(s, a)'
      BY <1>2, <2>1, <2>2, <3>1, <3>4, OthersPrepared
    <3>6. Prepared(r, a)
      BY <1>1, <2>1, <3>4 DEF Fits, Current
    <3>7. Prepared(r, a)'
      BY <1>1, <1>2, <3>1, <3>6 DEF Prepared, Agrees, Forward, Backward, Applied, Verified, Doing
    <3>8. Fits(a)'
      BY <1>2, <3>4, <3>5, <3>7 DEF Fits, AppliedTo, Applied
    <3> QED BY <3>2, <3>3, <3>8 DEF HInv
  <2> QED BY <1>4, <2>3, <2>4 DEF Heard
<1> QED BY <1>3, <1>4 DEF Renew

LEMMA RunStepHistory == ASSUME HInv, IInv, IInv', NEW r \in Runner, RunStep(r) PROVE HInv'
<1>1. /\ pc[r] = "step" /\ pc[r] \in Holding /\ {"release", "log", "read"} \subseteq PC /\ "release" \notin Verified
      /\ {"step", "log", "read"} \subseteq Doing /\ pc[r] \in Verified
  BY DEF RunStep, Holding, Working, PC, Verified, Doing
<1>2. UNCHANGED <<lock, version, history, mode, todo, count, record>>
  BY DEF RunStep, own
<1>3. CASE Goto(r, "release") /\ UNCHANGED ran
  BY <1>1, <1>2, <1>3, AwayKeeps DEF HInv, TypeOK
<1>4. ASSUME NEW p \in {"log", "read"}, Goto(r, p), p = (IF mode[r] = "up" THEN "log" ELSE "read"),
             ran' = IF mode[r] = "up" THEN ran \cup {Head(todo[r])} ELSE ran
      PROVE HInv'
  <2>1. pc'[r] = p
    BY <1>1, <1>4, Going DEF IInv, Shape
  <2>2. todo[r] \in Seq(Migration) /\ todo[r] # <<>>
    BY <1>1 DEF HInv, HasOne, TypeOK
  <2>3. Head(todo[r]) \in Migration
    BY <2>2
  <2>4. ran \subseteq ran' /\ ran' \subseteq Migration
    BY <1>4, <2>3 DEF HInv, TypeOK
  <2>5. ASSUME NEW a \in 0..Len(Plan), Prepared(r, a) PROVE Prepared(r, a)'
    BY <1>1, <1>2, <1>4, <2>1, <2>5 DEF Prepared, Agrees, Forward, Backward, Applied
  <2> QED BY <1>1, <1>2, <1>4, <2>2, <2>4, <2>5, OwnKeeps DEF HInv, TypeOK
<1> QED BY <1>3, <1>4 DEF RunStep

LEMMA ReadRecordHistory == ASSUME HInv, IInv, IInv', NEW r \in Runner, ReadRecord(r) PROVE HInv'
<1>1. /\ pc[r] = "read" /\ pc[r] \in Holding /\ "log" \in PC /\ {"read", "log"} \subseteq Doing /\ pc[r] \in Verified
  BY DEF ReadRecord, Holding, Working, PC, Verified, Doing
<1>2. /\ UNCHANGED <<lock, version, history, mode, todo, count, ran>> /\ Goto(r, "log")
      /\ record' = [record EXCEPT ![r] = history[Head(todo[r])].version]
  BY DEF ReadRecord
<1>3. pc'[r] = "log"
  BY <1>1, <1>2, Going DEF IInv, Shape
<1>4. todo[r] \in Seq(Migration) /\ todo[r] # <<>> /\ Head(todo[r]) \in Migration
  BY <1>1 DEF HInv, HasOne, TypeOK
<1>5. history[Head(todo[r])].version \in {0, 1}
  BY <1>4 DEF HInv, TypeOK
<1>6. /\ record' \in [Runner -> {0, 1}] /\ record'[r] = history[Head(todo[r])].version
      /\ \A s \in Runner \ {r} : record'[s] = record[s]
  BY <1>2, <1>5 DEF HInv, TypeOK
<1>7. ASSUME NEW a \in 0..Len(Plan), AppliedTo(a), Prepared(r, a) PROVE Prepared(r, a)'
  <2>1. mode[r] = "down"
    BY <1>1 DEF HInv, HasOne
  <2>2. Backward(r, a) /\ Agrees(r)
    BY <1>1, <1>7, <2>1 DEF Prepared
  <2>3. Len(todo[r]) \in Nat \ {0} /\ Head(todo[r]) = todo[r][1] /\ Len(Plan) \in Nat /\ DOMAIN Plan = 1..Len(Plan)
    BY <1>4, PlanAssumption, LenProperties, EmptySeq
  <2>4. Head(todo[r]) = Plan[a - 1 + 1] /\ a - 1 + 1 = a /\ a \in DOMAIN Plan
    BY <2>2, <2>3 DEF Backward
  <2>5. record'[r] = 1
    BY <1>5, <1>6, <1>7, <2>4 DEF AppliedTo, Applied
  <2> QED BY <1>2, <1>3, <2>1, <2>2, <2>5 DEF Prepared, Agrees, Backward, Applied
<1> QED BY <1>1, <1>2, <1>4, <1>6, <1>7, OwnKeeps DEF HInv, TypeOK

LEMMA PlanDownHistory == ASSUME HInv, IInv, IInv', NEW r \in Runner, PlanDown(r) PROVE HInv'
<1>1. /\ pc[r] = "plan" /\ pc[r] \in Holding /\ {"release", "select"} \subseteq PC /\ pc[r] \in Verified
      /\ {"release", "select"} \cap Doing = {} /\ "release" \notin Verified
  BY DEF PlanDown, Holding, Working, PC, Verified, Doing
<1>2. UNCHANGED <<lock, version, history, mode, todo, record, ran>>
  BY DEF PlanDown
<1>3. PICK n \in 0..Len(Executed) :
        /\ count' = [count EXCEPT ![r] = n]
        /\ Goto(r, IF n = 0 \/ \E i \in 1..n : Last(Executed, n)[i] \in Irreversible THEN "release" ELSE "select")
  BY DEF PlanDown
<1>4. PICK p \in {"release", "select"} :
        Goto(r, p) /\ (p = "select" => ~\E i \in 1..n : Last(Executed, n)[i] \in Irreversible)
  BY <1>3
<1>5. pc'[r] = p
  BY <1>1, <1>4, Going DEF IInv, Shape
<1>6. PICK b \in 0..Len(Plan) : Fits(b)
  BY DEF HInv
<1>7. Len(Executed) \in Nat /\ n \in Nat
  <2>1. Executed \in Seq(Migration)
    BY <1>6, Lists DEF Fits
  <2> QED BY <1>3, <2>1, LenProperties
<1>8. count' \in [Runner -> Nat] /\ count'[r] = n /\ \A s \in Runner \ {r} : count'[s] = count[s]
  BY <1>3, <1>7 DEF HInv, TypeOK
<1>9. ASSUME NEW a \in 0..Len(Plan), AppliedTo(a), Prepared(r, a) PROVE Prepared(r, a)'
  <2>1. Agrees(r)'
    BY <1>1, <1>2, <1>9 DEF Prepared, Agrees, Applied
  <2>2. Executed \in Seq(Migration) /\ Len(Executed) = a /\ \A i \in 1..a : Executed[i] = Plan[i]
    BY <1>9, Lists
  <2>3. \A i \in 1..n : Last(Executed, n)[i] = Executed[Len(Executed) - n + i]
    BY <1>3, <2>2, Lasts
  <2>4. ASSUME p = "select", NEW i \in 1..n PROVE Plan[a - i + 1] \notin Irreversible
    <3>1. n - i + 1 \in 1..n /\ a - n + (n - i + 1) = a - i + 1 /\ a - i + 1 \in 1..a
      BY <1>3, <1>7, <2>2
    <3>2. Last(Executed, n)[n - i + 1] = Plan[a - i + 1]
      BY <2>2, <2>3, <3>1
    <3> QED BY <1>4, <2>4, <3>1, <3>2
  <2>5. p = "select" => Spared(r, a)'
    BY <1>3, <1>8, <2>2, <2>4 DEF Spared
  <2> QED BY <1>1, <1>5, <2>1, <2>5 DEF Prepared, Doing
<1> QED BY <1>1, <1>2, <1>4, <1>8, <1>9, OwnKeeps DEF HInv, TypeOK

LEMMA SelectHistory == ASSUME HInv, IInv, IInv', NEW r \in Runner, Select(r) PROVE HInv'
<1>1. pc[r] = "select" /\ pc[r] \in Holding /\ pc[r] \in Verified
  BY DEF Select, Holding, Working, Verified
<1>2. /\ UNCHANGED <<lock, version, history, mode, record, ran>> /\ count' = [count EXCEPT ![r] = 0]
      /\ Goto(r, First(r, todo'[r]))
  BY DEF Select
<1> DEFINE p == First(r, todo'[r])
           e == Executed
           q == Pending
<1>3. PICK b \in 0..Len(Plan) : Fits(b)
  BY DEF HInv
<1>4. /\ e \in Seq(Migration) /\ Len(e) = b /\ q \in Seq(Migration) /\ Len(q) = Len(Plan) - b
  BY <1>3, Lists DEF Fits
<1>5. \/ mode[r] = "up" /\ \E n \in 0..Len(q) : todo' = [todo EXCEPT ![r] = SubSeq(q, 1, n)]
      \/ mode[r] = "down" /\ \E n \in {IF count[r] < Len(e) THEN count[r] ELSE Len(e)} :
           todo' = [todo EXCEPT ![r] = Reversed(Last(e, n))]
  BY DEF Select
<1>6. todo \in [Runner -> Seq(Migration)] /\ count[r] \in Nat /\ Len(Plan) \in Nat
  BY PlanAssumption, LenProperties DEF HInv, TypeOK
\* What it has in hand then, if the first a are applied.
<1> DEFINE Listed(a) ==
      /\ mode[r] = "up" => Len(todo'[r]) <= Len(Plan) - a /\ \A i \in 1..Len(todo'[r]) : todo'[r][i] = Plan[a + i]
      /\ mode[r] = "down" /\ Spared(r, a) =>
           /\ Len(todo'[r]) <= a
           /\ \A i \in 1..Len(todo'[r]) : todo'[r][i] = Plan[a - i + 1] /\ todo'[r][i] \notin Irreversible
<1>7. /\ todo'[r] \in Seq(Migration) /\ todo' \in [Runner -> Seq(Migration)]
      /\ \A s \in Runner \ {r} : todo'[s] = todo[s]
      /\ \A a \in 0..Len(Plan) : AppliedTo(a) => Listed(a)
  <2>1. CASE mode[r] = "up" /\ \E n \in 0..Len(q) : todo' = [todo EXCEPT ![r] = SubSeq(q, 1, n)]
    <3>1. PICK n \in 0..Len(q) : todo' = [todo EXCEPT ![r] = SubSeq(q, 1, n)]
      BY <2>1
    <3>2. /\ SubSeq(q, 1, n) \in Seq(Migration) /\ Len(SubSeq(q, 1, n)) = n
          /\ \A i \in 1..n : SubSeq(q, 1, n)[i] = q[i]
      <4>1. \A i \in 1..n : q[i] \in Migration
        BY <1>4, ElementOfSeq, LenProperties
      <4>2. n \in Nat
        BY <1>4, LenProperties
      <4> HIDE DEF q
      <4>3. /\ SubSeq(q, 1, n) \in Seq(Migration) /\ Len(SubSeq(q, 1, n)) = (IF 1 <= n THEN n - 1 + 1 ELSE 0)
            /\ \A i \in 1..n - 1 + 1 : SubSeq(q, 1, n)[i] = q[1 + i - 1]
        BY <4>1, <4>2, SubSeqProperties
      <4>4. n - 1 + 1 = n /\ \A i \in 1..n : 1 + i - 1 = i
        BY <4>2
      <4> QED BY <4>2, <4>3, <4>4
    <3>3. todo'[r] = SubSeq(q, 1, n) /\ todo' \in [Runner -> Seq(Migration)] /\ \A s \in Runner \ {r} : todo'[s] = todo[s]
      BY <1>6, <3>1, <3>2
    <3>4. ASSUME NEW a \in 0..Len(Plan), AppliedTo(a) PROVE Listed(a)
      <4>1. Len(q) = Len(Plan) - a /\ \A i \in 1..Len(Plan) - a : q[i] = Plan[a + i]
        BY <3>4, Lists
      <4> QED BY <1>6, <2>1, <3>2, <3>3, <4>1
    <3> QED BY <3>2, <3>3, <3>4
  <2>2. CASE mode[r] = "down" /\ todo' = [todo EXCEPT ![r] = Reversed(Last(e, IF count[r] < Len(e) THEN count[r] ELSE Len(e)))]
    <3> DEFINE n == IF count[r] < Len(e) THEN count[r] ELSE Len(e)
    <3>1. n \in 0..Len(e) /\ n <= count[r]
      BY <1>4, <1>6
    <3>2. todo' = [todo EXCEPT ![r] = Reversed(Last(e, n))]
      BY <2>2
    <3> HIDE DEF n
    <3>3. /\ Reversed(Last(e, n)) \in Seq(Migration) /\ Len(Reversed(Last(e, n))) = n
          /\ \A i \in 1..n : Reversed(Last(e, n))[i] = e[Len(e) - i + 1]
      BY <1>4, <3>1, Lasts
    <3>4. todo'[r] = Reversed(Last(e, n)) /\ todo' \in [Runner -> Seq(Migration)] /\ \A s \in Runner \ {r} : todo'[s] = todo[s]
      BY <1>6, <3>2, <3>3
    <3>5. ASSUME NEW a \in 0..Len(Plan), AppliedTo(a), Spared(r, a)
          PROVE  /\ Len(todo'[r]) <= a
                 /\ \A i \in 1..Len(todo'[r]) : todo'[r][i] = Plan[a - i + 1] /\ todo'[r][i] \notin Irreversible
      <4>1. Len(e) = a /\ \A i \in 1..a : e[i] = Plan[i]
        BY <3>5, Lists
      <4>2. \A i \in 1..n : i \in 1..count[r] /\ a - i + 1 \in 1..a
        BY <1>6, <3>1, <4>1
      <4> HIDE DEF e
      <4> QED BY <3>1, <3>3, <3>4, <3>5, <4>1, <4>2 DEF Spared
    <3> QED BY <2>2, <3>3, <3>4, <3>5
  <2> QED BY <1>5, <2>1, <2>2
<1> HIDE DEF e, q
<1>8. p \in {"release", "read", "renew"} /\ (p \in Doing => todo'[r] # <<>>) /\ (p = "read" => mode[r] = "down")
  BY DEF First, Doing
<1>9. p \in PC /\ p # "log" /\ p # "select"
  BY <1>8 DEF PC
<1>10. pc'[r] = p
  BY <1>2, <1>9, Going DEF IInv, Shape
<1>11. count' \in [Runner -> Nat] /\ \A s \in Runner \ {r} : count'[s] = count[s]
  BY <1>2 DEF HInv, TypeOK
<1> HIDE DEF p
<1>12. ASSUME NEW a \in 0..Len(Plan), AppliedTo(a), Prepared(r, a) PROVE Prepared(r, a)'
  <2>1. Agrees(r)' /\ (mode[r] = "down" => Spared(r, a))
    BY <1>1, <1>2, <1>12 DEF Prepared, Agrees, Applied
  <2>2. Listed(a)
    BY <1>7, <1>12
  <2> QED BY <1>2, <1>9, <1>10, <2>1, <2>2 DEF Prepared, Forward, Backward
<1> HIDE DEF Listed
<1>13. Goto(r, p)
  BY <1>2 DEF p
<1> QED BY <1>1, <1>2, <1>7, <1>8, <1>9, <1>11, <1>12, <1>13, OwnKeeps DEF HInv, TypeOK

LEMMA Tails ==
  ASSUME NEW s \in Seq(Migration), s # <<>>
  PROVE  /\ Tail(s) \in Seq(Migration) /\ Len(Tail(s)) = Len(s) - 1 /\ Len(s) \in Nat \ {0}
         /\ Head(s) = s[1] /\ \A i \in 1..Len(s) - 1 : Tail(s)[i] = s[i + 1]
BY HeadTailProperties, EmptySeq, LenProperties

\* What a migration is logged or unlogged after leaves the history as it should be, and the rest in hand.
LEMMA LoggedKeeps ==
  ASSUME HInv, IInv, IInv', NEW r \in Runner, pc[r] = "log", Renews(r), Logs(r, Head(todo[r])),
         NEW p \in {"release", First(r, Tail(todo[r]))}, Goto(r, p),
         version' \in [Runner -> Nat], \A s \in Runner \ {r} : version'[s] = version[s],
         todo' = [todo EXCEPT ![r] = Tail(@)], record' = [record EXCEPT ![r] = 0], UNCHANGED <<mode, count>>
  PROVE  HInv' /\ \A m \in Irreversible : Applied(m) => Applied(m)'
<1> DEFINE rest == Tail(todo[r])
<1>0. PICK m : m = Head(todo[r])
  OBVIOUS
<1>1. {"log"} \subseteq Holding \cap Doing \cap Verified /\ "release" \in PC /\ "release" \notin Verified
      /\ "log" \notin {"release", "read", "renew"} /\ "select" \notin {"release", "read", "renew"}
      /\ {"release", "read", "renew"} \subseteq PC
  BY DEF Holding, Working, PC, Verified, Doing
<1>2. p \in {"release", "read", "renew"} /\ (p \in Doing => rest # <<>>) /\ (p = "read" => mode[r] = "down")
  BY DEF First, Doing
<1>3. pc' \in [Runner -> PC] /\ pc'[r] = p /\ \A s \in Runner \ {r} : pc'[s] = pc[s]
  BY <1>1, <1>2, Going DEF IInv, Shape
<1>4. PICK a \in 0..Len(Plan) : Fits(a)
  BY DEF HInv
<1>5. Current(r) /\ Prepared(r, a) /\ AppliedTo(a)
  BY <1>1, <1>4 DEF Fits, Current, Renews
<1>6. /\ rest \in Seq(Migration) /\ Len(rest) = Len(todo[r]) - 1 /\ Len(todo[r]) \in Nat \ {0}
      /\ m = todo[r][1] /\ \A i \in 1..Len(todo[r]) - 1 : rest[i] = todo[r][i + 1]
  BY <1>0, <1>1, Tails DEF HInv, HasOne, TypeOK
<1>7. todo' \in [Runner -> Seq(Migration)] /\ todo'[r] = rest /\ \A s \in Runner \ {r} : todo'[s] = todo[s]
  BY <1>6 DEF HInv, TypeOK
<1>8. record' \in [Runner -> {0, 1}]
  BY DEF HInv, TypeOK
<1>9. /\ lock' \in [version : Nat, owner : Runner \cup {NoRunner}, live : BOOLEAN]
      /\ lock'.version = lock.version + 1
  BY DEF Renews, LockRow, HInv, TypeOK
<1>10. \A s \in Runner \ {r} : ~Current(s)'
  BY <1>3, <1>9, OthersLose
<1>11. \A s \in Runner : HasOne(s)'
  BY <1>2, <1>3, <1>7 DEF HInv, HasOne
<1>12. Len(Plan) \in Nat /\ DOMAIN Plan = 1..Len(Plan)
  BY PlanAssumption, LenProperties
<1>13. \A i \in DOMAIN Plan : Plan[i] \in Migration
  BY DEF Migration
<1>14. history \in [Migration -> [version : {0, 1}, checksum : Checksums \cup {NoSum}]] /\ ran \subseteq Migration
  BY DEF HInv, TypeOK
<1> HIDE DEF rest
<1>15. \A i \in 1..Len(rest) : i + 1 \in 1..Len(todo[r]) /\ rest[i] = todo[r][i + 1]
  <2> TAKE i \in 1..Len(rest)
  <2>1. i \in 1..Len(todo[r]) - 1 /\ i + 1 \in 1..Len(todo[r])
    BY <1>6
  <2> QED BY <1>6, <2>1
<1>16. CASE mode[r] = "up"
  <2>1. Forward(r, a) /\ Agrees(r) /\ m \in ran
    BY <1>0, <1>1, <1>5, <1>16 DEF Prepared
  <2>2. ~Applied(m) /\ history' = [history EXCEPT ![m] = RecordOf(r)] /\ ran' = ran
    BY <1>0, <1>16 DEF Logs
  <2>3. m = Plan[a + 1] /\ a + 1 \in DOMAIN Plan /\ m \in Migration /\ a + 1 \in 0..Len(Plan)
    <3>1. a + 1 \in 1..Len(Plan) /\ 1 \in 1..Len(todo[r])
      BY <1>6, <1>12, <2>1 DEF Forward
    <3>2. m = Plan[a + 1]
      BY <1>6, <2>1, <3>1 DEF Forward
    <3> QED BY <1>12, <1>13, <3>1, <3>2
  <2>4. RecordOf(r) \in [version : {0, 1}, checksum : Checksums \cup {NoSum}]
    BY RunnerAssumption DEF RecordOf
  <2>5. \A n \in Migration : history'[n] = IF n = m THEN RecordOf(r) ELSE history[n]
    BY <1>14, <2>2, <2>3
  <2>6. TypeOK'
    <3>1. history' \in [Migration -> [version : {0, 1}, checksum : Checksums \cup {NoSum}]]
      BY <1>14, <2>2, <2>4
    <3> QED BY <1>3, <1>7, <1>8, <1>9, <2>2, <3>1 DEF HInv, TypeOK
  <2>7. RecordedRan'
    BY <2>1, <2>2, <2>5 DEF HInv, RecordedRan, Applied
  <2>8. \A n \in Migration : Applied(n)' => history'[n] = RecordOf(r)
    <3>1. \A n \in Migration : Applied(n) => history[n] = RecordOf(r)
      BY <1>14, <2>1 DEF Agrees, Applied, RecordOf
    <3> QED BY <2>5, <3>1 DEF Applied
  <2>9. OneDeclaration'
    <3>1. \A n \in Migration : Applied(n)' => history'[n] = RecordOf(r)'
      BY <2>8 DEF RecordOf
    <3> QED BY <3>1 DEF OneDeclaration
  <2>10. Agrees(r)'
    BY <2>8 DEF Agrees, RecordOf
  <2>11. AppliedTo(a + 1)'
    <3>1. Applied(m)'
      BY <2>3, <2>5 DEF Applied, RecordOf
    <3>2. \A i \in DOMAIN Plan : i # a + 1 => (Applied(Plan[i])' <=> Applied(Plan[i]))
      BY <1>13, <2>3, <2>5, PlanAssumption DEF Applied
    <3>3. \A i \in DOMAIN Plan : i # a + 1 => (i <= a <=> i <= a + 1)
      BY <1>12
    <3> QED BY <1>5, <1>12, <2>3, <3>1, <3>2, <3>3 DEF AppliedTo
  <2>12. Forward(r, a + 1)'
    <3>1. Len(rest) <= Len(Plan) - (a + 1)
      BY <1>6, <1>12, <2>1 DEF Forward
    <3>2. ASSUME NEW i \in 1..Len(rest) PROVE rest[i] = Plan[(a + 1) + i]
      <4>1. i + 1 \in 1..Len(todo[r]) /\ rest[i] = todo[r][i + 1]
        BY <1>15
      <4>2. a + (i + 1) = (a + 1) + i
        BY <1>6, <1>12
      <4>3. todo[r][i + 1] = Plan[a + (i + 1)]
        BY <2>1, <4>1 DEF Forward
      <4> QED BY <4>1, <4>2, <4>3
    <3> QED BY <1>7, <3>1, <3>2 DEF Forward
  <2>13. Prepared(r, a + 1)'
    BY <1>1, <1>2, <1>3, <1>16, <2>10, <2>12 DEF Prepared
  <2>14. Fits(a + 1)'
    BY <1>10, <2>11, <2>13 DEF Fits
  <2>15. \A n \in Irreversible : Applied(n) => Applied(n)'
    BY <2>2, <2>5, PlanAssumption DEF Applied
  <2> QED BY <1>11, <2>3, <2>6, <2>7, <2>9, <2>14, <2>15 DEF HInv
<1>17. CASE mode[r] = "down"
  <2>1. Backward(r, a) /\ Agrees(r) /\ record[r] = 1
    BY <1>1, <1>5, <1>17 DEF Prepared
  <2>2. history' = [history EXCEPT ![m] = NoRecord] /\ ran' = ran \ {m}
    BY <1>0, <1>17, <2>1 DEF Logs
  <2>3. m = Plan[a] /\ a \in DOMAIN Plan /\ m \in Migration /\ m \notin Irreversible /\ a - 1 \in 0..Len(Plan)
    <3>1. a - 1 + 1 = a
      OBVIOUS
    <3>2. 1 \in 1..Len(todo[r]) /\ Len(todo[r]) <= a
      BY <1>6, <2>1 DEF Backward
    <3>3. a \in 1..Len(Plan) /\ a - 1 \in 0..Len(Plan)
      BY <1>6, <1>12, <3>2
    <3>4. m = Plan[a] /\ m \notin Irreversible
      BY <1>6, <2>1, <3>1, <3>2 DEF Backward
    <3> QED BY <1>12, <1>13, <3>3, <3>4
  <2>4. \A n \in Migration : history'[n] = IF n = m THEN NoRecord ELSE history[n]
    BY <1>14, <2>2, <2>3
  <2>5. TypeOK'
    <3>1. history' \in [Migration -> [version : {0, 1}, checksum : Checksums \cup {NoSum}]]
      BY <1>14, <2>2 DEF NoRecord
    <3> QED BY <1>3, <1>7, <1>8, <1>9, <1>14, <2>2, <3>1 DEF HInv, TypeOK
  <2>6. \A n \in Migration : Applied(n)' => n # m /\ Applied(n) /\ history'[n] = history[n]
    BY <2>4 DEF Applied, NoRecord
  <2>7. RecordedRan' /\ OneDeclaration'
    BY <2>2, <2>6 DEF HInv, RecordedRan, OneDeclaration, RecordOf
  <2>8. Agrees(r)'
    BY <2>1, <2>6 DEF Agrees
  <2>9. AppliedTo(a - 1)'
    <3>1. ~Applied(m)'
      BY <2>3, <2>6
    <3>2. \A i \in DOMAIN Plan : i # a => (Applied(Plan[i])' <=> Applied(Plan[i]))
      BY <1>13, <2>3, <2>4, PlanAssumption DEF Applied
    <3>3. \A i \in DOMAIN Plan : i # a => (i <= a <=> i <= a - 1)
      BY <1>12
    <3> QED BY <1>5, <1>12, <2>3, <3>1, <3>2, <3>3 DEF AppliedTo
  <2>10. Backward(r, a - 1)'
    <3>1. Len(rest) <= a - 1
      BY <1>6, <1>12, <2>1 DEF Backward
    <3>2. ASSUME NEW i \in 1..Len(rest) PROVE rest[i] = Plan[(a - 1) - i + 1] /\ rest[i] \notin Irreversible
      <4>1. i + 1 \in 1..Len(todo[r]) /\ rest[i] = todo[r][i + 1]
        BY <1>15
      <4>2. a - (i + 1) + 1 = (a - 1) - i + 1
        BY <1>6, <1>12
      <4>3. todo[r][i + 1] = Plan[a - (i + 1) + 1] /\ todo[r][i + 1] \notin Irreversible
        BY <2>1, <4>1 DEF Backward
      <4> QED BY <4>1, <4>2, <4>3
    <3> QED BY <1>7, <3>1, <3>2 DEF Backward
  <2>11. Prepared(r, a - 1)'
    BY <1>1, <1>2, <1>3, <1>17, <2>8, <2>10 DEF Prepared
  <2>12. Fits(a - 1)'
    BY <1>10, <2>9, <2>11 DEF Fits
  <2>13. \A n \in Irreversible : Applied(n) => Applied(n)'
    BY <2>3, <2>4, PlanAssumption DEF Applied
  <2> QED BY <1>11, <2>3, <2>5, <2>7, <2>12, <2>13 DEF HInv
<1> QED BY <1>16, <1>17 DEF HInv, TypeOK

LEMMA LogHistory ==
  ASSUME HInv, IInv, IInv', NEW r \in Runner, Log(r)
  PROVE  HInv' /\ \A m \in Irreversible : Applied(m) => Applied(m)'
<1>1. pc[r] = "log" /\ pc[r] \in Holding /\ pc[r] \in Doing /\ "release" \in PC /\ "release" \notin Verified
      /\ "release" \notin Doing
  BY DEF Log, Holding, Working, PC, Verified, Doing
<1>2. /\ todo' = [todo EXCEPT ![r] = Tail(@)] /\ record' = [record EXCEPT ![r] = 0] /\ UNCHANGED <<mode, count>>
      /\ \/ Renews(r) /\ Logs(r, Head(todo[r])) /\ Heard(r, First(r, Tail(todo[r])))
         \/ Goto(r, "release") /\ UNCHANGED <<lock, history, version, ran>>
  BY DEF Log
<1>3. CASE Goto(r, "release") /\ UNCHANGED <<lock, history, version, ran>>
  <2>1. Tail(todo[r]) \in Seq(Migration)
    BY <1>1, Tails DEF HInv, HasOne, TypeOK
  <2>2. /\ todo' \in [Runner -> Seq(Migration)] /\ record' \in [Runner -> {0, 1}]
        /\ \A s \in Runner \ {r} : todo'[s] = todo[s] /\ record'[s] = record[s]
    BY <1>2, <2>1 DEF HInv, TypeOK
  <2>3. pc'[r] = "release"
    BY <1>1, <1>3, Going DEF IInv, Shape
  <2>4. \A a \in 0..Len(Plan) : Prepared(r, a)'
    BY <1>1, <2>3 DEF Prepared
  <2> QED BY <1>1, <1>2, <1>3, <2>2, <2>4, OwnKeeps DEF HInv, TypeOK, Applied
<1>4. CASE Renews(r) /\ Logs(r, Head(todo[r])) /\ Heard(r, First(r, Tail(todo[r])))
  <2>1. version' \in [Runner -> Nat] /\ \A s \in Runner \ {r} : version'[s] = version[s]
    BY <1>4 DEF Heard, IInv, Shape
  <2> QED BY <1>1, <1>2, <1>4, <2>1, LoggedKeeps DEF Heard
<1> QED BY <1>2, <1>3, <1>4

LEMMA ExpireHistory == ASSUME HInv, Expire PROVE HInv'
<1>1. /\ lock' \in [version : Nat, owner : Runner \cup {NoRunner}, live : BOOLEAN]
      /\ lock'.version = lock.version /\ UNCHANGED <<history, pc, version, ran, mode, todo, count, record>>
  BY DEF Expire, own, HInv, TypeOK
<1>2. TypeOK' /\ RecordedRan' /\ OneDeclaration' /\ \A r \in Runner : HasOne(r)'
  BY <1>1 DEF HInv, TypeOK, RecordedRan, OneDeclaration, HasOne, Applied
<1>3. \A a : Fits(a) => Fits(a)'
  BY <1>1 DEF Fits, AppliedTo, Applied, Current, Prepared, Agrees, Spared, Forward, Backward
<1> QED BY <1>2, <1>3 DEF HInv

LEMMA InitialHistory == Init => HInv
<1> SUFFICES ASSUME Init PROVE HInv
  OBVIOUS
<1>1. PICK n \in 0..Len(Plan), b \in Runner :
        /\ history = [m \in Migration |-> IF Before(n, m) THEN RecordOf(b) ELSE NoRecord]
        /\ ran = {m \in Migration : Before(n, m)}
  BY DEF Init
<1>2. RecordOf(b).version = 1 /\ RecordOf(b).checksum \in Checksums /\ NoRecord.version = 0 /\ NoRecord.checksum = NoSum
      /\ RecordOf(b) \in [version : {0, 1}, checksum : Checksums \cup {NoSum}]
      /\ NoRecord \in [version : {0, 1}, checksum : Checksums \cup {NoSum}]
  BY RunnerAssumption DEF RecordOf, NoRecord
<1>3. \A m \in Migration : Applied(m) <=> Before(n, m)
  BY <1>1, <1>2 DEF Applied
<1>4. TypeOK
  <2>1. lock \in [version : Nat, owner : Runner \cup {NoRunner}, live : BOOLEAN]
    BY DEF Init, NoLock
  <2>2. history \in [Migration -> [version : {0, 1}, checksum : Checksums \cup {NoSum}]] /\ ran \subseteq Migration
    BY <1>1, <1>2
  <2>3. todo \in [Runner -> Seq(Migration)]
    BY DEF Init
  <2> QED BY <2>1, <2>2, <2>3 DEF Init, TypeOK, PC
<1>5. RecordedRan
  BY <1>1, <1>3 DEF RecordedRan
<1>6. OneDeclaration
  BY <1>1, <1>3 DEF OneDeclaration
<1>7. AppliedTo(n)
  <2>1. Len(Plan) \in Nat /\ DOMAIN Plan = 1..Len(Plan) /\ n \in Nat
    BY PlanAssumption, LenProperties
  <2>2. \A i \in DOMAIN Plan : Before(n, Plan[i]) <=> i <= n
    BY <2>1, PlanAssumption DEF Before
  <2> QED BY <1>3, <2>2 DEF AppliedTo, Migration
<1>8. \A r \in Runner : pc[r] = "idle" /\ ~Current(r) /\ HasOne(r)
  BY DEF Init, Current, HasOne, Holding, Working, Doing
<1> QED BY <1>4, <1>5, <1>6, <1>7, <1>8 DEF HInv, Fits

LEMMA HistoryPreserved ==
  ASSUME HInv, IInv, IInv', [Next]_vars
  PROVE  HInv'
<1>1. CASE UNCHANGED vars
  <2>1. TypeOK' /\ RecordedRan' /\ OneDeclaration' /\ \A r \in Runner : HasOne(r)'
    BY <1>1 DEF vars, own, HInv, TypeOK, RecordedRan, OneDeclaration, HasOne, Applied
  <2>2. \A a : Fits(a) => Fits(a)'
    BY <1>1 DEF vars, Fits, AppliedTo, Applied, Current, Prepared, Agrees, Spared, Forward, Backward
  <2> QED BY <2>1, <2>2 DEF HInv
<1>2. CASE Expire
  BY <1>2, ExpireHistory
<1>3. ASSUME NEW r \in Runner, Step(r) \/ Crash(r) PROVE HInv'
  BY <1>3, ReadLockHistory, AcquireHistory, ReleaseHistory, VerifyHistory, PlanDownHistory, SelectHistory,
     RenewHistory, RunStepHistory, ReadRecordHistory, LogHistory DEF Step
<1> QED BY <1>1, <1>2, <1>3 DEF Next

LEMMA HistoryInvariance == Spec /\ NoVersionReturns => []HInv
<1>1. HInv /\ IInv /\ IInv' /\ [Next]_vars => HInv'
  BY HistoryPreserved
<1> QED BY <1>1, InitialHistory, Invariance, PTL DEF Spec

\* However runners fail, crash, outlive their lease or go unanswered, what is recorded ran, the history is
\* the beginning of the plan, and one build declared all of it (verifyHistory, up and down of
\* MigrationRunner), while no version returns.
THEOREM HistoriesStayTrue == Spec /\ NoVersionReturns => []HistoriesAreTrue
<1>1. HInv => HistoriesAreTrue
  <2> SUFFICES ASSUME HInv PROVE AppliedIsPrefix
    BY DEF HInv, HistoriesAreTrue
  <2>1. PICK a \in 0..Len(Plan) : AppliedTo(a)
    BY DEF HInv, Fits
  <2>2. DOMAIN Plan = 1..Len(Plan) /\ Len(Plan) \in Nat
    BY PlanAssumption, LenProperties
  <2> QED BY <2>1, <2>2 DEF AppliedTo, AppliedIsPrefix
<1> QED BY <1>1, HistoryInvariance, PTL

\* Nothing that cannot be undone is unlogged, though Umzug reads the history again after down() has
\* checked it (MigrationRunner.down), while no version returns.
THEOREM IrreversibleIsKept == Spec /\ NoVersionReturns => IrreversibleStays
<1> DEFINE Stays == \A m \in Irreversible : Applied(m) => Applied(m)'
<1>1. HInv /\ IInv /\ IInv' /\ [Next]_vars => [Stays]_history
  <2> SUFFICES ASSUME HInv, IInv, IInv', Next, history' # history PROVE Stays
    BY DEF vars
  <2>1. PICK r \in Runner : Log(r)
    <3>1. ~Expire
      BY DEF Expire
    <3>2. PICK r \in Runner : Step(r) \/ Crash(r)
      BY <3>1 DEF Next
    <3> QED BY <3>2 DEF Step, Crash, ReadLock, Acquire, Verify, PlanDown, Select, Renew, RunStep, ReadRecord, ReadOwnLock, Release
  <2> QED BY <2>1, LogHistory
<1> HIDE DEF Stays
<1>2. Spec /\ NoVersionReturns => [][Stays]_history
  BY <1>1, HistoryInvariance, Invariance, PTL DEF Spec
<1> QED BY <1>2 DEF Stays, IrreversibleStays
=============================================================================
