--------------------------- MODULE RowsProofs -----------------------------
(* The stores do what Rows promises of transact(), for any number of rows, *)
(* callers and writes: the file of JsonRows with its lock and its renames, *)
(* wherever processes stop, and the statements of PostgresRows.  And what  *)
(* sign-ins make of it: every write of Codes is on the condition that the  *)
(* rows are as they were read, for any number of clients and codes.        *)
EXTENDS PostgresRows, CodesState, TLAPS

VARIABLES file, lock
J == INSTANCE JsonRows

CONSTANT Client
VARIABLES time, challenge, flows, request
C == INSTANCE Codes

-----------------------------------------------------------------------------
(* The file.                                                               *)

Working == {"locked", "written", "renamed", "refused", "failed"}

FileShape == call = [c \in Caller |-> [phase |-> call[c].phase, writes |-> call[c].writes, rows |-> call[c].rows]]

FileCallsAreWhole == \A c \in Caller : call[c].phase = "idle" => call[c] = J!Idle

\* Whoever is past the lock still has it, so what it read of the file is still true.
WorkersHold ==
  \A c \in Caller :
    /\ call[c].phase \in Working => lock = c
    /\ call[c].phase = "written" => /\ J!R!Holds(file, call[c].writes)
                                    /\ call[c].rows = J!R!Applied(file, call[c].writes)
    /\ call[c].phase = "refused" => ~J!R!Holds(file, call[c].writes)

\* Nobody is told anything before its call has ended.
CallersWait ==
  /\ answer = [c \in Caller |-> answer[c]]
  /\ \A c \in Caller : call[c].phase # "idle" => answer[c] = "none"

FileInv == FileShape /\ FileCallsAreWhole /\ WorkersHold /\ CallersWait

-----------------------------------------------------------------------------
\* The step of one call, from what it does to that call, the lock and the file.
LEMMA OneCallMoves ==
  ASSUME FileInv, NEW c \in Caller, NEW phase, NEW writes, NEW rows,
         call' = [call EXCEPT ![c] = [phase |-> phase, writes |-> writes, rows |-> rows]],
         phase = "idle" => writes = <<>> /\ rows = <<>>,
         phase \in Working => lock' = c,
         phase = "written" => J!R!Holds(file', writes) /\ rows = J!R!Applied(file', writes),
         phase = "refused" => ~J!R!Holds(file', writes),
         UNCHANGED <<file, lock>> \/ (\A d \in Caller \ {c} : call[d].phase \notin Working),
         NEW told, answer' = [answer EXCEPT ![c] = told], phase # "idle" => told = "none"
  PROVE  FileInv'
<1>1. FileShape'
  BY DEF FileInv, FileShape
<1>2. FileCallsAreWhole'
  BY DEF FileInv, FileShape, FileCallsAreWhole, J!Idle
<1>3. ASSUME NEW d \in Caller
      PROVE  /\ call'[d].phase \in Working => lock' = d
             /\ call'[d].phase = "written" => /\ J!R!Holds(file', call'[d].writes)
                                              /\ call'[d].rows = J!R!Applied(file', call'[d].writes)
             /\ call'[d].phase = "refused" => ~J!R!Holds(file', call'[d].writes)
  <2>1. CASE d = c
    <3>1. call'[d] = [phase |-> phase, writes |-> writes, rows |-> rows]
      BY <2>1 DEF FileInv, FileShape
    <3> QED BY <2>1, <3>1
  <2>2. CASE d # c
    <3>1. call'[d] = call[d]
      BY <2>2 DEF FileInv, FileShape
    <3>2. CASE UNCHANGED <<file, lock>>
      <4>1. file' = file /\ lock' = lock
        BY <3>2
      <4> QED BY <3>1, <4>1 DEF FileInv, WorkersHold
    <3>3. CASE call[d].phase \notin Working
      BY <3>1, <3>3 DEF Working
    <3> QED BY <2>2, <3>2, <3>3
  <2> QED BY <2>1, <2>2
<1>4. WorkersHold'
  BY <1>3 DEF WorkersHold
<1>5. CallersWait'
  BY DEF FileInv, FileShape, CallersWait
<1> QED BY <1>1, <1>2, <1>4, <1>5 DEF FileInv

\* Who works has the lock, and nobody else does.
LEMMA OthersDoNotWork ==
  ASSUME FileInv, NEW c \in Caller, lock = c \/ lock = Nobody, Nobody \notin Caller
  PROVE  \A d \in Caller \ {c} : call[d].phase \notin Working
BY DEF FileInv, WorkersHold

LEMMA GoesMoves ==
  ASSUME FileInv, NEW c \in Caller, NEW phase, J!Goes(c, phase)
  PROVE  call' = [call EXCEPT ![c] = [phase |-> phase, writes |-> call[c].writes, rows |-> call[c].rows]]
<1>1. call[c] = [phase |-> call[c].phase, writes |-> call[c].writes, rows |-> call[c].rows]
  BY DEF FileInv, FileShape
<1>2. [call[c] EXCEPT !.phase = phase] = [phase |-> phase, writes |-> call[c].writes, rows |-> call[c].rows]
  BY <1>1
<1> QED BY <1>2 DEF J!Goes

LEMMA GoesKeeps ==
  ASSUME FileInv, NEW c \in Caller, NEW phase, J!Goes(c, phase), phase \notin {"idle", "written"},
         UNCHANGED answer, call[c].phase # "idle",
         phase \in Working => lock' = c,
         phase = "refused" => ~J!R!Holds(file', call[c].writes),
         UNCHANGED <<file, lock>> \/ (\A d \in Caller \ {c} : call[d].phase \notin Working)
  PROVE  FileInv'
<1> DEFINE writes == call[c].writes
           rows == call[c].rows
<1>1. call' = [call EXCEPT ![c] = [phase |-> phase, writes |-> writes, rows |-> rows]]
  BY GoesMoves
<1> HIDE DEF writes, rows
<1>2. phase = "idle" => writes = <<>> /\ rows = <<>>
  OBVIOUS
<1>3. phase = "written" => J!R!Holds(file', writes) /\ rows = J!R!Applied(file', writes)
  OBVIOUS
<1>4. phase = "refused" => ~J!R!Holds(file', writes)
  BY DEF writes
<1>5. answer' = [answer EXCEPT ![c] = "none"]
  BY DEF FileInv, CallersWait
<1> QED BY <1>1, <1>2, <1>3, <1>4, <1>5, OneCallMoves

LEMMA EndsMoves ==
  ASSUME FileInv, NEW c \in Caller, NEW told, J!Ends(c, told),
         UNCHANGED <<file, lock>> \/ (\A d \in Caller \ {c} : call[d].phase \notin Working)
  PROVE  FileInv'
<1>1. call' = [call EXCEPT ![c] = [phase |-> "idle", writes |-> <<>>, rows |-> <<>>]]
  BY DEF J!Ends, J!Idle
<1>2. answer' = [answer EXCEPT ![c] = told]
  BY DEF J!Ends
<1> QED BY <1>1, <1>2, OneCallMoves DEF Working

\* The invariant holds in every reachable state.
THEOREM FileInvariance == ASSUME Nobody \notin Caller PROVE J!Spec => []FileInv
<1>1. J!Init => FileInv
  BY DEF J!Init, FileInv, FileShape, FileCallsAreWhole, WorkersHold, CallersWait, J!Idle, Working
<1>2. FileInv /\ [J!Next]_(J!vars) => FileInv'
  <2> SUFFICES ASSUME FileInv, [J!Next]_(J!vars) PROVE FileInv'
    OBVIOUS
  <2>1. CASE UNCHANGED J!vars
    BY <2>1 DEF J!vars, FileInv, FileShape, FileCallsAreWhole, WorkersHold, CallersWait
  <2>2. ASSUME NEW c \in Caller, NEW writes \in Transaction, J!Ask(c, writes) PROVE FileInv'
    <3>1. call' = [call EXCEPT ![c] = [phase |-> "waiting", writes |-> writes, rows |-> <<>>]]
      BY <2>2 DEF J!Ask
    <3>4. answer' = [answer EXCEPT ![c] = "none"]
      BY <2>2 DEF J!Ask
    <3>2. UNCHANGED <<file, lock>>
      BY <2>2 DEF J!Ask
    <3>3. "waiting" \notin Working
      BY DEF Working
    <3> QED BY <3>1, <3>2, <3>3, <3>4, OneCallMoves
  <2>3. ASSUME NEW c \in Caller, J!Lock(c) PROVE FileInv'
    <3>1. \A d \in Caller \ {c} : call[d].phase \notin Working
      BY <2>3, OthersDoNotWork DEF J!Lock, J!TakeLock
    <3>2. J!Goes(c, "locked") /\ lock' = c /\ UNCHANGED answer /\ call[c].phase # "idle"
      BY <2>3 DEF J!Lock, J!TakeLock
    <3> QED BY <3>1, <3>2, GoesKeeps
  <2>4. ASSUME NEW c \in Caller, J!Check(c) PROVE FileInv'
    <3>1. lock' = c /\ file' = file /\ UNCHANGED <<file, lock>> /\ UNCHANGED answer /\ call[c].phase # "idle"
      BY <2>4 DEF J!Check, FileInv, WorkersHold, Working
    <3>2. CASE J!R!Holds(file, call[c].writes)
      <4> DEFINE writes == call[c].writes
                 rows == J!R!Applied(file, writes)
                 phase == "written"
                 next == [phase |-> phase, writes |-> writes, rows |-> rows]
                 mid == [call EXCEPT ![c].phase = "written"]
      <4>1. call[c] = [phase |-> call[c].phase, writes |-> writes, rows |-> call[c].rows] /\ call = [d \in Caller |-> call[d]]
        BY DEF FileInv, FileShape
      <4>2. call' = [mid EXCEPT ![c].rows = rows]
        BY <2>4, <3>2 DEF J!Check
      <4>3. mid[c] = [phase |-> "written", writes |-> writes, rows |-> call[c].rows]
        BY <4>1
      <4>4. [mid[c] EXCEPT !.rows = rows] = next
        BY <4>3
      <4>5. call' = [mid EXCEPT ![c] = next]
        BY <4>2, <4>4
      <4>6. call' = [call EXCEPT ![c] = next]
        BY <4>1, <4>5
      <4>7. J!R!Holds(file', writes) /\ rows = J!R!Applied(file', writes)
        BY <3>1, <3>2
      <4>9. answer' = [answer EXCEPT ![c] = "none"]
        BY <3>1 DEF FileInv, CallersWait
      <4>8. phase \notin {"idle", "refused"}
        OBVIOUS
      <4> HIDE DEF writes, rows, phase
      <4> QED BY <3>1, <4>6, <4>7, <4>8, <4>9, OneCallMoves
    <3>3. CASE ~J!R!Holds(file, call[c].writes)
      <4>1. J!Goes(c, "refused")
        BY <2>4, <3>3 DEF J!Check
      <4> QED BY <3>1, <3>3, <4>1, GoesKeeps
    <3> QED BY <3>2, <3>3
  <2>5. ASSUME NEW c \in Caller, J!Rename(c) PROVE FileInv'
    <3>1. lock' = c /\ lock = c /\ UNCHANGED answer /\ call[c].phase # "idle"
      BY <2>5 DEF J!Rename, FileInv, WorkersHold, Working
    <3>2. \A d \in Caller \ {c} : call[d].phase \notin Working
      BY <3>1 DEF FileInv, WorkersHold
    <3>3. J!Goes(c, "renamed")
      BY <2>5 DEF J!Rename
    <3> QED BY <3>1, <3>2, <3>3, GoesKeeps
  <2>6. ASSUME NEW c \in Caller, J!Fail(c) PROVE FileInv'
    <3>1. lock' = c /\ UNCHANGED <<file, lock>> /\ J!Goes(c, "failed") /\ UNCHANGED answer /\ call[c].phase # "idle"
      BY <2>6 DEF J!Fail, FileInv, WorkersHold, Working
    <3> QED BY <3>1, GoesKeeps
  <2>7. ASSUME NEW c \in Caller, J!Release(c) PROVE FileInv'
    <3>1. \A d \in Caller \ {c} : call[d].phase \notin Working
      BY <2>7 DEF J!Release, FileInv, WorkersHold, Working
    <3> QED BY <2>7, <3>1, EndsMoves DEF J!Release
  <2>8. ASSUME NEW c \in Caller, J!GiveUp(c) \/ J!Stop(c) PROVE FileInv'
    BY <2>8, EndsMoves DEF J!GiveUp, J!Stop
  <2>9. CASE J!RemoveLock
    BY <2>9 DEF J!RemoveLock, FileInv, FileShape, FileCallsAreWhole, WorkersHold, CallersWait, Working
  <2> QED BY <2>1, <2>2, <2>3, <2>4, <2>5, <2>6, <2>7, <2>8, <2>9 DEF J!Next
<1> QED BY <1>1, <1>2, PTL DEF J!Spec

-----------------------------------------------------------------------------
FilePhase(c) == CASE call[c].phase = "idle" -> "idle" [] call[c].phase = "renamed" -> "applied" [] OTHER -> "asked"
FileSeen == [c \in Caller |-> [phase |-> FilePhase(c), writes |-> call[c].writes]]

\* The rename is the moment at which a transact() of the file happens, with all its writes.
THEOREM FileRefinement == ASSUME Nobody \notin Caller PROVE J!Spec => J!ImplementsRows
<1>1. J!Init => J!R!Init
  BY DEF J!Init, J!R!Init, J!Idle, J!R!Idle
<1>2. FileInv /\ [J!Next]_(J!vars) => [J!R!Next]_(J!R!vars)
  <2> SUFFICES ASSUME FileInv, [J!Next]_(J!vars) PROVE [J!R!Next]_(J!R!vars)
    OBVIOUS
  <2>1. CASE UNCHANGED J!vars
    BY <2>1 DEF J!vars, J!R!vars
  <2>2. ASSUME NEW c \in Caller, NEW writes \in Transaction, J!Ask(c, writes) PROVE J!R!Ask(c, writes)
    <3>1. FileSeen[c] = J!R!Idle
      BY <2>2 DEF J!Ask, J!Idle, J!R!Idle, FileSeen, FilePhase
    <3>2. FileSeen' = [FileSeen EXCEPT ![c] = [phase |-> "asked", writes |-> writes]]
      BY <2>2 DEF J!Ask, FileInv, FileShape, FileSeen, FilePhase
    <3> QED BY <2>2, <3>1, <3>2 DEF J!Ask, J!R!Ask, FileSeen, FilePhase
  <2>3. ASSUME UNCHANGED <<file, answer>>, \A d \in Caller : call'[d].writes = call[d].writes /\ FilePhase(d)' = FilePhase(d)
        PROVE  UNCHANGED J!R!vars
    BY <2>3 DEF J!R!vars, FilePhase
  <2>4. ASSUME NEW c \in Caller, J!Lock(c) \/ J!Fail(c) PROVE UNCHANGED J!R!vars
    <3>1. PICK phase : J!Goes(c, phase) /\ phase \in {"locked", "failed"}
      BY <2>4 DEF J!Lock, J!Fail
    <3>2. call' = [call EXCEPT ![c] = [phase |-> phase, writes |-> call[c].writes, rows |-> call[c].rows]]
      BY <3>1, GoesMoves
    <3>3. call[c].phase \notin {"idle", "renamed"} /\ UNCHANGED <<file, answer>>
      BY <2>4 DEF J!Lock, J!Fail
    <3>4. \A d \in Caller : call'[d].writes = call[d].writes /\ FilePhase(d)' = FilePhase(d)
      BY <3>1, <3>2, <3>3 DEF FileInv, FileShape, FilePhase
    <3> QED BY <2>3, <3>3, <3>4
  <2>5. ASSUME NEW c \in Caller, J!Check(c) PROVE UNCHANGED J!R!vars
    <3>1. \A d \in Caller : /\ call'[d].writes = call[d].writes
                            /\ d # c => call'[d].phase = call[d].phase
                            /\ call'[c].phase \in {"written", "refused"}
      BY <2>5 DEF J!Check, J!Goes, FileInv, FileShape
    <3>2. call[c].phase = "locked" /\ UNCHANGED <<file, answer>>
      BY <2>5 DEF J!Check
    <3> QED BY <2>3, <3>1, <3>2 DEF FilePhase
  <2>6. ASSUME NEW c \in Caller, J!Rename(c) PROVE J!R!Commit(c)
    <3>1. /\ call[c].phase = "written" /\ file' = call[c].rows /\ UNCHANGED answer
          /\ J!R!Holds(file, call[c].writes) /\ call[c].rows = J!R!Applied(file, call[c].writes)
      BY <2>6 DEF J!Rename, FileInv, WorkersHold
    <3>2. FileSeen[c] = [phase |-> "asked", writes |-> call[c].writes]
      BY <3>1 DEF FileSeen, FilePhase
    <3>3. ASSUME NEW d \in Caller PROVE FileSeen'[d] = IF d = c THEN [phase |-> "applied", writes |-> call[c].writes] ELSE FileSeen[d]
      BY <2>6, <3>3 DEF J!Rename, J!Goes, FileInv, FileShape, FileSeen, FilePhase
    <3>4. FileSeen' = [FileSeen EXCEPT ![c].phase = "applied"]
      BY <3>2, <3>3 DEF FileSeen
    <3> QED BY <3>1, <3>2, <3>4 DEF J!R!Commit, FileSeen, FilePhase
  <2>7. ASSUME NEW c \in Caller, NEW told \in {"done", "conflict", "error"}, J!Ends(c, told), call[c] # J!Idle, UNCHANGED file,
               told = "done" => call[c].phase = "renamed",
               told = "conflict" => call[c].phase = "refused"
        PROVE  J!R!Answer(c, told)
    <3>1. call[c].phase # "idle"
      BY <2>7 DEF FileInv, FileCallsAreWhole
    <3>2. FileSeen[c] # J!R!Idle
      BY <3>1 DEF FileSeen, FilePhase, J!R!Idle
    <3>3. ASSUME NEW d \in Caller PROVE FileSeen'[d] = IF d = c THEN J!R!Idle ELSE FileSeen[d]
      BY <2>7, <3>3 DEF J!Ends, J!Idle, J!R!Idle, FileInv, FileShape, FileSeen, FilePhase
    <3>4. FileSeen' = [FileSeen EXCEPT ![c] = J!R!Idle]
      BY <3>3 DEF FileSeen
    <3>5. told = "done" => FileSeen[c].phase = "applied"
      BY <2>7 DEF FileSeen, FilePhase
    <3>7. answer[c] = "none"
      BY <3>1 DEF FileInv, CallersWait
    <3>6. told = "conflict" => FileSeen[c].phase = "asked" /\ ~J!R!Holds(file, FileSeen[c].writes)
      BY <2>7 DEF FileSeen, FilePhase, FileInv, WorkersHold
    <3> QED BY <2>7, <3>2, <3>4, <3>5, <3>6, <3>7 DEF J!Ends, J!R!Answer, FileSeen, FilePhase
  <2>8. ASSUME NEW c \in Caller, J!GiveUp(c) \/ J!Stop(c) PROVE J!R!Answer(c, "error")
    BY <2>7, <2>8 DEF J!GiveUp, J!Stop, J!Idle
  <2>9. ASSUME NEW c \in Caller, J!Release(c) PROVE \E told \in {"done", "conflict", "error"} : J!R!Answer(c, told)
    <3>1. call[c] # J!Idle /\ UNCHANGED file
      BY <2>9 DEF J!Release, J!Idle
    <3>2. J!Ends(c, J!Result(call[c].phase)) \/ J!Ends(c, "error")
      BY <2>9 DEF J!Release
    <3>3. /\ J!Result(call[c].phase) \in {"done", "conflict", "error"}
          /\ J!Result(call[c].phase) = "done" => call[c].phase = "renamed"
          /\ J!Result(call[c].phase) = "conflict" => call[c].phase = "refused"
      BY DEF J!Result
    <3> QED BY <2>7, <3>1, <3>2, <3>3
  <2>10. CASE J!RemoveLock
    BY <2>10 DEF J!RemoveLock, J!R!vars
  <2> QED BY <2>1, <2>2, <2>4, <2>5, <2>6, <2>8, <2>9, <2>10 DEF J!Next, J!R!Next
<1> QED BY <1>1, <1>2, FileInvariance, PTL DEF J!Spec, J!ImplementsRows, J!R!Spec

-----------------------------------------------------------------------------
(* The statements.                                                         *)

Write == [key : Key, expected : Nat, becomes : Nat]
Call == [phase : {"idle", "running", "committed"}, writes : Seq(Write), done : Nat]

Told == {"none", "done", "conflict", "error"}

\* No write is a mere assertion that there is no row: nobody could hold that.
EveryWriteLocks ==
  /\ Transaction \subseteq Seq(Write)
  /\ \A writes \in Transaction : \A i \in DOMAIN writes : Locks(writes[i])
  /\ Nobody \notin Caller

Shape ==
  /\ table \in [Key -> Nat]
  /\ holder \in [Key -> Caller \cup {Nobody}]
  /\ call \in [Caller -> Call]
  /\ answer \in [Caller -> Told]

CallsAreWhole ==
  \A c \in Caller :
    /\ call[c].phase = "idle" => call[c] = Idle
    /\ \A i \in DOMAIN call[c].writes : Locks(call[c].writes[i])

\* What a transaction found it still holds, so nobody changed it.
FoundIsHeld ==
  \A c \in Caller : call[c].phase = "running" =>
    /\ call[c].done <= Len(call[c].writes)
    /\ \A i \in 1..call[c].done :
         /\ holder[call[c].writes[i].key] = c
         /\ table[call[c].writes[i].key] = call[c].writes[i].expected

IInv == Shape /\ CallsAreWhole /\ FoundIsHeld

-----------------------------------------------------------------------------
LEMMA WriteShape ==
  ASSUME NEW writes \in Seq(Write), NEW i \in DOMAIN writes
  PROVE  writes[i].key \in Key /\ writes[i].expected \in Nat /\ writes[i].becomes \in Nat
<1>1. writes[i] \in Write
  OBVIOUS
<1> QED BY <1>1 DEF Write

LEMMA CallShape ==
  ASSUME NEW q \in Call
  PROVE  /\ q.phase \in {"idle", "running", "committed"} /\ q.done \in Nat
         /\ q.writes \in Seq(Write) /\ Len(q.writes) \in Nat /\ DOMAIN q.writes = 1..Len(q.writes)
BY DEF Call

\* A transaction that ends, or has found everything, disturbs nobody else's.
LEMMA OthersKeepTheirs ==
  ASSUME IInv, EveryWriteLocks, NEW c \in Caller, Free(c), call[c].phase = "running",
         NEW told \in Call, call' = [call EXCEPT ![c] = told], told.phase # "running",
         told.phase = "idle" => told = Idle, told.writes = <<>> \/ told.writes = call[c].writes,
         answer' \in [Caller -> Told],
         \/ UNCHANGED table
         \/ table' = R!Applied(table, call[c].writes) /\ call[c].done = Len(call[c].writes)
  PROVE  IInv'
<1>1. table' \in [Key -> Nat]
  <2>1. CASE UNCHANGED table
    BY <2>1 DEF IInv, Shape
  <2>2. CASE table' = R!Applied(table, call[c].writes)
    <3> SUFFICES ASSUME NEW k \in Key PROVE table'[k] \in Nat
      BY <2>2 DEF R!Applied
    <3>1. call[c].writes \in Seq(Write) /\ table[k] \in Nat
      BY DEF IInv, Shape, Call
    <3>2. CASE \E i \in DOMAIN call[c].writes : call[c].writes[i].key = k
      <4> DEFINE i == CHOOSE i \in DOMAIN call[c].writes : call[c].writes[i].key = k
      <4>1. i \in DOMAIN call[c].writes
        BY <3>2
      <4>2. table'[k] = call[c].writes[i].becomes
        BY <2>2, <3>2 DEF R!Applied
      <4>3. call[c].writes[i].becomes \in Nat
        BY <3>1, <4>1, WriteShape
      <4> QED BY <4>2, <4>3
    <3>3. CASE ~\E i \in DOMAIN call[c].writes : call[c].writes[i].key = k
      BY <2>2, <3>1, <3>3 DEF R!Applied
    <3> QED BY <3>2, <3>3
  <2> QED BY <2>1, <2>2
<1>2. Shape'
  BY <1>1 DEF IInv, Shape, Free
<1>3. CallsAreWhole'
  BY DEF IInv, Shape, CallsAreWhole, Call
<1>4. ASSUME NEW d \in Caller, call'[d].phase = "running",
             NEW i \in 1..call'[d].done
      PROVE  /\ holder'[call'[d].writes[i].key] = d
             /\ table'[call'[d].writes[i].key] = call'[d].writes[i].expected
  <2>1. d # c /\ call'[d] = call[d]
    BY <1>4 DEF IInv, Shape
  <2> DEFINE k == call[d].writes[i].key
  <2>2. k \in Key /\ holder[k] = d /\ table[k] = call[d].writes[i].expected
    <3>1. call[d].writes \in Seq(Write) /\ i \in 1..Len(call[d].writes)
      BY <1>4, <2>1 DEF IInv, Shape, FoundIsHeld, Call
    <3>2. i \in 1..call[d].done
      BY <1>4, <2>1
    <3>3. call[d].writes[i].key \in Key
      BY <3>1, WriteShape
    <3>4. call[d].phase = "running"
      BY <1>4, <2>1
    <3> QED BY <3>2, <3>3, <3>4 DEF IInv, FoundIsHeld
  <2>3. holder'[k] = d
    BY <2>1, <2>2 DEF Free
  <2>4. table'[k] = table[k]
    <3>1. CASE UNCHANGED table
      BY <3>1
    <3>2. CASE table' = R!Applied(table, call[c].writes) /\ call[c].done = Len(call[c].writes)
      <4>1. ASSUME NEW j \in DOMAIN call[c].writes PROVE call[c].writes[j].key # k
        <5>1. j \in 1..call[c].done
          BY <3>2, <4>1 DEF IInv, Shape, Call
        <5> QED BY <2>1, <2>2, <5>1 DEF IInv, FoundIsHeld
      <4> QED BY <2>2, <3>2, <4>1 DEF R!Applied
    <3> QED BY <3>1, <3>2
  <2> QED BY <2>1, <2>2, <2>3, <2>4
<1>5. FoundIsHeld'
  BY <1>4 DEF IInv, Shape, FoundIsHeld
<1> QED BY <1>2, <1>3, <1>5 DEF IInv

LEMMA StatementHolds ==
  ASSUME IInv, EveryWriteLocks, NEW c \in Caller, Statement(c)
  PROVE  IInv'
<1> DEFINE w == Current(c)
<1>1. /\ call[c] \in Call /\ call[c].phase = "running" /\ call[c].done < Len(call[c].writes)
      /\ call[c].done + 1 \in DOMAIN call[c].writes /\ w \in Write /\ Locks(w)
  BY DEF Statement, Running, Current, IInv, Shape, Call, CallsAreWhole
<1>2. /\ holder[w.key] = Nobody /\ holder' = [holder EXCEPT ![w.key] = c]
      /\ table[w.key] = w.expected /\ call' = [call EXCEPT ![c].done = call[c].done + 1]
      /\ UNCHANGED <<table, answer>>
  BY <1>1 DEF Statement, Matches
<1>3. call' \in [Caller -> Call] /\ \A d \in Caller : call'[d].phase = call[d].phase /\ call'[d].writes = call[d].writes
  <2> DEFINE next == [phase |-> call[c].phase, writes |-> call[c].writes, done |-> call[c].done + 1]
  <2>1. call' = [call EXCEPT ![c] = next]
    <3>1. [call[c] EXCEPT !.done = call[c].done + 1] = next
      BY <1>1 DEF Call
    <3> QED BY <1>2, <3>1
  <2>2. next \in Call
    BY <1>1 DEF Call
  <2> QED BY <2>1, <2>2 DEF IInv, Shape
<1>4. Shape'
  BY <1>1, <1>2, <1>3 DEF IInv, Shape, Write
<1>5. CallsAreWhole'
  BY <1>1, <1>2, <1>3 DEF IInv, Shape, CallsAreWhole
<1>6. ASSUME NEW d \in Caller, call'[d].phase = "running"
      PROVE  /\ call'[d].done <= Len(call'[d].writes)
             /\ \A i \in 1..call'[d].done :
                  /\ holder'[call'[d].writes[i].key] = d
                  /\ table'[call'[d].writes[i].key] = call'[d].writes[i].expected
  <2>1. call[d] \in Call /\ call[d].phase = "running" /\ call[d].done <= Len(call[d].writes)
    BY <1>3, <1>6 DEF IInv, Shape, FoundIsHeld
  <2>2. ASSUME NEW i \in 1..call[d].done
        PROVE  /\ holder'[call[d].writes[i].key] = d
               /\ table[call[d].writes[i].key] = call[d].writes[i].expected
    <3>1. holder[call[d].writes[i].key] = d /\ table[call[d].writes[i].key] = call[d].writes[i].expected
      BY <2>1, <2>2 DEF IInv, FoundIsHeld
    <3>2. call[d].writes[i].key # w.key
      BY <1>2, <3>1 DEF EveryWriteLocks
    <3>3. call[d].writes[i].key \in Key
      <4>1. i \in DOMAIN call[d].writes
        BY <2>1, <2>2, CallShape
      <4> QED BY <2>1, <4>1, CallShape, WriteShape
    <3> QED BY <1>2, <3>1, <3>2, <3>3 DEF IInv, Shape
  <2>3. CASE d # c
    BY <1>2, <2>1, <2>2, <2>3 DEF IInv, Shape
  <2>4. CASE d = c
    <3>1. call'[d].done = call[d].done + 1 /\ call'[d].writes = call[d].writes
      BY <1>2, <1>1, <1>3, <2>4 DEF IInv, Shape, Call
    <3>4. call[d].done \in Nat /\ Len(call[d].writes) \in Nat
      BY <2>1 DEF Call
    <3>5. call'[d].done <= Len(call'[d].writes)
      BY <1>1, <2>4, <3>1, <3>4
    <3>2. holder'[w.key] = c /\ table'[w.key] = w.expected /\ w = call[d].writes[call[d].done + 1]
      BY <1>1, <1>2, <2>4 DEF IInv, Shape, Write, Current
    <3>3. ASSUME NEW i \in 1..(call[d].done + 1)
          PROVE  holder'[call[d].writes[i].key] = d /\ table'[call[d].writes[i].key] = call[d].writes[i].expected
      <4>1. CASE i = call[d].done + 1
        BY <2>4, <3>2, <4>1
      <4>2. CASE i # call[d].done + 1
        <5>1. i \in 1..call[d].done
          BY <3>3, <3>4, <4>2
        <5> QED BY <1>2, <2>2, <5>1
      <4> QED BY <4>1, <4>2
    <3> QED BY <3>1, <3>3, <3>5
  <2> QED BY <2>3, <2>4
<1> QED BY <1>4, <1>5, <1>6 DEF IInv, FoundIsHeld

LEMMA CallsInShape ==
  /\ Idle \in Call /\ DOMAIN Idle.writes = {}
  /\ \A writes \in Seq(Write) : [phase |-> "running", writes |-> writes, done |-> 0] \in Call
BY DEF Idle, Call

\* The invariant holds in every reachable state.
THEOREM TableInvariance == ASSUME EveryWriteLocks PROVE Spec => []IInv
<1>1. Init => IInv
  <2> SUFFICES ASSUME Init PROVE IInv
    OBVIOUS
  <2>1. Shape
    BY CallsInShape DEF Init, Shape, Told
  <2>2. CallsAreWhole /\ FoundIsHeld
    BY CallsInShape DEF Init, CallsAreWhole, FoundIsHeld, Idle
  <2> QED BY <2>1, <2>2 DEF IInv
<1>2. IInv /\ [Next]_vars => IInv'
  <2> SUFFICES ASSUME IInv, [Next]_vars PROVE IInv'
    OBVIOUS
  <2>1. CASE UNCHANGED vars
    BY <2>1 DEF vars, IInv, Shape, CallsAreWhole, FoundIsHeld
  <2>2. ASSUME NEW c \in Caller, NEW writes \in Transaction, Begin(c, writes) PROVE IInv'
    <3> DEFINE begun == [phase |-> "running", writes |-> writes, done |-> 0]
    <3>1. begun \in Call /\ \A i \in DOMAIN writes : Locks(writes[i])
      BY CallsInShape DEF EveryWriteLocks
    <3>2. call' = [call EXCEPT ![c] = begun] /\ UNCHANGED <<table, holder>> /\ answer' \in [Caller -> Told]
      BY <2>2 DEF Begin, IInv, Shape, Told
    <3>3. Shape' /\ CallsAreWhole'
      BY <3>1, <3>2 DEF IInv, Shape, CallsAreWhole
    <3>4. Len(writes) \in Nat
      BY DEF EveryWriteLocks
    <3>5. ASSUME NEW d \in Caller, d # c PROVE call'[d] = call[d]
      BY <3>2, <3>5 DEF IInv, Shape
    <3>6. call'[c] = begun
      BY <3>2 DEF IInv, Shape
    <3>7. FoundIsHeld'
      BY <3>2, <3>4, <3>5, <3>6 DEF IInv, FoundIsHeld
    <3> QED BY <3>3, <3>7 DEF IInv
  <2>3. ASSUME NEW c \in Caller, Statement(c) PROVE IInv'
    BY <2>3, StatementHolds
  <2>5. ASSUME NEW c \in Caller, Refuse(c) \/ Abort(c) PROVE IInv'
    <3>1. answer' \in [Caller -> Told]
      BY <2>5 DEF Refuse, Abort, Ends, IInv, Shape, Told
    <3>2. Idle.phase = "idle" /\ Idle.writes = <<>>
      BY DEF Idle
    <3>3. Free(c) /\ call[c].phase = "running" /\ UNCHANGED table /\ call' = [call EXCEPT ![c] = Idle]
      BY <2>5 DEF Refuse, Abort, Ends, Running
    <3> QED BY <3>1, <3>2, <3>3, CallsInShape, OthersKeepTheirs
  <2>6. ASSUME NEW c \in Caller, Commit(c) PROVE IInv'
    <3> DEFINE told == [call[c] EXCEPT !.phase = "committed"]
    <3>1. told \in Call /\ told.phase = "committed" /\ told.writes = call[c].writes
      BY DEF IInv, Shape, Call
    <3>2. call' = [call EXCEPT ![c] = told]
      BY <2>6 DEF Commit
    <3> QED BY <2>6, <3>1, <3>2, OthersKeepTheirs DEF Commit, IInv, Shape
  <2>4. ASSUME NEW c \in Caller, Lose(c) PROVE IInv'
    <3>1. answer' \in [Caller -> Told] /\ UNCHANGED <<table, holder, call>>
      BY <2>4 DEF Lose, IInv, Shape, Told
    <3> QED BY <3>1 DEF IInv, Shape, CallsAreWhole, FoundIsHeld
  <2>7. ASSUME NEW c \in Caller, Return(c) PROVE IInv'
    <3>1. call' = [call EXCEPT ![c] = Idle] /\ answer' \in [Caller -> Told] /\ UNCHANGED <<table, holder>>
      BY <2>7 DEF Return, Ends, IInv, Shape, Told
    <3>2. Shape' /\ CallsAreWhole'
      BY <3>1, CallsInShape DEF IInv, Shape, CallsAreWhole
    <3>3. FoundIsHeld'
      BY <3>1 DEF IInv, Shape, FoundIsHeld, Idle
    <3> QED BY <3>2, <3>3 DEF IInv
  <2> QED BY <2>1, <2>2, <2>3, <2>4, <2>5, <2>6, <2>7 DEF Next
<1> QED BY <1>1, <1>2, PTL DEF Spec

-----------------------------------------------------------------------------
Phase(c) == CASE call[c].phase = "idle" -> "idle" [] call[c].phase = "committed" -> "applied" [] OTHER -> "asked"
Seen == [c \in Caller |-> [phase |-> Phase(c), writes |-> call[c].writes]]

\* Statements, each of which looks at one row, are together one atomic transact().
THEOREM TableRefinement == ASSUME EveryWriteLocks PROVE Spec => ImplementsRows
<1>1. Init => R!Init
  BY DEF Init, R!Init, Idle, R!Idle
<1>2. IInv /\ [Next]_vars => [R!Next]_(R!vars)
  <2> SUFFICES ASSUME IInv, [Next]_vars PROVE [R!Next]_(R!vars)
    OBVIOUS
  <2>1. CASE UNCHANGED vars
    BY <2>1 DEF vars, R!vars
  <2>2. ASSUME NEW c \in Caller, NEW writes \in Transaction, Begin(c, writes) PROVE R!Ask(c, writes)
    <3>1. Seen[c] = R!Idle
      BY <2>2 DEF Begin, Idle, R!Idle, Seen, Phase
    <3>2. Seen' = [Seen EXCEPT ![c] = [phase |-> "asked", writes |-> writes]]
      BY <2>2 DEF Begin, IInv, Shape, Seen, Phase
    <3> QED BY <2>2, <3>1, <3>2 DEF Begin, R!Ask, Seen, Phase
  <2>3. ASSUME NEW c \in Caller, Statement(c) PROVE UNCHANGED R!vars
    <3>1. \A d \in Caller : call'[d].phase = call[d].phase /\ call'[d].writes = call[d].writes
      BY <2>3 DEF Statement, IInv, Shape, Call
    <3>2. UNCHANGED <<table, answer>>
      BY <2>3 DEF Statement
    <3> QED BY <3>1, <3>2 DEF R!vars
  <2>4. ASSUME NEW c \in Caller, Commit(c) PROVE R!Commit(c)
    <3>1. R!Holds(table, call[c].writes)
      <4>1. \A i \in DOMAIN call[c].writes : i \in 1..call[c].done
        BY <2>4 DEF Commit, IInv, Shape, Call
      <4> QED BY <2>4, <4>1 DEF Commit, IInv, FoundIsHeld, R!Holds
    <3>2. Seen[c] = [phase |-> "asked", writes |-> call[c].writes]
      BY <2>4 DEF Commit, Seen, Phase
    <3>3. ASSUME NEW d \in Caller PROVE Seen'[d] = IF d = c THEN [phase |-> "applied", writes |-> call[c].writes] ELSE Seen[d]
      BY <2>4, <3>3 DEF Commit, IInv, Shape, Call, Seen, Phase
    <3>4. Seen' = [Seen EXCEPT ![c].phase = "applied"]
      BY <3>2, <3>3 DEF Seen
    <3> QED BY <2>4, <3>1, <3>2, <3>4 DEF Commit, R!Commit, Seen, Phase
  <2>5. ASSUME NEW c \in Caller, NEW told \in {"done", "conflict", "error"}, Ends(c, told), call[c] # Idle, UNCHANGED table,
               told # "error" => answer[c] = "none",
               told = "done" => call[c].phase = "committed",
               told = "conflict" => call[c].phase = "running" /\ ~R!Holds(table, call[c].writes)
        PROVE  R!Answer(c, told)
    <3>1. call[c].phase # "idle"
      BY <2>5 DEF IInv, CallsAreWhole
    <3>2. Seen[c] # R!Idle
      BY <3>1 DEF Seen, Phase, R!Idle, IInv, Shape, Call
    <3>3. ASSUME NEW d \in Caller PROVE Seen'[d] = IF d = c THEN R!Idle ELSE Seen[d]
      BY <2>5, <3>3 DEF Ends, Idle, R!Idle, IInv, Shape, Seen, Phase
    <3>4. Seen' = [Seen EXCEPT ![c] = R!Idle]
      BY <3>3 DEF Seen
    <3>5. told = "done" => Seen[c].phase = "applied"
      BY <2>5 DEF Seen, Phase
    <3>6. told = "conflict" => Seen[c].phase = "asked" /\ ~R!Holds(table, Seen[c].writes)
      BY <2>5 DEF Seen, Phase
    <3> QED BY <2>5, <3>2, <3>4, <3>5, <3>6 DEF Ends, R!Answer, Seen, Phase
  <2>6. ASSUME NEW c \in Caller, Refuse(c) PROVE R!Answer(c, "conflict")
    <3>1. call[c].done + 1 \in DOMAIN call[c].writes /\ ~Matches(call[c].writes[call[c].done + 1])
      BY <2>6 DEF Refuse, Running, Current, IInv, Shape, Call
    <3>2. ~R!Holds(table, call[c].writes)
      BY <3>1 DEF R!Holds, Matches
    <3>3. call[c] # Idle
      BY <2>6 DEF Refuse, Running, Idle
    <3> QED BY <2>5, <2>6, <3>2, <3>3 DEF Refuse, Running
  <2>7. ASSUME NEW c \in Caller, Abort(c) PROVE R!Answer(c, "error")
    BY <2>5, <2>7 DEF Abort, Idle
  <2>8. ASSUME NEW c \in Caller, Return(c) PROVE R!Answer(c, "done") \/ R!Answer(c, "error")
    BY <2>5, <2>8 DEF Return, Idle
  <2>9. ASSUME NEW c \in Caller, Lose(c) PROVE R!Lose(c)
    <3>1. Seen[c] # R!Idle
      BY <2>9 DEF Lose, Seen, Phase, R!Idle, IInv, Shape, Call
    <3>2. UNCHANGED Seen
      BY <2>9 DEF Lose, Seen, Phase
    <3> QED BY <2>9, <3>1, <3>2 DEF Lose, R!Lose, Seen, Phase
  <2> QED BY <2>1, <2>2, <2>3, <2>4, <2>6, <2>7, <2>8, <2>9 DEF Next, R!Next
<1> QED BY <1>1, <1>2, TableInvariance, PTL DEF Spec, ImplementsRows, R!Spec

-----------------------------------------------------------------------------
(* The codes, the authenticator and the sessions of a user.                *)

Begins == {"none", "password", "login", "reset", "totp", "enroll"}
PersonRow == [tv : Nat, password : Nat]
CodeRow == [code : 0..MaxCodes, attempts : Nat, used : BOOLEAN, expires : Nat, tv : Nat]
FlowRow == [kind : Begins, tv : Nat, expires : Nat, used : BOOLEAN]
MfaRow == [secret : 0..MaxFlows, last : Int]

\* The requests that have read a code that was not used, that are about a code, and about a flow.
OpenCode == {"refuse", "user", "hasMfa", "consume"}
AboutCode == OpenCode \cup {"issue"}
AboutFlow == {"factor", "verify", "enroll", "enable"}
SignIn ==
  [phase : {"idle", "mfa", "pending", "session", "resetMfa"} \cup AboutCode \cup AboutFlow, by : Begins,
   user : PersonRow, challenge : CodeRow, issued : Nat, flow : Nat, step : Int, mfa : MfaRow]

CodeCounts == [Purpose -> [1..MaxCodes -> Nat]]
StepCounts == [1..MaxFlows -> [TotpStep -> Nat]]

CodesShape ==
  /\ time \in Nat
  /\ user \in PersonRow
  /\ challenge \in [Purpose -> CodeRow]
  /\ flows \in [1..MaxFlows -> FlowRow]
  /\ mfa \in MfaRow
  /\ request \in [Client -> SignIn]
  /\ accepted \in [codes : CodeCounts, steps : StepCounts]
  /\ refused \in CodeCounts

\* What the row of a code says of the codes of its purpose.
CodeFits(x, row, opened, wrong) ==
  \A n \in 1..MaxCodes :
    /\ opened[x][n] <= 1 /\ wrong[x][n] <= Attempts
    /\ n > row.code => opened[x][n] = 0 /\ wrong[x][n] = 0
    /\ n = row.code => wrong[x][n] = row.attempts /\ (~row.used => opened[x][n] = 0)

CodesFit == \A x \in Purpose : CodeFits(x, challenge[x], accepted.codes, refused)

\* A step opened something at most once, none after the last one, none before the set-up.
StepsFit ==
  /\ \A f \in 1..MaxFlows : \A s \in TotpStep :
       /\ accepted.steps[f][s] <= 1
       /\ ~flows[f].used => accepted.steps[f][s] = 0
       /\ f = mfa.secret /\ s > mfa.last => accepted.steps[f][s] = 0
  /\ Enabled => flows[mfa.secret].used

\* The sessions that live are those of the user as he is now.
SessionsFit == user.tv > 0 /\ (\A s \in sessions : s.tv = user.tv) /\ SessionsAreEarned

\* What a request knows of the user, while nobody has raised his token version since.
SignInFits(q) ==
  /\ q.user.tv <= user.tv /\ (q.user.tv = user.tv => q.user = user)
  /\ q.phase = "mfa" => q.by = "password"
  /\ q.phase \in AboutCode => q.by \in Purpose
  /\ q.phase \in OpenCode => q.challenge.code # 0 /\ ~q.challenge.used
  /\ q.phase = "refuse" => q.challenge.attempts < Attempts
  /\ q.phase \in {"hasMfa", "consume"} /\ q.by = "login" => q.challenge.tv = q.user.tv
  /\ (q.phase = "consume" /\ q.by = "login") \/ (q.phase = "session" /\ q.by # "totp") =>
       (q.user.tv = user.tv => ~Enabled)
  /\ q.phase = "session" /\ q.by = "login" => q.issued = q.user.tv
  /\ q.phase \in {"factor", "verify"} => q.by = "totp"
  /\ q.phase \in AboutFlow => q.flow \in 1..MaxFlows
  /\ q.phase \in {"verify", "enable"} => q.step \in TotpStep
  /\ q.phase = "verify" => q.mfa.secret # 0 /\ q.step > q.mfa.last

SignInsInv == CodesShape /\ CodesFit /\ StepsFit /\ SessionsFit /\ \A c \in Client : SignInFits(request[c])

-----------------------------------------------------------------------------
LEMMA SameSets == C!Purpose = Purpose /\ C!TotpStep = TotpStep /\ (C!Enabled <=> Enabled)
BY DEF C!Purpose, Purpose, C!TotpStep, TotpStep, C!Enabled, Enabled

LEMMA SignInShape ==
  ASSUME NEW q \in SignIn
  PROVE  /\ q.user \in PersonRow /\ q.challenge \in CodeRow /\ q.mfa \in MfaRow /\ q.by \in Begins
         /\ q.user.tv \in Nat /\ q.challenge.tv \in Nat /\ q.challenge.attempts \in Nat /\ q.challenge.code \in 0..MaxCodes
         /\ q.step \in Int /\ q.flow \in Nat /\ q.mfa.secret \in 0..MaxFlows /\ q.mfa.last \in Int
BY DEF SignIn, PersonRow, CodeRow, MfaRow

\* A request that does nothing knows nothing.
LEMMA IdleSignIn ==
  /\ C!Idle \in SignIn /\ C!Idle.phase = "idle" /\ C!Idle.user.tv = 0
  /\ C!NoUser \in PersonRow /\ C!NoChallenge \in CodeRow /\ C!NoMfa \in MfaRow /\ C!NoMfa.secret = 0
  /\ C!NoUser.tv = 0 /\ C!NoChallenge.code = 0
<1>1. /\ C!NoUser \in PersonRow /\ C!NoChallenge \in CodeRow /\ C!NoMfa \in MfaRow /\ C!NoMfa.secret = 0
      /\ C!NoUser.tv = 0 /\ C!NoChallenge.code = 0
  BY CodesAssumption DEF C!NoUser, C!NoChallenge, C!NoMfa, PersonRow, CodeRow, MfaRow, CodesAssumption
<1> QED BY <1>1 DEF C!Idle, SignIn, Begins

LEMMA IdleFits == ASSUME SignInsInv PROVE SignInFits(C!Idle)
<1>1. user.tv \in Nat /\ user.tv > 0
  BY DEF SignInsInv, SessionsFit, CodesShape, PersonRow
<1> QED BY <1>1, IdleSignIn DEF SignInFits, AboutCode, OpenCode, AboutFlow

\* One more is counted.
LEMMA OneMoreCode ==
  ASSUME NEW counts \in CodeCounts, NEW x \in Purpose, NEW n \in 1..MaxCodes
  PROVE  /\ C!Counted(counts, x, n) \in CodeCounts
         /\ C!Counted(counts, x, n)[x][n] = counts[x][n] + 1
         /\ \A y \in Purpose, k \in 1..MaxCodes : y # x \/ k # n => C!Counted(counts, x, n)[y][k] = counts[y][k]
<1> DEFINE row == [counts[x] EXCEPT ![n] = counts[x][n] + 1]
<1>1. C!Counted(counts, x, n) = [counts EXCEPT ![x] = row]
  BY DEF C!Counted
<1>2. counts[x] \in [1..MaxCodes -> Nat] /\ counts[x][n] + 1 \in Nat
  <2>1. counts[x] \in [1..MaxCodes -> Nat]
    BY DEF CodeCounts
  <2>2. counts[x][n] \in Nat
    BY <2>1
  <2> QED BY <2>1, <2>2
<1>3. row \in [1..MaxCodes -> Nat] /\ row[n] = counts[x][n] + 1 /\ \A k \in 1..MaxCodes : k # n => row[k] = counts[x][k]
  BY <1>2
<1> HIDE DEF row
<1> QED BY <1>1, <1>3 DEF CodeCounts

LEMMA OneMoreStep ==
  ASSUME NEW counts \in StepCounts, NEW f \in 1..MaxFlows, NEW s \in TotpStep
  PROVE  /\ C!Counted(counts, f, s) \in StepCounts
         /\ C!Counted(counts, f, s)[f][s] = counts[f][s] + 1
         /\ \A g \in 1..MaxFlows, k \in TotpStep : g # f \/ k # s => C!Counted(counts, f, s)[g][k] = counts[g][k]
<1> DEFINE row == [counts[f] EXCEPT ![s] = counts[f][s] + 1]
<1>1. C!Counted(counts, f, s) = [counts EXCEPT ![f] = row]
  BY DEF C!Counted
<1>2. row \in [TotpStep -> Nat] /\ row[s] = counts[f][s] + 1 /\ \A k \in TotpStep : k # s => row[k] = counts[f][k]
  BY DEF StepCounts
<1> HIDE DEF row
<1> QED BY <1>1, <1>2 DEF StepCounts

\* Whoever raises the token version leaves nothing for others to use; nobody else changes what
\* they know.
LEMMA OthersKnow ==
  ASSUME SignInsInv, CodesShape', NEW q \in SignIn, SignInFits(q),
         (user' = user /\ mfa'.secret = mfa.secret) \/ user'.tv > user.tv
  PROVE  SignInFits(q)'
<1>1. q.user.tv \in Nat /\ user.tv \in Nat /\ user'.tv \in Nat
  BY SignInShape DEF SignInsInv, CodesShape, PersonRow
<1>2. CASE user' = user /\ mfa'.secret = mfa.secret
  BY <1>2 DEF SignInFits, Enabled
<1>3. CASE user'.tv > user.tv
  BY <1>1, <1>3 DEF SignInFits
<1> QED BY <1>2, <1>3

\* The step of a request.
LEMMA OneSignInGoes ==
  ASSUME SignInsInv, CodesShape', CodesFit', StepsFit', SessionsFit', NEW c \in Client,
         (user' = user /\ mfa'.secret = mfa.secret) \/ user'.tv > user.tv,
         NEW q \in SignIn, request' = [request EXCEPT ![c] = q], SignInFits(q)'
  PROVE  SignInsInv'
<1>1. request'[c] = q /\ \A d \in Client \ {c} : request'[d] = request[d] /\ request[d] \in SignIn
  BY DEF SignInsInv, CodesShape
<1>2. \A d \in Client \ {c} : SignInFits(request[d])'
  BY <1>1, OthersKnow DEF SignInsInv
<1> QED BY <1>1, <1>2 DEF SignInsInv

\* The same, when it changes nothing but what it knows.
LEMMA OneSignInKnows ==
  ASSUME SignInsInv, UNCHANGED <<time, user, challenge, flows, mfa, sessions, accepted, refused>>,
         NEW c \in Client, NEW q \in SignIn, request' = [request EXCEPT ![c] = q], SignInFits(q)
  PROVE  SignInsInv'
<1>1. CodesShape' /\ CodesFit' /\ StepsFit' /\ SessionsFit'
  BY DEF SignInsInv, CodesShape, CodesFit, CodeFits, StepsFit, SessionsFit, SessionsAreEarned, Enabled
<1>2. SignInFits(q)'
  BY DEF SignInFits, Enabled
<1> QED BY <1>1, <1>2, OneSignInGoes

LEMMA SignInEnds ==
  ASSUME SignInsInv, UNCHANGED <<time, user, challenge, flows, mfa, sessions, accepted, refused>>,
         NEW c \in Client, C!Ends(c)
  PROVE  SignInsInv'
BY IdleSignIn, IdleFits, OneSignInKnows DEF C!Ends

\* A request that ends with the token version raised: no session is left.
LEMMA RaisedEnds ==
  ASSUME SignInsInv, CodesShape', CodesFit', StepsFit', NEW c \in Client, C!Ends(c),
         NEW u \in PersonRow, u.tv = user.tv + 1, C!Becomes(u)
  PROVE  SignInsInv'
<1>1. user' = u /\ sessions' = {s \in sessions : s.tv = u.tv} /\ user.tv \in Nat /\ u.tv \in Nat /\ user'.tv > user.tv
  BY DEF C!Becomes, SignInsInv, CodesShape, PersonRow
<1>2. sessions' = {}
  BY <1>1 DEF SignInsInv, SessionsFit
<1>3. SessionsFit'
  BY <1>1, <1>2 DEF SessionsFit, SessionsAreEarned
<1>4. SignInFits(C!Idle)'
  BY <1>1, IdleSignIn DEF SignInFits, AboutCode, OpenCode, AboutFlow
<1> QED BY <1>1, <1>3, <1>4, IdleSignIn, OneSignInGoes DEF C!Ends

LEMMA RaisedIsNext ==
  ASSUME NEW u \in PersonRow
  PROVE  /\ C!Raised(u) \in PersonRow /\ C!Raised(u).tv = u.tv + 1
         /\ [C!Raised(u) EXCEPT !.password = @ + 1] \in PersonRow /\ [C!Raised(u) EXCEPT !.password = @ + 1].tv = u.tv + 1
<1>1. C!Raised(u) = [u EXCEPT !.tv = u.tv + 1]
  BY DEF C!Raised, PersonRow
<1> DEFINE w == [u EXCEPT !.tv = u.tv + 1]
<1>2. w \in PersonRow /\ w.tv = u.tv + 1
  BY DEF PersonRow
<1> HIDE DEF w
<1>3. [w EXCEPT !.password = @ + 1] \in PersonRow /\ [w EXCEPT !.password = @ + 1].tv = u.tv + 1
  BY <1>2 DEF PersonRow
<1> QED BY <1>1, <1>2, <1>3 DEF w

-----------------------------------------------------------------------------
(* The steps that write a code.                                            *)

\* A code is issued, refused or used up; that of the other purpose stays as it is.
LEMMA OneCodeChanges ==
  ASSUME SignInsInv, NEW x \in Purpose, NEW row \in CodeRow, challenge' = [challenge EXCEPT ![x] = row],
         CodeFits(x, row, accepted'.codes, refused'),
         \A y \in Purpose \ {x} : \A n \in 1..MaxCodes : accepted'.codes[y][n] = accepted.codes[y][n] /\ refused'[y][n] = refused[y][n]
  PROVE  CodesFit'
<1>1. challenge'[x] = row /\ \A y \in Purpose \ {x} : challenge'[y] = challenge[y]
  BY DEF SignInsInv, CodesShape
<1> SUFFICES ASSUME NEW y \in Purpose PROVE CodeFits(y, challenge'[y], accepted'.codes, refused')
  BY DEF CodesFit, CodeFits
<1>2. CASE y = x
  BY <1>1, <1>2
<1>3. CASE y # x
  BY <1>1, <1>3 DEF SignInsInv, CodesFit, CodeFits
<1> QED BY <1>2, <1>3

LEMMA IssueKeeps ==
  ASSUME SignInsInv, NEW c \in Client, C!IssueWrite(c)
  PROVE  SignInsInv'
<1> DEFINE q == request[c]
           x == q.by
           row == [code |-> challenge[x].code + 1, attempts |-> 0, used |-> FALSE, expires |-> time + CodeLife, tv |-> q.user.tv]
<1>1. q \in SignIn /\ x \in Purpose /\ C!Ends(c) /\ UNCHANGED <<time, user, flows, mfa, sessions, accepted, refused>>
  BY DEF C!IssueWrite, SignInsInv, CodesShape, SignInFits, AboutCode
<1>2. CASE ~C!Unchanged(c)
  <2>1. UNCHANGED challenge
    BY <1>2 DEF C!IssueWrite
  <2> QED BY <1>1, <2>1, SignInEnds
<1>3. CASE C!Unchanged(c)
  <2>1. challenge[x].code < MaxCodes /\ challenge' = [challenge EXCEPT ![x] = row]
    BY <1>1, <1>3 DEF C!IssueWrite, SignInsInv, CodesShape
  <2>2. row \in CodeRow
    <3>1. challenge[x].code + 1 \in 0..MaxCodes /\ time + CodeLife \in Nat /\ q.user.tv \in Nat
      BY <1>1, <2>1, SignInShape, CodesAssumption DEF SignInsInv, CodesShape, CodeRow, CodesAssumption
    <3> QED BY <3>1 DEF CodeRow
  <2>3. challenge[x].code \in 0..MaxCodes /\ row.code = challenge[x].code + 1 /\ row.attempts = 0
    BY <1>1 DEF SignInsInv, CodesShape, CodeRow
  <2> HIDE DEF row
  <2>4. CodeFits(x, row, accepted'.codes, refused')
    BY <1>1, <2>3, CodesAssumption DEF SignInsInv, CodesFit, CodeFits, CodesAssumption
  <2>5. CodesFit'
    BY <1>1, <2>1, <2>2, <2>4, OneCodeChanges
  <2>6. CodesShape'
    BY <1>1, <2>1, <2>2, IdleSignIn DEF C!Ends, SignInsInv, CodesShape
  <2>7. StepsFit' /\ SessionsFit' /\ SignInFits(C!Idle)'
    BY <1>1, IdleFits DEF SignInsInv, StepsFit, SessionsFit, SessionsAreEarned, Enabled, SignInFits
  <2> QED BY <1>1, <2>5, <2>6, <2>7, IdleSignIn, OneSignInGoes DEF C!Ends
<1> QED BY <1>2, <1>3

LEMMA RefuseKeeps ==
  ASSUME SignInsInv, NEW c \in Client, C!Refuse(c)
  PROVE  SignInsInv'
<1> DEFINE q == request[c]
           x == q.by
           n == q.challenge.code
           row == [challenge[x] EXCEPT !.attempts = q.challenge.attempts + 1]
<1>1. /\ q \in SignIn /\ x \in Purpose /\ C!Ends(c) /\ UNCHANGED <<time, user, flows, mfa, sessions, accepted>>
      /\ n # 0 /\ ~q.challenge.used /\ q.challenge.attempts < Attempts
  BY DEF C!Refuse, SignInsInv, CodesShape, SignInFits, AboutCode, OpenCode
<1>2. CASE ~C!Unchanged(c)
  <2>1. UNCHANGED <<challenge, refused>>
    BY <1>2 DEF C!Refuse
  <2> QED BY <1>1, <2>1, SignInEnds
<1>3. CASE C!Unchanged(c)
  <2>1. challenge[x] = q.challenge /\ challenge' = [challenge EXCEPT ![x] = row] /\ refused' = C!Counted(refused, x, n)
    BY <1>1, <1>3 DEF C!Refuse, C!Unchanged, SignInsInv, CodesShape
  <2>2. n \in 1..MaxCodes /\ q.challenge.attempts \in Nat /\ q.challenge \in CodeRow
    BY <1>1, SignInShape, CodesAssumption DEF CodesAssumption
  <2>3. row \in CodeRow /\ row.code = n /\ row.attempts = q.challenge.attempts + 1 /\ (row.used <=> q.challenge.used)
    BY <2>1, <2>2 DEF CodeRow
  <2>4. /\ refused' \in CodeCounts /\ refused'[x][n] = refused[x][n] + 1
        /\ \A y \in Purpose, k \in 1..MaxCodes : y # x \/ k # n => refused'[y][k] = refused[y][k]
    <3>1. refused \in CodeCounts
      BY DEF SignInsInv, CodesShape
    <3> HIDE DEF x, n
    <3> QED BY <1>1, <2>1, <2>2, <3>1, OneMoreCode
  <2> HIDE DEF row
  <2>5. CodeFits(x, row, accepted'.codes, refused')
    <3>1. CodeFits(x, q.challenge, accepted.codes, refused)
      BY <1>1, <2>1 DEF SignInsInv, CodesFit
    <3> QED BY <1>1, <2>2, <2>3, <2>4, <3>1, CodesAssumption DEF CodeFits, CodesAssumption
  <2>6. CodesFit'
    BY <1>1, <2>1, <2>3, <2>4, <2>5, OneCodeChanges
  <2>7. CodesShape'
    BY <1>1, <2>1, <2>3, <2>4, IdleSignIn DEF C!Ends, SignInsInv, CodesShape
  <2>8. StepsFit' /\ SessionsFit' /\ SignInFits(C!Idle)'
    BY <1>1, IdleFits DEF SignInsInv, StepsFit, SessionsFit, SessionsAreEarned, Enabled, SignInFits
  <2> QED BY <1>1, <2>6, <2>7, <2>8, IdleSignIn, OneSignInGoes DEF C!Ends
<1> QED BY <1>2, <1>3

\* A code that is still as it was read has opened nothing, and opens nothing afterwards.
LEMMA ConsumeKeeps ==
  ASSUME SignInsInv, NEW c \in Client, C!ConsumeWrite(c)
  PROVE  SignInsInv'
<1> DEFINE q == request[c]
           x == q.by
           n == q.challenge.code
           row == [q.challenge EXCEPT !.used = TRUE]
           Opens == C!Unchanged(c) /\ (x = "reset" => user = q.user)
<1>1. /\ q \in SignIn /\ x \in Purpose /\ UNCHANGED <<time, flows, mfa, refused>> /\ q.phase = "consume" /\ SignInFits(q)
      /\ n # 0 /\ ~q.challenge.used
  BY DEF C!ConsumeWrite, SignInsInv, CodesShape, SignInFits, AboutCode, OpenCode
<1>2. CASE ~Opens
  <2>1. C!Ends(c) /\ UNCHANGED <<user, challenge, sessions, accepted>>
    BY <1>2 DEF C!ConsumeWrite
  <2> QED BY <1>1, <2>1, SignInEnds
<1>3. CASE Opens
  <2>1. /\ challenge[x] = q.challenge /\ challenge' = [challenge EXCEPT ![x] = row]
        /\ accepted' = [accepted EXCEPT !.codes = C!Counted(accepted.codes, x, n)]
    BY <1>1, <1>3 DEF C!ConsumeWrite, C!Unchanged, SignInsInv, CodesShape
  <2>2. n \in 1..MaxCodes /\ q.challenge \in CodeRow
    BY <1>1, SignInShape, CodesAssumption DEF CodesAssumption
  <2>3. row \in CodeRow /\ row.code = n /\ row.attempts = q.challenge.attempts /\ row.used
    BY <2>2 DEF CodeRow
  <2>4. accepted.codes \in CodeCounts /\ accepted.steps \in StepCounts
    BY DEF SignInsInv, CodesShape
  <2>5. accepted'.codes = C!Counted(accepted.codes, x, n) /\ accepted'.steps = accepted.steps
    BY <2>1 DEF SignInsInv, CodesShape
  <2>6. /\ accepted'.codes \in CodeCounts /\ accepted'.codes[x][n] = accepted.codes[x][n] + 1
        /\ \A y \in Purpose, k \in 1..MaxCodes : y # x \/ k # n => accepted'.codes[y][k] = accepted.codes[y][k]
    <3> HIDE DEF x, n
    <3> QED BY <1>1, <2>2, <2>4, <2>5, OneMoreCode
  <2>7. accepted' \in [codes : CodeCounts, steps : StepCounts]
    <3>1. accepted' = [codes |-> accepted'.codes, steps |-> accepted'.steps]
      BY <2>1 DEF SignInsInv, CodesShape
    <3> QED BY <2>4, <2>5, <2>6, <3>1
  <2> HIDE DEF row
  <2>8. CodeFits(x, row, accepted'.codes, refused')
    <3>1. CodeFits(x, q.challenge, accepted.codes, refused)
      BY <1>1, <2>1 DEF SignInsInv, CodesFit
    <3>2. accepted.codes[x][n] = 0 /\ accepted'.codes[x][n] = 1 /\ UNCHANGED refused
      <4>1. accepted.codes[x][n] = 0
        BY <1>1, <2>2, <3>1 DEF CodeFits
      <4> QED BY <1>1, <2>6, <4>1
    <3> SUFFICES ASSUME NEW k \in 1..MaxCodes
                 PROVE  /\ accepted'.codes[x][k] <= 1 /\ refused[x][k] <= Attempts
                        /\ k > n => accepted'.codes[x][k] = 0 /\ refused[x][k] = 0
                        /\ k = n => refused[x][k] = q.challenge.attempts
      BY <2>3, <3>2 DEF CodeFits
    <3>3. /\ accepted.codes[x][k] <= 1 /\ refused[x][k] <= Attempts
          /\ k > n => accepted.codes[x][k] = 0 /\ refused[x][k] = 0
          /\ k = n => refused[x][k] = q.challenge.attempts
      BY <3>1 DEF CodeFits
    <3>4. k # n => accepted'.codes[x][k] = accepted.codes[x][k]
      BY <1>1, <2>6
    <3> QED BY <2>2, <3>2, <3>3, <3>4
  <2>9. CodesFit'
    BY <1>1, <2>1, <2>3, <2>6, <2>8, OneCodeChanges
  <2>10. StepsFit'
    BY <1>1, <2>5 DEF SignInsInv, StepsFit, Enabled
  <2>11. CASE x = "reset"
    <3> DEFINE u == [C!Raised(q.user) EXCEPT !.password = @ + 1]
    <3>1. C!Becomes(u) /\ C!Ends(c) /\ q.user = user
      BY <1>3, <2>11 DEF C!ConsumeWrite
    <3>2. u \in PersonRow /\ u.tv = user.tv + 1
      BY <1>1, <3>1, SignInShape, RaisedIsNext
    <3> HIDE DEF u
    <3>3. CodesShape'
      BY <1>1, <2>1, <2>3, <2>7, <3>1, <3>2, IdleSignIn DEF C!Becomes, C!Ends, SignInsInv, CodesShape
    <3> QED BY <2>9, <2>10, <3>1, <3>2, <3>3, RaisedEnds
  <2>12. CASE x # "reset"
    <3> DEFINE new == [C!Idle EXCEPT !.phase = "session", !.by = x, !.user = q.user, !.issued = q.challenge.tv]
    <3>1. x = "login" /\ UNCHANGED <<user, sessions>> /\ request' = [request EXCEPT ![c] = new]
      BY <1>1, <1>3, <2>12 DEF C!ConsumeWrite, C!Proceeds, Purpose
    <3>2. /\ new \in SignIn /\ new.phase = "session" /\ new.by = "login" /\ new.user = q.user
          /\ new.issued = q.challenge.tv
      BY <1>1, <3>1, IdleSignIn, SignInShape DEF SignIn
    <3>3. PICK next \in SignIn : /\ next = new /\ next.phase = "session" /\ next.by = "login" /\ next.user = q.user
                                /\ next.issued = q.challenge.tv
      BY <3>2
    <3> HIDE DEF new
    <3>4. CodesShape'
      BY <1>1, <2>1, <2>3, <2>7, <3>1, <3>2 DEF SignInsInv, CodesShape
    <3>5. SessionsFit'
      BY <1>1, <3>1 DEF SignInsInv, SessionsFit, SessionsAreEarned, Enabled
    <3>6. SignInFits(next)'
      BY <1>1, <3>1, <3>3 DEF SignInFits, Enabled, AboutCode, OpenCode, AboutFlow
    <3> QED BY <1>1, <2>9, <2>10, <3>1, <3>3, <3>4, <3>5, <3>6, OneSignInGoes
  <2> QED BY <2>11, <2>12
<1> QED BY <1>2, <1>3
-----------------------------------------------------------------------------
(* The steps that write the authenticator, a flow or a session.            *)

\* A step after the last one has opened nothing yet.
LEMMA VerifyKeeps ==
  ASSUME SignInsInv, NEW c \in Client, C!VerifyWrite(c)
  PROVE  SignInsInv'
<1> DEFINE q == request[c]
           f == q.mfa.secret
           s == q.step
<1>1. /\ q \in SignIn /\ UNCHANGED <<time, user, challenge, sessions, refused>> /\ SignInFits(q) /\ q.phase = "verify"
      /\ q.flow \in 1..MaxFlows /\ s \in TotpStep /\ f # 0 /\ s > q.mfa.last /\ q.by = "totp"
  BY DEF C!VerifyWrite, SignInsInv, CodesShape, SignInFits, AboutFlow
<1>2. CASE ~C!SameFactor(c)
  <2>1. C!Ends(c) /\ UNCHANGED <<flows, mfa, accepted>>
    BY <1>2 DEF C!VerifyWrite
  <2> QED BY <1>1, <2>1, SignInEnds
<1>3. CASE C!SameFactor(c)
  <2>1. /\ mfa = q.mfa /\ mfa' = [mfa EXCEPT !.last = s] /\ flows' = [flows EXCEPT ![q.flow].used = TRUE]
        /\ accepted' = [accepted EXCEPT !.steps = C!Counted(accepted.steps, f, s)]
    BY <1>3 DEF C!VerifyWrite, C!SameFactor, SignInsInv, CodesShape
  <2>2. f \in 1..MaxFlows /\ s \in Int /\ mfa \in MfaRow
    BY <1>1, SignInShape, CodesAssumption DEF CodesAssumption, SignInsInv, CodesShape
  <2>3. mfa' \in MfaRow /\ mfa'.secret = f /\ mfa'.last = s
    BY <2>1, <2>2 DEF MfaRow
  <2>4. /\ flows' \in [1..MaxFlows -> FlowRow] /\ flows'[q.flow].used
        /\ \A g \in 1..MaxFlows : g # q.flow => flows'[g] = flows[g]
    BY <1>1, <2>1 DEF SignInsInv, CodesShape, FlowRow
  <2>5. accepted.codes \in CodeCounts /\ accepted.steps \in StepCounts
    BY DEF SignInsInv, CodesShape
  <2>6. accepted'.steps = C!Counted(accepted.steps, f, s) /\ accepted'.codes = accepted.codes
    BY <2>1 DEF SignInsInv, CodesShape
  <2>7. /\ accepted'.steps \in StepCounts /\ accepted'.steps[f][s] = accepted.steps[f][s] + 1
        /\ \A g \in 1..MaxFlows, k \in TotpStep : g # f \/ k # s => accepted'.steps[g][k] = accepted.steps[g][k]
    <3>1. f \in 1..MaxFlows /\ s \in TotpStep
      BY <1>1, <2>2
    <3> HIDE DEF f, s
    <3> QED BY <2>5, <2>6, <3>1, OneMoreStep
  <2>8. accepted' \in [codes : CodeCounts, steps : StepCounts]
    <3>1. accepted' = [codes |-> accepted'.codes, steps |-> accepted'.steps]
      BY <2>1 DEF SignInsInv, CodesShape
    <3> QED BY <2>5, <2>6, <2>7, <3>1
  <2>9. StepsFit'
    <3>1. Enabled /\ mfa.secret = f /\ mfa.last < s /\ mfa.last \in Int /\ flows[f].used
      BY <1>1, <2>1, <2>2 DEF Enabled, SignInsInv, StepsFit, MfaRow
    <3>2. accepted.steps[f][s] = 0
      BY <1>1, <2>2, <3>1 DEF SignInsInv, StepsFit
    <3>3. flows'[f].used
      BY <2>2, <2>4, <3>1
    <3>4. TotpStep \subseteq Int
      BY CodesAssumption DEF TotpStep, CodesAssumption
    <3> SUFFICES ASSUME NEW g \in 1..MaxFlows, NEW k \in TotpStep
                 PROVE  /\ accepted'.steps[g][k] <= 1
                        /\ ~flows'[g].used => accepted'.steps[g][k] = 0
                        /\ g = f /\ k > s => accepted'.steps[g][k] = 0
      BY <2>3, <3>3 DEF StepsFit, Enabled
    <3>5. /\ accepted.steps[g][k] <= 1 /\ (~flows[g].used => accepted.steps[g][k] = 0)
          /\ (g = f /\ k > mfa.last => accepted.steps[g][k] = 0)
      BY <3>1 DEF SignInsInv, StepsFit
    <3>6. CASE g = f /\ k = s
      BY <2>2, <2>7, <3>2, <3>3, <3>6
    <3>7. CASE g # f \/ k # s
      BY <2>2, <2>4, <2>7, <3>1, <3>4, <3>5, <3>7
    <3> QED BY <3>6, <3>7
  <2>10. CodesFit' /\ SessionsFit'
    BY <1>1, <2>1, <2>3, <2>6 DEF SignInsInv, CodesFit, CodeFits, SessionsFit, SessionsAreEarned, Enabled
  <2> DEFINE new == [C!Idle EXCEPT !.phase = "session", !.by = "totp", !.user = q.user, !.issued = q.challenge.tv]
  <2>11. request' = [request EXCEPT ![c] = new]
    BY <1>1, <1>3 DEF C!VerifyWrite, C!Proceeds
  <2>12. new \in SignIn /\ new.phase = "session" /\ new.by = "totp" /\ new.user = q.user
    BY <1>1, IdleSignIn, SignInShape DEF SignIn, Begins
  <2>13. PICK next \in SignIn : next = new /\ next.phase = "session" /\ next.by = "totp" /\ next.user = q.user
    BY <2>12
  <2> HIDE DEF new
  <2>14. CodesShape'
    BY <1>1, <2>3, <2>4, <2>8, <2>11, <2>12 DEF SignInsInv, CodesShape
  <2>15. SignInFits(next)'
    BY <1>1, <2>13 DEF SignInFits, AboutCode, OpenCode, AboutFlow
  <2> QED BY <1>1, <2>1, <2>3, <2>9, <2>10, <2>11, <2>13, <2>14, <2>15, OneSignInGoes
<1> QED BY <1>2, <1>3

\* The flow that sets an authenticator up has opened nothing yet, and no session outlives it.
LEMMA EnableKeeps ==
  ASSUME SignInsInv, NEW c \in Client, C!EnableWrite(c)
  PROVE  SignInsInv'
<1> DEFINE q == request[c]
           f == q.flow
           s == q.step
           Enables == mfa = C!NoMfa /\ ~flows[f].used /\ user = q.user
<1>1. /\ q \in SignIn /\ UNCHANGED <<time, challenge, refused>> /\ C!Ends(c) /\ f \in 1..MaxFlows /\ s \in TotpStep
  BY DEF C!EnableWrite, SignInsInv, CodesShape, SignInFits, AboutFlow
<1>2. CASE ~Enables
  <2>1. UNCHANGED <<user, flows, mfa, sessions, accepted>>
    BY <1>2 DEF C!EnableWrite
  <2> QED BY <1>1, <2>1, SignInEnds
<1>3. CASE Enables
  <2>1. /\ mfa' = [secret |-> f, last |-> s] /\ flows' = [flows EXCEPT ![f].used = TRUE]
        /\ accepted' = [accepted EXCEPT !.steps = C!Counted(accepted.steps, f, s)] /\ C!Becomes(C!Raised(q.user))
    BY <1>3 DEF C!EnableWrite, SignInsInv, CodesShape
  <2>2. mfa' \in MfaRow /\ mfa'.secret = f /\ mfa'.last = s /\ s \in Int
    BY <1>1, <2>1, SignInShape, CodesAssumption DEF MfaRow, CodesAssumption
  <2>3. /\ flows' \in [1..MaxFlows -> FlowRow] /\ flows'[f].used /\ ~flows[f].used
        /\ \A g \in 1..MaxFlows : g # f => flows'[g] = flows[g]
    BY <1>1, <1>3, <2>1 DEF SignInsInv, CodesShape, FlowRow
  <2>4. accepted.codes \in CodeCounts /\ accepted.steps \in StepCounts
    BY DEF SignInsInv, CodesShape
  <2>5. accepted'.steps = C!Counted(accepted.steps, f, s) /\ accepted'.codes = accepted.codes
    BY <2>1 DEF SignInsInv, CodesShape
  <2>6. /\ accepted'.steps \in StepCounts /\ accepted'.steps[f][s] = accepted.steps[f][s] + 1
        /\ \A g \in 1..MaxFlows, k \in TotpStep : g # f \/ k # s => accepted'.steps[g][k] = accepted.steps[g][k]
    <3> HIDE DEF f, s
    <3> QED BY <1>1, <2>4, <2>5, OneMoreStep
  <2>7. accepted' \in [codes : CodeCounts, steps : StepCounts]
    <3>1. accepted' = [codes |-> accepted'.codes, steps |-> accepted'.steps]
      BY <2>1 DEF SignInsInv, CodesShape
    <3> QED BY <2>4, <2>5, <2>6, <3>1
  <2>8. StepsFit'
    <3>1. TotpStep \subseteq Int
      BY CodesAssumption DEF TotpStep, CodesAssumption
    <3> SUFFICES ASSUME NEW g \in 1..MaxFlows, NEW k \in TotpStep
                 PROVE  /\ accepted'.steps[g][k] <= 1
                        /\ ~flows'[g].used => accepted'.steps[g][k] = 0
                        /\ g = f /\ k > s => accepted'.steps[g][k] = 0
      BY <2>2, <2>3 DEF StepsFit, Enabled
    <3>2. accepted.steps[g][k] <= 1 /\ (~flows[g].used => accepted.steps[g][k] = 0)
      BY DEF SignInsInv, StepsFit
    <3>3. accepted.steps[f][s] = 0
      BY <1>1, <2>3 DEF SignInsInv, StepsFit
    <3>4. CASE g = f /\ k = s
      BY <1>1, <2>2, <2>3, <2>6, <3>3, <3>4
    <3>5. CASE g # f \/ k # s
      BY <1>1, <2>2, <2>3, <2>6, <3>1, <3>2, <3>5
    <3> QED BY <3>4, <3>5
  <2>9. CodesFit'
    BY <1>1, <2>5 DEF SignInsInv, CodesFit, CodeFits
  <2> DEFINE u == C!Raised(q.user)
  <2>10. u \in PersonRow /\ u.tv = user.tv + 1 /\ C!Becomes(u)
    BY <1>1, <1>3, <2>1, SignInShape, RaisedIsNext
  <2> HIDE DEF u
  <2>11. CodesShape'
    BY <1>1, <2>2, <2>3, <2>7, <2>10, IdleSignIn DEF C!Becomes, C!Ends, SignInsInv, CodesShape
  <2> QED BY <1>1, <2>8, <2>9, <2>10, <2>11, RaisedEnds
<1> QED BY <1>2, <1>3

LEMMA ResetKeeps ==
  ASSUME SignInsInv, NEW c \in Client, C!ResetWrite(c)
  PROVE  SignInsInv'
<1> DEFINE q == request[c]
           Resets == user = q.user /\ (q.mfa # C!NoMfa => mfa = q.mfa)
<1>1. q \in SignIn /\ UNCHANGED <<time, challenge, flows, accepted, refused>> /\ C!Ends(c)
  BY DEF C!ResetWrite, SignInsInv, CodesShape
<1>2. CASE ~Resets
  <2>1. UNCHANGED <<user, mfa, sessions>>
    BY <1>2 DEF C!ResetWrite
  <2> QED BY <1>1, <2>1, SignInEnds
<1>3. CASE Resets
  <2> DEFINE u == C!Raised(q.user)
  <2>1. mfa' \in {mfa, C!NoMfa} /\ C!Becomes(u)
    BY <1>3 DEF C!ResetWrite
  <2>2. u \in PersonRow /\ u.tv = user.tv + 1
    BY <1>1, <1>3, SignInShape, RaisedIsNext
  <2> HIDE DEF u
  <2>3. CodesShape'
    BY <1>1, <2>1, <2>2, IdleSignIn DEF C!Becomes, C!Ends, SignInsInv, CodesShape
  <2>4. StepsFit' /\ CodesFit'
    <3>1. CASE mfa' = mfa
      BY <1>1, <3>1 DEF SignInsInv, StepsFit, CodesFit, CodeFits, Enabled
    <3>2. CASE mfa' = C!NoMfa
      BY <1>1, <3>2, IdleSignIn, CodesAssumption DEF SignInsInv, StepsFit, CodesFit, CodeFits, Enabled, CodesAssumption
    <3> QED BY <2>1, <3>1, <3>2
  <2> QED BY <1>1, <2>1, <2>2, <2>3, <2>4, RaisedEnds
<1> QED BY <1>2, <1>3

LEMMA InvalidateKeeps ==
  ASSUME SignInsInv, C!Invalidate
  PROVE  SignInsInv'
<1> DEFINE u == C!Raised(user)
<1>1. C!Becomes(u) /\ UNCHANGED <<time, challenge, flows, mfa, request, accepted, refused>>
  BY DEF C!Invalidate
<1>2. u \in PersonRow /\ u.tv = user.tv + 1 /\ user.tv \in Nat
  BY RaisedIsNext DEF SignInsInv, CodesShape, PersonRow
<1> HIDE DEF u
<1>3. user' = u /\ sessions' = {s \in sessions : s.tv = u.tv}
  BY <1>1 DEF C!Becomes
<1>4. sessions' = {}
  BY <1>2, <1>3 DEF SignInsInv, SessionsFit
<1>5. CodesShape' /\ CodesFit' /\ StepsFit' /\ SessionsFit'
  BY <1>1, <1>2, <1>3, <1>4
  DEF SignInsInv, CodesShape, CodesFit, CodeFits, StepsFit, SessionsFit, SessionsAreEarned, Enabled
<1>6. user'.tv > user.tv
  BY <1>2, <1>3
<1>7. ASSUME NEW d \in Client PROVE SignInFits(request[d])'
  <2>1. PICK q \in SignIn : q = request[d] /\ q = request'[d]
    BY <1>1 DEF SignInsInv, CodesShape
  <2>2. SignInFits(q)'
    BY <1>5, <1>6, <2>1, OthersKnow DEF SignInsInv
  <2> QED BY <2>1, <2>2
<1> QED BY <1>5, <1>7 DEF SignInsInv

\* A session begins with what its request knows, if the user is still the one it read.
LEMMA SessionKeeps ==
  ASSUME SignInsInv, NEW c \in Client, C!Session(c)
  PROVE  SignInsInv'
<1> DEFINE q == request[c]
           s == [tv |-> q.user.tv, by |-> q.by, password |-> q.user.password, issued |-> q.issued]
<1>1. q \in SignIn /\ UNCHANGED <<time, user, challenge, flows, mfa, accepted, refused>> /\ C!Ends(c) /\ SignInFits(q)
      /\ q.phase = "session"
  BY DEF C!Session, SignInsInv, CodesShape
<1>2. CASE q.user.tv # user.tv
  <2>1. UNCHANGED sessions
    BY <1>2 DEF C!Session
  <2> QED BY <1>1, <2>1, SignInEnds
<1>3. CASE q.user.tv = user.tv
  <2>1. sessions' = sessions \cup {s}
    BY <1>3 DEF C!Session
  <2>2. q.user = user /\ (q.by # "totp" => ~Enabled) /\ (q.by = "login" => q.issued = user.tv)
    BY <1>1, <1>3 DEF SignInFits
  <2>3. SessionsFit'
    <3>1. s.tv = user.tv /\ s.by = q.by /\ s.password = user.password /\ s.issued = q.issued
      BY <2>2
    <3> HIDE DEF s
    <3> QED BY <1>1, <2>1, <2>2, <3>1 DEF SignInsInv, SessionsFit, SessionsAreEarned, Enabled
  <2>4. CodesShape' /\ CodesFit' /\ StepsFit' /\ SignInFits(C!Idle)'
    BY <1>1, IdleSignIn, IdleFits
    DEF C!Ends, SignInsInv, CodesShape, CodesFit, CodeFits, StepsFit, Enabled, SignInFits
  <2> QED BY <1>1, <2>3, <2>4, IdleSignIn, OneSignInGoes DEF C!Ends
<1> QED BY <1>2, <1>3

\* A new flow has opened nothing.
LEMMA PendingKeeps ==
  ASSUME SignInsInv, NEW c \in Client, C!Pending(c)
  PROVE  SignInsInv'
<1> DEFINE q == request[c]
           row == [kind |-> q.by, tv |-> q.user.tv, expires |-> time + FlowLife, used |-> FALSE]
<1>1. q \in SignIn /\ UNCHANGED <<time, user, challenge, mfa, sessions, accepted, refused>> /\ C!Ends(c)
  BY DEF C!Pending, SignInsInv, CodesShape
<1>2. PICK f \in 1..MaxFlows : flows[f] = C!NoFlow /\ flows' = [flows EXCEPT ![f] = row]
  BY DEF C!Pending
<1>3. row \in FlowRow /\ ~row.used
  <2>1. time + FlowLife \in Nat /\ q.by \in Begins /\ q.user.tv \in Nat
    BY <1>1, SignInShape, CodesAssumption DEF SignInsInv, CodesShape, CodesAssumption
  <2> QED BY <2>1 DEF FlowRow
<1>4. ~flows[f].used
  BY <1>2 DEF C!NoFlow
<1> HIDE DEF row
<1>5. flows' \in [1..MaxFlows -> FlowRow] /\ \A g \in 1..MaxFlows : flows'[g].used <=> flows[g].used
  BY <1>2, <1>3, <1>4 DEF SignInsInv, CodesShape
<1>6. StepsFit'
  <2>1. Enabled => mfa.secret \in 1..MaxFlows
    BY CodesAssumption DEF SignInsInv, CodesShape, MfaRow, Enabled, CodesAssumption
  <2> QED BY <1>1, <1>5, <2>1 DEF SignInsInv, StepsFit, Enabled
<1>7. CodesShape' /\ CodesFit' /\ SessionsFit' /\ SignInFits(C!Idle)'
  BY <1>1, <1>5, IdleSignIn, IdleFits
  DEF C!Ends, SignInsInv, CodesShape, CodesFit, CodeFits, SessionsFit, SessionsAreEarned, Enabled, SignInFits
<1> QED BY <1>1, <1>6, <1>7, IdleSignIn, OneSignInGoes DEF C!Ends

-----------------------------------------------------------------------------
(* The steps that only read.                                               *)

LEMMA UserIsRead ==
  ASSUME SignInsInv, NEW c \in Client, C!LoginRead(c) \/ C!SetupMfa(c) \/ C!ResetRead(c)
  PROVE  SignInsInv'
<1>1. /\ UNCHANGED <<time, user, challenge, flows, mfa, sessions, accepted, refused>>
      /\ user \in PersonRow /\ user.tv \in Nat /\ mfa \in MfaRow
  BY DEF C!LoginRead, C!SetupMfa, C!ResetRead, SignInsInv, CodesShape, PersonRow
<1>2. CASE C!LoginRead(c)
  <2> DEFINE new == [C!Idle EXCEPT !.phase = "mfa", !.by = "password", !.user = user]
  <2>1. new \in SignIn /\ new.phase = "mfa" /\ new.by = "password" /\ new.user = user
    BY <1>1, IdleSignIn DEF SignIn, Begins
  <2>2. request' = [request EXCEPT ![c] = new]
    BY <1>2 DEF C!LoginRead, C!Starts
  <2> HIDE DEF new
  <2>3. SignInFits(new)
    BY <1>1, <2>1 DEF SignInFits, AboutCode, OpenCode, AboutFlow
  <2> QED BY <1>1, <2>1, <2>2, <2>3, OneSignInKnows
<1>3. CASE C!SetupMfa(c)
  <2> DEFINE new == [C!Idle EXCEPT !.phase = "pending", !.by = "enroll", !.user = user]
  <2>1. new \in SignIn /\ new.phase = "pending" /\ new.by = "enroll" /\ new.user = user
    BY <1>1, IdleSignIn DEF SignIn, Begins
  <2>2. request' = [request EXCEPT ![c] = new]
    BY <1>3 DEF C!SetupMfa, C!Starts
  <2> HIDE DEF new
  <2>3. SignInFits(new)
    BY <1>1, <2>1 DEF SignInFits, AboutCode, OpenCode, AboutFlow
  <2> QED BY <1>1, <2>1, <2>2, <2>3, OneSignInKnows
<1>4. CASE C!ResetRead(c)
  <2> DEFINE new == [C!Idle EXCEPT !.phase = "resetMfa", !.user = user, !.mfa = mfa]
  <2>1. new \in SignIn /\ new.phase = "resetMfa" /\ new.user = user
    BY <1>1, IdleSignIn DEF SignIn, Begins
  <2>2. request' = [request EXCEPT ![c] = new]
    BY <1>4 DEF C!ResetRead, C!Starts
  <2> HIDE DEF new
  <2>3. SignInFits(new)
    BY <1>1, <2>1 DEF SignInFits, AboutCode, OpenCode, AboutFlow
  <2> QED BY <1>1, <2>1, <2>2, <2>3, OneSignInKnows
<1> QED BY <1>2, <1>3, <1>4

\* An authenticator that is set up is asked for, whatever it is a moment later.
LEMMA LoginMfaKeeps ==
  ASSUME SignInsInv, NEW c \in Client, C!LoginMfa(c)
  PROVE  SignInsInv'
<1> DEFINE q == request[c]
           new == [q EXCEPT !.phase = IF Enabled THEN "pending" ELSE "session", !.by = IF Enabled THEN "totp" ELSE @]
<1>1. q \in SignIn /\ SignInFits(q) /\ q.phase = "mfa" /\ q.by = "password"
  BY DEF C!LoginMfa, SignInsInv, CodesShape, SignInFits
<1>2. request' = [request EXCEPT ![c] = new]
  BY SameSets DEF C!LoginMfa, SignInsInv, CodesShape
<1>3. /\ new \in SignIn /\ new.user = q.user
      /\ (Enabled => new.phase = "pending") /\ (~Enabled => new.phase = "session" /\ new.by = "password")
  BY <1>1 DEF SignIn, Begins
<1> HIDE DEF new
<1>4. SignInFits(new)
  BY <1>1, <1>3 DEF SignInFits, AboutCode, OpenCode, AboutFlow
<1> QED BY <1>2, <1>3, <1>4, OneSignInKnows DEF C!LoginMfa

LEMMA IssueReadKeeps ==
  ASSUME SignInsInv, NEW c \in Client, NEW x \in Purpose, C!IssueRead(c, x)
  PROVE  SignInsInv'
<1> DEFINE new == [C!Idle EXCEPT !.phase = "issue", !.by = x, !.user = user, !.challenge = challenge[x]]
<1>1. user \in PersonRow /\ user.tv \in Nat /\ challenge[x] \in CodeRow
  BY DEF SignInsInv, CodesShape, PersonRow
<1>2. new \in SignIn /\ new.phase = "issue" /\ new.by = x /\ new.user = user
  BY <1>1, IdleSignIn DEF SignIn, AboutCode, Purpose, Begins
<1>3. request' = [request EXCEPT ![c] = new]
  BY DEF C!IssueRead, C!Starts
<1> HIDE DEF new
<1>4. SignInFits(new)
  BY <1>1, <1>2 DEF SignInFits, AboutCode, OpenCode, AboutFlow
<1> QED BY <1>2, <1>3, <1>4, OneSignInKnows DEF C!IssueRead

LEMMA ConsumeReadKeeps ==
  ASSUME SignInsInv, NEW c \in Client, NEW x \in Purpose, NEW n, C!ConsumeRead(c, x, n)
  PROVE  SignInsInv'
<1> DEFINE p == IF n = challenge[x].code THEN "user" ELSE "refuse"
           new == [C!Idle EXCEPT !.by = x, !.challenge = challenge[x], !.phase = p]
<1>1. /\ challenge[x] \in CodeRow /\ user.tv \in Nat /\ user.tv > 0 /\ p \in {"user", "refuse"}
      /\ challenge[x].code # 0 /\ ~challenge[x].used /\ challenge[x].attempts < Attempts
  BY DEF C!ConsumeRead, C!Usable, SignInsInv, CodesShape, SessionsFit, PersonRow
<1>2. new \in SignIn /\ new.phase = p /\ new.by = x /\ new.challenge = challenge[x] /\ new.user.tv = 0
  BY <1>1, IdleSignIn DEF SignIn, AboutCode, OpenCode, Purpose, Begins
<1>3. request' = [request EXCEPT ![c] = new]
  BY DEF C!ConsumeRead, C!Starts
<1> HIDE DEF new, p
<1>4. SignInFits(new)
  BY <1>1, <1>2 DEF SignInFits, AboutCode, OpenCode, AboutFlow
<1> QED BY <1>2, <1>3, <1>4, OneSignInKnows DEF C!ConsumeRead

\* The code is one of the user as he is now.
LEMMA ConsumeUserKeeps ==
  ASSUME SignInsInv, NEW c \in Client, C!ConsumeUser(c)
  PROVE  SignInsInv'
<1> DEFINE q == request[c]
           p == IF q.by = "login" THEN "hasMfa" ELSE "consume"
           new == [q EXCEPT !.user = user, !.phase = p]
<1>1. q \in SignIn /\ SignInFits(q) /\ q.phase = "user" /\ user \in PersonRow /\ user.tv \in Nat
  BY DEF C!ConsumeUser, SignInsInv, CodesShape, PersonRow
<1>2. CASE ~C!OfThisUser(q.challenge)
  BY <1>2, SignInEnds DEF C!ConsumeUser
<1>3. CASE C!OfThisUser(q.challenge)
  <2>1. request' = [request EXCEPT ![c] = new]
    BY <1>3 DEF C!ConsumeUser, SignInsInv, CodesShape
  <2>2. /\ new \in SignIn /\ new.phase = p /\ new.user = user /\ new.by = q.by /\ new.challenge = q.challenge
        /\ p \in {"hasMfa", "consume"} /\ (q.by = "login" => p = "hasMfa")
    BY <1>1 DEF SignIn, AboutCode, OpenCode
  <2>3. q.challenge.tv = user.tv
    BY <1>3 DEF C!OfThisUser
  <2> HIDE DEF new, p
  <2>4. SignInFits(new)
    BY <1>1, <2>2, <2>3 DEF SignInFits, AboutCode, OpenCode, AboutFlow
  <2> QED BY <2>1, <2>2, <2>4, OneSignInKnows DEF C!ConsumeUser
<1> QED BY <1>2, <1>3

LEMMA HasMfaKeeps ==
  ASSUME SignInsInv, NEW c \in Client, C!HasMfa(c)
  PROVE  SignInsInv'
<1> DEFINE q == request[c]
           new == [q EXCEPT !.phase = "consume"]
<1>1. q \in SignIn /\ SignInFits(q) /\ q.phase = "hasMfa"
  BY DEF C!HasMfa, SignInsInv, CodesShape
<1>2. CASE Enabled
  BY <1>2, SameSets, SignInEnds DEF C!HasMfa
<1>3. CASE ~Enabled
  <2>1. request' = [request EXCEPT ![c] = new]
    BY <1>3, SameSets DEF C!HasMfa, SignInsInv, CodesShape
  <2>2. new \in SignIn /\ new.phase = "consume" /\ new.user = q.user /\ new.by = q.by /\ new.challenge = q.challenge
    BY <1>1 DEF SignIn, AboutCode, OpenCode
  <2> HIDE DEF new
  <2>3. SignInFits(new)
    BY <1>1, <1>3, <2>2 DEF SignInFits, AboutCode, OpenCode, AboutFlow
  <2> QED BY <2>1, <2>2, <2>3, OneSignInKnows DEF C!HasMfa
<1> QED BY <1>2, <1>3

LEMMA FlowIsRead ==
  ASSUME SignInsInv, NEW c \in Client, NEW f \in 1..MaxFlows, C!VerifyPending(c, f) \/ C!EnablePending(c, f)
  PROVE  SignInsInv'
<1> DEFINE verify == [C!Idle EXCEPT !.phase = "factor", !.by = "totp", !.flow = f]
           enable == [C!Idle EXCEPT !.phase = "enroll", !.flow = f]
<1>1. UNCHANGED <<time, user, challenge, flows, mfa, sessions, accepted, refused>> /\ user.tv \in Nat /\ user.tv > 0 /\ f \in Nat
  BY CodesAssumption DEF C!VerifyPending, C!EnablePending, SignInsInv, SessionsFit, CodesShape, PersonRow, CodesAssumption
<1>2. CASE C!VerifyPending(c, f)
  <2>1. verify \in SignIn /\ verify.phase = "factor" /\ verify.by = "totp" /\ verify.flow = f /\ verify.user.tv = 0
    BY <1>1, IdleSignIn DEF SignIn, AboutFlow, Begins
  <2>2. request' = [request EXCEPT ![c] = verify]
    BY <1>2 DEF C!VerifyPending, C!Starts
  <2> HIDE DEF verify
  <2>3. SignInFits(verify)
    BY <1>1, <2>1 DEF SignInFits, AboutCode, OpenCode, AboutFlow
  <2> QED BY <1>1, <2>1, <2>2, <2>3, OneSignInKnows
<1>3. CASE C!EnablePending(c, f)
  <2>1. enable \in SignIn /\ enable.phase = "enroll" /\ enable.flow = f /\ enable.user.tv = 0
    BY <1>1, IdleSignIn DEF SignIn, AboutFlow, Begins
  <2>2. request' = [request EXCEPT ![c] = enable]
    BY <1>3 DEF C!EnablePending, C!Starts
  <2> HIDE DEF enable
  <2>3. SignInFits(enable)
    BY <1>1, <2>1 DEF SignInFits, AboutCode, OpenCode, AboutFlow
  <2> QED BY <1>1, <2>1, <2>2, <2>3, OneSignInKnows
<1> QED BY <1>2, <1>3

\* A step that matches comes after the last one that was used.
LEMMA VerifyReadKeeps ==
  ASSUME SignInsInv, NEW c \in Client, NEW s \in TotpStep, C!VerifyRead(c, s)
  PROVE  SignInsInv'
<1> DEFINE q == request[c]
           new == [q EXCEPT !.phase = "verify", !.user = user, !.mfa = mfa, !.step = s]
<1>1. /\ q \in SignIn /\ SignInFits(q) /\ q.phase = "factor" /\ user \in PersonRow /\ user.tv \in Nat /\ mfa \in MfaRow
      /\ s \in Int /\ mfa.secret # 0 /\ s > mfa.last /\ request' = [request EXCEPT ![c] = new]
  <2>1. user.tv \in Nat /\ user \in PersonRow /\ mfa \in MfaRow /\ request \in [Client -> SignIn] /\ SignInFits(q)
    BY DEF SignInsInv, CodesShape, PersonRow
  <2>2. s \in Int
    BY CodesAssumption DEF TotpStep, CodesAssumption
  <2>3. q.phase = "factor" /\ mfa.secret # 0 /\ s > mfa.last
    BY SameSets DEF C!VerifyRead, C!Matches, Enabled
  <2>4. request' = [request EXCEPT ![c] = new]
    BY <2>1 DEF C!VerifyRead
  <2> QED BY <2>1, <2>2, <2>3, <2>4
<1>2. /\ new \in SignIn /\ new.phase = "verify" /\ new.user = user /\ new.by = q.by /\ new.mfa = mfa /\ new.step = s
      /\ new.flow = q.flow
  BY <1>1 DEF SignIn, AboutFlow
<1> HIDE DEF new
<1>3. SignInFits(new)
  BY <1>1, <1>2 DEF SignInFits, AboutCode, OpenCode, AboutFlow
<1> QED BY <1>1, <1>2, <1>3, OneSignInKnows DEF C!VerifyRead

LEMMA EnableReadKeeps ==
  ASSUME SignInsInv, NEW c \in Client, NEW s \in TotpStep, C!EnableRead(c, s)
  PROVE  SignInsInv'
<1> DEFINE q == request[c]
           new == [q EXCEPT !.phase = "enable", !.user = user, !.step = s]
<1>1. /\ q \in SignIn /\ SignInFits(q) /\ q.phase = "enroll" /\ user \in PersonRow /\ user.tv \in Nat
      /\ s \in Int /\ request' = [request EXCEPT ![c] = new]
  <2>1. user.tv \in Nat /\ user \in PersonRow /\ request \in [Client -> SignIn] /\ SignInFits(q)
    BY DEF SignInsInv, CodesShape, PersonRow
  <2>2. s \in Int
    BY CodesAssumption DEF TotpStep, CodesAssumption
  <2>3. q.phase = "enroll" /\ request' = [request EXCEPT ![c] = new]
    BY <2>1 DEF C!EnableRead
  <2> QED BY <2>1, <2>2, <2>3
<1>2. new \in SignIn /\ new.phase = "enable" /\ new.user = user /\ new.step = s /\ new.flow = q.flow
  BY <1>1 DEF SignIn, AboutFlow
<1> HIDE DEF new
<1>3. SignInFits(new)
  BY <1>1, <1>2 DEF SignInFits, AboutCode, OpenCode, AboutFlow
<1> QED BY <1>1, <1>2, <1>3, OneSignInKnows DEF C!EnableRead

-----------------------------------------------------------------------------
LEMMA SignInsBegin == C!Init => SignInsInv
<1> SUFFICES ASSUME C!Init PROVE SignInsInv
  OBVIOUS
<1>1. /\ time = 0 /\ user = [tv |-> 1, password |-> 1] /\ challenge = [x \in Purpose |-> C!NoChallenge]
      /\ sessions = {} /\ request = [d \in Client |-> C!Idle] /\ refused = [x \in Purpose |-> [n \in 1..MaxCodes |-> 0]]
      /\ accepted.codes = [x \in Purpose |-> [n \in 1..MaxCodes |-> 0]]
      /\ accepted.steps = [f \in 1..MaxFlows |-> [s \in TotpStep |-> 0]]
      /\ accepted \in [codes : CodeCounts, steps : StepCounts]
  BY SameSets DEF C!Init, CodeCounts, StepCounts
<1>2. flows \in [1..MaxFlows -> FlowRow] /\ mfa \in MfaRow /\ (Enabled => flows[mfa.secret].used)
  <2>1. C!NoFlow \in FlowRow
    BY DEF C!NoFlow, FlowRow, Begins
  <2>2. CASE mfa = C!NoMfa /\ flows = [f \in 1..MaxFlows |-> C!NoFlow]
    BY <2>1, <2>2, IdleSignIn DEF Enabled
  <2>3. CASE /\ mfa = [secret |-> 1, last |-> -1]
             /\ flows = [f \in 1..MaxFlows |-> IF f = 1 THEN [C!NoFlow EXCEPT !.kind = "enroll", !.used = TRUE] ELSE C!NoFlow]
    <3> DEFINE row == [C!NoFlow EXCEPT !.kind = "enroll", !.used = TRUE]
    <3>1. row \in FlowRow /\ row.used
      BY <2>1 DEF FlowRow, Begins
    <3> HIDE DEF row
    <3>2. 1 \in 0..MaxFlows /\ 1 \in 1..MaxFlows /\ -1 \in Int
      BY CodesAssumption DEF CodesAssumption
    <3> QED BY <2>1, <2>3, <3>1, <3>2 DEF MfaRow, row
  <2> QED BY <2>2, <2>3 DEF C!Init
<1>3. CodesShape
  BY <1>1, <1>2, IdleSignIn DEF CodesShape, PersonRow, CodeCounts
<1>4. CodesFit
  <2>1. C!NoChallenge.attempts = 0
    BY DEF C!NoChallenge
  <2> QED BY <1>1, <2>1, IdleSignIn, CodesAssumption DEF CodesFit, CodeFits, CodesAssumption
<1>5. StepsFit
  BY <1>1, <1>2 DEF StepsFit
<1>6. SessionsFit
  BY <1>1 DEF SessionsFit, SessionsAreEarned
<1>7. \A d \in Client : SignInFits(request[d])
  BY <1>1, IdleSignIn DEF SignInFits, AboutCode, OpenCode, AboutFlow
<1> QED BY <1>3, <1>4, <1>5, <1>6, <1>7 DEF SignInsInv

LEMMA SignInsStep == SignInsInv /\ [C!Next]_(C!vars) => SignInsInv'
<1> SUFFICES ASSUME SignInsInv, [C!Next]_(C!vars) PROVE SignInsInv'
  OBVIOUS
<1>1. ASSUME NEW c \in Client,
             \/ C!LoginRead(c) \/ C!LoginMfa(c) \/ C!Pending(c) \/ C!Session(c)
             \/ C!IssueWrite(c) \/ C!Refuse(c) \/ C!ConsumeUser(c) \/ C!HasMfa(c) \/ C!ConsumeWrite(c)
             \/ C!VerifyWrite(c) \/ C!SetupMfa(c) \/ C!EnableWrite(c)
             \/ C!ResetRead(c) \/ C!ResetWrite(c) \/ C!Fail(c)
      PROVE  SignInsInv'
  <2>1. CASE C!LoginRead(c) \/ C!SetupMfa(c) \/ C!ResetRead(c)
    BY <2>1, UserIsRead
  <2>2. CASE C!LoginMfa(c) \/ C!ConsumeUser(c) \/ C!HasMfa(c)
    BY <2>2, LoginMfaKeeps, ConsumeUserKeeps, HasMfaKeeps
  <2>3. CASE C!Pending(c) \/ C!Session(c)
    BY <2>3, PendingKeeps, SessionKeeps
  <2>4. CASE C!IssueWrite(c) \/ C!Refuse(c) \/ C!ConsumeWrite(c)
    BY <2>4, IssueKeeps, RefuseKeeps, ConsumeKeeps
  <2>5. CASE C!VerifyWrite(c) \/ C!EnableWrite(c) \/ C!ResetWrite(c)
    BY <2>5, VerifyKeeps, EnableKeeps, ResetKeeps
  <2>6. CASE C!Fail(c)
    BY <2>6, SignInEnds DEF C!Fail
  <2> QED BY <1>1, <2>1, <2>2, <2>3, <2>4, <2>5, <2>6
<1>2. ASSUME NEW c \in Client, NEW x \in Purpose, C!IssueRead(c, x) \/ \E n \in 0..MaxCodes : C!ConsumeRead(c, x, n)
      PROVE  SignInsInv'
  BY <1>2, IssueReadKeeps, ConsumeReadKeeps
<1>3. ASSUME NEW c \in Client, NEW f \in 1..MaxFlows, C!VerifyPending(c, f) \/ C!EnablePending(c, f)
      PROVE  SignInsInv'
  BY <1>3, FlowIsRead
<1>4. ASSUME NEW c \in Client, NEW s \in TotpStep, C!VerifyRead(c, s) \/ C!EnableRead(c, s)
      PROVE  SignInsInv'
  BY <1>4, VerifyReadKeeps, EnableReadKeeps
<1>5. CASE C!Invalidate
  BY <1>5, InvalidateKeeps
<1>6. CASE C!Tick \/ UNCHANGED C!vars
  <2>1. time \in Nat
    BY DEF SignInsInv, CodesShape
  <2>2. UNCHANGED <<user, challenge, flows, mfa, sessions, request, accepted, refused>> /\ time' \in Nat
    BY <1>6, <2>1 DEF C!Tick, C!vars
  <2> QED BY <2>2
      DEF SignInsInv, CodesShape, CodesFit, CodeFits, StepsFit, SessionsFit, SessionsAreEarned, SignInFits, Enabled
<1> QED BY <1>1, <1>2, <1>3, <1>4, <1>5, <1>6, SameSets DEF C!Next

LEMMA SignInsInvHolds == C!Spec => []SignInsInv
<1>1. C!Init => SignInsInv
  BY SignInsBegin
<1>2. SignInsInv /\ [C!Next]_(C!vars) => SignInsInv'
  BY SignInsStep
<1> QED BY <1>1, <1>2, PTL DEF C!Spec

\* Whatever is read before others write, a code opens one thing and is refused no more often than
\* it may be, a step of an authenticator opens one thing, and every session that lives began with
\* what the user asks of it now (Auth.consume, verifyMfa, enableMfa, session).
THEOREM SignInsStayEarned == C!Spec => []SignInsAreEarned
<1>1. SignInsInv => SignInsAreEarned
  BY DEF SignInsInv, CodesFit, CodeFits, StepsFit, SessionsFit, SignInsAreEarned, CodesWorkOnce, StepsWorkOnce
<1> QED BY <1>1, SignInsInvHolds, PTL
=============================================================================
