---------------------------- MODULE PostgresRows ----------------------------
(***************************************************************************)
(* packages/postgres, PostgresStore.transact(): one statement for each     *)
(* write, in one transaction of READ COMMITTED.  A statement waits for     *)
(* whoever holds its row and then looks at the row again.  The server ends *)
(* transactions that wait for each other, and connections are lost.        *)
(***************************************************************************)
EXTENDS Naturals, Sequences

CONSTANTS Key, Caller, Transaction, Nobody

VARIABLES
  table,    \* [Key -> version], what is committed
  holder,   \* [Key -> the caller that holds the row, or its absence, until it ends]
  call,     \* [Caller -> its phase, its writes, and how many it has carried out]
  answer

vars == <<table, holder, call, answer>>

R == INSTANCE Rows WITH
  db <- table,
  call <- [c \in Caller |->
            [phase |-> CASE call[c].phase = "idle" -> "idle"
                         [] call[c].phase = "committed" -> "applied"
                         [] OTHER -> "asked",
             writes |-> call[c].writes]]

Idle == [phase |-> "idle", writes |-> <<>>, done |-> 0]

Init ==
  /\ table = [k \in Key |-> 0]
  /\ holder = [k \in Key |-> Nobody]
  /\ call = [c \in Caller |-> Idle]
  /\ answer = [c \in Caller |-> "none"]

-----------------------------------------------------------------------------
Free(c) == holder' = [k \in Key |-> IF holder[k] = c THEN Nobody ELSE holder[k]]

Ends(c, told) ==
  /\ call' = [call EXCEPT ![c] = Idle]
  /\ answer' = [answer EXCEPT ![c] = told]

Begin(c, writes) ==
  /\ call[c] = Idle
  /\ call' = [call EXCEPT ![c] = [phase |-> "running", writes |-> writes, done |-> 0]]
  /\ answer' = [answer EXCEPT ![c] = "none"]
  /\ UNCHANGED <<table, holder>>

Running(c) ==
  /\ call[c].phase = "running" /\ call[c].done < Len(call[c].writes)
  /\ answer[c] = "none"
Current(c) == call[c].writes[call[c].done + 1]

\* Bug: the statement names the row and not the version of it.
Exists(w) == w.expected = 0 <=> table[w.key] = 0

\* What INSERT ... ON CONFLICT DO NOTHING, UPDATE and DELETE ... WHERE version look for.
Matches(w) == table[w.key] = w.expected

\* A write that only asserts that there is no row finds none to hold.
Locks(w) == w.expected # 0 \/ w.becomes # 0

Statement(c) ==
  LET w == Current(c) IN
    /\ Running(c) /\ Matches(w)
    /\ \/ Locks(w) /\ holder[w.key] = Nobody /\ holder' = [holder EXCEPT ![w.key] = c]
       \/ ~Locks(w) /\ UNCHANGED holder
    /\ call' = [call EXCEPT ![c].done = call[c].done + 1]
    /\ UNCHANGED <<table, answer>>

\* No row was changed: Conflict, and the transaction is rolled back.
Refuse(c) ==
  /\ Running(c) /\ ~Matches(Current(c))
  /\ Free(c) /\ Ends(c, "conflict")
  /\ UNCHANGED table

Commit(c) ==
  /\ call[c].phase = "running" /\ call[c].done = Len(call[c].writes)
  /\ table' = R!Applied(table, call[c].writes)
  /\ Free(c)
  /\ call' = [call EXCEPT ![c].phase = "committed"]
  /\ UNCHANGED answer

\* The connection is lost: the caller is told so, the server notices later, and may have received
\* COMMIT before.
Lose(c) ==
  /\ call[c].phase # "idle" /\ answer[c] = "none"
  /\ answer' = [answer EXCEPT ![c] = "error"]
  /\ UNCHANGED <<table, holder, call>>

Return(c) ==
  /\ call[c].phase = "committed"
  /\ Ends(c, IF answer[c] = "none" THEN "done" ELSE "error")
  /\ UNCHANGED <<table, holder>>

\* A deadlock, the end of a connection that was lost or of a process; a ROLLBACK that fails is ignored.
Abort(c) ==
  /\ call[c].phase = "running"
  /\ Free(c) /\ Ends(c, "error")
  /\ UNCHANGED table

Next ==
  \E c \in Caller :
    \/ \E writes \in Transaction : Begin(c, writes)
    \/ Statement(c) \/ Refuse(c) \/ Commit(c) \/ Lose(c) \/ Return(c) \/ Abort(c)

Spec == Init /\ [][Next]_vars

-----------------------------------------------------------------------------
(* Properties.                                                             *)

\* Version checks of separate statements are together as good as one atomic check of all rows.
AtomicStep == [R!Next]_(R!vars)
ImplementsRows == R!Spec
=============================================================================
