------------------------------ MODULE JsonRows ------------------------------
(***************************************************************************)
(* packages/json, JsonStore.transact(): processes that share a file. Each  *)
(* one takes the lock file, reads the rows, writes the new ones to a       *)
(* temporary file and renames it.  A process may stop between any two of   *)
(* these, which leaves its lock behind; somebody removes it when no call   *)
(* is at work.                                                             *)
(***************************************************************************)
EXTENDS Naturals, Sequences

CONSTANTS Key, Caller, Transaction, Nobody

VARIABLES
  file,    \* [Key -> version], the rows in the file
  lock,    \* the caller whose lock file there is
  call,    \* [Caller -> its phase, its writes, and the rows of its temporary file]
  answer

vars == <<file, lock, call, answer>>

R == INSTANCE Rows WITH
  db <- file,
  call <- [c \in Caller |->
            [phase |-> CASE call[c].phase = "idle" -> "idle"
                         [] call[c].phase = "renamed" -> "applied"
                         [] OTHER -> "asked",
             writes |-> call[c].writes]]

Idle == [phase |-> "idle", writes |-> <<>>, rows |-> <<>>]

Init ==
  /\ file = [k \in Key |-> 0]
  /\ lock = Nobody
  /\ call = [c \in Caller |-> Idle]
  /\ answer = [c \in Caller |-> "none"]

-----------------------------------------------------------------------------
Goes(c, phase) == call' = [call EXCEPT ![c].phase = phase]

Ends(c, told) ==
  /\ call' = [call EXCEPT ![c] = Idle]
  /\ answer' = [answer EXCEPT ![c] = told]

Ask(c, writes) ==
  /\ call[c] = Idle
  /\ call' = [call EXCEPT ![c] = [phase |-> "waiting", writes |-> writes, rows |-> <<>>]]
  /\ answer' = [answer EXCEPT ![c] = "none"]
  /\ UNCHANGED <<file, lock>>

\* Bug: the lock file is opened, whether or not it is there.
OpenLock(c) == lock' = c

TakeLock(c) == lock = Nobody /\ lock' = c

Lock(c) ==
  /\ call[c].phase = "waiting" /\ TakeLock(c) /\ Goes(c, "locked")
  /\ UNCHANGED <<file, answer>>

\* The deadline of the lock.
GiveUp(c) ==
  /\ call[c].phase = "waiting" /\ lock # Nobody /\ Ends(c, "error")
  /\ UNCHANGED <<file, lock>>

Check(c) ==
  /\ call[c].phase = "locked"
  /\ IF R!Holds(file, call[c].writes)
       THEN call' = [call EXCEPT ![c].phase = "written", ![c].rows = R!Applied(file, call[c].writes)]
       ELSE Goes(c, "refused")
  /\ UNCHANGED <<file, lock, answer>>

Rename(c) ==
  /\ call[c].phase = "written"
  /\ file' = call[c].rows /\ Goes(c, "renamed")
  /\ UNCHANGED <<lock, answer>>

\* Reading, writing or renaming fails; the temporary file is removed.
Fail(c) ==
  /\ call[c].phase \in {"locked", "written"} /\ Goes(c, "failed")
  /\ UNCHANGED <<file, lock, answer>>

Result(phase) == CASE phase = "renamed" -> "done" [] phase = "refused" -> "conflict" [] OTHER -> "error"

\* The lock is closed and removed.  When that fails it stays; and when the temporary file could not
\* be looked after, the caller of a rename is told of that.
Release(c) ==
  /\ call[c].phase \in {"renamed", "refused", "failed"}
  /\ \/ lock' = Nobody /\ Ends(c, Result(call[c].phase))
     \/ lock' = Nobody /\ call[c].phase = "renamed" /\ Ends(c, "error")
     \/ UNCHANGED lock /\ Ends(c, "error")
  /\ UNCHANGED file

Stop(c) ==
  /\ call[c] # Idle /\ Ends(c, "error")
  /\ UNCHANGED <<file, lock>>

\* "Stop writers before removing a stale lock."
RemoveLock ==
  /\ lock # Nobody /\ \A c \in Caller : call[c].phase \in {"idle", "waiting"}
  /\ lock' = Nobody
  /\ UNCHANGED <<file, call, answer>>

Next ==
  \/ \E c \in Caller :
       \/ \E writes \in Transaction : Ask(c, writes)
       \/ Lock(c) \/ GiveUp(c) \/ Check(c) \/ Rename(c) \/ Fail(c) \/ Release(c) \/ Stop(c)
  \/ RemoveLock

Spec == Init /\ [][Next]_vars

-----------------------------------------------------------------------------
(* Properties.                                                             *)

\* However processes cross and wherever they stop, the file changes as the rows of a store do:
\* all writes of a call or none, and only over the versions that it expects.
AtomicStep == [R!Next]_(R!vars)
ImplementsRows == R!Spec
=============================================================================
