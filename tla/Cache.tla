------------------------------- MODULE Cache --------------------------------
(***************************************************************************)
(* packages/cache, remember(), over the adapter of packages/cache-nosql:   *)
(* one key, processes that each share their own load in progress, and a    *)
(* row in the store they have in common.  What is cached is a source that  *)
(* is changed and then invalidated; its value counts its changes.          *)
(*                                                                         *)
(* The row is deleted, and its versions begin again at 1, when it is       *)
(* invalidated.  Loads are numbered as they begin; 0 is none.              *)
(***************************************************************************)
EXTENDS CacheState, FiniteSetsExt

CONSTANTS
  Attempts,   \* how often a write is tried (4)
  MaxSource,  \* bound of the changes
  MaxTime     \* bound of the clock

VARIABLES
  home,      \* [Caller -> its process]
  clock,
  source

vars == <<home, clock, source, row, pending, loads, calls, fresh, overlaps>>

-----------------------------------------------------------------------------
NoRow == [version |-> 0, value |-> 0, expires |-> 0, load |-> 0]
NoLoad == [phase |-> "none", by |-> "none", row |-> NoRow, value |-> 0, expires |-> 0, tries |-> 0]
Idle == [phase |-> "idle", load |-> 0, row |-> NoRow, value |-> 0, tries |-> 0]

Init ==
  /\ home \in [Caller -> Process]
  /\ clock = 0 /\ source = 0 /\ row = NoRow
  /\ pending = [p \in Process |-> 0]
  /\ loads = [l \in Load |-> NoLoad]
  /\ calls = [c \in Caller |-> Idle]
  /\ fresh = 0 /\ overlaps = {}

Ends(c) == calls' = [calls EXCEPT ![c] = Idle]

-----------------------------------------------------------------------------
(* remember()                                                              *)

Begin(c) ==
  /\ calls[c].phase = "idle"
  /\ calls' = [calls EXCEPT ![c].phase = "get"]
  /\ UNCHANGED <<clock, source, row, pending, loads, fresh, overlaps>>

Hit == row.version > 0 /\ row.expires > clock

Get(c) ==
  /\ calls[c].phase = "get"
  /\ IF Hit THEN Ends(c) ELSE calls' = [calls EXCEPT ![c].phase = "miss"]
  /\ UNCHANGED <<clock, source, row, pending, loads, fresh, overlaps>>

\* The load in progress in this process is shared, or one begins.
Join(c) ==
  /\ calls[c].phase = "miss"
  /\ LET p == home[c] IN
       \/ /\ pending[p] # 0
          /\ calls' = [calls EXCEPT ![c].phase = "wait", ![c].load = pending[p]]
          /\ UNCHANGED <<pending, loads>>
       \/ /\ pending[p] = 0
          /\ \E l \in Load :
               /\ loads[l] = NoLoad /\ \A k \in 1..(l - 1) : loads[k] # NoLoad
               /\ loads' = [loads EXCEPT ![l] = [NoLoad EXCEPT !.phase = "load", !.by = p]]
               /\ pending' = [pending EXCEPT ![p] = l]
               /\ calls' = [calls EXCEPT ![c].phase = "wait", ![c].load = l]
  /\ UNCHANGED <<clock, source, row, fresh, overlaps>>

\* Bug: whatever is in progress by now is forgotten.
ForgetAny(p, l) == 0

Forget(p, l) == IF pending[p] = l THEN 0 ELSE pending[p]

\* Every caller of a load cleans up for itself.
Wake(c) ==
  /\ calls[c].phase = "wait" /\ loads[calls[c].load].phase \in {"done", "failed"}
  /\ pending' = [pending EXCEPT ![home[c]] = Forget(home[c], calls[c].load)]
  /\ Ends(c)
  /\ UNCHANGED <<clock, source, row, loads, fresh, overlaps>>

-----------------------------------------------------------------------------
(* A load, and the set() that ends it.                                     *)

LoadValue(l) ==
  /\ loads[l].phase = "load"
  /\ loads' = [loads EXCEPT ![l].phase = "read", ![l].value = source, ![l].expires = clock + Ttl]
  /\ UNCHANGED <<clock, source, row, pending, calls, fresh, overlaps>>

SetRead(l) ==
  /\ loads[l].phase = "read"
  /\ loads' = [loads EXCEPT ![l].phase = "write", ![l].row = row]
  /\ UNCHANGED <<clock, source, row, pending, calls, fresh, overlaps>>

Same(r) == row.version = r.version
TriesAgain(tries) == tries + 1 < Attempts
Failed(d) == [NoLoad EXCEPT !.phase = "failed", !.by = d.by]

SetWrite(l) ==
  /\ loads[l].phase = "write"
  /\ LET d == loads[l]
     IN IF Same(d.row)
          THEN /\ row' = [version |-> d.row.version + 1, value |-> d.value, expires |-> d.expires, load |-> l]
               /\ loads' = [loads EXCEPT ![l] = [NoLoad EXCEPT !.phase = "done", !.by = d.by]]
          ELSE /\ loads' = [loads EXCEPT ![l] =
                    IF TriesAgain(d.tries) THEN [d EXCEPT !.phase = "read", !.row = NoRow, !.tries = @ + 1] ELSE Failed(d)]
               /\ UNCHANGED row
  /\ UNCHANGED <<clock, source, pending, calls, fresh, overlaps>>

\* The loader or the store fails.
FailLoad(l) ==
  /\ l \in InProgress
  /\ loads' = [loads EXCEPT ![l] = Failed(@)]
  /\ UNCHANGED <<clock, source, row, pending, calls, fresh, overlaps>>

-----------------------------------------------------------------------------
(* The source changes, and the key is deleted after it.                    *)

Change(c) ==
  /\ calls[c].phase = "idle" /\ source < MaxSource
  /\ source' = source + 1
  /\ calls' = [calls EXCEPT ![c].phase = "find", ![c].value = source']
  /\ UNCHANGED <<clock, row, pending, loads, fresh, overlaps>>

Invalidated(c) ==
  /\ fresh' = Max({fresh, calls[c].value})
  /\ overlaps' = overlaps \cup InProgress
  /\ Ends(c)

DeleteRead(c) ==
  /\ calls[c].phase = "find"
  /\ IF row.version = 0
       THEN Invalidated(c)
       ELSE /\ calls' = [calls EXCEPT ![c].phase = "delete", ![c].row = row]
            /\ UNCHANGED <<fresh, overlaps>>
  /\ UNCHANGED <<clock, source, row, pending, loads>>

\* Bug: whoever wrote the row meanwhile is trusted.
ConflictTrusted(c) == Invalidated(c)

Conflict(c) ==
  /\ IF TriesAgain(calls[c].tries)
       THEN calls' = [calls EXCEPT ![c].phase = "find", ![c].row = NoRow, ![c].tries = @ + 1]
       ELSE Ends(c)
  /\ UNCHANGED <<fresh, overlaps>>

DeleteWrite(c) ==
  /\ calls[c].phase = "delete"
  /\ IF Same(calls[c].row) THEN row' = NoRow /\ Invalidated(c) ELSE Conflict(c) /\ UNCHANGED row
  /\ UNCHANGED <<clock, source, pending, loads>>

\* The store fails a read, or a write of a call that is not a load.
FailCall(c) ==
  /\ calls[c].phase \in {"get", "find", "delete"} /\ Ends(c)
  /\ UNCHANGED <<clock, source, row, pending, loads, fresh, overlaps>>

Tick ==
  /\ clock < MaxTime /\ clock' = clock + 1
  /\ UNCHANGED <<source, row, pending, loads, calls, fresh, overlaps>>

Step ==
  \/ \E c \in Caller :
       \/ Begin(c) \/ Get(c) \/ Join(c) \/ Wake(c)
       \/ Change(c) \/ DeleteRead(c) \/ DeleteWrite(c) \/ FailCall(c)
  \/ \E l \in Load : LoadValue(l) \/ SetRead(l) \/ SetWrite(l) \/ FailLoad(l)
  \/ Tick

Next == Step /\ UNCHANGED home

Spec == Init /\ [][Next]_vars
=============================================================================
