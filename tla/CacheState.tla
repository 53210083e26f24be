------------------------------ MODULE CacheState -----------------------------
(* What Cache promises, and the part of its state that the promises are    *)
(* about.                                                                  *)
EXTENDS Integers

CONSTANTS
  Process,
  Caller,     \* concurrent calls of remember() or delete()
  Ttl,
  MaxLoads    \* bound of the loads

CacheAssumption == Ttl \in Nat /\ MaxLoads \in Nat
ASSUME CacheAssumption

Load == 1..MaxLoads

VARIABLES
  row,       \* the row of the key
  pending,   \* [Process -> its entry of Cache.pending]
  loads,     \* [Load -> the promise of a load]
  calls,     \* [Caller -> its call]
  fresh,     \* the newest change whose invalidation has returned
  overlaps   \* the loads in progress when an invalidation took effect

InProgress == {l \in Load : loads[l].phase \in {"load", "read", "write"}}

\* A process loads a key once at a time, in whatever order the callers of a load wake up
\* while the next one begins.
OneLoadAtATime == \A l, k \in InProgress : loads[l].by = loads[k].by => l = k

\* A load that ended, well or not, is forgotten by the last of its callers: no call to come
\* is answered with it.
EndedLoadsAreForgotten ==
  \A p \in Process : pending[p] \in {0} \cup InProgress \cup {calls[c].load : c \in Caller}

\* A value older than an invalidation that returned comes from a load that was in progress
\* then, in some process; any other was removed, whatever was written beside the removal.
StaleValuesOverlapped ==
  row.version > 0 /\ row.value < fresh => row.load \in overlaps

\* A process loads a key once at a time, nobody waits for a load that has ended, and a value that
\* is older than the last invalidation was being loaded when it came (Cache.remember, NoSqlCache.set).
LoadsAreShared == OneLoadAtATime /\ EndedLoadsAreForgotten /\ StaleValuesOverlapped
=============================================================================
