-------------------------- MODULE ServiceKeysState --------------------------
(* What ServiceKeys promises, and the part of its state that the promises  *)
(* are about.                                                              *)
EXTENDS Integers, FiniteSets

CONSTANTS
  RateLimit,   \* requests of the key in a minute
  MaxMinute    \* bound of the clock

ServiceKeysAssumption == RateLimit \in Nat /\ MaxMinute \in Nat
ASSUME ServiceKeysAssumption

Minute == 0..MaxMinute

VARIABLES
  key,      \* the row of SERVICE_KEYS; version 0 is no row
  audit,    \* the rows of SERVICE_KEY_AUDIT: <<version, action>>
  passed    \* [Minute -> the requests let through by the limit]

\* However many count at the same time, the limit lets no more through than it says.
LimitHolds == \A n \in Minute : passed[n] <= RateLimit

\* Every version of the key has its one audit row, which says how the key came to be as it is:
\* a rotation that races a revocation neither undoes it nor hides it.
AuditTellsAll ==
  /\ {a[1] : a \in audit} = 1..key.version /\ Cardinality(audit) = key.version
  /\ key.revoked <=> \E a \in audit : a[2] = "revoke"
  /\ key.token = Cardinality({a \in audit : a[2] # "revoke"})

\* No more requests pass in a minute than the limit, and every version of a service key has
\* its audit, and none that was not written (rateLimit, audit).
KeysAreGuarded == LimitHolds /\ AuditTellsAll
=============================================================================
