------------------------------ MODULE MCRetries ------------------------------
(* Small instances of what executions, workers, requests and tabs try      *)
(* again or take from each other: Idempotency, Queue, ServiceKeys and      *)
(* Tabs.  They share no state; part says which one a behaviour is about.   *)
(* The others leave their variables at 0, or as Idempotency, Queue and     *)
(* ServiceKeys begin, and without tabs.                                    *)
EXTENDS Idempotency, QueueState, ServiceKeysState, TabsState, TLC

\* Model values that stand for different things in different parts, or for things of one part
\* that are never compared, so that they are permuted together.
CONSTANTS x1, x2, x3, y1, y2, z1, z2

X == {x1, x2, x3}
Y == {y1, y2}
Alike == Permutations(X) \cup Permutations(Y) \cup Permutations({z1, z2})

CONSTANTS
  Lease, BaseDelay, MaxDelay,
  Tries, MaxVersion,
  MaxSecrets, MaxClock

VARIABLES
  minute, rate, use, call,
  tabClock, shared, stored, lock,
  part

keyVars == <<minute, key, audit, rate, use, call, passed>>
tabVars == <<tabClock, shared, server, tab, stored, inbox, lock>>

Q == INSTANCE Queue
K == INSTANCE ServiceKeys WITH Caller <- X
T == INSTANCE Tabs WITH clock <- tabClock

NoTabs ==
  /\ tabClock = 0 /\ shared = 0 /\ stored = 0 /\ lock = 0
  /\ server = [secret |-> 0, revoked |-> "no"]
  /\ tab = [t \in Tab |-> T!Closed] /\ inbox = [t \in Tab |-> <<>>]

PartsInit ==
  /\ part \in {"claims", "queue", "keys", "tabs"}
  /\ Init /\ Q!Init /\ K!Init
  /\ part # "claims" => request = [e \in Exec |-> [key |-> z1, fingerprint |-> z1]]
  /\ (part = "tabs" /\ T!Init) \/ (part # "tabs" /\ NoTabs)

PartsNext ==
  /\ UNCHANGED part
  /\ \/ part = "claims" /\ Next /\ UNCHANGED <<queueVars, keyVars, tabVars>>
     \/ part = "queue" /\ Q!Next /\ UNCHANGED <<vars, keyVars, tabVars>>
     \/ part = "keys" /\ K!Next /\ UNCHANGED <<vars, queueVars, tabVars>>
     \/ part = "tabs" /\ T!Next /\ UNCHANGED <<vars, queueVars, keyVars>>

PartsSpec == PartsInit /\ [][PartsNext]_<<vars, queueVars, keyVars, tabVars, part>>
=============================================================================
