--------------------------- MODULE MCGuardedRows ---------------------------
(* Small instances of what decides from rows it read and writes them on    *)
(* the condition that nobody did meanwhile: Migrations, Migrations whose   *)
(* runners outlive their lease (Late), Codes (a code to sign in or to      *)
(* reset a password beside authenticators, and codes that are issued       *)
(* anew), Plans, Cache, and the two stores that carry out a transaction in *)
(* steps, JsonRows and PostgresRows.  They share no state; part says which *)
(* one a behaviour is about, and the others leave their variables as they  *)
(* begin, or at 0.                                                         *)
EXTENDS Migrations, PlansState, CodesState, CacheState, TLC

CONSTANTS
  r1, r2, r3, m1, m2, s1, s2, k1, k2,
  Client,
  MaxSettings, MaxTime,
  Tries, MaxSource, CacheTime

TwoMigrations == <<m1, m2>>
OneEdited == [r \in Runner |-> IF r = r3 THEN s2 ELSE s1]
TwoRunners == {r1, r2}
OneDeclared == [r \in TwoRunners |-> s1]

VARIABLES
  lock2, history2, pc2, mode2, version2, todo2, count2, record2, ran2,
  time, challenge, flows, request,
  planClock, settings, asked,
  home, cacheClock, source,
  rows, locks, store, answers,
  part

lateVars == <<lock2, history2, pc2, mode2, version2, todo2, count2, record2, ran2>>
codesVars == <<time, user, challenge, flows, mfa, sessions, request, accepted, refused>>
planVars == <<planClock, settings, plans, asked, trail, made>>
cacheVars == <<home, cacheClock, source, row, pending, loads, calls, fresh, overlaps>>
storeVars == <<rows, locks, store, answers>>

Late == INSTANCE Migrations WITH
  Runner <- TwoRunners, Irreversible <- {}, Declares <- OneDeclared, Overdue <- TwoRunners,
  lock <- lock2, history <- history2, pc <- pc2, mode <- mode2, version <- version2,
  todo <- todo2, count <- count2, record <- record2, ran <- ran2

C == INSTANCE Codes
P == INSTANCE Plans WITH Request <- TwoRunners, clock <- planClock, request <- asked
K == INSTANCE Cache WITH Attempts <- Tries, MaxTime <- CacheTime, clock <- cacheClock

\* One write, or one to each row in either order: it creates version 1, or makes 2 of it, or deletes it.
Writes(k) ==
  {[key |-> k, expected |-> 0, becomes |-> 1], [key |-> k, expected |-> 1, becomes |-> 2],
   [key |-> k, expected |-> 1, becomes |-> 0]}
FewWrites ==
  {<<w>> : w \in Writes(k1) \cup Writes(k2)}
    \cup {<<v, w>> : v \in Writes(k1), w \in Writes(k2)} \cup {<<v, w>> : v \in Writes(k2), w \in Writes(k1)}

J == INSTANCE JsonRows WITH
  Key <- {k1, k2}, Caller <- TwoRunners, Transaction <- FewWrites, Nobody <- NoRunner,
  file <- rows, lock <- locks, call <- store, answer <- answers
S == INSTANCE PostgresRows WITH
  Key <- {k1, k2}, Caller <- TwoRunners, Transaction <- FewWrites, Nobody <- NoRunner,
  table <- rows, holder <- locks, call <- store, answer <- answers

Alike == Permutations(TwoRunners)

\* The two processes are alike: one of them serves at least one caller.
Served == \E c \in Caller : home[c] = "p"

NoStore == rows = 0 /\ locks = 0 /\ store = 0 /\ answers = 0

CodesParts == Purpose \cup {"codes"}

RowsInit ==
  /\ part \in {"migrations", "late", "plans", "cache", "json", "postgres"} \cup CodesParts
  /\ Init /\ (part # "migrations" => ran = {} /\ mode = [r \in Runner |-> "up"])
  /\ Late!Init /\ (part # "late" => ran2 = {} /\ mode2 = [r \in TwoRunners |-> "up"])
  /\ P!Init
  /\ C!Init /\ (part \notin Purpose => mfa = C!NoMfa)
  /\ K!Init /\ (part # "cache" => \A c \in Caller : home[c] = "p") /\ Served
  /\ \/ part = "json" /\ J!Init
     \/ part = "postgres" /\ S!Init
     \/ part \notin {"json", "postgres"} /\ NoStore

\* One kind of code that is issued once, beside an authenticator; or codes issued again.
CodesBounds ==
  \/ /\ part \in Purpose
     /\ \A c \in Client : request'[c].by \in Purpose => request'[c].by = part
     /\ challenge'[part].code <= 1
  \/ /\ part = "codes"
     /\ \E x \in Purpose :
          challenge'[x] = C!NoChallenge /\ \A c \in Client : request'[c].by \notin {"totp", "enroll", x}

RowsNext ==
  /\ UNCHANGED part
  /\ \/ part = "migrations" /\ Next /\ UNCHANGED <<lateVars, codesVars, planVars, cacheVars, storeVars>>
     \/ part = "late" /\ Late!Next /\ UNCHANGED <<vars, codesVars, planVars, cacheVars, storeVars>>
     \/ part \in CodesParts /\ C!Next /\ CodesBounds /\ UNCHANGED <<vars, lateVars, planVars, cacheVars, storeVars>>
     \/ part = "plans" /\ P!Next /\ UNCHANGED <<vars, lateVars, codesVars, cacheVars, storeVars>>
     \/ part = "cache" /\ K!Next /\ UNCHANGED <<vars, lateVars, codesVars, planVars, storeVars>>
     \/ part = "json" /\ J!Next /\ UNCHANGED <<vars, lateVars, codesVars, planVars, cacheVars>>
     \/ part = "postgres" /\ S!Next /\ UNCHANGED <<vars, lateVars, codesVars, planVars, cacheVars>>

RowsSpec == RowsInit /\ [][RowsNext]_<<vars, lateVars, codesVars, planVars, cacheVars, storeVars, part>>

-----------------------------------------------------------------------------
\* A runner that lost its lease to one other commits no record under it and does not release
\* the lock of its successor, and what is recorded still ran and is a prefix of the plan
\* (Lock.renew, Lock.release).
LateKeepsToItsLease ==
  Late!RecordsUnderOwnLease /\ Late!ReleasesOwnLease /\ [](Late!RecordedRan /\ Late!AppliedIsPrefix)

\* However calls cross and wherever they stop, the rows of a file or of a table change by whole
\* transactions whose expectations they met, and a conflict or a success is only answered
\* where there was one (JsonStore.transact, PostgresStore.transact).
StoresAreAtomic == [][(part = "json" => J!AtomicStep) /\ (part = "postgres" => S!AtomicStep)]_storeVars
=============================================================================
