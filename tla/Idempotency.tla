---------------------------- MODULE Idempotency ----------------------------
(***************************************************************************)
(* packages/idempotency: RTAppIdempotencyModule.execute over a             *)
(* NoSQLIdempotencyStore.                                                  *)
(*                                                                         *)
(* An execution is one call of execute(): its owner is a fresh UUID, so    *)
(* the execution itself stands for it.  Its scope and key are one member   *)
(* of Key, the digest of its input one member of Input.  Between two       *)
(* awaits an execution runs alone; every await is a step of its own.       *)
(*                                                                         *)
(* A conditional write is a message to the database.  The caller may hear  *)
(* that it committed, hear a Conflict, or hear nothing and go on with an   *)
(* error while the write is still under way: it then commits later or      *)
(* never.  A process may stop between any two steps.                       *)
(***************************************************************************)
EXTENDS Integers

CONSTANTS
  Exec,     \* calls of execute()
  Key,      \* (scope, key) pairs
  Input,    \* fingerprints of the input
  Value,    \* results of the work
  NoExec, NoInput, NoValue

ASSUME NullsAreNotData ==
  /\ NoExec \notin Exec
  /\ NoInput \notin Input
  /\ NoValue \notin Value

VARIABLES
  rows,     \* the claim rows of the store, by key; version 0: no row
  net,      \* conditional writes sent to the store and not yet decided
  request,  \* [Exec -> what the caller asked]
  pc,       \* [Exec -> where in execute() it is]
  result,   \* [Exec -> what its work returned]
  answer,   \* [Exec -> how the call ended]
  worked    \* the executions whose work was invoked

vars == <<rows, net, request, pc, result, answer, worked>>

-----------------------------------------------------------------------------
States == {"absent", "pending", "completed", "uncertain"}

Row == [version : Nat, fingerprint : Input \cup {NoInput}, owner : Exec \cup {NoExec},
        state : States, result : Value \cup {NoValue}]

NoRow == [version |-> 0, fingerprint |-> NoInput, owner |-> NoExec,
          state |-> "absent", result |-> NoValue]

\* Where an execution waits for the answer to the write it sent.
Sending == {"claim", "complete", "mark"}

Write == [exec : Exec, step : Sending, key : Key, expected : Nat, row : Row]

PC == {"start", "decide", "work", "toComplete", "toMark", "done"} \cup Sending

Kinds == {"none", "value", "conflict", "pending", "uncertain", "error", "crashed"}

Answer == [kind : Kinds, value : Value \cup {NoValue}]

Ended(kind) == [kind |-> kind, value |-> NoValue]
Returned(v) == [kind |-> "value", value |-> v]

KeyOf(e) == request[e].key
RowOf(e) == rows[KeyOf(e)]

Init ==
  /\ rows = [k \in Key |-> NoRow]
  /\ net = {}
  /\ request \in [Exec -> [key : Key, fingerprint : Input]]
  /\ pc = [e \in Exec |-> "start"]
  /\ result = [e \in Exec |-> NoValue]
  /\ answer = [e \in Exec |-> Ended("none")]
  /\ worked = {}

-----------------------------------------------------------------------------
(* claim(): create the row if the key has none.                            *)

ClaimWrite(e) ==
  [exec |-> e, step |-> "claim", key |-> KeyOf(e), expected |-> 0,
   row |-> [version |-> 1, fingerprint |-> request[e].fingerprint, owner |-> e,
            state |-> "pending", result |-> NoValue]]

Claim(e) ==
  /\ pc[e] = "start"
  /\ net' = net \cup {ClaimWrite(e)}
  /\ pc' = [pc EXCEPT ![e] = "claim"]
  /\ UNCHANGED <<rows, request, result, answer, worked>>

\* Bug: the fingerprint is not compared, and any input gets the stored result.
DecisionByKeyAlone(e, row) ==
  IF row.version = 0 THEN Ended("error")
  ELSE IF row.state = "completed" THEN Returned(row.result) ELSE Ended(row.state)

\* What a caller whose creation was refused is told about the row it reads.
Decision(e, row) ==
  CASE row.version = 0 -> Ended("error")
    [] row.version # 0 /\ row.fingerprint # request[e].fingerprint -> Ended("conflict")
    [] row.version # 0 /\ row.fingerprint = request[e].fingerprint ->
         IF row.state = "completed" THEN Returned(row.result) ELSE Ended(row.state)

Decide(e) ==
  /\ pc[e] = "decide"
  /\ \E reply \in {Decision(e, RowOf(e)), Ended("error")} :   \* the read itself may fail
       answer' = [answer EXCEPT ![e] = reply]
  /\ pc' = [pc EXCEPT ![e] = "done"]
  /\ UNCHANGED <<rows, net, request, result, worked>>

-----------------------------------------------------------------------------
(* The work, then complete() or markUncertain().                           *)

\* The work is invoked; it returns a value or it throws, and either way its
\* side effect may have happened.
Work(e) ==
  /\ pc[e] = "work"
  /\ worked' = worked \cup {e}
  /\ \/ \E v \in Value : /\ result' = [result EXCEPT ![e] = v]
                         /\ pc' = [pc EXCEPT ![e] = "toComplete"]
     \/ /\ pc' = [pc EXCEPT ![e] = "toMark"]
        /\ UNCHANGED result
  /\ UNCHANGED <<rows, net, request, answer>>

Owns(e, row) ==
  /\ row.version # 0
  /\ row.owner = e
  /\ row.fingerprint = request[e].fingerprint

\* Bug: a completed claim is overwritten too.
ReplaceableAlways(e, row) == Owns(e, row)

\* transition() overwrites a claim that is still its own and not completed.
Replaceable(e, row) == Owns(e, row) /\ row.state # "completed"

\* Bug: the row is written back under the version it was read at.
TransitionKeepingVersion(e, row, step) ==
  [exec |-> e, step |-> step, key |-> KeyOf(e), expected |-> row.version,
   row |-> [row EXCEPT !.state = IF step = "complete" THEN "completed" ELSE "uncertain",
                       !.result = IF step = "complete" THEN result[e] ELSE row.result]]

TransitionWrite(e, row, step) ==
  [exec |-> e, step |-> step, key |-> KeyOf(e), expected |-> row.version,
   row |-> [version |-> row.version + 1,
            fingerprint |-> row.fingerprint, owner |-> row.owner,
            state |-> IF step = "complete" THEN "completed" ELSE "uncertain",
            result |-> IF step = "complete" THEN result[e] ELSE row.result]]

Send(e, step) ==
  /\ Replaceable(e, RowOf(e))
  /\ net' = net \cup {TransitionWrite(e, RowOf(e), step)}
  /\ pc' = [pc EXCEPT ![e] = step]
  /\ UNCHANGED <<rows, request, result, answer, worked>>

End(e, reply) ==
  /\ pc' = [pc EXCEPT ![e] = "done"]
  /\ answer' = [answer EXCEPT ![e] = reply]

\* complete(): read the claim, then send its completion.  A failed read, or a
\* claim that is not this execution's, is a failure that execute() catches.
Complete(e) ==
  /\ pc[e] = "toComplete"
  /\ \/ Send(e, "complete")
     \/ /\ pc' = [pc EXCEPT ![e] = "toMark"]
        /\ UNCHANGED <<rows, net, request, result, answer, worked>>

\* markUncertain(): read the claim, then send the mark; a completed claim is
\* left alone, and a failure of the mark is swallowed.
Mark(e) ==
  /\ pc[e] = "toMark"
  /\ \/ Send(e, "mark")
     \/ /\ End(e, Ended("uncertain"))
        /\ UNCHANGED <<rows, net, request, result, worked>>

-----------------------------------------------------------------------------
(* The store decides a write, and its caller hears of it or not.           *)

\* Bug: the creation of a claim carries no condition.
HoldsForAnyClaim(w) == w.step = "claim" \/ rows[w.key].version = w.expected

Holds(w) == rows[w.key].version = w.expected

Apply(w) == rows' = [rows EXCEPT ![w.key] = w.row]

Awaited(w) == pc[w.exec] = w.step

\* Where execute() goes when the write it awaits committed ...
OnCommit(e, step) ==
  /\ \/ step = "claim" /\ pc' = [pc EXCEPT ![e] = "work"] /\ UNCHANGED answer
     \/ step = "complete" /\ End(e, Returned(result[e]))
     \/ step = "mark" /\ End(e, Ended("uncertain"))

\* Bug: a completion that was sent is taken for one that was recorded.
OnFailureHopeful(e, step, conflict) ==
  \/ step = "claim" /\ conflict /\ pc' = [pc EXCEPT ![e] = "decide"] /\ UNCHANGED answer
  \/ step = "claim" /\ ~conflict /\ End(e, Ended("error"))
  \/ step = "complete" /\ End(e, Returned(result[e]))
  \/ step = "mark" /\ End(e, Ended("uncertain"))

\* ... and when it failed, with a Conflict or with another error.
OnFailure(e, step, conflict) ==
  \/ step = "claim" /\ conflict /\ pc' = [pc EXCEPT ![e] = "decide"] /\ UNCHANGED answer
  \/ step = "claim" /\ ~conflict /\ End(e, Ended("error"))
  \/ step = "complete" /\ pc' = [pc EXCEPT ![e] = "toMark"] /\ UNCHANGED answer
  \/ step = "mark" /\ End(e, Ended("uncertain"))

Committed(w) ==
  /\ Awaited(w) /\ Holds(w)
  /\ Apply(w)
  /\ net' = net \ {w}
  /\ OnCommit(w.exec, w.step)
  /\ UNCHANGED <<request, result, worked>>

\* A Conflict also answers a write that met another transaction on its row,
\* whatever the version, so Holds(w) is not asked for.
Refused(w) ==
  /\ Awaited(w)
  /\ net' = net \ {w}
  /\ OnFailure(w.exec, w.step, TRUE)
  /\ UNCHANGED <<rows, request, result, worked>>

Unanswered(w) ==
  /\ Awaited(w)
  /\ OnFailure(w.exec, w.step, FALSE)
  /\ UNCHANGED <<rows, net, request, result, worked>>

\* A write nobody waits for any more commits if its condition holds ...
Late(w) ==
  /\ ~Awaited(w) /\ Holds(w)
  /\ Apply(w)
  /\ net' = net \ {w}
  /\ UNCHANGED <<request, pc, result, answer, worked>>

\* ... or is lost.
Lost(w) ==
  /\ ~Awaited(w)
  /\ net' = net \ {w}
  /\ UNCHANGED <<rows, request, pc, result, answer, worked>>

\* The process stops: nothing of the call survives but its row and its writes.
Crash(e) ==
  /\ pc[e] \notin {"start", "done"}
  /\ End(e, Ended("crashed"))
  /\ UNCHANGED <<rows, net, request, result, worked>>

Step(e) == Claim(e) \/ Decide(e) \/ Work(e) \/ Complete(e) \/ Mark(e)

Reply(w) == Committed(w) \/ Refused(w) \/ Unanswered(w)

Next ==
  \/ \E e \in Exec : Step(e) \/ Crash(e)
  \/ \E w \in net : Reply(w) \/ Late(w) \/ Lost(w)

Spec == Init /\ [][Next]_vars

-----------------------------------------------------------------------------
TypeOK ==
  /\ rows \in [Key -> Row]
  /\ net \subseteq Write
  /\ request \in [Exec -> [key : Key, fingerprint : Input]]
  /\ pc \in [Exec -> PC]
  /\ result \in [Exec -> Value \cup {NoValue}]
  /\ answer \in [Exec -> Answer]
  /\ worked \subseteq Exec

(* The work of one key is invoked by one execution at most, whatever       *)
(* crashes, is refused or times out: a claim is never taken over (comment  *)
(* above class RTAppIdempotencyModule).                                    *)
AtMostOnce == \A e, f \in worked : KeyOf(e) = KeyOf(f) => e = f

(* Whoever is answered with a value gets what the one execution that ran   *)
(* this very request computed: same key, same input.                       *)
ReplayFaithful ==
  \A e \in Exec : answer[e].kind = "value" =>
    \E f \in worked : /\ request[f] = request[e]
                      /\ result[f] = answer[e].value

(* A caller told of success can be told of it again: the value is durable  *)
(* before execute() returns.                                               *)
SuccessIsDurable ==
  \A e \in Exec : answer[e].kind = "value" =>
    RowOf(e).state = "completed" /\ RowOf(e).result = answer[e].value

(* Nothing overwrites a completed claim: neither the markUncertain() that  *)
(* follows a completion whose acknowledgement was lost, nor a write that   *)
(* was given up and commits late.                                          *)
CompletedIsFinal ==
  [][\A k \in Key : rows[k].state = "completed" => rows'[k] = rows[k]]_rows

-----------------------------------------------------------------------------
(* The strengthening that makes the four properties inductive.             *)

\* An execution past claim(), or whose work ran, owns its key's row.
Acquired(e) == pc[e] \in {"work", "toComplete", "toMark", "complete", "mark"}

OwnersOwn == \A e \in Exec : Acquired(e) \/ e \in worked => Owns(e, RowOf(e))

\* A row is the claim of its owner, and its value the one its owner computed.
RowsAreClaims ==
  \A k \in Key :
    /\ rows[k].version = 0 => rows[k] = NoRow
    /\ rows[k].version # 0 =>
         /\ rows[k].state # "absent"
         /\ rows[k].owner \in Exec
         /\ KeyOf(rows[k].owner) = k
         /\ rows[k].fingerprint = request[rows[k].owner].fingerprint
    /\ rows[k].state # "completed" => rows[k].result = NoValue

CompletedByOwner ==
  \A k \in Key : rows[k].state = "completed" =>
    /\ rows[k].version # 0
    /\ rows[k].owner \in worked
    /\ rows[k].result = result[rows[k].owner]

WritesAreOwn ==
  \A w \in net :
    /\ w.key = KeyOf(w.exec)
    /\ w.row.version = w.expected + 1
    /\ w.row.owner = w.exec
    /\ w.row.fingerprint = request[w.exec].fingerprint
    /\ w.step = "claim" => /\ w = ClaimWrite(w.exec)
                           /\ pc[w.exec] # "start" /\ ~Acquired(w.exec) /\ w.exec \notin worked
    /\ w.step # "claim" => w.expected # 0 /\ w.exec \in worked /\ Owns(w.exec, rows[w.key])
    /\ w.step = "complete" =>
         w.row.state = "completed" /\ w.row.result = result[w.exec] /\ w.row.result \in Value
    /\ w.step = "mark" => w.row.state = "uncertain" /\ w.row.result = NoValue

\* A write still under way was sent before its row was completed.
WritesAreOlder ==
  \A w \in net : /\ w.expected <= rows[w.key].version
                 /\ rows[w.key].state = "completed" => w.expected < rows[w.key].version

\* An execution runs its work once, completes only with what it returned, and
\* is not answered before it is done.
WorkIsOnce ==
  \A e \in Exec :
    /\ pc[e] \in {"start", "claim", "decide", "work"} => e \notin worked
    /\ Acquired(e) /\ pc[e] # "work" => e \in worked
    /\ pc[e] \in {"toComplete", "complete"} => result[e] \in Value
    /\ pc[e] # "done" => answer[e] = Ended("none")

IInv ==
  /\ TypeOK
  /\ OwnersOwn
  /\ RowsAreClaims
  /\ CompletedByOwner
  /\ WritesAreOwn
  /\ WritesAreOlder
  /\ WorkIsOnce
  /\ ReplayFaithful
  /\ SuccessIsDurable

-----------------------------------------------------------------------------
(* The store and its callers implement Once.                               *)

Promise == INSTANCE Once WITH
  runner   <- [k \in Key |-> rows[k].owner],
  ran      <- worked,
  recorded <- [k \in Key |-> rows[k].result],
  answered <- [e \in Exec |-> answer[e].value]

(* Every behaviour of the code is one Once allows.                         *)
ImplementsOnce == Promise!Spec
=============================================================================
