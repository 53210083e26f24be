--------------------------- MODULE RetriesProofs ----------------------------
(* What Idempotency promises of operations, what ServiceKeys promises of a *)
(* service key, its audit and its limit, what Cache promises of loads, and *)
(* what Queue promises of its messages, for any number of requests, loads, *)
(* messages and workers, and however often they try.                       *)
EXTENDS Idempotency, ServiceKeysState, CacheState, QueueState, FiniteSetTheorems, SequenceTheorems, TLAPS

CONSTANTS Tries, MaxVersion
VARIABLES minute, rate, use, call
K == INSTANCE ServiceKeys

CONSTANTS MaxSource, MaxTime
VARIABLES home, clock, source
L == INSTANCE Cache WITH Attempts <- Tries

CONSTANTS Lease, BaseDelay, MaxDelay
Q == INSTANCE Queue

-----------------------------------------------------------------------------
(* The operations of idempotency keys.                                     *)

\* Whatever execute() may end with is an answer.
LEMMA Replies ==
  /\ \A k \in Kinds : Ended(k) \in Answer /\ Ended(k).kind = k
  /\ \A v \in Value \cup {NoValue} : Returned(v) \in Answer /\ Returned(v).kind = "value" /\ Returned(v).value = v
BY DEF Ended, Returned, Answer, Kinds

\* A call that ends changes its own place and its own answer.
LEMMA Ending ==
  ASSUME TypeOK, NEW e \in Exec, NEW reply \in Answer, End(e, reply)
  PROVE  /\ pc' \in [Exec -> PC] /\ answer' \in [Exec -> Answer]
         /\ pc' = [pc EXCEPT ![e] = "done"]
         /\ answer'[e] = reply
         /\ \A x \in Exec \ {e} : answer'[x] = answer[x]
BY DEF TypeOK, End, PC

\* A call that ends without a value, the rows as they are, breaks neither promise.
LEMMA Refusing ==
  ASSUME IInv, NEW e \in Exec, NEW reply \in Answer, End(e, reply), reply.kind # "value",
         UNCHANGED <<rows, request, result, worked>>
  PROVE  ReplayFaithful' /\ SuccessIsDurable'
<1>1. \A x \in Exec : answer'[x].kind = "value" => x # e /\ answer'[x] = answer[x]
  BY Ending DEF IInv
<1>2. QED BY <1>1 DEF IInv, ReplayFaithful, SuccessIsDurable, RowOf, KeyOf

\* What transition() sends for a claim that is the sender's own.
LEMMA TransitionFacts ==
  ASSUME IInv, NEW e \in Exec, NEW step \in {"complete", "mark"}, Owns(e, RowOf(e))
  PROVE  LET w == TransitionWrite(e, RowOf(e), step)
         IN  /\ w \in Write
             /\ w.exec = e /\ w.step = step /\ w.key = KeyOf(e)
             /\ w.expected = RowOf(e).version
             /\ w.row.version = RowOf(e).version + 1
             /\ w.row.owner = e
             /\ w.row.fingerprint = request[e].fingerprint
             /\ w.row.state = IF step = "complete" THEN "completed" ELSE "uncertain"
             /\ w.row.result = IF step = "complete" THEN result[e] ELSE RowOf(e).result
<1>1. RowOf(e) \in Row /\ KeyOf(e) \in Key
  BY DEF IInv, TypeOK, RowOf, KeyOf
<1>2. result[e] \in Value \cup {NoValue}
  BY DEF IInv, TypeOK
<1> DEFINE r == RowOf(e)
           new == [version |-> r.version + 1, fingerprint |-> r.fingerprint, owner |-> r.owner,
                   state |-> IF step = "complete" THEN "completed" ELSE "uncertain",
                   result |-> IF step = "complete" THEN result[e] ELSE r.result]
<1>3. new \in Row
  BY <1>1, <1>2 DEF Row, States
<1>4. TransitionWrite(e, r, step) = [exec |-> e, step |-> step, key |-> KeyOf(e),
                                     expected |-> r.version, row |-> new]
  BY DEF TransitionWrite
<1>5. r.version \in Nat
  BY <1>1 DEF Row
<1> HIDE DEF r
<1>6. TransitionWrite(e, r, step) \in Write
  BY <1>1, <1>3, <1>4, <1>5 DEF Write, Sending
<1> QED BY <1>4, <1>6 DEF Owns, r

\* Each step of execute() preserves the invariant.
LEMMA ClaimKeeps == ASSUME IInv, NEW e \in Exec, Claim(e) PROVE IInv'
<1> USE NullsAreNotData DEF IInv
<1>1. TypeOK' BY DEF TypeOK, KeyOf, Claim, ClaimWrite, Row, Write, PC, Sending, States
<1>2. OwnersOwn' BY DEF OwnersOwn, KeyOf, RowOf, Owns, Acquired, Claim
<1>3. RowsAreClaims' BY DEF RowsAreClaims, KeyOf, Claim
<1>4. CompletedByOwner' BY DEF CompletedByOwner, Claim
<1>5. WritesAreOwn' BY DEF WritesAreOwn, KeyOf, Owns, Acquired, Claim, ClaimWrite, TypeOK, WorkIsOnce
<1>6. WritesAreOlder' BY DEF WritesAreOlder, KeyOf, Claim, ClaimWrite, TypeOK, Row, CompletedByOwner
<1>7. WorkIsOnce' BY DEF WorkIsOnce, Acquired, Claim
<1>8. ReplayFaithful' BY DEF ReplayFaithful, Claim
<1>9. SuccessIsDurable' BY DEF SuccessIsDurable, KeyOf, RowOf, Claim
<1> QED BY <1>1, <1>2, <1>3, <1>4, <1>5, <1>6, <1>7, <1>8, <1>9

LEMMA DecideKeeps == ASSUME IInv, NEW e \in Exec, Decide(e) PROVE IInv'
<1> USE NullsAreNotData DEF IInv
<1>1. TypeOK'
  <2>1. Decision(e, RowOf(e)) \in Answer /\ Ended("error") \in Answer
    <3>1. \A kind \in Kinds : Ended(kind) \in Answer
      BY Replies
    <3>2. /\ RowOf(e).version # 0 /\ RowOf(e).state # "completed" => RowOf(e).state \in Kinds
          /\ Returned(RowOf(e).result) \in Answer
      BY Replies DEF RowOf, KeyOf, TypeOK, Row, States, Kinds, RowsAreClaims
    <3>3. {"error", "conflict"} \subseteq Kinds
      BY DEF Kinds
    <3> QED BY <3>1, <3>2, <3>3 DEF Decision
  <2>2. answer' \in [Exec -> Answer]
    BY <2>1 DEF Decide, TypeOK
  <2>3. pc' \in [Exec -> PC]
    BY DEF Decide, TypeOK, PC
  <2> QED BY <2>2, <2>3 DEF Decide, TypeOK
<1>2. OwnersOwn' BY DEF OwnersOwn, KeyOf, RowOf, Owns, Acquired, Decide
<1>3. RowsAreClaims' BY DEF RowsAreClaims, KeyOf, Decide
<1>4. CompletedByOwner' BY DEF CompletedByOwner, Decide
<1>5. WritesAreOwn' BY DEF WritesAreOwn, KeyOf, Owns, Acquired, Decide, ClaimWrite
<1>6. WritesAreOlder' BY DEF WritesAreOlder, Decide
<1>7. WorkIsOnce' BY DEF WorkIsOnce, Acquired, Decide, TypeOK
<1>8. ASSUME NEW x \in Exec, x # e PROVE answer'[x] = answer[x]
  BY <1>8 DEF Decide, TypeOK
\* A value is the one of a completed row with the input of the request.
<1>9. answer'[e].kind = "value" =>
        /\ RowOf(e).version # 0 /\ RowOf(e).fingerprint = request[e].fingerprint
        /\ RowOf(e).state = "completed" /\ answer'[e].value = RowOf(e).result
  BY DEF Decide, Decision, Ended, Returned, TypeOK, RowOf, KeyOf, Row, States
<1>10. ReplayFaithful'
  <2>1. ASSUME answer'[e].kind = "value"
        PROVE  \E f \in worked : request[f] = request[e] /\ result[f] = answer'[e].value
    <3> DEFINE f == RowOf(e).owner
    <3>1. f \in worked /\ result[f] = RowOf(e).result /\ KeyOf(f) = KeyOf(e)
          /\ request[f].fingerprint = request[e].fingerprint
      BY <1>9, <2>1 DEF RowOf, KeyOf, CompletedByOwner, RowsAreClaims, TypeOK
    <3>2. request[f] = request[e]
      BY <3>1 DEF TypeOK, KeyOf
    <3> QED BY <1>9, <2>1, <3>1, <3>2
  <2> QED BY <1>8, <2>1 DEF ReplayFaithful, Decide
<1>11. SuccessIsDurable'
  BY <1>8, <1>9 DEF SuccessIsDurable, RowOf, KeyOf, Decide
<1> QED BY <1>1, <1>2, <1>3, <1>4, <1>5, <1>6, <1>7, <1>10, <1>11

LEMMA WorkKeeps == ASSUME IInv, NEW e \in Exec, Work(e) PROVE IInv'
<1> USE NullsAreNotData DEF IInv
<1>1. TypeOK'
  BY DEF TypeOK, Work, PC
<1>2. OwnersOwn' BY DEF OwnersOwn, KeyOf, RowOf, Owns, Acquired, Work, TypeOK
<1>3. RowsAreClaims' BY DEF RowsAreClaims, KeyOf, Work
<1>4. CompletedByOwner' BY DEF CompletedByOwner, Work, TypeOK, WorkIsOnce
<1>5. WritesAreOwn' BY DEF WritesAreOwn, KeyOf, Owns, Acquired, Work, TypeOK, Write, WorkIsOnce, ClaimWrite
<1>6. WritesAreOlder' BY DEF WritesAreOlder, Work
<1>7. WorkIsOnce' BY DEF WorkIsOnce, Acquired, Work, TypeOK
<1>8. ReplayFaithful' BY DEF ReplayFaithful, Work, TypeOK, WorkIsOnce
<1>9. SuccessIsDurable' BY DEF SuccessIsDurable, KeyOf, RowOf, Work
<1> QED BY <1>1, <1>2, <1>3, <1>4, <1>5, <1>6, <1>7, <1>8, <1>9

LEMMA CompleteKeeps == ASSUME IInv, NEW e \in Exec, Complete(e) PROVE IInv'
<1> USE NullsAreNotData DEF IInv
<1>1. TypeOK'
  <2>1. CASE Send(e, "complete")
    BY <2>1, TransitionFacts DEF TypeOK, Send, Replaceable, PC, Sending
  <2>2. CASE ~Send(e, "complete")
    BY <2>2, Replies, Ending DEF TypeOK, Complete, PC, Kinds
  <2> QED BY <2>1, <2>2
<1>2. OwnersOwn' BY DEF OwnersOwn, KeyOf, RowOf, Owns, Acquired, Complete, Send, TypeOK
<1>3. RowsAreClaims' BY DEF RowsAreClaims, KeyOf, Complete, Send
<1>4. CompletedByOwner' BY DEF CompletedByOwner, Complete, Send
<1>5. WritesAreOwn'
  <2>1. CASE Send(e, "complete")
    <3> DEFINE w == TransitionWrite(e, RowOf(e), "complete")
    <3>1. /\ Owns(e, RowOf(e)) /\ e \in worked /\ RowOf(e).version # 0
          /\ RowOf(e).result = NoValue /\ (pc[e] = "toComplete" => result[e] \in Value)
      BY <2>1 DEF Complete, Send, Replaceable, Owns, WorkIsOnce, Acquired, RowsAreClaims, RowOf, KeyOf, TypeOK
    <3>2. net' = net \cup {w} /\ pc' = [pc EXCEPT ![e] = "complete"] /\ UNCHANGED <<rows, request, result, worked>>
      BY <2>1 DEF Send
    <3>3. /\ w.exec = e /\ w.step = "complete" /\ w.key = KeyOf(e) /\ w.expected = RowOf(e).version
          /\ w.row.version = w.expected + 1 /\ w.row.owner = e
          /\ w.row.fingerprint = request[e].fingerprint
          /\ w.row.state = "completed" /\ w.row.result = result[e]
      BY <3>1, TransitionFacts
    <3> HIDE DEF w
    <3> QED BY <3>1, <3>2, <3>3 DEF WritesAreOwn, Complete, KeyOf, RowOf, Owns, Acquired, ClaimWrite
  <2>2. CASE UNCHANGED <<net, rows, request, result, worked>>
    BY <2>2 DEF WritesAreOwn, Complete, Send, KeyOf, Owns, Acquired, ClaimWrite, TypeOK, Write
  <2> QED BY <2>1, <2>2 DEF Complete
<1>6. WritesAreOlder' BY DEF WritesAreOlder, KeyOf, RowOf, Complete, Send, Replaceable, TransitionWrite, TypeOK, Row
<1>7. WorkIsOnce' BY DEF WorkIsOnce, Acquired, Complete, Send, TypeOK
<1>8. ReplayFaithful' BY DEF ReplayFaithful, Complete, Send
<1>9. SuccessIsDurable' BY DEF SuccessIsDurable, KeyOf, RowOf, Complete, Send
<1> QED BY <1>1, <1>2, <1>3, <1>4, <1>5, <1>6, <1>7, <1>8, <1>9

LEMMA MarkKeeps == ASSUME IInv, NEW e \in Exec, Mark(e) PROVE IInv'
<1> USE NullsAreNotData DEF IInv
<1>1. TypeOK'
  <2>1. CASE Send(e, "mark")
    BY <2>1, TransitionFacts DEF TypeOK, Send, Replaceable, PC, Sending
  <2>2. CASE ~Send(e, "mark")
    BY <2>2, Replies, Ending DEF TypeOK, Mark, PC, Kinds
  <2> QED BY <2>1, <2>2
<1>2. OwnersOwn' BY DEF OwnersOwn, KeyOf, RowOf, Owns, Acquired, Mark, Send, End, TypeOK
<1>3. RowsAreClaims' BY DEF RowsAreClaims, KeyOf, Mark, Send
<1>4. CompletedByOwner' BY DEF CompletedByOwner, Mark, Send
<1>5. WritesAreOwn'
  <2>1. CASE Send(e, "mark")
    <3> DEFINE w == TransitionWrite(e, RowOf(e), "mark")
    <3>1. /\ Owns(e, RowOf(e)) /\ e \in worked /\ RowOf(e).version # 0
          /\ RowOf(e).result = NoValue /\ (pc[e] = "toComplete" => result[e] \in Value)
      BY <2>1 DEF Mark, Send, Replaceable, Owns, WorkIsOnce, Acquired, RowsAreClaims, RowOf, KeyOf, TypeOK
    <3>2. net' = net \cup {w} /\ pc' = [pc EXCEPT ![e] = "mark"] /\ UNCHANGED <<rows, request, result, worked>>
      BY <2>1 DEF Send
    <3>3. /\ w.exec = e /\ w.step = "mark" /\ w.key = KeyOf(e) /\ w.expected = RowOf(e).version
          /\ w.row.version = w.expected + 1 /\ w.row.owner = e
          /\ w.row.fingerprint = request[e].fingerprint
          /\ w.row.state = "uncertain" /\ w.row.result = RowOf(e).result
      BY <3>1, TransitionFacts
    <3> HIDE DEF w
    <3> QED BY <3>1, <3>2, <3>3 DEF WritesAreOwn, KeyOf, RowOf, Owns, Acquired, ClaimWrite
  <2>2. CASE UNCHANGED <<net, rows, request, result, worked>>
    BY <2>2 DEF WritesAreOwn, Mark, Send, End, KeyOf, Owns, Acquired, ClaimWrite, TypeOK, Write
  <2> QED BY <2>1, <2>2 DEF Mark
<1>6. WritesAreOlder' BY DEF WritesAreOlder, KeyOf, RowOf, Mark, Send, Replaceable, TransitionWrite, TypeOK, Row
<1>7. WorkIsOnce' BY DEF WorkIsOnce, Acquired, Mark, Send, End, TypeOK
<1>8. ReplayFaithful' /\ SuccessIsDurable'
  <2>1. CASE Send(e, "mark")
    BY <2>1 DEF Send, ReplayFaithful, SuccessIsDurable, RowOf, KeyOf
  <2>2. CASE ~Send(e, "mark")
    BY <2>2, Refusing, Replies DEF Mark, Kinds
  <2> QED BY <2>1, <2>2
<1> QED BY <1>1, <1>2, <1>3, <1>4, <1>5, <1>6, <1>7, <1>8

LEMMA CrashKeeps == ASSUME IInv, NEW e \in Exec, Crash(e) PROVE IInv'
<1> USE NullsAreNotData DEF IInv
<1>1. TypeOK' BY DEF TypeOK, Crash, End, Ended, Answer, PC, Kinds
<1>2. OwnersOwn' BY DEF OwnersOwn, KeyOf, RowOf, Owns, Acquired, Crash, End
<1>3. RowsAreClaims' BY DEF RowsAreClaims, KeyOf, Crash
<1>4. CompletedByOwner' BY DEF CompletedByOwner, Crash
<1>5. WritesAreOwn' BY DEF WritesAreOwn, KeyOf, Owns, Acquired, Crash, End, ClaimWrite
<1>6. WritesAreOlder' BY DEF WritesAreOlder, Crash
<1>7. WorkIsOnce' BY DEF WorkIsOnce, Acquired, Crash, End, TypeOK
<1>8. ReplayFaithful' BY DEF ReplayFaithful, Crash, End, Ended
<1>9. SuccessIsDurable' BY DEF SuccessIsDurable, KeyOf, RowOf, Crash, End, Ended
<1> QED BY <1>1, <1>2, <1>3, <1>4, <1>5, <1>6, <1>7, <1>8, <1>9

\* Each decision of the store preserves the invariant: a claim commits only where
\* there is no row, any other write only over the version it read.
LEMMA CommittedKeeps == ASSUME IInv, NEW w \in net, Committed(w) PROVE IInv'
<1> USE NullsAreNotData DEF IInv
<1>1. TypeOK'
  <2>1. w \in Write /\ w.exec \in Exec /\ result[w.exec] \in Value \cup {NoValue}
    BY DEF TypeOK, Write
  <2>2. rows' \in [Key -> Row] /\ net' \subseteq Write
    BY <2>1 DEF TypeOK, Committed, Apply, Write
  <2>3. pc' \in [Exec -> PC] /\ answer' \in [Exec -> Answer]
    BY <2>1, Ending, Replies DEF TypeOK, Committed, OnCommit, PC, Kinds
  <2> QED BY <2>2, <2>3 DEF TypeOK, Committed
<1>2. OwnersOwn' BY DEF OwnersOwn, KeyOf, RowOf, Owns, Acquired, Committed, Holds, Apply, OnCommit, End, TypeOK, Row, WritesAreOwn, ClaimWrite
<1>3. RowsAreClaims' BY DEF RowsAreClaims, KeyOf, Committed, Apply, TypeOK, Write, Sending, WritesAreOwn, ClaimWrite
<1>4. CompletedByOwner' BY DEF CompletedByOwner, Committed, Apply, TypeOK, Write, Sending, WritesAreOwn, ClaimWrite
<1>5. WritesAreOwn' BY DEF WritesAreOwn, KeyOf, Owns, Acquired, Committed, Holds, Apply, OnCommit, End, TypeOK, Write, ClaimWrite
<1>6. WritesAreOlder' BY DEF WritesAreOlder, Committed, Holds, Apply, TypeOK, Write, WritesAreOwn
<1>7. WorkIsOnce' BY DEF WorkIsOnce, Acquired, Committed, Awaited, OnCommit, End, TypeOK
<1>8. ReplayFaithful'
  <2>1. w \in Write /\ w.exec \in Exec
    BY DEF TypeOK, Write
  <2>2. ASSUME NEW x \in Exec, answer'[x].kind = "value", answer'[x] # answer[x]
        PROVE  x \in worked /\ answer'[x].value = result[x]
    BY <2>1, <2>2, Ending, Replies
       DEF Committed, OnCommit, Awaited, Kinds, TypeOK, WorkIsOnce, Acquired
  <2> QED BY <2>2 DEF ReplayFaithful, Committed
<1>9. SuccessIsDurable'
  <2>0. w \in Write /\ w.exec \in Exec /\ w.key = KeyOf(w.exec) /\ result[w.exec] \in Value \cup {NoValue}
    BY DEF TypeOK, Write, WritesAreOwn
  <2>1. \A k \in Key : rows[k].state = "completed" => rows'[k] = rows[k]
    BY <2>0 DEF Committed, Apply, Holds, WritesAreOlder, Write
  <2>2. ASSUME NEW x \in Exec, answer'[x].kind = "value", answer'[x] = answer[x] 
        PROVE RowOf(x)'.state = "completed" /\ RowOf(x)'.result = answer'[x].value
    BY <2>1, <2>2 DEF SuccessIsDurable, RowOf, KeyOf, TypeOK, Committed
  <2>3. ASSUME NEW x \in Exec, answer'[x].kind = "value", answer'[x] # answer[x] 
        PROVE RowOf(x)'.state = "completed" /\ RowOf(x)'.result = answer'[x].value
    <3>1. x = w.exec /\ w.step = "complete" /\ answer'[x] = Returned(result[x])
      BY <2>0, <2>3, Ending, Replies DEF Committed, OnCommit, Kinds, TypeOK
    <3>2. rows'[KeyOf(x)] = w.row /\ w.row.state = "completed" /\ w.row.result = result[x]
      BY <2>0, <3>1 DEF Committed, Apply, WritesAreOwn, TypeOK, KeyOf
    <3> QED BY <3>1, <3>2, Replies, <2>0 DEF RowOf, KeyOf, Committed
  <2> QED BY <2>2, <2>3 DEF SuccessIsDurable
<1> QED BY <1>1, <1>2, <1>3, <1>4, <1>5, <1>6, <1>7, <1>8, <1>9

LEMMA RefusedKeeps == ASSUME IInv, NEW w \in net, Refused(w) PROVE IInv'
<1> USE NullsAreNotData DEF IInv
<1>1. TypeOK'
  BY Ending, Replies DEF TypeOK, Refused, OnFailure, PC, Kinds, Write
<1>2. OwnersOwn' BY DEF OwnersOwn, KeyOf, RowOf, Owns, Acquired, Refused, Awaited, OnFailure, End, TypeOK
<1>3. RowsAreClaims' BY DEF RowsAreClaims, KeyOf, Refused
<1>4. CompletedByOwner' BY DEF CompletedByOwner, Refused
<1>5. WritesAreOwn' BY DEF WritesAreOwn, KeyOf, Owns, Acquired, Refused, OnFailure, End, TypeOK, Write, ClaimWrite
<1>6. WritesAreOlder' BY DEF WritesAreOlder, Refused
<1>7. WorkIsOnce' BY DEF WorkIsOnce, Acquired, Refused, Awaited, OnFailure, End, TypeOK
<1>8. ReplayFaithful' /\ SuccessIsDurable'
  <2>1. CASE UNCHANGED answer
    BY <2>1 DEF Refused, ReplayFaithful, SuccessIsDurable, RowOf, KeyOf
  <2>2. CASE answer' # answer
    <3>1. w.exec \in Exec
      BY DEF TypeOK, Write
    <3> QED BY <3>1, <2>2, Refusing, Replies DEF Refused, OnFailure, Kinds
  <2> QED BY <2>1, <2>2
<1> QED BY <1>1, <1>2, <1>3, <1>4, <1>5, <1>6, <1>7, <1>8

LEMMA UnansweredKeeps == ASSUME IInv, NEW w \in net, Unanswered(w) PROVE IInv'
<1> USE NullsAreNotData DEF IInv
<1>1. TypeOK'
  BY Ending, Replies DEF TypeOK, Unanswered, OnFailure, PC, Kinds, Write
<1>2. OwnersOwn' BY DEF OwnersOwn, KeyOf, RowOf, Owns, Acquired, Unanswered, Awaited, OnFailure, End, TypeOK
<1>3. RowsAreClaims' BY DEF RowsAreClaims, KeyOf, Unanswered
<1>4. CompletedByOwner' BY DEF CompletedByOwner, Unanswered
<1>5. WritesAreOwn' BY DEF WritesAreOwn, KeyOf, Owns, Acquired, Unanswered, OnFailure, End, TypeOK, Write, ClaimWrite
<1>6. WritesAreOlder' BY DEF WritesAreOlder, Unanswered
<1>7. WorkIsOnce' BY DEF WorkIsOnce, Acquired, Unanswered, Awaited, OnFailure, End, TypeOK
<1>8. ReplayFaithful' /\ SuccessIsDurable'
  <2>1. CASE UNCHANGED answer
    BY <2>1 DEF Unanswered, ReplayFaithful, SuccessIsDurable, RowOf, KeyOf
  <2>2. CASE answer' # answer
    <3>1. w.exec \in Exec
      BY DEF TypeOK, Write
    <3> QED BY <3>1, <2>2, Refusing, Replies DEF Unanswered, OnFailure, Kinds
  <2> QED BY <2>1, <2>2
<1> QED BY <1>1, <1>2, <1>3, <1>4, <1>5, <1>6, <1>7, <1>8

LEMMA LateKeeps == ASSUME IInv, NEW w \in net, Late(w) PROVE IInv'
<1> USE NullsAreNotData DEF IInv
<1>1. TypeOK' BY DEF TypeOK, Late, Apply, Write
<1>2. OwnersOwn' BY DEF OwnersOwn, KeyOf, RowOf, Owns, Acquired, Late, Holds, Apply, TypeOK, Write, WritesAreOwn, ClaimWrite
<1>3. RowsAreClaims' BY DEF RowsAreClaims, KeyOf, Late, Apply, TypeOK, Write, Sending, WritesAreOwn, ClaimWrite
<1>4. CompletedByOwner' BY DEF CompletedByOwner, Late, Apply, TypeOK, Write, Sending, WritesAreOwn, ClaimWrite
<1>5. WritesAreOwn' BY DEF WritesAreOwn, KeyOf, Owns, Acquired, Late, Holds, Apply, TypeOK, Write, ClaimWrite
<1>6. WritesAreOlder' BY DEF WritesAreOlder, Late, Holds, Apply, TypeOK, Write, WritesAreOwn
<1>7. WorkIsOnce' BY DEF WorkIsOnce, Acquired, Late
<1>8. ReplayFaithful' BY DEF ReplayFaithful, Late
<1>9. SuccessIsDurable' BY DEF SuccessIsDurable, KeyOf, RowOf, Late, Holds, Apply, TypeOK, Write, WritesAreOlder
<1> QED BY <1>1, <1>2, <1>3, <1>4, <1>5, <1>6, <1>7, <1>8, <1>9

LEMMA LostKeeps == ASSUME IInv, NEW w \in net, Lost(w) PROVE IInv'
<1> USE NullsAreNotData DEF IInv
<1>1. TypeOK' BY DEF TypeOK, Lost
<1>2. OwnersOwn' BY DEF OwnersOwn, KeyOf, RowOf, Owns, Acquired, Lost
<1>3. RowsAreClaims' BY DEF RowsAreClaims, KeyOf, Lost
<1>4. CompletedByOwner' BY DEF CompletedByOwner, Lost
<1>5. WritesAreOwn' BY DEF WritesAreOwn, KeyOf, Owns, Acquired, Lost, ClaimWrite
<1>6. WritesAreOlder' BY DEF WritesAreOlder, Lost
<1>7. WorkIsOnce' BY DEF WorkIsOnce, Acquired, Lost
<1>8. ReplayFaithful' BY DEF ReplayFaithful, Lost
<1>9. SuccessIsDurable' BY DEF SuccessIsDurable, KeyOf, RowOf, Lost
<1> QED BY <1>1, <1>2, <1>3, <1>4, <1>5, <1>6, <1>7, <1>8, <1>9

\* The invariant holds at first, and every step preserves it.
LEMMA Initially == Init => IInv
<1> SUFFICES ASSUME Init PROVE IInv
  OBVIOUS
<1> USE NullsAreNotData DEF Init
<1>1. TypeOK
  BY DEF TypeOK, NoRow, Row, States, Answer, Kinds, Ended, PC
<1>2. OwnersOwn /\ RowsAreClaims /\ CompletedByOwner
  BY DEF OwnersOwn, RowsAreClaims, CompletedByOwner, Acquired, NoRow
<1>3. WritesAreOwn /\ WritesAreOlder /\ WorkIsOnce
  BY DEF WritesAreOwn, WritesAreOlder, WorkIsOnce, Acquired
<1>4. ReplayFaithful /\ SuccessIsDurable
  BY DEF ReplayFaithful, SuccessIsDurable, Ended
<1> QED BY <1>1, <1>2, <1>3, <1>4 DEF IInv

LEMMA Inductive == IInv /\ [Next]_vars => IInv'
<1> SUFFICES ASSUME IInv, [Next]_vars PROVE IInv'
  OBVIOUS
<1>1. CASE Next
  <2>1. ASSUME NEW e \in Exec, Step(e) \/ Crash(e) PROVE IInv'
    BY <2>1, ClaimKeeps, DecideKeeps, WorkKeeps, CompleteKeeps, MarkKeeps, CrashKeeps DEF Step
  <2>2. ASSUME NEW w \in net, Reply(w) \/ Late(w) \/ Lost(w) PROVE IInv'
    BY <2>2, CommittedKeeps, RefusedKeeps, UnansweredKeeps, LateKeeps, LostKeeps DEF Reply
  <2> QED BY <1>1, <2>1, <2>2 DEF Next
<1>2. CASE UNCHANGED vars
  BY <1>2 DEF IInv, vars, TypeOK, OwnersOwn, RowsAreClaims, CompletedByOwner, WritesAreOwn,
       WritesAreOlder, WorkIsOnce, ReplayFaithful, SuccessIsDurable,
       KeyOf, RowOf, Owns, Acquired, ClaimWrite
<1> QED BY <1>1, <1>2

(* The strengthened invariant holds in every reachable state.              *)
THEOREM Invariance == Spec => []IInv
BY Initially, Inductive, PTL DEF Spec

(* The work of a key is invoked by one execution at most, for any number   *)
(* of executions, keys and inputs (execute() and claim()).                 *)
THEOREM WorkedAtMostOnce == Spec => []AtMostOnce
<1>1. IInv => AtMostOnce
  BY DEF IInv, AtMostOnce, OwnersOwn, Owns, RowOf, TypeOK
<1> QED BY <1>1, Invariance, PTL

(* Every value execute() answers with is the one that the execution which  *)
(* ran the same key with the same input computed.                          *)
THEOREM RepliesAreFaithful == Spec => []ReplayFaithful
BY Invariance, PTL DEF IInv

(* A caller that was told of success left its value in the store.          *)
THEOREM SuccessesAreDurable == Spec => []SuccessIsDurable
BY Invariance, PTL DEF IInv

\* A write that holds is not one to a completed row.
LEMMA WritesSpareCompleted ==
  ASSUME IInv, NEW w \in net, Holds(w), Apply(w), NEW k \in Key, rows[k].state = "completed"
  PROVE  rows'[k] = rows[k]
BY DEF IInv, TypeOK, Row, Holds, Apply, WritesAreOlder

(* No write changes a completed claim: transition() checks the state it    *)
(* read, and its condition that the row is still the one it read.          *)
THEOREM CompletedStaysFinal == Spec => CompletedIsFinal
<1> DEFINE Final == \A k \in Key : rows[k].state = "completed" => rows'[k] = rows[k]
<1>1. ASSUME IInv, [Next]_vars PROVE [Final]_rows
  <2>1. ASSUME NEW e \in Exec, Step(e) \/ Crash(e) PROVE UNCHANGED rows
    BY <2>1 DEF Step, Crash, Claim, Decide, Work, Complete, Mark, Send
  <2>2. ASSUME NEW w \in net, Reply(w) \/ Late(w) \/ Lost(w)
        PROVE  UNCHANGED rows \/ (Holds(w) /\ Apply(w))
    BY <2>2 DEF Reply, Committed, Refused, Unanswered, Late, Lost
  <2> QED BY <1>1, <2>1, <2>2, WritesSpareCompleted DEF Next, vars
<1> QED BY <1>1, Invariance, PTL DEF Spec, CompletedIsFinal

-----------------------------------------------------------------------------
(* Refinement: a write of the store maps to a step of Once.                *)

\* Steps that Once does not see.
LEMMA Stutters ==
  ASSUME IInv, UNCHANGED worked,
         \A k \in Key : rows'[k].owner = rows[k].owner /\ rows'[k].result = rows[k].result,
         \A e \in Exec : answer'[e].value = answer[e].value
  PROVE  UNCHANGED Promise!onceVars
BY DEF Promise!onceVars

\* A call that ends without a value leaves what callers were answered as it is.
LEMMA EndsSilently ==
  ASSUME IInv, NEW e \in Exec, pc[e] # "done", NEW kind \in Kinds, End(e, Ended(kind))
  PROVE  \A x \in Exec : answer'[x].value = answer[x].value
<1>1. answer[e].value = NoValue
  BY DEF IInv, WorkIsOnce, Ended
<1>2. Ended(kind).value = NoValue
  BY DEF Ended
<1> QED BY <1>1, <1>2, Ending, Replies DEF IInv

\* A step of execute() runs the work, answers, or is not seen by Once.
LEMMA StepMaps ==
  ASSUME IInv, NEW e \in Exec, Step(e) \/ Crash(e)
  PROVE  [Promise!Next]_(Promise!onceVars)
<1> USE DEF IInv
<1>0. KeyOf(e) \in Key /\ RowOf(e) = rows[KeyOf(e)] /\ answer \in [Exec -> Answer]
  BY DEF KeyOf, RowOf, TypeOK
<1>1. CASE Claim(e)
  BY <1>1, Stutters DEF Claim
<1>2. CASE Decide(e)
  <2>1. answer[e].value = NoValue
    BY <1>2 DEF Decide, WorkIsOnce, Ended
  <2>2. \A x \in Exec \ {e} : answer'[x] = answer[x]
    BY <1>2 DEF Decide, TypeOK
  <2>3. CASE answer'[e].value = NoValue
    BY <1>2, <2>1, <2>2, <2>3, Stutters DEF Decide
  <2>4. CASE answer'[e].value # NoValue
    <3>1. answer'[e].value = RowOf(e).result
      BY <1>2, <2>4 DEF Decide, Decision, Ended, Returned, TypeOK
    <3>2. Promise!Answer(KeyOf(e), e)
      BY <1>0, <1>2, <2>1, <2>2, <2>4, <3>1 DEF Decide, Promise!Answer
    <3> QED BY <1>0, <3>2 DEF Promise!Next
  <2> QED BY <2>3, <2>4
<1>3. CASE Work(e)
  <2>1. RowOf(e).owner = e /\ e \notin worked
    BY <1>3 DEF Work, OwnersOwn, Acquired, Owns, WorkIsOnce
  <2>2. Promise!Run(KeyOf(e), e)
    BY <1>0, <1>3, <2>1 DEF Work, Promise!Run
  <2> QED BY <1>0, <2>2 DEF Promise!Next
<1>4. CASE Complete(e)
  BY <1>4, Stutters DEF Complete, Send
<1>5. CASE Mark(e)
  <2>1. CASE Send(e, "mark")
    BY <1>5, <2>1, Stutters DEF Send
  <2>2. CASE End(e, Ended("uncertain")) /\ UNCHANGED <<rows, worked>>
    BY <1>5, <2>2, EndsSilently, Stutters DEF Mark, Kinds
  <2> QED BY <1>5, <2>1, <2>2 DEF Mark
<1>6. CASE Crash(e)
  BY <1>6, EndsSilently, Stutters DEF Crash, Kinds
<1> QED BY <1>1, <1>2, <1>3, <1>4, <1>5, <1>6 DEF Step

\* A decision of the store elects, records, or is not seen by Once.
LEMMA WriteMaps ==
  ASSUME IInv, NEW w \in net, Reply(w) \/ Late(w) \/ Lost(w)
  PROVE  [Promise!Next]_(Promise!onceVars)
<1> USE DEF IInv
<1>0. /\ w \in Write /\ w.exec \in Exec /\ w.key \in Key /\ w.row \in Row /\ w.key = KeyOf(w.exec)
      /\ rows \in [Key -> Row] /\ w.step \in {"claim", "complete", "mark"}
      /\ rows[w.key].version \in Nat /\ w.expected \in Nat
  BY DEF TypeOK, Write, Row, WritesAreOwn, Sending
<1>1. CASE Refused(w) \/ Unanswered(w)
  <2>1. \A x \in Exec : answer'[x].value = answer[x].value
    BY <1>0, <1>1, EndsSilently DEF Refused, Unanswered, OnFailure, Awaited, Kinds
  <2> QED BY <1>1, <2>1, Stutters DEF Refused, Unanswered
<1>2. CASE Lost(w)
  BY <1>2, Stutters DEF Lost
<1>3. CASE Holds(w) /\ Apply(w) /\ UNCHANGED <<request, worked>> /\ w.step = "claim" /\ UNCHANGED answer
  <2>1. /\ rows[w.key].owner = NoExec /\ rows[w.key].result = NoValue
        /\ w.row.owner = w.exec /\ w.row.result = NoValue
    BY <1>0, <1>3 DEF Holds, WritesAreOwn, ClaimWrite, RowsAreClaims, NoRow
  <2>2. Promise!Elect(w.key, w.exec)
    BY <1>0, <1>3, <2>1 DEF Apply, Promise!Elect
  <2> QED BY <1>0, <2>2 DEF Promise!Next
<1>4. CASE Holds(w) /\ Apply(w) /\ UNCHANGED worked /\ w.step = "mark"
           /\ \A x \in Exec : answer'[x].value = answer[x].value
  <2>1. rows[w.key].owner = w.exec /\ rows[w.key].state # "completed"
    BY <1>0, <1>4 DEF Holds, WritesAreOwn, WritesAreOlder, Owns
  <2>2. rows[w.key].result = w.row.result /\ w.row.owner = w.exec
    BY <1>0, <1>4, <2>1 DEF WritesAreOwn, RowsAreClaims
  <2> QED BY <1>0, <1>4, <2>1, <2>2, Stutters DEF Apply
<1>5. ASSUME Holds(w), Apply(w), w.step = "complete"
      PROVE  /\ rows[w.key].owner = w.exec /\ w.exec \in worked
             /\ rows[w.key].result = NoValue
             /\ w.row.owner = w.exec /\ w.row.result = result[w.exec] /\ w.row.result \in Value
  BY <1>0, <1>5 DEF Holds, WritesAreOwn, WritesAreOlder, Owns, RowsAreClaims
<1>6. CASE Late(w)
  <2>1. CASE w.step = "complete"
    <3>1. Promise!Record(w.key, w.row.result)
      BY <1>0, <1>5, <1>6, <2>1 DEF Late, Apply, Promise!Record
    <3> QED BY <1>0, <1>5, <1>6, <2>1, <3>1 DEF Late, Promise!Next
  <2> QED BY <1>0, <1>3, <1>4, <1>6, <2>1 DEF Late
<1>7. CASE Committed(w)
  <2>1. CASE w.step = "complete"
    <3>1. End(w.exec, Returned(w.row.result)) /\ answer[w.exec].value = NoValue
      BY <1>0, <1>5, <1>7, <2>1 DEF Committed, OnCommit, Awaited, WorkIsOnce, Ended
    <3>2. answer'[w.exec].value = w.row.result /\ \A x \in Exec \ {w.exec} : answer'[x] = answer[x]
      BY <1>0, <1>5, <1>7, <2>1, <3>1, Ending, Replies DEF Committed
    <3>3. Promise!RecordAndAnswer(w.key, w.row.result)
      BY <1>0, <1>5, <1>7, <2>1, <3>1, <3>2 DEF Committed, Apply, Promise!RecordAndAnswer
    <3> QED BY <1>0, <1>5, <1>7, <2>1, <3>3 DEF Committed, Promise!Next
  <2>2. CASE w.step = "mark"
    <3>1. \A x \in Exec : answer'[x].value = answer[x].value
      BY <1>0, <1>7, <2>2, EndsSilently DEF Committed, OnCommit, Awaited, Kinds
    <3> QED BY <1>4, <1>7, <2>2, <3>1 DEF Committed
  <2>3. CASE w.step = "claim"
    BY <1>3, <1>7, <2>3 DEF Committed, OnCommit
  <2> QED BY <1>0, <2>1, <2>2, <2>3
<1> QED BY <1>1, <1>2, <1>6, <1>7 DEF Reply

(* Every behaviour of the store and its callers is one that Once allows.   *)
THEOREM Refinement == Spec => ImplementsOnce
<1>1. Init => Promise!Init
  BY DEF Init, Promise!Init, NoRow, Ended
<1>2. IInv /\ [Next]_vars => [Promise!Next]_(Promise!onceVars)
  <2>1. CASE UNCHANGED vars
    BY <2>1 DEF vars, Promise!onceVars
  <2> QED BY <2>1, StepMaps, WriteMaps DEF Next
<1> QED BY <1>1, <1>2, Invariance, PTL DEF Spec, ImplementsOnce, Promise!Spec

-----------------------------------------------------------------------------
(* The service key, its audit and its limit.                               *)

Managing == {"create", "rotate", "revoke"}
KeyRow == [version : Nat, token : Nat, revoked : BOOLEAN]
KeyCall ==
  [phase : Managing \cup {"idle", "limit", "count", "used", "touch"}, key : KeyRow, at : Minute,
   count : Nat, use : Int, tries : Nat]

KeyShape ==
  /\ key \in KeyRow
  /\ rate \in [Minute -> Nat]
  /\ call \in [Caller -> KeyCall]
  /\ minute \in Minute /\ use \in Int

\* Whoever passed was counted, and whoever is about to be counted found room.
PassedAreCounted ==
  /\ passed = rate
  /\ \A n \in Minute : rate[n] <= RateLimit
  /\ \A c \in Caller : call[c].phase = "count" => call[c].count < RateLimit

\* Who manages the key read a row that is the key's, or older, and that its action may change.
RowsAreOld ==
  \A c \in Caller : call[c].phase \in Managing =>
    /\ call[c].key.version <= key.version
    /\ call[c].key.version = key.version => call[c].key = key
    /\ ~call[c].key.revoked

AuditIsWhole ==
  /\ IsFiniteSet(audit)
  /\ AuditTellsAll

KeysInv == KeyShape /\ PassedAreCounted /\ RowsAreOld /\ AuditIsWhole

-----------------------------------------------------------------------------
LEMMA KeysIdle == K!Idle \in KeyCall /\ K!Idle.phase = "idle"
BY ServiceKeysAssumption DEF K!Idle, K!NoKey, KeyCall, KeyRow, Minute, ServiceKeysAssumption

\* The step of one request that writes neither the key nor the counter.
LEMMA RequestMoves ==
  ASSUME KeysInv, NEW c \in Caller, NEW next \in KeyCall, call' = [call EXCEPT ![c] = next],
         UNCHANGED <<minute, key, audit, rate, passed>>, use' \in Int,
         next.phase = "count" => next.count < RateLimit,
         next.phase \in Managing => next.key = key /\ ~key.revoked
  PROVE  KeysInv'
<1>1. KeyShape'
  BY DEF KeysInv, KeyShape
<1>2. PassedAreCounted'
  BY DEF KeysInv, KeyShape, PassedAreCounted
<1>3. RowsAreOld'
  BY DEF KeysInv, KeyShape, RowsAreOld, KeyRow
<1> QED BY <1>1, <1>2, <1>3 DEF KeysInv, AuditIsWhole, AuditTellsAll

\* A row of a version that has none is one row more.
LEMMA AuditGrows ==
  ASSUME NEW version \in Nat, NEW action \in Managing, IsFiniteSet(audit),
         {a[1] : a \in audit} = 1..version, Cardinality(audit) = version,
         audit' = audit \cup {<<version + 1, action>>}
  PROVE  /\ IsFiniteSet(audit') /\ Cardinality(audit') = version + 1
         /\ {a[1] : a \in audit'} = 1..(version + 1)
         /\ (\E a \in audit' : a[2] = "revoke") <=> action = "revoke" \/ \E a \in audit : a[2] = "revoke"
         /\ Cardinality({a \in audit' : a[2] # "revoke"}) =
              Cardinality({a \in audit : a[2] # "revoke"}) + IF action = "revoke" THEN 0 ELSE 1
<1> DEFINE entry == <<version + 1, action>>
           Kept(s) == {a \in s : a[2] # "revoke"}
<1>1. entry \notin audit
  <2> SUFFICES ASSUME entry \in audit PROVE FALSE
    OBVIOUS
  <2>1. entry[1] \in {a[1] : a \in audit}
    OBVIOUS
  <2> QED BY <2>1
<1>2. IsFiniteSet(audit') /\ Cardinality(audit') = version + 1
  BY <1>1, FS_AddElement
<1>3. {a[1] : a \in audit'} = {a[1] : a \in audit} \cup {version + 1}
  <2>1. {a[1] : a \in audit'} = {a[1] : a \in audit} \cup {entry[1]}
    BY Zenon
  <2> QED BY <2>1
<1>4. 1..(version + 1) = 1..version \cup {version + 1}
  OBVIOUS
<1>5. IsFiniteSet(Kept(audit)) /\ Cardinality(Kept(audit)) \in Nat
  BY FS_Subset, FS_CardinalityType
<1>6. Kept(audit') = IF action = "revoke" THEN Kept(audit) ELSE Kept(audit) \cup {entry}
  OBVIOUS
<1>7. Cardinality(Kept(audit')) = Cardinality(Kept(audit)) + IF action = "revoke" THEN 0 ELSE 1
  <2>1. entry \notin Kept(audit)
    BY <1>1
  <2>2. Cardinality(Kept(audit) \cup {entry}) = Cardinality(Kept(audit)) + 1
    BY <1>5, <2>1, FS_AddElement
  <2> HIDE DEF Kept, entry
  <2>3. CASE action = "revoke"
    BY <1>5, <1>6, <2>3
  <2>4. CASE action # "revoke"
    BY <1>6, <2>2, <2>4
  <2> QED BY <2>3, <2>4
<1> HIDE DEF Kept
<1> QED BY <1>2, <1>3, <1>4, <1>7 DEF Kept

\* The write of the key keeps its audit whole.
LEMMA WriteKeepsAudit ==
  ASSUME KeysInv, NEW c \in Caller, K!Write(c)
  PROVE  KeysInv'
<1> DEFINE read == call[c].key
           action == call[c].phase
           written == K!Written(action, read)
<1>1. /\ action \in Managing /\ call[c] \in KeyCall /\ read \in KeyRow
      /\ UNCHANGED <<minute, rate, use, passed>>
      /\ call' = [call EXCEPT ![c] = K!Idle]
  BY DEF K!Write, K!Ends, Managing, KeysInv, KeyShape, KeyCall
<1>2. call' \in [Caller -> KeyCall]
  BY <1>1, KeysIdle DEF KeysInv, KeyShape
<1>3. PassedAreCounted'
  BY <1>1 DEF KeysInv, KeyShape, PassedAreCounted, K!Idle
<1>4. CASE ~K!SameKey(read)
  <2>1. UNCHANGED <<key, audit>>
    BY <1>4 DEF K!Write
  <2>2. RowsAreOld'
    BY <1>1, <2>1 DEF KeysInv, KeyShape, RowsAreOld, K!Idle, Managing
  <2> QED BY <1>1, <1>2, <1>3, <2>1, <2>2 DEF KeysInv, KeyShape, AuditIsWhole, AuditTellsAll
<1>5. CASE K!SameKey(read)
  <2>1. /\ read = key /\ ~key.revoked /\ key \in KeyRow
        /\ key' = written /\ audit' = audit \cup {<<written.version, action>>}
    BY <1>1, <1>5 DEF K!Write, K!SameKey, KeysInv, KeyShape, RowsAreOld
  <2>2. written = [version |-> key.version + 1, token |-> IF action = "revoke" THEN key.token ELSE key.token + 1,
               revoked |-> action = "revoke"]
    BY <1>1, <2>1 DEF K!Written, Managing, KeyRow
  <2>3. KeyShape'
    BY <1>1, <1>2, <2>1, <2>2 DEF KeysInv, KeyShape, KeyRow
  <2>4. RowsAreOld'
    BY <1>1, <2>1, <2>2 DEF KeysInv, KeyShape, KeyCall, KeyRow, RowsAreOld, K!Idle, Managing
  <2>5. /\ IsFiniteSet(audit) /\ {a[1] : a \in audit} = 1..key.version /\ Cardinality(audit) = key.version
        /\ ~\E a \in audit : a[2] = "revoke"
        /\ key.token = Cardinality({a \in audit : a[2] # "revoke"})
    BY <2>1 DEF KeysInv, AuditIsWhole, AuditTellsAll
  <2>6. key.version \in Nat /\ key.token \in Nat /\ written.version = key.version + 1
    BY <2>1, <2>2 DEF KeyRow
  <2>7. /\ IsFiniteSet(audit') /\ Cardinality(audit') = key.version + 1
        /\ {a[1] : a \in audit'} = 1..(key.version + 1)
        /\ (\E a \in audit' : a[2] = "revoke") <=> action = "revoke" \/ \E a \in audit : a[2] = "revoke"
        /\ Cardinality({a \in audit' : a[2] # "revoke"}) =
              Cardinality({a \in audit : a[2] # "revoke"}) + IF action = "revoke" THEN 0 ELSE 1
    BY <1>1, <2>1, <2>5, <2>6, AuditGrows
  <2>8. /\ key'.version = key.version + 1 /\ key'.revoked = (action = "revoke")
        /\ key'.token = key.token + IF action = "revoke" THEN 0 ELSE 1
    BY <2>1, <2>2, <2>6
  <2> HIDE DEF written
  <2>9. AuditIsWhole'
    BY <2>5, <2>7, <2>8 DEF AuditIsWhole, AuditTellsAll
  <2> QED BY <1>3, <2>3, <2>4, <2>9 DEF KeysInv
<1> QED BY <1>4, <1>5

\* However requests and administrators cross, the limit lets no more through than it says, and
\* every version of the key has its audit (rateLimit, rotate, revoke).
THEOREM ServiceKeysAreGuarded == K!Spec => []KeysAreGuarded
<1>1. K!Init => KeysInv
  <2> SUFFICES ASSUME K!Init PROVE KeysInv
    OBVIOUS
  <2>1. KeyShape /\ PassedAreCounted /\ RowsAreOld
    <3>1. call = [c \in Caller |-> K!Idle] /\ key = K!NoKey /\ rate = [n \in Minute |-> 0] /\ passed = rate
          /\ minute = 0 /\ use = -1
      BY DEF K!Init, K!Minute, Minute
    <3>2. K!NoKey \in KeyRow /\ 0 \in Minute
      BY ServiceKeysAssumption DEF K!NoKey, KeyRow, Minute, ServiceKeysAssumption
    <3>3. KeyShape
      BY <3>1, <3>2, KeysIdle DEF KeyShape
    <3> QED BY <3>1, <3>3, KeysIdle, ServiceKeysAssumption DEF PassedAreCounted, RowsAreOld, Managing, ServiceKeysAssumption
  <2>2. AuditIsWhole
    <3>1. IsFiniteSet(audit) /\ Cardinality(audit) = 0 /\ audit = {}
      BY FS_EmptySet DEF K!Init
    <3>2. {a[1] : a \in audit} = {} /\ {a \in audit : a[2] # "revoke"} = {} /\ 1..0 = {}
      BY <3>1
    <3> QED BY <3>1, <3>2, FS_EmptySet DEF K!Init, K!NoKey, AuditIsWhole, AuditTellsAll
  <2> QED BY <2>1, <2>2 DEF KeysInv
<1>2. KeysInv /\ [K!Next]_(K!vars) => KeysInv'
  <2> SUFFICES ASSUME KeysInv, [K!Next]_(K!vars) PROVE KeysInv'
    OBVIOUS
  <2> USE ServiceKeysAssumption
  <2>1. \A c \in Caller : call[c] \in KeyCall
    BY DEF KeysInv, KeyShape
  <2>2. ASSUME NEW c \in Caller, NEW action \in Managing, K!Manage(c, action) PROVE KeysInv'
    <3>1. ~key.revoked
      <4>1. CASE action = "create"
        <5>1. {a[1] : a \in audit} = {} /\ (key.revoked <=> \E a \in audit : a[2] = "revoke")
          BY <2>2, <4>1 DEF K!Manage, KeysInv, AuditIsWhole, AuditTellsAll
        <5> QED BY <5>1
      <4> QED BY <2>2, <4>1 DEF K!Manage
    <3> DEFINE next == [K!Idle EXCEPT !.phase = action, !.key = key]
    <3>2. next \in KeyCall /\ next.phase \in Managing /\ next.key = key
      BY KeysIdle DEF K!Idle, KeyCall, Managing, KeysInv, KeyShape
    <3>3. call' = [call EXCEPT ![c] = next] /\ UNCHANGED <<minute, key, audit, rate, passed, use>>
      BY <2>2 DEF K!Manage
    <3> HIDE DEF next
    <3> QED BY <3>1, <3>2, <3>3, RequestMoves DEF KeysInv, KeyShape, Managing
  <2>3. ASSUME NEW c \in Caller, K!LimitWrite(c) PROVE KeysInv'
    <3> DEFINE at == call[c].at
    <3>1. at \in Minute /\ call[c].count \in Nat /\ call[c].count < RateLimit
      BY <2>1, <2>3 DEF K!LimitWrite, KeysInv, KeyCall, PassedAreCounted
    <3>2. CASE K!SameCount(c)
      <4> DEFINE next == [K!Idle EXCEPT !.phase = "used", !.at = at]
      <4>1. next \in KeyCall /\ next.phase \notin Managing /\ next.phase # "count"
        BY <3>1, KeysIdle DEF K!Idle, KeyCall, Managing
      <4>2. /\ rate' = [rate EXCEPT ![at] = call[c].count + 1] /\ passed' = [passed EXCEPT ![at] = @ + 1]
            /\ call' = [call EXCEPT ![c] = next] /\ UNCHANGED <<minute, key, audit, use>>
        BY <2>3, <3>2 DEF K!LimitWrite
      <4> HIDE DEF next
      <4>3. KeyShape' /\ RowsAreOld'
        BY <3>1, <4>1, <4>2 DEF KeysInv, KeyShape, RowsAreOld
      <4>4. PassedAreCounted'
        <5>1. passed = rate /\ rate \in [Minute -> Nat] /\ rate[at] = call[c].count
          BY <3>2 DEF K!SameCount, KeysInv, KeyShape, PassedAreCounted
        <5>2. passed' = rate' /\ rate' = [rate EXCEPT ![at] = call[c].count + 1]
          BY <4>2, <5>1
        <5>3. \A n \in Minute : rate'[n] <= RateLimit
          BY <3>1, <5>1, <5>2, ServiceKeysAssumption DEF KeysInv, PassedAreCounted, ServiceKeysAssumption
        <5>4. \A d \in Caller : call'[d].phase = "count" => call'[d].count < RateLimit
          BY <4>1, <4>2 DEF KeysInv, KeyShape, PassedAreCounted
        <5> QED BY <5>2, <5>3, <5>4 DEF PassedAreCounted
      <4> QED BY <4>2, <4>3, <4>4 DEF KeysInv, AuditIsWhole, AuditTellsAll
    <3>3. CASE ~K!SameCount(c)
      <4> DEFINE next == [call[c] EXCEPT !.phase = "limit", !.tries = call[c].tries + 1]
      <4>1. next \in KeyCall /\ next.phase = "limit"
        <5>1. call[c] \in KeyCall /\ call[c].tries + 1 \in Nat
          BY <2>1 DEF KeyCall
        <5> QED BY <5>1 DEF KeyCall
      <4>2. call' = [call EXCEPT ![c] = next] \/ call' = [call EXCEPT ![c] = K!Idle]
        BY <2>3, <3>3 DEF K!LimitWrite, K!Ends
      <4>3. UNCHANGED <<minute, key, audit, rate, passed, use>>
        BY <2>3, <3>3 DEF K!LimitWrite
      <4> HIDE DEF next
      <4> QED BY <4>1, <4>2, <4>3, KeysIdle, RequestMoves DEF KeysInv, KeyShape, Managing
    <3> QED BY <3>2, <3>3
  <2>4. ASSUME NEW c \in Caller, NEW token, K!Present(c, token) PROVE KeysInv'
    <3> DEFINE next == [K!Idle EXCEPT !.phase = "limit", !.at = minute]
    <3>1. next \in KeyCall /\ next.phase = "limit"
      BY KeysIdle DEF K!Idle, KeyCall, KeysInv, KeyShape
    <3>2. call' = [call EXCEPT ![c] = next] /\ UNCHANGED <<minute, key, audit, rate, passed, use>>
      BY <2>4 DEF K!Present
    <3> HIDE DEF next
    <3> QED BY <3>1, <3>2, RequestMoves DEF KeysInv, KeyShape, Managing
  <2>5. ASSUME NEW c \in Caller, K!LimitRead(c) PROVE KeysInv'
    <3> DEFINE next == [call[c] EXCEPT !.phase = "count", !.count = rate[call[c].at]]
    <3>1. next \in KeyCall /\ next.phase = "count" /\ next.count = rate[call[c].at]
      BY <2>1 DEF KeyCall, KeysInv, KeyShape
    <3>2. UNCHANGED <<minute, key, audit, rate, passed, use>>
      BY <2>5 DEF K!LimitRead
    <3>3. \/ call' = [call EXCEPT ![c] = next] /\ rate[call[c].at] < RateLimit
          \/ call' = [call EXCEPT ![c] = K!Idle]
      BY <2>5 DEF K!LimitRead, K!Within, K!Ends
    <3> HIDE DEF next
    <3> QED BY <3>1, <3>2, <3>3, KeysIdle, RequestMoves DEF KeysInv, KeyShape, Managing
  <2>6. ASSUME NEW c \in Caller, K!UseRead(c) \/ K!Touch(c) \/ K!Fail(c) PROVE KeysInv'
    <3> DEFINE next == [call[c] EXCEPT !.phase = "touch", !.use = use]
    <3>1. next \in KeyCall /\ next.phase = "touch"
      BY <2>1 DEF KeyCall, KeysInv, KeyShape
    <3>2. UNCHANGED <<minute, key, audit, rate, passed>>
      BY <2>6 DEF K!UseRead, K!Touch, K!Fail
    <3>3. use' \in Int
      BY <2>1, <2>6 DEF K!UseRead, K!Touch, K!Fail, KeysInv, KeyShape, KeyCall, Minute
    <3>4. call' = [call EXCEPT ![c] = next] \/ call' = [call EXCEPT ![c] = K!Idle]
      BY <2>6 DEF K!UseRead, K!Touch, K!Fail, K!Ends
    <3> HIDE DEF next
    <3> QED BY <3>1, <3>2, <3>3, <3>4, KeysIdle, RequestMoves DEF Managing
  <2>7. CASE K!Tick
    BY <2>7 DEF K!Tick, KeysInv, KeyShape, PassedAreCounted, RowsAreOld, AuditIsWhole, AuditTellsAll, Minute,
       ServiceKeysAssumption
  <2>8. CASE UNCHANGED K!vars
    BY <2>8 DEF K!vars, KeysInv, KeyShape, PassedAreCounted, RowsAreOld, AuditIsWhole, AuditTellsAll
  <2>9. \A c \in Caller : K!Write(c) => KeysInv'
    BY WriteKeepsAudit
  <2> QED BY <2>2, <2>3, <2>4, <2>5, <2>6, <2>7, <2>8, <2>9 DEF K!Next, Managing
<1>3. KeysInv => KeysAreGuarded
  BY ServiceKeysAssumption DEF KeysInv, KeyShape, PassedAreCounted, AuditIsWhole, KeysAreGuarded, LimitHolds
<1> QED BY <1>1, <1>2, <1>3, PTL DEF K!Spec

-----------------------------------------------------------------------------
(* The loads of a cache.                                                   *)

CacheRow == [version : Nat, value : Nat, expires : Nat, load : Load \cup {0}]
LoadRow ==
  [phase : {"none", "load", "read", "write", "done", "failed"}, by : Process \cup {"none"}, row : CacheRow,
   value : Nat, expires : Nat, tries : Nat]
CallRow ==
  [phase : {"idle", "get", "miss", "wait", "find", "delete"}, load : Load \cup {0}, row : CacheRow,
   value : Nat, tries : Nat]

CacheShape ==
  /\ home \in [Caller -> Process]
  /\ clock \in Nat /\ source \in Nat /\ fresh \in Nat
  /\ row \in CacheRow
  /\ pending \in [Process -> Load \cup {0}]
  /\ loads \in [Load -> LoadRow]
  /\ calls \in [Caller -> CallRow]
  /\ overlaps \subseteq Load

\* A load in progress is the one its process knows of, and somebody waits for what a process knows of.
LoadsKnown == \A l \in InProgress : loads[l].by \in Process /\ pending[loads[l].by] = l
LoadsAwaited ==
  \A p \in Process : pending[p] # 0 =>
    \E c \in Caller : home[c] = p /\ calls[c].phase = "wait" /\ calls[c].load = pending[p]
WaitsAreForLoads == \A c \in Caller : calls[c].phase = "wait" => calls[c].load \in Load

\* Nothing is newer than the source, and a load that has read something older than the last
\* invalidation was in progress then.
NothingIsNewer == fresh <= source /\ \A c \in Caller : calls[c].value <= source
LoadsFit ==
  \A l \in Load : loads[l].phase \in {"read", "write"} /\ loads[l].value < fresh => l \in overlaps

CacheInv ==
  CacheShape /\ LoadsKnown /\ LoadsAwaited /\ WaitsAreForLoads /\ NothingIsNewer /\ LoadsFit /\ StaleValuesOverlapped

-----------------------------------------------------------------------------
LEMMA NothingCached ==
  /\ L!NoRow \in CacheRow /\ L!NoRow.version = 0
  /\ L!NoLoad \in LoadRow /\ L!NoLoad.phase = "none"
  /\ L!Idle \in CallRow /\ L!Idle.phase = "idle" /\ L!Idle.value = 0 /\ L!Idle.load = 0
<1>1. L!NoRow \in CacheRow /\ L!NoRow.version = 0
  BY DEF L!NoRow, CacheRow
<1> QED BY <1>1 DEF L!NoLoad, L!Idle, LoadRow, CallRow

\* A call moves on, or ends: nobody else's load is left without somebody who waits.
LEMMA OneCallGoes ==
  ASSUME CacheInv, NEW c \in Caller, NEW asked \in CallRow, calls' = [calls EXCEPT ![c] = asked],
         calls[c].phase # "wait", asked.value \in {0, calls[c].value, source'}, asked.phase = "wait" => asked.load \in Load,
         UNCHANGED <<home, clock, row, pending, loads, fresh, overlaps>>, source' \in {source, source + 1}
  PROVE  CacheInv'
<1>1. calls' \in [Caller -> CallRow] /\ calls'[c] = asked /\ \A d \in Caller \ {c} : calls'[d] = calls[d]
  BY DEF CacheInv, CacheShape
<1>6. source \in Nat /\ source' \in Nat /\ source <= source'
  BY DEF CacheInv, CacheShape
<1>2. CacheShape' /\ LoadsKnown' /\ LoadsFit' /\ StaleValuesOverlapped'
  BY <1>1, <1>6 DEF CacheInv, CacheShape, LoadsKnown, InProgress, LoadsFit, StaleValuesOverlapped
<1>3. LoadsAwaited'
  BY <1>1 DEF CacheInv, LoadsAwaited
<1>4. WaitsAreForLoads'
  BY <1>1 DEF CacheInv, WaitsAreForLoads
<1>5. NothingIsNewer'
  BY <1>1, <1>6 DEF CacheInv, CacheShape, CallRow, NothingIsNewer
<1> QED BY <1>2, <1>3, <1>4, <1>5 DEF CacheInv

\* A load that was in progress moves on, or ends.
LEMMA OneLoadGoes ==
  ASSUME CacheInv, NEW l \in InProgress, NEW load \in LoadRow, loads' = [loads EXCEPT ![l] = load],
         load.by = loads[l].by, load.phase \in {"read", "write"} /\ load.value < fresh => l \in overlaps,
         UNCHANGED <<home, clock, source, pending, calls, fresh, overlaps>>,
         row' \in CacheRow, StaleValuesOverlapped'
  PROVE  CacheInv'
<1>1. l \in Load /\ loads' \in [Load -> LoadRow] /\ loads'[l] = load /\ \A k \in Load \ {l} : loads'[k] = loads[k]
  BY DEF InProgress, CacheInv, CacheShape
<1>2. CacheShape' /\ LoadsAwaited' /\ WaitsAreForLoads' /\ NothingIsNewer'
  BY <1>1 DEF CacheInv, CacheShape, LoadsAwaited, WaitsAreForLoads, NothingIsNewer
<1>3. LoadsKnown'
  BY <1>1 DEF CacheInv, LoadsKnown, InProgress
<1>4. LoadsFit'
  BY <1>1 DEF CacheInv, LoadsFit
<1> QED BY <1>2, <1>3, <1>4 DEF CacheInv

LEMMA GetKeeps ==
  ASSUME CacheInv, NEW c \in Caller, L!Begin(c) \/ L!Get(c) \/ L!FailCall(c), UNCHANGED home
  PROVE  CacheInv'
<1> DEFINE asked(p) == [calls[c] EXCEPT !.phase = p]
<1>1. /\ calls[c] \in CallRow /\ calls[c].value <= source /\ calls[c].phase # "wait"
      /\ UNCHANGED <<home, clock, source, row, pending, loads, fresh, overlaps>> /\ source \in Nat
  BY DEF CacheInv, CacheShape, NothingIsNewer, L!Begin, L!Get, L!FailCall
<1>2. CASE calls' = [calls EXCEPT ![c] = L!Idle]
  BY <1>1, <1>2, NothingCached, OneCallGoes
<1>3. ASSUME NEW p \in {"get", "miss"}, calls' = [calls EXCEPT ![c] = asked(p)]
      PROVE  CacheInv'
  <2>1. asked(p) \in CallRow /\ asked(p).phase = p /\ asked(p).value = calls[c].value
    BY <1>1 DEF CallRow
  <2> HIDE DEF asked
  <2> QED BY <1>1, <1>3, <2>1, OneCallGoes
<1>4. \/ calls' = [calls EXCEPT ![c] = L!Idle]
      \/ \E p \in {"get", "miss"} : calls' = [calls EXCEPT ![c] = asked(p)]
  BY DEF CacheInv, CacheShape, L!Begin, L!Get, L!FailCall, L!Ends
<1> QED BY <1>2, <1>3, <1>4

\* A load begins only where none is known.
LEMMA JoinKeeps ==
  ASSUME CacheInv, NEW c \in Caller, L!Join(c), UNCHANGED home
  PROVE  CacheInv'
<1> DEFINE p == home[c]
<1>1. /\ calls[c] \in CallRow /\ calls[c].value <= source /\ calls[c].phase = "miss" /\ p \in Process
      /\ UNCHANGED <<home, clock, source, row, fresh, overlaps>> /\ source \in Nat /\ 0 \notin Load
  BY CacheAssumption DEF CacheInv, CacheShape, NothingIsNewer, L!Join, Load, CacheAssumption
<1> DEFINE asked(l) == [calls[c] EXCEPT !.phase = "wait", !.load = l]
<1>2. ASSUME NEW l \in Load
      PROVE  asked(l) \in CallRow /\ asked(l).phase = "wait" /\ asked(l).load = l /\ asked(l).value = calls[c].value
  BY <1>1 DEF CallRow
<1>3. CASE pending[p] # 0
  <2>1. pending[p] \in Load /\ calls' = [calls EXCEPT ![c] = asked(pending[p])] /\ UNCHANGED <<pending, loads>>
    BY <1>1, <1>3 DEF L!Join, CacheInv, CacheShape
  <2> HIDE DEF asked
  <2> QED BY <1>1, <1>2, <2>1, OneCallGoes
<1>4. CASE pending[p] = 0
  <2> DEFINE new == [L!NoLoad EXCEPT !.phase = "load", !.by = p]
  <2>1. PICK l \in Load : /\ loads[l] = L!NoLoad /\ loads' = [loads EXCEPT ![l] = new]
                          /\ pending' = [pending EXCEPT ![p] = l] /\ calls' = [calls EXCEPT ![c] = asked(l)]
    <3>1. PICK l \in Load :
            /\ loads[l] = L!NoLoad /\ loads' = [loads EXCEPT ![l] = new] /\ pending' = [pending EXCEPT ![p] = l]
            /\ calls' = [calls EXCEPT ![c].phase = "wait", ![c].load = l]
      BY <1>4 DEF L!Join, L!Load, Load
    <3>2. calls' = [calls EXCEPT ![c] = asked(l)]
      BY <3>1 DEF CacheInv, CacheShape
    <3> QED BY <3>1, <3>2
  <2>2. new \in LoadRow /\ new.phase = "load" /\ new.by = p
    BY <1>1, NothingCached DEF LoadRow
  <2> HIDE DEF new, asked
  <2>3. /\ loads' \in [Load -> LoadRow] /\ loads'[l] = new /\ \A k \in Load \ {l} : loads'[k] = loads[k]
        /\ pending' \in [Process -> Load \cup {0}] /\ pending'[p] = l /\ \A q \in Process \ {p} : pending'[q] = pending[q]
        /\ calls' \in [Caller -> CallRow] /\ calls'[c] = asked(l) /\ \A d \in Caller \ {c} : calls'[d] = calls[d]
    BY <1>1, <1>2, <2>1, <2>2 DEF CacheInv, CacheShape
  <2>4. CacheShape' /\ WaitsAreForLoads' /\ NothingIsNewer' /\ StaleValuesOverlapped'
    BY <1>1, <1>2, <2>3 DEF CacheInv, CacheShape, WaitsAreForLoads, NothingIsNewer, StaleValuesOverlapped
  <2>5. LoadsKnown'
    BY <1>1, <1>4, <2>2, <2>3 DEF CacheInv, LoadsKnown, InProgress
  <2>6. LoadsAwaited'
    BY <1>1, <1>2, <2>3 DEF CacheInv, LoadsAwaited
  <2>7. LoadsFit'
    BY <1>1, <2>2, <2>3 DEF CacheInv, LoadsFit
  <2> QED BY <2>4, <2>5, <2>6, <2>7 DEF CacheInv
<1> QED BY <1>3, <1>4

\* Who wakes up forgets the load it waited for, and not the next one.
LEMMA WakeKeeps ==
  ASSUME CacheInv, NEW c \in Caller, L!Wake(c), UNCHANGED home
  PROVE  CacheInv'
<1> DEFINE p == home[c]
           l == calls[c].load
<1>1. /\ calls[c].phase = "wait" /\ l \in Load /\ p \in Process /\ loads[l].phase \in {"done", "failed"}
      /\ UNCHANGED <<home, clock, source, row, loads, fresh, overlaps>> /\ 0 \notin Load /\ source \in Nat
  BY CacheAssumption DEF CacheInv, CacheShape, WaitsAreForLoads, L!Wake, Load, CacheAssumption
<1>2. /\ pending' \in [Process -> Load \cup {0}] /\ \A q \in Process \ {p} : pending'[q] = pending[q]
      /\ pending[p] = l => pending'[p] = 0
      /\ pending[p] # l => pending'[p] = pending[p]
  BY <1>1 DEF CacheInv, CacheShape, L!Wake, L!Forget
<1>3. calls' \in [Caller -> CallRow] /\ calls'[c] = L!Idle /\ \A d \in Caller \ {c} : calls'[d] = calls[d]
  BY NothingCached DEF CacheInv, CacheShape, L!Wake, L!Ends
<1>4. CacheShape' /\ WaitsAreForLoads' /\ NothingIsNewer' /\ StaleValuesOverlapped' /\ LoadsFit'
  BY <1>1, <1>2, <1>3, NothingCached
  DEF CacheInv, CacheShape, WaitsAreForLoads, NothingIsNewer, StaleValuesOverlapped, LoadsFit
<1>5. LoadsKnown'
  BY <1>1, <1>2 DEF CacheInv, LoadsKnown, InProgress
<1>6. LoadsAwaited'
  <2> SUFFICES ASSUME NEW q \in Process, pending'[q] # 0
               PROVE  \E d \in Caller : home'[d] = q /\ calls'[d].phase = "wait" /\ calls'[d].load = pending'[q]
    BY DEF LoadsAwaited
  <2>1. pending'[q] = pending[q] /\ (q = p => pending[q] # l)
    BY <1>2
  <2>2. PICK d \in Caller : home[d] = q /\ calls[d].phase = "wait" /\ calls[d].load = pending[q]
    BY <2>1 DEF CacheInv, LoadsAwaited
  <2>3. d # c
    BY <2>1, <2>2
  <2> QED BY <1>1, <1>3, <2>1, <2>2, <2>3
<1> QED BY <1>4, <1>5, <1>6 DEF CacheInv

LEMMA LoadKeeps ==
  ASSUME CacheInv, NEW l \in Load, L!LoadValue(l) \/ L!SetRead(l) \/ L!FailLoad(l), UNCHANGED home
  PROVE  CacheInv'
<1>1. /\ l \in InProgress /\ loads[l] \in LoadRow /\ row \in CacheRow
      /\ UNCHANGED <<home, clock, source, row, pending, calls, fresh, overlaps>>
      /\ fresh \in Nat /\ source \in Nat /\ fresh <= source /\ clock \in Nat
  BY DEF CacheInv, CacheShape, NothingIsNewer, InProgress, L!InProgress, L!LoadValue, L!SetRead, L!FailLoad
<1>2. StaleValuesOverlapped'
  BY <1>1 DEF CacheInv, StaleValuesOverlapped
<1>3. CASE L!LoadValue(l)
  <2> DEFINE new == [loads[l] EXCEPT !.phase = "read", !.value = source, !.expires = clock + Ttl]
  <2>1. loads' = [loads EXCEPT ![l] = new]
    BY <1>3 DEF L!LoadValue, CacheInv, CacheShape
  <2>2. clock + Ttl \in Nat
    BY <1>1, CacheAssumption DEF CacheAssumption
  <2>3. new \in LoadRow /\ new.by = loads[l].by /\ new.value = source
    BY <1>1, <2>2 DEF LoadRow
  <2>4. ~(source < fresh)
    BY <1>1
  <2> HIDE DEF new
  <2> QED BY <1>1, <1>2, <2>1, <2>3, <2>4, OneLoadGoes
<1>4. CASE L!SetRead(l)
  <2> DEFINE new == [loads[l] EXCEPT !.phase = "write", !.row = row]
  <2>1. loads' = [loads EXCEPT ![l] = new] /\ loads[l].phase = "read"
    BY <1>4 DEF L!SetRead, CacheInv, CacheShape
  <2>2. new \in LoadRow /\ new.by = loads[l].by /\ new.value = loads[l].value
    BY <1>1 DEF LoadRow
  <2>3. loads[l].value < fresh => l \in overlaps
    BY <2>1 DEF CacheInv, LoadsFit
  <2> HIDE DEF new
  <2> QED BY <1>1, <1>2, <2>1, <2>2, <2>3, OneLoadGoes
<1>5. CASE L!FailLoad(l)
  <2> DEFINE new == L!Failed(loads[l])
  <2>1. loads' = [loads EXCEPT ![l] = new]
    BY <1>5 DEF L!FailLoad, CacheInv, CacheShape
  <2>2. new \in LoadRow /\ new.by = loads[l].by /\ new.phase = "failed"
    BY <1>1, NothingCached DEF LoadRow, L!Failed
  <2> HIDE DEF new
  <2> QED BY <1>1, <1>2, <2>1, <2>2, OneLoadGoes
<1> QED BY <1>3, <1>4, <1>5

\* What is written is what the load has read, whatever was invalidated meanwhile.
LEMMA SetKeeps ==
  ASSUME CacheInv, NEW l \in Load, L!SetWrite(l), UNCHANGED home
  PROVE  CacheInv'
<1> DEFINE d == loads[l]
<1>1. /\ l \in InProgress /\ d \in LoadRow /\ d.row \in CacheRow /\ row \in CacheRow
      /\ UNCHANGED <<home, clock, source, pending, calls, fresh, overlaps>>
      /\ d.value < fresh => l \in overlaps
  BY DEF CacheInv, CacheShape, LoadsFit, InProgress, LoadRow, L!SetWrite
<1>2. CASE L!Same(d.row)
  <2> DEFINE written == [version |-> d.row.version + 1, value |-> d.value, expires |-> d.expires, load |-> l]
             new == [L!NoLoad EXCEPT !.phase = "done", !.by = d.by]
  <2>1. row' = written /\ loads' = [loads EXCEPT ![l] = new]
    BY <1>2 DEF L!SetWrite
  <2>2. d.row.version \in Nat /\ d.value \in Nat /\ d.expires \in Nat /\ d.by \in Process \cup {"none"}
    BY <1>1 DEF LoadRow, CacheRow
  <2>3. new \in LoadRow /\ new.by = d.by /\ new.phase = "done"
    BY <2>2, NothingCached DEF LoadRow
  <2>4. written \in CacheRow /\ written.value = d.value /\ written.load = l
    BY <2>2 DEF CacheRow
  <2> HIDE DEF written, new
  <2>5. StaleValuesOverlapped'
    BY <1>1, <2>1, <2>4 DEF StaleValuesOverlapped
  <2> QED BY <1>1, <2>1, <2>3, <2>4, <2>5, OneLoadGoes
<1>3. CASE ~L!Same(d.row)
  <2> DEFINE again == [d EXCEPT !.phase = "read", !.row = L!NoRow, !.tries = @ + 1]
  <2>1. StaleValuesOverlapped' /\ row' = row
    BY <1>1, <1>3 DEF CacheInv, StaleValuesOverlapped, L!SetWrite
  <2>2. CASE L!TriesAgain(d.tries)
    <3>1. loads' = [loads EXCEPT ![l] = again]
      BY <1>3, <2>2 DEF L!SetWrite
    <3>2. d.tries + 1 \in Nat
      BY <1>1 DEF LoadRow
    <3>3. again \in LoadRow /\ again.by = d.by /\ again.value = d.value
      BY <1>1, <3>2, NothingCached DEF LoadRow
    <3> HIDE DEF again
    <3> QED BY <1>1, <2>1, <3>1, <3>3, OneLoadGoes
  <2>3. CASE ~L!TriesAgain(d.tries)
    <3> DEFINE new == L!Failed(d)
    <3>1. loads' = [loads EXCEPT ![l] = new]
      BY <1>3, <2>3 DEF L!SetWrite
    <3>2. new \in LoadRow /\ new.by = d.by /\ new.phase = "failed"
      BY <1>1, NothingCached DEF LoadRow, L!Failed
    <3> HIDE DEF new
    <3> QED BY <1>1, <2>1, <3>1, <3>2, OneLoadGoes
  <2> QED BY <2>2, <2>3
<1> QED BY <1>2, <1>3

LEMMA ChangeKeeps ==
  ASSUME CacheInv, NEW c \in Caller, L!Change(c), UNCHANGED home
  PROVE  CacheInv'
<1> DEFINE asked == [calls[c] EXCEPT !.phase = "find", !.value = source + 1]
<1>1. /\ calls[c] \in CallRow /\ source \in Nat /\ source' = source + 1 /\ calls[c].phase = "idle"
      /\ UNCHANGED <<home, clock, row, pending, loads, fresh, overlaps>> /\ calls' = [calls EXCEPT ![c] = asked]
  BY DEF CacheInv, CacheShape, L!Change
<1>2. asked \in CallRow /\ asked.phase = "find" /\ asked.value = source + 1
  <2>1. source + 1 \in Nat
    BY <1>1
  <2> QED BY <1>1, <2>1 DEF CallRow
<1> HIDE DEF asked
<1> QED BY <1>1, <1>2, OneCallGoes

\* When an invalidation returns, the row is gone, and what is in progress overlapped it.
LEMMA InvalidatedKeeps ==
  ASSUME CacheInv, NEW c \in Caller, calls[c].phase # "wait", L!Invalidated(c),
         row' \in CacheRow, row'.version = 0, UNCHANGED <<home, clock, source, pending, loads>>
  PROVE  CacheInv'
<1>1. /\ fresh' = L!Max({fresh, calls[c].value}) /\ overlaps' = overlaps \cup InProgress
      /\ calls' = [calls EXCEPT ![c] = L!Idle]
  BY DEF L!Invalidated, L!Ends, L!InProgress, InProgress, L!Load, Load
<1>2. calls[c].value \in Nat /\ fresh \in Nat /\ calls[c].value <= source /\ source \in Nat /\ fresh <= source
  BY DEF CacheInv, CacheShape, CallRow, NothingIsNewer
<1>3. fresh' \in {fresh, calls[c].value}
  BY <1>1, <1>2 DEF L!Max
<1>4. calls' \in [Caller -> CallRow] /\ calls'[c] = L!Idle /\ \A d \in Caller \ {c} : calls'[d] = calls[d]
  BY <1>1, NothingCached DEF CacheInv, CacheShape
<1>5. CacheShape' /\ LoadsKnown' /\ WaitsAreForLoads' /\ NothingIsNewer' /\ StaleValuesOverlapped'
  BY <1>1, <1>2, <1>3, <1>4, NothingCached
  DEF CacheInv, CacheShape, LoadsKnown, InProgress, WaitsAreForLoads, NothingIsNewer, StaleValuesOverlapped
<1>6. LoadsAwaited'
  BY <1>4 DEF CacheInv, LoadsAwaited
<1>7. LoadsFit'
  BY <1>1 DEF LoadsFit, InProgress
<1> QED BY <1>5, <1>6, <1>7 DEF CacheInv

LEMMA DeleteKeeps ==
  ASSUME CacheInv, NEW c \in Caller, L!DeleteRead(c) \/ L!DeleteWrite(c), UNCHANGED home
  PROVE  CacheInv'
<1>1. /\ calls[c] \in CallRow /\ row \in CacheRow /\ calls[c].value <= source /\ source \in Nat
      /\ calls[c].phase \in {"find", "delete"} /\ UNCHANGED <<home, clock, source, pending, loads>>
  BY DEF CacheInv, CacheShape, NothingIsNewer, L!DeleteRead, L!DeleteWrite
<1>2. CASE L!Invalidated(c) /\ row' \in CacheRow /\ row'.version = 0
  BY <1>1, <1>2, InvalidatedKeeps
<1>3. CASE L!DeleteRead(c) /\ row.version # 0
  <2> DEFINE asked == [calls[c] EXCEPT !.phase = "delete", !.row = row]
  <2>1. UNCHANGED <<row, fresh, overlaps>> /\ calls' = [calls EXCEPT ![c] = asked]
    BY <1>3 DEF L!DeleteRead, CacheInv, CacheShape
  <2>2. asked \in CallRow /\ asked.phase = "delete" /\ asked.value = calls[c].value
    BY <1>1 DEF CallRow
  <2> HIDE DEF asked
  <2> QED BY <1>1, <2>1, <2>2, OneCallGoes
<1>4. CASE L!Conflict(c) /\ UNCHANGED row
  <2> DEFINE asked == [calls[c] EXCEPT !.phase = "find", !.row = L!NoRow, !.tries = @ + 1]
  <2>1. UNCHANGED <<row, fresh, overlaps>>
    BY <1>4 DEF L!Conflict
  <2>2. CASE calls' = [calls EXCEPT ![c] = asked]
    <3>1. calls[c].tries + 1 \in Nat
      BY <1>1 DEF CallRow
    <3>2. asked \in CallRow /\ asked.phase = "find" /\ asked.value = calls[c].value
      BY <1>1, <3>1, NothingCached DEF CallRow
    <3> HIDE DEF asked
    <3> QED BY <1>1, <2>1, <2>2, <3>2, OneCallGoes
  <2>3. CASE calls' = [calls EXCEPT ![c] = L!Idle]
    BY <1>1, <2>1, <2>3, NothingCached, OneCallGoes
  <2> QED BY <1>4, <2>2, <2>3 DEF L!Conflict, L!Ends, CacheInv, CacheShape
<1>5. CASE L!DeleteRead(c)
  BY <1>1, <1>2, <1>3, <1>5 DEF L!DeleteRead
<1>6. CASE L!DeleteWrite(c)
  BY <1>1, <1>2, <1>4, <1>6, NothingCached DEF L!DeleteWrite
<1> QED BY <1>5, <1>6

-----------------------------------------------------------------------------
LEMMA CacheBegins == L!Init => CacheInv
<1> SUFFICES ASSUME L!Init PROVE CacheInv
  OBVIOUS
<1>1. /\ home \in [Caller -> Process] /\ clock = 0 /\ source = 0 /\ row = L!NoRow /\ fresh = 0 /\ overlaps = {}
      /\ pending = [p \in Process |-> 0] /\ loads = [l \in Load |-> L!NoLoad] /\ calls = [c \in Caller |-> L!Idle]
  BY DEF L!Init, L!Load, Load
<1>2. CacheShape
  BY <1>1, NothingCached DEF CacheShape
<1> QED BY <1>1, <1>2, NothingCached
    DEF CacheInv, LoadsKnown, InProgress, LoadsAwaited, WaitsAreForLoads, NothingIsNewer, LoadsFit, StaleValuesOverlapped

LEMMA CacheStep == CacheInv /\ [L!Next]_(L!vars) => CacheInv'
<1> SUFFICES ASSUME CacheInv, [L!Next]_(L!vars) PROVE CacheInv'
  OBVIOUS
<1>1. ASSUME NEW c \in Caller, UNCHANGED home,
             \/ L!Begin(c) \/ L!Get(c) \/ L!Join(c) \/ L!Wake(c)
             \/ L!Change(c) \/ L!DeleteRead(c) \/ L!DeleteWrite(c) \/ L!FailCall(c)
      PROVE  CacheInv'
  BY <1>1, GetKeeps, JoinKeeps, WakeKeeps, ChangeKeeps, DeleteKeeps
<1>2. ASSUME NEW l \in Load, UNCHANGED home, L!LoadValue(l) \/ L!SetRead(l) \/ L!SetWrite(l) \/ L!FailLoad(l)
      PROVE  CacheInv'
  BY <1>2, LoadKeeps, SetKeeps
<1>3. CASE (L!Tick /\ UNCHANGED home) \/ UNCHANGED L!vars
  <2>1. clock \in Nat
    BY DEF CacheInv, CacheShape
  <2>2. UNCHANGED <<home, source, row, pending, loads, calls, fresh, overlaps>> /\ clock' \in Nat
    BY <1>3, <2>1 DEF L!Tick, L!vars
  <2> QED BY <2>2
      DEF CacheInv, CacheShape, LoadsKnown, InProgress, LoadsAwaited, WaitsAreForLoads, NothingIsNewer, LoadsFit,
          StaleValuesOverlapped
<1> QED BY <1>1, <1>2, <1>3 DEF L!Next, L!Step, L!Load, Load

LEMMA CacheInvHolds == L!Spec => []CacheInv
<1>1. L!Init => CacheInv
  BY CacheBegins
<1>2. CacheInv /\ [L!Next]_(L!vars) => CacheInv'
  BY CacheStep
<1> QED BY <1>1, <1>2, PTL DEF L!Spec

\* In whatever order callers wake up, loads end and invalidations return, a process has one load of a
\* key at a time, a load that ended is forgotten, and what is older than an invalidation was
\* being loaded when it came (Cache.remember, NoSqlCache.set, NoSqlCache.delete).
THEOREM LoadsStayShared == L!Spec => []LoadsAreShared
<1>1. CacheInv => OneLoadAtATime
  BY DEF CacheInv, LoadsKnown, OneLoadAtATime
<1>2. CacheInv => EndedLoadsAreForgotten
  BY DEF CacheInv, LoadsAwaited, EndedLoadsAreForgotten
<1>3. CacheInv => LoadsAreShared
  BY <1>1, <1>2 DEF CacheInv, LoadsAreShared
<1> QED BY <1>3, CacheInvHolds, PTL

-----------------------------------------------------------------------------
(* The messages of a queue.                                                *)

SlotFields == {"message", "attempts", "phase"}

\* Every delivery has its slot.
SlotShape == slot = [d \in Q!Slot |-> slot[d]] /\ \A d \in Q!Slot : DOMAIN slot[d] = SlotFields

\* What a step may settle or reject is the delivery that it is about.
LEMMA OwnSettlement ==
  ASSUME SlotShape, NEW d \in Q!Slot, slot'[d].phase = "settled", slot[d].phase = "handling", Q!Next
  PROVE  Q!Current(d)
<1>1. ASSUME NEW e \in Q!Slot, NEW phase, Q!Ends(e, phase), e # d PROVE FALSE
  BY <1>1 DEF Q!Ends, SlotShape
<1>2. ASSUME NEW phase, Q!Ends(d, phase) PROVE phase = "settled"
  BY <1>2 DEF Q!Ends, SlotShape, Q!Free
<1>3. ~UNCHANGED slot
  OBVIOUS
<1>4. ASSUME NEW w \in Worker, Q!Receive(w) \/ Q!Finish(w) \/ Q!Restart(w) PROVE FALSE
  <2>1. CASE Q!Receive(w)
    BY <2>1 DEF Q!Receive
  <2>2. CASE Q!Finish(w)
    <3>1. slot'[d] = IF d[1] = w THEN Q!Free ELSE slot[d]
      BY <2>2 DEF Q!Finish
    <3> QED BY <3>1 DEF Q!Free
  <2>3. CASE Q!Restart(w)
    BY <1>3, <2>3 DEF Q!Restart
  <2> QED BY <1>4, <2>1, <2>2, <2>3
<1>5. ASSUME NEW m \in Message, Q!Publish(m) \/ Q!RetryFailure(m) PROVE FALSE
  BY <1>3, <1>5 DEF Q!Publish, Q!RetryFailure
<1>6. ~Q!Tick
  BY <1>3 DEF Q!Tick
<1>7. PICK e \in Q!Slot : Q!Extend(e) \/ Q!Succeed(e) \/ Q!Throw(e)
  BY <1>4, <1>5, <1>6 DEF Q!Next
<1>8. CASE Q!Extend(e)
  BY <1>3, <1>8 DEF Q!Extend
<1>9. CASE Q!Succeed(e)
  <2>1. CASE Q!Ack(e)
    BY <1>1, <2>1 DEF Q!Ack
  <2>2. CASE Q!Reject(e)
    BY <1>1, <1>2, <2>2 DEF Q!Reject
  <2> QED BY <1>9, <2>1, <2>2 DEF Q!Succeed
<1>10. CASE Q!Throw(e)
  <2>1. CASE Q!DeadLetter(e)
    BY <1>1, <2>1 DEF Q!DeadLetter
  <2>2. CASE Q!Retry(e)
    BY <1>1, <2>2 DEF Q!Retry
  <2>3. CASE Q!Reject(e)
    BY <1>1, <1>2, <2>3 DEF Q!Reject
  <2> QED BY <1>10, <2>1, <2>2, <2>3 DEF Q!Throw
<1> QED BY <1>7, <1>8, <1>9, <1>10

\* Who settles a message has its receipt, and nobody else does.
THEOREM SettlementsAreOwn == Q!Spec => LeasesAreRespected
<1>1. Q!Init => SlotShape
  BY DEF Q!Init, SlotShape, Q!Free, SlotFields
<1>2. SlotShape /\ [Q!Next]_(Q!queueVars) => SlotShape'
  <2> SUFFICES ASSUME SlotShape, [Q!Next]_(Q!queueVars) PROVE SlotShape'
    OBVIOUS
  <2>1. CASE UNCHANGED slot
    BY <2>1 DEF SlotShape
  <2>2. ASSUME NEW d \in Q!Slot, NEW phase, Q!Ends(d, phase) PROVE SlotShape'
    BY <2>2 DEF Q!Ends, SlotShape, Q!Free, SlotFields
  <2>3. ASSUME NEW w \in Worker, Q!Receive(w) PROVE SlotShape'
    BY <2>3 DEF Q!Receive, SlotShape, SlotFields
  <2>4. ASSUME NEW w \in Worker, Q!Finish(w) PROVE SlotShape'
    BY <2>4 DEF Q!Finish, SlotShape, Q!Free, SlotFields
  <2>5. ASSUME NEW d \in Q!Slot, Q!Succeed(d) \/ Q!Throw(d) PROVE SlotShape'
    BY <2>2, <2>5 DEF Q!Succeed, Q!Throw, Q!Ack, Q!Reject, Q!Retry, Q!DeadLetter
  <2> QED BY <2>1, <2>3, <2>4, <2>5 DEF Q!Next, Q!Publish, Q!RetryFailure, Q!Restart, Q!Extend, Q!Tick, Q!queueVars
<1>3. SlotShape /\ [Q!Next]_(Q!queueVars) => [SettledByItsLease]_queueVars
  <2> SUFFICES ASSUME SlotShape, Q!Next PROVE SettledByItsLease
    BY DEF queueVars, Q!queueVars
  <2> SUFFICES ASSUME NEW d \in Q!Slot, NEW e \in Q!Slot, d # e, Q!Handling(d), Q!Handling(e),
                      slot[d].message = slot[e].message, Q!Current(e), slot'[d].phase = "settled"
               PROVE  FALSE
    <3>1. Slot = Q!Slot
      BY DEF Slot, Q!Slot
    <3>2. ASSUME NEW d \in Slot PROVE (Handling(d) <=> Q!Handling(d)) /\ (Current(d) <=> Q!Current(d))
      BY DEF Handling, Q!Handling, Current, Q!Current, Pending, Q!Pending, Of, Q!Of
    <3> QED BY <3>1, <3>2 DEF SettledByItsLease
  <2>1. Q!Current(d)
    BY OwnSettlement DEF Q!Handling
  <2>2. Q!Of(d) = Q!Of(e)
    BY DEF Q!Of
  <2> QED BY <2>1, <2>2 DEF Q!Current
<1> QED BY <1>1, <1>2, <1>3, PTL DEF Q!Spec, LeasesAreRespected

-----------------------------------------------------------------------------
(* Nothing is lost.                                                        *)

\* What the constructors of Queue and MemoryQueue accept.
QueueSettings ==
  /\ Concurrency \in Nat \ {0} /\ Capacity \in Nat \ {0} /\ Lease \in Nat \ {0}
  /\ MaxAttempts \in Nat \ {0} /\ MaxDelay \in Nat /\ BaseDelay \in 0..MaxDelay

EntryRow == [message : Message, attempts : 0..MaxAttempts, wait : Nat, receipt : Q!Slot \cup {NoReceipt}]
Delivery == [message : Message \cup {NoMessage}, attempts : 0..MaxAttempts,
             phase : {"free", "handling", "settled", "rejected"}]

Messages(es) == {es[i].message : i \in DOMAIN es}
Distinct(es) == \A i, j \in DOMAIN es : es[i].message = es[j].message => i = j

\* A message is in one place, once; deliveries are of messages that were accepted.
QueueKept ==
  /\ entries \in Seq(EntryRow) /\ Len(entries) <= Capacity /\ Distinct(entries)
  /\ failed \subseteq Message /\ IsFiniteSet(failed) /\ Cardinality(failed) <= Capacity
  /\ slot \in [Q!Slot -> Delivery]
  /\ \A d \in Q!Slot : Q!Handling(d) => slot[d].message \in published
  /\ worker \in [Worker -> {"pulling", "working", "stopped"}]
  /\ acked \subseteq succeeded /\ succeeded \subseteq published /\ published \subseteq Message
  /\ published = Q!Pending \cup failed \cup acked
  /\ Q!Pending \cap failed = {} /\ (Q!Pending \cup failed) \cap acked = {}

LEMMA Rewriting ==
  ASSUME NEW es \in Seq(EntryRow), Distinct(es), NEW fs \in [DOMAIN es -> EntryRow],
         \A i \in DOMAIN es : fs[i].message = es[i].message
  PROVE  fs \in Seq(EntryRow) /\ Len(fs) = Len(es) /\ Distinct(fs) /\ Messages(fs) = Messages(es)
<1>1. DOMAIN es = 1..Len(es) /\ Len(es) \in Nat
  BY LenProperties
<1>2. fs \in Seq(EntryRow) /\ Len(fs) = Len(es) /\ DOMAIN fs = DOMAIN es
  BY <1>1
<1> QED BY <1>2 DEF Distinct, Messages

LEMMA Adding ==
  ASSUME NEW es \in Seq(EntryRow), Distinct(es), NEW e \in EntryRow, e.message \notin Messages(es)
  PROVE  /\ Append(es, e) \in Seq(EntryRow) /\ Len(Append(es, e)) = Len(es) + 1
         /\ Distinct(Append(es, e)) /\ Messages(Append(es, e)) = Messages(es) \cup {e.message}
<1> DEFINE fs == Append(es, e)
           n == Len(es)
<1>1. /\ fs \in Seq(EntryRow) /\ Len(fs) = n + 1 /\ fs[n + 1] = e
      /\ \A i \in 1..n : fs[i] = es[i]
  BY AppendProperties
<1>2. n \in Nat /\ DOMAIN es = 1..n /\ DOMAIN fs = 1..n + 1
  BY <1>1, LenProperties
<1> HIDE DEF fs, n
<1>3. Distinct(fs)
  BY <1>1, <1>2 DEF Distinct, Messages
<1>4. Messages(fs) = Messages(es) \cup {e.message}
  <2>1. \A i \in 1..n + 1 : i \in 1..n \/ i = n + 1
    BY <1>2
  <2>2. n + 1 \in 1..n + 1 /\ 1..n \subseteq 1..n + 1
    BY <1>2
  <2> QED BY <1>1, <1>2, <2>1, <2>2 DEF Messages
<1> QED BY <1>1, <1>3, <1>4 DEF fs, n

LEMMA Removing ==
  ASSUME NEW es \in Seq(EntryRow), Distinct(es), NEW k \in DOMAIN es
  PROVE  /\ Q!RemoveAt(es, k) \in Seq(EntryRow) /\ Len(Q!RemoveAt(es, k)) = Len(es) - 1
         /\ Distinct(Q!RemoveAt(es, k)) /\ Messages(Q!RemoveAt(es, k)) = Messages(es) \ {es[k].message}
<1> DEFINE n == Len(es)
           before == SubSeq(es, 1, k - 1)
           after == SubSeq(es, k + 1, n)
           fs == Q!RemoveAt(es, k)
<1>1. n \in Nat /\ DOMAIN es = 1..n /\ k \in 1..n /\ \A i \in 1..n : es[i] \in EntryRow
  BY LenProperties, ElementOfSeq
<1>2. before \in Seq(EntryRow) /\ Len(before) = k - 1 /\ \A i \in 1..k - 1 : before[i] = es[i]
  <2>1. \A i \in 1..k - 1 : es[i] \in EntryRow
    BY <1>1
  <2> HIDE DEF n
  <2>2. /\ before \in Seq(EntryRow) /\ Len(before) = (IF 1 <= k - 1 THEN (k - 1) - 1 + 1 ELSE 0)
        /\ \A i \in 1..(k - 1) - 1 + 1 : before[i] = es[1 + i - 1]
    BY <1>1, <2>1, SubSeqProperties
  <2> HIDE DEF before
  <2> QED BY <1>1, <2>2
<1>3. after \in Seq(EntryRow) /\ Len(after) = n - k /\ \A i \in 1..n - k : after[i] = es[i + k]
  <2>1. \A i \in k + 1..n : es[i] \in EntryRow
    BY <1>1
  <2>2. /\ after \in Seq(EntryRow) /\ Len(after) = (IF k + 1 <= n THEN n - (k + 1) + 1 ELSE 0)
        /\ \A i \in 1..n - (k + 1) + 1 : after[i] = es[(k + 1) + i - 1]
    BY <1>1, <2>1, SubSeqProperties
  <2> HIDE DEF after, n
  <2>3. n - (k + 1) + 1 = n - k /\ Len(after) = n - k
    BY <1>1, <2>2
  <2>4. \A i \in 1..n - k : after[i] = es[i + k]
    <3> TAKE i \in 1..n - k
    <3>1. after[i] = es[(k + 1) + i - 1]
      BY <2>2, <2>3
    <3>2. (k + 1) + i - 1 = i + k
      BY <1>1
    <3> QED BY <3>1, <3>2
  <2> QED BY <2>2, <2>3, <2>4
<1>4. fs = before \o after
  BY DEF Q!RemoveAt
<1> HIDE DEF before, after, fs, n
<1>5. /\ fs \in Seq(EntryRow) /\ Len(fs) = n - 1 /\ DOMAIN fs = 1..n - 1
      /\ \A i \in 1..n - 1 : fs[i] = IF i < k THEN es[i] ELSE es[i + 1]
  <2>1. /\ fs \in Seq(EntryRow) /\ Len(fs) = Len(before) + Len(after)
        /\ \A i \in 1..Len(before) + Len(after) : fs[i] = IF i <= Len(before) THEN before[i] ELSE after[i - Len(before)]
    BY <1>2, <1>3, <1>4, ConcatProperties
  <2>2. Len(fs) = n - 1 /\ DOMAIN fs = 1..n - 1 /\ Len(before) + Len(after) = n - 1
    BY <1>1, <1>2, <1>3, <2>1, LenProperties
  <2>3. \A i \in 1..n - 1 : fs[i] = IF i <= k - 1 THEN before[i] ELSE after[i - (k - 1)]
    BY <1>2, <2>1, <2>2
  <2>4. ASSUME NEW i \in 1..n - 1 PROVE fs[i] = IF i < k THEN es[i] ELSE es[i + 1]
    <3>1. CASE i < k
      <4>1. i \in 1..k - 1
        BY <1>1, <3>1
      <4> QED BY <1>2, <2>3, <3>1, <4>1
    <3>2. CASE ~(i < k)
      <4>1. fs[i] = after[i - (k - 1)] /\ i - (k - 1) \in 1..n - k
        BY <1>1, <2>3, <3>2
      <4>2. i - (k - 1) + k = i + 1
        BY <1>1
      <4> QED BY <1>3, <3>2, <4>1, <4>2
    <3> QED BY <3>1, <3>2
  <2> QED BY <2>1, <2>2, <2>4
\* Every position but k has one of the shorter sequence.
<1> DEFINE Old(i) == IF i < k THEN i ELSE i + 1
<1>6. \A i \in 1..n - 1 : Old(i) \in (1..n) \ {k} /\ fs[i] = es[Old(i)]
  BY <1>1, <1>5
<1>7. \A j \in (1..n) \ {k} : \E i \in 1..n - 1 : Old(i) = j
  <2> TAKE j \in (1..n) \ {k}
  <2>1. CASE j < k
    BY <1>1, <2>1
  <2>2. CASE j > k
    <3>1. j - 1 \in 1..n - 1 /\ Old(j - 1) = j
      BY <1>1, <2>2
    <3> QED BY <3>1
  <2> QED BY <1>1, <2>1, <2>2
<1>8. \A i, j \in 1..n - 1 : Old(i) = Old(j) => i = j
  BY <1>1
<1> HIDE DEF Old
<1>9. Distinct(fs)
  BY <1>1, <1>5, <1>6, <1>8 DEF Distinct
<1>10. Messages(fs) = Messages(es) \ {es[k].message}
  <2>1. ASSUME NEW i \in 1..n - 1 PROVE fs[i].message \in Messages(es) \ {es[k].message}
    <3>1. Old(i) \in 1..n /\ Old(i) # k /\ fs[i] = es[Old(i)]
      BY <1>6
    <3>2. es[Old(i)].message # es[k].message
      BY <1>1, <3>1 DEF Distinct
    <3> QED BY <1>1, <3>1, <3>2 DEF Messages
  <2>2. ASSUME NEW j \in 1..n, es[j].message # es[k].message PROVE es[j].message \in Messages(fs)
    <3>1. PICK i \in 1..n - 1 : Old(i) = j
      BY <1>7, <2>2
    <3>2. fs[i] = es[j]
      BY <1>6, <3>1
    <3> QED BY <1>5, <3>2 DEF Messages
  <2>3. Messages(fs) \subseteq Messages(es) \ {es[k].message}
    BY <1>5, <2>1 DEF Messages
  <2>4. Messages(es) \ {es[k].message} \subseteq Messages(fs)
    BY <1>1, <2>2 DEF Messages
  <2> QED BY <2>3, <2>4
<1> QED BY <1>5, <1>9, <1>10 DEF fs, n

\* The entry of a delivery that is current.
LEMMA EntryOf ==
  ASSUME NEW d \in Q!Slot, Q!Current(d)
  PROVE  Q!Of(d) \in DOMAIN entries /\ entries[Q!Of(d)].message = slot[d].message
<1>1. \E i \in DOMAIN entries : entries[i].message = slot[d].message
  BY DEF Q!Current, Q!Pending
<1> QED BY <1>1 DEF Q!Of

\* A delivery that ended is no longer handled, and the others are as they were.
LEMMA DeliveryEnds ==
  ASSUME QueueSettings, slot \in [Q!Slot -> Delivery], NEW d \in Q!Slot, NEW phase \in {"settled", "rejected"}, Q!Ends(d, phase)
  PROVE  slot' \in [Q!Slot -> Delivery] /\ \A e \in Q!Slot : Q!Handling(e)' => Q!Handling(e) /\ slot'[e] = slot[e]
<1>1. [Q!Free EXCEPT !.phase = phase] \in [message : {NoMessage}, attempts : {0}, phase : {phase}]
  BY DEF Q!Free
<1>2. \A e \in Q!Slot : slot'[e] = IF e = d THEN [Q!Free EXCEPT !.phase = phase] ELSE slot[e]
  BY DEF Q!Ends
<1>3. slot' \in [Q!Slot -> Delivery]
  <2>1. [Q!Free EXCEPT !.phase = phase] \in Delivery
    BY <1>1 DEF Delivery, QueueSettings
  <2> QED BY <2>1 DEF Q!Ends
<1> QED BY <1>1, <1>2, <1>3 DEF Q!Handling

LEMMA CountsAlike == \A S : Q!Cardinality(S) = Cardinality(S)
BY DEF Q!Cardinality, Cardinality

\* An accepted or retried message joins the others.
LEMMA Joining ==
  ASSUME QueueSettings, QueueKept, NEW m \in Message, Q!Publish(m) \/ Q!RetryFailure(m)
  PROVE  QueueKept'
<1>1. m \notin Q!Pending /\ Q!HasRoom(Len(entries)) /\ entries' = Append(entries, Q!Entry(m)) /\ UNCHANGED <<slot, worker, succeeded, acked>>
  BY DEF QueueKept, Q!Publish, Q!RetryFailure
<1>2. Q!Entry(m) \in EntryRow /\ Q!Entry(m).message = m
  BY DEF Q!Entry, EntryRow, QueueSettings
<1>3. Len(entries) \in Nat
  BY LenProperties DEF QueueKept
<1>4. /\ entries' \in Seq(EntryRow) /\ Len(entries') = Len(entries) + 1 /\ Distinct(entries')
      /\ Messages(entries') = Messages(entries) \cup {m}
  <2>1. Q!Entry(m).message \notin Messages(entries) /\ entries \in Seq(EntryRow) /\ Distinct(entries)
    BY <1>1, <1>2 DEF QueueKept, Q!Pending, Messages
  <2> QED BY <1>1, <1>2, <2>1, Adding
<1>5. Len(entries') <= Capacity /\ Q!Pending' = Q!Pending \cup {m}
  <2>1. Len(entries) < Capacity /\ Capacity \in Nat
    BY <1>1 DEF Q!HasRoom, QueueSettings
  <2>2. Q!Pending = Messages(entries) /\ Q!Pending' = Messages(entries')
    BY DEF Q!Pending, Messages
  <2> QED BY <1>3, <1>4, <2>1, <2>2
<1>6. CASE Q!Publish(m)
  BY <1>1, <1>4, <1>5, <1>6 DEF QueueKept, Q!Publish, Q!Handling
<1>7. CASE Q!RetryFailure(m)
  <2>1. IsFiniteSet(failed') /\ Cardinality(failed') <= Capacity
    <3>1. IsFiniteSet(failed \ {m}) /\ Cardinality(failed \ {m}) = Cardinality(failed) - 1 /\ Cardinality(failed) \in Nat
      BY <1>7, FS_RemoveElement, FS_CardinalityType DEF QueueKept, Q!RetryFailure
    <3> QED BY <1>7, <3>1 DEF QueueKept, Q!RetryFailure, QueueSettings
  <2> QED BY <1>1, <1>4, <1>5, <1>7, <2>1 DEF QueueKept, Q!RetryFailure, Q!Handling
<1> QED BY <1>6, <1>7

\* A step that rewrites entries leaves every message where it is.
LEMMA Staying ==
  ASSUME QueueSettings, QueueKept, entries' \in [DOMAIN entries -> EntryRow],
         \A i \in DOMAIN entries : entries'[i].message = entries[i].message
  PROVE  /\ entries' \in Seq(EntryRow) /\ Len(entries') <= Capacity /\ Distinct(entries')
         /\ Q!Pending' = Q!Pending
<1>1. /\ entries' \in Seq(EntryRow) /\ Len(entries') = Len(entries) /\ Distinct(entries')
      /\ Messages(entries') = Messages(entries)
  BY Rewriting DEF QueueKept
<1> QED BY <1>1 DEF QueueKept, Q!Pending, Messages

\* A worker is handed entries in order, at most as many as it works on at a time.
LEMMA Turns ==
  ASSUME QueueSettings, QueueKept, NEW i \in Q!Taken
  PROVE  i \in DOMAIN entries /\ Q!Turn(i) \in 1..Concurrency
<1> DEFINE Earlier == {j \in Q!Available : j <= i}
<1>1. DOMAIN entries = 1..Len(entries) /\ Len(entries) \in Nat
  BY LenProperties DEF QueueKept
<1>2. i \in Q!Available /\ Q!Available \subseteq 1..Len(entries) /\ Q!Turn(i) <= Concurrency
  BY <1>1 DEF Q!Taken, Q!Available
<1>3. IsFiniteSet(Earlier)
  <2>1. IsFiniteSet(1..Len(entries)) /\ Earlier \in SUBSET (1..Len(entries))
    <3>1. IsFiniteSet(1..Len(entries))
      BY <1>1, FS_Interval
    <3> QED BY <1>2, <3>1
  <2> HIDE DEF Earlier
  <2> QED BY <2>1, FS_Subset
<1>4. i \in Earlier
  BY <1>1, <1>2
<1>5. Cardinality(Earlier) \in Nat /\ Cardinality(Earlier) # 0
  BY <1>3, <1>4, FS_CardinalityType, FS_EmptySet
<1>6. Q!Turn(i) \in Nat \ {0}
  BY <1>5, CountsAlike DEF Q!Turn
<1> QED BY <1>1, <1>2, <1>6 DEF QueueSettings

LEMMA Receiving ==
  ASSUME QueueSettings, QueueKept, NEW w \in Worker, Q!Receive(w)
  PROVE  QueueKept'
<1> DEFINE Delivered(i) == [entries[i] EXCEPT !.attempts = Q!Least(@ + 1, MaxAttempts), !.wait = Lease,
                                              !.receipt = <<w, Q!Turn(i)>>]
<1>1. /\ entries' = [i \in DOMAIN entries |-> IF i \in Q!Taken THEN Delivered(i) ELSE entries[i]]
      /\ slot' = [d \in Q!Slot |->
           IF d[1] = w /\ \E i \in Q!Taken : Q!Turn(i) = d[2]
             THEN [message |-> entries[Q!TakenAt(d[2])].message,
                   attempts |-> Delivered(Q!TakenAt(d[2])).attempts, phase |-> "handling"]
             ELSE slot[d]]
      /\ worker' = [worker EXCEPT ![w] = "working"]
      /\ UNCHANGED <<failed, published, succeeded, acked>>
  BY DEF Q!Receive
<1>2. \A i \in DOMAIN entries : entries[i] \in EntryRow
  BY ElementOfSeq, LenProperties DEF QueueKept
<1>3. ASSUME NEW i \in Q!Taken PROVE Delivered(i) \in EntryRow /\ Delivered(i).message = entries[i].message
  <2>1. entries[i] \in EntryRow /\ <<w, Q!Turn(i)>> \in Q!Slot
    BY <1>2, Turns DEF Q!Slot
  <2>2. Q!Least(entries[i].attempts + 1, MaxAttempts) \in 0..MaxAttempts /\ Lease \in Nat
    BY <2>1 DEF Q!Least, EntryRow, QueueSettings
  <2> QED BY <2>1, <2>2 DEF EntryRow
<1>4. /\ entries' \in Seq(EntryRow) /\ Len(entries') <= Capacity /\ Distinct(entries')
      /\ Q!Pending' = Q!Pending
  <2>1. entries' \in [DOMAIN entries -> EntryRow]
    BY <1>1, <1>2, <1>3
  <2>2. \A i \in DOMAIN entries : entries'[i].message = entries[i].message
    BY <1>1, <1>3
  <2> QED BY <2>1, <2>2, Staying
<1>5. ASSUME NEW d \in Q!Slot
      PROVE  slot'[d] \in Delivery /\ (slot'[d].phase = "handling" => slot'[d].message \in published)
  <2>1. CASE d[1] = w /\ \E i \in Q!Taken : Q!Turn(i) = d[2]
    <3> DEFINE k == Q!TakenAt(d[2])
    <3>1. k \in Q!Taken
      BY <2>1 DEF Q!TakenAt
    <3>2. k \in DOMAIN entries /\ Delivered(k) \in EntryRow /\ entries[k] \in EntryRow
      BY <1>2, <1>3, <3>1, Turns
    <3>3. slot'[d] = [message |-> entries[k].message, attempts |-> Delivered(k).attempts, phase |-> "handling"]
      BY <1>1, <2>1
    <3> HIDE DEF k, Delivered
    <3>4. slot'[d] \in Delivery /\ slot'[d].message = entries[k].message
      BY <3>2, <3>3 DEF Delivery, EntryRow
    <3> QED BY <3>2, <3>4 DEF QueueKept, Q!Pending
  <2>2. CASE ~(d[1] = w /\ \E i \in Q!Taken : Q!Turn(i) = d[2])
    BY <1>1, <2>2 DEF QueueKept, Q!Handling
  <2> QED BY <2>1, <2>2
<1>6. slot' \in [Q!Slot -> Delivery] /\ \A d \in Q!Slot : Q!Handling(d)' => slot'[d].message \in published'
  BY <1>1, <1>5 DEF Q!Handling
<1> HIDE DEF Delivered
<1> QED BY <1>1, <1>4, <1>6 DEF QueueKept

\* A delivery that is settled leaves the queue, or waits for another turn.
LEMMA Settlement ==
  ASSUME QueueSettings, QueueKept, NEW d \in Q!Slot,
         (Q!Ack(d) /\ slot[d].message \in succeeded') \/ Q!Retry(d) \/ Q!DeadLetter(d) \/ Q!Reject(d),
         succeeded \subseteq succeeded', succeeded' \subseteq published, UNCHANGED <<worker, published>>
  PROVE  QueueKept'
<1>1. ASSUME NEW phase \in {"settled", "rejected"}, Q!Ends(d, phase)
      PROVE  slot' \in [Q!Slot -> Delivery] /\ \A e \in Q!Slot : Q!Handling(e)' => slot'[e].message \in published'
  <2>1. slot' \in [Q!Slot -> Delivery] /\ \A e \in Q!Slot : Q!Handling(e)' => Q!Handling(e) /\ slot'[e] = slot[e]
    BY <1>1, DeliveryEnds DEF QueueKept
  <2> QED BY <2>1 DEF QueueKept
<1> DEFINE k == Q!Of(d)
           m == slot[d].message
<1>2. Q!Current(d) => k \in DOMAIN entries /\ entries[k].message = m
  BY EntryOf
<1>3. entries \in Seq(EntryRow) /\ Len(entries) \in Nat
  BY LenProperties DEF QueueKept
<1>4. CASE Q!Reject(d)
  BY <1>1, <1>4 DEF QueueKept, Q!Reject, Q!Pending
<1>5. CASE Q!Retry(d)
  <2>1. PICK seconds \in Q!Delays(slot[d].attempts) :
          entries' = [entries EXCEPT ![Q!Of(d)].wait = seconds, ![Q!Of(d)].receipt = NoReceipt]
    BY <1>5 DEF Q!Retry
  <2>2. seconds \in Nat
    BY <2>1 DEF Q!Delays
  <2>3. entries' \in [DOMAIN entries -> EntryRow] /\ \A i \in DOMAIN entries : entries'[i].message = entries[i].message
    <3>1. \A i \in DOMAIN entries : entries[i] \in EntryRow
      BY <1>3, ElementOfSeq, LenProperties
    <3> QED BY <2>1, <2>2, <3>1 DEF EntryRow
  <2>4. /\ entries' \in Seq(EntryRow) /\ Len(entries') <= Capacity /\ Distinct(entries')
        /\ Q!Pending' = Q!Pending
    BY <2>3, Staying
  <2> QED BY <1>1, <1>5, <2>4 DEF QueueKept, Q!Retry
\* What leaves the queue is acknowledged or a dead letter.
<1>6. ASSUME Q!Current(d), entries' = Q!RemoveAt(entries, Q!Of(d))
      PROVE  /\ entries' \in Seq(EntryRow) /\ Len(entries') <= Capacity /\ Distinct(entries')
             /\ Q!Pending' = Q!Pending \ {m} /\ m \in Q!Pending
  <2>1. /\ entries' \in Seq(EntryRow) /\ Len(entries') = Len(entries) - 1 /\ Distinct(entries')
        /\ Messages(entries') = Messages(entries) \ {m}
    BY <1>2, <1>6, Removing DEF QueueKept
  <2>2. Len(entries') <= Capacity
    BY <1>3, <2>1 DEF QueueKept, QueueSettings
  <2>3. m \in Q!Pending
    BY <1>6 DEF Q!Current
  <2> QED BY <2>1, <2>2, <2>3 DEF Q!Pending, Messages
<1>7. CASE Q!Ack(d) /\ slot[d].message \in succeeded'
  <2>1. /\ entries' \in Seq(EntryRow) /\ Len(entries') <= Capacity /\ Distinct(entries')
        /\ Q!Pending' = Q!Pending \ {m} /\ m \in Q!Pending
    BY <1>6, <1>7 DEF Q!Ack
  <2>2. acked' = acked \cup {m} /\ failed' = failed /\ m \in succeeded'
    BY <1>7 DEF Q!Ack
  <2> QED BY <1>1, <1>7, <2>1, <2>2 DEF QueueKept, Q!Ack
<1>8. CASE Q!DeadLetter(d)
  <2>1. CASE Q!HasRoom(Cardinality(failed))
    <3>1. /\ entries' \in Seq(EntryRow) /\ Len(entries') <= Capacity /\ Distinct(entries')
          /\ Q!Pending' = Q!Pending \ {m} /\ m \in Q!Pending
      BY <1>6, <1>8, <2>1, CountsAlike DEF Q!DeadLetter
    <3>2. failed' = failed \cup {m} /\ acked' = acked
      BY <1>8, <2>1, CountsAlike DEF Q!DeadLetter
    <3>3. IsFiniteSet(failed') /\ Cardinality(failed') <= Capacity
      <4>1. IsFiniteSet(failed \cup {m}) /\ Cardinality(failed) \in Nat
            /\ Cardinality(failed \cup {m}) = IF m \in failed THEN Cardinality(failed) ELSE Cardinality(failed) + 1
        BY FS_AddElement, FS_CardinalityType DEF QueueKept
      <4> QED BY <2>1, <3>2, <4>1 DEF Q!HasRoom, QueueSettings
    <3> HIDE DEF m
    <3> QED BY <1>1, <1>8, <2>1, <3>1, <3>2, <3>3 DEF QueueKept, Q!DeadLetter
  <2>2. CASE ~Q!HasRoom(Cardinality(failed))
    BY <1>1, <1>8, <2>2, CountsAlike DEF QueueKept, Q!DeadLetter, Q!Pending
  <2> QED BY <2>1, <2>2
<1> QED BY <1>4, <1>5, <1>7, <1>8

\* An accepted message is pending, dead or acknowledged after it was worked on, and only one of
\* these, whatever the workers, the clock and the owner do (Queue.workOnce, MemoryQueue).
THEOREM NothingIsLost == ASSUME QueueSettings PROVE Q!Spec => []MessagesAreKept
<1>1. Q!Init => QueueKept
  <2> SUFFICES ASSUME Q!Init PROVE QueueKept
    OBVIOUS
  <2>1. entries \in Seq(EntryRow) /\ Len(entries) = 0 /\ DOMAIN entries = {}
    BY DEF Q!Init
  <2>2. slot \in [Q!Slot -> Delivery] /\ \A d \in Q!Slot : ~Q!Handling(d)
    BY DEF Q!Init, Q!Free, Delivery, Q!Handling, QueueSettings
  <2> QED BY <2>1, <2>2, FS_EmptySet DEF Q!Init, QueueKept, Distinct, Q!Pending, QueueSettings
<1>2. QueueKept /\ [Q!Next]_(Q!queueVars) => QueueKept'
  <2> SUFFICES ASSUME QueueKept, [Q!Next]_(Q!queueVars) PROVE QueueKept'
    OBVIOUS
  <2>1. ASSUME UNCHANGED Q!queueVars PROVE QueueKept'
    BY <2>1 DEF QueueKept, Q!queueVars, Distinct, Q!Handling, Q!Pending
  <2>2. ASSUME NEW m \in Message, Q!Publish(m) \/ Q!RetryFailure(m) PROVE QueueKept'
    BY <2>2, Joining
  <2>3. ASSUME NEW w \in Worker, Q!Receive(w) PROVE QueueKept'
    BY <2>3, Receiving
  <2>4. ASSUME NEW w \in Worker, Q!Finish(w) PROVE QueueKept'
    <3>1. \A d \in Q!Slot : slot'[d] = IF d[1] = w THEN Q!Free ELSE slot[d]
      BY <2>4 DEF Q!Finish
    <3>2. slot' \in [Q!Slot -> Delivery] /\ worker' \in [Worker -> {"pulling", "working", "stopped"}]
      BY <2>4 DEF Q!Finish, QueueKept, Q!Free, Delivery, QueueSettings
    <3>3. \A d \in Q!Slot : Q!Handling(d)' => slot'[d].message \in published'
      BY <2>4, <3>1 DEF Q!Finish, QueueKept, Q!Free, Q!Handling
    <3> QED BY <2>4, <3>2, <3>3 DEF Q!Finish, QueueKept, Distinct, Q!Pending
  <2>5. ASSUME NEW w \in Worker, Q!Restart(w) PROVE QueueKept'
    BY <2>5 DEF Q!Restart, QueueKept, Distinct, Q!Handling, Q!Pending
  <2>6. ASSUME NEW d \in Q!Slot, Q!Extend(d) PROVE QueueKept'
    <3>1. PICK seconds \in 0..Lease : entries' = [entries EXCEPT ![Q!Of(d)].wait = seconds]
      BY <2>6 DEF Q!Extend
    <3>2. entries' \in [DOMAIN entries -> EntryRow] /\ \A i \in DOMAIN entries : entries'[i].message = entries[i].message
      <4>1. \A i \in DOMAIN entries : entries[i] \in EntryRow
        BY ElementOfSeq, LenProperties DEF QueueKept
      <4>2. seconds \in Nat
        BY <3>1
      <4> QED BY <3>1, <4>1, <4>2 DEF EntryRow
    <3>3. /\ entries' \in Seq(EntryRow) /\ Len(entries') <= Capacity /\ Distinct(entries')
          /\ Q!Pending' = Q!Pending
      BY <3>2, Staying
    <3> QED BY <2>6, <3>3 DEF Q!Extend, QueueKept, Q!Handling
  <2>7. ASSUME NEW d \in Q!Slot, Q!Succeed(d) PROVE QueueKept'
    <3>1. succeeded' = succeeded \cup {slot[d].message} /\ (Q!Ack(d) \/ Q!Reject(d)) /\ UNCHANGED <<worker, published>>
      BY <2>7 DEF Q!Succeed
    <3>2. slot[d].message \in published
      BY <2>7 DEF Q!Succeed, QueueKept
    <3> QED BY <3>1, <3>2, Settlement DEF QueueKept
  <2>8. ASSUME NEW d \in Q!Slot, Q!Throw(d) PROVE QueueKept'
    <3>1. (Q!DeadLetter(d) \/ Q!Retry(d) \/ Q!Reject(d)) /\ UNCHANGED <<worker, published, succeeded>>
      BY <2>8 DEF Q!Throw
    <3> QED BY <3>1, Settlement DEF QueueKept
  <2>9. ASSUME Q!Tick PROVE QueueKept'
    <3>1. entries' = [i \in DOMAIN entries |-> [entries[i] EXCEPT !.wait = IF @ > 0 THEN @ - 1 ELSE 0]]
      BY <2>9 DEF Q!Tick
    <3>2. \A i \in DOMAIN entries : entries[i] \in EntryRow
      BY ElementOfSeq, LenProperties DEF QueueKept
    <3>3. \A i \in DOMAIN entries : [entries[i] EXCEPT !.wait = IF @ > 0 THEN @ - 1 ELSE 0] \in EntryRow
      BY <3>2 DEF EntryRow
    <3>4. entries' \in [DOMAIN entries -> EntryRow] /\ \A i \in DOMAIN entries : entries'[i].message = entries[i].message
      BY <3>1, <3>2, <3>3 DEF EntryRow
    <3>5. /\ entries' \in Seq(EntryRow) /\ Len(entries') <= Capacity /\ Distinct(entries')
          /\ Q!Pending' = Q!Pending
      BY <3>4, Staying
    <3> QED BY <2>9, <3>5 DEF Q!Tick, QueueKept, Q!Handling
  <2> QED BY <2>1, <2>2, <2>3, <2>4, <2>5, <2>6, <2>7, <2>8, <2>9 DEF Q!Next
<1>3. QueueKept => MessagesAreKept
  <2> SUFFICES ASSUME QueueKept PROVE MessagesAreKept
    OBVIOUS
  <2>1. Cardinality(Q!Pending) = Len(entries)
    <3>1. DOMAIN entries = 1..Len(entries) /\ Len(entries) \in Nat
      BY LenProperties DEF QueueKept
    <3> DEFINE f == [i \in 1..Len(entries) |-> entries[i].message]
    <3>2. f \in Injection(1..Len(entries), Q!Pending)
      <4>1. f \in [1..Len(entries) -> Q!Pending]
        BY <3>1 DEF Q!Pending
      <4>2. \A i, j \in 1..Len(entries) : f[i] = f[j] => i = j
        BY <3>1 DEF QueueKept, Distinct
      <4> HIDE DEF f
      <4> QED BY <4>1, <4>2 DEF Injection, IsInjective
    <3>3. f \in Surjection(1..Len(entries), Q!Pending)
      BY <3>1 DEF Q!Pending, Surjection
    <3>4. f \in Bijection(1..Len(entries), Q!Pending)
      BY <3>2, <3>3 DEF Bijection
    <3> QED BY <3>1, <3>4, FS_CountingElements DEF ExistsBijection
  <2> QED BY <2>1 DEF QueueKept, MessagesAreKept, QueueTypeOK, Accounted, EntryRow, Delivery, Slot, Q!Slot,
                         Pending, Q!Pending, Handling, Q!Handling
<1> QED BY <1>1, <1>2, <1>3, PTL DEF Q!Spec
=============================================================================
