---------------------------- MODULE ServiceKeys -----------------------------
(***************************************************************************)
(* packages/auth, service-keys.ts and limits.ts: one key an administrator  *)
(* manages, the requests that present it, and the counter that limits      *)
(* them in a minute.  Tokens are numbered as they are made; 0 is a wrong   *)
(* one.  The clock counts minutes, windows of the limit.                   *)
(***************************************************************************)
EXTENDS ServiceKeysState

CONSTANTS
  Caller,      \* concurrent requests
  Tries,       \* how often the counter is tried (8)
  MaxVersion   \* bound of the versions of the key

VARIABLES
  minute,
  rate,     \* [Minute -> the count of its row of RATE]
  use,      \* lastUsedAt of the row of SERVICE_KEY_USE; -1 is no row
  call      \* [Caller -> its request]

vars == <<minute, key, audit, rate, use, call, passed>>

-----------------------------------------------------------------------------
NoKey == [version |-> 0, token |-> 0, revoked |-> FALSE]
Idle == [phase |-> "idle", key |-> NoKey, at |-> 0, count |-> 0, use |-> -1, tries |-> 0]

Init ==
  /\ minute = 0 /\ key = NoKey /\ audit = {}
  /\ rate = [n \in Minute |-> 0]
  /\ use = -1
  /\ call = [c \in Caller |-> Idle]
  /\ passed = [n \in Minute |-> 0]

Ends(c) == call' = [call EXCEPT ![c] = Idle]

-----------------------------------------------------------------------------
(* create(), rotate() and revoke().                                        *)

Manage(c, action) ==
  /\ call[c].phase = "idle" /\ key.version < MaxVersion
  /\ IF action = "create" THEN key.version = 0 ELSE key.version > 0 /\ ~key.revoked
  /\ call' = [call EXCEPT ![c] = [Idle EXCEPT !.phase = action, !.key = key]]
  /\ UNCHANGED <<minute, key, audit, rate, use, passed>>

\* Bug: the key is written back whatever became of it.
SameKeyNever(row) == TRUE

SameKey(row) == key.version = row.version

Written(action, row) ==
  CASE action \in {"create", "rotate"} -> [row EXCEPT !.version = @ + 1, !.token = @ + 1]
    [] action = "revoke" -> [row EXCEPT !.version = @ + 1, !.revoked = TRUE]

\* The audit row is written with the key.
Write(c) ==
  /\ call[c].phase \in {"create", "rotate", "revoke"}
  /\ LET row == Written(call[c].phase, call[c].key)
     IN IF SameKey(call[c].key)
          THEN key' = row /\ audit' = audit \cup {<<row.version, call[c].phase>>}
          ELSE UNCHANGED <<key, audit>>
  /\ Ends(c)
  /\ UNCHANGED <<minute, rate, use, passed>>

-----------------------------------------------------------------------------
(* actor(): the token, the limit, and the last use.                        *)

Present(c, token) ==
  /\ call[c].phase = "idle"
  /\ key.version > 0 /\ token = key.token /\ ~key.revoked
  /\ call' = [call EXCEPT ![c] = [Idle EXCEPT !.phase = "limit", !.at = minute]]
  /\ UNCHANGED <<minute, key, audit, rate, use, passed>>

\* Bug: the counter may be read once too often.
WithinOrAt(count) == count <= RateLimit

Within(count) == count < RateLimit

\* A refused request is not counted.
LimitRead(c) ==
  /\ call[c].phase = "limit"
  /\ IF Within(rate[call[c].at])
       THEN call' = [call EXCEPT ![c].phase = "count", ![c].count = rate[call[c].at]]
       ELSE Ends(c)
  /\ UNCHANGED <<minute, key, audit, rate, use, passed>>

SameCount(c) == rate[call[c].at] = call[c].count

\* A conflict is tried again, a few times.
LimitWrite(c) ==
  /\ call[c].phase = "count"
  /\ LET at == call[c].at
     IN CASE SameCount(c) ->
               /\ rate' = [rate EXCEPT ![at] = call[c].count + 1]
               /\ passed' = [passed EXCEPT ![at] = @ + 1]
               /\ call' = [call EXCEPT ![c] = [Idle EXCEPT !.phase = "used", !.at = at]]
          [] ~SameCount(c) /\ call[c].tries + 1 < Tries ->
               /\ call' = [call EXCEPT ![c].phase = "limit", ![c].tries = @ + 1]
               /\ UNCHANGED <<rate, passed>>
          [] OTHER -> Ends(c) /\ UNCHANGED <<rate, passed>>
  /\ UNCHANGED <<minute, key, audit, use>>

UseRead(c) ==
  /\ call[c].phase = "used"
  /\ IF use = -1 \/ call[c].at - use >= 1
       THEN call' = [call EXCEPT ![c].phase = "touch", ![c].use = use]
       ELSE Ends(c)
  /\ UNCHANGED <<minute, key, audit, rate, use, passed>>

SameUse(c) == use = call[c].use

\* A conflict means that somebody else did it.
Touch(c) ==
  /\ call[c].phase = "touch"
  /\ use' = IF SameUse(c) THEN call[c].at ELSE use
  /\ Ends(c)
  /\ UNCHANGED <<minute, key, audit, rate, passed>>

-----------------------------------------------------------------------------
Fail(c) ==
  /\ call[c].phase # "idle" /\ Ends(c)
  /\ UNCHANGED <<minute, key, audit, rate, use, passed>>

Tick ==
  /\ minute < MaxMinute /\ minute' = minute + 1
  /\ UNCHANGED <<key, audit, rate, use, call, passed>>

Next ==
  \/ \E c \in Caller :
       \/ \E action \in {"create", "rotate", "revoke"} : Manage(c, action)
       \/ \E token \in 0..MaxVersion : Present(c, token)
       \/ Write(c) \/ LimitRead(c) \/ LimitWrite(c) \/ UseRead(c) \/ Touch(c) \/ Fail(c)
  \/ Tick

Spec == Init /\ [][Next]_vars
=============================================================================
