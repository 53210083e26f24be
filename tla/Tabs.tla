-------------------------------- MODULE Tabs --------------------------------
(***************************************************************************)
(* packages/auth client.ts: the tabs of a browser that share one session,  *)
(* with Web Locks and a BroadcastChannel.  Duplicated tabs have a storage  *)
(* each (sessionStorage), or all have one (localStorage) that tells the    *)
(* other tabs when it changes.  The server answers at once (its own steps  *)
(* are those of module Sessions), and an answer is lost only if nothing    *)
(* was done.                                                               *)
(*                                                                         *)
(* A message takes its time, and may meet a refresh on its way to the      *)
(* lock, to the server or back; but less than a request and its answer,    *)
(* and these take no longer than Latency.  Secrets are numbered.           *)
(***************************************************************************)
EXTENDS TabsState

CONSTANTS
  MaxSecrets,  \* bound of the rotations
  MaxClock

VARIABLES
  clock,
  shared,   \* whether the tabs have one storage
  stored,   \* [Tab -> the session in its storage]
  lock      \* the tab that holds the lock of the refresh

vars == <<clock, shared, server, tab, stored, inbox, lock>>

-----------------------------------------------------------------------------
NoSession == [secret |-> 0, fresh |-> 0]
Closed == [open |-> FALSE, current |-> NoSession, phase |-> "idle", started |-> 0, since |-> 0,
           replaced |-> FALSE, answer |-> 0]
First == [secret |-> 1, fresh |-> Access]

Init ==
  /\ clock = 0 /\ shared \in BOOLEAN
  /\ server = [secret |-> 1, previous |-> 0, rotatedAt |-> 0, revoked |-> "no"]
  /\ \E t \in Tab :
       /\ tab = [u \in Tab |-> IF u = t THEN [Closed EXCEPT !.open = TRUE, !.current = First] ELSE Closed]
       /\ stored = [u \in Tab |-> IF shared \/ u = t THEN First ELSE NoSession]
  /\ inbox = [t \in Tab |-> <<>>]
  /\ lock = NoTab

Fresh(session) == session.secret # 0 /\ session.fresh > clock

Siblings(t) == {u \in Tab \ {t} : tab[u].open}

Tell(t, session) ==
  IF session.secret # 0 THEN <<[type |-> "set", session |-> session]>>
  ELSE IF SignedIn(t) THEN <<[type |-> "clear", session |-> NoSession]>> ELSE <<>>

\* apply(): the tab and its storage take the session, and the others are told of it.
Apply(t, state, session, broadcast) ==
  /\ tab' = [tab EXCEPT ![t] = [state EXCEPT !.current = session, !.replaced = TRUE]]
  /\ stored' = [u \in Tab |-> IF shared \/ u = t THEN session ELSE stored[u]]
  /\ inbox' = [u \in Tab |->
       LET old  == IF u = t /\ ~broadcast /\ inbox[u] # <<>> THEN Tail(inbox[u]) ELSE inbox[u]
           told == (IF broadcast THEN Tell(t, session) ELSE <<>>)
                     \o (IF shared /\ stored[t] # session THEN <<[type |-> "storage", session |-> NoSession]>> ELSE <<>>)
       IN IF u \in Siblings(t) THEN old \o told ELSE old]

-----------------------------------------------------------------------------
\* A duplicated tab begins with what is stored; a message does not take as long.
Open(t, u) ==
  /\ tab[t].open /\ ~tab[u].open /\ inbox[t] = <<>>
  /\ tab' = [tab EXCEPT ![u] = [Closed EXCEPT !.open = TRUE, !.current = stored[t]]]
  /\ stored' = [stored EXCEPT ![u] = stored[t]]
  /\ UNCHANGED <<clock, shared, server, inbox, lock>>

\* channel.onmessage and onStorage
Hear(t) ==
  /\ inbox[t] # <<>>
  /\ LET message == Head(inbox[t]) IN
       CASE message.type = "storage" -> Apply(t, tab[t], stored[t], FALSE)
         [] message.type \in {"set", "clear"} /\ SignedIn(t) -> Apply(t, tab[t], message.session, FALSE)
         [] OTHER -> inbox' = [inbox EXCEPT ![t] = Tail(@)] /\ UNCHANGED <<tab, stored>>
  /\ UNCHANGED <<clock, shared, server, lock>>

\* refresh(), by a timer, or by a call whose access token is old or was refused.
Refresh(t) ==
  /\ tab[t].phase = "idle" /\ SignedIn(t)
  /\ ~Fresh(tab[t].current) \/ server.revoked # "no"
  /\ tab' = [tab EXCEPT ![t].phase = "lock", ![t].started = tab[t].current.secret, ![t].replaced = FALSE]
  /\ UNCHANGED <<clock, shared, server, stored, inbox, lock>>

\* Bug: a browser without locks.
EntersAlways(t) == lock' = lock

Enters(t) == lock = NoTab /\ lock' = t
Leaves(t) == lock' = IF lock = t THEN NoTab ELSE lock
Over(state) == [state EXCEPT !.phase = "idle", !.started = 0, !.since = 0, !.replaced = FALSE, !.answer = 0]

\* rotate(): somebody else may have rotated by now.
Adoptable(t) == stored[t].secret \notin {0, tab[t].started} /\ Fresh(stored[t])

Adopt(t) ==
  /\ tab[t].phase = "lock" /\ lock = NoTab /\ Adoptable(t)
  /\ tab' = [tab EXCEPT ![t] = Over([@ EXCEPT !.current = stored[t]])]
  /\ UNCHANGED <<clock, shared, server, stored, inbox, lock>>

Skip(t) ==
  /\ tab[t].phase = "lock" /\ lock = NoTab /\ ~Adoptable(t)
  /\ ~SignedIn(t) \/ (tab[t].replaced /\ Fresh(tab[t].current))
  /\ tab' = [tab EXCEPT ![t] = Over(@)]
  /\ UNCHANGED <<clock, shared, server, stored, inbox, lock>>

Fetch(t) ==
  /\ tab[t].phase = "lock" /\ ~Adoptable(t)
  /\ SignedIn(t) /\ ~(tab[t].replaced /\ Fresh(tab[t].current))
  /\ Enters(t)
  /\ tab' = [tab EXCEPT ![t].phase = "fetch", ![t].started = tab[t].current.secret, ![t].since = clock]
  /\ UNCHANGED <<clock, shared, server, stored, inbox>>

\* RefreshSessions.rotate()
Accepted(secret) ==
  \/ secret = server.secret
  \/ secret = server.previous /\ clock - server.rotatedAt <= RefreshGrace

Rotated(secret) ==
  [server EXCEPT !.secret = @ + 1, !.previous = IF secret = server.secret THEN secret ELSE @,
                 !.rotatedAt = IF secret = server.secret THEN clock ELSE @]

Serve(t) ==
  /\ tab[t].phase = "fetch"
  /\ LET secret == tab[t].started
     IN \/ /\ server.revoked = "no" /\ Accepted(secret) /\ server.secret < MaxSecrets
           /\ server' = Rotated(secret)
           /\ tab' = [tab EXCEPT ![t].phase = "answer", ![t].answer = server'.secret]
        \/ /\ server.revoked = "no" /\ ~Accepted(secret)
           /\ server' = [server EXCEPT !.revoked = "reuse"]
           /\ tab' = [tab EXCEPT ![t].phase = "answer"]
        \/ /\ server.revoked # "no"
           /\ tab' = [tab EXCEPT ![t].phase = "answer"]
           /\ UNCHANGED server
  /\ UNCHANGED <<clock, shared, stored, inbox, lock>>

\* A 401 ends the session of the tab.
Answer(t) ==
  /\ tab[t].phase = "answer" /\ \A u \in Tab : inbox[u] = <<>>
  /\ Apply(t, Over(tab[t]), IF tab[t].answer = 0 THEN NoSession ELSE [secret |-> tab[t].answer, fresh |-> clock + Access], TRUE)
  /\ Leaves(t)
  /\ UNCHANGED <<clock, shared, server>>

\* The request does not reach the server, or meets a 429 or 5xx: it is tried again later.
Fail(t) ==
  /\ tab[t].phase = "fetch"
  /\ tab' = [tab EXCEPT ![t] = Over(@)]
  /\ Leaves(t)
  /\ UNCHANGED <<clock, shared, server, stored, inbox>>

\* set(undefined), after the server has ended the session.
SignOut(t) ==
  /\ SignedIn(t) /\ inbox[t] = <<>>
  /\ server' = [server EXCEPT !.revoked = IF @ = "no" THEN "logout" ELSE @]
  /\ Apply(t, tab[t], NoSession, TRUE)
  /\ UNCHANGED <<clock, shared, lock>>

Tick ==
  /\ clock < MaxClock
  /\ \A t \in Tab : inbox[t] = <<>> /\ (lock = t => clock < tab[t].since + Latency)
  /\ clock' = clock + 1
  /\ UNCHANGED <<shared, server, tab, stored, inbox, lock>>

Next ==
  \/ \E t \in Tab :
       \/ Hear(t) \/ Refresh(t) \/ Adopt(t) \/ Skip(t) \/ Fetch(t)
       \/ Serve(t) \/ Answer(t) \/ Fail(t) \/ SignOut(t)
       \/ \E u \in Tab : Open(t, u)
  \/ Tick

Spec == Init /\ [][Next]_vars

=============================================================================
