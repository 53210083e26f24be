--------------------------- MODULE RefreshClient ----------------------------
(***************************************************************************)
(* packages/auth client.ts: the tab that holds a session's refresh token,  *)
(* one refresh at a time, over the server of module Sessions.  What the    *)
(* server calls "failed" reaches the tab as a network error or a 5xx: it   *)
(* keeps its token and tries again after Retry.                            *)
(***************************************************************************)
EXTENDS Sessions

CONSTANT Retry   \* retryMs

VARIABLE tab     \* [Session -> the secret its tab holds, 0 for none, and when it tries again]

clientVars == <<now, user, rows, job, spent, tab>>

SignedOut == [secret |-> 0, retryAt |-> 0]

ClientInit == Init /\ tab = [s \in Session |-> SignedOut]

\* A timer of schedule(), or a request whose access token is about to expire.
Refresh(p, s) ==
  /\ tab[s].secret # 0 /\ now >= tab[s].retryAt
  /\ \A q \in Process : Free(q) \/ job[q].session # s
  /\ BeginRefresh(p, s, tab[s].secret)
  /\ UNCHANGED tab

SignIn(p) == BeginSignIn(p) /\ UNCHANGED tab

Hears(s, phase) ==
  CASE phase = "answered" -> [secret |-> rows'[s].secret, retryAt |-> now]
    [] phase = "refused"  -> SignedOut
    [] phase = "failed"   -> [tab[s] EXCEPT !.retryAt = now + Retry]

Serve(p) ==
  /\ Step(p)
  /\ tab' = IF job'[p].phase \in Reported /\ job'[p].session # NoSession
              THEN [tab EXCEPT ![job'[p].session] = Hears(job'[p].session, job'[p].phase)]
              ELSE tab

ClientNext ==
  \/ Tick /\ UNCHANGED tab
  \/ \E p \in Process : SignIn(p) \/ Serve(p) \/ \E s \in Session : Refresh(p, s)

ClientSpec == ClientInit /\ [][ClientNext]_clientVars

(* Network errors and 5xx keep the session (docs/authentication.md): a     *)
(* token that only its own tab ever presents is never taken for stolen.    *)
FailuresKeepTheSession == \A s \in Session : rows[s].revoked # "reuse"
=============================================================================
