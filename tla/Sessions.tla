------------------------------ MODULE Sessions ------------------------------
(***************************************************************************)
(* packages/auth, packages/users-bans: the refresh sessions of one user    *)
(* (class RefreshSessions), the requests that use them (Auth.refresh,      *)
(* Auth.actor, Auth.logout) and what cuts them (UserBans).                 *)
(*                                                                         *)
(* Every await is a step of its own, and every write is conditioned on the *)
(* version its row had when it was read.  A write commits, meets a         *)
(* Conflict, or fails with an error, and then it may have been done all    *)
(* the same.  A secret is random: the row version it was stored with       *)
(* stands for it, 0 for none, and whoever presents one may present any.    *)
(***************************************************************************)
EXTENDS Integers, FiniteSets

CONSTANTS
  Process,     \* concurrent requests
  Session,     \* ids of sessions
  Requests,    \* the operations they may ask for
  Attempts,    \* how often a version-guarded write is tried
  Ttl,         \* absolute lifetime of a session
  Grace,       \* how long the previous secret stays usable
  Temporary,   \* how long a temporary ban lasts
  MaxNow,      \* bound of the clock
  MaxVersion,  \* no request begins on a session row of this version
  MaxUpdates,  \* no request begins on a user row of this version
  NoSession

Operations == {"signIn", "refresh", "access", "logout", "logoutAll", "ban", "unban", "profile"}

ASSUME RequestsAssumption == Requests \subseteq Operations /\ NoSession \notin Session
ASSUME TimesAssumption ==
  Attempts \in Nat \ {0} /\ Ttl \in Nat /\ Grace \in Nat /\ Temporary \in Nat /\ MaxNow \in Nat

VARIABLES
  now,
  user,   \* the row of the user: version, tokenVersion, end of the ban in force
  rows,   \* [Session -> its row]; version 0: no row
  job,    \* [Process -> the request it serves]
  spent   \* when each secret was first exchanged: [session, secret, at]

vars == <<now, user, rows, job, spent>>

-----------------------------------------------------------------------------
NoRow == [version |-> 0, tokenVersion |-> 0, secret |-> 0, previous |-> 0,
          rotatedAt |-> 0, expiresAt |-> 0, revoked |-> "no"]

Forever == MaxNow + 1

User == [version |-> 1, tokenVersion |-> 1, until |-> 0]

\* read and seen are the user and the session as read; at is when; dead says whether
\* the session had ended when the request began; before, the sessions a ban found.
Idle == [op |-> "none", phase |-> "idle", session |-> NoSession, secret |-> 0, until |-> 0,
         read |-> User, seen |-> NoRow, at |-> 0, tries |-> 0, dead |-> FALSE,
         todo |-> {}, before |-> {}]

Init ==
  /\ now = 0
  /\ user = User
  /\ rows = [s \in Session |-> NoRow]
  /\ job = [p \in Process |-> Idle]
  /\ spent = {}

Banned(u) == u.until > now

Bans == {now + Temporary, Forever}

\* sessionLive()
Live(row, t) == row.version # 0 /\ row.revoked = "no" /\ t < row.expiresAt

\* The session has been revoked, has expired, or was cut by a new tokenVersion.
Ended(s) == rows[s].version # 0 /\ (~Live(rows[s], now) \/ rows[s].tokenVersion # user.tokenVersion)

Reported == {"answered", "refused", "failed"}

\* What is left of a request when its caller hears the answer.
Told(j, answer) ==
  LET heard == [Idle EXCEPT !.phase = answer, !.session = j.session]
  IN CASE answer = "failed"   -> heard
       [] answer = "refused"  -> [heard EXCEPT !.op = j.op]
       [] answer = "answered" ->
            [heard EXCEPT !.op = j.op, !.secret = j.secret, !.at = j.at, !.dead = j.dead, !.before = j.before]

Go(p, phase) ==
  job' = [job EXCEPT ![p] = IF phase \in Reported THEN Told(@, phase) ELSE [@ EXCEPT !.phase = phase]]

\* Where a write that met a Conflict is tried again from.
Again(p, phase) ==
  IF job[p].tries + 1 < Attempts
    THEN job' = [job EXCEPT ![p].phase = phase, ![p].tries = @ + 1]
    ELSE Go(p, "failed")

-----------------------------------------------------------------------------
(* What begins a request; one whose caller heard the answer is over.       *)

Free(p) == job[p].phase \in Reported \cup {"idle"}

Begin(p, op, s, secret, phase) ==
  /\ Free(p) /\ op \in Requests
  /\ job' = [job EXCEPT ![p] = [Idle EXCEPT !.op = op, !.phase = phase, !.session = s, !.secret = secret,
                                           !.dead = s # NoSession /\ Ended(s)]]
  /\ UNCHANGED <<now, user, rows, spent>>

\* Bounds: no sign-in begins without an id left for its session, and ...
BeginSignIn(p) == (\E s \in Session : rows[s].version = 0) /\ Begin(p, "signIn", NoSession, 0, "gate")

\* ... no request on a session row or a user row that was written too often.
Used(s) == rows[s].version # 0 /\ rows[s].version < MaxVersion

BeginRefresh(p, s, secret) == Used(s) /\ secret \in 1..rows[s].version /\ Begin(p, "refresh", s, secret, "find")
BeginAccess(p, s) == Used(s) /\ Begin(p, "access", s, 0, "actor")
BeginLogout(p, s) == Used(s) /\ Begin(p, "logout", s, 0, "get")

\* A ban names its end when it is asked for.
BeginUser(p, op) ==
  /\ op \in {"logoutAll", "ban", "unban", "profile"} \cap Requests /\ Free(p)
  /\ user.version < MaxUpdates
  /\ \E until \in IF op = "ban" THEN Bans ELSE {0} :
       job' = [job EXCEPT ![p] = [Idle EXCEPT !.op = op, !.phase = "target", !.until = until]]
  /\ UNCHANGED <<now, user, rows, spent>>

-----------------------------------------------------------------------------
(* login(), session() and RefreshSessions.create().                        *)

Gate(p) ==
  /\ job[p].phase = "gate"
  /\ IF Banned(user) THEN Go(p, "refused")
     ELSE job' = [job EXCEPT ![p].phase = "create", ![p].read = user]
  /\ UNCHANGED <<now, user, rows, spent>>

Create(p) ==
  /\ job[p].phase = "create"
  /\ \/ Go(p, "failed") /\ UNCHANGED rows
     \/ \E s \in Session, answer \in {"answered", "failed"} :
       /\ rows[s].version = 0
       /\ rows' = [rows EXCEPT ![s] =
            [NoRow EXCEPT !.version = 1, !.secret = 1, !.rotatedAt = now, !.expiresAt = now + Ttl,
                          !.tokenVersion = job[p].read.tokenVersion]]
       /\ job' = [job EXCEPT ![p] = [Told(@, answer) EXCEPT !.session = s]]
  /\ UNCHANGED <<now, user, spent>>

-----------------------------------------------------------------------------
(* Auth.refresh() and RefreshSessions.rotate().                            *)

Find(p) ==
  /\ job[p].phase = "find"
  /\ job' = [job EXCEPT ![p].phase = "blocked", ![p].seen = rows[job[p].session], ![p].at = now]
  /\ UNCHANGED <<now, user, rows, spent>>

\* blocked() reads the user, and then the session is asked to be live.
Blocked(p) ==
  /\ job[p].phase = "blocked"
  /\ Go(p, IF Banned(user) \/ ~Live(job[p].seen, job[p].at) THEN "refused" ELSE "valid")
  /\ UNCHANGED <<now, user, rows, spent>>

\* valid() reads the user again.
Valid(p) ==
  /\ job[p].phase = "valid"
  /\ Go(p, IF user.tokenVersion = job[p].seen.tokenVersion THEN "rotate" ELSE "refused")
  /\ UNCHANGED <<now, user, rows, spent>>

IsCurrent(j) == j.secret = j.seen.secret
InGrace(j) == j.secret = j.seen.previous /\ j.at - j.seen.rotatedAt <= Grace

Revoked(row, reason) == [row EXCEPT !.version = @ + 1, !.revoked = reason]

\* Bug: the grace window starts again with every use of the previous secret.
RotatedForgetfully(j) ==
  [j.seen EXCEPT !.version = @ + 1, !.secret = j.seen.version + 1, !.rotatedAt = j.at,
                 !.previous = IF IsCurrent(j) THEN j.secret ELSE @]

\* A sibling's rotation keeps the previous secret and its time.
Rotated(j) ==
  [j.seen EXCEPT !.version = @ + 1, !.secret = j.seen.version + 1,
                 !.rotatedAt = IF IsCurrent(j) THEN j.at ELSE @,
                 !.previous = IF IsCurrent(j) THEN j.secret ELSE @]

Accepts(j) == IsCurrent(j) \/ InGrace(j)

Exchange(j) ==
  IF \E x \in spent : x.session = j.session /\ x.secret = j.secret THEN spent
  ELSE spent \cup {[session |-> j.session, secret |-> j.secret, at |-> j.at]}

\* Bug: whatever the row became since it was read, it is overwritten.
UnchangedNever(j) == TRUE

\* The condition of a write.  A Conflict is also what a write hears that met another
\* transaction, whatever the version.
Unchanged(j) == rows[j.session].version = j.seen.version

Store(p, row) == Unchanged(job[p]) /\ rows' = [rows EXCEPT ![job[p].session] = row]

\* Bug: a theft that could not be recorded is refused and forgotten.
ConflictForgotten(p) == IF Accepts(job[p]) THEN Again(p, "find") ELSE Go(p, "refused")

Conflict(p) == Again(p, "find")

Rotate(p) ==
  /\ job[p].phase = "rotate"
  /\ \/ /\ Accepts(job[p])
        /\ Store(p, Rotated(job[p])) /\ spent' = Exchange(job[p])
        /\ \E answer \in {"answered", "failed"} : Go(p, answer)
     \/ /\ ~Accepts(job[p])
        /\ Store(p, Revoked(job[p].seen, "reuse")) /\ UNCHANGED spent
        /\ \E answer \in {"refused", "failed"} : Go(p, answer)
     \/ Conflict(p) /\ UNCHANGED <<rows, spent>>
     \/ Go(p, "failed") /\ UNCHANGED <<rows, spent>>
  /\ UNCHANGED <<now, user>>

-----------------------------------------------------------------------------
(* Auth.actor(): an access token names its session and its tokenVersion.   *)

Actor(p) ==
  /\ job[p].phase = "actor"
  /\ Go(p, IF user.tokenVersion # rows[job[p].session].tokenVersion \/ Banned(user)
             THEN "refused" ELSE "session")
  /\ UNCHANGED <<now, user, rows, spent>>

ActorSession(p) ==
  /\ job[p].phase = "session"
  /\ Go(p, IF Live(rows[job[p].session], now) THEN "answered" ELSE "refused")
  /\ UNCHANGED <<now, user, rows, spent>>

-----------------------------------------------------------------------------
(* The user row: ban(), unban(), invalidate(), profile().                  *)

Target(p) ==
  /\ job[p].phase = "target"
  /\ IF job[p].op = "unban" /\ ~Banned(user) THEN Go(p, "refused")
     ELSE job' = [job EXCEPT ![p].phase = "update", ![p].read = user]
  /\ UNCHANGED <<now, user, rows, spent>>

NextUser(op, u, until) ==
  [u EXCEPT !.version = @ + 1,
            !.tokenVersion = IF op \in {"ban", "logoutAll"} THEN @ + 1 ELSE @,
            !.until = CASE op = "ban" -> until [] op = "unban" -> 0 [] OTHER -> @]

\* Bug: a user row is written whatever it became since it was read.
UserUnchangedNever(u) == TRUE

UserUnchanged(u) == user.version = u.version

Update(p) ==
  /\ job[p].phase = "update"
  /\ \/ /\ UserUnchanged(job[p].read)
        /\ user' = NextUser(job[p].op, job[p].read, job[p].until)
        /\ \/ job[p].op = "ban"
              /\ job' = [job EXCEPT ![p].phase = "list", ![p].tries = 0, ![p].read = User, ![p].until = 0,
                                    ![p].before = {s \in Session : rows[s].version # 0}]
           \/ job[p].op # "ban" /\ Go(p, "answered")
           \/ Go(p, "failed")
     \/ UNCHANGED user
        /\ IF job[p].op \in {"ban", "unban"} THEN Again(p, "target") ELSE Go(p, "failed")
     \/ Go(p, "failed") /\ UNCHANGED user
  /\ UNCHANGED <<now, rows, spent>>

-----------------------------------------------------------------------------
(* RefreshSessions.revoke() of one session, and revokeAll() of a ban.      *)

\* Where revoke() returns to.
Revoker(j) == IF j.op = "ban" THEN "get" ELSE "answered"

List(p) ==
  /\ job[p].phase = "list"
  /\ job' = [job EXCEPT ![p].phase = "get", ![p].todo = {s \in Session : Live(rows[s], now)}]
  /\ UNCHANGED <<now, user, rows, spent>>

Get(p) ==
  /\ job[p].phase = "get"
  /\ \/ /\ job[p].todo = {} /\ job[p].op = "ban"
        /\ Go(p, "answered")
     \/ \E s \in IF job[p].op = "ban" THEN job[p].todo ELSE {job[p].session} :
          job' = [job EXCEPT ![p] =
            [job[p] EXCEPT !.session = s, !.todo = @ \ {s}, !.tries = 0,
                      !.seen = IF Live(rows[s], now) THEN rows[s] ELSE NoRow,
                      !.phase = IF Live(rows[s], now) THEN "revoke" ELSE Revoker(job[p])]]
  /\ UNCHANGED <<now, user, rows, spent>>

\* revoke() reads again the row its write did not find as read.
Reread(p) ==
  /\ job[p].phase = "reread"
  /\ IF Live(rows[job[p].session], now)
       THEN job' = [job EXCEPT ![p].phase = "revoke", ![p].seen = rows[job[p].session]]
       ELSE Go(p, Revoker(job[p]))
  /\ UNCHANGED <<now, user, rows, spent>>

\* Bug: a conflict is taken for a session that somebody else ended.
RetryRevokeNever(p) == Go(p, Revoker(job[p]))

RetryRevoke(p) == Again(p, "reread")

Revoke(p) ==
  /\ job[p].phase = "revoke"
  /\ \/ /\ Store(p, Revoked(job[p].seen, job[p].op))
        /\ Go(p, Revoker(job[p])) \/ Go(p, "failed")
     \/ RetryRevoke(p) /\ UNCHANGED rows
     \/ Go(p, "failed") /\ UNCHANGED rows
  /\ UNCHANGED <<now, user, spent>>

-----------------------------------------------------------------------------
Tick ==
  /\ now < MaxNow
  /\ now' = now + 1
  /\ UNCHANGED <<user, rows, job, spent>>

Ask(p) ==
  \/ BeginSignIn(p)
  \/ \E s \in Session : BeginAccess(p, s) \/ BeginLogout(p, s) \/ \E k \in 1..MaxVersion : BeginRefresh(p, s, k)
  \/ \E op \in Operations : BeginUser(p, op)

Step(p) ==
  \/ Gate(p) \/ Create(p) \/ Find(p) \/ Blocked(p) \/ Valid(p) \/ Rotate(p) \/ Actor(p) \/ ActorSession(p)
  \/ Target(p) \/ Update(p) \/ List(p) \/ Get(p) \/ Reread(p) \/ Revoke(p)

Next == Tick \/ \E p \in Process : Ask(p) \/ Step(p)

Spec == Init /\ [][Next]_vars

-----------------------------------------------------------------------------
Reasons == {"no", "reuse", "logout", "ban"}

SessionRow == [version : Nat, tokenVersion : Nat, secret : Nat, previous : Nat,
               rotatedAt : Nat, expiresAt : Nat, revoked : Reasons]

Phases == {"idle", "gate", "create", "find", "blocked", "valid", "rotate", "actor", "session", "target",
           "update", "list", "get", "reread", "revoke"} \cup Reported

TypeOK ==
  /\ now \in 0..MaxNow
  /\ user \in [version : Nat, tokenVersion : Nat, until : 0..MaxNow + Temporary + 1]
  /\ rows \in [Session -> SessionRow]
  /\ \A p \in Process :
       /\ job[p].phase \in Phases /\ job[p].op \in Operations \cup {"none"}
       /\ job[p].seen \in SessionRow /\ job[p].tries \in 0..Attempts - 1
       /\ job[p].todo \subseteq Session /\ job[p].before \subseteq Session
  /\ spent \subseteq [session : Session, secret : Nat, at : Nat]

Served == {p \in Process : job[p].op \in {"refresh", "access"}}

(* Immediate cut-off (docs/authentication.md): a session that was revoked, *)
(* expired or cut by a ban or a logout everywhere lets no request through  *)
(* that begins afterwards, with whatever refresh or access token, and      *)
(* whatever rotations, profile changes and unbans were under way.          *)
NothingPassesTheEnd == \A p \in Served : job[p].phase = "answered" => ~job[p].dead

(* A refused refresh means that the session is over, for its holder too:   *)
(* the client gives its tokens up on a 401 or 403 (packages/auth           *)
(* client.ts, rotate()), and reuse ends the session for both parties.      *)
RefusalsAreFinal == \A p \in Served : job[p].phase = "refused" => Ended(job[p].session)

(* A secret stays usable for Grace after its first exchange and no longer, *)
(* however often it is used in the meantime (comment of rotate()).         *)
GraceEnds ==
  \A p \in Process : job[p].op = "refresh" /\ job[p].phase = "answered" =>
    \A x \in spent : x.session = job[p].session /\ x.secret = job[p].secret => job[p].at - x.at <= Grace

(* When ban() returns, every session there was when it was stored says it  *)
(* is over, whatever rotated meanwhile (comment of UserBans.ban).          *)
BansAreMarked ==
  \A p \in Process : job[p].op = "ban" /\ job[p].phase = "answered" =>
    \A s \in job[p].before : ~Live(rows[s], now)

(* Rows are well-formed, and bans leave what they promise.                 *)
SessionRowsAreTrue == TypeOK /\ BansAreMarked

(* A revoked session keeps the reason it was revoked for.                  *)
RevocationsStand ==
  [][\A s \in Session : rows[s].revoked # "no" => rows'[s] = rows[s]]_rows
=============================================================================
