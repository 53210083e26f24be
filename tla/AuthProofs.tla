----------------------------- MODULE AuthProofs -----------------------------
(* What Sessions promises of refresh sessions, for any number of sessions, *)
(* of requests at the same time and of attempts, and whatever lifetimes;   *)
(* what Users promises of accounts, for any number of them, of emails and  *)
(* of requests; and what Tabs promises of the tabs of a browser, for any   *)
(* number of them.                                                         *)
EXTENDS Sessions, UsersState, TabsState, SequenceTheorems, TLAPS

CONSTANTS Request, WrongCodes, MaxEdits, MaxCodes, MaxSecrets, MaxClock
VARIABLES challenge, request, clock, shared, stored, lock
U == INSTANCE Users WITH Attempts <- WrongCodes, MaxVersion <- MaxEdits
T == INSTANCE Tabs

-----------------------------------------------------------------------------
(* The refresh sessions.                                                   *)

Until == 0..MaxNow + Temporary + 1
UserRow == [version : Nat, tokenVersion : Nat, until : Until]

Job == [op : Operations \cup {"none"}, phase : Phases, session : Session \cup {NoSession}, secret : Nat,
        until : Until, read : UserRow, seen : SessionRow, at : 0..MaxNow, tries : 0..Attempts - 1,
        dead : BOOLEAN, todo : SUBSET Session, before : SUBSET Session]

Typed ==
  /\ now \in 0..MaxNow
  /\ user \in UserRow
  /\ rows \in [Session -> SessionRow]
  /\ job \in [Process -> Job]
  /\ spent \subseteq [session : Session, secret : Nat, at : Nat]

-----------------------------------------------------------------------------
(* The invariant.                                                          *)

\* A session is not younger than the user's tokens, and older than a ban in force.
IsCut(s) == rows[s].tokenVersion < user.tokenVersion

\* A row begins as none; its previous secret is older than its secret, and was exchanged when
\* the row says it was.
RowFits(s) ==
  /\ rows[s].version = 0 => rows[s] = NoRow
  /\ rows[s].version # 0 =>
       /\ rows[s].tokenVersion <= user.tokenVersion /\ (Banned(user) => IsCut(s))
       /\ rows[s].previous < rows[s].secret /\ rows[s].secret <= rows[s].version
  /\ rows[s].previous # 0 => [session |-> s, secret |-> rows[s].previous, at |-> rows[s].rotatedAt] \in spent

\* A secret is exchanged first once, and never again the current one.
ExchangesFit ==
  /\ \A x \in spent : x.secret < rows[x.session].secret
  /\ \A x, y \in spent : x.session = y.session /\ x.secret = y.secret => x = y

Over(s) == rows[s].version # 0 /\ ~Live(rows[s], now)

\* The phases of a request and what it is about.
PhaseFits(j) ==
  /\ j.phase \in {"gate", "create"} => j.op = "signIn"
  /\ j.phase \in {"find", "blocked", "valid", "rotate"} => j.op = "refresh" /\ j.secret # 0
  /\ j.phase \in {"actor", "session"} => j.op = "access"
  /\ j.phase \in {"target", "update"} => j.op \in {"logoutAll", "ban", "unban", "profile"}
  /\ j.phase = "list" => j.op = "ban"
  /\ j.phase \in {"get", "reread", "revoke"} => j.op \in {"logout", "ban"}
  /\ j.phase \in {"reread", "revoke"} \/ (j.phase = "get" /\ j.op = "logout") => j.session \in Session
  /\ j.op \in {"refresh", "access"} => j.session \in Session /\ rows[j.session].version # 0

\* What was read of the user, and of a session, is as it was with that version.
UserRead(j) ==
  /\ j.read.version <= user.version /\ (j.read.version = user.version => j.read = user)
  /\ j.read.tokenVersion <= user.tokenVersion
  /\ j.phase = "create" /\ Banned(user) => j.read.tokenVersion < user.tokenVersion

SessionRead(j) ==
  /\ j.seen.version # 0 /\ j.seen.version <= rows[j.session].version
  /\ j.seen.version = rows[j.session].version => j.seen = rows[j.session]
  /\ j.seen.tokenVersion = rows[j.session].tokenVersion /\ j.seen.expiresAt = rows[j.session].expiresAt
  /\ j.seen.revoked # "no" => rows[j.session].revoked # "no"

ReadsFit(j) ==
  /\ j.phase \in {"create", "update"} => UserRead(j)
  /\ j.phase \in {"blocked", "valid", "rotate", "revoke"} => SessionRead(j)
  /\ j.phase \in {"blocked", "valid", "rotate"} => j.at <= now
  /\ j.phase \in {"valid", "rotate"} => Live(j.seen, j.at)
  /\ j.phase = "revoke" => j.seen.revoked = "no"

\* How far a request gets with a session that had ended when it began.
Lost(j) ==
  /\ j.phase \in {"find", "actor"} => Ended(j.session)
  /\ j.phase = "blocked" => ~Live(j.seen, j.at) \/ j.seen.tokenVersion # user.tokenVersion
  /\ j.phase = "valid" => j.seen.tokenVersion # user.tokenVersion
  /\ j.phase = "session" => Over(j.session)
  /\ j.phase \notin {"rotate", "answered"}

AnswersFit(j) ==
  /\ j.op \in {"refresh", "access"} /\ j.dead => Lost(j)
  /\ j.op \in {"refresh", "access"} /\ j.phase = "refused" => Ended(j.session)

\* A refresh that was answered exchanged its secret, at most Grace after it was exchanged first.
GraceFits(j) ==
  j.op = "refresh" /\ j.phase = "answered" =>
    /\ \E x \in spent : x.session = j.session /\ x.secret = j.secret
    /\ \A x \in spent : x.session = j.session /\ x.secret = j.secret => j.at - x.at <= Grace

\* What is left of the sessions that a ban found.
BanFits(j) ==
  j.op = "ban" /\ j.phase \in {"list", "get", "reread", "revoke", "answered"} =>
    \A s \in j.before :
      /\ rows[s].version # 0
      /\ \/ Over(s)
         \/ j.phase = "list"
         \/ j.phase \in {"get", "reread", "revoke"} /\ s \in j.todo
         \/ j.phase \in {"reread", "revoke"} /\ s = j.session

JobFits(j) == PhaseFits(j) /\ ReadsFit(j) /\ AnswersFit(j) /\ GraceFits(j) /\ BanFits(j)

IInv ==
  /\ Typed
  /\ \A s \in Session : RowFits(s)
  /\ ExchangesFit
  /\ \A p \in Process : JobFits(job[p])

-----------------------------------------------------------------------------
(* What a step does to the state that requests share.                      *)

UserMoves ==
  \/ user' = user
  \/ /\ user'.version = user.version + 1 /\ user.tokenVersion <= user'.tokenVersion
     /\ Banned(user)' => Banned(user) \/ user.tokenVersion < user'.tokenVersion

\* A row that was revoked stays as it is.
RowMoves(s) ==
  \/ rows'[s] = rows[s]
  \/ /\ rows[s].revoked = "no" /\ rows'[s].version = rows[s].version + 1
     /\ rows[s].version # 0 =>
          rows'[s].tokenVersion = rows[s].tokenVersion /\ rows'[s].expiresAt = rows[s].expiresAt

SpentMoves ==
  /\ spent \subseteq spent'
  /\ \A x \in spent' \ spent, y \in spent : x.session # y.session \/ x.secret # y.secret

World == now <= now' /\ UserMoves /\ (\A s \in Session : RowMoves(s)) /\ SpentMoves

\* A step that keeps the invariant, and moves as steps do.
Kept == IInv' /\ World

LEMMA EndsStay ==
  ASSUME IInv, Typed', World, NEW s \in Session
  PROVE  /\ rows[s].version <= rows'[s].version
         /\ Ended(s) => Ended(s)'
         /\ Over(s) => Over(s)'
<1>1. /\ now \in Int /\ now' \in Int /\ now <= now'
      /\ rows[s] \in SessionRow /\ rows'[s] \in SessionRow
      /\ user \in UserRow /\ user' \in UserRow /\ RowMoves(s) /\ RowFits(s)
  BY DEF IInv, Typed, World
<1>2. rows[s].version <= rows'[s].version
  BY <1>1 DEF RowMoves, SessionRow
<1>3. rows[s].version # 0 /\ ~Live(rows[s], now) => rows'[s].version # 0 /\ ~Live(rows'[s], now')
  BY <1>1 DEF RowMoves, SessionRow, Live
<1>4. rows[s].version # 0 /\ rows[s].tokenVersion # user.tokenVersion => rows'[s].tokenVersion # user'.tokenVersion
  <2>1. user.tokenVersion <= user'.tokenVersion
    BY <1>1 DEF World, UserMoves, UserRow
  <2> QED BY <1>1, <2>1 DEF RowMoves, RowFits, SessionRow, UserRow
<1> QED BY <1>1, <1>2, <1>3, <1>4 DEF Ended, Over, SessionRow

\* The steps of one request leave the others as they fit.
LEMMA OthersFit ==
  ASSUME IInv, Typed', World, NEW q \in Process, job'[q] = job[q]
  PROVE  JobFits(job[q])'
<1>1. job[q] \in Job /\ JobFits(job[q]) /\ job'[q] = job[q]
  BY DEF IInv, Typed
<1>2. /\ now \in Int /\ now' \in Int /\ now <= now'
      /\ user \in UserRow /\ user' \in UserRow /\ UserMoves
      /\ Banned(user)' => Banned(user) \/ user.tokenVersion < user'.tokenVersion
  BY DEF IInv, Typed, World, UserMoves, Banned, UserRow, Until
<1>3. user.version <= user'.version /\ user.tokenVersion <= user'.tokenVersion
  BY <1>2 DEF UserMoves, UserRow
<1>4. PhaseFits(job[q])'
  BY <1>1, EndsStay DEF JobFits, PhaseFits, IInv, Typed, SessionRow
<1>5. ReadsFit(job[q])'
  <2>1. job[q].phase \in {"create", "update"} => UserRead(job[q])'
    BY <1>1, <1>2, <1>3 DEF JobFits, ReadsFit, UserRead, UserMoves, UserRow, Job
  <2>2. job[q].phase \in {"blocked", "valid", "rotate", "revoke"} => SessionRead(job[q])'
    <3> SUFFICES ASSUME job[q].phase \in {"blocked", "valid", "rotate", "revoke"} PROVE SessionRead(job[q])'
      OBVIOUS
    <3>1. job[q].session \in Session /\ SessionRead(job[q])
      BY <1>1 DEF JobFits, PhaseFits, ReadsFit
    <3>2. RowMoves(job[q].session) /\ rows[job[q].session] \in SessionRow /\ job[q].seen \in SessionRow
      BY <1>1, <3>1 DEF World, IInv, Typed, Job
    <3> QED BY <1>1, <3>1, <3>2 DEF SessionRead, RowMoves, SessionRow
  <2>3. job[q].phase \in {"blocked", "valid", "rotate"} => job[q].at <= now'
    BY <1>1, <1>2 DEF JobFits, ReadsFit, Job
  <2> QED BY <1>1, <2>1, <2>2, <2>3 DEF JobFits, ReadsFit
<1>6. AnswersFit(job[q])'
  <2> SUFFICES ASSUME job[q].op \in {"refresh", "access"} PROVE AnswersFit(job[q])'
    BY <1>1 DEF AnswersFit
  <2>1. job[q].session \in Session /\ AnswersFit(job[q])
    BY <1>1 DEF JobFits, PhaseFits
  <2>2. /\ Ended(job[q].session) => Ended(job[q].session)'
        /\ Over(job[q].session) => Over(job[q].session)'
    BY <1>1, <2>1, EndsStay
  <2>3. job[q].phase \in {"blocked", "valid"} /\ job[q].seen.tokenVersion # user.tokenVersion
          => job[q].seen.tokenVersion # user'.tokenVersion
    <3>1. job[q].phase \in {"blocked", "valid"} => job[q].seen.tokenVersion <= user.tokenVersion
      BY <1>1, <2>1 DEF JobFits, ReadsFit, SessionRead, PhaseFits, IInv, RowFits
    <3> QED BY <1>1, <1>2, <1>3, <3>1 DEF Job, SessionRow, UserRow
  <2> QED BY <1>1, <2>1, <2>2, <2>3 DEF AnswersFit, Lost
<1>7. GraceFits(job[q])'
  BY <1>1 DEF JobFits, GraceFits, World, SpentMoves
<1>8. BanFits(job[q])'
  BY <1>1, EndsStay DEF JobFits, BanFits, Job, IInv, Typed, SessionRow
<1> QED BY <1>1, <1>4, <1>5, <1>6, <1>7, <1>8 DEF JobFits

-----------------------------------------------------------------------------
(* The steps of one request.                                               *)

Moves(p) == job' \in [Process -> Job] /\ \A q \in Process \ {p} : job'[q] = job[q]

Stays == UNCHANGED <<now, user, rows, spent>>

LEMMA StepKeeps ==
  ASSUME IInv, NEW p \in Process, Typed', World, Moves(p), \A s \in Session : RowFits(s)', ExchangesFit',
         JobFits(job[p])'
  PROVE  Kept
<1>1. ASSUME NEW q \in Process, q # p PROVE JobFits(job[q])'
  BY <1>1, OthersFit DEF Moves
<1> QED BY <1>1 DEF IInv, Kept

LEMMA QuietKeeps ==
  ASSUME IInv, NEW p \in Process, Stays, Moves(p), JobFits(job[p])'
  PROVE  Kept
<1>1. Typed'
  BY DEF IInv, Typed, Stays, Moves
<1>2. World
  BY DEF IInv, Typed, Stays, World, UserMoves, RowMoves, SpentMoves
<1>3. (\A s \in Session : RowFits(s)') /\ ExchangesFit'
  BY DEF IInv, Stays, RowFits, IsCut, Banned, ExchangesFit
<1> QED BY <1>1, <1>2, <1>3, StepKeeps

\* A request goes on with what it has.
LEMMA Going ==
  ASSUME Typed, NEW p \in Process, NEW phase \in Phases, phase \notin Reported, Go(p, phase)
  PROVE  /\ Moves(p) /\ job'[p].phase = phase
         /\ job'[p].op = job[p].op /\ job'[p].session = job[p].session /\ job'[p].secret = job[p].secret
         /\ job'[p].read = job[p].read /\ job'[p].seen = job[p].seen /\ job'[p].at = job[p].at
         /\ job'[p].dead = job[p].dead /\ job'[p].todo = job[p].todo /\ job'[p].before = job[p].before
<1>1. job[p] \in Job /\ job' = [job EXCEPT ![p] = [@ EXCEPT !.phase = phase]]
  BY DEF Typed, Go
<1>2. [job[p] EXCEPT !.phase = phase] \in Job
  BY <1>1 DEF Job
<1>3. Moves(p) /\ job'[p] = [job[p] EXCEPT !.phase = phase]
  BY <1>1, <1>2 DEF Typed, Moves
<1> QED BY <1>1, <1>3 DEF Job

LEMMA IdleIsJob == Idle \in Job
<1>1. User \in UserRow /\ NoRow \in SessionRow
  BY TimesAssumption DEF User, UserRow, Until, NoRow, SessionRow, Reasons
<1>2. 0 \in Until /\ 0 \in 0..MaxNow /\ 0 \in 0..Attempts - 1
  BY TimesAssumption DEF Until
<1> QED BY <1>1, <1>2 DEF Idle, Job, Phases

\* Another place, and another session, for a request.
LEMMA JobOfPhase ==
  ASSUME NEW i \in Job, NEW phase \in Phases, NEW s \in Session \cup {NoSession}
  PROVE  [i EXCEPT !.phase = phase, !.session = s] \in Job
BY DEF Job

\* What was answered is all that is left of a request.
LEMMA Telling ==
  ASSUME Typed, NEW p \in Process, NEW answer \in Reported, Go(p, answer)
  PROVE  /\ Moves(p) /\ job'[p].phase = answer /\ job'[p].session = job[p].session
         /\ answer = "failed" => job'[p].op = "none"
         /\ answer = "refused" => job'[p].op = job[p].op /\ job'[p].dead = FALSE
         /\ answer = "answered" =>
              /\ job'[p].op = job[p].op /\ job'[p].secret = job[p].secret /\ job'[p].at = job[p].at
              /\ job'[p].dead = job[p].dead /\ job'[p].before = job[p].before
<1>1. job[p] \in Job /\ job' = [job EXCEPT ![p] = Told(@, answer)]
  BY DEF Typed, Go
<1>2. Idle \in Job
  BY IdleIsJob
<1>3. Told(job[p], answer) \in Job
  BY <1>1, <1>2 DEF Told, Job, Reported, Phases
<1>4. Moves(p) /\ job'[p] = Told(job[p], answer)
  BY <1>1, <1>3 DEF Typed, Moves
<1> DEFINE heard == [Idle EXCEPT !.phase = answer, !.session = job[p].session]
<1>8. heard \in Job /\ heard.phase = answer /\ heard.session = job[p].session /\ heard.op = "none" /\ heard.dead = FALSE
  <2>1. heard.phase = answer /\ heard.session = job[p].session /\ heard.op = "none" /\ heard.dead = FALSE
    BY DEF Idle
  <2>2. answer \in Phases /\ job[p].session \in Session \cup {NoSession}
    BY <1>1 DEF Job, Reported, Phases
  <2>3. heard \in Job
    BY <1>2, <2>2, JobOfPhase
  <2> QED BY <2>1, <2>3
<1>5. CASE answer = "failed"
  <2>1. job'[p] = heard
    BY <1>4, <1>5 DEF Told
  <2> QED BY <1>8, <1>4, <1>5, <2>1
<1>6. CASE answer = "refused"
  <2>1. job'[p] = [heard EXCEPT !.op = job[p].op]
    BY <1>4, <1>6 DEF Told
  <2> HIDE DEF heard
  <2> QED BY <1>8, <1>4, <1>6, <2>1 DEF Job
<1>7. CASE answer = "answered"
  <2>1. job'[p] = [heard EXCEPT !.op = job[p].op, !.secret = job[p].secret, !.at = job[p].at,
                                !.dead = job[p].dead, !.before = job[p].before]
    BY <1>4, <1>7 DEF Told
  <2> HIDE DEF heard
  <2> QED BY <1>8, <1>4, <1>7, <2>1 DEF Job
<1> QED BY <1>4, <1>5, <1>6, <1>7 DEF Reported

LEMMA FailingFits ==
  ASSUME Typed, NEW p \in Process, Go(p, "failed")
  PROVE  Moves(p) /\ JobFits(job[p])'
<1>1. Moves(p) /\ job'[p].phase = "failed" /\ job'[p].op = "none"
  BY Telling DEF Reported
<1> QED BY <1>1 DEF JobFits, PhaseFits, ReadsFit, AnswersFit, GraceFits, BanFits

LEMMA RefusingFits ==
  ASSUME Typed, NEW p \in Process, Go(p, "refused"),
         job[p].op \in {"refresh", "access"} =>
           job[p].session \in Session /\ rows'[job[p].session].version # 0 /\ Ended(job[p].session)'
  PROVE  Moves(p) /\ JobFits(job[p])'
<1>1. /\ Moves(p) /\ job'[p].phase = "refused" /\ job'[p].op = job[p].op /\ job'[p].dead = FALSE
      /\ job'[p].session = job[p].session
  BY Telling DEF Reported
<1> QED BY <1>1 DEF JobFits, PhaseFits, ReadsFit, AnswersFit, GraceFits, BanFits, Ended

LEMMA TryingAgain ==
  ASSUME Typed, NEW p \in Process, NEW phase \in Phases, phase \notin Reported, Again(p, phase)
  PROVE  \/ Go(p, "failed")
         \/ /\ Moves(p) /\ job'[p].phase = phase
            /\ job'[p].op = job[p].op /\ job'[p].session = job[p].session /\ job'[p].secret = job[p].secret
            /\ job'[p].dead = job[p].dead /\ job'[p].todo = job[p].todo /\ job'[p].before = job[p].before
<1> SUFFICES ASSUME ~Go(p, "failed") PROVE Moves(p) /\ job'[p] = [job[p] EXCEPT !.phase = phase, !.tries = @ + 1]
  BY DEF Typed, Job
<1>1. /\ job[p] \in Job /\ job[p].tries + 1 < Attempts
      /\ job' = [job EXCEPT ![p].phase = phase, ![p].tries = @ + 1]
  BY DEF Typed, Again
<1>2. job[p].tries + 1 \in 0..Attempts - 1
  BY <1>1, TimesAssumption DEF Job
<1>3. [job[p] EXCEPT !.phase = phase, !.tries = @ + 1] \in Job
  BY <1>1, <1>2 DEF Job
<1> QED BY <1>1, <1>3 DEF Typed, Moves

LEMMA RefusingKeeps ==
  ASSUME IInv, NEW p \in Process, Stays, Go(p, "refused"),
         job[p].op \in {"refresh", "access"} =>
           job[p].session \in Session /\ rows[job[p].session].version # 0 /\ Ended(job[p].session)
  PROVE  Kept
<1>1. job[p].op \in {"refresh", "access"} =>
        job[p].session \in Session /\ rows'[job[p].session].version # 0 /\ Ended(job[p].session)'
  <2>1. rows' = rows /\ now' = now /\ user' = user /\ job'[p].session = job[p].session
    BY Telling DEF Stays, IInv, Reported
  <2>2. Ended(job[p].session) => Ended(job[p].session)'
    BY <2>1 DEF Ended
  <2> QED BY <2>1, <2>2
<1> QED BY <1>1, RefusingFits, QuietKeeps DEF IInv

-----------------------------------------------------------------------------
(* Requests that begin.                                                    *)

LEMMA BeginKeeps ==
  ASSUME IInv, NEW p \in Process, NEW op \in Operations, NEW s \in Session \cup {NoSession}, NEW k \in Nat,
         NEW phase \in {"gate", "find", "actor", "get"}, Begin(p, op, s, k, phase),
         phase = "gate" => op = "signIn",
         phase = "find" => op = "refresh" /\ k # 0,
         phase = "actor" => op = "access",
         phase = "get" => op = "logout",
         phase # "gate" => s \in Session /\ rows[s].version # 0
  PROVE  Kept
<1> DEFINE j == [Idle EXCEPT !.op = op, !.phase = phase, !.session = s, !.secret = k,
                            !.dead = s # NoSession /\ Ended(s)]
<1>1. j \in Job
  <2>1. phase \in Phases /\ op \in Operations \cup {"none"}
    BY DEF Phases
  <2>2. [Idle EXCEPT !.phase = phase, !.session = s] \in Job
    BY <2>1, IdleIsJob, JobOfPhase
  <2>3. j = [[Idle EXCEPT !.phase = phase, !.session = s] EXCEPT !.op = op, !.secret = k,
                                                                 !.dead = s # NoSession /\ Ended(s)]
    BY DEF Idle
  <2> HIDE DEF j
  <2> QED BY <2>1, <2>2, <2>3 DEF Job
<1>2. /\ j.op = op /\ j.phase = phase /\ j.session = s /\ j.secret = k
      /\ j.dead => Ended(s)
  BY DEF Idle
<1>3. Stays /\ Moves(p) /\ job'[p] = j
  BY <1>1 DEF Begin, Stays, IInv, Typed, Moves
<1> HIDE DEF j
<1>4. JobFits(job[p])'
  <2>1. (s \in Session => (Ended(s)' <=> Ended(s))) /\ rows' = rows
    BY <1>3 DEF Stays, Ended
  <2> QED BY <1>2, <1>3, <2>1 DEF JobFits, PhaseFits, ReadsFit, AnswersFit, Lost, GraceFits, BanFits, Operations, Ended
<1> QED BY <1>3, <1>4, QuietKeeps

LEMMA BeginUserKeeps ==
  ASSUME IInv, NEW p \in Process, NEW op \in Operations, BeginUser(p, op)
  PROVE  Kept
<1>1. PICK until \in IF op = "ban" THEN Bans ELSE {0} :
        job' = [job EXCEPT ![p] = [Idle EXCEPT !.op = op, !.phase = "target", !.until = until]]
  BY DEF BeginUser
<1>2. until \in Until /\ op \in {"logoutAll", "ban", "unban", "profile"}
  BY <1>1, TimesAssumption DEF Bans, Forever, Until, BeginUser, IInv, Typed
<1> DEFINE j == [Idle EXCEPT !.op = op, !.phase = "target", !.until = until]
<1>3. j \in Job
  BY <1>2, IdleIsJob DEF Job, Phases
<1>4. j.op = op /\ j.phase = "target"
  BY DEF Idle
<1>5. Stays /\ Moves(p) /\ job'[p] = j
  BY <1>1, <1>3 DEF BeginUser, Stays, IInv, Typed, Moves
<1> HIDE DEF j
<1>6. JobFits(job[p])'
  BY <1>2, <1>4, <1>5 DEF JobFits, PhaseFits, ReadsFit, AnswersFit, GraceFits, BanFits
<1> QED BY <1>5, <1>6, QuietKeeps

LEMMA AskKeeps == ASSUME IInv, NEW p \in Process, Ask(p) PROVE Kept
<1>1. CASE BeginSignIn(p)
  BY <1>1, BeginKeeps DEF BeginSignIn, Operations
<1>2. ASSUME NEW s \in Session, BeginAccess(p, s) PROVE Kept
  BY <1>2, BeginKeeps DEF BeginAccess, Used, Operations
<1>3. ASSUME NEW s \in Session, BeginLogout(p, s) PROVE Kept
  BY <1>3, BeginKeeps DEF BeginLogout, Used, Operations
<1>4. ASSUME NEW s \in Session, NEW k \in 1..MaxVersion, BeginRefresh(p, s, k) PROVE Kept
  <2>1. k \in Nat /\ k # 0
    BY <1>4, TimesAssumption
  <2> QED BY <1>4, <2>1, BeginKeeps DEF BeginRefresh, Used, Operations
<1>5. ASSUME NEW op \in Operations, BeginUser(p, op) PROVE Kept
  BY <1>5, BeginUserKeeps
<1> QED BY <1>1, <1>2, <1>3, <1>4, <1>5 DEF Ask

-----------------------------------------------------------------------------
(* Steps that read.                                                        *)

\* A request takes along what it read.
LEMMA Reading ==
  ASSUME Typed, NEW p \in Process, NEW j \in Job, job' = [job EXCEPT ![p] = j]
  PROVE  Moves(p) /\ job'[p] = j
BY DEF Typed, Moves

LEMMA GateKeeps == ASSUME IInv, NEW p \in Process, Gate(p) PROVE Kept
<1>1. /\ Stays /\ Typed /\ job[p] \in Job /\ JobFits(job[p])
      /\ job[p].phase = "gate" /\ job[p].op = "signIn"
  BY DEF Gate, Stays, IInv, Typed, JobFits, PhaseFits
<1>2. CASE Banned(user)
  <2>1. Go(p, "refused")
    BY <1>2 DEF Gate
  <2> QED BY <1>1, <2>1, RefusingKeeps
<1>3. CASE ~Banned(user)
  <2> DEFINE j == [job[p] EXCEPT !.phase = "create", !.read = user]
  <2>1. j \in Job /\ job' = [job EXCEPT ![p] = j]
    BY <1>1, <1>3 DEF Gate, Typed, Job, Phases
  <2>2. j.phase = "create" /\ j.read = user /\ j.op = "signIn"
    BY <1>1 DEF Job
  <2> HIDE DEF j
  <2>3. Moves(p) /\ job'[p] = j
    BY <1>1, <2>1, Reading
  <2>4. JobFits(job[p])'
    BY <1>1, <1>3, <2>2, <2>3
    DEF Stays, JobFits, PhaseFits, ReadsFit, UserRead, Banned, AnswersFit, GraceFits, BanFits, Typed, UserRow
  <2> QED BY <1>1, <2>3, <2>4, QuietKeeps
<1> QED BY <1>2, <1>3

LEMMA FindKeeps == ASSUME IInv, NEW p \in Process, Find(p) PROVE Kept
<1> DEFINE s == job[p].session
<1>1. /\ Stays /\ Typed /\ job[p] \in Job /\ JobFits(job[p])
      /\ job[p].phase = "find" /\ job[p].op = "refresh" /\ job[p].secret # 0
      /\ s \in Session /\ rows[s] \in SessionRow /\ rows[s].version # 0 /\ now \in 0..MaxNow
  BY DEF Find, Stays, IInv, Typed, JobFits, PhaseFits
<1> DEFINE j == [job[p] EXCEPT !.phase = "blocked", !.seen = rows[s], !.at = now]
<1>2. j \in Job /\ job' = [job EXCEPT ![p] = j]
  BY <1>1 DEF Find, Typed, Job, Phases
<1>3. /\ j.phase = "blocked" /\ j.op = "refresh" /\ j.secret # 0 /\ j.session = s
      /\ j.seen = rows[s] /\ j.at = now /\ j.dead = job[p].dead
  BY <1>1 DEF Job
<1>4. j.dead => ~Live(rows[s], now) \/ rows[s].tokenVersion # user.tokenVersion
  BY <1>1, <1>3 DEF JobFits, AnswersFit, Lost, Ended
<1> HIDE DEF j, s
<1>5. Moves(p) /\ job'[p] = j
  BY <1>1, <1>2, Reading
<1>6. JobFits(job[p])'
  BY <1>1, <1>3, <1>4, <1>5
  DEF Stays, JobFits, PhaseFits, ReadsFit, SessionRead, AnswersFit, Lost, GraceFits, BanFits, SessionRow
<1> QED BY <1>1, <1>5, <1>6, QuietKeeps

\* A session that was read as over, or as older than the user's tokens, has ended.
LEMMA ReadAsOver ==
  ASSUME IInv, NEW p \in Process, job[p].phase \in {"blocked", "valid"},
         ~Live(job[p].seen, job[p].at) \/ job[p].seen.tokenVersion # user.tokenVersion
  PROVE  Ended(job[p].session)
<1> DEFINE s == job[p].session
<1>1. /\ job[p].seen \in SessionRow /\ s \in Session /\ rows[s] \in SessionRow /\ rows[s].version # 0
      /\ SessionRead(job[p]) /\ job[p].at <= now /\ job[p].at \in Int /\ now \in Int
  BY DEF IInv, Typed, Job, JobFits, PhaseFits, ReadsFit
<1> QED BY <1>1 DEF SessionRead, Ended, Live, SessionRow

LEMMA BlockedKeeps == ASSUME IInv, NEW p \in Process, Blocked(p) PROVE Kept
<1> DEFINE s == job[p].session
<1>1. /\ Stays /\ Typed /\ job[p] \in Job /\ JobFits(job[p])
      /\ job[p].phase = "blocked" /\ job[p].op = "refresh" /\ job[p].secret # 0
      /\ s \in Session /\ rows[s] \in SessionRow /\ rows[s].version # 0 /\ RowFits(s) /\ user \in UserRow
  BY DEF Blocked, Stays, IInv, Typed, JobFits, PhaseFits
<1>2. CASE Banned(user) \/ ~Live(job[p].seen, job[p].at)
  <2>1. Go(p, "refused")
    BY <1>2 DEF Blocked
  <2>2. CASE Banned(user)
    <3>1. Ended(s)
      BY <1>1, <2>2 DEF RowFits, IsCut, Ended, SessionRow, UserRow
    <3> QED BY <1>1, <3>1, <2>1, RefusingKeeps
  <2>3. CASE ~Live(job[p].seen, job[p].at)
    <3>1. Ended(s)
      BY <1>1, <2>3, ReadAsOver
    <3> QED BY <1>1, <3>1, <2>1, RefusingKeeps
  <2> QED BY <1>2, <2>2, <2>3
<1>3. CASE ~(Banned(user) \/ ~Live(job[p].seen, job[p].at))
  <2>1. Go(p, "valid")
    BY <1>3 DEF Blocked
  <2>2. /\ Moves(p) /\ job'[p].phase = "valid" /\ job'[p].op = job[p].op /\ job'[p].session = s
        /\ job'[p].secret = job[p].secret /\ job'[p].seen = job[p].seen /\ job'[p].at = job[p].at
        /\ job'[p].dead = job[p].dead
    BY <1>1, <2>1, Going DEF Phases, Reported
  <2>3. JobFits(job[p])'
    BY <1>1, <1>3, <2>2
    DEF Stays, JobFits, PhaseFits, ReadsFit, SessionRead, AnswersFit, Lost, GraceFits, BanFits
  <2> QED BY <1>1, <2>2, <2>3, QuietKeeps
<1> QED BY <1>2, <1>3

LEMMA ValidKeeps == ASSUME IInv, NEW p \in Process, Valid(p) PROVE Kept
<1> DEFINE s == job[p].session
<1>1. /\ Stays /\ Typed /\ job[p] \in Job /\ JobFits(job[p])
      /\ job[p].phase = "valid" /\ job[p].op = "refresh" /\ job[p].secret # 0
      /\ s \in Session /\ rows[s] \in SessionRow /\ rows[s].version # 0
  BY DEF Valid, Stays, IInv, Typed, JobFits, PhaseFits
<1>2. CASE user.tokenVersion # job[p].seen.tokenVersion
  <2>1. Go(p, "refused")
    BY <1>2 DEF Valid
  <2>2. Ended(s)
    BY <1>1, <1>2, ReadAsOver
  <2> QED BY <1>1, <2>1, <2>2, RefusingKeeps
<1>3. CASE user.tokenVersion = job[p].seen.tokenVersion
  <2>1. Go(p, "rotate")
    BY <1>3 DEF Valid
  <2>2. /\ Moves(p) /\ job'[p].phase = "rotate" /\ job'[p].op = job[p].op /\ job'[p].session = s
        /\ job'[p].secret = job[p].secret /\ job'[p].seen = job[p].seen /\ job'[p].at = job[p].at
        /\ job'[p].dead = job[p].dead
    BY <1>1, <2>1, Going DEF Phases, Reported
  <2>3. JobFits(job[p])'
    BY <1>1, <1>3, <2>2
    DEF Stays, JobFits, PhaseFits, ReadsFit, SessionRead, AnswersFit, Lost, GraceFits, BanFits
  <2> QED BY <1>1, <2>2, <2>3, QuietKeeps
<1> QED BY <1>2, <1>3

LEMMA ActorKeeps == ASSUME IInv, NEW p \in Process, Actor(p) PROVE Kept
<1> DEFINE s == job[p].session
<1>1. /\ Stays /\ Typed /\ job[p] \in Job /\ JobFits(job[p])
      /\ job[p].phase = "actor" /\ job[p].op = "access"
      /\ s \in Session /\ rows[s] \in SessionRow /\ rows[s].version # 0 /\ RowFits(s) /\ user \in UserRow
  BY DEF Actor, Stays, IInv, Typed, JobFits, PhaseFits
<1>2. CASE user.tokenVersion # rows[s].tokenVersion \/ Banned(user)
  <2>1. Go(p, "refused")
    BY <1>2 DEF Actor
  <2>2. Ended(s)
    BY <1>1, <1>2 DEF RowFits, IsCut, Ended, SessionRow, UserRow
  <2> QED BY <1>1, <2>1, <2>2, RefusingKeeps
<1>3. CASE ~(user.tokenVersion # rows[s].tokenVersion \/ Banned(user))
  <2>1. Go(p, "session")
    BY <1>3 DEF Actor
  <2>2. /\ Moves(p) /\ job'[p].phase = "session" /\ job'[p].op = job[p].op /\ job'[p].session = s
        /\ job'[p].dead = job[p].dead
    BY <1>1, <2>1, Going DEF Phases, Reported
  <2>3. JobFits(job[p])'
    BY <1>1, <1>3, <2>2
    DEF Stays, JobFits, PhaseFits, ReadsFit, AnswersFit, Lost, Over, Ended, GraceFits, BanFits
  <2> QED BY <1>1, <2>2, <2>3, QuietKeeps
<1> QED BY <1>2, <1>3

LEMMA ActorSessionKeeps == ASSUME IInv, NEW p \in Process, ActorSession(p) PROVE Kept
<1> DEFINE s == job[p].session
<1>1. /\ Stays /\ Typed /\ job[p] \in Job /\ JobFits(job[p])
      /\ job[p].phase = "session" /\ job[p].op = "access" /\ s \in Session /\ rows[s].version # 0
  BY DEF ActorSession, Stays, IInv, Typed, JobFits, PhaseFits
<1>2. CASE ~Live(rows[s], now)
  <2>1. Go(p, "refused") /\ Ended(s)
    BY <1>1, <1>2 DEF ActorSession, Ended
  <2> QED BY <1>1, <2>1, RefusingKeeps
<1>3. CASE Live(rows[s], now)
  <2>1. Go(p, "answered") /\ ~job[p].dead
    BY <1>1, <1>3 DEF ActorSession, JobFits, AnswersFit, Lost, Over
  <2>2. /\ Moves(p) /\ job'[p].phase = "answered" /\ job'[p].op = job[p].op /\ job'[p].session = s
        /\ job'[p].dead = job[p].dead
    BY <1>1, <2>1, Telling DEF Reported
  <2>3. JobFits(job[p])'
    BY <1>1, <2>1, <2>2 DEF Stays, JobFits, PhaseFits, ReadsFit, AnswersFit, GraceFits, BanFits
  <2> QED BY <1>1, <2>2, <2>3, QuietKeeps
<1> QED BY <1>2, <1>3

LEMMA TargetKeeps == ASSUME IInv, NEW p \in Process, Target(p) PROVE Kept
<1>1. /\ Stays /\ Typed /\ job[p] \in Job /\ JobFits(job[p])
      /\ job[p].phase = "target" /\ job[p].op \in {"logoutAll", "ban", "unban", "profile"}
  BY DEF Target, Stays, IInv, Typed, JobFits, PhaseFits
<1>2. CASE job[p].op = "unban" /\ ~Banned(user)
  <2>1. Go(p, "refused")
    BY <1>2 DEF Target
  <2> QED BY <1>1, <2>1, RefusingKeeps
<1>3. CASE ~(job[p].op = "unban" /\ ~Banned(user))
  <2> DEFINE j == [job[p] EXCEPT !.phase = "update", !.read = user]
  <2>1. j \in Job /\ job' = [job EXCEPT ![p] = j]
    BY <1>1, <1>3 DEF Target, Typed, Job, Phases
  <2>2. j.phase = "update" /\ j.read = user /\ j.op = job[p].op
    BY <1>1 DEF Job
  <2> HIDE DEF j
  <2>3. Moves(p) /\ job'[p] = j
    BY <1>1, <2>1, Reading
  <2>4. JobFits(job[p])'
    BY <1>1, <2>2, <2>3
    DEF Stays, JobFits, PhaseFits, ReadsFit, UserRead, AnswersFit, GraceFits, BanFits, Typed, UserRow
  <2> QED BY <1>1, <2>3, <2>4, QuietKeeps
<1> QED BY <1>2, <1>3

LEMMA ListKeeps == ASSUME IInv, NEW p \in Process, List(p) PROVE Kept
<1>1. /\ Stays /\ Typed /\ job[p] \in Job /\ JobFits(job[p])
      /\ job[p].phase = "list" /\ job[p].op = "ban"
  BY DEF List, Stays, IInv, Typed, JobFits, PhaseFits
<1> DEFINE j == [job[p] EXCEPT !.phase = "get", !.todo = {s \in Session : Live(rows[s], now)}]
<1>2. j \in Job /\ job' = [job EXCEPT ![p] = j]
  BY <1>1 DEF List, Typed, Job, Phases
<1>3. /\ j.phase = "get" /\ j.op = "ban" /\ j.before = job[p].before /\ j.before \subseteq Session
      /\ j.todo = {s \in Session : Live(rows[s], now)}
  BY <1>1 DEF Job
<1>4. \A s \in j.before : rows[s].version # 0 /\ (Over(s) \/ s \in j.todo)
  BY <1>1, <1>3 DEF JobFits, BanFits, Over
<1> HIDE DEF j
<1>5. Moves(p) /\ job'[p] = j
  BY <1>1, <1>2, Reading
<1>6. JobFits(job[p])'
  BY <1>1, <1>3, <1>4, <1>5 DEF Stays, JobFits, PhaseFits, ReadsFit, AnswersFit, GraceFits, BanFits, Over
<1> QED BY <1>1, <1>5, <1>6, QuietKeeps

LEMMA GetKeeps == ASSUME IInv, NEW p \in Process, Get(p) PROVE Kept
<1>1. /\ Stays /\ Typed /\ job[p] \in Job /\ JobFits(job[p]) /\ rows \in [Session -> SessionRow]
      /\ job[p].phase = "get" /\ job[p].op \in {"logout", "ban"}
      /\ job[p].op = "logout" => job[p].session \in Session
      /\ job[p].before \subseteq Session /\ job[p].todo \subseteq Session
  BY DEF Get, Stays, IInv, Typed, JobFits, PhaseFits, Job
<1>2. CASE job[p].todo = {} /\ job[p].op = "ban" /\ Go(p, "answered")
  <2>1. \A s \in job[p].before : rows[s].version # 0 /\ Over(s)
    BY <1>1, <1>2 DEF JobFits, BanFits
  <2>2. Moves(p) /\ job'[p].phase = "answered" /\ job'[p].op = "ban" /\ job'[p].before = job[p].before
    BY <1>1, <1>2, Telling DEF Reported
  <2>3. JobFits(job[p])'
    BY <1>1, <2>1, <2>2 DEF Stays, JobFits, PhaseFits, ReadsFit, AnswersFit, GraceFits, BanFits, Over
  <2> QED BY <1>1, <2>2, <2>3, QuietKeeps
<1>3. ASSUME NEW s \in IF job[p].op = "ban" THEN job[p].todo ELSE {job[p].session},
             job' = [job EXCEPT ![p] =
               [job[p] EXCEPT !.session = s, !.todo = @ \ {s}, !.tries = 0,
                         !.seen = IF Live(rows[s], now) THEN rows[s] ELSE NoRow,
                         !.phase = IF Live(rows[s], now) THEN "revoke" ELSE Revoker(job[p])]]
      PROVE  Kept
  <2> DEFINE j == [job[p] EXCEPT !.session = s, !.todo = @ \ {s}, !.tries = 0,
                                 !.seen = IF Live(rows[s], now) THEN rows[s] ELSE NoRow,
                                 !.phase = IF Live(rows[s], now) THEN "revoke" ELSE Revoker(job[p])]
  <2>1. s \in Session
    BY <1>1, <1>3
  <2>2. Revoker(job[p]) \in {"get", "answered"} /\ (job[p].op = "ban" <=> Revoker(job[p]) = "get")
    BY DEF Revoker
  <2>3. 0 \in 0..Attempts - 1 /\ NoRow \in SessionRow
    BY TimesAssumption DEF NoRow, SessionRow, Reasons
  <2>4. j \in Job /\ job' = [job EXCEPT ![p] = j]
    <3>1. job' = [job EXCEPT ![p] = j]
      BY <1>3
    <3>2. CASE Live(rows[s], now)
      <4>1. j = [job[p] EXCEPT !.session = s, !.todo = @ \ {s}, !.tries = 0, !.seen = rows[s], !.phase = "revoke"]
        BY <3>2
      <4> DEFINE i == [job[p] EXCEPT !.phase = "revoke", !.session = s]
      <4>2. i \in Job
        BY <1>1, <2>1, JobOfPhase DEF Phases
      <4>3. j = [i EXCEPT !.todo = @ \ {s}, !.tries = 0, !.seen = rows[s]]
        BY <1>1, <4>1 DEF Job
      <4> HIDE DEF i, j
      <4> QED BY <1>1, <2>3, <3>1, <4>2, <4>3 DEF Job
    <3>3. CASE ~Live(rows[s], now)
      <4>1. j = [job[p] EXCEPT !.session = s, !.todo = @ \ {s}, !.tries = 0, !.seen = NoRow, !.phase = Revoker(job[p])]
        BY <3>3
      <4> HIDE DEF j
      <4> QED BY <1>1, <2>1, <2>2, <2>3, <3>1, <4>1 DEF Job, Phases, Reported
    <3> QED BY <3>2, <3>3
  <2>5. /\ j.op = job[p].op /\ j.session = s /\ j.before = job[p].before /\ j.todo = job[p].todo \ {s}
        /\ Live(rows[s], now) => j.phase = "revoke" /\ j.seen = rows[s]
        /\ ~Live(rows[s], now) => j.phase = Revoker(job[p])
    BY <1>1 DEF Job
  <2>6. \A x \in job[p].before :
          job[p].op = "ban" => rows[x].version # 0 /\ (Over(x) \/ (x \in job[p].todo /\ (x = s \/ x \in j.todo)))
    BY <1>1, <2>5 DEF JobFits, BanFits
  <2> HIDE DEF j
  <2>7. Moves(p) /\ job'[p] = j
    BY <1>1, <2>4, Reading
  <2>8. (PhaseFits(job[p]) /\ ReadsFit(job[p]) /\ AnswersFit(job[p]) /\ GraceFits(job[p]))'
    BY <1>1, <2>1, <2>2, <2>5, <2>7
    DEF Stays, PhaseFits, ReadsFit, SessionRead, SessionRow, AnswersFit, GraceFits, Live
  <2>9. BanFits(job[p])'
    BY <1>1, <2>1, <2>2, <2>5, <2>6, <2>7 DEF Stays, BanFits, Over
  <2> QED BY <1>1, <2>7, <2>8, <2>9, QuietKeeps DEF JobFits
<1> QED BY <1>2, <1>3 DEF Get

\* revoke() returns to a session that is over.
LEMMA Returning ==
  ASSUME IInv, Typed', World, NEW p \in Process, job[p].phase \in {"reread", "revoke"},
         Go(p, Revoker(job[p])), rows[job[p].session].version # 0 => Over(job[p].session)'
  PROVE  Moves(p) /\ JobFits(job[p])'
<1>1. /\ Typed /\ job[p] \in Job /\ JobFits(job[p])
      /\ job[p].op \in {"logout", "ban"} /\ job[p].before \subseteq Session
  BY DEF IInv, Typed, JobFits, PhaseFits, Job
<1>2. CASE job[p].op = "logout"
  <2>1. Moves(p) /\ job'[p].phase = "answered" /\ job'[p].op = "logout"
    BY <1>1, <1>2, Telling DEF Revoker, Reported
  <2> QED BY <2>1 DEF JobFits, PhaseFits, ReadsFit, AnswersFit, GraceFits, BanFits
<1>3. CASE job[p].op = "ban"
  <2>1. /\ Moves(p) /\ job'[p].phase = "get" /\ job'[p].op = "ban" /\ job'[p].session = job[p].session
        /\ job'[p].before = job[p].before /\ job'[p].todo = job[p].todo
    BY <1>1, <1>3, Going DEF Revoker, Phases, Reported
  <2>2. ASSUME NEW s \in job[p].before PROVE rows'[s].version # 0 /\ (Over(s)' \/ s \in job[p].todo)
    <3>1. s \in Session /\ rows[s].version # 0 /\ (Over(s) \/ s \in job[p].todo \/ s = job[p].session)
      BY <1>1, <1>3, <2>2 DEF JobFits, BanFits
    <3>2. Over(s)' \/ s \in job[p].todo
      BY <2>1, <3>1, EndsStay
    <3>3. rows[s].version \in Nat /\ rows'[s].version \in Nat /\ rows[s].version <= rows'[s].version
      BY <3>1, EndsStay DEF IInv, Typed, SessionRow
    <3> QED BY <3>1, <3>2, <3>3
  <2> QED BY <2>1, <2>2 DEF JobFits, PhaseFits, ReadsFit, AnswersFit, GraceFits, BanFits
<1> QED BY <1>1, <1>2, <1>3

LEMMA RereadKeeps == ASSUME IInv, NEW p \in Process, Reread(p) PROVE Kept
<1> DEFINE s == job[p].session
<1>1. /\ Stays /\ Typed /\ job[p] \in Job /\ JobFits(job[p])
      /\ job[p].phase = "reread" /\ job[p].op \in {"logout", "ban"}
      /\ s \in Session /\ rows[s] \in SessionRow
  BY DEF Reread, Stays, IInv, Typed, JobFits, PhaseFits
<1>2. CASE Live(rows[s], now)
  <2> DEFINE j == [job[p] EXCEPT !.phase = "revoke", !.seen = rows[s]]
  <2>1. j \in Job /\ job' = [job EXCEPT ![p] = j]
    BY <1>1, <1>2 DEF Reread, Typed, Job, Phases
  <2>2. /\ j.phase = "revoke" /\ j.seen = rows[s] /\ j.op = job[p].op /\ j.session = s
        /\ j.before = job[p].before /\ j.todo = job[p].todo
    BY <1>1 DEF Job
  <2> HIDE DEF j, s
  <2>3. Moves(p) /\ job'[p] = j
    BY <1>1, <2>1, Reading
  <2>4. (PhaseFits(job[p]) /\ ReadsFit(job[p]) /\ AnswersFit(job[p]) /\ GraceFits(job[p]))'
    BY <1>1, <1>2, <2>2, <2>3
    DEF Stays, PhaseFits, ReadsFit, SessionRead, SessionRow, AnswersFit, GraceFits, Live
  <2>5. BanFits(job[p])'
    BY <1>1, <2>2, <2>3 DEF Stays, JobFits, BanFits, Over, s
  <2> QED BY <1>1, <2>3, <2>4, <2>5, QuietKeeps DEF JobFits
<1>3. CASE ~Live(rows[s], now)
  <2>1. Go(p, Revoker(job[p]))
    BY <1>3 DEF Reread
  <2>2. Typed' \/ ~Moves(p)
    BY <1>1 DEF Typed, Stays, Moves
  <2>3. World
    BY <1>1 DEF Typed, Stays, World, UserMoves, RowMoves, SpentMoves
  <2>4. Moves(p) /\ job'[p].session = s
    <3>1. CASE job[p].op = "logout"
      BY <1>1, <2>1, <3>1, Telling DEF Revoker, Reported
    <3>2. CASE job[p].op = "ban"
      BY <1>1, <2>1, <3>2, Going DEF Revoker, Phases, Reported
    <3> QED BY <1>1, <3>1, <3>2
  <2>5. rows[s].version # 0 => Over(job[p].session)'
    BY <1>1, <1>3, <2>4 DEF Stays, Over
  <2>6. JobFits(job[p])'
    BY <1>1, <2>1, <2>2, <2>3, <2>4, <2>5, Returning
  <2> QED BY <1>1, <2>4, <2>6, QuietKeeps
<1> QED BY <1>2, <1>3

-----------------------------------------------------------------------------
(* Steps that write.                                                       *)

LEMMA CreateKeeps == ASSUME IInv, NEW p \in Process, Create(p) PROVE Kept
<1>1. /\ UNCHANGED <<now, user, spent>> /\ Typed /\ job[p] \in Job /\ JobFits(job[p])
      /\ job[p].phase = "create" /\ job[p].op = "signIn"
  BY DEF Create, IInv, Typed, JobFits, PhaseFits
<1>2. CASE Go(p, "failed") /\ UNCHANGED rows
  BY <1>1, <1>2, FailingFits, QuietKeeps DEF Stays
<1>3. ASSUME NEW s \in Session, NEW answer \in {"answered", "failed"}, rows[s].version = 0,
             rows' = [rows EXCEPT ![s] =
               [NoRow EXCEPT !.version = 1, !.secret = 1, !.rotatedAt = now, !.expiresAt = now + Ttl,
                             !.tokenVersion = job[p].read.tokenVersion]],
             job' = [job EXCEPT ![p] = [Told(@, answer) EXCEPT !.session = s]]
      PROVE  Kept
  <2> DEFINE row == [NoRow EXCEPT !.version = 1, !.secret = 1, !.rotatedAt = now, !.expiresAt = now + Ttl,
                                  !.tokenVersion = job[p].read.tokenVersion]
             j == [Told(job[p], answer) EXCEPT !.session = s]
  <2>1. /\ row \in SessionRow /\ row.version = 1 /\ row.secret = 1 /\ row.previous = 0
        /\ row.tokenVersion = job[p].read.tokenVersion
    <3>1. now \in Nat /\ now + Ttl \in Nat /\ job[p].read.tokenVersion \in Nat
      BY <1>1, TimesAssumption DEF Typed, Job, UserRow
    <3> QED BY <3>1 DEF NoRow, SessionRow, Reasons
  <2>2. j \in Job /\ (j.op = "none" \/ (j.op = "signIn" /\ j.phase = "answered")) /\ j.phase \in {"answered", "failed"}
    <3>1. Idle \in Job /\ job[p] \in Job
      BY <1>1, IdleIsJob
    <3>2. CASE answer = "failed"
      BY <1>1, <3>1, <3>2 DEF Told, Job, Phases, Reported, Idle
    <3>3. CASE answer = "answered"
      BY <1>1, <3>1, <3>3 DEF Told, Job, Phases, Reported, Idle
    <3> QED BY <1>3, <3>2, <3>3
  <2>3. job' = [job EXCEPT ![p] = j] /\ rows' = [rows EXCEPT ![s] = row]
    BY <1>3
  <2> HIDE DEF row, j
  <2>4. /\ Moves(p) /\ job'[p] = j /\ rows[s] = NoRow
        /\ rows'[s] = row /\ \A x \in Session \ {s} : rows'[x] = rows[x]
    BY <1>1, <1>3, <2>2, <2>3, Reading DEF IInv, Typed, RowFits
  <2>5. Typed'
    BY <1>1, <2>1, <2>3, <2>4 DEF Typed, Moves
  <2>6. World
    BY <1>1, <2>1, <2>4 DEF Typed, World, UserMoves, RowMoves, SpentMoves, NoRow
  <2>7. UserRead(job[p])
    BY <1>1 DEF JobFits, ReadsFit
  <2>8. ASSUME NEW x \in Session PROVE RowFits(x)'
    <3>1. CASE x = s
      BY <1>1, <2>1, <2>4, <2>7, <3>1 DEF RowFits, IsCut, Banned, UserRead
    <3>2. CASE x # s
      BY <1>1, <2>4, <3>2 DEF IInv, RowFits, IsCut, Banned
    <3> QED BY <3>1, <3>2
  <2>9. ExchangesFit'
    BY <1>1, <2>1, <2>4 DEF IInv, Typed, ExchangesFit, NoRow
  <2>10. JobFits(job[p])'
    BY <2>2, <2>4 DEF JobFits, PhaseFits, ReadsFit, AnswersFit, GraceFits, BanFits
  <2> QED BY <2>4, <2>5, <2>6, <2>8, <2>9, <2>10, StepKeeps
<1> QED BY <1>2, <1>3 DEF Create

LEMMA RevokedIsRow ==
  ASSUME NEW row \in SessionRow, NEW reason \in Reasons
  PROVE  /\ Revoked(row, reason) \in SessionRow
         /\ Revoked(row, reason).version = row.version + 1 /\ Revoked(row, reason).revoked = reason
         /\ Revoked(row, reason).tokenVersion = row.tokenVersion /\ Revoked(row, reason).expiresAt = row.expiresAt
         /\ Revoked(row, reason).secret = row.secret /\ Revoked(row, reason).previous = row.previous
         /\ Revoked(row, reason).rotatedAt = row.rotatedAt
<1>1. row.version + 1 \in Nat
  BY DEF SessionRow
<1> DEFINE next == row.version + 1
<1>2. Revoked(row, reason) = [row EXCEPT !.version = next, !.revoked = reason]
  BY DEF Revoked, SessionRow
<1> HIDE DEF next
<1> QED BY <1>1, <1>2 DEF SessionRow, next

LEMMA RotatedIsRow ==
  ASSUME NEW j \in Job
  PROVE  LET row == Rotated(j) IN
           /\ row \in SessionRow /\ row.version = j.seen.version + 1 /\ row.secret = j.seen.version + 1
           /\ row.tokenVersion = j.seen.tokenVersion /\ row.expiresAt = j.seen.expiresAt
           /\ j.secret = j.seen.secret => row.previous = j.secret /\ row.rotatedAt = j.at
           /\ j.secret # j.seen.secret => row.previous = j.seen.previous /\ row.rotatedAt = j.seen.rotatedAt
<1>1. j.seen \in SessionRow /\ j.secret \in Nat /\ j.at \in Nat
  BY DEF Job
<1> DEFINE next == j.seen.version + 1
<1>2. next \in Nat
  BY <1>1 DEF SessionRow
<1>3. CASE j.secret = j.seen.secret
  <2>1. Rotated(j) = [j.seen EXCEPT !.version = next, !.secret = next, !.rotatedAt = j.at, !.previous = j.secret]
    BY <1>3 DEF Rotated, IsCurrent
  <2> HIDE DEF next
  <2> QED BY <1>1, <1>2, <1>3, <2>1 DEF SessionRow, next
<1>4. CASE j.secret # j.seen.secret
  <2>1. Rotated(j) = [j.seen EXCEPT !.version = next, !.secret = next]
    BY <1>1, <1>4 DEF Rotated, IsCurrent, SessionRow
  <2> HIDE DEF next
  <2> QED BY <1>1, <1>2, <1>4, <2>1 DEF SessionRow, next
<1> QED BY <1>3, <1>4

\* A row that has the version it had when it was read is as it was, and was not revoked.
LEMMA ReadStill ==
  ASSUME IInv, NEW p \in Process, job[p].phase \in {"rotate", "revoke"}, Unchanged(job[p])
  PROVE  /\ job[p].session \in Session /\ rows[job[p].session] = job[p].seen
         /\ job[p].seen.version # 0 /\ job[p].seen.revoked = "no"
BY DEF IInv, Unchanged, JobFits, PhaseFits, ReadsFit, SessionRead, Live

\* What a row and the exchanged secrets must be for a write to fit.
LEMMA StoreFits ==
  ASSUME IInv, NEW p \in Process, job[p].phase \in {"rotate", "revoke"}, NEW row \in SessionRow, Store(p, row),
         Moves(p), UNCHANGED <<now, user>>,
         spent' \subseteq [session : Session, secret : Nat, at : Nat], SpentMoves,
         row.version = job[p].seen.version + 1,
         row.tokenVersion = job[p].seen.tokenVersion, row.expiresAt = job[p].seen.expiresAt,
         row.previous < row.secret, row.secret <= row.version,
         row.previous # 0 => [session |-> job[p].session, secret |-> row.previous, at |-> row.rotatedAt] \in spent'
  PROVE  /\ Typed' /\ World /\ (\A x \in Session : RowFits(x)')
         /\ rows'[job[p].session] = row /\ \A x \in Session \ {job[p].session} : rows'[x] = rows[x]
<1> DEFINE s == job[p].session
           seen == job[p].seen
<1>1. s \in Session /\ rows[s] = seen /\ seen.version # 0 /\ seen.revoked = "no" /\ seen \in SessionRow
  BY ReadStill DEF Store, IInv, Typed
<1>2. rows' = [rows EXCEPT ![s] = row] /\ rows \in [Session -> SessionRow] /\ Typed
  BY DEF Store, IInv, Typed
<1> HIDE DEF s, seen
<1>3. rows'[s] = row /\ \A x \in Session \ {s} : rows'[x] = rows[x]
  BY <1>1, <1>2
<1>4. Typed'
  BY <1>1, <1>2 DEF Typed, Moves
<1>5. World
  <2>1. RowMoves(s)
    BY <1>1, <1>3 DEF RowMoves, seen
  <2>2. \A x \in Session : RowMoves(x)
    BY <1>3, <2>1 DEF RowMoves
  <2> QED BY <1>2, <2>2 DEF World, Typed, UserMoves
<1>6. ASSUME NEW x \in Session PROVE RowFits(x)'
  <2>1. RowFits(x) /\ spent \subseteq spent'
    BY DEF IInv, SpentMoves
  <2>2. CASE x = s
    BY <1>1, <1>3, <2>1, <2>2 DEF RowFits, IsCut, Banned, SessionRow, s, seen
  <2>3. CASE x # s
    BY <1>3, <2>1, <2>3 DEF RowFits, IsCut, Banned
  <2> QED BY <2>2, <2>3
<1> QED BY <1>3, <1>4, <1>5, <1>6 DEF s

LEMMA RotateKeeps == ASSUME IInv, NEW p \in Process, Rotate(p) PROVE Kept
<1> DEFINE s == job[p].session
           seen == job[p].seen
<1>1. /\ UNCHANGED <<now, user>> /\ Typed /\ job[p] \in Job /\ JobFits(job[p])
      /\ job[p].phase = "rotate" /\ job[p].op = "refresh" /\ job[p].secret # 0 /\ ~job[p].dead
      /\ s \in Session /\ rows[s].version # 0 /\ RowFits(s)
      /\ seen \in SessionRow /\ job[p].secret \in Nat /\ job[p].at \in 0..MaxNow
  BY DEF Rotate, IInv, Typed, JobFits, PhaseFits, AnswersFit, Lost, Job
<1>2. ASSUME Accepts(job[p]), Store(p, Rotated(job[p])), spent' = Exchange(job[p]),
             NEW answer \in {"answered", "failed"}, Go(p, answer)
      PROVE  Kept
  <2> DEFINE row == Rotated(job[p])
             used == [session |-> s, secret |-> job[p].secret, at |-> job[p].at]
  <2>1. rows[s] = seen /\ seen.version # 0
    BY <1>1, <1>2, ReadStill DEF Store
  <2>2. /\ row \in SessionRow /\ row.version = seen.version + 1 /\ row.secret = seen.version + 1
        /\ row.tokenVersion = seen.tokenVersion /\ row.expiresAt = seen.expiresAt
        /\ IF job[p].secret = seen.secret
             THEN row.previous = job[p].secret /\ row.rotatedAt = job[p].at
             ELSE row.previous = seen.previous /\ row.rotatedAt = seen.rotatedAt
    BY <1>1, RotatedIsRow
  <2> HIDE DEF row
  \* The current secret has not been exchanged; the previous one has, at the time the row says.
  <2>3. /\ \A x \in spent : x.session = s => x.secret < seen.secret
        /\ \A x, y \in spent : x.session = y.session /\ x.secret = y.secret => x = y
        /\ seen.previous # 0 => [session |-> s, secret |-> seen.previous, at |-> seen.rotatedAt] \in spent
        /\ seen.previous < seen.secret /\ seen.secret <= seen.version
        /\ spent \subseteq [session : Session, secret : Nat, at : Nat]
    BY <1>1, <2>1 DEF IInv, ExchangesFit, RowFits, Typed
  <2>4. used \in [session : Session, secret : Nat, at : Nat] /\ used.session = s /\ used.secret = job[p].secret
        /\ used.at = job[p].at
    BY <1>1, TimesAssumption
  <2>5. /\ spent' = spent \/ spent' = spent \cup {used}
        /\ spent' # spent => \A y \in spent : y.session # s \/ y.secret # job[p].secret
    BY <1>2 DEF Exchange
  <2>6. job[p].secret = seen.secret => used \in spent' /\ \A y \in spent : y.session # s \/ y.secret # job[p].secret
    <3>1. ASSUME NEW y \in spent, y.session = s, y.secret = seen.secret PROVE FALSE
      BY <1>1, <2>3, <3>1 DEF SessionRow
    <3> QED BY <1>2, <3>1 DEF Exchange
  <2>7. /\ job[p].secret # seen.secret =>
             /\ job[p].secret = seen.previous /\ job[p].at - seen.rotatedAt <= Grace
             /\ [session |-> s, secret |-> seen.previous, at |-> seen.rotatedAt] \in spent
             /\ spent' = spent
    <3> SUFFICES ASSUME job[p].secret # seen.secret
                 PROVE  /\ job[p].secret = seen.previous /\ job[p].at - seen.rotatedAt <= Grace
                        /\ [session |-> s, secret |-> seen.previous, at |-> seen.rotatedAt] \in spent
                        /\ spent' = spent
      OBVIOUS
    <3>1. /\ job[p].secret = seen.previous /\ job[p].at - seen.rotatedAt <= Grace
          /\ [session |-> s, secret |-> seen.previous, at |-> seen.rotatedAt] \in spent
      BY <1>1, <1>2, <2>3 DEF Accepts, IsCurrent, InGrace
    <3> QED BY <2>5, <3>1
  <2>8. Moves(p) /\ job'[p].phase = answer /\ job'[p].session = s
    BY <1>1, <1>2, Telling DEF Reported
  <2>9. spent' \subseteq [session : Session, secret : Nat, at : Nat]
    BY <2>3, <2>4, <2>5
  <2> HIDE DEF used
  <2>10. SpentMoves
    BY <2>4, <2>5 DEF SpentMoves
  <2>11. row.previous < row.secret /\ row.secret <= row.version
    BY <1>1, <2>2, <2>3 DEF SessionRow
  <2>12. row.previous # 0 => [session |-> s, secret |-> row.previous, at |-> row.rotatedAt] \in spent'
    BY <2>2, <2>3, <2>5, <2>6, <2>7 DEF used
  <2>13. /\ Typed' /\ World /\ (\A x \in Session : RowFits(x)')
         /\ rows'[s] = row /\ \A x \in Session \ {s} : rows'[x] = rows[x]
    BY <1>1, <1>2, <2>2, <2>8, <2>9, <2>10, <2>11, <2>12, StoreFits DEF row
  <2>14. ExchangesFit'
    <3>1. ASSUME NEW x \in spent' PROVE x.secret < rows'[x.session].secret
      <4>1. CASE x \in spent /\ x.session # s
        BY <2>3, <2>13, <4>1 DEF IInv, ExchangesFit
      <4>2. CASE x \in spent /\ x.session = s
        BY <1>1, <2>2, <2>3, <2>13, <4>2 DEF SessionRow
      <4>3. CASE x = used
        BY <1>1, <2>2, <2>3, <2>4, <2>7, <2>13, <4>3 DEF SessionRow
      <4> QED BY <2>5, <4>1, <4>2, <4>3
    <3>2. ASSUME NEW x \in spent', NEW y \in spent', x.session = y.session, x.secret = y.secret PROVE x = y
      BY <2>3, <2>4, <2>5, <3>2
    <3> QED BY <3>1, <3>2 DEF ExchangesFit
  <2>15. JobFits(job[p])'
    <3>1. CASE answer = "failed"
      BY <1>1, <1>2, <3>1, FailingFits
    <3>2. CASE answer = "answered"
      <4>1. /\ job'[p].op = "refresh" /\ job'[p].secret = job[p].secret /\ job'[p].at = job[p].at
            /\ job'[p].dead = job[p].dead
        BY <1>1, <1>2, <3>2, Telling DEF Reported
      <4>2. /\ \E x \in spent' : x.session = s /\ x.secret = job[p].secret
            /\ \A x \in spent' : x.session = s /\ x.secret = job[p].secret => job[p].at - x.at <= Grace
        <5>1. CASE job[p].secret = seen.secret
          <6>1. \A x \in spent' : x.session = s /\ x.secret = job[p].secret => x = used
            BY <2>5, <2>6, <5>1
          <6> QED BY <1>1, <2>4, <2>6, <5>1, <6>1, TimesAssumption
        <5>2. CASE job[p].secret # seen.secret
          <6> DEFINE first == [session |-> s, secret |-> seen.previous, at |-> seen.rotatedAt]
          <6>1. first \in spent /\ first.session = s /\ first.secret = job[p].secret /\ first.at = seen.rotatedAt
            BY <2>7, <5>2
          <6> HIDE DEF first
          <6>2. \A x \in spent' : x.session = s /\ x.secret = job[p].secret => x = first
            BY <2>3, <2>7, <5>2, <6>1
          <6> QED BY <2>7, <5>2, <6>1, <6>2
        <5> QED BY <5>1, <5>2
      <4>3. GraceFits(job[p])'
        BY <2>8, <4>1, <4>2 DEF GraceFits
      <4> QED BY <1>1, <2>1, <2>2, <2>8, <2>13, <3>2, <4>1, <4>3
          DEF JobFits, PhaseFits, ReadsFit, AnswersFit, BanFits, SessionRow
    <3> QED BY <1>2, <3>1, <3>2
  <2> QED BY <2>8, <2>13, <2>14, <2>15, StepKeeps
<1>3. ASSUME ~Accepts(job[p]), Store(p, Revoked(job[p].seen, "reuse")), UNCHANGED spent,
             NEW answer \in {"refused", "failed"}, Go(p, answer)
      PROVE  Kept
  <2> DEFINE row == Revoked(job[p].seen, "reuse")
  <2>1. rows[s] = seen
    BY <1>1, <1>3, ReadStill DEF Store
  <2>2. /\ row \in SessionRow /\ row.version = seen.version + 1 /\ row.secret = seen.secret
        /\ row.tokenVersion = seen.tokenVersion /\ row.expiresAt = seen.expiresAt /\ row.revoked = "reuse"
        /\ row.previous = seen.previous /\ row.rotatedAt = seen.rotatedAt
    BY <1>1, RevokedIsRow DEF Reasons
  <2> HIDE DEF row
  <2>3. Moves(p) /\ job'[p].session = s
    BY <1>1, <1>3, Telling DEF Reported
  <2>4. /\ Typed' /\ World /\ (\A x \in Session : RowFits(x)')
        /\ rows'[s] = row /\ \A x \in Session \ {s} : rows'[x] = rows[x]
    <3>1. /\ row.previous < row.secret /\ row.secret <= row.version
          /\ row.previous # 0 => [session |-> s, secret |-> row.previous, at |-> row.rotatedAt] \in spent'
      BY <1>1, <1>3, <2>1, <2>2 DEF RowFits, SessionRow
    <3>2. SpentMoves /\ spent' \subseteq [session : Session, secret : Nat, at : Nat]
      BY <1>1, <1>3 DEF SpentMoves, Typed
    <3> QED BY <1>1, <1>3, <2>2, <2>3, <3>1, <3>2, StoreFits DEF row
  <2>5. ExchangesFit'
    BY <1>1, <1>3, <2>1, <2>2, <2>4 DEF IInv, ExchangesFit, Typed
  <2>6. JobFits(job[p])'
    <3>1. CASE answer = "failed"
      BY <1>1, <1>3, <3>1, FailingFits
    <3>2. CASE answer = "refused"
      <4>1. rows'[job[p].session].version # 0 /\ Ended(job[p].session)'
        BY <1>1, <2>2, <2>3, <2>4 DEF Ended, Live, SessionRow
      <4> QED BY <1>1, <1>3, <3>2, <4>1, RefusingFits
    <3> QED BY <1>3, <3>1, <3>2
  <2> QED BY <2>3, <2>4, <2>5, <2>6, StepKeeps
<1>4. ASSUME UNCHANGED <<rows, spent>>, Go(p, "failed") PROVE Kept
  BY <1>1, <1>4, FailingFits, QuietKeeps DEF Stays
<1>5. ASSUME UNCHANGED <<rows, spent>>, Conflict(p) PROVE Kept
  <2>1. CASE Go(p, "failed")
    BY <1>4, <1>5, <2>1
  <2>2. CASE ~Go(p, "failed")
    <3>1. /\ Moves(p) /\ job'[p].phase = "find" /\ job'[p].op = "refresh" /\ job'[p].session = s
          /\ job'[p].secret = job[p].secret /\ job'[p].dead = job[p].dead
      BY <1>1, <1>5, <2>2, TryingAgain DEF Conflict, Phases, Reported
    <3>2. JobFits(job[p])'
      BY <1>1, <1>5, <3>1 DEF JobFits, PhaseFits, ReadsFit, AnswersFit, GraceFits, BanFits
    <3> QED BY <1>1, <1>5, <3>1, <3>2, QuietKeeps DEF Stays
  <2> QED BY <2>1, <2>2
<1> QED BY <1>2, <1>3, <1>4, <1>5 DEF Rotate

LEMMA UpdateKeeps == ASSUME IInv, NEW p \in Process, Update(p) PROVE Kept
<1>1. /\ UNCHANGED <<now, rows, spent>> /\ Typed /\ job[p] \in Job /\ JobFits(job[p])
      /\ job[p].phase = "update" /\ job[p].op \in {"logoutAll", "ban", "unban", "profile"}
      /\ UserRead(job[p])
  BY DEF Update, IInv, Typed, JobFits, PhaseFits, ReadsFit
<1>2. ASSUME UNCHANGED user, Go(p, "failed") PROVE Kept
  BY <1>1, <1>2, FailingFits, QuietKeeps DEF Stays
<1>3. ASSUME UNCHANGED user, Again(p, "target") PROVE Kept
  <2>1. CASE Go(p, "failed")
    BY <1>2, <1>3, <2>1
  <2>2. CASE ~Go(p, "failed")
    <3>1. Moves(p) /\ job'[p].phase = "target" /\ job'[p].op = job[p].op
      BY <1>1, <1>3, <2>2, TryingAgain DEF Phases, Reported
    <3>2. JobFits(job[p])'
      BY <1>1, <3>1 DEF JobFits, PhaseFits, ReadsFit, AnswersFit, GraceFits, BanFits
    <3> QED BY <1>1, <1>3, <3>1, <3>2, QuietKeeps DEF Stays
  <2> QED BY <2>1, <2>2
<1>4. ASSUME UserUnchanged(job[p].read), user' = NextUser(job[p].op, job[p].read, job[p].until),
             \/ job[p].op = "ban"
                /\ job' = [job EXCEPT ![p].phase = "list", ![p].tries = 0, ![p].read = User, ![p].until = 0,
                                      ![p].before = {s \in Session : rows[s].version # 0}]
             \/ job[p].op # "ban" /\ Go(p, "answered")
             \/ Go(p, "failed")
      PROVE  Kept
  <2>1. job[p].read = user /\ user \in UserRow /\ job[p].until \in Until /\ now \in 0..MaxNow
    BY <1>1, <1>4 DEF UserUnchanged, UserRead, Typed, Job
  <2>2. /\ user' \in UserRow /\ user'.version = user.version + 1
        /\ user'.tokenVersion = IF job[p].op \in {"ban", "logoutAll"} THEN user.tokenVersion + 1 ELSE user.tokenVersion
        /\ job[p].op \in {"logoutAll", "profile"} => user'.until = user.until
        /\ job[p].op = "unban" => user'.until = 0
    <3>1. 0 \in Until
      BY TimesAssumption DEF Until
    <3> DEFINE version == user.version + 1
               tokenVersion == user.tokenVersion + 1
    <3>2. version \in Nat /\ tokenVersion \in Nat
      BY <2>1 DEF UserRow
    <3>3. CASE job[p].op = "ban"
      <4>1. user' = [user EXCEPT !.version = version, !.tokenVersion = tokenVersion, !.until = job[p].until]
        BY <1>4, <2>1, <3>3 DEF NextUser, UserRow
      <4> HIDE DEF version, tokenVersion
      <4> QED BY <2>1, <3>2, <3>3, <4>1 DEF UserRow, version, tokenVersion
    <3>4. CASE job[p].op = "unban"
      <4>1. user' = [user EXCEPT !.version = version, !.until = 0]
        BY <1>4, <2>1, <3>4 DEF NextUser, UserRow
      <4> HIDE DEF version
      <4> QED BY <2>1, <3>1, <3>2, <3>4, <4>1 DEF UserRow, version
    <3>5. CASE job[p].op = "logoutAll"
      <4>1. user' = [user EXCEPT !.version = version, !.tokenVersion = tokenVersion]
        BY <1>4, <2>1, <3>5 DEF NextUser, UserRow
      <4> HIDE DEF version, tokenVersion
      <4> QED BY <2>1, <3>2, <3>5, <4>1 DEF UserRow, version, tokenVersion
    <3>6. CASE job[p].op = "profile"
      <4>1. user' = [user EXCEPT !.version = version]
        BY <1>4, <2>1, <3>6 DEF NextUser, UserRow
      <4> HIDE DEF version
      <4> QED BY <2>1, <3>2, <3>6, <4>1 DEF UserRow, version
    <3> QED BY <1>1, <3>3, <3>4, <3>5, <3>6
  <2>3. Banned(user)' => user.tokenVersion < user'.tokenVersion \/ (Banned(user) /\ user'.tokenVersion = user.tokenVersion)
    BY <1>1, <2>1, <2>2, TimesAssumption DEF Banned, UserRow, Until
  <2>4. UserMoves
    BY <2>1, <2>2, <2>3 DEF UserMoves, UserRow
  <2>5. World
    BY <1>1, <2>1, <2>4 DEF World, RowMoves, SpentMoves
  <2>6. ASSUME NEW x \in Session PROVE RowFits(x)'
    <3>1. RowFits(x) /\ rows[x] \in SessionRow /\ rows' = rows /\ spent' = spent
      BY <1>1 DEF IInv, Typed
    <3>2. user.tokenVersion <= user'.tokenVersion
      BY <2>1, <2>2 DEF UserRow
    <3> QED BY <2>1, <2>2, <2>3, <3>1, <3>2 DEF RowFits, IsCut, SessionRow, UserRow
  <2>7. ExchangesFit'
    BY <1>1 DEF IInv, ExchangesFit
  <2>8. Moves(p) /\ JobFits(job[p])'
    <3>1. CASE /\ job[p].op = "ban"
               /\ job' = [job EXCEPT ![p].phase = "list", ![p].tries = 0, ![p].read = User, ![p].until = 0,
                                     ![p].before = {s \in Session : rows[s].version # 0}]
      <4> DEFINE j == [job[p] EXCEPT !.phase = "list", !.tries = 0, !.read = User, !.until = 0,
                                     !.before = {s \in Session : rows[s].version # 0}]
      <4>1. 0 \in Until /\ 0 \in 0..Attempts - 1 /\ User \in UserRow
        BY TimesAssumption DEF Until, User, UserRow
      <4>2. j \in Job /\ job' = [job EXCEPT ![p] = j]
        BY <1>1, <3>1, <4>1 DEF Typed, Job, Phases
      <4>3. j.phase = "list" /\ j.op = "ban" /\ j.before = {s \in Session : rows[s].version # 0}
        BY <1>1, <3>1 DEF Job
      <4> HIDE DEF j
      <4>4. Moves(p) /\ job'[p] = j
        BY <1>1, <4>2, Reading
      <4> QED BY <1>1, <4>3, <4>4 DEF JobFits, PhaseFits, ReadsFit, AnswersFit, GraceFits, BanFits
    <3>2. CASE job[p].op # "ban" /\ Go(p, "answered")
      <4>1. Moves(p) /\ job'[p].phase = "answered" /\ job'[p].op = job[p].op
        BY <1>1, <3>2, Telling DEF Reported
      <4> QED BY <1>1, <3>2, <4>1 DEF JobFits, PhaseFits, ReadsFit, AnswersFit, GraceFits, BanFits
    <3>3. CASE Go(p, "failed")
      BY <1>1, <3>3, FailingFits
    <3> QED BY <1>4, <3>1, <3>2, <3>3
  <2>9. Typed'
    BY <1>1, <2>2, <2>8 DEF Typed, Moves
  <2> QED BY <2>5, <2>6, <2>7, <2>8, <2>9, StepKeeps
<1> QED BY <1>1, <1>2, <1>3, <1>4 DEF Update

LEMMA RevokeKeeps == ASSUME IInv, NEW p \in Process, Revoke(p) PROVE Kept
<1> DEFINE s == job[p].session
           seen == job[p].seen
<1>1. /\ UNCHANGED <<now, user, spent>> /\ Typed /\ job[p] \in Job /\ JobFits(job[p])
      /\ job[p].phase = "revoke" /\ job[p].op \in {"logout", "ban"}
      /\ s \in Session /\ RowFits(s) /\ seen \in SessionRow
  BY DEF Revoke, IInv, Typed, JobFits, PhaseFits, Job
<1>2. ASSUME UNCHANGED rows, Go(p, "failed") PROVE Kept
  BY <1>1, <1>2, FailingFits, QuietKeeps DEF Stays
<1>3. ASSUME UNCHANGED rows, RetryRevoke(p) PROVE Kept
  <2>1. CASE Go(p, "failed")
    BY <1>2, <1>3, <2>1
  <2>2. CASE ~Go(p, "failed")
    <3>1. /\ Moves(p) /\ job'[p].phase = "reread" /\ job'[p].op = job[p].op /\ job'[p].session = s
          /\ job'[p].todo = job[p].todo /\ job'[p].before = job[p].before
      BY <1>1, <1>3, <2>2, TryingAgain DEF RetryRevoke, Phases, Reported
    <3>2. JobFits(job[p])'
      BY <1>1, <1>3, <3>1 DEF JobFits, PhaseFits, ReadsFit, AnswersFit, GraceFits, BanFits, Over
    <3> QED BY <1>1, <1>3, <3>1, <3>2, QuietKeeps DEF Stays
  <2> QED BY <2>1, <2>2
<1>4. ASSUME Store(p, Revoked(job[p].seen, job[p].op)), Go(p, Revoker(job[p])) \/ Go(p, "failed") PROVE Kept
  <2> DEFINE row == Revoked(job[p].seen, job[p].op)
  <2>1. rows[s] = seen
    BY <1>1, <1>4, ReadStill DEF Store
  <2>2. /\ row \in SessionRow /\ row.version = seen.version + 1 /\ row.secret = seen.secret
        /\ row.tokenVersion = seen.tokenVersion /\ row.expiresAt = seen.expiresAt /\ row.revoked # "no"
        /\ row.previous = seen.previous /\ row.rotatedAt = seen.rotatedAt
    BY <1>1, RevokedIsRow DEF Reasons
  <2> HIDE DEF row
  <2>3. Moves(p) /\ job'[p].session = s
    <3>1. CASE Go(p, "failed")
      BY <1>1, <3>1, Telling DEF Reported
    <3>2. CASE Go(p, Revoker(job[p])) /\ job[p].op = "ban"
      BY <1>1, <3>2, Going DEF Revoker, Phases, Reported
    <3>3. CASE Go(p, Revoker(job[p])) /\ job[p].op = "logout"
      BY <1>1, <3>3, Telling DEF Revoker, Reported
    <3> QED BY <1>1, <1>4, <3>1, <3>2, <3>3
  <2>4. /\ Typed' /\ World /\ (\A x \in Session : RowFits(x)')
        /\ rows'[s] = row /\ \A x \in Session \ {s} : rows'[x] = rows[x]
    <3>1. /\ row.previous < row.secret /\ row.secret <= row.version
          /\ row.previous # 0 => [session |-> s, secret |-> row.previous, at |-> row.rotatedAt] \in spent'
      <4>1. seen.version # 0
        BY <1>1, <1>4, ReadStill DEF Store
      <4> QED BY <1>1, <2>1, <2>2, <4>1 DEF RowFits, SessionRow
    <3>2. SpentMoves /\ spent' \subseteq [session : Session, secret : Nat, at : Nat]
      BY <1>1 DEF SpentMoves, Typed
    <3> QED BY <1>1, <1>4, <2>2, <2>3, <3>1, <3>2, StoreFits DEF row
  <2>5. ExchangesFit'
    BY <1>1, <2>1, <2>2, <2>4 DEF IInv, ExchangesFit, Typed
  <2>6. JobFits(job[p])'
    <3>1. Over(job[p].session)'
      BY <1>1, <2>2, <2>3, <2>4 DEF Over, Live, SessionRow
    <3>2. CASE Go(p, "failed")
      BY <1>1, <3>2, FailingFits
    <3>3. CASE Go(p, Revoker(job[p]))
      BY <1>1, <2>4, <3>1, <3>3, Returning
    <3> QED BY <1>4, <3>2, <3>3
  <2> QED BY <2>3, <2>4, <2>5, <2>6, StepKeeps
<1> QED BY <1>2, <1>3, <1>4 DEF Revoke

LEMMA TickKeeps == ASSUME IInv, Tick PROVE Kept
<1>1. /\ now \in 0..MaxNow /\ now' = now + 1 /\ now < MaxNow /\ UNCHANGED <<user, rows, job, spent>>
      /\ user \in UserRow /\ Typed
  BY DEF Tick, IInv, Typed
<1>2. Typed'
  BY <1>1, TimesAssumption DEF Typed
<1>3. Banned(user)' => Banned(user)
  BY <1>1, TimesAssumption DEF Banned, UserRow, Until
<1>4. World
  BY <1>1, <1>3 DEF World, UserMoves, RowMoves, SpentMoves
<1>5. (\A x \in Session : RowFits(x)') /\ ExchangesFit'
  BY <1>1, <1>3 DEF IInv, RowFits, IsCut, ExchangesFit
<1>6. \A q \in Process : JobFits(job[q])'
  BY <1>1, <1>2, <1>4, OthersFit
<1> QED BY <1>2, <1>4, <1>5, <1>6 DEF IInv, Kept

-----------------------------------------------------------------------------
LEMMA InitIsFit == Init => IInv
<1> SUFFICES ASSUME Init PROVE IInv
  OBVIOUS
<1>1. Idle \in Job /\ NoRow \in SessionRow /\ User \in UserRow
  BY IdleIsJob, TimesAssumption DEF NoRow, SessionRow, Reasons, User, UserRow, Until
<1>2. Typed
  BY <1>1, TimesAssumption DEF Init, Typed
<1>3. ASSUME NEW s \in Session PROVE RowFits(s)
  BY DEF Init, RowFits, NoRow
<1>4. ASSUME NEW p \in Process PROVE JobFits(job[p])
  BY DEF Init, Idle, JobFits, PhaseFits, ReadsFit, AnswersFit, GraceFits, BanFits
<1> QED BY <1>2, <1>3, <1>4 DEF Init, IInv, ExchangesFit

LEMMA StepIsFit == ASSUME IInv, NEW p \in Process, Step(p) PROVE Kept
BY GateKeeps, CreateKeeps, FindKeeps, BlockedKeeps, ValidKeeps, RotateKeeps, ActorKeeps, ActorSessionKeeps,
   TargetKeeps, UpdateKeeps, ListKeeps, GetKeeps, RereadKeeps, RevokeKeeps DEF Step

LEMMA Preserved == IInv /\ [Next]_vars => Kept
<1> SUFFICES ASSUME IInv, [Next]_vars PROVE Kept
  OBVIOUS
<1>1. CASE UNCHANGED vars
  <2>1. UNCHANGED <<now, user, rows, job, spent>>
    BY <1>1 DEF vars
  <2>2. Typed' /\ World
    BY <2>1 DEF IInv, Typed, World, UserMoves, RowMoves, SpentMoves
  <2>3. (\A x \in Session : RowFits(x)') /\ ExchangesFit'
    BY <2>1 DEF IInv, RowFits, IsCut, Banned, ExchangesFit
  <2>4. \A q \in Process : JobFits(job[q])'
    BY <2>1, <2>2, OthersFit
  <2> QED BY <2>2, <2>3, <2>4 DEF IInv, Kept
<1>2. CASE Next
  BY <1>2, TickKeeps, AskKeeps, StepIsFit DEF Next
<1> QED BY <1>1, <1>2

\* IInv holds in every state that sessions reach.
THEOREM Invariant == Spec => []IInv
<1>1. IInv /\ [Next]_vars => IInv'
  BY Preserved DEF Kept
<1> QED BY <1>1, InitIsFit, PTL DEF Spec

-----------------------------------------------------------------------------
\* Nothing that begins after a session has ended gets through with it (RefreshSessions, Auth.actor).
THEOREM EndIsTheEnd == Spec => []NothingPassesTheEnd
<1>1. IInv => NothingPassesTheEnd
  BY DEF IInv, JobFits, AnswersFit, Lost, NothingPassesTheEnd, Served
<1> QED BY <1>1, Invariant, PTL

\* A request that is refused is refused for good: its session is over (RefreshSessions.rotate, Auth.actor).
THEOREM RefusedForGood == Spec => []RefusalsAreFinal
<1>1. IInv => RefusalsAreFinal
  BY DEF IInv, JobFits, AnswersFit, RefusalsAreFinal, Served
<1> QED BY <1>1, Invariant, PTL

\* A secret is not exchanged later than Grace after it was exchanged first (comment of rotate()).
THEOREM GraceIsKept == Spec => []GraceEnds
<1>1. IInv => GraceEnds
  BY DEF IInv, JobFits, GraceFits, GraceEnds
<1> QED BY <1>1, Invariant, PTL

\* Rows are well-formed, and a ban that returned left no session alive that it found (UserBans.ban).
THEOREM RowsAreTrue == Spec => []SessionRowsAreTrue
<1>1. IInv => TypeOK
  BY TimesAssumption DEF IInv, Typed, TypeOK, Job, UserRow, Until
<1>2. IInv => BansAreMarked
  <2> SUFFICES ASSUME IInv, NEW p \in Process, job[p].op = "ban", job[p].phase = "answered", NEW s \in job[p].before
               PROVE  ~Live(rows[s], now)
    BY DEF BansAreMarked
  <2>1. Over(s)
    BY DEF IInv, JobFits, BanFits
  <2> QED BY <2>1 DEF Over
<1> QED BY <1>1, <1>2, Invariant, PTL DEF SessionRowsAreTrue

\* A session that was revoked is not written again: it keeps its reason (Store.transact over what was read).
THEOREM RevokedForGood == Spec => RevocationsStand
<1>1. IInv /\ [Next]_vars => [\A s \in Session : rows[s].revoked # "no" => rows'[s] = rows[s]]_rows
  BY Preserved DEF Kept, World, RowMoves
<1> QED BY <1>1, Invariant, PTL DEF Spec, RevocationsStand

-----------------------------------------------------------------------------
(* The accounts, their emails and the owner of the installation.           *)

Address == Email \cup {NoEmail}
AccountRow ==
  [version : Nat, email : Address, owner : BOOLEAN, active : BOOLEAN, provisioning : BOOLEAN, deleted : BOOLEAN,
   tv : Nat]
CodeRow == [version : Nat, email : Address, used : BOOLEAN, attempts : Nat, tv : Nat]

\* The requests that read an account, a code, and those that are about an address.
WithRow == {"provision", "activate", "edit", "delete", "restore", "issue", "rename", "confirm"}
WithCode == {"current", "wrong", "rename", "confirm"}
WithEmail == {"find", "existing", "insert", "user", "issue"}
UserCall ==
  [phase : {"idle"} \cup WithRow \cup WithCode \cup WithEmail, user : Account \cup {0}, email : Address,
   bootstrap : BOOLEAN, row : AccountRow, code : CodeRow]

UsersShape ==
  /\ remote \in BOOLEAN
  /\ users \in [Account -> AccountRow]
  /\ index \in [Email -> Account \cup {0}]
  /\ challenge \in [Account -> CodeRow]
  /\ provider \in [Account -> [exists : BOOLEAN, email : Address]]
  /\ request \in [Request -> UserCall]

\* An account, its email and the identity provider: who is provisioned is known there.
AccountFits(u) ==
  /\ users[u].version = 0 => users[u] = NoUser
  /\ users[u] # NoUser =>
       /\ users[u].email \in Email /\ index[users[u].email] = u
       /\ remote /\ ~users[u].provisioning => provider[u].exists
       /\ remote /\ users[u].active => ~users[u].provisioning

EmailFits(e) == index[e] # 0 => users[index[e]] # NoUser /\ users[index[e]].email = e

AccountsFit ==
  /\ \A u \in Account : AccountFits(u)
  /\ \A e \in Email : EmailFits(e)
  /\ OneOwner

\* A code is for an address.
CodesFit == \A u \in Account : challenge[u].version > 0 => challenge[u].email \in Email

\* What a request knows: the row it read is the account's, or older, and there is an address
\* where one is written.
CallFits(q) ==
  /\ q.phase \in WithRow => /\ q.user \in Account /\ 0 < q.row.version /\ q.row.version <= users[q.user].version
                            /\ q.row.version = users[q.user].version => q.row = users[q.user]
  /\ q.phase \in WithCode => q.user \in Account /\ q.code.version > 0 /\ q.code.email \in Email
  /\ q.phase \in WithEmail => q.email \in Email
  /\ q.phase \in {"existing", "user"} => q.user \in Account
  /\ q.phase = "activate" => provider[q.user].exists

UsersInv == UsersShape /\ AccountsFit /\ CodesFit /\ \A r \in Request : CallFits(request[r])

-----------------------------------------------------------------------------
LEMMA UserCallShape ==
  ASSUME NEW q \in UserCall
  PROVE  /\ q.phase \in {"idle"} \cup WithRow \cup WithCode \cup WithEmail /\ q.user \in Account \cup {0}
         /\ q.email \in Address /\ q.bootstrap \in BOOLEAN /\ q.row \in AccountRow /\ q.code \in CodeRow
         /\ q.row.version \in Nat /\ q.code.version \in Nat
BY DEF UserCall, AccountRow, CodeRow

LEMMA SameNames == U!NoUser = NoUser /\ U!Account = Account
BY DEF U!NoUser, NoUser, U!Account, Account

LEMMA IdleCall ==
  /\ U!Idle \in UserCall /\ U!Idle.phase = "idle" /\ NoUser \in AccountRow /\ NoUser.version = 0
  /\ U!NoChallenge \in CodeRow /\ U!NoChallenge.version = 0
<1>1. NoUser \in AccountRow /\ NoUser.version = 0 /\ U!NoChallenge \in CodeRow /\ U!NoChallenge.version = 0
  BY DEF NoUser, U!NoChallenge, AccountRow, CodeRow, Address
<1>2. U!Idle = [phase |-> "idle", user |-> 0, email |-> NoEmail, bootstrap |-> FALSE, row |-> NoUser, code |-> U!NoChallenge]
  BY SameNames DEF U!Idle
<1> QED BY <1>1, <1>2 DEF UserCall, Address

\* The step of a request that writes no account.
LEMMA OneCallServes ==
  ASSUME UsersInv, UsersShape', CodesFit', UNCHANGED <<remote, users, index, owner>>, NEW r \in Request,
         \A u \in Account : provider[u].exists => provider'[u].exists,
         \A s \in Request \ {r} : request'[s] = request[s],
         CallFits(request[r])'
  PROVE  UsersInv'
<1>1. AccountsFit'
  BY DEF UsersInv, AccountsFit, AccountFits, EmailFits, OneOwner
<1>2. ASSUME NEW s \in Request PROVE CallFits(request[s])'
  <2>1. CASE s = r
    BY <2>1
  <2>2. CASE s # r
    BY <2>2 DEF UsersInv, CallFits, WithRow
  <2> QED BY <2>1, <2>2
<1> QED BY <1>1, <1>2 DEF UsersInv

\* The same, when nothing but the request changes.
LEMMA OneCallGoes ==
  ASSUME UsersInv, UNCHANGED <<remote, users, index, owner, challenge, provider>>, NEW r \in Request,
         NEW q \in UserCall, request' = [request EXCEPT ![r] = q], CallFits(q)
  PROVE  UsersInv'
<1>1. UsersShape' /\ CodesFit'
  BY DEF UsersInv, UsersShape, CodesFit
<1>2. request'[r] = q /\ \A s \in Request \ {r} : request'[s] = request[s]
  BY DEF UsersInv, UsersShape
<1>3. CallFits(request[r])'
  BY <1>2 DEF CallFits
<1> QED BY <1>1, <1>2, <1>3, OneCallServes

LEMMA CallEnds ==
  ASSUME UsersInv, UNCHANGED <<remote, users, index, owner, challenge, provider>>, NEW r \in Request, U!Ends(r)
  PROVE  UsersInv'
<1>1. CallFits(U!Idle)
  BY IdleCall DEF CallFits, WithRow, WithCode, WithEmail
<1> QED BY <1>1, IdleCall, OneCallGoes DEF U!Ends

\* The write of an account: what others read of it is older now.
LEMMA OneAccountChanges ==
  ASSUME UsersInv, UsersShape', AccountsFit', CodesFit', NEW r \in Request, NEW u \in Account,
         users'[u].version = users[u].version + 1, \A v \in Account \ {u} : users'[v] = users[v],
         provider' = provider, \A s \in Request \ {r} : request'[s] = request[s],
         CallFits(request[r])'
  PROVE  UsersInv'
<1>1. \A v \in Account : users[v].version \in Nat /\ users'[v].version \in Nat
  BY DEF UsersInv, UsersShape, AccountRow
<1>2. ASSUME NEW s \in Request PROVE CallFits(request[s])'
  <2>1. CASE s = r
    BY <2>1
  <2>2. CASE s # r
    <3>1. request'[s] = request[s] /\ CallFits(request[s]) /\ request[s].row.version \in Nat
      BY <2>2, UserCallShape DEF UsersInv, UsersShape
    <3>2. CASE request[s].user = u
      BY <1>1, <3>1, <3>2 DEF CallFits
    <3>3. CASE request[s].user # u
      BY <3>1, <3>3 DEF CallFits
    <3> QED BY <3>2, <3>3
  <2> QED BY <2>1, <2>2
<1> QED BY <1>2 DEF UsersInv

\* The write of an account whose email and part in the installation stay as they are.
LEMMA AccountIsKept ==
  ASSUME UsersInv, NEW r \in Request, NEW u \in Account, NEW row \in AccountRow, users[u] # NoUser,
         users' = [users EXCEPT ![u] = row], row.version = users[u].version + 1,
         row.email = users[u].email, row.owner = users[u].owner,
         remote /\ ~row.provisioning => provider[u].exists,
         remote /\ row.active => ~row.provisioning,
         U!Ends(r), UNCHANGED <<remote, index, owner, challenge, provider>>
  PROVE  UsersInv'
<1>1. UsersShape' /\ CodesFit'
  BY IdleCall DEF U!Ends, UsersInv, UsersShape, CodesFit
<1>2. /\ users'[u] = row /\ \A v \in Account \ {u} : users'[v] = users[v]
      /\ request'[r] = U!Idle /\ \A s \in Request \ {r} : request'[s] = request[s]
  BY DEF U!Ends, UsersInv, UsersShape
<1>3. users[u].version \in Nat /\ row # NoUser
  BY IdleCall DEF UsersInv, UsersShape, AccountRow
<1>4. \A v \in Account : AccountFits(v)'
  <2> SUFFICES ASSUME NEW v \in Account PROVE AccountFits(v)'
    OBVIOUS
  <2>1. CASE v = u
    BY <1>2, <1>3, <2>1, IdleCall DEF UsersInv, AccountsFit, AccountFits
  <2>2. CASE v # u
    BY <1>2, <2>2 DEF UsersInv, AccountsFit, AccountFits
  <2> QED BY <2>1, <2>2
<1>5. \A e \in Email : EmailFits(e)'
  <2> SUFFICES ASSUME NEW e \in Email PROVE EmailFits(e)'
    OBVIOUS
  <2>1. CASE index[e] = u
    BY <1>2, <1>3, <2>1 DEF UsersInv, AccountsFit, EmailFits
  <2>2. CASE index[e] # u
    BY <1>2, <2>2 DEF UsersInv, UsersShape, AccountsFit, EmailFits
  <2> QED BY <2>1, <2>2
<1>6. OneOwner'
  <2>1. \A v \in Account : users'[v].owner = users[v].owner
    BY <1>2
  <2> QED BY <2>1 DEF UsersInv, AccountsFit, OneOwner
<1>7. CallFits(request[r])'
  BY <1>2, IdleCall DEF CallFits, WithRow, WithCode, WithEmail
<1> QED BY <1>1, <1>2, <1>4, <1>5, <1>6, <1>7, OneAccountChanges DEF AccountsFit

\* A row that is still the account's is the account.
LEMMA SameIsTheAccount ==
  ASSUME UsersInv, NEW r \in Request, request[r].phase \in WithRow, U!Same(r)
  PROVE  /\ request[r].user \in Account /\ users[request[r].user] = request[r].row
         /\ request[r].row \in AccountRow /\ request[r].row.version > 0 /\ request[r].row # NoUser
         /\ AccountFits(request[r].user)
BY IdleCall, UserCallShape DEF UsersInv, UsersShape, AccountsFit, CallFits, U!Same

\* The requests that change an account they read (Activate, Change).
LEMMA ChangeKeeps ==
  ASSUME UsersInv, NEW r \in Request, remote' = remote, U!Activate(r) \/ U!Change(r)
  PROVE  UsersInv'
<1> DEFINE c == request[r]
           u == c.user
<1>1. /\ c.phase \in {"activate", "edit", "delete", "restore"} /\ c.phase \in WithRow /\ c \in UserCall /\ CallFits(c)
      /\ U!Ends(r) /\ UNCHANGED <<index, owner, challenge, provider>>
  BY DEF U!Activate, U!Change, UsersInv, UsersShape, WithRow
<1>2. CASE ~U!Same(r)
  <2>1. UNCHANGED users
    BY <1>2 DEF U!Activate, U!Change
  <2> QED BY <1>1, <2>1, CallEnds
<1>3. CASE U!Same(r)
  <2>1. /\ u \in Account /\ users[u] = c.row /\ c.row \in AccountRow /\ c.row.version > 0 /\ c.row # NoUser
        /\ AccountFits(u) /\ c.row.version \in Nat /\ c.row.tv \in Nat /\ c.row.tv + 1 \in Nat
    BY <1>1, <1>3, SameIsTheAccount DEF AccountRow
  <2>2. ASSUME NEW next \in AccountRow, U!Write(r, next), next.version = c.row.version, next.email = c.row.email,
               next.owner = c.row.owner, remote /\ ~next.provisioning => provider[u].exists,
               remote /\ next.active => ~next.provisioning
        PROVE  UsersInv'
    <3> DEFINE row == [next EXCEPT !.version = next.version + 1]
    <3>1. users' = [users EXCEPT ![u] = row]
      BY <2>2 DEF U!Write
    <3>2. /\ row \in AccountRow /\ row.version = users[u].version + 1 /\ row.email = users[u].email
          /\ row.owner = users[u].owner /\ row.active = next.active /\ row.provisioning = next.provisioning
      BY <2>1, <2>2 DEF AccountRow
    <3> HIDE DEF row
    <3> QED BY <1>1, <2>1, <2>2, <3>1, <3>2, AccountIsKept
  <2>3. remote /\ ~c.row.provisioning => provider[u].exists
    BY <2>1 DEF AccountFits
  <2>4. remote /\ c.row.active => ~c.row.provisioning
    BY <2>1 DEF AccountFits
  <2>5. CASE c.phase = "activate"
    <3> DEFINE next == [c.row EXCEPT !.active = TRUE, !.provisioning = FALSE]
    <3>1. next \in AccountRow /\ next.version = c.row.version /\ next.email = c.row.email /\ next.owner = c.row.owner /\ ~next.provisioning
      BY <2>1 DEF AccountRow
    <3>2. U!Write(r, next)
      BY <1>3, <2>5 DEF U!Activate, U!Change
    <3>3. provider[u].exists
      BY <1>1, <2>5 DEF CallFits
    <3> HIDE DEF next
    <3> QED BY <2>2, <3>1, <3>2, <3>3
  <2>6. CASE c.phase = "edit"
    <3>1. U!Write(r, c.row)
      BY <1>3, <2>6 DEF U!Activate, U!Change, U!Changed
    <3> QED BY <2>1, <2>2, <2>3, <2>4, <3>1
  <2>7. CASE c.phase = "delete"
    <3> DEFINE next == [c.row EXCEPT !.deleted = TRUE, !.active = FALSE, !.tv = c.row.tv + 1]
    <3>1. /\ next \in AccountRow /\ next.version = c.row.version /\ next.email = c.row.email /\ next.owner = c.row.owner
          /\ ~next.active /\ next.provisioning = c.row.provisioning
      BY <2>1 DEF AccountRow
    <3>2. U!Write(r, next)
      BY <1>3, <2>7 DEF U!Activate, U!Change, U!Changed
    <3> HIDE DEF next
    <3> QED BY <2>2, <2>3, <3>1, <3>2
  <2>8. CASE c.phase = "restore"
    <3> DEFINE next == [c.row EXCEPT !.deleted = FALSE, !.active = ~c.row.provisioning, !.tv = c.row.tv + 1]
    <3>1. /\ next \in AccountRow /\ next.version = c.row.version /\ next.email = c.row.email /\ next.owner = c.row.owner
          /\ next.active = ~c.row.provisioning /\ next.provisioning = c.row.provisioning
      BY <2>1 DEF AccountRow
    <3>2. U!Write(r, next)
      BY <1>3, <2>8 DEF U!Activate, U!Change, U!Changed, U!Restored
    <3> HIDE DEF next
    <3> QED BY <2>2, <2>3, <3>1, <3>2
  <2> QED BY <1>1, <2>5, <2>6, <2>7, <2>8
<1> QED BY <1>2, <1>3

\* A new account is the only one that has its email, and the only owner if it is one.
LEMMA ReserveKeeps ==
  ASSUME UsersInv, NEW r \in Request, remote' = remote, U!Reserve(r)
  PROVE  UsersInv'
<1> DEFINE c == request[r]
<1>1. c.phase = "insert" /\ c \in UserCall /\ c.email \in Email /\ c.bootstrap \in BOOLEAN /\ UNCHANGED <<challenge, provider>>
  BY UserCallShape DEF U!Reserve, UsersInv, UsersShape, CallFits, WithEmail
<1>2. CASE ~U!Vacant(r)
  BY <1>1, <1>2, CallEnds DEF U!Reserve
<1>3. CASE U!Vacant(r)
  <2> DEFINE Row == [NoUser EXCEPT !.version = 1, !.email = c.email, !.owner = c.bootstrap,
                                   !.active = ~remote, !.provisioning = remote, !.tv = 1]
             next(u) == [U!Idle EXCEPT !.phase = "provision", !.user = u, !.row = Row]
  <2>1. PICK u \in Account :
          /\ users[u] = NoUser /\ users' = [users EXCEPT ![u] = Row]
          /\ index' = [index EXCEPT ![c.email] = u]
          /\ owner' = IF c.bootstrap THEN u ELSE owner
          /\ IF remote THEN request' = [request EXCEPT ![r] = next(u)] ELSE U!Ends(r)
    BY <1>1, <1>3, SameNames DEF U!Reserve
  <2>2. index[c.email] = 0 /\ (c.bootstrap => owner = 0)
    BY <1>3 DEF U!Vacant
  <2>3. remote \in BOOLEAN
    BY DEF UsersInv, UsersShape
  <2>4. /\ Row \in AccountRow /\ Row.version = 1 /\ Row.email = c.email /\ Row.owner = c.bootstrap
        /\ (Row.active <=> ~remote) /\ (Row.provisioning <=> remote) /\ Row # NoUser
    BY <1>1, <2>3 DEF NoUser, AccountRow, Address
  <2>5. next(u) \in UserCall /\ next(u).phase = "provision" /\ next(u).user = u /\ next(u).row = Row
    BY <2>4, IdleCall DEF UserCall, WithRow
  <2>6. /\ users'[u] = Row /\ \A v \in Account \ {u} : users'[v] = users[v]
        /\ index'[c.email] = u /\ \A e \in Email \ {c.email} : index'[e] = index[e]
        /\ \A s \in Request \ {r} : request'[s] = request[s]
        /\ request'[r] = next(u) \/ request'[r] = U!Idle
    BY <1>1, <2>1 DEF U!Ends, UsersInv, UsersShape
  <2> DEFINE q == next(u)
  <2>7. request' = [request EXCEPT ![r] = q] \/ request' = [request EXCEPT ![r] = U!Idle]
    BY <2>1 DEF U!Ends
  <2>8. q \in UserCall /\ q.phase = "provision" /\ q.user = u /\ q.row = Row /\ (request'[r] = q \/ request'[r] = U!Idle)
    BY <2>5, <2>6
  <2>9. remote' = remote
    OBVIOUS
  <2> HIDE DEF Row, next, q
  <2>10. UsersShape'
    BY <1>1, <2>1, <2>4, <2>7, <2>8, <2>9, IdleCall DEF UsersInv, UsersShape
  <2>11. CodesFit'
    BY <1>1 DEF UsersInv, CodesFit
  <2>12. \A v \in Account : AccountFits(v)'
    <3> SUFFICES ASSUME NEW v \in Account PROVE AccountFits(v)'
      OBVIOUS
    <3>1. CASE v = u
      BY <1>1, <2>3, <2>4, <2>6, <2>9, <3>1 DEF AccountFits
    <3>2. CASE v # u
      <4>1. users'[v] = users[v] /\ AccountFits(v)
        BY <2>6, <3>2 DEF UsersInv, AccountsFit
      <4>2. users[v] # NoUser => users[v].email # c.email
        <5>1. v # 0
          BY UsersAssumption DEF Account, UsersAssumption
        <5> QED BY <2>2, <4>1, <5>1 DEF AccountFits
      <4> QED BY <1>1, <2>6, <2>9, <4>1, <4>2 DEF AccountFits
    <3> QED BY <3>1, <3>2
  <2>13. \A e \in Email : EmailFits(e)'
    <3> SUFFICES ASSUME NEW e \in Email PROVE EmailFits(e)'
      OBVIOUS
    <3>1. CASE e = c.email
      BY <2>4, <2>6, <3>1 DEF EmailFits
    <3>2. CASE e # c.email
      <4>1. index'[e] = index[e] /\ EmailFits(e) /\ index[e] \in Account \cup {0}
        BY <2>6, <3>2 DEF UsersInv, UsersShape, AccountsFit
      <4>2. index[e] # 0 => index[e] # u
        BY <2>1, <4>1 DEF EmailFits
      <4> QED BY <2>6, <4>1, <4>2 DEF EmailFits
    <3> QED BY <3>1, <3>2
  <2>14. OneOwner'
    <3>1. u # 0 /\ ~users[u].owner
      BY <2>1, UsersAssumption DEF NoUser, Account, UsersAssumption
    <3>2. {v \in Account : users'[v].owner} = {v \in Account : users[v].owner} \cup (IF c.bootstrap THEN {u} ELSE {})
      BY <1>1, <2>4, <2>6, <3>1
    <3>3. {v \in Account : users[v].owner} = {owner} \ {0}
      BY DEF UsersInv, AccountsFit, OneOwner
    <3> QED BY <1>1, <2>1, <2>2, <3>1, <3>2, <3>3 DEF OneOwner
  <2>15. CallFits(request[r])'
    BY <2>4, <2>6, <2>8, IdleCall DEF CallFits, WithRow, WithCode, WithEmail
  <2>16. users'[u].version = users[u].version + 1
    BY <2>1, <2>4, <2>6, IdleCall
  <2> QED BY <1>1, <2>6, <2>10, <2>11, <2>12, <2>13, <2>14, <2>15, <2>16, OneAccountChanges DEF AccountsFit
<1> QED BY <1>2, <1>3

\* A change of address gives up one email and takes another that is nobody's.
LEMMA ConfirmedKeeps ==
  ASSUME UsersInv, NEW r \in Request, remote' = remote, U!Confirmed(r)
  PROVE  UsersInv'
<1> DEFINE c == request[r]
           u == c.user
<1>1. /\ c.phase = "confirm" /\ c.phase \in WithRow /\ c.phase \in WithCode /\ c \in UserCall /\ CallFits(c)
      /\ U!Ends(r) /\ UNCHANGED <<owner, provider>>
  BY DEF U!Confirmed, UsersInv, UsersShape, WithRow, WithCode
<1> DEFINE Changes == U!SameCode(r) /\ U!Same(r) /\ index[c.row.email] # 0 /\ U!Free(c.code.email)
<1>2. CASE ~Changes
  <2>1. UNCHANGED <<users, index, challenge>>
    BY <1>2 DEF U!Confirmed
  <2> QED BY <1>1, <2>1, CallEnds
<1>3. CASE Changes
  <2> DEFINE old == c.row.email
             new == c.code.email
             row == [c.row EXCEPT !.email = new, !.tv = c.row.tv + 1, !.version = c.row.version + 1]
             code == [c.code EXCEPT !.version = c.code.version + 1, !.used = TRUE]
  <2>1. /\ u \in Account /\ users[u] = c.row /\ c.row \in AccountRow /\ c.row.version > 0 /\ c.row # NoUser
        /\ AccountFits(u) /\ c.row.version \in Nat /\ c.row.tv \in Nat /\ c.row.tv + 1 \in Nat
    BY <1>1, <1>3, SameIsTheAccount DEF AccountRow
  <2>2. /\ new \in Email /\ index[new] = 0 /\ old \in Email /\ index[old] = u /\ old # new /\ u # 0
        /\ c.code \in CodeRow /\ c.code.version + 1 \in Nat
    BY <1>1, <1>3, <2>1, UserCallShape DEF CallFits, AccountFits, U!Free
  <2>3. /\ challenge' = [challenge EXCEPT ![u] = [c.code EXCEPT !.version = @ + 1, !.used = TRUE]]
        /\ U!Write(r, [c.row EXCEPT !.email = new, !.tv = @ + 1])
        /\ index' = [index EXCEPT ![old] = 0, ![new] = u]
    BY <1>3 DEF U!Confirmed
  <2>4. challenge' = [challenge EXCEPT ![u] = code] /\ code \in CodeRow /\ code.email = new
    BY <2>2, <2>3 DEF CodeRow
  <2>5. row \in AccountRow /\ row.version = users[u].version + 1 /\ row.email = new /\ row.owner = users[u].owner
        /\ row.active = users[u].active /\ row.provisioning = users[u].provisioning
    <3>1. new \in Address /\ c.row.version + 1 \in Nat /\ c.row.tv + 1 \in Nat
      BY <2>1, <2>2 DEF Address
    <3> QED BY <2>1, <3>1 DEF AccountRow
  <2>6. users' = [users EXCEPT ![u] = row]
    <3>1. users' = [users EXCEPT ![u] = [[c.row EXCEPT !.email = new, !.tv = c.row.tv + 1] EXCEPT !.version = @ + 1]]
      BY <2>3 DEF U!Write
    <3>2. [[c.row EXCEPT !.email = new, !.tv = c.row.tv + 1] EXCEPT !.version = @ + 1] = row
      BY <2>1 DEF AccountRow
    <3> QED BY <3>1, <3>2
  <2>7. /\ users'[u] = row /\ \A v \in Account \ {u} : users'[v] = users[v]
        /\ index'[old] = 0 /\ index'[new] = u /\ \A e \in Email \ {old, new} : index'[e] = index[e]
        /\ challenge'[u] = code /\ \A v \in Account \ {u} : challenge'[v] = challenge[v]
        /\ request'[r] = U!Idle /\ \A s \in Request \ {r} : request'[s] = request[s]
    BY <1>1, <2>1, <2>2, <2>3, <2>4, <2>6 DEF U!Ends, UsersInv, UsersShape
  <2> HIDE DEF row, code
  <2>8. UsersShape'
    BY <1>1, <2>1, <2>2, <2>3, <2>4, <2>5, <2>6, IdleCall DEF U!Ends, UsersInv, UsersShape
  <2>9. CodesFit'
    BY <2>2, <2>4, <2>7 DEF UsersInv, CodesFit
  <2> DEFINE row0 == users[u]
  <2>10. \A v \in Account : AccountFits(v)'
    <3> SUFFICES ASSUME NEW v \in Account PROVE AccountFits(v)'
      OBVIOUS
    <3>1. CASE v = u
      <4>1. row.version # 0
        BY <2>1, <2>5
      <4> QED BY <1>1, <2>1, <2>2, <2>5, <2>7, <3>1, <4>1 DEF AccountFits
    <3>2. CASE v # u
      <4>1. users'[v] = users[v] /\ AccountFits(v) /\ v # 0
        BY <2>7, <3>2, UsersAssumption DEF UsersInv, AccountsFit, Account, UsersAssumption
      <4>2. users[v] # NoUser => users[v].email \notin {old, new}
        BY <2>2, <3>2, <4>1 DEF AccountFits
      <4> QED BY <1>1, <2>7, <4>1, <4>2 DEF AccountFits
    <3> QED BY <3>1, <3>2
  <2>11. \A e \in Email : EmailFits(e)'
    <3> SUFFICES ASSUME NEW e \in Email PROVE EmailFits(e)'
      OBVIOUS
    <3>1. CASE e = old
      BY <2>7, <3>1 DEF EmailFits
    <3>2. CASE e = new
      <4>1. row # NoUser
        BY <2>1, <2>5, IdleCall
      <4> QED BY <2>2, <2>5, <2>7, <3>2, <4>1 DEF EmailFits
    <3>3. CASE e \notin {old, new}
      <4>1. index'[e] = index[e] /\ EmailFits(e) /\ index[e] \in Account \cup {0}
        BY <2>7, <3>3 DEF UsersInv, UsersShape, AccountsFit
      <4>2. index[e] # u
        BY <2>1, <2>2, <3>3, <4>1 DEF EmailFits
      <4> QED BY <2>7, <4>1, <4>2 DEF EmailFits
    <3> QED BY <3>1, <3>2, <3>3
  <2>12. OneOwner'
    <3>1. \A v \in Account : users'[v].owner = users[v].owner
      BY <2>5, <2>7
    <3> QED BY <1>1, <3>1 DEF UsersInv, AccountsFit, OneOwner
  <2>13. CallFits(request[r])'
    BY <2>7, IdleCall DEF CallFits, WithRow, WithCode, WithEmail
  <2>14. users'[u].version = users[u].version + 1 /\ provider' = provider
    BY <1>1, <2>5, <2>7
  <2> QED BY <2>1, <2>7, <2>8, <2>9, <2>10, <2>11, <2>12, <2>13, <2>14, OneAccountChanges DEF AccountsFit
<1> QED BY <1>2, <1>3

\* A call of the provider leaves every identity there.
LEMMA ProviderKeeps ==
  ASSUME UsersInv, NEW r \in Request, remote' = remote, U!Provision(r) \/ U!Rename(r)
  PROVE  UsersInv'
<1> DEFINE c == request[r]
           u == c.user
<1>1. /\ c.phase \in {"provision", "rename"} /\ c.phase \in WithRow /\ c \in UserCall /\ CallFits(c) /\ u \in Account
      /\ UNCHANGED <<remote, users, index, owner, challenge>>
  BY DEF U!Provision, U!Rename, UsersInv, UsersShape, CallFits, WithRow
<1>2. CASE U!Ends(r) /\ UNCHANGED provider
  BY <1>1, <1>2, CallEnds
<1>3. CASE ~(U!Ends(r) /\ UNCHANGED provider)
  <2> DEFINE phase == IF c.phase = "provision" THEN "activate" ELSE "confirm"
             q == [c EXCEPT !.phase = phase]
             email == IF c.phase = "provision" THEN c.row.email ELSE c.code.email
             exists == IF c.phase = "provision" THEN TRUE ELSE provider[u].exists
             identity == [exists |-> exists, email |-> email]
  <2>1. /\ request' = [request EXCEPT ![r] = q] \/ request' = [request EXCEPT ![r] = U!Idle]
        /\ provider' = [provider EXCEPT ![u] = identity]
    <3>1. CASE c.phase = "provision"
      <4>1. /\ provider' = [provider EXCEPT ![u] = [exists |-> TRUE, email |-> c.row.email]]
            /\ U!Goes(r, "activate") \/ U!Ends(r)
        BY <1>3, <3>1 DEF U!Provision, U!Rename
      <4> QED BY <3>1, <4>1 DEF U!Goes, U!Ends
    <3>2. CASE c.phase = "rename"
      <4>1. /\ provider' = [provider EXCEPT ![u].email = c.code.email]
            /\ U!Goes(r, "confirm") \/ U!Ends(r)
        BY <1>3, <3>2 DEF U!Provision, U!Rename
      <4>2. [provider[u] EXCEPT !.email = c.code.email] = identity
        BY <1>1, <3>2 DEF UsersInv, UsersShape
      <4> QED BY <3>2, <4>1, <4>2 DEF U!Goes, U!Ends
    <3> QED BY <1>1, <3>1, <3>2
  <2>2. identity \in [exists : BOOLEAN, email : Address] /\ (provider[u].exists => identity.exists)
    <3>1. c.row.email \in Address /\ c.code.email \in Address /\ provider[u].exists \in BOOLEAN
      BY <1>1, UserCallShape DEF AccountRow, CodeRow, UsersInv, UsersShape
    <3> QED BY <3>1
  <2>3. /\ q \in UserCall /\ q.phase = phase /\ q.user = u /\ q.row = c.row /\ q.code = c.code
        /\ phase \in {"activate", "confirm"} /\ phase \in WithRow
    BY <1>1 DEF UserCall, WithRow
  <2>4. phase = "activate" => identity.exists
    BY <1>1
  <2>5. phase \in WithCode => c.phase \in WithCode
    BY <1>1 DEF WithCode
  <2> HIDE DEF q, identity, phase
  <2>6. UsersShape' /\ CodesFit'
    BY <1>1, <2>1, <2>2, <2>3, IdleCall DEF UsersInv, UsersShape, CodesFit
  <2>7. /\ provider'[u] = identity /\ \A v \in Account \ {u} : provider'[v] = provider[v]
        /\ request'[r] \in {q, U!Idle} /\ \A s \in Request \ {r} : request'[s] = request[s]
    BY <1>1, <2>1 DEF UsersInv, UsersShape
  <2>8. \A v \in Account : provider[v].exists => provider'[v].exists
    BY <2>2, <2>7
  <2>9. CallFits(request[r])'
    <3>1. CASE request'[r] = U!Idle
      BY <3>1, IdleCall DEF CallFits, WithRow, WithCode, WithEmail
    <3>2. CASE request'[r] = q
      BY <1>1, <2>3, <2>4, <2>5, <2>7, <3>2 DEF CallFits, WithEmail
    <3> QED BY <2>7, <3>1, <3>2
  <2> QED BY <1>1, <2>6, <2>7, <2>8, <2>9, OneCallServes
<1> QED BY <1>2, <1>3

\* A code is issued for an address, and a wrong answer is counted in it.
LEMMA CodesKeep ==
  ASSUME UsersInv, NEW r \in Request, remote' = remote, U!Issue(r) \/ U!Refuse(r)
  PROVE  UsersInv'
<1> DEFINE c == request[r]
           u == c.user
           issued == [version |-> c.code.version + 1, email |-> c.email, used |-> FALSE, attempts |-> 0, tv |-> c.row.tv]
           refused == [c.code EXCEPT !.version = c.code.version + 1, !.attempts = c.code.attempts + 1]
           code == IF c.phase = "issue" THEN issued ELSE refused
<1>1. /\ c.phase \in {"issue", "wrong"} /\ c \in UserCall /\ CallFits(c) /\ u \in Account /\ U!Ends(r)
      /\ UNCHANGED <<remote, users, index, owner, provider>>
  BY DEF U!Issue, U!Refuse, UsersInv, UsersShape, CallFits, WithRow, WithCode
<1>2. c.code \in CodeRow /\ c.row.tv \in Nat /\ c.code.version + 1 \in Nat /\ c.code.attempts + 1 \in Nat
  BY <1>1, UserCallShape DEF CodeRow, AccountRow
<1>3. code \in CodeRow /\ code.email \in Email
  <2>1. CASE c.phase = "issue"
    BY <1>1, <1>2, <2>1 DEF CodeRow, CallFits, WithEmail, Address
  <2>2. CASE c.phase = "wrong"
    <3>1. refused \in CodeRow /\ refused.email = c.code.email
      BY <1>2 DEF CodeRow
    <3> QED BY <1>1, <2>2, <3>1 DEF CallFits, WithCode
  <2> QED BY <1>1, <2>1, <2>2
<1>4. challenge' = challenge \/ challenge' = [challenge EXCEPT ![u] = code]
  <2>1. CASE c.phase = "issue"
    BY <2>1 DEF U!Issue, U!Refuse
  <2>2. CASE c.phase = "wrong"
    <3>1. challenge' = challenge \/ challenge' = [challenge EXCEPT ![u] = [c.code EXCEPT !.version = @ + 1, !.attempts = @ + 1]]
      BY <2>2 DEF U!Issue, U!Refuse
    <3>2. [c.code EXCEPT !.version = @ + 1, !.attempts = @ + 1] = refused
      BY <1>2 DEF CodeRow
    <3> QED BY <2>2, <3>1, <3>2
  <2> QED BY <1>1, <2>1, <2>2
<1> HIDE DEF code
<1>5. UsersShape' /\ CodesFit'
  BY <1>1, <1>3, <1>4, IdleCall DEF U!Ends, UsersInv, UsersShape, CodesFit
<1>6. request'[r] = U!Idle /\ \A s \in Request \ {r} : request'[s] = request[s]
  BY <1>1 DEF U!Ends, UsersInv, UsersShape
<1>7. CallFits(request[r])'
  BY <1>6, IdleCall DEF CallFits, WithRow, WithCode, WithEmail
<1> QED BY <1>1, <1>5, <1>6, <1>7, OneCallServes

\* A request that starts keeps what it read, and nothing else changes.
LEMMA CallStarts ==
  ASSUME UsersInv, NEW r \in Request, UNCHANGED <<remote, users, index, owner, challenge, provider>>,
         NEW q \in UserCall, U!Starts(r, q), CallFits(q)
  PROVE  UsersInv'
BY OneCallGoes DEF U!Starts

\* A request that goes on with the row it reads.
LEMMA CallReads ==
  ASSUME UsersInv, NEW r \in Request, UNCHANGED <<remote, users, index, owner, challenge, provider>>,
         request[r].user \in Account, users[request[r].user] # NoUser,
         NEW phase \in WithRow, U!Reads(r, phase), phase # "activate",
         phase \in WithCode => request[r].phase \in WithCode,
         phase \in WithEmail => request[r].phase \in WithEmail
  PROVE  UsersInv'
<1> DEFINE c == request[r]
           q == [c EXCEPT !.phase = phase, !.row = users[c.user]]
<1>1. c \in UserCall /\ users[c.user] \in AccountRow /\ CallFits(c)
  BY DEF UsersInv, UsersShape
<1>2. q \in UserCall /\ q.phase = phase /\ q.user = c.user /\ q.email = c.email /\ q.row = users[c.user] /\ q.code = c.code
  BY <1>1 DEF UserCall
<1>3. request' = [request EXCEPT ![r] = q]
  BY DEF U!Reads, UsersInv, UsersShape, UserCall
<1>4. users[c.user].version \in Nat /\ users[c.user].version # 0
  BY <1>1 DEF AccountRow, UsersInv, AccountsFit, AccountFits
<1> HIDE DEF q
<1>5. CallFits(q)
  BY <1>1, <1>2, <1>4 DEF CallFits, WithRow
<1> QED BY <1>2, <1>3, <1>5, OneCallGoes

-----------------------------------------------------------------------------
(* The accounts that the properties of Users are about.                    *)

\* An email leads to the account that has it, and to no other, the installation has one owner,
\* and who may sign in exists at the identity provider (Users.insert, restore, bootstrapOwner,
\* confirmEmailChange).
THEOREM AccountsStayTrue == U!Spec => []AccountsAreTrue
<1>1. U!Init => UsersInv
  <2> SUFFICES ASSUME U!Init PROVE UsersInv
    OBVIOUS
  <2>1. /\ remote \in BOOLEAN /\ users = [u \in Account |-> NoUser] /\ index = [e \in Email |-> 0] /\ owner = 0
        /\ challenge = [u \in Account |-> U!NoChallenge] /\ provider = [u \in Account |-> U!NoIdentity]
        /\ request = [r \in Request |-> U!Idle]
    BY SameNames DEF U!Init
  <2>2. U!NoIdentity \in [exists : BOOLEAN, email : Address] /\ ~NoUser.owner
    BY DEF U!NoIdentity, NoUser, Address
  <2>3. UsersShape
    BY <2>1, <2>2, IdleCall DEF UsersShape
  <2>4. AccountsFit /\ CodesFit
    BY <2>1, <2>2, IdleCall DEF AccountsFit, AccountFits, EmailFits, OneOwner, CodesFit
  <2>5. \A r \in Request : CallFits(request[r])
    BY <2>1, IdleCall DEF CallFits, WithRow, WithCode, WithEmail
  <2> QED BY <2>3, <2>4, <2>5 DEF UsersInv
<1>2. UsersInv /\ [U!Next]_(U!vars) => UsersInv'
  <2> SUFFICES ASSUME UsersInv, [U!Next]_(U!vars) PROVE UsersInv'
    OBVIOUS
  <2>1. CASE UNCHANGED U!vars
    BY <2>1 DEF U!vars, UsersInv, UsersShape, AccountsFit, AccountFits, EmailFits, OneOwner, CodesFit, CallFits
  <2> DEFINE Rest == UNCHANGED <<remote, users, index, owner, challenge, provider>>
  <2>2. ASSUME NEW r \in Request, NEW e \in Email, NEW b \in BOOLEAN, remote' = remote, U!Insert(r, e, b) PROVE UsersInv'
    <3> DEFINE phase == IF remote THEN "find" ELSE "insert"
               q == [U!Idle EXCEPT !.phase = phase, !.email = e, !.bootstrap = b]
    <3>1. Rest /\ U!Starts(r, q)
      BY <2>2 DEF U!Insert, U!Rows
    <3>2. phase \in WithEmail /\ phase \notin WithRow \cup WithCode \cup {"existing", "user", "activate"}
      BY DEF WithEmail, WithRow, WithCode
    <3> HIDE DEF phase
    <3>3. q \in UserCall /\ q.phase = phase /\ q.email = e
      BY <3>2, IdleCall DEF UserCall, Address
    <3> HIDE DEF q
    <3>4. CallFits(q)
      BY <3>2, <3>3 DEF CallFits
    <3> QED BY <3>1, <3>3, <3>4, CallStarts
  <2>3. ASSUME NEW r \in Request, remote' = remote, U!Find(r) PROVE UsersInv'
    <3> DEFINE c == request[r]
               u == index[c.email]
               q == [c EXCEPT !.phase = IF u = 0 THEN "insert" ELSE "existing", !.user = u]
    <3>1. /\ Rest /\ c.phase = "find" /\ request' = [request EXCEPT ![r] = q]
          /\ c \in UserCall /\ c.email \in Email /\ u \in Account \cup {0}
      BY <2>3 DEF U!Find, U!Rows, UsersInv, UsersShape, CallFits, WithEmail, UserCall
    <3>2. q \in UserCall /\ q.phase \in {"insert", "existing"} /\ q.email = c.email /\ q.user = u /\ (q.phase = "existing" => u # 0)
      BY <3>1 DEF UserCall, WithEmail
    <3> HIDE DEF q
    <3>3. CallFits(q)
      BY <3>1, <3>2 DEF CallFits, WithRow, WithCode
    <3> QED BY <3>1, <3>2, <3>3, OneCallGoes
  <2>4. ASSUME NEW r \in Request, remote' = remote, U!Existing(r) PROVE UsersInv'
    <3> DEFINE c == request[r]
               row == users[c.user]
               q == [c EXCEPT !.phase = "insert", !.user = 0]
    <3>1. /\ Rest /\ c.phase = "existing" /\ c \in UserCall /\ c.user \in Account /\ c.email \in Email
      BY <2>4 DEF U!Existing, U!Rows, UsersInv, UsersShape, CallFits, WithEmail
    <3>2. CASE row.provisioning /\ ~row.deleted
      <4>1. U!Reads(r, "provision") /\ row # NoUser
        BY <2>4, <3>2 DEF U!Existing, NoUser
      <4> QED BY <3>1, <4>1, CallReads DEF WithRow, WithCode, WithEmail
    <3>3. CASE ~(row.provisioning /\ ~row.deleted)
      <4>1. request' = [request EXCEPT ![r] = q]
        BY <2>4, <3>1, <3>3 DEF U!Existing, UsersInv, UsersShape, UserCall
      <4>2. q \in UserCall /\ q.phase = "insert" /\ q.email = c.email
        BY <3>1 DEF UserCall, WithEmail
      <4> HIDE DEF q
      <4>3. CallFits(q)
        BY <3>1, <4>2 DEF CallFits, WithRow, WithCode
      <4> QED BY <3>1, <4>1, <4>2, <4>3, OneCallGoes
    <3> QED BY <3>2, <3>3
  <2>5. ASSUME NEW r \in Request, NEW u \in Account, NEW phase \in {"edit", "delete", "restore"}, remote' = remote,
               U!Read(r, phase, u)
        PROVE UsersInv'
    <3> DEFINE q == [U!Idle EXCEPT !.phase = phase, !.user = u, !.row = users[u]]
    <3>1. Rest /\ U!Starts(r, q) /\ users[u] # NoUser
      BY <2>5, SameNames DEF U!Read, U!Rows
    <3>2. phase \in WithRow /\ phase \notin WithCode \cup WithEmail /\ phase \notin {"existing", "user", "activate"}
      BY <2>5 DEF WithEmail, WithRow, WithCode
    <3>3. users[u] \in AccountRow /\ users[u].version \in Nat /\ users[u].version # 0
      BY <3>1 DEF UsersInv, UsersShape, AccountRow, AccountsFit, AccountFits
    <3>4. q \in UserCall /\ q.phase = phase /\ q.user = u /\ q.row = users[u]
      BY <3>2, <3>3, IdleCall DEF UserCall
    <3> HIDE DEF q
    <3>5. CallFits(q)
      BY <3>2, <3>3, <3>4 DEF CallFits
    <3> QED BY <3>1, <3>4, <3>5, CallStarts
  <2>6. ASSUME NEW r \in Request, NEW u \in Account, NEW e \in Email, remote' = remote, U!ChangeEmail(r, u, e) PROVE UsersInv'
    <3> DEFINE q == [U!Idle EXCEPT !.phase = "user", !.user = u, !.email = e, !.code = challenge[u]]
    <3>1. Rest /\ U!Starts(r, q) /\ challenge[u] \in CodeRow
      BY <2>6 DEF U!ChangeEmail, U!Rows, UsersInv, UsersShape
    <3>2. q \in UserCall /\ q.phase = "user" /\ q.user = u /\ q.email = e
      BY <3>1, IdleCall DEF UserCall, Address, WithEmail
    <3> HIDE DEF q
    <3>3. CallFits(q)
      BY <3>2 DEF CallFits, WithRow, WithCode
    <3> QED BY <3>1, <3>2, <3>3, CallStarts
  <2>7. ASSUME NEW r \in Request, remote' = remote, U!ReadUser(r) PROVE UsersInv'
    <3> DEFINE c == request[r]
    <3>1. Rest /\ c.phase = "user" /\ c.user \in Account
      BY <2>7 DEF U!ReadUser, U!Rows, UsersInv, CallFits
    <3>2. CASE users[c.user].active
      <4>1. U!Reads(r, "issue") /\ users[c.user] # NoUser
        BY <2>7, <3>2 DEF U!ReadUser, NoUser
      <4> QED BY <3>1, <4>1, CallReads DEF WithRow, WithCode, WithEmail
    <3>3. CASE ~users[c.user].active
      BY <2>7, <3>1, <3>3, CallEnds DEF U!ReadUser
    <3> QED BY <3>2, <3>3
  <2>8. ASSUME NEW r \in Request, NEW u \in Account, NEW right \in BOOLEAN, remote' = remote, U!Confirm(r, u, right)
        PROVE UsersInv'
    <3> DEFINE phase == IF right THEN "current" ELSE "wrong"
               q == [U!Idle EXCEPT !.phase = phase, !.user = u, !.code = challenge[u]]
    <3>1. /\ Rest /\ U!Starts(r, q)
          /\ challenge[u] \in CodeRow /\ challenge[u].version > 0 /\ challenge[u].email \in Email
      BY <2>8 DEF U!Confirm, U!Rows, UsersInv, UsersShape, CodesFit
    <3>2. phase \in WithCode /\ phase \notin WithRow \cup WithEmail /\ phase \notin {"existing", "user", "activate"}
      BY DEF WithRow, WithCode, WithEmail
    <3> HIDE DEF phase
    <3>3. q \in UserCall /\ q.phase = phase /\ q.user = u /\ q.code = challenge[u]
      BY <3>1, <3>2, IdleCall DEF UserCall
    <3> HIDE DEF q
    <3>4. CallFits(q)
      BY <3>1, <3>2, <3>3 DEF CallFits
    <3> QED BY <3>1, <3>3, <3>4, CallStarts
  <2>9. ASSUME NEW r \in Request, remote' = remote, U!Current(r) PROVE UsersInv'
    <3> DEFINE c == request[r]
               row == users[c.user]
    <3>1. Rest /\ c.phase = "current" /\ c.phase \in WithCode /\ c.user \in Account
      BY <2>9 DEF U!Current, U!Rows, UsersInv, CallFits, WithCode
    <3>2. CASE row.active /\ row.tv = c.code.tv
      <4>1. row # NoUser /\ U!Reads(r, IF remote THEN "rename" ELSE "confirm")
        BY <2>9, <3>2 DEF U!Current, NoUser
      <4>2. CASE remote
        BY <3>1, <4>1, <4>2, CallReads DEF WithRow, WithCode, WithEmail
      <4>3. CASE ~remote
        BY <3>1, <4>1, <4>3, CallReads DEF WithRow, WithCode, WithEmail
      <4> QED BY <4>2, <4>3
    <3>3. CASE ~(row.active /\ row.tv = c.code.tv)
      BY <2>9, <3>1, <3>3, CallEnds DEF U!Current
    <3> QED BY <3>2, <3>3
  <2>10. ASSUME NEW r \in Request, remote' = remote, U!Fail(r) PROVE UsersInv'
    BY <2>10, CallEnds DEF U!Fail, U!Rows
  <2> QED BY <2>1, <2>2, <2>3, <2>4, <2>5, <2>6, <2>7, <2>8, <2>9, <2>10, SameNames,
             ChangeKeeps, ReserveKeeps, ConfirmedKeeps, ProviderKeeps, CodesKeep DEF U!Next, U!Step
<1>3. UsersInv => AccountsAreTrue
  <2> SUFFICES ASSUME UsersInv PROVE AccountsAreTrue
    OBVIOUS
  <2>1. EmailsAreOwned /\ OneOwner
    BY DEF UsersInv, AccountsFit, AccountFits, EmailFits, EmailsAreOwned
  <2>2. ActiveIsProvisioned
    <3> SUFFICES ASSUME NEW u \in Account, remote, users[u].active PROVE provider[u].exists
      BY DEF ActiveIsProvisioned
    <3>1. users[u] # NoUser
      BY DEF NoUser
    <3> QED BY <3>1 DEF UsersInv, AccountsFit, AccountFits
  <2> QED BY <2>1, <2>2 DEF AccountsAreTrue
<1> QED BY <1>1, <1>2, <1>3, PTL DEF U!Spec

-----------------------------------------------------------------------------
(* The tabs of a browser.                                                  *)

Fields == {"open", "current", "phase", "started", "since", "replaced", "answer"}
ASession == [secret : Nat, fresh : Int]
Announced == [secret : Nat \ {0}, fresh : Int]
TabsShape ==
  /\ clock \in Nat /\ shared \in BOOLEAN
  /\ DOMAIN server = {"secret", "previous", "rotatedAt", "revoked"}
  /\ server.secret \in Nat /\ server.previous \in Nat /\ server.rotatedAt \in Int
  /\ lock \in Tab \cup {NoTab}
  /\ tab = [t \in Tab |-> tab[t]] /\ stored = [t \in Tab |-> stored[t]] /\ inbox = [t \in Tab |-> inbox[t]]
  /\ \A t \in Tab : /\ DOMAIN tab[t] = Fields
                    /\ tab[t].open \in BOOLEAN /\ tab[t].replaced \in BOOLEAN
                    /\ tab[t].current \in ASession /\ tab[t].since \in Int
                    /\ tab[t].started \in Nat /\ tab[t].answer \in Nat

\* The messages that may be on their way while a session is the last one that was announced.
SetTo(last) == [type |-> "set", session |-> last]
Stored == [type |-> "storage", session |-> T!NoSession]
Waiting(last) == {<<>>, <<SetTo(last)>>} \cup (IF shared THEN {<<SetTo(last), Stored>>, <<Stored>>} ELSE {})

Waits(t) == inbox[t] # <<>>
Answering == \E t \in Tab : tab[t].phase = "answer"

\* A tab has the last session, or will hear of it.
Hears(t, last) ==
  /\ inbox[t] \in Waiting(last)
  /\ inbox[t] \in {<<>>, <<Stored>>} => tab[t].current = last
  /\ tab[t].current.secret # 0
  /\ stored[t] = IF shared THEN last ELSE tab[t].current

\* An older session is still good for a refresh, or too fresh to need one.
StillGood(t, last) ==
  \/ tab[t].current = last
  \/ tab[t].current.secret = server.previous /\ clock - server.rotatedAt <= Latency
  \/ tab[t].current.fresh > clock

\* A refresh has a secret that the server takes for as long as the request is on its way.
Asks(t, last) ==
  /\ tab[t].since <= clock /\ clock <= tab[t].since + Latency
  /\ \/ tab[t].started = server.secret
     \/ /\ tab[t].started = server.previous /\ tab[t].since - server.rotatedAt <= Latency
        /\ last.fresh > tab[t].since + Latency

\* A rotation that is not announced yet: the last session is as good as the answer is late.
Gets(t, last) ==
  /\ tab[t].since <= clock /\ clock <= tab[t].since + Latency
  /\ tab[t].answer = server.secret /\ last.secret + 1 = server.secret
  /\ \/ last.secret = server.previous /\ tab[t].since <= server.rotatedAt
     \/ last.fresh > tab[t].since + Latency

Shares(last) ==
  /\ \A t \in Tab : lock = t <=> tab[t].phase \in {"fetch", "answer"}
  /\ \A t \in Tab : IF tab[t].open THEN Hears(t, last) ELSE tab[t] = T!Closed /\ inbox[t] = <<>>
  /\ \A t \in Tab : Waits(t) => last.fresh = clock + Access
  /\ \A t \in Tab : tab[t].phase = "lock" /\ ~tab[t].replaced => tab[t].current.fresh <= clock
  /\ ~Answering => last.secret = server.secret /\ \A t \in Tab : tab[t].open => StillGood(t, last)
  /\ \A t \in Tab : tab[t].phase = "fetch" => Asks(t, last)
  /\ \A t \in Tab : tab[t].phase = "answer" => Gets(t, last)

TabsInv ==
  /\ DOMAIN server = {"secret", "previous", "rotatedAt", "revoked"}
  /\ server.revoked # "reuse"
  /\ server.revoked = "no" => TabsShape /\ \E last \in Announced : Shares(last)

LEMMA Joined ==
  ASSUME NEW a, NEW b
  PROVE  /\ <<>> \o <<>> = <<>> /\ <<a>> \o <<>> = <<a>> /\ <<>> \o <<a>> = <<a>>
         /\ <<a, b>> \o <<>> = <<a, b>> /\ <<>> \o <<a, b>> = <<a, b>> /\ <<a>> \o <<b>> = <<a, b>>
<1> DEFINE S == {a, b}
<1>1. <<>> \in Seq(S) /\ <<a>> \in Seq(S) /\ <<b>> \in Seq(S) /\ <<a, b>> \in Seq(S)
  OBVIOUS
<1>2. Len(<<a>>) = 1 /\ Len(<<b>>) = 1 /\ Len(<<a, b>>) = 2 /\ <<a>>[1] = a /\ <<b>>[1] = b /\ <<a, b>>[1] = a /\ <<a, b>>[2] = b
  OBVIOUS
<1> HIDE DEF S
<1>3. <<a>> \o <<b>> = <<a, b>>
  <2> DEFINE s == <<a>>
             t == <<b>>
             st == <<a, b>>
  <2>1. s \in Seq(S) /\ t \in Seq(S) /\ st \in Seq(S) /\ Len(s) = 1 /\ Len(t) = 1 /\ Len(st) = 2
        /\ s[1] = a /\ t[1] = b /\ st[1] = a /\ st[2] = b
    BY <1>1, <1>2
  <2> HIDE DEF s, t, st
  <2>2. (s \o t) \in Seq(S) /\ Len(s \o t) = 2 /\ \A i \in 1..2 : (s \o t)[i] = IF i <= 1 THEN s[i] ELSE t[i - 1]
    BY <2>1, ConcatProperties
  <2>3. \A i \in 1..2 : (s \o t)[i] = st[i]
    BY <2>1, <2>2
  <2>4. s \o t = st
    BY <2>1, <2>2, <2>3, SeqEqual
  <2> QED BY <2>4 DEF s, t, st
<1> QED BY <1>1, <1>3, ConcatEmptySeq

LEMMA ClosedIs ==
  /\ DOMAIN T!Closed = Fields /\ T!Closed.open = FALSE /\ T!Closed.current = T!NoSession /\ T!Closed.phase = "idle"
  /\ T!Closed.started = 0 /\ T!Closed.since = 0 /\ T!Closed.replaced = FALSE /\ T!Closed.answer = 0
  /\ T!NoSession \in ASession /\ T!NoSession.secret = 0
BY DEF T!Closed, T!NoSession, Fields, ASession

\* Once the server has ended the session, it stays so.
LEMMA EndedStays ==
  ASSUME DOMAIN server = {"secret", "previous", "rotatedAt", "revoked"}, server.revoked # "no", [T!Next]_T!vars
  PROVE  server'.revoked = server.revoked /\ DOMAIN server' = DOMAIN server
<1>1. ASSUME NEW t \in Tab, T!SignOut(t) PROVE server'.revoked = server.revoked /\ DOMAIN server' = DOMAIN server
  BY <1>1 DEF T!SignOut
<1>2. ASSUME NEW t \in Tab, T!Serve(t) PROVE server' = server
  BY <1>2 DEF T!Serve
<1>3. CASE UNCHANGED server
  BY <1>3
<1> QED BY <1>1, <1>2, <1>3 DEF T!Next, T!vars, T!Hear, T!Refresh, T!Adopt, T!Skip, T!Fetch, T!Answer, T!Fail, T!Open, T!Tick

-----------------------------------------------------------------------------
\* A step of one tab that leaves the server and the messages alone.
LEMMA OneTab ==
  ASSUME TabsAssumption, TabsShape, NEW last \in Announced, Shares(last), NEW t \in Tab, NEW j,
         UNCHANGED <<clock, shared, server, stored, inbox>>, tab' = [tab EXCEPT ![t] = j],
         tab[t].open, tab[t].phase # "answer", lock' \in Tab \cup {NoTab},
         \A u \in Tab : lock' = u <=> IF u = t THEN j.phase \in {"fetch", "answer"} ELSE lock = u,
         DOMAIN j = Fields, j.open = TRUE, j.replaced \in BOOLEAN, j.since \in Int, j.started \in Nat, j.answer \in Nat,
         j.current = tab[t].current \/ (shared /\ j.current = last),
         j.phase # "answer", j.phase = "lock" /\ ~j.replaced => j.current.fresh <= clock,
         j.phase = "fetch" => Asks(t, last)'
  PROVE  TabsShape' /\ Shares(last)'
<1>1. tab'[t] = j /\ \A u \in Tab : u # t => tab'[u] = tab[u]
  BY DEF TabsShape
<1>2. TabsShape'
  <2>1. j.current \in ASession
    BY DEF TabsShape, Announced, ASession
  <2>2. tab' = [u \in Tab |-> tab'[u]]
    BY DEF TabsShape
  <2> QED BY <1>1, <2>1, <2>2 DEF TabsShape
<1>3. \A u \in Tab : lock' = u <=> tab'[u].phase \in {"fetch", "answer"}
  BY <1>1 DEF Shares
<1>4. ASSUME NEW u \in Tab
      PROVE  (IF tab[u].open THEN Hears(u, last) ELSE tab[u] = T!Closed /\ inbox[u] = <<>>)'
  <2>1. CASE u = t
    <3>1. Hears(t, last)
      BY DEF Shares
    <3> QED BY <1>1, <2>1, <3>1 DEF Hears, Waiting, Stored, Announced
  <2>2. CASE u # t
    <3>1. IF tab[u].open THEN Hears(u, last) ELSE tab[u] = T!Closed /\ inbox[u] = <<>>
      BY DEF Shares
    <3> QED BY <1>1, <2>2, <3>1 DEF Hears, Waiting, Stored
  <2> QED BY <2>1, <2>2
<1>5. \A u \in Tab : tab'[u].phase = "answer" <=> tab[u].phase = "answer"
  BY <1>1
<1>6. Answering' <=> Answering
  BY <1>5 DEF Answering
<1>7. ASSUME ~Answering, NEW u \in Tab, tab'[u].open PROVE StillGood(u, last)'
  <2>1. CASE u = t
    <3>1. StillGood(t, last)
      BY <1>7 DEF Shares
    <3> QED BY <1>1, <2>1, <3>1 DEF StillGood
  <2>2. CASE u # t
    <3>1. StillGood(u, last)
      BY <1>1, <1>7, <2>2 DEF Shares
    <3> QED BY <1>1, <2>2, <3>1 DEF StillGood
  <2> QED BY <2>1, <2>2
<1>8. \A u \in Tab : tab'[u].phase = "lock" /\ ~tab'[u].replaced => tab'[u].current.fresh <= clock
  BY <1>1 DEF Shares
<1>9. ASSUME NEW u \in Tab, tab'[u].phase = "fetch" PROVE Asks(u, last)'
  BY <1>1, <1>9 DEF Shares, Asks
<1>10. ASSUME NEW u \in Tab, tab'[u].phase = "answer" PROVE Gets(u, last)'
  BY <1>1, <1>10 DEF Shares, Gets
<1>11. \A u \in Tab : inbox'[u] # <<>> => last.fresh = clock' + Access
  BY DEF Shares, Waits
<1>12. ~Answering' => last.secret = server'.secret
  BY <1>6 DEF Shares
<1> QED BY <1>2, <1>3, <1>4, <1>6, <1>7, <1>8, <1>9, <1>10, <1>11, <1>12 DEF Shares, Waits

Life(last) == TabsShape /\ last \in Announced /\ Shares(last) /\ server.revoked = "no"

\* Who does something is open, and has a session.
LEMMA WhoActs ==
  ASSUME NEW last, Life(last), NEW t \in Tab, tab[t].phase # "idle" \/ tab[t].current.secret # 0 \/ inbox[t] # <<>>
  PROVE  /\ tab[t].open /\ Hears(t, last) /\ last.secret # 0
         /\ tab[t].current \in ASession /\ DOMAIN tab[t] = Fields
<1>1. tab[t].open /\ Hears(t, last)
  BY ClosedIs DEF Life, Shares
<1> QED BY <1>1 DEF Life, TabsShape, Announced

LEMMA LifeRefresh ==
  ASSUME TabsAssumption, NEW last, Life(last), NEW t \in Tab, T!Refresh(t)
  PROVE  TabsShape' /\ Shares(last)'
<1>1. /\ tab[t].open /\ last \in Announced /\ tab[t].current \in ASession /\ DOMAIN tab[t] = Fields
      /\ tab[t].phase = "idle" /\ lock \in Tab \cup {NoTab} /\ lock # t
  BY WhoActs DEF T!Refresh, T!SignedIn, Life, Shares, TabsShape
<1> PICK j : j = [tab[t] EXCEPT !.phase = "lock", !.started = tab[t].current.secret, !.replaced = FALSE]
  OBVIOUS
<1>2. /\ DOMAIN j = Fields /\ j.open = tab[t].open /\ j.phase = "lock" /\ j.started = tab[t].current.secret /\ j.replaced = FALSE
      /\ j.current = tab[t].current /\ j.since = tab[t].since /\ j.answer = tab[t].answer
  BY <1>1 DEF Fields
<1>3. tab' = [tab EXCEPT ![t] = j] /\ UNCHANGED <<clock, shared, server, stored, inbox, lock>>
  BY <1>1 DEF T!Refresh, TabsShape, Life, Fields
<1>4. j.current.fresh <= clock
  <2>1. ~T!Fresh(tab[t].current) /\ tab[t].current.secret # 0
    BY DEF T!Refresh, T!SignedIn, Life
  <2> QED BY <1>1, <1>2, <2>1 DEF T!Fresh, ASession, Life, TabsShape
<1>5. j.replaced \in BOOLEAN /\ j.since \in Int /\ j.started \in Nat /\ j.answer \in Nat
  BY <1>1, <1>2 DEF ASession, Life, TabsShape
<1>6. \A u \in Tab : lock' = u <=> IF u = t THEN j.phase \in {"fetch", "answer"} ELSE lock = u
  BY <1>1, <1>2, <1>3
<1> QED BY <1>1, <1>2, <1>3, <1>4, <1>5, <1>6, OneTab DEF Life

\* Who waits for the lock does something else after all.
LEMMA Idles ==
  ASSUME TabsAssumption, NEW last, Life(last), NEW t \in Tab, tab[t].phase \in {"lock", "fetch"},
         NEW k, DOMAIN k = Fields, k.open = tab[t].open, k.current = tab[t].current \/ (shared /\ k.current = last),
         tab' = [tab EXCEPT ![t] = T!Over(k)],
         UNCHANGED <<clock, shared, server, stored, inbox>>, lock' = IF lock = t THEN NoTab ELSE lock
  PROVE  TabsShape' /\ Shares(last)'
<1>1. tab[t].open /\ last \in Announced /\ DOMAIN tab[t] = Fields /\ lock \in Tab \cup {NoTab}
  BY WhoActs DEF Life, TabsShape
<1> PICK j : j = T!Over(k)
  OBVIOUS
<1>2. /\ DOMAIN j = Fields /\ j.open = tab[t].open /\ j.phase = "idle" /\ j.started = 0 /\ j.replaced = FALSE
      /\ j.current = k.current /\ j.since = 0 /\ j.answer = 0
  BY DEF Fields, T!Over
<1>3. \A u \in Tab : lock' = u <=> IF u = t THEN j.phase \in {"fetch", "answer"} ELSE lock = u
  BY <1>1, <1>2 DEF TabsAssumption
<1>4. lock' \in Tab \cup {NoTab}
  BY <1>1
<1>5. j.open = TRUE
  <2>1. tab[t].open \in BOOLEAN
    BY DEF Life, TabsShape
  <2> QED BY <1>1, <1>2, <2>1
<1>6. j.replaced \in BOOLEAN /\ j.since \in Int /\ j.started \in Nat /\ j.answer \in Nat
  <2>1. j.replaced \in BOOLEAN
    BY DEF Fields, T!Over
  <2>2. 0 \in Int /\ 0 \in Nat
    OBVIOUS
  <2> QED BY <1>2, <2>1, <2>2
<1>7. j.current = tab[t].current \/ (shared /\ j.current = last)
  BY <1>2
<1>8. /\ tab[t].phase # "answer" /\ j.phase # "answer" /\ j.phase # "lock" /\ j.phase # "fetch"
      /\ tab' = [tab EXCEPT ![t] = j]
  BY <1>1, <1>2
<1> QED BY <1>1, <1>2, <1>3, <1>4, <1>5, <1>6, <1>7, <1>8, OneTab DEF Life

LEMMA LifeAdopt ==
  ASSUME TabsAssumption, NEW last, Life(last), NEW t \in Tab, T!Adopt(t)
  PROVE  TabsShape' /\ Shares(last)'
<1>1. tab[t].phase = "lock" /\ lock = NoTab /\ UNCHANGED <<clock, shared, server, stored, inbox, lock>>
  BY DEF T!Adopt
<1>2. Hears(t, last) /\ last \in Announced /\ tab[t].current \in ASession
  BY <1>1, WhoActs DEF Life
<1>3. stored[t] = IF shared THEN last ELSE tab[t].current
  BY <1>2 DEF Hears
<1> PICK k : k = [tab[t] EXCEPT !.current = stored[t]]
  OBVIOUS
<1>4. DOMAIN k = Fields /\ k.open = tab[t].open /\ k.current = stored[t]
  BY DEF Life, TabsShape, Fields
<1>5. tab' = [tab EXCEPT ![t] = T!Over(k)]
  BY DEF T!Adopt, Life, TabsShape
<1>6. lock' = IF lock = t THEN NoTab ELSE lock
  BY <1>1
<1> QED BY <1>1, <1>3, <1>4, <1>5, <1>6, Idles

LEMMA LifeSkip ==
  ASSUME TabsAssumption, NEW last, Life(last), NEW t \in Tab, T!Skip(t) \/ T!Fail(t)
  PROVE  TabsShape' /\ Shares(last)'
<1>1. /\ tab[t].phase \in {"lock", "fetch"} /\ UNCHANGED <<clock, shared, server, stored, inbox>>
      /\ lock' = IF lock = t THEN NoTab ELSE lock
      /\ tab' = [tab EXCEPT ![t] = T!Over(tab[t])]
  BY DEF T!Skip, T!Fail, T!Leaves, TabsAssumption, Life, TabsShape
<1>2. DOMAIN tab[t] = Fields
  BY DEF Life, TabsShape
<1> QED BY <1>1, <1>2, Idles

LEMMA LifeFetch ==
  ASSUME TabsAssumption, NEW last, Life(last), NEW t \in Tab, T!Fetch(t)
  PROVE  TabsShape' /\ Shares(last)'
<1>1. /\ tab[t].open /\ last \in Announced /\ tab[t].current \in ASession /\ DOMAIN tab[t] = Fields
      /\ tab[t].phase = "lock" /\ lock = NoTab /\ lock' = t /\ Hears(t, last) /\ clock \in Nat
  BY WhoActs DEF T!Fetch, T!SignedIn, T!Enters, Life, TabsShape
<1> PICK j : j = [tab[t] EXCEPT !.phase = "fetch", !.started = tab[t].current.secret, !.since = clock]
  OBVIOUS
<1>2. /\ DOMAIN j = Fields /\ j.open = tab[t].open /\ j.phase = "fetch" /\ j.started = tab[t].current.secret
      /\ j.replaced = tab[t].replaced /\ j.current = tab[t].current /\ j.since = clock /\ j.answer = tab[t].answer
  BY <1>1 DEF Fields
<1>3. tab' = [tab EXCEPT ![t] = j] /\ UNCHANGED <<clock, shared, server, stored, inbox>>
  BY <1>1 DEF T!Fetch, TabsShape, Life, Fields
<1>4. ~Answering /\ \A u \in Tab : lock # u
  BY <1>1 DEF Answering, Life, Shares, TabsAssumption
<1>5. last.secret = server.secret /\ StillGood(t, last)
  BY <1>1, <1>4 DEF Life, Shares
<1>6. tab[t].current.fresh <= clock
  <2>1. ~(tab[t].replaced /\ T!Fresh(tab[t].current)) /\ tab[t].current.secret # 0
    BY DEF T!Fetch, T!SignedIn
  <2>2. tab[t].replaced \in BOOLEAN /\ (~tab[t].replaced => tab[t].current.fresh <= clock)
    BY <1>1 DEF Life, Shares, TabsShape
  <2>3. tab[t].current.fresh \in Int
    BY <1>1 DEF ASession
  <2> QED BY <1>1, <2>1, <2>2, <2>3 DEF T!Fresh
<1>7. Latency \in Nat /\ Access \in Nat /\ Latency < Access
  BY DEF TabsAssumption
<1>8. Asks(t, last)'
  <2>1. tab'[t] = j /\ j.since <= clock /\ clock <= j.since + Latency
    BY <1>1, <1>2, <1>3, <1>7 DEF Life, TabsShape
  <2>2. CASE tab[t].current = last
    BY <1>2, <1>3, <1>5, <2>1, <2>2 DEF Asks
  <2>3. CASE tab[t].current # last
    <3>1. tab[t].current.secret = server.previous /\ clock - server.rotatedAt <= Latency
      <4>1. tab[t].current.fresh \in Int
        BY <1>1 DEF ASession
      <4> QED BY <1>1, <1>5, <1>6, <2>3, <4>1 DEF StillGood
    <3>2. last.fresh = clock + Access
      BY <1>1, <2>3 DEF Hears, Waiting, Stored, Life, Shares, Waits
    <3>3. last.fresh > clock + Latency
      BY <1>1, <1>7, <3>2
    <3> QED BY <1>2, <1>3, <2>1, <3>1, <3>3 DEF Asks
  <2> QED BY <2>2, <2>3
<1>9. j.replaced \in BOOLEAN /\ j.since \in Int /\ j.started \in Nat /\ j.answer \in Nat
  BY <1>1, <1>2 DEF ASession, Life, TabsShape
<1>10. \A u \in Tab : lock' = u <=> IF u = t THEN j.phase \in {"fetch", "answer"} ELSE lock = u
  BY <1>1, <1>2, <1>4
<1>11. lock' \in Tab \cup {NoTab}
  BY <1>1
<1> QED BY <1>1, <1>2, <1>3, <1>8, <1>9, <1>10, <1>11, OneTab DEF Life

LEMMA LifeServe ==
  ASSUME TabsAssumption, NEW last, Life(last), NEW t \in Tab, T!Serve(t)
  PROVE  server'.revoked = "no" /\ DOMAIN server' = DOMAIN server /\ TabsShape' /\ Shares(last)'
<1>1. /\ tab[t].phase = "fetch" /\ UNCHANGED <<clock, shared, stored, inbox, lock>>
      /\ tab[t].open /\ last \in Announced /\ DOMAIN tab[t] = Fields
      /\ server.revoked = "no" /\ DOMAIN server = {"secret", "previous", "rotatedAt", "revoked"}
  BY WhoActs DEF T!Serve, Life, TabsShape
<1>2. /\ Asks(t, last) /\ lock = t
      /\ \A u \in Tab : u # t => tab[u].phase \notin {"fetch", "answer"}
  BY <1>1 DEF Life, Shares
<1>3. ~Answering
  BY <1>1, <1>2 DEF Answering
<1>4. last.secret = server.secret
  BY <1>3 DEF Life, Shares
<1>5. /\ clock \in Nat /\ tab[t].since \in Int /\ server.rotatedAt \in Int /\ Latency \in Nat /\ RefreshGrace \in Nat
      /\ Latency + Latency <= RefreshGrace /\ server.secret \in Nat /\ server.previous \in Nat /\ tab[t].started \in Nat
  BY DEF Life, TabsShape, TabsAssumption
<1>6. T!Accepted(tab[t].started)
  BY <1>2, <1>5 DEF Asks, T!Accepted
<1>7. /\ server' = T!Rotated(tab[t].started)
      /\ tab' = [tab EXCEPT ![t].phase = "answer", ![t].answer = server'.secret]
  BY <1>1, <1>6 DEF T!Serve
<1>8. /\ server'.secret = server.secret + 1 /\ server'.revoked = "no" /\ DOMAIN server' = DOMAIN server
      /\ server'.previous = IF tab[t].started = server.secret THEN tab[t].started ELSE server.previous
      /\ server'.rotatedAt = IF tab[t].started = server.secret THEN clock ELSE server.rotatedAt
  BY <1>1, <1>7 DEF T!Rotated
<1>9. /\ \A u \in Tab : u # t => tab'[u] = tab[u]
      /\ DOMAIN tab'[t] = Fields /\ tab'[t].phase = "answer" /\ tab'[t].answer = server'.secret
      /\ tab'[t].open = tab[t].open /\ tab'[t].current = tab[t].current /\ tab'[t].since = tab[t].since
      /\ tab'[t].started = tab[t].started /\ tab'[t].replaced = tab[t].replaced
      /\ tab' = [u \in Tab |-> tab'[u]]
  BY <1>1, <1>7 DEF Life, TabsShape, Fields
<1>10. TabsShape'
  <2>1. /\ server'.secret \in Nat /\ server'.previous \in Nat /\ server'.rotatedAt \in Int
    BY <1>5, <1>8
  <2>2. \A u \in Tab : /\ DOMAIN tab'[u] = Fields
                       /\ tab'[u].open \in BOOLEAN /\ tab'[u].replaced \in BOOLEAN
                       /\ tab'[u].current \in ASession /\ tab'[u].since \in Int
                       /\ tab'[u].started \in Nat /\ tab'[u].answer \in Nat
    <3> SUFFICES ASSUME NEW u \in Tab
                 PROVE  /\ DOMAIN tab'[u] = Fields
                        /\ tab'[u].open \in BOOLEAN /\ tab'[u].replaced \in BOOLEAN
                        /\ tab'[u].current \in ASession /\ tab'[u].since \in Int
                        /\ tab'[u].started \in Nat /\ tab'[u].answer \in Nat
      OBVIOUS
    <3>1. CASE u = t
      BY <1>9, <2>1, <3>1 DEF Life, TabsShape
    <3>2. CASE u # t
      BY <1>9, <3>2 DEF Life, TabsShape
    <3> QED BY <3>1, <3>2
  <2> QED BY <1>1, <1>8, <1>9, <2>1, <2>2 DEF Life, TabsShape
<1>11. Answering' /\ \A u \in Tab : u # t => tab'[u].phase \notin {"fetch", "answer"}
  BY <1>2, <1>9 DEF Answering
<1>12. Gets(t, last)'
  <2>1. /\ tab'[t].since <= clock' /\ clock' <= tab'[t].since + Latency
        /\ tab'[t].answer = server'.secret /\ last.secret + 1 = server'.secret
    BY <1>1, <1>2, <1>4, <1>8, <1>9 DEF Asks
  <2>2. CASE tab[t].started = server.secret
    BY <1>1, <1>4, <1>8, <1>9, <2>1, <2>2 DEF Gets
  <2>3. CASE tab[t].started # server.secret
    BY <1>2, <1>9, <2>1, <2>3 DEF Asks, Gets
  <2> QED BY <2>2, <2>3
<1>13. ASSUME NEW u \in Tab
       PROVE  (IF tab[u].open THEN Hears(u, last) ELSE tab[u] = T!Closed /\ inbox[u] = <<>>)'
  <2>1. IF tab[u].open THEN Hears(u, last) ELSE tab[u] = T!Closed /\ inbox[u] = <<>>
    BY DEF Life, Shares
  <2>2. CASE u = t
    BY <1>1, <1>9, <2>1, <2>2 DEF Hears, Waiting, Stored
  <2>3. CASE u # t
    BY <1>1, <1>9, <2>1, <2>3 DEF Hears, Waiting, Stored
  <2> QED BY <2>2, <2>3
<1>14. \A u \in Tab : tab'[u].phase = "lock" /\ ~tab'[u].replaced => tab'[u].current.fresh <= clock
  <2>1. \A u \in Tab : tab'[u].phase = "lock" => u # t
    BY <1>9
  <2> QED BY <1>9, <2>1 DEF Life, Shares
<1>15. \A u \in Tab : inbox'[u] # <<>> => last.fresh = clock' + Access
  BY <1>1 DEF Life, Shares, Waits
<1>16. \A u \in Tab : lock' = u <=> tab'[u].phase \in {"fetch", "answer"}
  BY <1>1, <1>2, <1>9, <1>11
<1>17. \A u \in Tab : tab'[u].phase = "answer" => u = t
  BY <1>11
<1>18. \A u \in Tab : tab'[u].phase # "fetch"
  BY <1>9, <1>11
<1> QED BY <1>1, <1>8, <1>10, <1>11, <1>12, <1>13, <1>14, <1>15, <1>16, <1>17, <1>18 DEF Shares, Waits

\* What is heard is the last session.
LEMMA Heard ==
  ASSUME NEW last, Life(last), NEW t \in Tab, T!Hear(t)
  PROVE  /\ UNCHANGED <<clock, shared, server, lock>> /\ inbox[t] # <<>> /\ shared' = shared
         /\ tab' = [tab EXCEPT ![t] = [tab[t] EXCEPT !.current = last, !.replaced = TRUE]]
         /\ stored' = [u \in Tab |-> stored'[u]] /\ stored'[t] = last
         /\ \A u \in Tab : u # t => stored'[u] = IF shared THEN last ELSE stored[u]
         /\ inbox' = [u \in Tab |-> IF u = t THEN Tail(inbox[t]) ELSE inbox[u]]
<1>1. inbox[t] # <<>> /\ UNCHANGED <<clock, shared, server, lock>>
  BY DEF T!Hear
<1>2. tab[t].open /\ Hears(t, last)
  BY <1>1, WhoActs
<1>3. inbox[t] \in {<<SetTo(last)>>, <<SetTo(last), Stored>>, <<Stored>>} /\ (inbox[t] = <<Stored>> => shared)
  BY <1>1, <1>2 DEF Hears, Waiting, Stored, SetTo
<1>4. stored[t] = IF shared THEN last ELSE tab[t].current
  BY <1>2 DEF Hears
<1>5. T!Apply(t, tab[t], last, FALSE)
  <2>1. CASE inbox[t] \in {<<SetTo(last)>>, <<SetTo(last), Stored>>}
    <3>1. Head(inbox[t]) = SetTo(last)
      BY <2>1
    <3>2. SetTo(last).type = "set" /\ SetTo(last).session = last
      BY DEF SetTo
    <3>3. tab[t].current.secret # 0
      BY <1>2 DEF Hears
    <3> QED BY <3>1, <3>2, <3>3 DEF T!Hear, T!SignedIn
  <2>2. CASE inbox[t] = <<Stored>>
    <3>1. Head(inbox[t]) = Stored /\ Stored.type = "storage" /\ stored[t] = last
      BY <1>3, <1>4, <2>2 DEF Stored
    <3> QED BY <3>1 DEF T!Hear
  <2> QED BY <1>3, <2>1, <2>2
<1>6. ~(shared /\ stored[t] # last)
  BY <1>4
<1>7. ASSUME NEW u \in Tab
      PROVE  LET old  == IF u = t /\ ~FALSE /\ inbox[u] # <<>> THEN Tail(inbox[u]) ELSE inbox[u]
                 told == (IF FALSE THEN T!Tell(t, last) ELSE <<>>)
                           \o (IF shared /\ stored[t] # last THEN <<[type |-> "storage", session |-> T!NoSession]>> ELSE <<>>)
             IN (IF u \in T!Siblings(t) THEN old \o told ELSE old) = IF u = t THEN Tail(inbox[t]) ELSE inbox[u]
  <2>1. CASE u = t
    BY <1>1, <2>1 DEF T!Siblings
  <2>2. CASE u # t
    <3>1. inbox[u] \in {<<>>, <<SetTo(last)>>, <<SetTo(last), Stored>>, <<Stored>>}
      BY DEF Life, Shares, Hears, Waiting
    <3>2. <<>> \o <<>> = <<>> /\ inbox[u] \o <<>> = inbox[u]
      BY <3>1, Joined
    <3> QED BY <1>6, <2>2, <3>2
  <2> QED BY <2>1, <2>2
<1>8. /\ tab' = [tab EXCEPT ![t] = [tab[t] EXCEPT !.current = last, !.replaced = TRUE]]
      /\ stored' = [u \in Tab |-> IF shared \/ u = t THEN last ELSE stored[u]]
  BY <1>5 DEF T!Apply
<1>9. inbox' = [u \in Tab |-> IF u = t THEN Tail(inbox[t]) ELSE inbox[u]]
  BY <1>5, <1>7 DEF T!Apply
<1>10. /\ stored' = [u \in Tab |-> stored'[u]] /\ stored'[t] = last
       /\ \A u \in Tab : u # t => stored'[u] = IF shared THEN last ELSE stored[u]
  BY <1>8
<1> QED BY <1>1, <1>8, <1>9, <1>10

LEMMA LifeHear ==
  ASSUME TabsAssumption, NEW last, Life(last), NEW t \in Tab, T!Hear(t)
  PROVE  TabsShape' /\ Shares(last)'
<1>0. /\ tab' = [tab EXCEPT ![t] = [tab[t] EXCEPT !.current = last, !.replaced = TRUE]]
      /\ stored' = [u \in Tab |-> stored'[u]] /\ stored'[t] = last
      /\ \A u \in Tab : u # t => stored'[u] = IF shared THEN last ELSE stored[u]
      /\ inbox' = [u \in Tab |-> IF u = t THEN Tail(inbox[t]) ELSE inbox[u]]
  <2>1. tab' = [tab EXCEPT ![t] = [tab[t] EXCEPT !.current = last, !.replaced = TRUE]]
    BY Heard, Zenon
  <2>2. /\ stored' = [u \in Tab |-> stored'[u]] /\ stored'[t] = last
        /\ \A u \in Tab : u # t => stored'[u] = IF shared THEN last ELSE stored[u]
    BY Heard, Zenon
  <2>3. inbox' = [u \in Tab |-> IF u = t THEN Tail(inbox[t]) ELSE inbox[u]]
    BY Heard, Zenon
  <2> QED BY <2>1, <2>2, <2>3
<1>1. /\ tab[t].open /\ Hears(t, last) /\ last \in Announced /\ DOMAIN tab[t] = Fields /\ inbox[t] # <<>>
      /\ UNCHANGED <<clock, shared, server, lock>>
  BY WhoActs, Heard DEF Life
<1>2. /\ \A u \in Tab : u # t => tab'[u] = tab[u] /\ inbox'[u] = inbox[u] /\ stored'[u] = IF shared THEN last ELSE stored[u]
      /\ stored'[t] = last /\ inbox'[t] = Tail(inbox[t])
      /\ tab' = [u \in Tab |-> tab'[u]] /\ stored' = [u \in Tab |-> stored'[u]] /\ inbox' = [u \in Tab |-> inbox'[u]]
  BY <1>0 DEF Life, TabsShape
<1>3. /\ DOMAIN tab'[t] = Fields /\ tab'[t].open = tab[t].open /\ tab'[t].current = last /\ tab'[t].replaced = TRUE
      /\ tab'[t].phase = tab[t].phase /\ tab'[t].started = tab[t].started /\ tab'[t].since = tab[t].since
      /\ tab'[t].answer = tab[t].answer
  BY <1>1, <1>0 DEF Life, TabsShape, Fields
<1>4. TabsShape'
  <2>1. \A u \in Tab : /\ DOMAIN tab'[u] = Fields
                       /\ tab'[u].open \in BOOLEAN /\ tab'[u].replaced \in BOOLEAN
                       /\ tab'[u].current \in ASession /\ tab'[u].since \in Int
                       /\ tab'[u].started \in Nat /\ tab'[u].answer \in Nat
    <3> SUFFICES ASSUME NEW u \in Tab
                 PROVE  /\ DOMAIN tab'[u] = Fields
                        /\ tab'[u].open \in BOOLEAN /\ tab'[u].replaced \in BOOLEAN
                        /\ tab'[u].current \in ASession /\ tab'[u].since \in Int
                        /\ tab'[u].started \in Nat /\ tab'[u].answer \in Nat
      OBVIOUS
    <3>1. CASE u = t
      BY <1>1, <1>3, <3>1 DEF Life, TabsShape, Announced, ASession
    <3>2. CASE u # t
      BY <1>2, <3>2 DEF Life, TabsShape
    <3> QED BY <3>1, <3>2
  <2> QED BY <1>1, <1>2, <2>1 DEF Life, TabsShape
<1>5. inbox[t] \in {<<SetTo(last)>>, <<SetTo(last), Stored>>, <<Stored>>} /\ (inbox[t] # <<SetTo(last)>> => shared)
  BY <1>1 DEF Hears, Waiting
<1>6. inbox'[t] = <<>> \/ (shared /\ inbox'[t] = <<Stored>>)
  <2>1. Tail(<<SetTo(last)>>) = <<>> /\ Tail(<<Stored>>) = <<>> /\ Tail(<<SetTo(last), Stored>>) = <<Stored>>
    OBVIOUS
  <2>2. CASE inbox[t] = <<SetTo(last), Stored>>
    <3>1. <<SetTo(last), Stored>> # <<SetTo(last)>>
      OBVIOUS
    <3> QED BY <1>2, <1>5, <2>1, <2>2, <3>1
  <2>3. CASE inbox[t] # <<SetTo(last), Stored>>
    BY <1>2, <1>5, <2>1, <2>3
  <2> QED BY <2>2, <2>3
<1>7. ASSUME NEW u \in Tab
      PROVE  (IF tab[u].open THEN Hears(u, last) ELSE tab[u] = T!Closed /\ inbox[u] = <<>>)'
  <2>1. IF tab[u].open THEN Hears(u, last) ELSE tab[u] = T!Closed /\ inbox[u] = <<>>
    BY DEF Life, Shares
  <2>2. CASE u = t
    <3>1. tab'[u].current = last /\ last.secret # 0 /\ stored'[u] = last /\ tab'[u].open
      BY <1>1, <1>2, <1>3, <2>2 DEF Announced
    <3>2. inbox'[u] \in Waiting(last)'
      BY <1>1, <1>6, <2>2 DEF Waiting, Stored
    <3> QED BY <3>1, <3>2 DEF Hears
  <2>3. CASE u # t
    <3>1. tab'[u] = tab[u] /\ inbox'[u] = inbox[u] /\ shared' = shared
      BY <1>1, <1>2, <2>3
    <3>2. CASE tab[u].open
      <4>1. stored'[u] = stored[u]
        BY <1>2, <2>1, <2>3, <3>2 DEF Hears
      <4> QED BY <2>1, <3>1, <3>2, <4>1 DEF Hears, Waiting, Stored
    <3>3. CASE ~tab[u].open
      BY <2>1, <3>1, <3>3
    <3> QED BY <3>2, <3>3
  <2> QED BY <2>2, <2>3
<1>8. \A u \in Tab : tab'[u].phase = tab[u].phase /\ tab'[u].since = tab[u].since /\ tab'[u].started = tab[u].started
                     /\ tab'[u].answer = tab[u].answer /\ tab'[u].open = tab[u].open
  BY <1>2, <1>3
<1>9. Answering' <=> Answering
  BY <1>8 DEF Answering
<1>10. ASSUME ~Answering, NEW u \in Tab, tab'[u].open PROVE StillGood(u, last)'
  <2>1. CASE u = t
    BY <1>3, <2>1 DEF StillGood
  <2>2. CASE u # t
    <3>1. StillGood(u, last)
      BY <1>8, <1>10 DEF Life, Shares
    <3> QED BY <1>1, <1>2, <2>2, <3>1 DEF StillGood
  <2> QED BY <2>1, <2>2
<1>11. \A u \in Tab : tab'[u].phase = "lock" /\ ~tab'[u].replaced => tab'[u].current.fresh <= clock
  BY <1>2, <1>3 DEF Life, Shares
<1>12. ASSUME NEW u \in Tab, tab'[u].phase = "fetch" PROVE Asks(u, last)'
  BY <1>1, <1>8, <1>12 DEF Life, Shares, Asks
<1>13. ASSUME NEW u \in Tab, tab'[u].phase = "answer" PROVE Gets(u, last)'
  BY <1>1, <1>8, <1>13 DEF Life, Shares, Gets
<1>14. last.fresh = clock + Access
  BY <1>1 DEF Life, Shares, Waits
<1>15. \A u \in Tab : lock' = u <=> tab'[u].phase \in {"fetch", "answer"}
  BY <1>1, <1>8 DEF Life, Shares
<1>16. ~Answering' => last.secret = server'.secret
  BY <1>1, <1>9 DEF Life, Shares
<1> QED BY <1>1, <1>4, <1>7, <1>9, <1>10, <1>11, <1>12, <1>13, <1>14, <1>15, <1>16 DEF Shares, Waits

LEMMA LifeTick ==
  ASSUME TabsAssumption, NEW last, Life(last), T!Tick
  PROVE  TabsShape' /\ Shares(last)'
<1>1. /\ UNCHANGED <<shared, server, tab, stored, inbox, lock>> /\ clock' = clock + 1 /\ clock \in Nat
      /\ \A t \in Tab : inbox[t] = <<>> /\ (lock = t => clock < tab[t].since + Latency)
      /\ last \in Announced
  BY DEF T!Tick, Life, TabsShape
<1>2. TabsShape'
  BY <1>1 DEF Life, TabsShape
<1>3. ASSUME NEW t \in Tab
      PROVE  (IF tab[t].open THEN Hears(t, last) ELSE tab[t] = T!Closed /\ inbox[t] = <<>>)'
  BY <1>1 DEF Life, Shares, Hears, Waiting, Stored
<1>4. ASSUME NEW t \in Tab, tab[t].open PROVE StillGood(t, last)'
  BY <1>1, <1>4 DEF Life, Shares, Hears, StillGood
<1>5. ASSUME NEW t \in Tab, tab[t].phase = "fetch" PROVE Asks(t, last)'
  <2>1. Asks(t, last) /\ lock = t /\ tab[t].since \in Int /\ Latency \in Nat
    BY <1>5 DEF Life, Shares, TabsShape, TabsAssumption
  <2>2. tab[t].since <= clock' /\ clock' <= tab[t].since + Latency
    BY <1>1, <2>1 DEF Asks
  <2> QED BY <1>1, <2>1, <2>2 DEF Asks
<1>6. ASSUME NEW t \in Tab, tab[t].phase = "answer" PROVE Gets(t, last)'
  <2>1. Gets(t, last) /\ lock = t /\ tab[t].since \in Int /\ Latency \in Nat
    BY <1>6 DEF Life, Shares, TabsShape, TabsAssumption
  <2>2. tab[t].since <= clock' /\ clock' <= tab[t].since + Latency
    BY <1>1, <2>1 DEF Gets
  <2> QED BY <1>1, <2>1, <2>2 DEF Gets
<1>7. \A t \in Tab : tab[t].phase = "lock" /\ ~tab[t].replaced => tab[t].current.fresh <= clock'
  <2>1. \A t \in Tab : tab[t].current.fresh \in Int
    BY DEF Life, TabsShape, ASession
  <2> QED BY <1>1, <2>1 DEF Life, Shares
<1>8. Answering' <=> Answering
  BY <1>1 DEF Answering
<1> QED BY <1>1, <1>2, <1>3, <1>4, <1>5, <1>6, <1>7, <1>8 DEF Life, Shares, Waits

LEMMA LifeOpen ==
  ASSUME TabsAssumption, NEW last, Life(last), NEW t \in Tab, NEW u \in Tab, T!Open(t, u)
  PROVE  TabsShape' /\ Shares(last)'
<1>1. /\ tab[t].open /\ ~tab[u].open /\ inbox[t] = <<>> /\ UNCHANGED <<clock, shared, server, inbox, lock>>
      /\ last \in Announced
  BY DEF T!Open, Life
<1>2. /\ Hears(t, last) /\ tab[u] = T!Closed /\ inbox[u] = <<>>
  BY <1>1 DEF Life, Shares
<1>3. stored[t] = last /\ last.secret # 0
  BY <1>1, <1>2 DEF Hears, Announced
<1> PICK j : j = [T!Closed EXCEPT !.open = TRUE, !.current = last]
  OBVIOUS
<1>4. /\ DOMAIN j = Fields /\ j.open = TRUE /\ j.current = last /\ j.phase = "idle" /\ j.started = 0 /\ j.since = 0
      /\ j.replaced = FALSE /\ j.answer = 0
  BY ClosedIs DEF Fields
<1>5. /\ tab' = [tab EXCEPT ![u] = j] /\ stored' = [stored EXCEPT ![u] = last]
  BY <1>3 DEF T!Open
<1>6. /\ \A v \in Tab : v # u => tab'[v] = tab[v] /\ stored'[v] = stored[v]
      /\ tab'[u] = j /\ stored'[u] = last
      /\ tab' = [v \in Tab |-> tab'[v]] /\ stored' = [v \in Tab |-> stored'[v]]
  BY <1>5 DEF Life, TabsShape
<1>7. TabsShape'
  <2>1. j.open \in BOOLEAN /\ j.replaced \in BOOLEAN
    BY ClosedIs DEF Fields
  <2>2. j.current \in ASession /\ j.since \in Int /\ j.started \in Nat /\ j.answer \in Nat
    BY <1>1, <1>4 DEF Announced, ASession
  <2>3. \A v \in Tab : /\ DOMAIN tab'[v] = Fields
                       /\ tab'[v].open \in BOOLEAN /\ tab'[v].replaced \in BOOLEAN
                       /\ tab'[v].current \in ASession /\ tab'[v].since \in Int
                       /\ tab'[v].started \in Nat /\ tab'[v].answer \in Nat
    BY <1>4, <1>6, <2>1, <2>2 DEF Life, TabsShape
  <2> QED BY <1>1, <1>6, <2>3 DEF Life, TabsShape
<1>8. tab[u].phase = "idle" /\ tab'[u].phase = "idle"
  BY <1>2, <1>4, <1>6, ClosedIs
<1>9. \A v \in Tab : tab'[v].phase = tab[v].phase /\ (tab'[v].phase # "idle" => tab'[v] = tab[v])
  BY <1>6, <1>8
<1>10. ASSUME NEW v \in Tab
       PROVE  (IF tab[v].open THEN Hears(v, last) ELSE tab[v] = T!Closed /\ inbox[v] = <<>>)'
  <2>1. CASE v = u
    BY <1>1, <1>2, <1>3, <1>4, <1>6, <2>1 DEF Hears, Waiting
  <2>2. CASE v # u
    <3>1. IF tab[v].open THEN Hears(v, last) ELSE tab[v] = T!Closed /\ inbox[v] = <<>>
      BY DEF Life, Shares
    <3> QED BY <1>1, <1>6, <2>2, <3>1 DEF Hears, Waiting, Stored
  <2> QED BY <2>1, <2>2
<1>11. Answering' <=> Answering
  BY <1>9 DEF Answering
<1>12. ASSUME ~Answering, NEW v \in Tab, tab'[v].open PROVE StillGood(v, last)'
  <2>1. CASE v = u
    BY <1>4, <1>6, <2>1 DEF StillGood
  <2>2. CASE v # u
    <3>1. StillGood(v, last)
      BY <1>6, <1>12, <2>2 DEF Life, Shares
    <3> QED BY <1>1, <1>6, <2>2, <3>1 DEF StillGood
  <2> QED BY <2>1, <2>2
<1>13. \A v \in Tab : tab'[v].phase = "lock" /\ ~tab'[v].replaced => tab'[v].current.fresh <= clock
  <2>1. \A v \in Tab : tab'[v].phase = "lock" => tab'[v] = tab[v]
    BY <1>9
  <2> QED BY <2>1 DEF Life, Shares
<1>14. ASSUME NEW v \in Tab, tab'[v].phase = "fetch" PROVE Asks(v, last)'
  <2>1. tab'[v] = tab[v]
    BY <1>9, <1>14
  <2>2. Asks(v, last)
    BY <1>14, <2>1 DEF Life, Shares
  <2> QED BY <1>1, <2>1, <2>2 DEF Asks
<1>15. ASSUME NEW v \in Tab, tab'[v].phase = "answer" PROVE Gets(v, last)'
  <2>1. tab'[v] = tab[v]
    BY <1>9, <1>15
  <2>2. Gets(v, last)
    BY <1>15, <2>1 DEF Life, Shares
  <2> QED BY <1>1, <2>1, <2>2 DEF Gets
<1>16. \A v \in Tab : lock' = v <=> tab'[v].phase \in {"fetch", "answer"}
  BY <1>1, <1>9 DEF Life, Shares
<1>17. \A v \in Tab : inbox'[v] # <<>> => last.fresh = clock' + Access
  BY <1>1 DEF Life, Shares, Waits
<1> QED BY <1>1, <1>7, <1>10, <1>11, <1>12, <1>13, <1>14, <1>15, <1>16, <1>17 DEF Life, Shares, Waits

\* The answer of a refresh is what the others are told.
Got(t) == [secret |-> tab[t].answer, fresh |-> clock + Access]
LEMMA Informed ==
  ASSUME NEW last, Life(last), NEW t \in Tab, T!Answer(t), tab[t].answer # 0,
         Got(t) # last
  PROVE  /\ tab' = [tab EXCEPT ![t] = [T!Over(tab[t]) EXCEPT !.current = Got(t), !.replaced = TRUE]]
         /\ stored' = [u \in Tab |-> stored'[u]] /\ stored'[t] = Got(t)
         /\ \A u \in Tab : u # t => stored'[u] = IF shared THEN Got(t) ELSE stored[u]
         /\ inbox' = [u \in Tab |-> IF u \notin T!Siblings(t) THEN <<>>
                                    ELSE IF shared THEN <<SetTo(Got(t)), Stored>> ELSE <<SetTo(Got(t))>>]
<1>1. \A u \in Tab : inbox[u] = <<>>
  BY DEF T!Answer
<1>2. T!Apply(t, T!Over(tab[t]), Got(t), TRUE)
  BY DEF T!Answer, Got
<1>3. shared => stored[t] # Got(t)
  <2>1. tab[t].phase = "answer"
    BY DEF T!Answer
  <2>2. Hears(t, last)
    BY <2>1, WhoActs
  <2> QED BY <2>2 DEF Hears
<1>4. T!Tell(t, Got(t)) = <<SetTo(Got(t))>>
  BY DEF T!Tell, SetTo, Got
<1>5. ASSUME NEW u \in Tab
      PROVE  LET old  == IF u = t /\ ~TRUE /\ inbox[u] # <<>> THEN Tail(inbox[u]) ELSE inbox[u]
                 told == (IF TRUE THEN T!Tell(t, Got(t)) ELSE <<>>)
                           \o (IF shared /\ stored[t] # Got(t) THEN <<[type |-> "storage", session |-> T!NoSession]>> ELSE <<>>)
             IN (IF u \in T!Siblings(t) THEN old \o told ELSE old)
                  = IF u \notin T!Siblings(t) THEN <<>> ELSE IF shared THEN <<SetTo(Got(t)), Stored>> ELSE <<SetTo(Got(t))>>
  <2>1. CASE u \notin T!Siblings(t)
    BY <1>1, <2>1
  <2>2. CASE u \in T!Siblings(t) /\ shared
    <3>1. <<SetTo(Got(t))>> \o <<Stored>> = <<SetTo(Got(t)), Stored>> /\ <<>> \o <<SetTo(Got(t)), Stored>> = <<SetTo(Got(t)), Stored>>
      BY Joined
    <3> QED BY <1>1, <1>3, <1>4, <2>2, <3>1 DEF Stored
  <2>3. CASE u \in T!Siblings(t) /\ ~shared
    <3>1. <<SetTo(Got(t))>> \o <<>> = <<SetTo(Got(t))>> /\ <<>> \o <<SetTo(Got(t))>> = <<SetTo(Got(t))>>
      BY Joined
    <3> QED BY <1>1, <1>4, <2>3, <3>1
  <2> QED BY <2>1, <2>2, <2>3
<1>6. stored' = [u \in Tab |-> IF shared \/ u = t THEN Got(t) ELSE stored[u]]
  BY <1>2 DEF T!Apply
<1>7. /\ stored' = [u \in Tab |-> stored'[u]] /\ stored'[t] = Got(t)
      /\ \A u \in Tab : u # t => stored'[u] = IF shared THEN Got(t) ELSE stored[u]
  BY <1>6
<1> QED BY <1>2, <1>5, <1>7 DEF T!Apply

\* What is answered is the last session from now on.
LEMMA LifeAnswer ==
  ASSUME TabsAssumption, NEW last, Life(last), NEW t \in Tab, T!Answer(t)
  PROVE  TabsShape' /\ \E new \in Announced : Shares(new)'
<1>1. /\ tab[t].phase = "answer" /\ tab[t].open /\ last \in Announced /\ DOMAIN tab[t] = Fields
      /\ Hears(t, last) /\ UNCHANGED <<clock, shared, server>>
      /\ \A u \in Tab : inbox[u] = <<>>
  BY WhoActs DEF T!Answer, Life
<1>2. /\ Gets(t, last) /\ lock = t
      /\ \A u \in Tab : u # t => tab[u].phase \notin {"fetch", "answer"}
  BY <1>1 DEF Life, Shares
<1>3. /\ clock \in Nat /\ shared \in BOOLEAN /\ tab[t].since \in Int /\ server.rotatedAt \in Int /\ Latency \in Nat
      /\ Access \in Nat /\ server.secret \in Nat /\ last.secret \in Nat /\ last.fresh \in Int
  BY <1>1 DEF Life, TabsShape, TabsAssumption, Announced
<1>4. tab[t].answer = server.secret /\ last.secret + 1 = server.secret
  BY <1>2 DEF Gets
<1> PICK new : new = Got(t)
  OBVIOUS
<1>5. /\ new \in Announced /\ new \in ASession /\ new.secret = server.secret /\ new.fresh = clock + Access
      /\ new.secret # 0 /\ new # last
  BY <1>3, <1>4 DEF Got, Announced, ASession
<1>6. tab[t].answer # 0
  BY <1>3, <1>4
<1>7. /\ tab' = [tab EXCEPT ![t] = [T!Over(tab[t]) EXCEPT !.current = new, !.replaced = TRUE]]
      /\ stored' = [u \in Tab |-> stored'[u]] /\ stored'[t] = new
      /\ \A u \in Tab : u # t => stored'[u] = IF shared THEN new ELSE stored[u]
      /\ inbox' = [u \in Tab |-> IF u \notin T!Siblings(t) THEN <<>>
                                 ELSE IF shared THEN <<SetTo(new), Stored>> ELSE <<SetTo(new)>>]
  <2>1. Got(t) # last
    BY <1>5
  <2> QED BY <1>6, <2>1, Informed, Zenon
<1>8. /\ \A u \in Tab : u # t => tab'[u] = tab[u]
      /\ DOMAIN tab'[t] = Fields /\ tab'[t].open = tab[t].open /\ tab'[t].current = new /\ tab'[t].replaced = TRUE
      /\ tab'[t].phase = "idle" /\ tab'[t].started = 0 /\ tab'[t].since = 0 /\ tab'[t].answer = 0
      /\ tab' = [u \in Tab |-> tab'[u]] /\ inbox' = [u \in Tab |-> inbox'[u]]
  BY <1>1, <1>7 DEF Life, TabsShape, Fields, T!Over
<1>9. lock' = NoTab
  BY <1>2 DEF T!Answer, T!Leaves
<1>10. TabsShape'
  <2>1. \A u \in Tab : /\ DOMAIN tab'[u] = Fields
                       /\ tab'[u].open \in BOOLEAN /\ tab'[u].replaced \in BOOLEAN
                       /\ tab'[u].current \in ASession /\ tab'[u].since \in Int
                       /\ tab'[u].started \in Nat /\ tab'[u].answer \in Nat
    <3> SUFFICES ASSUME NEW u \in Tab
                 PROVE  /\ DOMAIN tab'[u] = Fields
                        /\ tab'[u].open \in BOOLEAN /\ tab'[u].replaced \in BOOLEAN
                        /\ tab'[u].current \in ASession /\ tab'[u].since \in Int
                        /\ tab'[u].started \in Nat /\ tab'[u].answer \in Nat
      OBVIOUS
    <3>1. CASE u = t
      <4>1. tab'[t].open \in BOOLEAN /\ tab'[t].replaced \in BOOLEAN
        BY <1>8 DEF Life, TabsShape
      <4>2. tab'[t].current \in ASession /\ tab'[t].since \in Int /\ tab'[t].started \in Nat /\ tab'[t].answer \in Nat
        BY <1>5, <1>8
      <4> QED BY <1>8, <3>1, <4>1, <4>2
    <3>2. CASE u # t
      BY <1>8, <3>2 DEF Life, TabsShape
    <3> QED BY <3>1, <3>2
  <2> QED BY <1>1, <1>7, <1>8, <1>9, <2>1 DEF Life, TabsShape
<1>11. \A u \in Tab : tab'[u].phase \notin {"fetch", "answer"}
  BY <1>2, <1>8
<1>12. ASSUME NEW u \in Tab
       PROVE  (IF tab[u].open THEN Hears(u, new) ELSE tab[u] = T!Closed /\ inbox[u] = <<>>)'
  <2>1. IF tab[u].open THEN Hears(u, last) ELSE tab[u] = T!Closed /\ inbox[u] = <<>>
    BY DEF Life, Shares
  <2>2. CASE u = t
    <3>1. t \notin T!Siblings(t)
      BY DEF T!Siblings
    <3>2. inbox'[u] = <<>>
      BY <1>7, <2>2, <3>1
    <3> QED BY <1>1, <1>5, <1>7, <1>8, <2>2, <3>2 DEF Hears, Waiting
  <2>3. CASE u # t /\ tab[u].open
    <3>1. u \in T!Siblings(t)
      BY <2>3 DEF T!Siblings
    <3>2. inbox'[u] = IF shared THEN <<SetTo(new), Stored>> ELSE <<SetTo(new)>>
      BY <1>7, <3>1
    <3>3. inbox'[u] \in Waiting(new)' /\ inbox'[u] \notin {<<>>, <<Stored>>}
      <4>1. /\ <<SetTo(new)>> # <<>> /\ <<SetTo(new), Stored>> # <<>> /\ <<SetTo(new), Stored>> # <<Stored>>
            /\ (<<SetTo(new)>> = <<Stored>> => SetTo(new) = Stored)
        OBVIOUS
      <4>2. SetTo(new) # Stored
        BY DEF SetTo, Stored
      <4> QED BY <1>1, <3>2, <4>1, <4>2 DEF Waiting
    <3>4. tab'[u] = tab[u] /\ stored'[u] = IF shared THEN new ELSE tab[u].current
      BY <1>7, <1>8, <2>1, <2>3 DEF Hears
    <3> QED BY <1>1, <2>1, <2>3, <3>3, <3>4 DEF Hears, Stored
  <2>4. CASE u # t /\ ~tab[u].open
    <3>1. u \notin T!Siblings(t)
      BY <2>4 DEF T!Siblings
    <3> QED BY <1>7, <1>8, <2>1, <2>4, <3>1
  <2> QED BY <2>2, <2>3, <2>4
<1>13. ASSUME NEW u \in Tab, tab'[u].open PROVE StillGood(u, new)'
  <2>1. CASE u = t
    BY <1>8, <2>1 DEF StillGood
  <2>2. CASE u # t
    <3>1. tab'[u].current = last
      BY <1>1, <1>8, <1>13, <2>2 DEF Life, Shares, Hears
    <3>2. \/ last.secret = server.previous /\ clock - server.rotatedAt <= Latency
          \/ last.fresh > clock
      BY <1>2, <1>3 DEF Gets
    <3> QED BY <1>1, <3>1, <3>2 DEF StillGood
  <2> QED BY <2>1, <2>2
<1>14. \A u \in Tab : tab'[u].phase = "lock" /\ ~tab'[u].replaced => tab'[u].current.fresh <= clock'
  BY <1>1, <1>8 DEF Life, Shares
<1>15. \A u \in Tab : lock' = u <=> tab'[u].phase \in {"fetch", "answer"}
  BY <1>9, <1>11 DEF TabsAssumption
<1>16. Shares(new)'
  BY <1>1, <1>5, <1>11, <1>12, <1>13, <1>14, <1>15 DEF Shares, Waits
<1> QED BY <1>5, <1>10, <1>16

LEMMA TabsInitially == TabsAssumption /\ T!Init => TabsInv
<1> SUFFICES ASSUME TabsAssumption, T!Init PROVE TabsInv
  OBVIOUS
<1>1. /\ server = [secret |-> 1, previous |-> 0, rotatedAt |-> 0, revoked |-> "no"]
      /\ clock = 0 /\ shared \in BOOLEAN /\ inbox = [u \in Tab |-> <<>>] /\ lock = NoTab /\ Access \in Nat
  BY DEF T!Init, TabsAssumption
<1> PICK t \in Tab :
      /\ tab = [u \in Tab |-> IF u = t THEN [T!Closed EXCEPT !.open = TRUE, !.current = T!First] ELSE T!Closed]
      /\ stored = [u \in Tab |-> IF shared \/ u = t THEN T!First ELSE T!NoSession]
  BY DEF T!Init
<1> PICK j : j = [T!Closed EXCEPT !.open = TRUE, !.current = T!First]
  OBVIOUS
<1>2. T!First \in Announced /\ T!First \in ASession /\ T!First.secret = 1 /\ T!First.fresh = Access
  BY <1>1 DEF T!First, Announced, ASession
<1>3. /\ DOMAIN j = Fields /\ j.open = TRUE /\ j.current = T!First /\ j.phase = "idle" /\ j.started = 0 /\ j.since = 0
      /\ j.replaced = FALSE /\ j.answer = 0
  BY ClosedIs DEF Fields
<1>4. tab[t] = j /\ stored[t] = T!First /\ \A u \in Tab : u # t => tab[u] = T!Closed
  OBVIOUS
<1>5. \A u \in Tab : tab[u].phase = "idle"
  BY <1>3, <1>4, ClosedIs
<1>6. TabsShape
  <2>1. \A u \in Tab : /\ DOMAIN tab[u] = Fields
                       /\ tab[u].open \in BOOLEAN /\ tab[u].replaced \in BOOLEAN
                       /\ tab[u].current \in ASession /\ tab[u].since \in Int
                       /\ tab[u].started \in Nat /\ tab[u].answer \in Nat
    <3>1. j.open \in BOOLEAN /\ j.replaced \in BOOLEAN /\ T!Closed.open \in BOOLEAN /\ T!Closed.replaced \in BOOLEAN
      BY ClosedIs DEF Fields
    <3>2. /\ j.current \in ASession /\ j.since \in Int /\ j.started \in Nat /\ j.answer \in Nat
          /\ T!Closed.current \in ASession /\ T!Closed.since \in Int /\ T!Closed.started \in Nat /\ T!Closed.answer \in Nat
      BY <1>2, <1>3, ClosedIs
    <3> QED BY <1>3, <1>4, <3>1, <3>2, ClosedIs
  <2>2. server.secret \in Nat /\ server.previous \in Nat /\ server.rotatedAt \in Int
        /\ DOMAIN server = {"secret", "previous", "rotatedAt", "revoked"}
    BY <1>1
  <2> QED BY <1>1, <2>1, <2>2 DEF TabsShape
<1>7. ASSUME NEW u \in Tab
      PROVE  IF tab[u].open THEN Hears(u, T!First) ELSE tab[u] = T!Closed /\ inbox[u] = <<>>
  <2>1. CASE u = t
    <3>1. inbox[t] = <<>> /\ T!First.secret # 0
      BY <1>1, <1>2
    <3>3. tab[t].open /\ tab[t].current = T!First
      BY <1>3, <1>4
    <3>2. inbox[t] \in Waiting(T!First)
      BY <3>1 DEF Waiting
    <3> QED BY <1>4, <2>1, <3>1, <3>2, <3>3 DEF Hears
  <2>2. CASE u # t
    BY <1>1, <1>4, <2>2, ClosedIs
  <2> QED BY <2>1, <2>2
<1>8. \A u \in Tab : tab[u].open => tab[u].current = T!First
  BY <1>3, <1>4, ClosedIs
<1>9. Shares(T!First)
  BY <1>1, <1>2, <1>5, <1>7, <1>8 DEF Shares, StillGood, Waits, Answering, TabsAssumption
<1> QED BY <1>1, <1>2, <1>6, <1>9 DEF TabsInv

\* The invariant is kept by every step.
LEMMA TabsNext == TabsAssumption /\ TabsInv /\ [T!Next]_T!vars => TabsInv'
<1> SUFFICES ASSUME TabsAssumption, TabsInv, [T!Next]_T!vars PROVE TabsInv'
  OBVIOUS
<1>1. CASE server.revoked # "no"
  BY <1>1, EndedStays DEF TabsInv
<1>2. CASE server.revoked = "no"
  <2> PICK last \in Announced : Shares(last)
    BY <1>2 DEF TabsInv
  <2>1. Life(last) /\ DOMAIN server = {"secret", "previous", "rotatedAt", "revoked"}
    BY <1>2 DEF TabsInv, Life
  <2>2. ASSUME NEW new \in Announced, TabsShape', Shares(new)', UNCHANGED server PROVE TabsInv'
    BY <1>2, <2>1, <2>2 DEF TabsInv
  <2>3. ASSUME NEW t \in Tab, T!Hear(t) PROVE TabsInv'
    BY <2>1, <2>2, <2>3, LifeHear DEF T!Hear
  <2>4. ASSUME NEW t \in Tab, T!Refresh(t) PROVE TabsInv'
    BY <2>1, <2>2, <2>4, LifeRefresh DEF T!Refresh
  <2>5. ASSUME NEW t \in Tab, T!Adopt(t) PROVE TabsInv'
    BY <2>1, <2>2, <2>5, LifeAdopt DEF T!Adopt
  <2>6. ASSUME NEW t \in Tab, T!Skip(t) \/ T!Fail(t) PROVE TabsInv'
    BY <2>1, <2>2, <2>6, LifeSkip DEF T!Skip, T!Fail
  <2>7. ASSUME NEW t \in Tab, T!Fetch(t) PROVE TabsInv'
    BY <2>1, <2>2, <2>7, LifeFetch DEF T!Fetch
  <2>8. ASSUME NEW t \in Tab, T!Serve(t) PROVE TabsInv'
    BY <2>1, <2>8, LifeServe DEF TabsInv
  <2>9. ASSUME NEW t \in Tab, T!Answer(t) PROVE TabsInv'
    BY <2>1, <2>2, <2>9, LifeAnswer DEF T!Answer
  <2>10. ASSUME NEW t \in Tab, T!SignOut(t) PROVE TabsInv'
    <3>1. server'.revoked = "logout" /\ DOMAIN server' = DOMAIN server
      BY <1>2, <2>1, <2>10 DEF T!SignOut
    <3> QED BY <2>1, <3>1 DEF TabsInv
  <2>11. ASSUME NEW t \in Tab, NEW u \in Tab, T!Open(t, u) PROVE TabsInv'
    BY <2>1, <2>2, <2>11, LifeOpen DEF T!Open
  <2>12. CASE T!Tick
    BY <2>1, <2>2, <2>12, LifeTick DEF T!Tick
  <2>13. CASE UNCHANGED T!vars
    <3>1. UNCHANGED <<clock, shared, server, tab, stored, inbox, lock>>
      BY <2>13 DEF T!vars
    <3>2. TabsShape'
      BY <2>1, <3>1 DEF Life, TabsShape
    <3>3. \A t \in Tab : (Hears(t, last)' <=> Hears(t, last)) /\ (StillGood(t, last)' <=> StillGood(t, last))
                         /\ (Asks(t, last)' <=> Asks(t, last)) /\ (Gets(t, last)' <=> Gets(t, last))
      BY <3>1 DEF Hears, Waiting, Stored, StillGood, Asks, Gets
    <3>4. Shares(last)'
      BY <3>1, <3>3 DEF Shares, Waits, Answering
    <3> QED BY <2>2, <3>1, <3>2, <3>4
  <2> QED BY <2>3, <2>4, <2>5, <2>6, <2>7, <2>8, <2>9, <2>10, <2>11, <2>12, <2>13 DEF T!Next
<1> QED BY <1>1, <1>2

LEMMA TabsInvImplies == TabsAssumption /\ TabsInv => TabsShareTheSession
<1> SUFFICES ASSUME TabsAssumption, TabsInv PROVE TabsAreNoThieves /\ TabsAgree
  BY DEF TabsShareTheSession
<1>1. TabsAreNoThieves
  BY DEF TabsInv, TabsAreNoThieves
<1>2. ASSUME \A t \in Tab : tab[t].phase = "idle" /\ inbox[t] = <<>>, server.revoked = "no", NEW t \in Tab
      PROVE  SignedIn(t) => tab[t].current.secret = server.secret
  <2> PICK last \in Announced : Shares(last)
    BY <1>2 DEF TabsInv
  <2>1. last.secret = server.secret
    BY <1>2 DEF Shares, Answering
  <2>2. CASE tab[t].open
    BY <1>2, <2>1, <2>2 DEF Shares, Hears, SignedIn
  <2>3. CASE ~tab[t].open
    BY <2>3, ClosedIs DEF Shares, SignedIn
  <2> QED BY <2>2, <2>3
<1> QED BY <1>1, <1>2 DEF TabsAgree

\* However their refreshes, messages and storage cross, no tab of a browser is taken for the
\* thief of its own session, and when nothing is on its way they all have the same secret
\* (SessionClient.rotate, apply and its channel; RefreshSessions.rotate).
THEOREM TabsStayTogether == T!Spec => []TabsShareTheSession
<1>1. TabsAssumption
  BY TabsAssumption
<1> QED BY <1>1, TabsInitially, TabsNext, TabsInvImplies, PTL DEF T!Spec
=============================================================================
