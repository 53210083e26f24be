------------------------ MODULE InfrastructureProofs ------------------------
(* What Deployments promises of secrets, of duplicates and of what runs    *)
(* report, for any number of runs, hosts and selections of roles, and what *)
(* Plans promises of the resources of plans, for any number of plans and   *)
(* of requests.                                                            *)
EXTENDS Deployments, PlansState, SequenceTheorems, TLAPS

CONSTANTS Request, MaxSettings, MaxTime
VARIABLES clock, settings, request
P == INSTANCE Plans

-----------------------------------------------------------------------------
(* The hosts.                                                              *)

IsResource(e) == e = [vars |-> e.vars, live |-> e.live, alone |-> e.alone] /\ e.alone \in BOOLEAN

\* The resources of a name are a list.
RemoteShape ==
  /\ remote = [r \in Roles |-> remote[r]]
  /\ \A r \in Roles : remote[r] \in Seq(ToSet(remote[r])) /\ \A i \in DOMAIN remote[r] : IsResource(remote[r][i])

Fields == {"phase", "roles", "secret", "outputs", "given", "seen", "calls", "done", "alone"}
IsJob(j) == DOMAIN j = Fields /\ j.alone \in BOOLEAN

JobShape == runs = [p \in Run |-> runs[p]] /\ \A p \in Run : IsJob(runs[p])

\* Beside a run without a rival no other one is in progress, until another one begins.
Solo == \A p, q \in Run : runs[p].alone /\ InProgress(q) => p = q

\* A run without a rival that means to make a resource is the first one to.
SoloMakesTheFirst ==
  \A p \in Run :
    runs[p].alone /\ runs[p].phase = "calls" /\ runs[p].seen = 0 /\ Role(p) \in Roles => remote[Role(p)] = <<>>

\* A resource that was found or made is not made again.
Makes == {<<"build">>, <<"create", "set", "deploy">>}
Updates == {<<>>, <<"deploy">>, <<"set", "deploy">>, <<"replace">>}
CallsInOrder ==
  \A p \in Run :
    runs[p].phase = "calls" /\ Role(p) \in Roles => runs[p].calls \in IF runs[p].seen = 0 THEN Makes ELSE Updates

\* What is to be given to what is public.
GivenIsPublic ==
  \A p \in Run : runs[p].phase \in {"find", "calls"} /\ Role(p) = "ssr" => DOMAIN runs[p].given \subseteq Public

IInv ==
  /\ RemoteShape
  /\ JobShape
  /\ Solo
  /\ SoloMakesTheFirst
  /\ CallsInOrder
  /\ GivenIsPublic
  /\ SecretsStayBehind
  /\ DuplicatesOverlapped

-----------------------------------------------------------------------------
LEMMA RolesAre == Roles = {"database", "api", "ssr"}
<1>1. DOMAIN RoleOrder = 1..3
  BY DEF RoleOrder
<1>2. RoleOrder[1] = "database" /\ RoleOrder[2] = "api" /\ RoleOrder[3] = "ssr"
  BY DEF RoleOrder
<1>3. \A i \in 1..3 : i = 1 \/ i = 2 \/ i = 3
  BY SMT
<1> QED BY <1>1, <1>2, <1>3 DEF Roles, ToSet

LEMMA Initially == Init => IInv
<1> SUFFICES ASSUME Init PROVE IInv
  OBVIOUS
<1>1. RemoteShape /\ JobShape
  <2>1. remote = [r \in Roles |-> remote[r]] /\ \A r \in Roles : remote[r] = <<>>
    BY DEF Init
  <2>2. \A S : <<>> \in Seq(S) /\ DOMAIN <<>> = {}
    BY EmptySeq
  <2>3. \A p \in Run : runs[p] = NoJob
    BY DEF Init
  <2>4. IsJob(NoJob)
    BY DEF NoJob, IsJob, Fields
  <2>5. runs = [p \in Run |-> runs[p]]
    BY DEF Init
  <2> QED BY <2>1, <2>2, <2>3, <2>4, <2>5 DEF RemoteShape, JobShape
<1>2. \A p \in Run : runs[p].phase = "idle" /\ ~InProgress(p)
  BY DEF Init, NoJob, InProgress
<1>3. \A r \in Roles : DOMAIN remote[r] = {}
  BY DEF Init
<1> QED BY <1>1, <1>2, <1>3, RolesAre DEF IInv, Solo, SoloMakesTheFirst, CallsInOrder, GivenIsPublic, SecretsStayBehind, DuplicatesOverlapped

\* What is given to what is public is public, whatever earlier roles returned.
LEMMA Filtered == ASSUME NEW p \in Run PROVE DOMAIN Given(p, "ssr") \subseteq Public
BY DEF Given, variablesFor, Restrict

\* The calls of a run make a resource if and only if it saw none.
LEMMA Planned ==
  ASSUME NEW host, NEW role, NEW seen
  PROVE  Calls(host, role, seen) \in IF seen = 0 THEN Makes ELSE Updates
<1>1. CASE seen = 0
  <2>1. <<"create">> \o Update = <<"create", "set", "deploy">>
    <3> DEFINE S == {"create", "set", "deploy"}
               a == <<"create">>
               all == <<"create", "set", "deploy">>
    <3>1. a \in Seq(S) /\ Update \in Seq(S) /\ all \in Seq(S)
      BY DEF Update
    <3>2. Len(a) = 1 /\ Len(Update) = 2 /\ Len(all) = 3
      BY DEF Update
    <3> HIDE DEF S, a, all
    <3>3. (a \o Update) \in Seq(S) /\ Len(a \o Update) = 3
          /\ \A i \in 1..3 : (a \o Update)[i] = IF i <= 1 THEN a[i] ELSE Update[i - 1]
      BY <3>1, <3>2, ConcatProperties
    <3>4. \A i \in 1..3 : (a \o Update)[i] = all[i]
      BY <3>3 DEF Update, a, all
    <3>5. a \o Update = all
      BY <3>1, <3>2, <3>3, <3>4, SeqEqual
    <3> QED BY <3>5 DEF a, all
  <2> QED BY <1>1, <2>1 DEF Calls, Makes
<1>2. CASE seen # 0
  <2>1. <<>> \o Update = <<"set", "deploy">>
    BY DEF Update
  <2> QED BY <1>2, <2>1 DEF Calls, Updates
<1> QED BY <1>1, <1>2

\* The i-th resource of a list that has grown or changed.
LEMMA Grown ==
  ASSUME NEW s, NEW e, s \in Seq(ToSet(s))
  PROVE  /\ Append(s, e) \in Seq(ToSet(Append(s, e)))
         /\ DOMAIN Append(s, e) = 1..Len(s) + 1 /\ Len(Append(s, e)) = Len(s) + 1
         /\ DOMAIN s = 1..Len(s) /\ Len(s) \in Nat
         /\ \A i \in 1..Len(s) : Append(s, e)[i] = s[i]
         /\ Append(s, e)[Len(s) + 1] = e
<1> DEFINE S == ToSet(s) \cup {e}
<1>1. s \in Seq(S)
  BY SeqMonotonic
<1> HIDE DEF S
<1>2. e \in S
  BY DEF S
<1>3. /\ Append(s, e) \in Seq(S) /\ Len(Append(s, e)) = Len(s) + 1
      /\ \A i \in 1..Len(s) : Append(s, e)[i] = s[i]
      /\ Append(s, e)[Len(s) + 1] = e
  BY <1>1, <1>2, AppendProperties
<1>4. DOMAIN s = 1..Len(s) /\ Len(s) \in Nat /\ DOMAIN Append(s, e) = 1..Len(Append(s, e))
  BY <1>1, <1>3, LenProperties
<1>5. Append(s, e) \in Seq(Range(Append(s, e)))
  BY <1>3, SeqOfRange
<1> QED BY <1>3, <1>4, <1>5 DEF Range, ToSet

LEMMA Changed ==
  ASSUME NEW s, NEW i, NEW e, s \in Seq(ToSet(s)), i \in DOMAIN s
  PROVE  LET t == [s EXCEPT ![i] = e]
         IN  /\ t \in Seq(ToSet(t)) /\ DOMAIN t = DOMAIN s /\ t[i] = e
             /\ \A j \in DOMAIN s : j # i => t[j] = s[j]
<1> DEFINE S == ToSet(s) \cup {e}
           t == [s EXCEPT ![i] = e]
<1>1. s \in Seq(S)
  BY SeqMonotonic
<1> HIDE DEF S
<1>2. e \in S
  BY DEF S
<1>3. i \in 1..Len(s)
  BY <1>1, LenProperties
<1>4. t \in Seq(S)
  BY <1>1, <1>2, <1>3, ExceptSeq
<1>5. t \in Seq(Range(t))
  BY <1>4, SeqOfRange
<1>6. DOMAIN t = DOMAIN s /\ t[i] = e /\ \A j \in DOMAIN s : j # i => t[j] = s[j]
  OBVIOUS
<1> QED BY <1>5, <1>6 DEF Range, ToSet

-----------------------------------------------------------------------------
\* What a call leaves of the lists: they are in order, and what they promise holds.
RemoteHolds == RemoteShape /\ SecretsStayBehind /\ DuplicatesOverlapped

\* A resource is made: the first of its name, or the run has a rival.
LEMMA Making ==
  ASSUME IInv, NEW p \in Run, runs[p].phase = "calls", runs[p].seen = 0, Role(p) \in Roles,
         NEW v, NEW l, Make(p, v, l), Role(p) = "ssr" => DOMAIN v \cup DOMAIN l \subseteq Public
  PROVE  /\ RemoteHolds'
         /\ \A r \in Roles : r # Role(p) => remote'[r] = remote[r]
         /\ Len(remote'[Role(p)]) # 0
<1> DEFINE R == Role(p)
           s == remote[R]
           e == [vars |-> v, live |-> l, alone |-> runs[p].alone]
<1>1. RemoteShape /\ JobShape /\ SoloMakesTheFirst /\ SecretsStayBehind /\ DuplicatesOverlapped
  BY DEF IInv
<1>2. s \in Seq(ToSet(s)) /\ runs[p].alone \in BOOLEAN
  BY <1>1 DEF RemoteShape, JobShape, IsJob
<1>3. IsResource(e) /\ e.vars = v /\ e.live = l /\ e.alone = runs[p].alone
  BY <1>2 DEF IsResource
<1> HIDE DEF e
<1>4. remote' = [remote EXCEPT ![R] = Append(s, e)]
  BY DEF Make, e
<1>5. remote' = [r \in Roles |-> remote'[r]] /\ remote'[R] = Append(s, e) /\ \A r \in Roles : r # R => remote'[r] = remote[r]
  BY <1>1, <1>4 DEF RemoteShape
<1>6. runs[p].alone => s = <<>>
  BY <1>1 DEF SoloMakesTheFirst
<1>7. \A i \in DOMAIN remote'[R] : remote'[R][i] = e \/ (i \in DOMAIN s /\ remote'[R][i] = s[i])
  BY <1>2, <1>5, Grown
<1>8. RemoteShape'
  <2>1. remote'[R] \in Seq(ToSet(remote'[R]))
    BY <1>2, <1>5, Grown
  <2>2. \A i \in DOMAIN remote'[R] : IsResource(remote'[R][i])
    BY <1>1, <1>3, <1>7 DEF RemoteShape
  <2> QED BY <1>1, <1>5, <2>1, <2>2 DEF RemoteShape
<1>9. SecretsStayBehind'
  <2>1. CASE R = "ssr"
    BY <1>1, <1>3, <1>7, <2>1 DEF SecretsStayBehind
  <2>2. CASE R # "ssr"
    BY <1>1, <1>5, <2>2, RolesAre DEF SecretsStayBehind
  <2> QED BY <2>1, <2>2
<1>10. DuplicatesOverlapped'
  <2>1. ASSUME NEW i \in DOMAIN remote'[R], i > 1 PROVE ~remote'[R][i].alone
    <3>1. CASE i \in DOMAIN s /\ remote'[R][i] = s[i]
      BY <1>1, <2>1, <3>1 DEF DuplicatesOverlapped
    <3>2. CASE i \notin DOMAIN s
      <4>1. i = Len(s) + 1 /\ Len(s) \in Nat /\ remote'[R][i] = e
        BY <1>2, <1>5, <2>1, <3>2, Grown
      <4>2. s # <<>>
        BY <2>1, <4>1
      <4> QED BY <1>3, <1>6, <4>1, <4>2
    <3> QED BY <1>2, <1>5, <3>1, <3>2, Grown
  <2> QED BY <1>1, <1>5, <2>1 DEF DuplicatesOverlapped
<1>11. Len(remote'[R]) # 0
  BY <1>2, <1>5, Grown
<1> QED BY <1>5, <1>8, <1>9, <1>10, <1>11 DEF RemoteHolds

LEMMA Altered ==
  ASSUME NEW x, NEW v, NEW l, x = [vars |-> x.vars, live |-> x.live, alone |-> x.alone]
  PROVE  [x EXCEPT !.vars = v, !.live = l] = [vars |-> v, live |-> l, alone |-> x.alone]
<1> DEFINE y == [x EXCEPT !.vars = v]
<1>1. y = [vars |-> v, live |-> x.live, alone |-> x.alone]
  OBVIOUS
<1>2. [x EXCEPT !.vars = v, !.live = l] = [y EXCEPT !.live = l]
  OBVIOUS
<1> HIDE DEF y
<1>3. [y EXCEPT !.live = l] = [vars |-> v, live |-> l, alone |-> x.alone]
  BY <1>1
<1> QED BY <1>2, <1>3

\* A resource is changed: its maker stays, and so does what it has that is not given to it.
LEMMA Putting ==
  ASSUME IInv, NEW p \in Run, Role(p) \in Roles, NEW v, NEW l, Put(p, v, l),
         Role(p) = "ssr" /\ runs[p].seen \in DOMAIN remote[Role(p)] => DOMAIN v \cup DOMAIN l \subseteq Public
  PROVE  RemoteHolds' /\ \A r \in Roles : r # Role(p) => remote'[r] = remote[r]
<1> DEFINE R == Role(p)
           i == runs[p].seen
           s == remote[R]
           e == [s[i] EXCEPT !.vars = v, !.live = l]
<1>1. RemoteShape /\ SecretsStayBehind /\ DuplicatesOverlapped
  BY DEF IInv
<1>2. remote' = [remote EXCEPT ![R] = [s EXCEPT ![i] = e]]
  BY <1>1 DEF Put, RemoteShape
<1>3. remote' = [r \in Roles |-> remote'[r]] /\ remote'[R] = [s EXCEPT ![i] = e] /\ \A r \in Roles : r # R => remote'[r] = remote[r]
  BY <1>1, <1>2 DEF RemoteShape
<1>4. s \in Seq(ToSet(s)) /\ \A j \in DOMAIN s : IsResource(s[j])
  BY <1>1 DEF RemoteShape
<1>5. CASE i \notin DOMAIN s
  <2>1. remote'[R] = s
    BY <1>3, <1>4, <1>5
  <2>2. remote' = remote
    BY <1>1, <1>3, <2>1 DEF RemoteShape
  <2> QED BY <1>1, <2>2 DEF RemoteHolds, RemoteShape, SecretsStayBehind, DuplicatesOverlapped
<1>6. CASE i \in DOMAIN s
  <2>1. IsResource(e) /\ e.vars = v /\ e.live = l /\ e.alone = s[i].alone
    <3>1. s[i] = [vars |-> s[i].vars, live |-> s[i].live, alone |-> s[i].alone] /\ s[i].alone \in BOOLEAN
      BY <1>4, <1>6 DEF IsResource
    <3>2. e = [vars |-> v, live |-> l, alone |-> s[i].alone]
      BY <3>1, Altered
    <3> QED BY <3>1, <3>2 DEF IsResource
  <2> HIDE DEF e
  <2>2. DOMAIN remote'[R] = DOMAIN s /\ remote'[R][i] = e /\ \A j \in DOMAIN s : j # i => remote'[R][j] = s[j]
    BY <1>3, <1>4, <1>6, Changed
  <2>3. remote'[R] \in Seq(ToSet(remote'[R]))
    <3> DEFINE t == [s EXCEPT ![i] = e]
    <3>1. t \in Seq(ToSet(t))
      BY <1>4, <1>6, Changed
    <3>2. remote'[R] = t
      BY <1>3
    <3> HIDE DEF t
    <3> QED BY <3>1, <3>2
  <2>4. RemoteShape'
    BY <1>1, <1>3, <1>4, <2>1, <2>2, <2>3 DEF RemoteShape
  <2>5. SecretsStayBehind'
    <3>1. CASE R = "ssr"
      BY <1>1, <1>6, <2>1, <2>2, <3>1 DEF SecretsStayBehind
    <3>2. CASE R # "ssr"
      BY <1>1, <1>3, <3>2, RolesAre DEF SecretsStayBehind
    <3> QED BY <3>1, <3>2
  <2>6. DuplicatesOverlapped'
    <3>1. \A j \in DOMAIN s : remote'[R][j].alone = s[j].alone
      BY <2>1, <2>2
    <3> QED BY <1>1, <1>3, <2>2, <3>1 DEF DuplicatesOverlapped
  <2> QED BY <1>3, <2>4, <2>5, <2>6 DEF RemoteHolds
<1> QED BY <1>5, <1>6

\* A call makes a resource for a run that saw none, and changes the one that another saw.
LEMMA Effects ==
  ASSUME IInv, NEW p \in Run, runs[p].phase = "calls", runs[p].calls # <<>>, NEW rest, Effect(p, rest)
  PROVE  /\ RemoteHolds'
         /\ Role(p) \in Roles => rest \in Updates /\ (runs[p].seen = 0 => Len(remote'[Role(p)]) # 0)
<1> DEFINE R == Role(p)
           c == runs[p].calls
           i == runs[p].seen
<1>1. RemoteShape /\ CallsInOrder /\ GivenIsPublic /\ SecretsStayBehind /\ DuplicatesOverlapped
  BY DEF IInv
<1>2. CASE R \notin Roles
  <2>1. remote' = remote
    BY <1>1, <1>2 DEF RemoteShape, Effect, Make, Put
  <2> QED BY <1>1, <1>2, <2>1 DEF RemoteHolds, RemoteShape, SecretsStayBehind, DuplicatesOverlapped
<1>3. \A n : R = "ssr" => DOMAIN Variables(p, n) \subseteq Public
  BY <1>1 DEF GivenIsPublic, Variables
<1>4. DOMAIN NoVars = {}
  BY DEF NoVars
<1>5. CASE R \in Roles /\ i = 0
  <2>1. c = <<"build">> \/ c = <<"create", "set", "deploy">>
    BY <1>1, <1>5 DEF CallsInOrder, Makes
  <2>2. CASE c = <<"build">>
    <3>1. Head(c) = "build" /\ Tail(c) = <<>>
      BY <2>2
    <3>2. \E v : Make(p, v, v) /\ (R = "ssr" => DOMAIN v \subseteq Public) /\ rest = <<>>
      BY <1>3, <3>1 DEF Effect
    <3> QED BY <1>5, <3>2, Making DEF Updates
  <2>3. CASE c = <<"create", "set", "deploy">>
    <3>1. Head(c) = "create" /\ Tail(c) = <<"set", "deploy">>
      BY <2>3
    <3>2. Make(p, NoVars, NoVars) /\ rest = <<"set", "deploy">>
      BY <3>1 DEF Effect
    <3> QED BY <1>4, <1>5, <3>2, Making DEF Updates
  <2> QED BY <2>1, <2>2, <2>3
<1>6. CASE R \in Roles /\ i # 0
  <2> DEFINE res == remote[R][i]
             new == Variables(p, i)
             set == IF hosts[R] \in Merging THEN Over(new, res.vars) ELSE new
  <2>1. R = "ssr" /\ i \in DOMAIN remote[R] => DOMAIN res.vars \subseteq Public /\ DOMAIN res.live \subseteq Public
    BY <1>1 DEF SecretsStayBehind
  <2>2. R = "ssr" /\ i \in DOMAIN remote[R] => DOMAIN set \subseteq Public
    <3>1. DOMAIN Over(new, res.vars) = DOMAIN new \cup DOMAIN res.vars
      BY DEF Over
    <3>2. DOMAIN set \subseteq DOMAIN new \cup DOMAIN res.vars
      BY <3>1
    <3> QED BY <1>3, <2>1, <3>2
  <2>3. c = <<"deploy">> \/ c = <<"set", "deploy">> \/ c = <<"replace">>
    BY <1>1, <1>6 DEF CallsInOrder, Updates
  <2>4. CASE c = <<"deploy">>
    <3>1. Head(c) = "deploy" /\ Tail(c) = <<>>
      BY <2>4
    <3>2. Put(p, res.vars, res.vars) /\ rest = <<>>
      BY <3>1 DEF Effect
    <3> QED BY <1>6, <2>1, <3>2, Putting DEF Updates
  <2>5. CASE c = <<"set", "deploy">>
    <3>1. Head(c) = "set" /\ Tail(c) = <<"deploy">>
      BY <2>5
    <3>2. Put(p, set, res.live) /\ rest = <<"deploy">>
      BY <3>1 DEF Effect
    <3> HIDE DEF set
    <3> QED BY <1>6, <2>1, <2>2, <3>2, Putting DEF Updates
  <2>6. CASE c = <<"replace">>
    <3>1. Head(c) = "replace" /\ Tail(c) = <<>>
      BY <2>6
    <3>2. (Put(p, new, new) /\ rest = <<>>) \/ (Put(p, new, res.live) /\ rest = <<"deploy">>)
      BY <3>1 DEF Effect
    <3>3. R = "ssr" => DOMAIN new \subseteq Public
      BY <1>3
    <3> HIDE DEF new
    <3> QED BY <1>6, <2>1, <3>2, <3>3, Putting DEF Updates
  <2> QED BY <2>3, <2>4, <2>5, <2>6
<1> QED BY <1>2, <1>5, <1>6

-----------------------------------------------------------------------------
\* What a step leaves of the runs.
JobsHold == JobShape /\ Solo /\ SoloMakesTheFirst /\ CallsInOrder /\ GivenIsPublic

RoleIn(j) == First(Left(j))

\* A step of a run in progress disturbs no run that has no rival.
LEMMA OneRun ==
  ASSUME IInv, NEW p \in Run, InProgress(p), NEW j, runs' = [runs EXCEPT ![p] = j],
         IsJob(j), j.alone = runs[p].alone,
         j.phase = "calls" /\ RoleIn(j) \in Roles =>
           /\ j.calls \in IF j.seen = 0 THEN Makes ELSE Updates
           /\ j.alone /\ j.seen = 0 => remote'[RoleIn(j)] = <<>>,
         j.phase \in {"find", "calls"} /\ RoleIn(j) = "ssr" => DOMAIN j.given \subseteq Public
  PROVE  JobsHold'
<1>1. JobShape /\ Solo /\ SoloMakesTheFirst /\ CallsInOrder /\ GivenIsPublic
  BY DEF IInv
<1>2. runs'[p] = j /\ \A q \in Run : q # p => runs'[q] = runs[q]
  BY <1>1 DEF JobShape
<1>3. JobShape'
  BY <1>1, <1>2 DEF JobShape
<1>4. \A q \in Run : InProgress(q)' => InProgress(q)
  BY <1>2 DEF InProgress
<1>5. Solo'
  BY <1>1, <1>2, <1>4 DEF Solo
<1>6. \A q \in Run : q # p /\ runs[q].phase = "calls" => ~runs[q].alone
  BY <1>1 DEF Solo, InProgress
<1>7. SoloMakesTheFirst'
  BY <1>2, <1>6 DEF SoloMakesTheFirst, Role, RoleIn
<1>8. CallsInOrder'
  BY <1>1, <1>2 DEF CallsInOrder, Role, RoleIn
<1>9. GivenIsPublic'
  BY <1>1, <1>2 DEF GivenIsPublic, Role, RoleIn
<1> QED BY <1>3, <1>5, <1>7, <1>8, <1>9 DEF JobsHold

LEMMA Ending ==
  ASSUME NEW j, IsJob(j), NEW phase
  PROVE  IsJob(Ended(j, phase)) /\ Ended(j, phase).phase = phase /\ Ended(j, phase).alone = j.alone
BY DEF Ended, IsJob, Fields

\* A run that ends, or goes on to its next role, means to make nothing.
LEMMA EndingKeeps ==
  ASSUME IInv, NEW p \in Run, InProgress(p), NEW j, IsJob(j), j.alone = runs[p].alone,
         NEW phase \in {"plan", "done", "failed"}, runs' = [runs EXCEPT ![p] = Ended(j, phase)]
  PROVE  JobsHold'
<1> DEFINE k == Ended(j, phase)
<1>1. IsJob(k) /\ k.phase = phase /\ k.alone = runs[p].alone
  BY Ending
<1>2. runs' = [runs EXCEPT ![p] = k] /\ k.phase # "calls" /\ k.phase \notin {"find", "calls"}
  BY <1>1
<1> HIDE DEF k
<1> QED BY <1>1, <1>2, OneRun

\* The remote resources are as they were.
LEMMA Untouched == ASSUME IInv, UNCHANGED remote PROVE RemoteHolds'
BY DEF IInv, RemoteHolds, RemoteShape, SecretsStayBehind, DuplicatesOverlapped

LEMMA Both == ASSUME RemoteHolds', JobsHold' PROVE IInv'
BY DEF IInv, RemoteHolds, JobsHold

-----------------------------------------------------------------------------
LEMMA BeginKeeps == ASSUME IInv, NEW p \in Run, Begin(p) PROVE IInv'
<1>1. JobShape /\ Solo /\ SoloMakesTheFirst /\ CallsInOrder /\ GivenIsPublic
  BY DEF IInv
<1>2. PICK roles \in Selections :
        LET new == [NoJob EXCEPT !.phase = "plan", !.roles = roles, !.secret = secret,
                                 !.alone = \A q \in Run : ~InProgress(q)]
        IN runs' = [q \in Run |-> IF q = p THEN new ELSE [runs[q] EXCEPT !.alone = FALSE]]
  BY DEF Begin
<1> DEFINE new == [NoJob EXCEPT !.phase = "plan", !.roles = roles, !.secret = secret,
                                !.alone = \A q \in Run : ~InProgress(q)]
<1>3. runs' = [q \in Run |-> IF q = p THEN new ELSE [runs[q] EXCEPT !.alone = FALSE]]
  BY <1>2
<1>4. IsJob(new) /\ new.phase = "plan"
  BY DEF NoJob, IsJob, Fields
<1>5. ASSUME new.alone, NEW q \in Run PROVE ~InProgress(q)
  BY <1>5 DEF NoJob
<1> HIDE DEF new
<1>6. ASSUME NEW q \in Run, q # p
      PROVE  runs'[q] = [runs[q] EXCEPT !.alone = FALSE]
  BY <1>3, <1>6
<1>7. ASSUME NEW q \in Run, q # p
      PROVE  /\ IsJob(runs'[q]) /\ ~runs'[q].alone /\ runs'[q].phase = runs[q].phase
             /\ runs'[q].roles = runs[q].roles /\ runs'[q].done = runs[q].done /\ runs'[q].given = runs[q].given
             /\ runs'[q].calls = runs[q].calls /\ runs'[q].seen = runs[q].seen
  BY <1>1, <1>6, <1>7 DEF JobShape, IsJob, Fields
<1>8. runs'[p] = new
  BY <1>3
<1>9. JobShape'
  BY <1>3, <1>4, <1>7, <1>8 DEF JobShape
<1>10. Solo'
  BY <1>5, <1>7, <1>8 DEF Solo, InProgress
<1>11. SoloMakesTheFirst'
  BY <1>4, <1>7, <1>8 DEF SoloMakesTheFirst
<1>12. \A q \in Run : q # p => Role(q)' = Role(q)
  BY <1>7 DEF Role, Left
<1>13. CallsInOrder'
  BY <1>1, <1>4, <1>7, <1>8, <1>12 DEF CallsInOrder
<1>14. GivenIsPublic'
  BY <1>1, <1>4, <1>7, <1>8, <1>12 DEF GivenIsPublic
<1>15. RemoteHolds'
  BY Untouched DEF Begin
<1> QED BY <1>9, <1>10, <1>11, <1>13, <1>14, <1>15, Both DEF JobsHold

\* What a run does once it knows what is there.
LEMMA Applying ==
  ASSUME IInv, NEW p \in Run, InProgress(p), NEW given, NEW seen \in Look(Role(p)), UNCHANGED remote,
         Role(p) = "ssr" => DOMAIN given \subseteq Public,
         runs' = [runs EXCEPT ![p] = Apply(p, given, seen)]
  PROVE  IInv'
<1> DEFINE calls == Calls(hosts[Role(p)], Role(p), seen)
           j == [runs[p] EXCEPT !.phase = "calls", !.given = given, !.seen = seen, !.calls = calls]
<1>1. IsJob(runs[p])
  BY DEF IInv, JobShape
<1>2. calls \in IF seen = 0 THEN Makes ELSE Updates
  BY Planned
<1> HIDE DEF calls
<1>3. /\ IsJob(j) /\ j.alone = runs[p].alone /\ j.phase = "calls" /\ j.given = given
      /\ j.seen = seen /\ j.calls = calls /\ j.roles = runs[p].roles /\ j.done = runs[p].done
  BY <1>1 DEF IsJob, Fields
<1>4. runs' = [runs EXCEPT ![p] = j]
  BY DEF Apply, calls
<1> HIDE DEF j
<1>5. RoleIn(j) = Role(p)
  BY <1>3 DEF RoleIn, Role, Left
<1>6. Role(p) \in Roles /\ seen = 0 => remote[Role(p)] = <<>>
  <2>1. SUFFICES ASSUME Role(p) \in Roles, seen = 0, remote[Role(p)] # <<>> PROVE FALSE
    OBVIOUS
  <2> DEFINE s == remote[Role(p)]
  <2>2. s \in Seq(ToSet(s))
    BY <2>1 DEF IInv, RemoteShape
  <2>3. DOMAIN s = 1..Len(s) /\ Len(s) \in Nat
    BY <2>2, LenProperties
  <2>4. 0 \in DOMAIN s
    BY <2>1 DEF Look
  <2> QED BY <2>3, <2>4
<1>7. JobsHold'
  BY <1>2, <1>3, <1>4, <1>5, <1>6, OneRun
<1> QED BY <1>7, Untouched, Both

LEMMA PlanKeeps == ASSUME IInv, NEW p \in Run, PlanRole(p) PROVE IInv'
<1>1. InProgress(p) /\ UNCHANGED remote /\ IsJob(runs[p])
  BY DEF PlanRole, InProgress, IInv, JobShape
<1> DEFINE given == Given(p, Role(p))
<1>2. Role(p) = "ssr" => DOMAIN given \subseteq Public
  BY Filtered
<1>3. PICK seen \in Look(Role(p)) :
        runs' = [runs EXCEPT ![p] = IF Refinds(hosts[Role(p)], seen)
                                  THEN [@ EXCEPT !.phase = "find", !.given = given]
                                  ELSE Apply(p, given, seen)]
  BY DEF PlanRole
<1> HIDE DEF given
<1>4. CASE Refinds(hosts[Role(p)], seen)
  <2> DEFINE j == [runs[p] EXCEPT !.phase = "find", !.given = given]
  <2>1. /\ IsJob(j) /\ j.alone = runs[p].alone /\ j.phase = "find" /\ j.given = given
        /\ j.roles = runs[p].roles /\ j.done = runs[p].done
    BY <1>1 DEF IsJob, Fields
  <2>2. runs' = [runs EXCEPT ![p] = j]
    BY <1>3, <1>4
  <2> HIDE DEF j
  <2>3. RoleIn(j) = Role(p)
    BY <2>1 DEF RoleIn, Role, Left
  <2>4. JobsHold'
    BY <1>1, <1>2, <2>1, <2>2, <2>3, OneRun
  <2> QED BY <1>1, <2>4, Untouched, Both
<1>5. CASE ~Refinds(hosts[Role(p)], seen)
  BY <1>1, <1>2, <1>3, <1>5, Applying
<1> QED BY <1>4, <1>5

LEMMA FindKeeps == ASSUME IInv, NEW p \in Run, Find(p) PROVE IInv'
<1>1. InProgress(p) /\ UNCHANGED remote
  BY DEF Find, InProgress
<1>2. Role(p) = "ssr" => DOMAIN runs[p].given \subseteq Public
  BY DEF Find, IInv, GivenIsPublic
<1> QED BY <1>1, <1>2, Applying DEF Find

LEMMA CallKeeps == ASSUME IInv, NEW p \in Run, Call(p) PROVE IInv'
<1>1. runs[p].phase = "calls" /\ runs[p].calls # <<>> /\ InProgress(p)
  BY DEF Call, InProgress
<1>2. PICK rest \in {Tail(runs[p].calls), <<"deploy">>} :
        /\ Effect(p, rest)
        /\ runs' = [runs EXCEPT ![p].calls = rest,
                              ![p].seen = IF @ = 0 THEN Len(remote'[Role(p)]) ELSE @]
  BY DEF Call
<1>3. RemoteHolds' /\ (Role(p) \in Roles => rest \in Updates /\ (runs[p].seen = 0 => Len(remote'[Role(p)]) # 0))
  BY <1>1, <1>2, Effects
<1> DEFINE seen == IF runs[p].seen = 0 THEN Len(remote'[Role(p)]) ELSE runs[p].seen
           j == [runs[p] EXCEPT !.calls = rest, !.seen = seen]
<1>4. IsJob(runs[p]) /\ runs = [q \in Run |-> runs[q]]
  BY DEF IInv, JobShape
<1>5. runs' = [runs EXCEPT ![p] = j]
  BY <1>2, <1>4 DEF IsJob, Fields
<1>6. Role(p) \in Roles => seen # 0
  BY <1>3
<1> HIDE DEF seen
<1>7. /\ IsJob(j) /\ j.alone = runs[p].alone /\ j.phase = "calls" /\ j.given = runs[p].given
      /\ j.seen = seen /\ j.calls = rest /\ j.roles = runs[p].roles /\ j.done = runs[p].done
  BY <1>1, <1>4 DEF IsJob, Fields
<1> HIDE DEF j
<1>8. RoleIn(j) = Role(p)
  BY <1>7 DEF RoleIn, Role, Left
<1>9. Role(p) = "ssr" => DOMAIN runs[p].given \subseteq Public
  BY <1>1 DEF IInv, GivenIsPublic
<1>10. JobsHold'
  BY <1>1, <1>3, <1>5, <1>6, <1>7, <1>8, <1>9, OneRun
<1> QED BY <1>3, <1>10, Both

LEMMA LostKeeps == ASSUME IInv, NEW p \in Run, Lost(p) PROVE IInv'
<1>1. runs[p].phase = "calls" /\ runs[p].calls # <<>> /\ InProgress(p) /\ runs' = [runs EXCEPT ![p] = Ended(runs[p], "failed")]
  BY DEF Lost, InProgress
<1>2. RemoteHolds'
  BY <1>1, Effects DEF Lost
<1>3. IsJob(runs[p])
  BY DEF IInv, JobShape
<1> QED BY <1>1, <1>2, <1>3, EndingKeeps, Both

LEMMA FailKeeps == ASSUME IInv, NEW p \in Run, Fail(p) PROVE IInv'
<1>1. InProgress(p) /\ UNCHANGED remote /\ runs' = [runs EXCEPT ![p] = Ended(runs[p], "failed")]
  BY DEF Fail
<1>2. IsJob(runs[p])
  BY DEF IInv, JobShape
<1> QED BY <1>1, <1>2, EndingKeeps, Untouched, Both

LEMMA AppliedKeeps == ASSUME IInv, NEW p \in Run, Applied(p) PROVE IInv'
<1>1. InProgress(p) /\ UNCHANGED remote /\ IsJob(runs[p])
  BY DEF Applied, InProgress, IInv, JobShape
<1>2. PICK out : runs' = [runs EXCEPT ![p] = IF Role(p) = "database" /\ out = NoVars THEN Ended(@, "failed") ELSE Continued(p, out)]
  BY DEF Applied
<1> DEFINE j == [runs[p] EXCEPT !.outputs = Over(out, @), !.done = Over(Only(Role(p), runs[p].seen), @)]
           phase == IF Left(j) = {} THEN "done" ELSE "plan"
<1>3. Continued(p, out) = Ended(j, phase)
  BY DEF Continued
<1>4. IsJob(j) /\ j.alone = runs[p].alone
  BY <1>1 DEF IsJob, Fields
<1>5. phase \in {"plan", "done", "failed"}
  OBVIOUS
<1> HIDE DEF j, phase
<1>6. runs' = [runs EXCEPT ![p] = Ended(runs[p], "failed")] \/ runs' = [runs EXCEPT ![p] = Ended(j, phase)]
  BY <1>2, <1>3
<1> QED BY <1>1, <1>4, <1>5, <1>6, EndingKeeps, Untouched, Both

\* A step that changes neither runs nor resources.
LEMMA Idle == ASSUME IInv, UNCHANGED <<remote, runs>> PROVE IInv'
BY DEF IInv, RemoteShape, JobShape, Solo, SoloMakesTheFirst, CallsInOrder, GivenIsPublic, SecretsStayBehind, DuplicatesOverlapped, InProgress, Role

LEMMA Preserved == IInv /\ [Next]_vars => IInv'
<1> SUFFICES ASSUME IInv, [Next]_vars PROVE IInv'
  OBVIOUS
<1>1. CASE Rotate \/ UNCHANGED vars
  BY <1>1, Idle DEF Rotate, vars
<1>2. ASSUME NEW p \in Run, Begin(p) \/ PlanRole(p) \/ Find(p) \/ Call(p) \/ Lost(p) \/ Fail(p) \/ Applied(p)
      PROVE  IInv'
  BY <1>2, BeginKeeps, PlanKeeps, FindKeeps, CallKeeps, LostKeeps, FailKeeps, AppliedKeeps
<1> QED BY <1>1, <1>2 DEF Next

\* The inductive invariant of deployments.
THEOREM Invariance == Spec => []IInv
BY Initially, Preserved, PTL DEF Spec

\* Whatever runs are stopped, and whichever answers are lost: only rivals make a resource of a
\* name twice (apply of every provider), and no secret is given to, or deployed with, what is
\* built into public bundles (variablesFor).
THEOREM ApplyingIsSafe == Spec => []AppliedSafely
<1>1. IInv => AppliedSafely
  BY DEF IInv, AppliedSafely
<1> QED BY <1>1, Invariance, PTL

-----------------------------------------------------------------------------
(* What a run without a rival reports.                                     *)

\* What a run has applied comes before what is left to it.
RolesFit(j) ==
  /\ j.roles \subseteq Roles /\ DOMAIN j.done \subseteq j.roles
  /\ j.phase \in {"plan", "find", "calls"} => Left(j) # {}
  /\ "ssr" \in DOMAIN j.done => Left(j) = {}
  /\ "api" \in DOMAIN j.done /\ "database" \in j.roles => "database" \in DOMAIN j.done

\* Earlier roles return what leads to them, and not a secret of the run.
OutputsFit(j) ==
  /\ "JWT_SECRET" \notin DOMAIN j.outputs
  /\ "database" \in DOMAIN j.done =>
       "DATABASE_URL" \in DOMAIN j.outputs /\ j.outputs["DATABASE_URL"] = j.done["database"]
  /\ "RT_APP_API_URL" \in DOMAIN j.outputs =>
       "api" \in DOMAIN j.done /\ j.outputs["RT_APP_API_URL"] = j.done["api"]

Bears(values, j, role) == \A e \in Expected(j, role) : e[1] \in DOMAIN values /\ values[e[1]] = e[2]

\* What a run has applied is live; what it applies has been given its variables as far as its
\* calls have got.
ReportFits(j) ==
  LET role == RoleIn(j) IN
    /\ OutputsFit(j)
    /\ \A r \in DOMAIN j.done : j.done[r] \in DOMAIN remote[r] /\ Bears(remote[r][j.done[r]].live, j, r)
    /\ j.phase \in {"find", "calls"} /\ role # "database" => Bears(j.given, j, role)
    /\ j.phase = "calls" /\ j.seen # 0 => j.seen \in DOMAIN remote[role]
    /\ j.phase = "calls" /\ role # "database" /\ j.calls = <<"deploy">> => Bears(remote[role][j.seen].vars, j, role)
    /\ j.phase = "calls" /\ role # "database" /\ j.calls = <<>> => Bears(remote[role][j.seen].live, j, role)

\* A database is made in one call, with the variable that leads to it.
DatabasesLead ==
  \A i \in DOMAIN remote["database"] :
    remote["database"][i].vars = Only("DATABASE_URL", i) /\ remote["database"][i].live = Only("DATABASE_URL", i)
MakesDatabase(j) ==
  j.phase = "calls" /\ RoleIn(j) = "database" => j.calls = IF j.seen = 0 THEN <<"build">> ELSE <<>>

OnRailway == hosts["database"] = "railway"

LiveInv ==
  /\ hosts \in Hosts
  /\ \A p \in Run : RolesFit(runs[p])
  /\ OnRailway \/ (DatabasesLead /\ \A p \in Run : MakesDatabase(runs[p]) /\ (runs[p].alone => ReportFits(runs[p])))

LEMMA FirstIsLeft ==
  ASSUME NEW left \in SUBSET Roles, left # {}
  PROVE  /\ First(left) \in left
         /\ "database" \in left => First(left) = "database"
         /\ First(left) = "ssr" => left = {"ssr"}
<1> DEFINE is(i) == RoleOrder[i] \in left /\ \A j \in 1..i - 1 : RoleOrder[j] \notin left
<1>1. DOMAIN RoleOrder = 1..3 /\ RoleOrder[1] = "database" /\ RoleOrder[2] = "api" /\ RoleOrder[3] = "ssr"
  BY DEF RoleOrder
<1>2. 1..0 = {} /\ 1..1 = {1} /\ 1..2 = {1, 2} /\ 1..3 = {1, 2, 3}
  BY SMT
<1>3. /\ is(1) <=> "database" \in left
      /\ is(2) <=> "database" \notin left /\ "api" \in left
      /\ is(3) <=> "database" \notin left /\ "api" \notin left /\ "ssr" \in left
  <2>1. 1 - 1 = 0 /\ 2 - 1 = 1 /\ 3 - 1 = 2
    BY SMT
  <2> QED BY <1>1, <1>2, <2>1
<1>4. \E i \in DOMAIN RoleOrder : is(i)
  BY <1>1, <1>2, <1>3, RolesAre
<1> HIDE DEF is
<1> DEFINE n == CHOOSE i \in DOMAIN RoleOrder : is(i)
<1>5. n \in DOMAIN RoleOrder /\ is(n)
  BY <1>4
<1>6. First(left) = RoleOrder[n]
  BY DEF First, is
<1> HIDE DEF n
<1>7. n = 1 \/ n = 2 \/ n = 3
  BY <1>1, <1>2, <1>5
<1> QED BY <1>1, <1>3, <1>5, <1>6, <1>7, RolesAre

\* What a run expects of a role depends on what it has reported, and on nothing else.
LEMMA SameExpected ==
  ASSUME NEW j, NEW k, j.done = k.done, j.outputs = k.outputs, j.secret = k.secret
  PROVE  /\ \A values, r : Bears(values, j, r) <=> Bears(values, k, r)
         /\ OutputsFit(j) <=> OutputsFit(k)
BY DEF Bears, Expected, OutputsFit

LEMMA RoleOf ==
  ASSUME LiveInv, NEW p \in Run, InProgress(p)
  PROVE  /\ Role(p) \in Roles /\ Role(p) = RoleIn(runs[p]) /\ Role(p) \notin DOMAIN runs[p].done
         /\ Role(p) \in runs[p].roles
<1>1. RolesFit(runs[p])
  BY DEF LiveInv
<1>2. Left(runs[p]) \in SUBSET Roles /\ Left(runs[p]) # {}
  BY <1>1 DEF RolesFit, InProgress, Left
<1> QED BY <1>2, FirstIsLeft DEF Role, RoleIn, Left

LEMMA LiveInitially == Init => LiveInv
<1> SUFFICES ASSUME Init PROVE LiveInv
  OBVIOUS
<1>1. \A p \in Run : runs[p] = NoJob
  BY DEF Init
<1>2. RolesFit(NoJob) /\ MakesDatabase(NoJob) /\ ~NoJob.alone
  BY DEF RolesFit, MakesDatabase, NoJob, NoVars
<1>3. remote["database"] = <<>> /\ DOMAIN <<>> = {}
  BY RolesAre DEF Init
<1> QED BY <1>1, <1>2, <1>3 DEF LiveInv, DatabasesLead, Init

-----------------------------------------------------------------------------
\* A step of a run in progress: nobody else has no rival.
LEMMA RunMoves ==
  ASSUME IInv, LiveInv, NEW p \in Run, InProgress(p), NEW j, runs' = [runs EXCEPT ![p] = j], UNCHANGED hosts,
         RolesFit(j),
         ~OnRailway => /\ DatabasesLead' /\ MakesDatabase(j)
                       /\ j.alone => runs[p].alone /\ ReportFits(j)'
  PROVE  LiveInv'
<1>1. runs'[p] = j /\ \A q \in Run : q # p => runs'[q] = runs[q]
  BY DEF IInv, JobShape
<1>2. \A q \in Run : q # p => ~runs[q].alone
  BY DEF IInv, Solo
<1>3. \A q \in Run : RolesFit(runs'[q])
  BY <1>1 DEF LiveInv
<1>4. ASSUME ~OnRailway, NEW q \in Run PROVE (MakesDatabase(runs[q]) /\ (runs[q].alone => ReportFits(runs[q])))'
  <2>1. CASE q = p
    <3>1. runs'[q] = j
      BY <1>1, <2>1
    <3>2. MakesDatabase(j) /\ (j.alone => ReportFits(j)')
      BY <1>4
    <3> QED BY <3>1, <3>2 DEF MakesDatabase, ReportFits
  <2>2. CASE q # p
    <3>1. runs'[q] = runs[q] /\ ~runs[q].alone /\ MakesDatabase(runs[q])
      BY <1>1, <1>2, <1>4, <2>2 DEF LiveInv
    <3> QED BY <3>1 DEF MakesDatabase
  <2> QED BY <2>1, <2>2
<1>5. \A q \in Run : RolesFit(runs[q])'
  BY <1>3 DEF RolesFit
<1> QED BY <1>4, <1>5 DEF LiveInv, OnRailway

-----------------------------------------------------------------------------
\* What a call leaves of the other lists, and of the one it is about.
LEMMA Elsewhere ==
  ASSUME IInv, NEW p \in Run, NEW rest, Effect(p, rest)
  PROVE  \A r \in Roles : r # Role(p) => remote'[r] = remote[r]
<1>1. remote = [r \in Roles |-> remote[r]]
  BY DEF IInv, RemoteShape
<1>2. ASSUME NEW e, remote' = [remote EXCEPT ![Role(p)] = e] PROVE \A r \in Roles : r # Role(p) => remote'[r] = remote[r]
  BY <1>1, <1>2
<1>3. \E e : remote' = [remote EXCEPT ![Role(p)] = e]
  <2>1. ASSUME NEW v, NEW l, Make(p, v, l) PROVE <1>3
    BY <2>1, <1>1 DEF Make
  <2>2. ASSUME NEW v, NEW l, Put(p, v, l) PROVE <1>3
    BY <2>2, <1>1 DEF Put
  <2> QED BY <2>1, <2>2 DEF Effect
<1> QED BY <1>2, <1>3

LEMMA MadeLast ==
  ASSUME IInv, NEW p \in Run, Role(p) \in Roles, NEW v, NEW l, Make(p, v, l)
  PROVE  LET s == remote[Role(p)]
             t == remote'[Role(p)]
         IN  /\ Len(s) \in Nat /\ DOMAIN s = 1..Len(s) /\ Len(t) = Len(s) + 1 /\ DOMAIN t = 1..Len(s) + 1
             /\ t[Len(s) + 1].vars = v /\ t[Len(s) + 1].live = l
             /\ \A i \in DOMAIN s : t[i] = s[i]
<1> DEFINE s == remote[Role(p)]
           e == [vars |-> v, live |-> l, alone |-> runs[p].alone]
<1>1. remote = [r \in Roles |-> remote[r]] /\ s \in Seq(ToSet(s))
  BY DEF IInv, RemoteShape
<1>2. e.vars = v /\ e.live = l
  OBVIOUS
<1> HIDE DEF e
<1>3. remote' = [remote EXCEPT ![Role(p)] = Append(s, e)]
  BY DEF Make, e
<1>4. remote'[Role(p)] = Append(s, e)
  BY <1>1, <1>3
<1> QED BY <1>1, <1>2, <1>4, Grown

LEMMA PutThere ==
  ASSUME IInv, NEW p \in Run, Role(p) \in Roles, NEW v, NEW l, Put(p, v, l), runs[p].seen \in DOMAIN remote[Role(p)]
  PROVE  LET s == remote[Role(p)]
             t == remote'[Role(p)]
         IN  DOMAIN t = DOMAIN s /\ t[runs[p].seen].vars = v /\ t[runs[p].seen].live = l
<1> DEFINE s == remote[Role(p)]
           i == runs[p].seen
           e == [s[i] EXCEPT !.vars = v, !.live = l]
<1>1. remote = [r \in Roles |-> remote[r]] /\ s \in Seq(ToSet(s)) /\ IsResource(s[i])
  BY DEF IInv, RemoteShape
<1>2. e = [vars |-> v, live |-> l, alone |-> s[i].alone]
  BY <1>1, Altered DEF IsResource
<1>3. e.vars = v /\ e.live = l
  BY <1>2
<1>4. remote' = [remote EXCEPT ![Role(p)] = [s EXCEPT ![i] = e]]
  BY <1>1 DEF Put
<1> HIDE DEF e
<1>5. remote'[Role(p)] = [s EXCEPT ![i] = e]
  BY <1>1, <1>4
<1> QED BY <1>1, <1>3, <1>5, Changed

\* Databases stay as they are made, whoever makes them.
LEMMA LeadsOn ==
  ASSUME IInv, LiveInv, ~OnRailway, NEW p \in Run, runs[p].phase = "calls", runs[p].calls # <<>>, NEW rest, Effect(p, rest)
  PROVE  DatabasesLead' /\ (Role(p) = "database" => rest = <<>>)
<1>1. DatabasesLead /\ MakesDatabase(runs[p]) /\ RoleIn(runs[p]) = Role(p) /\ Role(p) \in Roles
  BY RoleOf DEF LiveInv, InProgress
<1>2. CASE Role(p) # "database"
  BY <1>1, <1>2, Elsewhere, RolesAre DEF DatabasesLead
<1>3. CASE Role(p) = "database"
  <2> DEFINE s == remote["database"]
             n == Len(s) + 1
  <2>1. runs[p].calls = <<"build">>
    BY <1>1, <1>3 DEF MakesDatabase
  <2>2. Head(runs[p].calls) = "build" /\ Tail(runs[p].calls) = <<>>
    BY <2>1
  <2>3. Variables(p, n) = Only("DATABASE_URL", n)
    BY <1>3 DEF Variables
  <2>4. Make(p, Variables(p, n), Variables(p, n)) /\ rest = <<>>
    BY <1>3, <2>2 DEF Effect
  <2>5. /\ Len(s) \in Nat /\ DOMAIN s = 1..Len(s) /\ DOMAIN remote'["database"] = 1..n
        /\ remote'["database"][n].vars = Only("DATABASE_URL", n) /\ remote'["database"][n].live = Only("DATABASE_URL", n)
        /\ \A i \in DOMAIN s : remote'["database"][i] = s[i]
    BY <1>1, <1>3, <2>3, <2>4, MadeLast
  <2>6. \A i \in DOMAIN remote'["database"] : i \in DOMAIN s \/ i = n
    BY <2>5
  <2> QED BY <1>1, <2>4, <2>5, <2>6 DEF DatabasesLead
<1> QED BY <1>2, <1>3

\* What an application has after a call of a run without a rival.
LEMMA GetsThere ==
  ASSUME IInv, LiveInv, ~OnRailway, NEW p \in Run, runs[p].alone,
         runs[p].phase = "calls", runs[p].calls # <<>>, NEW rest, Effect(p, rest)
  PROVE  LET role == Role(p)
             n == IF runs[p].seen = 0 THEN Len(remote'[role]) ELSE runs[p].seen
         IN  /\ n \in DOMAIN remote'[role]
             /\ role # "database" /\ rest = <<"deploy">> => Bears(remote'[role][n].vars, runs[p], role)
             /\ role # "database" /\ rest = <<>> => Bears(remote'[role][n].live, runs[p], role)
<1> DEFINE R == Role(p)
           i == runs[p].seen
           c == runs[p].calls
           given == runs[p].given
           new == Variables(p, i)
           res == remote[R][i]
           set == IF hosts[R] \in Merging THEN Over(new, res.vars) ELSE new
<1>1. /\ R \in Roles /\ ReportFits(runs[p]) /\ RoleIn(runs[p]) = R
      /\ c \in IF i = 0 THEN Makes ELSE Updates
  BY RoleOf DEF LiveInv, InProgress, IInv, CallsInOrder
<1>2. /\ R # "database" => Bears(given, runs[p], R)
      /\ i # 0 => i \in DOMAIN remote[R]
      /\ R # "database" /\ c = <<"deploy">> => Bears(res.vars, runs[p], R)
  BY <1>1 DEF ReportFits
<1>3. \A k : R # "database" => Variables(p, k) = given
  BY DEF Variables
<1>4. R # "database" => Bears(set, runs[p], R)
  <2> SUFFICES ASSUME R # "database", NEW e \in Expected(runs[p], R) PROVE e[1] \in DOMAIN set /\ set[e[1]] = e[2]
    BY DEF Bears
  <2>1. e[1] \in DOMAIN given /\ given[e[1]] = e[2] /\ new = given
    BY <1>2, <1>3 DEF Bears
  <2>2. e[1] \in DOMAIN Over(given, res.vars) /\ Over(given, res.vars)[e[1]] = e[2]
    BY <2>1 DEF Over
  <2> QED BY <2>1, <2>2
<1>5. CASE i = 0
  <2> DEFINE n == Len(remote[R]) + 1
  <2>1. ASSUME NEW v, Make(p, v, v), R # "database" => v = given, rest # <<"deploy">>
        PROVE  /\ Len(remote'[R]) \in DOMAIN remote'[R]
               /\ R # "database" => Bears(remote'[R][Len(remote'[R])].live, runs[p], R)
    BY <1>1, <1>2, <2>1, MadeLast
  <2>2. ASSUME Make(p, NoVars, NoVars) PROVE Len(remote'[R]) \in DOMAIN remote'[R]
    BY <1>1, <2>2, MadeLast
  <2>3. CASE c = <<"build">>
    <3>1. Head(c) = "build" /\ Tail(c) = <<>> /\ <<>> # <<"deploy">>
      BY <2>3
    <3>2. Make(p, Variables(p, n), Variables(p, n)) /\ rest = <<>>
      BY <3>1 DEF Effect
    <3> QED BY <1>3, <1>5, <2>1, <3>1, <3>2
  <2>4. CASE c = <<"create", "set", "deploy">>
    <3>1. Head(c) = "create" /\ Tail(c) = <<"set", "deploy">> /\ <<"set", "deploy">> # <<"deploy">> /\ <<"set", "deploy">> # <<>>
      BY <2>4
    <3>2. Make(p, NoVars, NoVars) /\ rest = <<"set", "deploy">>
      BY <3>1 DEF Effect
    <3> QED BY <1>5, <2>2, <3>1, <3>2
  <2> QED BY <1>1, <1>5, <2>3, <2>4 DEF Makes
<1>6. CASE i # 0
  <2>1. i \in DOMAIN remote[R]
    BY <1>2, <1>6
  <2>2. ASSUME NEW v, NEW l, Put(p, v, l)
        PROVE  i \in DOMAIN remote'[R] /\ remote'[R][i].vars = v /\ remote'[R][i].live = l
    BY <1>1, <2>1, <2>2, PutThere
  <2>3. CASE c = <<"deploy">>
    <3>1. Head(c) = "deploy" /\ Tail(c) = <<>> /\ <<>> # <<"deploy">>
      BY <2>3
    <3>2. Put(p, res.vars, res.vars) /\ rest = <<>>
      BY <3>1 DEF Effect
    <3> QED BY <1>2, <1>6, <2>2, <2>3, <3>1, <3>2
  <2>4. CASE c = <<"set", "deploy">>
    <3>1. Head(c) = "set" /\ Tail(c) = <<"deploy">> /\ <<>> # <<"deploy">>
      BY <2>4
    <3>2. Put(p, set, res.live) /\ rest = <<"deploy">>
      BY <3>1 DEF Effect
    <3> HIDE DEF set
    <3> QED BY <1>4, <1>6, <2>2, <3>1, <3>2
  <2>5. CASE c = <<"replace">>
    <3>1. Head(c) = "replace" /\ Tail(c) = <<>> /\ <<>> # <<"deploy">>
      BY <2>5
    <3>2. (Put(p, new, new) /\ rest = <<>>) \/ (Put(p, new, res.live) /\ rest = <<"deploy">>)
      BY <3>1 DEF Effect
    <3>3. R # "database" => Bears(new, runs[p], R)
      BY <1>2, <1>3
    <3> HIDE DEF new
    <3> QED BY <1>6, <2>2, <3>1, <3>2, <3>3
  <2> QED BY <1>1, <1>6, <2>1, <2>3, <2>4, <2>5 DEF Updates
<1> QED BY <1>5, <1>6

\* What was applied is not what a call is about.
LEMMA DoneStays ==
  ASSUME LiveInv, ~OnRailway, NEW p \in Run, InProgress(p), runs[p].alone,
         \A r \in Roles : r # Role(p) => remote'[r] = remote[r],
         NEW j, j.done = runs[p].done, j.outputs = runs[p].outputs, j.secret = runs[p].secret
  PROVE  /\ OutputsFit(j)
         /\ \A r \in DOMAIN j.done : j.done[r] \in DOMAIN remote'[r] /\ Bears(remote'[r][j.done[r]].live, j, r)
<1>1. OutputsFit(runs[p])
      /\ \A r \in DOMAIN runs[p].done : /\ runs[p].done[r] \in DOMAIN remote[r]
                                        /\ Bears(remote[r][runs[p].done[r]].live, runs[p], r)
  BY DEF LiveInv, ReportFits
<1>2. \A r \in DOMAIN runs[p].done : remote'[r] = remote[r]
  BY RoleOf DEF LiveInv, RolesFit
<1> QED BY <1>1, <1>2, SameExpected

\* A run that stops reports what it has reported.
LEMMA LiveEnding ==
  ASSUME IInv, LiveInv, NEW p \in Run, InProgress(p), UNCHANGED hosts,
         runs' = [runs EXCEPT ![p] = Ended(runs[p], "failed")],
         ~OnRailway => DatabasesLead', \A r \in Roles : r # Role(p) => remote'[r] = remote[r]
  PROVE  LiveInv'
<1> PICK j : j = Ended(runs[p], "failed")
  OBVIOUS
<1>1. IsJob(runs[p]) /\ RolesFit(runs[p])
  BY DEF IInv, JobShape, LiveInv
<1>2. /\ j.phase = "failed" /\ j.alone = runs[p].alone /\ j.roles = runs[p].roles /\ j.done = runs[p].done
      /\ j.outputs = runs[p].outputs /\ j.secret = runs[p].secret
  BY <1>1 DEF Ended, IsJob, Fields
<1>3. runs' = [runs EXCEPT ![p] = j]
  OBVIOUS
<1>4. RolesFit(j) /\ MakesDatabase(j)
  BY <1>1, <1>2 DEF RolesFit, Left, MakesDatabase
<1>5. ASSUME ~OnRailway, j.alone PROVE ReportFits(j)'
  <2>1. /\ OutputsFit(j)
        /\ \A r \in DOMAIN j.done : j.done[r] \in DOMAIN remote'[r] /\ Bears(remote'[r][j.done[r]].live, j, r)
    BY <1>2, <1>5, DoneStays
  <2> QED BY <1>2, <2>1 DEF ReportFits, OutputsFit, Bears, Expected
<1>6. ~OnRailway => /\ DatabasesLead' /\ MakesDatabase(j)
                    /\ j.alone => runs[p].alone /\ ReportFits(j)'
  BY <1>2, <1>4, <1>5
<1> QED BY <1>3, <1>4, <1>6, RunMoves

LEMMA NothingGiven == DOMAIN NoVars = {}
BY DEF NoVars

LEMMA LiveBegin == ASSUME IInv, LiveInv, NEW p \in Run, Begin(p) PROVE LiveInv'
<1>1. PICK roles \in Selections :
        LET new == [NoJob EXCEPT !.phase = "plan", !.roles = roles, !.secret = secret,
                                 !.alone = \A q \in Run : ~InProgress(q)]
        IN runs' = [q \in Run |-> IF q = p THEN new ELSE [runs[q] EXCEPT !.alone = FALSE]]
  BY DEF Begin
<1> PICK new : new = [NoJob EXCEPT !.phase = "plan", !.roles = roles, !.secret = secret,
                                   !.alone = \A q \in Run : ~InProgress(q)]
  OBVIOUS
<1>2. runs' = [q \in Run |-> IF q = p THEN new ELSE [runs[q] EXCEPT !.alone = FALSE]]
  BY <1>1
<1>3. new.phase = "plan" /\ new.roles = roles /\ new.done = NoVars /\ new.outputs = NoVars
  BY DEF NoJob
<1>4. roles \subseteq Roles /\ roles # {}
  <2>1. Selections \subseteq (SUBSET Roles) \ {{}}
    BY DeploymentsAssumption DEF DeploymentsAssumption
  <2> QED BY <2>1
<1>5. RolesFit(new) /\ MakesDatabase(new)
  BY <1>3, <1>4, NothingGiven DEF RolesFit, Left, MakesDatabase
<1>6. ReportFits(new)'
  BY <1>3, NothingGiven DEF ReportFits, OutputsFit, Bears, Expected
<1>7. ASSUME NEW q \in Run, q # p
      PROVE  /\ ~runs'[q].alone /\ runs'[q].phase = runs[q].phase
             /\ runs'[q].roles = runs[q].roles /\ runs'[q].done = runs[q].done
             /\ runs'[q].calls = runs[q].calls /\ runs'[q].seen = runs[q].seen
  <2>1. runs'[q] = [runs[q] EXCEPT !.alone = FALSE] /\ IsJob(runs[q])
    BY <1>2, <1>7 DEF IInv, JobShape
  <2> QED BY <2>1 DEF IsJob, Fields
<1>8. runs'[p] = new
  BY <1>2
<1>9. \A q \in Run : RolesFit(runs[q])'
  <2> SUFFICES ASSUME NEW q \in Run PROVE RolesFit(runs[q])'
    OBVIOUS
  <2>1. CASE q = p
    BY <1>5, <1>8, <2>1 DEF RolesFit, Left
  <2>2. CASE q # p
    <3>1. RolesFit(runs[q])
      BY DEF LiveInv
    <3> QED BY <1>7, <2>2, <3>1 DEF RolesFit, Left
  <2> QED BY <2>1, <2>2
<1>10. ASSUME ~OnRailway, NEW q \in Run PROVE (MakesDatabase(runs[q]) /\ (runs[q].alone => ReportFits(runs[q])))'
  <2>1. CASE q = p
    BY <1>5, <1>6, <1>8, <2>1 DEF MakesDatabase, ReportFits
  <2>2. CASE q # p
    <3>1. MakesDatabase(runs[q])
      BY <1>10 DEF LiveInv
    <3> QED BY <1>7, <2>2, <3>1 DEF MakesDatabase, RoleIn, Left
  <2> QED BY <2>1, <2>2
<1>11. UNCHANGED <<hosts, remote>>
  BY DEF Begin
<1>12. ~OnRailway => DatabasesLead'
  BY <1>11 DEF LiveInv, DatabasesLead
<1> QED BY <1>9, <1>10, <1>11, <1>12 DEF LiveInv, OnRailway

\* A role is given what leads to the earlier ones.
LEMMA GivenBears ==
  ASSUME NEW p \in Run, Role(p) # "database", OutputsFit(runs[p])
  PROVE  Bears(Given(p, Role(p)), runs[p], Role(p))
<1> DEFINE variables == Over(runs[p].outputs, runtimeVariables(p))
<1>1. DOMAIN variables = DOMAIN runs[p].outputs \cup {"RT_APP_ENVIRONMENT", "JWT_SECRET"}
  BY DEF Over, runtimeVariables
<1>2. /\ variables["JWT_SECRET"] = runs[p].secret
      /\ \A n \in DOMAIN runs[p].outputs : variables[n] = runs[p].outputs[n]
  BY DEF OutputsFit, Over, runtimeVariables
<1>3. Given(p, Role(p)) = variablesFor(Role(p), variables)
  BY DEF Given
<1> HIDE DEF variables
<1>4. CASE Role(p) = "api"
  <2>1. Given(p, Role(p)) = variables
    BY <1>3, <1>4 DEF variablesFor
  <2> QED BY <1>1, <1>2, <1>4, <2>1 DEF Bears, Expected, OutputsFit
<1>5. CASE Role(p) # "api"
  <2>1. Given(p, Role(p)) = [n \in DOMAIN variables \cap Public |-> variables[n]]
    BY <1>3, <1>5 DEF variablesFor, Restrict
  <2>2. Expected(runs[p], Role(p)) = {<<n, runs[p].done["api"]>> : n \in DOMAIN runs[p].outputs \cap {"RT_APP_API_URL"}}
    BY <1>5 DEF Expected
  <2>3. "RT_APP_API_URL" \in Public
    BY DEF Public
  <2> QED BY <1>1, <1>2, <2>1, <2>2, <2>3 DEF Bears, OutputsFit
<1> QED BY <1>4, <1>5

\* An application is always given variables, and then deployed.
LEMMA NothingLeft ==
  ASSUME NEW host, host \notin {"neon", "supabase"}, NEW role, role # "database", NEW seen
  PROVE  Calls(host, role, seen) # <<>> /\ Calls(host, role, seen) # <<"deploy">>
<1>1. CASE seen = 0
  <2>1. Calls(host, role, seen) \in {<<"build">>, <<"create", "set", "deploy">>}
    BY <1>1, Planned DEF Makes
  <2> QED BY <2>1
<1>2. CASE seen # 0
  <2>1. <<>> \o Update = <<"set", "deploy">>
    BY DEF Update
  <2>2. Calls(host, role, seen) \in {<<"replace">>, <<"set", "deploy">>}
    BY <1>2, <2>1 DEF Calls
  <2> QED BY <2>2
<1> QED BY <1>1, <1>2

\* apply() begins, with what leads to the earlier roles.
LEMMA LiveApplying ==
  ASSUME IInv, LiveInv, NEW p \in Run, InProgress(p), NEW given, NEW seen \in Look(Role(p)), UNCHANGED <<hosts, remote>>,
         ~OnRailway /\ runs[p].alone /\ Role(p) # "database" => Bears(given, runs[p], Role(p)),
         runs' = [runs EXCEPT ![p] = Apply(p, given, seen)]
  PROVE  LiveInv'
<1> PICK j : j = Apply(p, given, seen)
  OBVIOUS
<1> DEFINE R == Role(p)
<1>1. IsJob(runs[p]) /\ RolesFit(runs[p]) /\ R \in Roles
  BY RoleOf DEF IInv, JobShape, LiveInv
<1>2. PICK calls : calls = Calls(hosts[R], R, seen)
  OBVIOUS
<1>3. j = [runs[p] EXCEPT !.phase = "calls", !.given = given, !.seen = seen, !.calls = calls]
  BY <1>2 DEF Apply
<1>4. /\ j.phase = "calls" /\ j.alone = runs[p].alone /\ j.roles = runs[p].roles /\ j.done = runs[p].done
      /\ j.outputs = runs[p].outputs /\ j.secret = runs[p].secret /\ j.given = given /\ j.seen = seen /\ j.calls = calls
  BY <1>1, <1>3 DEF IsJob, Fields
<1>5. Left(j) = Left(runs[p]) /\ RoleIn(j) = R /\ Left(j) # {}
  BY <1>1, <1>4 DEF Left, RoleIn, Role, RolesFit, InProgress
<1>6. RolesFit(j)
  BY <1>1, <1>4, <1>5 DEF RolesFit
<1>7. /\ hosts["database"] \in {"neon", "supabase", "railway"}
      /\ R \in {"api", "ssr"} => hosts[R] \notin {"neon", "supabase"}
  <2>1. hosts \in Hosts
    BY DEF LiveInv
  <2> QED BY <2>1, DeploymentsAssumption DEF DeploymentsAssumption
<1>8. ~OnRailway => MakesDatabase(j)
  BY <1>2, <1>4, <1>5, <1>7 DEF MakesDatabase, OnRailway, Calls
<1>9. R # "database" => calls # <<>> /\ calls # <<"deploy">>
  BY <1>1, <1>2, <1>7, NothingLeft, RolesAre
<1>10. seen # 0 => seen \in DOMAIN remote[R]
  BY DEF Look
<1>11. ASSUME ~OnRailway, j.alone PROVE ReportFits(j)'
  <2>1. /\ OutputsFit(j)
        /\ \A r \in DOMAIN j.done : j.done[r] \in DOMAIN remote'[r] /\ Bears(remote'[r][j.done[r]].live, j, r)
    BY <1>4, <1>11, DoneStays
  <2>2. R # "database" => Bears(j.given, j, R)
    BY <1>4, <1>11, SameExpected
  <2>3. RoleIn(j)' = RoleIn(j) /\ remote'[R] = remote[R]
    BY DEF RoleIn, Left
  <2> HIDE DEF R
  <2> QED BY <1>4, <1>5, <1>9, <1>10, <2>1, <2>2, <2>3 DEF ReportFits, OutputsFit, Bears, Expected
<1>12. ~OnRailway => /\ DatabasesLead' /\ MakesDatabase(j)
                     /\ j.alone => runs[p].alone /\ ReportFits(j)'
  BY <1>4, <1>8, <1>11 DEF LiveInv, DatabasesLead
<1>13. runs' = [runs EXCEPT ![p] = j]
  OBVIOUS
<1> QED BY <1>6, <1>12, <1>13, RunMoves

LEMMA LivePlan == ASSUME IInv, LiveInv, NEW p \in Run, PlanRole(p) PROVE LiveInv'
<1>1. InProgress(p) /\ UNCHANGED <<hosts, remote>> /\ IsJob(runs[p]) /\ RolesFit(runs[p])
  BY DEF PlanRole, InProgress, IInv, JobShape, LiveInv
<1> PICK given : given = Given(p, Role(p))
  OBVIOUS
<1>2. ~OnRailway /\ runs[p].alone /\ Role(p) # "database" => Bears(given, runs[p], Role(p))
  BY GivenBears DEF LiveInv, ReportFits
<1>3. PICK seen \in Look(Role(p)) :
        runs' = [runs EXCEPT ![p] = IF Refinds(hosts[Role(p)], seen)
                                  THEN [@ EXCEPT !.phase = "find", !.given = given]
                                  ELSE Apply(p, given, seen)]
  BY DEF PlanRole
<1>4. CASE Refinds(hosts[Role(p)], seen)
  <2> PICK j : j = [runs[p] EXCEPT !.phase = "find", !.given = given]
    OBVIOUS
  <2>1. /\ j.phase = "find" /\ j.alone = runs[p].alone /\ j.roles = runs[p].roles /\ j.done = runs[p].done
        /\ j.outputs = runs[p].outputs /\ j.secret = runs[p].secret /\ j.given = given
    BY <1>1 DEF IsJob, Fields
  <2>2. runs' = [runs EXCEPT ![p] = j]
    BY <1>3, <1>4
  <2>3. Left(j) = Left(runs[p]) /\ RoleIn(j) = Role(p) /\ RolesFit(j) /\ MakesDatabase(j)
    BY <1>1, <2>1 DEF Left, RoleIn, Role, RolesFit, InProgress, MakesDatabase
  <2>4. ASSUME ~OnRailway, j.alone PROVE ReportFits(j)'
    <3>1. /\ OutputsFit(j)
          /\ \A r \in DOMAIN j.done : j.done[r] \in DOMAIN remote'[r] /\ Bears(remote'[r][j.done[r]].live, j, r)
      BY <1>1, <2>1, <2>4, DoneStays
    <3>2. Role(p) # "database" => Bears(j.given, j, Role(p))
      <4>1. \A values, r : Bears(values, runs[p], r) <=> Bears(values, j, r)
        BY <2>1, SameExpected
      <4> QED BY <1>2, <2>1, <2>4, <4>1
    <3>3. RoleIn(j)' = RoleIn(j)
      BY DEF RoleIn, Left
    <3> QED BY <2>1, <2>3, <3>1, <3>2, <3>3 DEF ReportFits, OutputsFit, Bears, Expected
  <2>5. ~OnRailway => /\ DatabasesLead' /\ MakesDatabase(j)
                      /\ j.alone => runs[p].alone /\ ReportFits(j)'
    BY <1>1, <2>1, <2>3, <2>4 DEF LiveInv, DatabasesLead
  <2> QED BY <1>1, <2>2, <2>3, <2>5, RunMoves
<1>5. CASE ~Refinds(hosts[Role(p)], seen)
  BY <1>1, <1>2, <1>3, <1>5, LiveApplying
<1> QED BY <1>4, <1>5

LEMMA LiveFind == ASSUME IInv, LiveInv, NEW p \in Run, Find(p) PROVE LiveInv'
<1>1. InProgress(p) /\ UNCHANGED <<hosts, remote>> /\ runs[p].phase = "find"
  BY DEF Find, InProgress
<1>2. ~OnRailway /\ runs[p].alone /\ Role(p) # "database" => Bears(runs[p].given, runs[p], Role(p))
  BY <1>1, RoleOf DEF LiveInv, ReportFits
<1> QED BY <1>1, <1>2, LiveApplying DEF Find

LEMMA LiveCall == ASSUME IInv, LiveInv, NEW p \in Run, Call(p) PROVE LiveInv'
<1>1. runs[p].phase = "calls" /\ runs[p].calls # <<>> /\ InProgress(p) /\ UNCHANGED hosts
  BY DEF Call, InProgress
<1>2. PICK rest \in {Tail(runs[p].calls), <<"deploy">>} :
        /\ Effect(p, rest)
        /\ runs' = [runs EXCEPT ![p].calls = rest,
                              ![p].seen = IF @ = 0 THEN Len(remote'[Role(p)]) ELSE @]
  BY DEF Call
<1>3. /\ IsJob(runs[p]) /\ RolesFit(runs[p]) /\ runs = [q \in Run |-> runs[q]]
      /\ Role(p) \in Roles /\ Role(p) = RoleIn(runs[p])
  BY <1>1, RoleOf DEF IInv, JobShape, LiveInv
<1>4. PICK seen : seen = IF runs[p].seen = 0 THEN Len(remote'[Role(p)]) ELSE runs[p].seen
  OBVIOUS
<1> PICK j : j = [runs[p] EXCEPT !.calls = rest, !.seen = seen]
  OBVIOUS
<1> PICK R : R = Role(p)
  OBVIOUS
<1>5. runs' = [runs EXCEPT ![p] = j]
  BY <1>2, <1>3, <1>4 DEF IsJob, Fields
<1>6. /\ j.phase = "calls" /\ j.alone = runs[p].alone /\ j.roles = runs[p].roles /\ j.done = runs[p].done
      /\ j.outputs = runs[p].outputs /\ j.secret = runs[p].secret /\ j.given = runs[p].given /\ j.seen = seen /\ j.calls = rest
  BY <1>1, <1>3 DEF IsJob, Fields
<1>7. Left(j) = Left(runs[p]) /\ RoleIn(j) = R /\ RolesFit(j)
  BY <1>1, <1>3, <1>6 DEF Left, RoleIn, RolesFit
<1>8. RoleIn(j)' = RoleIn(j)
  BY DEF RoleIn, Left
<1>9. Role(p) \in Roles => seen # 0
  <2>1. Role(p) \in Roles => (runs[p].seen = 0 => Len(remote'[Role(p)]) # 0)
    BY <1>1, <1>2, Effects
  <2> QED BY <1>4, <2>1
<1>10. ASSUME ~OnRailway PROVE DatabasesLead' /\ MakesDatabase(j)
  <2>1. DatabasesLead' /\ (R = "database" => rest = <<>>)
    BY <1>1, <1>2, <1>10, LeadsOn
  <2> QED BY <1>3, <1>6, <1>7, <1>9, <2>1 DEF MakesDatabase
<1>11. ASSUME ~OnRailway, j.alone PROVE ReportFits(j)'
  <2>1. \A r \in Roles : r # Role(p) => remote'[r] = remote[r]
    BY <1>2, Elsewhere
  <2>2. /\ OutputsFit(j)
        /\ \A r \in DOMAIN j.done : j.done[r] \in DOMAIN remote'[r] /\ Bears(remote'[r][j.done[r]].live, j, r)
    BY <1>1, <1>6, <1>11, <2>1, DoneStays
  <2>3. R # "database" => Bears(j.given, runs[p], R)
    BY <1>1, <1>3, <1>6, <1>11 DEF LiveInv, ReportFits
  <2>4. /\ seen \in DOMAIN remote'[R]
        /\ R # "database" /\ rest = <<"deploy">> => Bears(remote'[R][seen].vars, runs[p], R)
        /\ R # "database" /\ rest = <<>> => Bears(remote'[R][seen].live, runs[p], R)
    BY <1>1, <1>2, <1>4, <1>6, <1>11, GetsThere
  <2>5. /\ R # "database" => Bears(j.given, j, R)
        /\ R # "database" /\ rest = <<"deploy">> => Bears(remote'[R][seen].vars, j, R)
        /\ R # "database" /\ rest = <<>> => Bears(remote'[R][seen].live, j, R)
    <3>1. \A values, r : Bears(values, runs[p], r) <=> Bears(values, j, r)
      BY <1>6, SameExpected
    <3> QED BY <2>3, <2>4, <3>1
  <2>6. OutputsFit(j)' /\ \A values, r : Bears(values, j, r)' <=> Bears(values, j, r)
    BY <2>2 DEF OutputsFit, Bears, Expected
  <2>7. seen # 0 /\ j.phase \in {"find", "calls"}
    BY <1>3, <1>6, <1>9
  <2> QED BY <1>6, <1>7, <1>8, <2>2, <2>4, <2>5, <2>6, <2>7 DEF ReportFits
<1>12. ~OnRailway => /\ DatabasesLead' /\ MakesDatabase(j)
                     /\ j.alone => runs[p].alone /\ ReportFits(j)'
  BY <1>6, <1>10, <1>11
<1> QED BY <1>1, <1>5, <1>7, <1>12, RunMoves

LEMMA LiveLost == ASSUME IInv, LiveInv, NEW p \in Run, Lost(p) PROVE LiveInv'
<1>1. runs[p].phase = "calls" /\ runs[p].calls # <<>> /\ InProgress(p) /\ UNCHANGED hosts
      /\ runs' = [runs EXCEPT ![p] = Ended(runs[p], "failed")]
  BY DEF Lost, InProgress
<1>2. PICK rest : Effect(p, rest)
  BY DEF Lost
<1>3. ~OnRailway => DatabasesLead'
  BY <1>1, <1>2, LeadsOn
<1>4. \A r \in Roles : r # Role(p) => remote'[r] = remote[r]
  BY <1>2, Elsewhere
<1> QED BY <1>1, <1>3, <1>4, LiveEnding

LEMMA LiveFail == ASSUME IInv, LiveInv, NEW p \in Run, Fail(p) PROVE LiveInv'
<1>1. InProgress(p) /\ UNCHANGED <<hosts, remote>> /\ runs' = [runs EXCEPT ![p] = Ended(runs[p], "failed")]
  BY DEF Fail
<1>2. ~OnRailway => DatabasesLead'
  BY <1>1 DEF LiveInv, DatabasesLead
<1> QED BY <1>1, <1>2, LiveEnding

\* What a role returns leads to what was applied.
LEMMA OutputsLead ==
  ASSUME NEW p \in Run, NEW role, NEW out \in Outputs(p, role), role \in Roles, DatabasesLead,
         role = "database" => out # NoVars, runs[p].seen \in DOMAIN remote[role]
  PROVE  /\ DOMAIN out \subseteq {"DATABASE_URL", "RT_APP_API_URL", "RT_APP_SSR_URL"}
         /\ "DATABASE_URL" \in DOMAIN out <=> role = "database"
         /\ "RT_APP_API_URL" \in DOMAIN out => role = "api"
         /\ \A n \in DOMAIN out : out[n] = runs[p].seen
<1> DEFINE seen == runs[p].seen
<1>1. CASE role = "database"
  <2>1. remote["database"][seen].vars = Only("DATABASE_URL", seen)
    BY <1>1 DEF DatabasesLead
  <2>2. out = Restrict(Only("DATABASE_URL", seen), DOMAIN Only("DATABASE_URL", seen) \cap {"DATABASE_URL"})
    BY <1>1, <2>1 DEF Outputs
  <2> QED BY <1>1, <2>2 DEF Restrict, Only
<1>2. CASE role = "api"
  <2>1. out = Only("RT_APP_API_URL", seen) \/ out = NoVars
    BY <1>2 DEF Outputs
  <2> QED BY <1>2, <2>1, NothingGiven DEF Only
<1>3. CASE role = "ssr"
  <2>1. out = Only("RT_APP_SSR_URL", seen) \/ out = NoVars
    BY <1>3 DEF Outputs
  <2> QED BY <1>3, <2>1, NothingGiven DEF Only
<1> QED BY <1>1, <1>2, <1>3, RolesAre

\* The API expects no more of a run that has reported the same of its database.
LEMMA ApiExpects ==
  ASSUME NEW j, NEW k, j.secret = k.secret,
         "database" \in DOMAIN j.done => "database" \in DOMAIN k.done,
         "database" \in DOMAIN k.done => j.done["database"] = k.done["database"]
  PROVE  Expected(j, "api") \subseteq Expected(k, "api")
<1> SUFFICES ASSUME NEW e \in Expected(j, "api") PROVE e \in Expected(k, "api")
  OBVIOUS
<1>1. /\ Expected(j, "api") = {<<"JWT_SECRET", j.secret>>} \cup {<<"DATABASE_URL", j.done[r]>> : r \in DOMAIN j.done \cap {"database"}}
      /\ Expected(k, "api") = {<<"JWT_SECRET", k.secret>>} \cup {<<"DATABASE_URL", k.done[r]>> : r \in DOMAIN k.done \cap {"database"}}
  BY DEF Expected
<1>2. CASE e = <<"JWT_SECRET", j.secret>>
  BY <1>1, <1>2
<1>3. CASE "database" \in DOMAIN j.done /\ e = <<"DATABASE_URL", j.done["database"]>>
  <2>1. e = <<"DATABASE_URL", k.done["database"]>> /\ "database" \in DOMAIN k.done \cap {"database"}
    BY <1>3
  <2> QED BY <1>1, <2>1
<1> QED BY <1>1, <1>2, <1>3

LEMMA Added ==
  ASSUME NEW new, NEW old
  PROVE  /\ DOMAIN Over(new, old) = DOMAIN new \cup DOMAIN old
         /\ \A n \in DOMAIN new : Over(new, old)[n] = new[n]
         /\ \A n \in DOMAIN old : n \notin DOMAIN new => Over(new, old)[n] = old[n]
BY DEF Over

\* A role has been applied: it is live, what was applied before does not expect more for it, and
\* what it returns leads to it.
LEMMA LiveContinued ==
  ASSUME IInv, LiveInv, NEW p \in Run, runs[p].phase = "calls", runs[p].calls = <<>>, UNCHANGED <<hosts, remote>>,
         NEW out \in Outputs(p, Role(p)), Role(p) = "database" => out # NoVars,
         runs' = [runs EXCEPT ![p] = Continued(p, out)]
  PROVE  LiveInv'
<1> PICK R : R = Role(p)
  OBVIOUS
<1> PICK k : k = runs[p]
  OBVIOUS
<1> PICK mine : mine = Only(R, k.seen)
  OBVIOUS
<1> PICK run : run = [k EXCEPT !.outputs = Over(out, @), !.done = Over(mine, @)]
  OBVIOUS
<1> PICK phase : phase = IF Left(run) = {} THEN "done" ELSE "plan"
  OBVIOUS
<1> PICK j : j = Ended(run, phase)
  OBVIOUS
<1>1. InProgress(p) /\ IsJob(k) /\ RolesFit(k) /\ k.phase = "calls" /\ k.calls = <<>>
  BY DEF InProgress, IInv, JobShape, LiveInv
<1>2. R \in Roles /\ R = RoleIn(k) /\ R \notin DOMAIN k.done /\ R \in k.roles
  BY <1>1, RoleOf
<1>3. Continued(p, out) = j
  BY DEF Continued
<1>4. /\ run.roles = k.roles /\ run.done = Over(mine, k.done) /\ DOMAIN run = Fields
      /\ run.outputs = Over(out, k.outputs) /\ run.secret = k.secret /\ run.alone = k.alone
  BY <1>1 DEF IsJob, Fields
<1>5. /\ j.phase = phase /\ j.alone = k.alone /\ j.roles = k.roles /\ j.secret = k.secret
      /\ j.done = Over(mine, k.done) /\ j.outputs = Over(out, k.outputs)
  BY <1>4 DEF Ended, Fields
<1>6. /\ DOMAIN j.done = DOMAIN k.done \cup {R} /\ j.done[R] = k.seen
      /\ \A r \in DOMAIN k.done : j.done[r] = k.done[r]
  <2>1. DOMAIN mine = {R} /\ mine[R] = k.seen
    BY DEF Only
  <2>2. PICK done : done = k.done
    OBVIOUS
  <2>3. j.done = Over(mine, done)
    BY <1>5, <2>2
  <2>4. /\ DOMAIN Over(mine, done) = DOMAIN mine \cup DOMAIN done
        /\ \A n \in DOMAIN mine : Over(mine, done)[n] = mine[n]
        /\ \A n \in DOMAIN done : n \notin DOMAIN mine => Over(mine, done)[n] = done[n]
    BY DEF Over
  <2> QED BY <1>2, <2>1, <2>2, <2>3, <2>4
<1>7. Left(j) = Left(k) \ {R} /\ Left(run) = Left(j) /\ Left(k) # {} /\ Left(k) \in SUBSET Roles /\ R = First(Left(k))
  BY <1>1, <1>2, <1>4, <1>5, <1>6 DEF Left, RolesFit, RoleIn
<1>8. (R = "ssr" => Left(j) = {}) /\ ("database" \in Left(k) => R = "database")
  BY <1>7, FirstIsLeft
<1>9. RolesFit(j)
  <2>1. j.phase \in {"plan", "find", "calls"} => Left(j) # {}
    BY <1>5, <1>7
  <2>2. "ssr" \in DOMAIN j.done => Left(j) = {}
    BY <1>1, <1>6, <1>7, <1>8 DEF RolesFit
  <2>3. "api" \in DOMAIN j.done /\ "database" \in j.roles => "database" \in DOMAIN j.done
    BY <1>1, <1>2, <1>5, <1>6, <1>8 DEF RolesFit, Left
  <2> QED BY <1>1, <1>2, <1>5, <1>6, <2>1, <2>2, <2>3 DEF RolesFit
<1>10. MakesDatabase(j)
  BY <1>5 DEF MakesDatabase
<1>11. ASSUME ~OnRailway, j.alone PROVE ReportFits(j)'
  <2>1. ReportFits(k) /\ DatabasesLead
    BY <1>5, <1>11 DEF LiveInv
  <2>2. k.seen # 0
    <3>1. k.calls \in IF k.seen = 0 THEN Makes ELSE Updates
      BY <1>1, <1>2 DEF IInv, CallsInOrder
    <3>2. <<>> # <<"build">> /\ <<>> # <<"create", "set", "deploy">>
      OBVIOUS
    <3> QED BY <1>1, <3>1, <3>2 DEF Makes
  <2>3. /\ OutputsFit(k) /\ k.seen \in DOMAIN remote[R]
        /\ R # "database" => Bears(remote[R][k.seen].live, k, R)
        /\ \A r \in DOMAIN k.done : k.done[r] \in DOMAIN remote[r] /\ Bears(remote[r][k.done[r]].live, k, r)
    BY <1>1, <1>2, <2>1, <2>2 DEF ReportFits
  <2>4. /\ DOMAIN out \subseteq {"DATABASE_URL", "RT_APP_API_URL", "RT_APP_SSR_URL"}
        /\ "DATABASE_URL" \in DOMAIN out <=> R = "database"
        /\ "RT_APP_API_URL" \in DOMAIN out => R = "api"
        /\ \A n \in DOMAIN out : out[n] = k.seen
    BY <1>2, <2>1, <2>3, OutputsLead
  <2>5. /\ DOMAIN j.outputs = DOMAIN out \cup DOMAIN k.outputs
        /\ \A n \in DOMAIN out : j.outputs[n] = out[n]
        /\ \A n \in DOMAIN k.outputs : n \notin DOMAIN out => j.outputs[n] = k.outputs[n]
    <3>1. PICK outs : outs = k.outputs
      OBVIOUS
    <3>2. j.outputs = Over(out, outs)
      BY <1>5, <3>1
    <3>3. /\ DOMAIN Over(out, outs) = DOMAIN out \cup DOMAIN outs
          /\ \A n \in DOMAIN out : Over(out, outs)[n] = out[n]
          /\ \A n \in DOMAIN outs : n \notin DOMAIN out => Over(out, outs)[n] = outs[n]
      BY Added
    <3> QED BY <3>1, <3>2, <3>3
  <2>6. OutputsFit(j)
    <3>1. "JWT_SECRET" \notin DOMAIN j.outputs
      BY <2>3, <2>4, <2>5 DEF OutputsFit
    <3>2. "database" \in DOMAIN j.done =>
            "DATABASE_URL" \in DOMAIN j.outputs /\ j.outputs["DATABASE_URL"] = j.done["database"]
      <4>1. CASE R = "database"
        <5>1. "DATABASE_URL" \in DOMAIN out /\ "DATABASE_URL" \in DOMAIN j.outputs /\ j.outputs["DATABASE_URL"] = k.seen
          BY <2>4, <2>5, <4>1
        <5> QED BY <1>6, <4>1, <5>1
      <4>2. CASE R # "database"
        BY <1>6, <2>3, <2>4, <2>5, <4>2 DEF OutputsFit
      <4> QED BY <4>1, <4>2
    <3>3. "RT_APP_API_URL" \in DOMAIN j.outputs =>
            "api" \in DOMAIN j.done /\ j.outputs["RT_APP_API_URL"] = j.done["api"]
      <4>1. CASE "RT_APP_API_URL" \in DOMAIN out
        <5>1. R = "api" /\ j.outputs["RT_APP_API_URL"] = k.seen
          BY <2>4, <2>5, <4>1
        <5> QED BY <1>6, <5>1
      <4>2. CASE "RT_APP_API_URL" \notin DOMAIN out
        BY <1>2, <1>6, <2>3, <2>5, <4>2 DEF OutputsFit
      <4> QED BY <4>1, <4>2
    <3> QED BY <3>1, <3>2, <3>3 DEF OutputsFit
  <2>7. ASSUME NEW r \in DOMAIN k.done PROVE Expected(j, r) \subseteq Expected(k, r)
    <3>1. r # "ssr" /\ r # R /\ r \in Roles /\ j.done[r] = k.done[r]
      BY <1>1, <1>2, <1>6, <1>7 DEF RolesFit
    <3>2. r = "api" => DOMAIN j.done \cap {"database"} = DOMAIN k.done \cap {"database"}
      BY <1>1, <1>2, <1>6 DEF RolesFit
    <3>3. CASE r = "database"
      BY <3>1, <3>3 DEF Expected
    <3>4. CASE r = "api"
      <4>1. "database" \in DOMAIN j.done => "database" \in DOMAIN k.done
        BY <3>2, <3>4
      <4>2. "database" \in DOMAIN k.done => j.done["database"] = k.done["database"]
        BY <1>6
      <4> QED BY <1>5, <3>4, <4>1, <4>2, ApiExpects
    <3> QED BY <3>1, <3>3, <3>4, RolesAre
  <2>8. R # "database" => Expected(j, R) \subseteq Expected(k, R)
    <3>1. CASE R = "api"
      <4>1. "database" \in DOMAIN j.done => "database" \in DOMAIN k.done
        BY <1>6, <3>1
      <4>2. "database" \in DOMAIN k.done => j.done["database"] = k.done["database"]
        BY <1>6
      <4> QED BY <1>5, <3>1, <4>1, <4>2, ApiExpects
    <3>2. CASE R = "ssr"
      <4>1. DOMAIN j.outputs \cap {"RT_APP_API_URL"} = DOMAIN k.outputs \cap {"RT_APP_API_URL"}
        BY <2>4, <2>5, <3>2
      <4>2. "RT_APP_API_URL" \in DOMAIN k.outputs => j.done["api"] = k.done["api"]
        BY <1>6, <2>3 DEF OutputsFit
      <4> QED BY <3>2, <4>1, <4>2 DEF Expected
    <3> QED BY <1>2, <3>1, <3>2, RolesAre
  <2>9. Bears(remote[R][k.seen].live, j, R)
    <3>1. CASE R = "database"
      <4>1. remote[R][k.seen].live = Only("DATABASE_URL", k.seen)
        BY <2>1, <2>3, <3>1 DEF DatabasesLead
      <4>2. Expected(j, R) = {<<"DATABASE_URL", k.seen>>}
        BY <1>6, <3>1 DEF Expected
      <4> QED BY <4>1, <4>2 DEF Bears, Only
    <3>2. CASE R # "database"
      BY <2>3, <2>8, <3>2 DEF Bears
    <3> QED BY <3>1, <3>2
  <2>10. \A r \in DOMAIN j.done : j.done[r] \in DOMAIN remote[r] /\ Bears(remote[r][j.done[r]].live, j, r)
    <3>1. ASSUME NEW r \in DOMAIN k.done
          PROVE  j.done[r] \in DOMAIN remote[r] /\ Bears(remote[r][j.done[r]].live, j, r)
      <4>1. j.done[r] = k.done[r]
        BY <1>6
      <4>2. k.done[r] \in DOMAIN remote[r] /\ Bears(remote[r][k.done[r]].live, k, r)
        BY <2>3
      <4>3. Bears(remote[r][k.done[r]].live, j, r)
        BY <2>7, <4>2 DEF Bears
      <4> QED BY <4>1, <4>2, <4>3
    <3>2. j.done[R] \in DOMAIN remote[R] /\ Bears(remote[R][j.done[R]].live, j, R)
      BY <1>6, <2>3, <2>9
    <3>3. \A r \in DOMAIN j.done : r \in DOMAIN k.done \/ r = R
      BY <1>6
    <3> QED BY <3>1, <3>2, <3>3
  <2>11. OutputsFit(j)' /\ \A values, r : Bears(values, j, r)' <=> Bears(values, j, r)
    BY <2>6 DEF OutputsFit, Bears, Expected
  <2>12. j.phase \notin {"find", "calls"}
    BY <1>5
  <2> QED BY <2>10, <2>11, <2>12 DEF ReportFits
<1>12. ~OnRailway => /\ DatabasesLead' /\ MakesDatabase(j)
                     /\ j.alone => runs[p].alone /\ ReportFits(j)'
  BY <1>5, <1>10, <1>11 DEF LiveInv, DatabasesLead
<1> QED BY <1>1, <1>3, <1>9, <1>12, RunMoves

LEMMA LiveApplied == ASSUME IInv, LiveInv, NEW p \in Run, Applied(p) PROVE LiveInv'
<1>1. InProgress(p) /\ runs[p].phase = "calls" /\ runs[p].calls = <<>> /\ UNCHANGED <<hosts, remote>>
  BY DEF Applied, InProgress
<1>2. PICK out \in Outputs(p, Role(p)) :
        runs' = [runs EXCEPT ![p] = IF Role(p) = "database" /\ out = NoVars THEN Ended(@, "failed") ELSE Continued(p, out)]
  BY DEF Applied
<1>3. ~OnRailway => DatabasesLead'
  BY <1>1 DEF LiveInv, DatabasesLead
<1>4. CASE Role(p) = "database" /\ out = NoVars
  BY <1>1, <1>2, <1>3, <1>4, LiveEnding
<1>5. CASE ~(Role(p) = "database" /\ out = NoVars)
  BY <1>1, <1>2, <1>5, LiveContinued
<1> QED BY <1>4, <1>5

LEMMA LiveIdle == ASSUME LiveInv, UNCHANGED <<hosts, remote, runs>> PROVE LiveInv'
<1>1. \A p \in Run : RolesFit(runs[p])'
  BY DEF LiveInv, RolesFit, Left
<1>2. \A p \in Run : MakesDatabase(runs[p])' <=> MakesDatabase(runs[p])
  BY DEF MakesDatabase, RoleIn, Left
<1>3. \A p \in Run : ReportFits(runs[p])' <=> ReportFits(runs[p])
  BY DEF ReportFits, RoleIn, Left, OutputsFit, Bears, Expected
<1> QED BY <1>1, <1>2, <1>3 DEF LiveInv, OnRailway, DatabasesLead

LEMMA LiveNext == IInv /\ LiveInv /\ [Next]_vars => LiveInv'
<1> SUFFICES ASSUME IInv, LiveInv, [Next]_vars PROVE LiveInv'
  OBVIOUS
<1>1. CASE Rotate
  BY <1>1, LiveIdle DEF Rotate
<1>2. CASE UNCHANGED vars
  BY <1>2, LiveIdle DEF vars
<1>3. CASE \E p \in Run : Begin(p) \/ PlanRole(p) \/ Find(p) \/ Call(p) \/ Lost(p) \/ Fail(p) \/ Applied(p)
  BY <1>3, LiveBegin, LivePlan, LiveFind, LiveCall, LiveLost, LiveFail, LiveApplied
<1> QED BY <1>1, <1>2, <1>3 DEF Next

\* What a run without a rival reports is deployed, with the variables that lead to its earlier
\* roles (applyEnvironment).
THEOREM ReportsAreTrue == Spec => []DeploymentsAreTrue
<1>1. Init => LiveInv
  BY LiveInitially
<1>2. IInv /\ LiveInv /\ [Next]_vars => LiveInv'
  BY LiveNext
<1>3. LiveInv => DeploymentsAreTrue
  BY DEF LiveInv, OnRailway, DeploymentsAreTrue, ReportedIsLive, ReportFits, Bears
<1>4. Spec => []IInv
  BY Invariance
<1> QED BY <1>1, <1>2, <1>3, <1>4, PTL DEF Spec

-----------------------------------------------------------------------------
(* The plans of an infrastructure.                                         *)

PlanRow ==
  [state : {"none", "planned", "running", "applied", "uncertain"}, version : Nat, settings : Nat, expires : Nat]
Trail == [started : Nat, applied : Nat, uncertain : Nat]
ApplyingPlan == {"create", "complete", "doubt"}
ForPlan == {"plan", "settings", "start"} \cup ApplyingPlan
Serving ==
  [phase : ForPlan, plan : PlanId, settings : Nat, row : PlanRow]
    \cup [phase : {"configure"}, plan : {0}, settings : Nat, row : PlanRow] \cup {P!Idle}

PlansShape ==
  /\ clock \in Nat /\ settings \in Nat
  /\ plans \in [PlanId -> PlanRow]
  /\ trail \in [PlanId -> Trail]
  /\ made \in [PlanId -> Seq(Nat)]
  /\ request \in [Request -> Serving]

\* What a plan, its audit and what was made of it are together.
PlanFits(row, log, list) ==
  /\ row.version = CASE row.state = "none" -> 0 [] row.state = "planned" -> 1
                     [] row.state = "running" -> 2 [] OTHER -> 3
  /\ log = [started |-> IF row.state \in {"none", "planned"} THEN 0 ELSE 1,
            applied |-> IF row.state = "applied" THEN 1 ELSE 0,
            uncertain |-> IF row.state = "uncertain" THEN 1 ELSE 0]
  /\ row.state \in {"none", "planned"} => list = <<>>
  /\ row.state = "applied" => list # <<>>
  /\ list = <<>> \/ list = <<row.settings>>

\* What a request that serves a plan knows of it: it is planned and keeps its settings, and who
\* applies it is the only one that goes on with it.
RequestFits(q, row, list) ==
  /\ q.phase = "plan" => row.state = "none"
  /\ q.phase \in {"settings", "start"} => row.state # "none" /\ q.row.state = "planned" /\ q.row.version = 1
  /\ q.phase \in ApplyingPlan => /\ row.state \notin {"none", "planned"}
                             /\ q.row.state = "running" /\ q.row.version = 2
  /\ q.phase # "plan" => q.row.settings = row.settings
  /\ q.phase \in {"start"} \cup ApplyingPlan => q.settings = row.settings
  /\ q.phase = "create" => row.state = "running" /\ list = <<>>
  /\ q.phase = "complete" => row.state = "running" /\ list # <<>>

RequestsFit ==
  \A r \in Request : request[r].phase \in ForPlan =>
    RequestFits(request[r], plans[request[r].plan], made[request[r].plan])

OneApplies ==
  \A r, s \in Request :
    r # s /\ request[r].phase \in {"plan"} \cup ApplyingPlan /\ request[s].phase \in {"plan"} \cup ApplyingPlan
      => request[r].plan # request[s].plan

PlansInv ==
  /\ PlansShape
  /\ \A p \in PlanId : PlanFits(plans[p], trail[p], made[p])
  /\ RequestsFit /\ OneApplies

-----------------------------------------------------------------------------
LEMMA ServingShape ==
  ASSUME NEW q \in Serving
  PROVE  /\ q.phase \in ForPlan \cup {"configure", "idle"}
         /\ q.phase \in ForPlan => q.plan \in PlanId /\ q.row \in PlanRow
         /\ q.phase # "idle" => q.settings \in Nat
         /\ q.phase \in ForPlan => q \in [phase : ForPlan, plan : PlanId, settings : Nat, row : PlanRow]
BY DEF Serving, P!Idle, ForPlan, ApplyingPlan

\* The step of a request that writes no plan.
LEMMA OneRequestServes ==
  ASSUME PlansInv, NEW r \in Request, NEW q \in Serving, request' = [request EXCEPT ![r] = q],
         UNCHANGED <<plans, trail, made>>, clock' \in Nat, settings' \in Nat,
         q.phase \in ForPlan => RequestFits(q, plans[q.plan], made[q.plan]),
         q.phase \in {"plan"} \cup ApplyingPlan =>
           \A s \in Request \ {r} : request[s].phase \in {"plan"} \cup ApplyingPlan => request[s].plan # q.plan
  PROVE  PlansInv'
<1>1. PlansShape'
  BY DEF PlansInv, PlansShape
<1>2. RequestsFit'
  BY DEF PlansInv, PlansShape, RequestsFit
<1>3. OneApplies'
  BY DEF PlansInv, PlansShape, OneApplies
<1> QED BY <1>1, <1>2, <1>3 DEF PlansInv

\* The step of a request that writes its plan, or what is made of it.
LEMMA OnePlanChanges ==
  ASSUME PlansInv, PlansShape', NEW r \in Request, NEW p \in PlanId,
         \A s \in Request \ {r} : request'[s] = request[s],
         \A n \in PlanId \ {p} : plans'[n] = plans[n] /\ trail'[n] = trail[n] /\ made'[n] = made[n],
         PlanFits(plans'[p], trail'[p], made'[p]),
         request'[r].phase \in ForPlan => request'[r].plan = p /\ RequestFits(request'[r], plans'[p], made'[p]),
         request'[r].phase \in {"plan"} \cup ApplyingPlan =>
           \A s \in Request \ {r} : request[s].phase \in {"plan"} \cup ApplyingPlan => request[s].plan # request'[r].plan,
         \A s \in Request \ {r} :
           request[s].phase \in ForPlan /\ request[s].plan = p => RequestFits(request[s], plans'[p], made'[p])
  PROVE  PlansInv'
<1>1. RequestsFit'
  <2> SUFFICES ASSUME NEW s \in Request, request'[s].phase \in ForPlan
               PROVE  RequestFits(request'[s], plans'[request'[s].plan], made'[request'[s].plan])
    BY DEF RequestsFit
  <2>1. CASE s = r
    BY <2>1
  <2>2. CASE s # r
    <3>1. request'[s] = request[s] /\ request[s].plan \in PlanId
      BY <2>2, ServingShape DEF PlansInv, PlansShape
    <3>2. CASE request[s].plan = p
      BY <2>2, <3>1, <3>2
    <3>3. CASE request[s].plan # p
      BY <2>2, <3>1, <3>3 DEF PlansInv, RequestsFit
    <3> QED BY <3>2, <3>3
  <2> QED BY <2>1, <2>2
<1>2. OneApplies'
  <2> SUFFICES ASSUME NEW s \in Request, NEW t \in Request, s # t, request'[s].phase \in {"plan"} \cup ApplyingPlan,
                      request'[t].phase \in {"plan"} \cup ApplyingPlan
               PROVE  request'[s].plan # request'[t].plan
    BY DEF OneApplies
  <2>1. CASE s # r /\ t # r
    BY <2>1 DEF PlansInv, OneApplies
  <2>2. CASE s = r \/ t = r
    BY <2>2
  <2> QED BY <2>1, <2>2
<1>3. \A n \in PlanId : PlanFits(plans'[n], trail'[n], made'[n])
  BY DEF PlansInv
<1> QED BY <1>1, <1>2, <1>3 DEF PlansInv

LEMMA ServingEnds ==
  ASSUME PlansInv, NEW r \in Request, P!Ends(r), UNCHANGED <<plans, trail, made>>, clock' \in Nat, settings' \in Nat
  PROVE  PlansInv'
<1>1. P!Idle \in Serving /\ P!Idle.phase \notin ForPlan /\ P!Idle.phase \notin {"plan"} \cup ApplyingPlan
  BY DEF Serving, P!Idle, ForPlan, ApplyingPlan
<1> QED BY <1>1, OneRequestServes DEF P!Ends

\* The plan of a request that applies it stays the plan of no other that does.
LEMMA RivalsElsewhere ==
  ASSUME PlansInv, NEW r \in Request, request[r].phase \in {"plan"} \cup ApplyingPlan
  PROVE  \A s \in Request \ {r} : request[s].phase \in {"plan"} \cup ApplyingPlan => request[s].plan # request[r].plan
BY DEF PlansInv, OneApplies

\* The write of a state by whoever read the plan before it.
LEMMA WriteOfAState ==
  ASSUME PlansInv, NEW r \in Request, request[r].phase \in {"start", "complete", "doubt"}, P!Same(r),
         NEW state \in {"running", "applied", "uncertain"}, NEW log \in {"started", "applied", "uncertain"},
         P!Writes(r, state, log),
         request[r].phase = "start" => state = "running" /\ log = "started",
         request[r].phase # "start" => state = log /\ log # "started",
         state = "applied" => request[r].phase = "complete",
         UNCHANGED <<clock, settings, made>>,
         NEW q \in Serving, request' = [request EXCEPT ![r] = q],
         \/ q = P!Idle
         \/ q = [request[r] EXCEPT !.phase = "doubt"] /\ request[r].phase = "complete"
         \/ /\ q = [request[r] EXCEPT !.phase = "create", !.row = P!Started(request[r].row)]
            /\ request[r].phase = "start"
  PROVE  PlansInv'
<1> DEFINE p == request[r].plan
           row == [request[r].row EXCEPT !.state = state, !.version = request[r].row.version + 1]
           next == [trail[p] EXCEPT ![log] = trail[p][log] + 1]
           list == made[p]
<1>1. /\ request[r] \in [phase : ForPlan, plan : PlanId, settings : Nat, row : PlanRow]
      /\ p \in PlanId /\ request[r].row \in PlanRow /\ trail[p] \in Trail /\ list \in Seq(Nat) /\ plans[p] \in PlanRow
  BY ServingShape DEF PlansInv, PlansShape, ForPlan, ApplyingPlan
<1>2. RequestFits(request[r], plans[p], list) /\ PlanFits(plans[p], trail[p], list)
  BY <1>1 DEF PlansInv, RequestsFit, ForPlan, ApplyingPlan
<1>3. row \in PlanRow /\ row.state = state /\ row.version = request[r].row.version + 1 /\ row.settings = request[r].row.settings
  <2>1. request[r].row \in PlanRow /\ request[r].row.version + 1 \in Nat
    BY <1>1 DEF PlanRow
  <2> QED BY <2>1 DEF PlanRow
<1>4. plans' = [plans EXCEPT ![p] = row]
  BY <1>1 DEF P!Writes
<1>5. trail' = [trail EXCEPT ![p] = next] /\ next \in Trail
  <2>1. trail[p] \in Trail /\ trail' = [trail EXCEPT ![p] = [trail[p] EXCEPT ![log] = trail[p][log] + 1]]
    BY <1>1 DEF P!Writes, PlansInv, PlansShape
  <2>2. CASE log = "started"
    BY <2>1, <2>2 DEF Trail
  <2>3. CASE log = "applied"
    BY <2>1, <2>3 DEF Trail
  <2>4. CASE log = "uncertain"
    BY <2>1, <2>4 DEF Trail
  <2> QED BY <2>1, <2>2, <2>3, <2>4
<1>6. made' = [made EXCEPT ![p] = list]
  BY <1>1 DEF PlansInv, PlansShape
<1>7. /\ plans[p].version = request[r].row.version /\ row.settings = plans[p].settings
      /\ plans[p].state = IF request[r].phase = "start" THEN "planned" ELSE "running"
      /\ row.version = IF request[r].phase = "start" THEN 2 ELSE 3
  BY <1>1, <1>2, <1>3 DEF P!Same, RequestFits, PlanFits, PlanRow, ApplyingPlan
<1>8. PlanFits(row, next, list)
  <2>1. row.version = CASE row.state = "none" -> 0 [] row.state = "planned" -> 1
                        [] row.state = "running" -> 2 [] OTHER -> 3
    BY <1>3, <1>7
  <2>2. next = [started |-> IF row.state \in {"none", "planned"} THEN 0 ELSE 1,
                applied |-> IF row.state = "applied" THEN 1 ELSE 0,
                uncertain |-> IF row.state = "uncertain" THEN 1 ELSE 0]
    BY <1>1, <1>2, <1>3, <1>7 DEF PlanFits, Trail
  <2>3. /\ row.state \notin {"none", "planned"}
        /\ row.state = "applied" => list # <<>>
        /\ list = <<>> \/ list = <<row.settings>>
    BY <1>2, <1>3, <1>7 DEF PlanFits, RequestFits
  <2> QED BY <2>1, <2>2, <2>3 DEF PlanFits
<1>9. q.phase \in ForPlan => q.plan = p /\ RequestFits(q, row, list)
  <2>1. CASE q = P!Idle
    BY <2>1 DEF P!Idle, ForPlan, ApplyingPlan
  <2>2. CASE q = [request[r] EXCEPT !.phase = "doubt"] /\ request[r].phase = "complete"
    <3>1. q.phase = "doubt" /\ q.plan = p /\ q.settings = request[r].settings /\ q.row = request[r].row
      BY <1>1, <2>2
    <3> QED BY <1>2, <1>3, <1>7, <2>2, <3>1 DEF RequestFits, ApplyingPlan
  <2>3. CASE /\ q = [request[r] EXCEPT !.phase = "create", !.row = P!Started(request[r].row)]
             /\ request[r].phase = "start"
    <3>1. /\ q.phase = "create" /\ q.plan = p /\ q.settings = request[r].settings /\ state = "running"
          /\ q.row = row
      <4>1. q.phase = "create" /\ q.plan = p /\ q.settings = request[r].settings /\ q.row = P!Started(request[r].row)
        BY <1>1, <2>3
      <4>2. P!Started(request[r].row) = row
        BY <1>1, <2>3 DEF P!Started, PlanRow
      <4> QED BY <2>3, <4>1, <4>2
    <3>2. plans[p].state = "planned" /\ row.version = 2 /\ list = <<>>
      BY <1>2, <1>7, <2>3 DEF PlanFits
    <3> QED BY <1>2, <1>3, <1>7, <2>3, <3>1, <3>2 DEF RequestFits, ApplyingPlan
  <2> QED BY <2>1, <2>2, <2>3
<1>10. ASSUME NEW s \in Request \ {r}, request[s].phase \in ForPlan, request[s].plan = p
       PROVE  RequestFits(request[s], row, list)
  <2>1. RequestFits(request[s], plans[p], list)
    BY <1>10 DEF PlansInv, RequestsFit
  <2>2. request[r].phase # "start" => request[s].phase \notin ApplyingPlan
    BY <1>10, RivalsElsewhere DEF ApplyingPlan
  <2>3. request[r].phase = "start" => request[s].phase \notin ApplyingPlan \cup {"plan"}
    BY <1>7, <2>1 DEF RequestFits
  <2>4. request[s].phase # "plan"
    BY <1>7, <2>1 DEF RequestFits
  <2> QED BY <1>3, <1>7, <2>1, <2>2, <2>3, <2>4 DEF RequestFits, ApplyingPlan
<1>11. q.phase \in {"plan"} \cup ApplyingPlan =>
         \A s \in Request \ {r} : request[s].phase \in {"plan"} \cup ApplyingPlan => request[s].plan # q.plan
  <2>1. CASE q.phase \notin {"plan"} \cup ApplyingPlan
    BY <2>1
  <2>2. CASE q.phase \in {"plan"} \cup ApplyingPlan
    <3>1. q.plan = p
      BY <1>9, <2>2 DEF ForPlan
    <3>2. CASE request[r].phase # "start"
      BY <3>1, <3>2, RivalsElsewhere DEF ApplyingPlan
    <3>3. CASE request[r].phase = "start"
      <4> SUFFICES ASSUME NEW s \in Request \ {r}, request[s].phase \in {"plan"} \cup ApplyingPlan, request[s].plan = p
                   PROVE  FALSE
        BY <3>1
      <4>1. RequestFits(request[s], plans[p], list)
        BY DEF PlansInv, RequestsFit, ForPlan
      <4> QED BY <1>7, <3>3, <4>1 DEF RequestFits
    <3> QED BY <3>2, <3>3
  <2> QED BY <2>1, <2>2
<1>12. \A s \in Request \ {r} : request[s].phase \in ForPlan /\ request[s].plan = p => RequestFits(request[s], row, list)
  BY <1>10
<1> HIDE DEF row, next, list, p
<1>13. /\ plans'[p] = row /\ trail'[p] = next /\ made'[p] = list /\ request'[r] = q
       /\ \A s \in Request \ {r} : request'[s] = request[s]
       /\ \A n \in PlanId \ {p} : plans'[n] = plans[n] /\ trail'[n] = trail[n] /\ made'[n] = made[n]
  BY <1>1, <1>4, <1>5, <1>6 DEF PlansInv, PlansShape
<1>14. PlansShape'
  BY <1>1, <1>3, <1>4, <1>5 DEF PlansInv, PlansShape
<1> QED BY <1>1, <1>8, <1>9, <1>11, <1>12, <1>13, <1>14, OnePlanChanges

\* The first write of a plan, by the only request that knows of it.
LEMMA PlanIsMade == ASSUME PlansInv, NEW r \in Request, P!Planned(r) PROVE PlansInv'
<1> DEFINE p == request[r].plan
           row == [state |-> "planned", version |-> 1, settings |-> request[r].settings, expires |-> clock + PlanLife]
<1>1. request[r].phase = "plan" /\ p \in PlanId /\ request[r].settings \in Nat /\ clock + PlanLife \in Nat
  BY ServingShape, PlansAssumption DEF P!Planned, PlansInv, PlansShape, ForPlan, PlansAssumption
<1>2. row \in PlanRow
  BY <1>1 DEF PlanRow
<1>3. /\ plans' = [plans EXCEPT ![p] = row] /\ request' = [request EXCEPT ![r] = P!Idle]
      /\ UNCHANGED <<clock, settings, trail, made>>
  BY DEF P!Planned, P!Ends
<1> HIDE DEF row, p
<1>4. P!Idle \in Serving /\ P!Idle.phase \notin ForPlan \cup ApplyingPlan \cup {"plan"}
  BY DEF Serving, P!Idle, ForPlan, ApplyingPlan
<1>5. PlansShape'
  BY <1>1, <1>2, <1>3, <1>4 DEF PlansInv, PlansShape
<1>6. plans[p].state = "none" /\ PlanFits(plans[p], trail[p], made[p])
  BY <1>1 DEF p, PlansInv, RequestsFit, RequestFits, ForPlan
<1>7. PlanFits(row, trail[p], made[p])
  BY <1>6 DEF PlanFits, row
<1>8. ASSUME NEW s \in Request \ {r}, request[s].phase \in ForPlan, request[s].plan = p PROVE FALSE
  <2>1. RequestFits(request[s], plans[p], made[p])
    BY <1>8 DEF PlansInv, RequestsFit
  <2>2. request[s].phase = "plan"
    BY <1>6, <1>8, <2>1 DEF RequestFits, ForPlan
  <2> QED BY <1>1, <1>8, <2>2, RivalsElsewhere DEF p
<1>9. /\ plans'[p] = row /\ trail'[p] = trail[p] /\ made'[p] = made[p] /\ request'[r] = P!Idle
      /\ \A s \in Request \ {r} : request'[s] = request[s]
      /\ \A n \in PlanId \ {p} : plans'[n] = plans[n] /\ trail'[n] = trail[n] /\ made'[n] = made[n]
  BY <1>1, <1>3 DEF PlansInv, PlansShape
<1> QED BY <1>1, <1>4, <1>5, <1>7, <1>8, <1>9, OnePlanChanges

\* The cloud is asked once: nobody else goes on with the plan, and nothing was made of it.
LEMMA ResourceIsMade ==
  ASSUME PlansInv, NEW r \in Request, request[r].phase = "create", NEW phase \in {"complete", "doubt"}, P!Goes(r, phase),
         made' = [made EXCEPT ![request[r].plan] = Append(@, request[r].settings)],
         UNCHANGED <<clock, settings, plans, trail>>
  PROVE  PlansInv'
<1> DEFINE p == request[r].plan
           q == [request[r] EXCEPT !.phase = phase]
           list == <<request[r].settings>>
<1>1. /\ p \in PlanId /\ request[r].settings \in Nat /\ request[r] \in [phase : ForPlan, plan : PlanId, settings : Nat, row : PlanRow]
      /\ RequestFits(request[r], plans[p], made[p]) /\ PlanFits(plans[p], trail[p], made[p])
  BY ServingShape DEF PlansInv, PlansShape, RequestsFit, ForPlan, ApplyingPlan
<1>2. made[p] = <<>> /\ plans[p].state = "running" /\ request[r].settings = plans[p].settings
  BY <1>1 DEF RequestFits, ApplyingPlan
<1>3. made' = [made EXCEPT ![p] = list] /\ list \in Seq(Nat) /\ list # <<>>
  BY <1>1, <1>2 DEF PlansInv, PlansShape
<1>4. /\ q \in Serving /\ q.phase = phase /\ q.plan = p /\ q.settings = request[r].settings /\ q.row = request[r].row
      /\ request' = [request EXCEPT ![r] = q]
  BY <1>1 DEF P!Goes, Serving, ForPlan, ApplyingPlan
<1>5. PlanFits(plans[p], trail[p], list)
  BY <1>1, <1>2 DEF PlanFits
<1>6. RequestFits(q, plans[p], list)
  BY <1>1, <1>2, <1>3, <1>4 DEF RequestFits, ApplyingPlan
<1>7. request[r].phase \in ApplyingPlan
  BY DEF ApplyingPlan
<1> HIDE DEF q, list, p
<1>8. /\ plans'[p] = plans[p] /\ trail'[p] = trail[p] /\ made'[p] = list /\ request'[r] = q
      /\ \A s \in Request \ {r} : request'[s] = request[s]
      /\ \A n \in PlanId \ {p} : plans'[n] = plans[n] /\ trail'[n] = trail[n] /\ made'[n] = made[n]
  BY <1>1, <1>3, <1>4 DEF PlansInv, PlansShape
<1>9. PlansShape'
  BY <1>3, <1>4 DEF PlansInv, PlansShape
<1>10. \A s \in Request \ {r} : request[s].phase \in {"plan"} \cup ApplyingPlan => request[s].plan # p
  BY <1>7, RivalsElsewhere DEF p
<1>11. ASSUME NEW s \in Request \ {r}, request[s].phase \in ForPlan, request[s].plan = p
       PROVE  RequestFits(request[s], plans[p], list)
  <2>1. RequestFits(request[s], plans[p], made[p])
    BY <1>11 DEF PlansInv, RequestsFit
  <2> QED BY <1>10, <1>11, <2>1 DEF RequestFits, ApplyingPlan
<1>12. PlanFits(plans'[p], trail'[p], made'[p]) /\ RequestFits(request'[r], plans'[p], made'[p]) /\ request'[r].plan = p
  BY <1>4, <1>5, <1>6, <1>8
<1>13. \A s \in Request \ {r} :
         request[s].phase \in ForPlan /\ request[s].plan = p => RequestFits(request[s], plans'[p], made'[p])
  BY <1>8, <1>11
<1> QED BY <1>1, <1>8, <1>9, <1>10, <1>12, <1>13, OnePlanChanges

\* A plan makes its resource once, under its settings, and tells what became of it, whoever
\* applies it at the same time, stops or loses an answer (Infrastructure.apply).
THEOREM PlansComeTrue == P!Spec => []PlansAreTrue
<1>1. P!Init => PlansInv
  <2> SUFFICES ASSUME P!Init PROVE PlansInv
    OBVIOUS
  <2>1. P!NoPlan \in PlanRow /\ P!NoTrail \in Trail /\ P!Idle \in Serving /\ PlanFits(P!NoPlan, P!NoTrail, <<>>)
    BY DEF P!NoPlan, P!NoTrail, P!Idle, PlanRow, Trail, Serving, PlanFits
  <2>2. PlansShape /\ \A p \in PlanId : PlanFits(plans[p], trail[p], made[p])
    BY <2>1 DEF P!Init, PlansShape
  <2> QED BY <2>2 DEF P!Init, P!Idle, PlansInv, RequestsFit, OneApplies, ForPlan, ApplyingPlan
<1>2. PlansInv /\ [P!Next]_(P!vars) => PlansInv'
  <2> SUFFICES ASSUME PlansInv, [P!Next]_(P!vars) PROVE PlansInv'
    OBVIOUS
  <2>1. clock \in Nat /\ settings \in Nat /\ \A r \in Request : request[r] \in Serving
    BY DEF PlansInv, PlansShape
  <2>2. ASSUME NEW r \in Request, P!Configure(r) PROVE PlansInv'
    <3> DEFINE q == P!Serving("configure", 0, P!NoPlan)
    <3>1. q \in Serving /\ q.phase = "configure"
      BY <2>1 DEF P!Serving, P!NoPlan, Serving, PlanRow
    <3>2. request' = [request EXCEPT ![r] = q] /\ UNCHANGED <<clock, settings, plans, trail, made>>
      BY <2>2 DEF P!Configure
    <3> HIDE DEF q
    <3> QED BY <2>1, <3>1, <3>2, OneRequestServes DEF ForPlan, ApplyingPlan
  <2>3. ASSUME NEW r \in Request, P!Configured(r) PROVE PlansInv'
    <3>1. settings' \in Nat
      BY <2>1, <2>3 DEF P!Configured
    <3> QED BY <2>1, <2>3, <3>1, ServingEnds DEF P!Configured
  <2>4. ASSUME NEW r \in Request, NEW p \in PlanId, P!PlanFor(r, p) PROVE PlansInv'
    <3> DEFINE q == P!Serving("plan", p, P!NoPlan)
    <3>1. q \in Serving /\ q.phase = "plan" /\ q.plan = p
      BY <2>1 DEF P!Serving, P!NoPlan, Serving, PlanRow, ForPlan
    <3>2. request' = [request EXCEPT ![r] = q] /\ UNCHANGED <<clock, settings, plans, trail, made>> /\ plans[p] = P!NoPlan
      BY <2>4 DEF P!PlanFor
    <3>3. \A s \in Request : request[s].phase \in {"plan"} \cup ApplyingPlan => request[s].plan # p
      BY <2>4 DEF P!PlanFor, P!Idle, ApplyingPlan
    <3> HIDE DEF q
    <3>4. RequestFits(q, plans[q.plan], made[q.plan])
      BY <3>1, <3>2 DEF P!NoPlan, RequestFits, ApplyingPlan
    <3> QED BY <2>1, <3>1, <3>2, <3>3, <3>4, OneRequestServes
  <2>5. ASSUME NEW r \in Request, NEW p \in PlanId, P!Read(r, p) PROVE PlansInv'
    <3> DEFINE q == [P!Serving("settings", p, plans[p]) EXCEPT !.settings = 0]
    <3>1. q \in Serving /\ q.phase = "settings" /\ q.plan = p /\ q.row = plans[p]
      BY <2>1 DEF P!Serving, Serving, ForPlan, PlansInv, PlansShape
    <3>2. /\ request' = [request EXCEPT ![r] = q] /\ UNCHANGED <<clock, settings, plans, trail, made>>
          /\ plans[p].state = "planned" /\ plans[p].version = 1
      BY <2>5 DEF P!Read, P!MayStart, PlansInv, PlanFits
    <3> HIDE DEF q
    <3>3. RequestFits(q, plans[q.plan], made[q.plan])
      BY <3>1, <3>2 DEF RequestFits, ApplyingPlan
    <3> QED BY <2>1, <3>1, <3>2, <3>3, OneRequestServes DEF ApplyingPlan
  <2>6. ASSUME NEW r \in Request, P!ReadSettings(r) PROVE PlansInv'
    <3>1. CASE P!Ends(r)
      BY <2>1, <2>6, <3>1, ServingEnds DEF P!ReadSettings
    <3>2. CASE ~P!Ends(r)
      <4> DEFINE q == [request[r] EXCEPT !.phase = "start", !.settings = settings]
      <4>1. /\ request' = [request EXCEPT ![r] = q] /\ settings = request[r].row.settings /\ request[r].phase = "settings"
            /\ UNCHANGED <<clock, settings, plans, trail, made>>
        BY <2>6, <3>2 DEF P!ReadSettings, P!SameSettings
      <4>2. request[r] \in [phase : ForPlan, plan : PlanId, settings : Nat, row : PlanRow]
        BY <2>1, <4>1, ServingShape DEF ForPlan
      <4>3. q \in Serving /\ q.phase = "start" /\ q.plan = request[r].plan /\ q.row = request[r].row /\ q.settings = settings
        BY <2>1, <4>2 DEF Serving, ForPlan
      <4>4. RequestFits(request[r], plans[request[r].plan], made[request[r].plan])
        BY <4>1 DEF PlansInv, RequestsFit, ForPlan
      <4> HIDE DEF q
      <4>5. RequestFits(q, plans[q.plan], made[q.plan])
        BY <4>1, <4>3, <4>4 DEF RequestFits, ApplyingPlan
      <4> QED BY <2>1, <4>1, <4>3, <4>5, OneRequestServes DEF ApplyingPlan
    <3> QED BY <3>1, <3>2
  <2>7. ASSUME NEW r \in Request, P!Start(r) PROVE PlansInv'
    <3> DEFINE q == [request[r] EXCEPT !.phase = "create", !.row = P!Started(request[r].row)]
    <3>1. CASE P!Ends(r) /\ UNCHANGED <<plans, trail>>
      BY <2>1, <2>7, <3>1, ServingEnds DEF P!Start
    <3>2. CASE ~(P!Ends(r) /\ UNCHANGED <<plans, trail>>)
      <4>1. /\ request[r].phase = "start" /\ P!Same(r) /\ P!Writes(r, "running", "started")
            /\ request' = [request EXCEPT ![r] = q] \/ request' = [request EXCEPT ![r] = P!Idle]
            /\ UNCHANGED <<clock, settings, made>>
        BY <2>7, <3>2 DEF P!Start, P!Ends
      <4>2. request[r] \in [phase : ForPlan, plan : PlanId, settings : Nat, row : PlanRow]
        BY <2>1, <4>1, ServingShape DEF ForPlan
      <4>3. request[r].row \in PlanRow /\ request[r].row.version + 1 \in Nat
        BY <4>2 DEF PlanRow
      <4>4. P!Started(request[r].row) \in PlanRow
        BY <4>3 DEF P!Started, PlanRow
      <4>5. q \in Serving /\ P!Idle \in Serving
        BY <4>2, <4>4 DEF Serving, ForPlan, ApplyingPlan
      <4> QED BY <4>1, <4>5, WriteOfAState
    <3> QED BY <3>1, <3>2
  <2>8. ASSUME NEW r \in Request, P!Create(r) PROVE PlansInv'
    <3>1. request[r].phase = "create" /\ UNCHANGED <<clock, settings, plans, trail>>
      BY <2>8 DEF P!Create
    <3>2. CASE UNCHANGED made /\ P!Goes(r, "doubt")
      <4> DEFINE q == [request[r] EXCEPT !.phase = "doubt"]
      <4>1. request[r] \in [phase : ForPlan, plan : PlanId, settings : Nat, row : PlanRow]
        BY <2>1, <3>1, ServingShape DEF ForPlan, ApplyingPlan
      <4>2. q \in Serving /\ q.phase = "doubt" /\ q.plan = request[r].plan /\ q.row = request[r].row /\ q.settings = request[r].settings
        BY <4>1 DEF Serving, ForPlan, ApplyingPlan
      <4>3. RequestFits(request[r], plans[request[r].plan], made[request[r].plan])
        BY <3>1 DEF PlansInv, RequestsFit, ForPlan, ApplyingPlan
      <4>4. request' = [request EXCEPT ![r] = q]
        BY <3>2 DEF P!Goes
      <4> HIDE DEF q
      <4>5. RequestFits(q, plans[q.plan], made[q.plan])
        BY <3>1, <4>2, <4>3 DEF RequestFits, ApplyingPlan
      <4>6. \A s \in Request \ {r} : request[s].phase \in {"plan"} \cup ApplyingPlan => request[s].plan # q.plan
        BY <3>1, <4>2, RivalsElsewhere DEF ApplyingPlan
      <4> QED BY <2>1, <3>1, <3>2, <4>2, <4>4, <4>5, <4>6, OneRequestServes
    <3>3. CASE /\ made' = [made EXCEPT ![request[r].plan] = Append(@, request[r].settings)]
               /\ \E phase \in {"complete", "doubt"} : P!Goes(r, phase)
      BY <3>1, <3>3, ResourceIsMade
    <3> QED BY <2>8, <3>2, <3>3 DEF P!Create
  <2>9. ASSUME NEW r \in Request, P!Complete(r) \/ P!Doubt(r), P!Same(r) /\ UNCHANGED <<clock, settings, made>>,
               \/ request[r].phase = "complete" /\ P!Writes(r, "applied", "applied") /\ (P!Ends(r) \/ P!Goes(r, "doubt"))
               \/ request[r].phase = "doubt" /\ P!Writes(r, "uncertain", "uncertain") /\ P!Ends(r)
        PROVE  PlansInv'
    <3> DEFINE q == [request[r] EXCEPT !.phase = "doubt"]
    <3>1. request[r] \in [phase : ForPlan, plan : PlanId, settings : Nat, row : PlanRow]
      BY <2>1, <2>9, ServingShape DEF ForPlan, ApplyingPlan
    <3>2. q \in Serving /\ P!Idle \in Serving
      BY <3>1 DEF Serving, ForPlan, ApplyingPlan
    <3>3. \/ request' = [request EXCEPT ![r] = P!Idle]
          \/ request' = [request EXCEPT ![r] = q] /\ request[r].phase = "complete"
      BY <2>9 DEF P!Ends, P!Goes
    <3> QED BY <2>9, <3>2, <3>3, WriteOfAState
  <2>10. ASSUME NEW r \in Request, P!Complete(r), P!Goes(r, "doubt") /\ UNCHANGED <<plans, trail>> PROVE PlansInv'
    <3> DEFINE q == [request[r] EXCEPT !.phase = "doubt"]
    <3>1. request[r].phase = "complete" /\ UNCHANGED <<clock, settings, plans, trail, made>> /\ request' = [request EXCEPT ![r] = q]
      BY <2>10 DEF P!Complete, P!Goes
    <3>2. request[r] \in [phase : ForPlan, plan : PlanId, settings : Nat, row : PlanRow]
      BY <2>1, <3>1, ServingShape DEF ForPlan, ApplyingPlan
    <3>3. q \in Serving /\ q.phase = "doubt" /\ q.plan = request[r].plan /\ q.row = request[r].row /\ q.settings = request[r].settings
      BY <3>2 DEF Serving, ForPlan, ApplyingPlan
    <3>4. RequestFits(request[r], plans[request[r].plan], made[request[r].plan])
      BY <3>1 DEF PlansInv, RequestsFit, ForPlan, ApplyingPlan
    <3> HIDE DEF q
    <3>5. RequestFits(q, plans[q.plan], made[q.plan])
      BY <3>1, <3>3, <3>4 DEF RequestFits, ApplyingPlan
    <3>6. \A s \in Request \ {r} : request[s].phase \in {"plan"} \cup ApplyingPlan => request[s].plan # q.plan
      BY <3>1, <3>3, RivalsElsewhere DEF ApplyingPlan
    <3> QED BY <2>1, <3>1, <3>3, <3>5, <3>6, OneRequestServes
  <2>11. ASSUME NEW r \in Request, P!Complete(r) \/ P!Doubt(r) PROVE PlansInv'
    <3>1. CASE P!Complete(r)
      BY <2>9, <2>10, <3>1 DEF P!Complete
    <3>2. CASE P!Doubt(r) /\ P!Doubts(r)
      BY <2>9, <3>2 DEF P!Doubt, P!Doubts
    <3>3. CASE P!Doubt(r) /\ ~P!Doubts(r)
      BY <2>1, <3>3, ServingEnds DEF P!Doubt
    <3> QED BY <2>11, <3>1, <3>2, <3>3
  <2>12. ASSUME NEW r \in Request, P!Fail(r) PROVE PlansInv'
    BY <2>1, <2>12, ServingEnds DEF P!Fail
  <2>13. CASE P!Tick
    <3>1. clock' \in Nat /\ UNCHANGED <<settings, plans, request, trail, made>>
      BY <2>1, <2>13 DEF P!Tick
    <3> QED BY <3>1 DEF PlansInv, PlansShape, RequestsFit, OneApplies
  <2>14. CASE UNCHANGED P!vars
    BY <2>14 DEF P!vars, PlansInv, PlansShape, RequestsFit, OneApplies
  <2>15. \A r \in Request : P!Planned(r) => PlansInv'
    BY PlanIsMade
  <2> QED BY <2>2, <2>3, <2>4, <2>5, <2>6, <2>7, <2>8, <2>11, <2>12, <2>13, <2>14, <2>15 DEF P!Next
<1>3. PlansInv => PlansAreTrue
  <2> SUFFICES ASSUME PlansInv, NEW p \in PlanId, PlanFits(plans[p], trail[p], made[p]), plans[p] \in PlanRow
               PROVE  /\ Len(made[p]) <= 1 /\ (Len(made[p]) = 1 => made[p][1] = plans[p].settings)
                      /\ plans[p].state \in {"none", "planned"} => made[p] = <<>>
                      /\ plans[p].state = "applied" => made[p] # <<>>
                      /\ trail[p] = [started |-> IF plans[p].state \in {"none", "planned"} THEN 0 ELSE 1,
                                     applied |-> IF plans[p].state = "applied" THEN 1 ELSE 0,
                                     uncertain |-> IF plans[p].state = "uncertain" THEN 1 ELSE 0]
    BY DEF PlansInv, PlansShape, PlansAreTrue, MadeAsPlanned, PlansTellWhatHappened
  <2>1. CASE made[p] = <<>>
    BY <2>1 DEF PlanFits
  <2>2. CASE made[p] = <<plans[p].settings>>
    <3>1. Len(made[p]) = 1 /\ made[p][1] = plans[p].settings
      BY <2>2
    <3> QED BY <2>2, <3>1 DEF PlanFits
  <2> QED BY <2>1, <2>2 DEF PlanFits
<1> QED BY <1>1, <1>2, <1>3, PTL DEF P!Spec
=============================================================================
