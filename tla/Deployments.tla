----------------------------- MODULE Deployments -----------------------------
(***************************************************************************)
(* packages/deploy (applyEnvironment), packages/deployments and the        *)
(* providers of packages/deploy-*: runs of "rta deploy apply" for one      *)
(* environment, each of which applies its roles in order.                  *)
(*                                                                         *)
(* A provider looks its resource up by name, creates it if there is none,  *)
(* gives it the variables of the process, and deploys.  Every call may     *)
(* fail, with or without effect, and so end the run, or the process stops; *)
(* either is Fail or Lost.  Whoever runs again begins from the start, and  *)
(* nothing keeps two runs apart.                                           *)
(*                                                                         *)
(* A variable is a number: the version of a secret, or the index of the    *)
(* resource it leads to.  Calls that repeat themselves without a trace     *)
(* (settings, domains, Railway's project) are left out, and what a         *)
(* provider does by itself (builds, health) is not modelled.  The role     *)
(* "frontend" is treated like "ssr", and "files" is none of theirs.        *)
(***************************************************************************)
EXTENDS Integers, DeploymentsState

CONSTANTS
  MaxRuns,     \* bound of the runs
  MaxSecrets   \* bound of the versions of JWT_SECRET

VARIABLES
  secret,   \* version of JWT_SECRET in the credentials
  begun     \* runs so far

vars == <<hosts, secret, begun, remote, runs>>

-----------------------------------------------------------------------------
\* Providers that keep the variables they are not given, and those whose names are unique.
Merging == {"railway", "flyio", "heroku", "vercel"}
Unique == {"flyio", "heroku", "vercel"}

\* {...old, ...new}
Over(new, old) == [n \in DOMAIN new \cup DOMAIN old |-> IF n \in DOMAIN new THEN new[n] ELSE old[n]]

\* One variable alone, or one role.
Only(name, value) == [n \in {name} |-> value]

NoJob == [phase |-> "idle", roles |-> {}, secret |-> 0, outputs |-> NoVars,
          given |-> NoVars, seen |-> 0, calls |-> <<>>, done |-> NoVars, alone |-> FALSE]

Init ==
  /\ hosts \in Hosts
  /\ secret = 1
  /\ begun = 0
  /\ remote = [r \in Roles |-> <<>>]
  /\ runs = [p \in Run |-> NoJob]

\* A run ends; what it reports stays.
Ended(run, phase) == [run EXCEPT !.phase = phase, !.given = NoVars, !.seen = 0, !.calls = <<>>]

InProgress(p) == runs[p].phase \in {"plan", "find", "calls"}

\* The roles that are left to a run, the first of which is the one it applies.
Left(run) == run.roles \ DOMAIN run.done
First(roles) ==
  RoleOrder[CHOOSE i \in DOMAIN RoleOrder : RoleOrder[i] \in roles /\ \A j \in 1..i - 1 : RoleOrder[j] \notin roles]
Role(p) == First(Left(runs[p]))

\* What a run is given from its credentials.
runtimeVariables(p) == [RT_APP_ENVIRONMENT |-> 1, JWT_SECRET |-> runs[p].secret]

variablesFor(role, variables) ==
  IF role \in {"database", "api"} THEN variables ELSE Restrict(variables, DOMAIN variables \cap Public)

\* Outputs of earlier roles go before the run's own variables, and are then filtered as well.
\* Bug: what earlier roles returned is added unfiltered.
OutputsUnfiltered(p, role) == Over(runs[p].outputs, variablesFor(role, runtimeVariables(p)))
Given(p, role) == variablesFor(role, Over(runs[p].outputs, runtimeVariables(p)))

\* A provider reads a list and takes the first of the name, in whatever order they come.
\* Bug: the search never meets the name.
LookInVain(role) == {0}
Look(role) == IF remote[role] = <<>> THEN {0} ELSE DOMAIN remote[role]

\* Whether apply() looks again, after plan() has seen this.
Refinds(host, seen) ==
  \/ host \in {"vercel", "neon", "supabase"}
  \/ host \in {"render", "digitalocean", "heroku"} /\ seen = 0

\* What an application is given once there is a resource for it.
\* Bug: the deployment starts before its variables are set.
DeploysFirst == <<"deploy", "set">>
Update == <<"set", "deploy">>

\* The calls that are left to a provider that has seen this.  "build" creates with variables
\* and deploys in one call; "replace" is an update that may deploy or leave that to the next call.
Calls(host, role, seen) ==
  CASE host \in {"neon", "supabase"} -> IF seen = 0 THEN <<"build">> ELSE <<>>
    [] host \in {"render", "digitalocean"} /\ seen = 0 -> <<"build">>
    [] host = "digitalocean" /\ seen # 0 -> <<"replace">>
    [] role = "database" /\ seen # 0 -> <<>>
    [] OTHER -> (IF seen = 0 THEN <<"create">> ELSE <<>>) \o Update

\* A database gets a password once, when it is made; its URL leads to it.
Variables(p, i) == IF Role(p) = "database" THEN Only("DATABASE_URL", i) ELSE runs[p].given

-----------------------------------------------------------------------------
\* applyEnvironment(): the settings and the credentials are read, for all roles or some.
Begin(p) ==
  /\ ~InProgress(p) /\ begun < MaxRuns
  /\ begun' = begun + 1
  /\ \E roles \in Selections :
       LET new == [NoJob EXCEPT !.phase = "plan", !.roles = roles, !.secret = secret,
                                !.alone = \A q \in Run : ~InProgress(q)]
       IN runs' = [q \in Run |-> IF q = p THEN new ELSE [runs[q] EXCEPT !.alone = FALSE]]
  /\ UNCHANGED <<hosts, secret, remote>>

\* What apply() does once it knows what is there.
Apply(p, given, seen) ==
  [runs[p] EXCEPT !.phase = "calls", !.given = given, !.seen = seen,
                 !.calls = Calls(hosts[Role(p)], Role(p), seen)]

\* provider.plan(): reads only.
PlanRole(p) ==
  /\ runs[p].phase = "plan"
  /\ \E seen \in Look(Role(p)) :
       runs' = [runs EXCEPT ![p] =
         IF Refinds(hosts[Role(p)], seen)
         THEN [@ EXCEPT !.phase = "find", !.given = Given(p, Role(p))]
         ELSE Apply(p, Given(p, Role(p)), seen)]
  /\ UNCHANGED <<hosts, secret, begun, remote>>

\* provider.apply() looks again.
Find(p) ==
  /\ runs[p].phase = "find"
  /\ \E seen \in Look(Role(p)) : runs' = [runs EXCEPT ![p] = Apply(p, runs[p].given, seen)]
  /\ UNCHANGED <<hosts, secret, begun, remote>>

-----------------------------------------------------------------------------
Make(p, variables, live) ==
  /\ hosts[Role(p)] \in Unique => remote[Role(p)] = <<>>
  /\ remote' = [remote EXCEPT ![Role(p)] =
                  Append(@, [vars |-> variables, live |-> live, alone |-> runs[p].alone])]

Put(p, variables, live) ==
  remote' = [remote EXCEPT ![Role(p)][runs[p].seen] = [@ EXCEPT !.vars = variables, !.live = live]]

\* The effect of the next call, and the calls it leaves.
Effect(p, rest) ==
  LET res == remote[Role(p)][runs[p].seen]
      new == Variables(p, runs[p].seen)
      built == Variables(p, Len(remote[Role(p)]) + 1)
      call == Head(runs[p].calls)
      tail == Tail(runs[p].calls)
  IN \/ call = "create" /\ Make(p, NoVars, NoVars) /\ rest = tail
     \/ call = "build" /\ Make(p, built, built) /\ rest = tail
     \/ /\ call = "set"
        /\ Put(p, IF hosts[Role(p)] \in Merging THEN Over(new, res.vars) ELSE new, res.live)
        /\ rest = tail
     \/ call = "deploy" /\ Put(p, res.vars, res.vars) /\ rest = tail
     \/ call = "replace" /\ Put(p, new, new) /\ rest = tail
     \/ call = "replace" /\ Put(p, new, res.live) /\ rest = <<"deploy">>

\* A provider's call that is answered.
Call(p) ==
  /\ runs[p].phase = "calls" /\ runs[p].calls # <<>>
  /\ \E rest \in {Tail(runs[p].calls), <<"deploy">>} :
       /\ Effect(p, rest)
       /\ runs' = [runs EXCEPT ![p].calls = rest,
                             ![p].seen = IF @ = 0 THEN Len(remote'[Role(p)]) ELSE @]
  /\ UNCHANGED <<hosts, secret, begun>>

\* One that took effect and was not answered.
Lost(p) ==
  /\ runs[p].phase = "calls" /\ runs[p].calls # <<>>
  /\ \E rest \in {Tail(runs[p].calls), <<"deploy">>} : Effect(p, rest)
  /\ runs' = [runs EXCEPT ![p] = Ended(@, "failed")]
  /\ UNCHANGED <<hosts, secret, begun>>

\* A call fails, or the process stops.
Fail(p) ==
  /\ InProgress(p)
  /\ runs' = [runs EXCEPT ![p] = Ended(@, "failed")]
  /\ UNCHANGED <<hosts, secret, begun, remote>>

\* What the role returns to the ones after it: its URL, if the provider knows it yet, or the variable
\* that leads to the database.  Railway and Fly.io make the URL of names.
Outputs(p, role) ==
  LET res == remote[role][runs[p].seen]
      unknown == IF hosts[role] \in {"railway", "flyio"} THEN {} ELSE {NoVars}
  IN CASE role = "database" -> {Restrict(res.vars, DOMAIN res.vars \cap {"DATABASE_URL"})}
       [] role = "api" -> {Only("RT_APP_API_URL", runs[p].seen)} \cup unknown
       [] OTHER -> {Only("RT_APP_SSR_URL", runs[p].seen)} \cup unknown

\* The next role, or the end.
Continued(p, out) ==
  LET run == [runs[p] EXCEPT !.outputs = Over(out, @), !.done = Over(Only(Role(p), runs[p].seen), @)]
  IN Ended(run, IF Left(run) = {} THEN "done" ELSE "plan")

\* The role is applied, unless it is a database without its URL.
Applied(p) ==
  /\ runs[p].phase = "calls" /\ runs[p].calls = <<>>
  /\ \E out \in Outputs(p, Role(p)) :
       runs' = [runs EXCEPT ![p] =
         IF Role(p) = "database" /\ out = NoVars THEN Ended(@, "failed") ELSE Continued(p, out)]
  /\ UNCHANGED <<hosts, secret, begun, remote>>

\* saveCredential(): another secret for the next run.
Rotate ==
  /\ secret < MaxSecrets
  /\ secret' = secret + 1
  /\ UNCHANGED <<hosts, begun, remote, runs>>

Next ==
  \/ Rotate
  \/ \E p \in Run : Begin(p) \/ PlanRole(p) \/ Find(p) \/ Call(p) \/ Lost(p) \/ Fail(p) \/ Applied(p)

Spec == Init /\ [][Next]_vars

=============================================================================
