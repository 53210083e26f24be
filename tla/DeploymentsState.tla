--------------------------- MODULE DeploymentsState --------------------------
(* What the providers of an environment have and what the runs of          *)
(* Deployments report, and what is promised of both.                       *)
EXTENDS Sequences, SequencesExt

CONSTANTS
  Run,         \* processes that apply
  Hosts,       \* the settings: [role -> the provider that serves it]
  Selections   \* the roles that a run may be asked to apply

RoleOrder == <<"database", "api", "ssr">>
Roles == ToSet(RoleOrder)

\* Who serves which role (the ROLES of each provider); without roles there is nothing to do.
DeploymentsAssumption ==
  /\ \A h \in Hosts : /\ h["database"] \in {"neon", "supabase", "railway"}
                      /\ h["api"] \in {"railway", "render", "digitalocean", "flyio", "heroku"}
                      /\ h["ssr"] \in {"railway", "render", "digitalocean", "vercel"}
  /\ Selections \subseteq (SUBSET Roles) \ {{}}
ASSUME DeploymentsAssumption

VARIABLES
  hosts,    \* the settings of the environment
  remote,   \* [role -> the resources of that name: [vars, live, alone]], live as last deployed
  runs      \* [Run -> its run]; done is [role it has applied -> its resource]

NoVars == <<>>

Public == {"RT_APP_ENVIRONMENT", "RT_APP_API_URL", "RT_APP_SSR_URL"}

-----------------------------------------------------------------------------
\* No secret is given to what is built into public bundles, or deployed with it, whatever
\* earlier roles returned (variablesFor, applyEnvironment).
SecretsStayBehind ==
  \A i \in DOMAIN remote["ssr"] :
    DOMAIN remote["ssr"][i].vars \cup DOMAIN remote["ssr"][i].live \subseteq Public

\* A second resource of a name is made only by a run that had a rival: one that stopped or lost
\* an answer is followed by one that finds what it made (apply of every provider).
DuplicatesOverlapped ==
  \A r \in Roles : \A i \in DOMAIN remote[r] : i > 1 => ~remote[r][i].alone

\* What no run does to the providers, however it ends: leak a secret, or make a resource again.
AppliedSafely == SecretsStayBehind /\ DuplicatesOverlapped

\* The variables that a run gave to a role, as far as they matter.
Expected(run, role) ==
  CASE role = "database" -> {<<"DATABASE_URL", run.done[role]>>}
    [] role = "api" -> {<<"JWT_SECRET", run.secret>>} \cup
                       {<<"DATABASE_URL", run.done[r]>> : r \in DOMAIN run.done \cap {"database"}}
    [] OTHER -> {<<n, run.done["api"]>> : n \in DOMAIN run.outputs \cap {"RT_APP_API_URL"}}

\* What a run without a rival reports as applied is deployed, with the variables of that run
\* and those that lead to its earlier roles, also if it fails afterwards (applyEnvironment).
ReportedIsLive ==
  \A p \in Run : runs[p].alone =>
    \A role \in DOMAIN runs[p].done :
      LET live == remote[role][runs[p].done[role]].live
      IN \A e \in Expected(runs[p], role) : e[1] \in DOMAIN live /\ live[e[1]] = e[2]

\* The same, except for a database on Railway: what was created there before a run stopped is
\* not deployed by the next one (applyDatabase).
DeploymentsAreTrue == hosts["database"] = "railway" \/ ReportedIsLive
=============================================================================
