------------------------------ MODULE MCRemote -------------------------------
(* Small instances of what the system has others do, who may answer late,  *)
(* twice or not at all: Stripe in Billing, the mail in Notices, and the    *)
(* hosts in Deployments.  They share no state; part says which one a       *)
(* behaviour is about: Billing, Notices and Deployments, for one           *)
(* environment, stay as they begin otherwise.  Parts are those that a run  *)
(* is about.                                                               *)
EXTENDS Billing, NoticesState, DeploymentsState, TLC

CONSTANTS
  y1, y2, basic, plus,
  MaxRuns, MaxSecrets,
  NoticeTime, NoNotice,
  Parts

\* Requests, runs of maintenance, and runs that deploy.
Y == {y1, y2}
Processes == Permutations(Y)

\* Two billing requests may share a key, whose fingerprint then refuses the second one.
Requests == {[key |-> "one", action |-> "change", plan |-> basic],
             [key |-> "two", action |-> "change", plan |-> plus],
             [key |-> "two", action |-> "cancel", plan |-> NoPlan]}

\* Six environments, each provider among them; all of their roles are applied, or the API alone.
Served(database, api, ssr) == [database |-> database, api |-> api, ssr |-> ssr]
OnThree == Served("neon", "railway", "vercel")
Environments == {
  OnThree, Served("neon", "flyio", "render"),
  Served("neon", "digitalocean", "render"), Served("neon", "heroku", "vercel"),
  Served("supabase", "render", "digitalocean"), Served("railway", "railway", "railway")}
Asked == {{"database", "api", "ssr"}, {"api"}}

VARIABLES
  secret, begun,
  wants,
  part

deployVars == <<hosts, secret, begun, remote, runs>>
noticeVars == <<clock, wants, mail, run, told>>

D == INSTANCE Deployments
N == INSTANCE Notices WITH MaxClock <- NoticeTime

RemoteInit ==
  /\ part \in Parts
  /\ Init
  /\ N!Init
  /\ D!Init /\ (part # "deployments" => hosts = OnThree)

RemoteNext ==
  /\ UNCHANGED part
  /\ \/ part = "billing" /\ Next /\ UNCHANGED <<noticeVars, deployVars>>
     \/ part = "notices" /\ N!Next /\ UNCHANGED <<vars, deployVars>>
     \/ part = "deployments" /\ D!Next /\ UNCHANGED <<vars, noticeVars>>

RemoteSpec == RemoteInit /\ [][RemoteNext]_<<vars, noticeVars, deployVars, part>>

-----------------------------------------------------------------------------
\* What a run reports is live, also if its database is Railway's (applyEnvironment, applyDatabase).
RailwayIsTrue == ReportedIsLive
=============================================================================
