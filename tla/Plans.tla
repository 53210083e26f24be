------------------------------- MODULE Plans --------------------------------
(***************************************************************************)
(* packages/infra: the plans of an owner for resources of a cloud, which   *)
(* are applied once, under the settings they were made for.  A process may *)
(* stop, and the store may carry out a write whose answer is lost, at any  *)
(* await; nobody retries.                                                  *)
(***************************************************************************)
EXTENDS PlansState

CONSTANTS
  Request,      \* concurrent requests
  MaxSettings,  \* bound of the versions of the settings
  MaxTime       \* bound of the clock

VARIABLES
  clock,
  settings,   \* the version of the row of SETTINGS, which stands for its values
  request     \* [Request -> its request]

vars == <<clock, settings, plans, request, trail, made>>

-----------------------------------------------------------------------------
NoPlan == [state |-> "none", version |-> 0, settings |-> 0, expires |-> 0]
NoTrail == [started |-> 0, applied |-> 0, uncertain |-> 0]
Serving(phase, plan, read) == [phase |-> phase, plan |-> plan, settings |-> settings, row |-> read]
Idle == [phase |-> "idle"]

Init ==
  /\ clock = 0 /\ settings = 0
  /\ plans = [p \in PlanId |-> NoPlan]
  /\ request = [r \in Request |-> Idle]
  /\ trail = [p \in PlanId |-> NoTrail]
  /\ made = [p \in PlanId |-> <<>>]

Ends(r) == request' = [request EXCEPT ![r] = Idle]
Goes(r, phase) == request' = [request EXCEPT ![r].phase = phase]

-----------------------------------------------------------------------------
(* configure() and plan()                                                  *)

Configure(r) ==
  /\ request[r] = Idle /\ settings < MaxSettings
  /\ request' = [request EXCEPT ![r] = Serving("configure", 0, NoPlan)]
  /\ UNCHANGED <<clock, settings, plans, trail, made>>

\* The credentials are saved between the two.
Configured(r) ==
  /\ request[r].phase = "configure"
  /\ settings' = IF settings = request[r].settings THEN settings + 1 ELSE settings
  /\ Ends(r)
  /\ UNCHANGED <<clock, plans, trail, made>>

PlanFor(r, p) ==
  /\ request[r] = Idle /\ plans[p] = NoPlan
  /\ \A s \in Request : request[s] # Idle => request[s].plan # p
  /\ request' = [request EXCEPT ![r] = Serving("plan", p, NoPlan)]
  /\ UNCHANGED <<clock, settings, plans, trail, made>>

Planned(r) ==
  /\ request[r].phase = "plan"
  /\ plans' = [plans EXCEPT ![request[r].plan] =
       [state |-> "planned", version |-> 1, settings |-> request[r].settings, expires |-> clock + PlanLife]]
  /\ Ends(r)
  /\ UNCHANGED <<clock, settings, trail, made>>

-----------------------------------------------------------------------------
(* apply()                                                                 *)

MayStart(row) == row.state = "planned" /\ row.expires >= clock

Read(r, p) ==
  /\ request[r] = Idle /\ MayStart(plans[p])
  /\ request' = [request EXCEPT ![r] = [Serving("settings", p, plans[p]) EXCEPT !.settings = 0]]
  /\ UNCHANGED <<clock, settings, plans, trail, made>>

\* Bug: the settings are those of the day.
AnySettings(row) == TRUE

SameSettings(row) == settings = row.settings

\* The identity of these settings is read after them.
ReadSettings(r) ==
  /\ request[r].phase = "settings"
  /\ IF SameSettings(request[r].row)
       THEN request' = [request EXCEPT ![r].phase = "start", ![r].settings = settings]
       ELSE Ends(r)
  /\ UNCHANGED <<clock, settings, plans, trail, made>>

Same(r) == plans[request[r].plan].version = request[r].row.version

\* The write of a state and of its audit row, on the condition that nobody wrote the plan.
Writes(r, state, log) ==
  LET p == request[r].plan IN
    /\ plans' = [plans EXCEPT ![p] = [request[r].row EXCEPT !.state = state, !.version = @ + 1]]
    /\ trail' = [trail EXCEPT ![p][log] = @ + 1]

Started(row) == [row EXCEPT !.state = "running", !.version = @ + 1]

Start(r) ==
  /\ request[r].phase = "start"
  /\ \/ /\ Same(r) /\ Writes(r, "running", "started")
        /\ request' = [request EXCEPT ![r].phase = "create", ![r].row = Started(request[r].row)]
     \/ /\ Same(r) /\ Writes(r, "running", "started")
        /\ Ends(r)
     \/ Ends(r) /\ UNCHANGED <<plans, trail>>
  /\ UNCHANGED <<clock, settings, made>>

\* The cloud makes the resource or does not, and says so or does not.
Create(r) ==
  /\ request[r].phase = "create"
  /\ \/ /\ made' = [made EXCEPT ![request[r].plan] = Append(@, request[r].settings)]
        /\ \E phase \in {"complete", "doubt"} : Goes(r, phase)
     \/ UNCHANGED made /\ Goes(r, "doubt")
  /\ UNCHANGED <<clock, settings, plans, trail>>

\* An error of the write, even of one that happened, leads to doubt.
Complete(r) ==
  /\ request[r].phase = "complete"
  /\ \/ Same(r) /\ Writes(r, "applied", "applied") /\ (Ends(r) \/ Goes(r, "doubt"))
     \/ Goes(r, "doubt") /\ UNCHANGED <<plans, trail>>
  /\ UNCHANGED <<clock, settings, made>>

Doubts(r) == Same(r) /\ Writes(r, "uncertain", "uncertain")

\* If this write fails too, the plan stays as it is.
Doubt(r) ==
  /\ request[r].phase = "doubt"
  /\ Doubts(r) \/ UNCHANGED <<plans, trail>>
  /\ Ends(r)
  /\ UNCHANGED <<clock, settings, made>>

-----------------------------------------------------------------------------
\* An error or the end of the process.
Fail(r) ==
  /\ request[r] # Idle /\ Ends(r)
  /\ UNCHANGED <<clock, settings, plans, trail, made>>

Tick ==
  /\ clock < MaxTime /\ clock' = clock + 1
  /\ UNCHANGED <<settings, plans, request, trail, made>>

Next ==
  \/ \E r \in Request :
       \/ Configure(r) \/ Configured(r) \/ Planned(r) \/ ReadSettings(r)
       \/ Start(r) \/ Create(r) \/ Complete(r) \/ Doubt(r) \/ Fail(r)
       \/ \E p \in PlanId : PlanFor(r, p) \/ Read(r, p)
  \/ Tick

Spec == Init /\ [][Next]_vars
=============================================================================
