------------------------------ MODULE TabsState ------------------------------
(* What the tabs of a browser and the server know of the session they      *)
(* share, and what is promised of it: the state of Tabs.                   *)
EXTENDS Integers, Sequences

CONSTANTS
  Tab,
  Access,        \* how long an access token is fresh (15 minutes less 90 seconds)
  RefreshGrace,  \* how long the previous secret stays usable (30 seconds)
  Latency,       \* half of it or less
  NoTab

TabsAssumption ==
  /\ NoTab \notin Tab
  /\ Access \in Nat /\ RefreshGrace \in Nat /\ Latency \in Nat
  /\ Latency + Latency <= RefreshGrace /\ Latency < Access
ASSUME TabsAssumption

VARIABLES
  server,   \* the row of the session
  tab,      \* [Tab -> its session (current) and its refresh (inflight)]
  inbox     \* [Tab -> the messages and storage events on their way to it]

\* A tab has a session.
SignedIn(t) == tab[t].current.secret # 0

-----------------------------------------------------------------------------
\* However their refreshes, messages and storage cross, the tabs of one browser are never
\* taken for the thieves of their own session.
TabsAreNoThieves == server.revoked # "reuse"

\* When nothing is on its way, every tab that is signed in holds the secret of the server.
TabsAgree ==
  (\A t \in Tab : tab[t].phase = "idle" /\ inbox[t] = <<>>) /\ server.revoked = "no"
    => \A t \in Tab : SignedIn(t) => tab[t].current.secret = server.secret

\* No tab is taken for a thief by its own session, and tabs that heard everything have the
\* same one (SessionClient.rotate, apply).
TabsShareTheSession == TabsAreNoThieves /\ TabsAgree
=============================================================================
