----------------------------- MODULE CodesState ------------------------------
(* What Codes promises, and the part of its state that the promises are    *)
(* about.                                                                  *)
EXTENDS Integers

CONSTANTS
  Attempts,     \* wrong answers a code takes (5)
  CodeLife,     \* in steps
  FlowLife,
  MaxCodes,     \* bound of the codes issued for a purpose
  MaxFlows,     \* bound of the flows
  MaxTokens,    \* bound of the token versions
  MaxSteps      \* bound of the clock

CodesAssumption ==
  /\ Attempts \in Nat /\ CodeLife \in Nat /\ FlowLife \in Nat
  /\ MaxCodes \in Nat /\ MaxFlows \in Nat \ {0} /\ MaxTokens \in Nat /\ MaxSteps \in Nat
ASSUME CodesAssumption

Purpose == {"login", "reset"}
TotpStep == 0..MaxSteps + 1

VARIABLES
  user,       \* tv: the token version, password: which one it is
  mfa,        \* the row of MFA; secret is the flow that set it up
  sessions,   \* the live sessions and how they began
  accepted,   \* how often a code of a purpose, and a step of a secret, opened something
  refused     \* [Purpose -> [code -> wrong answers counted]]

Enabled == mfa.secret # 0

\* Whoever types it at the same time, a code opens one thing, and it is refused at most
\* Attempts times before nobody can use it.
CodesWorkOnce ==
  \A x \in Purpose, n \in 1..MaxCodes : accepted.codes[x][n] <= 1 /\ refused[x][n] <= Attempts

\* A step of an authenticator opens one thing, the set-up included.
StepsWorkOnce == \A f \in 1..MaxFlows, s \in TotpStep : accepted.steps[f][s] <= 1

\* A live session began with the password and with a code of the user as he is now, and
\* with the authenticator if one is set up, whatever was reset, enabled or ended meanwhile.
\* (One with the authenticator may have given a password that was reset after its flow was read.)
SessionsAreEarned ==
  \A s \in sessions :
    /\ Enabled => s.by = "totp"
    /\ s.by = "login" => s.issued = user.tv
    /\ s.password = user.password

\* A code, or a step of an authenticator, opens one thing, a code is refused at most Attempts
\* times, and a live session began with what the user asks of it now (Auth.consume, verifyMfa,
\* enableMfa, session).
SignInsAreEarned == CodesWorkOnce /\ StepsWorkOnce /\ SessionsAreEarned
=============================================================================
