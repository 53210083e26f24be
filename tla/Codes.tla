------------------------------- MODULE Codes --------------------------------
(***************************************************************************)
(* packages/auth: how a user gets a session, with a password, a code from  *)
(* an email or an authenticator, and how passwords are reset and the       *)
(* authenticator set up.  Passwords and codes are kept here, not by an     *)
(* identity provider.                                                      *)
(*                                                                         *)
(* Every request reads some rows and writes others later on the condition  *)
(* that they are as it read them.  The rows of a code, of an authenticator *)
(* and of a flow never return to an earlier content, so the row itself     *)
(* stands for its version.  Everything that ends sessions raises the       *)
(* token version of the user, and a session whose token version is not the *)
(* user's any more never lives again: it is not kept.                      *)
(*                                                                         *)
(* The nth code and the nth flow are n, a wrong code is 0; the TOTP code   *)
(* of a step is the step, and the clock counts steps.                      *)
(***************************************************************************)
EXTENDS CodesState

CONSTANT
  Client        \* concurrent requests

VARIABLES
  time,
  challenge,  \* [Purpose -> the row of CHALLENGE]
  flows,      \* [1..MaxFlows -> the row of AUTH_FLOW]
  request     \* [Client -> its request]

vars == <<time, user, challenge, flows, mfa, sessions, request, accepted, refused>>

-----------------------------------------------------------------------------
NoChallenge == [code |-> 0, attempts |-> 0, used |-> FALSE, expires |-> 0, tv |-> 0]
NoFlow == [kind |-> "none", tv |-> 0, expires |-> 0, used |-> FALSE]
NoMfa == [secret |-> 0, last |-> -1]
NoUser == [tv |-> 0, password |-> 0]
Idle == [phase |-> "idle", by |-> "none", user |-> NoUser, challenge |-> NoChallenge, issued |-> 0,
         flow |-> 0, step |-> 0, mfa |-> NoMfa]

\* The authenticator may be set up already.
Init ==
  /\ time = 0
  /\ user = [tv |-> 1, password |-> 1]
  /\ challenge = [x \in Purpose |-> NoChallenge]
  /\ \/ mfa = NoMfa /\ flows = [f \in 1..MaxFlows |-> NoFlow]
     \/ /\ mfa = [secret |-> 1, last |-> -1]
        /\ flows = [f \in 1..MaxFlows |-> IF f = 1 THEN [NoFlow EXCEPT !.kind = "enroll", !.used = TRUE] ELSE NoFlow]
  /\ sessions = {}
  /\ request = [c \in Client |-> Idle]
  /\ accepted = [codes |-> [x \in Purpose |-> [n \in 1..MaxCodes |-> 0]],
                 steps |-> [f \in 1..MaxFlows |-> [s \in TotpStep |-> 0]]]
  /\ refused = [x \in Purpose |-> [n \in 1..MaxCodes |-> 0]]

Starts(c, r) == request[c].phase = "idle" /\ request' = [request EXCEPT ![c] = r]
Ends(c) == request' = [request EXCEPT ![c] = Idle]
Proceeds(c) == request' = [request EXCEPT ![c] =
  [Idle EXCEPT !.phase = "session", !.by = request[c].by, !.user = request[c].user, !.issued = request[c].challenge.tv]]

\* A write of the user row that raises its token version: the sessions end with it.
Becomes(u) ==
  /\ user.tv < MaxTokens
  /\ user' = u
  /\ sessions' = {s \in sessions : s.tv = u.tv}

Raised(u) == [u EXCEPT !.tv = @ + 1]

\* One more for a code, or for a step.
Counted(counts, x, n) == [counts EXCEPT ![x][n] = @ + 1]

-----------------------------------------------------------------------------
(* login() and what every sign-in ends with.                               *)

\* The password is verified with the row that was read.
LoginRead(c) ==
  /\ Starts(c, [Idle EXCEPT !.phase = "mfa", !.by = "password", !.user = user])
  /\ UNCHANGED <<time, user, challenge, flows, mfa, sessions, accepted, refused>>

LoginMfa(c) ==
  /\ request[c].phase = "mfa"
  /\ request' = [request EXCEPT ![c].phase = IF Enabled THEN "pending" ELSE "session",
                                ![c].by = IF Enabled THEN "totp" ELSE @]
  /\ UNCHANGED <<time, user, challenge, flows, mfa, sessions, accepted, refused>>

\* by is the kind of the flow.
Pending(c) ==
  /\ request[c].phase = "pending"
  /\ \E f \in 1..MaxFlows :
       /\ flows[f] = NoFlow /\ \A g \in 1..(f - 1) : flows[g] # NoFlow
       /\ flows' = [flows EXCEPT ![f] =
            [kind |-> request[c].by, tv |-> request[c].user.tv, expires |-> time + FlowLife, used |-> FALSE]]
  /\ Ends(c)
  /\ UNCHANGED <<time, user, challenge, mfa, sessions, accepted, refused>>

\* session(): with the token version of the row that was read.
Session(c) ==
  /\ request[c].phase = "session"
  /\ LET r == request[c]
     IN sessions' = IF r.user.tv # user.tv THEN sessions
                    ELSE sessions \cup {[tv |-> r.user.tv, by |-> r.by, password |-> r.user.password,
                                         issued |-> r.issued]}
  /\ Ends(c)
  /\ UNCHANGED <<time, user, challenge, flows, mfa, accepted, refused>>

-----------------------------------------------------------------------------
(* issue() and consume().                                                  *)

IssueRead(c, x) ==
  /\ x = "login" => ~Enabled
  /\ Starts(c, [Idle EXCEPT !.phase = "issue", !.by = x, !.user = user, !.challenge = challenge[x]])
  /\ UNCHANGED <<time, user, challenge, flows, mfa, sessions, accepted, refused>>

\* Bug: a code is written without a look at the row.
UnchangedNever(c) == TRUE

\* The row of the code is as it was read.
Unchanged(c) == challenge[request[c].by] = request[c].challenge

IssueWrite(c) ==
  /\ request[c].phase = "issue"
  /\ LET x == request[c].by
     IN IF Unchanged(c)
          THEN /\ challenge[x].code < MaxCodes
               /\ challenge' = [challenge EXCEPT ![x] =
                    [code |-> @.code + 1, attempts |-> 0, used |-> FALSE,
                     expires |-> time + CodeLife, tv |-> request[c].user.tv]]
          ELSE UNCHANGED challenge
  /\ Ends(c)
  /\ UNCHANGED <<time, user, flows, mfa, sessions, accepted, refused>>

Usable(row) == row.code # 0 /\ ~row.used /\ row.expires >= time /\ row.attempts < Attempts

ConsumeRead(c, x, code) ==
  /\ Usable(challenge[x])
  /\ Starts(c, [Idle EXCEPT !.by = x, !.challenge = challenge[x],
                !.phase = IF code = challenge[x].code THEN "user" ELSE "refuse"])
  /\ UNCHANGED <<time, user, challenge, flows, mfa, sessions, accepted, refused>>

Refuse(c) ==
  /\ request[c].phase = "refuse"
  /\ LET x == request[c].by
     IN IF Unchanged(c)
          THEN /\ challenge' = [challenge EXCEPT ![x].attempts = request[c].challenge.attempts + 1]
               /\ refused' = Counted(refused, x, request[c].challenge.code)
          ELSE UNCHANGED <<challenge, refused>>
  /\ Ends(c)
  /\ UNCHANGED <<time, user, flows, mfa, sessions, accepted>>

\* Bug: a code outlives what ended the sessions.
OfAnyUser(row) == TRUE

\* The code was issued to the user as he is now.
OfThisUser(row) == row.tv = user.tv

ConsumeUser(c) ==
  /\ request[c].phase = "user"
  /\ IF OfThisUser(request[c].challenge)
       THEN request' = [request EXCEPT ![c].user = user,
                          ![c].phase = IF request[c].by = "login" THEN "hasMfa" ELSE "consume"]
       ELSE Ends(c)
  /\ UNCHANGED <<time, user, challenge, flows, mfa, sessions, accepted, refused>>

HasMfa(c) ==
  /\ request[c].phase = "hasMfa"
  /\ IF Enabled THEN Ends(c) ELSE request' = [request EXCEPT ![c].phase = "consume"]
  /\ UNCHANGED <<time, user, challenge, flows, mfa, sessions, accepted, refused>>

\* A reset writes the user in the transaction of the code; a sign-in writes the code alone.
ConsumeWrite(c) ==
  /\ request[c].phase = "consume"
  /\ LET r == request[c]
     IN IF Unchanged(c) /\ (r.by = "reset" => user = r.user)
          THEN /\ challenge' = [challenge EXCEPT ![r.by] = [r.challenge EXCEPT !.used = TRUE]]
               /\ accepted' = [accepted EXCEPT !.codes = Counted(@, r.by, r.challenge.code)]
               /\ IF r.by = "reset"
                    THEN /\ Becomes([Raised(r.user) EXCEPT !.password = @ + 1])
                         /\ Ends(c)
                    ELSE /\ Proceeds(c)
                         /\ UNCHANGED <<user, sessions>>
          ELSE Ends(c) /\ UNCHANGED <<user, challenge, sessions, accepted>>
  /\ UNCHANGED <<time, flows, mfa, refused>>

-----------------------------------------------------------------------------
(* readPending(), verifyMfa(), setupMfa(), enableMfa() and resetMfa().     *)

\* The flow is open and its user is as he was when it began.
Open(f, kind) ==
  /\ flows[f].kind = kind /\ ~flows[f].used /\ flows[f].expires >= time
  /\ flows[f].tv = user.tv

\* totpStep(): a step before, at or after the clock, and after the last one used.
Matches(step, last) == step > last /\ step \in (time - 1)..(time + 1)

VerifyPending(c, f) ==
  /\ Open(f, "totp")
  /\ Starts(c, [Idle EXCEPT !.phase = "factor", !.by = "totp", !.flow = f])
  /\ UNCHANGED <<time, user, challenge, flows, mfa, sessions, accepted, refused>>

\* Reads the user once more, and the authenticator; another code is an error.
VerifyRead(c, step) ==
  /\ request[c].phase = "factor"
  /\ Enabled /\ Matches(step, mfa.last)
  /\ request' = [request EXCEPT ![c].phase = "verify", ![c].user = user, ![c].mfa = mfa, ![c].step = step]
  /\ UNCHANGED <<time, user, challenge, flows, mfa, sessions, accepted, refused>>

SameFactor(c) == ~flows[request[c].flow].used /\ mfa = request[c].mfa

VerifyWrite(c) ==
  /\ request[c].phase = "verify"
  /\ LET r == request[c]
     IN IF SameFactor(c)
          THEN /\ mfa' = [r.mfa EXCEPT !.last = r.step]
               /\ flows' = [flows EXCEPT ![r.flow].used = TRUE]
               /\ accepted' = [accepted EXCEPT !.steps = Counted(@, r.mfa.secret, r.step)]
               /\ Proceeds(c)
          ELSE Ends(c) /\ UNCHANGED <<flows, mfa, accepted>>
  /\ UNCHANGED <<time, user, challenge, sessions, refused>>

\* The password is verified with the row that was read.
SetupMfa(c) ==
  /\ ~Enabled
  /\ Starts(c, [Idle EXCEPT !.phase = "pending", !.by = "enroll", !.user = user])
  /\ UNCHANGED <<time, user, challenge, flows, mfa, sessions, accepted, refused>>

EnablePending(c, f) ==
  /\ Open(f, "enroll")
  /\ Starts(c, [Idle EXCEPT !.phase = "enroll", !.flow = f])
  /\ UNCHANGED <<time, user, challenge, flows, mfa, sessions, accepted, refused>>

EnableRead(c, step) ==
  /\ request[c].phase = "enroll"
  /\ ~Enabled /\ Matches(step, -1)
  /\ request' = [request EXCEPT ![c].phase = "enable", ![c].user = user, ![c].step = step]
  /\ UNCHANGED <<time, user, challenge, flows, mfa, sessions, accepted, refused>>

EnableWrite(c) ==
  /\ request[c].phase = "enable"
  /\ LET r == request[c]
     IN IF mfa = NoMfa /\ ~flows[r.flow].used /\ user = r.user
          THEN /\ mfa' = [secret |-> r.flow, last |-> r.step]
               /\ flows' = [flows EXCEPT ![r.flow].used = TRUE]
               /\ accepted' = [accepted EXCEPT !.steps = Counted(@, r.flow, r.step)]
               /\ Becomes(Raised(r.user))
          ELSE UNCHANGED <<user, flows, mfa, sessions, accepted>>
  /\ Ends(c)
  /\ UNCHANGED <<time, challenge, refused>>

ResetRead(c) ==
  /\ Starts(c, [Idle EXCEPT !.phase = "resetMfa", !.user = user, !.mfa = mfa])
  /\ UNCHANGED <<time, user, challenge, flows, mfa, sessions, accepted, refused>>

ResetWrite(c) ==
  /\ request[c].phase = "resetMfa"
  /\ LET r == request[c]
     IN IF user = r.user /\ (r.mfa # NoMfa => mfa = r.mfa)
          THEN Becomes(Raised(r.user)) /\ mfa' = IF r.mfa # NoMfa THEN NoMfa ELSE mfa
          ELSE UNCHANGED <<user, mfa, sessions>>
  /\ Ends(c)
  /\ UNCHANGED <<time, challenge, flows, accepted, refused>>

\* logout() of all sessions: one conditional write right after its read.
Invalidate ==
  /\ Becomes(Raised(user))
  /\ UNCHANGED <<time, challenge, flows, mfa, request, accepted, refused>>

-----------------------------------------------------------------------------
\* An error or the end of the process.
Fail(c) ==
  /\ request[c].phase # "idle" /\ Ends(c)
  /\ UNCHANGED <<time, user, challenge, flows, mfa, sessions, accepted, refused>>

Tick ==
  /\ time < MaxSteps
  /\ time' = time + 1
  /\ UNCHANGED <<user, challenge, flows, mfa, sessions, request, accepted, refused>>

Next ==
  \/ \E c \in Client :
       \/ LoginRead(c) \/ LoginMfa(c) \/ Pending(c) \/ Session(c)
       \/ \E x \in Purpose : IssueRead(c, x) \/ \E n \in 0..MaxCodes : ConsumeRead(c, x, n)
       \/ IssueWrite(c) \/ Refuse(c) \/ ConsumeUser(c) \/ HasMfa(c) \/ ConsumeWrite(c)
       \/ \E f \in 1..MaxFlows : VerifyPending(c, f) \/ EnablePending(c, f)
       \/ \E step \in TotpStep : VerifyRead(c, step) \/ EnableRead(c, step)
       \/ VerifyWrite(c) \/ SetupMfa(c) \/ EnableWrite(c)
       \/ ResetRead(c) \/ ResetWrite(c) \/ Fail(c)
  \/ Invalidate \/ Tick

Spec == Init /\ [][Next]_vars
=============================================================================
