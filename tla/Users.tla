------------------------------- MODULE Users --------------------------------
(***************************************************************************)
(* packages/users, and the change of an email address of packages/auth:    *)
(* accounts, the index of their emails, the owner of the installation, and *)
(* the identity provider when there is one.  Every request reads rows,     *)
(* decides, and writes them later if nobody wrote them meanwhile.          *)
(*                                                                         *)
(* The nth account is n.  A code that expires is left out: it refuses a    *)
(* request that may be refused anyway.  So is what a disabled identity     *)
(* means: a restoration enables it before its write and a deletion         *)
(* disables it after, and nothing orders the two.                          *)
(***************************************************************************)
EXTENDS UsersState

CONSTANTS
  Request,     \* concurrent requests
  Attempts,    \* wrong answers a code takes (5)
  MaxVersion,  \* bound of the versions of an account
  MaxCodes     \* bound of the versions of the row of its code

VARIABLES
  challenge,  \* [Account -> the row of CHALLENGE that changes its email]
  request

vars == <<remote, users, index, owner, challenge, provider, request>>

-----------------------------------------------------------------------------
NoChallenge == [version |-> 0, email |-> NoEmail, used |-> FALSE, attempts |-> 0, tv |-> 0]
NoIdentity == [exists |-> FALSE, email |-> NoEmail]
Idle == [phase |-> "idle", user |-> 0, email |-> NoEmail, bootstrap |-> FALSE, row |-> NoUser, code |-> NoChallenge]

Init ==
  /\ remote \in BOOLEAN
  /\ users = [u \in Account |-> NoUser]
  /\ index = [e \in Email |-> 0]
  /\ owner = 0
  /\ challenge = [u \in Account |-> NoChallenge]
  /\ provider = [u \in Account |-> NoIdentity]
  /\ request = [r \in Request |-> Idle]

Starts(r, call) == request[r] = Idle /\ request' = [request EXCEPT ![r] = call]
Ends(r) == request' = [request EXCEPT ![r] = Idle]
Goes(r, phase) == request' = [request EXCEPT ![r].phase = phase]
Reads(r, phase) == request' = [request EXCEPT ![r].phase = phase, ![r].row = users[request[r].user]]
Rows == <<users, index, owner, challenge, provider>>

Same(r) == users[request[r].user].version = request[r].row.version

\* The row that was read, changed and written under the next version.
Write(r, row) ==
  /\ row.version < MaxVersion
  /\ users' = [users EXCEPT ![request[r].user] = [row EXCEPT !.version = @ + 1]]

-----------------------------------------------------------------------------
(* create() and bootstrapOwner()                                           *)

\* The first owner is only made while there is no account.
Insert(r, e, bootstrap) ==
  /\ bootstrap => \A u \in Account : users[u] = NoUser
  /\ Starts(r, [Idle EXCEPT !.phase = IF remote THEN "find" ELSE "insert", !.email = e, !.bootstrap = bootstrap])
  /\ UNCHANGED Rows

\* byEmail(), in two reads.
Find(r) ==
  /\ request[r].phase = "find"
  /\ LET u == index[request[r].email]
     IN request' = [request EXCEPT ![r].phase = IF u = 0 THEN "insert" ELSE "existing", ![r].user = u]
  /\ UNCHANGED Rows

\* An account that was never provisioned is provisioned again.
Existing(r) ==
  /\ request[r].phase = "existing"
  /\ LET row == users[request[r].user]
     IN IF row.provisioning /\ ~row.deleted
          THEN Reads(r, "provision")
          ELSE request' = [request EXCEPT ![r].phase = "insert", ![r].user = 0]
  /\ UNCHANGED Rows

Vacant(r) ==
  /\ index[request[r].email] = 0
  /\ request[r].bootstrap => owner = 0

\* The account, its email and, for the first owner, the installation are written together.
Reserve(r) ==
  /\ request[r].phase = "insert"
  /\ IF Vacant(r)
       THEN \E u \in Account :
              LET row == [NoUser EXCEPT !.version = 1, !.email = request[r].email, !.owner = request[r].bootstrap,
                                        !.active = ~remote, !.provisioning = remote, !.tv = 1]
              IN /\ users[u] = NoUser /\ \A v \in 1..(u - 1) : users[v] # NoUser
                 /\ users' = [users EXCEPT ![u] = row]
                 /\ index' = [index EXCEPT ![request[r].email] = u]
                 /\ owner' = IF request[r].bootstrap THEN u ELSE owner
                 /\ IF remote
                      THEN request' = [request EXCEPT ![r] = [Idle EXCEPT !.phase = "provision", !.user = u, !.row = row]]
                      ELSE Ends(r)
       ELSE Ends(r) /\ UNCHANGED <<users, index, owner>>
  /\ UNCHANGED <<challenge, provider>>

\* The provider may fail, before or after it did what it was asked.
Provision(r) ==
  /\ request[r].phase = "provision"
  /\ LET c == request[r]
     IN \/ /\ provider' = [provider EXCEPT ![c.user] = [exists |-> TRUE, email |-> c.row.email]]
           /\ Goes(r, "activate") \/ Ends(r)
        \/ Ends(r) /\ UNCHANGED provider
  /\ UNCHANGED <<users, index, owner, challenge>>

Activate(r) ==
  /\ request[r].phase = "activate"
  /\ IF Same(r)
       THEN Write(r, [request[r].row EXCEPT !.active = TRUE, !.provisioning = FALSE])
       ELSE UNCHANGED users
  /\ Ends(r)
  /\ UNCHANGED <<index, owner, challenge, provider>>

-----------------------------------------------------------------------------
(* profile(), update(), DELETE and restore                                 *)

Read(r, phase, u) ==
  /\ users[u] # NoUser
  /\ users[u].deleted <=> phase = "restore"
  /\ phase = "delete" => ~users[u].owner
  /\ Starts(r, [Idle EXCEPT !.phase = phase, !.user = u, !.row = users[u]])
  /\ UNCHANGED Rows

\* Bug: whoever is restored may sign in.
RestoredActive(row) == [row EXCEPT !.deleted = FALSE, !.active = TRUE, !.tv = @ + 1]

Restored(row) == [row EXCEPT !.deleted = FALSE, !.active = ~row.provisioning, !.tv = @ + 1]

Changed(c) ==
  CASE c.phase = "edit" -> c.row
    [] c.phase = "delete" -> [c.row EXCEPT !.deleted = TRUE, !.active = FALSE, !.tv = @ + 1]
    [] c.phase = "restore" -> Restored(c.row)

Change(r) ==
  /\ request[r].phase \in {"edit", "delete", "restore"}
  /\ IF Same(r) THEN Write(r, Changed(request[r])) ELSE UNCHANGED users
  /\ Ends(r)
  /\ UNCHANGED <<index, owner, challenge, provider>>

-----------------------------------------------------------------------------
(* requestEmailChange() and confirmEmailChange()                           *)

ChangeEmail(r, u, e) ==
  /\ users[u] # NoUser /\ index[e] = 0
  /\ Starts(r, [Idle EXCEPT !.phase = "user", !.user = u, !.email = e, !.code = challenge[u]])
  /\ UNCHANGED Rows

ReadUser(r) ==
  /\ request[r].phase = "user"
  /\ IF users[request[r].user].active THEN Reads(r, "issue") ELSE Ends(r)
  /\ UNCHANGED Rows

SameCode(r) == challenge[request[r].user].version = request[r].code.version

Issue(r) ==
  /\ request[r].phase = "issue"
  /\ LET c == request[r]
     IN IF SameCode(r)
          THEN /\ c.code.version < MaxCodes
               /\ challenge' = [challenge EXCEPT ![c.user] =
                    [version |-> c.code.version + 1, email |-> c.email, used |-> FALSE, attempts |-> 0, tv |-> c.row.tv]]
          ELSE UNCHANGED challenge
  /\ Ends(r)
  /\ UNCHANGED <<users, index, owner, provider>>

Confirm(r, u, right) ==
  /\ challenge[u].version > 0 /\ ~challenge[u].used /\ challenge[u].attempts < Attempts
  /\ Starts(r, [Idle EXCEPT !.phase = IF right THEN "current" ELSE "wrong", !.user = u, !.code = challenge[u]])
  /\ UNCHANGED Rows

Refuse(r) ==
  /\ request[r].phase = "wrong"
  /\ LET c == request[r]
     IN challenge' = IF SameCode(r) /\ c.code.version < MaxCodes
          THEN [challenge EXCEPT ![c.user] = [c.code EXCEPT !.version = @ + 1, !.attempts = @ + 1]] ELSE challenge
  /\ Ends(r)
  /\ UNCHANGED <<users, index, owner, provider>>

\* The code was issued to the user as he is now.
Current(r) ==
  /\ request[r].phase = "current"
  /\ LET row == users[request[r].user]
     IN IF row.active /\ row.tv = request[r].code.tv
          THEN Reads(r, IF remote THEN "rename" ELSE "confirm") ELSE Ends(r)
  /\ UNCHANGED Rows

\* The provider comes first, and may fail like before.
Rename(r) ==
  /\ request[r].phase = "rename"
  /\ \/ /\ provider' = [provider EXCEPT ![request[r].user].email = request[r].code.email]
        /\ Goes(r, "confirm") \/ Ends(r)
     \/ Ends(r) /\ UNCHANGED provider
  /\ UNCHANGED <<users, index, owner, challenge>>

\* Bug: an email may have been taken since the code was asked for.
FreeAnyway(e) == TRUE

Free(e) == index[e] = 0

\* The code, the account and both emails are written together.
Confirmed(r) ==
  /\ request[r].phase = "confirm"
  /\ LET c == request[r]
     IN IF SameCode(r) /\ Same(r) /\ index[c.row.email] # 0 /\ Free(c.code.email)
          THEN /\ c.code.version < MaxCodes
               /\ challenge' = [challenge EXCEPT ![c.user] = [c.code EXCEPT !.version = @ + 1, !.used = TRUE]]
               /\ Write(r, [c.row EXCEPT !.email = c.code.email, !.tv = @ + 1])
               /\ index' = [index EXCEPT ![c.row.email] = 0, ![c.code.email] = c.user]
          ELSE UNCHANGED <<users, index, challenge>>
  /\ Ends(r)
  /\ UNCHANGED <<owner, provider>>

-----------------------------------------------------------------------------
\* An error or the end of the process.
Fail(r) == request[r] # Idle /\ Ends(r) /\ UNCHANGED Rows

Step ==
  \E r \in Request :
    \/ \E e \in Email, bootstrap \in BOOLEAN : Insert(r, e, bootstrap)
    \/ Find(r) \/ Existing(r) \/ Reserve(r) \/ Provision(r) \/ Activate(r)
    \/ \E u \in Account, phase \in {"edit", "delete", "restore"} : Read(r, phase, u)
    \/ Change(r)
    \/ \E u \in Account, e \in Email : ChangeEmail(r, u, e)
    \/ ReadUser(r) \/ Issue(r)
    \/ \E u \in Account, right \in BOOLEAN : Confirm(r, u, right)
    \/ Refuse(r) \/ Current(r) \/ Rename(r) \/ Confirmed(r) \/ Fail(r)

Next == Step /\ UNCHANGED remote

Spec == Init /\ [][Next]_vars
=============================================================================
