----------------------------- MODULE UsersState ------------------------------
(* What Users promises, and the part of its state that the promises are    *)
(* about.                                                                  *)
EXTENDS Integers, FiniteSets

CONSTANTS
  Email,
  MaxUsers,    \* bound of the accounts
  NoEmail

UsersAssumption == MaxUsers \in Nat /\ NoEmail \notin Email
ASSUME UsersAssumption

Account == 1..MaxUsers

VARIABLES
  remote,     \* whether there is an identity provider
  users,      \* [Account -> its row of USERS]
  index,      \* [Email -> the id in its row of EMAIL; 0 is no row]
  owner,      \* the id in the row of INSTALLATION; 0 is no row
  provider    \* [Account -> what the identity provider keeps]

NoUser == [version |-> 0, email |-> NoEmail, owner |-> FALSE, active |-> FALSE, provisioning |-> FALSE,
           deleted |-> FALSE, tv |-> 0]

\* Every account has its email and no other has it, whoever registers, confirms a change of
\* address, edits or deletes at the same time: sign-in by email finds the account that shows it.
EmailsAreOwned ==
  /\ \A u \in Account : users[u] # NoUser => index[users[u].email] = u
  /\ \A e \in Email : index[e] # 0 => users[index[e]].email = e

\* The installation has one owner, however many were set up at the same time.
OneOwner == {u \in Account : users[u].owner} = {owner} \ {0}

\* An account that may sign in exists at the identity provider, whatever failed while it was
\* made, deleted and restored.
ActiveIsProvisioned == \A u \in Account : remote /\ users[u].active => provider[u].exists

\* An email leads to the account that has it, and to no other, the installation has one owner,
\* and who may sign in exists at the identity provider (Users.insert, restore, bootstrapOwner,
\* confirmEmailChange).
AccountsAreTrue == EmailsAreOwned /\ OneOwner /\ ActiveIsProvisioned
=============================================================================
