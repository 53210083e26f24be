----------------------------- MODULE MCSessions ------------------------------
(* Small instances of Sessions and of Users, which share no state: part    *)
(* says which one a behaviour is about.                                    *)
EXTENDS Sessions, UsersState, TLC

CONSTANTS
  p1, p2, s1, e1, e2,
  WrongCodes, MaxEdits, MaxCodes

Alike == Permutations(Process) \cup Permutations(Email)

VARIABLES challenge, request, part

usersVars == <<remote, users, index, owner, challenge, provider, request>>

U == INSTANCE Users WITH Request <- Process, Attempts <- WrongCodes, MaxVersion <- MaxEdits

AccountsInit ==
  /\ part \in {"sessions", "users"}
  /\ Init /\ U!Init
  /\ part = "sessions" => ~remote

AccountsNext ==
  /\ UNCHANGED part
  /\ \/ part = "sessions" /\ Next /\ UNCHANGED usersVars
     \/ part = "users" /\ U!Next /\ UNCHANGED vars

AccountsSpec == AccountsInit /\ [][AccountsNext]_<<vars, usersVars, part>>
=============================================================================
