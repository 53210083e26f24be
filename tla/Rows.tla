-------------------------------- MODULE Rows --------------------------------
(***************************************************************************)
(* What every store promises of transact() (packages/nosql): its writes    *)
(* are carried out all at once, when each row is what its write expects,   *)
(* or not at all; and a conflict is only answered when one was not.  After *)
(* any other error nobody knows: the writes may even be carried out later. *)
(*                                                                         *)
(* A row is its version, 0 is no row.  A write with expected 0 creates,    *)
(* one that becomes 0 deletes.                                             *)
(***************************************************************************)
EXTENDS Naturals, Sequences

CONSTANTS
  Key,
  Caller,       \* concurrent calls
  Transaction   \* sequences of writes to different keys

VARIABLES
  db,      \* [Key -> version]
  call,    \* [Caller -> the call it waits for]
  answer   \* [Caller -> what it was told of its call, "none" as long as it waits]

vars == <<db, call, answer>>

Idle == [phase |-> "idle", writes |-> <<>>]

Holds(rows, writes) == \A i \in DOMAIN writes : rows[writes[i].key] = writes[i].expected

Applied(rows, writes) ==
  [k \in Key |-> IF \E i \in DOMAIN writes : writes[i].key = k
                   THEN writes[CHOOSE i \in DOMAIN writes : writes[i].key = k].becomes
                   ELSE rows[k]]

-----------------------------------------------------------------------------
Init ==
  /\ db = [k \in Key |-> 0]
  /\ call = [c \in Caller |-> Idle]
  /\ answer = [c \in Caller |-> "none"]

Ask(c, writes) ==
  /\ call[c] = Idle
  /\ call' = [call EXCEPT ![c] = [phase |-> "asked", writes |-> writes]]
  /\ answer' = [answer EXCEPT ![c] = "none"]
  /\ UNCHANGED db

Commit(c) ==
  /\ call[c].phase = "asked" /\ Holds(db, call[c].writes)
  /\ db' = Applied(db, call[c].writes)
  /\ call' = [call EXCEPT ![c].phase = "applied"]
  /\ UNCHANGED answer

\* The caller is told of an error while its request is still under way.
Lose(c) ==
  /\ call[c] # Idle /\ answer[c] = "none"
  /\ answer' = [answer EXCEPT ![c] = "error"]
  /\ UNCHANGED <<db, call>>

Answer(c, told) ==
  /\ call[c] # Idle
  /\ told # "error" => answer[c] = "none"
  /\ told = "done" => call[c].phase = "applied"
  /\ told = "conflict" => call[c].phase = "asked" /\ ~Holds(db, call[c].writes)
  /\ call' = [call EXCEPT ![c] = Idle]
  /\ answer' = [answer EXCEPT ![c] = told]
  /\ UNCHANGED db

Next ==
  \E c \in Caller :
    \/ \E writes \in Transaction : Ask(c, writes)
    \/ Commit(c) \/ Lose(c)
    \/ \E told \in {"done", "conflict", "error"} : Answer(c, told)

Spec == Init /\ [][Next]_vars
=============================================================================
