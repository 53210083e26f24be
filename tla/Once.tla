-------------------------------- MODULE Once --------------------------------
(***************************************************************************)
(* What idempotent execution promises its callers, with no store, no       *)
(* versions and no failures in sight: for each logical operation (a key)   *)
(* at most one caller is elected to run the work, at most one value is     *)
(* ever recorded, and whoever is answered with a value is answered with    *)
(* the recorded one.  Every other caller is refused.                       *)
(***************************************************************************)
CONSTANTS Exec, Key, Value, NoExec, NoValue

VARIABLES runner,    \* [Key -> Exec or NoExec]: who was elected
          ran,       \* the executions whose work was invoked
          recorded,  \* [Key -> Value or NoValue]
          answered   \* [Exec -> Value or NoValue]: the value a caller received

onceVars == <<runner, ran, recorded, answered>>

Init ==
  /\ runner = [k \in Key |-> NoExec]
  /\ ran = {}
  /\ recorded = [k \in Key |-> NoValue]
  /\ answered = [e \in Exec |-> NoValue]

Elect(k, e) ==
  /\ runner[k] = NoExec
  /\ runner' = [runner EXCEPT ![k] = e]
  /\ UNCHANGED <<ran, recorded, answered>>

Run(k, e) ==
  /\ runner[k] = e
  /\ e \notin ran
  /\ ran' = ran \cup {e}
  /\ UNCHANGED <<runner, recorded, answered>>

Record(k, v) ==
  /\ runner[k] \in ran
  /\ recorded[k] = NoValue
  /\ recorded' = [recorded EXCEPT ![k] = v]
  /\ UNCHANGED <<runner, ran, answered>>

Answer(k, e) ==
  /\ recorded[k] # NoValue
  /\ answered[e] = NoValue
  /\ answered' = [answered EXCEPT ![e] = recorded[k]]
  /\ UNCHANGED <<runner, ran, recorded>>

\* The acknowledged completion records its value and answers its caller at once.
RecordAndAnswer(k, v) ==
  /\ runner[k] \in ran
  /\ recorded[k] = NoValue
  /\ answered[runner[k]] = NoValue
  /\ recorded' = [recorded EXCEPT ![k] = v]
  /\ answered' = [answered EXCEPT ![runner[k]] = v]
  /\ UNCHANGED <<runner, ran>>

Next ==
  \/ \E k \in Key, e \in Exec : Elect(k, e) \/ Run(k, e) \/ Answer(k, e)
  \/ \E k \in Key, v \in Value : Record(k, v) \/ RecordAndAnswer(k, v)

Spec == Init /\ [][Next]_onceVars
=============================================================================
