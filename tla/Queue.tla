-------------------------------- MODULE Queue --------------------------------
(***************************************************************************)
(* packages/queue: workers (Queue.run over Queue.workOnce) that share one  *)
(* MemoryQueue, its owner's dead-letter controls, and the clock.           *)
(*                                                                         *)
(* A message is published once.  wait is the time left until an entry is   *)
(* available: the lease of a delivery runs while it is positive.  A        *)
(* receipt is random: the delivery slot it was made out to stands for it,  *)
(* for the slot is free again only when its delivery is over.  Attempts    *)
(* are counted up to MaxAttempts, the only number they are compared with.  *)
(***************************************************************************)
EXTENDS QueueState, SequencesExt

CONSTANTS
  Lease,                  \* leaseSeconds
  BaseDelay, MaxDelay     \* delays of a retry, in this order

-----------------------------------------------------------------------------
Free == [message |-> NoMessage, attempts |-> 0, phase |-> "free"]

Init ==
  /\ entries = <<>>
  /\ failed = {}
  /\ slot = [d \in Slot |-> Free]
  /\ worker = [w \in Worker |-> "pulling"]
  /\ published = {} /\ succeeded = {} /\ acked = {}

Least(m, n) == IF m < n THEN m ELSE n

Slots(w) == {w} \X (1..Concurrency)
Entry(m) == [message |-> m, attempts |-> 0, wait |-> 0, receipt |-> NoReceipt]

HasRoom(size) == size < Capacity

Publish(m) ==
  /\ m \notin published
  /\ HasRoom(Len(entries))
  /\ entries' = Append(entries, Entry(m))
  /\ published' = published \cup {m}
  /\ UNCHANGED <<failed, slot, worker, succeeded, acked>>

-----------------------------------------------------------------------------
(* MemoryQueue.receive() for a worker that pulls.                          *)

\* The entries that are available; the first ones, in order, are taken.
Available == {i \in DOMAIN entries : entries[i].wait = 0}
Turn(i) == Cardinality({j \in Available : j <= i})
Taken == {i \in Available : Turn(i) <= Concurrency}
TakenAt(turn) == CHOOSE i \in Taken : Turn(i) = turn

Receive(w) ==
  /\ worker[w] = "pulling" /\ Available # {}
  /\ LET Delivered(i) == [entries[i] EXCEPT !.attempts = Least(@ + 1, MaxAttempts), !.wait = Lease,
                                            !.receipt = <<w, Turn(i)>>]
     IN /\ entries' = [i \in DOMAIN entries |-> IF i \in Taken THEN Delivered(i) ELSE entries[i]]
        /\ slot' = [d \in Slot |->
             IF d[1] = w /\ \E i \in Taken : Turn(i) = d[2]
               THEN [message |-> entries[TakenAt(d[2])].message,
                     attempts |-> Delivered(TakenAt(d[2])).attempts, phase |-> "handling"]
               ELSE slot[d]]
  /\ worker' = [worker EXCEPT ![w] = "working"]
  /\ UNCHANGED <<failed, published, succeeded, acked>>

-----------------------------------------------------------------------------
(* The handler of a delivery, and how workOnce() settles it.               *)

Ends(d, phase) == slot' = [slot EXCEPT ![d] = [Free EXCEPT !.phase = phase]]

\* A settlement that throws rejects its delivery.
Reject(d) == ~Current(d) /\ Ends(d, "rejected") /\ UNCHANGED <<entries, failed, acked>>

Ack(d) ==
  /\ Current(d)
  /\ entries' = RemoveAt(entries, Of(d))
  /\ acked' = acked \cup {slot[d].message}
  /\ Ends(d, "settled")
  /\ UNCHANGED failed

Extend(d) ==
  /\ Handling(d) /\ Current(d)
  /\ \E seconds \in 0..Lease : entries' = [entries EXCEPT ![Of(d)].wait = seconds]
  /\ UNCHANGED <<failed, slot, worker, published, succeeded, acked>>

Succeed(d) ==
  /\ Handling(d)
  /\ succeeded' = succeeded \cup {slot[d].message}
  /\ Ack(d) \/ Reject(d)
  /\ UNCHANGED <<worker, published>>

Delays(attempts) == 0..Least(MaxDelay, BaseDelay * 2 ^ (attempts - 1))

Retry(d) ==
  /\ Current(d)
  /\ \E seconds \in Delays(slot[d].attempts) :
       entries' = [entries EXCEPT ![Of(d)].wait = seconds, ![Of(d)].receipt = NoReceipt]
  /\ Ends(d, "settled")
  /\ UNCHANGED <<failed, acked>>

\* Bug: the entry is dropped before the dead letters are found to be full.
DeadLetterDropping(d) ==
  /\ Current(d)
  /\ entries' = RemoveAt(entries, Of(d))
  /\ IF HasRoom(Cardinality(failed))
       THEN failed' = failed \cup {slot[d].message} /\ Ends(d, "settled")
       ELSE Ends(d, "rejected") /\ UNCHANGED failed
  /\ UNCHANGED acked

DeadLetter(d) ==
  /\ Current(d)
  /\ IF HasRoom(Cardinality(failed))
       THEN /\ failed' = failed \cup {slot[d].message}
            /\ entries' = RemoveAt(entries, Of(d))
            /\ Ends(d, "settled")
       ELSE Ends(d, "rejected") /\ UNCHANGED <<entries, failed>>
  /\ UNCHANGED acked

Exhausted(attempts) == attempts >= MaxAttempts

Throw(d) ==
  /\ Handling(d)
  /\ \/ Exhausted(slot[d].attempts) /\ DeadLetter(d)
     \/ ~Exhausted(slot[d].attempts) /\ Retry(d)
     \/ Reject(d)
  /\ UNCHANGED <<worker, published, succeeded>>

-----------------------------------------------------------------------------
(* workOnce() ends when all its deliveries have; run() stops on an error.  *)

Finish(w) ==
  /\ worker[w] = "working"
  /\ \A d \in Slots(w) : ~Handling(d)
  /\ worker' = [worker EXCEPT ![w] =
       IF \E d \in Slots(w) : slot[d].phase = "rejected" THEN "stopped" ELSE "pulling"]
  /\ slot' = [d \in Slot |-> IF d[1] = w THEN Free ELSE slot[d]]
  /\ UNCHANGED <<entries, failed, published, succeeded, acked>>

\* The supervisor of a worker starts it again.
Restart(w) ==
  /\ worker[w] = "stopped"
  /\ worker' = [worker EXCEPT ![w] = "pulling"]
  /\ UNCHANGED <<entries, failed, slot, published, succeeded, acked>>

\* An owner puts a dead letter back; a token that was used before names none.
RetryFailure(m) ==
  /\ m \in failed
  /\ HasRoom(Len(entries))
  /\ entries' = Append(entries, Entry(m))
  /\ failed' = failed \ {m}
  /\ UNCHANGED <<slot, worker, published, succeeded, acked>>

\* The clock; a handler may well outlive its lease.
Tick ==
  /\ \E i \in DOMAIN entries : entries[i].wait > 0
  /\ entries' = [i \in DOMAIN entries |-> [entries[i] EXCEPT !.wait = IF @ > 0 THEN @ - 1 ELSE 0]]
  /\ UNCHANGED <<failed, slot, worker, published, succeeded, acked>>

Next ==
  \/ \E m \in Message : Publish(m) \/ RetryFailure(m)
  \/ \E w \in Worker : Receive(w) \/ Finish(w) \/ Restart(w)
  \/ \E d \in Slot : Extend(d) \/ Succeed(d) \/ Throw(d)
  \/ Tick

Spec == Init /\ [][Next]_queueVars
=============================================================================
