------------------------------ MODULE QueueState -----------------------------
(* What a queue keeps, and what it promises of it: the state of Queue, in  *)
(* which its operations are.                                               *)
EXTENDS Integers, Sequences, FiniteSets

CONSTANTS
  Message, Worker,
  Concurrency,            \* deliveries of a worker at a time, 1..10
  Capacity,               \* of the entries, and of the dead letters, at least 1
  MaxAttempts,            \* maxAttempts of the workers
  NoMessage, NoReceipt

Slot == Worker \X (1..Concurrency)

VARIABLES
  entries,    \* the entries in order: [message, attempts, wait, receipt]
  failed,     \* the dead letters
  slot,       \* [Slot -> the delivery being handled]
  worker,     \* [Worker -> "pulling", "working" or "stopped"]
  published, succeeded, acked   \* what happened to the messages so far

queueVars == <<entries, failed, slot, worker, published, succeeded, acked>>

-----------------------------------------------------------------------------
Pending == {entries[i].message : i \in DOMAIN entries}

Handling(d) == slot[d].phase = "handling"

Of(d) == CHOOSE i \in DOMAIN entries : entries[i].message = slot[d].message

\* Bug: any receipt will do while somebody's lease runs.
CurrentUnlessExpired(d) == slot[d].message \in Pending /\ entries[Of(d)].wait > 0

\* check() of a receipt.
Current(d) == slot[d].message \in Pending /\ entries[Of(d)].receipt = d /\ entries[Of(d)].wait > 0

-----------------------------------------------------------------------------
QueueTypeOK ==
  /\ entries \in Seq([message : Message, attempts : 0..MaxAttempts, wait : Nat, receipt : Slot \cup {NoReceipt}])
  /\ Len(entries) <= Capacity
  /\ failed \subseteq Message /\ Cardinality(failed) <= Capacity
  /\ slot \in [Slot -> [message : Message \cup {NoMessage}, attempts : 0..MaxAttempts,
                         phase : {"free", "handling", "settled", "rejected"}]]
  /\ worker \in [Worker -> {"pulling", "working", "stopped"}]
  /\ succeeded \subseteq published /\ published \subseteq Message /\ acked \subseteq published

(* At-least-once delivery (comment of class Queue): an accepted message is *)
(* pending, a dead letter, or acknowledged after its handler succeeded,    *)
(* and only one of these, whatever leases ran out and settlements failed.  *)
Accounted ==
  /\ published = Pending \cup failed \cup acked
  /\ Pending \cap failed = {} /\ (Pending \cup failed) \cap acked = {}
  /\ Cardinality(Pending) = Len(entries)
  /\ acked \subseteq succeeded

(* The queue keeps to its room and loses nothing.                          *)
MessagesAreKept == QueueTypeOK /\ Accounted

(* While the lease of a delivery runs, its message is its own: no other    *)
(* delivery, however late it comes back, acknowledges, buries or releases  *)
(* it (check() of MemoryQueue.receive).                                    *)
SettledByItsLease ==
  \A d, e \in Slot :
    /\ d # e /\ Handling(d) /\ Handling(e)
    /\ slot[d].message = slot[e].message /\ Current(e)
    /\ slot'[d].phase = "settled"
    => slot'[e] = slot[e] /\ entries' = entries

LeasesAreRespected == [][SettledByItsLease]_queueVars
=============================================================================
