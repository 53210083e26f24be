----------------------------- MODULE NoticesState ----------------------------
(* What Notices promises, and the part of its state that the promises are  *)
(* about.                                                                  *)
EXTENDS Integers

CONSTANTS
  Runner,         \* concurrent runs of maintenance()
  Reminder,       \* keys of reminders: a user and the end of a period
  WebhookNotice,  \* keys of notices of webhooks
  Lease           \* how long a claim lasts (a minute)

NoticesAssumption == Lease \in Nat
ASSUME NoticesAssumption

Notice == Reminder \cup WebhookNotice

VARIABLES
  clock,
  mail,    \* [Notice -> its row of SUB_MAIL]; version 0 is no row
  run,     \* [Runner -> what it does]
  told     \* [Notice -> how often it was put there, and whether it was sent]

\* A notice is in the hands of one run at a time, until its lease is over, and of none once
\* it is marked as sent: overlapping runs do not send it twice unless a lease ran out.
NoticesAreClaimed ==
  \A p \in Runner :
    run[p].phase = "notify" => mail[run[p].key].version = run[p].row.version \/ run[p].row.until <= clock

\* A reminder is put there once for its period, however many runs found it missing, and a
\* notice that is marked as sent was sent.
NoticesAreTrue ==
  \A k \in Notice : told[k].posted <= 1 /\ (mail[k].sent => told[k].sent)

\* A notice is in the hands of one run at a time, a reminder is made once, and what is marked
\* as sent was sent (maintenance).
NoticesAreInOneHand == NoticesAreClaimed /\ NoticesAreTrue
=============================================================================
