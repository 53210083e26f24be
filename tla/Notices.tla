------------------------------ MODULE Notices -------------------------------
(***************************************************************************)
(* packages/subscriptions, the notices of maintenance(): one reminder for  *)
(* each period that is about to end, and notices of webhooks, which wait   *)
(* in SUB_MAIL until some run of maintenance has sent them.  A run claims  *)
(* a notice for a lease, sends it, and marks it as sent.  Runs overlap,    *)
(* stop anywhere, and the mail service may fail after it sent the mail.    *)
(***************************************************************************)
EXTENDS NoticesState

CONSTANTS
  MaxClock,  \* bound of the clock
  NoNotice

VARIABLES
  wants    \* whether the user wants notices

vars == <<clock, wants, mail, run, told>>

-----------------------------------------------------------------------------
NoRow == [version |-> 0, sent |-> FALSE, until |-> 0]
Idle == [phase |-> "idle", key |-> NoNotice, row |-> NoRow, list |-> [k \in Notice |-> NoRow]]

Init ==
  /\ clock = 0 /\ wants = TRUE
  /\ mail = [k \in Notice |-> NoRow]
  /\ run = [p \in Runner |-> Idle]
  /\ told = [k \in Notice |-> [posted |-> 0, sent |-> FALSE]]

Goes(p, phase) == run' = [run EXCEPT ![p].phase = phase]
Ends(p) == run' = [run EXCEPT ![p] = Idle]

Same(k, row) == mail[k].version = row.version

Posted(k) ==
  /\ mail' = [mail EXCEPT ![k] = [NoRow EXCEPT !.version = 1]]
  /\ told' = [told EXCEPT ![k].posted = @ + 1]

-----------------------------------------------------------------------------
\* webhook(): with the row that says that the event was seen, and so once.
Webhook(k) ==
  /\ k \in WebhookNotice /\ mail[k] = NoRow
  /\ Posted(k)
  /\ UNCHANGED <<clock, wants, run>>

\* A reminder is looked for, and put there if nobody did meanwhile.
Remind(p, k) ==
  /\ run[p].phase = "idle" /\ k \in Reminder /\ wants
  /\ run' = [run EXCEPT ![p].phase = IF mail[k].version = 0 THEN "remind" ELSE "list", ![p].key = k]
  /\ UNCHANGED <<clock, wants, mail, told>>

Post(p) ==
  /\ run[p].phase = "remind"
  /\ IF Same(run[p].key, NoRow) THEN Posted(run[p].key) ELSE UNCHANGED <<mail, told>>
  /\ run' = [run EXCEPT ![p] = [Idle EXCEPT !.phase = "list"]]
  /\ UNCHANGED <<clock, wants>>

\* Whether or not there is a reminder.
List(p) ==
  /\ run[p].phase \in {"idle", "list"}
  /\ run' = [run EXCEPT ![p] = [Idle EXCEPT !.phase = "next", !.list = mail]]
  /\ UNCHANGED <<clock, wants, mail, told>>

\* Bug: a claim is not respected.
DueAnyway(row) == row.version > 0 /\ ~row.sent

Due(row) == row.version > 0 /\ ~row.sent /\ row.until <= clock

\* The next of the list; a user who does not want it keeps it in the list.
Take(p, k) ==
  /\ run[p].phase = "next"
  /\ Due(run[p].list[k]) /\ wants
  /\ run' = [run EXCEPT ![p].phase = "claim", ![p].key = k, ![p].list[k] = NoRow,
                        ![p].row = [run[p].list[k] EXCEPT !.until = clock + Lease]]
  /\ UNCHANGED <<clock, wants, mail, told>>

Claim(p) ==
  /\ run[p].phase = "claim"
  /\ LET k == run[p].key
         row == [run[p].row EXCEPT !.version = @ + 1]
     IN IF Same(k, run[p].row)
          THEN /\ mail' = [mail EXCEPT ![k] = row]
               /\ run' = [run EXCEPT ![p].phase = "notify", ![p].row = row]
          ELSE Goes(p, "next") /\ UNCHANGED mail
  /\ UNCHANGED <<clock, wants, told>>

Notify(p) ==
  /\ run[p].phase = "notify"
  /\ \/ told' = [told EXCEPT ![run[p].key].sent = TRUE] /\ (Goes(p, "mark") \/ Goes(p, "next"))
     \/ Goes(p, "next") /\ UNCHANGED told
  /\ UNCHANGED <<clock, wants, mail>>

\* A conflict is left to the next lease, like any other error.
Mark(p) ==
  /\ run[p].phase = "mark"
  /\ LET k == run[p].key
     IN mail' = IF Same(k, run[p].row)
          THEN [mail EXCEPT ![k] = [run[p].row EXCEPT !.version = @ + 1, !.sent = TRUE]] ELSE mail
  /\ Goes(p, "next")
  /\ UNCHANGED <<clock, wants, told>>

\* The list is done, or the run stops.
Stop(p) ==
  /\ run[p].phase # "idle" /\ Ends(p)
  /\ UNCHANGED <<clock, wants, mail, told>>

Prefer == wants' = ~wants /\ UNCHANGED <<clock, mail, run, told>>

Tick ==
  /\ clock < MaxClock /\ clock' = clock + 1
  /\ UNCHANGED <<wants, mail, run, told>>

Next ==
  \/ \E p \in Runner :
       \/ \E k \in Notice : Remind(p, k) \/ Take(p, k)
       \/ Post(p) \/ List(p) \/ Claim(p) \/ Notify(p) \/ Mark(p) \/ Stop(p)
  \/ \E k \in Notice : Webhook(k)
  \/ Prefer \/ Tick

Spec == Init /\ [][Next]_vars
=============================================================================
