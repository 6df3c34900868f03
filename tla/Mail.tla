-------------------------------- MODULE Mail --------------------------------
(***************************************************************************)
(* The mails to the operator about what the scheduled tasks did: which     *)
(* event a run raises at which of its steps (scheduler/backup.go,          *)
(* tasks.go, update.go), the general event of a failed run and which tasks *)
(* suppress it (scheduler/notify.go), and the way of one event through its *)
(* switch, its template and the mail server (notify).  Nothing is queued   *)
(* and nothing is tried twice.  Templates and the mail server change at    *)
(* any moment.                                                             *)
(***************************************************************************)
EXTENDS Naturals, Sequences

CONSTANTS
  Lanes,         \* runs at the same time
  MaxTaskRuns,   \* bound: runs that begin
  MaxTurns       \* bound: changes of the templates and of the mail server

VARIABLES
  smtp,          \* what the settings say of the mail server
  ready,         \* what the try at the start has found
  switches,      \* the events that the settings allow
  addressed,     \* there is an address of the operator
  templates,     \* what each event has for a template of its own
  exchange,      \* the mail server
  lane,          \* each run: its task, what it raises yet, and what came of it
  taskRuns, turns,
  mails,         \* history: how many mails about its run each lane has got through
  lost           \* history: a mail of the lane was refused where it is bound to be

mailVars == <<smtp, ready, switches, addressed, templates, exchange,
              lane, taskRuns, turns, mails, lost>>

Events == {"backup_complete", "backup_failed", "ssl_expiring", "ssl_renewal_failed",
           "scheduler_error", "update_available", "update_installed"}
Failures == {"backup_failed", "ssl_expiring", "ssl_renewal_failed", "scheduler_error"}

\* A run that ends well or not, with the events it raises on its way.  A run
\* of backup_daily fails before it raises anything when the disk or the list
\* of archives cannot be read or the sweep fails, and after its archives are
\* complete when the last sweep fails.
End(ok, events) == [ok |-> ok, events |-> events]
Tasks == {"backup_daily", "backup_hourly", "ssl_renewal", "update_check", "geoip_update"}
Either(events) == {End(TRUE, events), End(FALSE, events)}
DailyEnds   == {End(TRUE, <<"backup_complete">>), End(FALSE, <<"backup_failed">>),
                End(FALSE, <<"backup_complete", "backup_failed">>)}
HourlyEnds  == {End(TRUE, <<>>), End(FALSE, <<"backup_failed">>)}
RenewalEnds == {End(TRUE, <<>>), End(FALSE, <<"ssl_expiring">>), End(FALSE, <<"ssl_renewal_failed">>)}
CheckEnds   == Either(<<>>) \cup Either(<<"update_available">>) \cup Either(<<"update_installed">>)
               \cup Either(<<"update_available", "update_installed">>)
Told ==
  [backup_daily |-> DailyEnds, backup_hourly |-> HourlyEnds, ssl_renewal |-> RenewalEnds,
   update_check |-> CheckEnds, geoip_update |-> Either(<<>>)]
Untold ==
  [backup_daily  |-> Either(<<>>) \cup {End(FALSE, <<"backup_complete">>)},
   backup_hourly |-> {End(FALSE, <<>>)},
   ssl_renewal   |-> {}, update_check |-> {}, geoip_update |-> {}]

\* Tasks whose runs tell of their failure themselves.
\* Fault: an older list.
SuppressedDaily == {"backup_daily", "ssl_renewal"}
SuppressedSchedulerError == {"backup_daily", "backup_hourly", "ssl_renewal"}

Files   == {"none", "good", "unparsable", "unreadable"}
Gone    == [answers |-> FALSE, starttls |-> FALSE, auth |-> {}]
Servers == {Gone, [Gone EXCEPT !.answers = TRUE],
            [answers |-> TRUE, starttls |-> TRUE, auth |-> {"PLAIN"}],
            [answers |-> TRUE, starttls |-> FALSE, auth |-> {"PLAIN", "CRAM-MD5"}]}
Idle    == [pc |-> "idle", task |-> "", end |-> End(TRUE, <<>>), rest |-> <<>>]

-----------------------------------------------------------------------------
(***************************************************************************)
(* The mail server                                                         *)
(***************************************************************************)

\* dialSMTP: TLS from the first byte ("tls", and "auto" on port 465), or after
\* STARTTLS where it is offered; without it only "starttls" gives up.
Connects  == smtp.tls = "starttls" => exchange.starttls
Encrypted == smtp.tls = "tls" \/ (smtp.tls # "none" /\ exchange.starttls)
\* authenticate: PLAIN is not said in the clear to another host.
LogsIn ==
  smtp.user => \/ ~Encrypted /\ "CRAM-MD5" \in exchange.auth
               \/ (Encrypted \/ smtp.here) /\ "PLAIN" \in exchange.auth
Accepts == exchange.answers /\ Connects /\ LogsIn

\* The server is tried once, when the process starts.
Init ==
  /\ smtp \in [tls : {"auto", "starttls", "tls", "none"}, user : BOOLEAN, here : BOOLEAN]
  /\ exchange \in Servers /\ ready = Accepts
  /\ addressed \in BOOLEAN
  /\ switches \in {Events, Events \ {"backup_complete", "scheduler_error"}}
  /\ templates = [e \in Events |-> "none"]
  /\ lane = [l \in Lanes |-> Idle] /\ taskRuns = 0 /\ turns = 0
  /\ mails = [l \in Lanes |-> 0] /\ lost = [l \in Lanes |-> FALSE]

settings  == <<ready, switches, addressed, smtp>>
At(l, pc) == lane[l].pc = pc
Event(l)  == Head(lane[l].rest)

\* A template of the operator's counts at once; without one the embedded does.
Retemplate(e, file) ==
  /\ turns < MaxTurns /\ turns' = turns + 1
  /\ templates' = [templates EXCEPT ![e] = file]
  /\ UNCHANGED <<settings, exchange, lane, taskRuns, mails, lost>>
Customize == \E e \in Failures, f \in Files \ {"none"} : Retemplate(e, f)
Reset     == \E e \in Failures : templates[e] # "none" /\ Retemplate(e, "none")
Turn ==
  /\ turns < MaxTurns /\ turns' = turns + 1 /\ exchange' \in Servers \ {exchange}
  /\ UNCHANGED <<settings, templates, lane, taskRuns, mails, lost>>

-----------------------------------------------------------------------------
(***************************************************************************)
(* Runs                                                                    *)
(***************************************************************************)

\* No task runs twice at the same time.
Begin(l) ==
  /\ At(l, "idle") /\ taskRuns < MaxTaskRuns /\ taskRuns' = taskRuns + 1
  /\ \E t \in Tasks : \E end \in Told[t] \cup Untold[t] :
       /\ \A m \in Lanes : lane[m].task = t => At(m, "over")
       /\ lane' = [lane EXCEPT ![l] = [pc |-> "runs", task |-> t, end |-> end,
                                       rest |-> end.events]]
  /\ UNCHANGED <<settings, templates, exchange, turns, mails, lost>>

\* Fault: a template that cannot be parsed is an error like any other.
Broken(file) == file \in {"unparsable", "unreadable"}
\* Load: the embedded template stands in for one that cannot be parsed, and
\* not for one that cannot be read.
Dropped(file) == file = "unreadable"

EventEnabled(l) == Event(l) \in switches
Wanted(l)       == ready /\ EventEnabled(l) /\ addressed
Sendable(l)     == Wanted(l) /\ ~Dropped(templates[Event(l)])
\* What a task fails to send it does not hold against itself.
Pass(l, got) ==
  /\ lane' = [lane EXCEPT ![l].pc = IF Event(l) = "scheduler_error" THEN "over" ELSE "runs",
                          ![l].rest = Tail(@)]
  /\ mails' = IF got /\ Event(l) \in Failures THEN [mails EXCEPT ![l] = @ + 1] ELSE mails

Send(l) ==
  /\ lane[l].pc \in {"runs", "general"} /\ lane[l].rest # <<>>
  /\ IF Sendable(l) THEN lane' = [lane EXCEPT ![l].pc = "sends"] /\ UNCHANGED <<mails, lost>>
     ELSE /\ Pass(l, FALSE)
          /\ lost' = [lost EXCEPT ![l] = @ \/ ~Wanted(l) \/ templates[Event(l)] = "unreadable"]
  /\ UNCHANGED <<settings, templates, exchange, taskRuns, turns>>

\* smtpSend: the mail is through once its end is acknowledged, whatever becomes
\* of the QUIT after it.  A server that stops answering keeps the run for ever.
Deliver(l) ==
  /\ At(l, "sends") /\ Pass(l, Accepts)
  /\ lost' = [lost EXCEPT ![l] = @ \/ ~Accepts]
  /\ UNCHANGED <<settings, templates, exchange, taskRuns, turns>>
Stall(l) ==
  /\ At(l, "sends") /\ lane' = [lane EXCEPT ![l].pc = "stuck"]
  /\ UNCHANGED <<settings, templates, exchange, taskRuns, turns, mails, lost>>

\* The run is over.  What failed is told in general, unless the task is one of
\* those that tell of it themselves.
Finish(l) ==
  /\ At(l, "runs") /\ lane[l].rest = <<>>
  /\ LET general == ~lane[l].end.ok /\ lane[l].task \notin SuppressedSchedulerError
     IN  lane' = [lane EXCEPT ![l].pc = IF general THEN "general" ELSE "over",
                              ![l].rest = IF general THEN <<"scheduler_error">> ELSE <<>>]
  /\ UNCHANGED <<settings, templates, exchange, taskRuns, turns, mails, lost>>

Next ==
  \/ Customize \/ Reset \/ Turn
  \/ \E l \in Lanes : Begin(l) \/ Send(l) \/ Deliver(l) \/ Stall(l) \/ Finish(l)

Spec == Init /\ [][Next]_mailVars

-----------------------------------------------------------------------------
\* The operator gets at most one mail about the failure of a run, whichever of
\* the two places tells of it, and exactly one when a run whose failure is told
\* at all is over and no mail of it was bound to be lost: email off, the event
\* switched off, no address, a template nobody can read, a mail server that
\* refused.  A template of the operator that cannot be parsed is no such cause
\* (notify/store.go: a mistyped template must never be the reason a backup
\* failure goes unreported).
ToldOnce ==
  \A l \in Lanes :
    /\ mails[l] <= 1
    /\ At(l, "over") /\ ~lost[l] /\ ~lane[l].end.ok /\ lane[l].end \in Told[lane[l].task]
         => mails[l] = 1

\* What the comment on suppressedSchedulerError promises: a failed run of a
\* task whose general event is suppressed has told of its failure in particular,
\* when there is a way for its mail.
FailureTold ==
  ready /\ addressed /\ switches = Events =>
    \A l \in Lanes : At(l, "over") /\ ~lost[l] /\ ~lane[l].end.ok => mails[l] = 1
=============================================================================
