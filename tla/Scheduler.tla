----------------------------- MODULE Scheduler -----------------------------
(***************************************************************************)
(* The task scheduler: scheduler/scheduler.go, db/scheduler.go, the        *)
(* --scheduler command and the life of the server around them.  The        *)
(* server registers its tasks, catches up what it missed, and then runs a  *)
(* task when gocron fires it.  A run is a goroutine of several steps: read *)
(* the task's row, work, ask gocron for the next run, record.  Runs of one *)
(* task overlap each other, commands of other processes and the end of the *)
(* server; the rows in server.db survive.                                  *)
(***************************************************************************)
EXTENDS Naturals, Sequences, FiniteSets

CONSTANTS
  Tasks,      \* task ids
  Configs,    \* the configurations an operator or an upgrade may bring
  Window,     \* catch_up_window
  FireLanes,  \* bound: runs of one task that gocron has started at once
  Commands,   \* which of "run", "enable", "disable" the operator uses
  Container,  \* whether the server runs in a container
  ReadsFail,  \* whether a read of scheduler_tasks may fail
  MaxRuns,    \* bound: runs ever recorded
  MaxTime,    \* bound: the last instant of the clock
  NoTime, NoRow

\* A cron expression fires at the multiples of its period; "@every" fires
\* one period after the last time.
Schedules == [every : BOOLEAN, period : Nat \ {0}]

ASSUME SchedulerAssumption ==
  /\ Configs \subseteq [Tasks -> [schedule : Schedules, enabled : BOOLEAN]]
  /\ Configs # {}
  /\ Window \in Nat /\ MaxRuns \in Nat /\ MaxTime \in Nat
  /\ FireLanes \cap {"catchup", "manual"} = {}
  /\ Commands \subseteq {"run", "enable", "disable"}
  /\ Container \in BOOLEAN /\ ReadsFail \in BOOLEAN
  /\ NoTime \notin Nat

Lanes == FireLanes \cup {"catchup", "manual"}
Runs  == Tasks \X Lanes

VARIABLES
  now,         \* the wall clock
  phase,       \* the server: "down", "booting", "up", "stopping"
  config,      \* server.scheduler.tasks as the next process will read it
  defs,        \* Scheduler.tasks: the TaskDefs of the server
  registered,  \* the tasks Register has been called for
  jobs,        \* gocron: when each task fires next (of a server that has
               \* ended, what it was waiting for; no step reads that)
  rows,        \* the table scheduler_tasks
  history,     \* the table scheduler_history, in the order of its ids
  runs         \* the runs in flight: one goroutine or process in each lane

persistent == <<rows, history>>
server     == <<phase, defs, registered, jobs>>
vars == <<now, config, persistent, server, runs>>

Instants == Nat \cup {NoTime}
Statuses == {"success", "failed", "skipped"}
Rows     == [enabled : BOOLEAN, schedule : Schedules, last_run : Instants,
             next_run : Instants, last_status : Statuses \cup {"none"},
             run_count : Nat, fail_count : Nat]
ASSUME SentinelAssumption == NoRow \notin Rows

\* "due" is the instant a run stands for; the code does not keep it.
Entries  == [task : Tasks, due : Instants, started : Nat, status : Statuses]
RunStates ==
  [pc : {"idle", "lookup", "running", "ran", "record"}, due : Instants,
   started : Nat, status : Statuses, next : Instants]

Idle == [pc |-> "idle", due |-> NoTime, started |-> 0, status |-> "skipped",
         next |-> NoTime]

Init ==
  /\ now = 0
  /\ phase = "down"
  /\ config \in Configs
  /\ defs = config
  /\ registered = {}
  /\ jobs = [t \in Tasks |-> NoTime]
  /\ rows = [t \in Tasks |-> NoRow]
  /\ history = << >>
  /\ runs = [x \in Runs |-> Idle]

-----------------------------------------------------------------------------
(***************************************************************************)
(* The life of the server                                                  *)
(***************************************************************************)

\* When a job fires after instant i.
NextFire(schedule, i) ==
  IF schedule.every THEN i + schedule.period
  ELSE (i \div schedule.period + 1) * schedule.period

\* The row UpsertSchedulerTask leaves: a new task starts enabled, a row that
\* exists keeps everything but its name.
Upserted(t, def) ==
  IF rows[t] # NoRow THEN rows[t]
  ELSE [enabled |-> TRUE, schedule |-> def.schedule, last_run |-> NoTime,
        next_run |-> NoTime, last_status |-> "none", run_count |-> 0,
        fail_count |-> 0]

\* Every invocation but the immediate-exit commands writes the PID file, so
\* that a --scheduler command and a server exclude each other -- except in
\* a container, where the PID file is not used.
Alone ==
  Container \/ (phase = "down" /\ \A t \in Tasks : runs[<<t, "manual">>].pc = "idle")

\* The process starts and reads its configuration.
Boot ==
  /\ phase = "down" /\ Alone
  /\ phase' = "booting"
  /\ defs' = config
  /\ registered' = {}
  /\ UNCHANGED <<now, config, persistent, jobs, runs>>

Register(t) ==
  /\ phase = "booting" /\ t \notin registered
  /\ registered' = registered \cup {t}
  /\ rows' = [rows EXCEPT ![t] = Upserted(t, defs[t])]
  /\ UNCHANGED <<now, config, history, phase, defs, jobs, runs>>

\* Fault: a run overdue by exactly the window is too late.
OverdueStrictly(t) ==
  /\ rows[t] # NoRow
  /\ rows[t].enabled
  /\ rows[t].next_run # NoTime
  /\ rows[t].next_run < now /\ now - rows[t].next_run < Window

\* catchUp: the row's next run has passed, by no more than the window.
Overdue(t) ==
  /\ rows[t] # NoRow
  /\ rows[t].enabled
  /\ rows[t].next_run # NoTime
  /\ rows[t].next_run < now /\ now - rows[t].next_run <= Window

\* Start: every task becomes a job; one goroutine for each overdue task
\* whose row could be read, which waits for the mutex until Start has
\* returned.
Start ==
  /\ phase = "booting" /\ registered = Tasks
  /\ phase' = "up"
  /\ jobs' = [t \in Tasks |-> NextFire(defs[t].schedule, now)]
  /\ \E read \in IF ReadsFail THEN SUBSET Tasks ELSE {Tasks} :
       runs' = [x \in Runs |->
         IF x[2] = "catchup" /\ x[1] \in read /\ Overdue(x[1])
         THEN [Idle EXCEPT !.pc = "lookup", !.due = rows[x[1]].next_run]
         ELSE runs[x]]
  /\ UNCHANGED <<now, config, persistent, defs, registered>>

\* Stop: gocron starts nothing more; what runs may still finish.
Stop ==
  /\ phase = "up"
  /\ phase' = "stopping"
  /\ UNCHANGED <<now, config, persistent, defs, registered, jobs, runs>>

\* The process ends, after Stop or by a crash, and its goroutines with it.
Exit ==
  /\ phase # "down"
  /\ phase' = "down"
  /\ registered' = {}
  /\ runs' = [x \in Runs |-> IF x[2] = "manual" THEN runs[x] ELSE Idle]
  /\ UNCHANGED <<now, config, persistent, defs, jobs>>

\* The operator edits the configuration, or installs a version with others.
Reconfigure ==
  /\ config' \in Configs \ {config}
  /\ UNCHANGED <<now, persistent, server, runs>>

(***************************************************************************)
(* A run                                                                   *)
(***************************************************************************)

\* Fault: gocron is not told that the job has fired.
NotRescheduled(t) == jobs[t]

Rescheduled(t) == NextFire(defs[t].schedule, jobs[t])

\* gocron fires a job at its instant, whether or not the last run is over.
Fire(t) ==
  /\ phase = "up" /\ jobs[t] = now
  /\ \E l \in FireLanes :
       /\ runs[<<t, l>>].pc = "idle"
       /\ runs' = [runs EXCEPT ![<<t, l>>] =
            [Idle EXCEPT !.pc = "lookup", !.due = now]]
  /\ jobs' = [jobs EXCEPT ![t] = Rescheduled(t)]
  /\ UNCHANGED <<now, config, persistent, phase, defs, registered>>

\* runTask reads whether the task is enabled: from its row, or from its
\* definition when the row cannot be read.
LookupTask(t, l) ==
  /\ runs[<<t, l>>].pc = "lookup"
  /\ \E enabled \in
       {rows[t].enabled} \cup (IF ReadsFail THEN {defs[t].enabled} ELSE {}) :
       runs' = [runs EXCEPT ![<<t, l>>].pc = IF enabled THEN "running" ELSE "ran",
                            ![<<t, l>>].started = now,
                            ![<<t, l>>].status = "skipped"]
  /\ UNCHANGED <<now, config, persistent, server>>

\* The TaskFunc returns.
Finish(t, l) ==
  /\ runs[<<t, l>>].pc = "running"
  /\ \E status \in {"success", "failed"} :
       runs' = [runs EXCEPT ![<<t, l>>].pc = "ran", ![<<t, l>>].status = status]
  /\ UNCHANGED <<now, config, persistent, server>>

\* Fault: the run reports the instant it stood for.
SameRun(t, l) == {runs[<<t, l>>].due}

\* What job.NextRun may answer: nothing in the process of a command, which
\* has no jobs, and nothing when gocron cannot tell.
NextRun(t, l) == IF l = "manual" THEN {NoTime} ELSE {jobs[t], NoTime}

AskNextRun(t, l) ==
  /\ runs[<<t, l>>].pc = "ran"
  /\ \E next \in NextRun(t, l) :
       runs' = [runs EXCEPT ![<<t, l>>].pc = "record", ![<<t, l>>].next = next]
  /\ UNCHANGED <<now, config, persistent, server>>

\* Fault: every recorded run counts.
CountedRun(row, run) ==
  [row EXCEPT !.last_run = run.started, !.next_run = run.next,
              !.last_status = run.status,
              !.run_count = @ + 1,
              !.fail_count = @ + (IF run.status = "failed" THEN 1 ELSE 0)]

\* The UPDATE of RecordSchedulerRun; a skipped run counts as neither.
AfterRun(row, run) ==
  [row EXCEPT !.last_run = run.started, !.next_run = run.next,
              !.last_status = run.status,
              !.run_count = @ + (IF run.status = "success" THEN 1 ELSE 0),
              !.fail_count = @ + (IF run.status = "failed" THEN 1 ELSE 0)]

\* RecordSchedulerRun: the row and the history in one transaction.
RecordSchedulerRun(t, l) ==
  LET run == runs[<<t, l>>] IN
  /\ run.pc = "record"
  /\ Len(history) < MaxRuns
  /\ rows' = [rows EXCEPT ![t] = AfterRun(@, run)]
  /\ history' = Append(history, [task |-> t, due |-> run.due,
                                 started |-> run.started, status |-> run.status])
  /\ runs' = [runs EXCEPT ![<<t, l>>] = Idle]
  /\ UNCHANGED <<now, config, server>>

\* The transaction fails: logged, and the run leaves no trace.
RunNotRecorded(t, l) ==
  /\ runs[<<t, l>>].pc = "record"
  /\ runs' = [runs EXCEPT ![<<t, l>>] = Idle]
  /\ UNCHANGED <<now, config, persistent, server>>

(***************************************************************************)
(* The --scheduler command: a process of its own, which registers the tasks *)
(* as well but never calls Start.                                          *)
(***************************************************************************)

\* Fault: the command takes the rows as it finds them.
FoundRows == rows

RegisteredRows == [t \in Tasks |-> Upserted(t, config[t])]

\* --scheduler run: RunNow, whatever the row says of enabled.
RunNow(t) ==
  /\ "run" \in Commands /\ Alone
  /\ runs[<<t, "manual">>].pc = "idle"
  /\ rows' = RegisteredRows
  /\ runs' = [runs EXCEPT ![<<t, "manual">>] =
       [Idle EXCEPT !.pc = "running", !.started = now]]
  /\ UNCHANGED <<now, config, history, server>>

\* The command is interrupted.
AbandonRun(t) ==
  /\ runs[<<t, "manual">>].pc # "idle"
  /\ runs' = [runs EXCEPT ![<<t, "manual">>] = Idle]
  /\ UNCHANGED <<now, config, persistent, server>>

\* --scheduler enable and disable.
SetEnabled(t) ==
  /\ Alone
  /\ \E command \in Commands \ {"run"} :
       rows' = [RegisteredRows EXCEPT ![t].enabled = (command = "enable")]
  /\ UNCHANGED <<now, config, history, server, runs>>

-----------------------------------------------------------------------------
\* Timers are punctual: the clock does not pass a job that has to fire.
Tick ==
  /\ now < MaxTime
  /\ phase = "up" => \A t \in Tasks : jobs[t] > now
  /\ now' = now + 1
  /\ UNCHANGED <<config, persistent, server, runs>>

Step(t, l) ==
  \/ LookupTask(t, l) \/ Finish(t, l) \/ AskNextRun(t, l)
  \/ RecordSchedulerRun(t, l) \/ RunNotRecorded(t, l)

Next ==
  \/ Boot \/ Start \/ Stop \/ Exit \/ Reconfigure \/ Tick
  \/ \E t \in Tasks : Register(t) \/ Fire(t) \/ RunNow(t) \/ AbandonRun(t) \/ SetEnabled(t)
  \/ \E t \in Tasks, l \in Lanes : Step(t, l)

Safety == Init /\ [][Next]_vars

\* A process that boots goes on booting, and a goroutine goes on running;
\* nothing makes an operator start a server, or the clock advance.
Spec ==
  /\ Safety
  /\ WF_vars(Start)
  /\ \A t \in Tasks : WF_vars(Register(t)) /\ WF_vars(Fire(t))
  /\ \A t \in Tasks, l \in Lanes : WF_vars(Step(t, l))

-----------------------------------------------------------------------------
\* Every table and run has its type.
TypeOK ==
  /\ now \in 0 .. MaxTime
  /\ phase \in {"down", "booting", "up", "stopping"}
  /\ config \in Configs /\ defs \in Configs
  /\ registered \subseteq Tasks
  /\ jobs \in [Tasks -> Instants]
  /\ rows \in [Tasks -> Rows \cup {NoRow}]
  /\ history \in Seq(Entries)
  /\ runs \in [Runs -> RunStates]
  /\ \A t \in Tasks : rows[t] = NoRow => \A l \in Lanes : runs[<<t, l>>].pc = "idle"

RecordedRuns(t, status) ==
  {i \in DOMAIN history : history[i].task = t /\ history[i].status = status}
IsLatest(t, i) ==
  history[i].task = t /\ \A j \in DOMAIN history : history[j].task = t => j <= i

\* A task's row is the summary of its history, whichever of its overlapping
\* runs, of the server or of a command, recorded when: the counters count,
\* and last_run and last_status are those of the run recorded last.
RowSummarizesHistory ==
  \A t \in Tasks :
    /\ rows[t] # NoRow =>
         /\ rows[t].run_count = Cardinality(RecordedRuns(t, "success"))
         /\ rows[t].fail_count = Cardinality(RecordedRuns(t, "failed"))
    /\ \A i \in DOMAIN history : IsLatest(t, i) =>
         /\ rows[t].last_run = history[i].started
         /\ rows[t].last_status = history[i].status

\* Catch-up repeats a run that was recorded only if a run of the same task
\* that stood for an earlier instant, and so overlapped it, was recorded
\* after it and put the row's next_run back.
RepeatedOnlyAfterOlderRun ==
  \A t \in Tasks :
    runs[<<t, "catchup">>].pc # "idle" =>
      \A i \in DOMAIN history :
        (history[i].task = t /\ history[i].due = runs[<<t, "catchup">>].due) =>
          \E j \in DOMAIN history :
            /\ j > i /\ history[j].task = t
            /\ history[j].due # NoTime /\ history[j].due < history[i].due

\* The instant of the row was missed, and the window is still open.
Missed(t) ==
  /\ rows[t] # NoRow /\ rows[t].enabled /\ rows[t].next_run # NoTime
  /\ now \in rows[t].next_run + 1 .. rows[t].next_run + Window

\* What a booting server has missed by the row is executed, if the row can
\* be read, unless the server ends, the task is disabled or the window
\* closes first.
OverdueRunExecuted ==
  \A t \in Tasks :
    (phase = "booting" /\ Missed(t)) ~>
      \/ runs[<<t, "catchup">>].pc \in {"running", "ran", "record"}
      \/ phase \notin {"booting", "up"}
      \/ ~Missed(t)
=============================================================================
