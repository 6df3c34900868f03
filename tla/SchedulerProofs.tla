-------------------------- MODULE SchedulerProofs --------------------------
(***************************************************************************)
(* Proofs about Scheduler: a task's row is the summary of its history, and *)
(* a server catches up a run that was recorded only if an older run of the *)
(* task was recorded after it.                                             *)
(***************************************************************************)
EXTENDS Scheduler, FiniteSetTheorems, TLAPS

USE SchedulerAssumption, SentinelAssumption

\* A server has a row for every task it registered, and has registered all of
\* them when it fires.
Registered ==
  /\ \A t \in registered : rows[t] # NoRow
  /\ phase \in {"up", "stopping"} => registered = Tasks

TypeInv == TypeOK /\ Registered

\* A history belongs to a row.
HistoryHasRow == \A t \in Tasks : \A i \in DOMAIN history :
  history[i].task = t => rows[t] # NoRow

SummaryInv == HistoryHasRow /\ RowSummarizesHistory

ServerLanes == FireLanes \cup {"catchup"}

Ahead(run, next) ==
  run.pc # "idle" =>
    /\ run.due \in Nat /\ run.due < next
    /\ run.pc = "record" /\ run.next # NoTime => run.due < run.next

\* The runs of the server run while it is up or stopping.  A run stands for an
\* instant before the one its job waits for, and reports a later one.  What is
\* caught up is older than what was fired since.
LanesInv ==
  /\ phase \in {"down", "booting"} =>
       \A t \in Tasks, l \in ServerLanes : runs[<<t, l>>].pc = "idle"
  /\ phase \in {"up", "stopping"} => \A t \in Tasks : jobs[t] \in Nat
  /\ \A t \in Tasks, l \in ServerLanes : Ahead(runs[<<t, l>>], jobs[t])
  /\ \A t \in Tasks : runs[<<t, "manual">>].due = NoTime /\ runs[<<t, "manual">>].next = NoTime
  /\ \A t \in Tasks, l \in FireLanes :
       runs[<<t, "catchup">>].pc # "idle" /\ runs[<<t, l>>].pc # "idle"
       => runs[<<t, "catchup">>].due < runs[<<t, l>>].due

\* The instant in a row comes from the run recorded last, which stood for an
\* earlier one.
NextRunAfterLatest ==
  \A t \in Tasks :
    rows[t] # NoRow /\ rows[t].next_run # NoTime =>
      \E j \in DOMAIN history :
        /\ IsLatest(t, j)
        /\ history[j].due # NoTime /\ history[j].due < rows[t].next_run

RepeatInv == NextRunAfterLatest /\ RepeatedOnlyAfterOlderRun

IInv == TypeInv /\ SummaryInv /\ LanesInv /\ RepeatInv

-----------------------------------------------------------------------------
(***************************************************************************)
(* Rows and types                                                          *)
(***************************************************************************)

\* A job that fires is due again later, whichever kind of schedule it has.
LEMMA NextFireLater ==
  ASSUME NEW s \in Schedules, NEW i \in Nat
  PROVE  NextFire(s, i) \in Nat /\ i < NextFire(s, i)
<1> DEFINE p == s.period
<1>1. p \in Nat /\ p > 0
  BY DEF Schedules
<1> HIDE DEF p
<1>2. CASE s.every
  BY <1>1, <1>2 DEF NextFire, p
<1>3. CASE ~s.every
  <2>1. PICK q \in Nat : q = i \div p
    BY <1>1
  <2>2. i = (q * p) + (i % p) /\ i % p < p /\ i % p \in Nat
    BY <1>1, <2>1
  <2>3. (q + 1) * p = q * p + p /\ q * p \in Nat
    BY <1>1, <2>1
  <2>4. NextFire(s, i) = (q + 1) * p
    BY <1>3, <2>1 DEF NextFire, p
  <2> QED
    BY <1>1, <2>2, <2>3, <2>4
<1> QED
  BY <1>2, <1>3

\* What the steps find in the variables.
LEMMA Facts ==
  ASSUME TypeOK, NEW t \in Tasks, NEW l \in Lanes
  PROVE  /\ <<t, l>> \in Runs /\ runs[<<t, l>>] \in RunStates
         /\ rows[t] # NoRow => rows[t] \in Rows
         /\ runs[<<t, l>>].pc # "idle" => rows[t] # NoRow
         /\ defs[t].schedule \in Schedules /\ defs[t].enabled \in BOOLEAN
         /\ config[t].schedule \in Schedules /\ config[t].enabled \in BOOLEAN
         /\ now \in Nat
<1>1. /\ defs \in [Tasks -> [schedule : Schedules, enabled : BOOLEAN]]
      /\ config \in [Tasks -> [schedule : Schedules, enabled : BOOLEAN]]
  BY DEF TypeOK
<1>2. now \in Nat
  BY DEF TypeOK
<1>3. /\ <<t, l>> \in Runs /\ runs[<<t, l>>] \in RunStates
      /\ rows[t] # NoRow => rows[t] \in Rows
      /\ runs[<<t, l>>].pc # "idle" => rows[t] # NoRow
  BY DEF TypeOK, Runs
<1> QED
  BY <1>1, <1>2, <1>3

\* UpsertSchedulerTask keeps a row, or makes one that has never run.
LEMMA UpsertedRow ==
  ASSUME TypeOK, NEW t \in Tasks, NEW def \in [schedule : Schedules, enabled : BOOLEAN]
  PROVE  /\ Upserted(t, def) \in Rows /\ Upserted(t, def) # NoRow
         /\ rows[t] # NoRow => Upserted(t, def) = rows[t]
         /\ rows[t] = NoRow => /\ Upserted(t, def).next_run = NoTime
                               /\ Upserted(t, def).run_count = 0
                               /\ Upserted(t, def).fail_count = 0
<1>1. rows[t] # NoRow => rows[t] \in Rows
  BY DEF TypeOK
<1>2. [enabled |-> TRUE, schedule |-> def.schedule, last_run |-> NoTime,
       next_run |-> NoTime, last_status |-> "none", run_count |-> 0,
       fail_count |-> 0] \in Rows
  BY DEF Rows, Instants
<1> QED
  BY <1>1, <1>2 DEF Upserted

\* A row is as it was but for its enabled column, or new.
KeepsRow(t) ==
  /\ rows'[t] \in Rows \cup {NoRow}
  /\ rows[t] # NoRow =>
       /\ rows'[t] # NoRow
       /\ rows'[t].last_run = rows[t].last_run /\ rows'[t].last_status = rows[t].last_status
       /\ rows'[t].next_run = rows[t].next_run
       /\ rows'[t].run_count = rows[t].run_count /\ rows'[t].fail_count = rows[t].fail_count
  /\ rows[t] = NoRow /\ rows'[t] # NoRow =>
       /\ rows'[t].next_run = NoTime
       /\ rows'[t].run_count = 0 /\ rows'[t].fail_count = 0

\* Registration, by a server or by a command, keeps the rows.
LEMMA RegisteredKeeps ==
  ASSUME TypeOK
  PROVE  /\ RegisteredRows \in [Tasks -> Rows]
         /\ \A t \in Tasks :
              /\ RegisteredRows[t] = Upserted(t, config[t])
              /\ config[t] \in [schedule : Schedules, enabled : BOOLEAN]
<1>1. \A t \in Tasks : config[t] \in [schedule : Schedules, enabled : BOOLEAN]
  BY DEF TypeOK
<1> QED
  BY <1>1, UpsertedRow DEF RegisteredRows

\* Only a recorded run changes more in the tables than that.
LEMMA RowsStep ==
  ASSUME TypeOK, [Next]_vars
  PROVE  \/ /\ history' = history
            /\ rows' \in [Tasks -> Rows \cup {NoRow}]
            /\ \A t \in Tasks : KeepsRow(t)
         \/ \E t \in Tasks, l \in Lanes : RecordSchedulerRun(t, l)
<1> DEFINE Keeps == /\ history' = history
                    /\ rows' \in [Tasks -> Rows \cup {NoRow}]
                    /\ \A t \in Tasks : KeepsRow(t)
<1>1. ASSUME UNCHANGED <<rows, history>>
      PROVE  Keeps
  BY <1>1 DEF KeepsRow, TypeOK
<1>2. ASSUME NEW t \in Tasks, Register(t)
      PROVE  Keeps
  <2>1. defs[t] \in [schedule : Schedules, enabled : BOOLEAN]
    BY DEF TypeOK
  <2>2. rows' = [rows EXCEPT ![t] = Upserted(t, defs[t])] /\ history' = history
    BY <1>2 DEF Register
  <2>3. rows' \in [Tasks -> Rows \cup {NoRow}]
    BY <2>1, <2>2, UpsertedRow DEF TypeOK
  <2>4. \A u \in Tasks : rows'[u] = rows[u] \/ (rows'[u] = Upserted(u, defs[u]) /\ u = t)
    BY <2>2 DEF TypeOK
  <2> QED
    BY <2>1, <2>2, <2>3, <2>4, UpsertedRow DEF KeepsRow
<1>3. ASSUME NEW t \in Tasks, RunNow(t)
      PROVE  Keeps
  <2>1. rows' = RegisteredRows /\ history' = history
    BY <1>3 DEF RunNow
  <2> QED
    BY <2>1, RegisteredKeeps, UpsertedRow DEF KeepsRow
<1>4. ASSUME NEW t \in Tasks, SetEnabled(t)
      PROVE  Keeps
  <2>1. PICK on \in BOOLEAN :
          rows' = [RegisteredRows EXCEPT ![t].enabled = on] /\ history' = history
    BY <1>4 DEF SetEnabled
  <2>2. /\ RegisteredRows \in [Tasks -> Rows]
        /\ \A u \in Tasks : /\ RegisteredRows[u] = Upserted(u, config[u])
                            /\ config[u] \in [schedule : Schedules, enabled : BOOLEAN]
    BY RegisteredKeeps
  <2> DEFINE row == [RegisteredRows[t] EXCEPT !.enabled = on]
  <2>3. /\ row \in Rows /\ row # NoRow
        /\ row.last_run = RegisteredRows[t].last_run
        /\ row.last_status = RegisteredRows[t].last_status
        /\ row.next_run = RegisteredRows[t].next_run
        /\ row.run_count = RegisteredRows[t].run_count
        /\ row.fail_count = RegisteredRows[t].fail_count
    <3>1. RegisteredRows[t] \in Rows
      BY <2>2
    <3>2. row \in Rows
      BY <3>1 DEF Rows
    <3> QED
      BY <3>1, <3>2 DEF Rows
  <2>4. rows'[t] = row /\ \A u \in Tasks \ {t} : rows'[u] = RegisteredRows[u]
    BY <2>1, <2>2
  <2> HIDE DEF row
  <2>5. rows' \in [Tasks -> Rows \cup {NoRow}]
    BY <2>1, <2>2, <2>3, <2>4
  <2>6. KeepsRow(t)
    <3>1. Upserted(t, config[t]) \in Rows /\ (rows[t] # NoRow => Upserted(t, config[t]) = rows[t])
      BY <2>2, UpsertedRow
    <3>2. rows[t] = NoRow => /\ Upserted(t, config[t]).next_run = NoTime
                             /\ Upserted(t, config[t]).run_count = 0
                             /\ Upserted(t, config[t]).fail_count = 0
      BY <2>2, UpsertedRow
    <3> QED
      BY <2>2, <2>3, <2>4, <3>1, <3>2 DEF KeepsRow
  <2>7. \A u \in Tasks \ {t} : KeepsRow(u)
    BY <2>2, <2>4, UpsertedRow DEF KeepsRow
  <2> QED
    BY <2>1, <2>5, <2>6, <2>7
<1>5. ASSUME NEW t \in Tasks, NEW l \in Lanes, Step(t, l)
      PROVE  Keeps \/ RecordSchedulerRun(t, l)
  BY <1>1, <1>5 DEF Step, LookupTask, Finish, AskNextRun, RunNotRecorded, persistent
<1>6. CASE Boot \/ Start \/ Stop \/ Exit \/ Reconfigure \/ Tick \/ UNCHANGED vars
  BY <1>1, <1>6 DEF Boot, Start, Stop, Exit, Reconfigure, Tick, vars, persistent
<1>7. ASSUME NEW t \in Tasks, Fire(t) \/ AbandonRun(t)
      PROVE  Keeps
  BY <1>1, <1>7 DEF Fire, AbandonRun, persistent
<1> QED
  BY <1>2, <1>3, <1>4, <1>5, <1>6, <1>7 DEF Next

\* RecordSchedulerRun appends one entry and rewrites one row.
LEMMA RecordedRun ==
  ASSUME TypeOK, NEW t \in Tasks, NEW l \in Lanes, RecordSchedulerRun(t, l),
         NEW run, run = runs[<<t, l>>], NEW n, n = Len(history) + 1
  PROVE  /\ history' \in Seq(Entries) /\ n \in Nat
         /\ DOMAIN history = 1 .. n - 1 /\ DOMAIN history' = 1 .. n
         /\ \A i \in 1 .. n - 1 : history'[i] = history[i]
         /\ history'[n].task = t /\ history'[n].due = run.due
         /\ history'[n].started = run.started /\ history'[n].status = run.status
         /\ rows[t] \in Rows /\ rows' \in [Tasks -> Rows \cup {NoRow}]
         /\ \A u \in Tasks \ {t} : rows'[u] = rows[u]
         /\ rows[t] # NoRow /\ rows'[t] # NoRow
         /\ rows'[t].last_run = run.started /\ rows'[t].last_status = run.status
         /\ rows'[t].next_run = run.next
         /\ rows'[t].run_count =
              rows[t].run_count + (IF run.status = "success" THEN 1 ELSE 0)
         /\ rows'[t].fail_count =
              rows[t].fail_count + (IF run.status = "failed" THEN 1 ELSE 0)
         /\ runs' = [runs EXCEPT ![<<t, l>>] = Idle]
         /\ run.status \in Statuses /\ run.pc = "record"
<1> DEFINE entry == [task |-> t, due |-> run.due, started |-> run.started,
                     status |-> run.status]
           one(status) == IF run.status = status THEN 1 ELSE 0
<1>1. run \in RunStates /\ run.pc = "record" /\ rows[t] \in Rows
  BY Facts DEF RecordSchedulerRun
<1>2. entry \in Entries
  BY <1>1 DEF Entries, RunStates
<1>3. history' = Append(history, entry) /\ history \in Seq(Entries)
  BY DEF RecordSchedulerRun, TypeOK
<1>4. rows' = [rows EXCEPT ![t] = AfterRun(rows[t], run)]
  BY DEF RecordSchedulerRun, TypeOK
<1>5. one("success") \in Nat /\ one("failed") \in Nat
  OBVIOUS
<1>6. /\ AfterRun(rows[t], run) \in Rows
      /\ AfterRun(rows[t], run).last_run = run.started
      /\ AfterRun(rows[t], run).last_status = run.status
      /\ AfterRun(rows[t], run).next_run = run.next
      /\ AfterRun(rows[t], run).run_count = rows[t].run_count + one("success")
      /\ AfterRun(rows[t], run).fail_count = rows[t].fail_count + one("failed")
  <2> DEFINE succeeded == rows[t].run_count + one("success")
             failed    == rows[t].fail_count + one("failed")
             row       == AfterRun(rows[t], run)
  <2>1. succeeded \in Nat /\ failed \in Nat
    BY <1>1, <1>5 DEF Rows
  <2>2. row = [rows[t] EXCEPT !.last_run = run.started, !.next_run = run.next,
                              !.last_status = run.status, !.run_count = succeeded,
                              !.fail_count = failed]
    BY DEF AfterRun
  <2>3. /\ run.started \in Instants /\ run.next \in Instants
        /\ run.status \in Statuses \cup {"none"}
    BY <1>1 DEF RunStates, Instants
  <2> HIDE DEF succeeded, failed, row
  <2>4. row \in Rows
    BY <1>1, <2>1, <2>2, <2>3 DEF Rows
  <2>5. /\ row.last_run = run.started /\ row.last_status = run.status
        /\ row.next_run = run.next /\ row.run_count = succeeded /\ row.fail_count = failed
    BY <1>1, <2>2 DEF Rows
  <2> QED
    BY <2>4, <2>5 DEF row, succeeded, failed
<1>7. /\ rows' \in [Tasks -> Rows \cup {NoRow}]
      /\ rows'[t] = AfterRun(rows[t], run)
      /\ \A u \in Tasks \ {t} : rows'[u] = rows[u]
  BY <1>4, <1>6 DEF TypeOK
<1>8. /\ entry.task = t /\ entry.due = run.due /\ entry.started = run.started
      /\ entry.status = run.status
  OBVIOUS
<1> HIDE DEF entry
<1>9. /\ history' \in Seq(Entries) /\ Len(history) + 1 \in Nat
      /\ DOMAIN history = 1 .. Len(history) /\ DOMAIN history' = 1 .. Len(history) + 1
      /\ \A i \in 1 .. Len(history) : history'[i] = history[i]
      /\ history'[Len(history) + 1] = entry
  BY <1>2, <1>3
<1>10. n - 1 = Len(history)
  BY <1>3
<1>11. runs' = [runs EXCEPT ![<<t, l>>] = Idle] /\ run.status \in Statuses
  BY <1>1 DEF RecordSchedulerRun, RunStates
<1> QED
  BY <1>1, <1>6, <1>7, <1>8, <1>9, <1>10, <1>11

-----------------------------------------------------------------------------
(***************************************************************************)
(* Runs                                                                    *)
(***************************************************************************)

\* A run goes on: it stands for the same instant, and reports none before it
\* has asked for one.
GoesOn(t, l, run) ==
  /\ run \in RunStates /\ run.pc # "idle"
  /\ runs[<<t, l>>].pc # "idle"
  /\ run.due = runs[<<t, l>>].due
  /\ run.next \in NextRun(t, l) \cup {runs[<<t, l>>].next}
  /\ run.pc = "record" => run.next \in NextRun(t, l)

LEMMA StepOfRun ==
  ASSUME TypeOK, NEW t \in Tasks, NEW l \in Lanes, Step(t, l)
  PROVE  /\ UNCHANGED <<now, config, server>>
         /\ runs[<<t, l>>].pc # "idle"
         /\ \/ runs' = [runs EXCEPT ![<<t, l>>] = Idle]
            \/ \E run : GoesOn(t, l, run) /\ runs' = [runs EXCEPT ![<<t, l>>] = run]
<1> DEFINE old == runs[<<t, l>>]
           Goal == \E run : GoesOn(t, l, run) /\ runs' = [runs EXCEPT ![<<t, l>>] = run]
<1>1. old \in RunStates /\ now \in Nat /\ <<t, l>> \in Runs /\ runs \in [Runs -> RunStates]
  BY Facts DEF TypeOK
<1>2. CASE LookupTask(t, l)
  <2>1. PICK pc \in {"running", "ran"} :
          runs' = [runs EXCEPT ![<<t, l>>].pc = pc, ![<<t, l>>].started = now,
                               ![<<t, l>>].status = "skipped"]
    BY <1>2 DEF LookupTask
  <2> DEFINE run == [old EXCEPT !.pc = pc, !.started = now, !.status = "skipped"]
  <2>2. run \in RunStates
    BY <1>1 DEF RunStates, Statuses
  <2>3. run.pc = pc /\ run.due = old.due /\ run.next = old.next
    BY <1>1 DEF RunStates
  <2>4. runs' = [runs EXCEPT ![<<t, l>>] = run]
    BY <1>1, <2>1
  <2> HIDE DEF run
  <2>5. GoesOn(t, l, run)
    BY <1>2, <2>2, <2>3 DEF GoesOn, LookupTask
  <2> QED
    BY <1>2, <2>4, <2>5 DEF LookupTask
<1>3. CASE Finish(t, l)
  <2>1. PICK status \in {"success", "failed"} :
          runs' = [runs EXCEPT ![<<t, l>>].pc = "ran", ![<<t, l>>].status = status]
    BY <1>3 DEF Finish
  <2> DEFINE run == [old EXCEPT !.pc = "ran", !.status = status]
  <2>2. run \in RunStates
    BY <1>1 DEF RunStates, Statuses
  <2>3. run.pc = "ran" /\ run.due = old.due /\ run.next = old.next
    BY <1>1 DEF RunStates
  <2>4. runs' = [runs EXCEPT ![<<t, l>>] = run]
    BY <1>1, <2>1
  <2> HIDE DEF run
  <2>5. GoesOn(t, l, run)
    BY <1>3, <2>2, <2>3 DEF GoesOn, Finish
  <2> QED
    BY <1>3, <2>4, <2>5 DEF Finish
<1>4. CASE AskNextRun(t, l)
  <2>1. PICK next \in NextRun(t, l) :
          runs' = [runs EXCEPT ![<<t, l>>].pc = "record", ![<<t, l>>].next = next]
    BY <1>4 DEF AskNextRun
  <2> DEFINE run == [old EXCEPT !.pc = "record", !.next = next]
  <2>2. next \in Instants
    BY DEF NextRun, TypeOK, Instants
  <2>3. run \in RunStates
    BY <1>1, <2>2 DEF RunStates
  <2>4. run.pc = "record" /\ run.due = old.due /\ run.next = next
    BY <1>1 DEF RunStates
  <2>5. runs' = [runs EXCEPT ![<<t, l>>] = run]
    BY <1>1, <2>1
  <2> HIDE DEF run
  <2>6. GoesOn(t, l, run)
    BY <1>4, <2>3, <2>4 DEF GoesOn, AskNextRun
  <2> QED
    BY <1>4, <2>5, <2>6 DEF AskNextRun
<1>5. CASE RecordSchedulerRun(t, l) \/ RunNotRecorded(t, l)
  BY <1>5 DEF RecordSchedulerRun, RunNotRecorded
<1> QED
  BY <1>2, <1>3, <1>4, <1>5 DEF Step

LEMMA IdleType == Idle \in RunStates /\ Idle.pc = "idle" /\ Idle.due = NoTime /\ Idle.next = NoTime
BY DEF Idle, RunStates, Statuses, Instants

\* A run that gocron or catch-up starts, and one that a command starts.
Fired(i)     == [Idle EXCEPT !.pc = "lookup", !.due = i]
Commanded(i) == [Idle EXCEPT !.pc = "running", !.started = i]

LEMMA FiredRun ==
  ASSUME NEW i \in Instants
  PROVE  /\ Fired(i) \in RunStates /\ Fired(i).pc = "lookup"
         /\ Fired(i).due = i /\ Fired(i).next = NoTime
BY DEF Fired, Idle, RunStates, Statuses, Instants

LEMMA CommandRun ==
  ASSUME NEW i \in Nat
  PROVE  /\ Commanded(i) \in RunStates /\ Commanded(i).pc = "running"
         /\ Commanded(i).due = NoTime /\ Commanded(i).next = NoTime
BY DEF Commanded, Idle, RunStates, Statuses, Instants

\* The run of one lane is replaced.
LEMMA OneRun ==
  ASSUME TypeOK, NEW t \in Tasks, NEW l \in Lanes, NEW run \in RunStates,
         runs' = [runs EXCEPT ![<<t, l>>] = run]
  PROVE  /\ runs' \in [Runs -> RunStates] /\ runs'[<<t, l>>] = run
         /\ \A u \in Tasks, k \in Lanes :
              u # t \/ k # l => runs'[<<u, k>>] = runs[<<u, k>>]
BY DEF TypeOK, Runs

\* What Start makes of the runs: one to catch up for each overdue task it read.
LEMMA StartedRuns ==
  ASSUME TypeOK, Start
  PROVE  /\ runs' \in [Runs -> RunStates]
         /\ \A t \in Tasks, l \in Lanes :
              \/ runs'[<<t, l>>] = runs[<<t, l>>]
              \/ /\ l = "catchup" /\ rows[t] # NoRow
                 /\ runs'[<<t, l>>].pc = "lookup"
                 /\ rows[t].next_run \in Nat /\ rows[t].next_run < now
                 /\ runs'[<<t, l>>].due = rows[t].next_run
<1>1. PICK read \in SUBSET Tasks :
        runs' = [x \in Runs |->
                   IF x[2] = "catchup" /\ x[1] \in read /\ Overdue(x[1])
                   THEN [Idle EXCEPT !.pc = "lookup", !.due = rows[x[1]].next_run]
                   ELSE runs[x]]
  BY ZenonT(60) DEF Start
<1>2. ASSUME NEW t \in Tasks, NEW l \in Lanes
      PROVE  /\ runs'[<<t, l>>] \in RunStates
             /\ \/ runs'[<<t, l>>] = runs[<<t, l>>]
                \/ /\ l = "catchup" /\ rows[t] # NoRow
                   /\ runs'[<<t, l>>].pc = "lookup"
                   /\ rows[t].next_run \in Nat /\ rows[t].next_run < now
                   /\ runs'[<<t, l>>].due = rows[t].next_run
  <2>1. CASE l = "catchup" /\ t \in read /\ Overdue(t)
    <3>1. runs'[<<t, l>>] = Fired(rows[t].next_run)
      BY <1>1, <2>1 DEF Runs, Fired
    <3>2. rows[t] # NoRow /\ rows[t].next_run \in Instants /\ rows[t].next_run \in Nat
          /\ rows[t].next_run < now
      BY <2>1, Facts DEF Overdue, Rows, Instants
    <3>3. /\ runs'[<<t, l>>] \in RunStates
          /\ runs'[<<t, l>>].pc = "lookup" /\ runs'[<<t, l>>].due = rows[t].next_run
      BY <3>1, <3>2, FiredRun
    <3> QED
      BY <2>1, <3>2, <3>3
  <2>2. CASE ~(l = "catchup" /\ t \in read /\ Overdue(t))
    <3>1. runs'[<<t, l>>] = runs[<<t, l>>]
      BY <1>1, <2>2 DEF Runs
    <3> QED
      BY <3>1, Facts
  <2> QED
    BY <2>1, <2>2
<1>3. runs' \in [Runs -> RunStates]
  <2>1. \A x \in Runs : runs'[x] \in RunStates
    BY <1>2 DEF Runs
  <2> QED
    BY <1>1, <2>1
<1> QED
  BY <1>2, <1>3

\* Whatever a step does to the runs, one that is there has a row.
LEMMA RunsStep ==
  ASSUME TypeInv, [Next]_vars
  PROVE  /\ runs' \in [Runs -> RunStates]
         /\ \A t \in Tasks, l \in Lanes :
              runs'[<<t, l>>].pc # "idle" => runs[<<t, l>>].pc # "idle" \/ rows'[t] # NoRow
<1> DEFINE Goal == /\ runs' \in [Runs -> RunStates]
                   /\ \A t \in Tasks, l \in Lanes :
                        runs'[<<t, l>>].pc # "idle"
                        => runs[<<t, l>>].pc # "idle" \/ rows'[t] # NoRow
<1> USE DEF TypeInv
<1>1. ASSUME NEW t \in Tasks, NEW l \in Lanes, NEW run \in RunStates,
             runs' = [runs EXCEPT ![<<t, l>>] = run],
             run.pc = "idle" \/ runs[<<t, l>>].pc # "idle" \/ rows'[t] # NoRow
      PROVE  Goal
  <2>1. /\ runs' \in [Runs -> RunStates] /\ runs'[<<t, l>>] = run
        /\ \A u \in Tasks, k \in Lanes :
             u # t \/ k # l => runs'[<<u, k>>] = runs[<<u, k>>]
    BY <1>1, OneRun
  <2> QED
    BY <1>1, <2>1
<1>2. CASE runs' = runs
  BY <1>2 DEF TypeOK
<1>3. CASE Start
  <2>1. rows' = rows
    BY <1>3 DEF Start, persistent
  <2> QED
    BY <1>3, <2>1, StartedRuns
<1>4. CASE Exit
  <2>1. runs' = [x \in Runs |-> IF x[2] = "manual" THEN runs[x] ELSE Idle]
    BY <1>4 DEF Exit
  <2>2. runs' \in [Runs -> RunStates]
    BY <2>1, IdleType DEF TypeOK
  <2>3. \A t \in Tasks, l \in Lanes : runs'[<<t, l>>] \in {runs[<<t, l>>], Idle}
    BY <2>1 DEF Runs
  <2> QED
    BY <2>2, <2>3, IdleType
<1>5. ASSUME NEW t \in Tasks, Fire(t)
      PROVE  Goal
  <2>1. PICK l \in FireLanes :
          runs' = [runs EXCEPT ![<<t, l>>] = Fired(now)]
    BY <1>5 DEF Fire, Fired
  <2>2. rows' = rows /\ rows[t] # NoRow
    BY <1>5 DEF Fire, persistent, Registered
  <2>3. l \in Lanes /\ now \in Instants
    BY DEF Lanes, TypeOK, Instants
  <2> QED
    BY <1>1, <2>1, <2>2, <2>3, FiredRun
<1>6. ASSUME NEW t \in Tasks, RunNow(t)
      PROVE  Goal
  <2>1. runs' = [runs EXCEPT ![<<t, "manual">>] = Commanded(now)]
    BY <1>6 DEF RunNow, Commanded
  <2>2. rows'[t] # NoRow
    BY <1>6, RegisteredKeeps DEF RunNow
  <2>3. "manual" \in Lanes /\ now \in Nat
    BY DEF Lanes, TypeOK
  <2> QED
    BY <1>1, <2>1, <2>2, <2>3, CommandRun
<1>7. ASSUME NEW t \in Tasks, AbandonRun(t)
      PROVE  Goal
  <2>1. "manual" \in Lanes
    BY DEF Lanes
  <2> QED
    BY <1>1, <1>7, <2>1, IdleType DEF AbandonRun
<1>8. ASSUME NEW t \in Tasks, NEW l \in Lanes, Step(t, l)
      PROVE  Goal
  <2>1. PICK run : /\ run = Idle \/ GoesOn(t, l, run)
                   /\ runs' = [runs EXCEPT ![<<t, l>>] = run]
    BY <1>8, StepOfRun
  <2>2. run \in RunStates /\ (run.pc = "idle" \/ runs[<<t, l>>].pc # "idle")
    BY <2>1, IdleType DEF GoesOn
  <2> QED
    BY <1>1, <2>1, <2>2
<1>9. CASE UNCHANGED vars
  BY <1>2, <1>9 DEF vars
<1> QED
  BY <1>2, <1>3, <1>4, <1>5, <1>6, <1>7, <1>8, <1>9
     DEF Next, Boot, Stop, Reconfigure, Tick, Register, SetEnabled

\* Runs and commands leave the clock, the configuration and the server alone.
LEMMA ServerStep ==
  ASSUME TypeOK, [Next]_vars
  PROVE  \/ Boot \/ Start \/ Stop \/ Exit \/ Reconfigure \/ Tick
         \/ \E t \in Tasks : Register(t) \/ Fire(t)
         \/ UNCHANGED <<now, config, server>>
<1>1. ASSUME NEW t \in Tasks, RunNow(t) \/ AbandonRun(t) \/ SetEnabled(t)
      PROVE  UNCHANGED <<now, config, server>>
  BY <1>1 DEF RunNow, AbandonRun, SetEnabled
<1>2. ASSUME NEW t \in Tasks, NEW l \in Lanes, Step(t, l)
      PROVE  UNCHANGED <<now, config, server>>
  BY <1>2, StepOfRun
<1> QED
  BY <1>1, <1>2 DEF Next, vars

LEMMA TypeStep == TypeInv /\ [Next]_vars => TypeInv'
<1> SUFFICES ASSUME TypeInv, [Next]_vars PROVE TypeInv'
  OBVIOUS
<1>0. TypeOK /\ Registered
  BY DEF TypeInv
<1>1. history' \in Seq(Entries) /\ rows' \in [Tasks -> Rows \cup {NoRow}]
  <2>1. CASE history' = history
    BY <1>0, <2>1, RowsStep, RecordedRun DEF TypeOK
  <2>2. CASE history' # history
    BY <1>0, <2>2, RowsStep, RecordedRun
  <2> QED
    BY <2>1, <2>2
<1>2. \A t \in Tasks : rows[t] # NoRow => rows'[t] # NoRow
  <2>1. ASSUME NEW t \in Tasks, NEW l \in Lanes, RecordSchedulerRun(t, l)
        PROVE  \A u \in Tasks : rows[u] # NoRow => rows'[u] # NoRow
    BY <1>0, <2>1, RecordedRun
  <2> QED
    BY <1>0, <2>1, RowsStep DEF KeepsRow
<1>3. runs' \in [Runs -> RunStates]
  BY RunsStep
<1>4. \A t \in Tasks : rows'[t] = NoRow => \A l \in Lanes : runs'[<<t, l>>].pc = "idle"
  BY <1>0, <1>2, RunsStep, Facts
<1>5. now' \in 0 .. MaxTime
  <2>1. now' = now \/ (now < MaxTime /\ now' = now + 1)
    BY <1>0, ServerStep DEF Boot, Start, Stop, Exit, Reconfigure, Tick, Register, Fire
  <2>2. now \in 0 .. MaxTime
    BY <1>0 DEF TypeOK
  <2> QED
    BY <2>1, <2>2
<1>6. config' \in Configs /\ defs' \in Configs
  BY <1>0, ServerStep
     DEF TypeOK, Boot, Start, Stop, Exit, Reconfigure, Tick, Register, Fire, server
<1>7. /\ phase' \in {"down", "booting", "up", "stopping"}
      /\ registered' \subseteq Tasks
      /\ phase' \in {"up", "stopping"} => registered' = Tasks
  BY <1>0, ServerStep
     DEF TypeOK, Registered, Boot, Start, Stop, Exit, Reconfigure, Tick, Register, Fire, server
<1>8. \A t \in registered' : rows'[t] # NoRow
  <2>1. ASSUME NEW t \in Tasks, Register(t)
        PROVE  rows'[t] # NoRow /\ registered' = registered \cup {t}
    <3>1. defs[t] \in [schedule : Schedules, enabled : BOOLEAN]
      BY <1>0 DEF TypeOK
    <3> QED
      BY <1>0, <2>1, <3>1, UpsertedRow DEF Register, TypeOK
  <2>2. registered' = registered \/ registered' = {} \/ \E t \in Tasks : Register(t)
    BY <1>0, ServerStep DEF Boot, Start, Stop, Exit, Reconfigure, Tick, Fire, server
  <2>3. registered \subseteq Tasks /\ \A t \in registered : rows[t] # NoRow
    BY <1>0 DEF TypeOK, Registered
  <2> QED
    BY <1>2, <2>1, <2>2, <2>3
<1>9. jobs' \in [Tasks -> Instants]
  <2>1. CASE Start
    <3>1. jobs' = [t \in Tasks |-> NextFire(defs[t].schedule, now)]
      BY <2>1 DEF Start
    <3>2. \A t \in Tasks : defs[t].schedule \in Schedules /\ now \in Nat
      BY <1>0, Facts DEF Lanes
    <3> QED
      BY <3>1, <3>2, NextFireLater DEF Instants
  <2>2. ASSUME NEW t \in Tasks, Fire(t)
        PROVE  jobs' \in [Tasks -> Instants]
    <3>1. jobs' = [jobs EXCEPT ![t] = NextFire(defs[t].schedule, now)]
      BY <2>2 DEF Fire, Rescheduled
    <3>2. defs[t].schedule \in Schedules /\ now \in Nat
      BY <1>0, Facts DEF Lanes
    <3>3. NextFire(defs[t].schedule, now) \in Nat
      BY <3>2, NextFireLater
    <3> QED
      BY <1>0, <3>1, <3>3 DEF TypeOK, Instants
  <2> QED
    BY <1>0, <2>1, <2>2, ServerStep
       DEF TypeOK, Boot, Stop, Exit, Reconfigure, Tick, Register, server
<1> QED
  BY <1>1, <1>3, <1>4, <1>5, <1>6, <1>7, <1>8, <1>9 DEF TypeInv, TypeOK, Registered

-----------------------------------------------------------------------------
(***************************************************************************)
(* Rows and history                                                        *)
(***************************************************************************)

LEMMA RecordedFinite ==
  ASSUME TypeOK, NEW t \in Tasks, NEW status
  PROVE  /\ IsFiniteSet(RecordedRuns(t, status))
         /\ Cardinality(RecordedRuns(t, status)) \in Nat
<1>1. DOMAIN history = 1 .. Len(history) /\ Len(history) \in Nat
  BY DEF TypeOK
<1>2. IsFiniteSet(1 .. Len(history))
  BY <1>1, FS_Interval
<1>3. RecordedRuns(t, status) \subseteq 1 .. Len(history)
  BY <1>1 DEF RecordedRuns
<1> QED
  BY <1>2, <1>3, FS_Subset, FS_CardinalityType

\* A recorded run is counted under its task and its status.
LEMMA OneMoreRecorded ==
  ASSUME TypeOK, NEW t \in Tasks, NEW l \in Lanes, RecordSchedulerRun(t, l), NEW status
  PROVE  /\ Cardinality(RecordedRuns(t, status)') =
              Cardinality(RecordedRuns(t, status))
                + (IF runs[<<t, l>>].status = status THEN 1 ELSE 0)
         /\ \A u \in Tasks \ {t} : RecordedRuns(u, status)' = RecordedRuns(u, status)
<1> DEFINE n == Len(history) + 1
<1>1. /\ DOMAIN history = 1 .. n - 1 /\ DOMAIN history' = 1 .. n /\ n \in Nat
      /\ \A i \in 1 .. n - 1 : history'[i] = history[i]
      /\ history'[n].task = t /\ history'[n].status = runs[<<t, l>>].status
  BY RecordedRun
<1> HIDE DEF n
<1>2. DOMAIN history' = DOMAIN history \cup {n} /\ n \notin DOMAIN history
  <2>1. n \in Nat /\ n # 0
    BY <1>1 DEF n, TypeOK
  <2>2. \A i : i \in 1 .. n <=> (i \in 1 .. n - 1 \/ i = n)
    BY SMTT(30), <2>1
  <2>3. n \notin 1 .. n - 1
    BY <2>1
  <2> QED
    BY <1>1, <2>2, <2>3
<1>3. CASE runs[<<t, l>>].status = status
  <2>1. RecordedRuns(t, status)' = RecordedRuns(t, status) \cup {n}
    BY <1>1, <1>2, <1>3 DEF RecordedRuns
  <2>2. n \notin RecordedRuns(t, status)
    BY <1>2 DEF RecordedRuns
  <2>3. \A u \in Tasks \ {t} : RecordedRuns(u, status)' = RecordedRuns(u, status)
    BY <1>1, <1>2 DEF RecordedRuns
  <2> QED
    BY <1>3, <2>1, <2>2, <2>3, RecordedFinite, FS_AddElement
<1>4. CASE runs[<<t, l>>].status # status
  <2>1. \A u \in Tasks : RecordedRuns(u, status)' = RecordedRuns(u, status)
    BY <1>1, <1>2, <1>4 DEF RecordedRuns
  <2> QED
    BY <1>4, <2>1, RecordedFinite
<1> QED
  BY <1>3, <1>4

LEMMA SummaryStep == TypeInv /\ SummaryInv /\ [Next]_vars => SummaryInv'
<1> SUFFICES ASSUME TypeOK, HistoryHasRow, RowSummarizesHistory, [Next]_vars
             PROVE  HistoryHasRow' /\ RowSummarizesHistory'
  BY DEF TypeInv, SummaryInv
<1>1. CASE history' = history /\ \A t \in Tasks : KeepsRow(t)
  <2>1. HistoryHasRow'
    BY <1>1 DEF HistoryHasRow, KeepsRow
  <2>2. ASSUME NEW t \in Tasks
        PROVE  /\ RecordedRuns(t, "success")' = RecordedRuns(t, "success")
               /\ RecordedRuns(t, "failed")' = RecordedRuns(t, "failed")
               /\ \A i \in DOMAIN history : IsLatest(t, i)' <=> IsLatest(t, i)
    BY <1>1 DEF RecordedRuns, IsLatest
  <2>3. ASSUME NEW t \in Tasks, rows'[t] # NoRow
        PROVE  /\ rows'[t].run_count = Cardinality(RecordedRuns(t, "success")')
               /\ rows'[t].fail_count = Cardinality(RecordedRuns(t, "failed")')
    <3>1. CASE rows[t] # NoRow
      BY <1>1, <2>2, <3>1 DEF KeepsRow, RowSummarizesHistory
    <3>2. CASE rows[t] = NoRow
      <4>1. RecordedRuns(t, "success") = {} /\ RecordedRuns(t, "failed") = {}
        BY <3>2 DEF HistoryHasRow, RecordedRuns
      <4> QED
        BY <1>1, <2>2, <2>3, <3>2, <4>1, FS_EmptySet DEF KeepsRow
    <3> QED
      BY <3>1, <3>2
  <2>4. ASSUME NEW t \in Tasks, NEW i \in DOMAIN history', IsLatest(t, i)'
        PROVE  rows'[t].last_run = history'[i].started /\ rows'[t].last_status = history'[i].status
    <3>1. IsLatest(t, i) /\ rows[t] # NoRow
      BY <1>1, <2>2, <2>4 DEF HistoryHasRow, IsLatest
    <3> QED
      BY <1>1, <3>1 DEF KeepsRow, RowSummarizesHistory
  <2> QED
    BY <2>1, <2>3, <2>4 DEF RowSummarizesHistory
<1>2. ASSUME NEW t \in Tasks, NEW l \in Lanes, RecordSchedulerRun(t, l)
      PROVE  HistoryHasRow' /\ RowSummarizesHistory'
  <2> DEFINE n   == Len(history) + 1
             run == runs[<<t, l>>]
  <2>1. /\ DOMAIN history = 1 .. n - 1 /\ DOMAIN history' = 1 .. n /\ n \in Nat
        /\ \A i \in 1 .. n - 1 : history'[i] = history[i]
        /\ history'[n].task = t /\ history'[n].started = run.started
        /\ history'[n].status = run.status
        /\ \A u \in Tasks \ {t} : rows'[u] = rows[u]
        /\ rows[t] # NoRow /\ rows'[t] # NoRow
        /\ rows'[t].last_run = run.started /\ rows'[t].last_status = run.status
        /\ rows'[t].run_count = rows[t].run_count + (IF run.status = "success" THEN 1 ELSE 0)
        /\ rows'[t].fail_count = rows[t].fail_count + (IF run.status = "failed" THEN 1 ELSE 0)
    BY <1>2, RecordedRun
  <2> HIDE DEF n, run
  <2>2. HistoryHasRow'
    BY <2>1 DEF HistoryHasRow
  <2>3. ASSUME NEW u \in Tasks, rows'[u] # NoRow
        PROVE  /\ rows'[u].run_count = Cardinality(RecordedRuns(u, "success")')
               /\ rows'[u].fail_count = Cardinality(RecordedRuns(u, "failed")')
    <3>1. CASE u = t
      BY <1>2, <2>1, <3>1, OneMoreRecorded DEF RowSummarizesHistory, run
    <3>2. CASE u # t
      <4>1. /\ RecordedRuns(u, "success")' = RecordedRuns(u, "success")
            /\ RecordedRuns(u, "failed")' = RecordedRuns(u, "failed")
        BY <1>2, <3>2, OneMoreRecorded
      <4>2. rows'[u] = rows[u]
        BY <2>1, <3>2
      <4> QED
        BY <2>3, <4>1, <4>2 DEF RowSummarizesHistory
    <3> QED
      BY <3>1, <3>2
  <2>4. ASSUME NEW u \in Tasks, NEW i \in DOMAIN history', IsLatest(u, i)'
        PROVE  rows'[u].last_run = history'[i].started /\ rows'[u].last_status = history'[i].status
    <3>1. CASE u = t
      <4>1. i = n
        BY <2>1, <2>4, <3>1 DEF IsLatest
      <4> QED
        BY <2>1, <3>1, <4>1
    <3>2. CASE u # t
      <4>1. i \in DOMAIN history /\ IsLatest(u, i)
        BY <2>1, <2>4, <3>2 DEF IsLatest
      <4> QED
        BY <2>1, <3>2, <4>1 DEF RowSummarizesHistory
    <3> QED
      BY <3>1, <3>2
  <2> QED
    BY <2>2, <2>3, <2>4 DEF RowSummarizesHistory
<1> QED
  BY <1>1, <1>2, RowsStep

-----------------------------------------------------------------------------
(***************************************************************************)
(* The instants runs stand for                                             *)
(***************************************************************************)

LEMMA LaneNames ==
  /\ \A l \in ServerLanes : l \in Lanes /\ l # "manual"
  /\ \A l \in FireLanes : l \in ServerLanes /\ l # "catchup"
  /\ \A l \in Lanes : l \in ServerLanes \/ l = "manual"
  /\ "catchup" \in ServerLanes /\ "manual" \in Lanes
BY DEF ServerLanes, Lanes

\* A run of a live server is replaced, by nothing or by what it goes on as.
LEMMA GoesOnInv ==
  ASSUME TypeOK, LanesInv, NEW t \in Tasks, NEW l \in Lanes, NEW run,
         run = Idle \/ GoesOn(t, l, run), phase' = phase, jobs' = jobs,
         runs' = [runs EXCEPT ![<<t, l>>] = run]
  PROVE  LanesInv'
<1>1. run \in RunStates
  BY IdleType DEF GoesOn
<1>2. /\ runs'[<<t, l>>] = run
      /\ \A u \in Tasks, k \in Lanes : u # t \/ k # l => runs'[<<u, k>>] = runs[<<u, k>>]
  BY DEF TypeOK, Runs
<1>3. \A u \in Tasks, k \in Lanes :
        runs'[<<u, k>>].pc # "idle" =>
          runs[<<u, k>>].pc # "idle" /\ runs'[<<u, k>>].due = runs[<<u, k>>].due
  BY <1>2, IdleType DEF GoesOn
<1>4. ASSUME l \in ServerLanes
      PROVE  Ahead(run, jobs[t])
  BY <1>4, LaneNames, IdleType DEF LanesInv, Ahead, GoesOn, NextRun
<1>5. l = "manual" => run.due = NoTime /\ run.next = NoTime
  BY IdleType DEF LanesInv, GoesOn, NextRun
<1>6. phase' \in {"down", "booting"} =>
        \A u \in Tasks, k \in ServerLanes : runs'[<<u, k>>].pc = "idle"
  BY <1>3, LaneNames DEF LanesInv
<1>7. \A u \in Tasks, k \in ServerLanes : Ahead(runs'[<<u, k>>], jobs'[u])
  BY <1>2, <1>4, LaneNames DEF LanesInv
<1>8. \A u \in Tasks : runs'[<<u, "manual">>].due = NoTime /\ runs'[<<u, "manual">>].next = NoTime
  BY <1>2, <1>5, LaneNames DEF LanesInv
<1>9. \A u \in Tasks, k \in FireLanes :
        runs'[<<u, "catchup">>].pc # "idle" /\ runs'[<<u, k>>].pc # "idle"
        => runs'[<<u, "catchup">>].due < runs'[<<u, k>>].due
  BY <1>3, LaneNames DEF LanesInv
<1> QED
  BY <1>6, <1>7, <1>8, <1>9 DEF LanesInv

LEMMA LanesStep == TypeInv /\ LanesInv /\ [Next]_vars => LanesInv'
<1> SUFFICES ASSUME TypeOK, Registered, LanesInv, [Next]_vars PROVE LanesInv'
  BY DEF TypeInv
<1>1. CASE /\ jobs' = jobs /\ runs' = runs
           /\ \/ phase' = phase
              \/ phase = "down" /\ phase' = "booting"
              \/ phase = "up" /\ phase' = "stopping"
  BY <1>1 DEF LanesInv
<1>2. CASE Start
  <2>1. /\ phase' = "up"
        /\ \A t \in Tasks, l \in ServerLanes : runs[<<t, l>>].pc = "idle"
    BY <1>2 DEF Start, LanesInv
  <2>2. \A t \in Tasks : jobs'[t] \in Nat /\ now < jobs'[t]
    <3>1. \A t \in Tasks : defs[t].schedule \in Schedules /\ now \in Nat
      BY Facts, LaneNames
    <3>2. \A t \in Tasks : jobs'[t] = NextFire(defs[t].schedule, now)
      BY <1>2 DEF Start
    <3> QED
      BY <3>1, <3>2, NextFireLater
  <2>3. \A t \in Tasks, l \in Lanes :
          \/ runs'[<<t, l>>] = runs[<<t, l>>]
          \/ /\ l = "catchup" /\ runs'[<<t, l>>].pc = "lookup"
             /\ rows[t].next_run \in Nat /\ rows[t].next_run < now
             /\ runs'[<<t, l>>].due = rows[t].next_run
    BY <1>2, StartedRuns
  <2>4. ASSUME NEW t \in Tasks, NEW l \in ServerLanes
        PROVE  Ahead(runs'[<<t, l>>], jobs'[t])
    <3>1. l \in Lanes /\ now \in Nat
      BY LaneNames DEF TypeOK
    <3> QED
      BY <2>1, <2>2, <2>3, <3>1 DEF Ahead
  <2>5. ASSUME NEW t \in Tasks, NEW l \in FireLanes
        PROVE  runs'[<<t, l>>].pc = "idle"
    <3>1. l \in ServerLanes /\ l \in Lanes /\ l # "catchup"
      BY LaneNames
    <3>2. runs'[<<t, l>>] = runs[<<t, l>>]
      BY <2>3, <3>1
    <3> QED
      BY <2>1, <3>1, <3>2
  <2>6. ASSUME NEW t \in Tasks
        PROVE  runs'[<<t, "manual">>].due = NoTime /\ runs'[<<t, "manual">>].next = NoTime
    <3>1. runs'[<<t, "manual">>] = runs[<<t, "manual">>]
      BY <2>3, LaneNames
    <3> QED
      BY <3>1 DEF LanesInv
  <2> QED
    BY <2>1, <2>2, <2>4, <2>5, <2>6 DEF LanesInv
<1>3. CASE Exit
  <2>1. phase' = "down" /\ \A t \in Tasks, l \in ServerLanes : runs'[<<t, l>>] = Idle
    BY <1>3, LaneNames DEF Exit, Runs
  <2>2. \A t \in Tasks : runs'[<<t, "manual">>] = runs[<<t, "manual">>]
    BY <1>3, LaneNames DEF Exit, Runs
  <2> QED
    BY <2>1, <2>2, IdleType, LaneNames DEF LanesInv, Ahead
<1>4. ASSUME NEW t \in Tasks, Fire(t)
      PROVE  LanesInv'
  <2>1. PICK l \in FireLanes :
          runs[<<t, l>>].pc = "idle" /\ runs' = [runs EXCEPT ![<<t, l>>] = Fired(now)]
    BY <1>4 DEF Fire, Fired
  <2>2. phase = "up" /\ phase' = "up" /\ jobs[t] = now /\ now \in Nat /\ now \in Instants
    BY <1>4 DEF Fire, TypeOK, Instants
  <2>3. /\ jobs'[t] \in Nat /\ now < jobs'[t]
        /\ \A u \in Tasks \ {t} : jobs'[u] = jobs[u]
    <3>1. jobs' = [jobs EXCEPT ![t] = NextFire(defs[t].schedule, now)]
      BY <1>4 DEF Fire, Rescheduled
    <3>2. defs[t].schedule \in Schedules
      BY Facts, LaneNames
    <3> QED
      BY <2>2, <3>1, <3>2, NextFireLater DEF TypeOK
  <2>4. /\ runs'[<<t, l>>] = Fired(now)
        /\ \A u \in Tasks, k \in Lanes : u # t \/ k # l => runs'[<<u, k>>] = runs[<<u, k>>]
    BY <2>1, LaneNames DEF TypeOK, Runs
  <2>5. Fired(now).pc = "lookup" /\ Fired(now).due = now
    BY <2>2, FiredRun
  <2>6. \A u \in Tasks, k \in ServerLanes : Ahead(runs[<<u, k>>], jobs[u]) /\ jobs[u] \in Nat
    BY <2>2 DEF LanesInv
  <2>7. ASSUME NEW u \in Tasks, NEW k \in ServerLanes
        PROVE  Ahead(runs'[<<u, k>>], jobs'[u])
    <3>1. CASE u = t /\ k = l
      BY <2>2, <2>3, <2>4, <2>5, <3>1 DEF Ahead
    <3>2. CASE u = t /\ k # l
      <4>1. runs'[<<u, k>>] = runs[<<u, k>>] /\ Ahead(runs[<<u, k>>], now)
        BY <2>2, <2>4, <2>6, <3>2, LaneNames
      <4> QED
        BY <2>2, <2>3, <3>2, <4>1 DEF Ahead
    <3>3. CASE u # t
      BY <2>3, <2>4, <2>6, <3>3, LaneNames
    <3> QED
      BY <3>1, <3>2, <3>3
  <2>8. \A u \in Tasks : /\ runs'[<<u, "manual">>].due = NoTime
                         /\ runs'[<<u, "manual">>].next = NoTime
    BY <2>4, LaneNames DEF LanesInv
  <2>9. ASSUME NEW u \in Tasks, NEW k \in FireLanes,
               runs'[<<u, "catchup">>].pc # "idle", runs'[<<u, k>>].pc # "idle"
        PROVE  runs'[<<u, "catchup">>].due < runs'[<<u, k>>].due
    <3>1. runs'[<<u, "catchup">>] = runs[<<u, "catchup">>]
      BY <2>4, LaneNames
    <3>2. CASE u = t /\ k = l
      <4>1. Ahead(runs[<<u, "catchup">>], now)
        BY <2>2, <2>6, <3>2, LaneNames
      <4> QED
        BY <2>4, <2>5, <2>9, <3>1, <3>2, <4>1 DEF Ahead
    <3>3. CASE u # t \/ k # l
      BY <2>4, <2>9, <3>1, <3>3, LaneNames DEF LanesInv
    <3> QED
      BY <3>2, <3>3
  <2>10. \A u \in Tasks : jobs'[u] \in Nat
    BY <2>3, <2>6, LaneNames
  <2> QED
    BY <2>2, <2>7, <2>8, <2>9, <2>10 DEF LanesInv
<1>5. ASSUME NEW t \in Tasks, RunNow(t)
      PROVE  LanesInv'
  <2>1. /\ runs' = [runs EXCEPT ![<<t, "manual">>] = Commanded(now)]
        /\ phase' = phase /\ jobs' = jobs /\ now \in Nat
    BY <1>5 DEF RunNow, Commanded, server, TypeOK
  <2>2. /\ runs'[<<t, "manual">>] = Commanded(now)
        /\ \A u \in Tasks, k \in Lanes :
             u # t \/ k # "manual" => runs'[<<u, k>>] = runs[<<u, k>>]
    BY <2>1, LaneNames DEF TypeOK, Runs
  <2>3. \A u \in Tasks, k \in ServerLanes : runs'[<<u, k>>] = runs[<<u, k>>]
    BY <2>2, LaneNames
  <2>4. \A u \in Tasks : /\ runs'[<<u, "manual">>].due = NoTime
                         /\ runs'[<<u, "manual">>].next = NoTime
    <3>1. Commanded(now).due = NoTime /\ Commanded(now).next = NoTime
      BY <2>1, CommandRun
    <3>2. \A u \in Tasks \ {t} : runs'[<<u, "manual">>] = runs[<<u, "manual">>]
      BY <2>2, LaneNames
    <3> QED
      BY <2>2, <3>1, <3>2 DEF LanesInv
  <2> QED
    BY <2>1, <2>3, <2>4, LaneNames DEF LanesInv
<1>6. ASSUME NEW t \in Tasks, AbandonRun(t)
      PROVE  LanesInv'
  BY <1>6, GoesOnInv, LaneNames DEF AbandonRun, server
<1>7. ASSUME NEW t \in Tasks, NEW l \in Lanes, Step(t, l)
      PROVE  LanesInv'
  <2>1. PICK run : /\ run = Idle \/ GoesOn(t, l, run)
                   /\ runs' = [runs EXCEPT ![<<t, l>>] = run]
    BY <1>7, StepOfRun
  <2>2. phase' = phase /\ jobs' = jobs
    BY <1>7, StepOfRun DEF server
  <2> QED
    BY <2>1, <2>2, GoesOnInv
<1> QED
  BY <1>1, <1>2, <1>3, <1>4, <1>5, <1>6, <1>7
     DEF Next, Boot, Stop, Reconfigure, Tick, Register, SetEnabled, vars, server

-----------------------------------------------------------------------------
(***************************************************************************)
(* What is repeated                                                        *)
(***************************************************************************)

LEMMA NextRunStep ==
  TypeInv /\ LanesInv /\ NextRunAfterLatest /\ [Next]_vars => NextRunAfterLatest'
<1> SUFFICES ASSUME TypeOK, LanesInv, NextRunAfterLatest, [Next]_vars,
                    NEW u \in Tasks, rows'[u] # NoRow, rows'[u].next_run # NoTime
             PROVE  \E j \in DOMAIN history' :
                      /\ IsLatest(u, j)'
                      /\ history'[j].due # NoTime /\ history'[j].due < rows'[u].next_run
  BY DEF TypeInv, NextRunAfterLatest
<1>1. CASE history' = history /\ \A t \in Tasks : KeepsRow(t)
  <2>1. rows[u] # NoRow /\ rows[u].next_run = rows'[u].next_run
    BY <1>1 DEF KeepsRow
  <2>2. \A j \in DOMAIN history : IsLatest(u, j)' <=> IsLatest(u, j)
    BY <1>1 DEF IsLatest
  <2> QED
    BY <1>1, <2>1, <2>2 DEF NextRunAfterLatest
<1>2. ASSUME NEW t \in Tasks, NEW l \in Lanes, RecordSchedulerRun(t, l)
      PROVE  \E j \in DOMAIN history' :
               /\ IsLatest(u, j)'
               /\ history'[j].due # NoTime /\ history'[j].due < rows'[u].next_run
  <2>0. PICK n \in Nat, run \in RunStates : n = Len(history) + 1 /\ run = runs[<<t, l>>]
    <3>1. runs[<<t, l>>] \in RunStates
      BY <1>2, Facts
    <3>2. Len(history) \in Nat
      BY DEF TypeOK
    <3> QED
      BY <3>1, <3>2
  <2>1. /\ DOMAIN history = 1 .. n - 1 /\ DOMAIN history' = 1 .. n /\ n \in Nat /\ n # 0
        /\ \A i \in 1 .. n - 1 : history'[i] = history[i]
        /\ history'[n].task = t /\ history'[n].due = run.due
        /\ rows'[t].next_run = run.next /\ run.pc = "record"
        /\ \A v \in Tasks \ {t} : rows'[v] = rows[v]
    <3>1. Len(history) \in Nat
      BY DEF TypeOK
    <3> QED
      BY <1>2, <2>0, <3>1, RecordedRun
  <2>2. n \in DOMAIN history'
    BY <2>1
  <2>3. CASE u = t
    <3>1. run.next # NoTime
      BY <2>1, <2>3
    <3>2. l \in ServerLanes
      BY <2>0, <3>1, LaneNames DEF LanesInv
    <3>3. Ahead(run, jobs[t])
      BY <2>0, <3>2 DEF LanesInv
    <3>4. run.due \in Nat /\ run.due < run.next
      BY <2>1, <3>1, <3>3 DEF Ahead
    <3>5. IsLatest(t, n)'
      <4>1. history'[n].task = t
        BY <2>1
      <4>2. \A j \in DOMAIN history' : j <= n
        BY <2>1
      <4> QED
        BY <2>2, <4>1, <4>2 DEF IsLatest
    <3>6. history'[n].due # NoTime /\ history'[n].due < rows'[u].next_run
      BY <2>1, <2>3, <3>4
    <3>7. IsLatest(u, n)'
      BY <2>3, <3>5
    <3> QED
      BY <2>2, <3>6, <3>7
  <2>4. CASE u # t
    <3>1. PICK j \in DOMAIN history :
            /\ IsLatest(u, j)
            /\ history[j].due # NoTime /\ history[j].due < rows[u].next_run
      BY <2>1, <2>4 DEF NextRunAfterLatest
    <3>2. j \in DOMAIN history' /\ history'[j] = history[j]
      BY <2>1
    <3>3. IsLatest(u, j)'
      BY <2>1, <2>4, <3>1, <3>2 DEF IsLatest
    <3> QED
      BY <2>1, <2>4, <3>1, <3>2, <3>3
  <2> QED
    BY <2>3, <2>4
<1> QED
  BY <1>1, <1>2, RowsStep

\* The witness of RepeatedOnlyAfterOlderRun for entry i.
OlderAfter(t, i) ==
  \E j \in DOMAIN history :
    j > i /\ history[j].task = t /\ history[j].due # NoTime /\ history[j].due < history[i].due

LEMMA RepeatStep ==
  TypeInv /\ LanesInv /\ RepeatInv /\ [Next]_vars => RepeatedOnlyAfterOlderRun'
<1> SUFFICES ASSUME TypeOK, LanesInv, NextRunAfterLatest, RepeatedOnlyAfterOlderRun, [Next]_vars,
                    NEW u \in Tasks, runs'[<<u, "catchup">>].pc # "idle",
                    NEW i \in DOMAIN history', history'[i].task = u,
                    history'[i].due = runs'[<<u, "catchup">>].due
             PROVE  OlderAfter(u, i)'
  BY DEF TypeInv, RepeatInv, RepeatedOnlyAfterOlderRun, OlderAfter
<1>0. "catchup" \in Lanes /\ "catchup" \in ServerLanes /\ "catchup" # "manual"
  BY LaneNames
<1>1. ASSUME runs[<<u, "catchup">>].pc # "idle", history' = history,
             runs'[<<u, "catchup">>].due = runs[<<u, "catchup">>].due
      PROVE  OlderAfter(u, i)'
  BY <1>1 DEF RepeatedOnlyAfterOlderRun, OlderAfter
<1>2. CASE Start
  <2>1. history' = history
    BY <1>2 DEF Start, persistent
  <2>2. runs[<<u, "catchup">>].pc = "idle"
    BY <1>0, <1>2 DEF LanesInv, Start
  <2>3. /\ rows[u] # NoRow /\ rows[u].next_run \in Nat
        /\ runs'[<<u, "catchup">>].due = rows[u].next_run
    BY <1>0, <1>2, <2>2, StartedRuns
  <2>4. PICK j \in DOMAIN history :
          /\ IsLatest(u, j)
          /\ history[j].due # NoTime /\ history[j].due < rows[u].next_run
    BY <2>3 DEF NextRunAfterLatest
  <2>5. history[i].due = rows[u].next_run /\ i <= j /\ i # j
    <3>1. i <= j
      BY <2>1, <2>4 DEF IsLatest
    <3>2. history[j].due \in Nat
      <4>1. history \in Seq(Entries) /\ j \in DOMAIN history
        BY <2>4 DEF TypeOK
      <4>2. history[j] \in Entries
        BY <4>1
      <4> QED
        BY <2>4, <4>2 DEF Entries, Instants
    <3> QED
      BY <2>1, <2>3, <2>4, <3>1, <3>2
  <2>6. i \in Nat /\ j \in Nat
    BY <2>1 DEF TypeOK
  <2>7. j > i
    BY <2>5, <2>6
  <2> QED
    BY <2>1, <2>4, <2>5, <2>7 DEF OlderAfter, IsLatest
<1>3. CASE Exit
  BY <1>0, <1>3, IdleType DEF Exit, Runs
<1>4. ASSUME NEW t \in Tasks, Fire(t)
      PROVE  OlderAfter(u, i)'
  <2>1. PICK l \in FireLanes : runs' = [runs EXCEPT ![<<t, l>>] = Fired(now)]
    BY <1>4 DEF Fire, Fired
  <2>2. runs'[<<u, "catchup">>] = runs[<<u, "catchup">>] /\ history' = history
    BY <1>0, <1>4, <2>1, LaneNames DEF Fire, persistent, TypeOK, Runs
  <2> QED
    BY <1>1, <2>2
<1>5. ASSUME NEW t \in Tasks, RunNow(t) \/ AbandonRun(t)
      PROVE  OlderAfter(u, i)'
  <2>1. runs'[<<u, "catchup">>] = runs[<<u, "catchup">>] /\ history' = history
    BY <1>0, <1>5, LaneNames DEF RunNow, AbandonRun, persistent, TypeOK, Runs
  <2> QED
    BY <1>1, <2>1
<1>6. ASSUME NEW t \in Tasks, NEW l \in Lanes, Step(t, l)
      PROVE  OlderAfter(u, i)'
  <2>1. PICK run : /\ run = Idle \/ GoesOn(t, l, run)
                   /\ runs' = [runs EXCEPT ![<<t, l>>] = run]
    BY <1>6, StepOfRun
  <2>2. /\ runs[<<u, "catchup">>].pc # "idle"
        /\ runs'[<<u, "catchup">>].due = runs[<<u, "catchup">>].due
    <3>1. runs'[<<t, l>>] = run
      BY <2>1 DEF TypeOK, Runs
    <3>2. u # t \/ l # "catchup" => runs'[<<u, "catchup">>] = runs[<<u, "catchup">>]
      BY <1>0, <2>1 DEF TypeOK, Runs
    <3> QED
      BY <2>1, <3>1, <3>2, IdleType DEF GoesOn
  <2>3. CASE history' = history
    BY <1>1, <2>2, <2>3
  <2>4. CASE RecordSchedulerRun(t, l)
    <3> DEFINE n   == Len(history) + 1
               old == runs[<<t, l>>]
               late == runs[<<u, "catchup">>]
    <3>1. /\ DOMAIN history = 1 .. n - 1 /\ DOMAIN history' = 1 .. n /\ n \in Nat
          /\ \A k \in 1 .. n - 1 : history'[k] = history[k]
          /\ history'[n].task = t /\ history'[n].due = old.due
          /\ runs' = [runs EXCEPT ![<<t, l>>] = Idle] /\ old.pc = "record"
      BY <2>4, RecordedRun
    <3> HIDE DEF n
    <3>2. u # t \/ l # "catchup"
      BY <3>1, IdleType DEF TypeOK, Runs
    <3>3. i # n
      <4>1. CASE u # t
        BY <3>1, <4>1
      <4>2. CASE u = t /\ l = "manual"
        <5>1. old.due = NoTime /\ late.due \in Nat
          BY <1>0, <2>2, <4>2 DEF LanesInv, Ahead
        <5> QED
          BY <2>2, <3>1, <5>1
      <4>3. CASE u = t /\ l \in FireLanes
        <5>1. late.due < old.due /\ late.due \in Nat
          BY <1>0, <2>2, <3>1, <4>3 DEF LanesInv, Ahead
        <5>2. old.due \in Nat
          BY <3>1, <4>3, LaneNames DEF LanesInv, Ahead
        <5> QED
          BY <2>2, <3>1, <5>1, <5>2
      <4> QED
        BY <3>2, <4>1, <4>2, <4>3 DEF Lanes
    <3>4. i \in DOMAIN history /\ history[i].task = u /\ history[i].due = late.due
          /\ history'[i] = history[i]
      <4>1. i \in 1 .. n - 1
        BY <3>1, <3>3
      <4> QED
        BY <2>2, <3>1, <4>1
    <3>5. OlderAfter(u, i)
      BY <2>2, <3>4 DEF RepeatedOnlyAfterOlderRun, OlderAfter
    <3>6. \A k \in DOMAIN history : k \in DOMAIN history' /\ history'[k] = history[k]
      BY <3>1
    <3> QED
      BY <3>4, <3>5, <3>6 DEF OlderAfter
  <2>5. history' = history \/ RecordSchedulerRun(t, l)
    BY <1>6 DEF Step, LookupTask, Finish, AskNextRun, RunNotRecorded, persistent
  <2> QED
    BY <2>3, <2>4, <2>5
<1>7. CASE runs' = runs /\ history' = history
  BY <1>1, <1>7
<1> QED
  BY <1>2, <1>3, <1>4, <1>5, <1>6, <1>7
     DEF Next, Boot, Stop, Reconfigure, Tick, Register, SetEnabled, vars, server, persistent

-----------------------------------------------------------------------------
(***************************************************************************)
(* Theorems                                                                *)
(***************************************************************************)

LEMMA InitIInv == Init => IInv
<1> SUFFICES ASSUME Init PROVE IInv
  OBVIOUS
<1>1. /\ runs \in [Runs -> RunStates] /\ \A t \in Tasks, l \in Lanes : runs[<<t, l>>] = Idle
  BY IdleType DEF Init, Runs
<1>2. TypeOK
  <2>1. now \in 0 .. MaxTime /\ jobs \in [Tasks -> Instants] /\ history \in Seq(Entries)
    BY DEF Init, Instants
  <2>2. rows \in [Tasks -> Rows \cup {NoRow}] /\ config \in Configs /\ defs \in Configs
    BY DEF Init
  <2> QED
    BY <1>1, <2>1, <2>2, IdleType DEF Init, TypeOK
<1>3. Registered
  BY DEF Init, Registered
<1>4. DOMAIN history = {}
  BY DEF Init
<1>5. SummaryInv
  BY <1>4 DEF Init, SummaryInv, HistoryHasRow, RowSummarizesHistory
<1>6. LanesInv
  BY <1>1, IdleType, LaneNames DEF Init, LanesInv, Ahead
<1>7. RepeatInv
  BY <1>4 DEF Init, RepeatInv, NextRunAfterLatest, RepeatedOnlyAfterOlderRun
<1> QED
  BY <1>2, <1>3, <1>5, <1>6, <1>7 DEF IInv, TypeInv

LEMMA NextIInv == IInv /\ [Next]_vars => IInv'
BY TypeStep, SummaryStep, LanesStep, NextRunStep, RepeatStep DEF IInv, RepeatInv

\* What rows, history, jobs and runs know of each other, for any tasks,
\* configurations and overlapping runs.
THEOREM SchedulerInvariant == Safety => []IInv
BY InitIInv, NextIInv, PTL DEF Safety

\* Tables, jobs and runs keep their types, and every run has a row to record in.
THEOREM SchedulerTyped == Safety => []TypeOK
<1>1. IInv => TypeOK
  BY DEF IInv, TypeInv
<1> QED
  BY <1>1, SchedulerInvariant, PTL

\* The counters and the last run of a task's row are those of its history,
\* whatever runs of the server and of commands overlap and fail to record
\* (RecordSchedulerRun, UpsertSchedulerTask).
THEOREM RowsSummarize == Safety => []RowSummarizesHistory
<1>1. IInv => RowSummarizesHistory
  BY DEF IInv, SummaryInv
<1> QED
  BY <1>1, SchedulerInvariant, PTL

\* catchUp repeats a run that is in the history only if a run that stood for
\* an earlier instant was recorded after it: without overlap, never.
THEOREM RepeatsExplained == Safety => []RepeatedOnlyAfterOlderRun
<1>1. IInv => RepeatedOnlyAfterOlderRun
  BY DEF IInv, RepeatInv
<1> QED
  BY <1>1, SchedulerInvariant, PTL
=============================================================================
