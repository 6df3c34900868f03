----------------------------- MODULE Lifecycle -----------------------------
(***************************************************************************)
(* The life of a shortner process outside a container: main.go,            *)
(* signal/signal.go and common/pidfile.  A process reads, judges and       *)
(* writes the PID file, boots, and serves.  A signal starts a second       *)
(* goroutine that runs the shutdown hooks while the first one, whose       *)
(* ListenAndServe returns at the first hook, runs its deferred calls: who  *)
(* comes to os.Exit first ends the process and whatever still runs in it.  *)
(* Commands and other servers share the PID file, one step at a time.      *)
(***************************************************************************)
EXTENDS Naturals, Sequences, FiniteSets

CONSTANTS
  Procs,       \* pids; one that is off is free for the next process
  Kinds,       \* which of "server", "command", "status" are started
  AutoInstall, \* server.update.auto_install, without a service manager
  NoFile,      \* there is no PID file
  Empty        \* the file exists and nothing is written to it yet

ASSUME LifecycleAssumption ==
  /\ Kinds \subseteq {"server", "command", "status"}
  /\ AutoInstall \in BOOLEAN
  /\ NoFile \notin Procs /\ Empty \notin Procs /\ NoFile # Empty

\* The shutdown hooks as registered; srv.Shutdown is the first two.
Hooks == <<"listener", "drain", "overlays", "scheduler", "notify", "geoip",
           "database", "accessLog", "schedulerLog", "pidFile">>
Nth(name) == CHOOSE i \in DOMAIN Hooks : Hooks[i] = name

VARIABLES
  pidFile,  \* what the path names: a pid, Empty or NoFile
  open,     \* the processes that are writing to that very file
  main,     \* the main goroutine of every process
  kind,     \* what the process was started for
  seen,     \* what it read from the PID file
  hook,     \* its signal goroutine: 0, or the number of the hook it runs
  work,     \* the requests and tasks that run in it
  unclean,  \* pids whose last process ended or began without clean-up
  overlap   \* whether the operator has ever started or signalled a process
            \* while another one was starting or ending

file == <<pidFile, open, unclean>>
vars == <<pidFile, open, main, kind, seen, hook, work, unclean, overlap>>

Pcs == {"off", "read", "judge", "reclaim", "write", "content", "boot",
        "listen", "serve", "unlink", "exit"}

Init ==
  /\ pidFile = NoFile /\ open = {} /\ unclean = {} /\ overlap = FALSE
  /\ main = [p \in Procs |-> "off"]
  /\ kind = [p \in Procs |-> "status"]
  /\ seen = [p \in Procs |-> NoFile]
  /\ hook = [p \in Procs |-> 0]
  /\ work = [p \in Procs |-> {}]

-----------------------------------------------------------------------------
Alive(p)   == main[p] # "off"
Steady(p)  == main[p] = "off" \/ (main[p] = "serve" /\ hook[p] = 0)
Serves(p)  == kind[p] \in {"server", "restarted"}

\* The process is gone, its goroutines and its work with it.
End(p) ==
  /\ main' = [main EXCEPT ![p] = "off"]
  /\ seen' = [seen EXCEPT ![p] = NoFile]
  /\ hook' = [hook EXCEPT ![p] = 0]
  /\ work' = [work EXCEPT ![p] = {}]

Goto(p, pc) ==
  /\ main' = [main EXCEPT ![p] = pc]
  /\ UNCHANGED <<kind, seen, hook, work>>

\* Remove: the path names nothing; who still writes, writes to no name.
Unlinked == pidFile' = NoFile /\ open' = {}

(***************************************************************************)
(* The PID file                                                            *)
(***************************************************************************)

\* A server, a --scheduler command, or one that only asks: --status,
\* --update, tor, --service.
Invoke(p) ==
  /\ ~Alive(p)
  /\ overlap' = (overlap \/ \E q \in Procs : ~Steady(q))
  /\ \E k \in Kinds : kind' = [kind EXCEPT ![p] = k]
  /\ main' = [main EXCEPT ![p] = "read"]
  /\ UNCHANGED <<file, seen, hook, work>>

\* Fault: the commands that only ask write the file as well.
FreeForAll(p) == Goto(p, "write")

\* CheckPIDFile found nothing in the way.
Free(p) ==
  \/ kind[p] = "status" /\ End(p) /\ UNCHANGED kind
  \/ /\ kind[p] # "status"
     /\ main' = [main EXCEPT ![p] = "write"]
     /\ seen' = [seen EXCEPT ![p] = NoFile]
     /\ UNCHANGED <<kind, hook, work>>

\* The os.ReadFile of CheckPIDFile.
ReadPidFile(p) ==
  /\ main[p] = "read"
  /\ \/ pidFile = NoFile /\ Free(p)
     \/ /\ pidFile # NoFile
        /\ seen' = [seen EXCEPT ![p] = pidFile]
        /\ main' = [main EXCEPT ![p] = "judge"]
        /\ UNCHANGED <<kind, hook, work>>
  /\ UNCHANGED file

\* Fault: the deferred RemovePIDFile is registered before WritePIDFile.
RefusedDeferring(p) ==
  IF kind[p] = "status" THEN End(p) /\ UNCHANGED kind ELSE Goto(p, "unlink")

\* "already running": the process returns before it defers anything.
Refused(p) == End(p) /\ UNCHANGED kind

\* isProcessRunning and isOurProcess: any process of this binary will do.
JudgePidFile(p) ==
  /\ main[p] = "judge"
  /\ IF seen[p] \in Procs /\ Alive(seen[p]) THEN Refused(p) ELSE Goto(p, "reclaim")
  /\ UNCHANGED file

\* os.Remove of a file that is stale or corrupt -- or was, when it was read.
ReclaimPidFile(p) ==
  /\ main[p] = "reclaim"
  /\ Unlinked /\ Free(p)
  /\ UNCHANGED unclean

\* os.WriteFile creates or truncates the file, then writes the pid.
TruncatePidFile(p) ==
  /\ main[p] = "write"
  /\ pidFile' = Empty
  /\ open' = open \cup {p}
  /\ unclean' = unclean \ {p}
  /\ Goto(p, "content")

WritePidFile(p) ==
  /\ main[p] = "content"
  /\ pidFile' = IF p \in open THEN p ELSE pidFile
  /\ open' = open \ {p}
  /\ Goto(p, "boot")
  /\ UNCHANGED unclean

(***************************************************************************)
(* Starting and serving                                                    *)
(***************************************************************************)

\* Configuration, database, logs, scheduler, signal.Start: a server goes on
\* to listen.  One of them fails, or the command is done: run returns.
Boot(p) ==
  /\ main[p] = "boot"
  /\ \/ Serves(p) /\ Goto(p, "listen")
     \/ Goto(p, "unlink")
  /\ UNCHANGED file

\* ListenAndServe: the port is one process's; http.Server refuses after
\* Shutdown.
Listen(p) ==
  /\ main[p] = "listen"
  /\ Goto(p, IF hook[p] > Nth("listener") \/ \E q \in Procs : main[q] = "serve"
             THEN "unlink" ELSE "serve")
  /\ UNCHANGED file

\* Fault: run leaves the PID file to the hook.
ReturnsAtOnce(p) ==
  /\ main[p] = "serve" /\ hook[p] > Nth("listener")
  /\ Goto(p, "exit")
  /\ UNCHANGED file

\* ErrServerClosed: ListenAndServe returns as soon as Shutdown has closed
\* the listener, and run with it.
ServeReturns(p) ==
  /\ main[p] = "serve" /\ hook[p] > Nth("listener")
  /\ Goto(p, "unlink")
  /\ UNCHANGED file

StartWork(p) ==
  /\ \/ /\ main[p] = "serve" /\ hook[p] <= Nth("listener")
        /\ work' = [work EXCEPT ![p] = @ \cup {"request"}]
     \/ /\ main[p] \in {"listen", "serve"} \/ hook[p] > 0
        /\ hook[p] <= Nth("scheduler")
        /\ work' = [work EXCEPT ![p] = @ \cup {"task"}]
  /\ UNCHANGED <<file, main, kind, seen, hook>>

FinishWork(p) ==
  /\ \E x \in work[p] : work' = [work EXCEPT ![p] = @ \ {x}]
  /\ UNCHANGED <<file, main, kind, seen, hook>>

(***************************************************************************)
(* Ending                                                                  *)
(***************************************************************************)

\* The deferred RemovePIDFile of run, whosever the file is by now.
Unlink(p) ==
  /\ main[p] = "unlink"
  /\ Unlinked
  /\ Goto(p, "exit")
  /\ UNCHANGED unclean

\* SIGTERM, SIGINT, SIGQUIT or SIGRTMIN+3; before signal.Start it kills.
Signal(p) ==
  /\ main[p] \in {"listen", "serve"} /\ hook[p] = 0
  /\ overlap' = (overlap \/ \E q \in Procs : ~Steady(q))
  /\ hook' = [hook EXCEPT ![p] = 1]
  /\ UNCHANGED <<file, main, kind, seen, work>>

\* Fault: Shutdown waits for requests without a deadline.
WaitingHook(p) == IF "request" \in work[p] THEN hook[p] ELSE hook[p] + 1

\* A hook returns in bounded time: Shutdown waits for requests, but no
\* longer than 30 seconds.
NextHook(p) == hook[p] + 1

\* The hooks run one after the other.
RunHook(p) ==
  /\ hook[p] \in DOMAIN Hooks
  /\ hook' = [hook EXCEPT ![p] = NextHook(p)]
  /\ IF Hooks[hook[p]] = "pidFile" THEN Unlinked ELSE UNCHANGED <<pidFile, open>>
  /\ UNCHANGED <<unclean, main, kind, seen, work>>

\* The os.Exit of main, or the one after the last hook.
Exit(p) ==
  /\ main[p] = "exit" \/ hook[p] = Len(Hooks) + 1
  /\ End(p)
  /\ UNCHANGED <<file, kind>>

\* SIGKILL, a panic, a power failure.
Kill(p) ==
  /\ Alive(p)
  /\ open' = open \ {p}
  /\ unclean' = unclean \cup {p}
  /\ End(p)
  /\ UNCHANGED <<pidFile, kind>>

\* restartSelf, from the update_check task: a new image in this process.
Reexec(p) ==
  /\ AutoInstall /\ "task" \in work[p]
  /\ main' = [main EXCEPT ![p] = "read"]
  /\ kind' = [kind EXCEPT ![p] = "restarted"]
  /\ hook' = [hook EXCEPT ![p] = 0]
  /\ work' = [work EXCEPT ![p] = {}]
  /\ unclean' = unclean \cup {p}
  /\ UNCHANGED <<pidFile, open, seen>>

\* The main goroutine and the signal goroutine of a process.
Main(p) ==
  /\ \/ ReadPidFile(p) \/ JudgePidFile(p) \/ ReclaimPidFile(p)
     \/ TruncatePidFile(p) \/ WritePidFile(p) \/ Boot(p) \/ Listen(p)
     \/ ServeReturns(p) \/ Unlink(p)
  /\ UNCHANGED overlap
ShutDown(p) == RunHook(p) /\ UNCHANGED overlap
Leave(p)    == Exit(p) /\ UNCHANGED overlap

\* What the process does not decide.
Environment(p) ==
  /\ StartWork(p) \/ FinishWork(p) \/ Kill(p) \/ Reexec(p)
  /\ UNCHANGED overlap

Next ==
  \E p \in Procs :
    \/ Invoke(p) \/ Signal(p)
    \/ Main(p) \/ ShutDown(p) \/ Leave(p) \/ Environment(p)

Safety == Init /\ [][Next]_vars

\* Both goroutines of a process run; nobody has to start, signal or kill one.
Spec ==
  Safety /\ \A p \in Procs : WF_vars(Main(p)) /\ WF_vars(ShutDown(p)) /\ WF_vars(Leave(p))

-----------------------------------------------------------------------------
\* Every file, goroutine and process has its type; a command that only asks
\* never gets as far as writing the file.
TypeOK ==
  /\ pidFile \in Procs \cup {NoFile, Empty}
  /\ open \subseteq Procs /\ unclean \subseteq Procs
  /\ main \in [Procs -> Pcs]
  /\ kind \in [Procs -> {"server", "command", "status", "restarted"}]
  /\ seen \in [Procs -> Procs \cup {NoFile, Empty}]
  /\ hook \in [Procs -> 0 .. Len(Hooks) + 1]
  /\ work \in [Procs -> SUBSET {"request", "task"}]
  /\ overlap \in BOOLEAN
  /\ \A p \in Procs :
       kind[p] = "status" => main[p] \in {"off", "read", "judge", "reclaim"}

\* However the two goroutines of an ending process race each other and
\* other processes: the file names a process that lives, or one that had no
\* chance to remove it.
CleanExitRemovesPidFile ==
  pidFile \in Procs => Alive(pidFile) \/ pidFile \in unclean

\* A signal goroutine runs beside a main goroutine that has booted.
HookAfterBoot ==
  \A p \in Procs : hook[p] > 0 => main[p] \in {"listen", "serve", "unlink", "exit"}

\* A file that names p has p to remove it, or p had no chance to.
FileAccounted ==
  \A p \in Procs :
    pidFile = p =>
      \/ p \in unclean
      \/ main[p] \in {"boot", "listen", "serve", "unlink"} /\ hook[p] <= Len(Hooks)

\* The inductive invariant behind CleanExitRemovesPidFile: a process named in
\* the file still has a removal ahead, by main or by a hook, or was stopped
\* short of it.
IInv == TypeOK /\ HookAfterBoot /\ FileAccounted

Owns(p) == main[p] \in {"boot", "listen", "serve"}

\* If the operator does one thing at a time, a server that runs is the one
\* that the file names, and the only one.
PidFileNamesServer ==
  ~overlap => \A p \in Procs : Owns(p) /\ hook[p] = 0 => pidFile = p

\* A shutdown comes to its end, whatever still runs in the process: with
\* the process, or with an update that re-executes it.
ShutdownEnds == \A p \in Procs : hook[p] > 0 ~> hook[p] = 0

(***************************************************************************)
(* What the documentation says and the code does not do                    *)
(***************************************************************************)

\* Restart "brings the freshly installed binary into service"
\* (updater/restart.go): the new image does not find itself running.
RestartNotRefused ==
  \A p \in Procs : kind[p] = "restarted" /\ main[p] = "judge" => seen[p] # p
=============================================================================
