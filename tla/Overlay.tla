------------------------------ MODULE Overlay -------------------------------
(***************************************************************************)
(* One overlay network of the server (overlay.go, tor/, i2p/): its manager *)
(* with a mutex that is held while a provider boots, the goroutine that    *)
(* starts it, its monitor, the health task, the shutdown                   *)
(* hook, and the commands that change the key on disk.  The provider is a  *)
(* tor or i2pd of its own, or a session of a SAM bridge; which one there   *)
(* is, and whether it comes up, may change at any time.                    *)
(***************************************************************************)
EXTENDS Naturals, FiniteSets

CONSTANTS
  KeyNames,     \* names of keys, that stand for the addresses they have too
  ServiceIds,   \* ids of services; an id is free again when its service is gone
  KeyCommands   \* bound: whether commands run that change the key

VARIABLES
  net,        \* "tor" or "i2p"
  router,     \* the provider there is, and whether it comes up
  server,     \* "off", "up", or "stopped" when the hook of the overlays has run
  cancelled,  \* the context of the manager is
  mutex,      \* who has it
  at,         \* where each actor is
  saw,        \* the service each actor looks at or starts
  service,    \* what the manager has
  alive,      \* services whose process or session is there
  sick,       \* those of them that no longer answer
  leaving,    \* kinds of processes told to end of which one may still be there
  published,  \* the overlay host the HTTP server knows
  key,        \* the key on disk, the provider whose file it is, and whether there
              \* is a file with its address
  faults      \* "overtaken", "beside", "replaced": what has ever happened

overlayVars == <<net, router, server, cancelled, mutex, at, saw, service, alive, sick,
                 leaving, published, key, faults>>

Starters   == {"starter", "monitor", "task"}
Actors     == Starters \cup {"hook", "command"}
Nobody     == "nobody"
None       == "none"
NoKey      == [name |-> None, via |-> None, named |-> FALSE]
Torn       == "torn"    \* a key file that is half written
NoRouter   == [via |-> None, works |-> FALSE]
NoService  == [id |-> None, via |-> None]
Providers  == IF net = "tor" THEN {"tor"} ELSE {"i2pd", "sam"}
Idle       == [a \in Actors |-> "idle"]

Init ==
  /\ net \in {"tor", "i2p"}
  /\ router \in [via : Providers, works : {TRUE}]
  /\ server = "off" /\ cancelled = FALSE /\ mutex = Nobody
  /\ at = Idle /\ saw = [a \in Starters |-> NoService]
  /\ service = NoService /\ alive = {} /\ sick = {} /\ leaving = {}
  /\ published = None /\ key = NoKey /\ faults = {}

Go(a, pc) == at' = [at EXCEPT ![a] = pc]

-----------------------------------------------------------------------------
(***************************************************************************)
(* Providers                                                               *)
(***************************************************************************)
\* The binary or the bridge comes, goes, or no longer comes up.
ChangeRouter ==
  /\ router' \in [via : Providers, works : BOOLEAN] \cup {NoRouter} /\ router' # router
  /\ UNCHANGED <<net, server, cancelled, mutex, at, saw, service, alive, sick, leaving,
                 published, key, faults>>

\* Service.Healthy.
Healthy(s) == s \in alive \ sick

\* The control connection is lost, the process exits.
Sicken ==
  /\ Healthy(service) /\ sick' = sick \cup {service}
  /\ UNCHANGED <<net, router, server, cancelled, mutex, at, saw, service, alive, leaving,
                 published, key, faults>>

\* Fault: the manager's end does not keep a provider from being started.
StartsAnyway(via) == TRUE

\* exec.CommandContext and the waits heed the context; the dialogue with a SAM
\* bridge takes none.
Starts(via) == ~cancelled \/ via = "sam"

\* The key a provider comes up with.  Neither kind of I2P router can read the
\* file of the other: it is replaced.
KeysFor(via) ==
  IF key.via = via THEN {key}
  ELSE [name : KeyNames \ {key.name}, via : {via}, named : {key.named}]

-----------------------------------------------------------------------------
(***************************************************************************)
(* Start, and startLocked                                                  *)
(***************************************************************************)
\* newOverlayManagers, overlayRef.set, and startOverlays beside the scheduler.
Boot ==
  /\ server = "off" /\ server' = "up"
  /\ cancelled' = FALSE /\ Go("starter", "want")
  /\ faults' = IF at["command"] = "ask" THEN faults \cup {"beside"} ELSE faults
  /\ UNCHANGED <<net, router, mutex, saw, service, alive, sick, leaving, published, key>>

\* The monitor tests under the mutex under which it restarts, and has nothing
\* to test when the last restart failed.
Wants(a) ==
  \/ at[a] = "want"
  \/ a = "monitor" /\ at[a] = "loop" /\ ~cancelled
       /\ service # NoService /\ ~Healthy(service)

\* Fault: a restart does not stop what was there.
NothingStopped(a) == {}

\* stopLocked: a restart has it and Start does not.
Stopped(a) == IF a = "starter" THEN {} ELSE {service}

\* Service.Close and a boot that fails tell a process to end and do not wait for
\* it; a session ends with its connection.  The end of the context has killed
\* whatever it was given to.
ToldToEnd(S) == IF cancelled THEN {} ELSE {s.via : s \in S \ {NoService}} \ {"sam"}

\* Such a process is gone; it may take as long as it likes.
Leaves ==
  /\ \E via \in leaving : leaving' = leaving \ {via}
  /\ UNCHANGED <<net, router, server, cancelled, mutex, at, saw, service, alive, sick,
                 published, key, faults>>

\* Of an actor that has done with the mutex.
Released(a) == IF a = "monitor" THEN "loop" ELSE "idle"

\* A process is started, or a session asked for.
Begin(a) ==
  /\ Wants(a) /\ mutex = Nobody
  /\ router.via # None /\ Starts(router.via)
  /\ \E i \in {j \in ServiceIds : \A s \in alive \ Stopped(a) : s.id # j} :
       LET new == [id |-> i, via |-> router.via] IN
         /\ alive' = (alive \ Stopped(a)) \cup {new}
         /\ saw' = [saw EXCEPT ![a] = new]
  /\ sick' = sick \ Stopped(a) /\ leaving' = leaving \cup ToldToEnd(Stopped(a))
  /\ service' = IF a = "starter" THEN service ELSE NoService
  /\ mutex' = a /\ Go(a, "boot")
  /\ faults' = IF a = "starter" /\ service # NoService
                THEN faults \cup {"overtaken"} ELSE faults
  /\ UNCHANGED <<net, router, server, cancelled, published, key>>

\* There is no provider, or the manager is closed.
BeginFails(a) ==
  /\ Wants(a) /\ mutex = Nobody
  /\ router.via = None \/ ~Starts(router.via)
  /\ alive' = alive \ Stopped(a) /\ sick' = sick \ Stopped(a)
  /\ leaving' = leaving \cup ToldToEnd(Stopped(a))
  /\ service' = IF a = "starter" THEN service ELSE NoService
  /\ Go(a, Released(a))
  /\ UNCHANGED <<net, router, server, cancelled, mutex, saw, published, key, faults>>

\* A key of another kind of router is replaced.
Mishaps == IF key # NoKey /\ key'.via # key.via THEN faults \cup {"replaced"} ELSE faults

ComesUp(a) == router.works /\ Starts(saw[a].via) /\ key.name # Torn

\* The provider is up: the address is kept in a file, and the HTTP server is told
\* it and serves the listener.  Start has the monitor run.
Finish(a) ==
  /\ at[a] = "boot" /\ ComesUp(a)
  /\ key' \in {[k EXCEPT !.named = TRUE] : k \in KeysFor(saw[a].via)}
  /\ published' = key'.name
  /\ service' = saw[a] /\ mutex' = Nobody
  /\ at' = [at EXCEPT ![a] = Released(a), !["monitor"] = IF a = "starter" THEN "loop" ELSE @]
  /\ saw' = [saw EXCEPT ![a] = NoService]
  /\ faults' = Mishaps
  /\ UNCHANGED <<net, router, server, cancelled, alive, sick, leaving>>

\* BootstrapTimeout, an error, or the end of the context.
TimesOut(a) == ~ComesUp(a)

\* A SAM destination may have been saved by then.
BootFails(a) ==
  /\ at[a] = "boot" /\ TimesOut(a)
  /\ key' \in {key} \cup (IF saw[a].via = "sam" THEN KeysFor("sam") ELSE {})
  /\ faults' = Mishaps
  /\ alive' = alive \ {saw[a]} /\ sick' = sick \ {saw[a]}
  /\ leaving' = leaving \cup ToldToEnd({saw[a]})
  /\ mutex' = Nobody /\ Go(a, Released(a))
  /\ saw' = [saw EXCEPT ![a] = NoService]
  /\ UNCHANGED <<net, router, server, cancelled, service, published>>

-----------------------------------------------------------------------------
(***************************************************************************)
(* Health task                                                             *)
(***************************************************************************)
\* Fault: a service that is there is not asked whether it answers.
NotAsked(s) == FALSE

\* Running() is asked first, and a service that is there asked itself.
Asked(s) == s # NoService

\* Tor is enabled when there is a binary, I2P when the configuration says so.
TaskLooks ==
  /\ server # "off" /\ at["task"] = "idle" /\ mutex = Nobody
  /\ net = "tor" => router.via # None
  /\ \/ service = NoService /\ Go("task", "want") /\ UNCHANGED saw
     \/ Asked(service) /\ Go("task", "ask") /\ saw' = [saw EXCEPT !["task"] = service]
  /\ UNCHANGED <<net, router, server, cancelled, mutex, service, alive, sick, leaving,
                 published, key, faults>>

\* The question is put without the mutex, to a service that may be gone.
TaskAsks ==
  /\ at["task"] = "ask"
  /\ Go("task", IF Healthy(saw["task"]) THEN "idle" ELSE "want")
  /\ saw' = [saw EXCEPT !["task"] = NoService]
  /\ UNCHANGED <<net, router, server, cancelled, mutex, service, alive, sick, leaving,
                 published, key, faults>>

-----------------------------------------------------------------------------
(***************************************************************************)
(* Shutdown: stopOverlays                                                  *)
(***************************************************************************)
ClearHost ==
  /\ server = "up" /\ at["hook"] = "idle" /\ Go("hook", "cancel")
  /\ published' = None
  /\ UNCHANGED <<net, router, server, cancelled, mutex, saw, service, alive, sick, leaving,
                 key, faults>>

\* Close: the context kills the processes that were started with it, those told
\* to end before included.
Cancel ==
  /\ at["hook"] = "cancel"
  /\ cancelled' = TRUE
  /\ sick' = sick \cup {s \in alive : s.via # "sam"} /\ leaving' = {}
  /\ at' = [at EXCEPT !["hook"] = "close", !["monitor"] = IF @ = "loop" THEN "idle" ELSE @]
  /\ UNCHANGED <<net, router, server, mutex, saw, service, alive, published, key, faults>>

Close ==
  /\ at["hook"] = "close" /\ mutex = Nobody
  /\ alive' = alive \ {service} /\ sick' = sick \ {service}
  /\ service' = NoService
  /\ server' = "stopped" /\ Go("hook", "idle")
  /\ UNCHANGED <<net, router, cancelled, mutex, saw, leaving, published, key, faults>>

\* The other hooks have run, or the process was killed.  What it had started
\* is taken to go with it.
Exit ==
  /\ server # "off" /\ server' = "off"
  /\ mutex' = Nobody /\ at' = [Idle EXCEPT !["command"] = at["command"]]
  /\ saw' = [a \in Starters |-> NoService]
  /\ service' = NoService /\ alive' = {} /\ sick' = {} /\ leaving' = {}
  /\ published' = None
  /\ UNCHANGED <<net, router, cancelled, key, faults>>

-----------------------------------------------------------------------------
(***************************************************************************)
(* Commands: tor regenerate, vanity apply, import-keys, i2p regenerate     *)
(***************************************************************************)
\* What the PID file says of a server: in a container it is never written, and
\* one that cannot be read counts as none.
CheckPIDFile == IF server = "off" THEN {FALSE} ELSE BOOLEAN

\* Fault: the command does not look whether a server runs.
StoppedNot(running) == TRUE

RequireStopped(running) == ~running

\* Then the operator is asked.
CommandAsks ==
  /\ KeyCommands /\ at["command"] = "idle" /\ Go("command", "ask")
  /\ \E running \in CheckPIDFile :
       /\ RequireStopped(running)
       /\ faults' = IF server # "off" /\ ~running THEN faults \cup {"beside"} ELSE faults
  /\ UNCHANGED <<net, router, server, cancelled, mutex, saw, service, alive, sick, leaving,
                 published, key>>

Answered(keys) ==
  /\ at["command"] = "ask" /\ Go("command", "idle") /\ key' \in keys
  /\ UNCHANGED <<net, router, server, cancelled, mutex, saw, service, alive, sick, leaving,
                 published, faults>>

\* regenerate takes a key away whose address is kept, and sees no other.
Regenerate == key.named /\ Answered({NoKey})

\* The file with the address goes first; then the key is written in place, which
\* may fail before it has begun or half way.
InstallHiddenServiceKey(name) ==
  {[name |-> n, via |-> "tor", named |-> FALSE] : n \in {name, Torn}} \cup
  {[key EXCEPT !.named = FALSE]}

\* import-keys looks at what it is given.
ValidateSecretKeyFile(name) == name # Torn
ImportKeys(name) ==
  net = "tor" /\ ValidateSecretKeyFile(name) /\ Answered(InstallHiddenServiceKey(name))

\* What vanity start may find, whose address begins with what was asked for, and
\* what it may leave, when it is killed, for vanity apply, that takes it as it is.
SearchVanity == KeyNames
SaveVanity == SearchVanity \cup {Torn}
VanityApply(name) ==
  net = "tor" /\ name \in SaveVanity /\ Answered(InstallHiddenServiceKey(name))

\* The answer is no, or nothing can be read or written.
CommandGivesUp ==
  /\ at["command"] = "ask" /\ Go("command", "idle")
  /\ UNCHANGED <<net, router, server, cancelled, mutex, saw, service, alive, sick, leaving,
                 published, key, faults>>

Next ==
  \/ ChangeRouter \/ Sicken \/ Leaves \/ Boot
  \/ \E a \in Starters : Begin(a) \/ BeginFails(a) \/ Finish(a) \/ BootFails(a)
  \/ TaskLooks \/ TaskAsks
  \/ ClearHost \/ Cancel \/ Close \/ Exit
  \/ CommandAsks \/ Regenerate \/ CommandGivesUp
  \/ \E name \in KeyNames \cup {Torn} : ImportKeys(name) \/ VanityApply(name)

\* The scheduler comes back to its task, every boot ends in time, and a mutex
\* of Go is handed to who waits for it.
Fairness ==
  /\ WF_overlayVars(TaskLooks) /\ WF_overlayVars(TaskAsks)
  /\ \A a \in Starters :
       /\ SF_overlayVars(Begin(a) \/ BeginFails(a))
       /\ WF_overlayVars(Finish(a) \/ BootFails(a))

Spec == Init /\ [][Next]_overlayVars /\ Fairness

-----------------------------------------------------------------------------
\* Whoever restarts the provider, and whatever fails, a process or session that the
\* manager has lost sight of is one that it has told to end, unless the health
\* task came before Start; and once the shutdown hook has run no tor and no i2pd
\* is up, not one of those either, though the health task still restarts what
\* it misses.
NoProviderLost ==
  /\ "overtaken" \notin faults =>
       alive \subseteq {service} \cup {saw[a] : a \in {b \in Starters : at[b] = "boot"}}
  /\ server = "stopped" =>
       leaving = {} /\ \A s \in alive : s.via = "sam" \/ s \in sick

\* The address that the HTTP server takes for its own is that of the key on
\* disk, whatever restarts have failed and what commands were tried meanwhile,
\* unless a command was overtaken by a boot, the PID file did not tell a command
\* of the server, or the kind of router changed.
PublishedIsKey == faults = {} => published \in {None, key.name}

\* The provider is up, or there is a reason why not.
RecoveredOrNot ==
  Healthy(service) \/ ~router.works \/ key.name = Torn \/ server # "up" \/ cancelled

\* A provider that works is up again in the end, also if the first start failed
\* or the provider was lost with nobody to monitor it.
Recovers == []<>RecoveredOrNot
=============================================================================
