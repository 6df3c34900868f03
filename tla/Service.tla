------------------------------- MODULE Service -------------------------------
(***************************************************************************)
(* The service commands (service.go and src/service): what --install,      *)
(* --disable and --uninstall do to the init system, to the directories of  *)
(* the installation and to the system account, step by step, while steps   *)
(* fail, commands are killed, and the server and the operator go on.       *)
(* A behaviour is about the installation of one user on one init system.   *)
(***************************************************************************)
EXTENDS Naturals, Sequences

CONSTANTS
  MaxVerbs       \* bound: commands, and what the operator does himself

VARIABLES
  place,         \* the init system, and whether the commands are run by root
  svc,           \* what the init system has of the service, and whether it runs
  dirs,          \* the directories of the installation that exist
  marker,        \* .service-account in the data directory names the account
  account,       \* "none", "group" (without a user), "ours" or "theirs"
  command,       \* the command that runs, or how the last one ended
  verbs,
  spared         \* history: no uninstall deleted an account without a marker

serviceVars == <<place, svc, dirs, marker, account, command, verbs, spared>>

-----------------------------------------------------------------------------
(***************************************************************************)
(* The init systems                                                        *)
(***************************************************************************)

Native == [darwin |-> "launchd", windows |-> "windows", bsd |-> "rcd"]
\* SysVinit needs both /etc/init.d and a tool to enable a service with.
Precedence == <<"systemd", "openrc", "runit", "sysvinit">>
Traces == [systemd  |-> {"systemctl", "/run/systemd/system"},
           openrc   |-> {"openrc-run", "rc-service"},
           runit    |-> {"/etc/runit", "runsvdir"},
           sysvinit |-> {"/etc/init.d"}]
detect(goos, host) ==
  IF goos # "linux" THEN {Native[goos]}
  ELSE {Precedence[i] : i \in {j \in DOMAIN Precedence :
          /\ Traces[Precedence[j]] \cap host # {}
          /\ \A k \in 1 .. j - 1 : Traces[Precedence[k]] \cap host = {}}}
Hosts == SUBSET UNION {Traces[s] : s \in DOMAIN Traces}

\* What each step of a verb adds or removes.  A step may go one of several
\* ways, and any may fail.
Ordinary == [install |-> <<{"file"}>>, remove |-> <<{"file"}>>,
             enable |-> {{"enabled"}}, start |-> {{"running"}}]
systemdManager  == [Ordinary EXCEPT !.install = <<{"file"}, {}>>]   \* and daemon-reload
openrcManager   == Ordinary
sysvinitManager == Ordinary
rcdManager      == Ordinary
\* The link that enables the service is one of its files.
runitManager    == [Ordinary EXCEPT !.install = <<{"file"}, {"log"}>>,
                                    !.remove = <<{"enabled"}, {"file", "log"}>>]
\* load -w, the fallback of both, does the two at once.
launchdManager  == [Ordinary EXCEPT !.enable = @ \cup {{"enabled", "running"}},
                                    !.start = @ \cup {{"enabled", "running"}}]
windowsManager  == [Ordinary EXCEPT !.install = <<{"file", "enabled"}>>,
                                    !.remove = <<{"file", "enabled"}>>]
newForInit ==
  [systemd |-> systemdManager, openrc |-> openrcManager, sysvinit |-> sysvinitManager,
   rcd |-> rcdManager, runit |-> runitManager, launchd |-> launchdManager,
   windows |-> windowsManager]
Manager == newForInit[place.init]

\* A user has a service of his own with two of them; the others keep theirs
\* where only root writes.
UserLevel == {"systemd", "launchd"}
Permitted == place.root \/ place.init \in UserLevel

Idle == [verb |-> "", at |-> "idle", outcome |-> "", step |-> 0, owned |-> FALSE,
         marked |-> FALSE, alive |-> FALSE, blind |-> FALSE]
\* The five that an uninstall deletes; those after the data stand for one.
Directories == <<"config", "data", "logs">>

Init ==
  /\ \E goos \in {"linux", "darwin", "windows", "bsd"}, host \in Hosts, root \in BOOLEAN :
       \E init \in detect(goos, host) : place = [init |-> init, root |-> root]
  /\ svc = {} /\ dirs = {} /\ marker = FALSE
  /\ account \in {"none", "theirs"}
  /\ command = Idle /\ verbs = 0 /\ spared = TRUE

-----------------------------------------------------------------------------
(***************************************************************************)
(* A command, up to its first step                                         *)
(***************************************************************************)

\* Nobody is ever asked to escalate: who is not root is on a user level.
ensureServicePrivilege(root, userLevel) == root \/ userLevel
\* Only yes goes on, and it is asked before anything else happens.
confirmUninstall(answer) == answer

Actions == {"start", "stop", "restart", "reload"}
Verbs == Actions \cup {"install", "disable", "uninstall"}
First == [v \in Verbs |-> IF v \in Actions THEN "act" ELSE IF v = "install" THEN "write"
                         ELSE "stop"]
runService(verb) ==
  /\ command.at = "idle" /\ verbs < MaxVerbs /\ verbs' = verbs + 1
  /\ ensureServicePrivilege(place.root, ~place.root)
  /\ \E answer \in BOOLEAN :
       command' = IF verb = "uninstall" /\ ~confirmUninstall(answer) THEN Idle
                  ELSE [Idle EXCEPT !.verb = verb, !.at = First[verb]]
  /\ UNCHANGED <<place, svc, dirs, marker, account, spared>>

To(at)      == command' = [command EXCEPT !.at = at, !.step = 0]
End(outcome) == command' = [command EXCEPT !.at = "idle", !.outcome = outcome]
Host == <<dirs, marker, account>>
Same == UNCHANGED <<place, verbs, spared>>

\* The step ends the command: it fails, or the command is killed.
Fail ==
  /\ command.at # "idle" /\ End("failed")
  /\ UNCHANGED <<place, svc, dirs, marker, account, verbs, spared>>

-----------------------------------------------------------------------------
(***************************************************************************)
(* start, stop, restart, reload, --install and --disable                   *)
(***************************************************************************)

Act ==
  /\ command.at = "act" /\ Permitted /\ "file" \in svc
  /\ \/ command.verb \in {"start", "restart"} /\ \E w \in Manager.start : svc' = svc \cup w
     \/ command.verb = "stop" /\ svc' = svc \ {"running"}
     \/ command.verb = "reload" /\ svc' = svc
  /\ End("ok") /\ UNCHANGED Host /\ Same

\* Windows refuses a second service of the name; the others write over the file.
Refuses == place.init = "windows" /\ "file" \in svc /\ command.step = 0
Write ==
  /\ command.at = "write" /\ Permitted /\ ~Refuses
  /\ svc' = svc \cup Manager.install[command.step + 1]
  /\ IF command.step + 1 = Len(Manager.install) THEN To("enable")
     ELSE command' = [command EXCEPT !.step = @ + 1]
  /\ UNCHANGED Host /\ Same
Enable ==
  /\ command.at = "enable" /\ To("start")
  /\ \E w \in Manager.enable : svc' = svc \cup w
  /\ UNCHANGED Host /\ Same
Start ==
  /\ command.at = "start" /\ End("ok")
  /\ \E w \in Manager.start : svc' = svc \cup w
  /\ UNCHANGED Host /\ Same

\* A stop that fails aborts nothing; a disable that fails ends --disable only.
Stop ==
  /\ command.at = "stop"
  /\ \/ svc' = svc
     \/ Permitted /\ svc' = svc \ {"running"}
  /\ command' = [command EXCEPT !.at = "disable", !.alive = "running" \in svc']
  /\ UNCHANGED Host /\ Same
Disable ==
  /\ command.at = "disable"
  /\ \/ Permitted /\ svc' = svc \ {"enabled"}
     \/ command.verb = "uninstall" /\ svc' = svc
  /\ IF command.verb = "uninstall" THEN To("remove") ELSE End("ok")
  /\ UNCHANGED Host /\ Same

-----------------------------------------------------------------------------
(***************************************************************************)
(* --uninstall                                                             *)
(***************************************************************************)

\* Where the marker is looked at.  Fault: when the account's turn comes.
LooksLast(at) == at = "account"
ownsServiceAccount(at) == at = "own"
\* Fault: whose account it is is not asked.
Unasked == TRUE
Looked == IF ownsServiceAccount(command.at) THEN marker ELSE command.owned

\* What is not there is not an error.  On Windows a service that cannot be
\* opened is taken for one that is not there.
Remove ==
  /\ command.at = "remove"
  /\ \/ /\ Permitted \/ svc = {}
        /\ svc' = svc \ Manager.remove[command.step + 1]
        /\ command' = IF command.step + 1 = Len(Manager.remove)
                      THEN [command EXCEPT !.at = "own", !.step = 0]
                      ELSE [command EXCEPT !.step = @ + 1]
     \/ /\ place.init = "windows"
        /\ svc' = svc /\ command' = [command EXCEPT !.at = "own", !.blind = TRUE]
  /\ UNCHANGED Host /\ Same

Own ==
  /\ command.at = "own"
  /\ command' = [command EXCEPT !.at = "delete", !.owned = Looked, !.marked = marker]
  /\ UNCHANGED <<svc, dirs, marker, account>> /\ Same

\* A directory that cannot be deleted ends it, with a part of it gone.
Delete ==
  /\ command.at = "delete"
  /\ LET dir == Directories[command.step + 1] IN
       \/ /\ dirs' = dirs \ {dir} /\ marker' = (marker /\ dir # "data")
          /\ IF command.step + 1 = Len(Directories) THEN To("account")
             ELSE command' = [command EXCEPT !.step = @ + 1]
       \/ /\ dir \in dirs /\ End("failed") /\ dirs' = dirs
          /\ marker' \in {marker, marker /\ dir # "data"}
  /\ UNCHANGED <<svc, account>> /\ Same

\* The user is deleted, and its group if that succeeds.  Windows has none.
DeleteServiceAccount ==
  IF account \in {"ours", "theirs"} /\ place.init # "windows"
  THEN {a \in {"none", "group"} : place.root} ELSE {account}
Account ==
  /\ command.at = "account" /\ End("ok")
  /\ account' \in IF Looked THEN DeleteServiceAccount ELSE {account}
  /\ spared' = (spared /\ (account' = account \/ command.marked))
  /\ UNCHANGED <<place, svc, dirs, marker, verbs>>

-----------------------------------------------------------------------------
(***************************************************************************)
(* The server and the operator                                             *)
(***************************************************************************)

Forget == command' = IF command.at = "idle" THEN Idle ELSE command

\* A server that starts makes its directories, and one that runs on makes
\* anew what is deleted under it.
Serves ==
  /\ "running" \in svc
  /\ dirs' \in {{"config", "data", "logs"}, dirs \cup {"logs"}}
  /\ Forget /\ UNCHANGED <<svc, marker, account>> /\ Same
Dies ==
  /\ "running" \in svc /\ svc' = svc \ {"running"}
  /\ Forget /\ UNCHANGED Host /\ Same

\* The group is made, then the user, then the marker is written; the home of
\* the account is the first that is made.  A group of the name is an error
\* except on macOS, so that after a failure in between none can be made.
createAccount == IF account = "group" /\ place.init # "launchd" THEN {"group"}
                 ELSE {account, "group", "ours"}
CreateServiceAccount ==
  /\ "running" \in svc /\ place.root /\ place.init # "windows"
  /\ account \in {"none", "group"}
  /\ account' \in createAccount
  /\ \/ account' = "ours" /\ marker' = TRUE /\ dirs' = dirs \cup {"config", "data"}
     \/ marker' = marker /\ dirs' = dirs \cup {"config"}
  /\ Forget /\ UNCHANGED svc /\ Same

\* He deletes the account, or makes one of that name for a purpose of his own.
Administer ==
  /\ verbs < MaxVerbs /\ verbs' = verbs + 1
  /\ account' \in {"none", "theirs"}
  /\ Forget /\ UNCHANGED <<place, svc, dirs, marker, spared>>

Next ==
  \/ \E v \in Verbs : runService(v)
  \/ Fail \/ Act \/ Write \/ Enable \/ Start \/ Stop \/ Disable
  \/ Remove \/ Own \/ Delete \/ Account
  \/ Serves \/ Dies \/ CreateServiceAccount \/ Administer

Spec == Init /\ [][Next]_serviceVars

-----------------------------------------------------------------------------
\* What an uninstall that reports success has done: every directory is gone,
\* unless the server could not be stopped, and so is an account that the marker
\* named when it began, although the marker was deleted before the account.  No
\* directory is deleted while the service is still defined, wherever an
\* uninstall fails or is killed, unless Windows would not show it; and an
\* account without a marker is the operator's and stays.
UninstallSound ==
  /\ command.verb = "uninstall" /\ command.outcome = "ok" =>
       /\ command.alive \/ dirs = {}
       /\ command.marked => account \notin {"ours", "theirs"}
  /\ command.at \in {"delete", "account"} => "file" \notin svc \/ command.blind
  /\ spared
=============================================================================
