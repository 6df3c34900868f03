--------------------------- MODULE MCMaintenance ----------------------------
(***************************************************************************)
(* Restore, Update, Overlay, Keys, Settings, Mail, Service and CommandLine *)
(* for TLC. They share no state, so a behaviour is one of one component:   *)
(* part says which, and the variables of the others stay 0.                *)
(***************************************************************************)
EXTENDS Naturals

CONSTANTS MaxEdits, MaxJobs, Defer, MaxTime, MaxRuns, KeyNames, ServiceIds,
          KeyCommands, Operators, Keyservers, MaxKeys, MaxCommands,
          MaxHours, Booters, Followed, MaxBoots, MaxHands, MaxMade, Lanes,
          MaxTaskRuns, MaxTurns, MaxVerbs, Addresses, AtFirst, Tokens,
          Retry, TTL, MaxVersion, MaxTests, MaxGiven, MaxStarts

VARIABLE part   \* the component this behaviour is about
VARIABLES live, wal, served, edits, archives, pack, restore, disturbed,
          restored, jobs
VARIABLES today, releases, branch, serving, installed, known, run, runs,
          told, past
VARIABLES net, router, server, cancelled, mutex, at, saw, service, alive,
          sick, leaving, published, key, faults
VARIABLES hour, pub, priv, prevPriv, until, ledger, rows, advertise,
          exports, uploaded, cmd, commands, made, handedOut, givenUp,
          exported, mishaps
VARIABLES setting, yml, proc, changer, boots, hands, keysMade, chosen,
          sealed, overlaid, raced
VARIABLES smtp, ready, switches, addressed, templates, exchange, lane,
          taskRuns, turns, mails, lost
VARIABLES place, svc, dirs, marker, account, command, verbs, spared
VARIABLES file, mode, cached, age, bin, offered, p, starts

restoreVars == <<live, wal, served, edits, archives, pack, restore,
                 disturbed, restored, jobs>>
updateVars == <<today, releases, branch, serving, installed, known, run,
                runs, told, past>>
overlayVars == <<net, router, server, cancelled, mutex, at, saw, service,
                 alive, sick, leaving, published, key, faults>>
keysVars == <<hour, pub, priv, prevPriv, until, ledger, rows, advertise,
              exports, uploaded, cmd, commands, made, handedOut, givenUp,
              exported, mishaps>>
settingsVars == <<setting, yml, proc, changer, boots, hands, keysMade,
                  chosen, sealed, overlaid, raced>>
mailVars == <<smtp, ready, switches, addressed, templates, exchange, lane,
              taskRuns, turns, mails, lost>>
serviceVars == <<place, svc, dirs, marker, account, command, verbs, spared>>
commandVars == <<file, mode, cached, age, bin, offered, p, starts>>

R == INSTANCE Restore
U == INSTANCE Update
O == INSTANCE Overlay
K == INSTANCE KeysProofs
S == INSTANCE Settings
M == INSTANCE Mail
V == INSTANCE Service
C == INSTANCE CommandLineProofs

\* How many versions of the files there are.
ASSUME RestoreAssumption == MaxEdits \in Nat \ {0}

\* How long the task holds a build back, and how long a run is watched.
ASSUME UpdateAssumption == Defer \in Nat /\ MaxTime \in Nat

\* How many keypairs are followed.
ASSUME KeysAssumption == MaxKeys \in Nat

\* Which settings are followed, and how many secrets are made.
ASSUME SettingsAssumption == Followed \subseteq DOMAIN S!Ranges /\ MaxMade \in Nat

\* How many versions there are, and how often a request is repeated.
ASSUME CommandAssumption == MaxVersion \in Nat \ {0} /\ Retry \in Nat

\* The variables of a component that the behaviour is not about.
NoR ==
  /\ live = 0 /\ wal = 0 /\ served = 0 /\ edits = 0 /\ archives = 0
  /\ pack = 0 /\ restore = 0 /\ disturbed = 0 /\ restored = 0 /\ jobs = 0
NoU ==
  /\ today = 0 /\ releases = 0 /\ branch = 0 /\ serving = 0 /\ installed = 0
  /\ known = 0 /\ run = 0 /\ runs = 0 /\ told = 0 /\ past = 0
NoO ==
  /\ net = 0 /\ router = 0 /\ server = 0 /\ cancelled = 0 /\ mutex = 0
  /\ at = 0 /\ saw = 0 /\ service = 0 /\ alive = 0 /\ sick = 0
  /\ leaving = 0 /\ published = 0 /\ key = 0 /\ faults = 0
NoK ==
  /\ hour = 0 /\ pub = 0 /\ priv = 0 /\ prevPriv = 0 /\ until = 0
  /\ ledger = 0 /\ rows = 0 /\ advertise = 0 /\ exports = 0 /\ uploaded = 0
  /\ cmd = 0 /\ commands = 0 /\ made = 0 /\ handedOut = 0 /\ givenUp = 0
  /\ exported = 0 /\ mishaps = 0
NoS ==
  /\ setting = 0 /\ yml = 0 /\ proc = 0 /\ changer = 0 /\ boots = 0
  /\ hands = 0 /\ keysMade = 0 /\ chosen = 0 /\ sealed = 0 /\ overlaid = 0
  /\ raced = 0
NoM ==
  /\ smtp = 0 /\ ready = 0 /\ switches = 0 /\ addressed = 0 /\ templates = 0
  /\ exchange = 0 /\ lane = 0 /\ taskRuns = 0 /\ turns = 0 /\ mails = 0
  /\ lost = 0
NoV ==
  /\ place = 0 /\ svc = 0 /\ dirs = 0 /\ marker = 0 /\ account = 0
  /\ command = 0 /\ verbs = 0 /\ spared = 0
NoC ==
  /\ file = 0 /\ mode = 0 /\ cached = 0 /\ age = 0 /\ bin = 0 /\ offered = 0
  /\ p = 0 /\ starts = 0

Init ==
  \/ /\ part = "restore" /\ R!Init
     /\ NoU /\ NoO /\ NoK /\ NoS /\ NoM /\ NoV /\ NoC
  \/ /\ part = "update" /\ U!Init
     /\ NoR /\ NoO /\ NoK /\ NoS /\ NoM /\ NoV /\ NoC
  \/ /\ part = "overlay" /\ O!Init
     /\ NoR /\ NoU /\ NoK /\ NoS /\ NoM /\ NoV /\ NoC
  \/ /\ part = "keys" /\ K!Init
     /\ NoR /\ NoU /\ NoO /\ NoS /\ NoM /\ NoV /\ NoC
  \/ /\ part = "settings" /\ S!Init
     /\ NoR /\ NoU /\ NoO /\ NoK /\ NoM /\ NoV /\ NoC
  \/ /\ part = "mail" /\ M!Init
     /\ NoR /\ NoU /\ NoO /\ NoK /\ NoS /\ NoV /\ NoC
  \/ /\ part = "service" /\ V!Init
     /\ NoR /\ NoU /\ NoO /\ NoK /\ NoS /\ NoM /\ NoC
  \/ /\ part = "command" /\ C!Init
     /\ NoR /\ NoU /\ NoO /\ NoK /\ NoS /\ NoM /\ NoV

Next ==
  /\ UNCHANGED part
  /\ \/ /\ part = "restore" /\ R!Next
        /\ UNCHANGED <<updateVars, overlayVars, keysVars, settingsVars,
                         mailVars, serviceVars, commandVars>>
     \/ /\ part = "update" /\ U!Next
        /\ UNCHANGED <<restoreVars, overlayVars, keysVars, settingsVars,
                         mailVars, serviceVars, commandVars>>
     \/ /\ part = "overlay" /\ O!Next
        /\ UNCHANGED <<restoreVars, updateVars, keysVars, settingsVars,
                         mailVars, serviceVars, commandVars>>
     \/ /\ part = "keys" /\ K!Next
        /\ UNCHANGED <<restoreVars, updateVars, overlayVars, settingsVars,
                         mailVars, serviceVars, commandVars>>
     \/ /\ part = "settings" /\ S!Next
        /\ UNCHANGED <<restoreVars, updateVars, overlayVars, keysVars,
                         mailVars, serviceVars, commandVars>>
     \/ /\ part = "mail" /\ M!Next
        /\ UNCHANGED <<restoreVars, updateVars, overlayVars, keysVars,
                         settingsVars, serviceVars, commandVars>>
     \/ /\ part = "service" /\ V!Next
        /\ UNCHANGED <<restoreVars, updateVars, overlayVars, keysVars,
                         settingsVars, mailVars, commandVars>>
     \/ /\ part = "command" /\ C!Next
        /\ UNCHANGED <<restoreVars, updateVars, overlayVars, keysVars,
                         settingsVars, mailVars, serviceVars>>

vars == <<part, restoreVars, updateVars, overlayVars, keysVars, settingsVars,
          mailVars, serviceVars, commandVars>>

Spec == Init /\ [][Next]_vars

-----------------------------------------------------------------------------
\* Sources are edited while they are hashed and copied; an archive that was
\* accepted is all the same a snapshot: there was an instant, between the last
\* digest and the first copy, at which every source was as the archive has it,
\* unless a restore gave a source back a version it had before.
AcceptedIsSnapshot == part = "restore" => R!AcceptedIsSnapshot

\* A restore that ends well, while nobody else writes, leaves every file as
\* the archive has it, whatever an earlier restore that failed had left; and an
\* incremental archive restored after its full one gives back every file as
\* the incremental has hashed it, those it does not carry included.
RestoreExact == part = "restore" => R!RestoreExact

\* On one channel, stable or beta, and as long as no two checks overlap, no
\* state is lost and no command has put a build on record that the window of
\* the task still holds back, a release is announced once, however checks,
\* restarts and publications follow each other.
AnnouncedOnce == part = "update" => U!AnnouncedOnce

\* Downloads break off, and the rolling release changes between the binary and
\* its checksum: what is installed is all the same a build as published.  It is
\* no older than the one in whose place it comes, on one channel, stable or beta,
\* with no two checks at once and a restart after every installation; and what a
\* scheduled check installs has been public as long as its window demands,
\* unless the rolling release changed under its hands.
InstallationsSound == [][part = "update" => U!InstallsSoundly]_updateVars

\* Whoever restarts the provider, and whatever fails, a process or session that the
\* manager has lost sight of is one that it has told to end, unless the health
\* task came before Start; and once the shutdown hook has run no tor and no i2pd
\* is up, not one of those either, though the health task still restarts what
\* it misses.
NoProviderLost == part = "overlay" => O!NoProviderLost

\* The address that the HTTP server takes for its own is that of the key on
\* disk, whatever restarts have failed and what commands were tried meanwhile,
\* unless a command was overtaken by a boot, the PID file did not tell a command
\* of the server, or the kind of router changed.
PublishedIsKey == part = "overlay" => O!PublishedIsKey

\* What was encrypted to a key that the server has handed out can be read, with
\* the key or the one retired before it, whatever steps of rotations, imports
\* and deletions failed, until a command deletes the key, imports over it or
\* retires another; unless changes overlap, the private half of a new key is
\* not written to its end, or generate finds one that a rotation left.
KeysHeld == part = "keys" => K!KeysHeld

\* What the state file and the rows say was published where was accepted there,
\* and no operator has the private key twice within an hour, unless changes
\* overlap or a command dies between a step and its record.
RecordsTrue == part = "keys" => K!RecordsTrue

\* A key under which a report was sealed is the one in server.yml, through
\* kills, commands and edits, so that the report can be opened, unless two
\* wrote the file at once: such a save can put back a copy without the key.
SealedReadable == part = "settings" => S!SealedReadable

\* What the operator and the commands chose stays in the file as long as it is
\* legal, whoever saves the file for a reason of his own, a value given for one
\* run is saved only by a start that looks for a mail server, and a server runs
\* on legal numbers whatever the file says.
ChoicesKept == part = "settings" => S!ChoicesKept

\* The operator gets at most one mail about the failure of a run, whichever of
\* the two places tells of it, and exactly one when a run whose failure is told
\* at all is over and no mail of it was bound to be lost: email off, the event
\* switched off, no address, a template nobody can read, a mail server that
\* refused.  A template of the operator that cannot be parsed is no such cause
\* (notify/store.go: a mistyped template must never be the reason a backup
\* failure goes unreported).
ToldOnce == part = "mail" => M!ToldOnce

\* What an uninstall that reports success has done: every directory is gone,
\* unless the server could not be stopped, and so is an account that the marker
\* named when it began, although the marker was deleted before the account.  No
\* directory is deleted while the service is still defined, wherever an
\* uninstall fails or is killed, unless Windows would not show it; and an
\* account without a marker is the operator's and stays.
UninstallSound == part = "service" => V!UninstallSound

\* However often requests are repeated and answers lost, and whether or not a new
\* binary took the run over, a command changes the server once at most; when it
\* says that it did, it did, and when it says "not found" or "not allowed", not.
ChangedOnce == part = "command" => C!ChangedOnce

\* A valid server and a valid token in cli.yml outlive every run that was not
\* killed and did not set up anew: a flag that is saved in the place of one takes
\* another along only if that has a flag or a variable of its own.  What the
\* wizard saves was tried and found good, unless an edit overtook the last test.
SavedKept == part = "command" => C!SavedKept

\* With the check on and the server's answer at hand, what a command sends it is
\* sent by a version that the server served at most cache.ttl ago; and whatever
\* the download and the moment a run is killed, the binary is a whole one.
GateHolds == part = "command" => C!GateHolds
=============================================================================
