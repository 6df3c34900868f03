------------------------------- MODULE Update -------------------------------
(***************************************************************************)
(* Updates of the server binary: the scheduled update_check                *)
(* (scheduler/update.go), the --update command (update.go), the choice of  *)
(* a release and its installation (updater/).  Both kinds of run read and  *)
(* write one state file; both download from URLs that for the rolling      *)
(* release daily name a new build as soon as it is published.  A build is  *)
(* known by its channel and the instant it was published.                  *)
(***************************************************************************)
EXTENDS Integers, FiniteSets, FiniteSetsExt

CONSTANTS
  Defer,      \* server.update.defer_days of this server, in instants
  MaxTime,    \* bound: the last instant
  MaxRuns     \* bound: checks that begin

VARIABLES
  today,      \* the clock
  releases,   \* what the release API lists
  branch,     \* the channel in server.yml
  serving,    \* the build and the channel the running server started with
  installed,  \* the build at the path of the binary
  known,      \* NotifiedKey of the state file; NoBuild when it has none
  run,        \* the check of each kind that is under way
  runs,       \* how many have begun
  told,       \* how often each build was announced
  past     \* "overlap", "lost", "early", "pending", "switched": what has ever happened

updateVars == <<today, releases, branch, serving, installed, known, run, runs, told, past>>

Channels == {"stable", "beta", "daily"}
NoBuild  == [channel |-> "none", at |-> 0]
Garbled  == [channel |-> "garbled", at |-> 0]   \* a download that is not whole
First    == [channel |-> "stable", at |-> 1]
Builds   == {First} \cup [channel : Channels, at : 2 .. MaxTime]
NoRun    == [pc |-> "idle", pick |-> NoBuild, seen |-> NoBuild, got |-> NoBuild]

Init ==
  /\ today = 1 /\ releases = {First}
  /\ branch \in Channels
  /\ serving = [build |-> First, branch |-> branch]
  /\ installed = First
  /\ known = NoBuild
  /\ run = [k \in {"task", "command"} |-> NoRun] /\ runs = 0
  /\ told = [b \in Builds |-> 0] /\ past = {}

-----------------------------------------------------------------------------
(***************************************************************************)
(* Select                                                                  *)
(***************************************************************************)
\* A build is made before it is published.
BuiltAt(b) == b.at - 1

\* Each channel also accepts what the more stable ones have.
Matches(b, channel) ==
  \/ b.channel = "stable"
  \/ b.channel = "beta" /\ channel \in {"beta", "daily"}
  \/ b.channel = "daily" /\ channel = "daily"

Latest == Max({b.at : b \in {c \in releases : c.channel = "stable"}})

\* fetchReleases: the newest stable one, or all.
Fetched(channel, defer) ==
  IF channel = "stable" /\ defer = 0
  THEN {b \in releases : b.channel = "stable" /\ b.at = Latest}
  ELSE releases

\* Fault: the window ends one instant early.
EligibleEarly(b, defer) == today - b.at >= defer - 1

Eligible(b, defer) == defer = 0 \/ today - b.at >= defer

\* Fault: the walk goes on past the running build.
PassedNever(list, current, b) == FALSE

\* The walk, newest first, has come to the running build before it is at b.
\* Of the daily builds only the time of build is known.
Passed(list, current, b) ==
  current \in list /\ current.channel # "daily" /\ current.at >= b.at

Candidates(list, current, channel, defer) ==
  {b \in list :
     /\ Matches(b, channel) /\ Eligible(b, defer)
     /\ b.channel = "daily" => b.at > BuiltAt(current)
     /\ ~(Matches(current, channel) /\ Passed(list, current, b))}

Select(current, channel, defer) ==
  LET c == Candidates(Fetched(channel, defer), current, channel, defer) IN
    IF c = {} THEN NoBuild ELSE CHOOSE b \in c : \A d \in c : d.at <= b.at

-----------------------------------------------------------------------------
(***************************************************************************)
(* The world                                                               *)
(***************************************************************************)
\* The rolling release replaces the one of the day before.
Publish ==
  /\ today < MaxTime /\ today' = today + 1
  /\ \E c \in Channels \cup {"none"} :
       releases' = IF c = "none" THEN releases
                   ELSE {b \in releases : c = "daily" => b.channel # "daily"}
                          \cup {[channel |-> c, at |-> today']}
  /\ UNCHANGED <<branch, serving, installed, known, run, runs, told, past>>

\* runUpdateBranch: the command saves server.yml; the server does not notice.
SwitchBranch(c) ==
  /\ c # branch /\ branch' = c
  /\ past' = past \cup {"switched"}
  /\ UNCHANGED <<today, releases, serving, installed, known, run, runs, told>>

-----------------------------------------------------------------------------
(***************************************************************************)
(* A check, by the task or by a command                                    *)
(***************************************************************************)
Others(k) == {j \in DOMAIN run : j # k}
Go(k, pc) == run' = [run EXCEPT ![k].pc = pc]
Stop(k)   == run' = [run EXCEPT ![k] = NoRun]

\* The command runs the binary there is, and disregards defer_days.
Current(k) == IF k = "task" THEN serving.build ELSE installed
Channel(k) == IF k = "task" THEN serving.branch ELSE branch
Window(k)  == IF k = "task" THEN Defer ELSE 0

Check(k) ==
  /\ run[k].pc = "idle" /\ runs < MaxRuns /\ runs' = runs + 1
  /\ run' = [run EXCEPT ![k].pc = "load",
                        ![k].pick = Select(Current(k), Channel(k), Window(k))]
  /\ past' = IF \E j \in Others(k) : run[j].pc # "idle"
                THEN past \cup {"overlap"} ELSE past
  /\ UNCHANGED <<today, releases, branch, serving, installed, known, told>>

\* LoadState; a file that cannot be read counts as none.
Load(k) ==
  /\ run[k].pc = "load"
  /\ \/ run' = [run EXCEPT ![k].pc = "note", ![k].seen = known] /\ UNCHANGED past
     \/ run' = [run EXCEPT ![k].pc = "note"] /\ past' = past \cup {"lost"}
  /\ UNCHANGED <<today, releases, branch, serving, installed, known, runs, told>>

\* Fault: the key that was announced is not kept.
KeepKey(k) == run[k].seen

\* What is written back as NotifiedKey.
KeyToKeep(k) == IF run[k].pick = NoBuild THEN run[k].seen ELSE run[k].pick

\* The task announces what the file does not name; the command prints it.
Note(k) ==
  /\ run[k].pc = "note"
  /\ LET new == run[k].pick # NoBuild /\ run[k].pick # run[k].seen IN
       told' = IF k = "task" /\ new THEN [told EXCEPT ![run[k].pick] = @ + 1] ELSE told
  /\ run' = [run EXCEPT ![k].pc = "save", ![k].seen = KeyToKeep(k)]
  /\ UNCHANGED <<today, releases, branch, serving, installed, known, runs, past>>

\* SaveState; when it fails the task ends, a command goes on.
Save(k) ==
  /\ run[k].pc = "save"
  /\ \/ /\ known' = run[k].seen
        /\ past' = IF run[k].pick = NoBuild \/ Eligible(run[k].pick, Defer) THEN past
                      ELSE past \cup {"early"}
        /\ IF run[k].pick = NoBuild THEN Stop(k) ELSE Go(k, "download")
     \/ /\ past' = past \cup {"lost"} /\ UNCHANGED known
        /\ IF run[k].pick = NoBuild \/ k = "task" THEN Stop(k) ELSE Go(k, "download")
  /\ UNCHANGED <<today, releases, branch, serving, installed, runs, told>>

\* auto_install is off, the command was check, or any later step failed.
GiveUp(k) ==
  /\ run[k].pc \in {"load", "download", "checksum", "restart"}
  /\ Stop(k)
  /\ past' = IF run[k].pc = "restart" THEN past \cup {"pending"} ELSE past
  /\ UNCHANGED <<today, releases, branch, serving, installed, known, runs, told>>

\* What the asset URLs of a release lead to by now.
Behind(b) ==
  IF b.channel = "daily" THEN {c \in releases : c.channel = "daily"} ELSE {b}

Download(k) ==
  /\ run[k].pc = "download"
  /\ \E got \in Behind(run[k].pick) \cup {Garbled} :
       run' = [run EXCEPT ![k].pc = "checksum", ![k].got = got]
  /\ UNCHANGED <<today, releases, branch, serving, installed, known, runs, told, past>>

\* Fault: what was downloaded is not compared with sha256.txt.
Unverified(k) == TRUE

\* fetchExpectedChecksum and verifyChecksum, after the download.
Verified(k) == run[k].got \in Behind(run[k].pick)

\* replaceBinary: one rename.
Replace(k) ==
  /\ run[k].pc = "checksum" /\ Verified(k)
  /\ installed' = run[k].got
  /\ Go(k, "restart")
  /\ UNCHANGED <<today, releases, branch, serving, known, runs, told, past>>

\* The server starts anew, for an update or not; its run of the task is over.
Restart ==
  /\ serving' = [build |-> installed, branch |-> branch]
  /\ run' = [run EXCEPT !["task"] = NoRun,
                        !["command"] = IF @.pc = "restart" THEN NoRun ELSE @]
  /\ past' = IF run["task"].pc = "save" THEN past \cup {"lost"} ELSE past
  /\ installed # Garbled
  /\ UNCHANGED <<today, releases, branch, installed, known, runs, told>>

Next ==
  \/ Publish \/ Restart \/ \E c \in Channels : SwitchBranch(c)
  \/ \E k \in {"task", "command"} :
       \/ Check(k) \/ Load(k) \/ Note(k) \/ Save(k) \/ GiveUp(k)
       \/ Download(k) \/ Replace(k)

Spec == Init /\ [][Next]_updateVars

-----------------------------------------------------------------------------
\* On one channel, stable or beta, and as long as no two checks overlap, no
\* state is lost and no command has put a build on record that the window of
\* the task still holds back, a release is announced once, however checks,
\* restarts and publications follow each other.
AnnouncedOnce ==
  past = {} /\ branch # "daily" => \A b \in Builds : told[b] <= 1

Ascends ==
  past \subseteq {"lost", "early"} /\ branch # "daily" => installed'.at >= installed.at

InstalledWithinWindow ==
  \A b \in Builds :
    /\ run["task"].pc = "checksum" /\ run["command"].pc # "checksum"
    /\ installed' = b /\ installed # b /\ b = run["task"].pick
    => today - b.at >= Defer

InstallsSoundly == installed' \in Builds /\ Ascends /\ InstalledWithinWindow

\* Downloads break off, and the rolling release changes between the binary and
\* its checksum: what is installed is all the same a build as published.  It is
\* no older than the one in whose place it comes, on one channel, stable or beta,
\* with no two checks at once and a restart after every installation; and what a
\* scheduled check installs has been public as long as its window demands,
\* unless the rolling release changed under its hands.
InstallationsSound == [][InstallsSoundly]_updateVars
=============================================================================
