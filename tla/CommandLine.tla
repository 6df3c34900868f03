---------------------------- MODULE CommandLine ----------------------------
(***************************************************************************)
(* shortner-cli as a command (client/cmd, client/config, client/api,       *)
(* client/setup): one run after another, each with its flags and its       *)
(* environment, over the cli.yml, the cached discovery document and the    *)
(* binary that they share.  A run may be killed between any two steps.     *)
(* Runs do not overlap.                                                    *)
(***************************************************************************)
EXTENDS Naturals, FiniteSets

CONSTANTS
  Addresses,    \* usable server addresses
  AtFirst,      \* those that cli.yml may hold at first
  Tokens,       \* usable tokens
  Retry,        \* server.retry: how often a GET is repeated
  TTL,          \* cache.ttl, in ticks
  MaxVersion,   \* bound: client versions that servers publish
  MaxTests,     \* bound: connection tests under way
  MaxGiven,     \* bound: values that flags and the environment of a run give
  MaxStarts     \* bound: runs, those that a new binary starts included

VARIABLES
  file,         \* cli.yml; NoFile when it is not there
  mode,         \* what its hand-edited part says of updates: never, warn or auto
  cached,       \* autodiscover.json
  age,          \* its age in ticks
  bin,          \* the version of the installed binary; Torn when half written
  offered,    \* what each server publishes
  p,            \* the run
  starts

commandVars == <<file, mode, cached, age, bin, offered, p, starts>>

Torn    == 0
Bad     == "bad"    \* what ValidateServerURL and ValidateToken refuse
Unset   == ""
Empty   == [server |-> Unset, token |-> Unset]
NoFile  == [server |-> "absent", token |-> "absent"]
NoDoc   == [server |-> Unset, missing |-> TRUE, min |-> 0, latest |-> 0]
Updates == {"check", "update"}   \* --update check, --update yes
\* A change is runShorten, runUpdateLink or runDelete; a read is any of the others.
Kinds   == {"change", "read", "setup", "ui"} \cup Updates

Usable(field) == IF field = "server" THEN Addresses ELSE Tokens
Fields == {"server", "token"}

\* No run: what the last one left is kept for a look at it.  Of its fields, env,
\* flags and cfg are Fields, kept holds what cli.yml has to hold at the end, gated
\* whether a document was at hand.  Of the wizard, tests are the addresses being
\* tried, late those of them that were sent before the last edit, good the one that
\* the last good result was of, overtaken whether the last result was a late one.
Resting ==
  [at |-> "none", kind |-> "ui", env |-> Empty, flags |-> Empty, cfg |-> Empty,
   doc |-> NoDoc, left |-> 0, got |-> 0, effects |-> 0, said |-> "nothing",
   gated |-> TRUE, tested |-> FALSE, tests |-> {}, late |-> {}, good |-> Unset,
   overtaken |-> FALSE, kept |-> Empty]

Init ==
  /\ file = NoFile \/ file \in [server : AtFirst, token : Tokens]
  /\ mode \in {"never", "warn", "auto"}
  /\ cached = NoDoc /\ age = 0
  /\ bin = 1
  /\ offered = [s \in Addresses |-> [min |-> 1, latest |-> 1]]
  /\ p = Resting
  /\ starts = 0

At(at) == p.at = at
Go(at) == p' = [p EXCEPT !.at = at]

\* The run ends; said is its exit code, in words.
Over(q, said) ==
  [Resting EXCEPT !.said = said, !.kind = q.kind, !.effects = q.effects, !.kept = q.kept]
End(said) == p' = Over(p, said)

-----------------------------------------------------------------------------
(***************************************************************************)
(* The configuration                                                       *)
(***************************************************************************)
\* ApplyEnv: what is set in the environment is taken, whatever it is.
ApplyEnv(cfg, env) == [f \in Fields |-> IF env[f] # Unset THEN env[f] ELSE cfg[f]]

\* Fault: a flag is saved whatever there is already.
SaveAlways(field, current, flag) == flag # Unset

\* SaveIfEmptyOrInvalid: whether a flag is to be saved, and what holds for now.
SaveIfEmptyOrInvalid(field, current, flag) ==
  flag \in Usable(field) /\ current \notin Usable(field)
ForNow(cfg, flags) ==
  [f \in Fields |-> IF flags[f] \in Usable(f) THEN flags[f] ELSE cfg[f]]

Values == [server : {Unset, Bad} \cup Addresses, token : {Unset, Bad} \cup Tokens]
Given(values) == Cardinality({f \in Fields : values[f] # Unset})

\* What a run may not change in cli.yml.
Kept(saved, env, flags) ==
  LET Fills(f) == flags[f] \in Usable(f) /\ ApplyEnv(saved, env)[f] \notin Usable(f)
      Alone(f) == env[f] = Unset /\ flags[f] \notin Usable(f)
      Safe(f)  == saved[f] \in Usable(f) /\ ((\E g \in Fields : Fills(g)) => Alone(f))
  IN [f \in Fields |-> IF Safe(f) THEN saved[f] ELSE Unset]

\* loadConfig, up to its last Save.
Start ==
  /\ At("none") /\ starts < MaxStarts /\ starts' = starts + 1
  /\ \E env, flags \in Values :
     Given(env) + Given(flags) <= MaxGiven /\ \E kind \in Kinds :
       LET saved  == IF file = NoFile THEN Empty ELSE file
           merged == ApplyEnv(saved, env)
           persist == \E f \in Fields : SaveIfEmptyOrInvalid(f, merged[f], flags[f])
       IN /\ p' = [Resting EXCEPT
                     !.at = IF persist THEN "save" ELSE "gate",
                     !.kind = kind, !.env = env, !.flags = flags,
                     !.cfg = ForNow(merged, flags),
                     !.kept = Kept(saved, env, flags)]
          /\ file' = saved
  /\ UNCHANGED <<mode, cached, age, bin, offered>>

\* Save: os.WriteFile empties the file and then writes it.
Truncate ==
  /\ p.at \in {"save", "saveSetup"}
  /\ file' = Empty
  /\ Go(IF At("save") THEN "write" ELSE "writeSetup")
  /\ UNCHANGED <<mode, cached, age, bin, offered, starts>>

Write ==
  /\ p.at \in {"write", "writeSetup"}
  /\ file' = p.cfg
  /\ IF At("write") THEN Go("gate")
     ELSE IF p.kind = "ui" THEN p' = [p EXCEPT !.at = "call", !.left = Retry]
     ELSE End("ok")
  /\ UNCHANGED <<mode, cached, age, bin, offered, starts>>

-----------------------------------------------------------------------------
(***************************************************************************)
(* The discovery document, the gate and the updater                        *)
(***************************************************************************)
Server == p.cfg.server
Usually == Server \in Addresses
Call(at) == p' = [p EXCEPT !.at = at, !.left = Retry]

\* Fault: a document is taken from the cache whoever published it.
HitAny == cached # NoDoc /\ age <= TTL

\* readAutodiscoverCache
Hit == cached # NoDoc /\ cached.server = Server /\ age <= TTL

\* After the gate: the command, or the wizard when there is no server.
Proceed(q) ==
  p' = [q EXCEPT !.at = CASE q.kind = "setup" -> "wizard"
                          [] q.kind = "ui" /\ ~Usually -> "wizard"
                          [] OTHER -> "call",
                 !.left = Retry, !.env = Empty, !.flags = Empty]

\* updateGate: whether this version may go on.
TooOld(v, doc) == ~doc.missing /\ v < doc.min

\* What a run does with the document.
Judge(doc) ==
  LET newer == ~doc.missing /\ bin < doc.latest IN
  IF p.kind \in Updates
  THEN IF newer /\ p.kind = "update" THEN p' = [p EXCEPT !.at = "download", !.doc = doc]
       ELSE End("ok")
  ELSE IF TooOld(bin, doc) THEN End("error")
  ELSE IF newer /\ mode = "auto" THEN p' = [p EXCEPT !.at = "download", !.doc = doc]
  ELSE Proceed([p EXCEPT !.doc = doc])

\* dispatch: "--update" asks the server whatever is cached.
Gate ==
  /\ At("gate")
  /\ CASE p.kind \in Updates /\ ~Usually -> End("config")
       [] p.kind \in Updates /\ Usually -> Call("discover")
       [] p.kind \notin Updates /\ (~Usually \/ mode = "never") -> Proceed([p EXCEPT !.gated = FALSE])
       [] p.kind \notin Updates /\ Usually /\ mode # "never" ->
            IF Hit THEN Judge(cached) ELSE Call("discover")
  /\ UNCHANGED <<file, mode, cached, age, bin, offered, starts>>

\* fetchAutodiscover
Discover ==
  /\ At("discover")
  /\ \E missing \in BOOLEAN :
       LET doc == [server |-> Server, missing |-> missing,
                   min |-> IF missing THEN 0 ELSE offered[Server].min,
                   latest |-> IF missing THEN 0 ELSE offered[Server].latest]
       IN cached' = doc /\ age' = 0 /\ Judge(doc)
  /\ UNCHANGED <<file, mode, bin, offered, starts>>

\* Not even after the retries: the gate lets the run pass.
DiscoverFails ==
  /\ At("discover")
  /\ IF p.left > 0 THEN p' = [p EXCEPT !.left = @ - 1]
     ELSE IF p.kind \in Updates THEN End("connection")
     ELSE Proceed([p EXCEPT !.gated = FALSE])
  /\ UNCHANGED <<file, mode, cached, age, bin, offered, starts>>

\* installUpdate failed: "--update" says so, the gate only warns.
NotInstalled == IF p.kind = "update" THEN End("error") ELSE Proceed(p)

\* Fault: what was downloaded is not compared with the document.
Unchecked(got) == TRUE

\* verifyChecksum
Matches(got) == got = p.doc.latest

\* DownloadCLIBinary: what the server publishes by now, or only a part of it.
Download ==
  /\ At("download")
  /\ \/ \E got \in {offered[Server].latest, Torn} :
          IF Matches(got) THEN p' = [p EXCEPT !.at = "stage", !.got = got] ELSE NotInstalled
     \/ NotInstalled
  /\ UNCHANGED <<file, mode, cached, age, bin, offered, starts>>

\* Fault: the download is copied over the binary.
CopiedOver == Torn

\* What the installed binary is while replaceBinary copies the download beside it.
CopiedBeside == bin

Stage ==
  /\ At("stage") /\ bin' = CopiedBeside
  /\ Go("rename")
  /\ UNCHANGED <<file, mode, cached, age, offered, starts>>

\* The rename, and the same command line again with the new binary.
Rename ==
  /\ At("rename") /\ bin' = p.got
  /\ starts' = starts + 1
  /\ LET merged == ApplyEnv(file, p.env) IN
     p' = [Resting EXCEPT !.at = "gate", !.kind = p.kind, !.env = p.env, !.flags = p.flags,
                          !.cfg = ForNow(merged, p.flags), !.kept = p.kept]
  /\ UNCHANGED <<file, mode, cached, age, offered>>

-----------------------------------------------------------------------------
(***************************************************************************)
(* The command and its request                                             *)
(***************************************************************************)
\* The method of each request of client/api, and what each command ends with, in
\* words, when it ends without a request: no short code or nothing to do is a usage
\* error, a pipe that cannot be read is an error, "no" to the question is none.
CreateLink == "POST"
UpdateLink == "PATCH"
DeleteLink == "DELETE"
GetLink == "GET"
ListLinks == "GET"
readStdin == {"usage", "unread"}
selectSlug == {"usage"}
confirmed == {"aborted"}

runShorten    == [kind |-> "change", method |-> CreateLink, declines |-> readStdin]
runUpdateLink == [kind |-> "change", method |-> UpdateLink, declines |-> selectSlug]
runDelete     == [kind |-> "change", method |-> DeleteLink, declines |-> selectSlug \cup confirmed]
runGet        == [kind |-> "read", method |-> GetLink, declines |-> selectSlug]
runStats      == [kind |-> "read", method |-> "GET", declines |-> selectSlug]
runList       == [kind |-> "read", method |-> ListLinks, declines |-> {}]
runHealth     == [kind |-> "read", method |-> "GET", declines |-> {}]
Commands == {runShorten, runUpdateLink, runDelete, runGet, runStats, runList, runHealth}
Changing == {c.kind : c \in {d \in Commands : d.method # "GET"}}

\* Fault: every request is repeated.
RetriesAll == p.left > 0

\* do: only a GET is repeated.
Retries == p.left > 0 /\ p.kind \notin Changing

Decline ==
  /\ At("call") /\ Usually /\ p.left = Retry
  /\ \E c \in Commands : \E said \in c.declines : c.kind = p.kind /\ End(said)
  /\ UNCHANGED <<file, mode, cached, age, bin, offered, starts>>

\* The server does what it is asked, or refuses; the answer arrives or does not.
Request ==
  /\ At("call") /\ Usually
  /\ \E done, arrives \in BOOLEAN :
       LET q == [p EXCEPT !.effects = @ + IF done /\ p.kind = "change" THEN 1 ELSE 0] IN
       IF arrives
       THEN \E said \in IF done THEN {"ok", "error"} ELSE {"notfound", "auth", "error"} :
              p' = Over(q, said)
       ELSE IF Retries THEN p' = [q EXCEPT !.left = @ - 1]
       ELSE p' = Over(q, "connection")
  /\ UNCHANGED <<file, mode, cached, age, bin, offered, starts>>

\* requireServer
NoServer ==
  /\ At("call") /\ ~Usually /\ End("config")
  /\ UNCHANGED <<file, mode, cached, age, bin, offered, starts>>

-----------------------------------------------------------------------------
(***************************************************************************)
(* The wizard: p.cfg is what its two inputs hold                           *)
(***************************************************************************)
Wizard == At("wizard") /\ UNCHANGED <<file, mode, cached, age, bin, offered, starts>>

\* Fault: an edit leaves the result of a test standing.
TestedStill == p.tested

\* Editing any field invalidates the previous test result.
TestedAfterEdit == FALSE

\* Of the two inputs, the token is edited in the same way.
Edit ==
  /\ Wizard
  /\ \E v \in {Unset, Bad} \cup Addresses :
       p' = [p EXCEPT !.cfg.server = v, !.tested = TestedAfterEdit, !.late = p.tests]

\* Enter with something untested, or ctrl+t.
Test ==
  /\ Wizard /\ Cardinality(p.tests) < MaxTests
  /\ p' = [p EXCEPT !.tests = @ \cup {Server}]

\* testResultMsg: the message does not say which address was tried, so whatever the
\* inputs hold by now counts as tested.
Result(tried, ok) ==
  /\ Wizard /\ tried \in p.tests /\ (ok => tried \in Addresses)
  /\ p' = [p EXCEPT !.tests = @ \ {tried}, !.late = @ \ {tried}, !.tested = ok,
                    !.good = IF ok THEN tried ELSE @, !.overtaken = tried \in p.late]

Confirm ==
  /\ Wizard /\ Server # Unset /\ p.tested
  /\ p' = [p EXCEPT !.at = "saveSetup", !.tests = {}, !.late = {}, !.kept = Empty]

Cancel == Wizard /\ End("config")

-----------------------------------------------------------------------------
\* The run is killed.
Kill ==
  /\ ~At("none") /\ End("killed")
  /\ UNCHANGED <<file, mode, cached, age, bin, offered, starts>>

Tick ==
  /\ At("none") /\ cached # NoDoc /\ age <= TTL /\ age' = age + 1
  /\ UNCHANGED <<file, mode, cached, bin, offered, p, starts>>

\* A server is upgraded: between two runs, or between document and download, as no
\* other step of a run looks at what is offered by then.  Bound: it is the same server.
Publish(s) ==
  /\ p.at \in {"none", "download"}
  /\ offered[s].latest < MaxVersion /\ \A r \in Addresses \ {s} : offered[r].latest = 1
  /\ \E min \in offered[s].min .. offered[s].latest + 1 :
       offered' = [offered EXCEPT ![s] = [min |-> min, latest |-> @.latest + 1]]
  /\ UNCHANGED <<file, mode, cached, age, bin, p, starts>>

Next ==
  \/ Start \/ Truncate \/ Write \/ Gate \/ Discover \/ DiscoverFails \/ Download \/ Stage
  \/ Rename \/ Decline \/ Request \/ NoServer \/ Edit \/ Test
  \/ \E tried \in p.tests, ok \in BOOLEAN : Result(tried, ok)
  \/ Confirm \/ Cancel \/ Kill \/ Tick
  \/ \E s \in Addresses : Publish(s)

Spec == Init /\ [][Next]_commandVars

-----------------------------------------------------------------------------
Ended == At("none")

\* However often requests are repeated and answers lost, and whether or not a new
\* binary took the run over, a command changes the server once at most; when it
\* says that it did, it did, and when it says "not found" or "not allowed", not.
ChangedOnce ==
  /\ p.effects <= 1
  /\ Ended /\ p.kind = "change" =>
       /\ p.said = "ok" => p.effects = 1
       /\ p.said \in {"notfound", "auth", "config", "usage", "unread", "aborted"} => p.effects = 0

\* A valid server and a valid token in cli.yml outlive every run that was not
\* killed and did not set up anew: a flag that is saved in the place of one takes
\* another along only if that has a flag or a variable of its own.  What the
\* wizard saves was tried and found good, unless an edit overtook the last test.
SavedKept ==
  /\ Ended /\ p.said \notin {"nothing", "killed"} /\ p.kind \notin {"setup", "ui"} =>
       \A f \in Fields : p.kept[f] # Unset => file[f] = p.kept[f]
  /\ p.at \in {"saveSetup", "writeSetup"} => p.overtaken \/ Server = p.good

\* With the check on and the server's answer at hand, what a command sends it is
\* sent by a version that the server served at most cache.ttl ago; and whatever
\* the download and the moment a run is killed, the binary is a whole one.
GateHolds ==
  /\ bin \in 1 .. MaxVersion
  /\ At("call") /\ p.gated => p.doc.server = Server /\ ~TooOld(bin, p.doc)
=============================================================================
