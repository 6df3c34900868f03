# Verification of shortner

TLA+ specifications of shortner, the self-hosted URL shortener in this
repository, with the TLC configurations that check them on small instances and
TLAPS proofs of what matters most. Every definition is a translation of Go code
under `src/`; `PROJECT.json` names for each the lines it stands for, and for each
checked property at least one plausible bug (a definition commented `Fault:`) that
breaks it.

Inside this directory:

    tlc -workers 2 -config LinksSafety.cfg MCLinks.tla
    tlapm LinksProofs.tla

## 1. Inventory

shortner is one Go binary. Run without arguments it is a server: an HTTP server
over one SQLite database, a task scheduler, optional Tor and I2P front ends.
Run with options it is a command that works on the same files. A second binary,
`shortner-cli`, is a client of the HTTP API, with a terminal interface.

| component | state | operations | interacts with | module |
|---|---|---|---|---|
| link store `db/link.go`, `db/click.go`, `db/token.go` | tables `links`, `clicks`, `api_tokens` | create, look up, update, delete, record a click, issue and look up a token | the handlers, one statement or transaction at a time | `Links`, `LinkRegistry` |
| link handlers `httpserver/links.go`, `frontend.go` | locals of each request | POST, PATCH, DELETE, GET /{slug}, stats, the home form | link store | `Links` |
| scheduler `scheduler/`, `db/scheduler.go` | task definitions and gocron jobs in memory, `scheduler_tasks` and `scheduler_history` | Register, Start (with catch-up), fire, run, record, Stop; `--scheduler run/enable/disable` | runs the tasks of all others | `Scheduler` |
| process life cycle `main.go`, `signal/`, `common/pidfile` | PID file; main and signal goroutine | start, refuse, serve, shut down, kill, re-execute | everything that has a shutdown hook | `Lifecycle` |
| backup `backup/`, `scheduler/backup.go`, `backup_cli.go` | archives in a directory | create, verify, plan and apply retention | scheduler, commands | `Retention`, `Backup` |
| restore `backup/restore.go` | the live files, the write-ahead log | verify, stage, place one file after the other | the server that has the database open | `Restore` |
| updates `scheduler/update.go`, `updater/`, `update.go` | state file, the binary, the channel | check, announce, download, verify, replace | scheduler, notifier, life cycle | `Update` |
| overlay managers `tor/`, `i2p/`, `scheduler/overlay.go` | the provider or nil, a monitor goroutine, the key on disk | Start, Restart, Close, health task; regenerate, import, vanity | life cycle, scheduler, HTTP server | `Overlay` |
| limits `httpserver/ratelimit.go`, `ipblock.go`, `stats.go` | windows, blocks, counts of each address; ring of minutes | admit, record, block, release, sweep | every request | `Gateway` |
| middleware and pages `httpserver/` | none on the server; the cookie of a browser | normalize, redirect, refuse, render, submit | browsers | `Pages` |
| client addresses and countries `urlvars.go`, `overlay.go`, `geoip/` | trusted peers; databases on disk and in use | resolve, download, reload, look up | middleware, scheduler | `Origin` |
| contact and reports `httpserver/frontend.go`, `securityreport.go`, `reports.go` | table `security_reports`, a counter per browser | publish a link, form, store, notify, audit | database, notifier, audit log | `Reports` |
| PGP keys `pgp/`, `pgp_cli.go`, `db/pgpkey.go` | key files, rows, publication and export state | generate, rotate, publish, import, export, delete | server hands out the public half | `Keys` |
| configuration `config/`, `main.go`, `notifications.go` | `server.yml`, the copy of each process | load, repair, make secrets, lay over, save | every process and command | `Settings` |
| notifier `notify/`, `scheduler/notify.go` | settings, templates, the mail server | raise, suppress, render, send | scheduler, updates, backup | `Mail` |
| service commands `service/`, `service.go` | what the init system has, directories, account and its marker | install, disable, uninstall | the running server | `Service` |
| client `client/` | `cli.yml`, cached discovery document, its binary | commands, retries, version gate, self-update, setup | HTTP API | `CommandLine` |
| terminal interface `client/tui` | the Bubble Tea model, requests under way | keys, answers | HTTP API | `Terminal` |
| the rest | none that lasts, or a library's | logs, certificates, metrics, i18n, paths, cache | | section 8 |

What is hard here. Handlers of different requests interleave between database
statements, and what a handler read may be stale when it writes. Runs of one
scheduled task overlap each other and commands in other processes, and record in any
order. Two goroutines race to end the process. Commands, tasks and the server share
files (the PID file, archives, `server.yml`, the update state, keys) without a lock,
and may be killed between any two steps. Five goroutines share one overlay
provider. Three locks guard one decision on an address. Mail, downloads and answers
get lost, and retries follow. `PROJECT.json` lists the hazards with their lines and the properties about them.

What makes each component correct:

- links: a slug names one link at a time; counter and click rows agree; only the
  operator or the token of a link changes that link, at the moment of the write;
  every request ends.
- scheduler: a row is the summary of its history; what was missed is run, once.
- life cycle: one server owns the PID file, no file is left after a clean end, a
  signalled process ends.
- backup and restore: no sweep costs the last good archive; no bad archive stays
  unjudged; what is accepted is a snapshot; what is restored is what was archived.
- updates: one announcement of a release; a whole, verified build is installed, no
  older than before, no earlier than the window allows.
- overlays: no provider is lost sight of or left behind; the published address is
  that of the key; a lost provider comes back.
- limits, pages, origins: floods are blocked, windows hold, forms of the browser are
  accepted and foreign ones stopped, redirects end, a request counts under its own
  address and its country decides.
- reports, keys, settings, mail, service: nobody is told "received" without a
  row; what was sealed can be opened; a choice stays chosen; a failure is told once;
  an uninstall leaves nothing of its own and everything of the operator's.
- client: a command acts once; valid settings outlive a run; a client too old does
  nothing; the list is the server's; what is deleted is what was asked about.

## 2. Plan

Modules in the order of what matters most to the people who use the program.

| step | modules | state |
|---|---|---|
| 1 | `LinkRegistry`, `Links`, `MCLinks`, `LinksProofs` | checked; safety and the refinement proved |
| 2 | `Scheduler`, `MCScheduler`, `SchedulerProofs` | checked; safety proved |
| 3 | `Lifecycle`, `LifecycleProofs` | checked; safety proved |
| 4 | `Retention`, `Backup`, `MCBackup`, `BackupProofs` | checked and proved |
| 5 | `Restore`, `Update`, `Overlay`, `Keys`, `Settings`, `Mail`, `Service`, `CommandLine`; their product `MCMaintenance`; `KeysProofs`, `CommandLineProofs`, `MaintenanceProofs` | checked; safety proved |
| 6 | `Gateway`, `Pages`, `Origin`, `Reports`, `Terminal`, with `Selection` and `Sums`; their product `MCWeb`; liveness in `MCProgress`; `WebProofs` | checked; safety proved |
| 7 | liveness of `Links`, `Scheduler`, `Lifecycle`, `Overlay` and `Terminal` | checked; out of the prover's reach |

`Scheduler` and `Lifecycle` meet in the predicate `Alone` of `Scheduler`, which is
what `Lifecycle` establishes (`PidFileNamesServer`): a server and a command
exclude each other outside a container. `Backup` takes from `Scheduler` that runs
of one task, and commands, overlap: its processes begin whenever they like; so do
the checks of `Update` and the runs of `Mail`. `Restore` looks into the archives
that `Backup` only calls good or bad. `Overlay` takes from `Lifecycle` the order of
the shutdown hooks, `Update` that an installation is followed by a re-execution.

## 3. Modules and code

### Links (`db/link.go`, `db/click.go`, `db/token.go`, `httpserver/links.go`)

| state | code |
|---|---|
| `links`, `clicks`, `tokens` | the three tables; rows keep the columns some statement reads |
| `lastLink`, `lastClick`, `lastToken` | their AUTOINCREMENT counters |
| `now` | the clock that decides expiry |
| `req` | for every handler goroutine: the request, the next statement (`pc`), the row it has read, the answer |

SQLite has one writer at a time and a statement sees one state of the database, so
one statement, or one transaction, is one step, and handlers interleave between
steps. POST is `InsertLink` or `CreateLinkAutoCode` (again for every code drawn),
`ReadBackLink`, `CreateResourceToken`, `ReadBackToken`; PATCH is look up,
authorize, update, `RereadLink`; DELETE, GET and statistics likewise. Every
statement may fail (timeout, cancelled client, busy database), which answers 500
and leaves what was committed; `Crash` ends all handlers. Slugs, URLs and
tokens are model values; the credential of a request is nobody, the operator or a
token that was issued. What is not in the model: validation of what is typed,
rate limits (`Gateway`), and hashing (two tokens are equal or not).

`LinkRegistry` is the abstract specification: a slug is free or has one entry
with a destination, an end and a number of visits. `RefinesRegistry` says that
tables and handlers implement it, with `EntryOf(slug)` as the mapping.

### Scheduler (`scheduler/scheduler.go`, `db/scheduler.go`, `scheduler_cli.go`)

`defs` and `jobs` are the memory of the server (task definitions, and when gocron
fires each job next), `rows` and `history` the tables `scheduler_tasks` and
`scheduler_history`, `config` the configuration of the next process. A run lives
in a lane: those gocron starts, the goroutine of the catch-up, and the process of
a command. It reads whether the task is enabled (`LookupTask`), works (`Finish`),
asks gocron for the next instant (`AskNextRun`) and records row and history in one
transaction (`RecordSchedulerRun`), or fails to (`RunNotRecorded`). `Register` is
the upsert for each task, `Start` the catch-up, `Stop` and `Exit` the end, with or
without warning. Instants are numbers; a schedule is a period, on multiples (cron)
or relative (`@every`).

### Lifecycle (`main.go`, `signal/`, `common/pidfile`, `updater/restart.go`)

A process has a main goroutine (`main[p]`) and, once signalled, a signal goroutine
(`hook[p]`, the number of the shutdown hook it runs). The PID file is read, judged,
perhaps removed, truncated and written in steps of their own; `open` tells who
still writes to the file the path names, as a removed file can be written to
without having a name. ListenAndServe returns after the first hook, the deferred
RemovePIDFile runs, `os.Exit` ends everything: `ServeReturns`, `Unlink`, `Exit`.
`Reexec` is the `syscall.Exec` of an installed update. `Kill` may come at any time.

### Retention, Backup (`backup/`, `scheduler/backup.go`, `backup_cli.go`)

`Retention` defines what `Plan` and `applySizeCap` remove of a set of archives.
The loops of the code go through a list sorted by date and name and fill the slots
of a tier newest first; here an archive gets a slot if fewer than that many
candidates are younger (`Filled`). `Backup` has the directory as a set of archives
and a program counter for every process: `Begin` (daily, hourly or manual),
`Prepare` (the name is fixed, space and sources are checked), `Place` (temporary
file, then rename), `Verified` or `Rejected` and `Undo`, `Sweep` (List and Plan) and
`Prune` (one removal by name at a time, oldest first). Writing, verifying,
sweeping and removing may fail, and `Crash` may come at any step. An archive is
`good` when Verify would accept it. `policy` is what `server.yml` has: the tasks sweep
with what `Validate` makes of it (`TaskPolicy`: at least one slot), but `--maintenance
backup` comes before `Validate` and sweeps with it as it is (`ApplyRetention`). Two archives have the same name when they are
of the same kind and day (full), second (manual), or kind (incremental).
Not modelled: archives with names chosen by the operator, switching encryption
(which gives new archives another suffix), the audit log.

### Restore (`backup/restore.go`, `backup/backup.go`, `db/db.go`)

A file is a version. `live` is what each path names, `wal` the write-ahead log with
the database it belongs to, `served` the database the server has open. A backup
hashes every source (`HashSource`), decides what an incremental carries
(`Manifest`), copies (`CopySource`), places and verifies; a restore verifies, reads
the archive again (`Stage`) and renames one file after the other (`Place`), each of
which may fail. `Commit`, `Checkpoint` and `Edit` come between any two. The history
variables `disturbed` and `restored` say whether anybody else wrote, and which full
archive all live files are from.

### Update (`scheduler/update.go`, `updater/`, `update.go`)

A build is known by channel and instant of publication. `Fetched`, `Eligible` and
the choice among them are the code's `Select` and its window (`defer_days`); a build
is made one instant before it is published, which is what the running server
compares. The task and the command each have a `run` of load, note, save, download,
checksum and `Replace`; `GiveUp` is any error or kill. The rolling release daily
changes under the same URL, so that a download can be another build or `Garbled`.
`past` records what a property leaves out (overlapping checks, a lost record, ...).

### Overlay (`tor/`, `i2p/`, `overlay.go`, `scheduler/overlay.go`, `tor_cli.go`, `i2p_cli.go`)

One manager, for Tor with its process, or I2P with its daemon or a SAM session.
`mutex` is the mutex of the manager, held while a provider boots; the starting
goroutine, the monitor and the task are `Starters`, and the hook clears the published
host, cancels and closes. A process that is told to end is not waited for: it is out of
`alive`, which the manager could know, and in `leaving` until it is gone (`Leaves`), which
may be never. `at` and `saw` are where each is and what it has read.
`key` is the key on disk, with its provider and whether a file has its address.
Commands look whether the server runs and then change the key (`CommandAsks`, ...):
regenerate, import, and the vanity search that may be killed half-way. What they look at
is the PID file, which a server in a container does not write and which counts as
stopped when it cannot be read: beside a running server `CheckPIDFile` is either.
`faults` records what the properties leave out: a command `"beside"` a running server, a
second provider by a restart that `Start` follows (`"overtaken"`), a router of another
kind (`"replaced"`).

### Gateway (`ipblock.go`, `ratelimit.go`, `stats.go`)

The one address that is not allowlisted, with its block, its count in the flood
detector and its windows; time is in ticks, of which a minute has `Minute`. A request passes the block list (`Arrive`), the detector
(`Record`), the block it may have earned (`Block`), the limiter (`Limit`) and the
statistics (`Serve`), each step under another lock; `Release` is the scheduler's. What
other addresses send matters where it begins a window of the detector, in which every
count is new, or sweeps windows that have run out: `RecordOther` and `LimitOther`.
The ring of the statistics has `Buckets` minutes, 1440 in the code.
`admitted` and `answered` are histories. Sums over them (`Total`, `Within` of `Sums`)
are recursive functions, as is the selection from a sequence (`Among` of `Selection`,
for the loops of `Pages` and `Terminal` that keep what fits): a proof can look into these.

### Pages (`middleware.go`, `secfetch.go`, `overlay.go`, `pagedata.go`, `frontend.go`)

A path is the sequence of segments between its slashes, after its escapes were resolved.
Three `Strange` segments stand for the characters that mean something else when the path is
sent again: a question mark, an escape that was itself escaped, and a backslash. The chain of
the middleware is one function (`Answer`) in the order in which it is installed: preflight,
normal form, path security, fetch metadata, CSRF. The target of a redirect is the
normal form as `http.Redirect` sends it (`Location`) and as a client reads that and asks for it
again (`Asked`). A path whose escapes had to be kept (`RawPath`) is normalized like any other, but
the router goes by what was sent; what it finds there is not in the model. Nor is a lone
percent sign: the request that follows such a redirect is no request. A browser with several tabs shares
one cookie jar: a page is asked for (`Open`), answered with a cookie (`Render`),
stored and shown (`Show`), sent (`Submit`), in any order between tabs. `HowAsked` tells pages
that were asked for without the cookie (`"bare"`), with it and nothing under way that could
replace it (`"settled"`), and with it while another page was (`"crossing"`). `Stray` is
any other request, from any site, tool or overlay.

### Origin (`urlvars.go`, `overlay.go`, `geoip/`, `scheduler/tasks.go`)

The databases on disk and in use as issues; two downloads at a time (the start's and
the task's), each file fetched, checked by opening it, renamed and reloaded; and the
functions that tell the address (`ResolveClientIP`), the name (`GetURLVars`) and the
verdict (`IsBlocked`) of a request, over all requests of a small set of peers,
headers, names and listeners: the names are the server's own, its overlay address, and
the overlay address of somebody else; the address may be published or not yet.

### Reports (`frontend.go`, `securityreport.go`, `securitynotify.go`, `reports.go`)

A visitor follows the link that `security.txt` publishes or opens the form, fills in a sheet
and sends; the server validates, stores a row, writes to maintainer and researcher,
audits and answers, one step each, and may die between any two (`Dies`). A day is a tick;
a link is good for the two days of its code and the next two. Browser reports are
counted for each address in a minute.

### Keys (`pgp/`, `pgp_cli.go`, `db/pgpkey.go`)

The files of the pair, the retired private half, the grace period, the ledger of
keyservers, the rows, and the record of exports. Every subcommand is a sequence of file
renames and writes, then of records, then of publications; any step fails or is the
last (`Stop`), and two operators may run them at once. `mishaps` records what the
code has no answer to, which the properties name.

### Settings (`config/`, `main.go`, `notifications.go`, `update.go`)

`server.yml` as the few fields that are treated differently: a number (one of the
forty-odd settings with a range, of those in `Followed`: which one is chosen when the
behaviour writes it), a
mail host, the secrets, the channel, and what a flag gives for one run. A start loads, repairs,
makes secrets, saves, overlays, looks for a mail server and saves again; the
operator and commands edit between any two steps.

### Mail (`scheduler/notify.go`, `scheduler/backup.go`, `notify/`)

What each task raises on each way it may end, read off the code of the task; the
general event and who suppresses it; switch, template and delivery of each event. The
mail server refuses, stalls or comes and goes, and templates change, at any moment.

### Service (`service.go`, `service/`)

A verb is a sequence of steps that each init system implements by adding or removing
`file`, `log`, `enabled`, `running`. Uninstall stops, disables, removes, looks for the
marker, deletes the directories and then the account. Any step may fail, the command may
die, and the server and the operator go on.

### CommandLine (`client/cmd`, `client/config`, `client/api`, `client/setup`)

One run after another over `cli.yml`, the cached document and the binary. A run
lays flags and environment over the file, saves what is to be saved (`Truncate`, `Write`:
two steps), asks the version gate, and sends; a request may be lost before or after
the server acted, and only reads are repeated. `Stage` and `Rename` replace the
binary, which takes the run over. `Kill` may come at any time. The wizard is `Edit`, `Test`,
`Result` and `Confirm`; a result does not say which address it is of, so tests that were
sent before the last edit are kept apart (`late`), and `overtaken` says that the last result
was of one of these.

### Terminal (`client/tui/app.go`)

The fields of the Bubble Tea model, one action per key or answer, and the requests
under way (`wires`), which the server serves and which answer in any order.

### Products

`MCMaintenance`, `MCWeb` and `MCProgress` put components that share no state side by
side: `part` says which one a behaviour is about, and the variables of the others
stay 0. This is a disjoint union: every behaviour of every component is there, and an
invariant of a component, written over its variables, is checked in exactly its own behaviours
(`part = "..." => ...`). One run thus asks one question (what keeps an installation
running, what happens between server and clients) of several components.

## 4. Runs

Model values and strings stand for data that is only compared.

| run | bounds | shows |
|---|---|---|
| `LinksSafety` | 2 requests, 1 slug, 2 URLs, 2 links ever, 2 clicks ever, statistics of 1 row | an answered create has a token and no link two; counters, rows and statistics agree; writes are authorized when they happen; `RefinesRegistry` |
| `LinksLiveness` | 2 requests, codes from a set of one, 2 attempts, expiry, bots, reserved slug | every request ends, also when codes collide |
| `SchedulerHistory` | 1 task, 1 lane of gocron + catch-up + commands, 2 recorded runs, time 0..3, in a container, reads may fail | a row is the summary of its history |
| `SchedulerCatchUp` | 1 task, 2 lanes, window 2, time 0..4, 2 recorded runs | what was missed is executed once, except after an older run recorded late |
| `LifecycleTwoProcesses` | 2 pids, every kind of process, automatic installation on | the PID file after clean ends and between orderly operations; a shutdown ends |
| `BackupSweeps` | 2 processes, 3 jobs ever, 3 instants in 2 days (the second a Sunday and the first of a month), 4 policies, of which one has no slot | stale and overlapping sweeps leave a good archive, but those of a command without a slot; a bad archive is attended to; a second sweep removes nothing |
| `MaintenanceSafety` | `Restore` 2 edits, 4 jobs; `Update` window 1, time 1..3, 2 checks; `Overlay` 2 keys, 2 ids; `Keys` 2 operators, 3 keys, 3 commands, 2 hours; `Settings` 8 settings, 2 booting processes, 2 starts, 2 edits, 2 secrets; `Mail` 1 lane, 1 run, 1 turn; `Service` 4 verbs; `CommandLine` 2 servers, 1 token, 2 versions, 2 runs | what restores put back, what the updater installs and announces, which providers are left, which keys and records remain, what `server.yml` holds, who is told of a failure, what an uninstall leaves, what a client run changes and saves |
| `WebSafety` | `Gateway` 5 requests, 2 at a time, time 0..4 in half minutes, a ring of 2 minutes; `Pages` 2 tabs, 4 tokens, paths of 3 segments; `Origin` 2 issues, 2 starts; `Reports` 2 visitors, 4 days, 2 requests; `Terminal` 4 slugs, pages of 2, 2 requests under way | what limits let through, which forms and paths are accepted, where a request counts, what becomes of reports, what the terminal shows |
| `ProgressMade` | `Overlay` 2 keys, 2 ids, no commands; `Terminal` 2 slugs, pages of 1 | a lost provider comes back; what is loading arrives |
| `LifecycleRestartNotRefused`, `RestoreLosesWrites`, `BackupFailureUntold` | 1 pid; 3 edits, 2 jobs; 1 lane | violated: see section 7 |

Why the bounds are enough. Interference in this code is between two parties: two
handlers at one slug, two runs of one task, two processes at one file, two tabs at one
cookie, two answers on their way to one screen, two operators at one key. A third
adds no statement that the second one cannot run, and what happened before is in
the state: two links ever give a slug that changes hands, two clicks and a
statistics limit of one give both sides of the limit, a second gocron lane lets
an older run be recorded after a younger one, a window of two with four instants
gives a run missed by less than, exactly and more than the window. Three jobs of
`Backup` are a good archive and two that interfere with it and each other; four of
`Restore` a full and an incremental archive and the restore of each. Three keys
are one handed out, its successor, and one that arrives while the grace period of the
first runs. Five instants are two windows of a minute, one that is longer than the
sweep's, and a ring of two minutes whose first bucket is used again. Three segments have every pair of neighbours that the normal form treats
differently and one before or after it. Four days are two codes of a security link.
Two versions are a client that is too old and one that is not. One lane and one
run of `Mail` suffice as nothing is shared between runs but settings that may change
at any moment. Where no bound is wanted there is a proof (section 6).

The eight settings of `Settings` are one for each way the code treats a number: text or
not, with and without an upper limit, replaced at the start or whenever it is used,
zero legal or not. `Keys` and `Settings` do not follow a behaviour any further once
commands have clashed or a save has raced: their properties do not speak of it.

Symmetry is used for requests and URLs (`Links`) and for processes (`Backup`), in
runs without liveness only.
`CHECK_DEADLOCK FALSE` stands where a bound ends what happens: when the jobs, commands,
requests or runs of the bound are used up nobody has to begin another. `Links`,
`Scheduler` and `Lifecycle` are checked for deadlock.

## 5. Fairness

- `Links`: weak fairness of `Handle(r)`, the next statement of a request that has
  arrived. A goroutine runs, and every database call has a deadline, so it returns.
  Nothing makes a request arrive.
- `Scheduler`: a booting process goes on (`Register`, `Start`), gocron fires a job
  that is due (`Fire`), a run goes on (`Step`). `Tick` does not pass an instant at
  which a job has still to fire: timers are taken to be punctual. Nobody has to
  start a server or run a command.
- `Lifecycle`: the main goroutine, the signal goroutine and `os.Exit` go on. A hook
  returns in bounded time: Shutdown has a context of 30 seconds, gocron gives its jobs a
  limited time, the hook of the overlays waits for a boot that its own cancellation ends, and the mail
  hook dials with a timeout. Two waits have no bound, and the fairness assumes that they end: the dialogue
  with a mail server after the dial, and that with a SAM bridge. A re-execution counts as an end.
  Nobody has to signal.
- `Overlay`: the scheduler comes to the health task again and again, which looks and,
  if need be, asks for a restart (weak fairness of both); a boot ends (weak), as that of a
  process has a timeout and a SAM bridge is assumed to answer; who waits for the mutex gets it in the end, as a mutex of Go does
  not starve a waiter, though it is not free all the time (strong fairness). Nothing makes a
  provider work.
- `Terminal`: a request under way is served or fails, as it has a deadline, and Bubble
  Tea comes to every message (weak fairness, for each request). Nobody has to press a key.
- the other modules state no fairness: their properties are safety.

## 6. Proofs

TLC checks the small instances of section 4; the proofs hold for every value of the
constants. Every safety property that a run checks is a theorem, and so is the
refinement. Each proof has the same shape: an inductive invariant that holds
initially, that every action preserves (one lemma for each action or for actions that
change the same variables), and that implies the property; properties of steps follow
from it in the state in which the step is taken. The properties were
checked by TLC first. What an invariant adds to its property, and why, is told below.

### Assumptions

The assumptions on constants stand in the modules that declare them and are evaluated
by every run: numbers are numbers, bounds that must be there are positive
(`MaxVersion`, `MaxEdits`, `Threshold`, `PageSize`, `Minute`, `Buckets`), sentinels are
none of the values they stand beside, the settings that are followed are in the tables
of the code. Nothing is assumed of how many actors, keys, links or instants there are. A
theorem has one further hypothesis: `FloodersAreBlocked` needs `BlocksLong`, that
`block_duration` is longer than the minute of the detector and a tick. The configuration
only checks that it parses (the default is an hour); with a shorter one the block of a
flooder ends before its count does, and nothing blocks it a second time.

### Links

`LinksProofs` proves of `Links` `InvariantHolds`, and from it `TypeCorrect`,
`ClickCountsCorrect`, `OwnershipUnique`, `CreatedLinkOwned` (together `OwnersCorrect`,
the run's `OwnersSettled`), `StatsConsistent` (with the counters `StatisticsCorrect`,
the run's `StatisticsAgree`) and `EditsAuthorized`.

The inductive invariant `IInv` adds to the properties what a handler between two
statements relies on. `IdsIssued`: every id in a table or a request was issued, so
that the next AUTOINCREMENT value is new to both. `HandlersHoldRow`: a handler past
its lookup has a row and an id. `TokenToBeIssued`: between the two insertions of a
create no token of that link exists, so that the one to come is the only one.
`TokenIssued`: after it, it exists as long as the link. `AuthorizationHolds`: whoever
has passed the authorization still holds a token of that very id, or the link is gone.
It holds because ids are not used again; `EditsAuthorized`, a property of steps,
follows from it in every state in which a write is due. `SeenCountHolds`: the total
that statistics have read is never more than the counter.

`RegistryImplemented` is the refinement: the empty tables are an empty registry, and
every statement of every handler, failures and crashes included, is a step of
`LinkRegistry` or leaves it alone. It needs `OneRowPerSlug` (the UNIQUE index), by which the
entry of a slug is that of the one row that has it, so that a statement that writes one
row changes one entry; the five statements that write are mapped to the registry's
steps one by one.

### Scheduler

`SchedulerProofs` proves `SchedulerInvariant`, and from it `SchedulerTyped`,
`RowsSummarize` and `RepeatsExplained`. That a row is the summary of its history is
inductive with `HistoryHasRow` alone, since row and entry are written in one
transaction. That a run is repeated only after an older one was recorded late needs to
know where the instant in a row comes from: `NextRunAfterLatest`, the run recorded last
stood for an earlier instant than it reports. This in turn is what `LanesInv` says of
runs under way: each stands for an instant before the one its job waits for, and asks
gocron for one that is later; what is caught up is older than what was fired since.

### Lifecycle

`LifecycleProofs` proves `LifecycleInvariant`, and from it `LifecycleTyped`,
`FileCleanedUp` and `ServerNamed`. The invariant adds to the types `FileAccounted`: a
process that the file names is still on its way to a removal (booting, serving, or in
a hook up to the one for the file), or had no chance to remove it.
`CleanExitRemovesPidFile` alone is not inductive: a process that has ended its hooks and
is about to exit lives. `HookAfterBoot` keeps the signal goroutine away from a process
that still judges or writes the file. For `ServerNamed` the operator does one thing at
a time: then, of two processes, one is at the door (it reads and judges the
file) and the other serves and is named, so that the first is turned away; and
whoever has come past the door is alone.

### Backup

`BackupProofs` proves of `Retention`, for every set of archives and every policy,
`SweepSparesIncrementals` and `SweepSparesYoungest`, and of `Backup` `BackupInvariant`
and from it `BackupTyped`, `SweepsSafe`, `BadArchivesAttended` and `SweepsSettle`. That
overlapping sweeps with stale plans cannot remove the last good archive is not inductive
as it stands: `DoomedOutlived` says that every name some sweep is still to delete
precedes, in the order of archives, one that is there. When another sweep deletes that
one, it had a successor for the same reason, and the order is transitive; when a new
archive takes its name, the new one serves. A plan makes it true because the youngest
archive always has a slot: `Validate` sees to it for the tasks (`config/limits.go`). For a
command it need not, so the three theorems say "unless one has swept with no slot", and
`UncheckedSweepTakesAll` proves what then happens: every full and manual archive goes, the
one that the command has just verified included.

`SweepsSettle`, that a second sweep finds nothing to remove, is about the two rules one
after the other. An archive that has a slot in a tier keeps it when others are
removed (fewer are younger); and the size cap removes from the old end (`CapFromOldEnd`),
so that what the tiers kept below it, they keep again (`FilledAgain`). That sizes
add up over disjoint sets is proved by the smallest counterexample, as induction
cannot be instantiated.

### The products

`MCMaintenance` and `MCWeb` are disjoint unions, and `MaintenanceProofs` and `WebProofs`
use that: `PartStep` says that a step of the product is one of the component that the
behaviour is about, so that what an invariant of a component is worth on its own it
is worth there. `KeysProofs` and `CommandLineProofs` prove about these two modules
directly; the others are proved in place.

- Overlay (`NoneLost`, `KeyPublished`). The mutex is held by the one actor that boots a
  provider (`MutexHeld`); a restart has closed the old service before it boots the new
  one (`BootsAlone`); the context that the hook has cancelled leaves only sessions of a SAM bridge; what was told to end and
  may not be gone is in `leaving`, and the shutdown leaves nothing there that a context
  would not have killed; a command goes on beside a server only if a boot has raced with it or the PID
  file did not tell it, which `"beside"` records. Without these an
  actor between two steps might hold a second provider, or publish an old key.
- Keys (`HandedOutHeld`, `RecordsAreTrue`). A command that changes the key has no other
  beside it but exports, the public file is that of the private one or of the key
  that a command is about to write, and what a command knows of uploads is true: the
  rows and the state file are written from what it knows, some steps later.
- CommandLine (`ChangesOnce`, `SavedOutlives`, `GateKeeps`). Nothing has been changed
  before the last request of a run; what a run must keep is in the file or about to
  be written to it (the file is empty between `Truncate` and `Write`); a document at hand
  is of the server that is asked. In the wizard every test under way is of what the inputs hold or
  late, so that a result that counts is of what the inputs hold or has overtaken the edit.
- Mail (`FailuresTold`). For each run, what it has yet to raise, the mails there are and
  whether one was lost, together: a failure that is told at all is yet to be raised,
  in particular or in general, or was mailed, or its mail was lost; never two of these.
- Service (`UninstallsSound`). What an uninstall has come to: the server is down, the
  directories went in their order, and the marker was read before its directory.
- Settings (`SealedStaysReadable`, `ChosenKept`). Every copy of `server.yml` that may be
  written back holds what was asked for (`Keeps`) and the file's key, at every
  step of a start (`Started`), as long as no two have written at once. That legal numbers stay
  and others become legal needs that every default is in its range (`DefaultsFit`, by the tables of
  `config/`).
- Restore (`AcceptedAreSnapshots`, `RestoresExactly`). No version of a file comes back
  (`Past`, `Seen`): what differs from what was hashed when the manifest was fixed
  cannot be copied as it was hashed (`Apart`), and hence verification, which compares
  copies with hashes, accepts only what was there at one instant. A restore nobody
  disturbs has at every step put back what it replaced (`Replacing`, `Replaced`). The
  history that says which full archive the live files are from was wrong for behaviours
  of more than four jobs: a second incremental archive took the place of the one that
  was restored. The proof found it, TLC confirmed it with six, and placing an
  incremental archive now resets the history.
- Update (`AnnouncesOnce`, `InstallsAreSound`). What is on record was listed and out of
  its window, so no later choice is older, and nothing newer has been announced but by the check
  that has yet to record it (`Recorded`); what is downloaded was chosen, by the task only when its window
  was over (`PickedWell`); one check at a time on one channel installs nothing older
  (`CalmChecks`). `Select` returns the newest because a set of builds of the past has one.
- Reports (`ReportsAreHandled`). A handler that writes letters, audits or answers has
  its row in the table (`StoredFirst`), ids are not used twice (`RowsApart`), and no link is from a day
  to come (`LinksPast`), so that one that is refused is old.
- Origin (`CountriesAreDecided`, `OriginsAreDecided`). What is on disk and in use is a
  database, as each was opened before it was renamed; what was ever in use is (`HeldInUse`); once
  nothing is under way or has failed, what is on disk is in use (`LastLoaded`). The addresses and names
  are decided by cases over the headers and listeners, in the order in which the code ranks them.
- Gateway (`FloodersAreBlocked`, `CountsAreKept`). A request is in the detector within a
  tick of its arrival, and a window of it ends within its length (`Prompt`): hence a
  block, which counts from the arrival, outlasts the window (`FloodSeen`). A window of the limiter is
  `Open`, and counts what has passed since it began, the time before being another window's;
  or it is `Gone`, swept, and what has passed in the last span is no more than one window's number. For
  either, two numbers bound any span (`Bounded`); the same holds of the burst limit with the
  sum of both classes. The ring: a bucket has a minute
  of its own, two minutes that it has at once differ by less than its size and so in their bucket, and what the
  buckets in it add up to is what was recorded in its minutes (`RingHeld`).
- Pages (`FormsAreDecided`, `RedirectsDoSettle`). A path of any length, once squeezed,
  has no empty segment but the last, and what it is cleaned to has no dots if it may be
  handled: it is not redirected. The measure of redirects is the length of the squeezed path: a
  redirect cuts an empty segment at its end, and neither cleaning nor reading the target anew adds
  one that lasts. The form of a page that was asked for without the cookie has no token
  (`BareWithNone`), which equals none. A cookie is given only with a page that was asked for without one, and once a page has
  settled nothing that is under way brings another, so that the cookie is the one of
  the form.
- Terminal (`ListIsCurrent`, `DeletionsAreConfirmed`). After every key and answer the rows
  are what the search finds of the loaded page and the cursor is on one (`RowsRight`). The
  page is the server's by four facts that need each other (`Undisturbed`): nothing has failed, a change is
  under way alone, a list that was answered is the server's, and so is the screen when
  nothing is under way. Lists go through `Among`, which is a recursive function;
  what it selects is proved by the smallest counterexample.

### What is only model-checked

Liveness: `RequestsAnswered`, `OverdueRunExecuted`, `ShutdownEnds`, `Recovers` and
`LoadingPasses`. The prover has no rule for fairness, and cannot expand ENABLED. What the
violated runs show (section 7) is a counterexample and nothing to prove. The
modules declare no RECURSIVE operator, which the prover could not go through.

## 7. Findings

Each is a run that TLC finds violated, and quotes a text of the repository.

1. The image re-executed after an update finds its own pid in the PID file and
   refuses to start (`RestartNotRefused`).
2. A restore puts the database back and leaves the write-ahead log of the old one
   beside it; the next process that opens it applies the one to the other
   (`RestoredDatabaseWhole`).
3. A backup run that fails because the disk, the list of archives or a sweep fails raises no
   `backup_failed`, and the general event is suppressed for it: nobody is told
   (`FailureTold`).

Disagreements met while modelling that have no run of their own, as the models show
them in other ways:

- Links. A token outlives its link when a DELETE comes between the two insertions of a
  create, contrary to the comment at `src/src/db/link.go:177-178`; it opens nothing, as
  ids are not reused (`OwnersSettled`). A PATCH of the expiry alone writes back a
  destination another PATCH has changed (`docs/api.md:187`). A crash between the two
  insertions leaves a link nobody but the operator can edit (`IDEA.md:4`), and the plain-text
  answer to POST carries no token (`docs/api.md:126`).
- Scheduler. A row starts enabled and wins over the configuration, so that what it
  disables runs (`docs/configuration.md:389`). A missed run is not caught up when its row
  cannot be read or its next instant was never recorded (`docs/configuration.md:375-377`).
- Life cycle. main returns and exits the process while the signal goroutine still
  drains requests (`docs/cli.md:222`); two servers started at once may both own the PID
  file (`AI.md:10490`); a signal during a re-execution is forgotten (`docs/cli.md:217`).
- Backup. A second backup under a name that exists replaces the good one before it is
  verified, and deletes the name when it fails (comment at `src/src/backup/retention.go:239-241`);
  a command sweeps while a bad archive of another process is unverified and counts as
  the newest; a crash between rename and verification leaves an archive nobody judges
  (`docs/cli.md:188-189`); with `max_backups: 1` a manual backup outlives the full archive
  of the same day, which is dated at midnight, so that the next incremental has no base; the
  size cap spares the last archive by date, and if that is an incremental deletes every full one.
  `--maintenance backup` sweeps before the configuration is validated (`src/src/main.go:173`, 242): with
  `max_backups` below 1 it deletes every full archive without a slot of another tier, the one
  it has just verified included, against the comment at `src/src/backup/retention.go:239-241` and
  `docs/configuration.md:658`.
- Overlays. A health task that restarts before `Start` was called leaves two providers,
  one of them lost to the manager (`"overtaken"`); an i2pd or tor is told to end and not waited for
  (`src/src/i2p/i2p.go:277-280`, 373), so that a restart boots the next beside one that has not gone, over
  the same data directory; a command that found the server stopped
  changes the key while one boots, and beside a server whose PID file it cannot read or that runs in a
  container and has none (`src/src/tor_cli.go:106-116`, `src/src/common/pidfile/pidfile.go:60-63`); `vanity apply` installs without the check that
  `import-keys` makes, perhaps a key torn by a killed search; `regenerate` right after
  an import sees no hostname and keeps the key.
- HTTP. The form of a page that brings the first cookie has no token, as it is rendered from
  the request, and is refused, against the comments at `src/src/httpserver/pagedata.go:117-119`
  and 266-268; two tabs that load at once get two cookies, and the form of a page that crossed with
  another may be refused too. On the listener of an overlay any name with its suffix is given back, also
  the address of another service, where the comment at `src/src/httpserver/urlvars.go:161-165`
  calls the service's address the only name. The target of a redirect is the path
  with its escapes resolved (`src/src/httpserver/middleware.go:146-150`): `/x/%3F/` leads to `/x/?`, which is
  redirected again, and a path that begins with a backslash leads to another host. The router
  goes by the path as it was sent when an escape was kept, which nobody normalizes. Logging is the innermost
  stage where its comment says outermost (`src/src/httpserver/middleware.go:554-560`), so that what an
  earlier stage refuses is not in the access log. A
  window admits up to twice its limit in a span of its length; the count of offenses of
  an address is lost when its block is released. `mode: enforce` of the CSP is written to
  `server.yml` by the first save and then wins over the development mode
  (`docs/configuration.md:597`).
- Settings. The save after the detection of a mail server writes the whole copy in memory, values
  given for one run included, and what was changed in the file meanwhile is lost; a
  mistyped `server.yml` fails the start, where the documentation says validation never blocks it.
- Mail. No deadline follows the dial, so that a stalled server holds the run of a task
  (comment at `src/src/notify/smtp.go:18-21`); a letter that was delivered counts as failed when QUIT
  fails; an unmatched `{` before a placeholder swallows it (`notify/template.go`).
- Keys. The public half is written before the private half; `generate` overwrites what an
  interrupted rotation left; a second rotation within the grace period loses the first
  key; a kill after an export and before its record lifts the hourly limit, and two exports at
  once may both pass it.
- Service. An uninstall that fails or is killed after the data directory has lost its marker
  leaves the account for good; a failed Stop is ignored, and the running server makes
  its directories again; a group that was made without its user makes every retry fail.
  Nothing but the package itself creates the account (`docs/installation.md` says the start
  does), and the verbs do not escalate (`docs/cli.md`).
- GeoIP. One file of several that fails keeps the others from being reloaded (comment
  at `src/src/geoip/geoip.go:284-290`); a slow download of an older issue may overwrite a newer one.
- Reports. The limit per minute bounds each address, not the endpoint (comment at
  `src/src/httpserver/reports.go`); a sent form whose link has turned over is taken for a message
  and its text lost; a lost answer and a second try make two rows; the contact form
  says "sent" whether it was or not.
- Client. A flag for one setting saves what the environment gave for another
  (`src/src/client/cmd/root.go`, `if persist`); a kill between the truncation and the write leaves an
  empty `cli.yml`; the first run after setup skips the version gate; the result of a connection test
  that arrives after an edit counts for what the inputs hold by then
  (`src/src/client/setup/wizard.go:191-194`), so that the wizard may save an address that was never
  tried (217-224), although "editing any field invalidates the previous test result" (235).

Hazards that no property covers, and that `PROJECT.json` does not repeat: a PATCH that is
committed and answered 500 when its reread fails; the stored schedule of a task after an
upgrade that changed it; catch-up goroutines that `Stop` does not wait for, and a panic in one of them,
which ends the server; the history table, which nothing prunes; a listener of an
overlay added after the hook has shut the others down; a mail server or a SAM bridge that stalls,
which holds the run of a task, a hook of the shutdown, or the mutex of the manager. The models have the
steps (but for panics and sizes); no text of the repository says what must hold.

## 8. Not modelled

- Logs and their rotation: every line is written under the one lock of its logger, and
  nothing reads the files. (A failed reopen in `Rotate` leaves a logger on a closed file.)
- Certificates: the ACME library obtains, stores and renews them; the events of a renewal are in
  `Mail`.
- Metrics: counters of a third-party library that nothing reads back.
- The memory cache `cache/`: nothing in the program imports it.
- Shared helpers (`common/display`, `i18n`, `paths`, `mode`, `fqdn`, ...): formatting, path
  choice and catalogues, without state.
- `httpserver/securitystatus.go`: at this commit it uses functions and fields of `db` that
  do not exist, so there is no behaviour to model.
- In components that are modelled in part: Windows variants of the PID file and the
  updater, what pages and letters say, unit files and torrc, OpenPGP and SMTP themselves.
