------------------------------- MODULE Backup -------------------------------
(***************************************************************************)
(* The backup directory and the processes that work in it: the tasks       *)
(* backup_daily and backup_hourly (scheduler/backup.go), which also a      *)
(* --scheduler run starts, and --maintenance backup (backup_cli.go).  A    *)
(* process writes an archive beside its place, renames it over whatever    *)
(* has that name, verifies what is there by then, and deletes that when    *)
(* the verification fails.  A sweep lists, plans (Retention), and deletes  *)
(* by name.  None of them knows of the others.  The tasks sweep with a     *)
(* configuration that was validated, the command with one that was not.    *)
(***************************************************************************)
EXTENDS Retention, Sequences

CONSTANTS
  Procs,     \* bound: backup processes and tasks at one time
  Policies,  \* the retention policies the configuration may hold
  Sizes,     \* the sizes an archive may have
  DayLength, \* instants of a day
  MaxTime,   \* bound: the last instant of the clock
  MaxJobs,   \* bound: jobs that ever begin
  NoName

ASSUME BackupAssumption ==
  /\ Policies \subseteq PolicySet /\ Policies # {}
  /\ Sizes \subseteq Nat /\ DayLength \in Nat \ {0}
  /\ MaxTime \in Nat /\ MaxJobs \in Nat

VARIABLES
  now,       \* the clock
  policy,    \* server.backup.retention as the file has it; a percentage as bytes
  dir,       \* the archives in the backup directory
  pc,        \* what each process does next
  todo,      \* the kinds it still has to write and verify
  target,    \* the name of the archive it is at
  doomed,    \* the names its sweep has still to delete
  begun,     \* how many jobs have begun
  past,      \* "stocked": a full archive was verified; "flawed": one failed;
             \* "unchecked": a sweep planned with max_backups below 1
  abandoned  \* names of bad archives whose judge has died

vars == <<now, policy, dir, pc, todo, target, doomed, begun, past, abandoned>>

Jobs  == {<<"full", "daily">>, <<"hourly">>, <<"manual">>}
Works == Jobs \cup {<<"daily">>, <<>>}

Pcs == {"off", "sweep", "applyRetention", "prune", "prepare", "place", "verify", "undo"}

\* File names: incrementals have fixed ones, a full has its day, a manual
\* archive its second.
Names == {n \in Kinds \X Nat : n[1] \in IncrementalKinds => n[2] = 0}
NameFor(kind, t) ==
  <<kind, IF kind \in IncrementalKinds THEN 0
          ELSE IF kind = "full" THEN t - (t % DayLength) ELSE t>>
Name(f) == <<f.kind, IF Incremental(f) THEN 0 ELSE f.date>>
Without(n) == {f \in dir : Name(f) # n}

Archives == [kind : Kinds, date : Nat, size : Sizes, good : BOOLEAN]

\* The archive written at t under the name n, as List will find it: the date
\* of an incremental is when it was written.
Archive(n, t, size, good) ==
  [kind |-> n[1], date |-> IF n[1] \in IncrementalKinds THEN t ELSE n[2],
   size |-> size, good |-> good]

Init ==
  /\ now = 0 /\ policy \in Policies /\ dir = {}
  /\ pc = [p \in Procs |-> "off"]
  /\ todo = [p \in Procs |-> <<>>]
  /\ target = [p \in Procs |-> NoName]
  /\ doomed = [p \in Procs |-> {}]
  /\ begun = 0 /\ past = {} /\ abandoned = {}

-----------------------------------------------------------------------------
\* The process is at its end, well or with an error.
End(p) ==
  /\ pc' = [pc EXCEPT ![p] = "off"]
  /\ todo' = [todo EXCEPT ![p] = <<>>]
  /\ target' = [target EXCEPT ![p] = NoName]
  /\ doomed' = [doomed EXCEPT ![p] = {}]

Goto(p, next) == pc' = [pc EXCEPT ![p] = next] /\ UNCHANGED <<todo, target, doomed>>

\* The daily cycle sweeps first; the others write at once.
Begin(p) ==
  /\ pc[p] = "off" /\ begun < MaxJobs /\ begun' = begun + 1
  /\ \E work \in Jobs :
       /\ todo' = [todo EXCEPT ![p] = work]
       /\ pc' = [pc EXCEPT ![p] = IF Len(work) = 2 THEN "sweep" ELSE "prepare"]
  /\ UNCHANGED <<now, policy, dir, target, doomed, past, abandoned>>

\* Apply: List and Plan.
Apply(p, retention) ==
  /\ doomed' = [doomed EXCEPT ![p] = {Name(f) : f \in Removed(dir, retention)}]
  /\ pc' = [pc EXCEPT ![p] = "prune"]
  /\ UNCHANGED <<todo, target>>

\* Fault: the tasks take the configuration as it is.
AsConfigured == policy

\* What the tasks sweep with: main validates before it makes them.
TaskPolicy == Validated(policy)

\* A task sweeps.  An unreadable disk or directory ends the process.
Sweep(p) ==
  /\ pc[p] = "sweep"
  /\ End(p) \/ Apply(p, TaskPolicy)
  /\ UNCHANGED <<now, policy, begun, dir, past, abandoned>>

\* The command sweeps, with what newBackupEnv has loaded.
ApplyRetention(p) ==
  /\ pc[p] = "applyRetention"
  /\ \/ End(p) /\ UNCHANGED past
     \/ /\ Apply(p, policy)
        /\ past' = IF policy.daily = 0 THEN past \cup {"unchecked"} ELSE past
  /\ UNCHANGED <<now, policy, begun, dir, abandoned>>

\* os.Remove of the oldest name left; one that is gone is passed over.
Prune(p) ==
  /\ pc[p] = "prune"
  /\ \E n \in doomed[p] :
       /\ \A m \in doomed[p] : n[2] <= m[2]
       /\ dir' = Without(n)
       /\ doomed' = [doomed EXCEPT ![p] = @ \ {n}]
  /\ UNCHANGED <<now, policy, begun, pc, todo, target, past, abandoned>>

\* All is pruned; or a removal fails, which ends the process.
Pruned(p) ==
  /\ pc[p] = "prune"
  /\ IF doomed[p] = {} /\ todo[p] # <<>> THEN Goto(p, "prepare") ELSE End(p)
  /\ UNCHANGED <<now, policy, begun, dir, past, abandoned>>

\* The name is fixed; too little space or a missing source ends the process.
Prepare(p) ==
  /\ pc[p] = "prepare"
  /\ \/ End(p)
     \/ /\ target' = [target EXCEPT ![p] = NameFor(Head(todo[p]), now)]
        /\ pc' = [pc EXCEPT ![p] = "place"]
        /\ UNCHANGED <<todo, doomed>>
  /\ UNCHANGED <<now, policy, begun, dir, past, abandoned>>

\* writeBackupFile renames the archive to its place.  It is bad when a
\* source changed while it was read, or the disk lied.
Place(p) ==
  /\ pc[p] = "place"
  /\ \E size \in Sizes, good \in BOOLEAN :
       /\ dir' = Without(target[p]) \cup {Archive(target[p], now, size, good)}
       /\ past' = IF good THEN past ELSE past \cup {"flawed"}
  /\ Goto(p, "verify")
  /\ UNCHANGED <<now, policy, begun, abandoned>>

\* writeBackupFile fails, and Create removes what has the name.
PlaceFails(p) ==
  /\ pc[p] = "place"
  /\ dir' = Without(target[p])
  /\ past' = past \cup {"flawed"}
  /\ End(p)
  /\ UNCHANGED <<now, policy, begun, abandoned>>

\* Fault: Verify takes whatever exists for good.
Exists(p) == \E f \in dir : Name(f) = target[p]

\* What Verify finds at the target, whoever wrote it.
Sound(p) == \E f \in dir : Name(f) = target[p] /\ f.good

\* After the last archive the caller sweeps, unless it was hourly.
AfterLast(p) == IF target[p][1] = "manual" THEN "applyRetention" ELSE "sweep"

\* The next archive, or the end of the writing.
Verified(p) ==
  /\ pc[p] = "verify" /\ Sound(p)
  /\ past' = IF target[p][1] \in IncrementalKinds THEN past ELSE past \cup {"stocked"}
  /\ IF target[p][1] = "hourly" THEN End(p)
     ELSE /\ todo' = [todo EXCEPT ![p] = Tail(@)]
          /\ pc' = [pc EXCEPT ![p] = IF Len(todo[p]) = 1 THEN AfterLast(p) ELSE "prepare"]
          /\ target' = [target EXCEPT ![p] = NoName]
          /\ UNCHANGED doomed
  /\ UNCHANGED <<now, policy, begun, dir, abandoned>>

\* A check fails, on a good archive perhaps for lack of space or a password.
Rejected(p) ==
  /\ pc[p] = "verify"
  /\ past' = past \cup {"flawed"}
  /\ Goto(p, "undo")
  /\ UNCHANGED <<now, policy, begun, dir, abandoned>>

\* Fault: a backup that fails is left where it is.
Left(p) == dir

\* The os.Remove after a failed Verify.
Cleared(p) == Without(target[p])

Undo(p) ==
  /\ pc[p] = "undo"
  /\ dir' = Cleared(p)
  /\ End(p)
  /\ UNCHANGED <<now, policy, begun, past, abandoned>>

\* The process has still to judge or to delete what has the name.
Attends(p, n) == pc[p] \in {"verify", "undo"} /\ target[p] = n

Crash(p) ==
  /\ pc[p] # "off"
  /\ abandoned' = abandoned \cup {Name(f) : f \in {g \in dir : Attends(p, Name(g)) /\ ~g.good}}
  /\ End(p)
  /\ UNCHANGED <<now, policy, begun, dir, past>>

Tick ==
  /\ now < MaxTime /\ now' = now + 1
  /\ UNCHANGED <<policy, begun, dir, pc, todo, target, doomed, past, abandoned>>

Next ==
  \/ Tick
  \/ \E p \in Procs :
       \/ Begin(p) \/ Sweep(p) \/ ApplyRetention(p) \/ Prune(p) \/ Pruned(p)
       \/ Prepare(p) \/ Place(p) \/ PlaceFails(p) \/ Verified(p) \/ Rejected(p) \/ Undo(p) \/ Crash(p)

Spec == Init /\ [][Next]_vars

-----------------------------------------------------------------------------
\* Every part has its type, no two archives share a name, and a sweep is
\* after full and manual archives only (Plan never expires an incremental).
TypeOK ==
  /\ now \in 0 .. MaxTime /\ policy \in Policies
  /\ dir \subseteq Archives
  /\ \A f, g \in dir : Name(f) = Name(g) => f = g
  /\ pc \in [Procs -> Pcs]
  /\ todo \in [Procs -> Works]
  /\ target \in [Procs -> Names \cup {NoName}]
  /\ doomed \in [Procs -> SUBSET {n \in Names : n[1] \notin IncrementalKinds}]
  /\ begun \in 0 .. MaxJobs /\ past \subseteq {"stocked", "flawed", "unchecked"}
  /\ abandoned \subseteq Names

\* Whoever writes, verifies, deletes and overwrites the same names at once:
\* an archive that is bad still has a process that has to judge or delete
\* it, or had one that died.
BadArchiveAttended ==
  \A f \in dir :
    ~f.good => (\E p \in Procs : Attends(p, Name(f))) \/ Name(f) \in abandoned

\* The directory holds a good archive that needs no other.
Recoverable == \E f \in Fulls(dir) : f.good

\* As long as no backup fails, no size cap is set and no command has swept with
\* max_backups below 1, sweeps that overlap each other, new archives and
\* crashes always leave a good full archive: whatever the file has, those of
\* the tasks do.
SweepsLeaveGood ==
  policy.cap = 0 /\ past = {"stocked"} => Recoverable

\* Of two names, the one whose archive a sweep deletes first.
Precedes(n, m) == n[2] < m[2] \/ (n[2] = m[2] /\ Rank[n[1]] < Rank[m[1]])

\* A process that writes knows what and where; one that undoes has failed.
WriterPrepared ==
  \A p \in Procs :
    /\ pc[p] \in {"prepare", "place", "verify", "undo"} => todo[p] # <<>>
    /\ pc[p] \in {"place", "verify", "undo"} => target[p] \in Names
    /\ pc[p] = "undo" => "flawed" \in past

\* Without a failure or an unchecked policy every archive is good, and whatever
\* a sweep is about to delete, however long ago it was planned, precedes an
\* archive that is there.
NoFailure == policy.cap = 0 /\ past \subseteq {"stocked"}
DoomedOutlived ==
  NoFailure =>
    /\ \A f \in dir : f.good
    /\ \A p \in Procs : \A n \in doomed[p] : \E g \in Fulls(dir) : Precedes(n, Name(g))
    /\ "stocked" \in past => Fulls(dir) # {}

\* The inductive invariant behind SweepsLeaveGood.
IInv == TypeOK /\ WriterPrepared /\ DoomedOutlived

\* What one sweep leaves, the next one of the same caller leaves, also under a
\* cap.
SweepSettles ==
  \A p \in {policy, TaskPolicy} : Removed(dir \ Removed(dir, p), p) = {}
=============================================================================
