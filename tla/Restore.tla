------------------------------ MODULE Restore ------------------------------
(***************************************************************************)
(* What is in an archive, and what a restore makes of it (backup/).  A     *)
(* backup hashes every source, then copies every source, and is verified;  *)
(* an incremental carries what differs from its base.  A restore verifies, *)
(* reads the archive again, and replaces one live file after the other.    *)
(* Beside them the server commits to the write-ahead log of the database,  *)
(* and the operator edits files.  A file is one version, never a part of   *)
(* one: temporary files and renames see to that.                           *)
(***************************************************************************)
EXTENDS Naturals, Sequences

CONSTANTS
  MaxEdits,   \* bound: edits and commits
  MaxJobs     \* bound: backups and restores that begin

VARIABLES
  live,       \* the version of each source; Absent is no file
  wal,        \* server.db-wal: the file it belongs to, and what it adds
  served,     \* the database file the server has open, or Absent
  edits,      \* versions given out
  archives,   \* the archive of each kind, or NoArchive
  pack,       \* the backup that runs
  restore,    \* the restore that runs
  disturbed,  \* someone else wrote to files or archives since it verified
  restored,   \* the full archive that the live files are from, but for those of
              \* the incremental one, or NoArchive
  jobs

restoreVars == <<live, wal, served, edits, archives, pack, restore, disturbed, restored, jobs>>

\* Archive names in the order of collectSources and of Restore.
Members  == <<"data", "server.db", "server.yml">>
Names    == {Members[i] : i \in DOMAIN Members}
Required == {"server.db", "server.yml"}
Kinds    == {"full", "hourly"}
Absent   == 0
Torn     == MaxEdits + 1   \* pages of one database under the log of another
NoFiles   == [n \in {} |-> Absent]
NoWal     == [base |-> Absent, adds |-> Absent]
NoArchive == [digest |-> NoFiles, content |-> NoFiles, base |-> NoFiles, hashed |-> NoFiles,
              snap |-> NoFiles, accepted |-> FALSE]
NoPack    == [pc |-> "idle", kind |-> "full", at |-> 1, base |-> NoFiles, digest |-> NoFiles,
              content |-> NoFiles, hashed |-> NoFiles, snap |-> NoFiles]
NoRestore == [pc |-> "idle", kind |-> "full", names |-> {}, stage |-> NoFiles]

\* Some files with one more, and some of them.
With(files, n, v) ==
  [m \in DOMAIN files \cup {n} |-> IF m = n THEN v ELSE files[m]]
Only(files, names) == [m \in DOMAIN files \cap names |-> files[m]]

Init ==
  /\ live = [n \in Names |-> IF n = "data" THEN Absent ELSE 1]
  /\ wal = NoWal /\ served = Absent /\ edits = 1
  /\ archives = [k \in Kinds |-> NoArchive]
  /\ pack = NoPack /\ restore = NoRestore
  /\ disturbed = FALSE /\ restored = NoArchive /\ jobs = 0

-----------------------------------------------------------------------------
(***************************************************************************)
(* Server and operator                                                     *)
(***************************************************************************)

\* What a process that opens the database finds.
Database ==
  IF wal = NoWal THEN live["server.db"]
  ELSE IF wal.base = live["server.db"] THEN wal.adds ELSE Torn

Disturb == disturbed' = TRUE /\ restored' = NoArchive

\* A statement commits to the log (journal_mode WAL, db.Open), for the file
\* that the server has open, whatever has its name by now.
Commit ==
  /\ served # Absent /\ edits < MaxEdits /\ edits' = edits + 1
  /\ wal' = [base |-> served,
             adds |-> IF wal # NoWal /\ wal.base # served THEN Torn ELSE edits']
  /\ Disturb
  /\ UNCHANGED <<live, served, archives, pack, restore, jobs>>

\* SQLite moves the log into the file; the last one to close removes it.
Checkpoint ==
  /\ served # Absent /\ wal # NoWal
  /\ served' = IF wal.base = served THEN wal.adds ELSE Torn
  /\ live' = IF served = live["server.db"] THEN [live EXCEPT !["server.db"] = served'] ELSE live
  /\ wal' = NoWal
  /\ Disturb
  /\ UNCHANGED <<edits, archives, pack, restore, jobs>>

\* The server opens the database; it closes it after a checkpoint, or is killed.
Open ==
  /\ served = Absent /\ served' = live["server.db"]
  /\ UNCHANGED <<live, wal, edits, archives, pack, restore, disturbed, restored, jobs>>
CloseOrDie ==
  /\ served # Absent /\ served' = Absent
  /\ UNCHANGED <<live, wal, edits, archives, pack, restore, disturbed, restored, jobs>>

Edit(n) ==
  /\ n # "server.db" /\ edits < MaxEdits /\ edits' = edits + 1
  /\ \E v \in {edits'} \cup (IF n \in Required THEN {} ELSE {Absent}) :
       live' = [live EXCEPT ![n] = v]
  /\ Disturb
  /\ UNCHANGED <<wal, served, archives, pack, restore, jobs>>

-----------------------------------------------------------------------------
(***************************************************************************)
(* A backup (Create)                                                       *)
(***************************************************************************)
\* An hourly takes the manifest of the newest full archive for its base, if
\* there is one (newestManifest).
BeginPack(k) ==
  /\ pack.pc = "idle" /\ jobs < MaxJobs /\ jobs' = jobs + 1
  /\ pack' = [NoPack EXCEPT !.pc = "hash", !.kind = k,
                !.base = IF k = "hourly" THEN archives["full"].digest ELSE NoFiles]
  /\ UNCHANGED <<live, wal, served, edits, archives, restore, disturbed, restored>>

\* An error, or the death of the process: only the temporary file was there.
FailPack ==
  /\ pack.pc \in {"hash", "copy"}
  /\ archives' = [archives EXCEPT ![pack.kind] = IF pack.pc = "copy" THEN NoArchive ELSE @]
  /\ disturbed' = TRUE
  /\ pack' = NoPack
  /\ UNCHANGED <<live, wal, served, edits, restore, restored, jobs>>

\* collectSources: the digest of the next source; an optional one may be absent.
HashSource ==
  /\ pack.pc = "hash" /\ pack.at <= Len(Members)
  /\ LET n == Members[pack.at] IN
       /\ live[n] = Absent => n \notin Required
       /\ pack' = [pack EXCEPT !.at = @ + 1,
                     !.digest = IF live[n] = Absent THEN @ ELSE With(@, n, live[n])]
  /\ UNCHANGED <<live, wal, served, edits, archives, restore, disturbed, restored, jobs>>

\* What is unlike the base (changedSince); a full archive has no base.
Unlike(digest, base) ==
  {n \in DOMAIN digest : n \notin DOMAIN base \/ base[n] # digest[n]}

\* All is hashed; the manifest is fixed.
Manifest ==
  /\ pack.pc = "hash" /\ pack.at > Len(Members)
  /\ LET kept == Only(pack.digest, Unlike(pack.digest, pack.base)) IN
       pack' = [pack EXCEPT !.pc = "copy", !.at = 1, !.digest = kept,
                            !.hashed = pack.digest, !.snap = live]
  /\ UNCHANGED <<live, wal, served, edits, archives, restore, disturbed, restored, jobs>>

\* writeArchive: the next member as it is by now.  Of another size, it is
\* an error (FailPack).
CopySource ==
  /\ pack.pc = "copy" /\ pack.at <= Len(Members)
  /\ LET n == Members[pack.at] IN
       /\ n \in DOMAIN pack.digest => live[n] # Absent
       /\ pack' = [pack EXCEPT !.at = @ + 1,
                     !.content = IF n \in DOMAIN pack.digest THEN With(@, n, live[n]) ELSE @]
  /\ UNCHANGED <<live, wal, served, edits, archives, restore, disturbed, restored, jobs>>

\* writeBackupFile: the archive takes the name of the one before it.
PlaceArchive ==
  /\ pack.pc = "copy" /\ pack.at > Len(Members)
  /\ archives' = [archives EXCEPT ![pack.kind] =
       [digest |-> pack.digest, content |-> pack.content, base |-> pack.base,
        hashed |-> pack.hashed, snap |-> pack.snap, accepted |-> FALSE]]
  /\ disturbed' = TRUE
  /\ restored' = IF pack.kind = "hourly" THEN NoArchive ELSE restored
  /\ pack' = [pack EXCEPT !.pc = "verify"]
  /\ UNCHANGED <<live, wal, served, edits, restore, jobs>>

\* What extractArchive finds in an archive, by digest.
Extracted(a) == a.content

\* PRAGMA integrity_check on the extracted database, if there is one.
Whole(files) == "server.db" \in DOMAIN files => files["server.db"] # Torn

\* Fault: Verify looks for the members and not at them.
Complete(a) == a # NoArchive /\ DOMAIN Extracted(a) = DOMAIN a.digest

\* Verify: every member there, of the digest the manifest has for it, and the
\* database whole.
Sound(a) == a # NoArchive /\ Extracted(a) = a.digest /\ Whole(Extracted(a))

\* What fails is removed, also for want of space or of a password.
VerifyArchive ==
  /\ pack.pc = "verify"
  /\ LET a == archives[pack.kind] IN
       \/ /\ Sound(a)
          /\ archives' = [archives EXCEPT ![pack.kind].accepted = TRUE]
          /\ UNCHANGED disturbed
       \/ /\ archives' = [archives EXCEPT ![pack.kind] = NoArchive]
          /\ disturbed' = TRUE
  /\ pack' = NoPack
  /\ UNCHANGED <<live, wal, served, edits, restore, restored, jobs>>

\* The process is killed before it has verified.
AbandonArchive ==
  /\ pack.pc = "verify" /\ pack' = NoPack
  /\ UNCHANGED <<live, wal, served, edits, archives, restore, disturbed, restored, jobs>>

-----------------------------------------------------------------------------
(***************************************************************************)
(* A restore (runBackupRestore, Restore)                                   *)
(***************************************************************************)
Callers == {"root", "service", "other"}

DatabaseEmpty == live["server.db"] = Absent

\* Root is asked to confirm and the service user for the operator's token;
\* either may decline or not know it.
Consents(caller, willing) == caller \in {"root", "service"} /\ willing

\* Authorize: where there is nothing to protect nobody is asked.
Authorized(caller, willing) == DatabaseEmpty \/ Consents(caller, willing)

\* VerifyForRestore, whose manifest says which names there are to place.
BeginRestore(k) ==
  /\ restore.pc = "idle" /\ jobs < MaxJobs /\ jobs' = jobs + 1
  /\ \E caller \in Callers, willing \in BOOLEAN : Authorized(caller, willing)
  /\ Sound(archives[k])
  /\ restore' = [NoRestore EXCEPT !.pc = "stage", !.kind = k,
                                  !.names = DOMAIN archives[k].digest]
  /\ disturbed' = FALSE
  /\ UNCHANGED <<live, wal, served, edits, archives, pack, restored>>

\* The archive is read once more, and unpacked beside server.yml.
Stage ==
  /\ restore.pc = "stage"
  /\ archives[restore.kind] # NoArchive
  /\ restore' = [restore EXCEPT !.pc = "place", !.stage = Extracted(archives[restore.kind])]
  /\ UNCHANGED <<live, wal, served, edits, archives, pack, disturbed, restored, jobs>>

\* The names come in the order of Members.
NextName == CHOOSE n \in restore.names :
  \A i, j \in DOMAIN Members :
    Members[i] = n /\ Members[j] \in restore.names => i <= j

\* Fault: what is there is not replaced.
Kept(n) == IF live[n] = Absent THEN restore.stage[n] ELSE live[n]

Placed(n) == restore.stage[n]

\* placeFile: one rename; a name that was not unpacked ends the restore.
Place ==
  /\ restore.pc = "place" /\ restore.names # {}
  /\ NextName \in DOMAIN restore.stage
  /\ live' = [live EXCEPT ![NextName] = Placed(NextName)]
  /\ restore' = [restore EXCEPT !.names = @ \ {NextName}]
  /\ pack' = [pack EXCEPT !.snap = NoFiles]
  /\ restored' = IF restore.kind = "hourly" /\ ~disturbed THEN restored ELSE NoArchive
  /\ UNCHANGED <<wal, served, edits, archives, disturbed, jobs>>

Done ==
  /\ restore.pc = "place" /\ restore.names = {}
  /\ restore' = [restore EXCEPT !.pc = "done"]
  /\ restored' = IF disturbed THEN NoArchive
                  ELSE IF restore.kind = "full" THEN archives["full"] ELSE restored
  /\ UNCHANGED <<live, wal, served, edits, archives, pack, disturbed, jobs>>

\* The command ends: it is done, some step failed, or it was killed.
EndRestore ==
  /\ restore.pc # "idle" /\ restore' = NoRestore
  /\ UNCHANGED <<live, wal, served, edits, archives, pack, disturbed, restored, jobs>>

Next ==
  \/ Commit \/ Checkpoint \/ Open \/ CloseOrDie \/ \E n \in Names : Edit(n)
  \/ \E k \in Kinds : BeginPack(k) \/ BeginRestore(k)
  \/ HashSource \/ Manifest \/ CopySource \/ PlaceArchive \/ FailPack
  \/ VerifyArchive \/ AbandonArchive
  \/ Stage \/ Place \/ Done \/ EndRestore

Spec == Init /\ [][Next]_restoreVars

-----------------------------------------------------------------------------
\* Sources are edited while they are hashed and copied; an archive that was
\* accepted is all the same a snapshot: there was an instant, between the last
\* digest and the first copy, at which every source was as the archive has it,
\* unless a restore gave a source back a version it had before.
AcceptedIsSnapshot ==
  \A k \in Kinds :
    LET a == archives[k] IN
      a.accepted /\ a.snap # NoFiles =>
        \A n \in DOMAIN a.content : a.content[n] = a.snap[n]

\* A restore that ends well, while nobody else writes, leaves every file as
\* the archive has it, whatever an earlier restore that failed had left; and an
\* incremental archive restored after its full one gives back every file as
\* the incremental has hashed it, those it does not carry included.
RestoreExact ==
  restore.pc = "done" /\ ~disturbed =>
    LET a == archives[restore.kind] IN
      /\ \A n \in DOMAIN a.digest : live[n] = a.digest[n]
      /\ restore.kind = "hourly" /\ restored # NoArchive /\ a.base = restored.digest
         => \A n \in DOMAIN a.hashed : live[n] = a.hashed[n]

(***************************************************************************)
(* What a comment says and the code does not do                            *)
(***************************************************************************)

\* "a failure part-way through cannot leave a truncated server.yml or a torn
\* database" (restore.go): the log of the old database stays beside the new.
RestoredDatabaseWhole ==
  restore.pc = "done" /\ served = Absent => Database # Torn
=============================================================================
