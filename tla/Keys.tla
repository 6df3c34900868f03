-------------------------------- MODULE Keys --------------------------------
(***************************************************************************)
(* The OpenPGP keypair of the server: --maintenance pgp (pgp_cli.go) over  *)
(* the files of {config_dir}/security (pgp/store.go), the rows of pgp_keys *)
(* (db/pgpkey.go) and the keyservers (pgp/keyserver.go), while the server  *)
(* hands out the public key.  Operators may run commands at once; nothing  *)
(* locks the files.  A command can fail or be killed at every step.        *)
(***************************************************************************)
EXTENDS Naturals, FiniteSets

CONSTANTS
  Operators,
  Keyservers,
  MaxKeys,       \* bound: keypairs that are generated
  MaxCommands,   \* bound: commands that begin
  MaxHours       \* bound: the clock, in hours

VARIABLES
  hour,
  pub, priv,     \* the files of the keypair: a key, None or Torn
  prevPriv,      \* the file of the retired private key
  until,         \* rotation.state: the end of the grace period, or None
  ledger,        \* keyservers.state
  rows,          \* the table pgp_keys
  advertise,     \* web.security.publish_pgp_key in server.yml
  exports,       \* export.state: when each operator exported last
  uploaded,      \* what each keyserver has been given
  cmd,           \* the command of each operator
  commands,      \* how many commands have begun
  made,          \* how many keypairs there are, imported ones included
  handedOut,     \* history: keys that the server has handed out
  givenUp,       \* history: keys that commands have replaced or deleted
  exported,      \* history: when the private key has been written for each
  mishaps         \* history: what happened that the code has no answer to

keysVars == <<hour, pub, priv, prevPriv, until, ledger, rows, advertise, exports,
              uploaded, cmd, commands, made, handedOut, givenUp, exported, mishaps>>
onDisk == <<pub, priv, prevPriv, until>>

None     == 0
Torn     == MaxKeys + 1   \* a file that is not written to its end
Keys     == 1 .. MaxKeys
Grace    == 24 * 30
Hour     == 1             \* pgpExportInterval
Changing == {"generate", "rotate", "import", "delete"}
Idle     == [pc |-> "idle", kind |-> "", key |-> None, sent |-> None, todo |-> {},
             done |-> {}, row |-> [there |-> FALSE, revoked |-> FALSE, published |-> {}],
             seen |-> [o \in Operators |-> None]]
NoRow    == Idle.row

Init ==
  /\ hour = 1 /\ pub = None /\ priv = None /\ prevPriv = None /\ until = None
  /\ ledger = [key |-> None, published |-> {}]
  /\ rows = [k \in Keys |-> NoRow] /\ advertise = TRUE
  /\ exports = [o \in Operators |-> None]
  /\ uploaded = [s \in Keyservers |-> {}]
  /\ cmd = [o \in Operators |-> Idle] /\ commands = 0 /\ made = 0
  /\ handedOut = {} /\ givenUp = {} /\ exported = exports /\ mishaps = {}

At(o, pc)   == cmd[o].pc = pc
Goto(o, pc) == cmd' = [cmd EXCEPT ![o].pc = pc]
End(o)      == cmd' = [cmd EXCEPT ![o] = Idle]

\* Two commands of which one changes what the other uses.
Clashes(kind) ==
  \E o \in Operators :
    \/ cmd[o].kind \in Changing /\ kind # "export"
    \/ cmd[o].kind \in {"publish"} \cup Changing /\ kind \in Changing
    \/ cmd[o].kind = "export" /\ kind = "export"

Start(o, kind, pc, key) ==
  /\ At(o, "idle") /\ commands < MaxCommands /\ commands' = commands + 1
  /\ cmd' = [cmd EXCEPT ![o] = [Idle EXCEPT !.pc = pc, !.kind = kind, !.key = key]]
  /\ mishaps' = IF Clashes(kind) THEN mishaps \cup {"clash"} ELSE mishaps
  /\ made' = IF key > made THEN key ELSE made
  /\ UNCHANGED <<hour, onDisk, ledger, rows, advertise, exports, uploaded,
                 handedOut, givenUp, exported>>

\* What a command looks at before its first change.  HasKeypair is about the
\* public file, ReadPrivateKey about the private one.
HasKeypair == pub # None
Readable(file) == file \in Keys

Generate(o) == ~HasKeypair /\ made < MaxKeys /\ Start(o, "generate", "writePub", made + 1)
Rotate(o)   == Readable(priv) /\ made < MaxKeys /\ Start(o, "rotate", "retirePub", made + 1)
Publish(o)  == HasKeypair /\ Readable(priv) /\ Start(o, "publish", "read", priv)
Import(o)   == \E k \in Keys : k <= made + 1 /\ Start(o, "import", "writePub", k)
Delete(o)   == HasKeypair /\ Start(o, "delete", "deletePub", None)

\* Fault: who has exported once may not export again soon, but others count too.
NoLimit(o) == None
LastExport(o) == exports[o]

\* One export an hour for each operator, by the file.
ExportPrivate(o) ==
  /\ LastExport(o) = None \/ hour - LastExport(o) >= Hour
  /\ Start(o, "export", "prompt", None)

-----------------------------------------------------------------------------
(***************************************************************************)
(* The steps of a command                                                  *)
(***************************************************************************)

\* Fault: the private key is not kept.
ForgetPriv(o) ==
  /\ At(o, "retirePriv") /\ Goto(o, "grace")
  /\ priv' = None
  /\ UNCHANGED <<pub, until, prevPriv, givenUp>>

\* Retire: first the public key goes aside, then the private one, that takes the
\* place of the one retired before.
RetirePub(o) ==
  /\ At(o, "retirePub")
  /\ IF HasKeypair THEN pub' = None /\ Goto(o, "retirePriv") ELSE End(o) /\ UNCHANGED pub
  /\ UNCHANGED <<priv, prevPriv, until, givenUp>>

RetirePriv(o) ==
  /\ At(o, "retirePriv") /\ Goto(o, "grace")
  /\ IF priv = None THEN UNCHANGED <<priv, prevPriv, givenUp>>
     ELSE prevPriv' = priv /\ priv' = None /\ givenUp' = givenUp \cup {prevPriv}
  /\ UNCHANGED <<pub, until>>

RecordGrace(o) ==
  /\ At(o, "grace") /\ until' = hour + Grace /\ Goto(o, "writePub")
  /\ UNCHANGED <<pub, priv, prevPriv, givenUp>>

\* Write: the public key, that /.well-known/pgp-key.asc hands out at once, and
\* then the private one.
WritePub(o) ==
  /\ At(o, "writePub") /\ pub' = cmd[o].key /\ Goto(o, "writePriv")
  /\ UNCHANGED <<priv, prevPriv, until, givenUp>>

WritePriv(o) ==
  /\ At(o, "writePriv") /\ priv' = cmd[o].key /\ Goto(o, "upsert")
  /\ givenUp' = IF cmd[o].kind = "import" THEN (givenUp \cup {priv}) \ {cmd[o].key}
                ELSE givenUp
  /\ UNCHANGED <<pub, prevPriv, until>>

\* Delete: one file after the other, those of the retired key last.
DeleteFiles(o) ==
  /\ At(o, "deletePub") /\ pub' = None /\ givenUp' = givenUp \cup {priv, prevPriv}
  /\ \/ Goto(o, "revoke") /\ priv' = None /\ prevPriv' = None /\ until' = None
     \/ End(o) /\ priv' \in {priv, None} /\ UNCHANGED <<prevPriv, until>>
     \/ End(o) /\ priv' = None /\ prevPriv' = None /\ UNCHANGED until

\* A private key that a rotation has left behind when it was cut short.
LeftOver(o) ==
  At(o, "writePriv") /\ cmd[o].kind = "generate" /\ priv \notin {None, cmd[o].key}

ChangeFiles(o) ==
  /\ \/ RetirePub(o) \/ RetirePriv(o) \/ RecordGrace(o)
     \/ WritePub(o) \/ WritePriv(o) \/ DeleteFiles(o)
  /\ handedOut' = IF At(o, "writePub") THEN handedOut \cup {cmd[o].key} ELSE handedOut
  /\ mishaps' = IF LeftOver(o) THEN mishaps \cup {"leftover"} ELSE mishaps
  /\ UNCHANGED <<hour, ledger, rows, advertise, exports, uploaded, commands, made, exported>>

\* UpsertPGPKey replaces the row; RevokeAllPGPKeys; then server.yml is saved.
Upsert(o) ==
  /\ At(o, "upsert") /\ rows' = [rows EXCEPT ![cmd[o].key] = [NoRow EXCEPT !.there = TRUE]]
  /\ IF cmd[o].kind = "import" THEN End(o) ELSE Goto(o, "read")
  /\ UNCHANGED advertise
Revoke(o) ==
  /\ At(o, "revoke") /\ Goto(o, "stopAdvertising")
  /\ rows' = [k \in Keys |-> [rows[k] EXCEPT !.revoked = rows[k].there]]
  /\ UNCHANGED advertise
StopAdvertising(o) ==
  At(o, "stopAdvertising") /\ advertise' = FALSE /\ End(o) /\ UNCHANGED rows

ChangeRecords(o) ==
  /\ Upsert(o) \/ Revoke(o) \/ StopAdvertising(o)
  /\ UNCHANGED <<hour, onDisk, ledger, exports, uploaded, commands, made,
                 handedOut, givenUp, exported, mishaps>>

-----------------------------------------------------------------------------
(***************************************************************************)
(* Publication                                                             *)
(***************************************************************************)

\* publishStored reads the public file once more.
ReadToPublish(o) ==
  /\ At(o, "read")
  /\ IF HasKeypair
     THEN cmd' = [cmd EXCEPT ![o].pc = "send", ![o].sent = pub, ![o].todo = Keyservers]
     ELSE End(o)
  /\ UNCHANGED <<ledger, rows, uploaded>>

\* Four attempts at most; an answer may be lost on the way back.
Submit(o) ==
  /\ At(o, "send")
  /\ \/ \E s \in cmd[o].todo, stored, ok \in BOOLEAN :
          /\ ok => stored
          /\ stored => cmd[o].sent \in Keys
          /\ uploaded' = IF stored THEN [uploaded EXCEPT ![s] = @ \cup {cmd[o].sent}]
                         ELSE uploaded
          /\ cmd' = [cmd EXCEPT ![o].todo = @ \ {s}, ![o].done = IF ok THEN @ \cup {s} ELSE @]
     \/ cmd[o].todo = {} /\ Goto(o, "ledger") /\ UNCHANGED uploaded
  /\ UNCHANGED <<ledger, rows>>

\* Fault: the list of the key before is kept.
Continued(old, key, done) == [key |-> key, published |-> old.published \cup done]

\* SaveKeyserverState: another fingerprint begins a list of its own.
Recorded(old, key, done) ==
  IF old.key = key THEN [old EXCEPT !.published = @ \cup done]
  ELSE [key |-> key, published |-> done]

SaveKeyserverState(o) ==
  /\ At(o, "ledger") /\ ledger' = Recorded(ledger, cmd[o].key, cmd[o].done)
  /\ IF cmd[o].done = {} THEN End(o) ELSE Goto(o, "getRow")
  /\ UNCHANGED <<rows, uploaded>>

\* The row is read, and put back whole.
GetRow(o) ==
  /\ At(o, "getRow")
  /\ IF rows[cmd[o].key].there
     THEN cmd' = [cmd EXCEPT ![o].pc = "putRow", ![o].row = rows[cmd[o].key]]
     ELSE End(o)
  /\ UNCHANGED <<ledger, rows, uploaded>>
PutRow(o) ==
  /\ At(o, "putRow") /\ End(o)
  /\ rows' = [rows EXCEPT ![cmd[o].key] = [cmd[o].row EXCEPT !.published = @ \cup cmd[o].done]]
  /\ UNCHANGED <<ledger, uploaded>>

PublishStep(o) ==
  /\ ReadToPublish(o) \/ Submit(o) \/ SaveKeyserverState(o) \/ GetRow(o) \/ PutRow(o)
  /\ UNCHANGED <<hour, onDisk, advertise, exports, commands, made,
                 handedOut, givenUp, exported, mishaps>>

-----------------------------------------------------------------------------
(***************************************************************************)
(* Exports, the clock, the server, and the end of commands                 *)
(***************************************************************************)

\* After the prompts the key is read and written to the path, ...
WriteExport(o) ==
  /\ At(o, "prompt")
  /\ IF Readable(priv)
     THEN /\ Goto(o, "recordExport") /\ exported' = [exported EXCEPT ![o] = hour]
          /\ mishaps' = IF exported[o] # None /\ hour - exported[o] < Hour
                       THEN mishaps \cup {"hasty"} ELSE mishaps
     ELSE End(o) /\ UNCHANGED <<exported, mishaps>>
  /\ UNCHANGED exports
\* ... and the state file is read and written back with this export.
ReadExports(o) ==
  /\ At(o, "recordExport")
  /\ cmd' = [cmd EXCEPT ![o].pc = "writeExports", ![o].seen = exports]
  /\ UNCHANGED <<exports, exported, mishaps>>
WriteExports(o) ==
  /\ At(o, "writeExports") /\ exports' = [cmd[o].seen EXCEPT ![o] = hour] /\ End(o)
  /\ UNCHANGED <<exported, mishaps>>

ExportStep(o) ==
  /\ WriteExport(o) \/ ReadExports(o) \/ WriteExports(o)
  /\ UNCHANGED <<hour, onDisk, ledger, rows, advertise, uploaded, commands, made,
                 handedOut, givenUp>>

\* A step fails, or the process dies; a file being written may be cut short.
Stop(o) ==
  /\ ~At(o, "idle") /\ End(o)
  /\ pub'  \in IF At(o, "writePub") THEN {pub, Torn} ELSE {pub}
  /\ priv' \in IF At(o, "writePriv") THEN {priv, Torn} ELSE {priv}
  /\ mishaps' = IF At(o, "writePriv") THEN mishaps \cup {"cut"}
               ELSE IF cmd[o].pc \in {"recordExport", "writeExports"}
               THEN mishaps \cup {"unrecorded"} ELSE mishaps
  /\ UNCHANGED <<hour, prevPriv, until, ledger, rows, advertise, exports, uploaded,
                 commands, made, handedOut, givenUp, exported>>

Tick ==
  /\ hour < MaxHours /\ hour' = hour + 1
  /\ UNCHANGED <<onDisk, ledger, rows, advertise, exports, uploaded, cmd, commands,
                 made, handedOut, givenUp, exported, mishaps>>

\* What comes of changes that clash, or of a private key cut short, is not followed.
Next ==
  /\ mishaps \cap {"clash", "cut"} = {}
  /\ \/ Tick
     \/ \E o \in Operators :
          \/ Generate(o) \/ Rotate(o) \/ Publish(o) \/ Import(o) \/ Delete(o) \/ ExportPrivate(o)
          \/ ChangeFiles(o) \/ ChangeRecords(o) \/ PublishStep(o) \/ ExportStep(o) \/ Stop(o)

Spec == Init /\ [][Next]_keysVars

-----------------------------------------------------------------------------
Writing == {cmd[o].key : o \in {p \in Operators : At(p, "writePriv")}}

\* What was encrypted to a key that the server has handed out can be read, with
\* the key or the one retired before it, whatever steps of rotations, imports
\* and deletions failed, until a command deletes the key, imports over it or
\* retires another; unless changes overlap, the private half of a new key is
\* not written to its end, or generate finds one that a rotation left.
KeysHeld ==
  mishaps \cap {"clash", "cut", "leftover"} = {} =>
    handedOut \subseteq givenUp \cup Writing \cup {priv, prevPriv}

\* What the state file and the rows say was published where was accepted there,
\* and no operator has the private key twice within an hour, unless changes
\* overlap or a command dies between a step and its record.
RecordsTrue ==
  mishaps \cap {"clash", "cut"} = {} =>
    /\ \A s \in ledger.published : ledger.key \in uploaded[s]
    /\ \A k \in Keys : \A s \in rows[k].published : k \in uploaded[s]
    /\ "unrecorded" \notin mishaps => "hasty" \notin mishaps
=============================================================================
