----------------------------- MODULE KeysProofs ------------------------------
(***************************************************************************)
(* Proofs about Keys: no key that was handed out is lost by accident, and  *)
(* the records of publications and exports are true.                       *)
(***************************************************************************)
EXTENDS Keys, TLAPS

\* What the bound must be for the files to be told apart.
BoundIsNat == MaxKeys \in Nat

Files   == Keys \cup {None, Torn}
RowsOf  == [there : BOOLEAN, revoked : BOOLEAN, published : SUBSET Keyservers]
Steps   == {"idle", "retirePub", "retirePriv", "grace", "writePub", "writePriv", "upsert",
            "deletePub", "revoke", "stopAdvertising", "read", "send", "ledger", "getRow",
            "putRow", "prompt", "recordExport", "writeExports"}
Kinds   == Changing \cup {"", "publish", "export"}
Commands ==
  [pc : Steps, kind : Kinds, key : Files, sent : Files, todo : SUBSET Keyservers,
   done : SUBSET Keyservers, row : RowsOf, seen : [Operators -> Nat]]

TypeOK ==
  /\ hour \in Nat \ {0} /\ until \in Nat
  /\ pub \in Files /\ priv \in Files /\ prevPriv \in Files
  /\ ledger \in [key : Files, published : SUBSET Keyservers]
  /\ rows \in [Keys -> RowsOf] /\ advertise \in BOOLEAN
  /\ exports \in [Operators -> Nat] /\ exported \in [Operators -> Nat]
  /\ uploaded \in [Keyservers -> SUBSET Keys]
  /\ cmd \in [Operators -> Commands]
  /\ commands \in Nat /\ made \in 0 .. MaxKeys
  /\ handedOut \subseteq Keys /\ givenUp \subseteq Files
  /\ mishaps \subseteq {"clash", "leftover", "cut", "hasty", "unrecorded"}

\* Which commands come to a step, and which of them have a key.
Form(c) ==
  /\ c.pc = "idle" => c.kind = ""
  /\ c.pc \in {"retirePub", "retirePriv", "grace"} => c.kind = "rotate"
  /\ c.pc \in {"writePub", "writePriv", "upsert"} => c.kind \in {"generate", "rotate", "import"}
  /\ c.pc \in {"deletePub", "revoke", "stopAdvertising"} => c.kind = "delete"
  /\ c.pc \in {"read", "send", "ledger", "getRow", "putRow"} =>
       c.kind \in {"generate", "rotate", "publish"}
  /\ c.pc \in {"prompt", "recordExport", "writeExports"} => c.kind = "export"
  /\ c.kind \in {"generate", "rotate", "import", "publish"} => c.key \in Keys

TypeInv == TypeOK /\ \A o \in Operators : Form(cmd[o])

Undisturbed == mishaps \cap {"clash", "cut"} = {}

\* A command that changes the key has no other beside it but exports, and these
\* come one at a time.
Alone ==
  \A o, p \in Operators : o # p =>
    /\ cmd[o].kind \in Changing => cmd[p].kind \in {"", "export"}
    /\ cmd[o].kind = "export" => cmd[p].kind # "export"

\* The public file is that of the private one, or that of the key that a command
\* writes or has written; a rotation writes where it has taken away.
Paired ==
  /\ (\A o \in Operators : cmd[o].pc # "writePriv") => pub \in {None, Torn, priv}
  /\ \A o \in Operators :
       /\ cmd[o].pc \in {"writePriv", "upsert", "read"} => pub \in {Torn, cmd[o].key}
       /\ cmd[o].pc = "retirePriv" => pub = None
       /\ cmd[o].kind = "rotate" /\ cmd[o].pc \in {"grace", "writePub", "writePriv"} =>
            priv = None

\* What a command knows of uploads is true.
SentTrue ==
  \A o \in Operators :
    /\ cmd[o].pc = "send" => cmd[o].sent \in {Torn, cmd[o].key}
    /\ \A s \in cmd[o].done \cup cmd[o].row.published : cmd[o].key \in uploaded[s]

\* Every export is in the state file, or is about to come there.
ExportsKept ==
  "unrecorded" \notin mishaps =>
    /\ "hasty" \notin mishaps
    /\ \A o \in Operators :
         /\ exported[o] <= hour
         /\ exported[o] # None /\ cmd[o].pc \notin {"recordExport", "writeExports"} =>
              exported[o] <= exports[o]
         /\ cmd[o].pc = "prompt" => exported[o] < hour
         /\ cmd[o].pc = "writeExports" => cmd[o].seen = exports

IInv ==
  /\ TypeInv
  /\ Undisturbed => Alone /\ Paired /\ SentTrue /\ ExportsKept
  /\ KeysHeld /\ RecordsTrue

-----------------------------------------------------------------------------
(***************************************************************************)
(* What a step does to the commands                                        *)
(***************************************************************************)

LEMMA FileNames ==
  ASSUME BoundIsNat
  PROVE  /\ None \in Files /\ Torn \in Files /\ Keys \subseteq Files
         /\ None \notin Keys /\ Torn \notin Keys /\ None # Torn
         /\ Keys \subseteq Nat /\ Files \subseteq Nat
BY DEF BoundIsNat, Files, None, Torn, Keys

LEMMA IdleType ==
  ASSUME BoundIsNat
  PROVE  /\ Idle \in Commands /\ NoRow \in RowsOf /\ NoRow.published = {}
         /\ Idle.pc = "idle" /\ Idle.kind = "" /\ Idle.done = {} /\ Idle.row = NoRow
         /\ Idle.key = None
BY FileNames DEF Idle, NoRow, Commands, RowsOf, Steps, Kinds, None

\* The command of o alone takes the step.
Others(o) == \A p \in Operators \ {o} : cmd'[p] = cmd[p]

LEMMA GotoFacts ==
  ASSUME TypeOK, NEW o \in Operators, NEW pc \in Steps, Goto(o, pc)
  PROVE  /\ cmd' \in [Operators -> Commands] /\ Others(o)
         /\ cmd'[o].pc = pc /\ cmd'[o].kind = cmd[o].kind /\ cmd'[o].key = cmd[o].key
         /\ cmd'[o].sent = cmd[o].sent /\ cmd'[o].todo = cmd[o].todo
         /\ cmd'[o].done = cmd[o].done /\ cmd'[o].row = cmd[o].row
         /\ cmd'[o].seen = cmd[o].seen
BY DEF TypeOK, Goto, Others, Commands

LEMMA EndFacts ==
  ASSUME BoundIsNat, TypeOK, NEW o \in Operators, End(o)
  PROVE  cmd' \in [Operators -> Commands] /\ Others(o) /\ cmd'[o] = Idle
BY IdleType DEF TypeOK, End, Others

LEMMA StartFacts ==
  ASSUME BoundIsNat, TypeOK, NEW o \in Operators, NEW kind \in Kinds, NEW pc \in Steps,
         NEW key \in Files, Start(o, kind, pc, key)
  PROVE  /\ cmd' \in [Operators -> Commands] /\ Others(o)
         /\ cmd[o].pc = "idle"
         /\ cmd'[o].pc = pc /\ cmd'[o].kind = kind /\ cmd'[o].key = key
         /\ cmd'[o].done = {} /\ cmd'[o].row = NoRow
<1> DEFINE new == [Idle EXCEPT !.pc = pc, !.kind = kind, !.key = key]
<1>1. /\ new \in Commands /\ new.pc = pc /\ new.kind = kind /\ new.key = key
      /\ new.done = {} /\ new.row = NoRow
  BY IdleType DEF Commands
<1>2. cmd' = [cmd EXCEPT ![o] = new] /\ cmd[o].pc = "idle"
  BY DEF Start, At
<1> HIDE DEF new
<1> QED
  BY <1>1, <1>2 DEF TypeOK, Others

\* How the commands begin.
LEMMA Starts ==
  ASSUME BoundIsNat, TypeOK, NEW o \in Operators,
         Generate(o) \/ Rotate(o) \/ Publish(o) \/ Import(o) \/ Delete(o) \/ ExportPrivate(o)
  PROVE  \E kind \in Kinds \ {""}, pc \in Steps \ {"idle"}, key \in Files :
           /\ Start(o, kind, pc, key)
           /\ pc \notin {"retirePriv", "grace", "writePriv", "upsert", "send", "ledger", "getRow",
                         "putRow", "recordExport", "writeExports", "revoke", "stopAdvertising"}
           /\ pc = "retirePub" => kind = "rotate"
           /\ pc = "writePub" => kind \in {"generate", "import"}
           /\ pc = "deletePub" => kind = "delete"
           /\ pc = "read" => kind = "publish" /\ pub # None /\ key = priv
           /\ pc = "prompt" =>
                kind = "export" /\ (exports[o] = None \/ hour - exports[o] >= Hour)
           /\ kind \in {"generate", "rotate", "import", "publish"} => key \in Keys
           /\ key \in 0 .. MaxKeys
<1>1. made + 1 <= MaxKeys => made + 1 \in Keys
  BY DEF TypeOK, Keys, BoundIsNat
<1>2. None \in Files /\ None \in 0 .. MaxKeys /\ Keys \subseteq 0 .. MaxKeys /\ Keys \subseteq Files
  BY FileNames DEF None, BoundIsNat, Keys
<1>3. /\ \A k \in Changing \cup {"publish", "export"} : k \in Kinds \ {""}
      /\ \A pc \in {"writePub", "retirePub", "read", "deletePub", "prompt"} :
           pc \in Steps \ {"idle"}
  BY DEF Kinds, Changing, Steps
<1>4. CASE Generate(o)
  <2>1. made + 1 \in Keys /\ Start(o, "generate", "writePub", made + 1)
    BY <1>1, <1>4 DEF Generate, TypeOK, BoundIsNat
  <2> QED
    BY <1>2, <1>3, <2>1 DEF Changing
<1>5. CASE Rotate(o)
  <2>1. made + 1 \in Keys /\ Start(o, "rotate", "retirePub", made + 1)
    BY <1>1, <1>5 DEF Rotate, TypeOK, BoundIsNat
  <2> QED
    BY <1>2, <1>3, <2>1 DEF Changing
<1>6. CASE Publish(o)
  BY <1>2, <1>3, <1>6 DEF Publish, HasKeypair, Readable
<1>7. CASE Import(o)
  <2>1. PICK k \in Keys : Start(o, "import", "writePub", k)
    BY <1>7 DEF Import
  <2> QED
    BY <1>2, <1>3, <2>1 DEF Changing
<1>8. CASE Delete(o)
  BY <1>2, <1>3, <1>8 DEF Delete, Changing
<1>9. CASE ExportPrivate(o)
  BY <1>2, <1>3, <1>9 DEF ExportPrivate, LastExport
<1> QED
  BY <1>4, <1>5, <1>6, <1>7, <1>8, <1>9

\* What a command keeps when it goes on.
Keeps(o) ==
  /\ cmd' \in [Operators -> Commands] /\ Others(o)
  /\ cmd'[o].kind = cmd[o].kind /\ cmd'[o].key = cmd[o].key

LEMMA ReadFacts ==
  ASSUME BoundIsNat, TypeOK, NEW o \in Operators, ReadToPublish(o)
  PROVE  /\ cmd' \in [Operators -> Commands] /\ Others(o)
         /\ \/ /\ Keeps(o) /\ cmd'[o].pc = "send" /\ cmd'[o].sent = pub /\ pub # None
               /\ cmd'[o].done = cmd[o].done /\ cmd'[o].row = cmd[o].row
            \/ cmd'[o] = Idle
<1>1. CASE HasKeypair
  <2>1. cmd' = [cmd EXCEPT ![o] = [cmd[o] EXCEPT !.pc = "send", !.sent = pub, !.todo = Keyservers]]
    BY <1>1 DEF ReadToPublish, TypeOK
  <2>2. [cmd[o] EXCEPT !.pc = "send", !.sent = pub, !.todo = Keyservers] \in Commands
    <3>1. cmd[o] \in Commands /\ pub \in Files
      BY DEF TypeOK
    <3> QED
      BY <3>1 DEF Commands, Steps
  <2> QED
    BY <1>1, <2>1, <2>2 DEF TypeOK, Others, Keeps, Commands, HasKeypair
<1>2. CASE ~HasKeypair
  BY <1>2, EndFacts DEF ReadToPublish
<1> QED
  BY <1>1, <1>2

\* A keyserver answers, or does not.
Sent(o, s, ok) ==
  [cmd[o] EXCEPT !.todo = @ \ {s}, !.done = IF ok THEN @ \cup {s} ELSE @]

LEMMA SubmitFacts ==
  ASSUME TypeOK, NEW o \in Operators, Submit(o)
  PROVE  \/ Goto(o, "ledger") /\ UNCHANGED uploaded
         \/ \E s \in Keyservers, stored, ok \in BOOLEAN :
              /\ ok => stored
              /\ stored => cmd[o].sent \in Keys
              /\ uploaded' = IF stored THEN [uploaded EXCEPT ![s] = @ \cup {cmd[o].sent}]
                             ELSE uploaded
              /\ Keeps(o) /\ cmd'[o].pc = cmd[o].pc /\ cmd'[o].sent = cmd[o].sent
              /\ cmd'[o].row = cmd[o].row
              /\ cmd'[o].done = IF ok THEN cmd[o].done \cup {s} ELSE cmd[o].done
<1>1. CASE Goto(o, "ledger") /\ UNCHANGED uploaded
  BY <1>1
<1>2. ASSUME NEW s \in cmd[o].todo, NEW stored \in BOOLEAN, NEW ok \in BOOLEAN,
             cmd' = [cmd EXCEPT ![o].todo = @ \ {s},
                                ![o].done = IF ok THEN @ \cup {s} ELSE @]
      PROVE  /\ s \in Keyservers
             /\ Keeps(o) /\ cmd'[o].pc = cmd[o].pc /\ cmd'[o].sent = cmd[o].sent
             /\ cmd'[o].row = cmd[o].row
             /\ cmd'[o].done = IF ok THEN cmd[o].done \cup {s} ELSE cmd[o].done
  <2>1. s \in Keyservers /\ cmd[o] \in Commands
    BY DEF TypeOK, Commands
  <2>2. Sent(o, s, ok) \in Commands
    BY <2>1 DEF Sent, Commands
  <2>3. /\ Sent(o, s, ok).kind = cmd[o].kind /\ Sent(o, s, ok).key = cmd[o].key
        /\ Sent(o, s, ok).pc = cmd[o].pc /\ Sent(o, s, ok).sent = cmd[o].sent
        /\ Sent(o, s, ok).row = cmd[o].row
        /\ Sent(o, s, ok).done = IF ok THEN cmd[o].done \cup {s} ELSE cmd[o].done
    BY <2>1 DEF Sent, Commands
  <2>4. cmd' = [cmd EXCEPT ![o] = Sent(o, s, ok)]
    BY <1>2 DEF Sent, TypeOK
  <2>5. cmd' \in [Operators -> Commands] /\ Others(o) /\ cmd'[o] = Sent(o, s, ok)
    BY <2>2, <2>4 DEF TypeOK, Others
  <2> QED
    BY <2>1, <2>3, <2>5 DEF Keeps
<1> QED
  BY <1>1, <1>2 DEF Submit

LEMMA GetRowFacts ==
  ASSUME BoundIsNat, TypeOK, NEW o \in Operators, GetRow(o), cmd[o].key \in Keys
  PROVE  /\ cmd' \in [Operators -> Commands] /\ Others(o)
         /\ \/ /\ Keeps(o) /\ cmd'[o].pc = "putRow" /\ cmd'[o].row = rows[cmd[o].key]
               /\ cmd'[o].done = cmd[o].done
            \/ cmd'[o] = Idle
<1>1. CASE rows[cmd[o].key].there
  <2>1. cmd' = [cmd EXCEPT ![o] = [cmd[o] EXCEPT !.pc = "putRow", !.row = rows[cmd[o].key]]]
    BY <1>1 DEF GetRow, TypeOK
  <2>2. [cmd[o] EXCEPT !.pc = "putRow", !.row = rows[cmd[o].key]] \in Commands
    BY ZenonT(60) DEF TypeOK, Commands, Steps
  <2> QED
    BY <1>1, <2>1, <2>2 DEF TypeOK, Others, Keeps, Commands
<1>2. CASE ~rows[cmd[o].key].there
  BY <1>2, EndFacts DEF GetRow
<1> QED
  BY <1>1, <1>2

LEMMA ReadExportsFacts ==
  ASSUME TypeOK, NEW o \in Operators, ReadExports(o)
  PROVE  /\ Keeps(o) /\ cmd'[o].pc = "writeExports" /\ cmd'[o].seen = exports
         /\ cmd'[o].done = cmd[o].done /\ cmd'[o].row = cmd[o].row
<1>1. cmd' = [cmd EXCEPT ![o] = [cmd[o] EXCEPT !.pc = "writeExports", !.seen = exports]]
  BY DEF ReadExports, TypeOK
<1>2. [cmd[o] EXCEPT !.pc = "writeExports", !.seen = exports] \in Commands
  BY ZenonT(60) DEF TypeOK, Commands, Steps
<1> QED
  BY <1>1, <1>2 DEF TypeOK, Others, Keeps, Commands

-----------------------------------------------------------------------------
(***************************************************************************)
(* Types                                                                   *)
(***************************************************************************)

\* The steps that a command goes on to, one by one: what becomes of commands.
LEMMA CommandStep ==
  ASSUME BoundIsNat, TypeInv, [Next]_keysVars
  PROVE  \/ cmd' = cmd
         \/ \E o \in Operators :
              /\ cmd' \in [Operators -> Commands] /\ Others(o)
              /\ Form(cmd'[o])
              /\ \/ cmd[o].pc = "idle" /\ ("clash" \in mishaps' \/ ~Clashes(cmd'[o].kind))
                 \/ cmd'[o] = Idle
                 \/ Keeps(o)
<1> SUFFICES ASSUME NEW o \in Operators,
                    \/ Generate(o) \/ Rotate(o) \/ Publish(o) \/ Import(o) \/ Delete(o)
                    \/ ExportPrivate(o) \/ ChangeFiles(o) \/ ChangeRecords(o) \/ PublishStep(o)
                    \/ ExportStep(o) \/ Stop(o)
             PROVE  /\ cmd' \in [Operators -> Commands] /\ Others(o)
                    /\ Form(cmd'[o])
                    /\ \/ cmd[o].pc = "idle" /\ ("clash" \in mishaps' \/ ~Clashes(cmd'[o].kind))
                       \/ cmd'[o] = Idle
                       \/ Keeps(o)
  BY DEF Next, Tick, keysVars
<1> DEFINE Goal == /\ cmd' \in [Operators -> Commands] /\ Others(o)
                   /\ Form(cmd'[o])
                   /\ \/ cmd[o].pc = "idle" /\ ("clash" \in mishaps' \/ ~Clashes(cmd'[o].kind))
                      \/ cmd'[o] = Idle
                      \/ Keeps(o)
<1>0. TypeOK /\ Form(cmd[o])
  BY DEF TypeInv
<1>1. ASSUME cmd' \in [Operators -> Commands], Others(o), cmd'[o] = Idle
      PROVE  Goal
  BY <1>1, IdleType DEF Form, Changing
<1>2. ASSUME End(o)
      PROVE  Goal
  BY <1>0, <1>1, <1>2, EndFacts
<1>3. ASSUME NEW pc \in Steps, Goto(o, pc),
             Keeps(o) /\ cmd'[o].pc = pc => Form(cmd'[o])
      PROVE  Goal
  BY <1>0, <1>3, GotoFacts DEF Keeps
<1>4. CASE \/ Generate(o) \/ Rotate(o) \/ Publish(o) \/ Import(o) \/ Delete(o)
           \/ ExportPrivate(o)
  <2>1. PICK kind \in Kinds \ {""}, pc \in Steps \ {"idle"}, key \in Files :
          /\ Start(o, kind, pc, key)
          /\ pc \notin {"retirePriv", "grace", "writePriv", "upsert", "send", "ledger", "getRow",
                        "putRow", "recordExport", "writeExports", "revoke", "stopAdvertising"}
          /\ pc = "retirePub" => kind = "rotate"
          /\ pc = "writePub" => kind \in {"generate", "import"}
          /\ pc = "deletePub" => kind = "delete"
          /\ pc = "read" => kind = "publish"
          /\ pc = "prompt" => kind = "export"
          /\ kind \in {"generate", "rotate", "import", "publish"} => key \in Keys
    BY <1>0, <1>4, Starts
  <2> QED
    <3>1. /\ cmd' \in [Operators -> Commands] /\ Others(o) /\ cmd[o].pc = "idle"
          /\ cmd'[o].pc = pc /\ cmd'[o].kind = kind /\ cmd'[o].key = key
      BY <1>0, <2>1, StartFacts
    <3>2. Form(cmd'[o])
      BY <2>1, <3>1 DEF Form
    <3>3. "clash" \in mishaps' \/ ~Clashes(cmd'[o].kind)
      BY <2>1, <3>1 DEF Start
    <3> QED
      BY <3>1, <3>2, <3>3
<1>5. CASE ChangeFiles(o)
  <2>1. CASE RetirePub(o)
    BY <1>0, <1>2, <1>3, <2>1 DEF RetirePub, At, Form, Keeps, Steps
  <2>2. CASE RetirePriv(o)
    BY <1>0, <1>3, <2>2 DEF RetirePriv, At, Form, Keeps, Steps
  <2>3. CASE RecordGrace(o)
    BY <1>0, <1>3, <2>3 DEF RecordGrace, At, Form, Keeps, Steps
  <2>4. CASE WritePub(o)
    BY <1>0, <1>3, <2>4 DEF WritePub, At, Form, Keeps, Steps
  <2>5. CASE WritePriv(o)
    BY <1>0, <1>3, <2>5 DEF WritePriv, At, Form, Keeps, Steps
  <2>6. CASE DeleteFiles(o)
    BY <1>0, <1>2, <1>3, <2>6 DEF DeleteFiles, At, Form, Keeps, Steps
  <2> QED
    BY <1>5, <2>1, <2>2, <2>3, <2>4, <2>5, <2>6 DEF ChangeFiles
<1>6. CASE ChangeRecords(o)
  <2>1. CASE Upsert(o)
    BY <1>0, <1>2, <1>3, <2>1 DEF Upsert, At, Form, Keeps, Steps
  <2>2. CASE Revoke(o)
    BY <1>0, <1>3, <2>2 DEF Revoke, At, Form, Keeps, Steps
  <2>3. CASE StopAdvertising(o)
    BY <1>2, <2>3 DEF StopAdvertising
  <2> QED
    BY <1>6, <2>1, <2>2, <2>3 DEF ChangeRecords
<1>7. CASE PublishStep(o)
  <2>1. CASE ReadToPublish(o)
    BY <1>0, <1>1, <2>1, ReadFacts DEF ReadToPublish, At, Form, Keeps
  <2>2. CASE Submit(o)
    <3>1. cmd[o].pc = "send"
      BY <2>2 DEF Submit, At
    <3>2. CASE Goto(o, "ledger")
      BY <1>0, <1>3, <3>1, <3>2 DEF Form, Keeps, Steps
    <3>3. CASE Keeps(o) /\ cmd'[o].pc = cmd[o].pc
      BY <1>0, <3>1, <3>3 DEF Form, Keeps
    <3>4. Goto(o, "ledger") \/ (Keeps(o) /\ cmd'[o].pc = cmd[o].pc)
      BY <1>0, <2>2, SubmitFacts
    <3> QED
      BY <3>2, <3>3, <3>4
  <2>3. CASE SaveKeyserverState(o)
    BY <1>0, <1>2, <1>3, <2>3 DEF SaveKeyserverState, At, Form, Keeps, Steps
  <2>4. CASE GetRow(o)
    <3>1. cmd[o].pc = "getRow" /\ cmd[o].key \in Keys
      BY <1>0, <2>4 DEF GetRow, At, Form
    <3> QED
      BY <1>0, <1>1, <2>4, <3>1, GetRowFacts DEF Form, Keeps
  <2>5. CASE PutRow(o)
    BY <1>2, <2>5 DEF PutRow
  <2> QED
    BY <1>7, <2>1, <2>2, <2>3, <2>4, <2>5 DEF PublishStep
<1>8. CASE ExportStep(o)
  <2>1. CASE WriteExport(o)
    BY <1>0, <1>2, <1>3, <2>1 DEF WriteExport, At, Form, Keeps, Steps
  <2>2. CASE ReadExports(o)
    BY <1>0, <2>2, ReadExportsFacts DEF ReadExports, At, Form, Keeps
  <2>3. CASE WriteExports(o)
    BY <1>2, <2>3 DEF WriteExports
  <2> QED
    BY <1>8, <2>1, <2>2, <2>3 DEF ExportStep
<1>9. CASE Stop(o)
  BY <1>2, <1>9 DEF Stop
<1> QED
  BY <1>4, <1>5, <1>6, <1>7, <1>8, <1>9

LEMMA TypeStep ==
  ASSUME BoundIsNat, TypeInv, [Next]_keysVars
  PROVE  TypeInv'
<1>0. TypeOK /\ (\A o \in Operators : Form(cmd[o]))
  BY DEF TypeInv
<1>1. cmd' \in [Operators -> Commands] /\ \A o \in Operators : Form(cmd'[o])
  BY <1>0, CommandStep DEF Others, TypeOK
<1>2. SUFFICES TypeOK'
  BY <1>1 DEF TypeInv
<1> USE DEF TypeOK
<1>3. CASE UNCHANGED keysVars
  BY <1>0, <1>3 DEF keysVars, onDisk
<1>4. CASE Tick
  BY <1>0, <1>1, <1>4 DEF Tick, onDisk
<1>5. ASSUME NEW o \in Operators,
             \/ Generate(o) \/ Rotate(o) \/ Publish(o) \/ Import(o) \/ Delete(o)
             \/ ExportPrivate(o)
      PROVE  TypeOK'
  <2>1. PICK kind \in Kinds, pc \in Steps, key \in Files :
          Start(o, kind, pc, key) /\ key \in 0 .. MaxKeys
    BY <1>0, <1>5, Starts
  <2> QED
    BY <1>0, <1>1, <2>1 DEF Start, onDisk
<1>6. ASSUME NEW o \in Operators, ChangeFiles(o)
      PROVE  TypeOK'
  <2>1. /\ UNCHANGED <<hour, ledger, rows, advertise, exports, uploaded, commands, made, exported>>
        /\ mishaps' \subseteq {"clash", "leftover", "cut", "hasty", "unrecorded"}
    BY <1>0, <1>6 DEF ChangeFiles
  <2>2. cmd[o].pc = "writePub" => cmd[o].key \in Keys
    BY <1>0 DEF Form
  <2>3. handedOut' \subseteq Keys
    BY <1>0, <1>6, <2>2 DEF ChangeFiles, At
  <2>4. cmd[o].key \in Files
    BY <1>0 DEF Commands
  <2>5. /\ pub' \in Files /\ priv' \in Files /\ prevPriv' \in Files /\ until' \in Nat
        /\ givenUp' \subseteq Files
    <3>1. CASE RetirePub(o) \/ RetirePriv(o) \/ RecordGrace(o)
      BY <1>0, <3>1, FileNames DEF RetirePub, RetirePriv, RecordGrace, Grace
    <3>2. CASE WritePub(o) \/ WritePriv(o)
      BY <1>0, <2>4, <3>2 DEF WritePub, WritePriv
    <3>3. CASE DeleteFiles(o)
      BY <1>0, <3>3, FileNames DEF DeleteFiles, None
    <3> QED
      BY <1>6, <3>1, <3>2, <3>3 DEF ChangeFiles
  <2> QED
    BY <1>0, <1>1, <2>1, <2>3, <2>5
<1>7. ASSUME NEW o \in Operators, ChangeRecords(o)
      PROVE  TypeOK'
  <2>1. UNCHANGED <<hour, onDisk, ledger, exports, uploaded, commands, made, handedOut, givenUp,
                    exported, mishaps>>
    BY <1>7 DEF ChangeRecords
  <2>2. rows' \in [Keys -> RowsOf] /\ advertise' \in BOOLEAN
    <3>1. CASE Upsert(o)
      BY <1>0, <3>1, IdleType DEF Upsert, RowsOf
    <3>2. CASE Revoke(o)
      BY <1>0, <3>2 DEF Revoke, RowsOf
    <3>3. CASE StopAdvertising(o)
      BY <1>0, <3>3 DEF StopAdvertising
    <3> QED
      BY <1>7, <3>1, <3>2, <3>3 DEF ChangeRecords
  <2> QED
    BY <1>0, <1>1, <2>1, <2>2 DEF onDisk
<1>8. ASSUME NEW o \in Operators, PublishStep(o)
      PROVE  TypeOK'
  <2>1. UNCHANGED <<hour, onDisk, advertise, exports, commands, made, handedOut, givenUp,
                    exported, mishaps>>
    BY <1>8 DEF PublishStep
  <2>2. cmd[o].key \in Files /\ cmd[o].done \subseteq Keyservers /\ cmd[o].row \in RowsOf
    BY <1>0 DEF Commands
  <2>3. /\ ledger' \in [key : Files, published : SUBSET Keyservers]
        /\ rows' \in [Keys -> RowsOf] /\ uploaded' \in [Keyservers -> SUBSET Keys]
    <3>1. CASE ReadToPublish(o) \/ GetRow(o)
      BY <1>0, <3>1 DEF ReadToPublish, GetRow
    <3>2. CASE Submit(o)
      <4>1. ledger' = ledger /\ rows' = rows
        BY <3>2 DEF Submit
      <4>2. uploaded' \in [Keyservers -> SUBSET Keys]
        <5>1. CASE UNCHANGED uploaded
          BY <1>0, <5>1
        <5>2. ASSUME NEW s \in Keyservers, cmd[o].sent \in Keys,
                     uploaded' = [uploaded EXCEPT ![s] = @ \cup {cmd[o].sent}]
              PROVE  uploaded' \in [Keyservers -> SUBSET Keys]
          BY <1>0, <5>2
        <5> QED
          BY <1>0, <3>2, <5>1, <5>2, SubmitFacts
      <4> QED
        BY <1>0, <4>1, <4>2
    <3>3. CASE SaveKeyserverState(o)
      <4>1. Recorded(ledger, cmd[o].key, cmd[o].done) \in
              [key : Files, published : SUBSET Keyservers]
        BY <1>0, <2>2 DEF Recorded
      <4> QED
        BY <1>0, <3>3, <4>1 DEF SaveKeyserverState
    <3>4. CASE PutRow(o)
      <4>1. [cmd[o].row EXCEPT !.published = @ \cup cmd[o].done] \in RowsOf
        BY <2>2 DEF RowsOf
      <4> QED
        BY <1>0, <3>4, <4>1 DEF PutRow
    <3> QED
      BY <1>8, <3>1, <3>2, <3>3, <3>4 DEF PublishStep
  <2> QED
    BY <1>0, <1>1, <2>1, <2>3 DEF onDisk
<1>9. ASSUME NEW o \in Operators, ExportStep(o)
      PROVE  TypeOK'
  <2>1. UNCHANGED <<hour, onDisk, ledger, rows, advertise, uploaded, commands, made, handedOut,
                    givenUp>>
    BY <1>9 DEF ExportStep
  <2>2. cmd[o].seen \in [Operators -> Nat]
    BY <1>0 DEF Commands
  <2>3. exports' \in [Operators -> Nat] /\ exported' \in [Operators -> Nat]
    BY <1>0, <1>9, <2>2 DEF ExportStep, WriteExport, ReadExports, WriteExports
  <2>4. mishaps' \subseteq {"clash", "leftover", "cut", "hasty", "unrecorded"}
    BY <1>0, <1>9 DEF ExportStep, WriteExport, ReadExports, WriteExports
  <2> QED
    BY <1>0, <1>1, <2>1, <2>3, <2>4 DEF onDisk
<1>10. ASSUME NEW o \in Operators, Stop(o)
       PROVE  TypeOK'
  BY <1>0, <1>1, <1>10, FileNames DEF Stop
<1> QED
  BY <1>3, <1>4, <1>5, <1>6, <1>7, <1>8, <1>9, <1>10 DEF Next

-----------------------------------------------------------------------------
(***************************************************************************)
(* Who runs beside whom                                                    *)
(***************************************************************************)

LEMMA FollowedStep == [Next]_keysVars /\ Undisturbed' => Undisturbed
BY DEF Next, keysVars, Undisturbed

LEMMA AloneStep ==
  ASSUME BoundIsNat, TypeInv, Alone, [Next]_keysVars, Undisturbed'
  PROVE  Alone'
<1>1. CASE cmd' = cmd
  BY <1>1 DEF Alone
<1>2. ASSUME NEW o \in Operators, Others(o),
             \/ cmd[o].pc = "idle" /\ ("clash" \in mishaps' \/ ~Clashes(cmd'[o].kind))
             \/ cmd'[o] = Idle
             \/ Keeps(o)
      PROVE  Alone'
  <2>1. CASE cmd'[o].kind \in {"", cmd[o].kind}
    BY <1>2, <2>1 DEF Alone, Others, Changing
  <2>2. CASE ~Clashes(cmd'[o].kind)
    <3>1. \A p \in Operators : cmd[p].kind \in Kinds
      BY DEF TypeInv, TypeOK, Commands
    <3>2. \A p \in Operators \ {o} :
            /\ cmd[p].kind \in Changing => cmd'[o].kind = "export"
            /\ cmd'[o].kind \in Changing => cmd[p].kind \in {"", "export"}
            /\ cmd[p].kind = "export" => cmd'[o].kind # "export"
      BY <2>2, <3>1 DEF Clashes, Kinds
    <3> QED
      BY ZenonT(60), <1>2, <3>2 DEF Alone, Others
  <2> QED
    BY <1>2, <2>1, <2>2, IdleType DEF Keeps, Undisturbed
<1> QED
  BY <1>1, <1>2, CommandStep

\* Beside a command that changes the key there are at most exports.
LEMMA OthersQuiet ==
  ASSUME TypeInv, Alone, NEW o \in Operators, NEW p \in Operators \ {o},
         cmd[o].kind \in Changing
  PROVE  cmd[p].pc \in {"idle", "prompt", "recordExport", "writeExports"}
<1>1. cmd[p].kind \in {"", "export"} /\ cmd[p].pc \in Steps /\ Form(cmd[p])
  BY DEF Alone, TypeInv, TypeOK, Commands
<1> QED
  BY <1>1 DEF Form, Steps

LEMMA Changers ==
  ASSUME TypeInv, NEW o \in Operators, ChangeFiles(o)
  PROVE  cmd[o].kind \in Changing /\ cmd[o].pc # "idle"
BY DEF TypeInv, Form, ChangeFiles, RetirePub, RetirePriv, RecordGrace, WritePub, WritePriv,
       DeleteFiles, At, Changing

-----------------------------------------------------------------------------
(***************************************************************************)
(* The two files                                                           *)
(***************************************************************************)

PairedAt(c) ==
  /\ c.pc \in {"writePriv", "upsert", "read"} => pub' \in {Torn, c.key}
  /\ c.pc = "retirePriv" => pub' = None
  /\ c.kind = "rotate" /\ c.pc \in {"grace", "writePub", "writePriv"} => priv' = None

\* A command that leaves the files alone.
LEMMA PairedAlone ==
  ASSUME Paired, UNCHANGED <<pub, priv>>, NEW o \in Operators, Others(o),
         cmd[o].pc # "writePriv", PairedAt(cmd'[o])
  PROVE  Paired'
BY DEF Paired, PairedAt, Others

\* A command that changes them.
LEMMA PairedChange ==
  ASSUME TypeInv, Alone, NEW o \in Operators, Others(o), cmd[o].kind \in Changing,
         PairedAt(cmd'[o]), cmd'[o].pc # "writePriv" => pub' \in {None, Torn, priv'}
  PROVE  Paired'
<1>1. \A p \in Operators \ {o} :
        /\ cmd'[p] = cmd[p]
        /\ cmd[p].pc \in {"idle", "prompt", "recordExport", "writeExports"}
  BY OthersQuiet DEF Others
<1> QED
  BY <1>1 DEF Paired, PairedAt

LEMMA IdlePaired ==
  ASSUME BoundIsNat, NEW o \in Operators, cmd'[o] = Idle
  PROVE  PairedAt(cmd'[o]) /\ cmd'[o].pc = "idle"
BY IdleType DEF PairedAt

LEMMA PairedStep ==
  ASSUME BoundIsNat, TypeInv, Alone, Alone', Paired, [Next]_keysVars, Undisturbed'
  PROVE  Paired'
<1>0. TypeOK /\ (\A o \in Operators : Form(cmd[o])) /\ "clash" \notin mishaps' /\ "cut" \notin mishaps'
  BY DEF TypeInv, Undisturbed
<1>1. CASE UNCHANGED <<pub, priv, cmd>>
  BY <1>1 DEF Paired
<1>2. ASSUME NEW o \in Operators,
             \/ Generate(o) \/ Rotate(o) \/ Publish(o) \/ Import(o) \/ Delete(o)
             \/ ExportPrivate(o)
      PROVE  Paired'
  <2>1. PICK kind \in Kinds, pc \in Steps, key \in Files :
          /\ Start(o, kind, pc, key)
          /\ pc \notin {"retirePriv", "grace", "writePriv", "upsert"}
          /\ pc = "writePub" => kind # "rotate"
          /\ pc = "read" => kind = "publish" /\ pub # None /\ key = priv
    BY <1>0, <1>2, Starts
  <2>2. /\ Others(o) /\ cmd[o].pc = "idle"
        /\ cmd'[o].pc = pc /\ cmd'[o].kind = kind /\ cmd'[o].key = key
        /\ UNCHANGED <<pub, priv>>
    BY <1>0, <2>1, StartFacts DEF Start, onDisk
  <2>3. ASSUME pc = "read"
        PROVE  pub \in {Torn, key}
    <3>1. \A p \in Operators : cmd[p].pc # "writePriv"
      <4> SUFFICES ASSUME NEW p \in Operators, cmd[p].pc = "writePriv"
                   PROVE  FALSE
        OBVIOUS
      <4>1. p # o /\ cmd[p].kind \in Changing
        BY <1>0, <2>2 DEF Form, Changing
      <4>2. cmd'[p].kind \in Changing /\ cmd'[o].kind = "publish"
        BY <2>1, <2>2, <2>3, <4>1 DEF Others
      <4> QED
        BY <4>1, <4>2 DEF Alone
    <3> QED
      BY <2>1, <2>3, <3>1 DEF Paired
  <2>4. PairedAt(cmd'[o])
    BY <2>1, <2>2, <2>3 DEF PairedAt
  <2> QED
    BY <2>2, <2>4, PairedAlone
<1>3. ASSUME NEW o \in Operators, ChangeFiles(o)
      PROVE  Paired'
  <2>0. cmd[o].kind \in Changing
    BY <1>3, Changers
  <2>1. ASSUME Others(o), PairedAt(cmd'[o]),
               cmd'[o].pc # "writePriv" => pub' \in {None, Torn, priv'}
        PROVE  Paired'
    BY <2>0, <2>1, PairedChange
  <2>2. CASE RetirePub(o)
    <3>1. CASE HasKeypair
      BY <1>0, <2>1, <2>2, <3>1, GotoFacts DEF RetirePub, PairedAt, Steps
    <3>2. CASE ~HasKeypair
      BY <1>0, <2>1, <2>2, <3>2, EndFacts, IdlePaired DEF RetirePub, HasKeypair
    <3> QED
      BY <3>1, <3>2
  <2>3. CASE RetirePriv(o)
    <3>1. pub' = None /\ priv' = None
      BY <2>3 DEF RetirePriv, Paired, At
    <3> QED
      BY <1>0, <2>1, <2>3, <3>1, GotoFacts DEF RetirePriv, PairedAt, Steps
  <2>4. CASE RecordGrace(o)
    <3>1. cmd[o].pc = "grace" /\ cmd[o].kind = "rotate"
      BY <1>0, <2>4 DEF RecordGrace, At, Form
    <3>2. UNCHANGED <<pub, priv>> /\ priv = None
      BY <2>4, <3>1 DEF RecordGrace, Paired
    <3>3. Others(o) /\ PairedAt(cmd'[o])
      BY <1>0, <2>4, <3>2, GotoFacts DEF RecordGrace, PairedAt, Steps
    <3> QED
      BY <3>1, <3>2, <3>3, PairedAlone
  <2>5. CASE WritePub(o)
    <3>1. cmd[o].pc = "writePub" /\ pub' = cmd[o].key /\ priv' = priv
      BY <2>5 DEF WritePub, At
    <3>2. cmd[o].kind = "rotate" => priv' = None
      BY <3>1 DEF Paired
    <3> QED
      BY <1>0, <2>1, <2>5, <3>1, <3>2, GotoFacts DEF WritePub, PairedAt, Steps
  <2>6. CASE WritePriv(o)
    <3>1. pub' \in {Torn, cmd[o].key} /\ priv' = cmd[o].key
      BY <2>6 DEF WritePriv, At, Paired
    <3> QED
      BY <1>0, <2>1, <2>6, <3>1, GotoFacts DEF WritePriv, PairedAt, Steps
  <2>7. CASE DeleteFiles(o)
    <3>1. CASE Goto(o, "revoke")
      BY <1>0, <2>1, <2>7, <3>1, GotoFacts DEF DeleteFiles, PairedAt, Steps
    <3>2. CASE End(o)
      BY <1>0, <2>1, <2>7, <3>2, EndFacts, IdlePaired DEF DeleteFiles
    <3> QED
      BY <2>7, <3>1, <3>2 DEF DeleteFiles
  <2> QED
    BY <1>3, <2>2, <2>3, <2>4, <2>5, <2>6, <2>7 DEF ChangeFiles
<1>4. ASSUME NEW o \in Operators, ChangeRecords(o) \/ PublishStep(o) \/ ExportStep(o)
      PROVE  Paired'
  <2>1. UNCHANGED <<pub, priv>> /\ cmd[o].pc # "writePriv"
    BY <1>4 DEF ChangeRecords, PublishStep, ExportStep, onDisk, Upsert, Revoke, StopAdvertising,
                ReadToPublish, Submit, SaveKeyserverState, GetRow, PutRow, WriteExport,
                ReadExports, WriteExports, At
  <2>2. CASE End(o)
    BY <1>0, <2>1, <2>2, EndFacts, IdlePaired, PairedAlone
  <2>3. ASSUME NEW pc \in Steps, Goto(o, pc),
               \/ pc \notin {"read", "grace", "writePub", "writePriv", "upsert", "retirePriv"}
               \/ pc = "read" /\ cmd[o].pc = "upsert"
        PROVE  Paired'
    <3>1. Others(o) /\ PairedAt(cmd'[o])
      BY <1>0, <2>1, <2>3, GotoFacts DEF PairedAt, Paired
    <3> QED
      BY <2>1, <3>1, PairedAlone
  <2>4. CASE ChangeRecords(o)
    BY <2>2, <2>3, <2>4 DEF ChangeRecords, Upsert, Revoke, StopAdvertising, At, Steps
  <2>5. CASE PublishStep(o)
    <3>1. CASE ReadToPublish(o)
      <4>1. Others(o) /\ PairedAt(cmd'[o])
        BY <1>0, <3>1, ReadFacts, IdlePaired DEF PairedAt
      <4> QED
        BY <2>1, <4>1, PairedAlone
    <3>2. CASE Submit(o)
      <4>1. cmd[o].pc = "send"
        BY <3>2 DEF Submit, At
      <4>2. CASE Goto(o, "ledger")
        BY <2>3, <4>2 DEF Steps
      <4>3. CASE Others(o) /\ cmd'[o].pc = cmd[o].pc
        BY <2>1, <4>1, <4>3, PairedAlone DEF PairedAt
      <4>4. Goto(o, "ledger") \/ (Others(o) /\ cmd'[o].pc = cmd[o].pc)
        BY <1>0, <3>2, SubmitFacts DEF Keeps
      <4> QED
        BY <4>2, <4>3, <4>4
    <3>3. CASE SaveKeyserverState(o) \/ PutRow(o)
      BY <2>2, <2>3, <3>3 DEF SaveKeyserverState, PutRow, Steps
    <3>4. CASE GetRow(o)
      <4>1. cmd[o].key \in Keys
        BY <1>0, <3>4 DEF GetRow, At, Form
      <4>2. Others(o) /\ PairedAt(cmd'[o])
        BY <1>0, <3>4, <4>1, GetRowFacts, IdlePaired DEF PairedAt
      <4> QED
        BY <2>1, <4>2, PairedAlone
    <3> QED
      BY <2>5, <3>1, <3>2, <3>3, <3>4 DEF PublishStep
  <2>6. CASE ExportStep(o)
    <3>1. CASE ReadExports(o)
      <4>1. Others(o) /\ PairedAt(cmd'[o])
        BY <1>0, <3>1, ReadExportsFacts DEF PairedAt, Keeps
      <4> QED
        BY <2>1, <4>1, PairedAlone
    <3>2. CASE WriteExport(o) \/ WriteExports(o)
      BY <2>2, <2>3, <3>2 DEF WriteExport, WriteExports, Steps
    <3> QED
      BY <2>6, <3>1, <3>2 DEF ExportStep
  <2> QED
    BY <1>4, <2>4, <2>5, <2>6
<1>5. ASSUME NEW o \in Operators, Stop(o)
      PROVE  Paired'
  <2>1. cmd[o].pc # "writePriv" /\ priv' = priv
    BY <1>0, <1>5 DEF Stop, At
  <2>2. Others(o) /\ PairedAt(cmd'[o]) /\ cmd'[o].pc = "idle"
    BY <1>0, <1>5, EndFacts, IdlePaired DEF Stop
  <2>3. CASE cmd[o].pc = "writePub"
    <3>1. cmd[o].kind \in Changing
      BY <1>0, <2>3 DEF Form, Changing
    <3>2. \A p \in Operators : cmd[p].pc # "writePriv"
      BY <2>1, <3>1, OthersQuiet
    <3>3. pub' \in {None, Torn, priv'}
      BY <1>5, <2>1, <3>2 DEF Stop, Paired
    <3> QED
      BY <2>2, <3>1, <3>3, PairedChange
  <2>4. CASE cmd[o].pc # "writePub"
    <3>1. pub' = pub
      BY <1>5, <2>4 DEF Stop, At
    <3> QED
      BY <2>1, <2>2, <3>1, PairedAlone
  <2> QED
    BY <2>3, <2>4
<1> QED
  BY <1>1, <1>2, <1>3, <1>4, <1>5 DEF Next, Tick, keysVars, onDisk

-----------------------------------------------------------------------------
(***************************************************************************)
(* Keys that were handed out                                               *)
(***************************************************************************)

\* A command that is not about to write the private key, or goes on being so.
LEMMA WritingKept ==
  ASSUME NEW o \in Operators, Others(o), cmd[o].pc # "writePriv"
  PROVE  Writing \subseteq Writing'
BY DEF Writing, Others, At

LEMMA HeldAlone ==
  ASSUME KeysHeld, Writing \subseteq Writing', handedOut' = handedOut, mishaps \subseteq mishaps',
         UNCHANGED <<priv, prevPriv>>, givenUp \subseteq givenUp'
  PROVE  KeysHeld'
BY DEF KeysHeld

LEMMA HeldStep ==
  ASSUME BoundIsNat, TypeInv, Paired, KeysHeld, [Next]_keysVars
  PROVE  KeysHeld'
<1> SUFFICES ASSUME mishaps' \cap {"clash", "cut", "leftover"} = {}
             PROVE  KeysHeld'
  BY DEF KeysHeld
<1>0. TypeOK /\ (\A o \in Operators : Form(cmd[o]))
  BY DEF TypeInv
<1>1. CASE UNCHANGED <<priv, prevPriv, cmd, handedOut, givenUp, mishaps>>
  BY <1>1 DEF KeysHeld, Writing, At
<1>2. ASSUME NEW o \in Operators,
             \/ Generate(o) \/ Rotate(o) \/ Publish(o) \/ Import(o) \/ Delete(o)
             \/ ExportPrivate(o)
      PROVE  KeysHeld'
  <2>1. PICK kind \in Kinds, pc \in Steps, key \in Files : Start(o, kind, pc, key)
    BY <1>0, <1>2, Starts
  <2>2. Others(o) /\ cmd[o].pc = "idle"
    BY <1>0, <2>1, StartFacts
  <2>3. Writing \subseteq Writing'
    BY <2>2, WritingKept
  <2> QED
    BY <2>1, <2>3, HeldAlone DEF Start, onDisk
<1>3. ASSUME NEW o \in Operators, ChangeFiles(o)
      PROVE  KeysHeld'
  <2>1. "leftover" \notin mishaps /\ ~LeftOver(o)
    BY <1>3 DEF ChangeFiles
  <2>2. handedOut \subseteq givenUp \cup Writing \cup {priv, prevPriv}
    BY <1>3, <2>1 DEF KeysHeld, ChangeFiles
  <2>3. handedOut \subseteq Keys /\ None \notin Keys
    BY <1>0, FileNames DEF TypeOK
  <2>4. SUFFICES handedOut' \subseteq givenUp' \cup Writing' \cup {priv', prevPriv'}
    BY DEF KeysHeld
  <2>5. cmd[o].pc # "writePub" => handedOut' = handedOut
    BY <1>3 DEF ChangeFiles, At
  <2>6. CASE cmd[o].pc # "writePriv"
    <3>1. Others(o)
      BY <1>0, <1>3, <2>6, GotoFacts, EndFacts DEF ChangeFiles, RetirePub, RetirePriv, RecordGrace,
         WritePub, WritePriv, DeleteFiles, At, Steps
    <3>2. Writing \subseteq Writing'
      BY <2>6, <3>1, WritingKept
    <3>3. CASE RetirePub(o) \/ RecordGrace(o)
      BY <2>2, <2>5, <3>2, <3>3 DEF RetirePub, RecordGrace, At
    <3>4. CASE RetirePriv(o)
      BY <2>2, <2>5, <3>2, <3>4 DEF RetirePriv, At
    <3>5. CASE WritePub(o)
      <4>1. cmd'[o].pc = "writePriv" /\ cmd'[o].key = cmd[o].key
        BY <1>0, <3>5, GotoFacts DEF WritePub, Steps
      <4>2. cmd[o].key \in Writing'
        BY <4>1 DEF Writing, At
      <4>3. handedOut' \subseteq handedOut \cup {cmd[o].key}
        BY <1>3 DEF ChangeFiles
      <4> QED
        BY <2>2, <3>2, <3>5, <4>2, <4>3 DEF WritePub
    <3>6. CASE DeleteFiles(o)
      BY <2>2, <2>5, <3>2, <3>6 DEF DeleteFiles, At
    <3> QED
      BY <1>3, <2>6, <3>3, <3>4, <3>5, <3>6 DEF ChangeFiles, WritePriv, At
  <2>7. CASE cmd[o].pc = "writePriv"
    <3>1. WritePriv(o)
      BY <1>3, <2>7 DEF ChangeFiles, RetirePub, RetirePriv, RecordGrace, WritePub, DeleteFiles, At
    <3>2. /\ handedOut' = handedOut /\ priv' = cmd[o].key /\ prevPriv' = prevPriv
          /\ givenUp \subseteq givenUp' \cup {priv'}
      BY <2>5, <2>7, <3>1 DEF WritePriv
    <3>3. Writing \subseteq Writing' \cup {cmd[o].key}
      BY <1>0, <3>1, GotoFacts DEF WritePriv, Writing, At, Others, Steps
    \* What was there is given up, was None, or is the key that generate writes.
    <3>4. priv \in givenUp' \cup {None, priv'}
      <4>1. CASE cmd[o].kind = "import"
        BY <3>1, <4>1 DEF WritePriv
      <4>2. CASE cmd[o].kind = "rotate"
        BY <2>7, <4>2 DEF Paired
      <4>3. CASE cmd[o].kind = "generate"
        BY <2>1, <2>7, <3>2, <4>3 DEF LeftOver, At
      <4> QED
        BY <1>0, <2>7, <4>1, <4>2, <4>3 DEF Form
    <3> QED
      BY <2>2, <2>3, <3>2, <3>3, <3>4
  <2> QED
    BY <2>6, <2>7
<1>4. ASSUME NEW o \in Operators, ChangeRecords(o) \/ PublishStep(o) \/ ExportStep(o)
      PROVE  KeysHeld'
  <2>1. /\ UNCHANGED <<priv, prevPriv, handedOut, givenUp>> /\ mishaps \subseteq mishaps'
        /\ cmd[o].pc # "writePriv"
    BY <1>4 DEF ChangeRecords, PublishStep, ExportStep, onDisk, Upsert, Revoke, StopAdvertising,
                ReadToPublish, Submit, SaveKeyserverState, GetRow, PutRow, WriteExport,
                ReadExports, WriteExports, At
  <2>2. Others(o)
    <3>1. CASE ChangeRecords(o)
      BY <1>0, <3>1, GotoFacts, EndFacts DEF ChangeRecords, Upsert, Revoke, StopAdvertising, Steps
    <3>2. CASE PublishStep(o)
      <4>1. GetRow(o) => cmd[o].key \in Keys
        BY <1>0 DEF GetRow, At, Form
      <4> QED
        BY <1>0, <3>2, <4>1, GotoFacts, EndFacts, ReadFacts, SubmitFacts, GetRowFacts
           DEF PublishStep, SaveKeyserverState, PutRow, Keeps, Steps
    <3>3. CASE ExportStep(o)
      BY <1>0, <3>3, GotoFacts, EndFacts, ReadExportsFacts
         DEF ExportStep, WriteExport, WriteExports, Keeps, Steps
    <3> QED
      BY <1>4, <3>1, <3>2, <3>3
  <2> QED
    BY <2>1, <2>2, WritingKept, HeldAlone
<1>5. ASSUME NEW o \in Operators, Stop(o)
      PROVE  KeysHeld'
  <2>1. cmd[o].pc # "writePriv"
    BY <1>5 DEF Stop, At
  <2>2. UNCHANGED <<priv, prevPriv, handedOut, givenUp>> /\ mishaps \subseteq mishaps'
    BY <1>5, <2>1 DEF Stop, At
  <2>3. Others(o)
    BY <1>0, <1>5, EndFacts DEF Stop
  <2> QED
    BY <2>1, <2>2, <2>3, WritingKept, HeldAlone
<1> QED
  BY <1>1, <1>2, <1>3, <1>4, <1>5 DEF Next, Tick, keysVars, onDisk

-----------------------------------------------------------------------------
(***************************************************************************)
(* What is recorded of publications                                        *)
(***************************************************************************)

LedgerTrue == \A s \in ledger.published : ledger.key \in uploaded[s]
RowsTrue   == \A k \in Keys : \A s \in rows[k].published : k \in uploaded[s]

UploadsInv == SentTrue /\ LedgerTrue /\ RowsTrue

\* A keyserver forgets nothing.
Grown == \A s \in Keyservers : uploaded[s] \subseteq uploaded'[s]

SentAt(c) ==
  /\ c.pc = "send" => c.sent \in {Torn, c.key}
  /\ \A s \in c.done \cup c.row.published : c.key \in uploaded'[s]

LEMMA SentOne ==
  ASSUME TypeOK, SentTrue, Grown, NEW o \in Operators, Others(o), SentAt(cmd'[o])
  PROVE  SentTrue'
<1>1. \A p \in Operators \ {o} :
        cmd[p].done \subseteq Keyservers /\ cmd[p].row.published \subseteq Keyservers
  BY DEF TypeOK, Commands, RowsOf
<1> QED
  BY <1>1 DEF SentTrue, SentAt, Others, Grown

LEMMA SentIdle ==
  ASSUME BoundIsNat, NEW o \in Operators, cmd'[o] = Idle
  PROVE  SentAt(cmd'[o])
BY IdleType DEF SentAt

LEMMA UploadsStep ==
  ASSUME BoundIsNat, TypeInv, Paired, UploadsInv, [Next]_keysVars
  PROVE  UploadsInv'
<1>0. /\ TypeOK /\ (\A o \in Operators : Form(cmd[o])) /\ SentTrue /\ LedgerTrue /\ RowsTrue
      /\ ledger.published \subseteq Keyservers
      /\ \A k \in Keys : rows[k].published \subseteq Keyservers
  BY DEF TypeInv, UploadsInv, TypeOK, RowsOf
<1>1. ASSUME uploaded' = uploaded
      PROVE  Grown
  BY <1>1 DEF Grown
<1>2. ASSUME Grown, ledger' = ledger, rows' = rows
      PROVE  LedgerTrue' /\ RowsTrue'
  BY <1>0, <1>2 DEF LedgerTrue, RowsTrue, Grown
<1>3. CASE UNCHANGED <<cmd, ledger, rows, uploaded>>
  BY <1>0, <1>3 DEF UploadsInv, SentTrue, LedgerTrue, RowsTrue
\* A command that ends or goes on without news.
<1>4. ASSUME NEW o \in Operators, uploaded' = uploaded,
             \/ End(o)
             \/ \E pc \in Steps \ {"send"} : Goto(o, pc)
             \/ ReadExports(o)
      PROVE  SentTrue'
  <2>1. SentAt(cmd'[o]) /\ Others(o)
    <3>1. CASE End(o)
      BY <1>0, <3>1, EndFacts, SentIdle
    <3>2. ASSUME NEW pc \in Steps \ {"send"}, Goto(o, pc)
          PROVE  SentAt(cmd'[o]) /\ Others(o)
      BY <1>0, <1>4, <3>2, GotoFacts DEF SentAt, SentTrue
    <3>3. CASE ReadExports(o)
      BY <1>0, <1>4, <3>3, ReadExportsFacts DEF SentAt, SentTrue, Keeps
    <3> QED
      BY <1>4, <3>1, <3>2, <3>3
  <2> QED
    BY <1>0, <1>1, <1>4, <2>1, SentOne
<1>5. ASSUME NEW o \in Operators,
             \/ Generate(o) \/ Rotate(o) \/ Publish(o) \/ Import(o) \/ Delete(o)
             \/ ExportPrivate(o)
      PROVE  UploadsInv'
  <2>1. PICK kind \in Kinds, pc \in Steps, key \in Files :
          Start(o, kind, pc, key) /\ pc # "send"
    BY <1>0, <1>5, Starts
  <2>2. UNCHANGED <<ledger, rows, uploaded>>
    BY <2>1 DEF Start
  <2>3. Others(o) /\ SentAt(cmd'[o])
    <3>1. /\ Others(o) /\ cmd'[o].pc # "send" /\ cmd'[o].done = {} /\ cmd'[o].row = NoRow
      BY <1>0, <2>1, StartFacts
    <3>2. cmd'[o].done \cup cmd'[o].row.published = {}
      BY <3>1, IdleType
    <3> QED
      BY <3>1, <3>2 DEF SentAt
  <2> QED
    BY <1>0, <1>1, <1>2, <2>2, <2>3, SentOne DEF UploadsInv
<1>6. ASSUME NEW o \in Operators, ChangeFiles(o)
      PROVE  UploadsInv'
  <2>1. UNCHANGED <<ledger, rows, uploaded>>
    BY <1>6 DEF ChangeFiles
  <2>2. End(o) \/ \E pc \in Steps \ {"send"} : Goto(o, pc)
    BY <1>6 DEF ChangeFiles, RetirePub, RetirePriv, RecordGrace, WritePub, WritePriv, DeleteFiles,
                Steps
  <2> QED
    BY <1>1, <1>2, <1>4, <2>1, <2>2 DEF UploadsInv
<1>7. ASSUME NEW o \in Operators, ChangeRecords(o)
      PROVE  UploadsInv'
  <2>1. UNCHANGED <<ledger, uploaded>>
    BY <1>7 DEF ChangeRecords
  <2>2. End(o) \/ \E pc \in Steps \ {"send"} : Goto(o, pc)
    BY <1>7 DEF ChangeRecords, Upsert, Revoke, StopAdvertising, Steps
  <2>3. \A k \in Keys : rows'[k].published \subseteq rows[k].published
    <3>1. CASE Upsert(o)
      <4>1. PICK row : row = [NoRow EXCEPT !.there = TRUE]
        OBVIOUS
      <4>2. row.published = {}
        BY <4>1, IdleType DEF RowsOf
      <4>3. rows' = [rows EXCEPT ![cmd[o].key] = row]
        BY <3>1, <4>1 DEF Upsert
      <4> QED
        BY <1>0, <4>2, <4>3 DEF TypeOK
    <3>2. CASE Revoke(o)
      <4>1. \A k \in Keys : rows[k] \in RowsOf
        BY <1>0 DEF TypeOK
      <4>2. \A k \in Keys : [rows[k] EXCEPT !.revoked = rows[k].there].published
                             = rows[k].published
        BY <4>1 DEF RowsOf
      <4> QED
        BY <3>2, <4>2 DEF Revoke
    <3>3. CASE StopAdvertising(o)
      BY <3>3 DEF StopAdvertising
    <3> QED
      BY <1>7, <3>1, <3>2, <3>3 DEF ChangeRecords
  <2>4. LedgerTrue' /\ RowsTrue'
    BY <1>0, <2>1, <2>3 DEF LedgerTrue, RowsTrue
  <2> QED
    BY <1>4, <2>1, <2>2, <2>4 DEF UploadsInv
<1>8. ASSUME NEW o \in Operators, ReadToPublish(o)
      PROVE  UploadsInv'
  <2>1. UNCHANGED <<ledger, rows, uploaded>> /\ cmd[o].pc = "read"
    BY <1>8 DEF ReadToPublish, At
  <2>2. pub \in {Torn, cmd[o].key}
    BY <2>1 DEF Paired
  <2>3. Others(o) /\ SentAt(cmd'[o])
    BY <1>0, <1>8, <2>1, <2>2, ReadFacts, SentIdle DEF SentAt, SentTrue, Keeps
  <2> QED
    BY <1>0, <1>1, <1>2, <2>1, <2>3, SentOne DEF UploadsInv
<1>9. ASSUME NEW o \in Operators, Submit(o)
      PROVE  UploadsInv'
  <2>1. UNCHANGED <<ledger, rows>> /\ cmd[o].pc = "send"
    BY <1>9 DEF Submit, At
  <2>2. CASE Goto(o, "ledger") /\ UNCHANGED uploaded
    BY <1>1, <1>2, <1>4, <2>1, <2>2 DEF UploadsInv, Steps
  <2>3. ASSUME NEW s \in Keyservers, NEW stored \in BOOLEAN, NEW ok \in BOOLEAN,
               ok => stored, stored => cmd[o].sent \in Keys,
               uploaded' = IF stored THEN [uploaded EXCEPT ![s] = @ \cup {cmd[o].sent}]
                           ELSE uploaded,
               Keeps(o), cmd'[o].pc = cmd[o].pc, cmd'[o].sent = cmd[o].sent,
               cmd'[o].row = cmd[o].row,
               cmd'[o].done = IF ok THEN cmd[o].done \cup {s} ELSE cmd[o].done
        PROVE  UploadsInv'
    <3>1. Grown
      BY <1>0, <2>3 DEF Grown, TypeOK
    <3>2. stored => cmd[o].sent = cmd[o].key /\ cmd[o].key \in uploaded'[s]
      BY <1>0, <2>1, <2>3, FileNames DEF SentTrue, TypeOK
    <3>3. cmd[o].done \subseteq Keyservers /\ cmd[o].row.published \subseteq Keyservers
      BY <1>0 DEF TypeOK, Commands, RowsOf
    <3>4. \A r \in cmd[o].done \cup cmd[o].row.published : cmd[o].key \in uploaded'[r]
      BY <1>0, <3>1, <3>3 DEF SentTrue, Grown
    <3>5. SentAt(cmd'[o])
      BY <1>0, <2>1, <2>3, <3>2, <3>4 DEF SentAt, SentTrue, Keeps
    <3> QED
      BY <1>0, <1>2, <2>1, <2>3, <3>1, <3>5, SentOne DEF UploadsInv, Keeps
  <2> QED
    BY <1>0, <1>9, <2>2, <2>3, SubmitFacts
<1>10. ASSUME NEW o \in Operators, SaveKeyserverState(o)
       PROVE  UploadsInv'
  <2>1. UNCHANGED <<rows, uploaded>> /\ ledger' = Recorded(ledger, cmd[o].key, cmd[o].done)
    BY <1>10 DEF SaveKeyserverState
  <2>2. End(o) \/ Goto(o, "getRow")
    BY <1>10 DEF SaveKeyserverState
  <2>3. \A s \in cmd[o].done : cmd[o].key \in uploaded[s]
    BY <1>0 DEF SentTrue
  <2>4. ledger' = Recorded(ledger, cmd[o].key, cmd[o].done)
        /\ ledger \in [key : Files, published : SUBSET Keyservers]
    BY <1>0, <2>1 DEF TypeOK
  <2>5. /\ ledger'.key = cmd[o].key
        /\ ledger'.published \subseteq cmd[o].done
             \cup (IF ledger.key = cmd[o].key THEN ledger.published ELSE {})
    BY <2>4 DEF Recorded
  <2>6. LedgerTrue' /\ RowsTrue'
    BY <1>0, <2>1, <2>3, <2>5 DEF LedgerTrue, RowsTrue
  <2> QED
    BY <1>4, <2>1, <2>2, <2>6 DEF UploadsInv, Steps
<1>11. ASSUME NEW o \in Operators, GetRow(o)
       PROVE  UploadsInv'
  <2>1. UNCHANGED <<ledger, rows, uploaded>> /\ cmd[o].key \in Keys
    BY <1>0, <1>11 DEF GetRow, At, Form
  <2>2. Others(o) /\ SentAt(cmd'[o])
    BY <1>0, <1>11, <2>1, GetRowFacts, SentIdle DEF SentAt, SentTrue, RowsTrue, Keeps
  <2> QED
    BY <1>0, <1>1, <1>2, <2>1, <2>2, SentOne DEF UploadsInv
<1>12. ASSUME NEW o \in Operators, PutRow(o)
       PROVE  UploadsInv'
  <2>1. UNCHANGED <<ledger, uploaded>> /\ End(o) /\ cmd[o].key \in Keys
    BY <1>0, <1>12 DEF PutRow, At, Form
  <2>2. DEFINE row == [cmd[o].row EXCEPT !.published = @ \cup cmd[o].done]
  <2>3. rows' = [rows EXCEPT ![cmd[o].key] = row]
    BY <1>12 DEF PutRow
  <2>4. row.published = cmd[o].row.published \cup cmd[o].done
    BY <1>0 DEF TypeOK, Commands, RowsOf
  <2>5. \A s \in row.published : cmd[o].key \in uploaded[s]
    BY <1>0, <2>4 DEF SentTrue
  <2> HIDE DEF row
  <2>6. LedgerTrue' /\ RowsTrue'
    BY <1>0, <2>1, <2>3, <2>5 DEF LedgerTrue, RowsTrue, TypeOK
  <2> QED
    BY <1>4, <2>1, <2>6 DEF UploadsInv
<1>13. ASSUME NEW o \in Operators, ExportStep(o) \/ Stop(o)
       PROVE  UploadsInv'
  <2>1. UNCHANGED <<ledger, rows, uploaded>>
    BY <1>13 DEF ExportStep, Stop
  <2>2. End(o) \/ (\E pc \in Steps \ {"send"} : Goto(o, pc)) \/ ReadExports(o)
    BY <1>13 DEF ExportStep, Stop, WriteExport, WriteExports, Steps
  <2> QED
    BY <1>1, <1>2, <1>4, <2>1, <2>2 DEF UploadsInv
<1> QED
  BY <1>3, <1>5, <1>6, <1>7, <1>8, <1>9, <1>10, <1>11, <1>12, <1>13
     DEF Next, Tick, keysVars, PublishStep

-----------------------------------------------------------------------------
(***************************************************************************)
(* What is recorded of exports                                             *)
(***************************************************************************)

ExportAt(o, c) ==
  /\ exported'[o] <= hour'
  /\ exported'[o] # None /\ c.pc \notin {"recordExport", "writeExports"} =>
       exported'[o] <= exports'[o]
  /\ c.pc = "prompt" => exported'[o] < hour'
  /\ c.pc = "writeExports" => c.seen = exports'

\* A command whose step is about no export.
LEMMA ExportAlone ==
  ASSUME TypeOK, ExportsKept, mishaps \subseteq mishaps', "hasty" \in mishaps' => "hasty" \in mishaps,
         UNCHANGED <<hour, exports, exported>>, NEW o \in Operators, Others(o),
         \/ "unrecorded" \in mishaps'
         \/ ExportAt(o, cmd'[o])
  PROVE  ExportsKept'
BY DEF ExportsKept, ExportAt, Others

LEMMA ExportIdle ==
  ASSUME BoundIsNat, ExportsKept, "unrecorded" \notin mishaps,
         UNCHANGED <<hour, exports, exported>>, NEW o \in Operators,
         cmd[o].pc \notin {"recordExport", "writeExports"},
         cmd'[o].pc \notin {"prompt", "recordExport", "writeExports"}
  PROVE  ExportAt(o, cmd'[o])
BY DEF ExportsKept, ExportAt

LEMMA ExportsStep ==
  ASSUME BoundIsNat, TypeInv, Alone, ExportsKept, [Next]_keysVars
  PROVE  ExportsKept'
<1> SUFFICES ASSUME "unrecorded" \notin mishaps'
             PROVE  ExportsKept'
  BY DEF ExportsKept
<1>0. /\ TypeOK /\ (\A o \in Operators : Form(cmd[o])) /\ Idle.pc = "idle"
      /\ hour \in Nat /\ hour > 0 /\ exports \in [Operators -> Nat]
      /\ exported \in [Operators -> Nat]
  <2>1. TypeOK /\ (\A o \in Operators : Form(cmd[o]))
    BY DEF TypeInv
  <2>2. hour \in Nat \ {0} /\ exports \in [Operators -> Nat] /\ exported \in [Operators -> Nat]
    BY <2>1 DEF TypeOK
  <2>3. hour \in Nat /\ hour > 0
    BY <2>2
  <2> QED
    BY <2>1, <2>2, <2>3, IdleType
<1>1. CASE UNCHANGED <<hour, cmd, exports, exported, mishaps>>
  BY <1>1 DEF ExportsKept
<1>2. CASE Tick
  BY <1>0, <1>2 DEF ExportsKept, Tick
<1>3. ASSUME NEW o \in Operators, cmd[o].pc \notin {"recordExport", "writeExports"},
             cmd'[o].pc \notin {"prompt", "recordExport", "writeExports"}, Others(o),
             UNCHANGED <<hour, exports, exported>>, mishaps \subseteq mishaps',
             "hasty" \in mishaps' => "hasty" \in mishaps
      PROVE  ExportsKept'
  BY <1>0, <1>3, ExportIdle, ExportAlone
<1>4. ASSUME NEW o \in Operators,
             \/ Generate(o) \/ Rotate(o) \/ Publish(o) \/ Import(o) \/ Delete(o)
             \/ ExportPrivate(o)
      PROVE  ExportsKept'
  <2>1. PICK kind \in Kinds, pc \in Steps, key \in Files :
          /\ Start(o, kind, pc, key) /\ pc \notin {"recordExport", "writeExports"}
          /\ pc = "prompt" => exports[o] = None \/ hour - exports[o] >= Hour
    BY <1>0, <1>4, Starts
  <2>2. /\ UNCHANGED <<hour, exports, exported>> /\ mishaps \subseteq mishaps'
        /\ "hasty" \in mishaps' => "hasty" \in mishaps
    BY <2>1 DEF Start
  <2>3. Others(o) /\ cmd[o].pc = "idle" /\ cmd'[o].pc = pc
    BY <1>0, <2>1, StartFacts
  <2>4. CASE pc = "prompt"
    <3>1. "unrecorded" \notin mishaps
      BY <2>2
    <3>2. exported[o] <= hour /\ (exported[o] # None => exported[o] <= exports[o])
      BY <2>3, <3>1 DEF ExportsKept
    <3>3. exported[o] < hour
      BY <1>0, <2>1, <2>4, <3>2 DEF None, Hour
    <3>4. ExportAt(o, cmd'[o])
      BY <2>2, <2>3, <2>4, <3>2, <3>3 DEF ExportAt
    <3> QED
      BY <1>0, <2>2, <2>3, <3>4, ExportAlone
  <2>5. CASE pc # "prompt"
    BY <1>3, <2>1, <2>2, <2>3, <2>5
  <2> QED
    BY <2>4, <2>5
<1>5. ASSUME NEW o \in Operators, ChangeFiles(o) \/ ChangeRecords(o) \/ PublishStep(o)
      PROVE  ExportsKept'
  <2>1. /\ UNCHANGED <<hour, exports, exported>> /\ mishaps \subseteq mishaps'
        /\ "hasty" \in mishaps' => "hasty" \in mishaps
    BY <1>5 DEF ChangeFiles, ChangeRecords, PublishStep
  <2>2. /\ cmd[o].pc \notin {"recordExport", "writeExports"}
        /\ cmd'[o].pc \notin {"prompt", "recordExport", "writeExports"} /\ Others(o)
    <3>1. CASE ChangeFiles(o)
      BY <1>0, <3>1, GotoFacts, EndFacts DEF ChangeFiles, RetirePub, RetirePriv, RecordGrace,
         WritePub, WritePriv, DeleteFiles, At, Steps
    <3>2. CASE ChangeRecords(o)
      BY <1>0, <3>2, GotoFacts, EndFacts DEF ChangeRecords, Upsert, Revoke, StopAdvertising, At,
         Steps
    <3>3. CASE PublishStep(o)
      <4>1. GetRow(o) => cmd[o].key \in Keys
        BY <1>0 DEF GetRow, At, Form
      <4>2. cmd[o].pc \in {"read", "send", "ledger", "getRow", "putRow"}
        BY <3>3 DEF PublishStep, ReadToPublish, Submit, SaveKeyserverState, GetRow, PutRow, At
      <4> QED
        BY <1>0, <3>3, <4>1, <4>2, GotoFacts, EndFacts, ReadFacts, SubmitFacts, GetRowFacts
           DEF PublishStep, SaveKeyserverState, PutRow, Keeps, Steps
    <3> QED
      BY <1>5, <3>1, <3>2, <3>3
  <2> QED
    BY <1>3, <2>1, <2>2
<1>6. ASSUME NEW o \in Operators, WriteExport(o), hour' = hour
      PROVE  ExportsKept'
  <2>1. cmd[o].pc = "prompt" /\ exports' = exports /\ mishaps \subseteq mishaps'
    BY <1>6 DEF WriteExport, At
  <2>2. exported[o] < hour
    BY <2>1 DEF ExportsKept
  <2>3. CASE Readable(priv)
    <3>1. mishaps' = mishaps /\ exported' = [exported EXCEPT ![o] = hour]
      BY <1>0, <1>6, <2>2, <2>3 DEF WriteExport, Hour
    <3>2. Others(o) /\ cmd'[o].pc = "recordExport"
      BY <1>0, <1>6, <2>3, GotoFacts DEF WriteExport, Steps
    <3> QED
      BY <1>0, <1>6, <2>1, <3>1, <3>2 DEF ExportsKept, Others
  <2>4. CASE ~Readable(priv)
    <3>1. exported' = exported /\ mishaps' = mishaps /\ Others(o) /\ cmd'[o].pc = "idle"
      BY <1>0, <1>6, <2>4, EndFacts DEF WriteExport
    <3> QED
      BY <1>3, <1>6, <2>1, <3>1
  <2> QED
    BY <2>3, <2>4
<1>7. ASSUME NEW o \in Operators, ReadExports(o), hour' = hour
      PROVE  ExportsKept'
  <2>1. UNCHANGED <<exports, exported, mishaps>> /\ cmd[o].pc = "recordExport"
    BY <1>7 DEF ReadExports, At
  <2>2. Others(o) /\ cmd'[o].pc = "writeExports" /\ cmd'[o].seen = exports
    BY <1>0, <1>7, ReadExportsFacts DEF Keeps
  <2>3. ExportAt(o, cmd'[o])
    BY <1>7, <2>1, <2>2 DEF ExportAt, ExportsKept
  <2> QED
    BY <1>0, <1>7, <2>1, <2>2, <2>3, ExportAlone
<1>8. ASSUME NEW o \in Operators, WriteExports(o), hour' = hour
      PROVE  ExportsKept'
  <2>1. cmd[o].pc = "writeExports" /\ UNCHANGED <<exported, mishaps>>
    BY <1>8 DEF WriteExports, At
  <2>2. cmd[o].seen = exports /\ exported[o] <= hour
    BY <2>1 DEF ExportsKept
  <2>3. exports' = [exports EXCEPT ![o] = hour]
    BY <1>8, <2>2 DEF WriteExports
  <2>4. Others(o) /\ cmd'[o].pc = "idle"
    BY <1>0, <1>8, EndFacts DEF WriteExports
  \* No other export has read the file meanwhile.
  <2>5. \A p \in Operators \ {o} : cmd[p].pc \notin {"prompt", "writeExports"}
    BY <1>0, <2>1 DEF Alone, Form
  <2> QED
    BY <1>0, <1>8, <2>1, <2>2, <2>3, <2>4, <2>5 DEF ExportsKept, Others
<1>9. ASSUME NEW o \in Operators, Stop(o)
      PROVE  ExportsKept'
  <2>1. /\ UNCHANGED <<hour, exports, exported>> /\ mishaps \subseteq mishaps'
        /\ "hasty" \in mishaps' => "hasty" \in mishaps
        /\ cmd[o].pc \notin {"recordExport", "writeExports"}
    BY <1>9 DEF Stop, At
  <2>2. Others(o) /\ cmd'[o].pc = "idle"
    BY <1>0, <1>9, EndFacts DEF Stop
  <2> QED
    BY <1>3, <2>1, <2>2
<1> QED
  BY <1>1, <1>2, <1>4, <1>5, <1>6, <1>7, <1>8, <1>9 DEF Next, keysVars, ExportStep

-----------------------------------------------------------------------------
(***************************************************************************)
(* Theorems                                                                *)
(***************************************************************************)

LEMMA InitIInv == BoundIsNat /\ Init => IInv
<1> SUFFICES ASSUME BoundIsNat, Init
             PROVE  IInv
  OBVIOUS
<1>0. \A o \in Operators : cmd[o] = Idle
  BY DEF Init
<1>1. TypeOK
  <2>1. hour \in Nat \ {0} /\ until \in Nat /\ commands \in Nat /\ made \in 0 .. MaxKeys
    BY DEF Init, None, BoundIsNat
  <2>2. pub \in Files /\ priv \in Files /\ prevPriv \in Files
    BY FileNames DEF Init
  <2>3. ledger \in [key : Files, published : SUBSET Keyservers]
    BY FileNames DEF Init
  <2>4. rows \in [Keys -> RowsOf] /\ advertise \in BOOLEAN
    BY IdleType DEF Init
  <2>5. exports \in [Operators -> Nat] /\ exported \in [Operators -> Nat]
    BY DEF Init, None
  <2>6. uploaded \in [Keyservers -> SUBSET Keys] /\ cmd \in [Operators -> Commands]
    BY IdleType DEF Init
  <2>7. handedOut \subseteq Keys /\ givenUp \subseteq Files /\ mishaps = {}
    BY DEF Init
  <2> QED
    BY <2>1, <2>2, <2>3, <2>4, <2>5, <2>6, <2>7 DEF TypeOK
<1>2. \A o \in Operators : Form(cmd[o])
  BY <1>0, IdleType DEF Form, Changing
<1>3. Alone
  BY <1>0, IdleType DEF Alone, Changing
<1>4. Paired
  BY <1>0, IdleType DEF Paired, Init
<1>5. SentTrue
  BY <1>0, IdleType DEF SentTrue
<1>6. ExportsKept
  <2>1. hour = 1 /\ mishaps = {} /\ \A o \in Operators : exported[o] = 0 /\ cmd[o].pc = "idle"
    BY <1>0, IdleType DEF Init, None
  <2> QED
    BY <2>1 DEF ExportsKept, None
<1>7. KeysHeld
  BY DEF KeysHeld, Init
<1>8. RecordsTrue
  BY IdleType DEF RecordsTrue, Init
<1> QED
  BY <1>1, <1>2, <1>3, <1>4, <1>5, <1>6, <1>7, <1>8 DEF IInv, TypeInv

LEMMA NextIInv == BoundIsNat /\ IInv /\ [Next]_keysVars => IInv'
<1> SUFFICES ASSUME BoundIsNat, IInv, [Next]_keysVars
             PROVE  IInv'
  OBVIOUS
<1>1. TypeInv'
  BY TypeStep DEF IInv
<1>2. ASSUME Undisturbed'
      PROVE  Alone' /\ Paired' /\ UploadsInv' /\ ExportsKept' /\ KeysHeld'
  <2>1. Undisturbed
    BY <1>2, FollowedStep
  <2>2. TypeInv /\ Alone /\ Paired /\ SentTrue /\ ExportsKept /\ KeysHeld
    BY <2>1 DEF IInv
  <2>3. UploadsInv
    BY <2>1, <2>2 DEF IInv, RecordsTrue, Undisturbed, UploadsInv, LedgerTrue, RowsTrue
  <2>4. Alone'
    BY <1>2, <2>2, AloneStep
  <2> QED
    BY <1>2, <2>2, <2>3, <2>4, PairedStep, UploadsStep, ExportsStep, HeldStep
<1>3. KeysHeld'
  BY <1>2 DEF KeysHeld, Undisturbed
<1>4. RecordsTrue'
  BY <1>2 DEF RecordsTrue, Undisturbed, UploadsInv, LedgerTrue, RowsTrue, ExportsKept
<1> QED
  BY <1>1, <1>2, <1>3, <1>4 DEF IInv, UploadsInv

LEMMA IInvProperties == IInv => KeysHeld /\ RecordsTrue
BY DEF IInv

\* Files, records and commands keep their types, and a command comes only to
\* the steps of its kind, wherever it or another fails or is killed.
THEOREM KeysTyped ==
  ASSUME BoundIsNat
  PROVE  Spec => []TypeInv
<1>1. IInv => TypeInv
  BY DEF IInv
<1>2. Init => IInv
  BY InitIInv
<1>3. IInv /\ [Next]_keysVars => IInv'
  BY NextIInv
<1> QED
  BY <1>1, <1>2, <1>3, PTL DEF Spec

\* A key that pgp-key.asc has handed out stays readable, by the key or the one
\* retired before it, until a command gives it up; unless changes overlap, a
\* private key is cut short or generate finds one that a rotation left.
THEOREM HandedOutHeld ==
  ASSUME BoundIsNat
  PROVE  Spec => []KeysHeld
<1>1. Init => IInv
  BY InitIInv
<1>2. IInv /\ [Next]_keysVars => IInv'
  BY NextIInv
<1> QED
  BY <1>1, <1>2, IInvProperties, PTL DEF Spec

\* keyservers.state and the rows of pgp_keys name only keyservers that took the
\* key, and export.state keeps every operator to one export an hour.
THEOREM RecordsAreTrue ==
  ASSUME BoundIsNat
  PROVE  Spec => []RecordsTrue
<1>1. Init => IInv
  BY InitIInv
<1>2. IInv /\ [Next]_keysVars => IInv'
  BY NextIInv
<1> QED
  BY <1>1, <1>2, IInvProperties, PTL DEF Spec
=============================================================================
