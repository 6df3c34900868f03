------------------------------ MODULE Settings ------------------------------
(***************************************************************************)
(* server.yml and the settings a server runs on (config, main.go and       *)
(* notifications.go): the file is loaded over the defaults, values out of  *)
(* range are replaced, missing secrets made and saved, what flags and the  *)
(* environment give for this run laid over it, and a mail server found and *)
(* saved.  Commands and the operator change the file beside the server.    *)
(* A behaviour is about one setting that is a number; the other settings   *)
(* stand for the kinds that are treated in a way of their own.             *)
(***************************************************************************)
EXTENDS Integers

CONSTANTS
  Booters,       \* processes that go through the start of the server
  Followed,      \* bound: the settings that behaviours are about
  MaxBoots,      \* bound: starts
  MaxHands,      \* bound: edits by the operator and commands
  MaxMade        \* bound: secrets that are made

VARIABLES
  setting,       \* the number this behaviour is about, once it is written, or "none"
  yml,           \* server.yml, or NoYml
  proc,          \* the processes that start or run
  changer,       \* the command that changes the file
  boots, hands, keysMade,
  chosen,        \* history: what the operator and commands asked for
  sealed,        \* history: the key under which each starter has sealed reports
  overlaid,      \* history: a value given for one run has been saved
  raced          \* history: one changed the file while another held a copy

settingsVars == <<setting, yml, proc, changer, boots, hands, keysMade,
                  chosen, sealed, overlaid, raced>>
history == <<chosen, sealed, overlaid, raced>>

\* The defaults; the words that a setting may be are numbered.
ServerDefaults ==
  [port |-> 8090, compression_level |-> 5, read_timeout |-> 30, write_timeout |-> 30,
   idle_timeout |-> 120, read_requests |-> 120, write_requests |-> 10, health_requests |-> 120,
   window |-> 60, global_burst |-> 240, cache_type |-> 2, max_backups |-> 1, keep_weekly |-> 0,
   keep_monthly |-> 0, keep_yearly |-> 0, disk_threshold |-> 90, defer_days |-> 0]
WebDefaults ==
  [multiplier |-> 10, max_age_seconds |-> 63072000, nel_max_age |-> 2592000, coop |-> 1, coep |-> 1,
   corp |-> 3, cross_domain |-> 1, csp_mode |-> 1, reports_per_minute |-> 60, reports_burst |-> 10]
NotificationDefaults ==
  [toast_position |-> 1, toast_duration |-> 5, smtp_tls |-> 1, smtp_port |-> 587]
TorDefaults ==
  [max_circuits |-> 32, circuit_timeout |-> 60, bootstrap_timeout |-> 180, max_streams |-> 100,
   num_intro_points |-> 3, tor_port |-> 80]
I2PDefaults ==
  [inbound_length |-> 3, outbound_length |-> 3, inbound_quantity |-> 5, outbound_quantity |-> 5,
   signature_type |-> 7, i2p_bootstrap |-> 300, i2p_port |-> 80]

\* The least and the greatest legal value.
Range(l, h) == [low |-> l, high |-> h]
From(l)     == Range(l, 2000000000)
validPort   == Range(1, 65535)
OneOf(n)    == Range(1, n)
\* Replaced in memory when the server starts; the tables follow the functions.
ServerRanges ==
  [port |-> validPort, compression_level |-> Range(1, 9), read_timeout |-> From(1),
   write_timeout |-> From(1), idle_timeout |-> From(1), read_requests |-> From(1),
   write_requests |-> From(1), health_requests |-> From(1), window |-> From(1),
   global_burst |-> From(1), cache_type |-> OneOf(4)]
SecurityRanges == [multiplier |-> From(2)]
WebRanges ==
  [max_age_seconds |-> From(0), nel_max_age |-> From(0), reports_per_minute |-> From(1),
   reports_burst |-> From(1), coop |-> OneOf(3), coep |-> OneOf(3), corp |-> OneOf(3),
   cross_domain |-> OneOf(4), csp_mode |-> OneOf(2)]
NotificationRanges ==
  [toast_position |-> OneOf(4), toast_duration |-> From(0), smtp_tls |-> OneOf(4),
   smtp_port |-> validPort]
BackupRanges ==
  [max_backups |-> From(1), keep_weekly |-> From(0), keep_monthly |-> From(0),
   keep_yearly |-> From(0), disk_threshold |-> Range(1, 100)]
UpdateRanges == [defer_days |-> Range(0, 365)]
\* Left as they are, and replaced whenever they are used.
TorRanges ==
  [max_circuits |-> Range(1, 128), circuit_timeout |-> Range(10, 300),
   bootstrap_timeout |-> Range(30, 600), max_streams |-> Range(10, 500),
   num_intro_points |-> Range(3, 10), tor_port |-> validPort]
I2PRanges ==
  [inbound_length |-> Range(0, 7), outbound_length |-> Range(0, 7),
   inbound_quantity |-> Range(1, 16), outbound_quantity |-> Range(1, 16),
   signature_type |-> From(0), i2p_bootstrap |-> Range(30, 600), i2p_port |-> validPort]

\* Two tables in one.
Joined(f, g) == [s \in DOMAIN f \cup DOMAIN g |-> IF s \in DOMAIN f THEN f[s] ELSE g[s]]
Validated == Joined(ServerRanges, Joined(SecurityRanges, Joined(WebRanges,
             Joined(NotificationRanges, Joined(BackupRanges, UpdateRanges)))))
Ranges    == Joined(Validated, Joined(TorRanges, I2PRanges))
Standard  == Joined(ServerDefaults, Joined(WebDefaults, Joined(NotificationDefaults,
             Joined(TorDefaults, I2PDefaults))))
\* Settings that are text in the file, where any value is one of the type.
ServerTexts == {"port", "read_timeout", "write_timeout", "idle_timeout", "cache_type"}
WebTexts    == {"coop", "coep", "corp", "cross_domain", "csp_mode"}
NotificationTexts == {"toast_position", "smtp_tls"}
Texts == ServerTexts \cup WebTexts \cup NotificationTexts

Legal(v) == v \in Ranges[setting].low .. Ranges[setting].high
\* Fault: one beyond the range is let through.
Allowed(v) == v \in Ranges[setting].low - 1 .. Ranges[setting].high

Mistyped == -2   \* a value of another type
Written(s) == {Mistyped, Ranges[s].low - 1, Ranges[s].high, Ranges[s].high + 1}

\* number, an override such as --port or SMTP_USERNAME, the mail server, the
\* update channel, and the secrets; 0 and "none" are a missing one.
NoYml    == [number |-> -4]
Default  == -3   \* the number nobody has written
Defaults == [number |-> Default, base |-> "own", host |-> "none", branch |-> "stable",
             token |-> 0, key |-> 0]
Down == [pc |-> "down", conf |-> NoYml, given |-> FALSE]

Init ==
  /\ setting = "none"
  /\ yml = NoYml
  /\ proc = [p \in Booters |-> Down] /\ changer = Down
  /\ boots = 0 /\ hands = 0 /\ keysMade = 0
  /\ chosen = [number |-> Default, host |-> "none", branch |-> "stable", token |-> 0]
  /\ sealed = {} /\ overlaid = FALSE /\ raced = FALSE

Load == IF yml = NoYml THEN Defaults ELSE yml
Unparsable == Load.number = Mistyped /\ setting \notin Texts

\* Who has loaded the file and may yet write it back.
Holding == {p \in Booters : proc[p].pc \in {"ensure", "save", "overlay", "mail", "saveMail"}}
Races(self) == (Holding \ {self} # {}) \/ (changer # Down /\ self \in Booters)

-----------------------------------------------------------------------------
(***************************************************************************)
(* Validate, and Normalized where a setting of an overlay is used          *)
(***************************************************************************)

RepairedLoosely(v) == IF Allowed(v) THEN v ELSE Standard[setting]
Repaired(v) == IF Legal(v) THEN v ELSE Standard[setting]
Validate(conf) ==
  IF conf.number # Default /\ setting \in DOMAIN Validated
  THEN [conf EXCEPT !.number = Repaired(@)] ELSE conf
Used(conf) == IF conf.number = Default THEN Standard[setting] ELSE Repaired(conf.number)

(***************************************************************************)
(* The start of the server                                                 *)
(***************************************************************************)

\* A word where a number belongs ends the start, as a file that is no YAML does.
Boot(p) ==
  /\ proc[p].pc = "down" /\ boots < MaxBoots /\ boots' = boots + 1
  /\ \E given \in BOOLEAN :
       proc' = [proc EXCEPT ![p] = IF Unparsable THEN Down
                                   ELSE [pc |-> "ensure", conf |-> Validate(Load),
                                         given |-> given]]
  /\ UNCHANGED <<setting, yml, changer, hands, keysMade, history>>

\* Fault: the file is saved when a token was made, and only then.
Lacks(conf) == conf.token = 0
\* The token and the key are made when they are missing; then the file is saved.
Incomplete(conf) == conf.token = 0 \/ conf.key = 0
Ensure(p) ==
  /\ proc[p].pc = "ensure" /\ keysMade < MaxMade
  /\ LET c == proc[p].conf
         fresh == [c EXCEPT !.token = IF @ = 0 THEN keysMade + 1 ELSE @,
                            !.key = IF @ = 0 THEN keysMade + 1 ELSE @]
     IN  /\ proc' = [proc EXCEPT ![p].conf = fresh,
                                 ![p].pc = IF Incomplete(c) THEN "save" ELSE "overlay"]
         /\ keysMade' = IF fresh = c THEN keysMade ELSE keysMade + 1
  /\ UNCHANGED <<setting, yml, changer, boots, hands, history>>

\* Save writes a file beside server.yml and renames it.
Save(p, next) ==
  /\ yml' = proc[p].conf /\ proc' = [proc EXCEPT ![p].pc = next]
  /\ overlaid' = (overlaid \/ proc[p].conf.base = "run")
  /\ raced' = (raced \/ Races(p))
  /\ UNCHANGED <<setting, changer, boots, hands, keysMade, chosen, sealed>>
SaveSecrets(p) == proc[p].pc = "save" /\ Save(p, "overlay")

\* Flags, and the variables of the environment.
Overlay(p) ==
  /\ proc[p].pc = "overlay"
  /\ proc' = [proc EXCEPT ![p].pc = "mail",
                          ![p].conf.base = IF proc[p].given THEN "run" ELSE @]
  /\ UNCHANGED <<setting, yml, changer, boots, hands, keysMade, history>>

\* Fault: what answers is saved whether it was looked for or not.
Answers(conf) == TRUE
\* Without a host one is looked for, and what is found is saved; else the host
\* is tried, and mail switched off for this run when it does not answer.
Looks(conf) == conf.host = "none"
Mail(p) ==
  /\ proc[p].pc = "mail"
  /\ \/ proc' = [proc EXCEPT ![p].pc = "up"]
     \/ /\ Looks(proc[p].conf)
        /\ proc' = [proc EXCEPT ![p].conf.host = "found", ![p].pc = "saveMail"]
  /\ UNCHANGED <<setting, yml, changer, boots, hands, keysMade, history>>
\* It only warns when this fails.
SaveMail(p) ==
  /\ proc[p].pc = "saveMail"
  /\ \/ Save(p, "up")
     \/ /\ proc' = [proc EXCEPT ![p].pc = "up"]
        /\ UNCHANGED <<setting, yml, changer, boots, hands, keysMade, history>>

\* A report comes in and is sealed.
Seal(p) ==
  /\ proc[p].pc = "up" /\ sealed' = sealed \cup {proc[p].conf.key}
  /\ UNCHANGED <<setting, yml, proc, changer, boots, hands, keysMade, chosen, overlaid, raced>>

\* The process ends, is killed, or cannot save.
Quit(p) ==
  /\ proc[p].pc # "down" /\ proc' = [proc EXCEPT ![p] = Down]
  /\ UNCHANGED <<setting, yml, changer, boots, hands, keysMade, history>>

-----------------------------------------------------------------------------
(***************************************************************************)
(* Changes of the file beside the server                                   *)
(***************************************************************************)

\* The operator sets the number, the mail server or a token where there is
\* none, and leaves the secrets that the file has alone.
Set(name, value) ==
  /\ yml' = [Load EXCEPT ![name] = value, !.base = "own"]
  /\ chosen' = [chosen EXCEPT ![name] = value]
Edit ==
  /\ hands < MaxHands /\ hands' = hands + 1
  /\ \/ /\ setting' \in IF setting = "none" THEN Followed ELSE {setting}
        /\ \E v \in Written(setting') : Set("number", v)
     \/ \E host \in {"none", "op"} : Set("host", host) /\ UNCHANGED setting
     \/ /\ Load.token = 0 /\ Set("token", MaxMade + 1) /\ UNCHANGED setting
  /\ overlaid' = FALSE
  /\ raced' = (raced \/ Holding # {} \/ changer # Down)
  /\ UNCHANGED <<proc, changer, boots, keysMade, sealed>>

\* --update branch: Load without Validate, and Save.
BranchBegins ==
  /\ changer = Down /\ hands < MaxHands /\ hands' = hands + 1
  /\ ~Unparsable
  /\ changer' = [Down EXCEPT !.conf = [Load EXCEPT !.branch = "beta"]]
  /\ UNCHANGED <<setting, yml, proc, boots, keysMade, history>>
BranchEnds ==
  /\ changer # Down /\ changer' = Down
  /\ \/ UNCHANGED <<yml, chosen, raced>>
     \/ /\ yml' = changer.conf /\ chosen' = [chosen EXCEPT !.branch = changer.conf.branch]
        /\ raced' = (raced \/ Holding # {})
  /\ UNCHANGED <<setting, proc, boots, hands, keysMade, sealed, overlaid>>

\* What comes of a save that raced is not followed.
Next ==
  /\ ~raced
  /\ \/ Edit \/ BranchBegins \/ BranchEnds
     \/ \E p \in Booters :
          \/ Boot(p) \/ Ensure(p) \/ SaveSecrets(p) \/ Overlay(p)
          \/ Mail(p) \/ SaveMail(p) \/ Seal(p) \/ Quit(p)

Spec == Init /\ [][Next]_settingsVars

-----------------------------------------------------------------------------
\* A key under which a report was sealed is the one in server.yml, through
\* kills, commands and edits, so that the report can be opened, unless two
\* wrote the file at once: such a save can put back a copy without the key.
SealedReadable ==
  ~raced => \A k \in sealed : yml # NoYml /\ yml.key = k

\* What the operator and the commands chose stays in the file as long as it is
\* legal, whoever saves the file for a reason of his own, a value given for one
\* run is saved only by a start that looks for a mail server, and a server runs
\* on legal numbers whatever the file says.
ChoicesKept ==
  /\ ~raced /\ yml # NoYml =>
       /\ setting # "none" /\ Legal(chosen.number) => yml.number = chosen.number
       /\ chosen.host # "none" => yml.host = chosen.host
       /\ chosen.token # 0 => yml.token = chosen.token
       /\ yml.branch = chosen.branch
       /\ yml.base = "run" => overlaid /\ yml.host = "found"
  /\ \A p \in Booters : setting # "none" /\ proc[p].pc = "up" => Legal(Used(proc[p].conf))
=============================================================================
