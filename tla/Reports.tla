-------------------------------- MODULE Reports --------------------------------
(***************************************************************************)
(* Reports to the operator (httpserver): security reports by the link that *)
(* security.txt publishes and messages of the contact form, step by step,  *)
(* while answers are lost, letters fail and the server dies; and the       *)
(* reports that browsers send by themselves.                               *)
(***************************************************************************)
EXTENDS Naturals

CONSTANTS
  Visitors,      \* who follows links, fills in forms and has a browser
  MaxDays,       \* bound: days that pass
  MaxRequests    \* bound: forms and browser reports that are sent

VARIABLES
  day,           \* the clock
  contact,       \* pages.contact.enabled, whether mail is set up, the limit
  page,          \* what each visitor has before him
  post,          \* what the server does with what each has sent
  told,          \* the answer each has had
  reports,       \* the rows of security_reports
  letters, entries,  \* history: what was mailed, and the ids in the audit log
  arrived, counts,   \* browser reports this minute, and those the limiter counted
  recorded, uses

reportVars == <<day, contact, page, post, told, reports, letters, entries,
                arrived, counts, recorded, uses>>

-----------------------------------------------------------------------------
\* Fault: a link is good for its own two days only.
ThisWindow(id, at) == id = at \div 2
\* The id of a link is a code for two days since the epoch and a secret that
\* every start finds.  It is good for those days and for the next two.
SecurityID(at) == at \div 2
ValidSecurityID(id, at) == id \in {SecurityID(at)} \cup {w \in {0} \cup 1 .. at : w + 1 = SecurityID(at)}

Required == {"name", "email", "component", "severity", "summary", "steps", "impact",
             "credit", "disclosure", "captcha"}
\* What is no number of days, or none at all, is taken for ninety; a component
\* that is "Other" is what the visitor calls it.
readSecurityForm(f) ==
  [missing |-> f.missing,
   days |-> IF f.days \in {"", "0", "soon"} THEN 90 ELSE 30]
validateSecurityForm(f) == Required \cap f.missing = {}
\* The form of a report has a name and an address, and neither a subject nor a
\* message; the form of a message has each, and no id.
Sheet(kind, missing, days) == [kind |-> kind, missing |-> missing, days |-> days]
Sheets == {Sheet("report", {}, "soon"), Sheet("report", {"captcha"}, "30"),
           Sheet("message", {}, ""), Sheet("message", {"captcha"}, "")}
messageComplete(f) == f.kind = "message" /\ f.missing = {}

Blank == [form |-> "none", served |-> 0]
Free  == [pc |-> "free", served |-> 0, id |-> 0,
          sheet |-> Sheet("", {}, "")]
Nothing == [what |-> "", id |-> 0, since |-> 0]
None == [v \in Visitors |-> 0]
\* Mail may be set up with no address of the operator's.
Contacts == {[enabled |-> TRUE, mail |-> "on", burst |-> 2, perMinute |-> 1],
             [enabled |-> TRUE, mail |-> "nobody", burst |-> 2, perMinute |-> 0],
             [enabled |-> TRUE, mail |-> "off", burst |-> 1, perMinute |-> 2],
             [enabled |-> FALSE, mail |-> "on", burst |-> 2, perMinute |-> 0]}

Init ==
  /\ day = 0
  /\ contact \in Contacts
  /\ page = [v \in Visitors |-> Blank] /\ post = [v \in Visitors |-> Free]
  /\ told = [v \in Visitors |-> Nothing]
  /\ reports = {} /\ letters = {} /\ entries = {}
  /\ arrived = None /\ counts = None /\ recorded = None /\ uses = 0

Keeps(vs) == UNCHANGED vs /\ UNCHANGED contact
Browsers == <<arrived, counts, recorded>>
Kept == <<reports, letters, entries>>

-----------------------------------------------------------------------------
(***************************************************************************)
(* What the visitor and the clock do                                       *)
(***************************************************************************)

NextDay ==
  /\ day < MaxDays /\ day' = day + 1
  /\ Keeps(<<page, post, told, Kept, Browsers, uses>>)

\* security.txt and /server/security have the link of the day.  Bound: in a minute
\* without browser reports, which have nothing in common with the forms.
securityTxt(v) ==
  /\ post[v].pc = "free" /\ page[v].form = "none" /\ arrived = None
  /\ page' = [page EXCEPT ![v] = [form |-> "link", served |-> day]]
  /\ Keeps(<<day, post, told, Kept, Browsers, uses>>)

\* /server/contact: by a good link the form of a report, else that of a message.
securityMode(served, kind) ==
  contact.enabled /\ kind = "report" /\ ValidSecurityID(SecurityID(served), day)
Opens(v) ==
  /\ page[v].form = "link" /\ post[v].pc = "free"
  /\ page' = [page EXCEPT ![v] =
                IF securityMode(@.served, "report") THEN [@ EXCEPT !.form = "report"]
                ELSE [form |-> "message", served |-> 0]]
  /\ Keeps(<<day, post, told, Kept, Browsers, uses>>)

\* He may send it again when no answer came, or after another.
Sends(v) ==
  /\ page[v].form \in {"report", "message"} /\ post[v].pc = "free"
  /\ uses < MaxRequests /\ uses' = uses + 1
  /\ \E s \in Sheets :
       /\ s.kind = page[v].form
       /\ post' = [post EXCEPT ![v] = [Free EXCEPT !.pc = "mode", !.served = page[v].served, !.sheet = s]]
  /\ told' = [told EXCEPT ![v] = Nothing]
  /\ Keeps(<<day, page, Kept, Browsers>>)

-----------------------------------------------------------------------------
(***************************************************************************)
(* contactHandler                                                          *)
(***************************************************************************)

Goes(v, pc) == post' = [post EXCEPT ![v].pc = pc, ![v].served = 0]
Answers(v, what) ==
  /\ post' = [post EXCEPT ![v] = Free]
  /\ told' = [told EXCEPT ![v] = [what |-> what, id |-> post[v].id, since |-> post[v].served]]

\* Fault: the letters go out before there is a row.
LettersFirst == "maintainer"
Begins == "store"
\* The form of a report whose link has run out has not what a message needs, so
\* that it is refused and the draft is gone.
contactHandler(v) ==
  LET s == post[v].sheet IN
  /\ post[v].pc = "mode"
  /\ IF securityMode(post[v].served, s.kind)
     THEN IF validateSecurityForm(readSecurityForm(s)) THEN Goes(v, Begins) /\ UNCHANGED told
          ELSE Answers(v, "incomplete")
     ELSE IF ~contact.enabled THEN Answers(v, "disabled")
          ELSE IF messageComplete(s) THEN Goes(v, "relay") /\ UNCHANGED told
          ELSE Answers(v, IF s.kind = "report" THEN "taken for a message" ELSE "incomplete")
  /\ Keeps(<<day, page, Kept, Browsers, uses>>)

\* The id of a report is new; the row has it, the days and the sealed form.
Ids == 1 .. MaxRequests
InsertSecurityReport(v, id) ==
  reports' = reports \cup {[id |-> id, by |-> v, days |-> readSecurityForm(post[v].sheet).days]}
storeSecurityReport(v) ==
  /\ post[v].pc = "store"
  /\ \/ \E id \in Ids :
          /\ \A r \in reports : r.id < id
          /\ \A j \in Ids : (\A r \in reports : r.id < j) => id <= j
          /\ InsertSecurityReport(v, id)
          /\ post' = [post EXCEPT ![v] = [Free EXCEPT !.pc = "maintainer", !.id = id]]
          /\ UNCHANGED told
     \/ /\ Answers(v, "not stored")   \* the key, the database, or its five seconds
        /\ reports' = reports
  /\ Keeps(<<day, page, letters, entries, Browsers, uses>>)

\* Each letter is tried once, and nobody learns how that went.
Letter(to, v) == [to |-> to, id |-> post[v].id, by |-> v]
notifyMaintainer(v) ==
  /\ post[v].pc = "maintainer" /\ Goes(v, "researcher")
  /\ letters' \in {letters} \cup
       IF contact.mail = "on" THEN {letters \cup {Letter("maintainer", v)}} ELSE {}
  /\ Keeps(<<day, page, told, reports, entries, Browsers, uses>>)
notifyResearcher(v) ==
  /\ post[v].pc = "researcher" /\ Goes(v, "audit")
  /\ letters' \in {letters} \cup
       IF contact.mail # "off" THEN {letters \cup {Letter("researcher", v)}} ELSE {}
  /\ Keeps(<<day, page, told, reports, entries, Browsers, uses>>)
auditReport(v) ==
  /\ post[v].pc = "audit" /\ Goes(v, "answer")
  /\ entries' \in {entries, entries \cup {post[v].id}}
  /\ Keeps(<<day, page, told, reports, letters, Browsers, uses>>)
securityReportPost(v) ==
  /\ post[v].pc = "answer" /\ Answers(v, "received")
  /\ Keeps(<<day, page, Kept, Browsers, uses>>)

\* The visitor is told that his message was sent, whether it was or not.
relayContactMessage(v) ==
  /\ post[v].pc = "relay" /\ Answers(v, "sent")
  /\ letters' \in {letters} \cup
       IF contact.mail = "on" THEN {letters \cup {Letter("operator", v)}} ELSE {}
  /\ Keeps(<<day, page, reports, entries, Browsers, uses>>)

\* The visitor goes elsewhere, or his connection breaks; the handler goes on.
\* The server dies with all that it was doing.
Leaves(v) ==
  /\ page[v].form # "none" /\ post[v].pc = "free"
  /\ page' = [page EXCEPT ![v] = Blank] /\ told' = [told EXCEPT ![v] = Nothing]
  /\ Keeps(<<day, post, Kept, Browsers, uses>>)
Dies ==
  /\ post' = [v \in Visitors |-> Free]
  /\ arrived' = None /\ counts' = None /\ recorded' = None
  /\ Keeps(<<day, page, told, Kept, uses>>)

-----------------------------------------------------------------------------
(***************************************************************************)
(* What browsers send                                                      *)
(***************************************************************************)

\* Fault: one count for all.
SharedLimit(v) == counts = None
newReportLimiter == IF contact.perMinute > 0 /\ contact.perMinute < contact.burst
                    THEN contact.perMinute ELSE contact.burst
allow(v) == counts[v] < newReportLimiter
\* The answer is the same for all; whatever is there is recorded, if only by kind.
\* Bound: nobody is at a form.
Report(v) ==
  /\ \A w \in Visitors : page[w].form = "none" /\ post[w].pc = "free"
  /\ uses < MaxRequests /\ uses' = uses + 1
  /\ arrived' = [arrived EXCEPT ![v] = @ + 1]
  /\ IF allow(v)
     THEN /\ counts' = [counts EXCEPT ![v] = @ + 1]
          /\ \E body \in {"", "a body"} :
               recorded' = IF body = "" THEN recorded ELSE [recorded EXCEPT ![v] = @ + 1]
     ELSE UNCHANGED <<counts, recorded>>
  /\ Keeps(<<day, page, post, told, Kept>>)
\* The first report after the minute makes all counts begin again.
MinutePasses ==
  /\ arrived' = None /\ counts' = None /\ recorded' = None
  /\ Keeps(<<day, page, post, told, Kept, uses>>)

Next ==
  \/ NextDay \/ Dies \/ MinutePasses
  \/ \E v \in Visitors :
       \/ securityTxt(v) \/ Opens(v) \/ Sends(v) \/ contactHandler(v)
       \/ storeSecurityReport(v) \/ notifyMaintainer(v) \/ notifyResearcher(v)
       \/ auditReport(v) \/ securityReportPost(v) \/ relayContactMessage(v)
       \/ Leaves(v) \/ Report(v)

Spec == Init /\ [][Next]_reportVars

-----------------------------------------------------------------------------
\* Who is told that his report was received has a row of his own under the id
\* he is told, and every letter and every entry of the audit log that names an
\* id names a row, wherever the server died and whatever was sent again.  A
\* report is refused for its link only when the link is older than the two days
\* it must be good for, and is taken for a message by nobody; and in a minute
\* no browser takes another's share of the reports that are recorded.
ReportsHandled ==
  /\ \A v \in Visitors :
       /\ told[v].what = "received" => \E r \in reports : r.id = told[v].id /\ r.by = v
       /\ told[v].what = "taken for a message" => day >= told[v].since + 2
       /\ recorded[v] <= counts[v]
       /\ arrived[v] <= newReportLimiter => counts[v] = arrived[v]
  /\ \A l \in letters : l.to # "operator" => \E r \in reports : r.id = l.id /\ r.by = l.by
  /\ entries \subseteq {r.id : r \in reports}
  /\ \A r, s \in reports : r.id = s.id => r = s
=============================================================================
