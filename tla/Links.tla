------------------------------- MODULE Links -------------------------------
(***************************************************************************)
(* The link store and the HTTP handlers that work on it: db/link.go,       *)
(* db/click.go, db/token.go and httpserver/links.go.  The database is      *)
(* SQLite, one writer at a time, so a statement or a transaction is one    *)
(* atomic step; a handler is a sequence of such statements, and handlers   *)
(* of different requests interleave between them.  A request may fail at   *)
(* any statement (timeout, cancelled client, busy database) and the        *)
(* process may crash; what was committed stays.                            *)
(***************************************************************************)
EXTENDS Naturals, FiniteSets

CONSTANTS
  Requests,             \* the handler goroutines
  Slugs,                \* short codes and custom slugs
  Reserved,             \* the slugs security.IsReservedSlug refuses
  AutoCodes,            \* the slugs GenerateShortCode can draw
  URLs,                 \* valid destination URLs
  Expiries,             \* the instants a client may ask a link to expire at
  Formats,              \* a subset of {"json", "text"}: what clients accept
  Agents,               \* a subset of {"human", "bot"}: who follows links
  Kinds,                \* the requests that arrive: "create", "form", ...
  MaxShortCodeAttempts, \* draws of CreateLinkAutoCode (10 in the code)
  StatsMaxRows,         \* clicks the statistics page reads (1000 in the code)
  MaxLinks,             \* bound: links ever inserted
  MaxClicks,            \* bound: clicks ever inserted
  MaxTime,              \* bound: the last instant of the clock
  Never, Keep, Generated, NoRow, Anonymous, Operator

ASSUME LinksAssumption ==
  /\ Reserved \subseteq Slugs
  /\ AutoCodes \subseteq Slugs
  /\ Expiries \subseteq Nat
  /\ Formats \subseteq {"json", "text"}
  /\ Agents \subseteq {"human", "bot"}
  /\ Kinds \subseteq {"create", "form", "update", "delete", "resolve", "stats"}
  /\ MaxShortCodeAttempts \in Nat \ {0}
  /\ StatsMaxRows \in Nat
  /\ MaxLinks \in Nat
  /\ MaxClicks \in Nat
  /\ MaxTime \in Nat
  /\ Generated \notin Slugs
  /\ Keep \notin URLs
  /\ Never \notin Nat
  /\ Keep \notin Nat \cup {Never}

LinkIds  == 1 .. MaxLinks
TokenIds == 1 .. MaxLinks
ClickIds == 1 .. MaxClicks

ASSUME SentinelAssumption ==
  /\ Operator \notin TokenIds
  /\ Anonymous \notin TokenIds
  /\ Operator # Anonymous
  /\ NoRow \notin [short_code : Slugs, destination_url : URLs,
                   expires_at : Expiries \cup {Never}, click_count : Nat]
  /\ NoRow \notin [url : URLs, end : Expiries \cup {Never}, visits : Nat]

VARIABLES
  links,      \* the table links: a row or NoRow for every id
  clicks,     \* the table clicks: rows [id, link_id]
  tokens,     \* the table api_tokens: rows [id, resource_id]
  lastLink,   \* AUTOINCREMENT of links
  lastClick,  \* AUTOINCREMENT of clicks
  lastToken,  \* AUTOINCREMENT of api_tokens
  now,        \* the wall clock
  req         \* what every handler goroutine is doing

db   == <<links, clicks, tokens, lastLink, lastClick, lastToken>>
vars == <<links, clicks, tokens, lastLink, lastClick, lastToken, now, req>>

LinkRows  == [short_code : Slugs, destination_url : URLs,
              expires_at : Expiries \cup {Never}, click_count : Nat]
ClickRows == [id : ClickIds, link_id : LinkIds]
TokenRows == [id : TokenIds, resource_id : LinkIds]

Pcs == {"idle", "insert", "readback", "token", "issued",
        "lookup", "authorize", "update", "reread", "delete",
        "resolve", "click", "stats", "done"}

Ops        == {"none", "create", "update", "delete", "resolve", "stats"}
AnySlug    == Slugs \cup {Generated}
AnyURL     == URLs \cup {Keep}
AnyExpiry  == Expiries \cup {Never, Keep}
AnyCred    == TokenIds \cup {Anonymous, Operator}
AnyFormat  == {"json", "text"}
AnyAgent   == {"human", "bot"}
Attempts   == 0 .. MaxShortCodeAttempts
MaybeLink  == LinkIds \cup {0}
MaybeRow   == LinkRows \cup {NoRow}
MaybeToken == TokenIds \cup {0}

\* A request: its inputs, the link row it read and the response it gave.
RequestStates ==
  [op : Ops, pc : Pcs, slug : AnySlug, url : AnyURL, expires : AnyExpiry,
   cred : AnyCred, format : AnyFormat, agent : AnyAgent, attempt : Attempts,
   id : MaybeLink, seen : MaybeRow, token : MaybeToken, rows : Nat, status : Nat]

\* A request as it arrives: nothing read yet, nothing answered.
Ask(op, pc, slug, url, expires, cred, format, agent) ==
  [op |-> op, pc |-> pc, slug |-> slug, url |-> url, expires |-> expires,
   cred |-> cred, format |-> format, agent |-> agent, attempt |-> 0, id |-> 0,
   seen |-> NoRow, token |-> 0, rows |-> 0, status |-> 0]

\* A request once answered: the response is all that is left of it.
Reply(op, status, id, token, seen, rows) ==
  [op |-> op, pc |-> "done", slug |-> Generated, url |-> Keep, expires |-> Keep,
   cred |-> Anonymous, format |-> "json", agent |-> "human", attempt |-> 0,
   id |-> id, seen |-> seen, token |-> token, rows |-> rows, status |-> status]

Blank == Ask("none", "idle", Generated, Keep, Keep, Anonymous, "json", "human")

Init ==
  /\ links = [l \in LinkIds |-> NoRow]
  /\ clicks = {}
  /\ tokens = {}
  /\ lastLink = 0 /\ lastClick = 0 /\ lastToken = 0
  /\ now = 0
  /\ req = [r \in Requests |-> Blank]

-----------------------------------------------------------------------------
Live(l)     == links[l] # NoRow
Taken(s)    == \E l \in LinkIds : Live(l) /\ links[l].short_code = s
ClicksOf(l) == {c \in clicks : c.link_id = l}
Busy(r)     == req[r].pc \notin {"idle", "done"}

\* Link.IsExpired, evaluated on the row the handler holds.
IsExpired(row) == row.expires_at # Never /\ now > row.expires_at

\* Move request r to pc, or end it with a status and forget its locals.
Goto(r, pc) == req' = [req EXCEPT ![r].pc = pc]
Answer(r, status) ==
  req' = [req EXCEPT ![r] = Reply(@.op, status, 0, 0, NoRow, 0)]

(***************************************************************************)
(* POST /links and the form of the home page                               *)
(***************************************************************************)

\* The bounds of the model: requests in flight still fit.
RoomForLink ==
  lastLink + Cardinality({q \in Requests : req[q].pc = "insert"}) < MaxLinks
RoomForClick ==
  lastClick + Cardinality({q \in Requests :
      Busy(q) /\ req[q].op = "resolve"}) < MaxClicks

\* createLinkHandler up to its first statement: a reserved slug is refused.
CreateRequest(r) ==
  /\ "create" \in Kinds /\ ~Busy(r) /\ RoomForLink
  /\ \E s \in Slugs \cup {Generated}, u \in URLs, e \in Expiries \cup {Never},
        f \in Formats :
       req' = [req EXCEPT ![r] =
         IF s \in Reserved THEN Reply("create", 409, 0, 0, NoRow, 0)
         ELSE Ask("create", "insert", s, u, e, Anonymous, f, "human")]
  /\ UNCHANGED <<db, now>>

\* homePost: the same steps, without an expiry, answered with a page.
SubmitHomeForm(r) ==
  /\ "form" \in Kinds /\ ~Busy(r) /\ RoomForLink
  /\ \E s \in Slugs \cup {Generated}, u \in URLs :
       req' = [req EXCEPT ![r] =
         IF s \in Reserved THEN Reply("create", 409, 0, 0, NoRow, 0)
         ELSE Ask("create", "insert", s, u, Never, Anonymous, "json", "human")]
  /\ UNCHANGED <<db, now>>

\* Fault: a plain INTEGER PRIMARY KEY, one more than the largest id in use.
ReusedLinkId == CHOOSE l \in LinkIds :
  /\ \A k \in LinkIds : Live(k) => k < l
  /\ l = 1 \/ Live(l - 1)

\* AUTOINCREMENT never gives an id out twice.
NextLinkId == lastLink + 1

\* The INSERT of insertLink.
InsertLink(r, code) ==
  /\ lastLink < MaxLinks
  /\ lastLink' = lastLink + 1
  /\ links' = [links EXCEPT ![NextLinkId] =
       [short_code |-> code, destination_url |-> req[r].url,
        expires_at |-> req[r].expires, click_count |-> 0]]
  /\ req' = [req EXCEPT ![r].pc = "readback", ![r].id = NextLinkId]
  /\ UNCHANGED <<clicks, tokens, lastClick, lastToken, now>>

\* CreateLinkCustomSlug: the UNIQUE constraint on short_code decides.
CreateLinkCustomSlug(r) ==
  /\ req[r].pc = "insert" /\ req[r].slug # Generated
  /\ \/ /\ Taken(req[r].slug)
        /\ Answer(r, 409)
        /\ UNCHANGED <<db, now>>
     \/ /\ ~Taken(req[r].slug)
        /\ InsertLink(r, req[r].slug)

\* Fault: the loop of CreateLinkAutoCode does not count.
SameAttempt(r) == req[r].attempt

NextAttempt(r) == req[r].attempt + 1

\* One round of CreateLinkAutoCode: a collision costs an attempt.
CreateLinkAutoCode(r) ==
  /\ req[r].pc = "insert" /\ req[r].slug = Generated
  /\ \E code \in AutoCodes :
       \/ /\ Taken(code)
          /\ req' = [req EXCEPT ![r] =
               IF NextAttempt(r) = MaxShortCodeAttempts
               THEN Reply("create", 500, 0, 0, NoRow, 0)
               ELSE [@ EXCEPT !.attempt = NextAttempt(r)]]
          /\ UNCHANGED <<db, now>>
       \/ /\ ~Taken(code)
          /\ InsertLink(r, code)

\* The SELECT that ends insertLink: ErrNotFound if the row is already gone.
ReadBackLink(r) ==
  /\ req[r].pc = "readback"
  /\ IF Live(req[r].id) THEN Goto(r, "token") ELSE Answer(r, 500)
  /\ UNCHANGED <<db, now>>

\* The INSERT of CreateResourceToken; owner tokens have no expiry.
CreateResourceToken(r) ==
  /\ req[r].pc = "token"
  /\ lastToken < MaxLinks
  /\ lastToken' = lastToken + 1
  /\ tokens' = tokens \cup {[id |-> lastToken + 1, resource_id |-> req[r].id]}
  /\ req' = [req EXCEPT ![r].pc = "issued", ![r].token = lastToken + 1]
  /\ UNCHANGED <<links, clicks, lastLink, lastClick, now>>

\* getTokenByID and the response: the raw token, known to this handler
\* alone, goes out with it except in the text form, which is the URL only.
ReadBackToken(r) ==
  /\ req[r].pc = "issued"
  /\ IF \E t \in tokens : t.id = req[r].token
     THEN req' = [req EXCEPT ![r] =
            Reply("create", 201, @.id, IF @.format = "text" THEN 0 ELSE @.token,
                  NoRow, 0)]
     ELSE Answer(r, 500)
  /\ UNCHANGED <<db, now>>

(***************************************************************************)
(* PATCH and DELETE /links/{slug}                                          *)
(***************************************************************************)

\* A client presents nothing, the operator token, or an owner token that
\* the server has issued, of whatever link and whether it still counts.
Credentials == {Anonymous, Operator} \cup {t \in TokenIds : t <= lastToken}

UpdateRequest(r) ==
  /\ "update" \in Kinds /\ ~Busy(r)
  /\ \E s \in Slugs, c \in Credentials, u \in URLs \cup {Keep},
        e \in Expiries \cup {Never, Keep} :
       req' = [req EXCEPT ![r] =
         Ask("update", "lookup", s, u, e, c, "json", "human")]
  /\ UNCHANGED <<db, now>>

DeleteRequest(r) ==
  /\ "delete" \in Kinds /\ ~Busy(r)
  /\ \E s \in Slugs, c \in Credentials :
       req' = [req EXCEPT ![r] =
         Ask("delete", "lookup", s, Keep, Keep, c, "json", "human")]
  /\ UNCHANGED <<db, now>>

\* What a handler does with the row it looked up.
AfterLookup(op) ==
  CASE op \in {"update", "delete"} -> "authorize"
    [] op = "resolve" -> "resolve"
    [] OTHER -> "stats"

\* lookupLink, the first statement of every handler on /{slug}.
LookupLink(r) ==
  /\ req[r].pc = "lookup"
  /\ \/ /\ ~Taken(req[r].slug)
        /\ Answer(r, 404)
     \/ \E l \in LinkIds :
          /\ Live(l) /\ links[l].short_code = req[r].slug
          /\ req' = [req EXCEPT ![r].pc = AfterLookup(req[r].op),
                                ![r].id = l, ![r].seen = links[l]]
  /\ UNCHANGED <<db, now>>

\* Fault: any owner token opens any link.
AnyToken(r) ==
  \/ req[r].cred = Operator
  \/ \E t \in tokens : t.id = req[r].cred

\* authorized: the operator, or a token of exactly this link.
Authorized(r) ==
  \/ req[r].cred = Operator
  \/ \E t \in tokens : t.id = req[r].cred /\ t.resource_id = req[r].id

Authorize(r) ==
  /\ req[r].pc = "authorize"
  /\ IF Authorized(r) THEN Goto(r, req[r].op) ELSE Answer(r, 403)
  /\ UNCHANGED <<db, now>>

\* Fault: the handler forgets that the body may leave the URL out.
DestinationAsSent(r) == req[r].url

\* The destination updateLinkHandler writes: what the body asks for, else
\* the one it read at lookup.
NewDestination(r) ==
  IF req[r].url = Keep THEN req[r].seen.destination_url ELSE req[r].url

\* Fault: INSERT OR REPLACE instead of UPDATE starts the counter again.
ReplacedRow(r) ==
  [links[req[r].id] EXCEPT !.destination_url = NewDestination(r), !.click_count = 0,
                           !.expires_at = IF req[r].expires = Keep THEN @
                                          ELSE req[r].expires]

\* The row after UPDATE links SET ...; without an expiry in the body only
\* the destination is set.
UpdatedRow(r) ==
  [links[req[r].id] EXCEPT !.destination_url = NewDestination(r),
                           !.expires_at = IF req[r].expires = Keep THEN @
                                          ELSE req[r].expires]

\* UpdateLinkDestination: UPDATE ... WHERE id = ?; no row is ErrNotFound.
UpdateLinkDestination(r) ==
  /\ req[r].pc = "update"
  /\ \/ /\ ~Live(req[r].id)
        /\ Answer(r, 500)
        /\ UNCHANGED links
     \/ /\ Live(req[r].id)
        /\ links' = [links EXCEPT ![req[r].id] = UpdatedRow(r)]
        /\ Goto(r, "reread")
  /\ UNCHANGED <<clicks, tokens, lastLink, lastClick, lastToken, now>>

\* GetLinkByID for the response of the PATCH.
RereadLink(r) ==
  /\ req[r].pc = "reread"
  /\ Answer(r, IF Live(req[r].id) THEN 200 ELSE 500)
  /\ UNCHANGED <<db, now>>

\* Fault: the clicks stay.
ClicksKept(l) == clicks

ClicksWithout(l) == {c \in clicks : c.link_id # l}

TokensWithout(l) == {t \in tokens : t.resource_id # l}

\* DeleteLink: clicks, tokens and row in one transaction, rolled back when
\* the row is gone.
DeleteLink(r) ==
  /\ req[r].pc = "delete"
  /\ \/ /\ ~Live(req[r].id)
        /\ Answer(r, 500)
        /\ UNCHANGED <<links, clicks, tokens>>
     \/ /\ Live(req[r].id)
        /\ clicks' = ClicksWithout(req[r].id)
        /\ tokens' = TokensWithout(req[r].id)
        /\ links' = [links EXCEPT ![req[r].id] = NoRow]
        /\ Answer(r, 200)
  /\ UNCHANGED <<lastLink, lastClick, lastToken, now>>

(***************************************************************************)
(* GET /{slug} and GET /links/{slug}/stats                                 *)
(***************************************************************************)

ResolveRequest(r) ==
  /\ "resolve" \in Kinds /\ ~Busy(r) /\ RoomForClick
  /\ \E s \in Slugs, a \in Agents :
       req' = [req EXCEPT ![r] =
         Ask("resolve", "lookup", s, Keep, Keep, Anonymous, "json", a)]
  /\ UNCHANGED <<db, now>>

StatsRequest(r) ==
  /\ "stats" \in Kinds /\ ~Busy(r)
  /\ \E s \in Slugs :
       req' = [req EXCEPT ![r] =
         Ask("stats", "lookup", s, Keep, Keep, Anonymous, "json", "human")]
  /\ UNCHANGED <<db, now>>

\* resolveHandler after the lookup: 410, a bot's redirect, or a click first.
Resolve(r) ==
  /\ req[r].pc = "resolve"
  /\ \/ IsExpired(req[r].seen) /\ Answer(r, 410)
     \/ ~IsExpired(req[r].seen) /\ req[r].agent = "bot" /\ Answer(r, 302)
     \/ ~IsExpired(req[r].seen) /\ req[r].agent # "bot" /\ Goto(r, "click")
  /\ UNCHANGED <<db, now>>

\* RecordClick: the click and the counter in one transaction.
RecordClick(r) ==
  /\ req[r].pc = "click"
  /\ Live(req[r].id)
  /\ lastClick < MaxClicks
  /\ lastClick' = lastClick + 1
  /\ clicks' = clicks \cup {[id |-> lastClick + 1, link_id |-> req[r].id]}
  /\ links' = [links EXCEPT ![req[r].id].click_count = @ + 1]
  /\ Answer(r, 302)
  /\ UNCHANGED <<tokens, lastLink, lastToken, now>>

\* Fault: the counter is incremented outside the transaction that failed.
CountedNotRecorded(r) ==
  /\ req[r].pc = "click" /\ Live(req[r].id)
  /\ links' = [links EXCEPT ![req[r].id].click_count = @ + 1]
  /\ Answer(r, 302)
  /\ UNCHANGED <<clicks, tokens, lastLink, lastClick, lastToken, now>>

\* The click is not recorded, because the foreign key has no row or the
\* transaction failed: logged, and the visitor is redirected all the same.
ClickNotRecorded(r) ==
  /\ req[r].pc = "click"
  /\ Answer(r, 302)
  /\ UNCHANGED <<db, now>>

\* ClicksForLink, limited, and the response of statsHandler.
ClicksForLink(r) ==
  /\ req[r].pc = "stats"
  /\ LET n == Cardinality(ClicksOf(req[r].id))
     IN req' = [req EXCEPT ![r] =
          Reply("stats", 200, @.id, 0, @.seen,
                IF n <= StatsMaxRows THEN n ELSE StatsMaxRows)]
  /\ UNCHANGED <<db, now>>

(***************************************************************************)
(* Failure, crash and time                                                 *)
(***************************************************************************)

\* A statement times out, the client goes away, or the body is refused; 500
\* stands for all the error answers that tell the client of no change.
Fail(r) ==
  /\ Busy(r) /\ req[r].pc # "click"
  /\ Answer(r, 500)
  /\ UNCHANGED <<db, now>>

\* The process dies: its requests with it, the database stays.
Crash ==
  /\ \E r \in Requests : Busy(r)
  /\ req' = [r \in Requests |-> Blank]
  /\ UNCHANGED <<db, now>>

Tick ==
  /\ now < MaxTime
  /\ now' = now + 1
  /\ UNCHANGED <<db, req>>

Arrive(r) ==
  \/ CreateRequest(r) \/ SubmitHomeForm(r) \/ UpdateRequest(r)
  \/ DeleteRequest(r) \/ ResolveRequest(r) \/ StatsRequest(r)

\* One statement of the handler of r.
Handle(r) ==
  \/ CreateLinkCustomSlug(r) \/ CreateLinkAutoCode(r) \/ ReadBackLink(r)
  \/ CreateResourceToken(r) \/ ReadBackToken(r)
  \/ LookupLink(r) \/ Authorize(r)
  \/ UpdateLinkDestination(r) \/ RereadLink(r) \/ DeleteLink(r)
  \/ Resolve(r) \/ RecordClick(r) \/ ClickNotRecorded(r) \/ ClicksForLink(r)

Next ==
  \/ \E r \in Requests : Arrive(r) \/ Handle(r) \/ Fail(r)
  \/ Crash
  \/ Tick

Safety == Init /\ [][Next]_vars

\* A goroutine that has a statement to run runs it.
Spec == Safety /\ \A r \in Requests : WF_vars(Handle(r))

-----------------------------------------------------------------------------
(***************************************************************************)
(* Properties                                                              *)
(***************************************************************************)

\* Every table, counter and request has its type.
TypeOK ==
  /\ links \in [LinkIds -> MaybeRow]
  /\ clicks \subseteq ClickRows
  /\ tokens \subseteq TokenRows
  /\ lastLink \in 0 .. MaxLinks
  /\ lastClick \in 0 .. MaxClicks
  /\ lastToken \in 0 .. MaxLinks
  /\ now \in 0 .. MaxTime
  /\ req \in [Requests -> RequestStates]

\* Whatever redirects, deletions and failures interleave, the counter of a
\* link is the number of its click rows, and no click outlives its link
\* (RecordClick, DeleteLink and the foreign key of clicks).
ClickCountsMatch ==
  /\ \A c \in clicks : Live(c.link_id)
  /\ \A l \in LinkIds :
       Live(l) => links[l].click_count = Cardinality(ClicksOf(l))

\* A link is never opened by two owner tokens: in particular a token left
\* over from a deleted link never opens a later one (AUTOINCREMENT ids in
\* links, one CreateResourceToken in every create).
OneTokenPerLink ==
  \A t1, t2 \in tokens : t1.resource_id = t2.resource_id => t1 = t2

\* This step changes what link l points to, when it ends, or removes it.
EditedOrRemoved(l) ==
  \/ links'[l] = NoRow
  \/ links'[l].destination_url # links[l].destination_url
  \/ links'[l].expires_at # links[l].expires_at

\* A link is edited or removed only by a request that holds, at the moment
\* of the write and not only when authorized() looked, the operator token
\* or a token of that very link -- even if the slug has changed hands since.
WritesAuthorized ==
  [][\A l \in LinkIds :
       Live(l) /\ EditedOrRemoved(l)
       => \E r \in Requests :
            /\ req[r].pc \in {"update", "delete"} /\ req[r].id = l
            /\ \/ req[r].cred = Operator
               \/ \E t \in tokens : t.id = req[r].cred /\ t.resource_id = l
    ]_vars

\* The statistics page never shows fewer clicks than the total it prints,
\* up to the page's limit, unless the link is deleted under it: the total
\* is read before the rows (statsHandler).
StatsCoverTotal ==
  \A r \in Requests :
    (req[r].op = "stats" /\ req[r].status = 200 /\ Live(req[r].id))
    => \/ req[r].rows >= req[r].seen.click_count
       \/ req[r].rows = StatsMaxRows

\* A create that was answered 201 left a link with an owner token, as long
\* as the link lives (createLinkHandler, homePost).
CreatedLinkHasToken ==
  \A r \in Requests :
    (req[r].op = "create" /\ req[r].status = 201 /\ Live(req[r].id))
    => \E t \in tokens : t.resource_id = req[r].id

\* Who owns a link is settled, whoever creates, edits and deletes beside him: a
\* link that was handed out has a token, and no link ever has two.
OwnersSettled == OneTokenPerLink /\ CreatedLinkHasToken

\* Counter, rows and the page that shows both agree, through redirects and
\* deletions between the statements that write and read them.
StatisticsAgree == ClickCountsMatch /\ StatsCoverTotal

(***************************************************************************)
(* The inductive invariant: what the tables and the handlers know of each  *)
(* other between two statements.                                           *)
(***************************************************************************)

\* The counters are ahead of every id in use.
IdsIssued ==
  /\ \A l \in LinkIds : Live(l) => l <= lastLink
  /\ \A c \in clicks : c.id <= lastClick
  /\ \A t \in tokens : t.id <= lastToken /\ t.resource_id <= lastLink
  /\ IsFiniteSet(clicks)

\* A handler past its lookup or its INSERT holds the id of a link that
\* exists or existed, and past its lookup the row it read.
HoldsRow(x) ==
  /\ x.id <= lastLink
  /\ x.token <= lastToken
  /\ x.pc \in {"readback", "token", "issued", "authorize", "update",
              "reread", "delete", "resolve", "click", "stats"} => x.id \in LinkIds
  /\ x.pc \in {"authorize", "update", "delete", "resolve", "click", "stats"}
     => x.seen \in LinkRows
  /\ x.pc = "authorize" => x.op \in {"update", "delete"}
  /\ x.pc \in {"update", "delete"} => x.op = x.pc
  /\ x.pc = "reread" => x.op = "update"
  /\ x.pc = "insert" => /\ x.url \in URLs /\ x.expires # Keep
                        /\ x.attempt < MaxShortCodeAttempts
  /\ x.op = "create" /\ x.status = 201 => x.pc = "done" /\ x.id \in LinkIds
  /\ x.op = "stats" /\ x.status = 200
     => x.pc = "done" /\ x.id \in LinkIds /\ x.seen \in LinkRows

HandlersHoldRow == \A r \in Requests : HoldsRow(req[r])

\* A create that has not issued its token yet has its link to itself.
TokenToBeIssued ==
  \A r \in Requests : req[r].pc \in {"readback", "token"} =>
    /\ \A t \in tokens : t.resource_id # req[r].id
    /\ \A q \in Requests \ {r} :
         req[q].pc \in {"readback", "token"} => req[q].id # req[r].id

\* The token a create reads back is the one of its link.
TokenIssued ==
  \A r \in Requests : req[r].pc = "issued" =>
    \A t \in tokens : t.id = req[r].token => t.resource_id = req[r].id

\* What authorized() saw still holds when the write comes, or the link is gone.
AuthorizationHolds ==
  \A r \in Requests :
    req[r].pc \in {"update", "delete"} /\ Live(req[r].id) => Authorized(r)

\* The counter of a link only grows after it was read.
SeenCountHolds ==
  \A r \in Requests :
    req[r].pc = "stats" /\ Live(req[r].id)
    => req[r].seen.click_count <= links[req[r].id].click_count

IInv ==
  /\ TypeOK /\ IdsIssued /\ HandlersHoldRow
  /\ TokenToBeIssued /\ TokenIssued /\ AuthorizationHolds /\ SeenCountHolds
  /\ ClickCountsMatch /\ OneTokenPerLink
  /\ StatsCoverTotal /\ CreatedLinkHasToken

\* Every request is answered, or dies with the process: also the create
\* that keeps drawing codes that are taken (CreateLinkAutoCode).
RequestsAnswered == \A r \in Requests : Busy(r) ~> ~Busy(r)

\* The entry of a slug in the registry: its one row, without id and tokens.
EntryOf(s) ==
  IF Taken(s)
  THEN LET row == links[CHOOSE l \in LinkIds : Live(l) /\ links[l].short_code = s]
       IN [url |-> row.destination_url, end |-> row.expires_at,
           visits |-> row.click_count]
  ELSE NoRow

Registry == INSTANCE LinkRegistry WITH
  Ends <- Expiries \cup {Never}, Free <- NoRow,
  entry <- [s \in Slugs |-> EntryOf(s)]

\* The tables and handlers implement the registry of LinkRegistry: under
\* any interleaving a slug has one link at a time, a visit counts once and
\* no edit, failure or crash loses or invents one.
RefinesRegistry == Registry!Spec
=============================================================================
