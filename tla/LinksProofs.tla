---------------------------- MODULE LinksProofs ----------------------------
(***************************************************************************)
(* Theorems about Links.  IInv is inductive; the invariants the runs check *)
(* are among its conjuncts.  Most steps of a handler only read the         *)
(* database: one lemma, ReadingStep, covers them all, and the five         *)
(* statements that write are taken one by one.                             *)
(***************************************************************************)
EXTENDS Links, FiniteSetTheorems, TLAPS

USE DEF LinkIds, TokenIds, ClickIds

\* Requests and replies have the type of a request state.
LEMMA Zeros ==
  /\ 0 \in Attempts /\ 0 \in MaybeLink /\ 0 \in MaybeToken /\ 0 \in Nat
  /\ NoRow \in MaybeRow /\ Generated \in AnySlug /\ Keep \in AnyURL /\ Keep \in AnyExpiry
  /\ Anonymous \in AnyCred /\ "json" \in AnyFormat /\ "human" \in AnyAgent
  /\ "insert" \in Pcs /\ "lookup" \in Pcs /\ "done" \in Pcs /\ "idle" \in Pcs
  BY LinksAssumption DEF Attempts, MaybeLink, MaybeToken, MaybeRow, AnySlug, AnyURL,
     AnyExpiry, AnyCred, AnyFormat, AnyAgent, Pcs

LEMMA AskType ==
  ASSUME NEW op \in Ops, NEW pc \in Pcs, NEW slug \in AnySlug, NEW url \in AnyURL,
         NEW expires \in AnyExpiry, NEW cred \in AnyCred,
         NEW format \in AnyFormat, NEW agent \in AnyAgent
  PROVE  Ask(op, pc, slug, url, expires, cred, format, agent) \in RequestStates
  BY Zeros DEF Ask, RequestStates

LEMMA ReplyType ==
  ASSUME NEW op \in Ops, NEW status \in Nat, NEW id \in MaybeLink,
         NEW token \in MaybeToken, NEW seen \in MaybeRow, NEW rows \in Nat
  PROVE  Reply(op, status, id, token, seen, rows) \in RequestStates
  BY Zeros DEF Reply, RequestStates

\* One field of a request state set to a value of its type.
LEMMA SetField ==
  ASSUME NEW x \in RequestStates
  PROVE  /\ \A pc \in Pcs : [x EXCEPT !.pc = pc] \in RequestStates
         /\ \A n \in Attempts : [x EXCEPT !.attempt = n] \in RequestStates
         /\ \A l \in MaybeLink : [x EXCEPT !.id = l] \in RequestStates
         /\ \A t \in MaybeToken : [x EXCEPT !.token = t] \in RequestStates
         /\ \A row \in MaybeRow : [x EXCEPT !.seen = row] \in RequestStates
<1>1. \A pc \in Pcs : [x EXCEPT !.pc = pc] \in RequestStates
  BY DEF RequestStates
<1>2. \A n \in Attempts : [x EXCEPT !.attempt = n] \in RequestStates
  BY DEF RequestStates
<1>3. \A l \in MaybeLink : [x EXCEPT !.id = l] \in RequestStates
  BY DEF RequestStates
<1>4. \A t \in MaybeToken : [x EXCEPT !.token = t] \in RequestStates
  BY DEF RequestStates
<1>5. \A row \in MaybeRow : [x EXCEPT !.seen = row] \in RequestStates
  BY DEF RequestStates
<1>. QED
  BY <1>1, <1>2, <1>3, <1>4, <1>5

\* A step that reads: request r becomes x and the database is as it was.
\* What IInv asks of x is what the statement read.
LEMMA ReadingStep ==
  ASSUME IInv, NEW r \in Requests, NEW x \in RequestStates,
         req' = [req EXCEPT ![r] = x], UNCHANGED <<db, now>>,
         HoldsRow(x),
         x.pc \in {"readback", "token"} =>
           req[r].pc \in {"readback", "token"} /\ x.id = req[r].id,
         x.pc # "issued",
         x.pc \in {"update", "delete"} /\ Live(x.id) =>
           \/ x.cred = Operator
           \/ \E t \in tokens : t.id = x.cred /\ t.resource_id = x.id,
         x.pc = "stats" /\ Live(x.id) =>
           x.seen.click_count <= links[x.id].click_count,
         x.op = "stats" /\ x.status = 200 /\ Live(x.id) =>
           \/ x.rows >= x.seen.click_count
           \/ x.rows = StatsMaxRows,
         x.op = "create" /\ x.status = 201 /\ Live(x.id) =>
           \E t \in tokens : t.resource_id = x.id
  PROVE  IInv'
<1>1. req' \in [Requests -> RequestStates]
  BY DEF IInv, TypeOK
<1>2. req'[r] = x /\ \A q \in Requests \ {r} : req'[q] = req[q]
  BY DEF IInv, TypeOK
<1>. USE DEF db
<1>3. TypeOK'
  BY <1>1 DEF IInv, TypeOK
<1>4. IdsIssued' /\ ClickCountsMatch' /\ OneTokenPerLink'
  BY DEF IInv, IdsIssued, ClickCountsMatch, OneTokenPerLink, Live, ClicksOf
<1>5. HandlersHoldRow'
  BY <1>2 DEF IInv, HandlersHoldRow, HoldsRow
<1>6. TokenToBeIssued'
  BY <1>2 DEF IInv, TokenToBeIssued
<1>7. TokenIssued'
  BY <1>2 DEF IInv, TokenIssued
<1>8. AuthorizationHolds'
  BY <1>2 DEF IInv, AuthorizationHolds, Authorized, Live
<1>9. SeenCountHolds'
  BY <1>2 DEF IInv, SeenCountHolds, Live
<1>10. StatsCoverTotal'
  BY <1>2 DEF IInv, StatsCoverTotal, Live
<1>11. CreatedLinkHasToken'
  BY <1>2 DEF IInv, CreatedLinkHasToken, Live
<1>. QED
  BY <1>3, <1>4, <1>5, <1>6, <1>7, <1>8, <1>9, <1>10, <1>11 DEF IInv

\* A step that leaves request r holding no row and no token.
LEMMA HoldingNothing ==
  ASSUME IInv, NEW r \in Requests, NEW x \in RequestStates,
         req' = [req EXCEPT ![r] = x], UNCHANGED <<db, now>>,
         x.pc \in {"insert", "lookup", "done"}, x.id = 0, x.token = 0,
         x.status # 201, x.op = "stats" => x.status # 200,
         x.pc = "insert" => /\ x.url \in URLs /\ x.expires # Keep
                            /\ x.attempt < MaxShortCodeAttempts
  PROVE  IInv'
<1>1. HoldsRow(x)
  BY DEF HoldsRow, IInv, TypeOK
<1>2. x.pc \notin {"readback", "token", "issued", "update", "delete", "stats"}
  OBVIOUS
<1>. QED
  BY <1>1, <1>2, ReadingStep

\* An answer forgets what the handler held.
LEMMA AnswerStep ==
  ASSUME IInv, NEW r \in Requests, NEW status \in Nat \ {201},
         Answer(r, status), UNCHANGED <<db, now>>,
         status = 200 => req[r].op # "stats"
  PROVE  IInv'
<1>. DEFINE x == Reply(req[r].op, status, 0, 0, NoRow, 0)
<1>1. req[r] \in RequestStates
  BY DEF IInv, TypeOK
<1>2. x \in RequestStates
  BY <1>1, Zeros, ReplyType DEF RequestStates
<1>3. /\ x.op = req[r].op /\ x.pc = "done" /\ x.status = status
      /\ x.id = 0 /\ x.token = 0
  BY DEF Reply
<1>4. req' = [req EXCEPT ![r] = x]
  BY DEF Answer
<1>. HIDE DEF x
<1>. QED
  BY <1>2, <1>3, <1>4, HoldingNothing

\* The arrival of a request.
LEMMA ArriveStep ==
  ASSUME IInv, NEW r \in Requests, Arrive(r)
  PROVE  IInv'
<1>1. ASSUME NEW s \in Slugs \cup {Generated}, NEW u \in URLs, NEW e \in Expiries \cup {Never},
             NEW f \in AnyFormat, UNCHANGED <<db, now>>,
             req' = [req EXCEPT ![r] =
               IF s \in Reserved THEN Reply("create", 409, 0, 0, NoRow, 0)
               ELSE Ask("create", "insert", s, u, e, Anonymous, f, "human")]
      PROVE  IInv'
  <2>. DEFINE x == IF s \in Reserved THEN Reply("create", 409, 0, 0, NoRow, 0)
                   ELSE Ask("create", "insert", s, u, e, Anonymous, f, "human")
  <2>1. x \in RequestStates
    BY LinksAssumption, Zeros, AskType, ReplyType
       DEF Ops, AnySlug, AnyURL, AnyExpiry, AnyFormat
  <2>2. /\ x.pc \in {"insert", "done"} /\ x.id = 0 /\ x.token = 0
        /\ x.status # 200 /\ x.status # 201
        /\ x.pc = "insert" => /\ x.url \in URLs /\ x.expires # Keep
                              /\ x.attempt < MaxShortCodeAttempts
    <3>1. CASE s \in Reserved
      BY <3>1 DEF Reply
    <3>2. CASE s \notin Reserved
      <4>1. e # Keep /\ 0 < MaxShortCodeAttempts
        BY LinksAssumption
      <4>. QED
        BY <3>2, <4>1 DEF Ask
    <3>. QED
      BY <3>1, <3>2
  <2>3. req' = [req EXCEPT ![r] = x] /\ UNCHANGED <<db, now>>
    BY <1>1
  <2>. HIDE DEF x
  <2>. QED
    BY <2>1, <2>2, <2>3, HoldingNothing
<1>2. ASSUME NEW op \in {"update", "delete", "resolve", "stats"}, NEW s \in Slugs,
             NEW u \in AnyURL, NEW e \in AnyExpiry, NEW c \in AnyCred, NEW a \in AnyAgent,
             req' = [req EXCEPT ![r] = Ask(op, "lookup", s, u, e, c, "json", a)],
             UNCHANGED <<db, now>>
      PROVE  IInv'
  <2>. DEFINE x == Ask(op, "lookup", s, u, e, c, "json", a)
  <2>1. x \in RequestStates
    BY Zeros, AskType DEF Ops, AnySlug
  <2>2. x.pc = "lookup" /\ x.id = 0 /\ x.token = 0
        /\ x.status # 200 /\ x.status # 201
    BY DEF Ask
  <2>3. req' = [req EXCEPT ![r] = x] /\ UNCHANGED <<db, now>>
    BY <1>2
  <2>. HIDE DEF x
  <2>. QED
    BY <2>1, <2>2, <2>3, HoldingNothing
<1>3. CASE CreateRequest(r)
  BY ZenonT(60), <1>1, <1>3, LinksAssumption DEF CreateRequest, AnyFormat
<1>4. CASE SubmitHomeForm(r)
  BY <1>1, <1>4, Zeros DEF SubmitHomeForm
<1>5. CASE UpdateRequest(r)
  BY <1>2, <1>5, Zeros DEF UpdateRequest, Credentials, AnyURL, AnyExpiry, AnyCred
<1>6. CASE DeleteRequest(r)
  BY <1>2, <1>6, Zeros DEF DeleteRequest, Credentials, AnyCred
<1>7. CASE ResolveRequest(r)
  BY <1>2, <1>7, Zeros, LinksAssumption DEF ResolveRequest, AnyAgent
<1>8. CASE StatsRequest(r)
  BY <1>2, <1>8, Zeros DEF StatsRequest
<1>. QED
  BY <1>3, <1>4, <1>5, <1>6, <1>7, <1>8 DEF Arrive

\* A handler that goes on with its next statement.
LEMMA GotoStep ==
  ASSUME IInv, NEW r \in Requests, NEW pc \in Pcs \ {"issued", "stats", "insert", "done", "idle"},
         Busy(r), Goto(r, pc), UNCHANGED <<db, now>>,
         HoldsRow([req[r] EXCEPT !.pc = pc]),
         pc \in {"readback", "token"} => req[r].pc \in {"readback", "token"},
         pc \in {"update", "delete"} => Authorized(r)
  PROVE  IInv'
<1>. DEFINE x == [req[r] EXCEPT !.pc = pc]
<1>1. req[r] \in RequestStates /\ HoldsRow(req[r])
  BY DEF IInv, TypeOK, HandlersHoldRow
<1>2. x \in RequestStates
  BY <1>1, SetField
<1>3. x.pc = pc /\ x.id = req[r].id /\ x.op = req[r].op /\ x.status = req[r].status
      /\ x.cred = req[r].cred
  BY <1>1 DEF RequestStates
<1>4. req' = [req EXCEPT ![r] = x]
  BY DEF Goto
<1>5. ~(x.op = "stats" /\ x.status = 200) /\ ~(x.op = "create" /\ x.status = 201)
  BY <1>1, <1>3 DEF HoldsRow, Busy
<1>6. x.pc \in {"update", "delete"} =>
        \/ x.cred = Operator
        \/ \E t \in tokens : t.id = x.cred /\ t.resource_id = x.id
  BY <1>3 DEF Authorized
<1>7. HoldsRow(x)
  OBVIOUS
<1>. HIDE DEF x
<1>. QED
  BY <1>2, <1>3, <1>4, <1>5, <1>6, <1>7, ReadingStep

\* The statements of the handlers that write nothing.
LEMMA ReadStatements ==
  ASSUME IInv, NEW r \in Requests,
         \/ ReadBackLink(r) \/ ReadBackToken(r) \/ LookupLink(r)
         \/ Authorize(r) \/ RereadLink(r) \/ Resolve(r)
         \/ ClickNotRecorded(r) \/ ClicksForLink(r) \/ Fail(r)
  PROVE  IInv'
<1>. req[r] \in RequestStates /\ HoldsRow(req[r])
  BY DEF IInv, TypeOK, HandlersHoldRow
<1>1. CASE ReadBackLink(r)
  <2>1. CASE Goto(r, "token")
    <3>1. HoldsRow([req[r] EXCEPT !.pc = "token"])
      BY <1>1 DEF ReadBackLink, HoldsRow, RequestStates
    <3>. QED
      BY <1>1, <2>1, <3>1, GotoStep DEF ReadBackLink, Busy, Pcs
  <2>2. CASE Answer(r, 500)
    BY <1>1, <2>2, AnswerStep DEF ReadBackLink
  <2>. QED
    BY <1>1, <2>1, <2>2 DEF ReadBackLink
<1>2. CASE ReadBackToken(r)
  <2>1. CASE \E t \in tokens : t.id = req[r].token
    <3>. DEFINE x == Reply("create", 201, req[r].id,
                           IF req[r].format = "text" THEN 0 ELSE req[r].token, NoRow, 0)
    <3>1. x \in RequestStates
      <4>1. req[r].id \in MaybeLink /\ req[r].token \in MaybeToken
        BY DEF RequestStates
      <4>2. "create" \in Ops /\ 201 \in Nat
        BY DEF Ops
      <4>3. (IF req[r].format = "text" THEN 0 ELSE req[r].token) \in MaybeToken
        BY <4>1, Zeros
      <4>4. NoRow \in MaybeRow /\ 0 \in Nat
        BY Zeros
      <4>. HIDE DEF x
      <4>5. Reply("create", 201, req[r].id, IF req[r].format = "text" THEN 0 ELSE req[r].token,
                  NoRow, 0) \in RequestStates
        BY <4>1, <4>2, <4>3, <4>4, ReplyType
      <4>. QED
        BY <4>5 DEF x
    <3>2. /\ x.op = "create" /\ x.pc = "done" /\ x.status = 201
          /\ x.id = req[r].id /\ x.token \in {0, req[r].token}
      BY DEF Reply
    <3>3. HoldsRow(x)
      BY <1>2, <3>2 DEF HoldsRow, ReadBackToken, IInv, TypeOK
    <3>4. \E t \in tokens : t.resource_id = x.id
      BY <1>2, <2>1, <3>2 DEF IInv, TokenIssued, ReadBackToken
    <3>5. req' = [req EXCEPT ![r] = x] /\ UNCHANGED <<db, now>>
      BY <1>2, <2>1 DEF ReadBackToken
    <3>. HIDE DEF x
    <3>. QED
      BY <3>1, <3>2, <3>3, <3>4, <3>5, ReadingStep
  <2>2. CASE ~ \E t \in tokens : t.id = req[r].token
    BY <1>2, <2>2, AnswerStep DEF ReadBackToken
  <2>. QED
    BY <2>1, <2>2
<1>3. CASE LookupLink(r)
  <2>1. CASE Answer(r, 404)
    <3>1. UNCHANGED <<db, now>>
      BY <1>3 DEF LookupLink
    <3>. QED
      BY <2>1, <3>1, AnswerStep
  <2>2. ASSUME NEW l \in LinkIds, Live(l),
               req' = [req EXCEPT ![r].pc = AfterLookup(req[r].op),
                                  ![r].id = l, ![r].seen = links[l]]
        PROVE  IInv'
    <3>. DEFINE pc == AfterLookup(req[r].op)
                x1 == [req[r] EXCEPT !.pc = pc]
                x2 == [x1 EXCEPT !.id = l]
                x  == [x2 EXCEPT !.seen = links[l]]
    <3>1. pc \in {"authorize", "resolve", "stats"} /\ pc \in Pcs
          /\ (pc = "authorize" => req[r].op \in {"update", "delete"})
      BY DEF AfterLookup, Pcs
    <3>2. links[l] \in LinkRows /\ l \in MaybeLink /\ links[l] \in MaybeRow
      BY <2>2 DEF IInv, TypeOK, Live, MaybeRow, MaybeLink
    <3>3. req' = [req EXCEPT ![r] = x]
      BY <2>2 DEF IInv, TypeOK
    <3>. HIDE DEF pc
    <3>4. x1 \in RequestStates /\ x1.pc = pc /\ x1.op = req[r].op
          /\ x1.token = req[r].token /\ x1.status = req[r].status
      BY <3>1, SetField DEF RequestStates
    <3>. HIDE DEF x1
    <3>5. x2 \in RequestStates /\ x2.pc = pc /\ x2.op = req[r].op /\ x2.id = l
          /\ x2.token = req[r].token /\ x2.status = req[r].status
      BY <3>2, <3>4, SetField DEF RequestStates
    <3>. HIDE DEF x2
    <3>6. x \in RequestStates /\ x.pc = pc /\ x.op = req[r].op /\ x.id = l
          /\ x.seen = links[l] /\ x.token = req[r].token /\ x.status = req[r].status
      BY <3>2, <3>5, SetField DEF RequestStates
    <3>. HIDE DEF x
    <3>7. HoldsRow(x)
      <4>1. l <= lastLink
        BY <2>2 DEF IInv, IdsIssued
      <4>. QED
        BY <1>3, <3>1, <3>2, <3>6, <4>1 DEF HoldsRow, LookupLink
    <3>8. ~(x.op = "stats" /\ x.status = 200) /\ ~(x.op = "create" /\ x.status = 201)
      BY <1>3, <3>6 DEF HoldsRow, LookupLink
    <3>9. x.seen.click_count <= links[x.id].click_count
      BY <3>2, <3>6 DEF LinkRows
    <3>10. x.pc \notin {"readback", "token", "issued", "update", "delete"}
      BY <3>1, <3>6
    <3>. QED
      BY <1>3, <3>3, <3>6, <3>7, <3>8, <3>9, <3>10, ReadingStep DEF LookupLink
  <2>. QED
    BY <1>3, <2>1, <2>2 DEF LookupLink
<1>4. CASE Authorize(r)
  <2>1. CASE Authorized(r)
    <3>1. req[r].op \in {"update", "delete"} /\ Goto(r, req[r].op)
      BY <1>4, <2>1 DEF Authorize, HoldsRow
    <3>2. HoldsRow([req[r] EXCEPT !.pc = req[r].op])
      BY <1>4, <3>1 DEF Authorize, HoldsRow, RequestStates
    <3>. QED
      BY <1>4, <2>1, <3>1, <3>2, GotoStep DEF Authorize, Busy, Pcs
  <2>2. CASE ~Authorized(r)
    BY <1>4, <2>2, AnswerStep DEF Authorize
  <2>. QED
    BY <2>1, <2>2
<1>5. CASE RereadLink(r)
  <2>1. req[r].op = "update"
    BY <1>5 DEF RereadLink, HoldsRow
  <2>. QED
    BY <1>5, <2>1, AnswerStep DEF RereadLink
<1>6. CASE Resolve(r)
  <2>1. CASE Goto(r, "click")
    <3>1. HoldsRow([req[r] EXCEPT !.pc = "click"])
      BY <1>6 DEF Resolve, HoldsRow, RequestStates
    <3>. QED
      BY <1>6, <2>1, <3>1, GotoStep DEF Resolve, Busy, Pcs
  <2>2. CASE Answer(r, 410) \/ Answer(r, 302)
    BY <1>6, <2>2, AnswerStep DEF Resolve
  <2>. QED
    BY <1>6, <2>1, <2>2 DEF Resolve
<1>7. CASE ClickNotRecorded(r)
  BY <1>7, AnswerStep DEF ClickNotRecorded
<1>8. CASE ClicksForLink(r)
  <2>. DEFINE n == Cardinality(ClicksOf(req[r].id))
              rows == IF n <= StatsMaxRows THEN n ELSE StatsMaxRows
              x == Reply("stats", 200, req[r].id, 0, req[r].seen, rows)
  <2>1. n \in Nat
    BY FS_CardinalityType, FS_Subset DEF ClicksOf, IInv, IdsIssued
  <2>2. rows \in Nat
    BY <2>1, LinksAssumption
  <2>3. req' = [req EXCEPT ![r] = x] /\ UNCHANGED <<db, now>>
    BY <1>8 DEF ClicksForLink
  <2>4. req[r].id \in LinkIds /\ req[r].seen \in LinkRows
    BY <1>8 DEF HoldsRow, ClicksForLink
  <2>5. x \in RequestStates
    <3>1. req[r].id \in MaybeLink /\ req[r].seen \in MaybeRow
      BY DEF RequestStates
    <3>2. "stats" \in Ops /\ 200 \in Nat
      BY DEF Ops
    <3>. HIDE DEF rows
    <3>. QED
      BY <2>2, <3>1, <3>2, Zeros, ReplyType
  <2>6. /\ x.op = "stats" /\ x.pc = "done" /\ x.status = 200 /\ x.rows = rows
        /\ x.id = req[r].id /\ x.token = 0 /\ x.seen = req[r].seen
    BY DEF Reply
  <2>7. HoldsRow(x)
    BY <2>4, <2>6 DEF HoldsRow, IInv, TypeOK
  <2>8. Live(x.id) => x.rows >= x.seen.click_count \/ x.rows = StatsMaxRows
    <3>. SUFFICES ASSUME Live(x.id)
                  PROVE  x.rows >= x.seen.click_count \/ x.rows = StatsMaxRows
      OBVIOUS
    <3>1. links[x.id].click_count = n
      BY <2>4, <2>6 DEF IInv, ClickCountsMatch
    <3>2. x.seen.click_count <= n
      BY <1>8, <2>6, <3>1 DEF IInv, SeenCountHolds, ClicksForLink
    <3>. HIDE DEF n
    <3>3. x.rows = n \/ x.rows = StatsMaxRows
      BY <2>6
    <3>4. x.seen.click_count \in Nat
      BY <2>4, <2>6 DEF LinkRows
    <3>. QED
      BY <2>1, <3>2, <3>3, <3>4
  <2>. HIDE DEF x
  <2>. QED
    BY <2>3, <2>5, <2>6, <2>7, <2>8, ReadingStep
<1>9. CASE Fail(r)
  BY <1>9, AnswerStep DEF Fail
<1>. QED
  BY <1>1, <1>2, <1>3, <1>4, <1>5, <1>6, <1>7, <1>8, <1>9

\* The INSERT of a link: its id is new, so nothing in the database or in
\* the hands of a handler refers to it.
LEMMA InsertStep ==
  ASSUME IInv, NEW r \in Requests, NEW code \in Slugs,
         req[r].pc = "insert", InsertLink(r, code)
  PROVE  IInv'
<1>0. PICK id \in Nat : id = lastLink + 1
  BY DEF IInv, TypeOK
<1>. DEFINE row == [short_code |-> code, destination_url |-> req[r].url,
                    expires_at |-> req[r].expires, click_count |-> 0]
            x1  == [req[r] EXCEPT !.pc = "readback"]
            x   == [x1 EXCEPT !.id = id]
<1>1. req[r] \in RequestStates /\ HoldsRow(req[r])
  BY DEF IInv, TypeOK, HandlersHoldRow
<1>2. id \in LinkIds /\ id > lastLink /\ id \in MaybeLink /\ lastLink' = id
  BY <1>0, LinksAssumption DEF IInv, TypeOK, InsertLink, MaybeLink
<1>3. row \in LinkRows
  <2>1. req[r].url \in URLs
    BY <1>1 DEF HoldsRow
  <2>2. req[r].expires \in Expiries \cup {Never}
    BY <1>1 DEF HoldsRow, RequestStates, AnyExpiry
  <2>. QED
    BY <2>1, <2>2 DEF LinkRows
<1>4. /\ links' = [links EXCEPT ![id] = row]
      /\ UNCHANGED <<clicks, tokens, lastClick, lastToken, now>>
  BY <1>0 DEF InsertLink, NextLinkId
<1>5. req' = [req EXCEPT ![r] = x]
  BY <1>0 DEF InsertLink, NextLinkId, IInv, TypeOK
<1>. HIDE DEF row
<1>6. x1 \in RequestStates /\ x1.pc = "readback" /\ x1.op = req[r].op
      /\ x1.token = req[r].token /\ x1.status = req[r].status
  <2>1. "readback" \in Pcs
    BY DEF Pcs
  <2>2. x1 \in RequestStates
    BY <1>1, <2>1, SetField
  <2>3. x1.pc = "readback" /\ x1.op = req[r].op /\ x1.token = req[r].token
        /\ x1.status = req[r].status
    BY <1>1 DEF RequestStates
  <2>. QED
    BY <2>2, <2>3
<1>. HIDE DEF x1
<1>7. x \in RequestStates /\ x.pc = "readback" /\ x.op = req[r].op /\ x.id = id
      /\ x.token = req[r].token /\ x.status = req[r].status
  BY <1>2, <1>6, SetField DEF RequestStates
<1>. HIDE DEF x
<1>8. req'[r] = x /\ \A q \in Requests \ {r} : req'[q] = req[q]
  BY <1>5 DEF IInv, TypeOK
<1>9. row # NoRow /\ ~Live(id)
  <2>1. row # NoRow
    BY <1>3, SentinelAssumption DEF LinkRows
  <2>2. ~Live(id)
    BY <1>2 DEF IInv, IdsIssued, TypeOK
  <2>. QED
    BY <2>1, <2>2
<1>10. Live(id)' /\ \A l \in LinkIds \ {id} : links'[l] = links[l] /\ (Live(l)' <=> Live(l))
  <2>1. links'[id] = row
    BY <1>2, <1>4 DEF IInv, TypeOK
  <2>2. \A l \in LinkIds \ {id} : links'[l] = links[l]
    BY <1>4 DEF IInv, TypeOK
  <2>. QED
    BY <1>9, <2>1, <2>2 DEF Live
<1>11. \A q \in Requests : req[q].id \in LinkIds => req[q].id # id
  BY <1>2 DEF IInv, HandlersHoldRow, HoldsRow, TypeOK
<1>12. TypeOK'
  BY <1>2, <1>3, <1>4, <1>5, <1>7 DEF IInv, TypeOK, MaybeRow
<1>13. IdsIssued'
  BY <1>2, <1>4, <1>10 DEF IInv, IdsIssued, TypeOK, TokenRows
<1>14. HandlersHoldRow'
  <2>1. \A q \in Requests \ {r} : HoldsRow(req[q])'
    BY <1>2, <1>4, <1>8 DEF IInv, HandlersHoldRow, HoldsRow, TypeOK, RequestStates, MaybeLink
  <2>2. HoldsRow(req[r])'
    BY <1>1, <1>2, <1>4, <1>7, <1>8 DEF IInv, HoldsRow, TypeOK
  <2>. QED
    BY <2>1, <2>2 DEF HandlersHoldRow
<1>15. TokenToBeIssued'
  <2>1. \A t \in tokens : t.resource_id # id
    BY <1>2 DEF IInv, IdsIssued, TypeOK, TokenRows
  <2>2. \A q \in Requests \ {r} : req[q].pc \in {"readback", "token"} => req[q].id # id
    BY <1>11 DEF IInv, HandlersHoldRow, HoldsRow
  <2>. QED
    BY <1>4, <1>7, <1>8, <2>1, <2>2 DEF IInv, TokenToBeIssued
<1>16. TokenIssued'
  BY <1>4, <1>7, <1>8 DEF IInv, TokenIssued
<1>17. AuthorizationHolds'
  <2>1. \A q \in Requests : req[q].pc \in {"update", "delete"} =>
          req[q].id \in LinkIds \ {id}
    BY <1>11 DEF IInv, HandlersHoldRow, HoldsRow
  <2>. QED
    BY <1>4, <1>7, <1>8, <1>10, <2>1 DEF IInv, AuthorizationHolds, Authorized
<1>18. SeenCountHolds'
  <2>1. \A q \in Requests : req[q].pc = "stats" => req[q].id \in LinkIds \ {id}
    BY <1>11 DEF IInv, HandlersHoldRow, HoldsRow
  <2>. QED
    BY <1>7, <1>8, <1>10, <2>1 DEF IInv, SeenCountHolds
<1>19. ClickCountsMatch'
  <2>1. ClicksOf(id) = {}
    BY <1>9 DEF ClicksOf, IInv, ClickCountsMatch
  <2>2. Cardinality(ClicksOf(id)) = 0
    BY <2>1, FS_EmptySet
  <2>3. links'[id].click_count = 0
    BY <1>2, <1>4 DEF row, IInv, TypeOK
  <2>4. \A l : ClicksOf(l)' = ClicksOf(l)
    BY <1>4 DEF ClicksOf
  <2>5. \A c \in clicks : c.link_id \in LinkIds \ {id} /\ Live(c.link_id)
    BY <1>9 DEF IInv, ClickCountsMatch, TypeOK, ClickRows
  <2>6. \A c \in clicks' : Live(c.link_id)'
    BY <1>4, <1>10, <2>5
  <2>7. \A l \in LinkIds : Live(l)' => links'[l].click_count = Cardinality(ClicksOf(l)')
    BY <1>10, <2>2, <2>3, <2>4 DEF IInv, ClickCountsMatch
  <2>. QED
    BY <2>6, <2>7 DEF ClickCountsMatch
<1>20. OneTokenPerLink'
  BY <1>4 DEF IInv, OneTokenPerLink
<1>21. StatsCoverTotal'
  <2>1. \A q \in Requests : req[q].op = "stats" /\ req[q].status = 200 =>
          req[q].id \in LinkIds \ {id}
    BY <1>11 DEF IInv, HandlersHoldRow, HoldsRow
  <2>2. ~(x.op = "stats" /\ x.status = 200)
    BY <1>1, <1>7 DEF HoldsRow
  <2>. QED
    BY <1>8, <1>10, <2>1, <2>2 DEF IInv, StatsCoverTotal
<1>22. CreatedLinkHasToken'
  <2>1. \A q \in Requests : req[q].op = "create" /\ req[q].status = 201 =>
          req[q].id \in LinkIds \ {id}
    BY <1>11 DEF IInv, HandlersHoldRow, HoldsRow
  <2>2. ~(x.op = "create" /\ x.status = 201)
    BY <1>1, <1>7 DEF HoldsRow
  <2>. QED
    BY <1>4, <1>8, <1>10, <2>1, <2>2 DEF IInv, CreatedLinkHasToken
<1>. QED
  BY <1>12, <1>13, <1>14, <1>15, <1>16, <1>17, <1>18, <1>19, <1>20, <1>21, <1>22 DEF IInv

\* A create with its slug, and one round of a create with a drawn code.
LEMMA CreateStep ==
  ASSUME IInv, NEW r \in Requests,
         CreateLinkCustomSlug(r) \/ CreateLinkAutoCode(r)
  PROVE  IInv'
<1>. req[r] \in RequestStates /\ HoldsRow(req[r])
  BY DEF IInv, TypeOK, HandlersHoldRow
<1>1. CASE CreateLinkCustomSlug(r)
  <2>1. req[r].slug \in Slugs /\ req[r].pc = "insert"
    BY <1>1 DEF CreateLinkCustomSlug, RequestStates, AnySlug
  <2>2. CASE Taken(req[r].slug)
    BY <1>1, <2>2, AnswerStep DEF CreateLinkCustomSlug
  <2>3. CASE ~Taken(req[r].slug)
    BY <1>1, <2>1, <2>3, InsertStep DEF CreateLinkCustomSlug
  <2>. QED
    BY <2>2, <2>3
<1>2. CASE CreateLinkAutoCode(r)
  <2>1. req[r].pc = "insert"
    BY <1>2 DEF CreateLinkAutoCode
  <2>2. ASSUME NEW code \in AutoCodes, InsertLink(r, code)
        PROVE  IInv'
    BY <2>1, <2>2, LinksAssumption, InsertStep
  <2>3. ASSUME req' = [req EXCEPT ![r] =
                 IF NextAttempt(r) = MaxShortCodeAttempts
                 THEN Reply("create", 500, 0, 0, NoRow, 0)
                 ELSE [@ EXCEPT !.attempt = NextAttempt(r)]],
               UNCHANGED <<db, now>>
        PROVE  IInv'
    <3>1. CASE NextAttempt(r) = MaxShortCodeAttempts
      <4>. DEFINE x == Reply("create", 500, 0, 0, NoRow, 0)
      <4>1. x \in RequestStates
        <5>1. "create" \in Ops /\ 500 \in Nat
          BY DEF Ops
        <5>. QED
          BY <5>1, Zeros, ReplyType
      <4>2. /\ x.pc = "done" /\ x.id = 0 /\ x.token = 0
            /\ x.status # 200 /\ x.status # 201
        BY DEF Reply
      <4>3. req' = [req EXCEPT ![r] = x]
        BY <2>3, <3>1
      <4>. HIDE DEF x
      <4>. QED
        BY <2>3, <4>1, <4>2, <4>3, HoldingNothing
    <3>2. CASE NextAttempt(r) # MaxShortCodeAttempts
      <4>. DEFINE n == NextAttempt(r)
                  x == [req[r] EXCEPT !.attempt = n]
      <4>1. n \in Attempts /\ n < MaxShortCodeAttempts
        BY <2>1, <3>2, LinksAssumption DEF NextAttempt, HoldsRow, RequestStates, Attempts
      <4>2. req' = [req EXCEPT ![r] = x]
        BY <2>3, <3>2
      <4>. HIDE DEF n
      <4>3. x \in RequestStates
        BY <4>1, SetField
      <4>4. /\ x.pc = "insert" /\ x.attempt = n /\ x.id = req[r].id
            /\ x.token = req[r].token /\ x.op = req[r].op /\ x.status = req[r].status
            /\ x.url = req[r].url /\ x.expires = req[r].expires
        BY <2>1 DEF RequestStates
      <4>5. HoldsRow(x)
        BY <2>1, <4>1, <4>4 DEF HoldsRow
      <4>6. ~(x.op = "stats" /\ x.status = 200) /\ ~(x.op = "create" /\ x.status = 201)
        BY <4>4, <4>5 DEF HoldsRow
      <4>. HIDE DEF x
      <4>. QED
        BY <2>3, <4>2, <4>3, <4>4, <4>5, <4>6, ReadingStep
    <3>. QED
      BY <3>1, <3>2
  <2>. QED
    BY <1>2, <2>2, <2>3 DEF CreateLinkAutoCode
<1>. QED
  BY <1>1, <1>2

\* The INSERT of an owner token: no token has its id, none opens its link.
LEMMA TokenStep ==
  ASSUME IInv, NEW r \in Requests, CreateResourceToken(r)
  PROVE  IInv'
<1>0. PICK id \in Nat : id = lastToken + 1
  BY DEF IInv, TypeOK
<1>. DEFINE new == [id |-> id, resource_id |-> req[r].id]
            x1  == [req[r] EXCEPT !.pc = "issued"]
            x   == [x1 EXCEPT !.token = id]
<1>1. req[r] \in RequestStates /\ HoldsRow(req[r]) /\ req[r].pc = "token"
  BY DEF IInv, TypeOK, HandlersHoldRow, CreateResourceToken
<1>2. id \in TokenIds /\ id > lastToken /\ id \in MaybeToken /\ lastToken' = id
  BY <1>0, LinksAssumption DEF IInv, TypeOK, CreateResourceToken, MaybeToken
<1>3. req[r].id \in LinkIds /\ req[r].id <= lastLink
  BY <1>1 DEF HoldsRow
<1>4. /\ tokens' = tokens \cup {new}
      /\ UNCHANGED <<links, clicks, lastLink, lastClick, now>>
  BY <1>0 DEF CreateResourceToken
<1>5. req' = [req EXCEPT ![r] = x]
  BY <1>0 DEF CreateResourceToken, IInv, TypeOK
<1>6. new \in TokenRows /\ new.id = id /\ new.resource_id = req[r].id
  BY <1>2, <1>3 DEF TokenRows
<1>. HIDE DEF new
<1>7. x1 \in RequestStates /\ x1.pc = "issued" /\ x1.op = req[r].op
      /\ x1.id = req[r].id /\ x1.status = req[r].status
  <2>1. "issued" \in Pcs
    BY DEF Pcs
  <2>2. x1 \in RequestStates
    BY <1>1, <2>1, SetField
  <2>3. x1.pc = "issued" /\ x1.op = req[r].op /\ x1.id = req[r].id
        /\ x1.status = req[r].status
    BY <1>1 DEF RequestStates
  <2>. QED
    BY <2>2, <2>3
<1>. HIDE DEF x1
<1>8. x \in RequestStates /\ x.pc = "issued" /\ x.op = req[r].op
      /\ x.id = req[r].id /\ x.token = id /\ x.status = req[r].status
  BY <1>2, <1>7, SetField DEF RequestStates
<1>. HIDE DEF x
<1>9. req'[r] = x /\ \A q \in Requests \ {r} : req'[q] = req[q]
  BY <1>5 DEF IInv, TypeOK
<1>10. \A t \in tokens : t.id # id /\ t.resource_id # req[r].id
  BY <1>1, <1>2 DEF IInv, IdsIssued, TypeOK, TokenRows, TokenToBeIssued
<1>11. TypeOK'
  BY <1>2, <1>4, <1>5, <1>6, <1>8 DEF IInv, TypeOK
<1>12. IdsIssued'
  <2>1. \A t \in tokens' : t.id <= lastToken' /\ t.resource_id <= lastLink'
    BY <1>2, <1>3, <1>4, <1>6 DEF IInv, IdsIssued, TypeOK, TokenRows
  <2>. QED
    BY <1>4, <2>1 DEF IInv, IdsIssued, Live
<1>13. HandlersHoldRow'
  <2>1. \A q \in Requests \ {r} : HoldsRow(req[q])'
    BY <1>2, <1>4, <1>9 DEF IInv, HandlersHoldRow, HoldsRow, TypeOK, RequestStates, MaybeToken
  <2>2. HoldsRow(req[r])'
    BY <1>1, <1>2, <1>3, <1>4, <1>8, <1>9 DEF HoldsRow
  <2>. QED
    BY <2>1, <2>2 DEF HandlersHoldRow
<1>14. TokenToBeIssued'
  <2>1. \A q \in Requests \ {r} : req[q].pc \in {"readback", "token"} => req[q].id # req[r].id
    BY <1>1 DEF IInv, TokenToBeIssued
  <2>. QED
    BY <1>4, <1>6, <1>8, <1>9, <2>1 DEF IInv, TokenToBeIssued
<1>15. TokenIssued'
  <2>1. \A t \in tokens' : t.id = x.token => t.resource_id = x.id
    BY <1>4, <1>6, <1>8, <1>10
  <2>2. \A q \in Requests \ {r} : req[q].token # id
    BY <1>2 DEF IInv, HandlersHoldRow, HoldsRow, TypeOK
  <2>. QED
    BY <1>4, <1>6, <1>9, <2>1, <2>2 DEF IInv, TokenIssued
<1>16. AuthorizationHolds'
  <2>1. \A q \in Requests \ {r} : Authorized(q) => Authorized(q)'
    BY <1>4, <1>9 DEF Authorized
  <2>. QED
    BY <1>4, <1>8, <1>9, <2>1 DEF IInv, AuthorizationHolds, Live
<1>17. SeenCountHolds'
  BY <1>4, <1>8, <1>9 DEF IInv, SeenCountHolds, Live
<1>18. ClickCountsMatch'
  BY <1>4 DEF IInv, ClickCountsMatch, Live, ClicksOf
<1>19. OneTokenPerLink'
  BY <1>4, <1>6, <1>10 DEF IInv, OneTokenPerLink
<1>20. ~(x.op = "stats" /\ x.status = 200) /\ ~(x.op = "create" /\ x.status = 201)
  BY <1>1, <1>8 DEF HoldsRow
<1>21. StatsCoverTotal'
  BY <1>4, <1>9, <1>20 DEF IInv, StatsCoverTotal, Live
<1>22. CreatedLinkHasToken'
  BY <1>4, <1>9, <1>20 DEF IInv, CreatedLinkHasToken, Live
<1>. QED
  BY <1>11, <1>12, <1>13, <1>14, <1>15, <1>16, <1>17, <1>18, <1>19, <1>21, <1>22 DEF IInv

\* The row after the UPDATE of a PATCH: slug and counter are not touched.
LEMMA UpdatedRowType ==
  ASSUME NEW r \in Requests, req[r] \in RequestStates, req[r].seen \in LinkRows,
         links[req[r].id] \in LinkRows
  PROVE  /\ UpdatedRow(r) \in LinkRows
         /\ UpdatedRow(r).short_code = links[req[r].id].short_code
         /\ UpdatedRow(r).click_count = links[req[r].id].click_count
<1>. DEFINE old  == links[req[r].id]
            dest == NewDestination(r)
            end  == IF req[r].expires = Keep THEN old.expires_at ELSE req[r].expires
<1>1. dest \in URLs
  BY DEF NewDestination, RequestStates, AnyURL, LinkRows
<1>2. end \in Expiries \cup {Never}
  BY DEF RequestStates, AnyExpiry, LinkRows
<1>3. UpdatedRow(r) = [old EXCEPT !.destination_url = dest, !.expires_at = end]
  BY DEF UpdatedRow, LinkRows
<1>. HIDE DEF dest, end
<1>. QED
  BY <1>1, <1>2, <1>3 DEF LinkRows

\* The UPDATE of a PATCH.
LEMMA UpdateStep ==
  ASSUME IInv, NEW r \in Requests, UpdateLinkDestination(r)
  PROVE  IInv'
<1>. DEFINE l   == req[r].id
            row == UpdatedRow(r)
            x   == [req[r] EXCEPT !.pc = "reread"]
<1>1. /\ req[r] \in RequestStates /\ HoldsRow(req[r])
      /\ req[r].pc = "update" /\ req[r].op = "update" /\ l \in LinkIds
      /\ req[r].seen \in LinkRows
  BY DEF IInv, TypeOK, HandlersHoldRow, HoldsRow, UpdateLinkDestination
<1>2. CASE ~Live(l)
  BY <1>1, <1>2, AnswerStep DEF UpdateLinkDestination, db
<1>3. CASE Live(l)
  <2>1. /\ links' = [links EXCEPT ![l] = row]
        /\ UNCHANGED <<clicks, tokens, lastLink, lastClick, lastToken, now>>
        /\ req' = [req EXCEPT ![r] = x]
    BY <1>3 DEF UpdateLinkDestination, Goto
  <2>2. links[l] \in LinkRows
    BY <1>1, <1>3 DEF IInv, TypeOK, Live, MaybeRow
  <2>3. row \in LinkRows /\ row.click_count = links[l].click_count
    BY <1>1, <2>2, UpdatedRowType
  <2>. HIDE DEF row
  <2>4. row # NoRow
    BY <2>3, SentinelAssumption DEF LinkRows
  <2>5. x \in RequestStates
    <3>1. "reread" \in Pcs
      BY DEF Pcs
    <3>. QED
      BY <1>1, <3>1, SetField
  <2>6. /\ x.pc = "reread" /\ x.op = req[r].op /\ x.id = l
        /\ x.token = req[r].token /\ x.status = req[r].status
    BY <1>1 DEF RequestStates
  <2>. HIDE DEF x
  <2>7. req'[r] = x /\ \A q \in Requests \ {r} : req'[q] = req[q]
    BY <2>1 DEF IInv, TypeOK
  <2>8. \A k \in LinkIds : (links'[k] # NoRow <=> links[k] # NoRow)
                           /\ (links[k] # NoRow =>
                                 links'[k].click_count = links[k].click_count)
    <3>1. links'[l] = row
      BY <1>1, <2>1 DEF IInv, TypeOK
    <3>2. \A k \in LinkIds \ {l} : links'[k] = links[k]
      BY <2>1 DEF IInv, TypeOK
    <3>. QED
      BY <1>3, <2>3, <2>4, <3>1, <3>2 DEF Live
  <2>9. TypeOK'
    BY <1>1, <2>1, <2>3, <2>5 DEF IInv, TypeOK, MaybeRow
  <2>10. IdsIssued'
    BY <2>1, <2>8 DEF IInv, IdsIssued, Live
  <2>11. HandlersHoldRow'
    <3>1. \A q \in Requests \ {r} : HoldsRow(req[q])'
      BY <2>1, <2>7 DEF IInv, HandlersHoldRow, HoldsRow
    <3>2. HoldsRow(req[r])'
      BY <1>1, <2>1, <2>6, <2>7 DEF HoldsRow
    <3>. QED
      BY <3>1, <3>2 DEF HandlersHoldRow
  <2>12. TokenToBeIssued' /\ TokenIssued'
    BY <2>1, <2>6, <2>7 DEF IInv, TokenToBeIssued, TokenIssued
  <2>13. AuthorizationHolds'
    <3>1. \A q \in Requests : req[q].pc \in {"update", "delete"} => req[q].id \in LinkIds
      BY DEF IInv, HandlersHoldRow, HoldsRow
    <3>2. \A q \in Requests \ {r} : Authorized(q) => Authorized(q)'
      BY <2>1, <2>7 DEF Authorized
    <3>. QED
      BY <2>6, <2>7, <2>8, <3>1, <3>2 DEF IInv, AuthorizationHolds, Live
  <2>14. SeenCountHolds'
    <3>1. \A q \in Requests : req[q].pc = "stats" => req[q].id \in LinkIds
      BY DEF IInv, HandlersHoldRow, HoldsRow
    <3>. QED
      BY <2>6, <2>7, <2>8, <3>1 DEF IInv, SeenCountHolds, Live
  <2>15. ClickCountsMatch'
    <3>1. \A c \in clicks : c.link_id \in LinkIds
      BY DEF IInv, TypeOK, ClickRows
    <3>2. \A k : ClicksOf(k)' = ClicksOf(k)
      BY <2>1 DEF ClicksOf
    <3>. QED
      BY <2>1, <2>8, <3>1, <3>2 DEF IInv, ClickCountsMatch, Live
  <2>16. OneTokenPerLink'
    BY <2>1 DEF IInv, OneTokenPerLink
  <2>17. ~(x.op = "stats" /\ x.status = 200) /\ ~(x.op = "create" /\ x.status = 201)
    BY <1>1, <2>6 DEF HoldsRow
  <2>18. StatsCoverTotal'
    <3>1. \A q \in Requests : req[q].op = "stats" /\ req[q].status = 200 => req[q].id \in LinkIds
      BY DEF IInv, HandlersHoldRow, HoldsRow
    <3>. QED
      BY <2>7, <2>8, <2>17, <3>1 DEF IInv, StatsCoverTotal, Live
  <2>19. CreatedLinkHasToken'
    <3>1. \A q \in Requests : req[q].op = "create" /\ req[q].status = 201 => req[q].id \in LinkIds
      BY DEF IInv, HandlersHoldRow, HoldsRow
    <3>. QED
      BY <2>1, <2>7, <2>8, <2>17, <3>1 DEF IInv, CreatedLinkHasToken, Live
  <2>. QED
    BY <2>9, <2>10, <2>11, <2>12, <2>13, <2>14, <2>15, <2>16, <2>18, <2>19 DEF IInv
<1>. QED
  BY <1>2, <1>3

\* The answer a step gives while it writes: what r then holds is nothing.
LEMMA Answered ==
  ASSUME IInv, NEW r \in Requests, NEW status \in Nat \ {201}, Answer(r, status),
         status = 200 => req[r].op # "stats"
  PROVE  /\ req' \in [Requests -> RequestStates]
         /\ \A q \in Requests \ {r} : req'[q] = req[q]
         /\ req'[r].pc = "done" /\ req'[r].id = 0 /\ req'[r].token = 0
         /\ ~(req'[r].op = "stats" /\ req'[r].status = 200)
         /\ ~(req'[r].op = "create" /\ req'[r].status = 201)
<1>. DEFINE x == Reply(req[r].op, status, 0, 0, NoRow, 0)
<1>1. req[r] \in RequestStates
  BY DEF IInv, TypeOK
<1>2. x \in RequestStates
  BY <1>1, Zeros, ReplyType DEF RequestStates
<1>3. /\ x.op = req[r].op /\ x.pc = "done" /\ x.status = status
      /\ x.id = 0 /\ x.token = 0
  BY DEF Reply
<1>4. req' = [req EXCEPT ![r] = x]
  BY DEF Answer
<1>. HIDE DEF x
<1>5. req'[r] = x /\ \A q \in Requests \ {r} : req'[q] = req[q]
  BY <1>4 DEF IInv, TypeOK
<1>6. req' \in [Requests -> RequestStates]
  BY <1>2, <1>4 DEF IInv, TypeOK
<1>. QED
  BY <1>3, <1>5, <1>6

\* The transaction of DeleteLink takes clicks and tokens along with the row.
LEMMA DeleteStep ==
  ASSUME IInv, NEW r \in Requests, DeleteLink(r)
  PROVE  IInv'
<1>. DEFINE l == req[r].id
<1>1. /\ req[r] \in RequestStates /\ HoldsRow(req[r])
      /\ req[r].pc = "delete" /\ req[r].op = "delete" /\ l \in LinkIds
  BY DEF IInv, TypeOK, HandlersHoldRow, HoldsRow, DeleteLink
<1>2. CASE ~Live(l)
  BY <1>1, <1>2, AnswerStep DEF DeleteLink, db
<1>3. CASE Live(l)
  <2>1. /\ links' = [links EXCEPT ![l] = NoRow]
        /\ clicks' = {c \in clicks : c.link_id # l}
        /\ tokens' = {t \in tokens : t.resource_id # l}
        /\ Answer(r, 200)
        /\ UNCHANGED <<lastLink, lastClick, lastToken, now>>
    BY <1>3 DEF DeleteLink, ClicksWithout, TokensWithout
  <2>2. /\ req' \in [Requests -> RequestStates]
        /\ \A q \in Requests \ {r} : req'[q] = req[q]
        /\ req'[r].pc = "done" /\ req'[r].id = 0 /\ req'[r].token = 0
        /\ ~(req'[r].op = "stats" /\ req'[r].status = 200)
        /\ ~(req'[r].op = "create" /\ req'[r].status = 201)
    BY <1>1, <2>1, Answered
  <2>3. links'[l] = NoRow /\ \A k \in LinkIds \ {l} : links'[k] = links[k]
    BY <1>1, <2>1 DEF IInv, TypeOK
  <2>4. \A k \in LinkIds : links'[k] # NoRow => k # l /\ links'[k] = links[k]
    BY <2>3
  <2>5. TypeOK'
    BY <1>1, <2>1, <2>2 DEF IInv, TypeOK, MaybeRow
  <2>6. IdsIssued'
    <3>1. IsFiniteSet(clicks')
      BY <2>1, FS_Subset DEF IInv, IdsIssued
    <3>. QED
      BY <2>1, <2>4, <3>1 DEF IInv, IdsIssued, Live
  <2>7. HandlersHoldRow'
    <3>1. \A q \in Requests \ {r} : HoldsRow(req[q])'
      BY <2>1, <2>2 DEF IInv, HandlersHoldRow, HoldsRow
    <3>2. HoldsRow(req[r])'
      BY <2>1, <2>2 DEF HoldsRow, IInv, TypeOK
    <3>. QED
      BY <3>1, <3>2 DEF HandlersHoldRow
  <2>8. TokenToBeIssued' /\ TokenIssued'
    BY <2>1, <2>2 DEF IInv, TokenToBeIssued, TokenIssued
  <2>9. AuthorizationHolds'
    <3>. SUFFICES ASSUME NEW q \in Requests \ {r}, req[q].pc \in {"update", "delete"},
                         Live(req[q].id)'
                  PROVE  Authorized(q)'
      BY <2>2 DEF AuthorizationHolds
    <3>1. req[q].id \in LinkIds /\ req[q].id # l /\ Live(req[q].id)
      BY <2>2, <2>4 DEF IInv, HandlersHoldRow, HoldsRow, Live
    <3>2. Authorized(q)
      BY <3>1 DEF IInv, AuthorizationHolds
    <3>. QED
      BY <2>1, <2>2, <3>1, <3>2 DEF Authorized
  <2>10. SeenCountHolds'
    <3>1. \A q \in Requests : req[q].pc = "stats" => req[q].id \in LinkIds
      BY DEF IInv, HandlersHoldRow, HoldsRow
    <3>. QED
      BY <2>2, <2>4, <3>1 DEF IInv, SeenCountHolds, Live
  <2>11. ClickCountsMatch'
    <3>1. \A c \in clicks' : Live(c.link_id)'
      BY <2>1, <2>3 DEF IInv, ClickCountsMatch, TypeOK, ClickRows, Live
    <3>2. \A k \in LinkIds : k # l => ClicksOf(k)' = ClicksOf(k)
      BY <2>1 DEF ClicksOf
    <3>. QED
      BY <2>4, <3>1, <3>2 DEF IInv, ClickCountsMatch, Live
  <2>12. OneTokenPerLink'
    BY <2>1 DEF IInv, OneTokenPerLink
  <2>13. StatsCoverTotal'
    <3>1. \A q \in Requests : req[q].op = "stats" /\ req[q].status = 200 => req[q].id \in LinkIds
      BY DEF IInv, HandlersHoldRow, HoldsRow
    <3>. QED
      BY <2>2, <2>4, <3>1 DEF IInv, StatsCoverTotal, Live
  <2>14. CreatedLinkHasToken'
    <3>. SUFFICES ASSUME NEW q \in Requests \ {r}, req[q].op = "create", req[q].status = 201,
                         Live(req[q].id)'
                  PROVE  \E t \in tokens' : t.resource_id = req[q].id
      BY <2>2 DEF CreatedLinkHasToken
    <3>1. req[q].id \in LinkIds /\ req[q].id # l /\ Live(req[q].id)
      BY <2>2, <2>4 DEF IInv, HandlersHoldRow, HoldsRow, Live
    <3>2. \E t \in tokens : t.resource_id = req[q].id
      BY <3>1 DEF IInv, CreatedLinkHasToken
    <3>. QED
      BY <2>1, <3>1, <3>2
  <2>. QED
    BY <2>5, <2>6, <2>7, <2>8, <2>9, <2>10, <2>11, <2>12, <2>13, <2>14 DEF IInv
<1>. QED
  BY <1>2, <1>3

\* The transaction of RecordClick: one row more, one count more.
LEMMA ClickStep ==
  ASSUME IInv, NEW r \in Requests, RecordClick(r)
  PROVE  IInv'
<1>0. PICK id \in Nat : id = lastClick + 1
  BY DEF IInv, TypeOK
<1>. DEFINE l   == req[r].id
            new == [id |-> id, link_id |-> l]
            row == [links[l] EXCEPT !.click_count = @ + 1]
<1>1. /\ req[r] \in RequestStates /\ HoldsRow(req[r])
      /\ req[r].pc = "click" /\ l \in LinkIds /\ Live(l)
  BY DEF IInv, TypeOK, HandlersHoldRow, HoldsRow, RecordClick
<1>2. id \in ClickIds /\ id > lastClick /\ lastClick' = id
  BY <1>0, LinksAssumption DEF IInv, TypeOK, RecordClick
<1>3. /\ links' = [links EXCEPT ![l] = row]
      /\ clicks' = clicks \cup {new}
      /\ Answer(r, 302)
      /\ UNCHANGED <<tokens, lastLink, lastToken, now>>
  BY <1>0 DEF RecordClick
<1>4. /\ req' \in [Requests -> RequestStates]
      /\ \A q \in Requests \ {r} : req'[q] = req[q]
      /\ req'[r].pc = "done" /\ req'[r].id = 0 /\ req'[r].token = 0
      /\ ~(req'[r].op = "stats" /\ req'[r].status = 200)
      /\ ~(req'[r].op = "create" /\ req'[r].status = 201)
  BY <1>3, Answered
<1>5. links[l] \in LinkRows
  BY <1>1 DEF IInv, TypeOK, Live, MaybeRow
<1>6. row \in LinkRows /\ row.click_count = links[l].click_count + 1
  BY <1>5 DEF LinkRows
<1>7. new \in ClickRows /\ new.id = id /\ new.link_id = l
  BY <1>1, <1>2 DEF ClickRows
<1>. HIDE DEF row, new
<1>8. row # NoRow
  BY <1>6, SentinelAssumption DEF LinkRows
<1>9. links'[l] = row /\ \A k \in LinkIds \ {l} : links'[k] = links[k]
  BY <1>1, <1>3 DEF IInv, TypeOK
<1>10. \A k \in LinkIds : links'[k] # NoRow <=> links[k] # NoRow
  BY <1>1, <1>8, <1>9 DEF Live
<1>11. TypeOK'
  BY <1>1, <1>2, <1>3, <1>4, <1>6, <1>7 DEF IInv, TypeOK, MaybeRow
<1>12. IdsIssued'
  <2>1. IsFiniteSet(clicks')
    BY <1>3, FS_AddElement DEF IInv, IdsIssued
  <2>2. \A c \in clicks' : c.id <= lastClick'
    BY <1>2, <1>3, <1>7 DEF IInv, IdsIssued, TypeOK, ClickRows
  <2>. QED
    BY <1>3, <1>10, <2>1, <2>2 DEF IInv, IdsIssued, Live
<1>13. HandlersHoldRow'
  <2>1. \A q \in Requests \ {r} : HoldsRow(req[q])'
    BY <1>3, <1>4 DEF IInv, HandlersHoldRow, HoldsRow
  <2>2. HoldsRow(req[r])'
    BY <1>3, <1>4 DEF HoldsRow, IInv, TypeOK
  <2>. QED
    BY <2>1, <2>2 DEF HandlersHoldRow
<1>14. TokenToBeIssued' /\ TokenIssued'
  BY <1>3, <1>4 DEF IInv, TokenToBeIssued, TokenIssued
<1>15. AuthorizationHolds'
  <2>1. \A q \in Requests : req[q].pc \in {"update", "delete"} => req[q].id \in LinkIds
    BY DEF IInv, HandlersHoldRow, HoldsRow
  <2>. QED
    BY <1>3, <1>4, <1>10, <2>1 DEF IInv, AuthorizationHolds, Authorized, Live
<1>16. SeenCountHolds'
  <2>. SUFFICES ASSUME NEW q \in Requests \ {r}, req[q].pc = "stats", Live(req[q].id)'
                PROVE  req[q].seen.click_count <= links'[req[q].id].click_count
    BY <1>4 DEF SeenCountHolds
  <2>1. req[q].id \in LinkIds /\ Live(req[q].id) /\ req[q].seen \in LinkRows
    BY <1>4, <1>10 DEF IInv, HandlersHoldRow, HoldsRow, Live
  <2>2. req[q].seen.click_count <= links[req[q].id].click_count
    BY <2>1 DEF IInv, SeenCountHolds
  <2>3. CASE req[q].id = l
    <3>1. links[l].click_count \in Nat /\ req[q].seen.click_count \in Nat
      BY <1>5, <2>1 DEF LinkRows
    <3>. QED
      BY <1>6, <1>9, <2>2, <2>3, <3>1
  <2>4. CASE req[q].id # l
    BY <1>9, <2>1, <2>2, <2>4
  <2>. QED
    BY <2>3, <2>4
<1>17. ClickCountsMatch'
  <2>1. \A c \in clicks' : Live(c.link_id)'
    <3>1. \A c \in clicks : c.link_id \in LinkIds /\ Live(c.link_id)
      BY DEF IInv, ClickCountsMatch, TypeOK, ClickRows
    <3>. QED
      BY <1>1, <1>3, <1>7, <1>10, <3>1 DEF Live
  <2>2. \A k \in LinkIds \ {l} : ClicksOf(k)' = ClicksOf(k)
    BY <1>3, <1>7 DEF ClicksOf
  <2>3. new \notin ClicksOf(l) /\ IsFiniteSet(ClicksOf(l))
    <3>1. new \notin clicks
      BY <1>2, <1>7 DEF IInv, IdsIssued, TypeOK, ClickRows
    <3>. QED
      BY <3>1, FS_Subset DEF ClicksOf, IInv, IdsIssued
  <2>4. {c \in clicks' : c.link_id = l} = ClicksOf(l) \cup {new}
    BY <1>3, <1>7 DEF ClicksOf
  <2>5. Cardinality({c \in clicks' : c.link_id = l}) = Cardinality(ClicksOf(l)) + 1
    BY <2>3, <2>4, FS_AddElement
  <2>6. links'[l].click_count = Cardinality({c \in clicks' : c.link_id = l})
    BY <1>1, <1>6, <1>9, <2>5 DEF IInv, ClickCountsMatch
  <2>7. \A k \in LinkIds : Live(k)' =>
          links'[k].click_count = Cardinality({c \in clicks' : c.link_id = k})
    <3>. SUFFICES ASSUME NEW k \in LinkIds, Live(k)'
                  PROVE  links'[k].click_count = Cardinality({c \in clicks' : c.link_id = k})
      OBVIOUS
    <3>1. CASE k = l
      BY <2>6, <3>1
    <3>2. CASE k # l
      <4>1. {c \in clicks' : c.link_id = k} = ClicksOf(k)
        BY <2>2, <3>2 DEF ClicksOf
      <4>2. Live(k) /\ links'[k] = links[k]
        BY <1>9, <3>2 DEF Live
      <4>. QED
        BY <4>1, <4>2 DEF IInv, ClickCountsMatch
    <3>. QED
      BY <3>1, <3>2
  <2>. QED
    BY <2>1, <2>7 DEF ClickCountsMatch, ClicksOf
<1>18. OneTokenPerLink'
  BY <1>3 DEF IInv, OneTokenPerLink
<1>19. StatsCoverTotal'
  <2>1. \A q \in Requests : req[q].op = "stats" /\ req[q].status = 200 => req[q].id \in LinkIds
    BY DEF IInv, HandlersHoldRow, HoldsRow
  <2>. QED
    BY <1>4, <1>10, <2>1 DEF IInv, StatsCoverTotal, Live
<1>20. CreatedLinkHasToken'
  <2>1. \A q \in Requests : req[q].op = "create" /\ req[q].status = 201 => req[q].id \in LinkIds
    BY DEF IInv, HandlersHoldRow, HoldsRow
  <2>. QED
    BY <1>3, <1>4, <1>10, <2>1 DEF IInv, CreatedLinkHasToken, Live
<1>. QED
  BY <1>11, <1>12, <1>13, <1>14, <1>15, <1>16, <1>17, <1>18, <1>19, <1>20 DEF IInv

\* The process dies: no handler holds anything any more.
LEMMA CrashStep ==
  ASSUME IInv, Crash
  PROVE  IInv'
<1>1. Blank \in RequestStates
  BY Zeros, AskType DEF Blank, Ops, AnyCred, AnyFormat, AnyAgent
<1>2. /\ Blank.pc = "idle" /\ Blank.id = 0 /\ Blank.token = 0
      /\ Blank.op = "none"
  BY DEF Blank, Ask
<1>3. req' \in [Requests -> RequestStates] /\ \A q \in Requests : req'[q] = Blank
  BY <1>1 DEF Crash
<1>. HIDE DEF Blank
<1>4. UNCHANGED <<links, clicks, tokens, lastLink, lastClick, lastToken, now>>
  BY DEF Crash, db
<1>5. TypeOK'
  BY <1>3, <1>4 DEF IInv, TypeOK
<1>6. IdsIssued' /\ ClickCountsMatch' /\ OneTokenPerLink'
  BY <1>4 DEF IInv, IdsIssued, ClickCountsMatch, OneTokenPerLink, Live, ClicksOf
<1>7. HandlersHoldRow'
  BY <1>2, <1>3, <1>4 DEF HandlersHoldRow, HoldsRow, IInv, TypeOK
<1>8. TokenToBeIssued' /\ TokenIssued' /\ AuthorizationHolds' /\ SeenCountHolds'
  BY <1>2, <1>3 DEF TokenToBeIssued, TokenIssued, AuthorizationHolds, SeenCountHolds
<1>9. StatsCoverTotal' /\ CreatedLinkHasToken'
  BY <1>2, <1>3 DEF StatsCoverTotal, CreatedLinkHasToken
<1>. QED
  BY <1>5, <1>6, <1>7, <1>8, <1>9 DEF IInv

\* Time passes, or nothing happens: IInv does not speak of the clock.
LEMMA ClockStep ==
  ASSUME IInv, Tick \/ UNCHANGED vars
  PROVE  IInv'
<1>1. UNCHANGED <<links, clicks, tokens, lastLink, lastClick, lastToken, req>>
  BY DEF Tick, vars, db
<1>2. now' \in 0 .. MaxTime
  BY LinksAssumption DEF Tick, vars, IInv, TypeOK
<1>3. TypeOK'
  BY <1>1, <1>2 DEF IInv, TypeOK
<1>4. IdsIssued' /\ HandlersHoldRow' /\ TokenToBeIssued' /\ TokenIssued'
  BY <1>1 DEF IInv, IdsIssued, HandlersHoldRow, HoldsRow, TokenToBeIssued,
              TokenIssued, Live
<1>5. AuthorizationHolds' /\ SeenCountHolds'
  BY <1>1 DEF IInv, AuthorizationHolds, Authorized, SeenCountHolds, Live
<1>6. ClickCountsMatch' /\ OneTokenPerLink' /\ StatsCoverTotal' /\ CreatedLinkHasToken'
  BY <1>1 DEF IInv, ClickCountsMatch, OneTokenPerLink, StatsCoverTotal,
              CreatedLinkHasToken, Live, ClicksOf
<1>. QED
  BY <1>3, <1>4, <1>5, <1>6 DEF IInv

\* A new database and a server that has received nothing.
LEMMA InitIInv == Init => IInv
<1>. SUFFICES ASSUME Init PROVE IInv
  OBVIOUS
<1>1. Blank \in RequestStates
  BY Zeros, AskType DEF Blank, Ops, AnyCred, AnyFormat, AnyAgent
<1>2. /\ Blank.pc = "idle" /\ Blank.id = 0 /\ Blank.token = 0
      /\ Blank.op = "none"
  BY DEF Blank, Ask
<1>3. req \in [Requests -> RequestStates] /\ \A q \in Requests : req[q] = Blank
  BY <1>1 DEF Init
<1>. HIDE DEF Blank
<1>4. \A l \in LinkIds : ~Live(l)
  BY DEF Init, Live
<1>5. TypeOK
  BY <1>3, LinksAssumption DEF Init, TypeOK, MaybeRow
<1>6. IdsIssued /\ ClickCountsMatch /\ OneTokenPerLink
  BY <1>4, FS_EmptySet DEF Init, IdsIssued, ClickCountsMatch, OneTokenPerLink
<1>7. HandlersHoldRow
  BY <1>2, <1>3 DEF Init, HandlersHoldRow, HoldsRow
<1>8. TokenToBeIssued /\ TokenIssued /\ AuthorizationHolds /\ SeenCountHolds
  BY <1>2, <1>3 DEF TokenToBeIssued, TokenIssued, AuthorizationHolds, SeenCountHolds
<1>9. StatsCoverTotal /\ CreatedLinkHasToken
  BY <1>2, <1>3 DEF StatsCoverTotal, CreatedLinkHasToken
<1>. QED
  BY <1>5, <1>6, <1>7, <1>8, <1>9 DEF IInv

\* IInv is inductive.
LEMMA NextIInv == IInv /\ [Next]_vars => IInv'
<1>. SUFFICES ASSUME IInv, [Next]_vars PROVE IInv'
  OBVIOUS
<1>1. ASSUME NEW r \in Requests, Arrive(r) PROVE IInv'
  BY <1>1, ArriveStep
<1>2. ASSUME NEW r \in Requests, Handle(r) PROVE IInv'
  BY <1>2, CreateStep, TokenStep, ReadStatements, UpdateStep, DeleteStep, ClickStep
     DEF Handle
<1>3. ASSUME NEW r \in Requests, Fail(r) PROVE IInv'
  BY <1>3, ReadStatements
<1>4. CASE Crash
  BY <1>4, CrashStep
<1>5. CASE Tick \/ UNCHANGED vars
  BY <1>5, ClockStep
<1>. QED
  BY <1>1, <1>2, <1>3, <1>4, <1>5 DEF Next

-----------------------------------------------------------------------------
(***************************************************************************)
(* The tables implement the registry.  What the refinement mapping makes   *)
(* of the table is stated for any table T, so that it can be said of the   *)
(* table before and after a step.                                          *)
(***************************************************************************)
RowOf(T, s)    == CHOOSE l \in LinkIds : T[l] # NoRow /\ T[l].short_code = s
Holds(T, l, s) == T[l] # NoRow /\ T[l].short_code = s
RowEntry(row)  == [url |-> row.destination_url, end |-> row.expires_at,
                   visits |-> row.click_count]
TableEntry(T, s) ==
  IF \E l \in LinkIds : Holds(T, l, s) THEN RowEntry(T[RowOf(T, s)]) ELSE NoRow

\* The UNIQUE index on short_code, which the two INSERTs rely on.
OneRowPerSlug(T) ==
  \A s \in Slugs : \A k, l \in LinkIds : Holds(T, k, s) /\ Holds(T, l, s) => k = l

LEMMA EntryIsTableEntry ==
  /\ \A s \in Slugs : EntryOf(s) = TableEntry(links, s)
  /\ \A s \in Slugs : EntryOf(s)' = TableEntry(links', s)
BY DEF EntryOf, TableEntry, RowOf, RowEntry, Holds, Taken, Live

\* The entry of a slug is the one row that has it.
LEMMA EntryOfRow ==
  ASSUME NEW T, OneRowPerSlug(T), NEW s \in Slugs, NEW l \in LinkIds, Holds(T, l, s)
  PROVE  TableEntry(T, s) = RowEntry(T[l])
<1>1. RowOf(T, s) \in LinkIds /\ Holds(T, RowOf(T, s), s)
  BY DEF RowOf, Holds
<1>2. RowOf(T, s) = l
  BY <1>1 DEF OneRowPerSlug
<1>. QED
  BY <1>2 DEF TableEntry

\* Two tables whose rows with slug s are the same have the same entry for s.
LEMMA SameEntry ==
  ASSUME NEW T, NEW U, OneRowPerSlug(T), OneRowPerSlug(U), NEW s \in Slugs,
         \A l \in LinkIds : Holds(T, l, s) \/ Holds(U, l, s) => T[l] = U[l]
  PROVE  TableEntry(T, s) = TableEntry(U, s)
<1>1. CASE \E l \in LinkIds : Holds(T, l, s) \/ Holds(U, l, s)
  <2>1. PICK l \in LinkIds : Holds(T, l, s) \/ Holds(U, l, s)
    BY <1>1
  <2>2. T[l] = U[l] /\ Holds(T, l, s) /\ Holds(U, l, s)
    BY <2>1 DEF Holds
  <2>. QED
    BY <2>2, EntryOfRow
<1>2. CASE ~ \E l \in LinkIds : Holds(T, l, s) \/ Holds(U, l, s)
  BY <1>2 DEF TableEntry
<1>. QED
  BY <1>1, <1>2

\* One row is written or removed, under the slug it has or had.
WritesRow(l, s, row) ==
  /\ links' = [links EXCEPT ![l] = row]
  /\ Live(l) => links[l].short_code = s
  /\ row # NoRow => row.short_code = s

\* Writing one row changes the entry of its slug and of no other.
LEMMA OneEntryChanges ==
  ASSUME IInv, OneRowPerSlug(links), NEW l \in LinkIds, NEW s \in Slugs, NEW row,
         WritesRow(l, s, row), Live(l) \/ ~Taken(s)
  PROVE  /\ OneRowPerSlug(links')
         /\ [t \in Slugs |-> EntryOf(t)'] =
              [[t \in Slugs |-> EntryOf(t)] EXCEPT ![s] = TableEntry(links', s)]
         /\ row # NoRow => TableEntry(links', s) = RowEntry(row)
         /\ row = NoRow => TableEntry(links', s) = NoRow
         /\ Live(l) => EntryOf(s) = RowEntry(links[l])
         /\ ~Taken(s) => EntryOf(s) = NoRow
<1>1. links'[l] = row /\ \A k \in LinkIds \ {l} : links'[k] = links[k]
  BY DEF WritesRow, IInv, TypeOK
<1>2. \A k \in LinkIds : \A t \in Slugs : Holds(links', k, t) =>
        \/ k # l /\ Holds(links, k, t)
        \/ k = l /\ t = s /\ row # NoRow
  BY <1>1 DEF Holds, WritesRow
<1>3. \A k \in LinkIds \ {l} : ~Holds(links, k, s)
  BY DEF OneRowPerSlug, Holds, Taken, Live, WritesRow
<1>4. OneRowPerSlug(links')
  BY <1>2, <1>3 DEF OneRowPerSlug
<1>5. \A t \in Slugs \ {s} : TableEntry(links', t) = TableEntry(links, t)
  <2>. SUFFICES ASSUME NEW t \in Slugs \ {s}
                PROVE  TableEntry(links', t) = TableEntry(links, t)
    OBVIOUS
  <2>1. \A k \in LinkIds : Holds(links', k, t) \/ Holds(links, k, t) => links'[k] = links[k]
    BY <1>1 DEF Holds, WritesRow, Live
  <2>. QED
    BY <1>4, <2>1, SameEntry
<1>6. [t \in Slugs |-> EntryOf(t)'] =
        [[t \in Slugs |-> EntryOf(t)] EXCEPT ![s] = TableEntry(links', s)]
  BY <1>5, EntryIsTableEntry
<1>7. row # NoRow => TableEntry(links', s) = RowEntry(row)
  <2>1. row # NoRow => Holds(links', l, s)
    BY <1>1 DEF Holds, WritesRow
  <2>. QED
    BY <1>1, <1>4, <2>1, EntryOfRow
<1>8. row = NoRow => TableEntry(links', s) = NoRow
  BY <1>2, <1>3 DEF TableEntry, Holds
<1>9. Live(l) => EntryOf(s) = RowEntry(links[l])
  BY EntryOfRow, EntryIsTableEntry DEF Holds, Live, WritesRow
<1>10. ~Taken(s) => EntryOf(s) = NoRow
  BY DEF EntryOf
<1>. QED
  BY <1>4, <1>6, <1>7, <1>8, <1>9, <1>10

-----------------------------------------------------------------------------
(***************************************************************************)
(* What a step does to the table links                                     *)
(***************************************************************************)
Inserts(l, row) == ~Live(l) /\ ~Taken(row.short_code) /\ row.click_count = 0
Edits(l, row) ==
  Live(l) /\ row.short_code = links[l].short_code /\ row.click_count = links[l].click_count
Counts(l, row) ==
  Live(l) /\ row = [links[l] EXCEPT !.click_count = @ + 1]

\* The two INSERTs, the UPDATE, the click and the DELETE; nothing else writes.
LEMMA TableSteps ==
  ASSUME IInv, [Next]_vars, links' # links
  PROVE  \E l \in LinkIds :
           \/ \E row \in LinkRows : /\ links' = [links EXCEPT ![l] = row]
                                    /\ Inserts(l, row) \/ Edits(l, row) \/ Counts(l, row)
           \/ Live(l) /\ links' = [links EXCEPT ![l] = NoRow]
<1>. DEFINE Goal == \E l \in LinkIds :
           \/ \E row \in LinkRows : /\ links' = [links EXCEPT ![l] = row]
                                    /\ Inserts(l, row) \/ Edits(l, row) \/ Counts(l, row)
           \/ Live(l) /\ links' = [links EXCEPT ![l] = NoRow]
<1>1. PICK r \in Requests : Handle(r)
  BY DEF Next, Arrive, CreateRequest, SubmitHomeForm, UpdateRequest, DeleteRequest,
         ResolveRequest, StatsRequest, Fail, Crash, Tick, vars, db
<1>2. req[r] \in RequestStates /\ HoldsRow(req[r])
  BY DEF IInv, TypeOK, HandlersHoldRow
<1>3. ASSUME NEW code \in Slugs, req[r].pc = "insert", ~Taken(code), InsertLink(r, code)
      PROVE  Goal
  <2>. DEFINE l   == lastLink + 1
              row == [short_code |-> code, destination_url |-> req[r].url,
                      expires_at |-> req[r].expires, click_count |-> 0]
  <2>1. l \in LinkIds
    BY <1>3, LinksAssumption DEF InsertLink, IInv, TypeOK
  <2>2. row \in LinkRows /\ row.short_code = code /\ row.click_count = 0
    BY <1>2, <1>3 DEF LinkRows, HoldsRow, RequestStates, AnyExpiry
  <2>3. links' = [links EXCEPT ![l] = row]
    BY <1>3 DEF InsertLink, NextLinkId
  <2>4. ~Live(l)
    BY <2>1 DEF IInv, IdsIssued, TypeOK
  <2>. HIDE DEF l, row
  <2>. QED
    BY <1>3, <2>1, <2>2, <2>3, <2>4 DEF Inserts
<1>4. CASE CreateLinkCustomSlug(r) \/ CreateLinkAutoCode(r)
  <2>1. CASE CreateLinkCustomSlug(r)
    <3>1. req[r].slug \in Slugs
      BY <1>2, <2>1 DEF CreateLinkCustomSlug, RequestStates, AnySlug
    <3>. QED
      BY <1>3, <2>1, <3>1 DEF CreateLinkCustomSlug, db
  <2>2. CASE CreateLinkAutoCode(r)
    BY <1>3, <2>2, LinksAssumption DEF CreateLinkAutoCode, db
  <2>. QED
    BY <1>4, <2>1, <2>2
<1>5. CASE UpdateLinkDestination(r)
  <2>. DEFINE l   == req[r].id
              row == UpdatedRow(r)
  <2>1. l \in LinkIds /\ req[r].seen \in LinkRows
    BY <1>2, <1>5 DEF HoldsRow, UpdateLinkDestination
  <2>2. Live(l) /\ links' = [links EXCEPT ![l] = row]
    BY <1>5 DEF UpdateLinkDestination
  <2>3. links[l] \in LinkRows
    BY <2>1, <2>2 DEF IInv, TypeOK, Live, MaybeRow
  <2>4. row \in LinkRows /\ row.short_code = links[l].short_code
        /\ row.click_count = links[l].click_count
    BY <1>2, <2>1, <2>3, UpdatedRowType
  <2>. HIDE DEF l, row
  <2>. QED
    BY <2>1, <2>2, <2>4 DEF Edits
<1>6. CASE DeleteLink(r)
  <2>1. req[r].id \in LinkIds
    BY <1>2, <1>6 DEF HoldsRow, DeleteLink
  <2>. QED
    BY <1>6, <2>1 DEF DeleteLink
<1>7. CASE RecordClick(r)
  <2>. DEFINE l   == req[r].id
              row == [links[l] EXCEPT !.click_count = @ + 1]
  <2>1. l \in LinkIds /\ Live(l) /\ links' = [links EXCEPT ![l] = row]
    BY <1>2, <1>7 DEF HoldsRow, RecordClick
  <2>2. links[l] \in LinkRows
    BY <2>1 DEF IInv, TypeOK, Live, MaybeRow
  <2>3. row \in LinkRows
    BY <2>2 DEF LinkRows
  <2>4. Counts(l, row)
    BY <2>1 DEF Counts
  <2>. HIDE DEF l, row
  <2>. QED
    BY <2>1, <2>3, <2>4
<1>. QED
  BY <1>1, <1>4, <1>5, <1>6, <1>7
     DEF Handle, ReadBackLink, CreateResourceToken, ReadBackToken, LookupLink, Authorize,
         RereadLink, Resolve, ClickNotRecorded, ClicksForLink, db

\* Every such write is one step of the registry, for the slug of the row.
LEMMA RegistryStep ==
  ASSUME IInv, OneRowPerSlug(links), [Next]_vars
  PROVE  /\ OneRowPerSlug(links')
         /\ \/ \E s \in Slugs : \/ Registry!Publish(s) \/ Registry!Change(s)
                                \/ Registry!Visit(s) \/ Registry!Withdraw(s)
            \/ UNCHANGED [s \in Slugs |-> EntryOf(s)]
<1>. DEFINE entry == [s \in Slugs |-> EntryOf(s)]
            next  == [s \in Slugs |-> EntryOf(s)']
<1>1. CASE links' = links
  <2>1. \A s \in Slugs : EntryOf(s)' = EntryOf(s)
    BY <1>1, EntryIsTableEntry
  <2>. QED
    BY <1>1, <2>1
<1>2. CASE links' # links
  <2>1. PICK l \in LinkIds :
          \/ \E row \in LinkRows : /\ links' = [links EXCEPT ![l] = row]
                                   /\ Inserts(l, row) \/ Edits(l, row) \/ Counts(l, row)
          \/ Live(l) /\ links' = [links EXCEPT ![l] = NoRow]
    BY <1>2, TableSteps
  <2>2. Live(l) => links[l] \in LinkRows
    BY DEF IInv, TypeOK, Live, MaybeRow
  <2>3. ASSUME NEW row \in LinkRows, Inserts(l, row), links' = [links EXCEPT ![l] = row]
        PROVE  OneRowPerSlug(links') /\ \E s \in Slugs : Registry!Publish(s)
    <3>. DEFINE s == row.short_code
    <3>1. s \in Slugs /\ row # NoRow
      BY <2>3, SentinelAssumption DEF LinkRows
    <3>2. WritesRow(l, s, row) /\ ~Taken(s)
      BY <2>3 DEF WritesRow, Inserts
    <3>. DEFINE u == row.destination_url
                e == row.expires_at
    <3>3. u \in URLs /\ e \in Expiries \cup {Never} /\ row.click_count = 0
      BY <2>3 DEF Inserts, LinkRows
    <3>4. /\ OneRowPerSlug(links') /\ entry[s] = NoRow
          /\ next = [entry EXCEPT ![s] = [url |-> u, end |-> e, visits |-> 0]]
      BY <3>1, <3>2, <3>3, OneEntryChanges DEF RowEntry
    <3>. HIDE DEF s, u, e
    <3>5. \E uu \in URLs, ee \in Expiries \cup {Never} :
            next = [entry EXCEPT ![s] = [url |-> uu, end |-> ee, visits |-> 0]]
      BY <3>3, <3>4
    <3>6. Registry!Publish(s)
      BY <3>4, <3>5 DEF Registry!Publish
    <3>. QED
      BY <3>1, <3>4, <3>6
  <2>4. ASSUME NEW row \in LinkRows, Edits(l, row), links' = [links EXCEPT ![l] = row]
        PROVE  OneRowPerSlug(links') /\ \E s \in Slugs : Registry!Change(s)
    <3>. DEFINE s == row.short_code
                u == row.destination_url
                e == row.expires_at
    <3>1. /\ s \in Slugs /\ row # NoRow
          /\ u \in URLs /\ e \in Expiries \cup {Never}
      BY <2>4, SentinelAssumption DEF LinkRows
    <3>2. WritesRow(l, s, row) /\ Live(l)
      BY <2>4 DEF WritesRow, Edits
    <3>3. /\ OneRowPerSlug(links') /\ entry[s] = RowEntry(links[l])
          /\ next = [entry EXCEPT ![s] = RowEntry(row)]
      BY <3>1, <3>2, OneEntryChanges
    <3>4. RowEntry(links[l]) # NoRow
      BY <2>2, <3>2, SentinelAssumption DEF RowEntry, LinkRows
    <3>5. RowEntry(row) = [RowEntry(links[l]) EXCEPT !.url = u, !.end = e]
      <4>. DEFINE R == [url : URLs, end : Expiries \cup {Never}, visits : Nat]
      <4>1. RowEntry(links[l]) \in R /\ RowEntry(row) \in R
        BY <2>2, <3>2 DEF RowEntry, LinkRows
      <4>2. /\ RowEntry(row).url = u /\ RowEntry(row).end = e
            /\ RowEntry(row).visits = RowEntry(links[l]).visits
        BY <2>4 DEF RowEntry, Edits
      <4>. HIDE DEF u, e
      <4>. QED
        BY <3>1, <4>1, <4>2
    <3>. HIDE DEF s, u, e
    <3>6. next = [entry EXCEPT ![s].url = u, ![s].end = e]
      BY <3>1, <3>3, <3>5
    <3>7. \E uu \in URLs, ee \in Expiries \cup {Never} :
            next = [entry EXCEPT ![s].url = uu, ![s].end = ee]
      BY <3>1, <3>6
    <3>8. Registry!Change(s)
      BY <3>3, <3>4, <3>7 DEF Registry!Change
    <3>. QED
      BY <3>1, <3>3, <3>8
  <2>5. ASSUME NEW row \in LinkRows, Counts(l, row), links' = [links EXCEPT ![l] = row]
        PROVE  OneRowPerSlug(links') /\ \E s \in Slugs : Registry!Visit(s)
    <3>. DEFINE s == row.short_code
    <3>1. /\ links[l] \in LinkRows /\ Live(l) /\ row = [links[l] EXCEPT !.click_count = @ + 1]
          /\ s \in Slugs /\ row # NoRow
      BY <2>2, <2>5, SentinelAssumption DEF LinkRows, Counts
    <3>2. WritesRow(l, s, row)
      BY <2>5, <3>1 DEF WritesRow, LinkRows
    <3>. HIDE DEF s
    <3>3. /\ OneRowPerSlug(links') /\ entry[s] = RowEntry(links[l])
          /\ next = [entry EXCEPT ![s] = RowEntry(row)]
      BY <3>1, <3>2, OneEntryChanges
    <3>4. RowEntry(links[l]) # NoRow
      BY <3>1, SentinelAssumption DEF RowEntry, LinkRows
    <3>5. RowEntry(row) = [RowEntry(links[l]) EXCEPT !.visits = @ + 1]
      BY <3>1 DEF RowEntry, LinkRows
    <3>6. next = [entry EXCEPT ![s].visits = @ + 1]
      BY <3>1, <3>3, <3>5
    <3>. QED
      BY <3>1, <3>3, <3>4, <3>6 DEF Registry!Visit
  <2>6. ASSUME Live(l), links' = [links EXCEPT ![l] = NoRow]
        PROVE  OneRowPerSlug(links') /\ \E s \in Slugs : Registry!Withdraw(s)
    <3>. DEFINE s == links[l].short_code
    <3>1. s \in Slugs /\ WritesRow(l, s, NoRow)
      BY <2>2, <2>6 DEF LinkRows, WritesRow
    <3>2. /\ OneRowPerSlug(links') /\ entry[s] = RowEntry(links[l])
          /\ next = [entry EXCEPT ![s] = NoRow]
      BY <2>6, <3>1, OneEntryChanges
    <3>3. RowEntry(links[l]) # NoRow
      BY <2>2, <2>6, SentinelAssumption DEF RowEntry, LinkRows
    <3>. QED
      BY <3>1, <3>2, <3>3 DEF Registry!Withdraw
  <2>. QED
    BY <2>1, <2>3, <2>4, <2>5, <2>6
<1>. QED
  BY <1>1, <1>2

-----------------------------------------------------------------------------
\* What the tables and the handlers know of each other holds at every moment
\* of every run: the inductive invariant behind the theorems below.
THEOREM InvariantHolds == Safety => []IInv
  BY InitIInv, NextIInv, PTL DEF Safety

\* Every table, counter and request keeps its type (db/link.go, click.go,
\* token.go and the handlers' locals).
THEOREM TypeCorrect == Safety => []TypeOK
<1>1. IInv => TypeOK
  BY DEF IInv
<1>. QED
  BY <1>1, InvariantHolds, PTL

\* click_count is the number of rows in clicks, and no click outlives its
\* link, whatever visits, deletions, failures and crashes interleave
\* (RecordClick and DeleteLink).
THEOREM ClickCountsCorrect == Safety => []ClickCountsMatch
<1>1. IInv => ClickCountsMatch
  BY DEF IInv
<1>. QED
  BY <1>1, InvariantHolds, PTL

\* No link is ever opened by two owner tokens, nor by the token of a link
\* deleted before it (insertLink, CreateResourceToken, DeleteLink).
THEOREM OwnershipUnique == Safety => []OneTokenPerLink
<1>1. IInv => OneTokenPerLink
  BY DEF IInv
<1>. QED
  BY <1>1, InvariantHolds, PTL

\* A create answered 201 left its link an owner token, which stays for as
\* long as the link does (createLinkHandler, homePost).
THEOREM CreatedLinkOwned == Safety => []CreatedLinkHasToken
<1>1. IInv => CreatedLinkHasToken
  BY DEF IInv
<1>. QED
  BY <1>1, InvariantHolds, PTL

\* The statistics page shows as many rows as the total it prints, up to its
\* limit, although it reads the two in separate statements (statsHandler).
THEOREM StatsConsistent == Safety => []StatsCoverTotal
<1>1. IInv => StatsCoverTotal
  BY DEF IInv
<1>. QED
  BY <1>1, InvariantHolds, PTL

\* Who owns a link is settled: a link that was handed out has a token, and no
\* link ever has two (createLinkHandler, homePost, DeleteLink).
THEOREM OwnersCorrect == Safety => []OwnersSettled
<1>1. IInv => OwnersSettled
  BY DEF IInv, OwnersSettled
<1>. QED
  BY <1>1, InvariantHolds, PTL

\* Counter, rows and statistics page agree, for any number of redirects,
\* deletions and pages at once (RecordClick, DeleteLink, statsHandler).
THEOREM StatisticsCorrect == Safety => []StatisticsAgree
<1>1. IInv => StatisticsAgree
  BY DEF IInv, StatisticsAgree
<1>. QED
  BY <1>1, InvariantHolds, PTL

\* The step of a PATCH or DELETE that writes holds a credential of the link it
\* writes, and no other step edits or removes a link: the check made in
\* authorized() some statements earlier is not stale when it is used.
THEOREM EditsAuthorized == Safety => WritesAuthorized
<1>. DEFINE Held(l) == \E r \in Requests :
              /\ req[r].pc \in {"update", "delete"} /\ req[r].id = l
              /\ \/ req[r].cred = Operator
                 \/ \E t \in tokens : t.id = req[r].cred /\ t.resource_id = l
            Step == \A l \in LinkIds : Live(l) /\ EditedOrRemoved(l) => Held(l)
<1>1. IInv /\ [Next]_vars => Step
  <2>. SUFFICES ASSUME IInv, [Next]_vars, NEW l \in LinkIds, Live(l), EditedOrRemoved(l)
                PROVE  Held(l)
    OBVIOUS
  <2>1. links' # links
    BY DEF EditedOrRemoved, Live
  <2>2. ASSUME NEW r \in Requests, NEW code, InsertLink(r, code)
        PROVE  FALSE
    <3>1. l # lastLink + 1
      BY DEF IInv, IdsIssued, TypeOK
    <3>2. links'[l] = links[l]
      BY <2>2, <3>1 DEF InsertLink, NextLinkId, IInv, TypeOK
    <3>. QED
      BY <3>2 DEF EditedOrRemoved, Live
  <2>3. ASSUME NEW r \in Requests, req[r].pc \in {"update", "delete"},
               links' = [links EXCEPT ![req[r].id] = links'[req[r].id]]
        PROVE  Held(l)
    <3>1. req[r].id = l
      <4>1. req[r].id # l => links'[l] = links[l]
        BY <2>3 DEF IInv, TypeOK
      <4>. QED
        BY <4>1 DEF EditedOrRemoved, Live
    <3>2. Authorized(r)
      BY <2>3, <3>1 DEF IInv, AuthorizationHolds
    <3>. QED
      BY <2>3, <3>1, <3>2 DEF Authorized
  <2>4. ASSUME NEW r \in Requests, RecordClick(r)
        PROVE  FALSE
    <3>1. links[l] \in LinkRows
      BY DEF IInv, TypeOK, Live, MaybeRow
    <3>2. /\ links'[l] # NoRow
          /\ links'[l].destination_url = links[l].destination_url
          /\ links'[l].expires_at = links[l].expires_at
      <4>. DEFINE row == [links[l] EXCEPT !.click_count = @ + 1]
      <4>1. row \in LinkRows /\ row.destination_url = links[l].destination_url
            /\ row.expires_at = links[l].expires_at
        BY <3>1 DEF LinkRows
      <4>2. links'[l] = row \/ links'[l] = links[l]
        BY <2>4 DEF RecordClick, IInv, TypeOK
      <4>3. links[l] # NoRow
        BY DEF Live
      <4>4. row # NoRow
        BY <4>1, SentinelAssumption DEF LinkRows
      <4>. HIDE DEF row
      <4>. QED
        BY <4>1, <4>2, <4>3, <4>4
    <3>. QED
      BY <3>2 DEF EditedOrRemoved
  <2>5. ASSUME NEW r \in Requests, UpdateLinkDestination(r)
        PROVE  Held(l)
    <3>1. req[r].pc = "update" /\ links' = [links EXCEPT ![req[r].id] = UpdatedRow(r)]
      BY <2>1, <2>5 DEF UpdateLinkDestination
    <3>2. links' = [links EXCEPT ![req[r].id] = links'[req[r].id]]
      BY <3>1 DEF IInv, TypeOK
    <3>. QED
      BY <2>3, <3>1, <3>2
  <2>6. ASSUME NEW r \in Requests, DeleteLink(r)
        PROVE  Held(l)
    <3>1. req[r].pc = "delete" /\ links' = [links EXCEPT ![req[r].id] = NoRow]
      BY <2>1, <2>6 DEF DeleteLink
    <3>2. links' = [links EXCEPT ![req[r].id] = links'[req[r].id]]
      BY <3>1 DEF IInv, TypeOK
    <3>. QED
      BY <2>3, <3>1, <3>2
  <2>7. ASSUME NEW r \in Requests, Arrive(r)
        PROVE  FALSE
    BY <2>1, <2>7 DEF Arrive, CreateRequest, SubmitHomeForm, UpdateRequest, DeleteRequest,
       ResolveRequest, StatsRequest, db
  <2>8. ASSUME NEW r \in Requests, Handle(r)
        PROVE  Held(l)
    BY <2>1, <2>2, <2>4, <2>5, <2>6, <2>8, LinksAssumption
       DEF Handle, CreateLinkCustomSlug, CreateLinkAutoCode, ReadBackLink,
           CreateResourceToken, ReadBackToken, LookupLink, Authorize, RereadLink,
           Resolve, ClickNotRecorded, ClicksForLink, db
  <2>9. ASSUME NEW r \in Requests, Fail(r)
        PROVE  FALSE
    BY <2>1, <2>9 DEF Fail, db
  <2>. QED
    BY <2>1, <2>7, <2>8, <2>9 DEF Next, Crash, Tick, vars, db
<1>2. IInv /\ [Next]_vars => [Step]_vars
  BY <1>1
<1>. QED
  BY <1>2, InvariantHolds, PTL DEF Safety, WritesAuthorized

\* Under any interleaving of any number of requests a slug names one link at a
\* time: a link is published under a free slug with no visits, changed without
\* losing its visits, visited one by one and withdrawn, and no failure or crash
\* does anything else to it (db/link.go, db/click.go and the handlers).
THEOREM RegistryImplemented == Safety => RefinesRegistry
<1>1. Init => Registry!Init
  BY DEF Init, Registry!Init, EntryOf, Taken, Live
<1>2. Init => OneRowPerSlug(links)
  BY DEF Init, OneRowPerSlug, Holds
<1>3. IInv /\ OneRowPerSlug(links) /\ [Next]_vars => OneRowPerSlug(links)'
  BY RegistryStep
<1>4. IInv /\ OneRowPerSlug(links) /\ [Next]_vars
      => [Registry!Next]_([s \in Slugs |-> EntryOf(s)])
  BY RegistryStep DEF Registry!Next
<1>. QED
  BY <1>1, <1>2, <1>3, <1>4, InvariantHolds, PTL DEF Safety, RefinesRegistry, Registry!Spec
=============================================================================
