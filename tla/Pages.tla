------------------------------- MODULE Pages --------------------------------
(***************************************************************************)
(* A request on its way through the middleware (middleware.go, secfetch.go,*)
(* overlay.go, i18n.go) to the pages and the API, and the double-submit    *)
(* cookie that ties the forms of the pages to it (pagedata.go,             *)
(* frontend.go): a browser that has several tabs under way at once, and    *)
(* requests of anybody else.                                               *)
(***************************************************************************)
EXTENDS Naturals, Sequences, FiniteSetsExt, SequencesExt, Selection

CONSTANTS
  Tabs,         \* the tabs of the browser
  MaxTokens,    \* bound: csrf tokens that are made
  MaxSegments   \* bound: segments of a path

VARIABLES
  via,          \* how requests come: "http", "https", "tor", "i2p", or "host",
                \* the port of the server with the onion address as Host
  onionKnown,    \* the resolver knows the onion address
  secure,       \* server.csrf.secure
  jar,          \* the csrf cookie that the browser has; 0 is none
  issued,       \* tokens made so far
  tabs,         \* what each tab shows or waits for
  stray         \* the last request of somebody else, and its answer

pagesVars == <<via, onionKnown, secure, jar, issued, tabs, stray>>

Blank    == [pc |-> "blank", sent |-> 0, gives |-> 0, token |-> 0, asked |-> "no"]
NoStray  == [asked |-> FALSE]

Init ==
  /\ via \in {"http", "https", "tor", "i2p", "host"}
  /\ onionKnown = FALSE
  /\ secure \in {"auto", "true", "false"}
  /\ jar = 0 /\ issued = 0
  /\ tabs = [t \in Tabs |-> Blank]
  /\ stray = NoStray

-----------------------------------------------------------------------------
(***************************************************************************)
(* Paths, as the segments between their slashes: "/" is <<"">>, "/a//" is  *)
(* <<"a", "", "">>; of a request, after its escapes have been resolved.    *)
(***************************************************************************)
Root     == <<"">>
Strange  == {"?", "%3F", "\\"}   \* what means more than itself where it is sent again
Segments == {"", ".", "..", "page", "api", "file.x"} \cup Strange
Dotted   == {".", "..", "file.x"}
Paths    == UNION {[1 .. n -> Segments] : n \in 1 .. MaxSegments}

\* Fault: slashes are left as they are.
Unsqueezed(p) == p

\* Repeated slashes become one; a last one stays.
Squeezed(p) == Among(Front(p), Segments \ {""}) \o <<Last(p)>>

Trailing(p) == p # Root /\ Last(p) = ""

\* A slash at the end is cut, with a redirect unless it looks like a file.
Cut(p) == IF Trailing(p) THEN Front(p) ELSE p
Redirects(p) == LET q == Squeezed(p) IN Trailing(q) /\ Last(Cut(q)) \notin Dotted

Normalized(p) == Cut(Squeezed(p))

\* path.Clean.
Walk(q, segment) ==
  IF segment \in {"", "."} THEN q
  ELSE IF segment # ".." THEN Append(q, segment)
  ELSE IF q = <<>> THEN <<>> ELSE Front(q)
Clean(p) ==
  LET upTo[i \in 0 .. Len(p)] == IF i = 0 THEN <<>> ELSE Walk(upTo[i - 1], p[i])
  IN  IF upTo[Len(p)] = <<>> THEN Root ELSE upTo[Len(p)]

\* The path that the stages after it see, and the router unless some escape of
\* the request had to be kept: then it routes by the path as it was sent.
Seen(p) == Clean(Normalized(p))

\* pathSecurityMiddleware, which looks for escaped dots too.
Climbs(r) == ".." \in Range(Normalized(r.path)) \/ r.escaped = "dot"

\* http.Redirect cleans the path, which is all that precedes a question mark, but
\* not what begins like the name of a host.
NamesHost(p) == Len(p) > 1 /\ p[1] = ""
Location(p) ==
  LET cut == {i \in DOMAIN p : p[i] = "?"} IN
    IF NamesHost(p) THEN p
    ELSE IF cut = {} THEN Clean(p)
    ELSE LET before == Clean(SubSeq(p, 1, Min(cut) - 1)) IN
           IF before = Root THEN Root ELSE before \o <<"">>
\* A client takes a backslash for a slash, so two of either are a host; what it
\* sends is decoded again.
Leaves(p) == NamesHost(p) \/ p[1] = "\\"
Again(segment) ==
  CASE segment = "%3F"  -> "?"
    [] segment = "\\"   -> ""
    [] OTHER            -> segment
Asked(p) == [i \in DOMAIN p |-> Again(p[i])]

-----------------------------------------------------------------------------
(***************************************************************************)
(* Stages.  A request has a method and a path, says where it was made, if  *)
(* its client labels it, and has a token of an owner or of the operator,   *)
(* the csrf cookie and what the form or a header gives for it; its path    *)
(* may have an escape that is kept.                                        *)
(***************************************************************************)
IsAPI(p) == Len(p) >= 2 /\ p[1] = "api"
Changes(r) == r.method = "POST"
Foreign(r) == r.from = "foreign"
Exempt(r) == r.bearer \/ IsAPI(Seen(r.path))

\* With an Origin, that browsers send with these two.
Preflight(r) == r.method = "OPTIONS" /\ r.from # "tool"

\* secFetchMiddleware: a form may not post to the API either.
FetchRefuses(r) ==
  /\ Changes(r) /\ r.labelled
  /\ \/ (Foreign(r) /\ ~Exempt(r))
     \/ r.navigates /\ IsAPI(Seen(r.path))

\* Fault: an empty token equals an empty cookie.
EqualSuffices(r) == Changes(r) /\ ~Exempt(r) /\ r.cookie # r.submitted

\* csrfMiddleware.
TokenRefuses(r) ==
  /\ Changes(r) /\ ~Exempt(r)
  /\ r.cookie = 0 \/ r.submitted # r.cookie

\* setupMiddleware, from the outside in.
Stages == <<"preflight", "redirect", "bad path", "cross site", "csrf">>
Stops(stage, r) ==
  CASE stage = "preflight"  -> Preflight(r)
    [] stage = "redirect"   -> Redirects(r.path)
    [] stage = "bad path"   -> Climbs(r)
    [] stage = "cross site" -> FetchRefuses(r)
    [] stage = "csrf"       -> TokenRefuses(r)

Answer(r) ==
  LET stops == {i \in DOMAIN Stages : Stops(Stages[i], r)} IN
    IF stops = {} THEN "handled" ELSE Stages[Min(stops)]

\* Fault: the listener of the request is forgotten.
OverlayByHost == via = "host" /\ onionKnown

\* OverlayOf: by the listener, or by a host that is known.
IsOverlay == via \in {"tor", "i2p"} \/ (via = "host" /\ onionKnown)

\* securityHeadersMiddleware and onionLocationMiddleware: what sends a client
\* elsewhere than where it is.
Sends(r) ==
  (IF via = "https" /\ ~IsOverlay THEN {"hsts"} ELSE {})
    \cup (IF ~IsOverlay THEN {"upgrade-insecure-requests"} ELSE {})
    \cup (IF onionKnown /\ ~IsOverlay /\ r.method = "GET" /\ r.navigates
          THEN {"onion-location"} ELSE {})

-----------------------------------------------------------------------------
(***************************************************************************)
(* A browser                                                               *)
(***************************************************************************)
\* ensureCSRFCookie's Secure, and whether a browser keeps such a cookie.
SecureFlag == secure = "true" \/ (secure = "auto" /\ (via = "https" \/ IsOverlay))
Keeps(flag) == flag => via \in {"https", "tor", "host"}

\* Without a cookie; with one, and nothing under way that could replace it; or
\* while another page was asked for without.
HowAsked ==
  IF jar = 0 THEN "bare"
  ELSE IF \A t \in Tabs : tabs[t].pc \in {"asked", "sent"} => tabs[t].sent # 0 THEN "settled"
  ELSE "crossing"

\* The page is asked for with the cookie there is.
Open(t) ==
  /\ tabs[t].pc \in {"blank", "open"}
  /\ tabs' = [tabs EXCEPT ![t] = [Blank EXCEPT !.pc = "asked", !.sent = jar, !.asked = HowAsked]]
  /\ UNCHANGED <<via, onionKnown, secure, jar, issued, stray>>

\* Fault: every page brings a new cookie.
GivesAlways(t) == TRUE

\* ensureCSRFCookie.
Gives(t) == tabs[t].sent = 0

\* newPageData: the form has the cookie of the request.
Render(t) ==
  /\ tabs[t].pc = "asked" /\ (Gives(t) => issued < MaxTokens)
  /\ issued' = IF Gives(t) THEN issued + 1 ELSE issued
  /\ tabs' = [tabs EXCEPT ![t].pc = "sent", ![t].token = tabs[t].sent,
                          ![t].gives = IF Gives(t) THEN issued' ELSE 0]
  /\ UNCHANGED <<via, onionKnown, secure, jar, stray>>

\* Responses come in any order.
Show(t) ==
  /\ tabs[t].pc = "sent"
  /\ jar' = IF tabs[t].gives # 0 /\ Keeps(SecureFlag) THEN tabs[t].gives ELSE jar
  /\ tabs' = [tabs EXCEPT ![t].pc = "open", ![t].sent = 0, ![t].gives = 0]
  /\ UNCHANGED <<via, onionKnown, secure, issued, stray>>

Form(t) ==
  [method |-> "POST", path |-> <<"page">>, escaped |-> "no", from |-> "own",
   labelled |-> TRUE, navigates |-> TRUE, bearer |-> FALSE, cookie |-> jar, submitted |-> tabs[t].token]

\* The answer shows the page anew, with the cookie of this request, or an error.
Submit(t) ==
  /\ tabs[t].pc = "open"
  /\ tabs' = [tabs EXCEPT ![t] = IF Answer(Form(t)) = "handled" THEN [@ EXCEPT !.token = jar]
                                 ELSE Blank]
  /\ UNCHANGED <<via, onionKnown, secure, jar, issued, stray>>

-----------------------------------------------------------------------------
\* SetOverlayHost.
Publish ==
  /\ stray = NoStray /\ onionKnown' = ~onionKnown
  /\ UNCHANGED <<via, secure, jar, issued, tabs, stray>>

\* The pages of the server and of another site, whose browser may be old, and
\* programs.  The strict cookie is not sent from another site.
From(from, labelled, navigates) ==
  [from : from, labelled : labelled, navigates : navigates,
   method : {"GET", "POST", "OPTIONS"}, path : Paths,
   escaped : {"no", "dot", "other"}, bearer : BOOLEAN, cookie : {0}, submitted : {0}]

Requests ==
  From({"own"}, {TRUE}, {FALSE}) \cup From({"foreign"}, BOOLEAN, BOOLEAN)
    \cup From({"tool"}, {FALSE}, {FALSE})

\* The setting of the cookie has no part in these.
Stray ==
  /\ stray = NoStray /\ secure = "auto" /\ issued = 0 /\ tabs = [t \in Tabs |-> Blank]
  /\ \E r \in Requests :
       stray' = [asked |-> TRUE, request |-> r, got |-> Answer(r), sends |-> Sends(r)]
  /\ UNCHANGED <<via, onionKnown, secure, jar, issued, tabs>>

Next ==
  \/ Publish \/ Stray
  \/ stray = NoStray /\ \E t \in Tabs : Open(t) \/ Render(t) \/ Show(t) \/ Submit(t)

Spec == Init /\ [][Next]_pagesVars

-----------------------------------------------------------------------------
Handled == stray.asked /\ stray.got = "handled"

\* However many tabs load pages at once and in whatever order their answers
\* come: the form of a page that was asked for when the browser had its cookie,
\* and had nothing under way that could replace it, is accepted.
SettledFormsAccepted ==
  \A t \in Tabs : tabs[t].pc = "open" /\ tabs[t].asked = "settled" => Answer(Form(t)) = "handled"

\* The form of a page that was asked for without the cookie never is, also when
\* the page brought it: it has the token of the request, which is none.
BareFormsRefused ==
  \A t \in Tabs : tabs[t].pc = "open" /\ tabs[t].asked = "bare" => Answer(Form(t)) # "handled"

\* No page of another site has a change made, labelled or not, but through the
\* API or with a token.
ForeignFormsStopped ==
  Handled /\ Foreign(stray.request) /\ Changes(stray.request) => Exempt(stray.request)

\* The chain accepts the form of a page that settled in the browser, however
\* many tabs load at once, and refuses the first form that a browser is shown,
\* although the page brought the cookie; it stops a change that a page of
\* another site asks for.
FormsDecided == SettledFormsAccepted /\ BareFormsRefused /\ ForeignFormsStopped

\* Whatever slashes, dots and escapes a path has: what is handled has no segment
\* that leads up, and in its normal form would not be redirected.  A redirect
\* leads to a path that is shorter when its slashes are squeezed, so that one
\* after the other comes to an end, and the first is the last for a path that
\* means only itself; none leaves the server but for a backslash.  A client on
\* an overlay listener is sent nowhere else, whatever addresses are known.
RedirectsSettle ==
  stray.asked =>
    LET p    == stray.request.path
        goal == Location(Normalized(p))
        next == Asked(goal)
    IN  /\ stray.got = "handled" => ".." \notin Range(p) /\ ~Redirects(Seen(p))
        /\ stray.got = "redirect" =>
             /\ Leaves(goal) => "\\" \in Range(p)
             /\ Len(Squeezed(next)) < Len(Squeezed(p))
             /\ Range(p) \cap Strange = {} => ~Redirects(next)
        /\ via \in {"tor", "i2p"} => stray.sends = {}
=============================================================================
