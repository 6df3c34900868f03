------------------------------- MODULE MCWeb --------------------------------
(***************************************************************************)
(* Gateway, Pages, Terminal, Origin and Reports for TLC. They share no     *)
(* state, so a behaviour is one of one component: part says which, and the *)
(* variables of the others stay 0.                                         *)
(***************************************************************************)
EXTENDS Naturals, FiniteSets

CONSTANTS Minute, Buckets, PerWindow, WriteWindow, Burst, Threshold,
          BlockFor, Lifetime, MaxArrivals, Tabs, MaxTokens, MaxSegments,
          Slugs, Listed, Hits, PageSize, Wires, MaxSent, MaxIssues,
          MaxOpens, Visitors, MaxDays, MaxRequests

VARIABLE part   \* the component this behaviour is about
VARIABLES tick, requests, arrivals, blocked, counted, resetAt, windows,
          burst, lastSweep, ring, admitted, answered
VARIABLES via, onionKnown, secure, jar, issued, tabs, stray
VARIABLES stored, ui, wires, sent, quiet
VARIABLES wanted, newest, ondisk, inuse, getting, trusts, opens, held
VARIABLES day, contact, page, post, told, reports, letters, entries,
          arrived, counts, recorded, uses

gatewayVars == <<tick, requests, arrivals, blocked, counted, resetAt,
                 windows, burst, lastSweep, ring, admitted, answered>>
pagesVars == <<via, onionKnown, secure, jar, issued, tabs, stray>>
terminalVars == <<stored, ui, wires, sent, quiet>>
originVars == <<wanted, newest, ondisk, inuse, getting, trusts, opens, held>>
reportVars == <<day, contact, page, post, told, reports, letters, entries,
                arrived, counts, recorded, uses>>

G == INSTANCE Gateway
P == INSTANCE Pages
T == INSTANCE Terminal
N == INSTANCE Origin
E == INSTANCE Reports

\* Times, limits and numbers, and links on the server that can be counted.
ASSUME WebAssumption ==
  /\ Minute \in Nat \ {0} /\ Buckets \in Nat \ {0} /\ Lifetime \in Nat
  /\ PerWindow \in Nat /\ Burst \in Nat /\ WriteWindow \in Nat \ {0}
  /\ MaxIssues \in Nat \ {0} /\ Threshold \in Nat \ {0} /\ PageSize \in Nat \ {0}
  /\ Wires \in SUBSET Nat /\ Wires # {}
  /\ Listed \in SUBSET Slugs /\ IsFiniteSet(Listed)

\* The variables of a component that the behaviour is not about.
NoG ==
  /\ tick = 0 /\ requests = 0 /\ arrivals = 0 /\ blocked = 0 /\ counted = 0
  /\ resetAt = 0 /\ windows = 0 /\ burst = 0 /\ lastSweep = 0 /\ ring = 0
  /\ admitted = 0 /\ answered = 0
NoP ==
  /\ via = 0 /\ onionKnown = 0 /\ secure = 0 /\ jar = 0
  /\ issued = 0 /\ tabs = 0 /\ stray = 0
NoT ==
  /\ stored = 0 /\ ui = 0 /\ wires = 0 /\ sent = 0 /\ quiet = 0
NoN ==
  /\ wanted = 0 /\ newest = 0 /\ ondisk = 0 /\ inuse = 0 /\ getting = 0
  /\ trusts = 0 /\ opens = 0 /\ held = 0
NoE ==
  /\ day = 0 /\ contact = 0 /\ page = 0 /\ post = 0 /\ told = 0
  /\ reports = 0 /\ letters = 0 /\ entries = 0 /\ arrived = 0 /\ counts = 0
  /\ recorded = 0 /\ uses = 0

Init ==
  \/ /\ part = "gateway" /\ G!Init
     /\ NoP /\ NoT /\ NoN /\ NoE
  \/ /\ part = "pages" /\ P!Init
     /\ NoG /\ NoT /\ NoN /\ NoE
  \/ /\ part = "terminal" /\ T!Init
     /\ NoG /\ NoP /\ NoN /\ NoE
  \/ /\ part = "origin" /\ N!Init
     /\ NoG /\ NoP /\ NoT /\ NoE
  \/ /\ part = "reports" /\ E!Init
     /\ NoG /\ NoP /\ NoT /\ NoN

Next ==
  /\ UNCHANGED part
  /\ \/ /\ part = "gateway" /\ G!Next
        /\ UNCHANGED <<pagesVars, terminalVars, originVars, reportVars>>
     \/ /\ part = "pages" /\ P!Next
        /\ UNCHANGED <<gatewayVars, terminalVars, originVars, reportVars>>
     \/ /\ part = "terminal" /\ T!Next
        /\ UNCHANGED <<gatewayVars, pagesVars, originVars, reportVars>>
     \/ /\ part = "origin" /\ N!Next
        /\ UNCHANGED <<gatewayVars, pagesVars, terminalVars, reportVars>>
     \/ /\ part = "reports" /\ E!Next
        /\ UNCHANGED <<gatewayVars, pagesVars, terminalVars, originVars>>

vars == <<part, gatewayVars, pagesVars, terminalVars, originVars, reportVars>>

Spec == Init /\ [][Next]_vars

-----------------------------------------------------------------------------
\* An address that has reached the threshold in the window of the detector is
\* blocked for the rest of it, though its requests overtake each other between
\* the three locks and the scheduler releases blocks meanwhile.
FloodersBlocked == part = "gateway" => G!FloodersBlocked

\* Wherever a span as long as a window begins, no more than two windows of
\* requests pass in it: what a sweep drops was no longer needed.  And what the
\* health page gives as the requests of a day is what was recorded in the last
\* minutes that the ring has, however its buckets are used again.
CountsKept == part = "gateway" => G!CountsKept

\* The chain accepts the form of a page that settled in the browser, however
\* many tabs load at once, and refuses the first form that a browser is shown,
\* although the page brought the cookie; it stops a change that a page of
\* another site asks for.
FormsDecided == part = "pages" => P!FormsDecided

\* Whatever slashes, dots and escapes a path has: what is handled has no segment
\* that leads up, and in its normal form would not be redirected.  A redirect
\* leads to a path that is shorter when its slashes are squeezed, so that one
\* after the other comes to an end, and the first is the last for a path that
\* means only itself; none leaves the server but for a backslash.  A client on
\* an overlay listener is sent nowhere else, whatever addresses are known.
RedirectsSettle == part = "pages" => P!RedirectsSettle

\* Whatever pages come in whatever order, searched or not, the cursor is on a
\* row, and the rows are those of the page that the search finds; after any
\* sequence of changes and pages that did not cross each other, that page is the
\* server's once all has been answered.
ListCurrent == part = "terminal" => T!ListCurrent

\* Whatever answers come between the question and its confirmation, a request to
\* delete is one for the link that the question on the screen names.
DeletionsConfirmed == [][part = "terminal" => T!DeletesAsked]_terminalVars

\* A database that was ever in use stays in use, through downloads that fail or
\* bring rubbish, each beside the other, and restarts; and when the last
\* downloads both ended with every file, what is in use is what is on the disk.
\* A client from a country that is not let in is refused from the moment that a
\* database that knows it was in use, and nobody is whom none knows.
CountriesDecide == part = "origin" => N!CountriesDecide

\* A client that comes by itself counts under its own address, and is answered
\* under the name it was sent to, whatever headers it sends; one that comes
\* through a trusted proxy counts under an address that the proxy names, the
\* first of a list; a request over an overlay counts under no address, is never
\* answered with https, finds no name but the one it was sent to or the service's
\* there, and, once the service has one, no name of the clear net.  The
\* databases have no part in it, so it is looked at before any comes.
OriginDecides == part = "origin" => N!OriginDecides

\* Who is told that his report was received has a row of his own under the id
\* he is told, and every letter and every entry of the audit log that names an
\* id names a row, wherever the server died and whatever was sent again.  A
\* report is refused for its link only when the link is older than the two days
\* it must be good for, and is taken for a message by nobody; and in a minute
\* no browser takes another's share of the reports that are recorded.
ReportsHandled == part = "reports" => E!ReportsHandled
=============================================================================
