-------------------------------- MODULE Origin --------------------------------
(***************************************************************************)
(* Where a request is from: the address it counts under, the name it is    *)
(* answered under (httpserver: urlvars.go, overlay.go) and whether its     *)
(* country is let in (geoip.go, geoIPMiddleware), while the databases that *)
(* tell the country are downloaded at start and by the weekly task.        *)
(***************************************************************************)
EXTENDS Naturals, Sequences

CONSTANTS
  MaxIssues,      \* bound: issues of the databases
  MaxOpens        \* bound: starts of the server

VARIABLES
  wanted,         \* the databases that server.yml enables
  newest,         \* the last issue that can be downloaded
  ondisk, inuse,  \* the issue of each database, 0 for none
  getting,        \* the downloads: of the start and of the task
  trusts,         \* the peers whose headers are honoured
  opens,
  held            \* history: the databases that were ever in use

originVars == <<wanted, newest, ondisk, inuse, getting, trusts, opens, held>>

\* In the order in which they are downloaded; the ASN database decides nothing.
Files == <<"country", "cityV4", "cityV6">>
Databases == {Files[i] : i \in DOMAIN Files}
Choices == {Databases, {"country"}, {"cityV4", "cityV6"}}
Getters == {"start", "task"}
Rubbish == MaxIssues + 1   \* what was downloaded is no database
Resting == [pc |-> "off", file |-> 1, got |-> 0, failed |-> FALSE]
None == [f \in Databases |-> 0]

Init ==
  /\ wanted \in Choices
  /\ newest = 1 /\ ondisk = None /\ inuse = None
  /\ getting = [g \in Getters |-> Resting]
  /\ trusts = {} /\ opens = 0 /\ held = {}

-----------------------------------------------------------------------------
(***************************************************************************)
(* The databases                                                           *)
(***************************************************************************)

loadAll == [f \in Databases |-> IF f \in wanted THEN ondisk[f] ELSE 0]
Held == held' = held \cup {f \in Databases : inuse'[f] # 0}

\* Every reader is replaced under the lock, so that a lookup sees all or none.
\* A start, after the server has ended or been killed.
Open ==
  /\ opens < MaxOpens /\ opens' = opens + 1
  /\ inuse' = loadAll /\ Held
  /\ trusts' \in {{"near"}, {"near", "proxy"}}   \* a name may not be found
  /\ getting' = [getting EXCEPT !["start"] = [Resting EXCEPT !.pc = "fetch"],
                                !["task"] = Resting]
  /\ UNCHANGED <<wanted, newest, ondisk>>

geoipUpdateTask ==
  /\ opens > 0 /\ getting["task"].pc = "off"
  /\ getting' = [getting EXCEPT !["task"] = [Resting EXCEPT !.pc = "fetch"]]
  /\ UNCHANGED <<wanted, newest, ondisk, inuse, trusts, opens, held>>

Issue ==
  /\ newest < MaxIssues /\ newest' = newest + 1
  /\ UNCHANGED <<wanted, ondisk, inuse, getting, trusts, opens, held>>

\* A file that is not wanted is passed over; one that fails keeps no other from
\* being tried.
After(g, failed) ==
  IF g.file = Len(Files) THEN [g EXCEPT !.pc = "end", !.failed = failed, !.got = 0]
  ELSE [g EXCEPT !.pc = "fetch", !.file = @ + 1, !.failed = failed, !.got = 0]
Fetch(a) ==
  LET g == getting[a] IN
  /\ g.pc = "fetch"
  /\ IF Files[g.file] \in wanted
     THEN \/ \E v \in {newest, Rubbish} :
               getting' = [getting EXCEPT ![a].pc = "install", ![a].got = v]
          \/ getting' = [getting EXCEPT ![a] = After(g, TRUE)]
     ELSE getting' = [getting EXCEPT ![a] = After(g, g.failed)]
  /\ UNCHANGED <<wanted, newest, ondisk, inuse, trusts, opens, held>>

\* Fault: what was downloaded is not looked at.
Taken(v) == TRUE
\* A database is opened before it is renamed over the one there is.
Valid(v) == v # Rubbish
Install(a) ==
  LET g == getting[a] IN
  /\ g.pc = "install"
  /\ IF Valid(g.got)
     THEN /\ ondisk' = [ondisk EXCEPT ![Files[g.file]] = IF g.got = Rubbish THEN 0 ELSE g.got]
          /\ getting' = [getting EXCEPT ![a] = After(g, g.failed)]
     ELSE /\ getting' = [getting EXCEPT ![a] = After(g, TRUE)]
          /\ UNCHANGED ondisk
  /\ UNCHANGED <<wanted, newest, inuse, trusts, opens, held>>

\* The databases are opened anew when every file came, and only then.
Reload(a) ==
  LET g == getting[a] IN
  /\ g.pc = "end"
  /\ getting' = [getting EXCEPT ![a].pc = "off"]
  /\ inuse' = IF g.failed THEN inuse ELSE loadAll
  /\ Held
  /\ UNCHANGED <<wanted, newest, ondisk, trusts, opens>>

Next ==
  \/ Open \/ geoipUpdateTask \/ Issue
  \/ \E a \in Getters : Fetch(a) \/ Install(a) \/ Reload(a)

Spec == Init /\ [][Next]_originVars

-----------------------------------------------------------------------------
(***************************************************************************)
(* A request                                                               *)
(***************************************************************************)

\* A request has the address of its peer, headers that name an address, a name
\* it was sent to, and perhaps the tag of an overlay listener.  Peers near, the
\* operator's proxy and four clients: what the databases know of three of them
\* is their country, of the last nothing.
Clients == {"a4", "b4", "c6", "d4"}
Peers   == {"near", "proxy"} \cup Clients
Knows == [country |-> {"a4"}, cityV4 |-> {"a4", "b4"}, cityV6 |-> {"c6"}]
Named == {"CF-Connecting-IP", "True-Client-IP", "X-Real-IP", "X-Forwarded-For", "X-Client-IP"}
Names(n, ip, others) == [name |-> n, lists |-> IF n = "X-Forwarded-For" THEN <<ip>> \o others ELSE <<ip>>]
Headers == {{}} \cup {{Names(n, "a4", <<"d4">>)} : n \in Named}
           \cup {{Names("X-Client-IP", "a4", <<>>), Names(n, "d4", <<"a4">>)}
                  : n \in Named \ {"X-Client-IP"}}
OverlayNone == "none"
Hosts == {"own", "onion", "other onion"}   \* the last is no address of this server
Requests == [peer : Peers, headers : Headers, forwarded : BOOLEAN,
             host : Hosts, listener : {OverlayNone, "tor"}, published : BOOLEAN]

\* By the suffix alone.
OverlayHostNetwork(host) == IF host \in {"onion", "other onion"} THEN "tor" ELSE OverlayNone
\* By the listener, or by the very address that is published.
OverlayOf(r) ==
  IF r.listener = OverlayNone /\ r.published /\ r.host = "onion" THEN "tor" ELSE r.listener

\* Fault: the headers of every peer are honoured.
AnyPeer(r, trusted) == TRUE
IsTrustedPeer(r, trusted) == r.peer \in trusted

forwardedForHeaders == <<"CF-Connecting-IP", "True-Client-IP", "X-Real-IP">>
Order == forwardedForHeaders \o <<"X-Forwarded-For", "X-Client-IP">>
Rank(h) == CHOOSE i \in DOMAIN Order : Order[i] = h.name
First(headers) == CHOOSE h \in headers : \A g \in headers : Rank(h) <= Rank(g)
ResolveClientIP(r, trusted) ==
  IF OverlayOf(r) # OverlayNone THEN OverlayOf(r)
  ELSE IF ~IsTrustedPeer(r, trusted) \/ r.headers = {} THEN r.peer
  ELSE First(r.headers).lists[1]

\* Fault: the name is given back whatever it is.
NameSent(r) == r.host
\* The name and the scheme of the links in the answer.  An overlay request that
\* was sent to a name outside the overlay is answered under the address of the
\* service, once there is one; any name of the overlay is given back.
overlayName(r) ==
  IF OverlayHostNetwork(r.host) # OverlayOf(r) /\ r.published THEN "onion" ELSE r.host

GetURLVars(r, trusted) ==
  IF OverlayOf(r) # OverlayNone
  THEN [proto |-> "http", fqdn |-> overlayName(r)]
  ELSE IF IsTrustedPeer(r, trusted) /\ r.forwarded
  THEN [proto |-> "https", fqdn |-> "forwarded"]
  ELSE [proto |-> "http", fqdn |-> r.host]

\* X is the country of each address that a database knows; the city database
\* is asked when the country database does not know.
cityReaderFor(ip) == IF ip = "c6" THEN "cityV6" ELSE "cityV4"
Lookup(ip) ==
  IF \E f \in {"country", cityReaderFor(ip)} : inuse[f] # 0 /\ ip \in Knows[f]
  THEN "X" ELSE ""

\* Fault: who is on neither list is refused.
Strict(country, deny, allow) == country \notin allow
\* Nothing is refused for an unknown country, and the list of those to allow wins.
IsBlocked(country, deny, allow) ==
  /\ country # ""
  /\ IF allow # {} THEN country \notin allow ELSE country \in deny
\* geoIPMiddleware, of a request that counts under this address.
Refused(ip, deny, allow) == ip \in Clients /\ IsBlocked(Lookup(ip), deny, allow)

-----------------------------------------------------------------------------
\* A database that was ever in use stays in use, through downloads that fail or
\* bring rubbish, each beside the other, and restarts; and when the last
\* downloads both ended with every file, what is in use is what is on the disk.
\* A client from a country that is not let in is refused from the moment that a
\* database that knows it was in use, and nobody is whom none knows.
CountriesDecide ==
  opens > 0 =>
    /\ \A f \in held : inuse[f] # 0
    /\ (\A g \in Getters : getting[g].pc = "off" /\ ~getting[g].failed) => inuse = loadAll
    /\ \A ip \in Clients, deny \in {{}, {"X"}}, allow \in {{}, {"Y"}, {"X", "Y"}} :
         Refused(ip, deny, allow) <=>
           /\ \E f \in held : ip \in Knows[f]
           /\ \/ allow = {"Y"}
              \/ allow = {} /\ deny = {"X"}

\* What a client, a proxy and the overlays can make of their requests, for each set
\* of peers that a start may find to be trusted.
Stands ==
  [trusted \in {{"near"}, {"near", "proxy"}} |->
     \A r \in Requests :
       LET from == ResolveClientIP(r, trusted)
           vars == GetURLVars(r, trusted)
       IN  IF OverlayOf(r) # OverlayNone
           THEN /\ from \notin Peers /\ vars.proto = "http"
                /\ vars.fqdn \in {r.host, "onion"}
                /\ r.published => OverlayHostNetwork(vars.fqdn) # OverlayNone
           ELSE /\ r.peer \in Clients => from = r.peer /\ vars.fqdn = r.host
                /\ r.peer = "near" /\ r.headers # {} =>
                     \E h \in r.headers : from = h.lists[1] /\ (h.name = "X-Client-IP" => r.headers = {h})]

\* A client that comes by itself counts under its own address, and is answered
\* under the name it was sent to, whatever headers it sends; one that comes
\* through a trusted proxy counts under an address that the proxy names, the
\* first of a list; a request over an overlay counts under no address, is never
\* answered with https, finds no name but the one it was sent to or the service's
\* there, and, once the service has one, no name of the clear net.  The
\* databases have no part in it, so it is looked at before any comes.
OriginDecides == opens = 1 /\ ondisk = None => Stands[trusts]
=============================================================================
