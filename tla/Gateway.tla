------------------------------ MODULE Gateway -------------------------------
(***************************************************************************)
(* What a client address may send: the blocks, the flood detector and the  *)
(* rate limiter that every request passes one after the other, each under  *)
(* a lock of its own (ipblock.go, ratelimit.go, middleware.go), the        *)
(* scheduler's release of blocks, and the statistics of what was answered  *)
(* (stats.go).  Time is in ticks.                                          *)
(***************************************************************************)
EXTENDS Integers, Sums

CONSTANTS
  Minute,       \* ticks of a minute
  Buckets,      \* minutes that the ring of the statistics has, 1440 in the code
  PerWindow,    \* what a class allows in its window
  WriteWindow,  \* the window of the class "write"; "read" has a minute
  Burst,        \* rate_limit.global_burst, for all classes in a minute
  Threshold,    \* of the flood detector
  BlockFor,     \* how long a flood block lasts
  Lifetime,     \* bound: the last tick
  MaxArrivals   \* bound: requests that arrive

VARIABLES
  tick,         \* the clock
  requests,     \* the requests under way
  arrivals,     \* how many have arrived
  blocked,      \* BlockStore.temporary of the one address that is not allowlisted
  counted,      \* AbuseDetector.counts of it
  resetAt,      \* AbuseDetector.resetAt
  windows,      \* RateLimiter.byClass of it
  burst,        \* RateLimiter.global of it
  lastSweep,    \* RateLimiter.lastSweep
  ring,         \* Stats: the minutes and what was recorded in each
  admitted,     \* when the limiter has let requests of each class pass
  answered      \* how many requests were recorded in each minute

gatewayVars == <<tick, requests, arrivals, blocked, counted, resetAt, windows, burst,
                 lastSweep, ring, admitted, answered>>

Slots    == {1, 2}
Classes  == {"read", "write"}
Window(c) == IF c = "write" THEN WriteWindow ELSE Minute
NoBlock  == [until |-> 0, offenses |-> 0]
NoWindow == [count |-> 0, start |-> 0 - (WriteWindow + Minute)]
NoRequest == [pc |-> "none", class |-> "read", at |-> 0]

Init ==
  /\ tick = 0 /\ arrivals = 0
  /\ requests = [s \in Slots |-> NoRequest]
  /\ blocked = NoBlock
  /\ counted = 0 /\ resetAt = Minute
  /\ windows = [c \in Classes |-> NoWindow] /\ burst = NoWindow
  /\ lastSweep = 0 - Minute
  /\ ring = [minutes |-> [i \in 0 .. Buckets - 1 |-> 0], counts |-> [i \in 0 .. Buckets - 1 |-> 0]]
  /\ admitted = [c \in Classes |-> [t \in 0 .. Lifetime |-> 0]]
  /\ answered = [m \in 0 .. Lifetime \div Minute |-> 0]

Answer(s) == requests' = [requests EXCEPT ![s] = NoRequest]

-----------------------------------------------------------------------------
(***************************************************************************)
(* Blocks and the flood detector                                           *)
(***************************************************************************)
\* A block has run out also when it has not been released yet.
Blocked(block, t) == block.until > t

\* An allowlisted address is not blocked, counted or limited.
Arrive(s, class, allowlisted) ==
  /\ requests[s] = NoRequest /\ \A r \in Slots : r < s => requests[r] # NoRequest
  /\ arrivals < MaxArrivals /\ arrivals' = arrivals + 1
  /\ ~allowlisted => ~Blocked(blocked, tick)
  /\ requests' = [requests EXCEPT ![s] =
       IF allowlisted THEN [NoRequest EXCEPT !.pc = "serve"]
       ELSE [pc |-> "record", class |-> class, at |-> tick]]
  /\ UNCHANGED <<tick, blocked, counted, resetAt, windows, burst, lastSweep, ring,
                 admitted, answered>>

\* Fault: the block comes one request late.
FloodsLate(n) == n = Threshold + 1

\* Only the request that reaches the threshold blocks.
Floods(n) == n = Threshold

Record(s) ==
  /\ requests[s].pc = "record"
  /\ LET over == requests[s].at > resetAt IN
       /\ resetAt' = IF over THEN requests[s].at + Minute ELSE resetAt
       /\ counted' = IF over THEN 1 ELSE counted + 1
  /\ requests' = [requests EXCEPT ![s] =
       IF Floods(counted') THEN [@ EXCEPT !.pc = "block"] ELSE [@ EXCEPT !.pc = "limit", !.at = 0]]
  /\ UNCHANGED <<tick, arrivals, blocked, windows, burst, lastSweep, ring, admitted, answered>>

\* BlockTemporarily, and the alert to the operator.
Block(s) ==
  /\ requests[s].pc = "block"
  /\ blocked' = [until |-> requests[s].at + BlockFor, offenses |-> blocked.offenses + 1]
  /\ Answer(s)
  /\ UNCHANGED <<tick, arrivals, counted, resetAt, windows, burst, lastSweep, ring,
                 admitted, answered>>

\* Fault: the sweep releases a block that has not run out.
ReleasedAll(block) == NoBlock

\* ReleaseExpired: the offenses go with the block.
Released(block) == IF block.until <= tick THEN NoBlock ELSE block

\* ReleaseExpiredBlocks, a task of the scheduler.
Release ==
  /\ blocked # NoBlock /\ blocked' = Released(blocked)
  /\ UNCHANGED <<tick, requests, arrivals, counted, resetAt, windows, burst, lastSweep, ring,
                 admitted, answered>>

-----------------------------------------------------------------------------
(***************************************************************************)
(* RateLimiter.Allow                                                       *)
(***************************************************************************)
Lapsed(w, span) == tick - w.start >= span

\* Fault: the sweep takes every window for one of a minute.
SweptByTheMinute(w, span) == IF Lapsed(w, Minute) THEN NoWindow ELSE w

\* sweepLocked, at most once a minute.
Swept(w, span) == IF Lapsed(w, span) THEN NoWindow ELSE w

Due == tick - lastSweep >= Minute
Kept(w, span) == IF Due THEN Swept(w, span) ELSE w

\* A window that has run out begins anew with this request.
Current(w, span) == IF Lapsed(w, span) THEN [count |-> 0, start |-> tick] ELSE w

Limit(s) ==
  /\ requests[s].pc = "limit"
  /\ LET c == requests[s].class
         kept == [d \in Classes |-> Kept(windows[d], Window(d))]
         w == Current(kept[c], Window(c))
         g == Current(Kept(burst, Minute), Minute)
         pass == w.count < PerWindow /\ g.count < Burst
         one == IF pass THEN 1 ELSE 0
     IN /\ windows' = [kept EXCEPT ![c] = [w EXCEPT !.count = @ + one]]
        /\ burst' = [g EXCEPT !.count = @ + one]
        /\ admitted' = [admitted EXCEPT ![c][tick] = @ + one]
        /\ IF pass THEN requests' = [requests EXCEPT ![s] = [NoRequest EXCEPT !.pc = "serve"]]
           ELSE Answer(s)
  /\ lastSweep' = IF Due THEN tick ELSE lastSweep
  /\ UNCHANGED <<tick, arrivals, blocked, counted, resetAt, ring, answered>>

\* A request of another address begins a window of the detector, in which all
\* counts are new, or sweeps what has run out.
RecordOther ==
  /\ tick > resetAt /\ resetAt' = tick + Minute /\ counted' = 0
  /\ UNCHANGED <<tick, requests, arrivals, blocked, windows, burst, lastSweep, ring,
                 admitted, answered>>

LimitOther ==
  /\ Due /\ lastSweep' = tick
  /\ windows' = [c \in Classes |-> Kept(windows[c], Window(c))] /\ burst' = Kept(burst, Minute)
  /\ UNCHANGED <<tick, requests, arrivals, blocked, counted, resetAt, ring, admitted, answered>>

-----------------------------------------------------------------------------
(***************************************************************************)
(* Stats                                                                   *)
(***************************************************************************)
\* RecordRequest: a bucket of the ring is used again after Buckets minutes.
Serve(s) ==
  /\ requests[s].pc = "serve" /\ Answer(s)
  /\ LET m == tick \div Minute
         i == m % Buckets
     IN /\ ring' = IF ring.minutes[i] = m THEN [ring EXCEPT !.counts[i] = @ + 1]
                   ELSE [minutes |-> [ring.minutes EXCEPT ![i] = m],
                         counts |-> [ring.counts EXCEPT ![i] = 1]]
        /\ answered' = [answered EXCEPT ![m] = @ + 1]
  /\ UNCHANGED <<tick, arrivals, blocked, counted, resetAt, windows, burst, lastSweep, admitted>>

\* Fault: the bucket that is about to be used again still counts.
CutoffEarly == tick \div Minute - Buckets - 1

Cutoff == tick \div Minute - Buckets

\* Snapshot.
Last24h ==
  Total([i \in 0 .. Buckets - 1 |-> IF ring.minutes[i] > Cutoff THEN ring.counts[i] ELSE 0],
        Buckets)

-----------------------------------------------------------------------------
\* A request has its place in the detector within a tick of its check.
Tick ==
  /\ tick < Lifetime /\ tick' = tick + 1
  /\ \A s \in Slots : requests[s].pc \in {"record", "block"} => requests[s].at = tick
  /\ UNCHANGED <<requests, arrivals, blocked, counted, resetAt, windows, burst, lastSweep, ring,
                 admitted, answered>>

Next ==
  \/ Tick \/ Release \/ RecordOther \/ LimitOther
  \/ \E s \in Slots :
       \/ \E c \in Classes, b \in BOOLEAN : Arrive(s, c, b)
       \/ Record(s) \/ Block(s) \/ Limit(s) \/ Serve(s)

Spec == Init /\ [][Next]_gatewayVars

-----------------------------------------------------------------------------
\* How many requests the limiter has let pass in a span of time.
Admitted(c, from, to) == Within(admitted[c], Lifetime + 1, from, to)

\* How many were recorded in the last minutes that the ring has.
Recent == Within(answered, Lifetime \div Minute + 1, Cutoff + 1, tick \div Minute + 1)

\* An address that has reached the threshold in the window of the detector is
\* blocked for the rest of it, though its requests overtake each other between
\* the three locks and the scheduler releases blocks meanwhile.
FloodersBlocked ==
  counted >= Threshold /\ tick <= resetAt /\ (\A s \in Slots : requests[s].pc # "block")
    => Blocked(blocked, tick)

WindowsKept ==
  \A t \in 0 .. tick :
    /\ \A c \in Classes : Admitted(c, t, t + Window(c)) <= 2 * PerWindow
    /\ Admitted("read", t, t + Minute) + Admitted("write", t, t + Minute) <= 2 * Burst

\* Wherever a span as long as a window begins, no more than two windows of
\* requests pass in it: what a sweep drops was no longer needed.  And what the
\* health page gives as the requests of a day is what was recorded in the last
\* minutes that the ring has, however its buckets are used again.
CountsKept == WindowsKept /\ Last24h = Recent
=============================================================================
