-------------------------- MODULE LifecycleProofs --------------------------
(***************************************************************************)
(* Proofs about Lifecycle: types; a PID file which names a dead process is *)
(* one the process had no chance to remove; and whom the file names when   *)
(* the operator does one thing at a time.                                  *)
(***************************************************************************)
EXTENDS Lifecycle, TLAPS

USE LifecycleAssumption

\* The hooks by number.
LEMMA HookNumbers ==
  /\ Len(Hooks) = 10 /\ DOMAIN Hooks = 1 .. 10
  /\ \A i \in 1 .. 10 : Hooks[i] = "pidFile" <=> i = 10
<1>1. Len(Hooks) = 10 /\ DOMAIN Hooks = 1 .. 10
  BY DEF Hooks
<1>2. /\ Hooks[1] # "pidFile" /\ Hooks[2] # "pidFile" /\ Hooks[3] # "pidFile"
      /\ Hooks[4] # "pidFile" /\ Hooks[5] # "pidFile" /\ Hooks[6] # "pidFile"
      /\ Hooks[7] # "pidFile" /\ Hooks[8] # "pidFile" /\ Hooks[9] # "pidFile"
      /\ Hooks[10] = "pidFile"
  BY DEF Hooks
<1> QED
  BY <1>1, <1>2

\* The listener is closed by the first hook.
LEMMA ListenerFirst == Nth("listener") = 1
<1>1. \A i \in DOMAIN Hooks : Hooks[i] = "listener" <=> i = 1
  <2>1. /\ Hooks[1] = "listener"
        /\ Hooks[2] # "listener" /\ Hooks[3] # "listener" /\ Hooks[4] # "listener"
        /\ Hooks[5] # "listener" /\ Hooks[6] # "listener" /\ Hooks[7] # "listener"
        /\ Hooks[8] # "listener" /\ Hooks[9] # "listener" /\ Hooks[10] # "listener"
    BY DEF Hooks
  <2> QED
    BY <2>1, HookNumbers
<1> QED
  BY <1>1, HookNumbers DEF Nth

KindNames == {"server", "command", "status", "restarted"}
Asking    == {"off", "read", "judge", "reclaim"}
Booted    == {"listen", "serve", "unlink", "exit"}

\* Whatever a process does, it is enough to look at that process.
LEMMA StepOfOne ==
  ASSUME IInv, NEW p \in Procs,
         pidFile' \in {pidFile, p, Empty, NoFile}, open' \subseteq Procs,
         unclean' \subseteq Procs, unclean \ {p} \subseteq unclean', overlap' \in BOOLEAN,
         main' \in [Procs -> Pcs], kind' \in [Procs -> KindNames],
         seen' \in [Procs -> Procs \cup {NoFile, Empty}], hook' \in [Procs -> 0 .. 11],
         work' \in [Procs -> SUBSET {"request", "task"}],
         \A q \in Procs \ {p} :
           main'[q] = main[q] /\ kind'[q] = kind[q] /\ hook'[q] = hook[q],
         kind'[p] = "status" => main'[p] \in Asking,
         hook'[p] > 0 => main'[p] \in Booted,
         pidFile' = p =>
           \/ p \in unclean'
           \/ main'[p] \in {"boot", "listen", "serve", "unlink"} /\ hook'[p] <= 10
  PROVE  IInv'
<1>1. pidFile' \in Procs \cup {NoFile, Empty}
  BY DEF IInv, TypeOK
<1>2. \A q \in Procs : kind'[q] = "status" => main'[q] \in Asking
  BY DEF IInv, TypeOK, Asking
<1>3. TypeOK'
  BY <1>1, <1>2, HookNumbers DEF TypeOK, KindNames, Asking
<1>4. HookAfterBoot'
  BY DEF IInv, HookAfterBoot, Booted
<1>5. FileAccounted'
  <2>1. ASSUME NEW q \in Procs, pidFile' = q
        PROVE  \/ q \in unclean'
               \/ main'[q] \in {"boot", "listen", "serve", "unlink"} /\ hook'[q] <= 10
    <3>1. CASE q = p
      BY <2>1, <3>1
    <3>2. CASE q # p
      <4>1. pidFile = q
        BY <2>1, <3>2
      <4>2. \/ q \in unclean
            \/ main[q] \in {"boot", "listen", "serve", "unlink"} /\ hook[q] <= 10
        BY <4>1, HookNumbers DEF IInv, FileAccounted
      <4> QED
        BY <3>2, <4>2
    <3> QED
      BY <3>1, <3>2
  <2> QED
    BY <2>1, HookNumbers DEF FileAccounted
<1> QED
  BY <1>3, <1>4, <1>5 DEF IInv

LEMMA InitInv == Init => IInv
<1> SUFFICES ASSUME Init PROVE IInv
  OBVIOUS
<1>1. TypeOK
  <2>1. main \in [Procs -> Pcs] /\ \A p \in Procs : main[p] = "off"
    BY DEF Init, Pcs
  <2>2. hook \in [Procs -> 0 .. 11]
    BY DEF Init
  <2>3. work \in [Procs -> SUBSET {"request", "task"}]
    BY DEF Init
  <2>4. kind \in [Procs -> {"server", "command", "status", "restarted"}]
    BY DEF Init
  <2>5. seen \in [Procs -> Procs \cup {NoFile, Empty}]
    BY DEF Init
  <2>6. overlap \in BOOLEAN /\ open \subseteq Procs /\ unclean \subseteq Procs
    BY DEF Init
  <2> QED
    BY <2>1, <2>2, <2>3, <2>4, <2>5, <2>6, HookNumbers DEF Init, TypeOK
<1>2. HookAfterBoot /\ FileAccounted
  BY DEF Init, HookAfterBoot, FileAccounted
<1> QED
  BY <1>1, <1>2 DEF IInv

\* The main goroutine goes to its next statement; the file is as it was, or
\* names nothing, or p if p has booted.
LEMMA GotoStep ==
  ASSUME IInv, NEW p \in Procs, NEW pc \in Pcs, Goto(p, pc), overlap' = overlap,
         pidFile' \in {pidFile, p, Empty, NoFile}, open' \subseteq Procs,
         unclean' \subseteq Procs, unclean \ {p} \subseteq unclean',
         kind[p] = "status" => pc \in Asking,
         hook[p] > 0 => pc \in Booted,
         pidFile' = p =>
           p \in unclean' \/ (pc \in {"boot", "listen", "serve", "unlink"} /\ hook[p] <= 10)
  PROVE  IInv'
<1>1. /\ main' = [main EXCEPT ![p] = pc]
      /\ kind' = kind /\ seen' = seen /\ hook' = hook /\ work' = work
  BY DEF Goto
<1>2. /\ main \in [Procs -> Pcs] /\ kind \in [Procs -> KindNames]
      /\ seen \in [Procs -> Procs \cup {NoFile, Empty}]
      /\ hook \in [Procs -> 0 .. 11] /\ work \in [Procs -> SUBSET {"request", "task"}]
      /\ overlap \in BOOLEAN
  BY HookNumbers DEF IInv, TypeOK, KindNames
<1>3. /\ main' \in [Procs -> Pcs] /\ main'[p] = pc
      /\ \A q \in Procs \ {p} : main'[q] = main[q]
  BY <1>1, <1>2
<1> QED
  BY <1>1, <1>2, <1>3, StepOfOne

\* The process ends: it is unclean, or the file does not name it.
LEMMA EndStep ==
  ASSUME IInv, NEW p \in Procs, End(p), overlap' = overlap,
         kind' = kind, pidFile' \in {pidFile, NoFile}, open' \subseteq Procs,
         unclean' \subseteq Procs, unclean \subseteq unclean',
         pidFile' = p => p \in unclean'
  PROVE  IInv'
<1>1. /\ main' = [main EXCEPT ![p] = "off"] /\ seen' = [seen EXCEPT ![p] = NoFile]
      /\ hook' = [hook EXCEPT ![p] = 0] /\ work' = [work EXCEPT ![p] = {}]
  BY DEF End
<1>2. /\ main \in [Procs -> Pcs] /\ kind \in [Procs -> KindNames]
      /\ seen \in [Procs -> Procs \cup {NoFile, Empty}]
      /\ hook \in [Procs -> 0 .. 11] /\ work \in [Procs -> SUBSET {"request", "task"}]
      /\ overlap \in BOOLEAN
  BY HookNumbers DEF IInv, TypeOK, KindNames
<1>3. /\ main' \in [Procs -> Pcs] /\ seen' \in [Procs -> Procs \cup {NoFile, Empty}]
      /\ hook' \in [Procs -> 0 .. 11] /\ work' \in [Procs -> SUBSET {"request", "task"}]
      /\ main'[p] = "off" /\ hook'[p] = 0
      /\ \A q \in Procs \ {p} : main'[q] = main[q] /\ hook'[q] = hook[q]
  BY <1>1, <1>2 DEF Pcs
<1> QED
  BY <1>1, <1>2, <1>3, StepOfOne DEF Asking

-----------------------------------------------------------------------------
(***************************************************************************)
(* The steps                                                               *)
(***************************************************************************)

\* What is known of the process that moves.
LEMMA Facts ==
  ASSUME IInv, NEW p \in Procs
  PROVE  /\ main[p] \in Pcs /\ hook[p] \in 0 .. 11 /\ pidFile \in Procs \cup {NoFile, Empty}
         /\ open \subseteq Procs /\ unclean \subseteq Procs /\ overlap \in BOOLEAN
         /\ kind[p] = "status" => main[p] \in Asking
         /\ hook[p] > 0 => main[p] \in Booted
         /\ pidFile = p =>
              \/ p \in unclean
              \/ main[p] \in {"boot", "listen", "serve", "unlink"} /\ hook[p] <= 10
         /\ p # NoFile /\ p # Empty
BY HookNumbers DEF IInv, TypeOK, HookAfterBoot, FileAccounted, Asking, Booted

\* Whom nothing was in the way of ends, or goes on to write.
LEMMA FreeStep ==
  ASSUME IInv, NEW p \in Procs, main[p] \in {"read", "reclaim"}, Free(p),
         overlap' = overlap, pidFile' = NoFile, open' \subseteq Procs, unclean' = unclean
  PROVE  IInv'
<1>1. CASE End(p) /\ UNCHANGED kind
  BY <1>1, EndStep, Facts
<1>2. CASE ~(End(p) /\ UNCHANGED kind)
  <2>1. /\ main' = [main EXCEPT ![p] = "write"] /\ seen' = [seen EXCEPT ![p] = NoFile]
        /\ kind' = kind /\ hook' = hook /\ work' = work /\ kind[p] # "status"
    BY <1>2 DEF Free
  <2>2. /\ main' \in [Procs -> Pcs] /\ main'[p] = "write"
        /\ \A q \in Procs \ {p} : main'[q] = main[q]
        /\ seen' \in [Procs -> Procs \cup {NoFile, Empty}]
    BY <2>1 DEF IInv, TypeOK, Pcs
  <2>3. /\ hook' \in [Procs -> 0 .. 11] /\ work' \in [Procs -> SUBSET {"request", "task"}]
        /\ kind' \in [Procs -> KindNames]
    BY <2>1, HookNumbers DEF IInv, TypeOK, KindNames
  <2>4. hook[p] = 0
    BY Facts DEF Booted
  <2> QED
    BY <2>1, <2>2, <2>3, <2>4, Facts, StepOfOne
<1> QED
  BY <1>1, <1>2

LEMMA ReadStep ==
  ASSUME IInv, NEW p \in Procs, ReadPidFile(p), overlap' = overlap
  PROVE  IInv'
<1>1. CASE pidFile = NoFile /\ Free(p)
  BY <1>1, FreeStep, Facts DEF ReadPidFile, file
<1>2. CASE pidFile # NoFile
  <2>1. /\ main' = [main EXCEPT ![p] = "judge"] /\ seen' = [seen EXCEPT ![p] = pidFile]
        /\ kind' = kind /\ hook' = hook /\ work' = work
        /\ pidFile' = pidFile /\ open' = open /\ unclean' = unclean /\ main[p] = "read"
    BY <1>2 DEF ReadPidFile, file
  <2>2. /\ main' \in [Procs -> Pcs] /\ main'[p] = "judge"
        /\ \A q \in Procs \ {p} : main'[q] = main[q]
        /\ seen' \in [Procs -> Procs \cup {NoFile, Empty}]
    BY <2>1, Facts DEF IInv, TypeOK, Pcs
  <2>3. /\ hook' \in [Procs -> 0 .. 11] /\ work' \in [Procs -> SUBSET {"request", "task"}]
        /\ kind' \in [Procs -> KindNames]
    BY <2>1, HookNumbers DEF IInv, TypeOK, KindNames
  <2>4. hook[p] = 0
    BY <2>1, Facts DEF Booted
  <2> QED
    BY <2>1, <2>2, <2>3, <2>4, Facts, StepOfOne DEF Asking
<1> QED
  BY <1>1, <1>2 DEF ReadPidFile

\* The steps of the main goroutine (run in main.go, and pidfile.go).
LEMMA MainStep ==
  ASSUME IInv, NEW p \in Procs, Main(p)
  PROVE  IInv'
<1> USE Facts DEF Asking, Booted, file
<1>1. CASE ReadPidFile(p)
  BY <1>1, ReadStep DEF Main
<1>2. CASE JudgePidFile(p)
  <2>1. CASE Refused(p)
    BY <1>2, <2>1, EndStep DEF Main, JudgePidFile, Refused
  <2>2. CASE Goto(p, "reclaim")
    BY <1>2, <2>2, GotoStep DEF Main, JudgePidFile, Pcs
  <2> QED
    BY <1>2, <2>1, <2>2 DEF JudgePidFile
<1>3. CASE ReclaimPidFile(p)
  BY <1>3, FreeStep DEF Main, ReclaimPidFile, Unlinked
<1>4. CASE TruncatePidFile(p)
  BY <1>4, GotoStep DEF Main, TruncatePidFile, Pcs
<1>5. CASE WritePidFile(p)
  BY <1>5, GotoStep DEF Main, WritePidFile, Pcs
<1>6. CASE Boot(p)
  BY <1>6, GotoStep DEF Main, Boot, Pcs
<1>7. CASE Listen(p)
  <2>1. PICK pc \in {"unlink", "serve"} : Goto(p, pc)
    BY <1>7 DEF Listen
  <2> QED
    BY <1>7, <2>1, GotoStep DEF Main, Listen, Pcs
<1>8. CASE ServeReturns(p)
  BY <1>8, GotoStep DEF Main, ServeReturns, Pcs
<1>9. CASE Unlink(p)
  BY <1>9, GotoStep DEF Main, Unlink, Unlinked, Pcs
<1> QED
  BY <1>1, <1>2, <1>3, <1>4, <1>5, <1>6, <1>7, <1>8, <1>9 DEF Main

\* A signal, and the hooks that follow it (signal.go).
LEMMA HookStep ==
  ASSUME IInv, NEW p \in Procs, Signal(p) \/ ShutDown(p)
  PROVE  IInv'
<1>1. main' = main /\ kind' = kind /\ seen' = seen /\ work' = work /\ unclean' = unclean
  BY DEF Signal, ShutDown, RunHook, file
<1>2. overlap' \in BOOLEAN
  <2>1. CASE Signal(p)
    BY <2>1 DEF Signal
  <2>2. CASE ShutDown(p)
    BY <2>2, Facts DEF ShutDown
  <2> QED
    BY <2>1, <2>2
<1>3. main[p] \in Booted
  <2>1. CASE Signal(p)
    BY <2>1 DEF Signal, Booted
  <2>2. CASE ShutDown(p)
    <3>1. hook[p] > 0
      BY <2>2, HookNumbers, Facts DEF ShutDown, RunHook
    <3> QED
      BY <3>1, Facts
  <2> QED
    BY <2>1, <2>2
<1>4. PICK n \in 1 .. 11 :
        /\ hook' = [hook EXCEPT ![p] = n]
        /\ \/ pidFile' = pidFile /\ open' = open /\ n # 11
           \/ pidFile' = NoFile /\ open' = {}
  <2>1. CASE Signal(p)
    <3>1. hook' = [hook EXCEPT ![p] = 1] /\ pidFile' = pidFile /\ open' = open
      BY <2>1 DEF Signal, file
    <3> WITNESS 1 \in 1 .. 11
    <3> QED
      BY <3>1
  <2>2. CASE ShutDown(p)
    <3> DEFINE k == hook[p] + 1
    <3>1. hook[p] \in 1 .. 10 /\ k \in 1 .. 11 /\ hook' = [hook EXCEPT ![p] = k]
      BY <2>2, HookNumbers DEF ShutDown, RunHook, NextHook
    <3>2. CASE Hooks[hook[p]] = "pidFile"
      <4>1. pidFile' = NoFile /\ open' = {}
        BY <2>2, <3>2 DEF ShutDown, RunHook, Unlinked
      <4> HIDE DEF k
      <4> k \in 1 .. 11
        BY <3>1
      <4> WITNESS k \in 1 .. 11
      <4> QED
        BY <3>1, <4>1
    <3>3. CASE Hooks[hook[p]] # "pidFile"
      <4>1. k # 11
        BY <3>1, <3>3, HookNumbers
      <4>2. pidFile' = pidFile /\ open' = open
        BY <2>2, <3>3 DEF ShutDown, RunHook
      <4> HIDE DEF k
      <4> k \in 1 .. 11
        BY <3>1
      <4> WITNESS k \in 1 .. 11
      <4> QED
        BY <3>1, <4>1, <4>2
    <3> QED
      BY <3>2, <3>3
  <2> QED
    BY <2>1, <2>2
<1>5. /\ hook' \in [Procs -> 0 .. 11] /\ hook'[p] = n
      /\ \A q \in Procs \ {p} : hook'[q] = hook[q]
  BY <1>4, HookNumbers DEF IInv, TypeOK
<1>6. /\ main' \in [Procs -> Pcs] /\ kind' \in [Procs -> KindNames]
      /\ seen' \in [Procs -> Procs \cup {NoFile, Empty}]
      /\ work' \in [Procs -> SUBSET {"request", "task"}]
  BY <1>1 DEF IInv, TypeOK, KindNames
<1> QED
  BY <1>1, <1>2, <1>3, <1>4, <1>5, <1>6, Facts, StepOfOne

\* A process starts: if the file names it, its last one was unclean.
LEMMA InvokeStep ==
  ASSUME IInv, NEW p \in Procs, Invoke(p)
  PROVE  IInv'
<1>1. PICK k \in Kinds :
        /\ kind' = [kind EXCEPT ![p] = k] /\ main' = [main EXCEPT ![p] = "read"]
        /\ seen' = seen /\ hook' = hook /\ work' = work
        /\ pidFile' = pidFile /\ open' = open /\ unclean' = unclean /\ main[p] = "off"
        /\ overlap' \in BOOLEAN
  BY Facts DEF Invoke, file, Alive
<1>2. /\ main' \in [Procs -> Pcs] /\ main'[p] = "read" /\ kind' \in [Procs -> KindNames]
      /\ \A q \in Procs \ {p} : main'[q] = main[q] /\ kind'[q] = kind[q]
  BY <1>1 DEF IInv, TypeOK, Pcs, KindNames
<1>3. /\ hook' \in [Procs -> 0 .. 11] /\ work' \in [Procs -> SUBSET {"request", "task"}]
      /\ seen' \in [Procs -> Procs \cup {NoFile, Empty}]
  BY <1>1, HookNumbers DEF IInv, TypeOK
<1>4. hook[p] = 0 /\ hook'[p] = 0
  BY <1>1, Facts DEF Booted
<1> QED
  BY <1>1, <1>2, <1>3, <1>4, Facts, StepOfOne DEF Asking

\* Work, a kill, and the image that replaces itself (update_unix.go).
LEMMA EnvironmentStep ==
  ASSUME IInv, NEW p \in Procs, Environment(p)
  PROVE  IInv'
<1>1. CASE StartWork(p) \/ FinishWork(p)
  <2>1. /\ main' = main /\ kind' = kind /\ seen' = seen /\ hook' = hook
        /\ pidFile' = pidFile /\ open' = open /\ unclean' = unclean /\ overlap' = overlap
    BY <1>1 DEF StartWork, FinishWork, Environment, file
  <2>2. work' \in [Procs -> SUBSET {"request", "task"}]
    BY SMTT(60), <1>1 DEF StartWork, FinishWork, IInv, TypeOK
  <2>3. /\ main' \in [Procs -> Pcs] /\ kind' \in [Procs -> KindNames]
        /\ seen' \in [Procs -> Procs \cup {NoFile, Empty}] /\ hook' \in [Procs -> 0 .. 11]
    BY <2>1, HookNumbers DEF IInv, TypeOK, KindNames
  <2> QED
    BY <2>1, <2>2, <2>3, Facts, StepOfOne
<1>2. CASE Kill(p)
  BY <1>2, Facts, EndStep DEF Kill, Environment
<1>3. CASE Reexec(p)
  <2>1. /\ main' = [main EXCEPT ![p] = "read"] /\ kind' = [kind EXCEPT ![p] = "restarted"]
        /\ hook' = [hook EXCEPT ![p] = 0] /\ work' = [work EXCEPT ![p] = {}]
        /\ seen' = seen /\ unclean' = unclean \cup {p}
        /\ pidFile' = pidFile /\ open' = open /\ overlap' = overlap
    BY <1>3 DEF Reexec, Environment
  <2>2. /\ main' \in [Procs -> Pcs] /\ kind' \in [Procs -> KindNames]
        /\ hook' \in [Procs -> 0 .. 11] /\ work' \in [Procs -> SUBSET {"request", "task"}]
        /\ seen' \in [Procs -> Procs \cup {NoFile, Empty}]
    BY <2>1, HookNumbers DEF IInv, TypeOK, Pcs, KindNames
  <2>3. /\ main'[p] = "read" /\ hook'[p] = 0
        /\ \A q \in Procs \ {p} :
             main'[q] = main[q] /\ kind'[q] = kind[q] /\ hook'[q] = hook[q]
    BY <2>1, HookNumbers DEF IInv, TypeOK
  <2> QED
    BY <2>1, <2>2, <2>3, Facts, StepOfOne DEF Asking
<1> QED
  BY <1>1, <1>2, <1>3 DEF Environment

LEMMA NextInv == IInv /\ [Next]_vars => IInv'
<1> SUFFICES ASSUME IInv, [Next]_vars PROVE IInv'
  OBVIOUS
<1>1. CASE UNCHANGED vars
  BY <1>1 DEF vars, IInv, TypeOK, HookAfterBoot, FileAccounted
<1>2. ASSUME NEW p \in Procs, Leave(p)
      PROVE  IInv'
  BY <1>2, Facts, HookNumbers, EndStep DEF Leave, Exit, file
<1> QED
  BY <1>1, <1>2, InvokeStep, HookStep, MainStep, EnvironmentStep DEF Next

-----------------------------------------------------------------------------
(***************************************************************************)
(* One thing at a time                                                     *)
(*                                                                         *)
(* As long as the operator starts and signals processes only while the     *)
(* others are at rest, at most two run: the one the file names, and one    *)
(* that finds the file in its way.  PidFileNamesServer needs that much to  *)
(* be inductive.                                                           *)
(***************************************************************************)

\* A process that will find in its way whom the file names.
AtDoor(p) == main[p] = "read" \/ (main[p] = "judge" /\ seen[p] = pidFile)

\* q comes to the door while the file names p, which serves -- or has just
\* replaced its image and comes to the door itself.
Behind(q, p) ==
  /\ pidFile = p /\ hook[p] = 0 /\ hook[q] = 0
  /\ AtDoor(q)
  /\ main[p] = "serve" \/ AtDoor(p)

WriterOpen == ~overlap => \A p \in Procs : main[p] = "content" => p \in open
AtMostTwo ==
  ~overlap =>
    \A p, q \in Procs : p # q /\ Alive(p) /\ Alive(q) => Behind(p, q) \/ Behind(q, p)

\* Work runs in a process that has booted.
WorkBooted == \A p \in Procs : work[p] # {} => main[p] \in Booted

OrderInv == IInv /\ WorkBooted /\ WriterOpen /\ AtMostTwo /\ PidFileNamesServer

\* The part that the file and the goroutines decide.
Order == WriterOpen /\ AtMostTwo /\ PidFileNamesServer

LEMMA InitOrder == Init => OrderInv
<1> SUFFICES ASSUME Init PROVE WorkBooted /\ Order
  BY InitInv DEF OrderInv, Order
<1> QED
  BY DEF Init, WorkBooted, Order, WriterOpen, AtMostTwo, PidFileNamesServer, Alive, Owns

\* Work begins in a process that has booted, and ends before it leaves that.
LEMMA WorkStep ==
  ASSUME IInv, WorkBooted, Next
  PROVE  WorkBooted'
<1> PICK p \in Procs : \/ Invoke(p) \/ Signal(p)
                       \/ Main(p) \/ ShutDown(p) \/ Leave(p) \/ Environment(p)
  BY DEF Next
<1> USE DEF IInv, TypeOK
<1>1. CASE Invoke(p)
  BY <1>1 DEF Invoke, WorkBooted, Booted, Alive
<1>2. CASE Signal(p) \/ ShutDown(p)
  BY <1>2 DEF Signal, ShutDown, RunHook, WorkBooted
<1>3. CASE Main(p)
  <2>1. CASE End(p) \/ (main' = [main EXCEPT ![p] = "write"] /\ work' = work
                        /\ main[p] \in {"read", "reclaim"})
    BY <2>1 DEF End, WorkBooted, Booted
  <2>2. ASSUME NEW pc \in Pcs, Goto(p, pc), main[p] \in Booted => pc \in Booted
        PROVE  WorkBooted'
    BY <2>2 DEF Goto, WorkBooted
  <2>3. CASE main' = [main EXCEPT ![p] = "judge"] /\ work' = work /\ main[p] = "read"
    BY <2>3 DEF WorkBooted, Booted
  <2>4. CASE ReadPidFile(p) \/ ReclaimPidFile(p)
    BY <2>1, <2>3, <2>4 DEF ReadPidFile, ReclaimPidFile, Free
  <2>5. CASE JudgePidFile(p)
    BY <2>1, <2>2, <2>5 DEF JudgePidFile, Refused, Pcs, Booted
  <2>6. CASE TruncatePidFile(p) \/ WritePidFile(p) \/ Boot(p)
    BY <2>2, <2>6 DEF TruncatePidFile, WritePidFile, Boot, Pcs, Booted
  <2>7. CASE Listen(p) \/ ServeReturns(p) \/ Unlink(p)
    <3> PICK pc \in {"serve", "unlink", "exit"} : Goto(p, pc)
      BY <2>7 DEF Listen, ServeReturns, Unlink
    <3> QED
      BY <2>2 DEF Pcs, Booted
  <2> QED
    BY <1>3, <2>4, <2>5, <2>6, <2>7 DEF Main
<1>4. CASE Leave(p) \/ Kill(p)
  BY <1>4 DEF Leave, Exit, Kill, End, WorkBooted
<1>5. CASE StartWork(p)
  <2>1. /\ main' = main /\ \A q \in Procs \ {p} : work'[q] = work[q]
        /\ main[p] \in {"listen", "serve"} \/ hook[p] > 0
    BY <1>5 DEF StartWork
  <2>2. main[p] \in Booted
    BY <2>1, Facts DEF Booted
  <2> QED
    BY <2>1, <2>2 DEF WorkBooted
<1>6. CASE FinishWork(p)
  <2>1. /\ main' = main /\ \A q \in Procs \ {p} : work'[q] = work[q]
        /\ work[p] # {}
    BY <1>6 DEF FinishWork
  <2> QED
    BY <2>1 DEF WorkBooted
<1>7. CASE Reexec(p)
  BY <1>7 DEF Reexec, WorkBooted
<1> QED
  BY <1>1, <1>2, <1>3, <1>4, <1>5, <1>6, <1>7 DEF Environment

-----------------------------------------------------------------------------
\* A process beside which another one runs is at the door or serves.
LEMMA Beside ==
  ASSUME Order, ~overlap, NEW p \in Procs, NEW q \in Procs, p # q, Alive(p), Alive(q)
  PROVE  /\ hook[p] = 0 /\ pidFile \in {p, q}
         /\ main[p] = "serve" \/ AtDoor(p)
         /\ main[p] = "serve" => AtDoor(q)
BY DEF Order, AtMostTwo, Behind, AtDoor

\* The file is as it was, and so is every process but one that ends.
LEMMA EndOrder ==
  ASSUME Order, ~overlap, IInv, NEW p \in Procs, End(p), pidFile' = pidFile,
         open \ {p} \subseteq open'
  PROVE  Order'
<1>1. /\ main'[p] = "off"
      /\ \A q \in Procs \ {p} :
           main'[q] = main[q] /\ seen'[q] = seen[q] /\ hook'[q] = hook[q]
  BY DEF End, IInv, TypeOK
<1> QED
  BY <1>1 DEF Order, WriterOpen, AtMostTwo, PidFileNamesServer, Behind, AtDoor, Alive, Owns

\* The file is as it was, and a process comes to the door.
LEMMA DoorOrder ==
  ASSUME Order, ~overlap, NEW p \in Procs, Alive(p), pidFile' = pidFile, open' = open,
         \A q \in Procs \ {p} :
           main'[q] = main[q] /\ seen'[q] = seen[q] /\ hook'[q] = hook[q],
         main'[p] = "read" \/ (main'[p] = "judge" /\ seen'[p] = pidFile),
         hook'[p] = 0
  PROVE  Order'
<1>1. AtMostTwo'
  BY DEF Order, AtMostTwo, Behind, AtDoor, Alive
<1> QED
  BY <1>1 DEF Order, WriterOpen, PidFileNamesServer, Owns

\* The only process there is: it owns the file, or has not come to serve.
LEMMA AloneOrder ==
  ASSUME NEW p \in Procs, \A q \in Procs \ {p} : main'[q] = "off",
         main'[p] = "content" => p \in open',
         main'[p] \in {"boot", "listen", "serve"} /\ hook'[p] = 0 => pidFile' = p
  PROVE  Order'
BY DEF Order, WriterOpen, AtMostTwo, PidFileNamesServer, Alive, Owns

\* The only process there is goes to its next statement.
LEMMA AloneGoto ==
  ASSUME IInv, NEW p \in Procs, NEW pc \in Pcs, Goto(p, pc),
         \A q \in Procs \ {p} : ~Alive(q),
         pc = "content" => p \in open',
         pc \in {"boot", "listen", "serve"} /\ hook[p] = 0 => pidFile' = p
  PROVE  Order'
<1>1. main'[p] = pc /\ hook'[p] = hook[p] /\ \A q \in Procs \ {p} : main'[q] = "off"
  BY DEF Goto, Alive, IInv, TypeOK
<1> QED
  BY <1>1, AloneOrder

-----------------------------------------------------------------------------
\* The main goroutine: whoever is past the door is alone.
LEMMA MainOrder ==
  ASSUME IInv, Order, ~overlap, NEW p \in Procs, Main(p)
  PROVE  Order'
<1>1. ASSUME NEW q \in Procs \ {p}, Alive(q), Alive(p)
      PROVE  /\ hook[p] = 0 /\ pidFile \in {p, q}
             /\ main[p] = "serve" \/ AtDoor(p)
             /\ pidFile \in Procs /\ Alive(pidFile)
  BY <1>1, Beside
<1>2. Alive(p)
  BY DEF Main, Alive, ReadPidFile, JudgePidFile, ReclaimPidFile, TruncatePidFile,
         WritePidFile, Boot, Listen, ServeReturns, Unlink
<1> DEFINE Alone == \A q \in Procs \ {p} : ~Alive(q)
<1>3. ASSUME main[p] \notin {"read", "judge", "serve"} \/ hook[p] # 0
      PROVE  Alone
  BY <1>1, <1>2, <1>3 DEF AtDoor
<1>4. Owns(p) /\ hook[p] = 0 => pidFile = p
  BY DEF Order, PidFileNamesServer
<1>5. main[p] = "content" => p \in open
  BY DEF Order, WriterOpen
<1>6. ASSUME Alone, main' = [main EXCEPT ![p] = "write"]
      PROVE  Order'
  <2>1. main'[p] = "write" /\ \A q \in Procs \ {p} : main'[q] = "off"
    BY <1>6 DEF Alive, IInv, TypeOK
  <2> QED
    BY <2>1, AloneOrder
<1>7. CASE ReadPidFile(p)
  <2>1. CASE pidFile = NoFile /\ Free(p)
    <3>1. Alone
      BY <1>1, <1>2, <2>1, LifecycleAssumption
    <3>2. CASE End(p) /\ UNCHANGED kind
      BY <1>7, <3>2, EndOrder DEF ReadPidFile, file
    <3> QED
      BY <1>6, <2>1, <3>1, <3>2 DEF Free
  <2>2. CASE pidFile # NoFile
    <3>1. /\ main'[p] = "judge" /\ seen'[p] = pidFile /\ hook' = hook
          /\ pidFile' = pidFile /\ open' = open /\ main[p] = "read"
          /\ \A q \in Procs \ {p} : main'[q] = main[q] /\ seen'[q] = seen[q]
      BY <1>7, <2>2 DEF ReadPidFile, file, IInv, TypeOK
    <3>2. hook[p] = 0
      BY <3>1, Facts DEF Booted
    <3> QED
      BY <1>2, <3>1, <3>2, DoorOrder
  <2> QED
    BY <1>7, <2>1, <2>2 DEF ReadPidFile
<1>8. CASE JudgePidFile(p)
  <2>1. CASE seen[p] \in Procs /\ Alive(seen[p])
    BY <1>8, <2>1, EndOrder DEF JudgePidFile, Refused, file
  <2>2. CASE ~(seen[p] \in Procs /\ Alive(seen[p]))
    <3>1. Alone
      BY <1>1, <1>2, <1>8, <2>2 DEF JudgePidFile, AtDoor
    <3> QED
      BY <1>8, <2>2, <3>1, AloneGoto DEF JudgePidFile, Pcs
  <2> QED
    BY <2>1, <2>2
<1>9. CASE ReclaimPidFile(p)
  <2>1. Alone
    BY <1>3, <1>9 DEF ReclaimPidFile
  <2>2. CASE End(p) /\ UNCHANGED kind
    <3>1. main'[p] = "off" /\ \A q \in Procs \ {p} : main'[q] = "off"
      BY <2>1, <2>2 DEF End, Alive, IInv, TypeOK
    <3> QED
      BY <3>1, AloneOrder
  <2> QED
    BY <1>6, <1>9, <2>1, <2>2 DEF ReclaimPidFile, Free
<1>10. CASE TruncatePidFile(p) \/ WritePidFile(p)
  <2>1. Alone
    BY <1>3, <1>10 DEF TruncatePidFile, WritePidFile
  <2> QED
    BY <1>5, <1>10, <2>1, AloneGoto DEF TruncatePidFile, WritePidFile, Pcs
<1>11. CASE Boot(p) \/ Listen(p)
  <2>1. Alone /\ pidFile' = pidFile /\ open' = open
    BY <1>3, <1>11 DEF Boot, Listen, file
  <2>2. PICK pc \in {"listen", "serve", "unlink"} : Goto(p, pc)
    BY <1>11 DEF Boot, Listen
  <2>3. hook[p] = 0 => pidFile = p
    BY <1>4, <1>11 DEF Boot, Listen, Owns
  <2> QED
    BY <2>1, <2>2, <2>3, AloneGoto DEF Pcs
<1>12. CASE ServeReturns(p) \/ Unlink(p)
  <2>1. main[p] = "unlink" \/ hook[p] # 0
    BY <1>12, ListenerFirst DEF ServeReturns, Unlink
  <2>2. Alone
    BY <1>3, <2>1
  <2>3. PICK pc \in {"unlink", "exit"} : Goto(p, pc)
    BY <1>12 DEF ServeReturns, Unlink
  <2> QED
    BY <2>2, <2>3, AloneGoto DEF Pcs
<1> QED
  BY <1>7, <1>8, <1>9, <1>10, <1>11, <1>12 DEF Main

\* Whoever is signalled is alone, and so is whoever runs its hooks.
LEMMA HookOrder ==
  ASSUME IInv, Order, ~overlap', NEW p \in Procs, Signal(p) \/ ShutDown(p)
  PROVE  Order'
<1>1. ~overlap /\ main' = main
  <2>1. CASE Signal(p)
    BY <2>1 DEF Signal
  <2>2. CASE ShutDown(p)
    BY <2>2 DEF ShutDown, RunHook
  <2> QED
    BY <2>1, <2>2
<1>2. Alive(p)
  BY HookNumbers, Facts DEF Signal, ShutDown, RunHook, Alive, Booted
<1>3. \A q \in Procs \ {p} : ~Alive(q)
  <2> SUFFICES ASSUME NEW q \in Procs \ {p}, Alive(q) PROVE FALSE
    OBVIOUS
  <2>1. CASE Signal(p)
    <3>1. main[q] = "serve" /\ main[p] \in {"listen", "serve"}
      BY <2>1 DEF Signal, Steady, Alive
    <3> QED
      BY <1>1, <1>2, <3>1, Beside DEF AtDoor
  <2>2. CASE ShutDown(p)
    BY <1>1, <1>2, <2>2, Beside, HookNumbers DEF ShutDown, RunHook
  <2> QED
    BY <2>1, <2>2
<1>4. hook'[p] # 0
  BY HookNumbers DEF Signal, ShutDown, RunHook, NextHook, IInv, TypeOK
<1>5. main[p] # "content"
  BY HookNumbers, Facts DEF Signal, ShutDown, RunHook, Booted
<1> QED
  BY <1>1, <1>3, <1>4, <1>5, AloneOrder DEF Alive

\* A process is started while the others are at rest: one of them, at most,
\* serves, and the file names it.
LEMMA InvokeOrder ==
  ASSUME IInv, Order, ~overlap', NEW p \in Procs, Invoke(p)
  PROVE  Order'
<1>1. /\ main'[p] = "read" /\ hook' = hook /\ pidFile' = pidFile /\ open' = open
      /\ seen' = seen /\ ~overlap
      /\ \A q \in Procs \ {p} : main'[q] = main[q]
  BY DEF Invoke, file, IInv, TypeOK
<1>2. hook[p] = 0
  BY Facts DEF Invoke, Alive, Booted
<1>3. ASSUME NEW q \in Procs \ {p}, Alive(q)
      PROVE  main[q] = "serve" /\ hook[q] = 0 /\ pidFile = q
  BY <1>1, <1>3 DEF Invoke, Steady, Alive, Order, PidFileNamesServer, Owns
<1>4. WriterOpen' /\ PidFileNamesServer'
  BY <1>1, <1>3 DEF WriterOpen, PidFileNamesServer, Owns, Alive
<1>5. AtMostTwo'
  <2> SUFFICES ASSUME NEW q \in Procs, NEW r \in Procs, q # r, Alive(q)', Alive(r)'
               PROVE  (Behind(q, r) \/ Behind(r, q))'
    BY DEF AtMostTwo
  <2>1. q = p \/ r = p
    BY <1>1, <1>3 DEF Alive
  <2> QED
    BY <1>1, <1>2, <1>3, <2>1 DEF Behind, AtDoor, Alive
<1> QED
  BY <1>4, <1>5 DEF Order

\* What the process does not decide: work changes nothing here, a killed one
\* is gone, and a new image comes to the door that its predecessor holds.
LEMMA EnvironmentOrder ==
  ASSUME IInv, WorkBooted, Order, ~overlap, NEW p \in Procs, Environment(p)
  PROVE  Order'
<1>1. CASE StartWork(p) \/ FinishWork(p)
  <2>1. /\ main' = main /\ seen' = seen /\ hook' = hook /\ pidFile' = pidFile
        /\ open' = open /\ overlap' = overlap
    BY <1>1 DEF StartWork, FinishWork, Environment, file
  <2> QED
    BY <2>1 DEF Order, WriterOpen, AtMostTwo, PidFileNamesServer, Behind, AtDoor,
                Alive, Owns
<1>2. CASE Kill(p)
  BY <1>2, EndOrder DEF Kill
<1>3. CASE Reexec(p)
  <2>1. /\ main'[p] = "read" /\ hook'[p] = 0 /\ seen' = seen /\ pidFile' = pidFile
        /\ open' = open
        /\ \A q \in Procs \ {p} : main'[q] = main[q] /\ hook'[q] = hook[q]
    BY <1>3 DEF Reexec, IInv, TypeOK
  <2>2. Alive(p)
    BY <1>3 DEF Reexec, WorkBooted, Booted, Alive
  <2> QED
    BY <2>1, <2>2, DoorOrder
<1> QED
  BY <1>1, <1>2, <1>3 DEF Environment

LEMMA NextOrder == OrderInv /\ [Next]_vars => OrderInv'
<1> SUFFICES ASSUME OrderInv, [Next]_vars PROVE OrderInv'
  OBVIOUS
<1>1. CASE UNCHANGED vars
  <2>1. IInv'
    BY <1>1, NextInv DEF OrderInv
  <2>2. WorkBooted' /\ Order'
    BY <1>1 DEF vars, OrderInv, Order, WorkBooted, WriterOpen, AtMostTwo,
                PidFileNamesServer, Behind, AtDoor, Alive, Owns
  <2> QED
    BY <2>1, <2>2 DEF OrderInv, Order
<1>2. CASE Next
  <2>1. IInv' /\ WorkBooted'
    BY <1>2, NextInv, WorkStep DEF OrderInv
  <2>2. CASE overlap'
    BY <2>1, <2>2 DEF OrderInv, WriterOpen, AtMostTwo, PidFileNamesServer
  <2>3. CASE ~overlap'
    <3> PICK p \in Procs : \/ Invoke(p) \/ Signal(p)
                           \/ Main(p) \/ ShutDown(p) \/ Leave(p) \/ Environment(p)
      BY <1>2 DEF Next
    <3>1. IInv /\ WorkBooted /\ Order
      BY DEF OrderInv, Order
    <3>2. ~overlap
      BY <2>3 DEF Invoke, Signal, Main, ShutDown, Leave, Environment
    <3>3. Leave(p) => Order'
      BY <3>1, <3>2, EndOrder DEF Leave, Exit, file
    <3>4. Order'
      BY <2>3, <3>1, <3>2, <3>3, MainOrder, HookOrder, InvokeOrder, EnvironmentOrder
    <3> QED
      BY <2>1, <3>4 DEF OrderInv, Order
  <2> QED
    BY <2>2, <2>3
<1> QED
  BY <1>1, <1>2

-----------------------------------------------------------------------------
(***************************************************************************)
(* Theorems                                                                *)
(***************************************************************************)

\* The inductive invariant holds for any number of processes of any kind.
THEOREM LifecycleInvariant == Safety => []IInv
BY InitInv, NextInv, PTL DEF Safety

\* Types; a command that only asks never writes the PID file.
THEOREM LifecycleTyped == Safety => []TypeOK
BY LifecycleInvariant, PTL DEF IInv

\* However the goroutines of ending processes and other processes interleave,
\* a PID file names a living process, or one that was killed or replaced its
\* image before it could remove the file.
THEOREM FileCleanedUp == Safety => []CleanExitRemovesPidFile
<1>1. IInv => CleanExitRemovesPidFile
  BY DEF IInv, FileAccounted, CleanExitRemovesPidFile, Alive
<1> QED
  BY <1>1, LifecycleInvariant, PTL

\* An operator who does one thing at a time -- starts or signals a process
\* only while the others are at rest -- has a PID file that names the server
\* that runs, and no second server: nothing in the code orders the check, the
\* removal and the write of the file by different processes.
THEOREM ServerNamed == Safety => []PidFileNamesServer
<1>1. OrderInv => PidFileNamesServer
  BY DEF OrderInv
<1> QED
  BY <1>1, InitOrder, NextOrder, PTL DEF Safety
=============================================================================
