---------------------------- MODULE BackupProofs ----------------------------
(***************************************************************************)
(* Proofs about Retention and Backup: a sweep never deletes an incremental *)
(* nor, without a size cap, what no other archive outlives; sweeps that    *)
(* overlap leave a good archive, and one settles the directory; a bad      *)
(* archive has somebody to judge it.                                       *)
(***************************************************************************)
EXTENDS Backup, FiniteSetTheorems, WellFoundedInduction, TLAPS

USE RetentionAssumption, BackupAssumption

-----------------------------------------------------------------------------
(***************************************************************************)
(* Plan                                                                    *)
(***************************************************************************)

\* Plan (retention.go) deletes no incremental archive, under any policy.
THEOREM SweepSparesIncrementals ==
  ASSUME NEW F, NEW p
  PROVE  Removed(F, p) \subseteq Fulls(F)
<1>1. F \ Fulls(F) \subseteq Counted(F, p)
  BY DEF Counted
<1>2. Counted(F, p) \subseteq F
  BY DEF Counted, Yearly, Monthly, Weekly, Daily, Filled, Fulls
<1>3. OverCap(Counted(F, p), p.cap) \subseteq Fulls(Counted(F, p))
  BY DEF OverCap
<1>4. Fulls(Counted(F, p)) \subseteq Fulls(F)
  BY <1>2 DEF Fulls
<1> QED
  BY <1>1, <1>3, <1>4 DEF Removed

\* Without a size cap Plan deletes an archive only if it keeps or deletes a
\* younger one: never the youngest, whatever tiers the policy fills, unless
\* max_backups is below 1.
THEOREM SweepSparesYoungest ==
  ASSUME NEW F, NEW p \in PolicySet, p.cap = 0, NEW f \in Removed(F, p)
  PROVE  p.daily = 0 \/ \E g \in Fulls(F) : Older(f, g)
<1> SUFFICES ASSUME p.daily # 0 PROVE \E g \in Fulls(F) : Older(f, g)
  OBVIOUS
<1> DEFINE C == Fulls(F) \ (Yearly(F, p) \cup Monthly(F, p) \cup Weekly(F, p))
           Younger == {g \in C : Older(f, g)}
<1>1. f \in F /\ f \notin Counted(F, p)
  <2>1. OverCap(Counted(F, p), p.cap) = {}
    BY DEF OverCap
  <2> QED
    BY <2>1 DEF Removed
<1>2. f \in C /\ f \notin Filled(p.daily, C)
  BY <1>1 DEF Counted, Daily
<1>3. ~(Cardinality(Younger) < p.daily)
  BY <1>2 DEF Filled
<1>4. Younger # {}
  <2> SUFFICES ASSUME Younger = {} PROVE FALSE
    OBVIOUS
  <2>1. Cardinality(Younger) = 0
    BY FS_EmptySet
  <2>2. p.daily \in Nat
    BY DEF PolicySet
  <2> QED
    BY <1>3, <2>1, <2>2
<1> QED
  BY <1>4

\* What Validate makes of a policy is one with at least one slot.
LEMMA ValidatedPolicy ==
  ASSUME NEW p \in PolicySet
  PROVE  /\ Validated(p) \in PolicySet /\ Validated(p).daily # 0
         /\ Validated(p).cap = p.cap
BY DEF Validated, PolicySet

\* Nothing saves the archive that the command has just verified: with no slot
\* in any tier Plan deletes every full and manual archive there is.
THEOREM UncheckedSweepTakesAll ==
  ASSUME NEW F, IsFiniteSet(F), NEW p \in PolicySet,
         p.daily = 0, p.weekly = 0, p.monthly = 0, p.yearly = 0
  PROVE  Removed(F, p) = Fulls(F)
<1>1. ASSUME NEW A, IsFiniteSet(A) PROVE Filled(0, A) = {}
  <2> SUFFICES ASSUME NEW f \in Filled(0, A) PROVE FALSE
    OBVIOUS
  <2>1. Cardinality({g \in A : Older(f, g)}) < 0
    BY DEF Filled
  <2>2. Cardinality({g \in A : Older(f, g)}) \in Nat
    BY <1>1, FS_Subset, FS_CardinalityType
  <2> QED
    BY <2>1, <2>2
<1>2. Yearly(F, p) = {} /\ Monthly(F, p) = {} /\ Weekly(F, p) = {} /\ Daily(F, p) = {}
  <2>1. \A A \in SUBSET F : Filled(0, A) = {}
    BY <1>1, FS_Subset
  <2> QED
    <3> DEFINE Years == {f \in Fulls(F) : f.date \in NewYears}
               Months == {f \in Fulls(F) \ Yearly(F, p) : f.date \in MonthStarts}
               Weeks == {f \in Fulls(F) \ (Yearly(F, p) \cup Monthly(F, p)) :
                           f.date \in Sundays}
               Days == Fulls(F) \ (Yearly(F, p) \cup Monthly(F, p) \cup Weekly(F, p))
    <3>1. /\ Years \in SUBSET F /\ Months \in SUBSET F
          /\ Weeks \in SUBSET F /\ Days \in SUBSET F
      BY DEF Fulls
    <3>2. /\ Yearly(F, p) = Filled(0, Years) /\ Monthly(F, p) = Filled(0, Months)
          /\ Weekly(F, p) = Filled(0, Weeks) /\ Daily(F, p) = Filled(0, Days)
      BY DEF Yearly, Monthly, Weekly, Daily
    <3> HIDE DEF Years, Months, Weeks, Days
    <3> QED
      BY <2>1, <3>1, <3>2
<1>3. Counted(F, p) = F \ Fulls(F)
  BY <1>2 DEF Counted
<1>4. OverCap(Counted(F, p), p.cap) = {}
  BY <1>3 DEF OverCap, Fulls
<1> QED
  BY <1>3, <1>4 DEF Removed, Fulls

-----------------------------------------------------------------------------
(***************************************************************************)
(* Names                                                                   *)
(***************************************************************************)

\* The kinds by name, for what tells incremental from full.
LEMMA KindNames ==
  /\ Kinds = {"daily", "hourly", "full", "manual"}
  /\ IncrementalKinds = {"daily", "hourly"}
BY DEF Kinds, IncrementalKinds

\* A full archive is named by its kind and its date.
LEMMA FullName ==
  ASSUME NEW f \in Archives, ~Incremental(f)
  PROVE  /\ Name(f) = <<f.kind, f.date>>
         /\ Name(f) \in Names /\ Name(f)[1] \notin IncrementalKinds
BY KindNames DEF Archives, Incremental, Name, Names

\* Every archive has a name of the right form.
LEMMA ArchiveName ==
  ASSUME NEW f \in Archives
  PROVE  Name(f) \in Names /\ Name(f)[1] = f.kind
BY KindNames DEF Archives, Incremental, Name, Names

\* NameFor (FileName in backup.go) gives names of the right form.
LEMMA NewName ==
  ASSUME NEW kind \in Kinds, NEW t \in Nat
  PROVE  NameFor(kind, t) \in Names
<1>1. t - (t % DayLength) \in Nat
  OBVIOUS
<1> QED
  BY <1>1, KindNames DEF NameFor, Names

\* The order of archives is that of their names, and it is transitive and
\* irreflexive.
LEMMA PrecedesOrder ==
  ASSUME NEW n \in Names, NEW m \in Names, NEW k \in Names
  PROVE  /\ ~Precedes(n, n)
         /\ Precedes(n, m) /\ Precedes(m, k) => Precedes(n, k)
<1>1. Rank[n[1]] \in Nat /\ Rank[m[1]] \in Nat /\ Rank[k[1]] \in Nat
  BY KindNames DEF Names, Rank
<1>2. n[2] \in Nat /\ m[2] \in Nat /\ k[2] \in Nat
  BY DEF Names
<1> QED
  BY <1>1, <1>2 DEF Precedes

LEMMA OlderPrecedes ==
  ASSUME NEW f \in Archives, NEW g \in Archives, ~Incremental(f), ~Incremental(g),
         Older(f, g)
  PROVE  Precedes(Name(f), Name(g))
BY FullName DEF Older, Precedes

-----------------------------------------------------------------------------
(***************************************************************************)
(* Types                                                                   *)
(***************************************************************************)

LEMMA InitTyped == Init => TypeOK /\ WriterPrepared /\ DoomedOutlived
BY KindNames DEF Init, TypeOK, WriterPrepared, DoomedOutlived, Works, Pcs, Fulls

\* The end of a process leaves it typed and idle.
LEMMA EndTyped ==
  ASSUME TypeOK, WriterPrepared, NEW p \in Procs, End(p), past \subseteq past'
  PROVE  /\ pc' \in [Procs -> Pcs] /\ todo' \in [Procs -> Works]
         /\ target' \in [Procs -> Names \cup {NoName}]
         /\ doomed' \in [Procs -> SUBSET {n \in Names : n[1] \notin IncrementalKinds}]
         /\ WriterPrepared'
         /\ \A q \in Procs : doomed'[q] \subseteq doomed[q]
BY DEF TypeOK, WriterPrepared, End, Pcs, Works

\* So does a process that goes on with the same work at the same name.
LEMMA GotoTyped ==
  ASSUME TypeOK, WriterPrepared, NEW p \in Procs, NEW next \in Pcs, Goto(p, next),
         next \in {"prepare", "place", "verify", "undo"} => todo[p] # <<>>,
         next \in {"place", "verify", "undo"} => target[p] \in Names,
         past \subseteq past', next = "undo" => "flawed" \in past'
  PROVE  /\ pc' \in [Procs -> Pcs] /\ todo' \in [Procs -> Works]
         /\ target' \in [Procs -> Names \cup {NoName}]
         /\ doomed' \in [Procs -> SUBSET {n \in Names : n[1] \notin IncrementalKinds}]
         /\ WriterPrepared'
         /\ doomed' = doomed
BY DEF TypeOK, WriterPrepared, Goto

\* What is left of a job is a job or nothing.
LEMMA RestOfWork ==
  ASSUME NEW work \in Works, work # <<>>
  PROVE  Tail(work) \in Works /\ (Len(work) # 1 => Tail(work) # <<>>)
<1>1. CASE work = <<"full", "daily">>
  <2>1. Tail(work) = <<"daily">>
    BY <1>1
  <2> QED
    BY <2>1 DEF Works
<1>2. ASSUME NEW kind, work = <<kind>>
      PROVE  Tail(work) = <<>> /\ Len(work) = 1
  BY <1>2
<1> QED
  BY <1>1, <1>2 DEF Works, Jobs

\* Deleting a name leaves the directory typed.
LEMMA WithoutTyped ==
  ASSUME TypeOK, NEW n, dir' = Without(n)
  PROVE  dir' \subseteq Archives /\ \A f, g \in dir' : Name(f) = Name(g) => f = g
BY DEF TypeOK, Without

\* What Place writes has the name it was to have.
LEMMA PlacedName ==
  ASSUME NEW n \in Names, NEW t \in Nat, NEW size \in Sizes, NEW good \in BOOLEAN
  PROVE  /\ Archive(n, t, size, good) \in Archives
         /\ Name(Archive(n, t, size, good)) = n
         /\ Archive(n, t, size, good).kind = n[1]
         /\ Archive(n, t, size, good).good = good
<1>1. n = <<n[1], n[2]>> /\ n[1] \in Kinds /\ n[2] \in Nat
  BY DEF Names
<1> QED
  BY <1>1 DEF Names, Archive, Archives, Name, Incremental

LEMMA TypeStep ==
  TypeOK /\ WriterPrepared /\ [Next]_vars => (TypeOK /\ WriterPrepared)'
<1> SUFFICES ASSUME TypeOK, WriterPrepared, [Next]_vars
             PROVE  (TypeOK /\ WriterPrepared)'
  OBVIOUS
<1>0. ASSUME NEW with
      PROVE  {Name(f) : f \in Removed(dir, with)} \subseteq
                {n \in Names : n[1] \notin IncrementalKinds}
  BY SweepSparesIncrementals, FullName DEF TypeOK, Fulls
<1>1. CASE UNCHANGED vars
  BY <1>1 DEF vars, TypeOK, WriterPrepared
<1>2. CASE Tick
  BY <1>2 DEF Tick, TypeOK, WriterPrepared
<1>3. ASSUME NEW p \in Procs, Begin(p)
      PROVE  (TypeOK /\ WriterPrepared)'
  <2>1. PICK work \in Jobs :
          /\ todo' = [todo EXCEPT ![p] = work]
          /\ pc' = [pc EXCEPT ![p] = IF Len(work) = 2 THEN "sweep" ELSE "prepare"]
    BY <1>3 DEF Begin
  <2>2. work \in Works /\ work # <<>>
    BY DEF Jobs, Works
  <2>3. begun' \in 0 .. MaxJobs
    BY <1>3 DEF Begin, TypeOK
  <2> QED
    BY <1>3, <2>1, <2>2, <2>3 DEF Begin, TypeOK, WriterPrepared, Pcs
<1>4. ASSUME NEW p \in Procs, Sweep(p)
      PROVE  (TypeOK /\ WriterPrepared)'
  <2>1. CASE End(p)
    BY <1>4, <2>1, EndTyped DEF Sweep, TypeOK
  <2>2. CASE ~End(p)
    BY <1>0, <1>4, <2>2 DEF Sweep, Apply, TypeOK, WriterPrepared, Pcs
  <2> QED
    BY <2>1, <2>2
<1>14. ASSUME NEW p \in Procs, ApplyRetention(p)
       PROVE  (TypeOK /\ WriterPrepared)'
  <2>1. past \subseteq past' /\ past' \subseteq {"stocked", "flawed", "unchecked"}
    BY <1>14 DEF ApplyRetention, TypeOK
  <2>2. CASE End(p)
    BY <1>14, <2>1, <2>2, EndTyped DEF ApplyRetention, TypeOK
  <2>3. CASE Apply(p, policy)
    BY <1>0, <1>14, <2>1, <2>3 DEF ApplyRetention, Apply, TypeOK, WriterPrepared, Pcs
  <2> QED
    BY <1>14, <2>2, <2>3 DEF ApplyRetention
<1>5. ASSUME NEW p \in Procs, Prune(p)
      PROVE  (TypeOK /\ WriterPrepared)'
  <2>1. PICK n \in doomed[p] : dir' = Without(n) /\ doomed' = [doomed EXCEPT ![p] = @ \ {n}]
    BY <1>5 DEF Prune
  <2> QED
    BY <1>5, <2>1, WithoutTyped DEF Prune, TypeOK, WriterPrepared
<1>6. ASSUME NEW p \in Procs, Pruned(p)
      PROVE  (TypeOK /\ WriterPrepared)'
  <2>1. CASE End(p)
    BY <1>6, <2>1, EndTyped DEF Pruned, TypeOK
  <2>2. CASE todo[p] # <<>> /\ Goto(p, "prepare")
    BY <1>6, <2>2, GotoTyped DEF Pruned, TypeOK, Pcs
  <2> QED
    BY <1>6, <2>1, <2>2 DEF Pruned
<1>7. ASSUME NEW p \in Procs, Prepare(p)
      PROVE  (TypeOK /\ WriterPrepared)'
  <2>1. CASE End(p)
    BY <1>7, <2>1, EndTyped DEF Prepare, TypeOK
  <2>2. CASE ~End(p)
    <3>1. Head(todo[p]) \in Kinds
      BY <1>7, KindNames DEF Prepare, TypeOK, WriterPrepared, Works, Jobs
    <3>2. NameFor(Head(todo[p]), now) \in Names
      BY <3>1, NewName DEF TypeOK
    <3> QED
      BY <1>7, <2>2, <3>2 DEF Prepare, TypeOK, WriterPrepared, Pcs
  <2> QED
    BY <2>1, <2>2
<1>8. ASSUME NEW p \in Procs, Place(p)
      PROVE  (TypeOK /\ WriterPrepared)'
  <2>1. target[p] \in Names /\ now \in Nat
    BY <1>8 DEF Place, TypeOK, WriterPrepared
  <2>2. PICK f \in Archives : Name(f) = target[p] /\ dir' = Without(target[p]) \cup {f}
    <3>1. PICK size \in Sizes, good \in BOOLEAN :
            dir' = Without(target[p]) \cup {Archive(target[p], now, size, good)}
      BY <1>8 DEF Place
    <3> QED
      BY <2>1, <3>1, PlacedName
  <2>3. dir' \subseteq Archives /\ \A f1, g \in dir' : Name(f1) = Name(g) => f1 = g
    BY <2>2 DEF TypeOK, Without
  <2>4. past' \subseteq {"stocked", "flawed", "unchecked"}
    BY <1>8 DEF Place, TypeOK
  <2> QED
    BY <1>8, <2>1, <2>3, <2>4, GotoTyped DEF Place, TypeOK, WriterPrepared, Pcs
<1>9. ASSUME NEW p \in Procs, PlaceFails(p)
      PROVE  (TypeOK /\ WriterPrepared)'
  BY <1>9, EndTyped, WithoutTyped DEF PlaceFails, TypeOK
<1>10. ASSUME NEW p \in Procs, Verified(p)
       PROVE  (TypeOK /\ WriterPrepared)'
  <2>1. past' \subseteq {"stocked", "flawed", "unchecked"} /\ past \subseteq past'
    BY <1>10 DEF Verified, TypeOK
  <2>2. CASE target[p][1] = "hourly"
    BY <1>10, <2>1, <2>2, EndTyped DEF Verified, TypeOK
  <2>3. CASE target[p][1] # "hourly"
    <3>1. Tail(todo[p]) \in Works /\ (Len(todo[p]) # 1 => Tail(todo[p]) # <<>>)
      BY <1>10, RestOfWork DEF Verified, TypeOK, WriterPrepared
    <3>2. /\ todo' = [todo EXCEPT ![p] = Tail(todo[p])]
          /\ pc' = [pc EXCEPT ![p] = IF Len(todo[p]) = 1 THEN AfterLast(p) ELSE "prepare"]
          /\ target' = [target EXCEPT ![p] = NoName]
          /\ UNCHANGED <<now, policy, begun, dir, doomed, abandoned>>
      BY <1>10, <2>3 DEF Verified
    <3>3. TypeOK'
      BY <2>1, <3>1, <3>2 DEF TypeOK, Pcs, AfterLast
    <3>4. WriterPrepared'
      BY <2>1, <3>1, <3>2 DEF TypeOK, WriterPrepared, AfterLast
    <3> QED
      BY <3>3, <3>4
  <2> QED
    BY <2>2, <2>3
<1>11. ASSUME NEW p \in Procs, Rejected(p)
       PROVE  (TypeOK /\ WriterPrepared)'
  BY <1>11, GotoTyped DEF Rejected, TypeOK, WriterPrepared, Pcs
<1>12. ASSUME NEW p \in Procs, Undo(p)
       PROVE  (TypeOK /\ WriterPrepared)'
  BY <1>12, EndTyped, WithoutTyped DEF Undo, Cleared, TypeOK
<1>13. ASSUME NEW p \in Procs, Crash(p)
       PROVE  (TypeOK /\ WriterPrepared)'
  <2>1. abandoned' \subseteq Names
    BY <1>13, ArchiveName DEF Crash, TypeOK
  <2> QED
    BY <1>13, <2>1, EndTyped DEF Crash, TypeOK
<1> QED
  BY <1>1, <1>2, <1>3, <1>4, <1>5, <1>6, <1>7, <1>8, <1>9, <1>10, <1>11, <1>12,
     <1>13, <1>14 DEF Next

-----------------------------------------------------------------------------
(***************************************************************************)
(* A sweep deletes only what something outlives                            *)
(***************************************************************************)

\* Nothing is known, and nothing needs to be, once a backup has failed or the
\* command has swept with a policy that has no slot.
LEMMA Failed ==
  ASSUME "flawed" \in past' \/ "unchecked" \in past'
  PROVE  DoomedOutlived'
BY DEF DoomedOutlived, NoFailure

\* A step that touches no archive and dooms none.
LEMMA NothingDoomed ==
  ASSUME DoomedOutlived, policy' = policy, dir' = dir, past' = past,
         \A p \in Procs : doomed'[p] \subseteq doomed[p]
  PROVE  DoomedOutlived'
BY DEF DoomedOutlived, NoFailure

\* However old the plan: what outlives the name that is deleted outlives
\* whatever was to be outlived by it.
LEMMA PruneStep ==
  ASSUME TypeOK, DoomedOutlived, NEW p \in Procs, Prune(p)
  PROVE  DoomedOutlived'
<1> SUFFICES ASSUME NoFailure
             PROVE  DoomedOutlived'
  BY DEF DoomedOutlived, NoFailure, Prune
<1>1. PICK n \in doomed[p] :
        dir' = Without(n) /\ doomed' = [doomed EXCEPT ![p] = @ \ {n}]
  BY DEF Prune
<1>2. n \in Names
  BY DEF TypeOK
<1>3. PICK h \in Fulls(dir) : Precedes(n, Name(h))
  BY DEF DoomedOutlived
<1>4. h \in Archives /\ Name(h) \in Names
  BY ArchiveName DEF Fulls, TypeOK
<1>5. Name(h) # n /\ h \in Fulls(dir')
  <2>1. Name(h) # n
    BY <1>2, <1>3, PrecedesOrder
  <2> QED
    BY <1>1, <2>1 DEF Without, Fulls
<1>6. ASSUME NEW q \in Procs, NEW m \in doomed'[q]
      PROVE  \E g \in Fulls(dir') : Precedes(m, Name(g))
  <2>1. m \in doomed[q] /\ m \in Names
    BY <1>1 DEF TypeOK
  <2>2. PICK g \in Fulls(dir) : Precedes(m, Name(g))
    BY <2>1 DEF DoomedOutlived
  <2>3. CASE Name(g) = n
    BY <1>2, <1>3, <1>4, <1>5, <2>1, <2>2, <2>3, PrecedesOrder
  <2>4. CASE Name(g) # n
    BY <1>1, <2>2, <2>4 DEF Without, Fulls
  <2> QED
    BY <2>3, <2>4
<1>7. \A f \in dir' : f.good
  BY <1>1 DEF DoomedOutlived, Without
<1> QED
  BY <1>5, <1>6, <1>7 DEF DoomedOutlived, NoFailure, Prune

\* A good archive takes the place of what had its name.
LEMMA PlaceStep ==
  ASSUME TypeOK, WriterPrepared, DoomedOutlived, NEW p \in Procs, Place(p)
  PROVE  DoomedOutlived'
<1>1. PICK size \in Sizes, good \in BOOLEAN :
        /\ dir' = Without(target[p]) \cup {Archive(target[p], now, size, good)}
        /\ past' = IF good THEN past ELSE past \cup {"flawed"}
  BY DEF Place
<1> SUFFICES ASSUME good, NoFailure
             PROVE  DoomedOutlived'
  BY <1>1, Failed DEF DoomedOutlived, NoFailure, Place
<1> DEFINE new == Archive(target[p], now, size, good)
<1>2. target[p] \in Names /\ now \in Nat
  BY DEF Place, TypeOK, WriterPrepared
<1>3. new \in Archives /\ Name(new) = target[p] /\ new.good
  BY <1>2, PlacedName
<1>4. \A f \in dir' : f.good
  BY <1>1, <1>3 DEF DoomedOutlived, Without
<1>5. ASSUME NEW g \in Fulls(dir)
      PROVE  \E h \in Fulls(dir') : Name(h) = Name(g)
  <2>1. CASE Name(g) = target[p]
    <3>1. new.kind = g.kind
      BY <1>3, <2>1, ArchiveName DEF TypeOK, Fulls
    <3> QED
      BY <1>1, <1>3, <2>1, <3>1 DEF Fulls, Incremental
  <2>2. CASE Name(g) # target[p]
    BY <1>1, <2>2 DEF Fulls, Without
  <2> QED
    BY <2>1, <2>2
<1>6. doomed' = doomed /\ past' = past
  BY <1>1 DEF Place, Goto
<1>7. \A q \in Procs : \A n \in doomed'[q] : \E h \in Fulls(dir') : Precedes(n, Name(h))
  BY <1>5, <1>6 DEF DoomedOutlived
<1>8. "stocked" \in past' => Fulls(dir') # {}
  BY <1>5, <1>6 DEF DoomedOutlived
<1> QED
  BY <1>4, <1>7, <1>8 DEF DoomedOutlived

\* A plan under a policy with a slot dooms what a younger archive outlives.
LEMMA ApplyStep ==
  ASSUME TypeOK, DoomedOutlived, NEW p \in Procs, NEW with \in PolicySet,
         with.daily # 0, with.cap = policy.cap, Apply(p, with),
         dir' = dir, policy' = policy, past' = past
  PROVE  DoomedOutlived'
<1> SUFFICES ASSUME NoFailure
             PROVE  DoomedOutlived'
  BY DEF DoomedOutlived, NoFailure
<1>1. doomed' = [doomed EXCEPT ![p] = {Name(f) : f \in Removed(dir, with)}]
  BY DEF Apply
<1>2. ASSUME NEW f \in Removed(dir, with)
      PROVE  \E g \in Fulls(dir) : Precedes(Name(f), Name(g))
  <2>1. with.cap = 0
    BY DEF NoFailure
  <2>2. PICK g \in Fulls(dir) : Older(f, g)
    BY <2>1, SweepSparesYoungest
  <2>3. f \in Fulls(dir)
    BY SweepSparesIncrementals
  <2> QED
    BY <2>2, <2>3, OlderPrecedes DEF Fulls, TypeOK
<1>3. \A q \in Procs : \A n \in doomed'[q] : \E g \in Fulls(dir) : Precedes(n, Name(g))
  <2>1. \A q \in Procs : \A n \in doomed[q] : \E g \in Fulls(dir) : Precedes(n, Name(g))
    BY DEF DoomedOutlived
  <2> QED
    BY <1>1, <1>2, <2>1 DEF TypeOK
<1> QED
  BY <1>3 DEF DoomedOutlived, NoFailure

\* So does the sweep of a task, whose policy was validated.
LEMMA SweepStep ==
  ASSUME TypeOK, WriterPrepared, DoomedOutlived, NEW p \in Procs, Sweep(p)
  PROVE  DoomedOutlived'
<1>1. CASE End(p)
  BY <1>1, EndTyped, NothingDoomed DEF Sweep
<1>2. CASE Apply(p, TaskPolicy)
  <2>1. policy \in PolicySet
    BY DEF TypeOK
  <2>2. TaskPolicy \in PolicySet /\ TaskPolicy.daily # 0 /\ TaskPolicy.cap = policy.cap
    BY <2>1, ValidatedPolicy DEF TaskPolicy
  <2> QED
    BY <1>2, <2>2, ApplyStep DEF Sweep
<1> QED
  BY <1>1, <1>2 DEF Sweep

\* And that of the command, unless its policy has no slot.
LEMMA ApplyRetentionStep ==
  ASSUME TypeOK, WriterPrepared, DoomedOutlived, NEW p \in Procs, ApplyRetention(p)
  PROVE  DoomedOutlived'
<1>1. CASE End(p) /\ past' = past
  BY <1>1, EndTyped, NothingDoomed DEF ApplyRetention
<1>2. CASE "unchecked" \in past'
  BY <1>2, Failed
<1>3. CASE Apply(p, policy) /\ policy.daily # 0 /\ past' = past
  <2>1. policy \in PolicySet
    BY DEF TypeOK
  <2> QED
    BY <1>3, <2>1, ApplyStep DEF ApplyRetention
<1> QED
  BY <1>1, <1>2, <1>3 DEF ApplyRetention

\* A full archive is verified where it is.
LEMMA VerifiedStep ==
  ASSUME TypeOK, WriterPrepared, DoomedOutlived, NEW p \in Procs, Verified(p)
  PROVE  DoomedOutlived'
<1>1. dir' = dir /\ policy' = policy /\ past \subseteq past' /\ past' \subseteq past \cup {"stocked"}
  BY DEF Verified
<1>2. \A q \in Procs : doomed'[q] \subseteq doomed[q]
  BY EndTyped DEF Verified
<1>3. target[p][1] \notin IncrementalKinds => Fulls(dir) # {}
  <2> SUFFICES ASSUME target[p][1] \notin IncrementalKinds
               PROVE  Fulls(dir) # {}
    OBVIOUS
  <2>1. PICK f \in dir : Name(f) = target[p]
    BY DEF Verified, Sound
  <2> QED
    BY <2>1, ArchiveName DEF TypeOK, Fulls, Incremental
<1> QED
  BY <1>1, <1>2, <1>3 DEF DoomedOutlived, NoFailure, Verified

LEMMA OutlivedStep ==
  IInv /\ [Next]_vars => DoomedOutlived'
<1> SUFFICES ASSUME TypeOK, WriterPrepared, DoomedOutlived, [Next]_vars
             PROVE  DoomedOutlived'
  BY DEF IInv
<1>1. CASE UNCHANGED vars
  BY <1>1, NothingDoomed DEF vars
<1>2. CASE Tick
  BY <1>2, NothingDoomed DEF Tick
<1>3. ASSUME NEW p \in Procs,
             Begin(p) \/ Pruned(p) \/ Prepare(p) \/ Crash(p)
      PROVE  DoomedOutlived'
  <2>1. /\ dir' = dir /\ past' = past /\ policy' = policy
        /\ doomed' = doomed \/ End(p)
    BY <1>3 DEF Begin, Pruned, Prepare, Crash, Goto
  <2> QED
    BY <2>1, EndTyped, NothingDoomed
<1>4. ASSUME NEW p \in Procs, PlaceFails(p) \/ Rejected(p)
      PROVE  DoomedOutlived'
  BY <1>4, Failed DEF PlaceFails, Rejected
<1>5. ASSUME NEW p \in Procs, Undo(p)
      PROVE  DoomedOutlived'
  BY <1>5, Failed DEF Undo, WriterPrepared
<1> QED
  BY <1>1, <1>2, <1>3, <1>4, <1>5, SweepStep, ApplyRetentionStep, PruneStep, PlaceStep, VerifiedStep DEF Next

-----------------------------------------------------------------------------
(***************************************************************************)
(* A bad archive has somebody who judges it                                *)
(***************************************************************************)

\* Nobody's step away from another's archive matters to it.
LEMMA StillAttended ==
  ASSUME BadArchiveAttended, dir' \subseteq dir, abandoned \subseteq abandoned',
         NEW p \in Procs, \A q \in Procs \ {p} : pc'[q] = pc[q] /\ target'[q] = target[q],
         \A f \in dir' : ~f.good /\ Attends(p, Name(f)) =>
            Attends(p, Name(f))' \/ Name(f) \in abandoned'
  PROVE  BadArchiveAttended'
BY DEF BadArchiveAttended, Attends

LEMMA EndLeavesOthers ==
  ASSUME TypeOK, NEW p \in Procs, End(p)
  PROVE  \A q \in Procs \ {p} : pc'[q] = pc[q] /\ target'[q] = target[q]
BY DEF TypeOK, End

LEMMA AttendedStep ==
  TypeOK /\ WriterPrepared /\ BadArchiveAttended /\ [Next]_vars => BadArchiveAttended'
<1> SUFFICES ASSUME TypeOK, WriterPrepared, BadArchiveAttended, [Next]_vars
             PROVE  BadArchiveAttended'
  OBVIOUS
<1>1. CASE UNCHANGED vars \/ Tick
  BY <1>1 DEF vars, Tick, BadArchiveAttended, Attends
<1>2. ASSUME NEW p \in Procs,
             Begin(p) \/ Sweep(p) \/ ApplyRetention(p) \/ Prune(p) \/ Pruned(p) \/ Prepare(p)
      PROVE  BadArchiveAttended'
  <2>1. dir' \subseteq dir /\ abandoned' = abandoned /\ pc[p] \notin {"verify", "undo"}
    BY <1>2 DEF Begin, Sweep, ApplyRetention, Prune, Pruned, Prepare, Without
  <2>2. \A q \in Procs \ {p} : pc'[q] = pc[q] /\ target'[q] = target[q]
    BY <1>2, EndLeavesOthers 
       DEF Begin, Sweep, ApplyRetention, Apply, Prune, Pruned, Prepare, Goto, TypeOK
  <2> QED
    BY <2>1, <2>2, StillAttended DEF Attends
<1>3. ASSUME NEW p \in Procs, Place(p)
      PROVE  BadArchiveAttended'
  <2>1. target[p] \in Names /\ now \in Nat
    BY <1>3 DEF Place, TypeOK, WriterPrepared
  <2>2. PICK new : Name(new) = target[p] /\ dir' = Without(target[p]) \cup {new}
    <3>1. PICK size \in Sizes, good \in BOOLEAN :
            dir' = Without(target[p]) \cup {Archive(target[p], now, size, good)}
      BY <1>3 DEF Place
    <3> QED
      BY <2>1, <3>1, PlacedName
  <2>3. /\ pc' = [pc EXCEPT ![p] = "verify"]
        /\ UNCHANGED <<target, abandoned>>
    BY <1>3 DEF Place, Goto
  <2>4. Attends(p, target[p])'
    BY <2>3 DEF Attends, TypeOK
  <2>5. pc[p] \notin {"verify", "undo"}
    BY <1>3 DEF Place
  <2> QED
    BY <2>2, <2>3, <2>4, <2>5 DEF BadArchiveAttended, Attends, Without, TypeOK
<1>4. ASSUME NEW p \in Procs, PlaceFails(p) \/ Undo(p)
      PROVE  BadArchiveAttended'
  <2>1. dir' = Without(target[p]) /\ End(p) /\ abandoned' = abandoned
    BY <1>4 DEF PlaceFails, Undo, Cleared
  <2>2. \A f \in dir' : f \in dir /\ ~Attends(p, Name(f))
    BY <2>1 DEF Without, Attends
  <2> QED
    BY <2>1, <2>2, EndLeavesOthers, StillAttended
<1>5. ASSUME NEW p \in Procs, Verified(p)
      PROVE  BadArchiveAttended'
  <2>1. dir' = dir /\ abandoned' = abandoned
    BY <1>5 DEF Verified
  <2>2. \A q \in Procs \ {p} : pc'[q] = pc[q] /\ target'[q] = target[q]
    BY <1>5, EndLeavesOthers DEF Verified, TypeOK
  <2>3. \A f \in dir : Attends(p, Name(f)) => f.good
    BY <1>5 DEF Verified, Sound, Attends, TypeOK
  <2> QED
    BY <2>1, <2>2, <2>3, StillAttended
<1>6. ASSUME NEW p \in Procs, Rejected(p)
      PROVE  BadArchiveAttended'
  BY <1>6 DEF Rejected, Goto, BadArchiveAttended, Attends, TypeOK
<1>7. ASSUME NEW p \in Procs, Crash(p)
      PROVE  BadArchiveAttended'
  <2>1. /\ dir' = dir /\ End(p)
        /\ abandoned' = abandoned \cup
             {Name(f) : f \in {g \in dir : Attends(p, Name(g)) /\ ~g.good}}
    BY <1>7 DEF Crash
  <2> QED
    BY <2>1, EndLeavesOthers, StillAttended
<1> QED
  BY <1>1, <1>2, <1>3, <1>4, <1>5, <1>6, <1>7 DEF Next

-----------------------------------------------------------------------------
(***************************************************************************)
(* The size of a directory                                                 *)
(***************************************************************************)

LEMMA SmallestNat ==
  ASSUME NEW T, T \subseteq Nat, T # {}
  PROVE  \E x \in T : \A y \in T : x <= y
<1>1. IsWellFoundedOn(OpToRel(<, Nat), Nat)
  BY NatLessThanWellFounded
<1>2. PICK x \in T : \A y \in T : ~(<<y, x>> \in OpToRel(<, Nat))
  BY <1>1, WFMin, Zenon
<1>3. ASSUME NEW y \in T PROVE x <= y
  <2>1. x \in Nat /\ y \in Nat
    OBVIOUS
  <2>2. <<y, x>> \in Nat \X Nat /\ <<y, x>>[1] = y /\ <<y, x>>[2] = x
    BY <2>1
  <2>3. ~(y < x)
    BY <1>2, <2>2 DEF OpToRel
  <2> QED
    BY <2>1, <2>3
<1> QED
  BY <1>3

\* The function that TotalSize takes its value from, for the subsets of F.
Pick(s) == CHOOSE x \in s : TRUE
Sums(F) ==
  CHOOSE g : g = [s \in SUBSET F |-> IF s = {} THEN 0 ELSE Pick(s).size + g[s \ {Pick(s)}]]

LEMMA TotalIsSum ==
  ASSUME NEW F
  PROVE  TotalSize(F) = Sums(F)[F]
BY DEF TotalSize, MapThenSumSet, MapThenFoldSet, Sums, Pick

Small(F, n)    == {s \in SUBSET F : Cardinality(s) <= n}
SumOn(g, D)    == g = [s \in D |-> IF s = {} THEN 0 ELSE Pick(s).size + g[s \ {Pick(s)}]]

LEMMA PickSmaller ==
  ASSUME NEW F, IsFiniteSet(F), NEW s \in SUBSET F, s # {}
  PROVE  /\ Pick(s) \in s /\ s \ {Pick(s)} \in SUBSET F
         /\ Cardinality(s) \in Nat
         /\ Cardinality(s \ {Pick(s)}) = Cardinality(s) - 1
<1>1. Pick(s) \in s
  BY DEF Pick
<1>2. IsFiniteSet(s)
  BY FS_Subset
<1> QED
  BY <1>1, <1>2, FS_CardinalityType, FS_RemoveElement

\* It exists: of the sizes for which it does not, none is the smallest.
LEMMA SumExists ==
  ASSUME NEW F, IsFiniteSet(F), NEW n \in Nat
  PROVE  \E g : SumOn(g, Small(F, n))
<1> DEFINE Bad == {m \in Nat : ~\E g : SumOn(g, Small(F, m))}
<1> SUFFICES ASSUME Bad # {} PROVE FALSE
  OBVIOUS
<1>1. PICK m \in Bad : \A k \in Bad : m <= k
  <2> HIDE DEF Bad
  <2>1. Bad \subseteq Nat
    BY DEF Bad
  <2> QED
    BY <2>1, SmallestNat
<1>2. m # 0
  <2> SUFFICES ASSUME m = 0 PROVE FALSE
    OBVIOUS
  <2>1. \A s \in Small(F, 0) : s = {}
    <3> SUFFICES ASSUME NEW s \in Small(F, 0), s # {} PROVE FALSE
      OBVIOUS
    <3>1. IsFiniteSet(s) /\ Cardinality(s) <= 0
      BY FS_Subset DEF Small
    <3> QED
      BY <3>1, FS_EmptySet, FS_CardinalityType
  <2>2. SumOn([s \in Small(F, 0) |-> 0], Small(F, 0))
    BY <2>1 DEF SumOn
  <2> QED
    BY <1>1, <2>2
<1>3. PICK k \in Nat : m = k + 1
  <2>1. m \in Nat /\ m # 0
    BY <1>1, <1>2
  <2>2. m - 1 \in Nat /\ m = (m - 1) + 1
    BY <2>1
  <2> QED
    BY <2>2
<1>4. k \notin Bad
  BY <1>1, <1>3
<1>5. PICK g : SumOn(g, Small(F, k))
  BY <1>4
<1> DEFINE h == [s \in Small(F, m) |-> IF s = {} THEN 0 ELSE Pick(s).size + g[s \ {Pick(s)}]]
<1>6. ASSUME NEW s \in Small(F, k) PROVE h[s] = g[s]
  <2>1. s \in Small(F, m)
    <3>1. IsFiniteSet(s) /\ s \in SUBSET F /\ Cardinality(s) <= k
      BY FS_Subset DEF Small
    <3>2. Cardinality(s) \in Nat
      BY <3>1, FS_CardinalityType
    <3> QED
      BY <1>3, <3>1, <3>2 DEF Small
  <2> QED
    BY <1>5, <2>1 DEF SumOn
<1>7. ASSUME NEW s \in Small(F, m), s # {} PROVE h[s] = Pick(s).size + h[s \ {Pick(s)}]
  <2>1. s \ {Pick(s)} \in Small(F, k)
    BY <1>3, <1>7, PickSmaller DEF Small
  <2>2. h[s \ {Pick(s)}] = g[s \ {Pick(s)}]
    BY <1>6, <2>1
  <2> QED
    BY <1>7, <2>2
<1>8. h = [s \in Small(F, m) |-> IF s = {} THEN 0 ELSE Pick(s).size + h[s \ {Pick(s)}]]
  BY <1>7
<1>9. SumOn(h, Small(F, m))
  <2> HIDE DEF h
  <2> QED
    BY <1>8 DEF SumOn
<1> QED
  BY <1>1, <1>9

LEMMA SumsRecursion ==
  ASSUME NEW F, IsFiniteSet(F), NEW s \in SUBSET F
  PROVE  Sums(F)[s] = IF s = {} THEN 0 ELSE Pick(s).size + Sums(F)[s \ {Pick(s)}]
<1>1. Cardinality(F) \in Nat
  BY FS_CardinalityType
<1>2. Small(F, Cardinality(F)) = SUBSET F
  BY FS_Subset DEF Small
<1>3. \E g : SumOn(g, SUBSET F)
  <2>1. \A n \in Nat : \E g : SumOn(g, Small(F, n))
    BY SumExists
  <2> QED
    BY <1>1, <1>2, <2>1, Zenon
<1>4. Sums(F) = CHOOSE g : SumOn(g, SUBSET F)
  BY DEF Sums, SumOn
<1>5. SumOn(Sums(F), SUBSET F)
  BY <1>3, <1>4
<1> QED
  BY <1>5 DEF SumOn

LEMMA SumsAgree ==
  ASSUME NEW F, IsFiniteSet(F), NEW T \in SUBSET F, NEW s \in SUBSET T
  PROVE  Sums(T)[s] = Sums(F)[s]
<1> DEFINE Bad == {k \in Nat : \E u \in SUBSET T : Cardinality(u) = k /\ Sums(T)[u] # Sums(F)[u]}
<1>1. IsFiniteSet(T)
  BY FS_Subset
<1>2. \A u \in SUBSET T : Cardinality(u) \in Nat
  BY <1>1, FS_Subset, FS_CardinalityType
<1>3. ASSUME Bad # {} PROVE FALSE
  <2>1. PICK m \in Bad : \A k \in Bad : m <= k
    <3> HIDE DEF Bad
    <3>1. Bad \subseteq Nat
      BY DEF Bad
    <3> QED
      BY <1>3, <3>1, SmallestNat
  <2>2. PICK u \in SUBSET T : Cardinality(u) = m /\ Sums(T)[u] # Sums(F)[u]
    BY <2>1
  <2>3. u \in SUBSET F
    OBVIOUS
  <2>4. /\ Sums(T)[u] = IF u = {} THEN 0 ELSE Pick(u).size + Sums(T)[u \ {Pick(u)}]
        /\ Sums(F)[u] = IF u = {} THEN 0 ELSE Pick(u).size + Sums(F)[u \ {Pick(u)}]
    BY <1>1, <2>3, SumsRecursion
  <2>5. u # {}
    BY <2>2, <2>4
  <2>6. PICK v : v = u \ {Pick(u)}
    OBVIOUS
  <2>7. v \in SUBSET T /\ Cardinality(v) = m - 1 /\ Cardinality(v) \in Nat
    BY <1>1, <1>2, <2>2, <2>5, <2>6, PickSmaller
  <2>8. Sums(T)[v] = Sums(F)[v]
    <3> SUFFICES ASSUME Sums(T)[v] # Sums(F)[v] PROVE FALSE
      OBVIOUS
    <3>1. m - 1 \in Bad
      BY <2>7
    <3> QED
      BY <2>1, <2>7, <3>1
  <2> QED
    BY <2>2, <2>4, <2>6, <2>8
<1>4. Cardinality(s) \notin Bad
  BY <1>3
<1> QED
  BY <1>2, <1>4

\* TotalSize adds what CHOOSE takes out first.
LEMMA TotalStep ==
  ASSUME NEW F, IsFiniteSet(F)
  PROVE  TotalSize(F) = IF F = {} THEN 0 ELSE Pick(F).size + TotalSize(F \ {Pick(F)})
<1>1. Sums(F)[F] = IF F = {} THEN 0 ELSE Pick(F).size + Sums(F)[F \ {Pick(F)}]
  BY SumsRecursion
<1>2. Sums(F \ {Pick(F)})[F \ {Pick(F)}] = Sums(F)[F \ {Pick(F)}]
  BY SumsAgree
<1> QED
  BY <1>1, <1>2, TotalIsSum

\* It may take out any other first: of the sets for which that is not so, none
\* is the smallest.
LEMMA TotalRemove ==
  ASSUME NEW F, IsFiniteSet(F), \A x \in F : x.size \in Nat
  PROVE  /\ TotalSize(F) \in Nat
         /\ \A x \in F : TotalSize(F) = x.size + TotalSize(F \ {x})
<1> DEFINE Good(u) == /\ TotalSize(u) \in Nat
                      /\ \A x \in u : TotalSize(u) = x.size + TotalSize(u \ {x})
           Bad == {k \in Nat : \E u \in SUBSET F : Cardinality(u) = k /\ ~Good(u)}
<1>1. \A u \in SUBSET F : IsFiniteSet(u) /\ Cardinality(u) \in Nat
  BY FS_Subset, FS_CardinalityType
<1>2. ASSUME Bad # {} PROVE FALSE
  <2>1. PICK m \in Bad : \A k \in Bad : m <= k
    <3> HIDE DEF Bad
    <3>1. Bad \subseteq Nat
      BY DEF Bad
    <3> QED
      BY <1>2, <3>1, SmallestNat
  <2>2. PICK u \in SUBSET F : Cardinality(u) = m /\ ~Good(u)
    BY <2>1
  <2>3. \A v \in SUBSET F : Cardinality(v) < m => Good(v)
    <3> HIDE DEF Good
    <3> SUFFICES ASSUME NEW v \in SUBSET F, Cardinality(v) < m, ~Good(v) PROVE FALSE
      OBVIOUS
    <3>1. Cardinality(v) \in Bad
      BY <1>1
    <3> QED
      BY <1>1, <2>1, <3>1
  <2>4. ASSUME NEW x \in u
        PROVE  u \ {x} \in SUBSET F /\ Cardinality(u \ {x}) < m /\ Good(u \ {x})
    <3>1. u \ {x} \in SUBSET F /\ Cardinality(u \ {x}) = Cardinality(u) - 1
      BY <1>1, FS_RemoveElement
    <3>2. Cardinality(u \ {x}) < m
      BY <1>1, <2>2, <3>1
    <3> QED
      BY <2>3, <3>1, <3>2
  <2>5. TotalSize(u) = IF u = {} THEN 0 ELSE Pick(u).size + TotalSize(u \ {Pick(u)})
    BY <1>1, TotalStep
  <2>6. CASE u = {}
    BY <2>2, <2>5, <2>6
  <2>7. CASE u # {}
    <3>1. PICK c \in u : c = Pick(u)
      BY <2>7 DEF Pick
    <3>2. TotalSize(u) = c.size + TotalSize(u \ {c}) /\ c.size \in Nat
      BY <2>5, <2>7, <3>1
    <3>3. TotalSize(u \ {c}) \in Nat /\ TotalSize(u) \in Nat
      <4>1. Good(u \ {c})
        <5> HIDE DEF Good
        <5> QED
          BY <2>4
      <4> QED
        BY <3>2, <4>1
    <3>4. ASSUME NEW x \in u PROVE TotalSize(u) = x.size + TotalSize(u \ {x})
      <4>1. CASE x = c
        BY <3>2, <4>1
      <4>2. CASE x # c
        <5>1. x \in u \ {c} /\ c \in u \ {x} /\ x.size \in Nat
          BY <4>2
        <5>2. PICK v : v = (u \ {c}) \ {x}
          OBVIOUS
        <5>3. v = (u \ {x}) \ {c}
          BY <5>2
        <5>4. TotalSize(u \ {c}) = x.size + TotalSize(v)
          BY <2>4, <5>1, <5>2
        <5>5. TotalSize(u \ {x}) = c.size + TotalSize(v) /\ TotalSize(u \ {x}) \in Nat
          BY <2>4, <5>1, <5>3
        <5>6. TotalSize(v) \in Nat
          <6>1. v \in SUBSET F /\ Cardinality(v) < m
            <7>1. Cardinality(v) = Cardinality(u \ {c}) - 1
              <8>1. u \ {c} \in SUBSET F
                OBVIOUS
              <8>2. IsFiniteSet(u \ {c})
                BY <1>1, <8>1, Zenon
              <8>3. Cardinality((u \ {c}) \ {x}) = IF x \in u \ {c} THEN Cardinality(u \ {c}) - 1
                                                  ELSE Cardinality(u \ {c})
                BY <8>2, FS_RemoveElement, Zenon
              <8> QED
                BY <5>1, <5>2, <8>3, Zenon
            <7>2. Cardinality(u \ {c}) \in Nat /\ Cardinality(u \ {c}) < m /\ m \in Nat
              BY <1>1, <2>2, <2>4
            <7> QED
              BY <5>2, <7>1, <7>2
          <6> QED
            BY <2>3, <6>1
        <5> QED
          BY <3>2, <5>1, <5>4, <5>5, <5>6
      <4> QED
        BY <4>1, <4>2
    <3> QED
      BY <2>2, <3>3, <3>4
  <2> QED
    BY <2>6, <2>7
<1>3. Cardinality(F) \notin Bad
  BY <1>2
<1>4. Good(F)
  <2> HIDE DEF Good
  <2> QED
    BY <1>1, <1>3
<1> QED
  BY <1>4

\* The size of a directory is that of two halves of it.
LEMMA TotalSplit ==
  ASSUME NEW F, IsFiniteSet(F), \A x \in F : x.size \in Nat, NEW T \in SUBSET F
  PROVE  /\ TotalSize(F) \in Nat /\ TotalSize(T) \in Nat /\ TotalSize(F \ T) \in Nat
         /\ TotalSize(F) = TotalSize(T) + TotalSize(F \ T)
<1> DEFINE Bad == {k \in Nat : \E u \in SUBSET F, v \in SUBSET F :
                     v \subseteq u /\ Cardinality(u) = k /\ TotalSize(u) # TotalSize(v) + TotalSize(u \ v)}
<1>1. \A u \in SUBSET F : IsFiniteSet(u) /\ Cardinality(u) \in Nat
  BY FS_Subset, FS_CardinalityType
<1>2. ASSUME NEW u \in SUBSET F
      PROVE  /\ TotalSize(u) \in Nat
             /\ \A x \in u : TotalSize(u) = x.size + TotalSize(u \ {x})
  <2>1. IsFiniteSet(u) /\ \A x \in u : x.size \in Nat
    BY <1>1
  <2> QED
    BY <2>1, TotalRemove
<1>3. ASSUME Bad # {} PROVE FALSE
  <2>1. PICK m \in Bad : \A k \in Bad : m <= k
    <3> HIDE DEF Bad
    <3>1. Bad \subseteq Nat
      BY DEF Bad
    <3> QED
      BY <1>3, <3>1, SmallestNat
  <2>2. PICK u \in SUBSET F, v \in SUBSET F :
          v \subseteq u /\ Cardinality(u) = m /\ TotalSize(u) # TotalSize(v) + TotalSize(u \ v)
    BY <2>1
  <2>3. CASE v = {}
    <3>1. TotalSize({}) = 0
      BY FS_EmptySet, TotalStep
    <3>2. u \ v = u
      BY <2>3
    <3> QED
      BY <1>2, <2>2, <2>3, <3>1, <3>2
  <2>4. CASE v # {}
    <3>1. PICK x \in v : TRUE
      BY <2>4
    <3>2. PICK u1, v1 : u1 = u \ {x} /\ v1 = v \ {x}
      OBVIOUS
    <3>3. u1 \in SUBSET F /\ v1 \in SUBSET F /\ v1 \subseteq u1 /\ u1 \ v1 = u \ v /\ x \in u
      BY <2>2, <3>2
    <3>4. Cardinality(u1) = m - 1 /\ Cardinality(u1) \in Nat /\ m \in Nat
      BY <1>1, <2>2, <3>2, <3>3, FS_RemoveElement
    <3>5. TotalSize(u1) = TotalSize(v1) + TotalSize(u1 \ v1)
      <4> SUFFICES ASSUME TotalSize(u1) # TotalSize(v1) + TotalSize(u1 \ v1) PROVE FALSE
        OBVIOUS
      <4>1. m - 1 \in Bad
        BY <3>3, <3>4
      <4>2. m <= m - 1
        <5> HIDE DEF Bad
        <5> QED
          BY <2>1, <4>1
      <4> QED
        BY <3>4, <4>2
    <3>6. /\ TotalSize(u) = x.size + TotalSize(u1) /\ TotalSize(v) = x.size + TotalSize(v1)
          /\ x.size \in Nat
      BY <1>2, <3>2, <3>3
    <3>7. u \ v \in SUBSET F
      OBVIOUS
    <3>8. TotalSize(u1) \in Nat /\ TotalSize(v1) \in Nat /\ TotalSize(u \ v) \in Nat
      BY <1>2, <3>3, <3>7
    <3>9. TotalSize(u1 \ v1) = TotalSize(u \ v)
      BY <3>3
    <3>10. PICK a \in Nat, b \in Nat, c \in Nat :
             a = TotalSize(u1) /\ b = TotalSize(v1) /\ c = TotalSize(u \ v)
      BY <3>8
    <3>11. a = b + c /\ TotalSize(u) = x.size + a /\ TotalSize(v) = x.size + b
      BY <3>5, <3>6, <3>9, <3>10
    <3>12. x.size + (b + c) = (x.size + b) + c
      BY <3>6
    <3> QED
      BY <2>2, <3>10, <3>11, <3>12
  <2> QED
    BY <2>3, <2>4
<1>4. Cardinality(F) \notin Bad
  BY <1>3
<1> QED
  BY <1>1, <1>2, <1>4

-----------------------------------------------------------------------------
(***************************************************************************)
(* One sweep after the other                                               *)
(***************************************************************************)

\* What List finds: finitely many archives, each with a name of its own.
Listing(F) ==
  F \subseteq Archives /\ IsFiniteSet(F) /\ \A f, g \in F : Name(f) = Name(g) => f = g

\* By date and name archives are ordered, full and manual ones in a line.
LEMMA OlderOrder ==
  ASSUME NEW f \in Archives, NEW g \in Archives, NEW h \in Archives
  PROVE  /\ ~Older(f, f)
         /\ Older(f, g) /\ Older(g, h) => Older(f, h)
         /\ ~Incremental(f) /\ ~Incremental(g) /\ Name(f) # Name(g) => Older(f, g) \/ Older(g, f)
<1>1. f.date \in Nat /\ g.date \in Nat /\ h.date \in Nat
  BY DEF Archives
<1>2. Rank[f.kind] \in Nat /\ Rank[g.kind] \in Nat /\ Rank[h.kind] \in Nat
  BY KindNames DEF Archives, Rank
<1>3. ASSUME ~Incremental(f), ~Incremental(g), Name(f) # Name(g)
      PROVE  f.date # g.date \/ Rank[f.kind] # Rank[g.kind]
  <2>1. f.kind \in {"full", "manual"} /\ g.kind \in {"full", "manual"}
    BY <1>3, KindNames DEF Archives, Incremental
  <2>2. f.date # g.date \/ f.kind # g.kind
    BY <1>3, FullName
  <2> QED
    BY <2>1, <2>2 DEF Rank
<1> QED
  BY <1>1, <1>2, <1>3 DEF Older

\* A tier that has been swept fills its slots with what it had, if no younger
\* one of those it keeps was deleted.
LEMMA FilledAgain ==
  ASSUME NEW A, A \subseteq Archives, IsFiniteSet(A), NEW K, NEW n \in Nat,
         \A f \in A \cap K : \A g \in Filled(n, A) : Older(f, g) => g \in K
  PROVE  Filled(n, A \cap K) = Filled(n, A) \cap K
<1> DEFINE Younger(B, f) == {g \in B : Older(f, g)}
<1>1. \A f : /\ IsFiniteSet(Younger(A, f)) /\ Cardinality(Younger(A, f)) \in Nat
             /\ Younger(A \cap K, f) \subseteq Younger(A, f)
  BY FS_Subset, FS_CardinalityType
<1>2. \A f : /\ Cardinality(Younger(A \cap K, f)) <= Cardinality(Younger(A, f))
             /\ IsFiniteSet(Younger(A \cap K, f)) /\ Cardinality(Younger(A \cap K, f)) \in Nat
  BY <1>1, FS_Subset, FS_CardinalityType
<1>3. ASSUME NEW f \in Filled(n, A) \cap K PROVE f \in Filled(n, A \cap K)
  <2>1. f \in A \cap K /\ Cardinality(Younger(A, f)) < n
    BY <1>3 DEF Filled
  <2>2. Cardinality(Younger(A \cap K, f)) < n
    <3> HIDE DEF Younger
    <3> QED
      BY <1>1, <1>2, <2>1
  <2> QED
    BY <2>1, <2>2 DEF Filled
<1>4. ASSUME NEW f \in Filled(n, A \cap K), f \notin Filled(n, A) PROVE FALSE
  <2> DEFINE Rest == {g \in A \ Filled(n, A) : g = f \/ Older(f, g)}
             Ranks == {Cardinality(Younger(A, g)) : g \in Rest}
  <2>1. f \in A \cap K /\ Cardinality(Younger(A \cap K, f)) < n
    BY <1>4 DEF Filled
  <2>2. f \in Rest /\ Ranks # {} /\ Ranks \subseteq Nat
    <3>1. f \in Rest
      BY <1>4, <2>1
    <3> HIDE DEF Younger, Rest
    <3> QED
      BY <1>1, <3>1
  <2>3. PICK r \in Ranks : \A s \in Ranks : r <= s
    <3> HIDE DEF Ranks
    <3> QED
      BY <2>2, SmallestNat
  <2>4. PICK g \in Rest : r = Cardinality(Younger(A, g))
    BY <2>3
  <2>5. \A h \in Rest : Cardinality(Younger(A, g)) <= Cardinality(Younger(A, h))
    BY <2>3, <2>4
  <2>6. ASSUME NEW h \in Younger(A, g) PROVE h \in Filled(n, A) /\ h \in Younger(A \cap K, f)
    <3>1. h \in A /\ Older(g, h) /\ Older(f, h)
      BY <2>1, OlderOrder
    <3>2. h \in Filled(n, A)
      <4> SUFFICES ASSUME h \notin Filled(n, A) PROVE FALSE
        OBVIOUS
      <4>1. h \in Rest
        BY <3>1
      <4>2. Younger(A, h) \subseteq Younger(A, g) /\ h \notin Younger(A, h)
        BY <3>1, OlderOrder
      <4>3. Cardinality(Younger(A, h)) <= Cardinality(Younger(A, g))
            /\ Cardinality(Younger(A, h)) # Cardinality(Younger(A, g))
        BY <1>1, <2>6, <4>2, FS_Subset
      <4>4. Cardinality(Younger(A, g)) <= Cardinality(Younger(A, h))
        BY <2>5, <4>1
      <4> HIDE DEF Younger
      <4> QED
        BY <1>1, <4>3, <4>4
    <3> QED
      BY <2>1, <3>1, <3>2
  <2>7. Cardinality(Younger(A, g)) <= Cardinality(Younger(A \cap K, f))
    <3>1. Younger(A, g) \in SUBSET Younger(A \cap K, f)
      BY <2>6
    <3> HIDE DEF Younger
    <3> QED
      BY <1>2, <3>1, FS_Subset
  <2>8. ~(Cardinality(Younger(A, g)) < n)
    BY DEF Filled
  <2> HIDE DEF Younger
  <2> QED
    BY <1>1, <1>2, <2>1, <2>7, <2>8
<1>5. ASSUME NEW f \in Filled(n, A \cap K) PROVE f \in K
  BY <1>5 DEF Filled
<1> QED
  BY <1>3, <1>4, <1>5

\* applySizeCap deletes from the old end of what the tiers keep.
LEMMA CapFromOldEnd ==
  ASSUME NEW C, Listing(C), NEW cap \in Nat,
         NEW f \in Fulls(C), f \notin OverCap(C, cap), NEW g \in OverCap(C, cap)
  PROVE  Older(g, f)
<1> DEFINE Older2(x) == {h \in Fulls(C) : Older(h, x)}
<1>1. g \in Fulls(C) /\ cap > 0 /\ TotalSize(C) - TotalSize(Older2(g)) > cap
  BY DEF OverCap
<1>2. f \in Archives /\ g \in Archives /\ f \in C /\ g \in C /\ f # g
      /\ ~Incremental(f) /\ ~Incremental(g)
  BY <1>1 DEF Listing, Fulls
<1>3. Older(f, g) \/ Older(g, f)
  BY <1>2, OlderOrder DEF Listing
<1>4. ASSUME Older(f, g) PROVE FALSE
  <2>1. Older2(f) \subseteq Older2(g)
    BY <1>2, <1>4, OlderOrder DEF Listing, Fulls
  <2>2. Older2(g) \subseteq C
    BY DEF Fulls
  <2>3. \A x \in C : x.size \in Nat
    BY BackupAssumption DEF Listing, Archives
  <2>4. IsFiniteSet(Older2(g)) /\ \A x \in Older2(g) : x.size \in Nat
    BY <2>2, <2>3, FS_Subset DEF Listing
  <2>5. /\ TotalSize(Older2(g)) = TotalSize(Older2(f)) + TotalSize(Older2(g) \ Older2(f))
        /\ TotalSize(Older2(g)) \in Nat /\ TotalSize(Older2(f)) \in Nat
        /\ TotalSize(Older2(g) \ Older2(f)) \in Nat
    <3> HIDE DEF Older2
    <3> QED
      BY <2>1, <2>4, TotalSplit
  <2>6. TotalSize(C) \in Nat
    BY <2>3, TotalRemove DEF Listing
  <2>7. TotalSize(C) - TotalSize(Older2(f)) > cap
    <3> HIDE DEF Older2
    <3> QED
      BY <1>1, <2>5, <2>6
  <2> QED
    BY <1>1, <1>2, <1>4, <2>7 DEF OverCap
<1> QED
  BY <1>3, <1>4

\* Plan, applied to what it has left, deletes nothing: under any policy, with
\* every tier and with a size cap.
THEOREM SweepLeavesSettled ==
  ASSUME NEW F, Listing(F), NEW p \in PolicySet
  PROVE  Removed(F \ Removed(F, p), p) = {}
<1> DEFINE C == Counted(F, p)
           O == OverCap(C, p.cap)
           G == F \ Removed(F, p)
<1>1. /\ p.daily \in Nat /\ p.weekly \in Nat /\ p.monthly \in Nat
      /\ p.yearly \in Nat /\ p.cap \in Nat
  BY DEF PolicySet
<1>2. /\ Yearly(F, p) \subseteq Fulls(F) /\ Monthly(F, p) \subseteq Fulls(F)
      /\ Weekly(F, p) \subseteq Fulls(F) /\ Daily(F, p) \subseteq Fulls(F)
      /\ Fulls(F) \subseteq F
  BY DEF Yearly, Monthly, Weekly, Daily, Filled, Fulls
<1>3. /\ C \subseteq F /\ O \subseteq Fulls(C)
      /\ Fulls(C) = Yearly(F, p) \cup Monthly(F, p) \cup Weekly(F, p) \cup Daily(F, p)
  <2>1. C \subseteq F
    BY <1>2 DEF Counted
  <2>2. O \subseteq Fulls(C)
    BY DEF OverCap
  <2>3. Fulls(C) = C \cap Fulls(F)
    BY <2>1 DEF Fulls
  <2> QED
    BY <1>2, <2>1, <2>2, <2>3 DEF Counted
<1>4. G = C \ O /\ Fulls(G) = Fulls(C) \ O /\ G \subseteq F
  <2>1. G = C \ O
    BY <1>3 DEF Removed
  <2> QED
    BY <1>3, <2>1 DEF Fulls
<1>5. Listing(C) /\ Listing(G)
  BY <1>3, <1>4, FS_Subset DEF Listing
<1>6. ASSUME NEW f \in Fulls(G), NEW g \in Fulls(C), Older(f, g) PROVE g \in G
  <2>1. f \in Fulls(C) /\ f \notin O
    BY <1>4
  <2>2. f \in Archives /\ g \in Archives
    BY <1>3, <2>1 DEF Listing, Fulls
  <2>3. g \notin O
    <3> SUFFICES ASSUME g \in O PROVE FALSE
      OBVIOUS
    <3>1. Older(g, f)
      <4> HIDE DEF C
      <4> QED
        BY <1>1, <1>5, <2>1, CapFromOldEnd
    <3> QED
      BY <1>6, <2>2, <3>1, OlderOrder
  <2> QED
    BY <1>4, <2>3 DEF Fulls
<1>7. ASSUME NEW A, A \subseteq Fulls(F), NEW n \in Nat, Filled(n, A) \subseteq Fulls(C)
      PROVE  Filled(n, A \cap G) = Filled(n, A) \cap G
  <2>1. A \subseteq Archives /\ IsFiniteSet(A)
    BY <1>2, <1>7, FS_Subset DEF Listing
  <2>2. \A f \in A \cap G : f \in Fulls(G)
    BY <1>7 DEF Fulls
  <2>3. \A f \in A \cap G : \A g \in Filled(n, A) : Older(f, g) => g \in G
    BY <1>6, <1>7, <2>2
  <2> HIDE DEF G
  <2> QED
    BY <2>1, <2>3, FilledAgain
<1>8. Fulls(G) = Fulls(F) \cap G
  BY <1>4 DEF Fulls
<1>9. Yearly(G, p) = Yearly(F, p) \cap G
  <2> DEFINE A == {f \in Fulls(F) : f.date \in NewYears}
  <2>1. {f \in Fulls(G) : f.date \in NewYears} = A \cap G
    BY <1>8
  <2>2. Filled(p.yearly, A \cap G) = Filled(p.yearly, A) \cap G
    BY <1>1, <1>3, <1>7 DEF Yearly
  <2> QED
    BY <2>1, <2>2 DEF Yearly
<1>10. Monthly(G, p) = Monthly(F, p) \cap G
  <2> DEFINE A == {f \in Fulls(F) \ Yearly(F, p) : f.date \in MonthStarts}
  <2>1. {f \in Fulls(G) \ Yearly(G, p) : f.date \in MonthStarts} = A \cap G
    BY <1>8, <1>9
  <2>2. Filled(p.monthly, A \cap G) = Filled(p.monthly, A) \cap G
    BY <1>1, <1>3, <1>7 DEF Monthly
  <2> QED
    BY <2>1, <2>2 DEF Monthly
<1>11. Weekly(G, p) = Weekly(F, p) \cap G
  <2> DEFINE A == {f \in Fulls(F) \ (Yearly(F, p) \cup Monthly(F, p)) : f.date \in Sundays}
  <2>1. {f \in Fulls(G) \ (Yearly(G, p) \cup Monthly(G, p)) : f.date \in Sundays} = A \cap G
    BY <1>8, <1>9, <1>10
  <2>2. Filled(p.weekly, A \cap G) = Filled(p.weekly, A) \cap G
    BY <1>1, <1>3, <1>7 DEF Weekly
  <2> QED
    BY <2>1, <2>2 DEF Weekly
<1>12. Daily(G, p) = Daily(F, p) \cap G
  <2> DEFINE A == Fulls(F) \ (Yearly(F, p) \cup Monthly(F, p) \cup Weekly(F, p))
  <2>1. Fulls(G) \ (Yearly(G, p) \cup Monthly(G, p) \cup Weekly(G, p)) = A \cap G
    BY <1>8, <1>9, <1>10, <1>11
  <2>2. Filled(p.daily, A \cap G) = Filled(p.daily, A) \cap G
    BY <1>1, <1>3, <1>7 DEF Daily
  <2> QED
    BY <2>1, <2>2 DEF Daily
<1>13. Counted(G, p) = G
  <2>1. Fulls(G) = Yearly(G, p) \cup Monthly(G, p) \cup Weekly(G, p) \cup Daily(G, p)
    BY <1>3, <1>4, <1>8, <1>9, <1>10, <1>11, <1>12 DEF Fulls
  <2>2. Fulls(G) \subseteq G
    BY DEF Fulls
  <2> HIDE DEF G
  <2> QED
    BY <2>1, <2>2 DEF Counted
<1>14. ASSUME NEW f \in OverCap(G, p.cap) PROVE FALSE
  <2> DEFINE P == {g \in Fulls(C) : Older(g, f)}
             Q == {g \in Fulls(G) : Older(g, f)}
  <2>1. /\ f \in Fulls(G) /\ p.cap > 0 /\ \E g \in G : Older(f, g)
        /\ TotalSize(G) - TotalSize(Q) > p.cap
    BY DEF OverCap
  <2>2. f \in Fulls(C) /\ f \notin O
    BY <1>4, <2>1
  <2>3. O \subseteq P
    <3> SUFFICES ASSUME NEW g \in O PROVE Older(g, f)
      BY <1>3
    <3> HIDE DEF C
    <3> QED
      BY <1>1, <1>5, <2>2, CapFromOldEnd
  <2>4. Q = P \ O /\ P \subseteq C /\ O \subseteq C /\ G = C \ O
    BY <1>3, <1>4 DEF Fulls
  <2>5. IsFiniteSet(C) /\ IsFiniteSet(P) /\ \A x \in C : x.size \in Nat
    BY <1>5, <2>4, FS_Subset, BackupAssumption DEF Listing, Archives
  <2> HIDE DEF C, O, G, P, Q
  <2>6. /\ TotalSize(C) \in Nat /\ TotalSize(O) \in Nat /\ TotalSize(G) \in Nat
        /\ TotalSize(C) = TotalSize(O) + TotalSize(G)
    BY <2>4, <2>5, TotalSplit
  <2>7. /\ TotalSize(P) \in Nat /\ TotalSize(Q) \in Nat
        /\ TotalSize(P) = TotalSize(O) + TotalSize(Q)
    BY <2>3, <2>4, <2>5, TotalSplit
  <2>8. TotalSize(C) - TotalSize(P) > p.cap
    BY <1>1, <2>1, <2>6, <2>7
  <2>9. f \in O
    BY <2>1, <2>2, <2>4, <2>8 DEF O, P, OverCap
  <2> QED
    BY <2>2, <2>9
<1> QED
  BY <1>13, <1>14 DEF Removed

-----------------------------------------------------------------------------
(***************************************************************************)
(* Theorems                                                                *)
(***************************************************************************)

\* What a process writes is prepared, nothing doomed lacks a successor: the
\* inductive invariant holds for any number of processes, names, policies
\* and instants.
THEOREM BackupInvariant == Spec => []IInv
<1>1. Init => IInv
  BY InitTyped DEF IInv
<1>2. IInv /\ [Next]_vars => IInv'
  BY TypeStep, OutlivedStep DEF IInv
<1> QED
  BY <1>1, <1>2, PTL DEF Spec

\* The directory and the processes have their types, and no sweep is after
\* an incremental.
THEOREM BackupTyped == Spec => []TypeOK
BY BackupInvariant, PTL DEF IInv

\* Without failures, without a size cap and as long as no command sweeps with
\* max_backups below 1, a full archive that was verified leaves the directory
\* only for another one: however many tasks and commands sweep at once,
\* however stale their plans are, and whatever the file has for the tasks.
THEOREM SweepsSafe == Spec => []SweepsLeaveGood
<1>1. IInv => SweepsLeaveGood
  BY DEF IInv, DoomedOutlived, NoFailure, SweepsLeaveGood, Recoverable, Fulls
<1> QED
  BY <1>1, BackupInvariant, PTL

\* However processes overwrite, verify and delete each other's archives, a
\* bad one always has a process that will judge or delete it, unless that
\* process died.
THEOREM BadArchivesAttended == Spec => []BadArchiveAttended
<1>1. Init => BadArchiveAttended
  BY DEF Init, BadArchiveAttended
<1>2. IInv /\ BadArchiveAttended /\ [Next]_vars => BadArchiveAttended'
  BY AttendedStep DEF IInv
<1> QED
  BY <1>1, <1>2, BackupInvariant, PTL DEF Spec

LEMMA DirFinite == Spec => []IsFiniteSet(dir)
<1>1. Init => IsFiniteSet(dir)
  BY FS_EmptySet DEF Init
<1>2. IsFiniteSet(dir) /\ [Next]_vars => IsFiniteSet(dir)'
  <2> SUFFICES ASSUME IsFiniteSet(dir), [Next]_vars PROVE IsFiniteSet(dir)'
    OBVIOUS
  <2>1. \A n : IsFiniteSet(Without(n)) /\ \A a : IsFiniteSet(Without(n) \cup {a})
    BY FS_Subset, FS_AddElement DEF Without
  <2>2. \/ dir' = dir
        \/ \E n : dir' = Without(n) \/ \E a : dir' = Without(n) \cup {a}
    BY DEF Next, vars, Tick, Begin, Sweep, ApplyRetention, Prune, Pruned, Prepare, Place, PlaceFails, Verified,
       Rejected, Undo, Cleared, Crash
  <2> QED
    BY <2>1, <2>2
<1> QED
  BY <1>1, <1>2, PTL DEF Spec

\* Whatever is in the directory when a sweep comes, its tiers and the size cap
\* are settled by one sweep: the next one, with nothing new, deletes nothing.
THEOREM SweepsSettle == Spec => []SweepSettles
<1>1. IInv /\ IsFiniteSet(dir) => SweepSettles
  <2> SUFFICES ASSUME IInv, IsFiniteSet(dir) PROVE SweepSettles
    OBVIOUS
  <2>1. Listing(dir) /\ policy \in PolicySet
    BY BackupAssumption DEF IInv, TypeOK, Listing
  <2>2. TaskPolicy \in PolicySet
    BY <2>1, ValidatedPolicy DEF TaskPolicy
  <2> QED
    BY <2>1, <2>2, SweepLeavesSettled DEF SweepSettles
<1> QED
  BY <1>1, BackupInvariant, DirFinite, PTL
=============================================================================
