----------------------------- MODULE Retention -----------------------------
(***************************************************************************)
(* The retention of backup archives, backup/retention.go: which archives   *)
(* Plan keeps of those that List finds.  Archives are ordered by the date  *)
(* they stand for and then by name; the first of January, the first of a   *)
(* month and Sundays are sets of dates.                                    *)
(***************************************************************************)
EXTENDS Naturals, FiniteSets, FiniteSetsExt

CONSTANTS NewYears, MonthStarts, Sundays

ASSUME RetentionAssumption ==
  NewYears \subseteq MonthStarts /\ MonthStarts \subseteq Nat /\ Sundays \subseteq Nat

IncrementalKinds == {"daily", "hourly"}
Kinds            == IncrementalKinds \cup {"full", "manual"}

\* Slots of every tier, and the size cap: 0 is none, as is what the file has
\* below 0.
PolicySet == [daily : Nat, weekly : Nat, monthly : Nat, yearly : Nat, cap : Nat]

\* validateBackup: a server keeps at least one.
Validated(p) == [p EXCEPT !.daily = IF @ = 0 THEN 1 ELSE @]

\* Of one date, "-daily" < "-hourly" < "_backup_DATE." < "_backup_DATE_TIME.".
Rank == [daily |-> 1, hourly |-> 2, full |-> 3, manual |-> 4]
Older(f, g) == f.date < g.date \/ (f.date = g.date /\ Rank[f.kind] < Rank[g.kind])

Incremental(f) == f.kind \in IncrementalKinds
Fulls(F)       == {f \in F : ~Incremental(f)}

\* A tier fills its slots newest first.
Filled(slots, C) == {f \in C : Cardinality({g \in C : Older(f, g)}) < slots}

(***************************************************************************)
(* Every tier takes from what the tiers above it have left.                *)
(***************************************************************************)
Yearly(F, p)  == Filled(p.yearly, {f \in Fulls(F) : f.date \in NewYears})
Monthly(F, p) ==
  Filled(p.monthly, {f \in Fulls(F) \ Yearly(F, p) : f.date \in MonthStarts})
Weekly(F, p)  ==
  Filled(p.weekly, {f \in Fulls(F) \ (Yearly(F, p) \cup Monthly(F, p)) :
                      f.date \in Sundays})
Daily(F, p)   ==
  Filled(p.daily, Fulls(F) \ (Yearly(F, p) \cup Monthly(F, p) \cup Weekly(F, p)))

\* Fault: only what a tier keeps is kept.
CountedFulls(F, p) == Yearly(F, p) \cup Monthly(F, p) \cup Weekly(F, p) \cup Daily(F, p)

\* What the counts keep: incrementals do not count.
Counted(F, p) ==
  (F \ Fulls(F)) \cup Yearly(F, p) \cup Monthly(F, p) \cup Weekly(F, p) \cup Daily(F, p)

TotalSize(F) == MapThenSumSet(LAMBDA f : f.size, F)

\* Fault: a sweep deletes one archive when the cap is exceeded.
OneOverCap(C, cap) ==
  {f \in Fulls(C) :
     /\ cap > 0 /\ \E g \in C : Older(f, g)
     /\ TotalSize(C) > cap /\ ~\E g \in Fulls(C) : Older(g, f)}

\* applySizeCap: oldest first until the rest fits, never an incremental nor
\* the last of the list, whatever that is.
OverCap(C, cap) ==
  {f \in Fulls(C) :
     /\ cap > 0 /\ \E g \in C : Older(f, g)
     /\ TotalSize(C) - TotalSize({g \in Fulls(C) : Older(g, f)}) > cap}

\* Plan: what a sweep deletes of the archives F.
Removed(F, p) ==
  (F \ Counted(F, p)) \cup OverCap(Counted(F, p), p.cap)
=============================================================================
