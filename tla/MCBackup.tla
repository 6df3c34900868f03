------------------------------ MODULE MCBackup ------------------------------
(* Backup for TLC: days of two instants, of which the third is a Sunday    *)
(* that begins a month, with the default retention, one with several        *)
(* tiers, one with a size cap, and one that Validate would replace.         *)
EXTENDS Backup, TLC

Starts == {2}

Default == [daily |-> 1, weekly |-> 0, monthly |-> 0, yearly |-> 0, cap |-> 0]
Tiers   == [Default EXCEPT !.weekly = 1, !.monthly = 1]
Capped  == [Default EXCEPT !.daily = 2, !.cap = 2]
Symmetric == Permutations(Procs)

Unchecked == [Default EXCEPT !.daily = 0]

AllPolicies == {Default, Tiers, Capped, Unchecked}
=============================================================================
