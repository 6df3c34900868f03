---------------------------- MODULE MCScheduler ----------------------------
(***************************************************************************)
(* Instances of Scheduler for TLC: its configurations of the tasks.        *)
(***************************************************************************)
EXTENDS Scheduler, TLC

\* The lanes of gocron are alike.
Symmetry == Permutations(FireLanes)

Cron(p)    == [every |-> FALSE, period |-> p]
Every(p)   == [every |-> TRUE, period |-> p]
Def(s, on) == [schedule |-> s, enabled |-> on]
All(d)     == [t \in Tasks |-> d]

\* A task that fires at every instant, so that its runs overlap.
FastConfig == {All(Def(Every(1), TRUE))}

\* The operator switches the task off in the file.
Edited == {All(Def(Cron(1), TRUE)), All(Def(Cron(1), FALSE))}
=============================================================================
