-------------------------- MODULE MCSchedulerTurns --------------------------
(***************************************************************************)
(* SchedulerTurns for TLC: three buckets, two workers.                     *)
(***************************************************************************)
EXTENDS SchedulerTurns, TLC

CONSTANTS m1, m2, m3, w1, w2

Symmetry == Permutations(Monitors) \cup Permutations(Workers)

=============================================================================
