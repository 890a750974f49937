----------------------- MODULE MCCollectionScheduler -----------------------
(***************************************************************************)
(* CollectionScheduler for TLC.                                            *)
(***************************************************************************)
EXTENDS CollectionScheduler, TLC

CONSTANTS m1, m2, m3, w1, w2

Symmetry == Permutations(Monitors) \cup Permutations(Workers)

=============================================================================
