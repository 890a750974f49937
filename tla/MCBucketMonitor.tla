-------------------------- MODULE MCBucketMonitor --------------------------
(***************************************************************************)
(* BucketMonitor for TLC.                                                  *)
(***************************************************************************)
EXTENDS BucketMonitor, TLC

CONSTANTS refresher, discoverer, photos, backups

Symmetry == Permutations(Readers) \cup Permutations(Buckets)

=============================================================================
