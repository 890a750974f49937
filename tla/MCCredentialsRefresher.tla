----------------------- MODULE MCCredentialsRefresher -----------------------
(***************************************************************************)
(* CredentialsRefresher for TLC: two buckets on one endpoint, one of them  *)
(* moved to another, and the other without it.                             *)
(***************************************************************************)
EXTENDS CredentialsRefresher

CONSTANTS k1, k2, e1, e2

Both == [k \in {k1, k2} |-> e1]
Moved == [Both EXCEPT ![k1] = e2]
Removed == [Both EXCEPT ![k1] = None]
ThreePlans == {Both, Moved, Removed}

=============================================================================
