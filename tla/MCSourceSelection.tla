------------------------- MODULE MCSourceSelection -------------------------
(***************************************************************************)
(* SourceSelection for TLC: two candidates, a key that is granted both     *)
(* calls of the probe and one that may only list.                          *)
(***************************************************************************)
EXTENDS SourceSelection

TwoCandidates == <<"storagegrid", "minio">>
SomeWishes == {"auto", "minio"}
FewGrants == {{"ListObjectsV2"}, {"HeadBucket", "ListObjectsV2"}}

=============================================================================
