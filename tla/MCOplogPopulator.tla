-------------------------- MODULE MCOplogPopulator --------------------------
(* Two buckets and two connectors. *)
EXTENDS OplogPopulator

CONSTANTS b1, b2

MCBuckets == {b1, b2}
=============================================================================
