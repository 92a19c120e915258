------------------------ MODULE MCLifecycleArchive ------------------------
(* An object, or a version, that users overwrite with two kinds of contents. *)
EXTENDS LifecycleArchive

CONSTANTS c1, c2

MCContents == {c1, c2}
=============================================================================
