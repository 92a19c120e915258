----------------------- MODULE MCLifecycleTransition -----------------------
(* An object of length 3, copied in two parts; users overwrite it with the same
   contents or with contents of length 1, which one PUT copies.                *)
EXTENDS LifecycleTransition

CONSTANTS small, large

MCContents == {small, large}
MCLength == [c \in MCContents |-> IF c = small THEN 1 ELSE 3]
MCStoreModes == {{}, {"hot"}}

\* The ranges of every length, at a scale of the part sizes that crosses each limit.
ASSUME RangesOfAllLengths == RangesTile
=============================================================================
