------------------------- MODULE NoncurrentRetention -------------------------
(* What NoncurrentVersionExpiration with NewerNoncurrentVersions promises, for
   the versions of one object: versions become noncurrent, and a noncurrent
   version is expired only when at least `newer' noncurrent versions are newer
   than it.                                                                    *)
EXTENDS Naturals, FiniteSets

VARIABLES newer, noncurrent, expired

Init == newer \in Nat /\ noncurrent \subseteq Nat /\ expired = {}

BecomeNoncurrent == noncurrent \subseteq noncurrent' /\ UNCHANGED <<newer, expired>>

Expire ==
    /\ expired \subseteq expired'
    /\ \A v \in expired' \ expired :
         Cardinality({w \in noncurrent : w > v}) >= newer
    /\ UNCHANGED <<newer, noncurrent>>

Next == BecomeNoncurrent \/ Expire

Spec == Init /\ [][Next]_<<newer, noncurrent, expired>>
=============================================================================
