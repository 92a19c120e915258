------------------------- MODULE AtLeastOnceDelivery -------------------------
(***************************************************************************)
(* What a consumer group promises about one Kafka partition: the committed *)
(* offset only moves forward, and only over messages that have been fully  *)
(* processed.  After any crash, restart or rebalance consumption starts    *)
(* from the committed offset, so no message below it may be unprocessed.   *)
(* The second half of the promise is void once messages have been handed   *)
(* over in another order than the log's.                                   *)
(***************************************************************************)
EXTENDS Integers

CONSTANT MaxOffset      \* the partition holds the messages 0 .. MaxOffset-1

VARIABLES committed,    \* the group's committed offset: the next one to read
          done,         \* the offsets whose processing has completed
          reordered     \* messages have been handed over out of order

vars == <<committed, done, reordered>>

Offsets == 0 .. MaxOffset - 1

(* Every message below offset k is a member of D *)
AllBelow(k, D) == \A o \in Offsets : o < k => o \in D

Init == committed = 0 /\ done = {} /\ reordered = FALSE

(* Some messages P complete (again, if they were delivered again) and the  *)
(* committed offset moves up to k, over completed messages only unless     *)
(* messages have been handed over out of order                             *)
Advance(P, k) ==
    /\ done' = done \cup P
    /\ committed' = k
    /\ reordered' \in {reordered, TRUE}
    /\ reordered' \/ AllBelow(k, done')

Next == \E P \in SUBSET Offsets, k \in committed .. MaxOffset : Advance(P, k)

Spec == Init /\ [][Next]_vars
=============================================================================
