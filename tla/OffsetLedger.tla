---------------------------- MODULE OffsetLedger ----------------------------
(***************************************************************************)
(* lib/OffsetLedger.js, for one topic/partition: which consumed offsets    *)
(* are still being processed, and which offset may be committed to Kafka.  *)
(*                                                                         *)
(* The code keeps the offsets in an array whose first element is the       *)
(* lowest one (a consumed offset is either above all of them, or cuts off  *)
(* the ones that are not below it).  Here they are a set.  The topic ->    *)
(* partition -> record nesting of the code only selects a record, so a     *)
(* ledger here is one such record.                                         *)
(***************************************************************************)
EXTENDS Integers

(* The null of latestConsumed and of a committable offset *)
NoOffset == -1

(* A partition record as the code's lookup creates it on first access *)
NewLedger == [processing |-> {}, latestConsumed |-> NoOffset]

Ledgers == [processing : SUBSET Nat, latestConsumed : Nat \cup {NoOffset}]

(* The lowest member of a set of offsets *)
Lowest(S) == CHOOSE o \in S : \A p \in S : o <= p

(* An offset that does not follow the latest consumed one is a replay: the *)
(* higher offsets in processing are forgotten, they will be consumed again *)
onOffsetConsumed(ledger, o) ==
    LET replay == ledger.latestConsumed # NoOffset /\ o # ledger.latestConsumed + 1
        kept   == IF replay THEN {p \in ledger.processing : p < o}
                            ELSE ledger.processing
    IN  [processing |-> kept \cup {o}, latestConsumed |-> o]

onOffsetProcessed(ledger, o) ==
    [ledger EXCEPT !.processing = @ \ {o}]

(* Faulty variant: the lowest offset in processing is not looked at *)
CommittableIgnoringProcessing(ledger) ==
    IF ledger.latestConsumed # NoOffset THEN ledger.latestConsumed + 1 ELSE NoOffset

(* Faulty variant: off by one when nothing is being processed *)
CommittableOffByOne(ledger) ==
    IF ledger.processing # {} THEN Lowest(ledger.processing)
    ELSE IF ledger.latestConsumed # NoOffset THEN ledger.latestConsumed + 2
    ELSE NoOffset

getCommittableOffset(ledger) ==
    IF ledger.processing # {} THEN Lowest(ledger.processing)
    ELSE IF ledger.latestConsumed # NoOffset THEN ledger.latestConsumed + 1
    ELSE NoOffset
=============================================================================
