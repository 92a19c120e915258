-------------------------- MODULE MCQueuePopulator --------------------------
(* A small instance of QueuePopulator for TLC *)
EXTENDS QueuePopulator
CONSTANTS p1, p2, crr, lifecycle
TwoPopulators == {p1, p2}
TwoTopics == {crr, lifecycle}
(* A record for both topics, then one for each *)
ThreeRecords == <<{crr, lifecycle}, {crr}, {lifecycle}>>
=============================================================================
