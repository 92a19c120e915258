------------------------- MODULE MCBackbeatConsumer -------------------------
(* Small instances of BackbeatConsumer for TLC *)
EXTENDS BackbeatConsumer
CONSTANTS c1, c2
OneConsumer == {c1}
TwoConsumers == {c1, c2}
ConsumerSymmetry == {[c \in TwoConsumers |-> c], [c \in TwoConsumers |-> IF c = c1 THEN c2 ELSE c1]}
=============================================================================
