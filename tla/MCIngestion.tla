----------------------------- MODULE MCIngestion -----------------------------
(* Two versions of one key and a null version of another, listed one by a page. *)
EXTENDS IngestionPopulator

MCVersions == {<<1, 1>>, <<1, 2>>, <<3, 0>>}
TwoPages == {<<1, 2>>, <<3, 0>>}
OnePage == {<<3, 0>>}
Scenario(vs, w, f, c, r, replicated, known) ==
    [initial |-> vs, writes |-> w, faults |-> f, commands |-> c, reconfigs |-> r,
     replicating |-> replicated, known |-> known]

MCScenarios ==
    {Scenario(OnePage, 2, 1, 0, 0, FALSE, TRUE),
     Scenario(TwoPages, 2, 0, 0, 0, FALSE, TRUE),
     Scenario(TwoPages, 1, 1, 0, 0, TRUE, TRUE),
     Scenario(TwoPages, 1, 1, 0, 0, FALSE, TRUE),
     Scenario({}, 0, 1, 2, 0, FALSE, TRUE),
     Scenario({}, 0, 0, 1, 1, FALSE, FALSE),
     Scenario(OnePage, 0, 1, 0, 1, FALSE, TRUE),
     Scenario(OnePage, 2, 0, 0, 1, FALSE, TRUE),
     Scenario({}, 3, 0, 0, 0, FALSE, TRUE)}
=============================================================================
