---------------------------- MODULE MCIngestion ----------------------------
(***************************************************************************)
(* Model values for IngestionJobs: two uploads of one source that race for *)
(* a version, and two workers.                                             *)
(***************************************************************************)
EXTENDS IngestionJobs, FiniteSets, TLC

CONSTANTS j1, j2, w1, w2, s1, prose, spaces

OneSource == [j \in Jobs |-> s1]
MCContents == (j1 :> {prose}) @@ (j2 :> {spaces})
MCChunkCount == [t \in Texts |-> 2]
MCUncuttable == {spaces}
MCTokens == 1..(Cardinality(Workers) + Cardinality(Jobs))
=============================================================================
