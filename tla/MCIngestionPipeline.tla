-------------------------- MODULE MCIngestionPipeline --------------------------
(***************************************************************************)
(* Instances of IngestionPipeline for TLC: one text that two emissions     *)
(* carry, for a brand that is known and one that is not, with one fault of *)
(* any kind; without a fault, the statement that does not hold.            *)
(***************************************************************************)
EXTENDS IngestionPipeline

MCNamed == [t \in Texts |-> KnownBrands]

===============================================================================
