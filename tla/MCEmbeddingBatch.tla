--------------------------- MODULE MCEmbeddingBatch ---------------------------
(***************************************************************************)
(* Instance of EmbeddingBatch for TLC: two mentions, two fetched by a run, *)
(* and one text in a request.                                              *)
(***************************************************************************)
EXTENDS EmbeddingBatch

===============================================================================
