--------------------------- MODULE MCIndexerSync ---------------------------
(* A small instance of IndexerSync for TLC. *)
EXTENDS IndexerSync
=============================================================================
