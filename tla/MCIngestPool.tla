---------------------------- MODULE MCIngestPool ----------------------------
(***************************************************************************)
(* TLC instance of IngestPool: more documents than workers, so that one    *)
(* worker comes back to the queue while the other is still busy.           *)
(***************************************************************************)
EXTENDS IngestPool

CONSTANTS w1, w2

MCDocument == 1..3
=============================================================================
