--------------------------- MODULE MCJobScheduler ---------------------------
(***************************************************************************)
(* TLC instance of JobScheduler: jobs 1 and 2 are submitted under the same *)
(* idempotency key, job 3 under another.                                   *)
(***************************************************************************)
EXTENDS JobScheduler, TLC

CONSTANTS k1, k2, w1, w2

MCJob == 1..3
MCKeyOf == 1 :> k1 @@ 2 :> k1 @@ 3 :> k2

WorkerSymmetry == Permutations({w1, w2})
=============================================================================
