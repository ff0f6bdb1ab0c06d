------------------------------ MODULE MCMirror ------------------------------
(***************************************************************************)
(* TLC instance of Mirror: two of the artifacts have one content and one   *)
(* file name, as the copies of a TDoc in two directories have, and there   *)
(* are more artifacts than workers and than a checkpoint takes.            *)
(***************************************************************************)
EXTENDS Mirror, Sequences, TLC

CONSTANTS w1, w2, a1, a2, a3, shared, single

Listing == <<a1, a2, a3>>

MCUrl == {a1, a2, a3}
MCObjectOf == a1 :> shared @@ a2 :> shared @@ a3 :> single
MCOrder == [S \in SUBSET MCUrl |-> SelectSeq(Listing, LAMBDA a : a \in S)]
=============================================================================
