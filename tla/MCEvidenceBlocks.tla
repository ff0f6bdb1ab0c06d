-------------------------- MODULE MCEvidenceBlocks ---------------------------
(***************************************************************************)
(* TLC instance of EvidenceBlocks: a section and one below it; limits at   *)
(* which two elements of three words fill a block, that is then larger     *)
(* than its limit, and one of nine is split in three, the last of which is *)
(* small enough to share a chunk with another section.                     *)
(***************************************************************************)
EXTENDS EvidenceBlocks

MCPath == {<<"1">>, <<"1", "2">>}
=============================================================================
