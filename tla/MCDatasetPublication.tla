------------------------ MODULE MCDatasetPublication ------------------------
(***************************************************************************)
(* TLC instance of DatasetPublication.                                     *)
(***************************************************************************)
EXTENDS DatasetPublication, TLC

CONSTANTS d1, d2, o1, o2, m1, m2

AllCommands == Build \cup {"rebuild", "activate"}
GatedCommands == AllCommands \ {"backfill_activate"}

Count(listed, actionable, archived, handled) ==
    [listed |-> listed, actionable |-> actionable, archived |-> archived, handled |-> handled]

\* One TDoc with neither archive nor body; with 199 covered ones beside it, which
\* makes 99.5 % exactly; with one of these without a body.
AroundThreshold ==
    {NoTDocs, Count(1, 1, 0, 0), Count(200, 200, 199, 199), Count(200, 200, 199, 198)}

OneCovered == {NoTDocs, Count(1, 1, 1, 1)}

Symmetry ==
    Permutations({o1, o2}) \cup Permutations({d1, d2}) \cup Permutations({m1, m2})
=============================================================================
