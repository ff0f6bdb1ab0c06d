--------------------------- MODULE MCReadRequest ----------------------------
(***************************************************************************)
(* TLC instance of ReadRequest: pages of one meeting, so that a listing of *)
(* two takes two of them; two positions, so that the two tie or do not.    *)
(***************************************************************************)
EXTENDS ReadRequest

CONSTANTS d1, d2

MCMeeting == 1..2
MCPosition == 1..2

\* The positions in use begin with the first: only their order matters.
MCContent ==
    {content \in [MCMeeting -> MCPosition \cup {Absent}] :
        \A m \in MCMeeting : content[m] = 2 => \E n \in MCMeeting : content[n] = 1}

MCKind == DOMAIN Program
=============================================================================
