------------------------- MODULE AtomicPublication --------------------------
(***************************************************************************)
(* What publication promises: there is one current dataset version, a      *)
(* candidate becomes current in one step and only when what it holds may   *)
(* be published, and what is current does not change any more.             *)
(***************************************************************************)
CONSTANTS
    Dataset, NoDataset,
    Content,        \* what a version may hold
    Nothing,        \* what it holds before it is built
    Publishable     \* the contents that may be published

VARIABLES current, contents

Init ==
    /\ current = NoDataset
    /\ contents = [d \in Dataset |-> Nothing]

Build(d) ==
    /\ d # current
    /\ \E content \in Content : contents' = [contents EXCEPT ![d] = content]
    /\ UNCHANGED current

Publish(d) ==
    /\ contents[d] \in Publishable
    /\ current' = d
    /\ UNCHANGED contents

Next == \E d \in Dataset : Build(d) \/ Publish(d)

Spec == Init /\ [][Next]_<<current, contents>>
=============================================================================
