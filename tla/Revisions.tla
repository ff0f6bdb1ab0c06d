------------------------------ MODULE Revisions ------------------------------
(***************************************************************************)
(* Revision links of TDocs, and what the code computes from them: the      *)
(* cycle check of the stored graph (graph.py), the chain that the service  *)
(* and the in-memory repository answer with (service.py, repository.py),   *)
(* and the longest chain of a graph view (graph_view.py).                  *)
(*                                                                         *)
(* rows is a function from the TDocs there are to their rows; a row's      *)
(* from and to are numbers of TDocs, which may not be there, or NoTDoc.    *)
(***************************************************************************)
EXTENDS Naturals, Sequences, FiniteSets, SequencesExt

NoTDoc == 0

-----------------------------------------------------------------------------
(* validate_graph: the depth-first search for a cycle of revises edges,     *)
(* pairs <<revision, predecessor>>.                                         *)

Targets(edges, t) == {e[2] : e \in {f \in edges : f[1] = t}}

Searching(todo, visiting, visited) ==
    [todo |-> todo, visiting |-> visiting, visited |-> visited]

\* any(visit(t) for t in todo), which ends at the first cycle: whether there
\* is one, and the nodes that were left.
Search(edges) ==
    LET nodes == {e[1] : e \in edges} \cup {e[2] : e \in edges}
        search[s \in [todo : SUBSET nodes, visiting : SUBSET nodes, visited : SUBSET nodes]] ==
            IF s.todo = {} THEN [cyclic |-> FALSE, visited |-> s.visited]
            ELSE LET t == CHOOSE t \in s.todo : TRUE
                     first == IF t \in s.visiting \cup s.visited
                              THEN [cyclic |-> t \in s.visiting, visited |-> s.visited]
                              ELSE search[Searching(Targets(edges, t), s.visiting \cup {t}, s.visited)]
                 IN  IF first.cyclic THEN first
                     ELSE search[Searching(s.todo \ {t}, s.visiting, first.visited \cup {t})]
    IN  search

CycleFound(edges) == Search(edges)[Searching({e[1] : e \in edges}, {}, {})].cyclic

-----------------------------------------------------------------------------
(* Chains.                                                                  *)

\* The row that a link leads to is there.
Leads(rows, t) == t # NoTDoc /\ t \in DOMAIN rows

\* First walk, from a revision to the one it was made from, while it is there
\* and until a TDoc comes up again.
WalkBack(rows, t) ==
    LET back[seen \in SUBSET DOMAIN rows] == [u \in DOMAIN rows |->
            IF u \in seen \/ ~Leads(rows, rows[u].from) THEN u
            ELSE back[seen \cup {u}][rows[u].from]]
    IN  back[{}][t]

\* Second walk, forward from there.
WalkForward(rows, t) ==
    LET forward[chain \in Seq(DOMAIN rows)] == [u \in DOMAIN rows |->
            IF u \in Range(chain) THEN chain
            ELSE IF Leads(rows, rows[u].to) THEN forward[Append(chain, u)][rows[u].to]
            ELSE Append(chain, u)]
    IN  forward[<<>>][t]

\* mutant: the walk back is left out
ForwardChain(rows, t) ==
    IF t \in DOMAIN rows THEN WalkForward(rows, t) ELSE <<>>

RevisionChain(rows, t) ==
    IF t \in DOMAIN rows THEN WalkForward(rows, WalkBack(rows, t)) ELSE <<>>

\* The path of revision_chain_stats, oldest first: it follows from alone.
PathTo(rows, t) ==
    LET back[path \in Seq(DOMAIN rows)] == [u \in DOMAIN rows |->
            IF u \in Range(path) THEN path
            ELSE IF Leads(rows, rows[u].from) THEN back[<<u>> \o path][rows[u].from]
            ELSE <<u>> \o path]
    IN  back[<<>>][t]

LexicographicallyLess(s, u) ==
    \E i \in DOMAIN s \cap DOMAIN u :
        s[i] < u[i] /\ \A j \in 1..(i - 1) : s[j] = u[j]

\* The longest path, and of these the least.
LongestChain(rows) ==
    LET paths == {PathTo(rows, t) : t \in DOMAIN rows}
    IN  IF paths = {} THEN <<>>
        ELSE CHOOSE p \in paths : \A q \in paths \ {p} :
                \/ Len(p) > Len(q)
                \/ Len(p) = Len(q) /\ LexicographicallyLess(p, q)

-----------------------------------------------------------------------------
(* What they are compared with.                                             *)

\* Some TDocs among which every one was revised from another of them.
HasCycle(edges) ==
    \E S \in (SUBSET {e[1] : e \in edges}) \ {{}} :
        \A t \in S : Targets(edges, t) \cap S # {}

FromEdges(rows) == {<<t, rows[t].from>> : t \in {u \in DOMAIN rows : Leads(rows, rows[u].from)}}

ToEdges(rows) == {<<rows[t].to, t>> : t \in {u \in DOMAIN rows : Leads(rows, rows[u].to)}}

\* The two links of a row and its neighbours agree, as far as these are there.
LinksAgree(rows) == FromEdges(rows) = ToEdges(rows)
=============================================================================
