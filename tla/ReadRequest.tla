---------------------------- MODULE ReadRequest -----------------------------
(***************************************************************************)
(* One request of the knowledge service (service.py) against the SQL       *)
(* repository on PostgreSQL (repository.py), while publication goes on.    *)
(*                                                                         *)
(* A request is a sequence of repository calls.  Each call opens a session *)
(* of its own, resolves the active version and then queries it; nothing    *)
(* carries the version from one call to the next.  Publication is taken    *)
(* from its abstract specification, which the commands implement when they *)
(* are run one after the other (PublicationProofs).                        *)
(*                                                                         *)
(* A meeting stands for itself and for the TDocs it lists.  Of its row the *)
(* model has the position that ORDER BY gives it: rows of one position tie *)
(* and are returned in any order, by each query anew.  Evidence ids are    *)
(* made from the dataset version and the TDoc: they are pairs of the two.  *)
(***************************************************************************)
EXTENDS Ordered, Functions

CONSTANTS
    Dataset,    \* dataset version identifiers
    NoDataset,
    Meeting,    \* meetings, as numbers
    Position,   \* values of ends_on and number, as numbers in their descending order
    Absent,     \* no row
    Content,    \* what a version may hold of all meetings: their positions
    Kind,       \* the requests that are made
    PageSize    \* meetings in a page (top_k)

VARIABLES
    current,    \* the version with is_active
    contents,   \* the position of each meeting's row in each version
    request,    \* the request under way
    during      \* history: the versions that were current since it began

vars == <<current, contents, request, during>>

Nothing == [m \in Meeting |-> Absent]

\* What is published holds a meeting.
Publication ==
    INSTANCE AtomicPublication WITH
        Publishable <- {content \in Content : \E m \in Meeting : content[m] # Absent}

-----------------------------------------------------------------------------
\* The repository calls of each operation of the service, in order.
Program ==
    [get_tdoc             |-> <<"tdoc", "evidence", "label">>,
     get_tdoc_detail      |-> <<"tdoc", "evidence", "label", "body">>,
     search_tdocs         |-> <<"tdocs", "evidence", "label">>,
     relevant_passages    |-> <<"passages", "evidence", "label">>,
     list_meetings        |-> <<"page", "label">>,
     meeting_summaries    |-> <<"page", "label", "counts">>,
     meeting_graph        |-> <<"meeting", "label", "tdocs_of", "evidence">>,
     newsletter_packet    |-> <<"meeting", "label", "tdocs_of", "evidence">>,
     meeting_facets       |-> <<"meeting", "tdocs_of", "label">>,
     working_group_graph  |-> <<"scope", "members", "label", "evidence">>,
     working_group_facets |-> <<"scope", "members", "label">>]

ASSUME ReadAssumption ==
    /\ Kind \subseteq DOMAIN Program
    /\ Meeting \subseteq Nat
    /\ IsFiniteSet(Meeting)
    /\ Position \subseteq Nat
    /\ Content \subseteq [Meeting -> Position \cup {Absent}]
    /\ Nothing \in Content
    /\ PageSize \in Nat \ {0}
    /\ NoDataset \notin Dataset

Facets == {"meeting_facets", "working_group_facets"}
Group == {"working_group_graph", "working_group_facets"}

\* Operations whose answer includes the evidence of what they found.
Citing == {kind \in DOMAIN Program : "evidence" \in Range(Program[kind])}

Call == {"tdoc", "tdocs", "passages", "page", "scope", "members", "meeting",
         "tdocs_of", "body", "counts", "evidence", "label"}

Idle == [kind |-> "none", meeting |-> 0, todo |-> <<>>, version |-> NoDataset,
         offset |-> 0, listed |-> <<>>, open |-> {},
         used |-> {}, cited |-> {}, evidence |-> {}, label |-> NoDataset]

TypeOK ==
    /\ current \in Dataset \cup {NoDataset}
    /\ contents \in [Dataset -> Content]
    /\ request.kind \in Kind \cup {"none"}
    /\ request.todo \in Seq(Call)
    /\ request.version \in Dataset \cup {NoDataset}    \* resolved by the call under way
    /\ request.offset \in Nat
    /\ request.listed \in Seq(Meeting)                 \* meetings of the pages read
    /\ request.open \subseteq Nat                      \* of these, the TDocs are still to be read
    /\ request.used \subseteq Dataset                  \* versions whose rows are in the answer
    /\ request.cited \subseteq Dataset \X Meeting      \* evidence ids of what was found
    /\ request.evidence \subseteq request.cited
    /\ request.label \in Dataset \cup {NoDataset}      \* dataset_version of the answer
    /\ during \subseteq Dataset \cup {NoDataset}

Init ==
    /\ Publication!Init
    /\ request = Idle
    /\ during = {}

-----------------------------------------------------------------------------
Stored(v) == {m \in Meeting : contents[v][m] # Absent}

\* ORDER BY ends_on DESC, number DESC: meetings that end on one day and differ in
\* their variant only tie, and so do those without dates.
Listings(v) == Orderings(Stored(v), contents[v])

\* OFFSET offset LIMIT limit
Page(listing, offset) ==
    SubSeq(listing, offset + 1,
           IF Len(listing) < offset + PageSize THEN Len(listing) ELSE offset + PageSize)

\* One row more than the page is asked for, to know whether there are more.
More(v, offset) == Cardinality(Stored(v)) > offset + PageSize

UnderWay == request.kind # "none"

NextCall(call) == UnderWay /\ request.todo # <<>> /\ Head(request.todo) = call

\* The call has resolved its version and is about to query it.
Querying(call) == NextCall(call) /\ request.version # NoDataset

Rest == Tail(request.todo)

\* What is left when the opening call found nothing: facets answer 404, evidence
\* and counts of nothing are not looked up, the rest is not reached.
Otherwise == IF request.kind \in Facets THEN <<>> ELSE <<"label">>

\* The request after a query of the resolved version.
Queried == [request EXCEPT !.version = NoDataset, !.used = @ \cup {request.version}]

Answer(answer) == request' = answer /\ UNCHANGED <<current, contents, during>>

\* The exception of a call ends the request.
Fail == request' = Idle /\ during' = {} /\ UNCHANGED <<current, contents>>

-----------------------------------------------------------------------------
Begin(kind, m) ==
    /\ ~UnderWay
    /\ request' = [Idle EXCEPT !.kind = kind, !.meeting = m, !.todo = Program[kind]]
    /\ during' = {current}
    /\ UNCHANGED <<current, contents>>

\* mutant: WHERE is_active is forgotten
ResolveAny ==
    /\ UnderWay /\ request.todo # <<>> /\ Head(request.todo) # "label"
    /\ request.version = NoDataset
    /\ NextCall("evidence") => request.cited # {}
    /\ \E d \in Dataset : Stored(d) # {} /\ Answer([request EXCEPT !.version = d])

\* active_dataset_version, at the beginning of every repository call
Resolve ==
    /\ UnderWay /\ request.todo # <<>> /\ Head(request.todo) # "label"
    /\ request.version = NoDataset
    /\ NextCall("evidence") => request.cited # {}
    /\ IF current = NoDataset THEN Fail ELSE Answer([request EXCEPT !.version = current])

\* What a query by id, or by filters that match everything, finds.
Found(call) ==
    CASE call = "tdocs"  -> Stored(request.version)
      [] call = "counts" -> Stored(request.version) \cap Range(request.listed)
      [] OTHER           -> Stored(request.version) \cap {request.meeting}

\* mutant: evidence ids do not tell versions apart and name the first that had them
CitedOfFirst(found) ==
    IF request.kind \in Citing
    THEN request.cited \cup ({CHOOSE d \in Dataset : TRUE} \X found)
    ELSE request.cited

Cited(found) ==
    IF request.kind \in Citing THEN request.cited \cup ({request.version} \X found)
    ELSE request.cited

\* get_tdoc, search_tdocs and meeting open a request: nothing found, nothing more.
Find ==
    \E call \in {"tdoc", "tdocs", "meeting"} :
        /\ Querying(call)
        /\ Answer([Queried EXCEPT
                     !.cited = IF call = "meeting" THEN @ ELSE Cited(Found(call)),
                     !.todo = IF Found(call) = {} THEN Otherwise ELSE Rest])

\* meeting_tdocs, document_blocks, document_section_tree, meeting_tdoc_counts
Detail ==
    \E call \in {"tdocs_of", "body", "counts"} :
        /\ Querying(call)
        /\ Answer([Queried EXCEPT
                     !.cited = IF call = "tdocs_of" THEN Cited(Found(call)) ELSE @,
                     !.todo = Rest])

\* list_meetings, one page
ReadPage ==
    /\ Querying("page")
    /\ \E listing \in Listings(request.version) :
         LET page == Page(listing, request.offset) IN
         Answer([Queried EXCEPT !.listed = page,
                                !.todo = IF page # <<>> THEN Rest ELSE Otherwise])

\* mutant: the row read beyond the page is skipped
NextOffsetBeyond == request.offset + PageSize + 1

NextOffset == request.offset + PageSize

\* _working_group_scope: pages until there is no cursor, ...
ReadScope ==
    LET more == More(request.version, request.offset) IN
    /\ Querying("scope")
    /\ \E listing \in Listings(request.version) :
         LET listed == request.listed \o Page(listing, request.offset) IN
         Answer([Queried EXCEPT
                   !.listed = listed,
                   !.open = IF more THEN @ ELSE DOMAIN listed,
                   !.offset = IF more THEN NextOffset ELSE @,
                   !.todo = IF more THEN @ ELSE IF listed = <<>> THEN Otherwise ELSE Rest])

\* mutant: a meeting without TDocs is asked for again
ReadMemberUntilFound(i) ==
    LET found == Stored(request.version) \cap {request.listed[i]}
        open == IF found = {} THEN request.open ELSE request.open \ {i}
    IN
    /\ Querying("members")
    /\ i \in request.open
    /\ Answer([Queried EXCEPT
                 !.open = open,
                 !.cited = Cited(found),
                 !.todo = IF open = {} THEN Rest ELSE @])

\* ... then the TDocs of each meeting listed, gathered in any order.
ReadMember(i) ==
    /\ Querying("members")
    /\ i \in request.open
    /\ Answer([Queried EXCEPT
                 !.open = @ \ {i},
                 !.cited = Cited(Stored(request.version) \cap {request.listed[i]}),
                 !.todo = IF request.open = {i} THEN Rest ELSE @])

\* search_passages ranks chunk ids within the version, then loads the rows of
\* these ids from any version that has them: a chunk's id is made from its
\* document and text, and is unique within a version only.
ReadPassages ==
    LET ranked == Stored(request.version) IN
    /\ Querying("passages") /\ request.kind = "relevant_passages"
    /\ \E row \in [ranked -> Dataset] :
         /\ \A m \in ranked : m \in Stored(row[m])
         /\ Answer([Queried EXCEPT
                      !.used = @ \cup {request.version} \cup Range(row),
                      !.cited = {<<row[m], m>> : m \in ranked},
                      !.todo = IF ranked = {} THEN Otherwise ELSE Rest])

\* evidence: no ids, no query
SkipEvidence ==
    /\ NextCall("evidence")
    /\ request.cited = {}
    /\ Answer([request EXCEPT !.todo = Rest])

\* mutant: all evidence of the version, whatever was asked for
ReadEvidenceOfAll ==
    /\ Querying("evidence")
    /\ Answer([Queried EXCEPT !.evidence = {request.version} \X Stored(request.version),
                              !.todo = Rest])

ReadEvidence ==
    /\ Querying("evidence")
    /\ Answer([Queried EXCEPT
                 !.evidence = {c \in request.cited : c[1] = request.version},
                 !.todo = Rest])

\* The version the answer names.
ReadLabel ==
    /\ NextCall("label")
    /\ IF current = NoDataset THEN Fail
       ELSE Answer([request EXCEPT !.label = current, !.todo = Rest])

Respond ==
    /\ UnderWay
    /\ request.todo = <<>>
    /\ request' = Idle
    /\ during' = {}
    /\ UNCHANGED <<current, contents>>

Reader ==
    \/ Resolve
    \/ Find \/ Detail \/ ReadPage \/ ReadScope \/ ReadPassages
    \/ \E i \in request.open : ReadMember(i)
    \/ SkipEvidence \/ ReadEvidence \/ ReadLabel
    \/ Respond

Publishing ==
    /\ Publication!Next
    /\ during' = IF UnderWay THEN during \cup {current'} ELSE during
    /\ UNCHANGED request

Next ==
    \/ \E kind \in Kind, m \in Meeting : Begin(kind, m)
    \/ Reader
    \/ Publishing

Spec == Init /\ [][Next]_vars

\* The database answers; nothing obliges clients to ask or operators to publish.
FairSpec == Spec /\ WF_vars(Reader)

-----------------------------------------------------------------------------
Answered == UnderWay /\ request.todo = <<>>

\* Nothing was published since the request began.
Quiet == \E d \in Dataset : during = {d}

\* The answer is from one version, the current one, and comes with the evidence of
\* everything that was found.
FromOneVersion ==
    /\ request.used \cup ({request.label} \ {NoDataset}) \subseteq during
    /\ request.evidence = request.cited

\* A request that no activation overlaps is answered from one version, with all
\* its evidence, although each repository call resolves the version anew.  This
\* leaves out passages, see PassagesFromOneVersion.
QuietIsConsistent ==
    Answered /\ Quiet /\ request.kind # "relevant_passages" => FromOneVersion

\* What docs/evidence-policy.md says of every request: it is evaluated entirely
\* against one version; here for passages, and without any activation.
PassagesFromOneVersion ==
    Answered /\ Quiet /\ request.kind = "relevant_passages" => FromOneVersion

Tied(v, m, n) == contents[v][m] = contents[v][n]

\* Such a request for a working group lists as many rows as there are meetings,
\* and in each place one that ties with what a single query would have there,
\* however many pages that takes.  So what ties with nothing is listed once; the
\* OFFSET of the next page may skip one and repeat another of those that tie.
QuietScopeUpToTies ==
    Answered /\ Quiet /\ request.kind \in Group =>
        /\ \E listing \in Listings(current) :
             /\ Len(request.listed) = Len(listing)
             /\ \A i \in DOMAIN listing : Tied(current, request.listed[i], listing[i])
        /\ \A m \in Stored(current) :
             (\A n \in Stored(current) \ {m} : ~Tied(current, m, n)) =>
                 \E i \in DOMAIN request.listed :
                     \A j \in DOMAIN request.listed : request.listed[j] = m <=> j = i

\* Whatever is published in the meantime, no version is resolved, read or named
\* that was not current at some moment of the request (but for the rows of
\* passages).
OnlyPublishedRead ==
    /\ {request.version, request.label} \ {NoDataset} \subseteq during
    /\ request.kind # "relevant_passages" => request.used \subseteq during

\* A request is answered in the end, although publication may go on for ever
\* and the versions whose pages it reads differ.
RequestEnds == UnderWay ~> ~UnderWay
=============================================================================
