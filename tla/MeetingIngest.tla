---------------------------- MODULE MeetingIngest ----------------------------
(***************************************************************************)
(* ingest-manifests (local_ingest.py) and graph-rebuild (graph_repair.py)  *)
(* on one inactive dataset version: successive runs over manifests that    *)
(* may have changed in between, each of which may be killed, or end with   *)
(* an exception, between any two transactions.                             *)
(*                                                                         *)
(* A step is one transaction.  The bodies of a meeting's documents are     *)
(* taken in any order; how the pool of workers shares them out, and what a *)
(* lost acknowledgement does, is IngestPool's.  Of a TDoc's facts the      *)
(* graph keeps containment and revision; those about companies, agenda,    *)
(* topics, specifications, releases, work items and change requests are    *)
(* written and dated with the revision, by the same code.                  *)
(***************************************************************************)
EXTENDS Revisions

CONSTANTS
    Meeting,    \* naturals, in the order of the manifest
    TDoc,       \* positive naturals; of some there may never be a row
    Artifact,   \* files of the source with their content, see Source
    Manifest,   \* what runs may be given, see Given
    Fault,      \* {"commit"}: the transaction of a body may fail to commit
    MaxRuns     \* bound of the model on runs

Undated == 0    \* a date that is NULL
NoFile == 0     \* instead of a url
NoMeeting == 0  \* instead of a meeting

\* url: in the order of filenames and, among copies of one archive, of
\* preference; document: the id its body is stored under, which is the TDoc's
\* for an archive, and made from meeting and content for a report (in the
\* order of those ids); fate: what the parser makes of it; date: the range its
\* text shows; long: its text has 50 blocks or more.
Source == [url : Nat, kind : {"report", "tdoc", "other"}, meeting : Meeting,
           document : Nat, fate : {"body", "unsafe", "unsupported", "broken"},
           date : Nat, long : BOOLEAN]

\* entries: what was downloaded; index: rows of each meeting's TDoc list, the
\* workbook that is selected, as a function from the TDocs it lists.
Given == [entries : SUBSET Artifact,
          index : [Meeting -> UNION {[S -> [from : TDoc \cup {NoTDoc}, to : TDoc \cup {NoTDoc}]]
                                     : S \in SUBSET TDoc}]]

ASSUME IngestAssumption ==
    /\ Meeting \subseteq Nat \ {NoMeeting}
    /\ TDoc \subseteq Nat \ {NoTDoc}
    /\ IsFiniteSet(TDoc)
    /\ Artifact \subseteq Source
    /\ \A a, b \in Artifact : a.url # NoFile /\ (a.url = b.url => a = b)
    /\ \A a \in Artifact :
            /\ a.kind = "tdoc" => a.document \in TDoc
            /\ a.kind = "report" => a.document \notin TDoc \cup {NoTDoc}
    /\ Manifest \subseteq Given
    /\ Fault \subseteq {"commit"}
    /\ MaxRuns \in Nat

VARIABLES
    dataset,    \* state of the dataset version
    meetings,   \* meetings with a row
    date,       \* its dates
    row,        \* TDoc rows: links and the meeting that owns each
    artifact,   \* parse status and error of each artifact
    body,       \* url of the file whose content is stored under a document id
    evidence,   \* evidence: source, meeting and meeting_time
    node,       \* TDoc nodes of the graph
    edge,       \* contains and revises edges, with valid_at
    run,        \* the command under way
    runs,       \* runs so far (bound of the model)
    misread,    \* history: meetings to which a run gave dates that were not stored
    amended     \* history: TDocs that a later index listed with other links

stored == <<dataset, meetings, date, row, artifact, body, evidence, node, edge>>
graph == <<node, edge>>
vars == <<stored, run, runs, misread, amended>>

-----------------------------------------------------------------------------
NoRow == [owner |-> NoMeeting, from |-> NoTDoc, to |-> NoTDoc]

Rows == [t \in {u \in TDoc : row[u] # NoRow} |-> row[t]]

NotSeen == [status |-> "absent", error |-> "none"]

Settled == {"parsed", "quarantined"}

NoGiven == [entries |-> {}, index |-> <<>>]

Stopped == [phase |-> "idle", given |-> NoGiven, left |-> {}, meeting |-> NoMeeting,
            date |-> Undated, todo |-> {}]

Documents == {a.document : a \in Artifact}

Init ==
    /\ dataset = "none"
    /\ meetings = {}
    /\ date = [m \in Meeting |-> Undated]
    /\ row = [t \in TDoc |-> NoRow]
    /\ artifact = [a \in Artifact |-> NotSeen]
    /\ body = [d \in Documents |-> NoFile]
    /\ evidence = {}
    /\ node = [t \in TDoc |-> "absent"]
    /\ edge = {}
    /\ run = Stopped
    /\ runs = 0
    /\ misread = {}
    /\ amended = {}

-----------------------------------------------------------------------------
(* What the transactions are made of (pipeline.py).                         *)

\* mutant: the facts of the meeting's TDocs are forgotten
DateContainment(m, d, found) ==
    /\ date' = [date EXCEPT ![m] = d]
    /\ evidence' = {IF e.meeting = m /\ e.time = Undated THEN [e EXCEPT !.time = d] ELSE e
                    : e \in found}
    /\ edge' = {IF e.kind = "contains" /\ e.source = m /\ e.time = Undated
                THEN [e EXCEPT !.time = d] ELSE e : e \in edge}

\* update_meeting_dates, where found is the evidence there is with what the
\* transaction has added: what has no date yet gets the meeting's.
Date(m, d, found) ==
    /\ date' = [date EXCEPT ![m] = d]
    /\ evidence' = {IF e.meeting = m /\ e.time = Undated THEN [e EXCEPT !.time = d] ELSE e
                    : e \in found}
    /\ edge' = {IF /\ e.time = Undated
                   /\ \/ e.kind = "contains" /\ e.source = m
                      \/ e.kind = "revises" /\ row[e.source].owner = m
                THEN [e EXCEPT !.time = d] ELSE e : e \in edge}

\* It raises when the meeting has another date.
DatesConflict(m, d) == date[m] \notin {Undated, d}

Fact(kind, source, target) == [kind |-> kind, source |-> source, target |-> target]

\* persist_tdoc_graph_batch for TDocs with the given rows, listed by m, on
\* top of the nodes and edges there are: a placeholder gives way to the TDoc,
\* and an edge that is there stays as it is.
NodesWith(nodes, rows) ==
    [t \in TDoc |->
        IF t \in DOMAIN rows THEN "tdoc"
        ELSE IF nodes[t] = "absent" /\ \E u \in DOMAIN rows : rows[u].from = t
        THEN "placeholder" ELSE nodes[t]]

FactsOf(m, rows) ==
    {Fact("contains", m, t) : t \in DOMAIN rows}
        \cup {Fact("revises", t, rows[t].from) :
                t \in {u \in DOMAIN rows : rows[u].from # NoTDoc}}

FactOf(e) == Fact(e.kind, e.source, e.target)

Facts == {FactOf(e) : e \in edge}

EdgesWith(edges, m, rows, time) ==
    edges \cup {[kind |-> f.kind, source |-> f.source, target |-> f.target, time |-> time]
                : f \in FactsOf(m, rows) \ {FactOf(e) : e \in edges}}

\* validate_graph, and that there is something to validate.
RevisesIn(edges) == {<<e.source, e.target>> : e \in {f \in edges : f.kind = "revises"}}

Valid(ms, rows, nodes, edges) ==
    /\ ms # {} /\ DOMAIN rows # {}
    /\ \A e \in edges :
            /\ e.kind = "revises" => nodes[e.source] # "absent"
            /\ nodes[e.target] # "absent"
    /\ ~CycleFound(RevisesIn(edges))

-----------------------------------------------------------------------------
(* ingest_local_manifests                                                   *)

\* The commands of the model are run one after the other.
StartRun(given, chosen) ==
    /\ run.phase = "idle"
    /\ runs < MaxRuns
    /\ runs' = runs + 1
    /\ dataset' = "building"
    /\ run' = [Stopped EXCEPT !.phase = "open", !.given = given, !.left = chosen]
    /\ UNCHANGED <<meetings, date, row, artifact, body, evidence, graph, misread, amended>>

\* A meeting has been left when nothing is left over.
Left == run.phase = "leftovers" /\ run.todo = {}

\* The meeting as _ingest_local_meeting makes it has no dates, and
\* persist_meeting does not look at those of a row that is there.
OpenMeeting ==
    /\ run.phase = "open" \/ Left
    /\ \E m \in run.left :
        /\ \A other \in run.left : m <= other
        /\ meetings' = meetings \cup {m}
        /\ run' = [run EXCEPT !.phase = "index", !.meeting = m, !.date = Undated,
                             !.left = @ \ {m}, !.todo = {}]
    /\ UNCHANGED <<dataset, date, row, artifact, body, evidence, graph, runs, misread, amended>>

\* validate_dataset; when it raises, the version stays building.
Validate ==
    /\ Left
    /\ run.left = {}
    /\ dataset' = IF Valid(meetings, Rows, node, edge) THEN "validated" ELSE dataset
    /\ run' = Stopped
    /\ UNCHANGED <<meetings, date, row, artifact, body, evidence, graph, runs, misread, amended>>

\* The process is killed, or an exception leaves the run: an object cannot be
\* read or has another hash, the workbook cannot be parsed, the database fails.
Stop ==
    /\ run.phase # "idle"
    /\ run' = Stopped
    /\ UNCHANGED <<stored, runs, misread, amended>>

-----------------------------------------------------------------------------
(* _ingest_local_meeting                                                    *)

Entries(kind) == {a \in run.given.entries : a.kind = kind /\ a.meeting = run.meeting}

Index == run.given.index[run.meeting]

Proof(index, of) ==
    [index |-> index, of |-> of, meeting |-> run.meeting, time |-> run.date]

Proved == {<<e.index, e.of>> : e \in evidence}

\* mutant: rows of other meetings' TDocs get their facts as well
ListedTwice(t) == TRUE

\* The TDocs of the index that are new or this meeting's own.
IsMine(t) == row[t] \in {NoRow} \/ row[t].owner = run.meeting

\* ingest_tdoc_workbook: a row that is there stays as it is.
IngestIndex ==
    LET mine == {t \in DOMAIN Index : IsMine(t)}
        facts == [t \in mine |-> Index[t]]
    IN
    /\ run.phase = "index"
    /\ row' = [t \in TDoc |->
            IF t \in DOMAIN Index /\ row[t] = NoRow
            THEN [owner |-> run.meeting, from |-> Index[t].from, to |-> Index[t].to]
            ELSE row[t]]
    /\ evidence' = evidence \cup
            {Proof(Index, t) : t \in {u \in DOMAIN Index : <<Index, u>> \notin Proved}}
    /\ node' = NodesWith(node, facts)
    /\ edge' = EdgesWith(edge, run.meeting, facts, run.date)
    /\ run' = [run EXCEPT !.phase = "others", !.todo = Entries("other")]
    /\ amended' = amended \cup
            {t \in mine : [from |-> row'[t].from, to |-> row'[t].to] # Index[t]}
    /\ UNCHANGED <<dataset, meetings, date, artifact, body, runs, misread>>

\* persist_raw_artifact, or the artifact's row in another transaction.
Mark(a, status, error) ==
    artifact' = [artifact EXCEPT ![a] = [status |-> status, error |-> error]]

Done(a) == run' = [run EXCEPT !.todo = @ \ {a}]

\* Agendas, other workbooks and other files are stored and not parsed.
StoreOther(a) ==
    /\ run.phase = "others"
    /\ a \in run.todo
    /\ Mark(a, "not_applicable", "none")
    /\ Done(a)
    /\ UNCHANGED <<dataset, meetings, date, row, body, evidence, graph, runs, misread, amended>>

\* The statuses are read once for the reports and once for the documents; in
\* between nobody else sets those that are asked for.
BeginReports ==
    /\ run.phase = "others"
    /\ run.todo = {}
    /\ run' = [run EXCEPT !.phase = "reports",
            !.todo = {a \in Entries("report") : artifact[a].status \notin Settled}]
    /\ UNCHANGED <<stored, runs, misread, amended>>

-----------------------------------------------------------------------------
(* _ingest_report                                                           *)

NextReport(a) ==
    /\ run.phase = "reports"
    /\ a \in run.todo
    /\ \A b \in run.todo : a.url <= b.url

\* Neither parser nor database object to its content.
Storable(a) == a.fate = "body" /\ body[a.document] = NoFile

\* ingest_document_artifact: the artifact's row, its blocks and its chunks,
\* and the evidence of the blocks.
Ingest(a) ==
    /\ Storable(a)
    /\ body' = [body EXCEPT ![a.document] = a.url]
    /\ Mark(a, "parsed", "none")

WithBody(a) == evidence \cup {Proof(<<>>, a.url)}

\* The date that the run takes the meeting to have once a is parsed.
DateRead(a) == IF run.date = Undated THEN a.date ELSE run.date

\* No extension of a document.
SkipReport(a) ==
    /\ NextReport(a)
    /\ a.fate = "unsupported"
    /\ Mark(a, "not_applicable", "content")
    /\ Done(a)
    /\ UNCHANGED <<dataset, meetings, date, row, body, evidence, graph, runs, misread, amended>>

\* Its body is stored, and the first date found becomes the meeting's.
StoreReport(a) ==
    /\ NextReport(a)
    /\ Ingest(a)
    /\ IF run.date = Undated /\ a.date # Undated
       THEN ~DatesConflict(run.meeting, a.date) /\ Date(run.meeting, a.date, WithBody(a))
       ELSE evidence' = WithBody(a) /\ UNCHANGED <<date, edge>>
    /\ run' = [run EXCEPT !.todo = @ \ {a}, !.date = DateRead(a)]
    /\ UNCHANGED <<dataset, meetings, row, node, runs, misread, amended>>

\* The parser raises, or its document id is taken: before any date is read.
FailReport(a) ==
    /\ NextReport(a)
    /\ a.fate # "unsupported"
    /\ ~Storable(a)
    /\ Mark(a, "failed", IF a.fate = "body" THEN "taken" ELSE "content")
    /\ Done(a)
    /\ UNCHANGED <<dataset, meetings, date, row, body, evidence, graph, runs, misread, amended>>

\* The meeting has another date, or the commit fails: nothing is stored, but
\* the run keeps the date it read.
UndoReport(a) ==
    /\ NextReport(a)
    /\ Storable(a)
    /\ \/ run.date = Undated /\ a.date # Undated /\ DatesConflict(run.meeting, a.date)
       \/ "commit" \in Fault
    /\ Mark(a, "failed", "undone")
    /\ run' = [run EXCEPT !.todo = @ \ {a}, !.date = DateRead(a)]
    /\ misread' = IF DateRead(a) \in {Undated, date[run.meeting]} THEN misread
                  ELSE misread \cup {run.meeting}
    /\ UNCHANGED <<dataset, meetings, date, row, body, evidence, graph, runs, amended>>

-----------------------------------------------------------------------------
(* The documents.                                                           *)

\* _recover_persisted_report_dates reads 50 blocks of the stored reports, in
\* the order of their ids; which of their dates the patterns find is open.
ReportsRead ==
    LET reports == {a \in Artifact : /\ a.kind = "report" /\ a.meeting = run.meeting
                                     /\ body[a.document] = a.url}
    IN  {a \in reports : \A b \in reports : b.long => b.document >= a.document}

DatesFound ==
    LET dates == {a.date : a \in ReportsRead} \ {Undated}
    IN  IF dates = {} THEN {Undated} ELSE dates

Archives == Entries("tdoc")

\* _select_document_entries: of the copies of an archive, one.
Canonical == {a \in Archives : \A b \in Archives : b.document = a.document => b.url <= a.url}

Matched == {a \in Canonical : a.document \in DOMAIN Index}

\* mutant: what is parsed is taken up again
NotRefused(a) == artifact[a].status \notin {"quarantined", "not_applicable"}

Pending(a) == artifact[a].status \notin Settled \cup {"not_applicable"}

\* Dates are recovered when no report of this run gave one.
FinishReports ==
    /\ run.phase = "reports"
    /\ run.todo = {}
    /\ \E d \in IF run.date = Undated THEN DatesFound ELSE {Undated} :
        \/ /\ d = Undated
           /\ run' = [run EXCEPT !.phase = "documents", !.todo = {a \in Matched : Pending(a)}]
           /\ UNCHANGED <<date, evidence, edge>>
        \/ /\ d # Undated
           /\ ~DatesConflict(run.meeting, d)
           /\ run' = [run EXCEPT !.phase = "documents", !.todo = {a \in Matched : Pending(a)},
                                !.date = d]
           /\ Date(run.meeting, d, evidence)
        \/ /\ d # Undated
           /\ DatesConflict(run.meeting, d)
           /\ run' = Stopped
           /\ UNCHANGED <<date, evidence, edge>>
    /\ UNCHANGED <<dataset, meetings, row, artifact, body, node, runs, misread, amended>>

NextDocument(a) == run.phase = "documents" /\ a \in run.todo

StoreDocument(a) ==
    /\ NextDocument(a)
    /\ Ingest(a)
    /\ evidence' = WithBody(a)
    /\ Done(a)
    /\ UNCHANGED <<dataset, meetings, date, row, graph, runs, misread, amended>>

\* The parser refuses it, its document id is taken, or the commit fails.
RefuseDocument(a) ==
    /\ NextDocument(a)
    /\ \/ a.fate = "unsafe" /\ Mark(a, "quarantined", "content")
       \/ a.fate = "unsupported" /\ Mark(a, "not_applicable", "content")
       \/ a.fate = "broken" /\ Mark(a, "failed", "content")
       \/ a.fate = "body" /\ ~Storable(a) /\ Mark(a, "failed", "taken")
       \/ Storable(a) /\ "commit" \in Fault /\ Mark(a, "failed", "undone")
    /\ Done(a)
    /\ UNCHANGED <<dataset, meetings, date, row, body, evidence, graph, runs, misread, amended>>

\* Further copies, and archives without a row in the index.
LeftOver(a) == a \in Archives \ Matched /\ artifact[a].status # "not_applicable"

FinishDocuments ==
    /\ run.phase = "documents"
    /\ run.todo = {}
    /\ run' = [run EXCEPT !.phase = "leftovers", !.todo = {a \in Archives : LeftOver(a)}]
    /\ UNCHANGED <<stored, runs, misread, amended>>

StoreLeftOver(a) ==
    /\ run.phase = "leftovers"
    /\ a \in run.todo
    /\ Mark(a, "not_applicable", IF a \in Canonical THEN "orphan" ELSE "copy")
    /\ Done(a)
    /\ UNCHANGED <<dataset, meetings, date, row, body, evidence, graph, runs, misread, amended>>

-----------------------------------------------------------------------------
(* graph-rebuild                                                            *)

RowsOf(m) == [t \in {u \in DOMAIN Rows : row[u].owner = m} |-> row[t]]

RebuiltEdges == UNION {EdgesWith({}, m, RowsOf(m), date[m]) : m \in meetings}

RebuiltNodes == NodesWith([t \in TDoc |-> "absent"], Rows)

\* All is taken back when it does not validate.
RebuildGraph ==
    /\ run.phase = "idle"
    /\ dataset # "none"
    /\ Valid(meetings, Rows, RebuiltNodes, RebuiltEdges)
    /\ node' = RebuiltNodes
    /\ edge' = RebuiltEdges
    /\ dataset' = "validated"
    /\ amended' = {}
    /\ UNCHANGED <<meetings, date, row, artifact, body, evidence, run, runs, misread>>

IngestArtifact(a) ==
    \/ StoreOther(a)
    \/ SkipReport(a) \/ StoreReport(a) \/ FailReport(a) \/ UndoReport(a)
    \/ StoreDocument(a) \/ RefuseDocument(a)
    \/ StoreLeftOver(a)

Next ==
    \/ \E given \in Manifest, chosen \in (SUBSET Meeting) \ {{}} : StartRun(given, chosen)
    \/ OpenMeeting
    \/ IngestIndex
    \/ BeginReports
    \/ \E a \in Artifact : IngestArtifact(a)
    \/ FinishReports
    \/ FinishDocuments
    \/ Validate
    \/ Stop
    \/ RebuildGraph

Spec == Init /\ [][Next]_vars

-----------------------------------------------------------------------------
(* Safety.                                                                  *)

Meetings(e) == IF e.kind = "contains" THEN e.source ELSE row[e.source].owner

\* What was stored of a meeting bears its date or none, even after kills and
\* resumed runs, unless some run went on with a date that was not stored; and
\* where a run that knows the date leaves a meeting, nothing of it is undated,
\* unless a report whose date the run read was undone: the date may be the
\* stored one, and still nobody gives it to what a changed index added.
Undone(a) == artifact[a].error = "undone"

Dated ==
    /\ \A e \in evidence : e.time \in {Undated, date[e.meeting]} \/ e.meeting \in misread
    /\ \A e \in edge : e.time \in {Undated, date[Meetings(e)]} \/ Meetings(e) \in misread
    /\ Left /\ run.date # Undated /\ run.meeting \notin misread
            /\ (\A a \in Entries("report") : ~Undone(a)) =>
        /\ date[run.meeting] = run.date
        /\ \A e \in evidence : e.meeting = run.meeting => e.time = run.date
        /\ \A e \in edge : Meetings(e) = run.meeting => e.time = run.date

\* Why an artifact has the status it has.
Explained(a) ==
    CASE artifact[a].status = "parsed" -> a.kind # "other" /\ body[a.document] = a.url
      [] artifact[a].status = "quarantined" -> a.fate = "unsafe"
      [] artifact[a].status = "not_applicable" ->
            \/ a.kind = "other"
            \/ artifact[a].error = "content" /\ a.fate = "unsupported"
            \/ artifact[a].error \in {"orphan", "copy"}
      [] artifact[a].status = "failed" ->
            \/ artifact[a].error = "content" /\ a.fate \in {"broken", "unsafe"}
            \/ artifact[a].error = "taken" /\ body[a.document] \notin {NoFile, a.url}
            \/ artifact[a].error = "undone" /\ body[a.document] # a.url
      [] OTHER -> FALSE

\* Where a run leaves a meeting, every file of its manifest has a status that
\* tells what became of it, and of the archives that have a row only those are
\* without a body that the parser refused, whose document id another file has,
\* whose commit failed, or which an earlier manifest had made an orphan or a
\* copy: these stay unread, because not_applicable counts as settled.
Accounted ==
    Left =>
        /\ \A a \in run.given.entries : a.meeting = run.meeting => Explained(a)
        /\ \A a \in Archives \ Matched : artifact[a].status = "not_applicable"
        /\ \A a \in Matched : body[a.document] # NoFile
                \/ a.fate # "body"
                \/ artifact[a].error \in {"undone", "orphan", "copy"}

\* build_scope_graph over all meetings: what the graph view makes of the rows.
ScopeFacts ==
    {Fact("contains", row[t].owner, t) : t \in {u \in DOMAIN Rows : row[u].owner \in meetings}}
        \cup {Fact("revises", t, row[t].from) : t \in {u \in DOMAIN Rows : row[u].from # NoTDoc}}

\* Its nodes: a boundary node for a predecessor without a row.
ScopeNodes ==
    [t \in TDoc |-> IF t \in DOMAIN Rows THEN "tdoc"
                    ELSE IF \E u \in DOMAIN Rows : row[u].from = t THEN "placeholder"
                    ELSE "absent"]

\* The stored graph is the one that the graph view makes of the rows, whatever
\* the order in which meetings that list one TDoc were ingested, except for
\* links that a later index gave a TDoc whose row is kept; no fact is stored
\* twice, and a version that is validated still passes its validation.
GraphFollowsRows ==
    /\ ScopeFacts \subseteq Facts
    /\ \A f \in Facts \ ScopeFacts : f.kind = "revises" /\ f.source \in amended
    /\ \A e, f \in edge : FactOf(e) = FactOf(f) => e = f
    /\ amended = {} => node = ScopeNodes
    /\ dataset = "validated" => Valid(meetings, Rows, node, edge)

\* The walks over the revision links of the stored rows end, repeat no TDoc,
\* and find a family whole: where the links agree and no TDoc precedes itself,
\* all members have one chain, it is in order and complete, and the longest
\* one is as long as the longest path of the graph view.  The search for a
\* cycle finds one exactly if there is one; so there is none in a version that
\* is validated.
RevisionWalks ==
    LET chain == [t \in DOMAIN Rows |-> RevisionChain(Rows, t)]
        family == LinksAgree(Rows) /\ ~HasCycle(FromEdges(Rows))
    IN
    /\ CycleFound(RevisesIn(edge)) <=> HasCycle(RevisesIn(edge))
    /\ dataset = "validated" => ~HasCycle(RevisesIn(edge))
    /\ \A t \in DOMAIN Rows :
            /\ chain[t] # <<>> /\ IsInjective(chain[t])
            /\ LinksAgree(Rows) => t \in Range(chain[t])
            /\ family =>
                /\ \A u \in Range(chain[t]) : chain[u] = chain[t]
                /\ \A e \in FromEdges(Rows) : e[1] \in Range(chain[t]) <=> e[2] \in Range(chain[t])
                /\ \A i \in 1..(Len(chain[t]) - 1) : <<chain[t][i + 1], chain[t][i]>> \in FromEdges(Rows)
                /\ Len(chain[t]) <= Len(LongestChain(Rows))
    /\ family /\ DOMAIN Rows # {} =>
            \E t \in DOMAIN Rows : chain[t] = LongestChain(Rows)
=============================================================================
