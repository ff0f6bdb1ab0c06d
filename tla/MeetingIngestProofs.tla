------------------------- MODULE MeetingIngestProofs -------------------------
(***************************************************************************)
(* Proofs about MeetingIngest for any meetings, files, manifests and       *)
(* faults, over any number of runs that may be killed between any two      *)
(* transactions: what is dated bears the meeting's date, every file is     *)
(* accounted for where a run leaves a meeting, the stored graph is the one *)
(* that the rows give, and the walks over revision links end and are what  *)
(* they should be.                                                         *)
(***************************************************************************)
EXTENDS MeetingIngest, OrderedProofs, SequenceTheorems, TLAPS

\* The types.
Number == TDoc \cup {NoTDoc}
RowType == [owner : Meeting, from : Number, to : Number] \cup {NoRow}
Status == {"absent", "parsed", "quarantined", "not_applicable", "failed"}
Error == {"none", "content", "taken", "undone", "orphan", "copy"}
EdgeType == [kind : {"contains"}, source : Meeting, target : TDoc, time : Nat]
                \cup [kind : {"revises"}, source : TDoc, target : TDoc, time : Nat]
Phase == {"idle", "open", "index", "others", "reports", "documents", "leftovers"}

IsProof(e) ==
    /\ e = [index |-> e.index, of |-> e.of, meeting |-> e.meeting, time |-> e.time]
    /\ e.meeting \in Meeting

Typing ==
    /\ dataset \in {"none", "building", "validated"}
    /\ meetings \subseteq Meeting
    /\ date \in [Meeting -> Nat]
    /\ row \in [TDoc -> RowType]
    /\ artifact \in [Artifact -> [status : Status, error : Error]]
    /\ body \in [Documents -> Nat]
    /\ \A e \in evidence : IsProof(e)
    /\ node \in [TDoc -> {"absent", "placeholder", "tdoc"}]
    /\ edge \subseteq EdgeType
    /\ run \in [phase : Phase, given : Given \cup {NoGiven}, left : SUBSET Meeting,
                meeting : Meeting \cup {NoMeeting}, date : Nat, todo : SUBSET Artifact]

\* Where a run stands: it works on a meeting that has its row, and what it has
\* left to do there is of the kind it is at.
Standing ==
    /\ run.phase # "idle" => dataset = "building" /\ run.given \in Manifest
    /\ run.phase \in {"idle", "open", "index", "others"} => run.date = Undated
    /\ run.phase \in {"idle", "open", "index"} => run.todo = {}
    /\ run.phase \notin {"idle", "open"} => run.meeting \in meetings
    /\ run.phase = "others" => run.todo \subseteq Entries("other")
    /\ run.phase = "reports" =>
            run.todo \subseteq {a \in Entries("report") : artifact[a].status \notin Settled}
    /\ run.phase = "documents" => run.todo \subseteq {a \in Matched : Pending(a)}
    /\ run.phase = "leftovers" => run.todo \subseteq Archives \ Matched

\* A date that a run goes by is the stored one, ...
Known == run.date # Undated => run.meeting \in misread \/ date[run.meeting] = run.date

\* ... what was stored bears it or none, ...
OfDate ==
    /\ \A e \in evidence : e.time \in {Undated, date[e.meeting]} \/ e.meeting \in misread
    /\ \A e \in edge : e.time \in {Undated, date[Meetings(e)]} \/ Meetings(e) \in misread

\* ... and it bears it when the report that showed it was stored.
Faithful ==
    run.date # Undated /\ run.meeting \notin misread
            /\ (\A a \in Entries("report") \ run.todo : ~Undone(a)) =>
        /\ \A e \in evidence : e.meeting = run.meeting => e.time = run.date
        /\ \A e \in edge : Meetings(e) = run.meeting => e.time = run.date

Seen(a) == artifact[a].status # "absent"

\* What the run has been through has a status, ...
Progress ==
    /\ run.phase \in {"others", "reports", "documents", "leftovers"} =>
            \A a \in Entries("other") \ run.todo : Seen(a)
    /\ run.phase \in {"reports", "documents", "leftovers"} =>
            \A a \in Entries("report") \ run.todo : Seen(a)
    /\ run.phase \in {"documents", "leftovers"} => \A a \in Matched \ run.todo : Seen(a)
    /\ run.phase = "leftovers" =>
            \A a \in (Archives \ Matched) \ run.todo : artifact[a].status = "not_applicable"

\* ... every status tells what became of the file, ...
AllExplained == \A a \in Artifact : Seen(a) => Explained(a)

\* ... and a file whose body is stored is never taken up again.
Stored ==
    \A a \in Artifact : body[a.document] = a.url =>
        \/ artifact[a].status = "parsed"
        \/ artifact[a].status = "not_applicable" /\ a.kind # "report"

\* Rows are of meetings there are, and what the graph has revised has a row.
Rooted ==
    /\ \A t \in TDoc : row[t] # NoRow => row[t].owner \in meetings
    /\ \A e \in edge : e.kind = "revises" => row[e.source] # NoRow

IngestInv ==
    /\ Typing /\ Standing /\ Known /\ OfDate /\ Faithful /\ Progress /\ AllExplained
    /\ Stored /\ Rooted /\ GraphFollowsRows

-----------------------------------------------------------------------------
(* The run.                                                                 *)

\* What a manifest gives of a meeting is the same as long as the run is there.
LEMMA SameMeeting ==
  ASSUME run'.given = run.given, run'.meeting = run.meeting
  PROVE  /\ \A kind : Entries(kind)' = Entries(kind)
         /\ Archives' = Archives /\ Canonical' = Canonical /\ Matched' = Matched
         /\ Index' = Index
BY DEF Entries, Archives, Canonical, Matched, Index

\* Files of one kind are none of another.
LEMMA KindsApart ==
  ASSUME IngestInv, run.phase # "idle"
  PROVE  /\ \A kind : Entries(kind) \subseteq Artifact
         /\ \A kind : \A a \in Entries(kind) : a.kind = kind
         /\ Matched \subseteq Archives /\ Archives = Entries("tdoc")
BY IngestAssumption DEF IngestInv, Standing, Entries, Archives, Canonical, Matched, Given

\* Rows, nodes, edges and links that came up do not change, nor does anything
\* but the version's state and dates: so the graph follows the rows as before.
LEMMA SameGraph ==
  ASSUME IngestInv, UNCHANGED <<meetings, row, node, edge, amended>>,
         dataset' \in {dataset, "building"}
  PROVE  Rooted' /\ GraphFollowsRows'
<1>1. /\ Rows' = Rows /\ Facts' = Facts /\ ScopeFacts' = ScopeFacts /\ ScopeNodes' = ScopeNodes
      /\ Valid(meetings, Rows, node, edge)' <=> Valid(meetings, Rows, node, edge)
  BY DEF Rows, Facts, ScopeFacts, ScopeNodes, FactOf, Fact, Valid, RevisesIn
<1>2. Rooted'
  BY DEF IngestInv, Rooted
<1>3. GraphFollowsRows'
  BY <1>1 DEF IngestInv, GraphFollowsRows, FactOf, Fact
<1>4. QED
  BY <1>2, <1>3

\* A file is left behind.
LEMMA FileDone ==
  ASSUME IngestInv, NEW a, Done(a)
  PROVE  /\ run'.phase = run.phase /\ run'.given = run.given /\ run'.left = run.left
         /\ run'.meeting = run.meeting /\ run'.date = run.date /\ run'.todo = run.todo \ {a}
         /\ run' \in [phase : Phase, given : Given \cup {NoGiven}, left : SUBSET Meeting,
                      meeting : Meeting \cup {NoMeeting}, date : Nat, todo : SUBSET Artifact]
BY DEF IngestInv, Typing, Done

-----------------------------------------------------------------------------
(* The files.                                                               *)

\* A new status explains itself, and takes nothing from that of other files:
\* a body is stored where there is none, and for a file of its own.
LEMMA MarkExplains ==
  ASSUME IngestInv, NEW a \in Artifact, NEW status \in Status, NEW error \in Error,
         Mark(a, status, error), Explained(a)',
         \/ UNCHANGED body
         \/ body[a.document] = NoFile /\ body' = [body EXCEPT ![a.document] = a.url]
  PROVE  AllExplained'
<1>1. /\ artifact' = [artifact EXCEPT ![a] = [status |-> status, error |-> error]]
      /\ artifact \in [Artifact -> [status : Status, error : Error]]
      /\ body \in [Documents -> Nat]
  BY DEF IngestInv, Typing, Mark
<1>2. ASSUME NEW b \in Artifact, b # a, Seen(b)' PROVE Explained(b)'
  <2>1. artifact'[b] = artifact[b] /\ Seen(b) /\ Explained(b)
    BY <1>1, <1>2 DEF Seen, IngestInv, AllExplained
  <2>2. b.url # a.url /\ a.url # NoFile /\ b.url # NoFile /\ b.document \in Documents
    BY <1>2, IngestAssumption DEF Documents
  <2>3. \/ body'[b.document] = body[b.document]
        \/ body[b.document] = NoFile /\ body'[b.document] = a.url
    BY <1>1, <2>2
  <2>4. QED
    BY <2>1, <2>2, <2>3 DEF Explained
<1>3. QED
  BY <1>2 DEF AllExplained

\* A file of what is left to do gets a status, and is done with.
LEMMA MarkProgress ==
  ASSUME IngestInv, NEW a \in run.todo, NEW status \in Status \ {"absent"}, NEW error \in Error,
         Mark(a, status, error),
         run'.phase = run.phase, run'.given = run.given, run'.meeting = run.meeting,
         run'.todo = run.todo \ {a},
         run.phase = "leftovers" => status = "not_applicable"
  PROVE  Progress'
<1>1. /\ \A kind : Entries(kind)' = Entries(kind)
      /\ Archives' = Archives /\ Matched' = Matched
  BY SameMeeting
<1>2. /\ a \in Artifact
      /\ \A b \in Artifact : artifact'[b] = IF b = a THEN [status |-> status, error |-> error]
                                            ELSE artifact[b]
  BY DEF IngestInv, Typing, Mark
<1>3. run.phase # "idle"
  BY DEF IngestInv, Standing
<1>4. /\ \A kind : Entries(kind) \subseteq Artifact
      /\ Matched \subseteq Artifact /\ Archives \subseteq Artifact
  BY <1>3, KindsApart
<1>5. \A b \in Artifact : Seen(b)' <=> b = a \/ Seen(b)
  BY <1>2 DEF Seen
<1>6. Progress
  BY DEF IngestInv
<1>7. /\ run.phase \in {"others", "reports", "documents", "leftovers"} =>
            \A b \in Entries("other") \ (run.todo \ {a}) : Seen(b)'
      /\ run.phase \in {"reports", "documents", "leftovers"} =>
            \A b \in Entries("report") \ (run.todo \ {a}) : Seen(b)'
      /\ run.phase \in {"documents", "leftovers"} =>
            \A b \in Matched \ (run.todo \ {a}) : Seen(b)'
  BY <1>4, <1>5, <1>6 DEF Progress
<1>8. run.phase = "leftovers" =>
        \A b \in (Archives \ Matched) \ (run.todo \ {a}) : artifact'[b].status = "not_applicable"
  BY <1>2, <1>4, <1>6 DEF Progress
<1>9. QED
  BY <1>1, <1>7, <1>8 DEF Progress

\* Where nothing is stored but a status, and the date that the run goes by is
\* as before, the dates are as before as well.
LEMMA MarkDates ==
  ASSUME IngestInv, NEW a \in run.todo, NEW status \in Status, NEW error \in Error,
         Mark(a, status, error), a.kind = "report" => error # "undone",
         run'.given = run.given, run'.meeting = run.meeting, run'.date = run.date,
         run'.todo = run.todo \ {a},
         UNCHANGED <<date, row, evidence, edge, misread>>
  PROVE  Known' /\ OfDate' /\ Faithful'
<1>1. \A kind : Entries(kind)' = Entries(kind)
  BY SameMeeting
<1>2. run.phase # "idle" /\ a \in Artifact
  BY DEF IngestInv, Standing, Typing
<1>3. \A b \in Artifact : artifact'[b] = IF b = a THEN [status |-> status, error |-> error]
                                         ELSE artifact[b]
  BY <1>2 DEF IngestInv, Typing, Mark
<1>4. \A b \in Entries("report") : b \in Artifact /\ b.kind = "report"
  BY <1>2, KindsApart
<1>5. (\A b \in Entries("report")' \ run'.todo : ~Undone(b)') =>
            \A b \in Entries("report") \ run.todo : ~Undone(b)
  BY <1>1, <1>3, <1>4 DEF Undone
<1>6. Known' /\ OfDate'
  BY DEF IngestInv, Known, OfDate, Meetings
<1>7. Faithful'
  BY <1>5 DEF IngestInv, Faithful, Meetings
<1>8. QED
  BY <1>6, <1>7

\* What is common to the steps that store nothing but a status.
LEMMA MarkInv ==
  ASSUME IngestInv, NEW a \in run.todo, NEW status \in Status \ {"absent"}, NEW error \in Error,
         Mark(a, status, error), Done(a), Explained(a)',
         a.kind = "report" => error # "undone",
         run.phase = "leftovers" => status = "not_applicable",
         body[a.document] = a.url => status = "not_applicable" /\ a.kind # "report",
         UNCHANGED <<dataset, meetings, date, row, body, evidence, graph, runs, misread, amended>>
  PROVE  IngestInv'
<1>1. /\ run'.phase = run.phase /\ run'.given = run.given
      /\ run'.meeting = run.meeting /\ run'.date = run.date /\ run'.todo = run.todo \ {a}
      /\ run' \in [phase : Phase, given : Given \cup {NoGiven}, left : SUBSET Meeting,
                   meeting : Meeting \cup {NoMeeting}, date : Nat, todo : SUBSET Artifact]
  BY FileDone
<1>2. a \in Artifact
  BY DEF IngestInv, Typing
<1>3. Typing'
  <2>1. artifact' \in [Artifact -> [status : Status, error : Error]]
    BY DEF IngestInv, Typing, Mark
  <2>2. QED
    BY <1>1, <2>1 DEF IngestInv, Typing, graph, IsProof
<1>4. Standing'
  <2>1. /\ \A kind : Entries(kind)' = Entries(kind)
        /\ Archives' = Archives /\ Matched' = Matched
    BY <1>1, SameMeeting
  <2>2. \A b \in run'.todo : artifact'[b] = artifact[b]
    BY <1>1 DEF IngestInv, Typing, Mark
  <2>3. QED
    BY <1>1, <2>1, <2>2 DEF IngestInv, Standing, Pending
<1>5. Known' /\ OfDate' /\ Faithful'
  BY <1>1, MarkDates DEF graph
<1>6. Progress'
  BY <1>1, MarkProgress
<1>7. AllExplained'
  BY <1>2, MarkExplains
<1>8. Stored'
  <2>1. \A b \in Artifact : artifact'[b] = IF b = a THEN [status |-> status, error |-> error]
                                           ELSE artifact[b]
    BY <1>2 DEF IngestInv, Typing, Mark
  <2>2. QED
    BY <2>1 DEF IngestInv, Stored
<1>9. Rooted' /\ GraphFollowsRows'
  BY SameGraph DEF graph
<1>10. QED
  BY <1>3, <1>4, <1>5, <1>6, <1>7, <1>8, <1>9 DEF IngestInv

\* A file that a run takes up has no body stored yet.
LEMMA TakenUp ==
  ASSUME IngestInv, NEW a \in run.todo, run.phase \in {"reports", "documents"}
  PROVE  a \in Artifact /\ body[a.document] # a.url
<1>1. a \in Artifact /\ artifact[a].status # "parsed"
  BY DEF IngestInv, Typing, Standing, Settled, Pending
<1>2. artifact[a].status # "not_applicable" \/ a.kind = "report"
  BY KindsApart DEF IngestInv, Standing, Pending
<1>3. QED
  BY <1>1, <1>2 DEF IngestInv, Stored

\* A status explains itself when it is said why.
LEMMA MarkedStatus ==
  ASSUME Typing, NEW a \in Artifact, NEW status, NEW error, Mark(a, status, error)
  PROVE  artifact'[a] = [status |-> status, error |-> error]
BY DEF Typing, Mark

\* A file that is not parsed is of a kind that never is.
LEMMA StoreOtherInv ==
  ASSUME IngestInv, NEW a \in Artifact, StoreOther(a)
  PROVE  IngestInv'
<1>1. /\ run.phase = "others" /\ a \in run.todo /\ Mark(a, "not_applicable", "none") /\ Done(a)
      /\ UNCHANGED <<dataset, meetings, date, row, body, evidence, graph, runs, misread, amended>>
  BY DEF StoreOther
<1>2. a.kind = "other"
  BY <1>1, KindsApart DEF IngestInv, Standing
<1>3. artifact'[a] = [status |-> "not_applicable", error |-> "none"]
  BY <1>1, MarkedStatus DEF IngestInv
<1>4. Explained(a)'
  BY <1>2, <1>3 DEF Explained
<1>5. "not_applicable" \in Status \ {"absent"} /\ "none" \in Error
  BY DEF Status, Error
<1>6. QED
  BY <1>1, <1>2, <1>4, <1>5, MarkInv

\* A report without an extension of a document is not applicable for its content.
LEMMA SkipReportInv ==
  ASSUME IngestInv, NEW a \in Artifact, SkipReport(a)
  PROVE  IngestInv'
<1>1. /\ run.phase = "reports" /\ a \in run.todo /\ a.fate = "unsupported"
      /\ Mark(a, "not_applicable", "content") /\ Done(a)
      /\ UNCHANGED <<dataset, meetings, date, row, body, evidence, graph, runs, misread, amended>>
  BY DEF SkipReport, NextReport
<1>2. artifact'[a] = [status |-> "not_applicable", error |-> "content"]
  BY <1>1, MarkedStatus DEF IngestInv
<1>3. Explained(a)'
  BY <1>1, <1>2 DEF Explained
<1>4. "not_applicable" \in Status \ {"absent"} /\ "content" \in Error
  BY DEF Status, Error
<1>5. body[a.document] # a.url
  BY <1>1, TakenUp
<1>6. QED
  BY <1>1, <1>3, <1>4, <1>5, MarkInv

\* A report fails for its content, or for an id that another file has taken.
LEMMA FailReportInv ==
  ASSUME IngestInv, NEW a \in Artifact, FailReport(a)
  PROVE  IngestInv'
<1> DEFINE error == IF a.fate = "body" THEN "taken" ELSE "content"
<1>1. /\ run.phase = "reports" /\ a \in run.todo /\ a.fate # "unsupported" /\ ~Storable(a)
      /\ Mark(a, "failed", error) /\ Done(a)
      /\ UNCHANGED <<dataset, meetings, date, row, body, evidence, graph, runs, misread, amended>>
  BY DEF FailReport, NextReport
<1>2. artifact'[a] = [status |-> "failed", error |-> error]
  BY <1>1, MarkedStatus DEF IngestInv
<1>3. body[a.document] # a.url /\ a.fate \in {"body", "unsafe", "unsupported", "broken"}
  BY <1>1, TakenUp, IngestAssumption DEF Source
<1>4. Explained(a)'
  BY <1>1, <1>2, <1>3 DEF Explained, Storable
<1>5. "failed" \in Status \ {"absent"} /\ error \in Error /\ error # "undone"
  BY DEF Status, Error
<1> HIDE DEF error
<1>6. QED
  BY <1>1, <1>3, <1>4, <1>5, MarkInv

\* A document is refused for one of five reasons, and was not stored before.
LEMMA RefuseDocumentInv ==
  ASSUME IngestInv, NEW a \in Artifact, RefuseDocument(a)
  PROVE  IngestInv'
<1>1. /\ run.phase = "documents" /\ a \in run.todo /\ Done(a)
      /\ UNCHANGED <<dataset, meetings, date, row, body, evidence, graph, runs, misread, amended>>
  BY DEF RefuseDocument, NextDocument
<1>2. a.kind = "tdoc" /\ body[a.document] # a.url
  BY <1>1, TakenUp, KindsApart DEF IngestInv, Standing
<1>3. PICK status \in {"quarantined", "not_applicable", "failed"},
           error \in {"content", "taken", "undone"} :
        /\ Mark(a, status, error)
        /\ \/ a.fate = "unsafe" /\ status = "quarantined"
           \/ a.fate = "unsupported" /\ status = "not_applicable" /\ error = "content"
           \/ a.fate = "broken" /\ status = "failed" /\ error = "content"
           \/ a.fate = "body" /\ ~Storable(a) /\ status = "failed" /\ error = "taken"
           \/ Storable(a) /\ status = "failed" /\ error = "undone"
  BY DEF RefuseDocument
<1>4. artifact'[a] = [status |-> status, error |-> error]
  BY <1>3, MarkedStatus DEF IngestInv
<1>5. Explained(a)'
  BY <1>1, <1>2, <1>3, <1>4 DEF Explained, Storable
<1>6. status \in Status \ {"absent"} /\ error \in Error
  BY <1>3 DEF Status, Error
<1>7. QED
  BY <1>1, <1>2, <1>3, <1>5, <1>6, MarkInv

\* A copy or an archive without a row is set aside as what it is.
LEMMA StoreLeftOverInv ==
  ASSUME IngestInv, NEW a \in Artifact, StoreLeftOver(a)
  PROVE  IngestInv'
<1> DEFINE error == IF a \in Canonical THEN "orphan" ELSE "copy"
<1>1. /\ run.phase = "leftovers" /\ a \in run.todo
      /\ Mark(a, "not_applicable", error) /\ Done(a)
      /\ UNCHANGED <<dataset, meetings, date, row, body, evidence, graph, runs, misread, amended>>
  BY DEF StoreLeftOver
<1>2. artifact'[a] = [status |-> "not_applicable", error |-> error]
  BY <1>1, MarkedStatus DEF IngestInv
<1>3. Explained(a)'
  BY <1>1, <1>2 DEF Explained
<1>4. "not_applicable" \in Status \ {"absent"} /\ error \in Error /\ error # "undone"
  BY DEF Status, Error
<1>5. a.kind # "report"
  BY <1>1, KindsApart DEF IngestInv, Standing
<1> HIDE DEF error
<1>6. QED
  BY <1>1, <1>3, <1>4, <1>5, MarkInv

-----------------------------------------------------------------------------
(* The dates.                                                               *)

\* Facts are what they are, whatever their dates.
LEMMA RedatedEdge ==
  ASSUME NEW e \in EdgeType, NEW d \in Nat
  PROVE  /\ [e EXCEPT !.time = d] \in EdgeType
         /\ [e EXCEPT !.time = d].kind = e.kind /\ [e EXCEPT !.time = d].source = e.source
         /\ [e EXCEPT !.time = d].target = e.target /\ [e EXCEPT !.time = d].time = d
         /\ FactOf([e EXCEPT !.time = d]) = FactOf(e)
BY DEF EdgeType, FactOf, Fact

\* A meeting that has no other date is given one: all of it that had none has
\* that date now, no fact comes or goes, and the rest is as it was.
LEMMA DateStep ==
  ASSUME IngestInv, NEW m \in meetings, NEW d \in Nat \ {Undated}, ~DatesConflict(m, d),
         NEW found, Date(m, d, found),
         \A e \in found :
            IsProof(e) /\ (e.time \in {Undated, date[e.meeting]} \/ e.meeting \in misread),
         UNCHANGED <<meetings, row, node, misread, amended, dataset>>
  PROVE  /\ date' \in [Meeting -> Nat] /\ date'[m] = d
         /\ \A e \in evidence' : IsProof(e)
         /\ edge' \subseteq EdgeType
         /\ OfDate'
         /\ m \notin misread =>
                /\ \A e \in evidence' : e.meeting = m => e.time = d
                /\ \A e \in edge' : Meetings(e)' = m => e.time = d
         /\ Rooted' /\ GraphFollowsRows'
<1> DEFINE here(e) == IF e.kind = "contains" THEN e.source = m ELSE row[e.source].owner = m
           given(e) == IF e.time = Undated /\ here(e) THEN [e EXCEPT !.time = d] ELSE e
           proof(e) == IF e.meeting = m /\ e.time = Undated THEN [e EXCEPT !.time = d] ELSE e
<1>1. /\ edge \subseteq EdgeType /\ date \in [Meeting -> Nat] /\ m \in Meeting
      /\ date[m] \in {Undated, d}
  BY DEF IngestInv, Typing, DatesConflict
<1>2. date' = [date EXCEPT ![m] = d] /\ evidence' = {proof(e) : e \in found}
  BY DEF Date
<1>3. edge' = {given(e) : e \in edge}
  <2>1. \A e \in EdgeType :
          /\ e.kind \in {"contains", "revises"}
          /\ here(e) <=> \/ e.kind = "contains" /\ e.source = m
                         \/ e.kind = "revises" /\ row[e.source].owner = m
    BY DEF EdgeType
  <2>2. QED
    BY <1>1, <2>1 DEF Date
<1>4. \A e \in found : /\ IsProof(proof(e)) /\ proof(e).meeting = e.meeting
                       /\ proof(e).time = IF e.meeting = m /\ e.time = Undated THEN d ELSE e.time
  BY DEF IsProof
<1>5. \A e \in edge : /\ given(e) \in EdgeType
                      /\ given(e).kind = e.kind /\ given(e).source = e.source
                      /\ given(e).target = e.target
                      /\ FactOf(given(e)) = FactOf(e)
                      /\ given(e).time = IF e.time = Undated /\ here(e) THEN d ELSE e.time
  BY <1>1, RedatedEdge
<1>6. \A e \in edge : Meetings(e) = m <=> here(e)
  BY DEF Meetings
<1>7. \A e, f : f.kind = e.kind /\ f.source = e.source => Meetings(f)' = Meetings(e)
  BY DEF Meetings
<1> HIDE DEF given, proof, here
<1>8. date' \in [Meeting -> Nat] /\ \A n \in Meeting : date'[n] = IF n = m THEN d ELSE date[n]
  BY <1>1, <1>2
<1>9. \A e \in evidence' : IsProof(e)
  BY <1>2, <1>4
<1>10. edge' \subseteq EdgeType
  BY <1>3, <1>5
<1>11. \A e \in edge : Meetings(e) \in Meeting
  <2>1. \A e \in edge : e.kind = "revises" => e.source \in TDoc /\ row[e.source] # NoRow
    BY <1>1 DEF IngestInv, Rooted, EdgeType
  <2>2. \A e \in edge : e.kind = "contains" => e.source \in Meeting
    BY <1>1 DEF EdgeType
  <2>3. \A e \in edge : e.kind \in {"contains", "revises"}
    BY <1>1 DEF EdgeType
  <2>4. \A t \in TDoc : row[t] # NoRow => row[t].owner \in Meeting
    BY DEF IngestInv, Typing, Rooted
  <2>5. QED
    BY <2>1, <2>2, <2>3, <2>4 DEF Meetings
<1>12. OfDate'
  <2>1. \A e \in found : proof(e).time \in {Undated, date'[e.meeting]} \/ e.meeting \in misread
    BY <1>1, <1>4, <1>8 DEF IsProof
  <2>2. \A e \in edge : given(e).time \in {Undated, date'[Meetings(e)]} \/ Meetings(e) \in misread
    BY <1>1, <1>5, <1>6, <1>8, <1>11 DEF IngestInv, OfDate
  <2>3. \A e \in evidence' : e.time \in {Undated, date'[e.meeting]} \/ e.meeting \in misread
    BY <1>2, <1>4, <2>1
  <2>4. \A e \in edge' : e.time \in {Undated, date'[Meetings(e)']} \/ Meetings(e)' \in misread
    BY <1>3, <1>5, <1>7, <2>2
  <2>5. QED
    BY <2>3, <2>4 DEF OfDate
<1>13. ASSUME m \notin misread
       PROVE  /\ \A e \in evidence' : e.meeting = m => e.time = d
              /\ \A e \in edge' : Meetings(e)' = m => e.time = d
  <2>1. \A e \in found : e.meeting = m => proof(e).time = d
    BY <1>1, <1>4, <1>13
  <2>2. \A e \in edge : Meetings(e) = m => given(e).time = d
    BY <1>1, <1>5, <1>6, <1>13 DEF IngestInv, OfDate
  <2>3. \A e \in evidence' : e.meeting = m => e.time = d
    BY <1>2, <1>4, <2>1
  <2>4. \A e \in edge' : Meetings(e)' = m => e.time = d
    BY <1>3, <1>5, <1>7, <2>2
  <2>5. QED
    BY <2>3, <2>4
<1>14. Rooted'
  BY <1>3, <1>5 DEF IngestInv, Rooted
<1>15. GraphFollowsRows'
  <2>1. Rows' = Rows /\ ScopeFacts' = ScopeFacts /\ ScopeNodes' = ScopeNodes
    BY DEF Rows, ScopeFacts, ScopeNodes
  <2>2. Facts' = Facts
    <3>1. \A f \in edge' : \E e \in edge : FactOf(f) = FactOf(e)
      BY <1>3, <1>5
    <3>2. \A e \in edge : \E f \in edge' : FactOf(f) = FactOf(e)
      BY <1>3, <1>5
    <3>3. Facts' = {FactOf(e) : e \in edge'}
      BY DEF Facts, FactOf, Fact
    <3>4. QED
      BY <3>1, <3>2, <3>3 DEF Facts
  <2>3. \A e, f \in edge' : FactOf(e)' = FactOf(f)' => e = f
    <3>1. \A e, f \in edge : FactOf(given(e)) = FactOf(given(f)) => e = f
      BY <1>5 DEF IngestInv, GraphFollowsRows
    <3>2. QED
      BY <1>3, <3>1 DEF FactOf, Fact
  <2>4. dataset' = "validated" => Valid(meetings, Rows, node, edge)'
    <3>1. RevisesIn(edge') = RevisesIn(edge)
      <4>1. \A e \in edge' : \E f \in edge : f.kind = e.kind /\ f.source = e.source /\ f.target = e.target
        BY <1>3, <1>5
      <4>2. \A f \in edge : \E e \in edge' : f.kind = e.kind /\ f.source = e.source /\ f.target = e.target
        BY <1>3, <1>5
      <4>3. QED
        BY <4>1, <4>2 DEF RevisesIn
    <3>2. (\A e \in edge : /\ e.kind = "revises" => node[e.source] # "absent"
                           /\ node[e.target] # "absent")
            => \A e \in edge' : /\ e.kind = "revises" => node[e.source] # "absent"
                                /\ node[e.target] # "absent"
      BY <1>3, <1>5
    <3>3. QED
      BY <2>1, <3>1, <3>2 DEF Valid, IngestInv, GraphFollowsRows
  <2>5. QED
    BY <2>1, <2>2, <2>3, <2>4 DEF IngestInv, GraphFollowsRows
<1>16. QED
  BY <1>1, <1>8, <1>9, <1>10, <1>12, <1>13, <1>14, <1>15

\* The evidence that the run gives bears the date it goes by.
LEMMA RunProof ==
  ASSUME IngestInv, run.phase \notin {"idle", "open"}, NEW index, NEW of
  PROVE  /\ run.meeting \in Meeting
         /\ IsProof(Proof(index, of))
         /\ Proof(index, of).meeting = run.meeting /\ Proof(index, of).time = run.date
         /\ run.date \in {Undated, date[run.meeting]} \/ run.meeting \in misread
BY DEF IngestInv, Typing, Standing, Known, IsProof, Proof

-----------------------------------------------------------------------------
(* The bodies.                                                              *)

\* A body is stored under an id that was free, by a file that the run took up.
LEMMA IngestFile ==
  ASSUME IngestInv, NEW a \in run.todo, run.phase \in {"reports", "documents"}, Ingest(a)
  PROVE  /\ a \in Artifact /\ Mark(a, "parsed", "none")
         /\ body' \in [Documents -> Nat]
         /\ artifact' \in [Artifact -> [status : Status, error : Error]]
         /\ \A b \in Artifact : b # a => artifact'[b] = artifact[b]
         /\ artifact'[a] = [status |-> "parsed", error |-> "none"]
         /\ AllExplained' /\ Stored'
<1>1. /\ a \in Artifact /\ Mark(a, "parsed", "none")
      /\ body[a.document] = NoFile /\ body' = [body EXCEPT ![a.document] = a.url]
  BY TakenUp DEF Ingest, Storable
<1>2. "parsed" \in Status /\ "none" \in Error
  BY DEF Status, Error
<1>3. /\ body \in [Documents -> Nat] /\ a.document \in Documents /\ a.url \in Nat
      /\ artifact \in [Artifact -> [status : Status, error : Error]]
  BY <1>1, IngestAssumption DEF IngestInv, Typing, Documents, Source
<1>4. artifact' = [artifact EXCEPT ![a] = [status |-> "parsed", error |-> "none"]]
  BY <1>1 DEF Mark
<1>5. /\ body' \in [Documents -> Nat] /\ body'[a.document] = a.url
      /\ artifact' \in [Artifact -> [status : Status, error : Error]]
      /\ \A b \in Artifact : b # a => artifact'[b] = artifact[b]
      /\ artifact'[a] = [status |-> "parsed", error |-> "none"]
  BY <1>1, <1>2, <1>3, <1>4
<1>6. a.kind # "other"
  BY KindsApart DEF IngestInv, Standing
<1>7. Explained(a)'
  BY <1>5, <1>6 DEF Explained
<1>8. AllExplained'
  BY <1>1, <1>2, <1>7, MarkExplains
<1>9. ASSUME NEW b \in Artifact, body'[b.document] = b.url
      PROVE  \/ artifact'[b].status = "parsed"
             \/ artifact'[b].status = "not_applicable" /\ b.kind # "report"
  <2>1. CASE b = a
    BY <1>5, <2>1
  <2>2. CASE b # a
    <3>1. b.url # a.url /\ b.document \in Documents
      BY <1>1, <2>2, IngestAssumption DEF Documents
    <3>2. body[b.document] = b.url
      BY <1>1, <1>3, <1>5, <1>9, <3>1
    <3>3. QED
      BY <1>5, <2>2, <3>2 DEF IngestInv, Stored
  <2>3. QED
    BY <2>1, <2>2
<1>10. Stored'
  BY <1>9 DEF Stored
<1>11. QED
  BY <1>1, <1>5, <1>8, <1>10

\* The body's evidence bears the date that the run goes by, and goes by still.
LEMMA BodyDates ==
  ASSUME IngestInv, NEW a \in run.todo, run.phase \in {"reports", "documents"}, Ingest(a),
         evidence' = WithBody(a),
         run'.given = run.given, run'.meeting = run.meeting, run'.date = run.date,
         run'.todo = run.todo \ {a},
         UNCHANGED <<date, row, edge, misread>>
  PROVE  /\ \A e \in evidence' : IsProof(e)
         /\ Known' /\ OfDate' /\ Faithful'
<1> DEFINE new == Proof(<<>>, a.url)
<1>1. /\ IsProof(new) /\ new.meeting = run.meeting /\ new.time = run.date
      /\ run.date \in {Undated, date[run.meeting]} \/ run.meeting \in misread
  BY RunProof
<1> HIDE DEF new
<1>2. evidence' = evidence \cup {new}
  BY DEF WithBody, new
<1>3. \A e \in evidence' : IsProof(e)
  BY <1>1, <1>2 DEF IngestInv, Typing
<1>4. Known' /\ OfDate'
  BY <1>1, <1>2 DEF IngestInv, Known, OfDate, Meetings
<1>5. (\A b \in Entries("report")' \ run'.todo : ~Undone(b)') =>
            \A b \in Entries("report") \ run.todo : ~Undone(b)
  <2>1. \A b \in Entries("report") : b \in Artifact /\ b \in Entries("report")'
    BY SameMeeting, KindsApart
  <2>2. \A b \in Artifact : b # a => artifact'[b] = artifact[b]
    BY IngestFile
  <2>3. QED
    BY <2>1, <2>2 DEF Undone
<1>6. Faithful'
  BY <1>1, <1>2, <1>5 DEF IngestInv, Faithful, Meetings
<1>7. QED
  BY <1>3, <1>4, <1>6

\* A document's body.
LEMMA StoreDocumentInv ==
  ASSUME IngestInv, NEW a \in Artifact, StoreDocument(a)
  PROVE  IngestInv'
<1>1. /\ run.phase = "documents" /\ a \in run.todo /\ Ingest(a) /\ evidence' = WithBody(a) /\ Done(a)
      /\ UNCHANGED <<dataset, meetings, date, row, graph, runs, misread, amended>>
  BY DEF StoreDocument, NextDocument
<1>2. /\ run'.phase = run.phase /\ run'.given = run.given
      /\ run'.meeting = run.meeting /\ run'.date = run.date /\ run'.todo = run.todo \ {a}
      /\ run' \in [phase : Phase, given : Given \cup {NoGiven}, left : SUBSET Meeting,
                   meeting : Meeting \cup {NoMeeting}, date : Nat, todo : SUBSET Artifact]
  BY <1>1, FileDone
<1>3. /\ Mark(a, "parsed", "none") /\ body' \in [Documents -> Nat]
      /\ artifact' \in [Artifact -> [status : Status, error : Error]]
      /\ \A b \in Artifact : b # a => artifact'[b] = artifact[b]
      /\ AllExplained' /\ Stored'
  BY <1>1, IngestFile
<1>4. /\ \A e \in evidence' : IsProof(e)
      /\ Known' /\ OfDate' /\ Faithful'
  BY <1>1, <1>2, BodyDates DEF graph
<1>5. Typing'
  BY <1>1, <1>2, <1>3, <1>4 DEF IngestInv, Typing, graph
<1>6. Standing'
  <2>1. Matched' = Matched /\ Matched \subseteq Artifact
    BY <1>1, <1>2, SameMeeting, KindsApart
  <2>2. QED
    BY <1>1, <1>2, <1>3, <2>1 DEF IngestInv, Standing, Pending
<1>7. Progress'
  BY <1>1, <1>2, <1>3, MarkProgress DEF Status, Error
<1>8. Rooted' /\ GraphFollowsRows'
  BY <1>1, SameGraph DEF graph
<1>9. QED
  BY <1>3, <1>4, <1>5, <1>6, <1>7, <1>8 DEF IngestInv

\* A report's body, and the date it shows if it is the first.
LEMMA StoreReportInv ==
  ASSUME IngestInv, NEW a \in Artifact, StoreReport(a)
  PROVE  IngestInv'
<1>1. /\ run.phase = "reports" /\ a \in run.todo /\ Ingest(a)
      /\ IF run.date = Undated /\ a.date # Undated
         THEN ~DatesConflict(run.meeting, a.date) /\ Date(run.meeting, a.date, WithBody(a))
         ELSE evidence' = WithBody(a) /\ UNCHANGED <<date, edge>>
      /\ run' = [run EXCEPT !.todo = @ \ {a}, !.date = DateRead(a)]
      /\ UNCHANGED <<dataset, meetings, row, node, runs, misread, amended>>
  BY DEF StoreReport, NextReport
<1>2. DateRead(a) \in Nat /\ a.date \in Nat
  BY IngestAssumption DEF DateRead, Source, IngestInv, Typing
<1>3. /\ run'.phase = run.phase /\ run'.given = run.given
      /\ run'.meeting = run.meeting /\ run'.date = DateRead(a) /\ run'.todo = run.todo \ {a}
      /\ run' \in [phase : Phase, given : Given \cup {NoGiven}, left : SUBSET Meeting,
                   meeting : Meeting \cup {NoMeeting}, date : Nat, todo : SUBSET Artifact]
  BY <1>1, <1>2 DEF IngestInv, Typing
<1>4. /\ Mark(a, "parsed", "none") /\ body' \in [Documents -> Nat]
      /\ artifact' \in [Artifact -> [status : Status, error : Error]]
      /\ \A b \in Artifact : b # a => artifact'[b] = artifact[b]
      /\ AllExplained' /\ Stored'
  BY <1>1, IngestFile
<1>5. Standing'
  <2>1. Entries("report")' = Entries("report") /\ Entries("report") \subseteq Artifact
    BY <1>1, <1>3, SameMeeting, KindsApart
  <2>2. QED
    BY <1>1, <1>3, <1>4, <2>1 DEF IngestInv, Standing
<1>6. Progress'
  BY <1>1, <1>3, <1>4, MarkProgress DEF Status, Error
<1>7. /\ date' \in [Meeting -> Nat] /\ edge' \subseteq EdgeType
      /\ \A e \in evidence' : IsProof(e)
      /\ Known' /\ OfDate' /\ Faithful' /\ Rooted' /\ GraphFollowsRows'
  <2>1. CASE run.date = Undated /\ a.date # Undated
    <3>1. /\ ~DatesConflict(run.meeting, a.date) /\ Date(run.meeting, a.date, WithBody(a))
          /\ run'.date = a.date /\ a.date \in Nat \ {Undated}
      BY <1>1, <1>2, <1>3, <2>1 DEF DateRead
    <3>2. run.meeting \in meetings
      BY <1>1 DEF IngestInv, Standing
    <3>3. \A e \in WithBody(a) :
            IsProof(e) /\ (e.time \in {Undated, date[e.meeting]} \/ e.meeting \in misread)
      BY <1>1, RunProof DEF WithBody, IngestInv, Typing, OfDate
    <3>4. /\ date' \in [Meeting -> Nat] /\ date'[run.meeting] = a.date
          /\ \A e \in evidence' : IsProof(e)
          /\ edge' \subseteq EdgeType
          /\ OfDate'
          /\ run.meeting \notin misread =>
                /\ \A e \in evidence' : e.meeting = run.meeting => e.time = a.date
                /\ \A e \in edge' : Meetings(e)' = run.meeting => e.time = a.date
          /\ Rooted' /\ GraphFollowsRows'
      BY <1>1, <3>1, <3>2, <3>3, DateStep
    <3>5. Known' /\ Faithful'
      BY <1>1, <1>3, <3>1, <3>4 DEF Known, Faithful
    <3>6. QED
      BY <3>4, <3>5
  <2>2. CASE ~(run.date = Undated /\ a.date # Undated)
    <3>1. /\ evidence' = WithBody(a) /\ UNCHANGED <<date, edge>>
          /\ run'.date = run.date
      BY <1>1, <1>3, <2>2 DEF DateRead
    <3>2. /\ \A e \in evidence' : IsProof(e)
          /\ Known' /\ OfDate' /\ Faithful'
      BY <1>1, <1>3, <3>1, BodyDates
    <3>3. Rooted' /\ GraphFollowsRows'
      BY <1>1, <3>1, SameGraph
    <3>4. QED
      BY <3>1, <3>2, <3>3 DEF IngestInv, Typing
  <2>3. QED
    BY <2>1, <2>2
<1>8. Typing'
  BY <1>1, <1>3, <1>4, <1>7 DEF IngestInv, Typing
<1>9. QED
  BY <1>4, <1>5, <1>6, <1>7, <1>8 DEF IngestInv

\* A report that is undone leaves nothing but the date that the run goes by.
LEMMA UndoReportInv ==
  ASSUME IngestInv, NEW a \in Artifact, UndoReport(a)
  PROVE  IngestInv'
<1>1. /\ run.phase = "reports" /\ a \in run.todo /\ Mark(a, "failed", "undone")
      /\ run' = [run EXCEPT !.todo = @ \ {a}, !.date = DateRead(a)]
      /\ misread' = IF DateRead(a) \in {Undated, date[run.meeting]} THEN misread
                    ELSE misread \cup {run.meeting}
      /\ UNCHANGED <<dataset, meetings, date, row, body, evidence, graph, runs, amended>>
  BY DEF UndoReport, NextReport
<1>2. DateRead(a) \in Nat
  BY IngestAssumption DEF DateRead, Source, IngestInv, Typing
<1>3. /\ run'.phase = run.phase /\ run'.given = run.given
      /\ run'.meeting = run.meeting /\ run'.date = DateRead(a) /\ run'.todo = run.todo \ {a}
      /\ run' \in [phase : Phase, given : Given \cup {NoGiven}, left : SUBSET Meeting,
                   meeting : Meeting \cup {NoMeeting}, date : Nat, todo : SUBSET Artifact]
  BY <1>1, <1>2 DEF IngestInv, Typing
<1>4. "failed" \in Status \ {"absent"} /\ "undone" \in Error
  BY DEF Status, Error
<1>5. /\ artifact' \in [Artifact -> [status : Status, error : Error]]
      /\ \A b \in Artifact : b # a => artifact'[b] = artifact[b]
      /\ artifact'[a] = [status |-> "failed", error |-> "undone"]
  BY <1>1, <1>4 DEF IngestInv, Typing, Mark
<1>6. body[a.document] # a.url
  BY <1>1, TakenUp
<1>7. Explained(a)'
  BY <1>1, <1>5, <1>6 DEF Explained
<1>8. Typing'
  BY <1>1, <1>3, <1>5 DEF IngestInv, Typing, graph, IsProof
<1>9. /\ \A kind : Entries(kind)' = Entries(kind)
      /\ Entries("report") \subseteq Artifact /\ a \in Entries("report")
  BY <1>1, <1>3, SameMeeting, KindsApart DEF IngestInv, Standing
<1>10. Standing'
  BY <1>1, <1>3, <1>5, <1>9 DEF IngestInv, Standing
<1>11. Progress'
  BY <1>1, <1>3, <1>4, MarkProgress
<1>12. AllExplained'
  BY <1>1, <1>4, <1>7, MarkExplains
<1>13. Stored'
  <2>1. \A b \in Artifact : b # a => artifact'[b] = artifact[b]
    BY <1>5
  <2>2. QED
    BY <1>1, <1>6, <2>1 DEF IngestInv, Stored
<1>14. Known'
  BY <1>1, <1>3 DEF IngestInv, Known
<1>15. OfDate'
  BY <1>1 DEF IngestInv, OfDate, Meetings, graph
<1>16. Faithful'
  <2>1. a \in Entries("report")' \ run'.todo /\ Undone(a)'
    BY <1>3, <1>5, <1>9 DEF Undone
  <2>2. QED
    BY <2>1 DEF Faithful
<1>17. Rooted' /\ GraphFollowsRows'
  BY <1>1, SameGraph DEF graph
<1>18. QED
  BY <1>8, <1>10, <1>11, <1>12, <1>13, <1>14, <1>15, <1>16, <1>17 DEF IngestInv

-----------------------------------------------------------------------------
(* The steps between the files.                                             *)

\* No file is touched.
LEMMA SameFiles ==
  ASSUME IngestInv, UNCHANGED <<artifact, body>>
  PROVE  AllExplained' /\ Stored'
<1>1. \A a \in Artifact : Seen(a)' => Explained(a)'
  <2>1. ASSUME NEW a \in Artifact, Seen(a)' PROVE Explained(a)'
    BY <2>1 DEF IngestInv, AllExplained, Explained, Seen
  <2>2. QED
    BY <2>1
<1>2. QED
  BY <1>1 DEF IngestInv, AllExplained, Stored

\* No date is touched.
LEMMA SameDates ==
  ASSUME IngestInv, UNCHANGED <<date, row, evidence, edge, misread>>
  PROVE  OfDate'
BY DEF IngestInv, OfDate, Meetings

\* A command that has ended leaves nothing to do.
LEMMA RunEnds ==
  ASSUME run' = Stopped
  PROVE  /\ run' \in [phase : Phase, given : Given \cup {NoGiven}, left : SUBSET Meeting,
                      meeting : Meeting \cup {NoMeeting}, date : Nat, todo : SUBSET Artifact]
         /\ Standing' /\ Known' /\ Faithful' /\ Progress'
<1>1. /\ run'.phase = "idle" /\ run'.date = Undated /\ run'.todo = {}
      /\ run' \in [phase : Phase, given : Given \cup {NoGiven}, left : SUBSET Meeting,
                   meeting : Meeting \cup {NoMeeting}, date : Nat, todo : SUBSET Artifact]
  BY DEF Stopped, Phase, Undated
<1>2. QED
  BY <1>1 DEF Standing, Known, Faithful, Progress

\* A command begins: the version is building again.
LEMMA StartRunInv ==
  ASSUME IngestInv, NEW given \in Manifest, NEW chosen \in SUBSET Meeting, StartRun(given, chosen)
  PROVE  IngestInv'
<1>1. /\ dataset' = "building"
      /\ run' = [Stopped EXCEPT !.phase = "open", !.given = given, !.left = chosen]
      /\ UNCHANGED <<meetings, date, row, artifact, body, evidence, graph, misread, amended>>
  BY DEF StartRun
<1>2. /\ run'.phase = "open" /\ run'.given = given /\ run'.date = Undated /\ run'.todo = {}
      /\ run' \in [phase : Phase, given : Given \cup {NoGiven}, left : SUBSET Meeting,
                   meeting : Meeting \cup {NoMeeting}, date : Nat, todo : SUBSET Artifact]
  BY <1>1, IngestAssumption DEF Stopped, Phase, Undated
<1>3. Typing'
  BY <1>1, <1>2 DEF IngestInv, Typing, graph, IsProof
<1>4. Standing' /\ Known' /\ Faithful' /\ Progress'
  BY <1>1, <1>2 DEF Standing, Known, Faithful, Progress
<1>5. OfDate' /\ AllExplained' /\ Stored' /\ Rooted' /\ GraphFollowsRows'
  BY <1>1, SameFiles, SameDates, SameGraph DEF graph
<1>6. QED
  BY <1>3, <1>4, <1>5 DEF IngestInv

\* A meeting is opened: rows are of meetings there are, so one that is added
\* has no part in the graph yet.
LEMMA OpenMeetingInv ==
  ASSUME IngestInv, OpenMeeting
  PROVE  IngestInv'
<1>1. run.phase # "idle"
  BY DEF OpenMeeting, Left
<1>2. PICK m \in run.left :
        /\ meetings' = meetings \cup {m}
        /\ run' = [run EXCEPT !.phase = "index", !.meeting = m, !.date = Undated,
                             !.left = @ \ {m}, !.todo = {}]
  BY DEF OpenMeeting
<1>3. UNCHANGED <<dataset, date, row, artifact, body, evidence, node, edge, misread, amended>>
  BY DEF OpenMeeting, graph
<1>4. m \in Meeting /\ "index" \in Phase
  BY DEF IngestInv, Typing, Phase
<1>5. /\ run'.phase = "index" /\ run'.meeting = m /\ run'.given = run.given
      /\ run'.date = Undated /\ run'.todo = {}
      /\ run' \in [phase : Phase, given : Given \cup {NoGiven}, left : SUBSET Meeting,
                   meeting : Meeting \cup {NoMeeting}, date : Nat, todo : SUBSET Artifact]
  BY <1>2, <1>4 DEF IngestInv, Typing, Undated
<1>6. Typing'
  BY <1>2, <1>3, <1>4, <1>5 DEF IngestInv, Typing, IsProof
<1>7. Standing'
  BY <1>1, <1>2, <1>3, <1>5 DEF IngestInv, Standing
<1>8. Known' /\ Faithful' /\ Progress'
  BY <1>5 DEF Known, Faithful, Progress
<1>9. OfDate' /\ AllExplained' /\ Stored'
  BY <1>3, SameFiles, SameDates
<1>10. Rooted'
  BY <1>2, <1>3 DEF IngestInv, Rooted
<1>11. GraphFollowsRows'
  <2>1. Rows' = Rows /\ Facts' = Facts /\ ScopeNodes' = ScopeNodes
    BY <1>3 DEF Rows, Facts, ScopeNodes, FactOf, Fact
  <2>2. \A u \in DOMAIN Rows : row[u].owner \in meetings
    BY DEF IngestInv, Rooted, Rows
  <2>3. ScopeFacts' = ScopeFacts
    BY <1>2, <1>3, <2>1, <2>2 DEF ScopeFacts, Fact
  <2>4. dataset' # "validated"
    BY <1>1, <1>3 DEF IngestInv, Standing
  <2>5. QED
    BY <1>3, <2>1, <2>3, <2>4 DEF IngestInv, GraphFollowsRows, FactOf, Fact
<1>12. QED
  BY <1>6, <1>7, <1>8, <1>9, <1>10, <1>11 DEF IngestInv

\* The reports are next: those that have no settled status.
LEMMA BeginReportsInv ==
  ASSUME IngestInv, BeginReports
  PROVE  IngestInv'
<1>1. /\ run.phase = "others" /\ run.todo = {} /\ run.date = Undated
      /\ run' = [run EXCEPT !.phase = "reports",
            !.todo = {a \in Entries("report") : artifact[a].status \notin Settled}]
      /\ UNCHANGED <<dataset, meetings, date, row, artifact, body, evidence, node, edge,
                     misread, amended>>
  BY DEF BeginReports, stored, IngestInv, Standing
<1>2. /\ \A kind : Entries(kind) \subseteq Artifact
      /\ run.todo = {} /\ "reports" \in Phase
  BY <1>1, KindsApart DEF Phase
<1>3. /\ run'.phase = "reports" /\ run'.meeting = run.meeting /\ run'.given = run.given
      /\ run'.date = Undated
      /\ run'.todo = {a \in Entries("report") : artifact[a].status \notin Settled}
      /\ run' \in [phase : Phase, given : Given \cup {NoGiven}, left : SUBSET Meeting,
                   meeting : Meeting \cup {NoMeeting}, date : Nat, todo : SUBSET Artifact]
  BY <1>1, <1>2 DEF IngestInv, Typing
<1>4. \A kind : Entries(kind)' = Entries(kind)
  BY <1>3, SameMeeting
<1>5. Typing'
  BY <1>1, <1>3 DEF IngestInv, Typing, IsProof
<1>6. Standing'
  BY <1>1, <1>3, <1>4 DEF IngestInv, Standing
<1>7. Known' /\ Faithful'
  BY <1>3 DEF Known, Faithful
<1>8. Progress'
  <2>1. \A a \in Entries("other") : Seen(a)
    BY <1>1 DEF IngestInv, Progress
  <2>2. \A a \in Entries("report") \ run'.todo : Seen(a)
    BY <1>3 DEF Seen, Settled
  <2>3. QED
    BY <1>1, <1>3, <1>4, <2>1, <2>2 DEF Progress, Seen
<1>9. OfDate' /\ AllExplained' /\ Stored' /\ Rooted' /\ GraphFollowsRows'
  BY <1>1, SameFiles, SameDates, SameGraph
<1>10. QED
  BY <1>5, <1>6, <1>7, <1>8, <1>9 DEF IngestInv

\* The documents are next; before, dates may be recovered from reports that
\* were stored earlier.
LEMMA FinishReportsInv ==
  ASSUME IngestInv, FinishReports
  PROVE  IngestInv'
<1> DEFINE pending == {a \in Matched : Pending(a)}
<1>1. /\ run.phase = "reports" /\ run.todo = {}
      /\ UNCHANGED <<dataset, meetings, row, artifact, body, node, misread, amended>>
  BY DEF FinishReports
<1>2. PICK d \in IF run.date = Undated THEN DatesFound ELSE {Undated} :
        \/ /\ d = Undated
           /\ run' = [run EXCEPT !.phase = "documents", !.todo = pending]
           /\ UNCHANGED <<date, evidence, edge>>
        \/ /\ d # Undated
           /\ ~DatesConflict(run.meeting, d)
           /\ run' = [run EXCEPT !.phase = "documents", !.todo = pending, !.date = d]
           /\ Date(run.meeting, d, evidence)
        \/ /\ d # Undated
           /\ DatesConflict(run.meeting, d)
           /\ run' = Stopped
           /\ UNCHANGED <<date, evidence, edge>>
  BY DEF FinishReports
<1>3. /\ pending \subseteq Artifact /\ "documents" \in Phase
      /\ Entries("report") \cap pending = {}
      /\ \A a \in Matched \ pending : Seen(a)
  <2>1. Matched \subseteq Artifact /\ \A a \in Matched : a.kind = "tdoc"
    BY <1>1, KindsApart
  <2>2. \A a \in Entries("report") : a.kind = "report"
    BY <1>1, KindsApart
  <2>3. QED
    BY <2>1, <2>2 DEF Pending, Settled, Seen, Phase
<1>4. d \in Nat
  <2>1. DatesFound \subseteq Nat
    BY IngestAssumption DEF DatesFound, ReportsRead, Source, Undated
  <2>2. QED
    BY <1>2, <2>1 DEF Undated
<1>5. /\ \A a \in Entries("other") : Seen(a)
      /\ \A a \in Entries("report") : Seen(a)
  BY <1>1 DEF IngestInv, Progress
<1>6. run.meeting \in meetings /\ dataset = "building" /\ run.given \in Manifest
  BY <1>1 DEF IngestInv, Standing
<1>7. AllExplained' /\ Stored'
  BY <1>1, SameFiles
<1>8. ASSUME NEW r \in Nat,
             run' = [run EXCEPT !.phase = "documents", !.todo = pending, !.date = r]
      PROVE  /\ run'.date = r /\ run'.meeting = run.meeting
             /\ run' \in [phase : Phase, given : Given \cup {NoGiven}, left : SUBSET Meeting,
                          meeting : Meeting \cup {NoMeeting}, date : Nat, todo : SUBSET Artifact]
             /\ Standing' /\ Progress'
             /\ \A kind : Entries(kind)' = Entries(kind)
             /\ Entries("report")' \ run'.todo = Entries("report")
  <2>1. /\ run'.phase = "documents" /\ run'.meeting = run.meeting /\ run'.given = run.given
        /\ run'.date = r /\ run'.todo = pending
        /\ run' \in [phase : Phase, given : Given \cup {NoGiven}, left : SUBSET Meeting,
                     meeting : Meeting \cup {NoMeeting}, date : Nat, todo : SUBSET Artifact]
    BY <1>3, <1>8 DEF IngestInv, Typing
  <2>2. /\ \A kind : Entries(kind)' = Entries(kind)
        /\ Matched' = Matched
    BY <2>1, SameMeeting
  <2>3. Standing'
    BY <1>1, <1>6, <2>1, <2>2 DEF Standing, Pending
  <2>4. Progress'
    BY <1>1, <1>3, <1>5, <2>1, <2>2 DEF Progress, Seen
  <2>5. QED
    BY <1>3, <2>1, <2>2, <2>3, <2>4
<1> HIDE DEF pending
<1>9. CASE /\ d = Undated
           /\ run' = [run EXCEPT !.phase = "documents", !.todo = pending]
           /\ UNCHANGED <<date, evidence, edge>>
  <2>1. /\ run.date \in Nat
        /\ run' = [run EXCEPT !.phase = "documents", !.todo = pending, !.date = run.date]
    BY <1>9 DEF IngestInv, Typing
  <2>2. /\ run'.date = run.date /\ run'.meeting = run.meeting
        /\ run' \in [phase : Phase, given : Given \cup {NoGiven}, left : SUBSET Meeting,
                     meeting : Meeting \cup {NoMeeting}, date : Nat, todo : SUBSET Artifact]
        /\ Standing' /\ Progress'
        /\ Entries("report")' \ run'.todo = Entries("report")
    BY <1>8, <2>1
  <2>3. Typing'
    BY <1>1, <1>9, <2>2 DEF IngestInv, Typing, IsProof
  <2>4. Known'
    BY <1>1, <1>9, <2>2 DEF IngestInv, Known
  <2>5. Faithful'
    BY <1>1, <1>9, <2>2 DEF IngestInv, Faithful, Undone, Meetings
  <2>6. OfDate' /\ Rooted' /\ GraphFollowsRows'
    BY <1>1, <1>9, SameDates, SameGraph
  <2>7. QED
    BY <1>7, <2>2, <2>3, <2>4, <2>5, <2>6 DEF IngestInv
<1>10. CASE /\ d # Undated
            /\ ~DatesConflict(run.meeting, d)
            /\ run' = [run EXCEPT !.phase = "documents", !.todo = pending, !.date = d]
            /\ Date(run.meeting, d, evidence)
  <2>1. /\ run'.date = d /\ run'.meeting = run.meeting
        /\ run' \in [phase : Phase, given : Given \cup {NoGiven}, left : SUBSET Meeting,
                     meeting : Meeting \cup {NoMeeting}, date : Nat, todo : SUBSET Artifact]
        /\ Standing' /\ Progress'
    BY <1>4, <1>8, <1>10
  <2>2. \A e \in evidence :
            IsProof(e) /\ (e.time \in {Undated, date[e.meeting]} \/ e.meeting \in misread)
    BY DEF IngestInv, Typing, OfDate
  <2>3. /\ date' \in [Meeting -> Nat] /\ date'[run.meeting] = d
        /\ \A e \in evidence' : IsProof(e)
        /\ edge' \subseteq EdgeType
        /\ OfDate'
        /\ run.meeting \notin misread =>
                /\ \A e \in evidence' : e.meeting = run.meeting => e.time = d
                /\ \A e \in edge' : Meetings(e)' = run.meeting => e.time = d
        /\ Rooted' /\ GraphFollowsRows'
    BY <1>1, <1>4, <1>6, <1>10, <2>2, DateStep
  <2>4. Known' /\ Faithful'
    BY <1>1, <2>1, <2>3 DEF Known, Faithful
  <2>5. Typing'
    BY <1>1, <2>1, <2>3 DEF IngestInv, Typing
  <2>6. QED
    BY <1>7, <2>1, <2>3, <2>4, <2>5 DEF IngestInv
<1>11. CASE run' = Stopped /\ UNCHANGED <<date, evidence, edge>>
  <2>1. /\ run' \in [phase : Phase, given : Given \cup {NoGiven}, left : SUBSET Meeting,
                     meeting : Meeting \cup {NoMeeting}, date : Nat, todo : SUBSET Artifact]
        /\ Standing' /\ Known' /\ Faithful' /\ Progress'
    BY <1>11, RunEnds
  <2>2. Typing'
    BY <1>1, <1>11, <2>1 DEF IngestInv, Typing, IsProof
  <2>3. OfDate' /\ Rooted' /\ GraphFollowsRows'
    BY <1>1, <1>11, SameDates, SameGraph
  <2>4. QED
    BY <1>7, <2>1, <2>2, <2>3 DEF IngestInv
<1>12. QED
  BY <1>2, <1>9, <1>10, <1>11

\* What is left over is next.
LEMMA FinishDocumentsInv ==
  ASSUME IngestInv, FinishDocuments
  PROVE  IngestInv'
<1>1. /\ run.phase = "documents" /\ run.todo = {}
      /\ run' = [run EXCEPT !.phase = "leftovers", !.todo = {a \in Archives : LeftOver(a)}]
      /\ UNCHANGED <<dataset, meetings, date, row, artifact, body, evidence, node, edge,
                     misread, amended>>
  BY DEF FinishDocuments, stored
<1>2. /\ Archives \subseteq Artifact /\ "leftovers" \in Phase
      /\ Entries("report") \cap Archives = {}
  <2>1. Archives \subseteq Artifact /\ \A a \in Archives : a.kind = "tdoc"
    BY <1>1, KindsApart
  <2>2. \A a \in Entries("report") : a.kind = "report"
    BY <1>1, KindsApart
  <2>3. QED
    BY <2>1, <2>2 DEF Phase
<1>3. /\ run'.phase = "leftovers" /\ run'.meeting = run.meeting /\ run'.given = run.given
      /\ run'.date = run.date /\ run'.todo = {a \in Archives : LeftOver(a)}
      /\ run' \in [phase : Phase, given : Given \cup {NoGiven}, left : SUBSET Meeting,
                   meeting : Meeting \cup {NoMeeting}, date : Nat, todo : SUBSET Artifact]
  BY <1>1, <1>2 DEF IngestInv, Typing
<1>4. /\ \A kind : Entries(kind)' = Entries(kind)
      /\ Archives' = Archives /\ Matched' = Matched
  BY <1>3, SameMeeting
<1>5. Typing'
  BY <1>1, <1>3 DEF IngestInv, Typing, IsProof
<1>6. Standing'
  BY <1>1, <1>3, <1>4 DEF IngestInv, Standing, LeftOver
<1>7. Known'
  BY <1>1, <1>3 DEF IngestInv, Known
<1>8. Faithful'
  <2>1. Entries("report")' \ run'.todo = Entries("report") \ run.todo
    BY <1>1, <1>2, <1>3, <1>4
  <2>2. QED
    BY <1>1, <1>3, <2>1 DEF IngestInv, Faithful, Undone, Meetings
<1>9. Progress'
  <2>1. /\ \A a \in Entries("other") : Seen(a)
        /\ \A a \in Entries("report") : Seen(a)
        /\ \A a \in Matched : Seen(a)
    BY <1>1 DEF IngestInv, Progress
  <2>2. \A a \in (Archives \ Matched) \ run'.todo : artifact[a].status = "not_applicable"
    BY <1>3 DEF LeftOver
  <2>3. QED
    BY <1>1, <1>3, <1>4, <2>1, <2>2 DEF Progress, Seen
<1>10. OfDate' /\ AllExplained' /\ Stored' /\ Rooted' /\ GraphFollowsRows'
  BY <1>1, SameFiles, SameDates, SameGraph
<1>11. QED
  BY <1>5, <1>6, <1>7, <1>8, <1>9, <1>10 DEF IngestInv

\* A run ends with a version that is valid, or that stays building.
LEMMA ValidateInv ==
  ASSUME IngestInv, Validate
  PROVE  IngestInv'
<1>1. /\ dataset' = IF Valid(meetings, Rows, node, edge) THEN "validated" ELSE dataset
      /\ run' = Stopped
      /\ UNCHANGED <<meetings, date, row, artifact, body, evidence, node, edge, misread, amended>>
  BY DEF Validate, graph
<1>2. /\ run' \in [phase : Phase, given : Given \cup {NoGiven}, left : SUBSET Meeting,
                   meeting : Meeting \cup {NoMeeting}, date : Nat, todo : SUBSET Artifact]
      /\ Standing' /\ Known' /\ Faithful' /\ Progress'
  BY <1>1, RunEnds
<1>3. Typing'
  BY <1>1, <1>2 DEF IngestInv, Typing, IsProof
<1>4. OfDate' /\ AllExplained' /\ Stored' /\ Rooted'
  BY <1>1, SameFiles, SameDates DEF IngestInv, Rooted
<1>5. GraphFollowsRows'
  <2>1. /\ Rows' = Rows /\ Facts' = Facts /\ ScopeFacts' = ScopeFacts /\ ScopeNodes' = ScopeNodes
        /\ Valid(meetings, Rows, node, edge)' <=> Valid(meetings, Rows, node, edge)
    BY <1>1 DEF Rows, Facts, ScopeFacts, ScopeNodes, FactOf, Fact, Valid, RevisesIn
  <2>2. dataset' = "validated" => Valid(meetings, Rows, node, edge)
    BY <1>1 DEF IngestInv, GraphFollowsRows
  <2>3. QED
    BY <1>1, <2>1, <2>2 DEF IngestInv, GraphFollowsRows, FactOf, Fact
<1>6. QED
  BY <1>2, <1>3, <1>4, <1>5 DEF IngestInv

\* A run that is killed leaves what is stored.
LEMMA StopInv ==
  ASSUME IngestInv, Stop
  PROVE  IngestInv'
<1>1. /\ run' = Stopped
      /\ UNCHANGED <<dataset, meetings, date, row, artifact, body, evidence, node, edge,
                     misread, amended>>
  BY DEF Stop, stored
<1>2. /\ run' \in [phase : Phase, given : Given \cup {NoGiven}, left : SUBSET Meeting,
                   meeting : Meeting \cup {NoMeeting}, date : Nat, todo : SUBSET Artifact]
      /\ Standing' /\ Known' /\ Faithful' /\ Progress'
  BY <1>1, RunEnds
<1>3. Typing'
  BY <1>1, <1>2 DEF IngestInv, Typing, IsProof
<1>4. OfDate' /\ AllExplained' /\ Stored' /\ Rooted' /\ GraphFollowsRows'
  BY <1>1, SameFiles, SameDates, SameGraph
<1>5. QED
  BY <1>2, <1>3, <1>4 DEF IngestInv

-----------------------------------------------------------------------------
(* The graph.                                                               *)

\* The facts of some edges.
FactsIn(edges) == {FactOf(e) : e \in edges}

\* Rows of TDocs.
IsListing(rows) ==
    DOMAIN rows \subseteq TDoc /\ \A t \in DOMAIN rows : rows[t].from \in Number

\* The edges with the facts of these rows that were not there, once each.
AddsFacts(edges, m, rows, time) ==
    LET with == EdgesWith(edges, m, rows, time)
    IN
    /\ FactsIn(with) = FactsIn(edges) \cup FactsOf(m, rows)
    /\ edges \subseteq with
    /\ \A e \in with \ edges :
        /\ FactOf(e) \in FactsOf(m, rows) \ FactsIn(edges)
        /\ e = [kind |-> e.kind, source |-> e.source, target |-> e.target, time |-> time]
        /\ e \in EdgeType
        /\ \/ e.kind = "contains" /\ e.source = m
           \/ e.kind = "revises" /\ e.source \in DOMAIN rows

\* What persist_tdoc_graph_batch adds to the edges.
LEMMA AddedEdges ==
  ASSUME NEW edges, NEW m \in Meeting, NEW rows, IsListing(rows), NEW time \in Nat
  PROVE  AddsFacts(edges, m, rows, time)
<1> DEFINE there == FactsIn(edges)
           edgeOf(f) == [kind |-> f.kind, source |-> f.source, target |-> f.target, time |-> time]
<1>1. EdgesWith(edges, m, rows, time) = edges \cup {edgeOf(f) : f \in FactsOf(m, rows) \ there}
  BY DEF EdgesWith, FactsIn
<1>2. \A f \in FactsOf(m, rows) :
        \/ /\ f.kind = "contains" /\ f.source = m /\ f.target \in DOMAIN rows
           /\ f = Fact(f.kind, f.source, f.target)
        \/ /\ f.kind = "revises" /\ f.source \in DOMAIN rows
           /\ f.target = rows[f.source].from /\ f.target # NoTDoc
           /\ f = Fact(f.kind, f.source, f.target)
  BY DEF FactsOf, Fact
<1>3. \A f \in FactsOf(m, rows) :
        /\ FactOf(edgeOf(f)) = f
        /\ edgeOf(f).kind = f.kind /\ edgeOf(f).source = f.source /\ edgeOf(f).target = f.target
        /\ edgeOf(f).time = time
        /\ edgeOf(f) \in EdgeType
  <2>1. \A f \in FactsOf(m, rows) :
            \/ f.kind = "contains" /\ f.source \in Meeting /\ f.target \in TDoc
            \/ f.kind = "revises" /\ f.source \in TDoc /\ f.target \in TDoc
    BY <1>2 DEF Number, IsListing
  <2>2. \A f \in FactsOf(m, rows) : edgeOf(f) \in EdgeType
    BY <2>1 DEF EdgeType
  <2>3. QED
    BY <1>2, <2>2 DEF FactOf
<1> HIDE DEF there, edgeOf
<1>4. \A e \in EdgesWith(edges, m, rows, time) \ edges :
        \E f \in FactsOf(m, rows) \ there : e = edgeOf(f)
  BY <1>1
<1>5. FactsIn(EdgesWith(edges, m, rows, time)) = there \cup FactsOf(m, rows)
  <2>1. \A f \in FactsOf(m, rows) \ there : \E e \in EdgesWith(edges, m, rows, time) : f = FactOf(e)
    BY <1>1, <1>3
  <2>2. \A e \in EdgesWith(edges, m, rows, time) : FactOf(e) \in there \cup FactsOf(m, rows)
    BY <1>1, <1>3 DEF there, FactsIn
  <2>3. \A f \in there : \E e \in EdgesWith(edges, m, rows, time) : f = FactOf(e)
    BY <1>1 DEF there, FactsIn
  <2>4. QED
    BY <2>1, <2>2, <2>3 DEF FactsIn
<1>6. \A e \in EdgesWith(edges, m, rows, time) \ edges :
        /\ FactOf(e) \in FactsOf(m, rows) \ there
        /\ e = [kind |-> e.kind, source |-> e.source, target |-> e.target, time |-> time]
        /\ e \in EdgeType
        /\ (e.kind = "contains" /\ e.source = m) \/ (e.kind = "revises" /\ e.source \in DOMAIN rows)
  <2> TAKE e \in EdgesWith(edges, m, rows, time) \ edges
  <2>1. PICK f \in FactsOf(m, rows) \ there : e = edgeOf(f)
    BY <1>4
  <2>2. e = [kind |-> e.kind, source |-> e.source, target |-> e.target, time |-> time]
    BY <2>1, <1>3 DEF edgeOf
  <2>3. QED
    BY <1>2, <1>3, <2>1, <2>2
<1>7. QED
  BY <1>1, <1>5, <1>6 DEF there, AddsFacts

\* The index of the meeting that a run is at.
LEMMA IndexType ==
  ASSUME IngestInv, run.phase \notin {"idle", "open"}
  PROVE  /\ DOMAIN Index \subseteq TDoc
         /\ \A t \in DOMAIN Index :
                /\ Index[t].from \in Number /\ Index[t].to \in Number
                /\ Index[t] = [from |-> Index[t].from, to |-> Index[t].to]
<1>1. run.given \in Given /\ run.meeting \in Meeting
  BY IngestAssumption DEF IngestInv, Standing, Typing
<1>2. Index \in UNION {[S -> [from : Number, to : Number]] : S \in SUBSET TDoc}
  BY <1>1 DEF Index, Given, Number
<1>3. PICK S \in SUBSET TDoc : Index \in [S -> [from : Number, to : Number]]
  BY <1>2
<1>4. QED
  BY <1>3

\* The rows of an index, its evidence and its part of the graph: a row that
\* is there is kept, and so are the facts of it; whatever else the graph gains
\* are the facts of the new rows, and links of rows that have other ones.
LEMMA IngestIndexInv ==
  ASSUME IngestInv, IngestIndex
  PROVE  IngestInv'
<1> DEFINE m == run.meeting
           mine == {t \in DOMAIN Index : IsMine(t)}
           facts == [t \in mine |-> Index[t]]
           new(t) == [owner |-> m, from |-> Index[t].from, to |-> Index[t].to]
<1>1. /\ run.phase = "index"
      /\ row' = [t \in TDoc |-> IF t \in DOMAIN Index /\ row[t] = NoRow THEN new(t) ELSE row[t]]
      /\ evidence' = evidence \cup
            {Proof(Index, t) : t \in {u \in DOMAIN Index : <<Index, u>> \notin Proved}}
      /\ node' = NodesWith(node, facts)
      /\ edge' = EdgesWith(edge, m, facts, run.date)
      /\ run' = [run EXCEPT !.phase = "others", !.todo = Entries("other")]
      /\ amended' = amended \cup {t \in mine : [from |-> row'[t].from, to |-> row'[t].to] # Index[t]}
      /\ UNCHANGED <<dataset, meetings, date, artifact, body, misread>>
  BY DEF IngestIndex
<1>2. /\ m \in meetings /\ m \in Meeting /\ run.date = Undated
      /\ dataset = "building" /\ run.given \in Manifest
  BY <1>1 DEF IngestInv, Standing, Typing
<1>3. /\ DOMAIN Index \subseteq TDoc
      /\ \A t \in DOMAIN Index :
            /\ Index[t].from \in Number /\ Index[t].to \in Number
            /\ Index[t] = [from |-> Index[t].from, to |-> Index[t].to]
  BY <1>1, IndexType
<1>4. /\ DOMAIN facts = mine /\ mine \subseteq DOMAIN Index
      /\ \A t \in mine : facts[t] = Index[t] /\ (row[t] = NoRow \/ row[t].owner = m)
  BY DEF IsMine
<1>5. /\ \A t \in DOMAIN Index : /\ new(t) # NoRow /\ new(t) \in RowType
                                 /\ new(t).owner = m /\ new(t).from = Index[t].from
                                 /\ new(t).to = Index[t].to
      /\ \A t \in DOMAIN Index : row[t] = NoRow => t \in mine
  BY <1>2, <1>3, IngestAssumption DEF NoRow, RowType, IsMine
<1> HIDE DEF facts, mine, new
<1>6. \A t \in TDoc : row'[t] = IF t \in DOMAIN Index /\ row[t] = NoRow THEN new(t) ELSE row[t]
  BY <1>1
<1>7. row' \in [TDoc -> RowType]
  BY <1>1, <1>5 DEF IngestInv, Typing
<1>8. /\ edge \subseteq edge'
      /\ FactsIn(edge') = Facts \cup FactsOf(m, facts)
      /\ \A e \in edge' \ edge :
            /\ FactOf(e) \notin Facts
            /\ e = [kind |-> e.kind, source |-> e.source, target |-> e.target, time |-> Undated]
            /\ e \in EdgeType
            /\ (e.kind = "contains" /\ e.source = m) \/ (e.kind = "revises" /\ e.source \in mine)
  <2>1. IsListing(facts)
    BY <1>3, <1>4 DEF IsListing
  <2>2. Undated \in Nat
    BY DEF Undated
  <2>3. AddsFacts(edge, m, facts, Undated)
    BY <1>2, <2>1, <2>2, AddedEdges
  <2>4. edge' = EdgesWith(edge, m, facts, Undated)
    BY <1>1, <1>2
  <2>5. QED
    BY <1>4, <2>3, <2>4 DEF AddsFacts, Facts, FactsIn
<1>9. Undated \in Nat /\ \A e \in edge' \ edge : e.time = Undated
  BY <1>8 DEF Undated
<1>10. \A f : f \in FactsOf(m, facts) <=>
            \/ \E t \in mine : f = Fact("contains", m, t)
            \/ \E t \in mine : Index[t].from # NoTDoc /\ f = Fact("revises", t, Index[t].from)
  BY <1>4 DEF FactsOf
<1>11. /\ run'.phase = "others" /\ run'.meeting = m /\ run'.given = run.given
       /\ run'.date = Undated /\ run'.todo = Entries("other")
       /\ run' \in [phase : Phase, given : Given \cup {NoGiven}, left : SUBSET Meeting,
                    meeting : Meeting \cup {NoMeeting}, date : Nat, todo : SUBSET Artifact]
       /\ \A kind : Entries(kind)' = Entries(kind)
  <2>1. Entries("other") \subseteq Artifact
    BY <1>1, KindsApart
  <2>2. /\ run'.phase = "others" /\ run'.meeting = m /\ run'.given = run.given
        /\ run'.date = Undated /\ run'.todo = Entries("other")
        /\ run' \in [phase : Phase, given : Given \cup {NoGiven}, left : SUBSET Meeting,
                     meeting : Meeting \cup {NoMeeting}, date : Nat, todo : SUBSET Artifact]
    BY <1>1, <1>2, <2>1 DEF IngestInv, Typing, Phase
  <2>3. QED
    BY <2>2, SameMeeting
<1>12. \A e \in evidence' : e \in evidence \/ (IsProof(e) /\ e.time = Undated)
  <2>1. \A t : IsProof(Proof(Index, t)) /\ Proof(Index, t).time = Undated
    BY <1>1, <1>2, RunProof
  <2>2. QED
    BY <1>1, <2>1
<1>13. \A t \in TDoc : node'[t] = IF t \in mine THEN "tdoc"
                                  ELSE IF node[t] = "absent" /\ \E u \in mine : Index[u].from = t
                                  THEN "placeholder" ELSE node[t]
  BY <1>1, <1>4 DEF NodesWith
<1>14. node' \in [TDoc -> {"absent", "placeholder", "tdoc"}]
  <2>1. DOMAIN node' = TDoc /\ node' = [t \in TDoc |-> node'[t]]
    BY <1>1 DEF NodesWith
  <2>2. \A t \in TDoc : node'[t] \in {"absent", "placeholder", "tdoc"}
    BY <1>13 DEF IngestInv, Typing
  <2>3. QED
    BY <2>1, <2>2
<1>15. Typing'
  <2>1. edge' \subseteq EdgeType
    BY <1>8 DEF IngestInv, Typing
  <2>2. \A e \in evidence' : IsProof(e)
    BY <1>12 DEF IngestInv, Typing
  <2>3. QED
    BY <1>1, <1>7, <1>11, <1>14, <2>1, <2>2 DEF IngestInv, Typing
<1>16. Standing' /\ Known' /\ Faithful' /\ Progress'
  BY <1>1, <1>2, <1>11 DEF Standing, Known, Faithful, Progress
<1>17. AllExplained' /\ Stored'
  BY <1>1, SameFiles
<1>18. \A e \in edge : Meetings(e)' = Meetings(e)
  BY <1>6 DEF Meetings, IngestInv, Rooted, Typing, EdgeType
<1>19. OfDate'
  BY <1>1, <1>9, <1>12, <1>18 DEF IngestInv, OfDate
<1>20. Rooted'
  <2>1. \A t \in TDoc : row'[t] # NoRow => row'[t].owner \in meetings
    BY <1>2, <1>5, <1>6 DEF IngestInv, Rooted
  <2>2. \A t \in mine : row'[t] # NoRow
    BY <1>3, <1>4, <1>5, <1>6
  <2>3. \A e \in edge : e.kind = "revises" => row'[e.source] # NoRow
    BY <1>6 DEF IngestInv, Rooted, Typing, EdgeType
  <2>4. \A e \in edge' : e.kind = "revises" => row'[e.source] # NoRow
    BY <1>8, <2>2, <2>3
  <2>5. QED
    BY <1>1, <2>1, <2>4 DEF Rooted
<1>21. /\ DOMAIN Rows = {t \in TDoc : row[t] # NoRow} /\ DOMAIN Rows' = {t \in TDoc : row'[t] # NoRow}
       /\ DOMAIN Rows \subseteq DOMAIN Rows' /\ mine \subseteq DOMAIN Rows'
       /\ DOMAIN Rows' \subseteq DOMAIN Rows \cup mine
       /\ \A t \in DOMAIN Rows : row'[t] = row[t]
       /\ \A t \in DOMAIN Rows' \ DOMAIN Rows : row'[t].owner = m /\ row'[t].from = Index[t].from
       /\ \A t \in mine : row'[t].owner = m
  <2>1. /\ DOMAIN Rows = {t \in TDoc : row[t] # NoRow}
        /\ DOMAIN Rows' = {t \in TDoc : row'[t] # NoRow}
    BY DEF Rows
  <2>2. QED
    BY <1>3, <1>4, <1>5, <1>6, <2>1
<1>22. GraphFollowsRows'
  <2>1. \A f : f \in ScopeFacts <=>
            \/ \E t \in DOMAIN Rows : row[t].owner \in meetings /\ f = Fact("contains", row[t].owner, t)
            \/ \E t \in DOMAIN Rows : row[t].from # NoTDoc /\ f = Fact("revises", t, row[t].from)
    BY DEF ScopeFacts
  <2>2. \A f : f \in ScopeFacts' <=>
            \/ \E t \in DOMAIN Rows' : row'[t].owner \in meetings /\ f = Fact("contains", row'[t].owner, t)
            \/ \E t \in DOMAIN Rows' : row'[t].from # NoTDoc /\ f = Fact("revises", t, row'[t].from)
    BY <1>1 DEF ScopeFacts, Fact
  <2>3. Facts' = Facts \cup FactsOf(m, facts)
    BY <1>8 DEF Facts, FactsIn, FactOf, Fact
  <2>4. ScopeFacts \subseteq ScopeFacts'
    BY <1>21, <2>1, <2>2
  <2>5. ScopeFacts' \subseteq Facts'
    <3>1. ASSUME NEW t \in DOMAIN Rows', row'[t].owner \in meetings
          PROVE  Fact("contains", row'[t].owner, t) \in Facts'
      <4>1. CASE t \in DOMAIN Rows
        BY <1>21, <2>1, <2>3, <3>1, <4>1 DEF IngestInv, GraphFollowsRows
      <4>2. CASE t \notin DOMAIN Rows
        BY <1>10, <1>21, <2>3, <4>2
      <4>3. QED
        BY <4>1, <4>2
    <3>2. ASSUME NEW t \in DOMAIN Rows', row'[t].from # NoTDoc
          PROVE  Fact("revises", t, row'[t].from) \in Facts'
      <4>1. CASE t \in DOMAIN Rows
        BY <1>21, <2>1, <2>3, <3>2, <4>1 DEF IngestInv, GraphFollowsRows
      <4>2. CASE t \notin DOMAIN Rows
        BY <1>10, <1>21, <2>3, <3>2, <4>2
      <4>3. QED
        BY <4>1, <4>2
    <3>3. QED
      BY <2>2, <3>1, <3>2
  <2>6. ASSUME NEW f \in Facts' \ ScopeFacts'
        PROVE  f.kind = "revises" /\ f.source \in amended'
    <3>1. CASE f \in Facts
      BY <1>1, <2>4, <2>6, <3>1 DEF IngestInv, GraphFollowsRows
    <3>2. ASSUME NEW t \in mine, f = Fact("contains", m, t) PROVE FALSE
      BY <1>2, <1>21, <2>2, <2>6, <3>2
    <3>3. ASSUME NEW t \in mine, Index[t].from # NoTDoc, f = Fact("revises", t, Index[t].from)
          PROVE  f.kind = "revises" /\ f.source \in amended'
      <4>1. row'[t].from # Index[t].from
        BY <1>21, <2>2, <2>6, <3>3
      <4>2. [from |-> row'[t].from, to |-> row'[t].to] # Index[t]
        BY <4>1
      <4>3. QED
        BY <1>1, <3>3, <4>2 DEF Fact
    <3>4. QED
      BY <1>10, <2>3, <3>1, <3>2, <3>3
  <2>7. \A e, f \in edge' : FactOf(e) = FactOf(f) => e = f
    <3>1. \A e, f \in edge : FactOf(e) = FactOf(f) => e = f
      BY DEF IngestInv, GraphFollowsRows
    <3>2. \A e \in edge : \A f \in edge' \ edge : FactOf(e) # FactOf(f)
      BY <1>8 DEF Facts
    <3>3. ASSUME NEW e \in edge' \ edge, NEW f \in edge' \ edge, FactOf(e) = FactOf(f) PROVE e = f
      <4>1. e.kind = f.kind /\ e.source = f.source /\ e.target = f.target
        BY <3>3 DEF FactOf, Fact
      <4>2. QED
        BY <1>8, <4>1
    <3>4. QED
      BY <3>1, <3>2, <3>3
  <2>8. ASSUME amended' = {} PROVE node' = ScopeNodes'
    <3>1. amended = {} /\ node = ScopeNodes
      BY <1>1, <2>8 DEF IngestInv, GraphFollowsRows
    <3>2. \A t \in mine : row'[t].from = Index[t].from
      <4>1. \A t \in mine : [from |-> row'[t].from, to |-> row'[t].to] = Index[t]
        BY <1>1, <2>8
      <4>2. \A t \in mine : [from |-> row'[t].from, to |-> row'[t].to].from = Index[t].from
        BY <4>1
      <4>3. QED
        BY <4>2
    <3>3. \A t \in TDoc : node[t] = IF t \in DOMAIN Rows THEN "tdoc"
                                    ELSE IF \E u \in DOMAIN Rows : row[u].from = t THEN "placeholder"
                                    ELSE "absent"
      BY <3>1 DEF ScopeNodes
    <3>4. \A t \in TDoc : (\E u \in DOMAIN Rows' : row'[u].from = t)
                            <=> \/ \E u \in DOMAIN Rows : row[u].from = t
                                \/ \E u \in mine : Index[u].from = t
      BY <1>21, <3>2
    <3>5. \A t \in TDoc : node'[t] = IF t \in DOMAIN Rows' THEN "tdoc"
                                     ELSE IF \E u \in DOMAIN Rows' : row'[u].from = t THEN "placeholder"
                                     ELSE "absent"
      BY <1>13, <1>21, <3>3, <3>4
    <3>6. ScopeNodes' = [t \in TDoc |-> IF t \in DOMAIN Rows' THEN "tdoc"
                                        ELSE IF \E u \in DOMAIN Rows' : row'[u].from = t THEN "placeholder"
                                        ELSE "absent"]
      BY DEF ScopeNodes
    <3>7. node' = [t \in TDoc |-> node'[t]]
      BY <1>14
    <3>8. QED
      BY <3>5, <3>6, <3>7
  <2>9. dataset' # "validated"
    BY <1>1, <1>2
  <2>10. QED
    BY <2>5, <2>6, <2>7, <2>8, <2>9 DEF GraphFollowsRows, FactOf, Fact
<1>23. QED
  BY <1>15, <1>16, <1>17, <1>19, <1>20, <1>22 DEF IngestInv

\* graph-rebuild stores every fact of the rows, and each once: a row is of one
\* meeting.
LEMMA RebuildGraphInv ==
  ASSUME IngestInv, RebuildGraph
  PROVE  IngestInv'
<1>1. /\ run.phase = "idle"
      /\ Valid(meetings, Rows, RebuiltNodes, RebuiltEdges)
      /\ node' = RebuiltNodes /\ edge' = RebuiltEdges
      /\ dataset' = "validated" /\ amended' = {}
      /\ UNCHANGED <<meetings, date, row, artifact, body, evidence, run, misread>>
  BY DEF RebuildGraph
<1>2. /\ DOMAIN Rows = {t \in TDoc : row[t] # NoRow}
      /\ \A t \in DOMAIN Rows : Rows[t] = row[t] /\ row[t].from \in Number /\ row[t].owner \in meetings
  BY DEF IngestInv, Typing, Rooted, RowType, Rows
<1>3. \A m \in meetings : m \in Meeting /\ date[m] \in Nat
  BY DEF IngestInv, Typing
<1>4. \A m : /\ DOMAIN RowsOf(m) = {t \in DOMAIN Rows : row[t].owner = m}
             /\ \A t \in DOMAIN RowsOf(m) : RowsOf(m)[t] = row[t]
  BY DEF RowsOf
<1>5. \A m \in meetings : AddsFacts({}, m, RowsOf(m), date[m])
  <2>1. \A m \in meetings : IsListing(RowsOf(m))
    BY <1>2, <1>4 DEF IsListing
  <2>2. QED
    BY <1>3, <2>1, AddedEdges
<1>6. \A e : e \in edge' <=> \E m \in meetings : e \in EdgesWith({}, m, RowsOf(m), date[m])
  BY <1>1 DEF RebuiltEdges
<1>7. \A e \in edge' : \E m \in meetings :
        /\ FactOf(e) \in FactsOf(m, RowsOf(m))
        /\ e = [kind |-> e.kind, source |-> e.source, target |-> e.target, time |-> date[m]]
        /\ e \in EdgeType
        /\ \/ e.kind = "contains" /\ e.source = m
           \/ /\ e.kind = "revises" /\ e.source \in DOMAIN Rows
              /\ row[e.source].owner = m
  <2> TAKE e \in edge'
  <2>1. PICK m \in meetings : e \in EdgesWith({}, m, RowsOf(m), date[m])
    BY <1>6
  <2>2. AddsFacts({}, m, RowsOf(m), date[m])
    BY <1>5
  <2>3. /\ FactOf(e) \in FactsOf(m, RowsOf(m))
        /\ e = [kind |-> e.kind, source |-> e.source, target |-> e.target, time |-> date[m]]
        /\ e \in EdgeType
        /\ \/ e.kind = "contains" /\ e.source = m
           \/ e.kind = "revises" /\ e.source \in DOMAIN RowsOf(m)
    BY <2>1, <2>2 DEF AddsFacts
  <2>4. QED
    BY <1>4, <2>3
<1>8. \A m \in meetings : \A f \in FactsOf(m, RowsOf(m)) : \E e \in edge' : f = FactOf(e)
  BY <1>5, <1>6 DEF AddsFacts, FactsIn
<1>9. Typing'
  <2>1. edge' \subseteq EdgeType
    BY <1>7
  <2>2. node' \in [TDoc -> {"absent", "placeholder", "tdoc"}]
    BY <1>1 DEF RebuiltNodes, NodesWith
  <2>3. QED
    BY <1>1, <2>1, <2>2 DEF IngestInv, Typing, IsProof
<1>10. Standing' /\ Known' /\ Faithful' /\ Progress'
  <2>1. run'.phase = "idle" /\ run'.date = Undated /\ run'.todo = {}
    BY <1>1 DEF IngestInv, Standing
  <2>2. QED
    BY <2>1 DEF Standing, Known, Faithful, Progress
<1>11. AllExplained' /\ Stored'
  BY <1>1, SameFiles
<1>12. OfDate'
  <2>1. \A e \in edge' : e.time = date[Meetings(e)']
    BY <1>1, <1>7 DEF Meetings
  <2>2. QED
    BY <1>1, <2>1 DEF IngestInv, OfDate
<1>13. Rooted'
  BY <1>1, <1>2, <1>7 DEF IngestInv, Rooted
<1>14. Rows' = Rows
  BY <1>1 DEF Rows
<1>15. Facts' = ScopeFacts
  <2>1. \A f : f \in ScopeFacts <=>
            \/ \E t \in DOMAIN Rows : f = Fact("contains", row[t].owner, t)
            \/ \E t \in DOMAIN Rows : row[t].from # NoTDoc /\ f = Fact("revises", t, row[t].from)
    BY <1>2 DEF ScopeFacts
  <2>2. \A m, f : f \in FactsOf(m, RowsOf(m)) <=>
            \/ \E t \in DOMAIN Rows : row[t].owner = m /\ f = Fact("contains", m, t)
            \/ \E t \in DOMAIN Rows : /\ row[t].owner = m /\ row[t].from # NoTDoc
                                      /\ f = Fact("revises", t, row[t].from)
    BY <1>4 DEF FactsOf
  <2>3. \A f \in ScopeFacts : \E m \in meetings : f \in FactsOf(m, RowsOf(m))
    BY <1>2, <2>1, <2>2
  <2>4. \A m \in meetings : FactsOf(m, RowsOf(m)) \subseteq ScopeFacts
    BY <2>1, <2>2
  <2>5. Facts' = {FactOf(e) : e \in edge'}
    BY DEF Facts, FactOf, Fact
  <2>6. \A e \in edge' : FactOf(e) \in ScopeFacts
    BY <1>7, <2>4
  <2>7. \A f \in ScopeFacts : \E e \in edge' : f = FactOf(e)
    BY <1>8, <2>3
  <2>8. QED
    BY <2>5, <2>6, <2>7
<1>16. ScopeFacts' = ScopeFacts
  BY <1>1, <1>14 DEF ScopeFacts, Fact
<1>17. \A e, f \in edge' : FactOf(e) = FactOf(f) => e = f
  <2>1. \A e, f : FactOf(e) = FactOf(f) => e.kind = f.kind /\ e.source = f.source /\ e.target = f.target
    BY DEF FactOf, Fact
  <2> TAKE e, f \in edge'
  <2>2. PICK m \in meetings :
          /\ e = [kind |-> e.kind, source |-> e.source, target |-> e.target, time |-> date[m]]
          /\ (e.kind = "contains" /\ e.source = m) \/ (e.kind = "revises" /\ row[e.source].owner = m)
    BY <1>7
  <2>3. PICK n \in meetings :
          /\ f = [kind |-> f.kind, source |-> f.source, target |-> f.target, time |-> date[n]]
          /\ (f.kind = "contains" /\ f.source = n) \/ (f.kind = "revises" /\ row[f.source].owner = n)
    BY <1>7
  <2>4. QED
    BY <2>1, <2>2, <2>3
<1>18. node' = ScopeNodes'
  <2>1. ScopeNodes' = ScopeNodes
    BY <1>1, <1>14 DEF ScopeNodes
  <2>2. \A t \in TDoc : (\E u \in DOMAIN Rows : Rows[u].from = t)
                            <=> \E u \in DOMAIN Rows : row[u].from = t
    BY <1>2
  <2>3. \A t \in TDoc : node'[t] = ScopeNodes[t]
    BY <1>1, <2>2 DEF RebuiltNodes, NodesWith, ScopeNodes
  <2>4. /\ ScopeNodes = [t \in TDoc |-> ScopeNodes[t]]
        /\ node' = [t \in TDoc |-> node'[t]]
    BY <1>9 DEF ScopeNodes, Typing
  <2>5. QED
    BY <2>1, <2>3, <2>4
<1>19. Valid(meetings, Rows, node, edge)'
  <2>1. Valid(meetings', Rows', node', edge')
    BY <1>1, <1>14
  <2>2. QED
    BY <2>1 DEF Valid, RevisesIn
<1>20. GraphFollowsRows'
  <2>1. \A e, f \in edge' : FactOf(e)' = FactOf(f)' => e = f
    BY <1>17 DEF FactOf, Fact
  <2>2. QED
    BY <1>15, <1>16, <1>18, <1>19, <2>1 DEF GraphFollowsRows
<1>21. QED
  BY <1>9, <1>10, <1>11, <1>12, <1>13, <1>20 DEF IngestInv

-----------------------------------------------------------------------------
(* The specification.                                                       *)

\* Nothing is stored at first.
LEMMA IngestInit == Init => IngestInv
<1> SUFFICES ASSUME Init PROVE IngestInv
  OBVIOUS
<1>1. /\ dataset = "none" /\ meetings = {} /\ evidence = {} /\ edge = {} /\ run = Stopped
      /\ date = [m \in Meeting |-> Undated] /\ row = [t \in TDoc |-> NoRow]
      /\ artifact = [a \in Artifact |-> NotSeen] /\ body = [d \in Documents |-> NoFile]
      /\ node = [t \in TDoc |-> "absent"]
  BY DEF Init
<1>2. /\ run.phase = "idle" /\ run.date = Undated /\ run.todo = {}
      /\ run \in [phase : Phase, given : Given \cup {NoGiven}, left : SUBSET Meeting,
                  meeting : Meeting \cup {NoMeeting}, date : Nat, todo : SUBSET Artifact]
  BY <1>1 DEF Stopped, Phase, Undated
<1>3. Typing
  <2>1. NotSeen \in [status : Status, error : Error] /\ NoRow \in RowType
    BY DEF NotSeen, Status, Error, RowType
  <2>2. Undated \in Nat /\ NoFile \in Nat
    BY DEF Undated, NoFile
  <2>3. QED
    BY <1>1, <1>2, <2>1, <2>2 DEF Typing
<1>4. Standing /\ Known /\ Faithful /\ Progress
  BY <1>2 DEF Standing, Known, Faithful, Progress
<1>5. OfDate /\ Rooted
  BY <1>1 DEF OfDate, Rooted
<1>6. AllExplained
  BY <1>1 DEF AllExplained, Seen, NotSeen
<1>7. Stored
  BY <1>1, IngestAssumption DEF Stored, Documents
<1>8. GraphFollowsRows
  <2>1. DOMAIN Rows = {}
    BY <1>1 DEF Rows
  <2>2. ScopeFacts = {} /\ Facts = {}
    BY <1>1, <2>1 DEF ScopeFacts, Facts
  <2>3. node = ScopeNodes
    BY <1>1, <2>1 DEF ScopeNodes
  <2>4. QED
    BY <1>1, <2>2, <2>3 DEF GraphFollowsRows
<1>9. QED
  BY <1>3, <1>4, <1>5, <1>6, <1>7, <1>8 DEF IngestInv

\* Every transaction keeps it.
LEMMA IngestStep == IngestInv /\ [Next]_vars => IngestInv'
<1> SUFFICES ASSUME IngestInv, [Next]_vars PROVE IngestInv'
  OBVIOUS
<1>1. ASSUME NEW given \in Manifest, NEW chosen \in (SUBSET Meeting) \ {{}}, StartRun(given, chosen)
      PROVE  IngestInv'
  BY <1>1, StartRunInv
<1>2. CASE OpenMeeting
  BY <1>2, OpenMeetingInv
<1>3. CASE IngestIndex
  BY <1>3, IngestIndexInv
<1>4. CASE BeginReports
  BY <1>4, BeginReportsInv
<1>5. ASSUME NEW a \in Artifact, IngestArtifact(a) PROVE IngestInv'
  BY <1>5, StoreOtherInv, SkipReportInv, StoreReportInv, FailReportInv, UndoReportInv,
     StoreDocumentInv, RefuseDocumentInv, StoreLeftOverInv DEF IngestArtifact
<1>6. CASE FinishReports
  BY <1>6, FinishReportsInv
<1>7. CASE FinishDocuments
  BY <1>7, FinishDocumentsInv
<1>8. CASE Validate
  BY <1>8, ValidateInv
<1>9. CASE Stop
  BY <1>9, StopInv
<1>10. CASE RebuildGraph
  BY <1>10, RebuildGraphInv
<1>11. CASE UNCHANGED vars
  <2>1. UNCHANGED <<dataset, meetings, date, row, artifact, body, evidence, node, edge, run,
                    misread, amended>>
    BY <1>11 DEF vars, stored
  <2>2. \A kind : Entries(kind)' = Entries(kind)
    BY <2>1, SameMeeting
  <2>3. Matched' = Matched /\ Archives' = Archives
    BY <2>1, SameMeeting
  <2>4. Typing' /\ Standing' /\ Known'
    BY <2>1, <2>2, <2>3 DEF IngestInv, Typing, IsProof, Standing, Pending, Known
  <2>5. Faithful'
    BY <2>1, <2>2 DEF IngestInv, Faithful, Undone, Meetings
  <2>6. Progress'
    BY <2>1, <2>2, <2>3 DEF IngestInv, Progress, Seen
  <2>7. OfDate' /\ AllExplained' /\ Stored' /\ Rooted' /\ GraphFollowsRows'
    BY <2>1, SameFiles, SameDates, SameGraph
  <2>8. QED
    BY <2>4, <2>5, <2>6, <2>7 DEF IngestInv
<1>12. QED
  BY <1>1, <1>2, <1>3, <1>4, <1>5, <1>6, <1>7, <1>8, <1>9, <1>10, <1>11 DEF Next

\* The inductive invariant holds over any number of runs, killed or not.
THEOREM IngestInvariant == Spec => []IngestInv
<1>1. QED
  BY IngestInit, IngestStep, PTL DEF Spec

\* What was stored of a meeting bears its date or none, and where a run that
\* knows the date leaves the meeting, nothing of it is undated, however often
\* earlier runs were killed.
THEOREM DatedAsTheMeeting == Spec => []Dated
<1>1. IngestInv => Dated
  <2> SUFFICES ASSUME IngestInv PROVE Dated
    OBVIOUS
  <2>1. ASSUME Left, run.date # Undated, run.meeting \notin misread,
               \A a \in Entries("report") : ~Undone(a)
        PROVE  /\ date[run.meeting] = run.date
               /\ \A e \in evidence : e.meeting = run.meeting => e.time = run.date
               /\ \A e \in edge : Meetings(e) = run.meeting => e.time = run.date
    BY <2>1 DEF IngestInv, Known, Faithful
  <2>2. QED
    BY <2>1 DEF IngestInv, OfDate, Dated
<1>2. QED
  BY <1>1, IngestInvariant, PTL

\* Where a run leaves a meeting, every file of its manifest has a status that
\* tells what became of it, and none whose body could be stored is lost but
\* for the reasons that are named.
THEOREM EveryFileAccounted == Spec => []Accounted
<1>1. IngestInv => Accounted
  <2> SUFFICES ASSUME IngestInv, Left PROVE Accounted
    BY DEF Accounted
  <2>1. run.phase = "leftovers" /\ run.todo = {} /\ run.given \in Given
    BY IngestAssumption DEF Left, IngestInv, Standing
  <2>2. /\ \A kind : Entries(kind) \subseteq Artifact
        /\ \A kind : \A a \in Entries(kind) : a.kind = kind
        /\ Matched \subseteq Archives /\ Archives = Entries("tdoc")
    BY <2>1, KindsApart
  <2>3. /\ \A a \in Entries("other") : Seen(a)
        /\ \A a \in Entries("report") : Seen(a)
        /\ \A a \in Matched : Seen(a)
        /\ \A a \in Archives \ Matched : artifact[a].status = "not_applicable"
    BY <2>1 DEF IngestInv, Progress
  <2>4. \A a \in Archives : Seen(a)
    BY <2>3 DEF Seen
  <2>5. ASSUME NEW a \in run.given.entries, a.meeting = run.meeting PROVE Explained(a)
    <3>1. a \in Artifact /\ a.kind \in {"report", "tdoc", "other"}
      BY <2>1, IngestAssumption DEF Given, Source
    <3>2. Seen(a)
      BY <2>2, <2>3, <2>4, <2>5, <3>1 DEF Entries
    <3>3. QED
      BY <3>1, <3>2 DEF IngestInv, AllExplained
  <2>6. ASSUME NEW a \in Matched
        PROVE  \/ body[a.document] # NoFile
               \/ a.fate # "body"
               \/ artifact[a].error \in {"undone", "orphan", "copy"}
    <3>1. a \in Artifact /\ Explained(a) /\ a.kind = "tdoc" /\ a.url # NoFile
      BY <2>2, <2>3, IngestAssumption DEF IngestInv, AllExplained
    <3>2. artifact[a].status \in Status \ {"absent"}
      BY <2>3, <3>1 DEF IngestInv, Typing, Seen
    <3>3. QED
      BY <3>1, <3>2 DEF Explained, Status
  <2>7. QED
    BY <2>3, <2>5, <2>6 DEF Accounted
<1>2. QED
  BY <1>1, IngestInvariant, PTL

\* The stored graph is the one that the graph view makes of the rows, but for
\* links that a later index gave a TDoc whose row is kept.
THEOREM StoredGraph == Spec => []GraphFollowsRows
<1>1. IngestInv => GraphFollowsRows
  BY DEF IngestInv
<1>2. QED
  BY <1>1, IngestInvariant, PTL

-----------------------------------------------------------------------------
(***************************************************************************)
(* The search for a cycle, over edges between the nodes N.                 *)
(***************************************************************************)
Nodes(edges) == {e[1] : e \in edges} \cup {e[2] : e \in edges}

Searches(N) == [todo : SUBSET N, visiting : SUBSET N, visited : SUBSET N]

Outcome(N) == [cyclic : BOOLEAN, visited : SUBSET N]

Deeper(edges, s, t) == Searching(Targets(edges, t), s.visiting \cup {t}, s.visited)

Further(s, t, visited) == Searching(s.todo \ {t}, s.visiting, visited \cup {t})

First(edges, f, s, t) ==
    IF t \in s.visiting \cup s.visited
    THEN [cyclic |-> t \in s.visiting, visited |-> s.visited]
    ELSE f[Deeper(edges, s, t)]

After(f, s, t, first) == IF first.cyclic THEN first ELSE f[Further(s, t, first.visited)]

Chosen(s) == CHOOSE t \in s.todo : TRUE

SearchTurn(edges, f, s) ==
    IF s.todo = {} THEN [cyclic |-> FALSE, visited |-> s.visited]
    ELSE After(f, s, Chosen(s), First(edges, f, s, Chosen(s)))

\* The search has more to do the fewer nodes it is visiting, and the more there
\* are to do.
Remaining(N) ==
    [s \in Searches(N) |-> Cardinality(N \ s.visiting) * (Cardinality(N) + 1) + Cardinality(s.todo)]

Most(N) == Cardinality(N) * (Cardinality(N) + 1) + Cardinality(N)

\* A search is its fields.
LEMMA SearchIs ==
  ASSUME NEW N, NEW todo \in SUBSET N, NEW visiting \in SUBSET N, NEW visited \in SUBSET N
  PROVE  LET s == Searching(todo, visiting, visited) IN
         s \in Searches(N) /\ s.todo = todo /\ s.visiting = visiting /\ s.visited = visited
BY DEF Searching, Searches

\* The measure of a search.
LEMMA RemainingIs ==
  ASSUME NEW N, IsFiniteSet(N)
  PROVE  /\ Most(N) \in Nat /\ Remaining(N) \in [Searches(N) -> 0..Most(N)]
         /\ \A s \in Searches(N) :
                Remaining(N)[s] = Cardinality(N \ s.visiting) * (Cardinality(N) + 1) + Cardinality(s.todo)
<1>1. PICK c \in Nat : c = Cardinality(N)
  BY FS_CardinalityType
<1>2. \A a, d \in Nat : a * d \in Nat
  OBVIOUS
<1>3. Most(N) = c * (c + 1) + c /\ Most(N) \in Nat
  BY <1>1, <1>2 DEF Most
<1>4. ASSUME NEW s \in Searches(N)
      PROVE  Cardinality(N \ s.visiting) * (c + 1) + Cardinality(s.todo) \in 0..Most(N)
  <2>1. s.todo \in SUBSET N /\ N \ s.visiting \in SUBSET N
    BY DEF Searches
  <2>2. PICK a \in Nat, b \in Nat : /\ a = Cardinality(N \ s.visiting) /\ b = Cardinality(s.todo)
                                    /\ a <= c /\ b <= c
    BY <1>1, <2>1, FS_Subset, FS_CardinalityType
  <2>3. a * (c + 1) \in Nat /\ c * (c + 1) \in Nat
    BY <1>2
  <2>4. a * (c + 1) <= c * (c + 1)
    <3>1. \A x, y, d \in Nat : x <= y => x * d <= y * d
      OBVIOUS
    <3>2. QED
      BY <2>2, <3>1
  <2>5. QED
    BY <1>3, <2>2, <2>3, <2>4
<1>5. \A s \in Searches(N) : Remaining(N)[s]
            = Cardinality(N \ s.visiting) * (Cardinality(N) + 1) + Cardinality(s.todo)
  BY DEF Remaining
<1>6. Remaining(N) \in [Searches(N) -> 0..Most(N)]
  BY <1>1, <1>4 DEF Remaining
<1>7. QED
  BY <1>3, <1>5, <1>6

\* It is less for the searches that a search makes.
LEMMA SearchesLess ==
  ASSUME NEW edges, NEW N, IsFiniteSet(N), Nodes(edges) \subseteq N,
         NEW s \in Searches(N), NEW t \in s.todo
  PROVE  /\ t \notin s.visiting =>
                /\ Deeper(edges, s, t) \in Searches(N)
                /\ Remaining(N)[Deeper(edges, s, t)] < Remaining(N)[s]
         /\ \A visited \in SUBSET N :
                /\ Further(s, t, visited) \in Searches(N)
                /\ Remaining(N)[Further(s, t, visited)] < Remaining(N)[s]
<1>1. /\ s.todo \in SUBSET N /\ s.visiting \in SUBSET N /\ s.visited \in SUBSET N /\ t \in N
      /\ Targets(edges, t) \in SUBSET N
  BY DEF Searches, Targets, Nodes
<1>2. PICK c \in Nat : c = Cardinality(N)
  BY FS_CardinalityType
<1>3. PICK a \in Nat, b \in Nat : /\ a = Cardinality(N \ s.visiting) /\ b = Cardinality(s.todo)
                                  /\ IsFiniteSet(N \ s.visiting) /\ IsFiniteSet(s.todo)
  BY <1>1, FS_Subset, FS_CardinalityType
<1>4. PICK r \in Int : r = Remaining(N)[s] /\ r = a * (c + 1) + b
  BY <1>2, <1>3, RemainingIs
<1>5. ASSUME t \notin s.visiting
      PROVE  /\ Deeper(edges, s, t) \in Searches(N)
             /\ Remaining(N)[Deeper(edges, s, t)] < Remaining(N)[s]
  <2>1. PICK d : d = Deeper(edges, s, t)
    OBVIOUS
  <2>2. /\ d \in Searches(N) /\ d.todo = Targets(edges, t) /\ d.visiting = s.visiting \cup {t}
    BY <1>1, <2>1, SearchIs DEF Deeper
  <2>3. N \ d.visiting = (N \ s.visiting) \ {t} /\ t \in N \ s.visiting
    BY <1>1, <1>5, <2>2
  <2>4. Cardinality(N \ d.visiting) = a - 1
    <3>1. PICK S : S = N \ s.visiting
      OBVIOUS
    <3>2. IsFiniteSet(S) /\ t \in S /\ Cardinality(S) = a
      BY <1>3, <2>3, <3>1
    <3>3. Cardinality(S \ {t}) = Cardinality(S) - 1
      BY <3>2, FS_RemoveElement
    <3>4. QED
      BY <2>3, <3>1, <3>2, <3>3
  <2>5. PICK b1 \in Nat : b1 = Cardinality(d.todo) /\ b1 <= c
    BY <1>1, <1>2, <2>2, FS_Subset, FS_CardinalityType
  <2>6. Remaining(N)[d] = (a - 1) * (c + 1) + b1
    BY <1>2, <2>2, <2>4, <2>5, RemainingIs
  <2>7. \A x, y \in Int : (x - 1) * y = x * y - y
    OBVIOUS
  <2>8. (a - 1) * (c + 1) = a * (c + 1) - (c + 1)
    BY <2>7
  <2>9. a * (c + 1) \in Int
    OBVIOUS
  <2>10. QED
    BY <1>4, <2>1, <2>2, <2>5, <2>6, <2>8, <2>9
<1>6. ASSUME NEW visited \in SUBSET N
      PROVE  /\ Further(s, t, visited) \in Searches(N)
             /\ Remaining(N)[Further(s, t, visited)] < Remaining(N)[s]
  <2>1. PICK d : d = Further(s, t, visited)
    OBVIOUS
  <2>2. s.todo \ {t} \in SUBSET N /\ visited \cup {t} \in SUBSET N
    BY <1>1
  <2>3. /\ d \in Searches(N) /\ d.todo = s.todo \ {t} /\ d.visiting = s.visiting
    BY <1>1, <2>1, <2>2, SearchIs DEF Further
  <2>4. Cardinality(d.todo) = b - 1
    <3>1. PICK S : S = s.todo
      OBVIOUS
    <3>2. IsFiniteSet(S) /\ t \in S /\ Cardinality(S) = b
      BY <1>3, <3>1
    <3>3. Cardinality(S \ {t}) = Cardinality(S) - 1
      BY <3>2, FS_RemoveElement
    <3>4. QED
      BY <2>3, <3>1, <3>2, <3>3
  <2>5. Remaining(N)[d] = a * (c + 1) + (b - 1)
    BY <1>2, <1>3, <2>3, <2>4, RemainingIs
  <2>6. a * (c + 1) \in Int
    OBVIOUS
  <2>7. QED
    BY <1>4, <2>1, <2>3, <2>5, <2>6
<1>7. QED
  BY <1>5, <1>6

\* What a turn computes depends on those only, and is an outcome.
LEMMA SearchRecursive ==
  ASSUME NEW edges, NEW N, IsFiniteSet(N), Nodes(edges) \subseteq N
  PROVE  Recursive(Searches(N), Outcome(N), Remaining(N),
                   [f \in [Searches(N) -> Outcome(N)] |->
                        [s \in Searches(N) |-> SearchTurn(edges, f, s)]],
                   Most(N))
<1> DEFINE X == Searches(N)
           V == Outcome(N)
           turn == [f \in [X -> V] |-> [s \in X |-> SearchTurn(edges, f, s)]]
<1>1. ASSUME NEW s \in X, s.todo # {} PROVE Chosen(s) \in s.todo
  BY <1>1 DEF Chosen
<1>2. ASSUME NEW f \in [X -> V], NEW s \in X, s.todo # {}
      PROVE  First(edges, f, s, Chosen(s)) \in V
  <2>1. PICK t \in s.todo : t = Chosen(s)
    BY <1>1, <1>2
  <2>2. CASE t \in s.visiting \cup s.visited
    BY <2>1, <2>2 DEF First, Outcome, Searches
  <2>3. CASE t \notin s.visiting \cup s.visited
    <3>1. Deeper(edges, s, t) \in X
      BY <2>3, SearchesLess
    <3>2. First(edges, f, s, t) = f[Deeper(edges, s, t)]
      BY <2>3 DEF First
    <3> HIDE DEF X, V
    <3>3. QED
      BY <2>1, <3>1, <3>2
  <2>4. QED
    BY <2>2, <2>3
<1>3. ASSUME NEW f \in [X -> V], NEW s \in X PROVE SearchTurn(edges, f, s) \in V
  <2>1. CASE s.todo = {}
    BY <2>1 DEF SearchTurn, Outcome, Searches
  <2>2. CASE s.todo # {}
    <3>1. PICK t \in s.todo, first \in V : t = Chosen(s) /\ first = First(edges, f, s, t)
      BY <1>1, <1>2, <2>2
    <3>2. SearchTurn(edges, f, s) = After(f, s, t, first)
      BY <2>2, <3>1 DEF SearchTurn
    <3>3. first.visited \in SUBSET N
      BY <3>1 DEF Outcome
    <3>4. Further(s, t, first.visited) \in X
      BY <3>3, SearchesLess
    <3> HIDE DEF X, V
    <3>5. QED
      BY <3>1, <3>2, <3>4 DEF After
  <2>3. QED
    BY <2>1, <2>2
<1>4. ASSUME NEW f \in [X -> V], NEW g \in [X -> V], NEW s \in X,
             \A y \in X : Remaining(N)[y] < Remaining(N)[s] => f[y] = g[y]
      PROVE  SearchTurn(edges, f, s) = SearchTurn(edges, g, s)
  <2>1. CASE s.todo = {}
    BY <2>1 DEF SearchTurn
  <2>2. CASE s.todo # {}
    <3>1. PICK t \in s.todo : t = Chosen(s)
      BY <1>1, <2>2
    <3>2. First(edges, f, s, t) = First(edges, g, s, t)
      <4>1. CASE t \in s.visiting \cup s.visited
        BY <4>1 DEF First
      <4>2. CASE t \notin s.visiting \cup s.visited
        <5>1. f[Deeper(edges, s, t)] = g[Deeper(edges, s, t)]
          BY <1>4, <4>2, SearchesLess
        <5>2. QED
          BY <4>2, <5>1 DEF First
      <4>3. QED
        BY <4>1, <4>2
    <3>3. PICK first \in V : first = First(edges, f, s, t)
      BY <1>2, <2>2, <3>1
    <3>4. first.visited \in SUBSET N
      BY <3>3 DEF Outcome
    <3>5. f[Further(s, t, first.visited)] = g[Further(s, t, first.visited)]
      BY <1>4, <3>4, SearchesLess
    <3>6. After(f, s, t, first) = After(g, s, t, first)
      BY <3>5 DEF After
    <3>7. QED
      BY <2>2, <3>1, <3>2, <3>3, <3>6 DEF SearchTurn
  <2>3. QED
    BY <2>1, <2>2
<1>5. Remaining(N) \in [X -> 0..Most(N)]
  BY RemainingIs
<1> HIDE DEF X, V
<1>6. turn \in [[X -> V] -> [X -> V]]
  BY <1>3
<1>7. \A f, g \in [X -> V], x \in X :
            (\A y \in X : Remaining(N)[y] < Remaining(N)[x] => f[y] = g[y]) => turn[f][x] = turn[g][x]
  BY <1>4
<1> HIDE DEF turn
<1>8. Recursive(X, V, Remaining(N), turn, Most(N))
  BY <1>5, <1>6, <1>7 DEF Recursive
<1>9. QED
  BY <1>8 DEF X, V, turn

\* So the search is what a turn computes from it, and its outcome one.
LEMMA SearchIsTurn ==
  ASSUME NEW edges, IsFiniteSet(Nodes(edges)), NEW s \in Searches(Nodes(edges))
  PROVE  /\ Search(edges)[s] = SearchTurn(edges, Search(edges), s)
         /\ Search(edges)[s] \in Outcome(Nodes(edges))
<1> DEFINE X == Searches(Nodes(edges))
           V == Outcome(Nodes(edges))
           Turned(f) == [x \in X |-> SearchTurn(edges, f, x)]
           turn == [f \in [X -> V] |-> Turned(f)]
           f == CHOOSE f : f = Turned(f)
<1>1. \E g \in [X -> V] : g = turn[g]
  <2>1. [cyclic |-> FALSE, visited |-> {}] \in V
    BY DEF Outcome
  <2>2. Recursive(X, V, Remaining(Nodes(edges)), turn, Most(Nodes(edges)))
    BY SearchRecursive
  <2>3. Most(Nodes(edges)) \in Nat
    BY RemainingIs
  <2> HIDE DEF X, V, turn
  <2>4. QED
    BY <2>1, <2>2, <2>3, RecursionExists
<1>2. \E g : g = Turned(g)
  BY <1>1
<1>3. f = Turned(f)
  <2> HIDE DEF Turned
  <2>1. QED
    BY <1>2
<1>4. Search(edges) = f
  BY DEF Search, SearchTurn, After, First, Deeper, Further, Chosen, Searches, Nodes
<1> HIDE DEF f
<1>5. \A x \in X : f[x] = SearchTurn(edges, f, x)
  BY <1>3
<1>6. ASSUME NEW x \in X,
             \A y \in X : Remaining(Nodes(edges))[y] < Remaining(Nodes(edges))[x] => f[y] \in V
      PROVE  f[x] \in V
  <2>1. CASE x.todo = {}
    <3>1. x.visited \in SUBSET Nodes(edges)
      BY DEF Searches
    <3>2. f[x] = [cyclic |-> FALSE, visited |-> x.visited]
      <4> HIDE DEF X
      <4>1. QED
        BY <1>5, <2>1 DEF SearchTurn
    <3>3. QED
      BY <3>1, <3>2 DEF Outcome
  <2>2. CASE x.todo # {}
    <3>1. PICK t \in x.todo : t = Chosen(x)
      BY <2>2 DEF Chosen
    <3>2. First(edges, f, x, t) \in V
      <4>1. CASE t \in x.visiting \cup x.visited
        BY <4>1 DEF First, Outcome, Searches
      <4>2. CASE t \notin x.visiting \cup x.visited
        <5>1. f[Deeper(edges, x, t)] \in V
          BY <1>6, <4>2, SearchesLess
        <5>2. QED
          BY <4>2, <5>1 DEF First
      <4>3. QED
        BY <4>1, <4>2
    <3>3. PICK first \in V : first = First(edges, f, x, t)
      BY <3>2
    <3>4. first.visited \in SUBSET Nodes(edges)
      BY <3>3 DEF Outcome
    <3>5. f[Further(x, t, first.visited)] \in V
      BY <1>6, <3>4, SearchesLess
    <3>6. f[x] = After(f, x, t, first)
      BY <1>5, <2>2, <3>1, <3>3 DEF SearchTurn
    <3>7. QED
      BY <3>3, <3>5, <3>6 DEF After
  <2>3. QED
    BY <2>1, <2>2
<1>7. \A x \in X : f[x] \in V
  <2> DEFINE P == {x \in X : f[x] \in V}
  <2>1. \A x \in X : (\A y \in X : Remaining(Nodes(edges))[y] < Remaining(Nodes(edges))[x] => y \in P) => x \in P
    BY <1>6
  <2> HIDE DEF P, X
  <2>2. \A x \in X : x \in P
    BY <2>1, RemainingIs, MeasureInduction DEF X
  <2>3. QED
    BY <2>2 DEF P
<1>8. QED
  BY <1>4, <1>5, <1>7

\* The nodes being visited lead to each other, or all of them on to what is to be
\* searched.
Leading(edges, s) ==
    \A u \in s.visiting : \E S \in SUBSET s.visiting :
        u \in S /\ \A w \in S : Targets(edges, w) \cap S # {} \/ s.todo \subseteq Targets(edges, w)

\* Where the search meets a node that it is visiting, there is a cycle.
LEMMA MetAgain ==
  ASSUME NEW edges, NEW s \in Searches(Nodes(edges)), Leading(edges, s),
         NEW t \in s.todo, t \in s.visiting
  PROVE  HasCycle(edges)
<1>1. PICK S \in SUBSET s.visiting :
        t \in S /\ \A w \in S : Targets(edges, w) \cap S # {} \/ s.todo \subseteq Targets(edges, w)
  BY DEF Leading
<1>2. \A w \in S : Targets(edges, w) \cap S # {}
  BY <1>1
<1>3. S \subseteq {e[1] : e \in edges}
  BY <1>2 DEF Targets
<1>4. QED
  BY <1>1, <1>2, <1>3 DEF HasCycle

\* The searches that a search makes begin as it does.
LEMMA LeadingOn ==
  ASSUME NEW edges, NEW s \in Searches(Nodes(edges)), Leading(edges, s), NEW t \in s.todo
  PROVE  /\ t \notin s.visiting => Leading(edges, Deeper(edges, s, t))
         /\ \A visited \in SUBSET Nodes(edges) : Leading(edges, Further(s, t, visited))
<1>1. /\ s.todo \in SUBSET Nodes(edges) /\ s.visiting \in SUBSET Nodes(edges)
      /\ s.visited \in SUBSET Nodes(edges)
      /\ Targets(edges, t) \in SUBSET Nodes(edges)
  BY DEF Searches, Targets, Nodes
<1>2. ASSUME t \notin s.visiting PROVE Leading(edges, Deeper(edges, s, t))
  <2>1. PICK d : d = Deeper(edges, s, t)
    OBVIOUS
  <2>2. d.todo = Targets(edges, t) /\ d.visiting = s.visiting \cup {t}
    BY <1>1, <2>1, SearchIs DEF Deeper
  <2>3. ASSUME NEW u \in s.visiting
        PROVE  \E S \in SUBSET d.visiting :
                u \in S /\ \A w \in S : Targets(edges, w) \cap S # {} \/ d.todo \subseteq Targets(edges, w)
    <3>1. PICK S \in SUBSET s.visiting :
            u \in S /\ \A w \in S : Targets(edges, w) \cap S # {} \/ s.todo \subseteq Targets(edges, w)
      BY DEF Leading
    <3>2. S \cup {t} \in SUBSET d.visiting /\ u \in S \cup {t}
      BY <2>2, <3>1
    <3>3. ASSUME NEW w \in S \cup {t}
          PROVE  Targets(edges, w) \cap (S \cup {t}) # {} \/ d.todo \subseteq Targets(edges, w)
      <4>1. CASE w = t
        BY <2>2, <4>1
      <4>2. CASE w \in S
        BY <3>1, <4>2
      <4>3. QED
        BY <4>1, <4>2
    <3>4. QED
      BY <3>2, <3>3
  <2>4. \E S \in SUBSET d.visiting :
            t \in S /\ \A w \in S : Targets(edges, w) \cap S # {} \/ d.todo \subseteq Targets(edges, w)
    <3>1. {t} \in SUBSET d.visiting /\ t \in {t} /\ \A w \in {t} : d.todo \subseteq Targets(edges, w)
      BY <2>2
    <3>2. QED
      BY <3>1
  <2>5. QED
    BY <2>1, <2>2, <2>3, <2>4 DEF Leading
<1>3. ASSUME NEW visited \in SUBSET Nodes(edges) PROVE Leading(edges, Further(s, t, visited))
  <2>1. PICK d : d = Further(s, t, visited)
    OBVIOUS
  <2>2. s.todo \ {t} \in SUBSET Nodes(edges) /\ visited \cup {t} \in SUBSET Nodes(edges)
    BY <1>1
  <2>3. d.todo = s.todo \ {t} /\ d.visiting = s.visiting
    BY <1>1, <2>1, <2>2, SearchIs DEF Further
  <2>4. d.todo \subseteq s.todo
    BY <2>3
  <2>5. QED
    BY <2>1, <2>3, <2>4 DEF Leading
<1>4. QED
  BY <1>2, <1>3

\* A search that starts so and finds a cycle is right.
LEMMA SearchSound ==
  ASSUME NEW edges, IsFiniteSet(Nodes(edges)), NEW s \in Searches(Nodes(edges)),
         Leading(edges, s), Search(edges)[s].cyclic
  PROVE  HasCycle(edges)
<1> DEFINE N == Nodes(edges)
           P == {x \in Searches(N) : Leading(edges, x) /\ Search(edges)[x].cyclic => HasCycle(edges)}
<1>1. ASSUME NEW x \in Searches(N),
             \A y \in Searches(N) : Remaining(N)[y] < Remaining(N)[x] => y \in P,
             Leading(edges, x), Search(edges)[x].cyclic
      PROVE  HasCycle(edges)
  <2>1. x.todo # {}
    <3>1. x.todo = {} => Search(edges)[x] = [cyclic |-> FALSE, visited |-> x.visited]
      BY SearchIsTurn DEF SearchTurn
    <3>2. QED
      BY <1>1, <3>1
  <2>2. PICK t \in x.todo : t = Chosen(x)
    BY <2>1 DEF Chosen
  <2>3. PICK first : first = First(edges, Search(edges), x, t)
    OBVIOUS
  <2>4. Search(edges)[x] = After(Search(edges), x, t, first)
    BY <2>1, <2>2, <2>3, SearchIsTurn DEF SearchTurn
  <2>5. CASE t \in x.visiting
    BY <1>1, <2>5, MetAgain
  <2>6. CASE t \notin x.visiting /\ t \in x.visited
    <3>1. first.visited = x.visited /\ (first.cyclic <=> t \in x.visiting)
      <4>1. first = [cyclic |-> t \in x.visiting, visited |-> x.visited]
        BY <2>3, <2>6 DEF First
      <4>2. first.visited = x.visited
        BY <4>1
      <4>3. first.cyclic = (t \in x.visiting)
        BY <4>1
      <4>4. QED
        BY <4>2, <4>3
    <3>2. x.visited \in SUBSET N
      BY DEF Searches
    <3>3. PICK d : d = Further(x, t, x.visited)
      OBVIOUS
    <3>4. Search(edges)[d].cyclic
      BY <1>1, <2>4, <2>6, <3>1, <3>3 DEF After
    <3>5. d \in Searches(N) /\ Remaining(N)[d] < Remaining(N)[x]
      BY <3>2, <3>3, SearchesLess
    <3>6. Leading(edges, d)
      BY <1>1, <3>2, <3>3, LeadingOn
    <3>7. QED
      BY <1>1, <3>4, <3>5, <3>6
  <2>7. CASE t \notin x.visiting /\ t \notin x.visited
    <3>1. PICK d : d = Deeper(edges, x, t)
      OBVIOUS
    <3>2. first = Search(edges)[d]
      BY <2>3, <2>7, <3>1 DEF First
    <3>3. d \in Searches(N) /\ Remaining(N)[d] < Remaining(N)[x]
      BY <2>7, <3>1, SearchesLess
    <3>4. Leading(edges, d)
      BY <1>1, <2>7, <3>1, LeadingOn
    <3>5. CASE first.cyclic
      BY <1>1, <3>2, <3>3, <3>4, <3>5
    <3>6. CASE ~first.cyclic
      <4>1. first.visited \in SUBSET N
        BY <3>2, <3>3, SearchIsTurn DEF Outcome
      <4>2. PICK e : e = Further(x, t, first.visited)
        OBVIOUS
      <4>3. Search(edges)[e].cyclic
        BY <1>1, <2>4, <3>6, <4>2 DEF After
      <4>4. e \in Searches(N) /\ Remaining(N)[e] < Remaining(N)[x]
        BY <4>1, <4>2, SearchesLess
      <4>5. Leading(edges, e)
        BY <1>1, <4>1, <4>2, LeadingOn
      <4>6. QED
        BY <1>1, <4>3, <4>4, <4>5
    <3>7. QED
      BY <3>5, <3>6
  <2>8. QED
    BY <2>5, <2>6, <2>7
<1>2. \A x \in Searches(N) : (\A y \in Searches(N) : Remaining(N)[y] < Remaining(N)[x] => y \in P) => x \in P
  BY <1>1
<1> HIDE DEF P, N
<1>3. \A x \in Searches(N) : x \in P
  BY <1>2, RemainingIs, MeasureInduction DEF N
<1>4. QED
  BY <1>3 DEF P, N

\* Nodes that have been searched without finding a cycle.
Cleared(edges, V) ==
    /\ \A v \in V : Targets(edges, v) \subseteq V
    /\ \A S \in SUBSET V : S # {} => \E w \in S : Targets(edges, w) \cap S = {}

\* They are one more with each node that leads to them only.
LEMMA ClearedOneMore ==
  ASSUME NEW edges, NEW V, Cleared(edges, V), NEW t, Targets(edges, t) \subseteq V
  PROVE  Cleared(edges, V \cup {t})
<1>1. CASE t \in V
  <2>1. V \cup {t} = V
    BY <1>1
  <2>2. QED
    BY <2>1
<1>2. CASE t \notin V
  <2>1. \A v \in V \cup {t} : Targets(edges, v) \subseteq V
    BY DEF Cleared
  <2>2. ASSUME NEW S \in SUBSET (V \cup {t}), S # {}
        PROVE  \E w \in S : Targets(edges, w) \cap S = {}
    <3>1. CASE S \ {t} = {}
      <4>1. S = {t}
        BY <2>2, <3>1
      <4>2. QED
        BY <1>2, <4>1
    <3>2. CASE S \ {t} # {}
      <4>1. S \ {t} \in SUBSET V
        OBVIOUS
      <4>2. PICK w \in S \ {t} : Targets(edges, w) \cap (S \ {t}) = {}
        BY <3>2, <4>1 DEF Cleared
      <4>3. t \notin Targets(edges, w)
        BY <1>2, <2>1
      <4>4. QED
        BY <4>2, <4>3
    <3>3. QED
      BY <3>1, <3>2
  <2>3. \A v \in V \cup {t} : Targets(edges, v) \subseteq V \cup {t}
    BY <2>1
  <2>4. QED
    BY <2>2, <2>3 DEF Cleared
<1>3. QED
  BY <1>1, <1>2

\* What a search clears that finds no cycle.
Clears(edges, s) ==
    LET found == Search(edges)[s] IN
    Cleared(edges, s.visited) /\ ~found.cyclic =>
        s.todo \cup s.visited \subseteq found.visited /\ Cleared(edges, found.visited)

\* It clears all that it had to search.
LEMMA SearchComplete ==
  ASSUME NEW edges, IsFiniteSet(Nodes(edges)), NEW s \in Searches(Nodes(edges))
  PROVE  Clears(edges, s)
<1> DEFINE N == Nodes(edges)
           P == {x \in Searches(N) : Clears(edges, x)}
<1>1. ASSUME NEW x \in Searches(N),
             \A y \in Searches(N) : Remaining(N)[y] < Remaining(N)[x] => y \in P,
             Cleared(edges, x.visited), ~Search(edges)[x].cyclic
      PROVE  /\ x.todo \cup x.visited \subseteq Search(edges)[x].visited
             /\ Cleared(edges, Search(edges)[x].visited)
  <2>1. CASE x.todo = {}
    <3>1. Search(edges)[x] = [cyclic |-> FALSE, visited |-> x.visited]
      BY <2>1, SearchIsTurn DEF SearchTurn
    <3>2. Search(edges)[x].visited = x.visited
      BY <3>1
    <3>3. QED
      BY <1>1, <2>1, <3>2
  <2>2. CASE x.todo # {}
    <3>1. PICK t \in x.todo : t = Chosen(x)
      BY <2>2 DEF Chosen
    <3>2. PICK first : first = First(edges, Search(edges), x, t)
      OBVIOUS
    <3>3. Search(edges)[x] = After(Search(edges), x, t, first)
      BY <2>2, <3>1, <3>2, SearchIsTurn DEF SearchTurn
    <3>4. ~first.cyclic
      BY <1>1, <3>3 DEF After
    <3>5. x.visited \in SUBSET N /\ x.todo \in SUBSET N /\ x.visiting \in SUBSET N
          /\ Targets(edges, t) \in SUBSET N
      BY DEF Searches, Targets, Nodes
    <3>6. t \in x.visiting \cup x.visited => first = [cyclic |-> t \in x.visiting, visited |-> x.visited]
      BY <3>2 DEF First
    <3>7. t \notin x.visiting
      <4>1. t \in x.visiting => first.cyclic = (t \in x.visiting)
        BY <3>6
      <4>2. QED
        BY <3>4, <4>1
    <3>8. /\ first.visited \in SUBSET N /\ x.visited \subseteq first.visited
          /\ Cleared(edges, first.visited \cup {t})
      <4>1. CASE t \in x.visited
        <5>1. first.visited = x.visited
          BY <3>6, <4>1
        <5>2. first.visited \cup {t} = x.visited
          BY <4>1, <5>1
        <5>3. QED
          BY <1>1, <3>5, <5>1, <5>2
      <4>2. CASE t \notin x.visited
        <5>1. PICK d : d = Deeper(edges, x, t)
          OBVIOUS
        <5>2. first = Search(edges)[d]
          BY <3>2, <3>7, <4>2, <5>1 DEF First
        <5>3. d \in Searches(N) /\ Remaining(N)[d] < Remaining(N)[x]
          BY <3>7, <5>1, SearchesLess
        <5>4. x.visiting \cup {t} \in SUBSET N
          BY <3>5
        <5>5. d.todo = Targets(edges, t) /\ d.visited = x.visited
          BY <3>5, <5>1, <5>4, SearchIs DEF Deeper
        <5>6. Clears(edges, d)
          BY <1>1, <5>3
        <5>7. d.todo \cup d.visited \subseteq first.visited /\ Cleared(edges, first.visited)
          BY <1>1, <3>4, <5>2, <5>5, <5>6 DEF Clears
        <5>8. Cleared(edges, first.visited \cup {t})
          BY <5>5, <5>7, ClearedOneMore
        <5>9. first.visited \in SUBSET N
          BY <5>2, <5>3, SearchIsTurn DEF Outcome
        <5>10. QED
          BY <5>5, <5>7, <5>8, <5>9
      <4>3. QED
        BY <4>1, <4>2
    <3>9. PICK e : e = Further(x, t, first.visited)
      OBVIOUS
    <3>10. Search(edges)[x] = Search(edges)[e]
      BY <3>3, <3>4, <3>9 DEF After
    <3>11. e \in Searches(N) /\ Remaining(N)[e] < Remaining(N)[x]
      BY <3>8, <3>9, SearchesLess
    <3>12. x.todo \ {t} \in SUBSET N /\ first.visited \cup {t} \in SUBSET N
      BY <3>5, <3>8
    <3>13. e.todo = x.todo \ {t} /\ e.visited = first.visited \cup {t}
      BY <3>5, <3>9, <3>12, SearchIs DEF Further
    <3>14. Clears(edges, e)
      BY <1>1, <3>11
    <3>15. /\ e.todo \cup e.visited \subseteq Search(edges)[x].visited
           /\ Cleared(edges, Search(edges)[x].visited)
      BY <1>1, <3>8, <3>10, <3>13, <3>14 DEF Clears
    <3>16. QED
      BY <3>8, <3>13, <3>15
  <2>3. QED
    BY <2>1, <2>2
<1>2. \A x \in Searches(N) : (\A y \in Searches(N) : Remaining(N)[y] < Remaining(N)[x] => y \in P) => x \in P
  BY <1>1 DEF Clears
<1> HIDE DEF P, N
<1>3. \A x \in Searches(N) : x \in P
  BY <1>2, RemainingIs, MeasureInduction DEF N
<1>4. QED
  BY <1>3 DEF P, N

\* The search of validate_graph finds a cycle exactly if there is one.
LEMMA SearchFindsCycles ==
  ASSUME NEW edges, IsFiniteSet(Nodes(edges))
  PROVE  CycleFound(edges) <=> HasCycle(edges)
<1> DEFINE sources == {e[1] : e \in edges}
<1>1. PICK s : s = Searching(sources, {}, {})
  OBVIOUS
<1>2. s \in Searches(Nodes(edges)) /\ s.todo = sources /\ s.visiting = {} /\ s.visited = {}
  <2>1. sources \in SUBSET Nodes(edges) /\ {} \in SUBSET Nodes(edges)
    BY DEF Nodes
  <2> HIDE DEF sources
  <2>2. QED
    BY <1>1, <2>1, SearchIs
<1>3. CycleFound(edges) = Search(edges)[s].cyclic
  BY <1>1 DEF CycleFound
<1>4. CycleFound(edges) => HasCycle(edges)
  <2>1. Leading(edges, s)
    BY <1>2 DEF Leading
  <2>2. QED
    BY <1>2, <1>3, <2>1, SearchSound
<1>5. ~CycleFound(edges) => ~HasCycle(edges)
  <2>1. Cleared(edges, s.visited)
    BY <1>2 DEF Cleared
  <2>2. Clears(edges, s)
    BY <1>2, SearchComplete
  <2>3. ASSUME ~CycleFound(edges)
        PROVE  sources \subseteq Search(edges)[s].visited /\ Cleared(edges, Search(edges)[s].visited)
    BY <1>2, <1>3, <2>1, <2>2, <2>3 DEF Clears
  <2>4. ASSUME ~CycleFound(edges), NEW S \in SUBSET sources, S # {}
        PROVE  \E w \in S : Targets(edges, w) \cap S = {}
    <3>1. S \in SUBSET Search(edges)[s].visited
      BY <2>3, <2>4
    <3>2. QED
      BY <2>3, <2>4, <3>1 DEF Cleared
  <2>5. HasCycle(edges) <=> \E S \in (SUBSET sources) \ {{}} : \A w \in S : Targets(edges, w) \cap S # {}
    BY DEF HasCycle
  <2> HIDE DEF sources
  <2>6. ASSUME ~CycleFound(edges), HasCycle(edges) PROVE FALSE
    <3>1. PICK S \in SUBSET sources : S # {} /\ \A w \in S : Targets(edges, w) \cap S # {}
      BY <2>5, <2>6
    <3>2. QED
      BY <2>4, <2>6, <3>1
  <2>7. QED
    BY <2>6
<1>6. QED
  BY <1>4, <1>5

-----------------------------------------------------------------------------
(***************************************************************************)
(* Walks along the links of the nodes D: a state x has used up some nodes, *)
(* and each step one more; the walk ends with a result where it meets a    *)
(* used node, or where no node is linked.                                  *)
(***************************************************************************)
IsWay(D, X, V, way) ==
    /\ way.used \in [X -> SUBSET D] /\ way.step \in [X -> [D -> X]]
    /\ way.met \in [X -> [D -> V]] /\ way.end \in [X -> [D -> V]]
    /\ \A x \in X, u \in D : way.used[way.step[x][u]] = way.used[x] \cup {u}

Gone(D, way, link, f, x, u) ==
    IF u \in way.used[x] THEN way.met[x][u]
    ELSE IF link[u] \in D THEN f[way.step[x][u]][link[u]] ELSE way.end[x][u]

WalkTurn(D, X, way, link, f) == [x \in X |-> [u \in D |-> Gone(D, way, link, f, x, u)]]

Unused(D, X, way) == [x \in X |-> Cardinality(D \ way.used[x])]

\* The nodes not used yet are fewer after each step.
LEMMA UnusedLess ==
  ASSUME NEW D, IsFiniteSet(D), NEW X, NEW V, NEW way, IsWay(D, X, V, way)
  PROVE  /\ Unused(D, X, way) \in [X -> 0..Cardinality(D)] /\ Cardinality(D) \in Nat
         /\ \A x \in X, u \in D : u \notin way.used[x] =>
                way.step[x][u] \in X /\ Unused(D, X, way)[way.step[x][u]] < Unused(D, X, way)[x]
<1>1. PICK c \in Nat : c = Cardinality(D)
  BY FS_CardinalityType
<1>2. ASSUME NEW S \in SUBSET D PROVE IsFiniteSet(S) /\ Cardinality(S) \in 0..c
  <2>1. IsFiniteSet(S) /\ Cardinality(S) <= c
    BY <1>1, FS_Subset
  <2>2. Cardinality(S) \in Nat
    BY <2>1, FS_CardinalityType
  <2>3. QED
    BY <2>1, <2>2
<1>3. \A x \in X : D \ way.used[x] \in SUBSET D
  OBVIOUS
<1>4. Unused(D, X, way) \in [X -> 0..c]
  BY <1>2, <1>3 DEF Unused
<1>5. ASSUME NEW x \in X, NEW u \in D, u \notin way.used[x]
      PROVE  way.step[x][u] \in X /\ Unused(D, X, way)[way.step[x][u]] < Unused(D, X, way)[x]
  <2>1. PICK y \in X : y = way.step[x][u]
    BY DEF IsWay
  <2>2. way.used[y] = way.used[x] \cup {u}
    BY <2>1 DEF IsWay
  <2>3. PICK S \in SUBSET D : S = D \ way.used[x]
    OBVIOUS
  <2>4. D \ way.used[y] = S \ {u} /\ u \in S
    BY <1>5, <2>2, <2>3
  <2>5. PICK n \in Nat : n = Cardinality(S)
    BY <1>2
  <2>6. Cardinality(S \ {u}) = n - 1
    BY <1>2, <2>4, <2>5, FS_RemoveElement
  <2>7. Unused(D, X, way)[x] = n /\ Unused(D, X, way)[y] = n - 1
    BY <2>3, <2>4, <2>5, <2>6 DEF Unused
  <2>8. QED
    BY <2>1, <2>7
<1>6. QED
  BY <1>1, <1>4, <1>5

\* There is a walk.
LEMMA WalkExists ==
  ASSUME NEW D, IsFiniteSet(D), NEW X, NEW V, NEW some \in V, NEW way, IsWay(D, X, V, way), NEW link
  PROVE  \E f : f = WalkTurn(D, X, way, link, f)
<1> DEFINE W == [D -> V]
           turn == [f \in [X -> W] |-> WalkTurn(D, X, way, link, f)]
           K == Cardinality(D)
<1>1. ASSUME NEW f \in [X -> W], NEW x \in X, NEW u \in D PROVE Gone(D, way, link, f, x, u) \in V
  BY DEF Gone, IsWay
<1>2. turn \in [[X -> W] -> [X -> W]]
  BY <1>1 DEF WalkTurn
<1>3. ASSUME NEW f \in [X -> W], NEW g \in [X -> W], NEW x \in X,
             \A y \in X : Unused(D, X, way)[y] < Unused(D, X, way)[x] => f[y] = g[y]
      PROVE  turn[f][x] = turn[g][x]
  <2>1. ASSUME NEW u \in D PROVE Gone(D, way, link, f, x, u) = Gone(D, way, link, g, x, u)
    <3>1. CASE u \in way.used[x]
      BY <3>1 DEF Gone
    <3>2. CASE u \notin way.used[x]
      <4>1. f[way.step[x][u]] = g[way.step[x][u]]
        BY <1>3, <3>2, UnusedLess
      <4>2. QED
        BY <3>2, <4>1 DEF Gone
    <3>3. QED
      BY <3>1, <3>2
  <2>2. QED
    BY <2>1 DEF WalkTurn
<1>4. Recursive(X, W, Unused(D, X, way), turn, K)
  <2>1. Unused(D, X, way) \in [X -> 0..K]
    BY UnusedLess
  <2> HIDE DEF turn, K, W
  <2>2. QED
    BY <1>2, <1>3, <2>1 DEF Recursive
<1>5. K \in Nat
  BY FS_CardinalityType
<1>6. [u \in D |-> some] \in W
  OBVIOUS
<1>7. PICK f \in [X -> W] : f = turn[f]
  <2> HIDE DEF turn, K, W
  <2>1. QED
    BY <1>4, <1>5, <1>6, RecursionExists
<1>8. QED
  BY <1>7

\* Where it ends, and with what.
Halts(D, way, link, y, v, result) ==
    \/ v \in way.used[y] /\ result = way.met[y][v]
    \/ v \notin way.used[y] /\ link[v] \notin D /\ result = way.end[y][v]

\* What holds of the places J of a walk, and after each step again, holds where
\* it ends.
LEMMA WalkEnds ==
  ASSUME NEW D, IsFiniteSet(D), NEW X, NEW V, NEW way, IsWay(D, X, V, way), NEW link,
         NEW f, f = WalkTurn(D, X, way, link, f),
         NEW J,
         \A x \in X, u \in D : <<x, u>> \in J /\ u \notin way.used[x] /\ link[u] \in D
            => <<way.step[x][u], link[u]>> \in J,
         NEW start \in X, NEW t \in D, <<start, t>> \in J
  PROVE  \E y \in X, v \in D : <<y, v>> \in J /\ Halts(D, way, link, y, v, f[start][t])
<1> DEFINE Ends(x, u) == \E y \in X, v \in D : <<y, v>> \in J /\ Halts(D, way, link, y, v, f[x][u])
           P == {x \in X : \A u \in D : <<x, u>> \in J => Ends(x, u)}
<1>1. ASSUME NEW x \in X, \A y \in X : Unused(D, X, way)[y] < Unused(D, X, way)[x] => y \in P,
             NEW u \in D, <<x, u>> \in J
      PROVE  Ends(x, u)
  <2>1. f[x][u] = Gone(D, way, link, f, x, u)
    BY DEF WalkTurn
  <2>2. CASE u \in way.used[x] \/ link[u] \notin D
    <3>1. Halts(D, way, link, x, u, f[x][u])
      BY <2>1, <2>2 DEF Halts, Gone
    <3>2. QED
      BY <1>1, <3>1
  <2>3. CASE u \notin way.used[x] /\ link[u] \in D
    <3>1. PICK y \in X : y = way.step[x][u]
      BY <2>3, UnusedLess
    <3>2. f[x][u] = f[y][link[u]]
      BY <2>1, <2>3, <3>1 DEF Gone
    <3>3. y \in P
      BY <1>1, <2>3, <3>1, UnusedLess
    <3>4. <<y, link[u]>> \in J
      BY <1>1, <2>3, <3>1
    <3>5. QED
      BY <2>3, <3>2, <3>3, <3>4
  <2>4. QED
    BY <2>2, <2>3
<1> HIDE DEF Ends
<1>2. \A x \in X : (\A y \in X : Unused(D, X, way)[y] < Unused(D, X, way)[x] => y \in P) => x \in P
  BY <1>1
<1> HIDE DEF P
<1>3. \A x \in X : x \in P
  BY <1>2, UnusedLess, MeasureInduction
<1>4. QED
  BY <1>3 DEF P, Ends

-----------------------------------------------------------------------------
(***************************************************************************)
(* The walks of the code are such walks over the rows there are.           *)
(***************************************************************************)
IsTable(rows) == IsFiniteSet(DOMAIN rows) /\ NoTDoc \notin DOMAIN rows

FromOf(rows) == [u \in DOMAIN rows |-> rows[u].from]

ToOf(rows) == [u \in DOMAIN rows |-> rows[u].to]

Onto(c, u) == Append(c, u)

Before(c, u) == <<u>> \o c

BackWay(D) ==
    [used |-> [seen \in SUBSET D |-> seen],
     step |-> [seen \in SUBSET D |-> [u \in D |-> seen \cup {u}]],
     met |-> [seen \in SUBSET D |-> [u \in D |-> u]],
     end |-> [seen \in SUBSET D |-> [u \in D |-> u]]]

ForwardWay(D) ==
    [used |-> [c \in Seq(D) |-> Range(c)],
     step |-> [c \in Seq(D) |-> [u \in D |-> Onto(c, u)]],
     met |-> [c \in Seq(D) |-> [u \in D |-> c]],
     end |-> [c \in Seq(D) |-> [u \in D |-> Onto(c, u)]]]

PathWay(D) ==
    [used |-> [c \in Seq(D) |-> Range(c)],
     step |-> [c \in Seq(D) |-> [u \in D |-> Before(c, u)]],
     met |-> [c \in Seq(D) |-> [u \in D |-> c]],
     end |-> [c \in Seq(D) |-> [u \in D |-> Before(c, u)]]]

\* The elements of a sequence with one more.
LEMMA RangeWithOne ==
  ASSUME NEW D, NEW X, X = Seq(D), NEW c \in X
  PROVE  /\ Range(c) \in SUBSET D
         /\ \A u \in D : /\ Onto(c, u) \in X /\ Range(Onto(c, u)) = Range(c) \cup {u}
                         /\ Before(c, u) \in X /\ Range(Before(c, u)) = Range(c) \cup {u}
<1>1. DOMAIN c = 1..Len(c) /\ Len(c) \in Nat /\ \A i \in 1..Len(c) : c[i] \in D
  OBVIOUS
<1>2. Range(c) \in SUBSET D
  BY <1>1 DEF Range
<1>3. ASSUME NEW u \in D
      PROVE  /\ Onto(c, u) \in X /\ Range(Onto(c, u)) = Range(c) \cup {u}
             /\ Before(c, u) \in X /\ Range(Before(c, u)) = Range(c) \cup {u}
  <2>1. Append(c, u) \in Seq(D) /\ <<u>> \o c \in Seq(D)
    OBVIOUS
  <2>2. Range(Append(c, u)) = Range(c) \cup {u}
    <3>1. DOMAIN Append(c, u) = 1..(Len(c) + 1) /\ Append(c, u)[Len(c) + 1] = u
          /\ \A i \in 1..Len(c) : Append(c, u)[i] = c[i]
      OBVIOUS
    <3>2. \A i \in 1..(Len(c) + 1) : i = Len(c) + 1 \/ i \in 1..Len(c)
      BY <1>1
    <3>3. Len(c) + 1 \in 1..(Len(c) + 1) /\ \A i \in 1..Len(c) : i \in 1..(Len(c) + 1)
      BY <1>1
    <3>4. QED
      BY <1>1, <3>1, <3>2, <3>3, Zenon DEF Range
  <2>3. Range(<<u>> \o c) = Range(c) \cup {u}
    <3>1. DOMAIN (<<u>> \o c) = 1..(Len(c) + 1) /\ (<<u>> \o c)[1] = u
          /\ \A i \in 1..Len(c) : (<<u>> \o c)[i + 1] = c[i]
      OBVIOUS
    <3>2. \A i \in 1..(Len(c) + 1) : i = 1 \/ \E j \in 1..Len(c) : i = j + 1
      <4>1. ASSUME NEW i \in 1..(Len(c) + 1), i # 1 PROVE i - 1 \in 1..Len(c) /\ i = (i - 1) + 1
        BY <1>1, <4>1
      <4>2. QED
        BY <4>1
    <3>3. 1 \in 1..(Len(c) + 1) /\ \A i \in 1..Len(c) : i + 1 \in 1..(Len(c) + 1)
      BY <1>1
    <3>4. \A x : x \in Range(<<u>> \o c) <=> \E i \in 1..(Len(c) + 1) : (<<u>> \o c)[i] = x
      BY <3>1 DEF Range
    <3>5. \A x : x \in Range(c) <=> \E i \in 1..Len(c) : c[i] = x
      BY <1>1 DEF Range
    <3>6. ASSUME NEW x, x \in Range(<<u>> \o c) PROVE x \in Range(c) \/ x = u
      <4>1. PICK i \in 1..(Len(c) + 1) : (<<u>> \o c)[i] = x
        BY <3>4, <3>6
      <4>2. CASE i = 1
        BY <3>1, <4>1, <4>2
      <4>3. CASE i # 1
        <5>1. PICK j \in 1..Len(c) : i = j + 1
          BY <3>2, <4>3
        <5>2. c[j] = x
          BY <3>1, <4>1, <5>1
        <5>3. QED
          BY <3>5, <5>2
      <4>4. QED
        BY <4>2, <4>3
    <3>7. ASSUME NEW x \in Range(c) PROVE x \in Range(<<u>> \o c)
      <4>1. PICK j \in 1..Len(c) : c[j] = x
        BY <3>5
      <4>2. (<<u>> \o c)[j + 1] = x /\ j + 1 \in 1..(Len(c) + 1)
        BY <3>1, <3>3, <4>1
      <4>3. QED
        BY <3>4, <4>2
    <3>8. u \in Range(<<u>> \o c)
      BY <3>1, <3>3, <3>4
    <3>9. QED
      BY <3>6, <3>7, <3>8
  <2>4. QED
    BY <2>1, <2>2, <2>3 DEF Onto, Before
<1>4. QED
  BY <1>2, <1>3

\* The three are ways.
LEMMA Ways ==
  ASSUME NEW D
  PROVE  /\ IsWay(D, SUBSET D, D, BackWay(D))
         /\ IsWay(D, Seq(D), Seq(D), ForwardWay(D))
         /\ IsWay(D, Seq(D), Seq(D), PathWay(D))
<1>1. IsWay(D, SUBSET D, D, BackWay(D))
  BY DEF IsWay, BackWay
<1>2. IsWay(D, Seq(D), Seq(D), ForwardWay(D))
  <2>1. PICK X, way : X = Seq(D) /\ way = ForwardWay(D)
    OBVIOUS
  <2>2. /\ \A c \in X : Range(c) \in SUBSET D
        /\ \A c \in X, u \in D : Onto(c, u) \in X /\ Range(Onto(c, u)) = Range(c) \cup {u}
    BY <2>1, RangeWithOne, ZenonT(60)
  <2>3. /\ way.used = [c \in X |-> Range(c)]
        /\ way.step = [c \in X |-> [u \in D |-> Onto(c, u)]]
        /\ way.met = [c \in X |-> [u \in D |-> c]]
        /\ way.end = [c \in X |-> [u \in D |-> Onto(c, u)]]
    BY <2>1 DEF ForwardWay
  <2>4. /\ way.used \in [X -> SUBSET D] /\ way.step \in [X -> [D -> X]]
        /\ way.met \in [X -> [D -> X]] /\ way.end \in [X -> [D -> X]]
    <3>1. way.used \in [X -> SUBSET D]
      BY <2>2, <2>3
    <3>2. way.met \in [X -> [D -> X]]
      BY <2>3
    <3>3. way.step \in [X -> [D -> X]] /\ way.end \in [X -> [D -> X]]
      BY <2>2, <2>3
    <3>4. QED
      BY <3>1, <3>2, <3>3
  <2>5. \A c \in X, u \in D : way.used[way.step[c][u]] = way.used[c] \cup {u}
    BY <2>2, <2>3
  <2>6. QED
    BY <2>1, <2>4, <2>5 DEF IsWay
<1>3. IsWay(D, Seq(D), Seq(D), PathWay(D))
  <2>1. PICK X, way : X = Seq(D) /\ way = PathWay(D)
    OBVIOUS
  <2>2. /\ \A c \in X : Range(c) \in SUBSET D
        /\ \A c \in X, u \in D : Before(c, u) \in X /\ Range(Before(c, u)) = Range(c) \cup {u}
    BY <2>1, RangeWithOne, ZenonT(60)
  <2>3. /\ way.used = [c \in X |-> Range(c)]
        /\ way.step = [c \in X |-> [u \in D |-> Before(c, u)]]
        /\ way.met = [c \in X |-> [u \in D |-> c]]
        /\ way.end = [c \in X |-> [u \in D |-> Before(c, u)]]
    BY <2>1 DEF PathWay
  <2>4. /\ way.used \in [X -> SUBSET D] /\ way.step \in [X -> [D -> X]]
        /\ way.met \in [X -> [D -> X]] /\ way.end \in [X -> [D -> X]]
    <3>1. way.used \in [X -> SUBSET D]
      BY <2>2, <2>3
    <3>2. way.met \in [X -> [D -> X]]
      BY <2>3
    <3>3. way.step \in [X -> [D -> X]] /\ way.end \in [X -> [D -> X]]
      BY <2>2, <2>3
    <3>4. QED
      BY <3>1, <3>2, <3>3
  <2>5. \A c \in X, u \in D : way.used[way.step[c][u]] = way.used[c] \cup {u}
    BY <2>2, <2>3
  <2>6. QED
    BY <2>1, <2>4, <2>5 DEF IsWay
<1>4. QED
  BY <1>1, <1>2, <1>3

\* A function that is defined as its turn is one.
LEMMA WalkBackIs ==
  ASSUME NEW rows, IsTable(rows), NEW t \in DOMAIN rows
  PROVE  \E f : /\ f = WalkTurn(DOMAIN rows, SUBSET DOMAIN rows, BackWay(DOMAIN rows), FromOf(rows), f)
                /\ WalkBack(rows, t) = f[{}][t]
<1> DEFINE D == DOMAIN rows
           Turned(f) == [seen \in SUBSET D |-> [u \in D |->
                IF u \in seen \/ ~Leads(rows, rows[u].from) THEN u
                ELSE f[seen \cup {u}][rows[u].from]]]
           f == CHOOSE f : f = Turned(f)
<1>1. ASSUME NEW g PROVE Turned(g) = WalkTurn(D, SUBSET D, BackWay(D), FromOf(rows), g)
  <2>1. ASSUME NEW seen \in SUBSET D, NEW u \in D
        PROVE  Gone(D, BackWay(D), FromOf(rows), g, seen, u)
                = IF u \in seen \/ ~Leads(rows, rows[u].from) THEN u
                  ELSE g[seen \cup {u}][rows[u].from]
    <3>1. Leads(rows, rows[u].from) <=> FromOf(rows)[u] \in D
      BY DEF Leads, IsTable, FromOf
    <3>2. FromOf(rows)[u] = rows[u].from
      BY DEF FromOf
    <3>3. /\ BackWay(D).used[seen] = seen /\ BackWay(D).step[seen][u] = seen \cup {u}
          /\ BackWay(D).met[seen][u] = u /\ BackWay(D).end[seen][u] = u
      BY DEF BackWay
    <3> HIDE DEF D
    <3>4. QED
      BY <3>1, <3>2, <3>3 DEF Gone
  <2>2. QED
    <3> HIDE DEF D
    <3>1. QED
      BY <2>1 DEF WalkTurn
<1>2. \E g : g = WalkTurn(D, SUBSET D, BackWay(D), FromOf(rows), g)
  <2>1. IsFiniteSet(D) /\ IsWay(D, SUBSET D, D, BackWay(D)) /\ t \in D
    BY Ways DEF IsTable
  <2> HIDE DEF D
  <2>2. QED
    BY <2>1, WalkExists
<1>3. WalkBack(rows, t) = f[{}][t]
  BY DEF WalkBack
<1> HIDE DEF Turned
<1>4. f = Turned(f)
  BY <1>1, <1>2
<1> HIDE DEF f
<1>5. QED
  BY <1>1, <1>3, <1>4

\* So is the walk forward, ...
LEMMA WalkForwardIs ==
  ASSUME NEW rows, IsTable(rows), NEW t \in DOMAIN rows
  PROVE  \E f : /\ f = WalkTurn(DOMAIN rows, Seq(DOMAIN rows), ForwardWay(DOMAIN rows), ToOf(rows), f)
                /\ WalkForward(rows, t) = f[<<>>][t]
<1> DEFINE D == DOMAIN rows
           Turned(f) == [chain \in Seq(D) |-> [u \in D |->
                IF u \in Range(chain) THEN chain
                ELSE IF Leads(rows, rows[u].to) THEN f[Append(chain, u)][rows[u].to]
                ELSE Append(chain, u)]]
           f == CHOOSE f : f = Turned(f)
<1>1. ASSUME NEW g PROVE Turned(g) = WalkTurn(D, Seq(D), ForwardWay(D), ToOf(rows), g)
  <2>1. ASSUME NEW chain \in Seq(D), NEW u \in D
        PROVE  Gone(D, ForwardWay(D), ToOf(rows), g, chain, u)
                = IF u \in Range(chain) THEN chain
                  ELSE IF Leads(rows, rows[u].to) THEN g[Append(chain, u)][rows[u].to]
                  ELSE Append(chain, u)
    <3>1. Leads(rows, rows[u].to) <=> ToOf(rows)[u] \in D
      BY DEF Leads, IsTable, ToOf
    <3>2. ToOf(rows)[u] = rows[u].to
      BY DEF ToOf
    <3>3. PICK way : way = ForwardWay(D)
      OBVIOUS
    <3>4. /\ way.used[chain] = Range(chain) /\ way.step[chain][u] = Append(chain, u)
          /\ way.met[chain][u] = chain /\ way.end[chain][u] = Append(chain, u)
      BY <3>3 DEF ForwardWay, Onto
    <3> HIDE DEF D
    <3>5. QED
      BY <3>1, <3>2, <3>3, <3>4 DEF Gone
  <2>2. QED
    BY <2>1 DEF WalkTurn
<1>2. \E g : g = WalkTurn(D, Seq(D), ForwardWay(D), ToOf(rows), g)
  <2>1. IsFiniteSet(D)
    BY DEF IsTable
  <2>2. IsWay(D, Seq(D), Seq(D), ForwardWay(D))
    BY Ways
  <2>3. <<>> \in Seq(D)
    OBVIOUS
  <2> HIDE DEF D
  <2>4. QED
    BY <2>1, <2>2, <2>3, WalkExists
<1>3. WalkForward(rows, t) = f[<<>>][t]
  BY DEF WalkForward
<1> HIDE DEF Turned
<1>4. f = Turned(f)
  BY <1>1, <1>2
<1> HIDE DEF f
<1>5. QED
  BY <1>1, <1>3, <1>4

\* ... and the path of the graph view.
LEMMA PathToIs ==
  ASSUME NEW rows, IsTable(rows), NEW t \in DOMAIN rows
  PROVE  \E f : /\ f = WalkTurn(DOMAIN rows, Seq(DOMAIN rows), PathWay(DOMAIN rows), FromOf(rows), f)
                /\ PathTo(rows, t) = f[<<>>][t]
<1> DEFINE D == DOMAIN rows
           Turned(f) == [path \in Seq(D) |-> [u \in D |->
                IF u \in Range(path) THEN path
                ELSE IF Leads(rows, rows[u].from) THEN f[<<u>> \o path][rows[u].from]
                ELSE <<u>> \o path]]
           f == CHOOSE f : f = Turned(f)
<1>1. ASSUME NEW g PROVE Turned(g) = WalkTurn(D, Seq(D), PathWay(D), FromOf(rows), g)
  <2>1. ASSUME NEW path \in Seq(D), NEW u \in D
        PROVE  Gone(D, PathWay(D), FromOf(rows), g, path, u)
                = IF u \in Range(path) THEN path
                  ELSE IF Leads(rows, rows[u].from) THEN g[<<u>> \o path][rows[u].from]
                  ELSE <<u>> \o path
    <3>1. Leads(rows, rows[u].from) <=> FromOf(rows)[u] \in D
      BY DEF Leads, IsTable, FromOf
    <3>2. FromOf(rows)[u] = rows[u].from
      BY DEF FromOf
    <3>3. PICK way : way = PathWay(D)
      OBVIOUS
    <3>4. /\ way.used[path] = Range(path) /\ way.step[path][u] = <<u>> \o path
          /\ way.met[path][u] = path /\ way.end[path][u] = <<u>> \o path
      BY <3>3 DEF PathWay, Before
    <3> HIDE DEF D
    <3>5. QED
      BY <3>1, <3>2, <3>3, <3>4 DEF Gone
  <2>2. QED
    BY <2>1 DEF WalkTurn
<1>2. \E g : g = WalkTurn(D, Seq(D), PathWay(D), FromOf(rows), g)
  <2>1. IsFiniteSet(D)
    BY DEF IsTable
  <2>2. IsWay(D, Seq(D), Seq(D), PathWay(D))
    BY Ways
  <2>3. <<>> \in Seq(D)
    OBVIOUS
  <2> HIDE DEF D
  <2>4. QED
    BY <2>1, <2>2, <2>3, WalkExists
<1>3. PathTo(rows, t) = f[<<>>][t]
  BY DEF PathTo
<1> HIDE DEF Turned
<1>4. f = Turned(f)
  BY <1>1, <1>2
<1> HIDE DEF f
<1>5. QED
  BY <1>1, <1>3, <1>4

\* What holds along the walk back holds where it ends.
LEMMA WalkBackEnds ==
  ASSUME NEW rows, IsTable(rows), NEW t \in DOMAIN rows, NEW J, <<{}, t>> \in J,
         \A seen \in SUBSET DOMAIN rows, u \in DOMAIN rows :
            <<seen, u>> \in J /\ u \notin seen /\ rows[u].from \in DOMAIN rows
                => <<seen \cup {u}, rows[u].from>> \in J
  PROVE  \E seen \in SUBSET DOMAIN rows, v \in DOMAIN rows :
            /\ <<seen, v>> \in J /\ WalkBack(rows, t) = v
            /\ v \in seen \/ rows[v].from \notin DOMAIN rows
<1>1. PICK D, X, way, link : D = DOMAIN rows /\ X = SUBSET D /\ way = BackWay(D) /\ link = FromOf(rows)
  OBVIOUS
<1>2. /\ \A u \in D : link[u] = rows[u].from
      /\ \A x \in X : way.used[x] = x
      /\ \A x \in X, u \in D : way.step[x][u] = x \cup {u} /\ way.met[x][u] = u /\ way.end[x][u] = u
  BY <1>1 DEF FromOf, BackWay
<1>3. PICK f : f = WalkTurn(D, X, way, link, f) /\ WalkBack(rows, t) = f[{}][t]
  BY <1>1, WalkBackIs
<1>4. IsFiniteSet(D) /\ IsWay(D, X, D, way) /\ {} \in X /\ t \in D
  BY <1>1, Ways DEF IsTable
<1>5. \A x \in X, u \in D : <<x, u>> \in J /\ u \notin way.used[x] /\ link[u] \in D
        => <<way.step[x][u], link[u]>> \in J
  BY <1>1, <1>2
<1>6. PICK y \in X, v \in D : <<y, v>> \in J /\ Halts(D, way, link, y, v, f[{}][t])
  BY <1>3, <1>4, <1>5, WalkEnds
<1>7. f[{}][t] = v /\ (v \in y \/ rows[v].from \notin D)
  BY <1>2, <1>6 DEF Halts
<1>8. QED
  BY <1>1, <1>3, <1>6, <1>7

\* And along the walk forward.
LEMMA WalkForwardEnds ==
  ASSUME NEW rows, IsTable(rows), NEW t \in DOMAIN rows, NEW J, <<<<>>, t>> \in J,
         \A c \in Seq(DOMAIN rows), u \in DOMAIN rows :
            <<c, u>> \in J /\ u \notin Range(c) /\ rows[u].to \in DOMAIN rows
                => <<Onto(c, u), rows[u].to>> \in J
  PROVE  \E c \in Seq(DOMAIN rows), v \in DOMAIN rows :
            /\ <<c, v>> \in J
            /\ \/ v \in Range(c) /\ WalkForward(rows, t) = c
               \/ v \notin Range(c) /\ rows[v].to \notin DOMAIN rows /\ WalkForward(rows, t) = Onto(c, v)
<1>1. PICK D, X, way, link : D = DOMAIN rows /\ X = Seq(D) /\ way = ForwardWay(D) /\ link = ToOf(rows)
  OBVIOUS
<1>2. /\ \A u \in D : link[u] = rows[u].to
      /\ \A x \in X : way.used[x] = Range(x)
      /\ \A x \in X, u \in D : way.step[x][u] = Onto(x, u) /\ way.met[x][u] = x /\ way.end[x][u] = Onto(x, u)
  BY <1>1 DEF ToOf, ForwardWay
<1>3. PICK f : f = WalkTurn(D, X, way, link, f) /\ WalkForward(rows, t) = f[<<>>][t]
  BY <1>1, WalkForwardIs
<1>4. IsFiniteSet(D) /\ IsWay(D, X, X, way) /\ <<>> \in X /\ t \in D
  <2>1. IsFiniteSet(D) /\ t \in D /\ <<>> \in X
    BY <1>1 DEF IsTable
  <2>2. IsWay(D, X, X, way)
    BY <1>1, Ways
  <2>3. QED
    BY <2>1, <2>2
<1>5. \A x \in X, u \in D : <<x, u>> \in J /\ u \notin way.used[x] /\ link[u] \in D
        => <<way.step[x][u], link[u]>> \in J
  BY <1>1, <1>2
<1>6. PICK y \in X, v \in D : <<y, v>> \in J /\ Halts(D, way, link, y, v, f[<<>>][t])
  BY <1>3, <1>4, <1>5, WalkEnds
<1>7. \/ v \in Range(y) /\ f[<<>>][t] = y
      \/ v \notin Range(y) /\ rows[v].to \notin D /\ f[<<>>][t] = Onto(y, v)
  BY <1>2, <1>6 DEF Halts
<1>8. QED
  BY <1>1, <1>3, <1>6, <1>7

\* And along a path.
LEMMA PathToEnds ==
  ASSUME NEW rows, IsTable(rows), NEW t \in DOMAIN rows, NEW J, <<<<>>, t>> \in J,
         \A c \in Seq(DOMAIN rows), u \in DOMAIN rows :
            <<c, u>> \in J /\ u \notin Range(c) /\ rows[u].from \in DOMAIN rows
                => <<Before(c, u), rows[u].from>> \in J
  PROVE  \E c \in Seq(DOMAIN rows), v \in DOMAIN rows :
            /\ <<c, v>> \in J
            /\ \/ v \in Range(c) /\ PathTo(rows, t) = c
               \/ v \notin Range(c) /\ rows[v].from \notin DOMAIN rows /\ PathTo(rows, t) = Before(c, v)
<1>1. PICK D, X, way, link : D = DOMAIN rows /\ X = Seq(D) /\ way = PathWay(D) /\ link = FromOf(rows)
  OBVIOUS
<1>2. /\ \A u \in D : link[u] = rows[u].from
      /\ \A x \in X : way.used[x] = Range(x)
      /\ \A x \in X, u \in D : way.step[x][u] = Before(x, u) /\ way.met[x][u] = x /\ way.end[x][u] = Before(x, u)
  BY <1>1 DEF FromOf, PathWay
<1>3. PICK f : f = WalkTurn(D, X, way, link, f) /\ PathTo(rows, t) = f[<<>>][t]
  BY <1>1, PathToIs
<1>4. IsFiniteSet(D) /\ IsWay(D, X, X, way) /\ <<>> \in X /\ t \in D
  <2>1. IsFiniteSet(D) /\ t \in D /\ <<>> \in X
    BY <1>1 DEF IsTable
  <2>2. IsWay(D, X, X, way)
    BY <1>1, Ways
  <2>3. QED
    BY <2>1, <2>2
<1>5. \A x \in X, u \in D : <<x, u>> \in J /\ u \notin way.used[x] /\ link[u] \in D
        => <<way.step[x][u], link[u]>> \in J
  BY <1>1, <1>2
<1>6. PICK y \in X, v \in D : <<y, v>> \in J /\ Halts(D, way, link, y, v, f[<<>>][t])
  BY <1>3, <1>4, <1>5, WalkEnds
<1>7. \/ v \in Range(y) /\ f[<<>>][t] = y
      \/ v \notin Range(y) /\ rows[v].from \notin D /\ f[<<>>][t] = Before(y, v)
  BY <1>2, <1>6 DEF Halts
<1>8. QED
  BY <1>1, <1>3, <1>6, <1>7

-----------------------------------------------------------------------------
(***************************************************************************)
(* Chains.                                                                 *)
(***************************************************************************)

\* A sequence with one more, place by place.
LEMMA OntoIs ==
  ASSUME NEW D, NEW c \in Seq(D), NEW u \in D
  PROVE  /\ Onto(c, u) \in Seq(D) /\ Len(c) \in Nat /\ Len(Onto(c, u)) = Len(c) + 1
         /\ Onto(c, u)[Len(c) + 1] = u /\ \A i \in 1..Len(c) : Onto(c, u)[i] = c[i]
BY DEF Onto

\* No TDoc comes twice, and each is linked to the next one.
Linked(rows, c) ==
    /\ \A i, j \in 1..Len(c) : c[i] = c[j] => i = j
    /\ \A i \in 1..(Len(c) - 1) : rows[c[i]].to = c[i + 1]

\* Where the walk forward from b is at u, c behind it.
Passed(rows, b, c, u) ==
    /\ Linked(rows, c)
    /\ Len(c) = 0 => u = b
    /\ Len(c) > 0 => c[1] = b /\ rows[c[Len(c)]].to = u

\* A chain from b: it ends where no row is linked, or one that it has.
IsChain(rows, b, c) ==
    /\ c \in Seq(DOMAIN rows) /\ Len(c) > 0 /\ c[1] = b
    /\ Linked(rows, c)
    /\ rows[c[Len(c)]].to \in DOMAIN rows => \E i \in 1..Len(c) : c[i] = rows[c[Len(c)]].to

\* One more is linked as well.
LEMMA LinkedOnto ==
  ASSUME NEW rows, NEW b, NEW c \in Seq(DOMAIN rows), NEW u \in DOMAIN rows,
         Passed(rows, b, c, u), u \notin Range(c)
  PROVE  Linked(rows, Onto(c, u)) /\ Onto(c, u)[1] = b
<1>1. PICK n \in Nat, d \in Seq(DOMAIN rows) :
        /\ n = Len(c) /\ d = Onto(c, u) /\ Len(d) = n + 1 /\ d[n + 1] = u
        /\ \A i \in 1..n : d[i] = c[i]
  BY OntoIs
<1>2. \A i \in 1..n : c[i] # u
  BY <1>1 DEF Range
<1>3. \A i \in 1..(n + 1) : i \in 1..n \/ i = n + 1
  OBVIOUS
<1>4. ASSUME NEW i \in 1..(n + 1), NEW j \in 1..(n + 1), d[i] = d[j] PROVE i = j
  <2>1. \A k, l \in 1..n : c[k] = c[l] => k = l
    BY <1>1 DEF Passed, Linked
  <2>2. CASE i \in 1..n /\ j \in 1..n
    BY <1>1, <1>4, <2>1, <2>2
  <2>3. CASE i \in 1..n /\ j = n + 1
    BY <1>1, <1>2, <1>4, <2>3
  <2>4. CASE i = n + 1 /\ j \in 1..n
    BY <1>1, <1>2, <1>4, <2>4
  <2>5. QED
    BY <1>3, <2>2, <2>3, <2>4
<1>5. ASSUME NEW i \in 1..n PROVE rows[d[i]].to = d[i + 1]
  <2>1. CASE i = n
    <3>1. n > 0 /\ d[i] = c[n]
      BY <1>1, <2>1
    <3>2. rows[c[n]].to = u
      BY <1>1, <3>1 DEF Passed
    <3>3. QED
      BY <1>1, <2>1, <3>1, <3>2
  <2>2. CASE i # n
    <3>1. i \in 1..(n - 1) /\ i \in 1..n /\ i + 1 \in 1..n
      BY <2>2
    <3>2. rows[c[i]].to = c[i + 1]
      BY <1>1, <3>1 DEF Passed, Linked
    <3>3. QED
      BY <1>1, <3>1, <3>2
  <2>3. QED
    BY <2>1, <2>2
<1>6. d[1] = b
  <2>1. CASE n = 0
    BY <1>1, <2>1 DEF Passed
  <2>2. CASE n # 0
    <3>1. 1 \in 1..n
      BY <2>2
    <3>2. QED
      BY <1>1, <2>2, <3>1 DEF Passed
  <2>3. QED
    BY <2>1, <2>2
<1>7. 1..(Len(d) - 1) = 1..n /\ 1..Len(d) = 1..(n + 1)
  BY <1>1
<1>8. Linked(rows, d)
  BY <1>4, <1>5, <1>7 DEF Linked
<1>9. QED
  BY <1>1, <1>6, <1>8

\* The walk forward is a chain.
LEMMA WalkForwardChain ==
  ASSUME NEW rows, IsTable(rows), NEW b \in DOMAIN rows
  PROVE  IsChain(rows, b, WalkForward(rows, b))
<1> DEFINE D == DOMAIN rows
           J == {p \in Seq(D) \X D : Passed(rows, b, p[1], p[2])}
<1>1. \A c \in Seq(D), u \in D : <<c, u>> \in J <=> Passed(rows, b, c, u)
  OBVIOUS
<1>2. <<<<>>, b>> \in J
  <2>1. Passed(rows, b, <<>>, b)
    BY DEF Passed, Linked
  <2>2. <<>> \in Seq(D)
    OBVIOUS
  <2>3. QED
    BY <1>1, <2>1, <2>2
<1>3. ASSUME NEW c \in Seq(D), NEW u \in D, <<c, u>> \in J, u \notin Range(c), rows[u].to \in D
      PROVE  <<Onto(c, u), rows[u].to>> \in J
  <2>1. PICK n \in Nat, d \in Seq(D) : n = Len(c) /\ d = Onto(c, u) /\ Len(d) = n + 1 /\ d[n + 1] = u
    BY OntoIs
  <2>2. Linked(rows, d) /\ d[1] = b
    BY <1>1, <1>3, <2>1, LinkedOnto
  <2>3. Passed(rows, b, d, rows[u].to)
    BY <2>1, <2>2 DEF Passed
  <2>4. QED
    BY <1>1, <1>3, <2>1, <2>3
<1> HIDE DEF J
<1>4. PICK c \in Seq(D), v \in D :
        /\ <<c, v>> \in J
        /\ \/ v \in Range(c) /\ WalkForward(rows, b) = c
           \/ v \notin Range(c) /\ rows[v].to \notin D /\ WalkForward(rows, b) = Onto(c, v)
  BY <1>2, <1>3, WalkForwardEnds
<1>5. Passed(rows, b, c, v)
  BY <1>1, <1>4
<1>6. CASE v \in Range(c) /\ WalkForward(rows, b) = c
  <2>1. PICK i \in 1..Len(c) : c[i] = v
    BY <1>6 DEF Range
  <2>2. Len(c) \in Nat /\ Len(c) > 0
    BY <2>1
  <2>3. rows[c[Len(c)]].to = v /\ c[1] = b /\ Linked(rows, c)
    BY <1>5, <2>2 DEF Passed
  <2>4. QED
    BY <1>6, <2>1, <2>2, <2>3 DEF IsChain
<1>7. CASE v \notin Range(c) /\ rows[v].to \notin D /\ WalkForward(rows, b) = Onto(c, v)
  <2>1. PICK n \in Nat, d \in Seq(D) : n = Len(c) /\ d = Onto(c, v) /\ Len(d) = n + 1 /\ d[n + 1] = v
    BY OntoIs
  <2>2. Linked(rows, d) /\ d[1] = b
    BY <1>5, <1>7, <2>1, LinkedOnto
  <2>3. rows[d[Len(d)]].to \notin D /\ Len(d) > 0
    BY <1>7, <2>1
  <2>4. QED
    BY <1>7, <2>1, <2>2, <2>3 DEF IsChain
<1>8. QED
  BY <1>4, <1>6, <1>7

\* The edges between rows, and what it is for the two links to agree.
LEMMA EdgesAre ==
  ASSUME NEW rows, IsTable(rows)
  PROVE  /\ \A u, v : <<u, v>> \in FromEdges(rows)
                <=> u \in DOMAIN rows /\ v \in DOMAIN rows /\ rows[u].from = v
         /\ \A e \in FromEdges(rows) : e = <<e[1], e[2]>>
         /\ LinksAgree(rows) => \A u, v \in DOMAIN rows : rows[u].from = v <=> rows[v].to = u
<1> DEFINE D == DOMAIN rows
<1>1. ASSUME NEW u, NEW v
      PROVE  <<u, v>> \in FromEdges(rows) <=> u \in D /\ v \in D /\ rows[u].from = v
  BY DEF FromEdges, Leads, IsTable
<1>2. ASSUME NEW u, NEW v
      PROVE  <<u, v>> \in ToEdges(rows) <=> u \in D /\ v \in D /\ rows[v].to = u
  BY DEF ToEdges, Leads, IsTable
<1>3. \A e \in FromEdges(rows) : e = <<e[1], e[2]>>
  BY DEF FromEdges
<1>4. ASSUME LinksAgree(rows), NEW u \in D, NEW v \in D PROVE rows[u].from = v <=> rows[v].to = u
  <2>1. <<u, v>> \in FromEdges(rows) <=> <<u, v>> \in ToEdges(rows)
    BY <1>4 DEF LinksAgree
  <2>2. QED
    BY <1>1, <1>2, <2>1
<1>5. QED
  BY <1>1, <1>3, <1>4

\* Where no TDoc precedes itself, the walk back ends at the first of them.
LEMMA BackToFirst ==
  ASSUME NEW rows, IsTable(rows), NEW t \in DOMAIN rows, ~HasCycle(FromEdges(rows))
  PROVE  rows[WalkBack(rows, t)].from \notin DOMAIN rows
<1> DEFINE D == DOMAIN rows
           Behind(seen, v) == \A s \in seen : rows[s].from \in D /\ rows[s].from \in seen \cup {v}
           J == {p \in (SUBSET D) \X D : Behind(p[1], p[2])}
<1>1. \A seen \in SUBSET D, v \in D : <<seen, v>> \in J <=> Behind(seen, v)
  OBVIOUS
<1>2. <<{}, t>> \in J
  BY <1>1
<1>3. ASSUME NEW seen \in SUBSET D, NEW u \in D, <<seen, u>> \in J, u \notin seen, rows[u].from \in D
      PROVE  <<seen \cup {u}, rows[u].from>> \in J
  BY <1>1, <1>3
<1> HIDE DEF J
<1>4. PICK seen \in SUBSET D, v \in D :
            <<seen, v>> \in J /\ WalkBack(rows, t) = v /\ (v \in seen \/ rows[v].from \notin D)
  BY <1>2, <1>3, WalkBackEnds
<1>5. ASSUME v \in seen PROVE FALSE
  <2>1. \A s \in seen : rows[s].from \in D /\ rows[s].from \in seen
    BY <1>1, <1>4, <1>5
  <2>2. \A s \in seen : <<s, rows[s].from>> \in FromEdges(rows)
    BY <2>1, EdgesAre
  <2>3. ASSUME NEW s \in seen
        PROVE  rows[s].from \in Targets(FromEdges(rows), s) /\ s \in {e[1] : e \in FromEdges(rows)}
    <3>1. PICK e \in FromEdges(rows) : e[1] = s /\ e[2] = rows[s].from
      BY <2>2
    <3>2. QED
      BY <3>1 DEF Targets
  <2>4. seen \in SUBSET {e[1] : e \in FromEdges(rows)}
    BY <2>3
  <2>5. HasCycle(FromEdges(rows))
    BY <1>5, <2>1, <2>3, <2>4 DEF HasCycle
  <2>6. QED
    BY <2>5
<1>6. QED
  BY <1>4, <1>5

\* The walk back ends at a row.
LEMMA BackToRow ==
  ASSUME NEW rows, IsTable(rows), NEW t \in DOMAIN rows
  PROVE  WalkBack(rows, t) \in DOMAIN rows
<1>1. PICK J : \A seen \in SUBSET DOMAIN rows, v \in DOMAIN rows : <<seen, v>> \in J
  <2>1. \A seen \in SUBSET DOMAIN rows, v \in DOMAIN rows :
            <<seen, v>> \in (SUBSET DOMAIN rows) \X DOMAIN rows
    OBVIOUS
  <2>2. QED
    BY <2>1
<1>2. <<{}, t>> \in J
  BY <1>1
<1>3. \A seen \in SUBSET DOMAIN rows, u \in DOMAIN rows :
            <<seen, u>> \in J /\ u \notin seen /\ rows[u].from \in DOMAIN rows
                => <<seen \cup {u}, rows[u].from>> \in J
  BY <1>1
<1>4. \E seen \in SUBSET DOMAIN rows, v \in DOMAIN rows :
            <<seen, v>> \in J /\ WalkBack(rows, t) = v /\ (v \in seen \/ rows[v].from \notin DOMAIN rows)
  BY <1>2, <1>3, WalkBackEnds
<1>5. QED
  BY <1>4

\* What a member of a chain is linked to is one.
LEMMA ChainClosed ==
  ASSUME NEW rows, NEW b, NEW c, IsChain(rows, b, c), NEW i \in 1..Len(c),
         rows[c[i]].to \in DOMAIN rows
  PROVE  \E j \in 1..Len(c) : c[j] = rows[c[i]].to
<1>1. PICK n \in Nat : n = Len(c) /\ n > 0
  BY DEF IsChain
<1>2. CASE i = n
  BY <1>1, <1>2 DEF IsChain
<1>3. CASE i # n
  <2>1. i \in 1..(n - 1) /\ i + 1 \in 1..n
    BY <1>1, <1>3
  <2>2. QED
    BY <1>1, <2>1 DEF IsChain, Linked
<1>4. QED
  BY <1>2, <1>3

\* Where the links agree, a TDoc is in its chain.
LEMMA InItsChain ==
  ASSUME NEW rows, IsTable(rows), NEW t \in DOMAIN rows, LinksAgree(rows),
         NEW c, IsChain(rows, WalkBack(rows, t), c)
  PROVE  \E i \in 1..Len(c) : c[i] = t
<1> DEFINE D == DOMAIN rows
           In(v) == \E i \in 1..Len(c) : c[i] = v
           J == {p \in (SUBSET D) \X D : In(p[2]) => In(t)}
<1>1. \A seen \in SUBSET D, v \in D : <<seen, v>> \in J <=> (In(v) => In(t))
  OBVIOUS
<1>2. <<{}, t>> \in J
  BY <1>1
<1>3. ASSUME NEW seen \in SUBSET D, NEW u \in D, <<seen, u>> \in J, u \notin seen, rows[u].from \in D
      PROVE  <<seen \cup {u}, rows[u].from>> \in J
  <2>1. PICK v \in D : v = rows[u].from /\ rows[v].to = u
    BY <1>3, EdgesAre
  <2>2. In(v) => In(u)
    BY <2>1, ChainClosed
  <2>3. In(u) => In(t)
    BY <1>1, <1>3
  <2> HIDE DEF In, J
  <2>4. QED
    BY <1>1, <2>1, <2>2, <2>3
<1> HIDE DEF J
<1>4. PICK seen \in SUBSET D, v \in D : <<seen, v>> \in J /\ WalkBack(rows, t) = v
  BY <1>2, <1>3, WalkBackEnds
<1>5. In(v)
  <2>1. 1 \in 1..Len(c) /\ c[1] = v
    BY <1>4 DEF IsChain
  <2>2. QED
    BY <2>1
<1>6. In(t)
  BY <1>1, <1>4, <1>5
<1>7. QED
  BY <1>6

\* Where they agree, the predecessor of a member is the member before it.
LEMMA BeforeInChain ==
  ASSUME NEW rows, IsTable(rows), LinksAgree(rows), NEW b, NEW c, IsChain(rows, b, c),
         rows[b].from \notin DOMAIN rows, NEW k \in 1..Len(c)
  PROVE  /\ c[k] \in DOMAIN rows
         /\ k = 1 => rows[c[k]].from \notin DOMAIN rows
         /\ k # 1 => k - 1 \in 1..Len(c) /\ c[k - 1] \in DOMAIN rows /\ rows[c[k]].from = c[k - 1]
<1>1. PICK n \in Nat : n = Len(c)
  BY DEF IsChain
<1>2. \A i \in 1..n : c[i] \in DOMAIN rows
  BY <1>1 DEF IsChain
<1>3. c[1] = b
  BY DEF IsChain
<1>4. ASSUME k # 1
      PROVE  k - 1 \in 1..Len(c) /\ c[k - 1] \in DOMAIN rows /\ rows[c[k]].from = c[k - 1]
  <2>1. k - 1 \in 1..n /\ k - 1 \in 1..(n - 1) /\ (k - 1) + 1 = k
    BY <1>1, <1>4
  <2>2. rows[c[k - 1]].to = c[k]
    BY <1>1, <2>1 DEF IsChain, Linked
  <2>3. QED
    BY <1>1, <1>2, <2>1, <2>2, EdgesAre
<1>5. QED
  BY <1>1, <1>2, <1>3, <1>4

\* So the walk back from a member ends where the chain begins.
LEMMA BackInChain ==
  ASSUME NEW rows, IsTable(rows), LinksAgree(rows), NEW b, NEW c, IsChain(rows, b, c),
         rows[b].from \notin DOMAIN rows, NEW m \in 1..Len(c)
  PROVE  WalkBack(rows, c[m]) = b
<1> DEFINE D == DOMAIN rows
           Behind(seen, v, k) == v = c[k] /\ \A s \in seen : \E j \in (k + 1)..m : s = c[j]
           J == {p \in (SUBSET D) \X D : \E k \in 1..m : Behind(p[1], p[2], k)}
<1>0. Len(c) \in Nat /\ \A k \in 1..m : k \in 1..Len(c)
  BY DEF IsChain
<1>1. \A seen \in SUBSET D, v \in D : <<seen, v>> \in J <=> \E k \in 1..m : Behind(seen, v, k)
  OBVIOUS
<1>2. <<{}, c[m]>> \in J /\ c[m] \in D
  <2>1. m \in 1..m /\ Behind({}, c[m], m)
    OBVIOUS
  <2>2. c[m] \in D
    BY BeforeInChain
  <2>3. QED
    BY <1>1, <2>1, <2>2
<1>3. ASSUME NEW seen \in SUBSET D, NEW u \in D, <<seen, u>> \in J, u \notin seen, rows[u].from \in D
      PROVE  <<seen \cup {u}, rows[u].from>> \in J
  <2>1. PICK k \in 1..m : Behind(seen, u, k)
    BY <1>1, <1>3
  <2>2. k # 1 /\ k \in 1..Len(c)
    BY <1>0, <1>3, <2>1, BeforeInChain
  <2>3. PICK l \in 1..m : l = k - 1 /\ rows[u].from = c[l]
    BY <2>1, <2>2, BeforeInChain
  <2>4. \A j \in (k + 1)..m : j \in (l + 1)..m
    BY <2>3
  <2>5. k \in (l + 1)..m
    BY <2>3
  <2>6. Behind(seen \cup {u}, rows[u].from, l)
    BY <2>1, <2>3, <2>4, <2>5
  <2> HIDE DEF J, Behind
  <2>7. QED
    BY <1>1, <1>3, <2>6
<1> HIDE DEF J
<1>4. PICK seen \in SUBSET D, v \in D :
            <<seen, v>> \in J /\ WalkBack(rows, c[m]) = v /\ (v \in seen \/ rows[v].from \notin D)
  BY <1>2, <1>3, WalkBackEnds, ZenonT(60)
<1>5. PICK k \in 1..m : Behind(seen, v, k)
  BY <1>1, <1>4
<1>6. v \notin seen
  <2>1. ASSUME NEW j \in (k + 1)..m, c[j] = c[k] PROVE FALSE
    <3>1. j \in 1..Len(c) /\ k \in 1..Len(c) /\ j # k
      BY <1>0
    <3>2. QED
      BY <2>1, <3>1 DEF IsChain, Linked
  <2>2. QED
    BY <1>5, <2>1
<1>7. k = 1
  BY <1>0, <1>4, <1>5, <1>6, BeforeInChain
<1>8. c[1] = b
  BY DEF IsChain
<1>9. QED
  BY <1>4, <1>5, <1>7, <1>8

\* A sequence with one more in front, place by place.
LEMMA BeforeIs ==
  ASSUME NEW D, NEW c \in Seq(D), NEW u \in D
  PROVE  /\ Before(c, u) \in Seq(D) /\ Len(c) \in Nat /\ Len(Before(c, u)) = Len(c) + 1
         /\ Before(c, u)[1] = u /\ \A i \in 1..Len(c) : Before(c, u)[i + 1] = c[i]
BY DEF Before

\* Where the path that ends at place m of a chain c is at u, path behind it.
Backed(c, m, path, u, k) ==
    /\ u = c[k] /\ Len(path) = m - k
    /\ \A i \in 1..(m - k) : path[i] = c[k + i]

\* The path that ends at a member is the chain up to there.
LEMMA PathInChain ==
  ASSUME NEW rows, IsTable(rows), LinksAgree(rows), NEW b, NEW c, IsChain(rows, b, c),
         rows[b].from \notin DOMAIN rows, NEW m \in 1..Len(c)
  PROVE  LET p == PathTo(rows, c[m]) IN
         p \in Seq(DOMAIN rows) /\ Len(p) = m /\ \A i \in 1..m : p[i] = c[i]
<1> DEFINE D == DOMAIN rows
           J == {p \in Seq(D) \X D : \E k \in 1..m : Backed(c, m, p[1], p[2], k)}
<1>0. Len(c) \in Nat /\ m \in Nat /\ \A k \in 1..m : k \in 1..Len(c)
  BY DEF IsChain
<1>1. \A path \in Seq(D), v \in D : <<path, v>> \in J <=> \E k \in 1..m : Backed(c, m, path, v, k)
  OBVIOUS
<1>2. <<<<>>, c[m]>> \in J /\ c[m] \in D
  <2>1. m \in 1..m /\ Backed(c, m, <<>>, c[m], m)
    BY <1>0 DEF Backed
  <2>2. c[m] \in D
    BY BeforeInChain
  <2>3. <<>> \in Seq(D)
    OBVIOUS
  <2> HIDE DEF J, D
  <2>4. QED
    BY <1>1, <2>1, <2>2, <2>3
<1>3. ASSUME NEW path \in Seq(D), NEW u \in D, NEW k \in 1..m, Backed(c, m, path, u, k)
      PROVE  /\ Len(Before(path, u)) = m - k + 1
             /\ \A i \in 1..(m - k + 1) : Before(path, u)[i] = c[k - 1 + i]
  <2>1. PICK l \in Nat, d \in Seq(D) : /\ l = Len(path) /\ d = Before(path, u) /\ Len(d) = l + 1
                                       /\ d[1] = u /\ \A i \in 1..l : d[i + 1] = path[i]
    <3>1. /\ Before(path, u) \in Seq(D) /\ Len(path) \in Nat
          /\ Len(Before(path, u)) = Len(path) + 1
          /\ Before(path, u)[1] = u /\ \A i \in 1..Len(path) : Before(path, u)[i + 1] = path[i]
      BY BeforeIs
    <3> HIDE DEF D
    <3>2. QED
      BY <3>1
  <2>2. l = m - k /\ u = c[k] /\ \A i \in 1..l : path[i] = c[k + i]
    BY <1>3, <2>1 DEF Backed
  <2>3. ASSUME NEW i \in 1..(m - k + 1) PROVE d[i] = c[k - 1 + i]
    <3>1. CASE i = 1
      BY <2>1, <2>2, <3>1
    <3>2. CASE i # 1
      <4>1. PICK j \in 1..l : i = j + 1
        <5>1. i - 1 \in 1..l /\ i = (i - 1) + 1
          BY <1>0, <2>2, <3>2
        <5>2. QED
          BY <5>1
      <4>2. k + j = k - 1 + i
        BY <1>0, <4>1
      <4>3. d[i] = path[j]
        BY <2>1, <4>1
      <4>4. path[j] = c[k + j]
        BY <2>2
      <4>5. QED
        BY <4>2, <4>3, <4>4
    <3>3. QED
      BY <3>1, <3>2
  <2>4. QED
    BY <2>1, <2>2, <2>3
<1>4. ASSUME NEW path \in Seq(D), NEW u \in D, <<path, u>> \in J, u \notin Range(path), rows[u].from \in D
      PROVE  <<Before(path, u), rows[u].from>> \in J
  <2>1. PICK k \in 1..m : Backed(c, m, path, u, k)
    BY <1>1, <1>4
  <2>2. k \in 1..Len(c) /\ u = c[k]
    BY <1>0, <2>1 DEF Backed
  <2>3. k # 1
    BY <1>4, <2>2, BeforeInChain
  <2>4. PICK l \in 1..m : l = k - 1 /\ rows[u].from = c[l]
    BY <2>2, <2>3, BeforeInChain
  <2>5. PICK d \in Seq(D) : d = Before(path, u)
    BY BeforeIs
  <2>6. Len(d) = m - k + 1 /\ \A i \in 1..(m - k + 1) : d[i] = c[k - 1 + i]
    BY <1>3, <2>1, <2>5
  <2>7. m - k + 1 = m - l
    BY <1>0, <2>4
  <2>8. Backed(c, m, d, rows[u].from, l)
    BY <2>4, <2>6, <2>7 DEF Backed
  <2> HIDE DEF J
  <2>9. QED
    BY <1>1, <1>4, <2>5, <2>8
<1> HIDE DEF J
<1>5. PICK path \in Seq(D), v \in D :
        /\ <<path, v>> \in J
        /\ \/ v \in Range(path) /\ PathTo(rows, c[m]) = path
           \/ v \notin Range(path) /\ rows[v].from \notin D /\ PathTo(rows, c[m]) = Before(path, v)
  BY <1>2, <1>4, PathToEnds
<1>6. PICK k \in 1..m : Backed(c, m, path, v, k)
  BY <1>1, <1>5
<1>7. v \notin Range(path)
  <2>1. ASSUME NEW i \in 1..(m - k), path[i] = v PROVE FALSE
    <3>1. c[k + i] = c[k]
      BY <1>6, <2>1 DEF Backed
    <3>2. k + i \in 1..Len(c) /\ k \in 1..Len(c) /\ k + i # k
      BY <1>0
    <3>3. QED
      BY <3>1, <3>2 DEF IsChain, Linked
  <2>2. DOMAIN path = 1..(m - k)
    BY <1>6 DEF Backed
  <2>3. QED
    BY <2>1, <2>2 DEF Range
<1>8. rows[c[k]].from \notin D /\ k \in 1..Len(c)
  BY <1>0, <1>5, <1>6, <1>7 DEF Backed
<1>9. k = 1
  BY <1>8, BeforeInChain
<1>10. PICK d \in Seq(D) : d = Before(path, v)
  BY BeforeIs
<1>11. Len(d) = m - k + 1 /\ \A i \in 1..(m - k + 1) : d[i] = c[k - 1 + i]
  BY <1>3, <1>6, <1>10
<1>12. Len(d) = m /\ \A i \in 1..m : d[i] = c[i]
  <2>1. m - k + 1 = m /\ \A i \in 1..m : k - 1 + i = i
    BY <1>0, <1>9
  <2>2. QED
    BY <1>11, <2>1
<1>13. QED
  BY <1>5, <1>7, <1>10, <1>12

-----------------------------------------------------------------------------
(***************************************************************************)
(* The longest path, and of these the least, is defined.                   *)
(***************************************************************************)
Ahead(p, q) ==
    \/ Len(p) > Len(q)
    \/ Len(p) = Len(q) /\ LexicographicallyLess(p, q)

\* Numbers have a least one.
LEMMA LeastNumber ==
  ASSUME NEW S \in SUBSET Nat, S # {}
  PROVE  \E n \in S : \A m \in S : n <= m
<1>1. PICK n \in S : \A m \in S : <<m, n>> \notin OpToRel(<, Nat)
  BY NatLessThanWellFounded, WFMin
<1>2. \A m \in S : ~(m < n)
  BY <1>1 DEF OpToRel
<1>3. QED
  BY <1>2

\* A sequence of n numbers.
Numbers(p, n) ==
    /\ n \in Nat /\ Len(p) = n /\ DOMAIN p = 1..n
    /\ p = [i \in 1..n |-> p[i]] /\ \A i \in 1..n : p[i] \in Nat

\* Every sequence of numbers is one of some n numbers.
LEMMA NumbersAre == ASSUME NEW p \in Seq(Nat) PROVE \E n \in Nat : Numbers(p, n)
<1>1. PICK n \in Nat : n = Len(p)
  OBVIOUS
<1>2. DOMAIN p = 1..n /\ \A i \in 1..n : p[i] \in Nat
  BY <1>1
<1>3. p = [i \in 1..n |-> p[i]]
  BY <1>1
<1>4. QED
  BY <1>1, <1>2, <1>3 DEF Numbers

\* Of two sequences of numbers one is ahead.
LEMMA OneAhead ==
  ASSUME NEW p, NEW q, NEW n \in Nat, NEW l \in Nat, Numbers(p, n), Numbers(q, l), p # q
  PROVE  Ahead(p, q) \/ Ahead(q, p)
<1>1. /\ n \in Nat /\ l \in Nat /\ n = Len(p) /\ l = Len(q)
      /\ DOMAIN p = 1..n /\ DOMAIN q = 1..l
  BY DEF Numbers
<1>2. CASE n # l
  BY <1>1, <1>2 DEF Ahead
<1>3. CASE n = l
  <2> DEFINE S == {i \in 1..n : p[i] # q[i]}
  <2>1. S # {}
    <3>1. ASSUME S = {} PROVE p = q
      <4>1. \A i \in 1..n : p[i] = q[i]
        BY <3>1
      <4>2. [i \in 1..n |-> p[i]] = [i \in 1..n |-> q[i]]
        BY <4>1
      <4>3. QED
        BY <1>3, <4>2 DEF Numbers
    <3>2. QED
      BY <3>1
  <2>2. S \in SUBSET Nat
    OBVIOUS
  <2>3. PICK i \in S : \A j \in S : i <= j
    <3> HIDE DEF S
    <3>1. QED
      BY <2>1, <2>2, LeastNumber
  <2>4. \A j \in 1..(i - 1) : p[j] = q[j]
    <3>1. ASSUME NEW j \in 1..(i - 1), p[j] # q[j] PROVE FALSE
      <4>1. j \in 1..n /\ ~(i <= j)
        BY <1>1, <2>2
      <4>2. QED
        BY <2>3, <3>1, <4>1
    <3>2. QED
      BY <3>1
  <2>5. p[i] \in Nat /\ q[i] \in Nat /\ i \in DOMAIN p \cap DOMAIN q
    BY <1>1, <1>3 DEF Numbers
  <2>6. p[i] < q[i] \/ q[i] < p[i]
    BY <2>5
  <2>7. QED
    BY <1>1, <1>3, <2>4, <2>5, <2>6 DEF Ahead, LexicographicallyLess
<1>4. QED
  BY <1>2, <1>3

\* Being ahead goes on.
LEMMA AheadOn ==
  ASSUME NEW p, NEW q, NEW r, NEW a \in Nat, NEW b \in Nat, NEW d \in Nat,
         Numbers(p, a), Numbers(q, b), Numbers(r, d), Ahead(p, q), Ahead(q, r)
  PROVE  Ahead(p, r)
<1>1. /\ a \in Nat /\ b \in Nat /\ d \in Nat /\ a = Len(p) /\ b = Len(q) /\ d = Len(r)
      /\ DOMAIN p = 1..a /\ DOMAIN q = 1..b /\ DOMAIN r = 1..d
  BY DEF Numbers
<1>2. CASE a > b \/ b > d
  BY <1>1, <1>2 DEF Ahead
<1>3. CASE a = b /\ b = d
  <2>1. LexicographicallyLess(p, q) /\ LexicographicallyLess(q, r)
    BY <1>1, <1>3 DEF Ahead
  <2>2. PICK i \in 1..a : p[i] < q[i] /\ \A j \in 1..(i - 1) : p[j] = q[j]
    BY <1>1, <2>1 DEF LexicographicallyLess
  <2>3. PICK k \in 1..a : q[k] < r[k] /\ \A j \in 1..(k - 1) : q[j] = r[j]
    BY <1>1, <1>3, <2>1 DEF LexicographicallyLess
  <2>4. \A x \in 1..a : p[x] \in Nat /\ q[x] \in Nat /\ r[x] \in Nat
    BY <1>1, <1>3 DEF Numbers
  <2>5. PICK x \in 1..a : x <= i /\ x <= k /\ (x = i \/ x = k)
    <3>1. i <= k \/ k <= i
      BY <1>1
    <3>2. QED
      BY <1>1, <3>1
  <2>6. \A j \in 1..(x - 1) : j \in 1..(i - 1) /\ j \in 1..(k - 1)
    BY <2>5
  <2>7. \A j \in 1..(x - 1) : p[j] = r[j]
    BY <2>2, <2>3, <2>6
  <2>8. p[x] < r[x]
    <3>1. CASE x = i /\ x = k
      BY <2>2, <2>3, <2>4, <3>1
    <3>2. CASE x = i /\ x # k
      <4>1. x \in 1..(k - 1)
        BY <2>5, <3>2
      <4>2. q[x] = r[x]
        BY <2>3, <4>1
      <4>3. QED
        BY <2>2, <3>2, <4>2
    <3>3. CASE x # i /\ x = k
      <4>1. x \in 1..(i - 1)
        BY <2>5, <3>3
      <4>2. p[x] = q[x]
        BY <2>2, <4>1
      <4>3. QED
        BY <2>3, <3>3, <4>2
    <3>4. QED
      BY <2>5, <3>1, <3>2, <3>3
  <2>9. x \in DOMAIN p \cap DOMAIN r
    BY <1>1, <1>3
  <2>10. LexicographicallyLess(p, r)
    BY <2>7, <2>8, <2>9 DEF LexicographicallyLess
  <2>11. QED
    BY <1>1, <1>3, <2>10 DEF Ahead
<1>4. a >= b /\ b >= d
  BY <1>1 DEF Ahead
<1>5. QED
  BY <1>2, <1>3, <1>4

\* Of finitely many things in a line one is ahead of all.
LEMMA FirstOfAll ==
  ASSUME NEW S, IsFiniteSet(S), S # {}, NEW R,
         \A p, q \in S : p # q => <<p, q>> \in R \/ <<q, p>> \in R,
         \A p, q, r \in S : <<p, q>> \in R /\ <<q, r>> \in R => <<p, r>> \in R
  PROVE  \E p \in S : \A q \in S \ {p} : <<p, q>> \in R
<1> DEFINE Led(T) == \E p \in T : \A q \in T \ {p} : <<p, q>> \in R
           N == {n \in Nat : \A T \in SUBSET S : Cardinality(T) = n + 1 => Led(T)}
<1>1. 0 \in N
  <2>1. ASSUME NEW T \in SUBSET S, Cardinality(T) = 1 PROVE Led(T)
    <3>1. IsFiniteSet(T)
      BY FS_Subset
    <3>2. PICK x : T = {x}
      BY <2>1, <3>1, FS_Singleton
    <3>3. QED
      BY <3>2
  <2> HIDE DEF Led
  <2>2. QED
    BY <2>1
<1>2. ASSUME NEW n \in Nat, n \in N PROVE n + 1 \in N
  <2>1. ASSUME NEW T \in SUBSET S, Cardinality(T) = n + 2 PROVE Led(T)
    <3>1. IsFiniteSet(T)
      BY FS_Subset
    <3>2. T # {}
      BY <2>1, <3>1, FS_EmptySet
    <3>3. PICK x \in T : TRUE
      BY <3>2
    <3>4. Cardinality(T \ {x}) = n + 1
      <4>1. Cardinality(T \ {x}) = Cardinality(T) - 1
        BY <3>1, <3>3, FS_RemoveElement
      <4>2. QED
        BY <2>1, <4>1
    <3>5. Led(T \ {x})
      <4> HIDE DEF Led
      <4>1. QED
        BY <1>2, <3>4
    <3>6. PICK p \in T \ {x} : \A q \in (T \ {x}) \ {p} : <<p, q>> \in R
      BY <3>5
    <3>7. CASE <<p, x>> \in R
      <4>1. \A q \in T \ {p} : <<p, q>> \in R
        BY <3>6, <3>7
      <4>2. QED
        BY <4>1
    <3>8. CASE <<x, p>> \in R
      <4>1. ASSUME NEW q \in T \ {x} PROVE <<x, q>> \in R
        <5>1. CASE q = p
          BY <3>8, <5>1
        <5>2. CASE q # p
          BY <3>6, <3>8, <5>2
        <5>3. QED
          BY <5>1, <5>2
      <4>2. QED
        BY <3>3, <4>1
    <3>9. QED
      BY <3>6, <3>7, <3>8
  <2>2. \A T \in SUBSET S : Cardinality(T) = (n + 1) + 1 => Led(T)
    <3>1. (n + 1) + 1 = n + 2
      OBVIOUS
    <3> HIDE DEF Led
    <3>2. QED
      BY <2>1, <3>1
  <2> HIDE DEF Led
  <2>3. QED
    BY <2>2
<1> HIDE DEF N
<1>3. \A n \in Nat : n \in N
  BY <1>1, <1>2, InductionOnSet
<1>4. Cardinality(S) \in Nat /\ Cardinality(S) # 0
  BY FS_CardinalityType, FS_EmptySet
<1>5. PICK n \in Nat : Cardinality(S) = n + 1
  <2>1. Cardinality(S) - 1 \in Nat /\ Cardinality(S) = (Cardinality(S) - 1) + 1
    BY <1>4
  <2>2. QED
    BY <2>1
<1>6. S \in SUBSET S
  OBVIOUS
<1>7. Led(S)
  <2> HIDE DEF Led
  <2>1. QED
    BY <1>3, <1>5, <1>6 DEF N
<1>8. QED
  BY <1>7

\* A path is a sequence of rows.
LEMMA PathToRows ==
  ASSUME NEW rows, IsTable(rows), NEW t \in DOMAIN rows
  PROVE  PathTo(rows, t) \in Seq(DOMAIN rows)
<1>1. PICK D, X : D = DOMAIN rows /\ X = Seq(D)
  OBVIOUS
<1>2. PICK J : \A c \in X, v \in D : <<c, v>> \in J
  <2>1. \A c \in X, v \in D : <<c, v>> \in X \X D
    OBVIOUS
  <2>2. QED
    BY <2>1
<1>3. <<<<>>, t>> \in J
  <2>1. <<>> \in X
    BY <1>1
  <2>2. QED
    BY <1>1, <1>2, <2>1
<1>4. \A c \in X, u \in D : c \in Seq(DOMAIN rows) /\ Before(c, u) \in X
  BY <1>1, BeforeIs
<1>5. \A y \in Seq(DOMAIN rows), u \in DOMAIN rows :
            <<y, u>> \in J /\ u \notin Range(y) /\ rows[u].from \in DOMAIN rows
                => <<Before(y, u), rows[u].from>> \in J
  BY <1>1, <1>2, <1>4
<1>6. PICK c \in Seq(DOMAIN rows), v \in DOMAIN rows :
        /\ <<c, v>> \in J
        /\ \/ v \in Range(c) /\ PathTo(rows, t) = c
           \/ v \notin Range(c) /\ rows[v].from \notin DOMAIN rows /\ PathTo(rows, t) = Before(c, v)
  BY <1>3, <1>5, PathToEnds
<1>7. c \in Seq(DOMAIN rows) /\ Before(c, v) \in Seq(DOMAIN rows)
  BY <1>1, BeforeIs
<1>8. QED
  BY <1>6, <1>7

\* The longest chain is the path to some row, and none is longer.
LEMMA LongestIs ==
  ASSUME NEW rows, IsTable(rows), DOMAIN rows \subseteq Nat, DOMAIN rows # {}
  PROVE  /\ \E t \in DOMAIN rows : LongestChain(rows) = PathTo(rows, t)
         /\ \A t \in DOMAIN rows : Len(PathTo(rows, t)) <= Len(LongestChain(rows))
<1> DEFINE D == DOMAIN rows
           paths == {PathTo(rows, t) : t \in D}
           R == {p \in Seq(Nat) \X Seq(Nat) : Ahead(p[1], p[2])}
           IsFirst(p) == \A q \in paths \ {p} : Ahead(p, q)
<1>1. paths \subseteq Seq(Nat)
  <2>1. \A t \in D : PathTo(rows, t) \in Seq(D)
    BY PathToRows
  <2>2. Seq(D) \subseteq Seq(Nat)
    OBVIOUS
  <2>3. QED
    BY <2>1, <2>2
<1>2. IsFiniteSet(paths) /\ paths # {}
  <2>1. PICK f : f = [t \in D |-> PathTo(rows, t)]
    OBVIOUS
  <2>2. f \in Surjection(D, paths)
    BY <2>1 DEF Surjection
  <2>3. IsFiniteSet(D) /\ D # {}
    BY DEF IsTable
  <2>4. paths # {}
    BY <2>3
  <2> HIDE DEF D, paths
  <2>5. QED
    BY <2>2, <2>3, <2>4, FS_Surjection
<1>3. \A p, q \in Seq(Nat) : <<p, q>> \in R <=> Ahead(p, q)
  OBVIOUS
<1> HIDE DEF paths, R
<1>4. \A p, q \in paths : p # q => <<p, q>> \in R \/ <<q, p>> \in R
  BY <1>1, <1>3, NumbersAre, OneAhead
<1>5. \A p, q, r \in paths : <<p, q>> \in R /\ <<q, r>> \in R => <<p, r>> \in R
  <2>1. ASSUME NEW p \in paths, NEW q \in paths, NEW r \in paths, <<p, q>> \in R, <<q, r>> \in R
        PROVE  <<p, r>> \in R
    <3>1. PICK a \in Nat, b \in Nat, d \in Nat : Numbers(p, a) /\ Numbers(q, b) /\ Numbers(r, d)
      BY <1>1, NumbersAre
    <3>2. QED
      BY <1>1, <1>3, <2>1, <3>1, AheadOn
  <2>2. QED
    BY <2>1
<1>6. \E p \in paths : IsFirst(p)
  <2>1. PICK p \in paths : \A q \in paths \ {p} : <<p, q>> \in R
    BY <1>2, <1>4, <1>5, FirstOfAll, SMTT(60)
  <2>2. QED
    BY <1>1, <1>3, <2>1
<1>7. LongestChain(rows) = CHOOSE p \in paths : IsFirst(p)
  <2>1. LongestChain(rows) = IF paths = {} THEN <<>> ELSE CHOOSE p \in paths : IsFirst(p)
    BY DEF LongestChain, Ahead, paths
  <2> HIDE DEF IsFirst
  <2>2. QED
    BY <1>2, <2>1
<1>8. LongestChain(rows) \in paths /\ IsFirst(LongestChain(rows))
  <2> HIDE DEF IsFirst
  <2>1. QED
    BY <1>6, <1>7
<1>9. ASSUME NEW t \in D PROVE Len(PathTo(rows, t)) <= Len(LongestChain(rows))
  <2>1. PICK p, q : p = LongestChain(rows) /\ q = PathTo(rows, t) /\ p \in paths /\ q \in paths
    BY <1>8 DEF paths
  <2>2. Len(p) \in Nat /\ Len(q) \in Nat
    BY <1>1, <2>1
  <2>3. p # q => Len(p) > Len(q) \/ Len(p) = Len(q)
    BY <1>8, <2>1 DEF Ahead
  <2>4. QED
    BY <2>1, <2>2, <2>3
<1>10. QED
  BY <1>8, <1>9 DEF paths

\* What a chain is, as the property has it.
LEMMA ChainOf ==
  ASSUME NEW rows, IsTable(rows), NEW t \in DOMAIN rows
  PROVE  /\ IsChain(rows, WalkBack(rows, t), RevisionChain(rows, t))
         /\ WalkBack(rows, t) \in DOMAIN rows
         /\ RevisionChain(rows, t) # <<>> /\ IsInjective(RevisionChain(rows, t))
         /\ LinksAgree(rows) => t \in Range(RevisionChain(rows, t))
<1>1. PICK b \in DOMAIN rows : b = WalkBack(rows, t)
  BY BackToRow
<1>2. PICK c : c = RevisionChain(rows, t)
  OBVIOUS
<1>3. c = WalkForward(rows, b)
  BY <1>1, <1>2 DEF RevisionChain
<1>4. IsChain(rows, b, c)
  BY <1>3, WalkForwardChain
<1>5. PICK n \in Nat : n = Len(c) /\ n > 0 /\ DOMAIN c = 1..n
  BY <1>4 DEF IsChain
<1>6. c # <<>>
  BY <1>5
<1>7. IsInjective(c)
  BY <1>4, <1>5 DEF IsInjective, IsChain, Linked
<1>8. LinksAgree(rows) => t \in Range(c)
  <2>1. ASSUME LinksAgree(rows) PROVE \E i \in 1..Len(c) : c[i] = t
    BY <1>1, <1>4, <2>1, InItsChain
  <2>2. ASSUME NEW i \in 1..Len(c) PROVE c[i] \in Range(c)
    BY <1>5 DEF Range
  <2>3. QED
    BY <2>1, <2>2
<1>9. QED
  BY <1>1, <1>2, <1>4, <1>6, <1>7, <1>8

\* Where they agree, a chain that begins at a first row has the predecessors of its members.
LEMMA ChainClosedBack ==
  ASSUME NEW rows, IsTable(rows), LinksAgree(rows), NEW b, NEW c, IsChain(rows, b, c),
         rows[b].from \notin DOMAIN rows, NEW i \in 1..Len(c), rows[c[i]].from \in DOMAIN rows
  PROVE  \E j \in 1..Len(c) : c[j] = rows[c[i]].from
<1>1. i # 1
  BY BeforeInChain
<1>2. i - 1 \in 1..Len(c) /\ rows[c[i]].from = c[i - 1]
  BY <1>1, BeforeInChain
<1>3. QED
  BY <1>2

\* A family: the links agree, and no TDoc precedes itself.
LEMMA FamilyChain ==
  ASSUME NEW rows, IsTable(rows), DOMAIN rows \subseteq Nat, LinksAgree(rows),
         ~HasCycle(FromEdges(rows)), NEW t \in DOMAIN rows,
         NEW c, c = RevisionChain(rows, t)
  PROVE  /\ \A u \in Range(c) : u \in DOMAIN rows /\ RevisionChain(rows, u) = c
         /\ \A e \in FromEdges(rows) : e[1] \in Range(c) <=> e[2] \in Range(c)
         /\ \A i \in 1..(Len(c) - 1) : <<c[i + 1], c[i]>> \in FromEdges(rows)
         /\ Len(c) <= Len(LongestChain(rows))
<1>1. PICK b \in DOMAIN rows, n \in Nat :
        /\ b = WalkBack(rows, t) /\ IsChain(rows, b, c)
        /\ n = Len(c) /\ n > 0 /\ DOMAIN c = 1..n /\ \A i \in 1..n : c[i] \in DOMAIN rows
  <2>1. WalkBack(rows, t) \in DOMAIN rows /\ IsChain(rows, WalkBack(rows, t), c)
    BY ChainOf
  <2>2. QED
    BY <2>1 DEF IsChain
<1>2. rows[b].from \notin DOMAIN rows
  BY <1>1, BackToFirst
<1>3. \A u : u \in Range(c) <=> \E i \in 1..n : c[i] = u
  BY <1>1 DEF Range
<1>4. \A u \in DOMAIN rows : RevisionChain(rows, u) = WalkForward(rows, WalkBack(rows, u))
  BY DEF RevisionChain
<1>5. ASSUME NEW u \in Range(c) PROVE u \in DOMAIN rows /\ RevisionChain(rows, u) = c
  <2>1. PICK m \in 1..Len(c) : c[m] = u
    BY <1>1, <1>3
  <2>2. WalkBack(rows, u) = b
    BY <1>1, <1>2, <2>1, BackInChain
  <2>3. u \in DOMAIN rows
    BY <1>1, <2>1
  <2>4. QED
    BY <1>1, <1>4, <2>2, <2>3
<1>6. ASSUME NEW i \in 1..n, rows[c[i]].from \in DOMAIN rows
      PROVE  \E j \in 1..n : c[j] = rows[c[i]].from
  <2>1. IsChain(rows, b, c) /\ i \in 1..Len(c)
    BY <1>1
  <2>2. \E j \in 1..Len(c) : c[j] = rows[c[i]].from
    BY <1>6, <1>2, <2>1, ChainClosedBack
  <2>3. QED
    BY <1>1, <2>2
<1>7. ASSUME NEW e \in FromEdges(rows) PROVE e[1] \in Range(c) <=> e[2] \in Range(c)
  <2>1. PICK u, v : u = e[1] /\ v = e[2]
    OBVIOUS
  <2>2. u \in DOMAIN rows /\ v \in DOMAIN rows /\ rows[u].from = v
    BY <2>1, EdgesAre
  <2>3. rows[v].to = u
    BY <2>2, EdgesAre
  <2>4. ASSUME NEW i \in 1..n, c[i] = v PROVE u \in Range(c)
    <3>1. \E j \in 1..Len(c) : c[j] = rows[c[i]].to
      <4>1. IsChain(rows, b, c) /\ i \in 1..Len(c) /\ rows[c[i]].to \in DOMAIN rows
        BY <1>1, <2>2, <2>3, <2>4
      <4>2. QED
        BY <4>1, ChainClosed, SMTT(60)
    <3>2. QED
      BY <1>1, <1>3, <2>3, <2>4, <3>1
  <2>5. ASSUME NEW i \in 1..n, c[i] = u PROVE v \in Range(c)
    <3>1. rows[c[i]].from = v
      BY <2>2, <2>5
    <3>2. \E j \in 1..n : c[j] = v
      BY <1>6, <2>2, <3>1
    <3>3. QED
      BY <1>3, <3>2
  <2>6. QED
    BY <1>3, <2>1, <2>4, <2>5
<1>8. ASSUME NEW i \in 1..(Len(c) - 1) PROVE <<c[i + 1], c[i]>> \in FromEdges(rows)
  <2>1. i \in 1..n /\ i + 1 \in 1..n
    BY <1>1
  <2>2. rows[c[i]].to = c[i + 1]
    BY <1>1 DEF IsChain, Linked
  <2>3. rows[c[i + 1]].from = c[i]
    BY <1>1, <2>1, <2>2, EdgesAre
  <2>4. QED
    BY <1>1, <2>1, <2>3, EdgesAre
<1>9. Len(c) <= Len(LongestChain(rows))
  <2>1. PICK m \in 1..Len(c) : m = n /\ c[m] \in DOMAIN rows
    <3>1. n \in 1..Len(c)
      BY <1>1
    <3>2. QED
      BY <1>1, <3>1
  <2>2. Len(PathTo(rows, c[m])) = m
    <3>1. IsChain(rows, b, c) /\ m \in 1..Len(c)
      BY <1>1
    <3>2. QED
      BY <1>2, <3>1, PathInChain
  <2>3. Len(PathTo(rows, c[m])) <= Len(LongestChain(rows))
    BY <2>1, LongestIs
  <2>4. QED
    BY <1>1, <2>1, <2>2, <2>3
<1>10. QED
  BY <1>5, <1>7, <1>8, <1>9

\* The longest chain is that of some row.
LEMMA FamilyLongest ==
  ASSUME NEW rows, IsTable(rows), DOMAIN rows \subseteq Nat, LinksAgree(rows),
         ~HasCycle(FromEdges(rows)), DOMAIN rows # {}
  PROVE  \E t \in DOMAIN rows : RevisionChain(rows, t) = LongestChain(rows)
<1>1. PICK t \in DOMAIN rows : LongestChain(rows) = PathTo(rows, t)
  BY LongestIs
<1>2. PICK c : c = RevisionChain(rows, t)
  OBVIOUS
<1>3. PICK b \in DOMAIN rows, n \in Nat :
        /\ b = WalkBack(rows, t) /\ IsChain(rows, b, c)
        /\ n = Len(c) /\ n > 0 /\ DOMAIN c = 1..n
  <2>1. WalkBack(rows, t) \in DOMAIN rows /\ IsChain(rows, WalkBack(rows, t), c)
    BY <1>2, ChainOf
  <2>2. QED
    BY <2>1 DEF IsChain
<1>4. rows[b].from \notin DOMAIN rows
  BY <1>3, BackToFirst
<1>5. PICK m \in 1..Len(c) : c[m] = t
  BY <1>3, InItsChain
<1>6. PICK p : /\ p = PathTo(rows, t) /\ p \in Seq(DOMAIN rows) /\ Len(p) = m
               /\ \A i \in 1..m : p[i] = c[i]
  <2>1. IsChain(rows, b, c) /\ m \in 1..Len(c)
    BY <1>3
  <2>2. LET p == PathTo(rows, c[m]) IN
        p \in Seq(DOMAIN rows) /\ Len(p) = m /\ \A i \in 1..m : p[i] = c[i]
    BY <1>4, <2>1, PathInChain
  <2>3. QED
    BY <1>5, <2>2
<1>7. n <= m
  BY <1>1, <1>2, <1>3, <1>6, FamilyChain
<1>8. m = n
  BY <1>3, <1>5, <1>7
<1>9. p = c
  <2>1. c \in Seq(DOMAIN rows) /\ Len(c) = Len(p) /\ \A i \in 1..Len(c) : p[i] = c[i]
    BY <1>3, <1>6, <1>8 DEF IsChain
  <2>2. QED
    BY <1>6, <2>1
<1>10. QED
  BY <1>1, <1>2, <1>6, <1>9

-----------------------------------------------------------------------------
(* The walks over what is stored.                                           *)

\* The rows there are a table, ...
LEMMA RowsAreTable ==
  ASSUME Typing
  PROVE  IsTable(Rows) /\ DOMAIN Rows \subseteq Nat
<1>1. DOMAIN Rows \subseteq TDoc
  BY DEF Rows
<1>2. IsFiniteSet(DOMAIN Rows)
  BY <1>1, IngestAssumption, FS_Subset
<1>3. QED
  BY <1>1, <1>2, IngestAssumption DEF IsTable

\* ... and the revises edges lie between TDocs.
LEMMA EdgesAmongTDocs ==
  ASSUME Typing
  PROVE  IsFiniteSet(Nodes(RevisesIn(edge)))
<1>1. \A e \in edge : e.kind = "revises" => e.source \in TDoc /\ e.target \in TDoc
  BY DEF Typing, EdgeType
<1>2. ASSUME NEW e \in RevisesIn(edge) PROVE e[1] \in TDoc /\ e[2] \in TDoc
  <2>1. PICK f \in edge : f.kind = "revises" /\ e = <<f.source, f.target>>
    BY DEF RevisesIn
  <2>2. QED
    BY <1>1, <2>1
<1>3. Nodes(RevisesIn(edge)) \subseteq TDoc
  BY <1>2 DEF Nodes
<1>4. QED
  BY <1>3, IngestAssumption, FS_Subset

\* Over the rows and edges that any number of runs store, killed or not: the
\* search of validate_graph finds a cycle exactly if there is one, so that a
\* version that is validated has none, and the chains of the service and of
\* the graph view end, repeat no TDoc and are those of whole families.
THEOREM RevisionWalksRight == Spec => []RevisionWalks
<1>1. IngestInv => RevisionWalks
  <2> SUFFICES ASSUME IngestInv PROVE RevisionWalks
    OBVIOUS
  <2>1. Typing /\ GraphFollowsRows
    BY DEF IngestInv
  <2>2. PICK rows : rows = Rows
    OBVIOUS
  <2>3. IsTable(rows) /\ DOMAIN rows \subseteq Nat
    BY <2>1, <2>2, RowsAreTable
  <2>4. CycleFound(RevisesIn(edge)) <=> HasCycle(RevisesIn(edge))
    BY <2>1, EdgesAmongTDocs, SearchFindsCycles
  <2>5. dataset = "validated" => ~HasCycle(RevisesIn(edge))
    BY <2>1, <2>4 DEF GraphFollowsRows, Valid
  <2>6. PICK chain : chain = [t \in DOMAIN rows |-> RevisionChain(rows, t)]
    OBVIOUS
  <2>7. ASSUME NEW t \in DOMAIN rows
        PROVE  /\ chain[t] # <<>> /\ IsInjective(chain[t])
               /\ LinksAgree(rows) => t \in Range(chain[t])
    BY <2>3, <2>6, ChainOf
  <2>8. ASSUME LinksAgree(rows), ~HasCycle(FromEdges(rows)), NEW t \in DOMAIN rows
        PROVE  /\ \A u \in Range(chain[t]) : chain[u] = chain[t]
               /\ \A e \in FromEdges(rows) : e[1] \in Range(chain[t]) <=> e[2] \in Range(chain[t])
               /\ \A i \in 1..(Len(chain[t]) - 1) :
                        <<chain[t][i + 1], chain[t][i]>> \in FromEdges(rows)
               /\ Len(chain[t]) <= Len(LongestChain(rows))
    <3>1. PICK c : c = RevisionChain(rows, t)
      OBVIOUS
    <3>2. /\ \A u \in Range(c) : u \in DOMAIN rows /\ RevisionChain(rows, u) = c
          /\ \A e \in FromEdges(rows) : e[1] \in Range(c) <=> e[2] \in Range(c)
          /\ \A i \in 1..(Len(c) - 1) : <<c[i + 1], c[i]>> \in FromEdges(rows)
          /\ Len(c) <= Len(LongestChain(rows))
      BY <2>3, <2>8, <3>1, FamilyChain
    <3>3. chain[t] = c
      BY <2>6, <3>1
    <3>4. \A u \in Range(c) : chain[u] = c
      BY <2>6, <3>2
    <3>5. QED
      BY <3>2, <3>3, <3>4
  <2>9. ASSUME LinksAgree(rows), ~HasCycle(FromEdges(rows)), DOMAIN rows # {}
        PROVE  \E t \in DOMAIN rows : chain[t] = LongestChain(rows)
    BY <2>3, <2>6, <2>9, FamilyLongest
  <2>10. QED
    BY <2>2, <2>4, <2>5, <2>6, <2>7, <2>8, <2>9 DEF RevisionWalks
<1>2. QED
  BY <1>1, IngestInvariant, PTL
=============================================================================
