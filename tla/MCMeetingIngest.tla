--------------------------- MODULE MCMeetingIngest ---------------------------
(***************************************************************************)
(* TLC instance of MeetingIngest: two meetings, three TDocs, and manifests *)
(* that change in the ways a source does between two mirrors of it.        *)
(***************************************************************************)
EXTENDS MeetingIngest, TLC

MCMeeting == {1, 2}
MCTDoc == 1..3

File(url, kind, meeting, document, fate, dated, long) ==
    [url |-> url, kind |-> kind, meeting |-> meeting, document |-> document,
     fate |-> fate, date |-> dated, long |-> long]

\* Two reports that disagree, the second of which comes first by id; then the
\* first report once more under another url, one that shows the same date, and
\* reports that show none.
Report1 == File(1, "report", 1, 12, "body", 7, FALSE)
Report2 == File(2, "report", 1, 11, "body", 8, FALSE)
Report1Again == File(3, "report", 1, 12, "body", 7, FALSE)
Cover == File(4, "report", 1, 10, "body", 0, TRUE)
Minutes == File(8, "report", 1, 16, "body", 7, FALSE)
Picture == File(5, "report", 2, 13, "unsupported", 0, FALSE)

Macros == File(7, "report", 2, 15, "unsafe", 0, FALSE)

Agenda == File(6, "other", 1, 14, "body", 0, FALSE)

\* Two copies of an archive, and archives that the parser treats differently.
Inbox1 == File(21, "tdoc", 1, 1, "body", 0, FALSE)
Docs1 == File(22, "tdoc", 1, 1, "body", 0, FALSE)
Archive2 == File(23, "tdoc", 1, 2, "body", 0, FALSE)
Archive2Elsewhere == File(24, "tdoc", 2, 2, "body", 0, FALSE)
Unsafe3 == File(25, "tdoc", 2, 3, "unsafe", 0, FALSE)
Broken1 == File(26, "tdoc", 2, 1, "broken", 0, FALSE)
Legacy3 == File(27, "tdoc", 2, 3, "unsupported", 0, FALSE)

MCArtifact == {Report1, Report2, Report1Again, Minutes, Cover, Picture, Macros, Agenda, Inbox1, Docs1,
               Archive2, Archive2Elsewhere, Unsafe3, Broken1, Legacy3}

Link(from, to) == [from |-> from, to |-> to]
Alone == Link(NoTDoc, NoTDoc)

\* A family over two meetings; the same with a TDoc moved; TDocs in a circle;
\* links that do not agree and lead out; nothing but one TDoc.
Family == <<1 :> Link(0, 2) @@ 2 :> Link(1, 3), 3 :> Link(2, 0)>>
Shared == <<1 :> Link(0, 2) @@ 2 :> Link(1, 0), 2 :> Link(1, 3) @@ 3 :> Link(2, 0)>>
Circle == <<1 :> Link(2, 2), 2 :> Link(1, 1) @@ 3 :> Link(3, 0)>>
Astray == <<1 :> Link(3, 2) @@ 2 :> Link(0, 1), 2 :> Alone>>
Single == <<2 :> Alone, 1 :> Link(2, 0)>>

Gives(entries, index) == [entries |-> entries, index |-> index]

MCManifest ==
    {Gives({Report1, Report2, Agenda, Inbox1, Unsafe3}, Family),
     Gives({Minutes, Report2, Report1Again, Docs1, Inbox1, Archive2, Archive2Elsewhere, Legacy3,
            Macros}, Shared),
     Gives({Report1, Cover, Picture, Inbox1, Broken1, Archive2}, Circle),
     Gives({Cover, Docs1, Archive2Elsewhere}, Astray),
     Gives({Report1, Report1Again, Inbox1, Archive2, Legacy3, Broken1}, Single)}
=============================================================================
