------------------------- MODULE ReadRequestProofs --------------------------
(***************************************************************************)
(* Proofs about ReadRequest for any versions, meetings, requests and page  *)
(* size: a request reads and names only versions that were current while   *)
(* it was under way, and one that no activation overlaps is answered from  *)
(* one version, with all its evidence, and for a working group with the    *)
(* whole listing up to the order of meetings that tie.                     *)
(***************************************************************************)
EXTENDS ReadRequest, OrderedProofs, SequenceTheorems

-----------------------------------------------------------------------------
(* The calls that are left.                                                 *)

\* Calls whose rows the answer cites, if the operation cites at all.
Finding == {"tdoc", "tdocs", "passages", "tdocs_of", "members"}

\* Calls that open a request.
Opening == {"tdoc", "tdocs", "passages", "page", "meeting", "scope"}

\* Of the calls that are left, what is found is followed by its evidence, what
\* opens a request comes first, and a working group's meetings are listed once.
Programmed(kind, todo) ==
    /\ kind \in Citing =>
          \A i \in 1..Len(todo) : todo[i] \in Finding =>
             \E j \in 1..Len(todo) : i < j /\ todo[j] = "evidence"
    /\ \A i \in 2..Len(todo) : todo[i] \notin Opening
    /\ kind \in Group => \A i \in 1..Len(todo) : todo[i] # "page"

\* The operations are programmed that way.
LEMMA Programs ==
  ASSUME NEW kind \in DOMAIN Program
  PROVE  /\ Program[kind] \in Seq(Call) /\ Programmed(kind, Program[kind])
         /\ kind \in Group => Program[kind] # <<>> /\ Head(Program[kind]) = "scope"
         /\ kind = "relevant_passages" => kind \in Citing
<1> DEFINE p == Program[kind]
<1>1. p \in {<<"tdoc", "evidence", "label">>,
            <<"tdoc", "evidence", "label", "body">>,
            <<"tdocs", "evidence", "label">>,
            <<"passages", "evidence", "label">>,
            <<"meeting", "label", "tdocs_of", "evidence">>,
            <<"page", "label">>,
            <<"page", "label", "counts">>,
            <<"meeting", "tdocs_of", "label">>,
            <<"scope", "members", "label", "evidence">>,
            <<"scope", "members", "label">>}
  BY DEF Program
<1>2. kind \in Group => p \in {<<"scope", "members", "label", "evidence">>,
                             <<"scope", "members", "label">>}
  BY DEF Program, Group
<1>3. kind \in Citing => \E i \in DOMAIN p : p[i] = "evidence"
  BY DEF Citing, Range
<1>4. kind = "relevant_passages" => kind \in Citing
  <2>1. Program["relevant_passages"][2] = "evidence" /\ 2 \in DOMAIN Program["relevant_passages"]
    BY DEF Program
  <2>2. QED
    BY <2>1 DEF Citing, Range
<1> HIDE DEF p
<1>5. p \in Seq(Call) /\ Programmed(kind, p)
  <2>1. CASE p = <<"tdoc", "evidence", "label">>
    BY <1>2, <1>3, <2>1 DEF Programmed, Finding, Opening, Call
  <2>2. CASE p = <<"tdoc", "evidence", "label", "body">>
    BY <1>2, <1>3, <2>2 DEF Programmed, Finding, Opening, Call
  <2>3. CASE p = <<"tdocs", "evidence", "label">>
    BY <1>2, <1>3, <2>3 DEF Programmed, Finding, Opening, Call
  <2>4. CASE p = <<"passages", "evidence", "label">>
    BY <1>2, <1>3, <2>4 DEF Programmed, Finding, Opening, Call
  <2>5. CASE p = <<"meeting", "label", "tdocs_of", "evidence">>
    BY <1>2, <1>3, <2>5 DEF Programmed, Finding, Opening, Call
  <2>6. CASE p = <<"page", "label">>
    BY <1>2, <1>3, <2>6 DEF Programmed, Finding, Opening, Call
  <2>7. CASE p = <<"page", "label", "counts">>
    BY <1>2, <1>3, <2>7 DEF Programmed, Finding, Opening, Call
  <2>8. CASE p = <<"meeting", "tdocs_of", "label">>
    BY <1>2, <1>3, <2>8 DEF Programmed, Finding, Opening, Call
  <2>9. CASE p = <<"scope", "members", "label", "evidence">>
    BY <1>2, <1>3, <2>9 DEF Programmed, Finding, Opening, Call
  <2>10. CASE p = <<"scope", "members", "label">>
    BY <1>2, <1>3, <2>10 DEF Programmed, Finding, Opening, Call
  <2>11. QED
    BY <1>1, <2>1, <2>2, <2>3, <2>4, <2>5, <2>6, <2>7, <2>8, <2>9, <2>10
<1>6. QED
  BY <1>2, <1>4, <1>5 DEF p

\* Evidence is still to be looked up.
Due(todo) == \E i \in 1..Len(todo) : todo[i] = "evidence"

\* The next call is one of these.
NextAmong(todo, calls) == todo # <<>> /\ Head(todo) \in calls

\* What is left stays that way, call by call.
LEMMA ProgrammedRest ==
  ASSUME NEW kind, NEW todo \in Seq(Call), todo # <<>>, Programmed(kind, todo)
  PROVE  /\ Tail(todo) \in Seq(Call) /\ Programmed(kind, Tail(todo))
         /\ ~NextAmong(Tail(todo), Opening)
         /\ Due(todo) /\ Head(todo) # "evidence" => Due(Tail(todo))
         /\ kind \in Citing /\ Head(todo) \in Finding => Due(Tail(todo))
<1>1. /\ Tail(todo) \in Seq(Call) /\ Len(Tail(todo)) = Len(todo) - 1 /\ Len(todo) \in Nat
      /\ \A i \in 1..Len(Tail(todo)) : i + 1 \in 2..Len(todo) /\ Tail(todo)[i] = todo[i + 1]
  BY HeadTailProperties
<1>2. ASSUME NEW i \in 1..Len(Tail(todo)), Tail(todo)[i] \in Finding, kind \in Citing
      PROVE  \E j \in 1..Len(Tail(todo)) : i < j /\ Tail(todo)[j] = "evidence"
  <2>1. PICK j \in 1..Len(todo) : i + 1 < j /\ todo[j] = "evidence"
    BY <1>1, <1>2 DEF Programmed
  <2>2. j - 1 \in 1..Len(Tail(todo)) /\ i < j - 1
    BY <1>1, <2>1
  <2>3. QED
    BY <1>1, <2>1, <2>2
<1>3. Programmed(kind, Tail(todo))
  BY <1>1, <1>2 DEF Programmed
<1>4. ~NextAmong(Tail(todo), Opening)
  <2> SUFFICES ASSUME Tail(todo) # <<>> PROVE Tail(todo)[1] \notin Opening
    BY <1>1 DEF NextAmong
  <2>1. 1 \in 1..Len(Tail(todo))
    BY <1>1, EmptySeq
  <2>2. QED
    BY <1>1, <2>1 DEF Programmed
<1>5. ASSUME NEW i \in 2..Len(todo), todo[i] = "evidence"
      PROVE  Due(Tail(todo))
  <2>1. i - 1 \in 1..Len(Tail(todo)) /\ Tail(todo)[i - 1] = todo[i]
    BY <1>1
  <2>2. QED
    BY <1>5, <2>1 DEF Due
<1>6. Len(todo) >= 1 /\ Head(todo) = todo[1]
  BY EmptySeq
<1>7. Due(todo) /\ Head(todo) # "evidence" => Due(Tail(todo))
  BY <1>1, <1>5, <1>6 DEF Due
<1>8. kind \in Citing /\ Head(todo) \in Finding => Due(Tail(todo))
  BY <1>1, <1>5, <1>6 DEF Programmed
<1>9. QED
  BY <1>1, <1>3, <1>4, <1>7, <1>8

-----------------------------------------------------------------------------
(* The listing and its pages.                                               *)

\* Positions are numbers, and there are finitely many meetings to be listed.
LEMMA StoredType ==
  ASSUME NEW v \in Dataset, contents \in [Dataset -> Content]
  PROVE  /\ Stored(v) \in SUBSET Meeting /\ IsFiniteSet(Stored(v))
         /\ Cardinality(Stored(v)) \in Nat
         /\ \A m \in Stored(v) : contents[v][m] \in Nat
         /\ \A m \in Meeting, n \in Stored(v) : Tied(v, m, n) => m \in Stored(v)
<1>1. Stored(v) \in SUBSET Meeting /\ IsFiniteSet(Stored(v))
  BY ReadAssumption, FS_Subset DEF Stored
<1>2. contents[v] \in [Meeting -> Position \cup {Absent}]
  BY ReadAssumption
<1>3. \A m \in Stored(v) : contents[v][m] \in Nat
  BY <1>2, ReadAssumption DEF Stored
<1>4. QED
  BY <1>1, <1>3, FS_CardinalityType DEF Stored, Tied

\* A listing has each meeting of the version once.
LEMMA ListingType ==
  ASSUME NEW v \in Dataset, contents \in [Dataset -> Content], NEW listing \in Listings(v)
  PROVE  /\ listing \in Seq(Meeting) /\ Len(listing) = Cardinality(Stored(v))
         /\ DOMAIN listing = 1..Len(listing)
         /\ \A i \in 1..Len(listing) : listing[i] \in Stored(v)
         /\ \A i, j \in 1..Len(listing) : listing[i] = listing[j] => i = j
         /\ \A m \in Stored(v) : \E i \in 1..Len(listing) : listing[i] = m
<1>1. Stored(v) \in SUBSET Meeting /\ IsFiniteSet(Stored(v))
  BY StoredType
<1>2. listing \in Orderings(Stored(v), contents[v])
  BY DEF Listings
<1>3. /\ listing \in Seq(Stored(v)) /\ Len(listing) = Cardinality(Stored(v))
      /\ DOMAIN listing = 1..Cardinality(Stored(v))
      /\ \A i, j \in 1..Cardinality(Stored(v)) : listing[i] = listing[j] => i = j
      /\ \A x \in Stored(v) : \E i \in 1..Cardinality(Stored(v)) : listing[i] = x
  BY <1>1, <1>2, OrderingIsListing
<1>4. \A i \in 1..Cardinality(Stored(v)) : listing[i] \in Stored(v)
  BY <1>2 DEF Orderings
<1>5. listing \in Seq(Meeting)
  BY <1>1, <1>3
<1>6. QED
  BY <1>3, <1>4, <1>5

\* Two queries may differ in what ties only.
LEMMA ListingsAgree ==
  ASSUME NEW v \in Dataset, contents \in [Dataset -> Content],
         NEW s \in Listings(v), NEW t \in Listings(v), NEW i \in 1..Cardinality(Stored(v))
  PROVE  Tied(v, s[i], t[i])
<1>1. IsFiniteSet(Stored(v)) /\ \A m \in Stored(v) : contents[v][m] \in Nat
  BY StoredType
<1>2. s \in Orderings(Stored(v), contents[v]) /\ t \in Orderings(Stored(v), contents[v])
  BY DEF Listings
<1> DEFINE key == contents[v]
           S == Stored(v)
<1>3. /\ IsFiniteSet(S) /\ (\A m \in S : key[m] \in Nat) /\ i \in 1..Cardinality(S)
      /\ s \in Orderings(S, key) /\ t \in Orderings(S, key)
  BY <1>1, <1>2
<1> HIDE DEF key, S
<1>4. key[s[i]] = key[t[i]]
  BY <1>3, OrderingsAgree
<1>5. QED
  BY <1>4 DEF Tied, key

\* A page has meetings of the listing it is taken from, in their places.
LEMMA PageType ==
  ASSUME NEW v \in Dataset, contents \in [Dataset -> Content], NEW listing \in Listings(v),
         NEW offset \in Nat
  PROVE  /\ Page(listing, offset) \in Seq(Meeting)
         /\ offset <= Cardinality(Stored(v)) =>
              /\ Len(Page(listing, offset)) =
                    IF More(v, offset) THEN PageSize ELSE Cardinality(Stored(v)) - offset
              /\ \A i \in 1..Len(Page(listing, offset)) :
                    Page(listing, offset)[i] = listing[offset + i]
<1> DEFINE n == Len(listing)
           upto == IF n < offset + PageSize THEN n ELSE offset + PageSize
<1>1. /\ listing \in Seq(Meeting) /\ n \in Nat /\ PageSize \in Nat
      /\ n = Cardinality(Stored(v)) /\ \A i \in 1..n : listing[i] \in Meeting
  BY ListingType, ReadAssumption
<1>2. Page(listing, offset) = SubSeq(listing, offset + 1, upto)
  BY DEF Page
<1>3. upto \in Int /\ offset + 1 \in Int /\ upto <= n
  BY <1>1
<1>4. More(v, offset) <=> n > offset + PageSize
  BY <1>1 DEF More
<1>5. offset <= n => upto = IF More(v, offset) THEN offset + PageSize ELSE n
  BY <1>1, <1>4
<1> HIDE DEF upto, n
<1>6. \A i \in (offset + 1)..upto : listing[i] \in Meeting
  BY <1>1, <1>3
<1>7. Page(listing, offset) \in Seq(Meeting)
  BY <1>2, <1>3, <1>6, SubSeqProperties
<1>8. ASSUME offset <= n
      PROVE  /\ Len(Page(listing, offset)) = upto - offset
             /\ \A i \in 1..(upto - offset) : Page(listing, offset)[i] = listing[offset + i]
  <2>1. offset <= upto
    BY <1>1, <1>5, <1>8
  <2>2. /\ Len(SubSeq(listing, offset + 1, upto)) =
              IF offset + 1 <= upto THEN upto - (offset + 1) + 1 ELSE 0
        /\ \A i \in 1..(upto - (offset + 1) + 1) :
              SubSeq(listing, offset + 1, upto)[i] = listing[offset + 1 + i - 1]
    BY <1>3, <1>6, SubSeqProperties
  <2>3. upto - (offset + 1) + 1 = upto - offset
    BY <1>3
  <2>4. Len(SubSeq(listing, offset + 1, upto)) = upto - offset
    BY <1>3, <2>1, <2>2
  <2>5. \A i \in 1..(upto - offset) : offset + 1 + i - 1 = offset + i
    OBVIOUS
  <2>6. QED
    BY <1>2, <2>2, <2>3, <2>4, <2>5
<1>9. offset <= n => upto - offset = IF More(v, offset) THEN PageSize ELSE n - offset
  BY <1>1, <1>5
<1>10. QED
  BY <1>1, <1>7, <1>8, <1>9

\* Row by row, what was read ties with what any single query would have there.
Agrees(listed, v) ==
    \A listing \in Listings(v), i \in 1..Len(listed) : Tied(v, listed[i], listing[i])

\* The next page continues the meetings read so far.
LEMMA PageContinues ==
  ASSUME NEW v \in Dataset, contents \in [Dataset -> Content], NEW listing \in Listings(v),
         NEW listed \in Seq(Meeting), Agrees(listed, v), Len(listed) <= Cardinality(Stored(v)),
         NEW offset, offset = Len(listed), NEW longer, longer = listed \o Page(listing, offset)
  PROVE  /\ Len(longer) = IF More(v, offset) THEN offset + PageSize
                          ELSE Cardinality(Stored(v))
         /\ Agrees(longer, v)
<1> DEFINE page == Page(listing, offset)
           n == Cardinality(Stored(v))
<1>1. offset \in Nat /\ n \in Nat /\ PageSize \in Nat /\ offset <= n
  BY StoredType, ReadAssumption
<1>2. /\ page \in Seq(Meeting)
      /\ Len(page) = IF More(v, offset) THEN PageSize ELSE n - offset
      /\ \A i \in 1..Len(page) : page[i] = listing[offset + i]
  BY <1>1, PageType
<1> HIDE DEF page, n
<1>3. /\ Len(longer) = offset + Len(page)
      /\ \A i \in 1..(offset + Len(page)) :
            longer[i] = IF i <= offset THEN listed[i] ELSE page[i - offset]
  <2>1. longer = listed \o page
    BY DEF page
  <2>2. /\ Len(listed \o page) = Len(listed) + Len(page)
        /\ \A i \in 1..(Len(listed) + Len(page)) :
              (listed \o page)[i] = IF i <= Len(listed) THEN listed[i]
                                   ELSE page[i - Len(listed)]
    BY <1>2, ConcatProperties
  <2>3. QED
    BY <2>1, <2>2
<1>4. Len(longer) = IF More(v, offset) THEN offset + PageSize ELSE n
  BY <1>1, <1>2, <1>3
<1>5. Len(longer) <= n
  BY <1>1, <1>4 DEF More, n
<1>6. ASSUME NEW other \in Listings(v), NEW i \in 1..Len(longer)
      PROVE  Tied(v, longer[i], other[i])
  <2>1. Len(page) \in Nat /\ i \in Nat /\ i \in 1..n /\ i \in 1..(offset + Len(page))
    BY <1>1, <1>2, <1>3, <1>5
  <2>2. CASE i <= offset
    <3>1. i \in 1..Len(listed) /\ longer[i] = listed[i]
      BY <1>3, <2>1, <2>2
    <3>2. QED
      BY <3>1 DEF Agrees
  <2>3. CASE ~(i <= offset)
    <3>1. i - offset \in 1..Len(page) /\ offset + (i - offset) = i
      BY <1>1, <2>1, <2>3
    <3>2. longer[i] = listing[i]
      BY <1>2, <1>3, <2>1, <2>3, <3>1
    <3>3. Tied(v, listing[i], other[i])
      BY <2>1, ListingsAgree DEF n
    <3>4. QED
      BY <3>2, <3>3
  <2>4. QED
    BY <2>2, <2>3
<1>7. Agrees(longer, v)
  BY <1>6 DEF Agrees
<1>8. QED
  BY <1>4, <1>7 DEF n

-----------------------------------------------------------------------------
(* The invariant.                                                           *)

\* The request's fields.
Request ==
    [kind : Kind \cup {"none"}, meeting : Meeting \cup {0}, todo : Seq(Call),
     version : Dataset \cup {NoDataset}, offset : Nat, listed : Seq(Meeting),
     open : SUBSET Nat, used : SUBSET Dataset,
     cited : SUBSET (Dataset \X Meeting), evidence : SUBSET (Dataset \X Meeting),
     label : Dataset \cup {NoDataset}]

\* Only versions that were current are read and named.
Published(r) ==
    /\ {r.version, r.label} \ {NoDataset} \subseteq during
    /\ r.kind # "relevant_passages" => r.used \subseteq during

\* Evidence is looked up after what it is the evidence of, and while nothing is
\* published both are of the current version.
Gathers(r) ==
    /\ r.evidence \subseteq r.cited
    /\ r.kind \notin Citing \/ NextAmong(r.todo, Opening) => r.cited = {}
    /\ Quiet /\ r.kind # "relevant_passages" =>
          r.cited \subseteq {current} \X Meeting /\ (r.evidence = r.cited \/ Due(r.todo))

\* While nothing is published, the meetings read so far begin the listing, but for
\* the order of what ties.
Lists(r) ==
    Quiet /\ r.kind \in Group =>
        /\ Agrees(r.listed, current)
        /\ IF NextAmong(r.todo, {"scope"})
           THEN Len(r.listed) = r.offset /\ r.offset <= Cardinality(Stored(current))
           ELSE Len(r.listed) = Cardinality(Stored(current)) /\ Listings(current) # {}

RequestInv(r) ==
    r \in Request /\ Programmed(r.kind, r.todo) /\ Published(r) /\ Gathers(r) /\ Lists(r)

ReadInv ==
    /\ current \in Dataset \cup {NoDataset}
    /\ contents \in [Dataset -> Content]
    /\ during \subseteq Dataset \cup {NoDataset}
    /\ UnderWay => current \in during
    /\ RequestInv(request)

\* An idle reader has nothing to account for.
LEMMA IdleInv == RequestInv(Idle)
<1>1. Idle \in Request
  BY EmptySeq DEF Idle, Request
<1>2. /\ Idle.kind = "none" /\ Idle.todo = <<>> /\ Idle.version = NoDataset
      /\ Idle.used = {} /\ Idle.cited = {} /\ Idle.evidence = {} /\ Idle.label = NoDataset
  BY DEF Idle
<1>3. "none" \notin Group /\ "none" \notin Citing
  BY DEF Group, Citing, Program
<1>4. Len(<<>>) = 0
  OBVIOUS
<1>5. Programmed(Idle.kind, Idle.todo)
  BY <1>2, <1>3, <1>4 DEF Programmed
<1>6. Published(Idle) /\ Gathers(Idle) /\ Lists(Idle)
  BY <1>2, <1>3 DEF Published, Gathers, Lists
<1>7. QED
  BY <1>1, <1>5, <1>6 DEF RequestInv

\* It holds when nothing was asked and nothing was published yet.
LEMMA ReadInit == Init => ReadInv
BY IdleInv, ReadAssumption DEF Init, Publication!Init, ReadInv, UnderWay, Idle

\* A call changes the request and nothing else.
LEMMA AnswerInv ==
  ASSUME ReadInv, NEW answer, Answer(answer), RequestInv(answer), UnderWay
  PROVE  ReadInv'
<1>1. request' = answer /\ current' = current /\ contents' = contents /\ during' = during
  BY DEF Answer
<1>2. Published(request)' /\ Gathers(request)'
  BY <1>1 DEF RequestInv, Published, Gathers, Quiet
<1>3. Lists(request)'
  BY <1>1 DEF RequestInv, Lists, Quiet, Agrees, Listings, Stored, Tied
<1>4. QED
  BY <1>1, <1>2, <1>3 DEF ReadInv, RequestInv, UnderWay

\* While nothing is published a call resolves the current version.
LEMMA QuietVersion ==
  ASSUME ReadInv, UnderWay, Quiet
  PROVE  /\ current \in Dataset /\ during = {current}
         /\ request.version # NoDataset => request.version = current
BY DEF ReadInv, RequestInv, Published, Quiet

\* What is left after the opening call found nothing.
LEMMA OtherwiseIsLeft ==
  /\ Otherwise \in Seq(Call) /\ Programmed(request.kind, Otherwise)
  /\ ~NextAmong(Otherwise, Opening)
<1>1. CASE request.kind \in Facets
  BY <1>1, EmptySeq DEF Otherwise, Programmed, NextAmong
<1>2. CASE request.kind \notin Facets
  BY <1>2 DEF Otherwise, Programmed, NextAmong, Call, Opening, Finding
<1>3. QED
  BY <1>1, <1>2

\* What the call under way may take from the invariant.
LEMMA Querier ==
  ASSUME ReadInv, UnderWay, request.todo # <<>>
  PROVE  /\ request \in Request /\ request.todo \in Seq(Call)
         /\ Programmed(request.kind, request.todo) /\ Published(request)
         /\ Gathers(request) /\ Lists(request)
         /\ Rest \in Seq(Call) /\ Programmed(request.kind, Rest) /\ ~NextAmong(Rest, Opening)
         /\ Due(request.todo) /\ Head(request.todo) # "evidence" => Due(Rest)
         /\ request.kind \in Citing /\ Head(request.todo) \in Finding => Due(Rest)
         /\ request.kind \in Kind /\ current \in during
<1>1. request \in Request /\ request.todo \in Seq(Call) /\ Programmed(request.kind, request.todo)
  BY DEF ReadInv, RequestInv, Request
<1>2. QED
  BY <1>1, ProgrammedRest DEF ReadInv, RequestInv, Rest, UnderWay, Request

\* A query's answer is from the version it resolved.
LEMMA QueryPublished ==
  ASSUME ReadInv, UnderWay, request.version # NoDataset,
         NEW answer, answer.kind = request.kind, answer.label = request.label,
         answer.version = NoDataset,
         request.kind # "relevant_passages" =>
            answer.used = request.used \cup {request.version}
  PROVE  Published(answer)
BY DEF ReadInv, RequestInv, Published

\* Calls other than those of the listing leave it as it is.
LEMMA ListsKept ==
  ASSUME ReadInv, UnderWay,
         NEW answer, answer.kind = request.kind, answer.listed = request.listed,
         answer.offset = request.offset,
         NextAmong(answer.todo, {"scope"}) <=> NextAmong(request.todo, {"scope"})
  PROVE  Lists(answer)
BY DEF ReadInv, RequestInv, Lists

\* What a query finds is of the version.
LEMMA FoundType ==
  ASSUME NEW call \in {"tdoc", "tdocs", "meeting", "tdocs_of", "body", "counts"}
  PROVE  Found(call) \in SUBSET Meeting
BY DEF Found, Stored

\* What is found is cited, as of the version resolved.
LEMMA CitedType ==
  ASSUME ReadInv, UnderWay, request.version # NoDataset, NEW found \in SUBSET Meeting
  PROVE  /\ Cited(found) \in SUBSET (Dataset \X Meeting)
         /\ request.cited \subseteq Cited(found)
         /\ found = {} => Cited(found) = request.cited
         /\ request.kind \notin Citing => Cited(found) = request.cited
         /\ Quiet /\ request.cited \subseteq {current} \X Meeting =>
                Cited(found) \subseteq {current} \X Meeting
<1>1. request.version \in Dataset /\ request.cited \in SUBSET (Dataset \X Meeting)
  BY DEF ReadInv, RequestInv, Request
<1>2. Quiet => request.version = current
  BY QuietVersion
<1>3. QED
  BY <1>1, <1>2 DEF Cited

-----------------------------------------------------------------------------
(* The steps.                                                               *)

\* What opens a request is found or not.
LEMMA FindInv ==
  ASSUME ReadInv, Find
  PROVE  ReadInv'
<1>1. PICK call \in {"tdoc", "tdocs", "meeting"} :
         /\ Querying(call)
         /\ Answer([Queried EXCEPT
                      !.cited = IF call = "meeting" THEN @ ELSE Cited(Found(call)),
                      !.todo = IF Found(call) = {} THEN Otherwise ELSE Rest])
  BY DEF Find
<1> DEFINE cited == IF call = "meeting" THEN request.cited ELSE Cited(Found(call))
           todo == IF Found(call) = {} THEN Otherwise ELSE Rest
           answer == [request EXCEPT !.version = NoDataset, !.used = @ \cup {request.version},
                                     !.cited = cited, !.todo = todo]
<1>2. /\ UnderWay /\ request.todo # <<>> /\ Head(request.todo) = call
      /\ request.version # NoDataset
  BY <1>1 DEF Querying, NextCall
<1>3. /\ Found(call) \in SUBSET Meeting /\ cited \in SUBSET (Dataset \X Meeting)
      /\ request.cited \subseteq cited
      /\ Found(call) = {} \/ request.kind \notin Citing => cited = request.cited
      /\ Quiet /\ request.cited \subseteq {current} \X Meeting => cited \subseteq {current} \X Meeting
  BY <1>2, FoundType, CitedType
<1>4. /\ todo \in Seq(Call) /\ Programmed(request.kind, todo) /\ ~NextAmong(todo, Opening)
  BY <1>2, Querier, OtherwiseIsLeft
<1>5. request.cited = {} /\ request.evidence = {}
  BY <1>2, Querier DEF Gathers, NextAmong, Opening
<1>6. Found(call) # {} => todo = Rest
  OBVIOUS
<1>7. request \in Request /\ request' = answer /\ Answer(answer)
  BY <1>1, <1>2, Querier DEF Answer, Queried, Request
<1> HIDE DEF cited, todo
<1>8. /\ answer \in Request /\ answer.kind = request.kind /\ answer.todo = todo
      /\ answer.version = NoDataset /\ answer.offset = request.offset
      /\ answer.listed = request.listed /\ answer.used = request.used \cup {request.version}
      /\ answer.cited = cited /\ answer.evidence = request.evidence
      /\ answer.label = request.label
  BY <1>2, <1>3, <1>4, <1>7 DEF Request
<1> HIDE DEF answer
<1>9. Published(answer)
  BY <1>2, <1>8, QueryPublished
<1>10. Gathers(answer)
  <2>1. request.kind # "relevant_passages" /\ Quiet => answer.evidence = answer.cited \/ Due(todo)
    <3>1. CASE call = "meeting"
      BY <1>5, <1>8, <3>1 DEF cited
    <3>2. CASE Found(call) = {} \/ request.kind \notin Citing
      BY <1>3, <1>5, <1>8, <3>2
    <3>3. CASE call # "meeting" /\ Found(call) # {} /\ request.kind \in Citing
      BY <1>2, <1>6, <3>3, Querier DEF Finding
    <3>4. QED
      BY <3>1, <3>2, <3>3
  <2>2. QED
    BY <1>3, <1>4, <1>5, <1>8, <2>1 DEF Gathers
<1>11. Lists(answer)
  <2>1. ~NextAmong(todo, {"scope"}) /\ ~NextAmong(request.todo, {"scope"})
    BY <1>2, <1>4 DEF NextAmong, Opening
  <2>2. QED
    BY <1>2, <1>8, <2>1, ListsKept
<1>12. QED
  BY <1>2, <1>4, <1>7, <1>8, <1>9, <1>10, <1>11, AnswerInv DEF RequestInv

\* A detail is read of what was found.
LEMMA DetailInv ==
  ASSUME ReadInv, Detail
  PROVE  ReadInv'
<1>1. PICK call \in {"tdocs_of", "body", "counts"} :
         /\ Querying(call)
         /\ Answer([Queried EXCEPT
                      !.cited = IF call = "tdocs_of" THEN Cited(Found(call)) ELSE @,
                      !.todo = Rest])
  BY DEF Detail
<1> DEFINE cited == IF call = "tdocs_of" THEN Cited(Found(call)) ELSE request.cited
           answer == [request EXCEPT !.version = NoDataset, !.used = @ \cup {request.version},
                                     !.cited = cited, !.todo = Rest]
<1>2. /\ UnderWay /\ request.todo # <<>> /\ Head(request.todo) = call
      /\ request.version # NoDataset
  BY <1>1 DEF Querying, NextCall
<1>3. /\ cited \in SUBSET (Dataset \X Meeting) /\ request.cited \subseteq cited
      /\ request.kind \notin Citing => cited = request.cited
      /\ Quiet /\ request.cited \subseteq {current} \X Meeting => cited \subseteq {current} \X Meeting
  BY <1>2, FoundType, CitedType, Querier DEF Request
<1>4. request \in Request /\ request' = answer /\ Answer(answer)
  BY <1>1, <1>2, Querier DEF Answer, Queried, Request
<1> HIDE DEF cited
<1>5. /\ answer \in Request /\ answer.kind = request.kind /\ answer.todo = Rest
      /\ answer.version = NoDataset /\ answer.offset = request.offset
      /\ answer.listed = request.listed /\ answer.used = request.used \cup {request.version}
      /\ answer.cited = cited /\ answer.evidence = request.evidence
      /\ answer.label = request.label
  BY <1>2, <1>3, <1>4, Querier DEF Request
<1> HIDE DEF answer
<1>6. Published(answer)
  BY <1>2, <1>5, QueryPublished
<1>7. Gathers(answer)
  <2>1. request.kind # "relevant_passages" /\ Quiet => answer.evidence = answer.cited \/ Due(Rest)
    <3>1. CASE call = "tdocs_of" /\ request.kind \in Citing
      BY <1>2, <3>1, Querier DEF Finding
    <3>2. CASE request.kind \notin Citing
      BY <1>2, <1>3, <1>5, <3>2, Querier DEF Gathers
    <3>3. CASE call # "tdocs_of"
      BY <1>2, <1>5, <3>3, Querier DEF Gathers, cited
    <3>4. QED
      BY <3>1, <3>2, <3>3
  <2>2. QED
    BY <1>2, <1>3, <1>5, <2>1, Querier DEF Gathers
<1>8. Lists(answer)
  <2>1. ~NextAmong(Rest, {"scope"}) /\ ~NextAmong(request.todo, {"scope"})
    BY <1>2, Querier DEF NextAmong, Opening
  <2>2. QED
    BY <1>2, <1>5, <2>1, ListsKept
<1>9. QED
  BY <1>2, <1>4, <1>5, <1>6, <1>7, <1>8, AnswerInv, Querier DEF RequestInv

\* A page is read, for an answer that cites nothing.
LEMMA ReadPageInv ==
  ASSUME ReadInv, ReadPage
  PROVE  ReadInv'
<1>0. PICK listing \in Listings(request.version) :
         LET page == Page(listing, request.offset) IN
         Answer([Queried EXCEPT !.listed = page,
                                !.todo = IF page # <<>> THEN Rest ELSE Otherwise])
  BY DEF ReadPage
<1> DEFINE page == Page(listing, request.offset)
           todo == IF page # <<>> THEN Rest ELSE Otherwise
           answer == [request EXCEPT !.version = NoDataset, !.used = @ \cup {request.version},
                                     !.listed = page, !.todo = todo]
<1>1. /\ UnderWay /\ request.todo # <<>> /\ Head(request.todo) = "page"
      /\ request.version # NoDataset
  BY DEF ReadPage, Querying, NextCall
<1>2. request \in Request /\ request' = answer /\ Answer(answer)
  BY <1>0, <1>1, Querier DEF Answer, Queried, Request
<1>3. page \in Seq(Meeting)
  <2>1. request.version \in Dataset /\ request.offset \in Nat
        /\ contents \in [Dataset -> Content]
    BY <1>1, <1>2 DEF Request, ReadInv
  <2>2. QED
    BY <2>1, PageType
<1>4. /\ todo \in Seq(Call) /\ Programmed(request.kind, todo) /\ ~NextAmong(todo, Opening)
  BY <1>1, Querier, OtherwiseIsLeft
<1> HIDE DEF page, todo
<1>5. /\ answer \in Request /\ answer.kind = request.kind /\ answer.todo = todo
      /\ answer.version = NoDataset /\ answer.used = request.used \cup {request.version}
      /\ answer.cited = request.cited /\ answer.evidence = request.evidence
      /\ answer.label = request.label
  BY <1>1, <1>2, <1>3, <1>4 DEF Request
<1> HIDE DEF answer
<1>6. Published(answer)
  BY <1>1, <1>5, QueryPublished
<1>7. Gathers(answer)
  BY <1>1, <1>4, <1>5, Querier DEF Gathers, NextAmong, Opening
<1>8. request.kind \notin Group
  BY <1>1, Querier, EmptySeq DEF Programmed
<1>9. QED
  BY <1>1, <1>2, <1>4, <1>5, <1>6, <1>7, <1>8, AnswerInv DEF RequestInv, Lists

\* A page is appended to the working group's meetings.
LEMMA ReadScopeInv ==
  ASSUME ReadInv, ReadScope
  PROVE  ReadInv'
<1> DEFINE more == More(request.version, request.offset)
<1>0. PICK listing \in Listings(request.version) :
         LET listed == request.listed \o Page(listing, request.offset) IN
         Answer([Queried EXCEPT
                   !.listed = listed,
                   !.open = IF more THEN @ ELSE DOMAIN listed,
                   !.offset = IF more THEN NextOffset ELSE @,
                   !.todo = IF more THEN @ ELSE IF listed = <<>> THEN Otherwise ELSE Rest])
  BY DEF ReadScope
<1> DEFINE page == Page(listing, request.offset)
           listed == request.listed \o page
           open == IF more THEN request.open ELSE DOMAIN listed
           offset == IF more THEN NextOffset ELSE request.offset
           todo == IF more THEN request.todo ELSE IF listed = <<>> THEN Otherwise ELSE Rest
           answer == [request EXCEPT !.version = NoDataset, !.used = @ \cup {request.version},
                                     !.listed = listed, !.open = open, !.offset = offset,
                                     !.todo = todo]
<1>1. /\ UnderWay /\ request.todo # <<>> /\ Head(request.todo) = "scope"
      /\ request.version # NoDataset
  BY DEF ReadScope, Querying, NextCall
<1>2. request \in Request /\ request' = answer /\ Answer(answer)
  BY <1>0, <1>1, Querier DEF Answer, Queried, Request
<1>3. /\ request.version \in Dataset /\ request.offset \in Nat /\ PageSize \in Nat
      /\ contents \in [Dataset -> Content] /\ page \in Seq(Meeting)
  <2>1. /\ request.version \in Dataset /\ request.offset \in Nat
        /\ contents \in [Dataset -> Content]
    BY <1>1, <1>2 DEF Request, ReadInv
  <2>2. QED
    BY <2>1, PageType, ReadAssumption
<1>4. listed \in Seq(Meeting)
  BY <1>2, <1>3, ConcatProperties DEF Request
<1>5. open \in SUBSET Nat /\ offset \in Nat
  <2>1. request.open \in SUBSET Nat /\ DOMAIN listed \in SUBSET Nat
    BY <1>2, <1>4, LenProperties DEF Request
  <2>2. NextOffset \in Nat
    BY <1>3 DEF NextOffset
  <2>3. QED
    BY <1>3, <2>1, <2>2
<1>6. /\ todo \in Seq(Call) /\ Programmed(request.kind, todo)
      /\ IF more THEN todo = request.todo ELSE ~NextAmong(todo, Opening)
  BY <1>1, Querier, OtherwiseIsLeft
<1> HIDE DEF page, listed, open, offset, todo
<1>7. /\ answer \in Request /\ answer.kind = request.kind /\ answer.todo = todo
      /\ answer.version = NoDataset /\ answer.used = request.used \cup {request.version}
      /\ answer.listed = listed /\ answer.offset = offset
      /\ answer.cited = request.cited /\ answer.evidence = request.evidence
      /\ answer.label = request.label
  BY <1>1, <1>2, <1>4, <1>5, <1>6 DEF Request
<1> HIDE DEF answer
<1>8. Published(answer)
  BY <1>1, <1>7, QueryPublished
<1>9. Gathers(answer)
  BY <1>1, <1>6, <1>7, Querier DEF Gathers, NextAmong, Opening
<1>10. ASSUME Quiet, request.kind \in Group
       PROVE  /\ Agrees(listed, current)
              /\ IF NextAmong(todo, {"scope"})
                 THEN Len(listed) = offset /\ offset <= Cardinality(Stored(current))
                 ELSE Len(listed) = Cardinality(Stored(current)) /\ Listings(current) # {}
  <2>1. request.version = current /\ listing \in Listings(current) /\ current \in Dataset
    BY <1>1, <1>3, <1>10, QuietVersion
  <2>2. /\ request.listed \in Seq(Meeting) /\ Agrees(request.listed, current)
        /\ Len(request.listed) = request.offset
        /\ request.offset <= Cardinality(Stored(current))
    BY <1>1, <1>10, Querier DEF Lists, NextAmong, Request
  <2>3. /\ Len(listed) = IF More(current, request.offset) THEN request.offset + PageSize
                         ELSE Cardinality(Stored(current))
        /\ Agrees(listed, current)
    <3>1. listed = request.listed \o Page(listing, request.offset)
      BY DEF listed, page
    <3>2. request.offset = Len(request.listed)
          /\ Len(request.listed) <= Cardinality(Stored(current))
      BY <2>2
    <3>3. contents \in [Dataset -> Content]
      BY <1>3
    <3>4. ASSUME NEW s \in Seq(Meeting), Agrees(s, current), NEW longer, NEW o, o = Len(s),
                 Len(s) <= Cardinality(Stored(current)), longer = s \o Page(listing, o)
          PROVE  /\ Len(longer) = IF More(current, o) THEN o + PageSize
                                  ELSE Cardinality(Stored(current))
                 /\ Agrees(longer, current)
      BY <2>1, <3>3, <3>4, PageContinues
    <3>5. QED
      BY <2>2, <3>1, <3>2, <3>4
  <2>4. CASE more
    <3>1. NextAmong(todo, {"scope"})
      BY <1>1, <1>6, <2>4 DEF NextAmong
    <3>2. Len(listed) = offset /\ offset <= Cardinality(Stored(current))
      <4>1. Cardinality(Stored(current)) \in Nat
        BY <1>3, <2>1, StoredType
      <4>2. QED
        BY <1>3, <2>1, <2>3, <2>4, <4>1 DEF offset, NextOffset, More
    <3>3. QED
      BY <2>3, <3>1, <3>2
  <2>5. CASE ~more
    BY <1>6, <2>1, <2>3, <2>5 DEF NextAmong, Opening
  <2>6. QED
    BY <2>4, <2>5
<1>11. Lists(answer)
  BY <1>7, <1>10 DEF Lists
<1>12. QED
  BY <1>1, <1>2, <1>6, <1>7, <1>8, <1>9, <1>11, AnswerInv DEF RequestInv

\* The TDocs of one of these meetings are read.
LEMMA ReadMemberInv ==
  ASSUME ReadInv, NEW i \in request.open, ReadMember(i)
  PROVE  ReadInv'
<1> DEFINE found == Stored(request.version) \cap {request.listed[i]}
           cited == Cited(found)
           todo == IF request.open = {i} THEN Rest ELSE request.todo
           answer == [request EXCEPT !.version = NoDataset, !.used = @ \cup {request.version},
                                     !.open = @ \ {i}, !.cited = cited, !.todo = todo]
<1>1. /\ UnderWay /\ request.todo # <<>> /\ Head(request.todo) = "members"
      /\ request.version # NoDataset
  BY DEF ReadMember, Querying, NextCall
<1>2. request \in Request /\ request' = answer /\ Answer(answer)
  BY <1>1, Querier DEF ReadMember, Answer, Queried, Request
<1>3. /\ cited \in SUBSET (Dataset \X Meeting) /\ request.cited \subseteq cited
      /\ request.kind \notin Citing => cited = request.cited
      /\ Quiet /\ request.cited \subseteq {current} \X Meeting => cited \subseteq {current} \X Meeting
  <2>1. found \in SUBSET Meeting
    BY DEF Stored
  <2>2. QED
    BY <1>1, <2>1, CitedType
<1>4. /\ todo \in Seq(Call) /\ Programmed(request.kind, todo) /\ ~NextAmong(todo, Opening)
      /\ request.kind \in Citing => Due(todo)
  <2>1. ~NextAmong(request.todo, Opening)
    BY <1>1 DEF NextAmong, Opening
  <2>2. request.kind \in Citing => Due(request.todo)
    BY <1>1, Querier, EmptySeq DEF Programmed, Finding, Due
  <2>3. QED
    BY <1>1, <2>1, <2>2, Querier DEF Finding
<1> HIDE DEF cited, todo
<1>5. /\ answer \in Request /\ answer.kind = request.kind /\ answer.todo = todo
      /\ answer.version = NoDataset /\ answer.offset = request.offset
      /\ answer.listed = request.listed /\ answer.used = request.used \cup {request.version}
      /\ answer.cited = cited /\ answer.evidence = request.evidence
      /\ answer.label = request.label
  BY <1>1, <1>2, <1>3, <1>4 DEF Request
<1> HIDE DEF answer
<1>6. Published(answer)
  BY <1>1, <1>5, QueryPublished
<1>7. Gathers(answer)
  BY <1>1, <1>3, <1>4, <1>5, Querier DEF Gathers
<1>8. Lists(answer)
  <2>1. ~NextAmong(todo, {"scope"}) /\ ~NextAmong(request.todo, {"scope"})
    BY <1>1, <1>4 DEF NextAmong, Opening
  <2>2. QED
    BY <1>1, <1>5, <2>1, ListsKept
<1>9. QED
  BY <1>1, <1>2, <1>4, <1>5, <1>6, <1>7, <1>8, AnswerInv DEF RequestInv

\* Passages may come from any version, and none of them has evidence yet.
LEMMA ReadPassagesInv ==
  ASSUME ReadInv, ReadPassages
  PROVE  ReadInv'
<1> DEFINE ranked == Stored(request.version)
           todo == IF ranked = {} THEN Otherwise ELSE Rest
<1>1. /\ UnderWay /\ request.todo # <<>> /\ Head(request.todo) = "passages"
      /\ request.version # NoDataset /\ request.kind = "relevant_passages"
  BY DEF ReadPassages, Querying, NextCall
<1>2. PICK row \in [ranked -> Dataset] :
        Answer([Queried EXCEPT !.used = @ \cup {request.version} \cup Range(row),
                               !.cited = {<<row[m], m>> : m \in ranked},
                               !.todo = todo])
  BY DEF ReadPassages
<1> DEFINE used == request.used \cup {request.version} \cup Range(row)
           cited == {<<row[m], m>> : m \in ranked}
           answer == [request EXCEPT !.version = NoDataset, !.used = used,
                                     !.cited = cited, !.todo = todo]
<1>3. /\ request \in Request /\ request' = answer /\ Answer(answer)
  BY <1>1, <1>2, Querier DEF Answer, Queried, Request
<1>4. used \in SUBSET Dataset /\ cited \in SUBSET (Dataset \X Meeting)
  <2>1. request.version \in Dataset /\ request.used \in SUBSET Dataset
    BY <1>1, <1>3 DEF Request
  <2>2. Range(row) \in SUBSET Dataset
    BY DEF Range
  <2>3. cited \in SUBSET (Dataset \X Meeting)
    BY DEF Stored
  <2>4. QED
    BY <2>1, <2>2, <2>3
<1>5. /\ todo \in Seq(Call) /\ Programmed(request.kind, todo) /\ ~NextAmong(todo, Opening)
  BY <1>1, Querier, OtherwiseIsLeft
<1>6. request.evidence = {}
  BY <1>1, Querier DEF Gathers, NextAmong, Opening
<1>7. request.kind \in Citing /\ request.kind \notin Group
  BY <1>1, Programs, Querier, ReadAssumption DEF Group
<1> HIDE DEF used, cited, todo
<1>8. /\ answer \in Request /\ answer.kind = request.kind /\ answer.todo = todo
      /\ answer.version = NoDataset /\ answer.evidence = request.evidence
      /\ answer.label = request.label
  BY <1>1, <1>3, <1>4, <1>5 DEF Request
<1> HIDE DEF answer
<1>9. Published(answer)
  BY <1>1, <1>8, QueryPublished
<1>10. Gathers(answer)
  BY <1>1, <1>5, <1>6, <1>7, <1>8 DEF Gathers
<1>11. Lists(answer)
  BY <1>7, <1>8 DEF Lists
<1>12. QED
  BY <1>1, <1>3, <1>5, <1>8, <1>9, <1>10, <1>11, AnswerInv DEF RequestInv

\* Where nothing is cited, no evidence is missing.
LEMMA SkipEvidenceInv ==
  ASSUME ReadInv, SkipEvidence
  PROVE  ReadInv'
<1> DEFINE answer == [request EXCEPT !.todo = Rest]
<1>1. /\ UnderWay /\ request.todo # <<>> /\ Head(request.todo) = "evidence"
      /\ request.cited = {} /\ Answer(answer)
  BY DEF SkipEvidence, NextCall
<1>2. request \in Request /\ request.evidence = {}
  BY <1>1, Querier DEF Gathers
<1>3. /\ answer \in Request /\ answer.kind = request.kind /\ answer.todo = Rest
      /\ answer.version = request.version /\ answer.offset = request.offset
      /\ answer.listed = request.listed /\ answer.used = request.used
      /\ answer.cited = request.cited /\ answer.evidence = request.evidence
      /\ answer.label = request.label
  BY <1>1, <1>2, Querier DEF Request
<1> HIDE DEF answer
<1>4. Published(answer)
  BY <1>1, <1>3, Querier DEF Published
<1>5. Gathers(answer)
  BY <1>1, <1>2, <1>3 DEF Gathers
<1>6. Lists(answer)
  <2>1. ~NextAmong(Rest, {"scope"}) /\ ~NextAmong(request.todo, {"scope"})
    BY <1>1, Querier DEF NextAmong, Opening
  <2>2. QED
    BY <1>1, <1>3, <2>1, ListsKept
<1>7. QED
  BY <1>1, <1>3, <1>4, <1>5, <1>6, AnswerInv, Querier DEF RequestInv

\* While nothing is published, the evidence is that of everything cited.
LEMMA ReadEvidenceInv ==
  ASSUME ReadInv, ReadEvidence
  PROVE  ReadInv'
<1> DEFINE evidence == {c \in request.cited : c[1] = request.version}
           answer == [request EXCEPT !.version = NoDataset, !.used = @ \cup {request.version},
                                     !.evidence = evidence, !.todo = Rest]
<1>1. /\ UnderWay /\ request.todo # <<>> /\ Head(request.todo) = "evidence"
      /\ request.version # NoDataset
  BY DEF ReadEvidence, Querying, NextCall
<1>2. request \in Request /\ request' = answer /\ Answer(answer)
  BY <1>1, Querier DEF ReadEvidence, Answer, Queried, Request
<1>3. evidence \in SUBSET (Dataset \X Meeting) /\ evidence \subseteq request.cited
  BY <1>2 DEF Request
<1>4. Quiet /\ request.cited \subseteq {current} \X Meeting => evidence = request.cited
  BY <1>1, QuietVersion
<1> HIDE DEF evidence
<1>5. /\ answer \in Request /\ answer.kind = request.kind /\ answer.todo = Rest
      /\ answer.version = NoDataset /\ answer.offset = request.offset
      /\ answer.listed = request.listed /\ answer.used = request.used \cup {request.version}
      /\ answer.cited = request.cited /\ answer.evidence = evidence
      /\ answer.label = request.label
  BY <1>1, <1>2, <1>3, Querier DEF Request
<1> HIDE DEF answer
<1>6. Published(answer)
  BY <1>1, <1>5, QueryPublished
<1>7. Gathers(answer)
  BY <1>1, <1>3, <1>4, <1>5, Querier DEF Gathers
<1>8. Lists(answer)
  <2>1. ~NextAmong(Rest, {"scope"}) /\ ~NextAmong(request.todo, {"scope"})
    BY <1>1, Querier DEF NextAmong, Opening
  <2>2. QED
    BY <1>1, <1>5, <2>1, ListsKept
<1>9. QED
  BY <1>1, <1>2, <1>5, <1>6, <1>7, <1>8, AnswerInv, Querier DEF RequestInv

\* An answer or an exception leaves an idle reader.
LEMMA RestInv ==
  ASSUME ReadInv, request' = Idle, during' = {}, UNCHANGED <<current, contents>>
  PROVE  ReadInv'
<1>1. RequestInv(request)'
  <2>1. Programmed(Idle.kind, Idle.todo) /\ Idle \in Request
    BY IdleInv DEF RequestInv
  <2>2. /\ Idle.version = NoDataset /\ Idle.kind = "none" /\ Idle.used = {}
        /\ Idle.cited = {} /\ Idle.evidence = {} /\ Idle.label = NoDataset
    BY DEF Idle
  <2>3. Published(request)' /\ Gathers(request)' /\ Lists(request)'
    BY <2>2 DEF Published, Gathers, Lists, Quiet, Group
  <2>4. QED
    BY <2>1, <2>3 DEF RequestInv
<1>2. UnderWay' = FALSE
  BY DEF UnderWay, Idle
<1>3. QED
  BY <1>1, <1>2 DEF ReadInv

\* The answer names what is current.
LEMMA ReadLabelInv ==
  ASSUME ReadInv, ReadLabel
  PROVE  ReadInv'
<1> DEFINE answer == [request EXCEPT !.label = current, !.todo = Rest]
<1>1. /\ UnderWay /\ request.todo # <<>> /\ Head(request.todo) = "label"
      /\ Fail \/ Answer(answer)
  BY DEF ReadLabel, NextCall
<1>2. CASE Fail
  BY <1>2, RestInv DEF Fail
<1>3. CASE Answer(answer)
  <2>1. /\ answer \in Request /\ answer.kind = request.kind /\ answer.todo = Rest
        /\ answer.version = request.version /\ answer.offset = request.offset
        /\ answer.listed = request.listed /\ answer.used = request.used
        /\ answer.cited = request.cited /\ answer.evidence = request.evidence
        /\ answer.label = current
    BY <1>1, Querier DEF Request, ReadInv
  <2> HIDE DEF answer
  <2>2. Published(answer)
    BY <1>1, <2>1, Querier DEF Published
  <2>3. Gathers(answer)
    BY <1>1, <2>1, Querier DEF Gathers
  <2>4. Lists(answer)
    <3>1. ~NextAmong(Rest, {"scope"}) /\ ~NextAmong(request.todo, {"scope"})
      BY <1>1, Querier DEF NextAmong, Opening
    <3>2. QED
      BY <1>1, <2>1, <3>1, ListsKept
  <2>5. QED
    BY <1>1, <1>3, <2>1, <2>2, <2>3, <2>4, AnswerInv, Querier DEF RequestInv
<1>4. QED
  BY <1>1, <1>2, <1>3

\* A call resolves what is current.
LEMMA ResolveInv ==
  ASSUME ReadInv, Resolve
  PROVE  ReadInv'
<1> DEFINE answer == [request EXCEPT !.version = current]
<1>1. UnderWay /\ request.todo # <<>> /\ (Fail \/ Answer(answer))
  BY DEF Resolve
<1>2. CASE Fail
  BY <1>2, RestInv DEF Fail
<1>3. CASE Answer(answer)
  <2>1. /\ answer \in Request /\ answer.kind = request.kind /\ answer.todo = request.todo
        /\ answer.version = current /\ answer.offset = request.offset
        /\ answer.listed = request.listed /\ answer.used = request.used
        /\ answer.cited = request.cited /\ answer.evidence = request.evidence
        /\ answer.label = request.label
    BY <1>1, Querier DEF Request, ReadInv
  <2> HIDE DEF answer
  <2>2. Published(answer)
    BY <1>1, <2>1, Querier DEF Published
  <2>3. Gathers(answer)
    BY <1>1, <2>1, Querier DEF Gathers
  <2>4. Lists(answer)
    BY <1>1, <2>1, ListsKept
  <2>5. QED
    BY <1>1, <1>3, <2>1, <2>2, <2>3, <2>4, AnswerInv, Querier DEF RequestInv
<1>4. QED
  BY <1>1, <1>2, <1>3

\* A request begins with its program, and with what is current.
LEMMA BeginInv ==
  ASSUME ReadInv, NEW kind \in Kind, NEW m \in Meeting, Begin(kind, m)
  PROVE  ReadInv'
<1> DEFINE new == [Idle EXCEPT !.kind = kind, !.meeting = m, !.todo = Program[kind]]
<1>1. request' = new /\ during' = {current} /\ UNCHANGED <<current, contents>>
  BY DEF Begin
<1>2. /\ Program[kind] \in Seq(Call) /\ Programmed(kind, Program[kind])
      /\ kind \in Group => Program[kind] # <<>> /\ Head(Program[kind]) = "scope"
  BY Programs, ReadAssumption
<1>3. Idle \in Request
  BY IdleInv DEF RequestInv
<1>4. /\ new \in Request /\ new.kind = kind /\ new.todo = Program[kind]
      /\ new.version = NoDataset /\ new.offset = 0 /\ new.listed = <<>>
      /\ new.used = {} /\ new.cited = {} /\ new.evidence = {} /\ new.label = NoDataset
  BY <1>2, <1>3 DEF Request, Idle
<1> HIDE DEF new
<1>5. Published(request)' /\ Gathers(request)'
  BY <1>1, <1>4 DEF Published, Gathers
<1>6. Lists(request)'
  <2> SUFFICES ASSUME kind \in Group, Quiet'
               PROVE  0 <= Cardinality(Stored(current)) /\ Agrees(<<>>, current)'
    BY <1>1, <1>2, <1>4, EmptySeq DEF Lists, NextAmong, Stored
  <2>1. current \in Dataset /\ contents \in [Dataset -> Content]
    BY <1>1 DEF Quiet, ReadInv
  <2>2. Agrees(<<>>, current)'
    BY EmptySeq DEF Agrees
  <2>3. QED
    BY <2>1, <2>2, StoredType
<1>7. QED
  BY <1>1, <1>2, <1>4, <1>5, <1>6 DEF ReadInv, RequestInv

\* Publication changes no version that is current, and either changes what is
\* current or leaves a request as quiet as it was.
LEMMA PublishingInv ==
  ASSUME ReadInv, Publishing
  PROVE  ReadInv'
<1>1. /\ request' = request
      /\ during' = IF UnderWay THEN during \cup {current'} ELSE during
      /\ current' \in Dataset \cup {NoDataset}
      /\ contents' \in [Dataset -> Content]
      /\ current' = current /\ current \in Dataset => contents'[current] = contents[current]
  <2>1. PICK d \in Dataset : Publication!Build(d) \/ Publication!Publish(d)
    BY DEF Publishing, Publication!Next
  <2>2. CASE Publication!Build(d)
    BY <2>2 DEF Publishing, Publication!Build, ReadInv
  <2>3. CASE Publication!Publish(d)
    BY <2>3 DEF Publishing, Publication!Publish, ReadInv
  <2>4. QED
    BY <2>1, <2>2, <2>3
<1>2. UnderWay' = UnderWay
  BY <1>1 DEF UnderWay
<1>3. UnderWay /\ Quiet' => Quiet /\ current' = current /\ current \in Dataset
  <2> SUFFICES ASSUME UnderWay, NEW d \in Dataset, during' = {d}
               PROVE  during = {d} /\ current' = d /\ current = d
    BY DEF Quiet
  <2>1. during \cup {current'} = {d} /\ current \in during
    BY <1>1 DEF ReadInv
  <2>2. QED
    BY <2>1
<1>4. request \in Request /\ Programmed(request.kind, request.todo)
      /\ Published(request) /\ Gathers(request) /\ Lists(request)
  BY DEF ReadInv, RequestInv
<1>5. Published(request)'
  BY <1>1, <1>4 DEF Published
<1>6. Gathers(request)'
  <2>1. CASE UnderWay
    BY <1>1, <1>3, <1>4, <2>1 DEF Gathers
  <2>2. CASE ~UnderWay
    <3>1. request.kind \notin Citing
      BY <2>2 DEF UnderWay, Citing, Program
    <3>2. QED
      BY <1>1, <1>4, <3>1 DEF Gathers
  <2>3. QED
    BY <2>1, <2>2
<1>7. Lists(request)'
  <2> SUFFICES ASSUME Quiet', request.kind \in Group
               PROVE  Lists(request)'
    BY <1>1 DEF Lists
  <2>1. Quiet /\ current' = current /\ contents'[current] = contents[current]
    BY <1>1, <1>3 DEF UnderWay, Group
  <2>2. Stored(current)' = Stored(current) /\ Listings(current)' = Listings(current)
    BY <2>1 DEF Listings, Stored
  <2>3. /\ Agrees(request.listed, current)
        /\ IF NextAmong(request.todo, {"scope"})
           THEN Len(request.listed) = request.offset
                /\ request.offset <= Cardinality(Stored(current))
           ELSE Len(request.listed) = Cardinality(Stored(current)) /\ Listings(current) # {}
    BY <1>4, <2>1 DEF Lists
  <2>4. Agrees(request.listed, current)'
    BY <1>1, <2>1, <2>2, <2>3 DEF Agrees, Tied
  <2>5. QED
    BY <1>1, <2>2, <2>3, <2>4 DEF Lists
<1>8. QED
  BY <1>1, <1>2, <1>4, <1>5, <1>6, <1>7 DEF ReadInv, RequestInv

\* Every step keeps the invariant.
LEMMA ReadNext == ReadInv /\ [Next]_vars => ReadInv'
<1> SUFFICES ASSUME ReadInv, [Next]_vars PROVE ReadInv'
  OBVIOUS
<1>1. ASSUME NEW kind \in Kind, NEW m \in Meeting, Begin(kind, m) PROVE ReadInv'
  BY <1>1, BeginInv
<1>2. CASE Resolve
  BY <1>2, ResolveInv
<1>3. CASE Find \/ Detail
  BY <1>3, FindInv, DetailInv
<1>4. CASE ReadPage \/ ReadScope
  BY <1>4, ReadPageInv, ReadScopeInv
<1>5. CASE ReadPassages
  BY <1>5, ReadPassagesInv
<1>6. ASSUME NEW i \in request.open, ReadMember(i) PROVE ReadInv'
  BY <1>6, ReadMemberInv
<1>7. CASE SkipEvidence \/ ReadEvidence
  BY <1>7, SkipEvidenceInv, ReadEvidenceInv
<1>8. CASE ReadLabel
  BY <1>8, ReadLabelInv
<1>9. CASE Respond
  BY <1>9, RestInv DEF Respond
<1>10. CASE Publishing
  BY <1>10, PublishingInv
<1>11. CASE UNCHANGED vars
  BY <1>11 DEF vars, ReadInv, RequestInv, Published, Gathers, Lists, Quiet, Agrees, Listings,
               Stored, Tied, UnderWay
<1>12. QED
  BY <1>1, <1>2, <1>3, <1>4, <1>5, <1>6, <1>7, <1>8, <1>9, <1>10, <1>11 DEF Next, Reader

\* The invariant holds throughout.
THEOREM ReadInvariant == Spec => []ReadInv
<1>1. QED
  BY ReadInit, ReadNext, PTL DEF Spec

-----------------------------------------------------------------------------
(* What follows from it.                                                    *)

\* A request keeps to its fields' types; above all evidence is only of what was
\* cited.
THEOREM RequestTypeCorrect == Spec => []TypeOK
<1>1. ReadInv => TypeOK
  BY DEF ReadInv, RequestInv, Request, Gathers, TypeOK
<1>2. QED
  BY <1>1, ReadInvariant, PTL

\* No request reads a version that was not current at some moment of it, except
\* for the rows of passages.
THEOREM PublishedRead == Spec => []OnlyPublishedRead
<1>1. ReadInv => OnlyPublishedRead
  BY DEF ReadInv, RequestInv, Published, OnlyPublishedRead
<1>2. QED
  BY <1>1, ReadInvariant, PTL

\* A request that no activation overlaps is answered from one version with the
\* evidence of everything that was found.
THEOREM QuietAnswers == Spec => []QuietIsConsistent
<1>1. ASSUME ReadInv, Answered, Quiet, request.kind # "relevant_passages"
      PROVE  FromOneVersion
  <2>1. ~Due(request.todo)
    BY <1>1, EmptySeq DEF Answered, Due
  <2>2. QED
    BY <1>1, <2>1 DEF ReadInv, RequestInv, Published, Gathers, FromOneVersion
<1>2. ReadInv => QuietIsConsistent
  BY <1>1 DEF QuietIsConsistent
<1>3. QED
  BY <1>2, ReadInvariant, PTL

\* Such a request for a working group has read the listing in order up to ties,
\* and what ties with nothing once, whatever the page size.
THEOREM QuietListings == Spec => []QuietScopeUpToTies
<1>1. ASSUME ReadInv, Answered, Quiet, request.kind \in Group
      PROVE  /\ \E listing \in Listings(current) :
                  /\ Len(request.listed) = Len(listing)
                  /\ \A i \in DOMAIN listing : Tied(current, request.listed[i], listing[i])
             /\ \A m \in Stored(current) :
                  (\A n \in Stored(current) \ {m} : ~Tied(current, m, n)) =>
                      \E i \in DOMAIN request.listed :
                          \A j \in DOMAIN request.listed : request.listed[j] = m <=> j = i
  <2> DEFINE listed == request.listed
  <2>1. /\ current \in Dataset /\ contents \in [Dataset -> Content]
        /\ listed \in Seq(Meeting) /\ Agrees(listed, current)
        /\ Len(listed) = Cardinality(Stored(current)) /\ Listings(current) # {}
    BY <1>1, QuietVersion DEF ReadInv, RequestInv, Request, Lists, Answered, NextAmong
  <2>2. PICK listing \in Listings(current) : TRUE
    BY <2>1
  <2>3. /\ Len(listing) = Len(listed) /\ DOMAIN listing = 1..Len(listed)
        /\ \A i \in 1..Len(listed) : listing[i] \in Stored(current)
        /\ \A i, j \in 1..Len(listed) : listing[i] = listing[j] => i = j
        /\ \A m \in Stored(current) : \E i \in 1..Len(listed) : listing[i] = m
    BY <2>1, ListingType
  <2>4. /\ DOMAIN listed = 1..Len(listed)
        /\ \A i \in 1..Len(listed) : listed[i] \in Meeting /\ Tied(current, listed[i], listing[i])
    BY <2>1 DEF Agrees
  <2> HIDE DEF listed
  <2>5. ASSUME NEW m \in Stored(current), \A n \in Stored(current) \ {m} : ~Tied(current, m, n)
        PROVE  \E i \in DOMAIN listed : \A j \in DOMAIN listed : listed[j] = m <=> j = i
    <3>1. PICK i \in 1..Len(listed) : listing[i] = m
      BY <2>3
    <3>2. ASSUME NEW j \in 1..Len(listed) PROVE listed[j] = m <=> listing[j] = m
      <4>1. Tied(current, listed[j], listing[j]) /\ listed[j] \in Meeting
            /\ listing[j] \in Stored(current)
        BY <2>3, <2>4
      <4>2. listed[j] \in Stored(current)
        BY <2>1, <4>1, StoredType
      <4>3. Tied(current, listing[j], listed[j])
        BY <4>1 DEF Tied
      <4>4. QED
        BY <2>5, <4>1, <4>2, <4>3
    <3>3. \A j \in 1..Len(listed) : listing[j] = m <=> j = i
      BY <2>3, <3>1
    <3>4. QED
      BY <2>4, <3>2, <3>3
  <2>6. QED
    BY <2>2, <2>3, <2>4, <2>5 DEF listed
<1>2. ReadInv => QuietScopeUpToTies
  BY <1>1 DEF QuietScopeUpToTies
<1>3. QED
  BY <1>2, ReadInvariant, PTL
=============================================================================
