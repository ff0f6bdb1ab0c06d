-------------------------- MODULE IngestPoolProofs ---------------------------
(***************************************************************************)
(* Proofs about IngestPool for any documents, workers and faults, over any *)
(* number of runs: a document is worked on once in a run, what is called   *)
(* parsed has its body, what is settled stays so, and a run that returns   *)
(* accounts for every document.                                            *)
(***************************************************************************)
EXTENDS IngestPool, OrderedProofs, SequenceTheorems

\* Workers that have a document, ...
Busy == {w \in Pool : worker[w].phase \in {"ingesting", "recording", "reporting"}}

\* ... and those that have not taken an end marker.
Live == {w \in Pool : worker[w].phase # "done"}

\* What is in the queue.
Queued == {queue[i] : i \in 1..Len(queue)}

\* Every task that is not done is queued or with a worker, ...
Counted == unfinished = Len(queue) + Cardinality(Busy)

\* ... the end markers are the last of the queue, one for each live worker, ...
Marked ==
    run = "joining" =>
        /\ Cardinality(Live) <= Len(queue)
        /\ \A i \in 1..Len(queue) : queue[i] = None <=> i > Len(queue) - Cardinality(Live)

\* ... and a document is queued once, or with one worker, or reported once.
Once ==
    /\ \A i, j \in 1..Len(queue) : queue[i] = queue[j] /\ queue[i] # None => i = j
    /\ \A w \in Busy : worker[w].doc \in Document /\ worker[w].doc \notin Queued
    /\ \A w \in Pool \ Busy : worker[w].doc = None
    /\ \A v, w \in Busy : worker[v].doc = worker[w].doc => v = w
    /\ \A r \in results : r.tdoc_id \notin Queued /\ \A w \in Busy : worker[w].doc # r.tdoc_id
    /\ \A r, s \in results : r.tdoc_id = s.tdoc_id => r = s

\* What is queued or being ingested is not settled, ...
Unsettled ==
    /\ \A d \in Document : d \in Queued => table[d] \notin Settled
    /\ \A w \in Pool : worker[w].phase = "ingesting" => table[worker[w].doc] \notin Settled

\* ... what is about to be recorded is no success, and what is about to be
\* reported or has been is what the table says, ...
Telling ==
    /\ \A w \in Pool : worker[w].phase = "recording" => worker[w].status \in Status \ {"parsed"}
    /\ \A w \in Pool : worker[w].phase = "reporting" =>
            worker[w].status \in Status /\ worker[w].status = table[worker[w].doc]
    /\ \A r \in results : r.status = table[r.tdoc_id]

\* ... and no document of the run is forgotten but for a worker that raised.
Kept ==
    run # "stopped" =>
        \A d \in pending :
            \/ d \in Queued
            \/ \E w \in Busy : worker[w].doc = d
            \/ \E w \in Pool : worker[w].phase = "raised"
            \/ \E r \in results : r.tdoc_id = d

\* Nothing is left over when a run has returned.
Over == run = "returned" => queue = <<>> /\ Live = {}

PoolInv ==
    /\ TypeOK /\ Counted /\ Marked /\ Once /\ Unsettled /\ Telling /\ Kept /\ Over
    /\ ParsedHasBody

-----------------------------------------------------------------------------
(* The queue and the workers.                                               *)

\* The queue of a run is its documents in order, then the end markers.
LEMMA QueueOfSet ==
  ASSUME NEW S \in SUBSET Document
  PROVE  LET n == Cardinality(Pool)
             k == Cardinality(S)
         IN  /\ n \in Nat /\ k \in Nat
             /\ QueueOf(S) \in Seq(Document \cup {None}) /\ Len(QueueOf(S)) = k + n
             /\ \A i \in 1..(k + n) : IF i <= k THEN QueueOf(S)[i] \in S ELSE QueueOf(S)[i] = None
             /\ \A i, j \in 1..k : QueueOf(S)[i] = QueueOf(S)[j] => i = j
             /\ \A d \in S : \E i \in 1..k : QueueOf(S)[i] = d
<1> DEFINE n == Cardinality(Pool)
           k == Cardinality(S)
           docs == Ascending(S)
           ends == [i \in 1..n |-> None]
<1>1. IsFiniteSet(S) /\ S \in SUBSET Nat
  BY FS_Subset, PoolAssumption
<1>2. n \in Nat /\ k \in Nat
  BY <1>1, FS_CardinalityType, PoolAssumption
<1>3. /\ docs \in Seq(S) /\ Len(docs) = k
      /\ \A i, j \in 1..k : docs[i] = docs[j] => i = j
      /\ \A d \in S : \E i \in 1..k : docs[i] = d
  BY <1>1, AscendingIsOrder
<1>4. ends \in Seq(Document \cup {None}) /\ Len(ends) = n /\ \A i \in 1..n : ends[i] = None
  BY <1>2
<1>5. QueueOf(S) = docs \o ends
  BY DEF QueueOf
<1> HIDE DEF n, k, docs, ends
<1>6. docs \in Seq(Document \cup {None}) /\ \A i \in 1..k : docs[i] \in S
  BY <1>3
<1>7. /\ docs \o ends \in Seq(Document \cup {None})
      /\ Len(docs \o ends) = Len(docs) + Len(ends)
      /\ \A i \in 1..(Len(docs) + Len(ends)) :
            (docs \o ends)[i] = IF i <= Len(docs) THEN docs[i] ELSE ends[i - Len(docs)]
  BY <1>4, <1>6, ConcatProperties
<1>8. /\ QueueOf(S) \in Seq(Document \cup {None}) /\ Len(QueueOf(S)) = k + n
      /\ \A i \in 1..(k + n) : QueueOf(S)[i] = IF i <= k THEN docs[i] ELSE None
  <2>1. \A i \in 1..(k + n) : ~(i <= k) => i - k \in 1..n
    BY <1>2
  <2>2. QED
    BY <1>3, <1>4, <1>5, <1>7, <2>1
<1>9. QED
  BY <1>2, <1>3, <1>6, <1>8 DEF n, k

\* What a worker's new call does to the numbers of busy and of live workers.
LEMMA Counts ==
  ASSUME NEW w \in Pool, NEW call, worker \in [Pool -> Call],
         worker' = [worker EXCEPT ![w] = call]
  PROVE  /\ Cardinality(Busy) \in Nat /\ Cardinality(Live) \in Nat
         /\ Cardinality(Busy') = Cardinality(Busy)
                + (IF call.phase \in {"ingesting", "recording", "reporting"} THEN 1 ELSE 0)
                - (IF w \in Busy THEN 1 ELSE 0)
         /\ Cardinality(Live') = Cardinality(Live)
                + (IF call.phase # "done" THEN 1 ELSE 0) - (IF w \in Live THEN 1 ELSE 0)
<1>1. IsFiniteSet(Busy) /\ IsFiniteSet(Live)
  BY FS_Subset, PoolAssumption DEF Busy, Live
<1>2. Cardinality(Busy) \in Nat /\ Cardinality(Live) \in Nat
  BY <1>1, FS_CardinalityType
<1>3. /\ Busy' = IF call.phase \in {"ingesting", "recording", "reporting"}
                 THEN Busy \cup {w} ELSE Busy \ {w}
      /\ Live' = IF call.phase # "done" THEN Live \cup {w} ELSE Live \ {w}
  BY DEF Busy, Live
<1>4. /\ Cardinality(Busy \cup {w}) = IF w \in Busy THEN Cardinality(Busy) ELSE Cardinality(Busy) + 1
      /\ Cardinality(Busy \ {w}) = IF w \in Busy THEN Cardinality(Busy) - 1 ELSE Cardinality(Busy)
      /\ Cardinality(Live \cup {w}) = IF w \in Live THEN Cardinality(Live) ELSE Cardinality(Live) + 1
      /\ Cardinality(Live \ {w}) = IF w \in Live THEN Cardinality(Live) - 1 ELSE Cardinality(Live)
  BY <1>1, FS_AddElement, FS_RemoveElement
<1>5. QED
  BY <1>2, <1>3, <1>4

-----------------------------------------------------------------------------
(* The steps.                                                               *)

\* Nothing is queued, called or stored at first.
LEMMA PoolInit == Init => PoolInv
<1> SUFFICES ASSUME Init PROVE PoolInv
  OBVIOUS
<1>1. Calling("off") \in Call /\ Calling("off").phase = "off" /\ Calling("off").doc = None
  BY DEF Calling, Call, Phase
<1> HIDE DEF Calling
<1>2. \A w \in Pool : worker[w] = Calling("off")
  BY DEF Init
<1>3. Busy = {} /\ Cardinality(Busy) = 0
  BY <1>1, <1>2, FS_EmptySet DEF Busy
<1>4. TypeOK
  BY <1>1 DEF Init, TypeOK
<1>5. Counted /\ Marked
  BY <1>3 DEF Init, Counted, Marked
<1>6. Once /\ Unsettled
  BY <1>1, <1>2, <1>3 DEF Init, Once, Unsettled, Queued
<1>7. Telling /\ Kept /\ Over /\ ParsedHasBody
  BY <1>1, <1>2 DEF Init, Telling, Kept, Over, ParsedHasBody
<1>8. QED
  BY <1>4, <1>5, <1>6, <1>7 DEF PoolInv

\* A run queues what is not settled.
LEMMA StartInv ==
  ASSUME PoolInv, StartRun
  PROVE  PoolInv'
<1> DEFINE S == ToIngest
           n == Cardinality(Pool)
           k == Cardinality(S)
<1>1. /\ TypeOK /\ S \in SUBSET Document /\ run' = "joining" /\ pending' = S
      /\ queue' = QueueOf(S) /\ unfinished' = Len(queue') /\ results' = {}
      /\ worker' = [w \in Pool |-> Calling("waiting")] /\ UNCHANGED <<table, body>>
      /\ runs' \in Nat
  BY DEF PoolInv, TypeOK, StartRun, ToIngest
<1>2. Calling("waiting") \in Call /\ Calling("waiting").phase = "waiting"
      /\ Calling("waiting").doc = None
  BY DEF Calling, Call, Phase
<1> HIDE DEF Calling
<1>3. \A w \in Pool : worker'[w] = Calling("waiting")
  BY <1>1
<1>4. /\ n \in Nat /\ k \in Nat /\ queue' \in Seq(Document \cup {None}) /\ Len(queue') = k + n
      /\ \A i \in 1..(k + n) : IF i <= k THEN queue'[i] \in S ELSE queue'[i] = None
      /\ \A i, j \in 1..k : queue'[i] = queue'[j] => i = j
      /\ \A d \in S : \E i \in 1..k : queue'[i] = d
  BY <1>1, QueueOfSet
<1>5. \A d \in S : d # None /\ d \in Document /\ table[d] \notin Settled
  BY PoolAssumption DEF ToIngest, None
<1> HIDE DEF S, n, k
<1>6. Busy' = {} /\ Cardinality(Busy') = 0 /\ Live' = Pool /\ Cardinality(Live') = n
  BY <1>2, <1>3, FS_EmptySet DEF Busy, Live, n
<1>7. TypeOK'
  <2>1. worker' \in [Pool -> Call]
    BY <1>1, <1>2
  <2>2. QED
    BY <1>1, <1>4, <2>1 DEF TypeOK
<1>8. Counted' /\ Marked'
  BY <1>1, <1>4, <1>5, <1>6 DEF Counted, Marked
<1>9. Once'
  <2>1. \A i, j \in 1..Len(queue') : queue'[i] = queue'[j] /\ queue'[i] # None => i = j
    BY <1>4
  <2>2. QED
    BY <1>1, <1>2, <1>3, <1>6, <2>1 DEF Once
<1>10. Unsettled'
  <2>1. \A i \in 1..Len(queue') : queue'[i] # None => table[queue'[i]] \notin Settled
    BY <1>4, <1>5
  <2>2. \A d \in Document : d # None
    BY PoolAssumption DEF None
  <2>3. QED
    BY <1>1, <1>2, <1>3, <2>1, <2>2 DEF Unsettled, Queued
<1>11. Telling' /\ Over'
  BY <1>1, <1>2, <1>3 DEF Telling, Over
<1>12. Kept'
  BY <1>1, <1>4 DEF Kept, Queued
<1>13. ParsedHasBody'
  BY <1>1 DEF PoolInv, ParsedHasBody
<1>14. QED
  BY <1>7, <1>8, <1>9, <1>10, <1>11, <1>12, <1>13 DEF PoolInv

\* A worker takes a document or its end marker from the head of the queue.
LEMMA TakeInv ==
  ASSUME PoolInv, NEW w \in Pool, Take(w)
  PROVE  PoolInv'
<1> DEFINE head == queue[1]
           call == IF head = None THEN Calling("done")
                   ELSE [Calling("ingesting") EXCEPT !.doc = head]
<1>1. /\ TypeOK /\ run = "joining" /\ run' = "joining" /\ worker[w].phase = "waiting"
      /\ queue # <<>> /\ queue \in Seq(Document \cup {None}) /\ queue' = Tail(queue)
      /\ UNCHANGED <<table, body, runs, pending, results>>
  BY DEF PoolInv, TypeOK, Take, At, memory
<1>2. /\ Len(queue) \in Nat /\ 1 \in 1..Len(queue) /\ head \in Document \cup {None}
      /\ Head(queue) = head
      /\ queue' \in Seq(Document \cup {None}) /\ Len(queue') = Len(queue) - 1
      /\ \A i \in 1..Len(queue') : i + 1 \in 1..Len(queue) /\ queue'[i] = queue[i + 1]
  BY <1>1, HeadTailProperties
<1>3. /\ worker' = [worker EXCEPT ![w] = call]
      /\ unfinished' = IF head = None THEN unfinished - 1 ELSE unfinished
  BY <1>2 DEF Take, TaskDone
<1>4. /\ call \in Call
      /\ IF head = None THEN call.phase = "done" /\ call.doc = None
         ELSE call.phase = "ingesting" /\ call.doc = head
  BY <1>2 DEF Calling, Call, Phase
<1>5. /\ call.phase \in {"ingesting", "recording", "reporting"} <=> head # None
      /\ call.phase # "done" <=> head # None
  BY <1>4
<1> HIDE DEF call, head
<1>6. worker \in [Pool -> Call] /\ \A v \in Pool : worker'[v] = IF v = w THEN call ELSE worker[v]
  BY <1>1, <1>3 DEF TypeOK
<1>7. w \notin Busy /\ w \in Live
  BY <1>1 DEF Busy, Live
<1>8. /\ Cardinality(Busy) \in Nat /\ Cardinality(Live) \in Nat
      /\ Cardinality(Busy') = Cardinality(Busy) + (IF head = None THEN 0 ELSE 1)
      /\ Cardinality(Live') = Cardinality(Live) - (IF head = None THEN 1 ELSE 0)
  <2>1. /\ Cardinality(Busy) \in Nat /\ Cardinality(Live) \in Nat
        /\ Cardinality(Busy') = Cardinality(Busy)
                + (IF call.phase \in {"ingesting", "recording", "reporting"} THEN 1 ELSE 0)
                - (IF w \in Busy THEN 1 ELSE 0)
        /\ Cardinality(Live') = Cardinality(Live)
                + (IF call.phase # "done" THEN 1 ELSE 0) - (IF w \in Live THEN 1 ELSE 0)
    BY <1>3, <1>6, Counts
  <2>2. QED
    BY <1>7, <1>5, <2>1
<1>9. \A v \in Pool : v \in Busy' <=> IF v = w THEN head # None ELSE v \in Busy
  BY <1>4, <1>6 DEF Busy
<1>10. Counted'
  BY <1>2, <1>3, <1>8 DEF PoolInv, Counted
<1>11. TypeOK'
  <2>1. worker' \in [Pool -> Call]
    BY <1>3, <1>4, <1>6
  <2>2. unfinished' \in Nat
    BY <1>2, <1>8, <1>10 DEF Counted
  <2>3. QED
    BY <1>1, <1>2, <2>1, <2>2 DEF TypeOK
<1>12. Marked'
  <2>1. /\ Cardinality(Live) <= Len(queue)
        /\ \A i \in 1..Len(queue) : queue[i] = None <=> i > Len(queue) - Cardinality(Live)
    BY <1>1 DEF PoolInv, Marked
  <2>2. head = None <=> 1 > Len(queue) - Cardinality(Live)
    BY <1>2, <2>1 DEF head
  <2>3. Cardinality(Live') <= Len(queue')
    BY <1>2, <1>8, <2>1, <2>2
  <2>4. ASSUME NEW i \in 1..Len(queue')
        PROVE  queue'[i] = None <=> i > Len(queue') - Cardinality(Live')
    <3>1. queue'[i] = None <=> i + 1 > Len(queue) - Cardinality(Live)
      BY <1>2, <2>1
    <3>2. QED
      BY <1>2, <1>8, <2>1, <2>2, <3>1
  <2>5. QED
    BY <2>3, <2>4 DEF Marked
<1>13. \A d \in Document : d \in Queued' => d \in Queued /\ d # head
  <2>1. \A d \in Document : d # None
    BY PoolAssumption DEF None
  <2>2. QED
    BY <1>2, <2>1 DEF PoolInv, Once, Queued, head
<1>14. head # None => head \in Document /\ head \in Queued
  BY <1>2 DEF Queued, head
<1>15. Once'
  <2>1. \A i, j \in 1..Len(queue') : queue'[i] = queue'[j] /\ queue'[i] # None => i = j
    <3>1. \A i, j \in 1..Len(queue) : queue[i] = queue[j] /\ queue[i] # None => i = j
      BY DEF PoolInv, Once
    <3>2. \A i, j \in 1..Len(queue') : queue'[i] = queue'[j] /\ queue'[i] # None => i + 1 = j + 1
      BY <1>2, <3>1
    <3>3. QED
      BY <1>2, <3>2
  <2>2. \A v \in Busy' : worker'[v].doc \in Document /\ worker'[v].doc \notin Queued'
    BY <1>4, <1>6, <1>9, <1>13, <1>14 DEF PoolInv, Once, Busy
  <2>3. \A v \in Pool \ Busy' : worker'[v].doc = None
    BY <1>4, <1>6, <1>9 DEF PoolInv, Once
  <2>4. \A u, v \in Busy' : worker'[u].doc = worker'[v].doc => u = v
    <3>1. \A v \in Busy : worker[v].doc \in Document /\ worker[v].doc \notin Queued
      BY DEF PoolInv, Once
    <3>2. None \notin Document
      BY PoolAssumption DEF None
    <3>3. \A v \in Pool : v \in Busy' /\ v # w =>
              worker'[v] = worker[v] /\ v \in Busy /\ worker[v].doc # head
      BY <1>6, <1>9, <1>14, <3>1, <3>2
    <3>4. \A v \in Pool : v \in Busy' /\ v = w => worker'[v].doc = head
      BY <1>4, <1>6, <1>9
    <3>5. \A u, v \in Busy : worker[u].doc = worker[v].doc => u = v
      BY DEF PoolInv, Once
    <3>6. \A v \in Busy' : v \in Pool
      BY DEF Busy
    <3>7. QED
      BY <3>3, <3>4, <3>5, <3>6
  <2>5. \A r \in results : r.tdoc_id \notin Queued' /\ \A v \in Busy' : worker'[v].doc # r.tdoc_id
    <3>1. \A r \in results : r.tdoc_id \in Document
      BY <1>1 DEF TypeOK, Outcome
    <3>2. QED
      BY <1>4, <1>6, <1>9, <1>13, <1>14, <3>1 DEF PoolInv, Once, Busy
  <2>6. \A r, s \in results' : r.tdoc_id = s.tdoc_id => r = s
    BY <1>1 DEF PoolInv, Once
  <2>7. QED
    BY <1>1, <2>1, <2>2, <2>3, <2>4, <2>5, <2>6 DEF Once
<1>16. Unsettled'
  BY <1>1, <1>4, <1>6, <1>13, <1>14 DEF PoolInv, Unsettled
<1>17. Telling' /\ Over' /\ ParsedHasBody'
  BY <1>1, <1>4, <1>6 DEF PoolInv, Telling, Over, ParsedHasBody
<1>18. Kept'
  <2> SUFFICES ASSUME NEW d \in pending
               PROVE  \/ d \in Queued'
                      \/ \E v \in Busy' : worker'[v].doc = d
                      \/ \E v \in Pool : worker'[v].phase = "raised"
                      \/ \E r \in results : r.tdoc_id = d
    BY <1>1 DEF Kept
  <2>1. d \in Document /\ d # None
    BY <1>1, PoolAssumption DEF TypeOK, None
  <2>2. CASE d \in Queued
    <3>1. CASE d = head
      BY <1>4, <1>6, <1>9, <2>1, <3>1
    <3>2. CASE d # head
      <4>1. PICK i \in 1..Len(queue) : queue[i] = d
        BY <2>2 DEF Queued
      <4>2. i - 1 \in 1..Len(queue')
        BY <1>2, <3>2, <4>1 DEF head
      <4>3. queue'[i - 1] = d
        BY <1>2, <4>1, <4>2
      <4>4. QED
        BY <4>2, <4>3 DEF Queued
    <3>3. QED
      BY <3>1, <3>2
  <2>3. CASE \E v \in Busy : worker[v].doc = d
    BY <1>6, <1>7, <1>9, <2>3 DEF Busy
  <2>4. CASE \E v \in Pool : worker[v].phase = "raised"
    BY <1>1, <1>6, <2>4
  <2>5. QED
    BY <1>1, <2>2, <2>3, <2>4 DEF PoolInv, Kept
<1>19. QED
  BY <1>10, <1>11, <1>12, <1>15, <1>16, <1>17, <1>18 DEF PoolInv

\* A worker goes on with its document, of which the table may say something new.
LEMMA OnwardInv ==
  ASSUME PoolInv, NEW w \in Pool, run = "joining", w \in Busy,
         NEW call \in Call, worker' = [worker EXCEPT ![w] = call],
         call.phase \in {"recording", "reporting"}, call.doc = worker[w].doc,
         NEW status \in Status \cup {"none"},
         table' = [table EXCEPT ![worker[w].doc] = status],
         body' \in SUBSET Document, body \subseteq body',
         status = "parsed" => worker[w].doc \in body',
         call.phase = "recording" => call.status \in Status \ {"parsed"},
         call.phase = "reporting" => call.status \in Status /\ call.status = status,
         UNCHANGED <<run, runs, pending, queue, unfinished, results>>
  PROVE  PoolInv'
<1> DEFINE d == worker[w].doc
<1>1. /\ TypeOK /\ worker \in [Pool -> Call]
      /\ \A v \in Pool : worker'[v] = IF v = w THEN call ELSE worker[v]
  BY DEF PoolInv, TypeOK
<1>2. /\ d \in Document /\ d \notin Queued
      /\ \A v \in Busy : v # w => worker[v].doc # d
      /\ \A r \in results : r.tdoc_id # d
  BY DEF PoolInv, Once
<1>3. \A x \in Document : table'[x] = IF x = d THEN status ELSE table[x]
  BY <1>1, <1>2 DEF TypeOK
<1>4. Busy' = Busy
  BY <1>1 DEF Busy
<1>5. Live' = Live
  BY <1>1 DEF Live, Busy
<1>6. TypeOK'
  BY <1>1, <1>2 DEF TypeOK
<1>7. Counted' /\ Marked'
  BY <1>4, <1>5 DEF PoolInv, Counted, Marked
<1>8. Once'
  BY <1>1, <1>4 DEF PoolInv, Once, Queued
<1>9. Unsettled'
  <2>1. \A x \in Document : x \in Queued => table'[x] \notin Settled
    BY <1>2, <1>3 DEF PoolInv, Unsettled
  <2>2. ASSUME NEW v \in Pool, worker'[v].phase = "ingesting"
        PROVE  table'[worker'[v].doc] \notin Settled
    <3>1. v # w /\ worker'[v] = worker[v] /\ v \in Busy
      BY <1>1, <2>2 DEF Busy
    <3>2. worker[v].doc \in Document /\ worker[v].doc # d
      BY <1>2, <3>1 DEF PoolInv, Once
    <3>3. QED
      BY <1>3, <2>2, <3>1, <3>2 DEF PoolInv, Unsettled
  <2>3. QED
    BY <2>1, <2>2 DEF Unsettled, Queued
<1>10. Telling'
  <2>1. \A v \in Pool : worker'[v].phase = "recording" =>
            worker'[v].status \in Status \ {"parsed"}
    BY <1>1 DEF PoolInv, Telling
  <2>2. ASSUME NEW v \in Pool, worker'[v].phase = "reporting"
        PROVE  worker'[v].status \in Status /\ worker'[v].status = table'[worker'[v].doc]
    <3>1. CASE v = w
      BY <1>1, <1>2, <1>3, <2>2, <3>1
    <3>2. CASE v # w
      <4>1. worker'[v] = worker[v] /\ v \in Busy
        BY <1>1, <2>2, <3>2 DEF Busy
      <4>2. worker[v].doc \in Document /\ worker[v].doc # d
        BY <1>2, <3>2, <4>1 DEF PoolInv, Once
      <4>3. QED
        BY <1>3, <2>2, <4>1, <4>2 DEF PoolInv, Telling
    <3>3. QED
      BY <3>1, <3>2
  <2>3. \A r \in results : r.tdoc_id \in Document
    BY <1>1 DEF TypeOK, Outcome
  <2>4. \A r \in results : r.status = table'[r.tdoc_id]
    BY <1>2, <1>3, <2>3 DEF PoolInv, Telling
  <2>5. QED
    BY <2>1, <2>2, <2>4 DEF Telling
<1>11. Kept'
  BY <1>1, <1>4 DEF PoolInv, Kept, Queued, Busy
<1>12. Over'
  BY DEF Over
<1>13. ParsedHasBody'
  BY <1>3 DEF PoolInv, ParsedHasBody
<1>14. QED
  BY <1>6, <1>7, <1>8, <1>9, <1>10, <1>11, <1>12, <1>13 DEF PoolInv

\* The document is stored, whatever the worker is told.
LEMMA StoreInv ==
  ASSUME PoolInv, NEW w \in Pool, Store(w)
  PROVE  PoolInv'
<1> DEFINE d == worker[w].doc
<1>1. /\ worker \in [Pool -> Call] /\ run = "joining" /\ w \in Busy /\ d \in Document
      /\ body \in SUBSET Document
  BY DEF PoolInv, TypeOK, Once, Store, At, Busy
<1>2. /\ table' = [table EXCEPT ![d] = "parsed"] /\ body' = body \cup {d}
      /\ UNCHANGED <<run, runs, pending, queue, unfinished, results>>
  BY DEF Store, Then, memory
<1>3. PICK call \in {[worker[w] EXCEPT !.phase = "reporting", !.status = "parsed"],
                     [worker[w] EXCEPT !.phase = "recording", !.status = "failed"]} :
          worker' = [worker EXCEPT ![w] = call]
  BY <1>1 DEF Store, Then
<1>4. /\ call \in Call /\ call.doc = d
      /\ \/ call.phase = "reporting" /\ call.status = "parsed"
         \/ call.phase = "recording" /\ call.status = "failed"
  BY <1>1 DEF Call, Phase, Status, Settled
<1>5. QED
  BY <1>1, <1>2, <1>3, <1>4, OnwardInv DEF Status, Settled

\* It raises before it stores anything.
LEMMA RejectInv ==
  ASSUME PoolInv, NEW w \in Pool, Reject(w)
  PROVE  PoolInv'
<1> DEFINE d == worker[w].doc
<1>1. /\ worker \in [Pool -> Call] /\ run = "joining" /\ w \in Busy /\ d \in Document
      /\ table \in [Document -> Status \cup {"none"}] /\ body \in SUBSET Document
      /\ table[d] = "parsed" => d \in body
  BY DEF PoolInv, TypeOK, Once, ParsedHasBody, Reject, At, Busy
<1>2. /\ table' = [table EXCEPT ![d] = table[d]] /\ body' = body
      /\ UNCHANGED <<run, runs, pending, queue, unfinished, results>>
  BY <1>1 DEF Reject, Then, memory
<1>3. PICK status \in Status \ {"parsed"} :
          worker' = [worker EXCEPT ![w] =
                        [worker[w] EXCEPT !.phase = "recording", !.status = status]]
  BY <1>1 DEF Reject, Then
<1> DEFINE call == [worker[w] EXCEPT !.phase = "recording", !.status = status]
<1>4. call \in Call /\ call.doc = d /\ call.phase = "recording" /\ call.status = status
  BY <1>1 DEF Call, Phase, Status, Settled
<1>5. worker' = [worker EXCEPT ![w] = call] /\ table[d] \in Status \cup {"none"}
  BY <1>1, <1>3
<1> HIDE DEF call
<1>6. QED
  BY <1>1, <1>2, <1>4, <1>5, OnwardInv

\* The failure is recorded.
LEMMA RecordInv ==
  ASSUME PoolInv, NEW w \in Pool, Record(w)
  PROVE  PoolInv'
<1> DEFINE d == worker[w].doc
           status == worker[w].status
           call == [worker[w] EXCEPT !.phase = "reporting", !.status = status]
<1>1. /\ worker \in [Pool -> Call] /\ run = "joining" /\ w \in Busy /\ d \in Document
      /\ body \in SUBSET Document /\ status \in Status \ {"parsed"}
  BY DEF PoolInv, TypeOK, Once, Telling, Record, At, Busy
<1>2. /\ table' = [table EXCEPT ![d] = status] /\ body' = body
      /\ worker' = [worker EXCEPT ![w] = call]
      /\ UNCHANGED <<run, runs, pending, queue, unfinished, results>>
  BY <1>1 DEF Record, Then, memory
<1>3. call \in Call /\ call.doc = d /\ call.phase = "reporting" /\ call.status = status
  BY <1>1 DEF Call, Phase, Status, Settled
<1> HIDE DEF call
<1>4. QED
  BY <1>1, <1>2, <1>3, OnwardInv

\* Recording the failure fails: the worker is lost and its task counted as done.
LEMMA RecordRaisesInv ==
  ASSUME PoolInv, NEW w \in Pool, RecordRaises(w)
  PROVE  PoolInv'
<1> DEFINE call == Calling("raised")
<1>1. /\ TypeOK /\ worker \in [Pool -> Call] /\ run = "joining" /\ w \in Busy /\ w \in Live
      /\ UNCHANGED <<table, body, run, runs, pending, queue, results>>
      /\ worker' = [worker EXCEPT ![w] = call] /\ unfinished' = unfinished - 1
  BY DEF PoolInv, TypeOK, RecordRaises, At, Busy, Live, memory, TaskDone
<1>2. call \in Call /\ call.phase = "raised" /\ call.doc = None
  BY DEF Calling, Call, Phase
<1>3. /\ ~(call.phase \in {"ingesting", "recording", "reporting"})
      /\ call.phase # "done"
  BY <1>2
<1> HIDE DEF call
<1>4. \A v \in Pool : worker'[v] = IF v = w THEN call ELSE worker[v]
  BY <1>1
<1>5. /\ Cardinality(Busy) \in Nat /\ Cardinality(Live) \in Nat
      /\ Cardinality(Busy') = Cardinality(Busy) - 1
      /\ Cardinality(Live') = Cardinality(Live)
  <2>1. /\ Cardinality(Busy) \in Nat /\ Cardinality(Live) \in Nat
        /\ Cardinality(Busy') = Cardinality(Busy)
                + (IF call.phase \in {"ingesting", "recording", "reporting"} THEN 1 ELSE 0)
                - (IF w \in Busy THEN 1 ELSE 0)
        /\ Cardinality(Live') = Cardinality(Live)
                + (IF call.phase # "done" THEN 1 ELSE 0) - (IF w \in Live THEN 1 ELSE 0)
    BY <1>1, Counts
  <2>2. QED
    BY <1>1, <1>3, <2>1
<1>6. \A v \in Pool : v \in Busy' <=> v # w /\ v \in Busy
  BY <1>3, <1>4 DEF Busy
<1>7. Len(queue) \in Nat
  BY <1>1 DEF TypeOK
<1>8. Counted' /\ Marked'
  BY <1>1, <1>5, <1>7 DEF PoolInv, Counted, Marked
<1>9. TypeOK'
  <2>1. Cardinality(Busy) >= 1 /\ unfinished' \in Nat
    <3>1. IsFiniteSet(Busy) /\ Cardinality(Busy \ {w}) = Cardinality(Busy) - 1
          /\ Cardinality(Busy \ {w}) \in Nat
      BY <1>1, PoolAssumption, FS_Subset, FS_RemoveElement, FS_CardinalityType DEF Busy
    <3>2. QED
      BY <1>1, <1>5, <1>7, <3>1 DEF PoolInv, Counted
  <2>2. worker' \in [Pool -> Call]
    BY <1>1, <1>2
  <2>3. QED
    BY <1>1, <2>1, <2>2 DEF TypeOK
<1>10. Once'
  BY <1>1, <1>2, <1>4, <1>6 DEF PoolInv, Once, Queued, Busy
<1>11. Unsettled' /\ Telling'
  BY <1>1, <1>2, <1>4 DEF PoolInv, Unsettled, Telling, Queued
<1>12. Kept'
  BY <1>1, <1>2, <1>4 DEF Kept
<1>13. Over' /\ ParsedHasBody'
  BY <1>1 DEF PoolInv, Over, ParsedHasBody
<1>14. QED
  BY <1>8, <1>9, <1>10, <1>11, <1>12, <1>13 DEF PoolInv

\* The worker reports its document and goes back to the queue.
LEMMA ReportInv ==
  ASSUME PoolInv, NEW w \in Pool, Report(w)
  PROVE  PoolInv'
<1> DEFINE call == Calling("waiting")
           new == [tdoc_id |-> worker[w].doc, status |-> worker[w].status]
<1>1. /\ TypeOK /\ worker \in [Pool -> Call] /\ run = "joining" /\ w \in Busy /\ w \in Live
      /\ worker[w].phase = "reporting" /\ worker[w].doc \in Document
      /\ UNCHANGED <<table, body, run, runs, pending, queue>>
      /\ worker' = [worker EXCEPT ![w] = call] /\ unfinished' = unfinished - 1
      /\ results' = results \cup {new}
  BY DEF PoolInv, TypeOK, Once, Report, At, Busy, Live, memory, TaskDone
<1>2. call \in Call /\ call.phase = "waiting" /\ call.doc = None
  BY DEF Calling, Call, Phase
<1>3. /\ ~(call.phase \in {"ingesting", "recording", "reporting"})
      /\ call.phase # "done"
  BY <1>2
<1>4. /\ new.tdoc_id = worker[w].doc /\ new.status = worker[w].status
      /\ worker[w].status = table[worker[w].doc] /\ worker[w].status \in Status
      /\ new.tdoc_id \notin Queued
      /\ \A v \in Busy : v # w => worker[v].doc # new.tdoc_id
      /\ \A r \in results : r.tdoc_id # new.tdoc_id
  BY <1>1 DEF PoolInv, Telling, Once, Call
<1>5. new \in Outcome
  BY <1>1, <1>4 DEF Outcome
<1> HIDE DEF call, new
<1>6. \A v \in Pool : worker'[v] = IF v = w THEN call ELSE worker[v]
  BY <1>1
<1>7. /\ Cardinality(Busy) \in Nat /\ Cardinality(Live) \in Nat
      /\ Cardinality(Busy') = Cardinality(Busy) - 1
      /\ Cardinality(Live') = Cardinality(Live)
  <2>1. /\ Cardinality(Busy) \in Nat /\ Cardinality(Live) \in Nat
        /\ Cardinality(Busy') = Cardinality(Busy)
                + (IF call.phase \in {"ingesting", "recording", "reporting"} THEN 1 ELSE 0)
                - (IF w \in Busy THEN 1 ELSE 0)
        /\ Cardinality(Live') = Cardinality(Live)
                + (IF call.phase # "done" THEN 1 ELSE 0) - (IF w \in Live THEN 1 ELSE 0)
    BY <1>1, Counts
  <2>2. QED
    BY <1>1, <1>3, <2>1
<1>8. \A v \in Pool : v \in Busy' <=> v # w /\ v \in Busy
  BY <1>3, <1>6 DEF Busy
<1>9. Len(queue) \in Nat
  BY <1>1 DEF TypeOK
<1>10. Counted' /\ Marked'
  BY <1>1, <1>7, <1>9 DEF PoolInv, Counted, Marked
<1>11. TypeOK'
  <2>1. unfinished' \in Nat
    <3>1. IsFiniteSet(Busy) /\ Cardinality(Busy \ {w}) = Cardinality(Busy) - 1
          /\ Cardinality(Busy \ {w}) \in Nat
      BY <1>1, PoolAssumption, FS_Subset, FS_RemoveElement, FS_CardinalityType DEF Busy
    <3>2. QED
      BY <1>1, <1>7, <1>9, <3>1 DEF PoolInv, Counted
  <2>2. worker' \in [Pool -> Call]
    BY <1>1, <1>2
  <2>3. results' \in SUBSET Outcome
    BY <1>1, <1>5 DEF TypeOK
  <2>4. QED
    BY <1>1, <2>1, <2>2, <2>3 DEF TypeOK
<1>12. Once'
  <2>1. \A v \in Busy' : v # w /\ v \in Busy /\ worker'[v] = worker[v] /\ v \in Pool
    BY <1>6, <1>8 DEF Busy
  <2>2. \A v \in Pool \ Busy' : worker'[v].doc = None
    BY <1>2, <1>6, <1>8 DEF PoolInv, Once
  <2>3. \A r \in results' : r.tdoc_id \notin Queued
            /\ \A v \in Busy' : worker'[v].doc # r.tdoc_id
    BY <1>1, <1>4, <2>1 DEF PoolInv, Once
  <2>4. \A r, s \in results' : r.tdoc_id = s.tdoc_id => r = s
    BY <1>1, <1>4 DEF PoolInv, Once
  <2>5. Queued' = Queued
    BY <1>1 DEF Queued
  <2>6. \A v \in Busy' : worker'[v].doc \in Document /\ worker'[v].doc \notin Queued
    BY <2>1 DEF PoolInv, Once
  <2>7. \A u, v \in Busy' : worker'[u].doc = worker'[v].doc => u = v
    BY <2>1 DEF PoolInv, Once
  <2>8. \A i, j \in 1..Len(queue') : queue'[i] = queue'[j] /\ queue'[i] # None => i = j
    BY <1>1 DEF PoolInv, Once
  <2>9. QED
    BY <2>2, <2>3, <2>4, <2>5, <2>6, <2>7, <2>8 DEF Once
<1>13. Unsettled'
  BY <1>1, <1>2, <1>6 DEF PoolInv, Unsettled, Queued
<1>14. Telling'
  <2>1. \A r \in results' : r.status = table[r.tdoc_id]
    BY <1>1, <1>4 DEF PoolInv, Telling
  <2>2. QED
    BY <1>1, <1>2, <1>6, <2>1 DEF PoolInv, Telling
<1>15. Kept'
  <2> SUFFICES ASSUME NEW d \in pending
               PROVE  \/ d \in Queued
                      \/ \E v \in Busy' : worker'[v].doc = d
                      \/ \E v \in Pool : worker'[v].phase = "raised"
                      \/ \E r \in results' : r.tdoc_id = d
    BY <1>1 DEF Kept, Queued
  <2>1. CASE \E v \in Busy : worker[v].doc = d
    BY <1>1, <1>4, <1>6, <1>8, <2>1 DEF Busy
  <2>2. CASE \E v \in Pool : worker[v].phase = "raised"
    BY <1>1, <1>6, <2>2
  <2>3. QED
    BY <1>1, <2>1, <2>2 DEF PoolInv, Kept
<1>16. Over' /\ ParsedHasBody'
  BY <1>1 DEF PoolInv, Over, ParsedHasBody
<1>17. QED
  BY <1>10, <1>11, <1>12, <1>13, <1>14, <1>15, <1>16 DEF PoolInv

\* With no task left the queue is empty, so that no end marker is, and with it
\* no live worker.
LEMMA ReturnInv ==
  ASSUME PoolInv, Return
  PROVE  PoolInv'
<1>1. /\ TypeOK /\ run = "joining" /\ run' = "returned" /\ unfinished = 0
      /\ UNCHANGED <<table, body, runs, pending, queue, unfinished, worker, results>>
  BY DEF PoolInv, Return, memory
<1>2. IsFiniteSet(Busy) /\ IsFiniteSet(Live)
  BY PoolAssumption, FS_Subset DEF Busy, Live
<1>3. Len(queue) \in Nat /\ Cardinality(Busy) \in Nat /\ Cardinality(Live) \in Nat
  BY <1>1, <1>2, FS_CardinalityType DEF TypeOK
<1>4. Len(queue) = 0 /\ Cardinality(Live) = 0
  BY <1>1, <1>3 DEF PoolInv, Counted, Marked
<1>5. queue = <<>> /\ Live = {}
  BY <1>1, <1>2, <1>4, FS_EmptySet, EmptySeq DEF TypeOK
<1>6. Over'
  BY <1>1, <1>5 DEF Over, Live
<1>7. TypeOK'
  BY <1>1 DEF TypeOK
<1>8. Kept'
  BY <1>1 DEF PoolInv, Kept, Queued, Busy
<1>9. Counted' /\ Marked' /\ Once' /\ Unsettled' /\ Telling' /\ ParsedHasBody'
  BY <1>1 DEF PoolInv, Counted, Marked, Once, Unsettled, Telling, ParsedHasBody, Queued, Busy, Live
<1>10. QED
  BY <1>6, <1>7, <1>8, <1>9 DEF PoolInv

\* A killed run leaves the tables and nothing else.
LEMMA KillInv ==
  ASSUME PoolInv, Kill
  PROVE  PoolInv'
<1>1. /\ TypeOK /\ run' = "stopped" /\ pending' = {} /\ queue' = <<>> /\ unfinished' = 0
      /\ results' = {} /\ UNCHANGED <<table, body, runs>>
      /\ worker' = [w \in Pool |-> Calling("off")]
  BY DEF PoolInv, Kill
<1>2. Calling("off") \in Call /\ Calling("off").phase = "off" /\ Calling("off").doc = None
  BY DEF Calling, Call, Phase
<1> HIDE DEF Calling
<1>3. \A w \in Pool : worker'[w] = Calling("off")
  BY <1>1
<1>4. Busy' = {} /\ Cardinality(Busy') = 0
  BY <1>2, <1>3, FS_EmptySet DEF Busy
<1>5. TypeOK'
  BY <1>1, <1>2 DEF TypeOK
<1>6. Counted' /\ Marked'
  BY <1>1, <1>4 DEF Counted, Marked
<1>7. Once' /\ Unsettled'
  BY <1>1, <1>2, <1>3, <1>4 DEF Once, Unsettled, Queued
<1>8. Telling' /\ Kept' /\ Over'
  BY <1>1, <1>2, <1>3 DEF Telling, Kept, Over
<1>9. ParsedHasBody'
  BY <1>1 DEF PoolInv, ParsedHasBody
<1>10. QED
  BY <1>5, <1>6, <1>7, <1>8, <1>9 DEF PoolInv

\* Every step keeps the invariant.
LEMMA PoolNext == PoolInv /\ [Next]_vars => PoolInv'
<1> SUFFICES ASSUME PoolInv, [Next]_vars PROVE PoolInv'
  OBVIOUS
<1>1. CASE StartRun
  BY <1>1, StartInv
<1>2. CASE Return
  BY <1>2, ReturnInv
<1>3. CASE Kill
  BY <1>3, KillInv
<1>4. ASSUME NEW w \in Pool, Work(w) PROVE PoolInv'
  BY <1>4, TakeInv, StoreInv, RejectInv, RecordInv, RecordRaisesInv, ReportInv DEF Work
<1>5. CASE UNCHANGED vars
  <2>1. TypeOK' /\ Kept'
    BY <1>5 DEF PoolInv, TypeOK, Kept, Queued, Busy, vars
  <2>2. Counted' /\ Marked' /\ Once' /\ Unsettled' /\ Telling' /\ Over' /\ ParsedHasBody'
    BY <1>5 DEF PoolInv, Counted, Marked, Once, Unsettled, Telling, Over, ParsedHasBody,
                Queued, Busy, Live, vars
  <2>3. QED
    BY <2>1, <2>2 DEF PoolInv
<1>6. QED
  BY <1>1, <1>2, <1>3, <1>4, <1>5 DEF Next

\* The invariant holds throughout.
THEOREM PoolInvariant == Spec => []PoolInv
<1>1. QED
  BY PoolInit, PoolNext, PTL DEF Spec

-----------------------------------------------------------------------------
(* What follows from it.                                                    *)

\* Queue, counter, workers and results are what they are taken for; above all
\* task_done is never called more often than put.
THEOREM PoolTypeCorrect == Spec => []TypeOK
<1>1. PoolInv => TypeOK
  BY DEF PoolInv
<1>2. QED
  BY <1>1, PoolInvariant, PTL

\* What the table calls parsed has its body, whatever was killed or failed.
THEOREM ParsedAlwaysHasBody == Spec => []ParsedHasBody
<1>1. PoolInv => ParsedHasBody
  BY DEF PoolInv
<1>2. QED
  BY <1>1, PoolInvariant, PTL

\* A document is worked on once per run.
THEOREM WorkedOnOnce == Spec => []OncePerRun
<1>1. ASSUME PoolInv PROVE OncePerRun
  <2>1. \A w \in Pool : worker[w].doc # None => w \in Busy
    BY <1>1 DEF PoolInv, Once
  <2>2. \A r \in results : r.tdoc_id # None
    BY <1>1, PoolAssumption DEF PoolInv, TypeOK, Outcome, None
  <2>3. \A r, s \in results : r.tdoc_id = s.tdoc_id => r = s
    BY <1>1 DEF PoolInv, Once
  <2>4. \A v, w \in Pool : worker[v].doc = worker[w].doc /\ worker[v].doc # None => v = w
    BY <1>1, <2>1 DEF PoolInv, Once
  <2>5. \A w \in Pool, r \in results : worker[w].doc # r.tdoc_id
    BY <1>1, <2>1, <2>2 DEF PoolInv, Once
  <2>6. QED
    BY <2>3, <2>4, <2>5 DEF OncePerRun
<1>2. QED
  BY <1>1, PoolInvariant, PTL

\* A run that returned accounts for every pending document with what the table
\* says of it.
THEOREM ReturnedIsComplete == Spec => []ReturnIsComplete
<1>1. ASSUME PoolInv, run = "returned", NEW d \in pending
      PROVE  [tdoc_id |-> d, status |-> table[d]] \in results
  <2>1. queue = <<>> /\ Live = {}
    BY <1>1 DEF PoolInv, Over
  <2>2. Queued = {} /\ \A w \in Pool : worker[w].phase = "done"
    BY <2>1 DEF Queued, Live
  <2>3. PICK r \in results : r.tdoc_id = d
    BY <1>1, <2>2 DEF PoolInv, Kept, Busy
  <2>4. r \in Outcome /\ r.status = table[d]
    BY <1>1, <2>3 DEF PoolInv, TypeOK, Telling
  <2>5. r = [tdoc_id |-> d, status |-> table[d]]
    BY <2>3, <2>4 DEF Outcome
  <2>6. QED
    BY <2>5
<1>2. PoolInv => ReturnIsComplete
  BY <1>1 DEF ReturnIsComplete
<1>3. QED
  BY <1>2, PoolInvariant, PTL

\* A settled document stays as it is but for the call that stored it and was
\* told that it failed.
THEOREM SettledForGood == Spec => SettledStays
<1>1. ASSUME PoolInv, [Next]_vars, NEW d \in Document,
             table[d] \in Settled, table'[d] # table[d]
      PROVE  \E w \in Pool : worker[w].doc = d /\ worker[w].phase = "recording"
  <2>1. table \in [Document -> Status \cup {"none"}]
    BY <1>1 DEF PoolInv, TypeOK
  <2>2. PICK w \in Pool : Store(w) \/ Record(w)
    BY <1>1 DEF Next, Work, StartRun, Return, Kill, Take, Reject, RecordRaises, Report, vars
  <2>3. worker[w].doc = d
    BY <1>1, <2>1, <2>2 DEF Store, Record
  <2>4. CASE Store(w)
    BY <1>1, <2>3, <2>4 DEF PoolInv, Unsettled, Store, At
  <2>5. CASE Record(w)
    BY <2>3, <2>5 DEF Record, At
  <2>6. QED
    BY <2>2, <2>4, <2>5
<1>2. PoolInv /\ [Next]_vars =>
        [\A d \in Document :
           table[d] \in Settled /\ table'[d] # table[d] =>
              \E w \in Pool : worker[w].doc = d /\ worker[w].phase = "recording"]_vars
  BY <1>1
<1>3. QED
  BY <1>2, PoolInvariant, PTL DEF Spec, SettledStays
=============================================================================
