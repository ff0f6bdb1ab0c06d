---------------------------- MODULE MirrorProofs ----------------------------
(***************************************************************************)
(* Proofs about Mirror for any artifacts, workers, retries and size of     *)
(* checkpoints, with kills, broken writes and checkpoints that fail: what  *)
(* the manifest file calls downloaded stays downloaded, and its object is  *)
(* stored whole unless a write of it broke off; what a kill makes the      *)
(* mirror forget is bounded; and a run that returns settled everything     *)
(* that was listed to it.                                                  *)
(*                                                                         *)
(* The first two rest on MirrorInv, which follows each artifact; the       *)
(* others on CountingInv, which counts them, and on MirrorInv.             *)
(***************************************************************************)
EXTENDS Mirror, FiniteSetTheorems, SequenceTheorems, TLAPS

\* The types, but for the counters, whose ranges are a matter of counting.
Typing ==
    /\ StoreTypeOK
    /\ saved \in [Url -> Entry]
    /\ entries \in [Url -> Entry]
    /\ pending \subseteq Url
    /\ queue \in Seq(Url \cup {None})
    /\ worker \in [Worker -> Task]

\* Phases in which a worker has an artifact whose entry it has yet to record.
Busy(w) == worker[w].phase \in {"requesting", "storing", "recording"}

\* An artifact is in the queue once, or one worker has it.
Once ==
    /\ \A i, j \in 1..Len(queue) : queue[i] = queue[j] /\ queue[i] # None => i = j
    /\ \A w \in Worker : Busy(w) =>
            worker[w].url \in Url /\ \A i \in 1..Len(queue) : queue[i] # worker[w].url
    /\ \A v, w \in Worker : Busy(v) /\ Busy(w) /\ worker[v].url = worker[w].url => v = w

\* What is queued or at work is not called downloaded, ...
Fresh ==
    /\ \A i \in 1..Len(queue) : queue[i] # None => entries[queue[i]] # "downloaded"
    /\ \A w \in Worker : Busy(w) => entries[worker[w].url] # "downloaded"

\* ... memory is never behind the file, ...
Kept == \A u \in Url : saved[u] = "downloaded" => entries[u] = "downloaded"

\* ... what is called downloaded has an object of some kind, ...
Present ==
    /\ \A u \in Url : entries[u] = "downloaded" => Exists(ObjectOf[u])
    /\ \A w \in Worker : worker[w].phase = "recording" /\ worker[w].status = "downloaded" =>
            Exists(ObjectOf[worker[w].url])

\* ... and a worker writes the object of its own artifact or none.
Writing ==
    \A w \in Worker :
        IF worker[w].phase = "storing"
        THEN put[w] # NoPut /\ put[w].key = ObjectOf[worker[w].url]
        ELSE put[w] = NoPut

\* Nobody works between two runs.
Resting == run # "joining" => \A w \in Worker : worker[w].phase \in {"off", "done", "raised"}

MirrorInv ==
    /\ Typing /\ Once /\ Fresh /\ Kept /\ Present /\ Writing /\ Resting
    /\ OnlyTornPartial

-----------------------------------------------------------------------------
(* The queue.                                                               *)

\* The queue of a run holds each of the artifacts once, in some order, and
\* then an end marker for every worker.
LEMMA QueueOfOrder ==
  ASSUME NEW S \in SUBSET Url
  PROVE  LET n == Cardinality(Worker)
             k == Cardinality(S)
         IN  /\ n \in Nat /\ k \in Nat
             /\ QueueOf(S) \in Seq(Url \cup {None}) /\ Len(QueueOf(S)) = k + n
             /\ \A i \in 1..(k + n) : IF i <= k THEN QueueOf(S)[i] \in S ELSE QueueOf(S)[i] = None
             /\ \A i, j \in 1..k : QueueOf(S)[i] = QueueOf(S)[j] => i = j
             /\ \A u \in S : \E i \in 1..k : QueueOf(S)[i] = u
<1> DEFINE n == Cardinality(Worker)
           k == Cardinality(S)
           urls == Order[S]
           ends == [i \in 1..n |-> None]
<1>1. IsFiniteSet(S)
  BY FS_Subset, MirrorAssumption
<1>2. n \in Nat /\ k \in Nat
  BY <1>1, FS_CardinalityType, MirrorAssumption
<1>3. /\ urls \in Seq(Url) /\ Range(urls) = S /\ DOMAIN urls = 1..Len(urls) /\ Len(urls) \in Nat
      /\ \A i, j \in 1..Len(urls) : urls[i] = urls[j] => i = j
  BY MirrorAssumption DEF IsInjective
<1>4. /\ \A i \in 1..Len(urls) : urls[i] \in S
      /\ \A u \in S : \E i \in 1..Len(urls) : urls[i] = u
  BY <1>3 DEF Range
<1>5. Len(urls) = k
  <2>1. urls \in Injection(1..Len(urls), S)
    <3>1. urls \in [1..Len(urls) -> S]
      BY <1>3, <1>4
    <3>2. QED
      BY <1>3, <3>1 DEF Injection, IsInjective
  <2>2. urls \in Surjection(1..Len(urls), S)
    BY <1>4, <2>1 DEF Surjection, Injection
  <2>3. Cardinality(1..Len(urls)) = Len(urls)
    BY <1>3, FS_Interval
  <2>4. QED
    BY <1>1, <2>1, <2>2, <2>3, FS_Injection
<1>6. ends \in Seq(Url \cup {None}) /\ Len(ends) = n /\ \A i \in 1..n : ends[i] = None
  BY <1>2
<1>7. QueueOf(S) = urls \o ends
  BY DEF QueueOf
<1>8. urls \in Seq(Url \cup {None})
  BY <1>3
<1> HIDE DEF n, k, urls, ends
<1>9. /\ urls \o ends \in Seq(Url \cup {None})
      /\ Len(urls \o ends) = Len(urls) + Len(ends)
      /\ \A i \in 1..(Len(urls) + Len(ends)) :
            (urls \o ends)[i] = IF i <= Len(urls) THEN urls[i] ELSE ends[i - Len(urls)]
  BY <1>6, <1>8, ConcatProperties
<1>10. /\ QueueOf(S) \in Seq(Url \cup {None}) /\ Len(QueueOf(S)) = k + n
       /\ \A i \in 1..(k + n) : QueueOf(S)[i] = IF i <= k THEN urls[i] ELSE None
  <2>1. \A i \in 1..(k + n) : ~(i <= k) => i - k \in 1..n
    BY <1>2
  <2>2. QED
    BY <1>5, <1>6, <1>7, <1>9, <2>1
<1>11. QED
  BY <1>2, <1>3, <1>4, <1>5, <1>10 DEF n, k

\* So no artifact is queued twice.
LEMMA QueueOfSet ==
  ASSUME NEW S \in SUBSET Url
  PROVE  /\ QueueOf(S) \in Seq(Url \cup {None})
         /\ \A i \in 1..Len(QueueOf(S)) : QueueOf(S)[i] \in S \cup {None}
         /\ \A i, j \in 1..Len(QueueOf(S)) :
                QueueOf(S)[i] = QueueOf(S)[j] /\ QueueOf(S)[i] # None => i = j
<1>1. /\ Cardinality(S) \in Nat /\ Cardinality(Worker) \in Nat
      /\ QueueOf(S) \in Seq(Url \cup {None})
      /\ Len(QueueOf(S)) = Cardinality(S) + Cardinality(Worker)
      /\ \A i \in 1..(Cardinality(S) + Cardinality(Worker)) :
            IF i <= Cardinality(S) THEN QueueOf(S)[i] \in S ELSE QueueOf(S)[i] = None
      /\ \A i, j \in 1..Cardinality(S) : QueueOf(S)[i] = QueueOf(S)[j] => i = j
  BY QueueOfOrder
<1>2. QED
  BY <1>1

\* Taking the head of the queue shifts the rest.
LEMMA TakeHead ==
  ASSUME Typing, queue # <<>>
  PROVE  /\ Head(queue) = queue[1] /\ 1 \in 1..Len(queue)
         /\ Tail(queue) \in Seq(Url \cup {None})
         /\ \A i \in 1..Len(Tail(queue)) :
                i + 1 \in 1..Len(queue) /\ Tail(queue)[i] = queue[i + 1]
BY HeadTailProperties DEF Typing

-----------------------------------------------------------------------------
(* The store.                                                               *)

StoreInv == StoreTypeOK /\ OnlyTornPartial

\* The client of an operation has nothing else under way when it begins one.
StoreStep(c) ==
    \/ \E k \in Object : PutExisting(k) \/ (put[c] = NoPut /\ PutSchedule(c, k))
    \/ PutOpen(c) \/ PutComplete(c) \/ PutFail(c)

\* Whatever becomes of a write, an object that is there does not go, ...
LEMMA StoreKeeps ==
  ASSUME NEW c \in Client, StoreTypeOK, StoreStep(c)
  PROVE  \A k \in Object : Exists(k) => Exists(k)'
BY DEF StoreStep, StoreTypeOK, PutExisting, PutSchedule, PutOpen, PutComplete, PutFail,
       Exists, storeVars

\* ... and one in part is being written, or some write of it broke off.
LEMMA StoreStepInv ==
  ASSUME NEW c \in Client, StoreInv, StoreStep(c)
  PROVE  StoreInv'
<1> USE ObjectAssumption DEF StoreInv, StoreTypeOK, OnlyTornPartial, BeingWritten, Open, NoPut
<1>1. ASSUME NEW k \in Object, PutExisting(k) PROVE StoreInv'
  BY <1>1 DEF PutExisting, storeVars
<1>2. ASSUME NEW k \in Object, put[c] = NoPut, PutSchedule(c, k) PROVE StoreInv'
  BY <1>2 DEF PutSchedule
<1>3. CASE PutOpen(c)
  BY <1>3 DEF PutOpen
<1>4. CASE PutComplete(c)
  BY <1>4 DEF PutComplete
<1>5. CASE PutFail(c)
  BY <1>5 DEF PutFail
<1>6. QED
  BY <1>1, <1>2, <1>3, <1>4, <1>5 DEF StoreStep

-----------------------------------------------------------------------------
(* The mirror.                                                              *)

\* A worker takes an artifact, or its end marker.
LEMMA TakeInv ==
  ASSUME NEW w \in Worker, MirrorInv, Take(w)
  PROVE  MirrorInv'
<1> USE DEF At
<1>1. /\ Typing /\ queue # <<>> /\ worker[w].phase = "waiting"
      /\ queue' = Tail(queue) /\ UNCHANGED <<storeVars, saved, entries, run, plan>>
  BY DEF Take, MirrorInv
<1>2. /\ Head(queue) = queue[1] /\ 1 \in 1..Len(queue) /\ queue[1] \in Url \cup {None}
      /\ queue' \in Seq(Url \cup {None})
      /\ \A i \in 1..Len(queue') : i + 1 \in 1..Len(queue) /\ queue'[i] = queue[i + 1]
  BY <1>1, TakeHead DEF Typing
<1>3. PICK task \in Task : /\ worker' = [worker EXCEPT ![w] = task]
                          /\ \/ queue[1] = None /\ task.phase = "done"
                             \/ /\ queue[1] # None
                                /\ task.phase = "requesting" /\ task.url = queue[1]
  <2>1. CASE queue[1] = None
    <3>1. worker' = [worker EXCEPT ![w] = Doing("done")]
      BY <1>2, <2>1 DEF Take
    <3>2. Doing("done") \in Task /\ Doing("done").phase = "done"
      BY DEF Doing, Task, Phase, Entry
    <3>3. QED
      BY <2>1, <3>1, <3>2
  <2>2. CASE queue[1] # None
    <3>1. worker' = [worker EXCEPT ![w] = Fetching(queue[1])]
      BY <1>2, <2>2 DEF Take
    <3>2. /\ Fetching(queue[1]) \in Task
          /\ Fetching(queue[1]).phase = "requesting" /\ Fetching(queue[1]).url = queue[1]
      BY <1>2 DEF Fetching, Task, Phase, Entry
    <3>3. QED
      BY <2>2, <3>1, <3>2
  <2>3. QED
    BY <2>1, <2>2
<1>4. Len(queue') \in Nat /\ Len(queue) \in Nat
  BY <1>1, <1>2 DEF Typing
<1>5. Typing'
  BY <1>1, <1>2, <1>3 DEF Typing, StoreTypeOK, storeVars, plan
<1>6. Once'
  BY <1>1, <1>2, <1>3, <1>4, SMTT(30) DEF MirrorInv, Once, Busy
<1>7. Fresh'
  BY <1>1, <1>2, <1>3, <1>4 DEF MirrorInv, Fresh, Busy
<1>8. Kept' /\ Present'
  BY <1>1, <1>3 DEF MirrorInv, Kept, Present, Exists, storeVars
<1>9. Writing' /\ Resting'
  BY <1>1, <1>3 DEF MirrorInv, Writing, Resting, storeVars, NoPut, Take
<1>10. OnlyTornPartial'
  BY <1>1 DEF MirrorInv, OnlyTornPartial, BeingWritten, Open, storeVars
<1>11. QED
  BY <1>5, <1>6, <1>7, <1>8, <1>9, <1>10 DEF MirrorInv

\* A worker goes on with its artifact, or is done with it, and nobody records.
LEMMA OnwardInv ==
  ASSUME NEW w \in Worker, MirrorInv, run = "joining",
         NEW task \in Task, worker' = [worker EXCEPT ![w] = task],
         UNCHANGED <<saved, entries, run, pending, queue>>,
         task.phase \in {"requesting", "storing", "recording"} =>
            Busy(w) /\ task.url = worker[w].url,
         UNCHANGED storeVars \/ StoreStep(w),
         \A v \in Worker \ {w} : put'[v] = put[v],
         IF task.phase = "storing" THEN put'[w] # NoPut /\ put'[w].key = ObjectOf[task.url]
         ELSE put'[w] = NoPut,
         task.phase = "recording" /\ task.status = "downloaded" =>
            object'[ObjectOf[task.url]] # "absent"
  PROVE  MirrorInv'
<1>1. Typing /\ Worker = Client /\ ObjectOf \in [Url -> Object]
  BY MirrorAssumption DEF MirrorInv
<1>2. \A k \in Object : object[k] # "absent" => object'[k] # "absent"
  BY <1>1, StoreKeeps DEF Typing, storeVars, Exists
<1>3. StoreInv'
  <2>1. CASE UNCHANGED storeVars
    BY <1>1, <2>1
       DEF MirrorInv, StoreInv, Typing, storeVars, StoreTypeOK, OnlyTornPartial, BeingWritten, Open
  <2>2. CASE StoreStep(w)
    BY <1>1, <2>2, StoreStepInv DEF MirrorInv, StoreInv, Typing
  <2>3. QED
    BY <2>1, <2>2
<1>4. \A v \in Worker : worker'[v] = IF v = w THEN task ELSE worker[v]
  BY <1>1 DEF Typing
<1>5. Typing'
  BY <1>1, <1>3 DEF Typing, StoreInv
<1>6. Once'
  BY <1>4 DEF MirrorInv, Once, Busy
<1>7. Fresh' /\ Kept' /\ Resting'
  BY <1>4 DEF MirrorInv, Fresh, Busy, Kept, Resting
<1>8. Present'
  <2>1. \A u \in Url : entries'[u] = "downloaded" => object'[ObjectOf[u]] # "absent"
    BY <1>1, <1>2 DEF MirrorInv, Present, Exists
  <2>2. ASSUME NEW v \in Worker, worker'[v].phase = "recording",
               worker'[v].status = "downloaded"
        PROVE  object'[ObjectOf[worker'[v].url]] # "absent"
    <3>1. CASE v = w
      BY <1>4, <2>2, <3>1
    <3>2. CASE v # w
      <4>1. /\ worker[v].phase = "recording" /\ worker[v].status = "downloaded"
            /\ worker'[v].url = worker[v].url
        BY <1>4, <2>2, <3>2
      <4>2. object[ObjectOf[worker[v].url]] # "absent" /\ ObjectOf[worker[v].url] \in Object
        BY <1>1, <4>1 DEF MirrorInv, Present, Once, Busy, Exists
      <4>3. QED
        BY <1>2, <4>1, <4>2
    <3>3. QED
      BY <3>1, <3>2
  <2>3. QED
    BY <2>1, <2>2 DEF Present, Exists
<1>9. Writing'
  BY <1>4 DEF MirrorInv, Writing
<1>10. QED
  BY <1>3, <1>5, <1>6, <1>7, <1>8, <1>9 DEF MirrorInv, StoreInv

\* What a worker does with its artifact until it records what became of it.
LEMMA FetchInv ==
  ASSUME NEW w \in Worker, MirrorInv,
         \/ Retry(w) \/ Refuse(w) \/ Receive(w)
         \/ OpenObject(w) \/ CloseObject(w) \/ LoseObject(w)
  PROVE  MirrorInv'
<1>1. /\ Typing /\ worker \in [Worker -> Task] /\ put \in [Worker -> {NoPut} \cup [phase : {"scheduled", "open"}, key : Object]]
      /\ Worker = Client /\ ObjectOf \in [Url -> Object]
  BY MirrorAssumption DEF MirrorInv, Typing, StoreTypeOK
<1>2. Busy(w) => worker[w].url \in Url /\ ObjectOf[worker[w].url] \in Object
  BY <1>1 DEF MirrorInv, Once
<1>3. IF worker[w].phase = "storing"
      THEN put[w] # NoPut /\ put[w].key = ObjectOf[worker[w].url]
      ELSE put[w] = NoPut
  BY DEF MirrorInv, Writing
<1>4. CASE Retry(w)
  <2>1. PICK task \in Task : /\ worker' = [worker EXCEPT ![w] = task]
                            /\ task.phase = "requesting" /\ task.url = worker[w].url
    <3> DEFINE task == [worker[w] EXCEPT !.attempt = @ + 1]
    <3>1. task \in Task /\ task.phase = worker[w].phase /\ task.url = worker[w].url
      BY <1>1 DEF Task
    <3>2. worker' = [worker EXCEPT ![w] = task]
      BY <1>4 DEF Retry
    <3>3. QED
      BY <1>4, <3>1, <3>2 DEF Retry, At
  <2>2. QED
    BY <1>3, <1>4, <2>1, OnwardInv DEF Retry, At, Busy, plan, storeVars
<1>5. ASSUME NEW phase \in Phase, NEW status \in Entry, Then(w, phase, status)
      PROVE  \E task \in Task : /\ worker' = [worker EXCEPT ![w] = task]
                                /\ task.phase = phase /\ task.status = status
                                /\ task.url = worker[w].url
  <2> DEFINE task == [worker[w] EXCEPT !.phase = phase, !.status = status]
  <2>1. task \in Task /\ task.phase = phase /\ task.status = status
        /\ task.url = worker[w].url
    BY <1>1 DEF Task
  <2>2. worker' = [worker EXCEPT ![w] = task]
    BY <1>1, <1>5 DEF Then, Task
  <2>3. QED
    BY <2>1, <2>2
<1> "recording" \in Phase /\ "storing" \in Phase /\ {"none", "downloaded", "failed"} = Entry
  BY DEF Phase, Entry
<1>6. CASE Refuse(w)
  <2>1. PICK task \in Task : /\ worker' = [worker EXCEPT ![w] = task]
                            /\ task.phase = "recording" /\ task.status = "failed"
                            /\ task.url = worker[w].url
    BY <1>5, <1>6 DEF Refuse
  <2>2. QED
    BY <1>3, <1>6, <2>1, OnwardInv DEF Refuse, Then, At, Busy, plan, storeVars
<1>7. CASE Receive(w)
  <2> DEFINE k == ObjectOf[worker[w].url]
  <2>1. k \in Object /\ Busy(w) /\ run = "joining" /\ put[w] = NoPut
    BY <1>2, <1>3, <1>7 DEF Receive, At, Busy
  <2>2. CASE PutExisting(k) /\ Then(w, "recording", "downloaded")
    <3>1. PICK task \in Task : /\ worker' = [worker EXCEPT ![w] = task]
                              /\ task.phase = "recording" /\ task.url = worker[w].url
      BY <1>5, <2>2
    <3>2. object'[k] # "absent" /\ UNCHANGED storeVars
      BY <2>2 DEF PutExisting, Exists, storeVars
    <3>3. QED
      BY <2>1, <2>2, <3>1, <3>2, OnwardInv DEF Then, plan, storeVars
  <2>3. CASE PutSchedule(w, k) /\ Then(w, "storing", "none")
    <3>1. PICK task \in Task : /\ worker' = [worker EXCEPT ![w] = task]
                              /\ task.phase = "storing" /\ task.url = worker[w].url
      BY <1>5, <2>3
    <3>2. /\ StoreStep(w) /\ put'[w] # NoPut /\ put'[w].key = k
          /\ \A v \in Worker \ {w} : put'[v] = put[v]
      BY <1>1, <2>1, <2>3, ObjectAssumption DEF PutSchedule, StoreStep, NoPut
    <3>3. QED
      BY <2>1, <2>3, <3>1, <3>2, OnwardInv DEF Then, plan
  <2>4. QED
    BY <1>7, <2>2, <2>3 DEF Receive
<1>8. CASE OpenObject(w)
  <2>1. /\ StoreStep(w) /\ put'[w] # NoPut /\ put'[w].key = put[w].key
        /\ \A v \in Worker \ {w} : put'[v] = put[v]
    BY <1>1, <1>8 DEF OpenObject, PutOpen, StoreStep, NoPut
  <2>2. /\ worker' = [worker EXCEPT ![w] = worker[w]] /\ worker[w] \in Task
        /\ worker[w].phase = "storing" /\ run = "joining"
    BY <1>1, <1>8 DEF OpenObject, At
  <2>3. QED
    BY <1>3, <1>8, <2>1, <2>2, OnwardInv DEF OpenObject, Busy, plan
<1>9. CASE CloseObject(w)
  <2>1. PICK task \in Task : /\ worker' = [worker EXCEPT ![w] = task]
                            /\ task.phase = "recording" /\ task.url = worker[w].url
    BY <1>5, <1>9 DEF CloseObject
  <2>2. /\ StoreStep(w) /\ put'[w] = NoPut /\ \A v \in Worker \ {w} : put'[v] = put[v]
    BY <1>1, <1>9 DEF CloseObject, PutComplete, StoreStep
  <2>3. object'[ObjectOf[worker[w].url]] # "absent"
    BY <1>1, <1>2, <1>3, <1>9
       DEF CloseObject, PutComplete, Exists, At, Busy, Typing, StoreTypeOK
  <2>4. QED
    BY <1>9, <2>1, <2>2, <2>3, OnwardInv DEF CloseObject, Then, At, Busy, plan
<1>10. CASE LoseObject(w)
  <2>1. PICK task \in Task : /\ worker' = [worker EXCEPT ![w] = task]
                            /\ task.phase = "recording" /\ task.status = "failed"
                            /\ task.url = worker[w].url
    BY <1>5, <1>10 DEF LoseObject
  <2>2. /\ StoreStep(w) /\ put'[w] = NoPut /\ \A v \in Worker \ {w} : put'[v] = put[v]
    BY <1>1, <1>10 DEF LoseObject, PutFail, StoreStep
  <2>3. QED
    BY <1>10, <2>1, <2>2, OnwardInv DEF LoseObject, Then, At, Busy, plan
<1>11. QED
  BY <1>4, <1>6, <1>7, <1>8, <1>9, <1>10

\* What it does after that, but for the saving.
LEMMA CountInv ==
  ASSUME NEW w \in Worker, MirrorInv, Count(w) \/ SaveRaises(w)
  PROVE  MirrorInv'
<1>1. /\ Typing /\ worker \in [Worker -> Task] /\ run = "joining"
      /\ worker[w].phase \in {"counting", "saving"}
      /\ UNCHANGED <<storeVars, saved, entries, run, pending, queue>>
  BY DEF MirrorInv, Typing, Count, SaveRaises, At, plan
<1>2. put[w] = NoPut /\ UNCHANGED put
  BY <1>1 DEF MirrorInv, Writing, storeVars
<1>3. PICK task \in Task : /\ worker' = [worker EXCEPT ![w] = task]
                          /\ task.phase \in {"saving", "waiting", "raised"}
  <2>1. CASE worker' = [worker EXCEPT ![w].phase = "saving"]
    <3> DEFINE task == [worker[w] EXCEPT !.phase = "saving"]
    <3>1. task \in Task /\ task.phase = "saving"
      BY <1>1 DEF Task, Phase
    <3>2. worker' = [worker EXCEPT ![w] = task]
      BY <2>1
    <3>3. QED
      BY <3>1, <3>2
  <2>2. ASSUME NEW phase \in {"waiting", "raised"}, worker' = [worker EXCEPT ![w] = Doing(phase)]
        PROVE  \E task \in Task : /\ worker' = [worker EXCEPT ![w] = task]
                                  /\ task.phase \in {"saving", "waiting", "raised"}
    <3>1. Doing(phase) \in Task /\ Doing(phase).phase = phase
      BY DEF Doing, Task, Phase, Entry
    <3>2. QED
      BY <2>2, <3>1
  <2>3. QED
    BY <2>1, <2>2 DEF Count, SaveRaises
<1>4. QED
  BY <1>1, <1>2, <1>3, OnwardInv

\* What became of the artifact is recorded: it was not called downloaded, and
\* nobody else has it.
LEMMA RecordInv ==
  ASSUME NEW w \in Worker, MirrorInv, Record(w)
  PROVE  MirrorInv'
<1> DEFINE u == worker[w].url
<1>1. /\ Typing /\ worker \in [Worker -> Task] /\ run = "joining" /\ worker[w].phase = "recording"
      /\ UNCHANGED <<storeVars, saved, run, pending, queue>>
      /\ entries' = [entries EXCEPT ![u] = worker[w].status]
      /\ worker' = [worker EXCEPT ![w].phase = "counting"]
  BY DEF MirrorInv, Typing, Record, At, plan
<1>2. Busy(w) /\ u \in Url /\ entries[u] # "downloaded" /\ worker[w].status \in Entry
  BY <1>1 DEF MirrorInv, Busy, Once, Fresh, Task
<1>3. /\ \A v \in Worker \ {w} : worker'[v] = worker[v] /\ (Busy(v) => worker[v].url # u)
      /\ worker'[w].phase = "counting"
  BY <1>1, <1>2 DEF MirrorInv, Once, Task
<1>4. \A x \in Url : entries'[x] = IF x = u THEN worker[w].status ELSE entries[x]
  BY <1>1, <1>2 DEF Typing
<1>5. Typing'
  <2>1. [worker[w] EXCEPT !.phase = "counting"] \in Task
    BY <1>1 DEF Task, Phase
  <2>2. worker' \in [Worker -> Task]
    BY <1>1, <2>1
  <2>3. QED
    BY <1>1, <1>2, <2>2 DEF Typing, StoreTypeOK, storeVars
<1>6. Once'
  BY <1>1, <1>3 DEF MirrorInv, Once, Busy
<1>7. Fresh'
  <2>1. \A i \in 1..Len(queue) : queue[i] # None =>
            queue[i] \in Url /\ queue[i] # u /\ entries[queue[i]] # "downloaded"
    BY <1>1, <1>2 DEF MirrorInv, Once, Fresh, Typing
  <2>2. \A v \in Worker \ {w} : Busy(v) =>
            worker[v].url \in Url /\ worker[v].url # u /\ entries[worker[v].url] # "downloaded"
    BY <1>3 DEF MirrorInv, Once, Fresh
  <2>3. QED
    BY <1>1, <1>3, <1>4, <2>1, <2>2 DEF Fresh, Busy
<1>8. Kept'
  BY <1>1, <1>2, <1>4 DEF MirrorInv, Kept
<1>9. Present'
  <2>1. \A x \in Url : entries'[x] = "downloaded" => object[ObjectOf[x]] # "absent"
    BY <1>1, <1>4 DEF MirrorInv, Present, Exists
  <2>2. \A v \in Worker \ {w} :
            worker[v].phase = "recording" /\ worker[v].status = "downloaded" =>
                object[ObjectOf[worker[v].url]] # "absent"
    BY DEF MirrorInv, Present, Exists
  <2>3. QED
    BY <1>1, <1>3, <2>1, <2>2 DEF Present, Exists, storeVars
<1>10. Writing' /\ Resting'
  BY <1>1, <1>3 DEF MirrorInv, Writing, Resting, storeVars
<1>11. OnlyTornPartial'
  BY <1>1 DEF MirrorInv, OnlyTornPartial, BeingWritten, Open, storeVars
<1>12. QED
  BY <1>5, <1>6, <1>7, <1>8, <1>9, <1>10, <1>11 DEF MirrorInv

\* A checkpoint writes what is in memory, and the worker goes on.
LEMMA SaveInv ==
  ASSUME NEW w \in Worker, MirrorInv, Save(w)
  PROVE  MirrorInv'
<1>1. /\ Typing /\ worker \in [Worker -> Task] /\ run = "joining" /\ worker[w].phase = "saving"
      /\ UNCHANGED <<storeVars, entries, run, pending, queue>>
      /\ saved' = entries /\ worker' = [worker EXCEPT ![w] = Doing("waiting")]
  BY DEF MirrorInv, Typing, Save, At, plan
<1>2. Doing("waiting") \in Task /\ Doing("waiting").phase = "waiting"
  BY DEF Doing, Task, Phase, Entry
<1>3. \A v \in Worker : worker'[v] = IF v = w THEN Doing("waiting") ELSE worker[v]
  BY <1>1
<1> HIDE DEF Doing
<1>4. Typing'
  BY <1>1, <1>2 DEF Typing, StoreTypeOK, storeVars
<1>5. Once' /\ Fresh'
  BY <1>1, <1>2, <1>3 DEF MirrorInv, Once, Fresh, Busy
<1>6. Kept' /\ Present'
  BY <1>1, <1>2, <1>3 DEF MirrorInv, Kept, Present, Exists, storeVars
<1>7. Writing' /\ Resting'
  BY <1>1, <1>2, <1>3 DEF MirrorInv, Writing, Resting, storeVars
<1>8. OnlyTornPartial'
  BY <1>1 DEF MirrorInv, OnlyTornPartial, BeingWritten, Open, storeVars
<1>9. QED
  BY <1>4, <1>5, <1>6, <1>7, <1>8 DEF MirrorInv

\* A run begins with what the file says, and queues what it does not call
\* downloaded: what it does has an object, so that it is skipped.
LEMMA StartInv ==
  ASSUME MirrorInv, StartRun
  PROVE  MirrorInv'
<1>1. /\ Typing /\ run # "joining" /\ run' = "joining"
      /\ UNCHANGED <<storeVars, saved>> /\ entries' = saved
      /\ pending' = ToDownload(listed') /\ queue' = QueueOf(pending')
      /\ worker' = [w \in Worker |-> Doing("waiting")]
  BY DEF MirrorInv, StartRun
<1>2. Doing("waiting") \in Task /\ Doing("waiting").phase = "waiting"
  BY DEF Doing, Task, Phase, Entry
<1>3. \A w \in Worker : worker'[w] = Doing("waiting") /\ ~Busy(w)'
  BY <1>1, <1>2 DEF Busy
<1> HIDE DEF Doing
<1>4. pending' \in SUBSET Url /\ \A u \in pending' : saved[u] # "downloaded"
  BY <1>1 DEF StartRun, MirrorInv, Kept, Present, ToDownload
<1>5. /\ queue' \in Seq(Url \cup {None})
      /\ \A i \in 1..Len(queue') : queue'[i] \in pending' \cup {None}
      /\ \A i, j \in 1..Len(queue') : queue'[i] = queue'[j] /\ queue'[i] # None => i = j
  BY <1>1, <1>4, QueueOfSet
<1>6. Typing'
  <2>1. worker' \in [Worker -> Task]
    BY <1>1, <1>2
  <2>2. QED
    BY <1>1, <1>4, <1>5, <2>1 DEF Typing, StoreTypeOK, storeVars
<1>7. Once'
  BY <1>3, <1>5 DEF Once
<1>8. Fresh'
  BY <1>1, <1>3, <1>4, <1>5 DEF Fresh
<1>9. Kept' /\ Present'
  BY <1>1, <1>2, <1>3 DEF MirrorInv, Kept, Present, Exists, storeVars
<1>10. Writing' /\ Resting'
  BY <1>1, <1>2, <1>3 DEF MirrorInv, Writing, Resting, storeVars
<1>11. OnlyTornPartial'
  BY <1>1 DEF MirrorInv, OnlyTornPartial, BeingWritten, Open, storeVars
<1>12. QED
  BY <1>6, <1>7, <1>8, <1>9, <1>10, <1>11 DEF MirrorInv

\* A run ends when its workers have: it writes its entries, or it raises.
LEMMA EndInv ==
  ASSUME MirrorInv, Return \/ Fail
  PROVE  MirrorInv'
<1>1. /\ Typing /\ \A w \in Worker : worker[w].phase \in {"done", "raised"}
      /\ UNCHANGED <<storeVars, entries, pending, queue, worker>>
      /\ saved' \in {saved, entries}
  BY DEF MirrorInv, Return, Fail, Joined, plan
<1>2. Typing'
  BY <1>1 DEF Typing, StoreTypeOK, storeVars
<1>3. Once' /\ Fresh' /\ Kept' /\ Present'
  BY <1>1 DEF MirrorInv, Once, Fresh, Busy, Kept, Present, Exists, storeVars
<1>4. Writing' /\ Resting'
  BY <1>1 DEF MirrorInv, Writing, Resting, storeVars
<1>5. OnlyTornPartial'
  BY <1>1 DEF MirrorInv, OnlyTornPartial, BeingWritten, Open, storeVars
<1>6. QED
  BY <1>2, <1>3, <1>4, <1>5 DEF MirrorInv

\* A kill leaves the file and the objects, some of them in part.
LEMMA KillInv ==
  ASSUME MirrorInv, Kill
  PROVE  MirrorInv'
<1>1. /\ Typing /\ UNCHANGED <<object, saved>> /\ entries' = saved
      /\ run' = "stopped" /\ pending' = {} /\ queue' = <<>>
      /\ worker' = [w \in Worker |-> Doing("off")]
      /\ put' = [c \in Client |-> NoPut]
      /\ torn' = torn \cup {put[c].key : c \in Open}
  BY DEF MirrorInv, Kill, PutsLost
<1>2. Doing("off") \in Task /\ Doing("off").phase = "off"
  BY DEF Doing, Task, Phase, Entry
<1>3. \A w \in Worker : worker'[w] = Doing("off") /\ ~Busy(w)' /\ put'[w] = NoPut
  BY <1>1, <1>2, MirrorAssumption DEF Busy
<1> HIDE DEF Doing
<1>4. Typing'
  <2>1. \A c \in Open : put[c].key \in Object
    BY <1>1 DEF Open, Typing, StoreTypeOK, NoPut
  <2>2. StoreTypeOK'
    BY <1>1, <2>1 DEF Typing, StoreTypeOK
  <2>3. worker' \in [Worker -> Task]
    BY <1>1, <1>2
  <2>4. QED
    BY <1>1, <2>2, <2>3 DEF Typing
<1>5. Once' /\ Fresh'
  BY <1>1, <1>3 DEF Once, Fresh
<1>6. Kept' /\ Present'
  BY <1>1, <1>2, <1>3 DEF MirrorInv, Kept, Present, Exists
<1>7. Writing' /\ Resting'
  BY <1>1, <1>2, <1>3 DEF Writing, Resting
<1>8. OnlyTornPartial'
  BY <1>1 DEF MirrorInv, OnlyTornPartial, BeingWritten
<1>9. QED
  BY <1>4, <1>5, <1>6, <1>7, <1>8 DEF MirrorInv

\* Nothing is listed, queued, recorded or stored at first.
LEMMA MirrorInit == Init => MirrorInv
<1> SUFFICES ASSUME Init PROVE MirrorInv
  OBVIOUS
<1>1. Doing("off") \in Task /\ Doing("off").phase = "off"
  BY DEF Doing, Task, Phase, Entry
<1> HIDE DEF Doing
<1>2. \A w \in Worker : worker[w] = Doing("off") /\ put[w] = NoPut
  BY MirrorAssumption DEF Init, StoreInit
<1>3. Typing
  BY <1>1 DEF Init, StoreInit, Typing, StoreTypeOK, Entry
<1>4. Once /\ Fresh /\ Kept /\ Present /\ Writing /\ Resting
  BY <1>1, <1>2
     DEF Init, Once, Fresh, Kept, Present, Writing, Resting, Busy
<1>5. OnlyTornPartial
  BY DEF Init, StoreInit, OnlyTornPartial
<1>6. QED
  BY <1>3, <1>4, <1>5 DEF MirrorInv

\* No step of the mirror breaks the invariant.
LEMMA MirrorStep == MirrorInv /\ [Next]_vars => MirrorInv'
<1> SUFFICES ASSUME MirrorInv, [Next]_vars PROVE MirrorInv'
  OBVIOUS
<1>1. CASE StartRun
  BY <1>1, StartInv
<1>2. CASE Return \/ Fail
  BY <1>2, EndInv
<1>3. CASE Kill
  BY <1>3, KillInv
<1>4. ASSUME NEW w \in Worker, Work(w) PROVE MirrorInv'
  BY <1>4, TakeInv, FetchInv, RecordInv, CountInv, SaveInv DEF Work
<1>5. CASE UNCHANGED vars
  BY <1>5 DEF vars, plan, storeVars, MirrorInv, Typing, StoreTypeOK, Once, Fresh, Busy, Kept,
              Present, Exists, Writing, Resting, OnlyTornPartial, BeingWritten, Open
<1>6. QED
  BY <1>1, <1>2, <1>3, <1>4, <1>5 DEF Next

-----------------------------------------------------------------------------
(* Counting.                                                                *)

\* Workers in one of these phases.
In(phases) == {w \in Worker : worker[w].phase \in phases}

\* A worker holds an artifact until it counts it, has a task to acknowledge
\* until a checkpoint is over, and lives until it takes an end marker: one that
\* raised leaves its marker in the queue for ever.
HoldingPhase == {"requesting", "storing", "recording", "counting"}
ActivePhase == HoldingPhase \cup {"saving"}
LivePhase == Phase \ {"done"}

\* What a worker adds to the number of those in the phases.
Weight(task, phases) == IF task.phase \in phases THEN 1 ELSE 0

Holding == In(HoldingPhase)
Active == In(ActivePhase)
Live == In(LivePhase)

\* What is not done is queued or with a worker, ...
Counted == unfinished = Len(queue) + Cardinality(Active)

\* ... the end markers come last, one for each worker that lives, ...
Marked ==
    run # "stopped" =>
        /\ Cardinality(Live) <= Len(queue)
        /\ \A i \in 1..Len(queue) : queue[i] = None <=> i > Len(queue) - Cardinality(Live)

\* ... what was processed, is queued or is held is what there was to do, ...
Accounted ==
    IF run = "stopped" THEN processed = 0 /\ pending = {}
    ELSE processed + (Len(queue) - Cardinality(Live)) + Cardinality(Holding)
            = Cardinality(pending)

\* ... what the file lacks was recorded since the last checkpoint fell due, ...
Lagging ==
    Cardinality(Unsaved) <=
        (IF In({"saving"}) = {} THEN processed % CheckpointEvery ELSE CheckpointEvery)
        + Cardinality(In({"counting"})) + CheckpointEvery * Cardinality(In({"raised"}))

\* ... and an artifact is skipped as downloaded, recorded, queued or at work.
Settling ==
    /\ \A u \in listed \ pending : entries[u] = "downloaded"
    /\ \A u \in pending :
          \/ entries[u] # "none"
          \/ \E i \in 1..Len(queue) : queue[i] = u
          \/ \E w \in Worker : Busy(w) /\ worker[w].url = u
    /\ \A w \in Worker : worker[w].phase = "recording" =>
          worker[w].status \in {"downloaded", "failed"}

\* What Typing leaves out, but for the upper bound of processed.
Ranges ==
    /\ run \in {"stopped", "joining", "returned", "failed"}
    /\ runs \in 0..MaxRuns
    /\ listed \subseteq Url
    /\ pending \subseteq listed
    /\ processed \in Nat

CountingInv ==
    /\ Ranges /\ Counted /\ Marked /\ Accounted /\ Lagging /\ Settling /\ ReturnSettles

\* A step of a worker moves it from one set of phases to another.
LEMMA PhaseCount ==
  ASSUME NEW w \in Worker, NEW task, worker \in [Worker -> Task],
         worker' = [worker EXCEPT ![w] = task], NEW phases
  PROVE  /\ Cardinality(In(phases)) \in Nat
         /\ Cardinality(In(phases)') = Cardinality(In(phases))
                + Weight(task, phases) - Weight(worker[w], phases)
<1>1. IsFiniteSet(In(phases))
  BY FS_Subset, MirrorAssumption DEF In
<1>2. Cardinality(In(phases)) \in Nat
  BY <1>1, FS_CardinalityType
<1>3. In(phases)' = IF task.phase \in phases THEN In(phases) \cup {w} ELSE In(phases) \ {w}
  BY DEF In
<1>4. /\ Cardinality(In(phases) \cup {w}) =
            IF w \in In(phases) THEN Cardinality(In(phases)) ELSE Cardinality(In(phases)) + 1
      /\ Cardinality(In(phases) \ {w}) =
            IF w \in In(phases) THEN Cardinality(In(phases)) - 1 ELSE Cardinality(In(phases))
  BY <1>1, FS_AddElement, FS_RemoveElement
<1>5. w \in In(phases) <=> worker[w].phase \in phases
  BY DEF In
<1>6. QED
  BY <1>2, <1>3, <1>4, <1>5 DEF Weight

\* The remainder of a number is what is left over a multiple.
LEMMA RemainderIs ==
  ASSUME NEW a \in Nat, NEW c \in Nat \ {0}, NEW q \in Int, NEW r \in 0..(c - 1),
         a = c * q + r
  PROVE  a % c = r
<1> DEFINE t == a \div c
           s == a % c
<1>1. t \in Int /\ s \in 0..(c - 1) /\ a = c * t + s
  OBVIOUS
<1> HIDE DEF t, s
<1>2. c * (q - t) = s - r
  BY <1>1
<1>3. ASSUME NEW d \in Int, d # 0 PROVE c * d >= c \/ c * d <= -c
  BY <1>3
<1>4. q - t = 0
  BY <1>1, <1>2, <1>3
<1>5. QED
  BY <1>1, <1>2, <1>4 DEF s

\* A remainder grows by one until it reaches the divisor.
LEMMA NextRemainder ==
  ASSUME NEW p \in Nat, NEW c \in Nat \ {0}, (p + 1) % c # 0
  PROVE  p % c \in 0..(c - 1) /\ (p + 1) % c = (p % c) + 1
<1> DEFINE q == p \div c
           r == p % c
<1>1. q \in Int /\ r \in 0..(c - 1) /\ p = c * q + r
  OBVIOUS
<1> HIDE DEF q, r
<1>2. CASE r = c - 1
  <2>1. p + 1 = c * (q + 1) + 0
    BY <1>1, <1>2
  <2>2. (p + 1) % c = 0
    BY <1>1, <2>1, RemainderIs
  <2>3. QED
    BY <2>2
<1>3. CASE r # c - 1
  <2>1. p + 1 = c * q + (r + 1) /\ r + 1 \in 0..(c - 1)
    BY <1>1, <1>3
  <2>2. (p + 1) % c = r + 1
    BY <1>1, <2>1, RemainderIs
  <2>3. QED
    BY <1>1, <2>2 DEF r
<1>4. QED
  BY <1>2, <1>3

\* What a worker's step does to the counts depends on the phase it leaves and
\* the one it comes to.
LEMMA StepCounts ==
  ASSUME NEW w \in Worker, NEW task, worker \in [Worker -> Task],
         worker' = [worker EXCEPT ![w] = task]
  PROVE  /\ Cardinality(Active) \in Nat
         /\ Cardinality(Holding) \in Nat
         /\ Cardinality(Live) \in Nat
         /\ Cardinality(In({"counting"})) \in Nat
         /\ Cardinality(In({"raised"})) \in Nat
         /\ Cardinality(Active') = Cardinality(Active)
                + Weight(task, ActivePhase) - Weight(worker[w], ActivePhase)
         /\ Cardinality(Holding') = Cardinality(Holding)
                + Weight(task, HoldingPhase) - Weight(worker[w], HoldingPhase)
         /\ Cardinality(Live') = Cardinality(Live)
                + Weight(task, LivePhase) - Weight(worker[w], LivePhase)
         /\ Cardinality(In({"counting"})') = Cardinality(In({"counting"}))
                + Weight(task, {"counting"}) - Weight(worker[w], {"counting"})
         /\ Cardinality(In({"raised"})') = Cardinality(In({"raised"}))
                + Weight(task, {"raised"}) - Weight(worker[w], {"raised"})
<1>1. /\ Cardinality(Active) \in Nat
      /\ Cardinality(Active') = Cardinality(Active)
             + Weight(task, ActivePhase) - Weight(worker[w], ActivePhase)
  BY PhaseCount DEF Active
<1>2. /\ Cardinality(Holding) \in Nat
      /\ Cardinality(Holding') = Cardinality(Holding)
             + Weight(task, HoldingPhase) - Weight(worker[w], HoldingPhase)
  BY PhaseCount DEF Holding
<1>3. /\ Cardinality(Live) \in Nat
      /\ Cardinality(Live') = Cardinality(Live)
             + Weight(task, LivePhase) - Weight(worker[w], LivePhase)
  BY PhaseCount DEF Live
<1>4. /\ Cardinality(In({"counting"})) \in Nat
      /\ Cardinality(In({"counting"})') = Cardinality(In({"counting"}))
             + Weight(task, {"counting"}) - Weight(worker[w], {"counting"})
  BY PhaseCount
<1>5. /\ Cardinality(In({"raised"})) \in Nat
      /\ Cardinality(In({"raised"})') = Cardinality(In({"raised"}))
             + Weight(task, {"raised"}) - Weight(worker[w], {"raised"})
  BY PhaseCount
<1>6. QED
  BY <1>1, <1>2, <1>3, <1>4, <1>5

\* A worker takes an artifact, which is then its own, or its end marker.
LEMMA TakeCounting ==
  ASSUME NEW w \in Worker, MirrorInv, CountingInv, Take(w)
  PROVE  CountingInv'
<1>1. /\ Typing /\ worker \in [Worker -> Task] /\ queue # <<>>
      /\ worker[w].phase = "waiting" /\ run = "joining"
      /\ queue' = Tail(queue)
      /\ UNCHANGED <<storeVars, saved, entries, run, runs, listed, pending, processed>>
  BY DEF Take, MirrorInv, Typing, At, plan
<1>2. /\ Head(queue) = queue[1] /\ 1 \in 1..Len(queue) /\ queue[1] \in Url \cup {None}
      /\ \A i \in 1..Len(queue') : i + 1 \in 1..Len(queue) /\ queue'[i] = queue[i + 1]
      /\ Len(queue) \in Nat /\ Len(queue') = Len(queue) - 1
  BY <1>1, TakeHead, HeadTailProperties DEF Typing
<1>3. \A i \in 1..Len(queue) : i = 1 \/ (i - 1 \in 1..Len(queue') /\ queue'[i - 1] = queue[i])
  BY <1>2
<1>4. PICK task : /\ worker' = [worker EXCEPT ![w] = task]
                  /\ IF queue[1] = None
                     THEN task.phase = "done" /\ unfinished' = unfinished - 1
                     ELSE /\ task.phase = "requesting" /\ task.url = queue[1]
                          /\ unfinished' = unfinished
  <2>1. CASE queue[1] = None
    <3>1. worker' = [worker EXCEPT ![w] = Doing("done")] /\ unfinished' = unfinished - 1
      BY <1>2, <2>1 DEF Take, TaskDone
    <3>2. Doing("done").phase = "done"
      BY DEF Doing
    <3>3. QED
      BY <2>1, <3>1, <3>2
  <2>2. CASE queue[1] # None
    <3>1. worker' = [worker EXCEPT ![w] = Fetching(queue[1])] /\ unfinished' = unfinished
      BY <1>2, <2>2 DEF Take
    <3>2. /\ Fetching(queue[1]).phase = "requesting"
          /\ Fetching(queue[1]).url = queue[1]
      BY DEF Fetching
    <3>3. QED
      BY <2>2, <3>1, <3>2
  <2>3. QED
    BY <2>1, <2>2
<1>5. \A v \in Worker : worker'[v] = IF v = w THEN task ELSE worker[v]
  BY <1>1, <1>4
<1>6. /\ Cardinality(Active) \in Nat /\ Cardinality(Holding) \in Nat
      /\ Cardinality(Live) \in Nat
      /\ Cardinality(Active') = Cardinality(Active) + (IF queue[1] = None THEN 0 ELSE 1)
      /\ Cardinality(Holding') = Cardinality(Holding) + (IF queue[1] = None THEN 0 ELSE 1)
      /\ Cardinality(Live') = Cardinality(Live) - (IF queue[1] = None THEN 1 ELSE 0)
      /\ Cardinality(In({"counting"})') = Cardinality(In({"counting"}))
      /\ Cardinality(In({"raised"})') = Cardinality(In({"raised"}))
  <2>1. /\ Cardinality(Active) \in Nat
        /\ Cardinality(Holding) \in Nat
        /\ Cardinality(Live) \in Nat
        /\ Cardinality(In({"counting"})) \in Nat
        /\ Cardinality(In({"raised"})) \in Nat
        /\ Cardinality(Active') = Cardinality(Active)
               + Weight(task, ActivePhase) - Weight(worker[w], ActivePhase)
        /\ Cardinality(Holding') = Cardinality(Holding)
               + Weight(task, HoldingPhase) - Weight(worker[w], HoldingPhase)
        /\ Cardinality(Live') = Cardinality(Live)
               + Weight(task, LivePhase) - Weight(worker[w], LivePhase)
        /\ Cardinality(In({"counting"})') = Cardinality(In({"counting"}))
               + Weight(task, {"counting"}) - Weight(worker[w], {"counting"})
        /\ Cardinality(In({"raised"})') = Cardinality(In({"raised"}))
               + Weight(task, {"raised"}) - Weight(worker[w], {"raised"})
    BY <1>1, <1>4, StepCounts
  <2>2. /\ Weight(worker[w], ActivePhase) = 0
        /\ Weight(worker[w], HoldingPhase) = 0
        /\ Weight(worker[w], LivePhase) = 1
        /\ Weight(worker[w], {"counting"}) = 0
        /\ Weight(worker[w], {"raised"}) = 0
    BY <1>1 DEF Weight, ActivePhase, HoldingPhase, LivePhase, Phase
  <2>3. /\ Weight(task, ActivePhase) = (IF queue[1] = None THEN 0 ELSE 1)
        /\ Weight(task, HoldingPhase) = (IF queue[1] = None THEN 0 ELSE 1)
        /\ Weight(task, LivePhase) = (IF queue[1] = None THEN 0 ELSE 1)
        /\ Weight(task, {"counting"}) = 0
        /\ Weight(task, {"raised"}) = 0
    BY <1>4 DEF Weight, ActivePhase, HoldingPhase, LivePhase, Phase
  <2>4. QED
    BY <2>1, <2>2, <2>3
<1>7. Ranges'
  BY <1>1 DEF CountingInv, Ranges
<1>8. Counted'
  BY <1>2, <1>4, <1>6 DEF CountingInv, Counted
<1>9. Marked'
  <2> DEFINE live == Cardinality(Live)
             next == Cardinality(Live')
  <2>1. live <= Len(queue) /\ \A i \in 1..Len(queue) : queue[i] = None <=> i > Len(queue) - live
    BY <1>1 DEF CountingInv, Marked
  <2>2. next = live - (IF queue[1] = None THEN 1 ELSE 0) /\ live \in Nat
    BY <1>6
  <2> HIDE DEF live, next
  <2>3. next <= Len(queue')
    BY <1>2, <2>1, <2>2
  <2>4. \A i \in 1..Len(queue') : queue'[i] = None <=> i > Len(queue') - next
    BY <1>2, <2>1, <2>2
  <2>5. QED
    BY <2>3, <2>4 DEF Marked, next
<1>10. Accounted'
  <2>1. /\ processed + (Len(queue) - Cardinality(Live)) + Cardinality(Holding)
              = Cardinality(pending)
        /\ processed \in Nat
    BY <1>1 DEF CountingInv, Accounted, Ranges
  <2>2. processed' + (Len(queue') - Cardinality(Live')) + Cardinality(Holding')
            = Cardinality(pending')
    BY <1>1, <1>2, <1>6, <2>1
  <2>3. QED
    BY <1>1, <2>2 DEF Accounted
<1>11. Lagging'
  <2>1. Unsaved' = Unsaved /\ In({"saving"})' = In({"saving"})
    BY <1>1, <1>4, <1>5 DEF Unsaved, In
  <2>2. QED
    BY <1>1, <1>6, <2>1 DEF CountingInv, Lagging
<1>12. Settling'
  <2>1. \A u \in listed' \ pending' : entries'[u] = "downloaded"
    BY <1>1 DEF CountingInv, Settling
  <2>2. ASSUME NEW u \in pending'
        PROVE  \/ entries'[u] # "none"
               \/ \E i \in 1..Len(queue') : queue'[i] = u
               \/ \E v \in Worker : Busy(v)' /\ worker'[v].url = u
    <3>1. u \in Url
      BY <1>1, <2>2 DEF CountingInv, Ranges
    <3>2. CASE entries[u] # "none"
      BY <1>1, <3>2
    <3>3. ASSUME NEW i \in 1..Len(queue), queue[i] = u
          PROVE  (\E j \in 1..Len(queue') : queue'[j] = u) \/ (Busy(w)' /\ worker'[w].url = u)
      BY <1>3, <1>4, <1>5, <3>1, <3>3, MirrorAssumption DEF Busy
    <3>4. ASSUME NEW v \in Worker, Busy(v), worker[v].url = u
          PROVE  Busy(v)' /\ worker'[v].url = u
      BY <1>1, <1>5, <3>4 DEF Busy
    <3>5. QED
      BY <1>1, <2>2, <3>2, <3>3, <3>4 DEF CountingInv, Settling
  <2>3. \A v \in Worker : worker'[v].phase = "recording" =>
            worker'[v].status \in {"downloaded", "failed"}
    BY <1>4, <1>5 DEF CountingInv, Settling
  <2>4. QED
    BY <2>1, <2>2, <2>3 DEF Settling
<1>13. ReturnSettles'
  BY <1>1 DEF ReturnSettles
<1>14. QED
  BY <1>7, <1>8, <1>9, <1>10, <1>11, <1>12, <1>13 DEF CountingInv

\* Until it records what became of it, a worker keeps its artifact.
LEMMA FetchCounting ==
  ASSUME NEW w \in Worker, MirrorInv, CountingInv,
         \/ Retry(w) \/ Refuse(w) \/ Receive(w)
         \/ OpenObject(w) \/ CloseObject(w) \/ LoseObject(w)
  PROVE  CountingInv'
<1>1. /\ worker \in [Worker -> Task] /\ run = "joining" /\ Busy(w)
      /\ UNCHANGED <<saved, entries, run, runs, listed, pending, queue, unfinished, processed>>
  BY DEF MirrorInv, Typing, Retry, Refuse, Receive, OpenObject, CloseObject, LoseObject, Then,
         At, Busy, plan
<1>2. PICK task : /\ worker' = [worker EXCEPT ![w] = task]
                  /\ task.phase \in {"requesting", "storing", "recording"}
                  /\ task.url = worker[w].url
                  /\ task.phase = "recording" => task.status \in {"downloaded", "failed"}
  <2>1. CASE Retry(w)
    <3> DEFINE task == [worker[w] EXCEPT !.attempt = @ + 1]
    <3>1. /\ worker' = [worker EXCEPT ![w] = task]
          /\ task.phase = "requesting" /\ task.url = worker[w].url
      BY <1>1, <2>1 DEF Retry, At, Task
    <3>2. QED
      BY <3>1
  <2>2. ASSUME NEW phase \in {"storing", "recording"}, NEW status,
               phase = "recording" => status \in {"downloaded", "failed"},
               worker' = [worker EXCEPT ![w].phase = phase, ![w].status = status]
        PROVE  \E task : /\ worker' = [worker EXCEPT ![w] = task]
                         /\ task.phase \in {"requesting", "storing", "recording"}
                         /\ task.url = worker[w].url
                         /\ task.phase = "recording" => task.status \in {"downloaded", "failed"}
    <3> DEFINE task == [worker[w] EXCEPT !.phase = phase, !.status = status]
    <3>1. task.phase = phase /\ task.status = status /\ task.url = worker[w].url
      BY <1>1 DEF Task
    <3>2. worker' = [worker EXCEPT ![w] = task]
      BY <1>1, <2>2 DEF Task
    <3>3. QED
      BY <2>2, <3>1, <3>2
  <2>3. CASE OpenObject(w)
    <3>1. /\ worker' = [worker EXCEPT ![w] = worker[w]]
          /\ worker[w].phase = "storing"
      BY <1>1, <2>3 DEF OpenObject, At
    <3>2. QED
      BY <3>1
  <2>4. QED
    BY <2>1, <2>2, <2>3 DEF Refuse, Receive, CloseObject, LoseObject, Then
<1>3. \A v \in Worker : worker'[v] = IF v = w THEN task ELSE worker[v]
  BY <1>1, <1>2
<1>4. /\ Cardinality(Active') = Cardinality(Active)
      /\ Cardinality(Holding') = Cardinality(Holding)
      /\ Cardinality(Live') = Cardinality(Live)
      /\ Cardinality(In({"counting"})') = Cardinality(In({"counting"}))
      /\ Cardinality(In({"raised"})') = Cardinality(In({"raised"}))
  <2>1. /\ Cardinality(Active) \in Nat
        /\ Cardinality(Holding) \in Nat
        /\ Cardinality(Live) \in Nat
        /\ Cardinality(In({"counting"})) \in Nat
        /\ Cardinality(In({"raised"})) \in Nat
        /\ Cardinality(Active') = Cardinality(Active)
               + Weight(task, ActivePhase) - Weight(worker[w], ActivePhase)
        /\ Cardinality(Holding') = Cardinality(Holding)
               + Weight(task, HoldingPhase) - Weight(worker[w], HoldingPhase)
        /\ Cardinality(Live') = Cardinality(Live)
               + Weight(task, LivePhase) - Weight(worker[w], LivePhase)
        /\ Cardinality(In({"counting"})') = Cardinality(In({"counting"}))
               + Weight(task, {"counting"}) - Weight(worker[w], {"counting"})
        /\ Cardinality(In({"raised"})') = Cardinality(In({"raised"}))
               + Weight(task, {"raised"}) - Weight(worker[w], {"raised"})
    BY <1>1, <1>2, StepCounts
  <2>2. /\ Weight(worker[w], ActivePhase) = 1
        /\ Weight(worker[w], HoldingPhase) = 1
        /\ Weight(worker[w], LivePhase) = 1
        /\ Weight(worker[w], {"counting"}) = 0
        /\ Weight(worker[w], {"raised"}) = 0
    BY <1>1 DEF Weight, ActivePhase, HoldingPhase, LivePhase, Phase, Busy
  <2>3. /\ Weight(task, ActivePhase) = 1
        /\ Weight(task, HoldingPhase) = 1
        /\ Weight(task, LivePhase) = 1
        /\ Weight(task, {"counting"}) = 0
        /\ Weight(task, {"raised"}) = 0
    BY <1>2 DEF Weight, ActivePhase, HoldingPhase, LivePhase, Phase
  <2>4. QED
    BY <2>1, <2>2, <2>3
<1>5. Ranges' /\ Counted' /\ Marked' /\ Accounted' /\ ReturnSettles'
  BY <1>1, <1>4 DEF CountingInv, Ranges, Counted, Marked, Accounted, ReturnSettles
<1>6. Lagging'
  <2>1. Unsaved' = Unsaved /\ In({"saving"})' = In({"saving"})
    BY <1>1, <1>2, <1>3 DEF Unsaved, In, Busy
  <2>2. QED
    BY <1>1, <1>4, <2>1 DEF CountingInv, Lagging
<1>7. Settling'
  BY <1>1, <1>2, <1>3 DEF CountingInv, Settling, Busy
<1>8. QED
  BY <1>5, <1>6, <1>7 DEF CountingInv

\* What is behind the file is a finite number of artifacts.
LEMMA UnsavedFinite ==
  /\ IsFiniteSet(Unsaved)
  /\ Cardinality(Unsaved) \in Nat
BY FS_Subset, FS_CardinalityType, MirrorAssumption DEF Unsaved

\* Recording puts one more artifact ahead of the file, and one more worker
\* between recording and checkpoint.
LEMMA RecordCounting ==
  ASSUME NEW w \in Worker, MirrorInv, CountingInv, Record(w)
  PROVE  CountingInv'
<1> DEFINE u == worker[w].url
           task == [worker[w] EXCEPT !.phase = "counting"]
<1>1. /\ worker \in [Worker -> Task] /\ entries \in [Url -> Entry]
      /\ run = "joining" /\ worker[w].phase = "recording" /\ LockFree
      /\ UNCHANGED <<saved, run, runs, listed, pending, queue, unfinished, processed>>
      /\ entries' = [entries EXCEPT ![u] = worker[w].status]
      /\ worker' = [worker EXCEPT ![w] = task]
  BY DEF MirrorInv, Typing, Record, At, plan
<1>2. u \in Url /\ entries[u] # "downloaded" /\ worker[w].status \in {"downloaded", "failed"}
  BY <1>1 DEF MirrorInv, Busy, Once, Fresh, CountingInv, Settling
<1>3. task.phase = "counting"
  BY <1>1 DEF Task
<1>4. \A x \in Url : entries'[x] = IF x = u THEN worker[w].status ELSE entries[x]
  BY <1>1, <1>2
<1> HIDE DEF u, task
<1>5. \A v \in Worker : worker'[v] = IF v = w THEN task ELSE worker[v]
  BY <1>1
<1>6. /\ Cardinality(Active) \in Nat
      /\ Cardinality(Holding) \in Nat
      /\ Cardinality(Live) \in Nat
      /\ Cardinality(In({"counting"})) \in Nat
      /\ Cardinality(In({"raised"})) \in Nat
      /\ Cardinality(Active') = Cardinality(Active)
      /\ Cardinality(Holding') = Cardinality(Holding)
      /\ Cardinality(Live') = Cardinality(Live)
      /\ Cardinality(In({"counting"})') = Cardinality(In({"counting"})) + 1
      /\ Cardinality(In({"raised"})') = Cardinality(In({"raised"}))
  <2>1. /\ Cardinality(Active) \in Nat
        /\ Cardinality(Holding) \in Nat
        /\ Cardinality(Live) \in Nat
        /\ Cardinality(In({"counting"})) \in Nat
        /\ Cardinality(In({"raised"})) \in Nat
        /\ Cardinality(Active') = Cardinality(Active)
               + Weight(task, ActivePhase) - Weight(worker[w], ActivePhase)
        /\ Cardinality(Holding') = Cardinality(Holding)
               + Weight(task, HoldingPhase) - Weight(worker[w], HoldingPhase)
        /\ Cardinality(Live') = Cardinality(Live)
               + Weight(task, LivePhase) - Weight(worker[w], LivePhase)
        /\ Cardinality(In({"counting"})') = Cardinality(In({"counting"}))
               + Weight(task, {"counting"}) - Weight(worker[w], {"counting"})
        /\ Cardinality(In({"raised"})') = Cardinality(In({"raised"}))
               + Weight(task, {"raised"}) - Weight(worker[w], {"raised"})
    BY <1>1, <1>3, StepCounts
  <2>2. /\ Weight(worker[w], ActivePhase) = 1
        /\ Weight(worker[w], HoldingPhase) = 1
        /\ Weight(worker[w], LivePhase) = 1
        /\ Weight(worker[w], {"counting"}) = 0
        /\ Weight(worker[w], {"raised"}) = 0
    BY <1>1 DEF Weight, ActivePhase, HoldingPhase, LivePhase, Phase
  <2>3. /\ Weight(task, ActivePhase) = 1
        /\ Weight(task, HoldingPhase) = 1
        /\ Weight(task, LivePhase) = 1
        /\ Weight(task, {"counting"}) = 1
        /\ Weight(task, {"raised"}) = 0
    BY <1>1, <1>3 DEF Weight, ActivePhase, HoldingPhase, LivePhase, Phase
  <2>4. QED
    BY <2>1, <2>2, <2>3
<1>7. Ranges' /\ ReturnSettles'
  BY <1>1 DEF CountingInv, Ranges, ReturnSettles
<1>8. Counted'
  BY <1>1, <1>6 DEF CountingInv, Counted
<1>9. Marked'
  BY <1>1, <1>6 DEF CountingInv, Marked
<1>10. Accounted'
  BY <1>1, <1>6 DEF CountingInv, Accounted
<1>11. Lagging'
  <2>1. Cardinality(Unsaved') <= Cardinality(Unsaved) + 1
    <3>1. Unsaved' \subseteq Unsaved \cup {u}
      BY <1>1, <1>4 DEF Unsaved
    <3>2. /\ IsFiniteSet(Unsaved \cup {u})
          /\ Cardinality(Unsaved \cup {u}) <= Cardinality(Unsaved) + 1
      <4>1. /\ IsFiniteSet(Unsaved \cup {u})
            /\ Cardinality(Unsaved \cup {u}) =
                  IF u \in Unsaved THEN Cardinality(Unsaved) ELSE Cardinality(Unsaved) + 1
        BY UnsavedFinite, FS_AddElement
      <4>2. QED
        BY <4>1, UnsavedFinite
    <3>3. Cardinality(Unsaved') <= Cardinality(Unsaved \cup {u})
      BY <3>1, <3>2, FS_Subset
    <3>4. IsFiniteSet(Unsaved') /\ Cardinality(Unsaved') \in Nat
               /\ Cardinality(Unsaved \cup {u}) \in Nat
      BY <3>1, <3>2, FS_Subset, FS_CardinalityType
    <3>5. QED
      BY <3>2, <3>3, <3>4, UnsavedFinite
  <2>2. IsFiniteSet(Unsaved') /\ Cardinality(Unsaved') \in Nat
    <3>1. Unsaved' \subseteq Url
      BY DEF Unsaved
    <3>2. QED
      BY <3>1, FS_Subset, FS_CardinalityType, MirrorAssumption
  <2>3. In({"saving"}) = {} /\ In({"saving"})' = {}
    BY <1>1, <1>3, <1>5 DEF LockFree, In
  <2> DEFINE r == processed % CheckpointEvery
             raised == CheckpointEvery * Cardinality(In({"raised"}))
  <2>4. Cardinality(Unsaved) <= r + Cardinality(In({"counting"})) + raised
    BY <2>3 DEF CountingInv, Lagging
  <2>5. r \in Nat /\ raised \in Nat
    BY <1>6, MirrorAssumption DEF CountingInv, Ranges
  <2>6. processed' % CheckpointEvery = r
          /\ CheckpointEvery * Cardinality(In({"raised"})') = raised
    BY <1>1, <1>6
  <2> HIDE DEF r, raised
  <2>7. Cardinality(Unsaved') <= r + Cardinality(In({"counting"})') + raised
    BY <1>6, <2>1, <2>2, <2>4, <2>5, UnsavedFinite
  <2>8. QED
    BY <2>3, <2>6, <2>7 DEF Lagging
<1>12. Settling'
  <2>1. \A x \in Url : entries[x] # "none" => entries'[x] # "none"
    BY <1>2, <1>4
  <2>2. \A x \in Url : entries[x] = "downloaded" => entries'[x] = "downloaded"
    BY <1>2, <1>4
  <2>3. pending \subseteq Url /\ listed \subseteq Url
    BY DEF CountingInv, Ranges
  <2>4. \A x \in listed' \ pending' : entries'[x] = "downloaded"
    BY <1>1, <2>2, <2>3 DEF CountingInv, Settling
  <2>5. ASSUME NEW x \in pending'
        PROVE  \/ entries'[x] # "none"
               \/ \E i \in 1..Len(queue') : queue'[i] = x
               \/ \E v \in Worker : Busy(v)' /\ worker'[v].url = x
    <3>1. ASSUME NEW v \in Worker, Busy(v), worker[v].url = x
          PROVE  entries'[x] # "none" \/ (Busy(v)' /\ worker'[v].url = x)
      <4>1. CASE v = w
        BY <1>2, <1>4, <3>1, <4>1 DEF u
      <4>2. CASE v # w
        BY <1>5, <3>1, <4>2 DEF Busy
      <4>3. QED
        BY <4>1, <4>2
    <3>2. QED
      BY <1>1, <2>1, <2>3, <3>1 DEF CountingInv, Settling
  <2>6. \A v \in Worker : worker'[v].phase = "recording" =>
            worker'[v].status \in {"downloaded", "failed"}
    BY <1>3, <1>5 DEF CountingInv, Settling
  <2>7. QED
    BY <2>4, <2>5, <2>6 DEF Settling
<1>13. QED
  BY <1>7, <1>8, <1>9, <1>10, <1>11, <1>12 DEF CountingInv

\* A worker that is done with its artifact, or goes on to a checkpoint, leaves
\* it recorded: only the counts are left to look at.
LEMMA SettledStep ==
  ASSUME NEW w \in Worker, MirrorInv, CountingInv, ~Busy(w),
         NEW task, worker' = [worker EXCEPT ![w] = task],
         task.phase \notin {"requesting", "storing", "recording"},
         run = "joining",
         UNCHANGED <<entries, run, runs, listed, pending, queue>>,
         processed' \in Nat
  PROVE  Ranges' /\ ReturnSettles' /\ Settling'
<1>1. worker \in [Worker -> Task]
  BY DEF MirrorInv, Typing
<1>2. \A v \in Worker : worker'[v] = IF v = w THEN task ELSE worker[v]
  BY <1>1
<1>3. Ranges' /\ ReturnSettles'
  BY DEF CountingInv, Ranges, ReturnSettles
<1>4. \A v \in Worker : Busy(v) => Busy(v)' /\ worker'[v] = worker[v]
  BY <1>2 DEF Busy
<1>5. \A v \in Worker : worker'[v].phase = "recording" =>
            worker'[v].status \in {"downloaded", "failed"}
  BY <1>2 DEF CountingInv, Settling
<1>6. QED
  BY <1>3, <1>4, <1>5 DEF CountingInv, Settling

\* Counting puts one more artifact against the checkpoint, which is due at the
\* latest when the remainder would start again.
LEMMA CountCounting ==
  ASSUME NEW w \in Worker, MirrorInv, CountingInv, Count(w)
  PROVE  CountingInv'
<1> DEFINE due == CheckpointDue(processed + 1)
<1>1. /\ worker \in [Worker -> Task] /\ run = "joining" /\ worker[w].phase = "counting"
      /\ UNCHANGED <<saved, entries, run, runs, listed, pending, queue>>
      /\ processed \in Nat /\ processed' = processed + 1 /\ In({"saving"}) = {}
  BY DEF MirrorInv, Typing, Count, At, plan, CountingInv, Ranges, LockFree, In
<1>2. ~due => (processed + 1) % CheckpointEvery # 0
  BY DEF CheckpointDue
<1>3. PICK task : /\ worker' = [worker EXCEPT ![w] = task]
                  /\ task.phase = IF due THEN "saving" ELSE "waiting"
                  /\ unfinished' = IF due THEN unfinished ELSE unfinished - 1
  <2>1. due = CheckpointDue(processed')
    BY <1>1 DEF CheckpointDue
  <2>2. CASE due
    <3> DEFINE task == [worker[w] EXCEPT !.phase = "saving"]
    <3>1. worker' = [worker EXCEPT ![w] = task] /\ unfinished' = unfinished
      BY <2>1, <2>2 DEF Count
    <3>2. task.phase = "saving"
      BY <1>1 DEF Task
    <3>3. QED
      BY <2>2, <3>1, <3>2
  <2>3. CASE ~due
    <3>1. worker' = [worker EXCEPT ![w] = Doing("waiting")] /\ unfinished' = unfinished - 1
      BY <2>1, <2>3 DEF Count, TaskDone
    <3>2. Doing("waiting").phase = "waiting"
      BY DEF Doing
    <3>3. QED
      BY <2>3, <3>1, <3>2
  <2>4. QED
    BY <2>2, <2>3
<1> HIDE DEF due
<1>4. \A v \in Worker : worker'[v] = IF v = w THEN task ELSE worker[v]
  BY <1>1, <1>3
<1>5. /\ Cardinality(Active) \in Nat
      /\ Cardinality(Holding) \in Nat
      /\ Cardinality(Live) \in Nat
      /\ Cardinality(In({"counting"})) \in Nat
      /\ Cardinality(In({"raised"})) \in Nat
      /\ Cardinality(Active') = Cardinality(Active) - (IF due THEN 0 ELSE 1)
      /\ Cardinality(Holding') = Cardinality(Holding) - 1
      /\ Cardinality(Live') = Cardinality(Live)
      /\ Cardinality(In({"counting"})') = Cardinality(In({"counting"})) - 1
      /\ Cardinality(In({"raised"})') = Cardinality(In({"raised"}))
  <2>1. /\ Cardinality(Active) \in Nat
        /\ Cardinality(Holding) \in Nat
        /\ Cardinality(Live) \in Nat
        /\ Cardinality(In({"counting"})) \in Nat
        /\ Cardinality(In({"raised"})) \in Nat
        /\ Cardinality(Active') = Cardinality(Active)
               + Weight(task, ActivePhase) - Weight(worker[w], ActivePhase)
        /\ Cardinality(Holding') = Cardinality(Holding)
               + Weight(task, HoldingPhase) - Weight(worker[w], HoldingPhase)
        /\ Cardinality(Live') = Cardinality(Live)
               + Weight(task, LivePhase) - Weight(worker[w], LivePhase)
        /\ Cardinality(In({"counting"})') = Cardinality(In({"counting"}))
               + Weight(task, {"counting"}) - Weight(worker[w], {"counting"})
        /\ Cardinality(In({"raised"})') = Cardinality(In({"raised"}))
               + Weight(task, {"raised"}) - Weight(worker[w], {"raised"})
    BY <1>1, <1>3, StepCounts
  <2>2. /\ Weight(worker[w], ActivePhase) = 1
        /\ Weight(worker[w], HoldingPhase) = 1
        /\ Weight(worker[w], LivePhase) = 1
        /\ Weight(worker[w], {"counting"}) = 1
        /\ Weight(worker[w], {"raised"}) = 0
    BY <1>1 DEF Weight, ActivePhase, HoldingPhase, LivePhase, Phase
  <2>3. /\ Weight(task, ActivePhase) = (IF due THEN 1 ELSE 0)
        /\ Weight(task, HoldingPhase) = 0
        /\ Weight(task, LivePhase) = 1
        /\ Weight(task, {"counting"}) = 0
        /\ Weight(task, {"raised"}) = 0
    BY <1>1, <1>3 DEF Weight, ActivePhase, HoldingPhase, LivePhase, Phase
  <2>4. QED
    BY <2>1, <2>2, <2>3
<1>6. Ranges' /\ ReturnSettles' /\ Settling'
  <2>1. task.phase \notin {"requesting", "storing", "recording"} /\ ~Busy(w)
    BY <1>1, <1>3 DEF Busy
  <2>2. processed' \in Nat
    BY <1>1
  <2>3. QED
    BY <1>1, <1>3, <2>1, <2>2, SettledStep
<1>7. Counted'
  <2>1. unfinished = Len(queue) + Cardinality(Active) /\ Len(queue) \in Nat
    BY DEF CountingInv, Counted, MirrorInv, Typing
  <2>2. unfinished' = Len(queue') + Cardinality(Active')
    BY <1>1, <1>3, <1>5, <2>1
  <2>3. QED
    BY <2>2 DEF Counted
<1>8. Marked'
  BY <1>1, <1>5 DEF CountingInv, Marked
<1>9. Accounted'
  <2>1. /\ processed + (Len(queue) - Cardinality(Live)) + Cardinality(Holding)
              = Cardinality(pending)
        /\ Len(queue) \in Nat
    BY <1>1 DEF CountingInv, Accounted, MirrorInv, Typing
  <2>2. processed' + (Len(queue') - Cardinality(Live')) + Cardinality(Holding')
            = Cardinality(pending')
    BY <1>1, <1>5, <2>1
  <2>3. QED
    BY <1>1, <2>2 DEF Accounted
<1>10. Lagging'
  <2> DEFINE r == processed % CheckpointEvery
             raised == CheckpointEvery * Cardinality(In({"raised"}))
             behind == Cardinality(Unsaved)
             counting == Cardinality(In({"counting"}))
  <2>1. behind <= r + counting + raised
    BY <1>1 DEF CountingInv, Lagging
  <2>2. /\ r \in 0..(CheckpointEvery - 1) /\ raised \in Nat /\ CheckpointEvery \in Nat
        /\ behind \in Nat /\ counting \in Nat
    BY <1>1, <1>5, UnsavedFinite, MirrorAssumption
  <2>3. /\ CheckpointEvery * Cardinality(In({"raised"})') = raised
        /\ Cardinality(Unsaved') = behind
        /\ Cardinality(In({"counting"})') = counting - 1
    BY <1>1, <1>5 DEF Unsaved
  <2>4. CASE due
    <3>1. In({"saving"})' # {}
      BY <1>3, <1>4, <2>4 DEF In
    <3> HIDE DEF r, raised, behind, counting
    <3>2. behind <= CheckpointEvery + (counting - 1) + raised
      BY <2>1, <2>2
    <3>3. QED
      BY <2>3, <3>1, <3>2 DEF Lagging
  <2>5. CASE ~due
    <3>1. In({"saving"})' = {}
      BY <1>1, <1>3, <1>4, <2>5 DEF In
    <3>2. processed' % CheckpointEvery = r + 1
      BY <1>1, <1>2, <2>5, NextRemainder, MirrorAssumption
    <3> HIDE DEF r, raised, behind, counting
    <3>3. behind <= (r + 1) + (counting - 1) + raised
      BY <2>1, <2>2
    <3>4. QED
      BY <2>3, <3>1, <3>2, <3>3 DEF Lagging
  <2>6. QED
    BY <2>4, <2>5
<1>11. QED
  BY <1>6, <1>7, <1>8, <1>9, <1>10 DEF CountingInv

\* A checkpoint that is written leaves nothing behind; one that raises leaves
\* the worker's end marker in the queue, and a checkpoint's worth behind.
LEMMA SaveCounting ==
  ASSUME NEW w \in Worker, MirrorInv, CountingInv, Save(w) \/ SaveRaises(w)
  PROVE  CountingInv'
<1> DEFINE fails == SaveRaises(w) /\ ~Save(w)
<1>1. /\ worker \in [Worker -> Task] /\ run = "joining" /\ worker[w].phase = "saving"
      /\ UNCHANGED <<entries, run, runs, listed, pending, queue, processed>>
      /\ unfinished' = unfinished - 1 /\ processed \in Nat
  BY DEF MirrorInv, Typing, Save, SaveRaises, At, plan, CountingInv, Ranges, TaskDone
<1>2. PICK task : /\ worker' = [worker EXCEPT ![w] = task]
                  /\ task.phase = IF fails THEN "raised" ELSE "waiting"
                  /\ saved' = IF fails THEN saved ELSE entries
  <2>1. Doing("raised").phase = "raised" /\ Doing("waiting").phase = "waiting"
    BY DEF Doing
  <2> HIDE DEF Doing
  <2>2. CASE fails
    BY <2>1, <2>2 DEF SaveRaises
  <2>3. CASE ~fails
    BY <2>1, <2>3 DEF Save
  <2>4. QED
    BY <2>2, <2>3
<1> HIDE DEF fails
<1>3. \A v \in Worker : worker'[v] = IF v = w THEN task ELSE worker[v]
  BY <1>1, <1>2
<1>4. /\ Cardinality(Active) \in Nat
      /\ Cardinality(Holding) \in Nat
      /\ Cardinality(Live) \in Nat
      /\ Cardinality(In({"counting"})) \in Nat
      /\ Cardinality(In({"raised"})) \in Nat
      /\ Cardinality(Active') = Cardinality(Active) - 1
      /\ Cardinality(Holding') = Cardinality(Holding)
      /\ Cardinality(Live') = Cardinality(Live)
      /\ Cardinality(In({"counting"})') = Cardinality(In({"counting"}))
      /\ Cardinality(In({"raised"})') = Cardinality(In({"raised"})) + (IF fails THEN 1 ELSE 0)
  <2>1. /\ Cardinality(Active) \in Nat
        /\ Cardinality(Holding) \in Nat
        /\ Cardinality(Live) \in Nat
        /\ Cardinality(In({"counting"})) \in Nat
        /\ Cardinality(In({"raised"})) \in Nat
        /\ Cardinality(Active') = Cardinality(Active)
               + Weight(task, ActivePhase) - Weight(worker[w], ActivePhase)
        /\ Cardinality(Holding') = Cardinality(Holding)
               + Weight(task, HoldingPhase) - Weight(worker[w], HoldingPhase)
        /\ Cardinality(Live') = Cardinality(Live)
               + Weight(task, LivePhase) - Weight(worker[w], LivePhase)
        /\ Cardinality(In({"counting"})') = Cardinality(In({"counting"}))
               + Weight(task, {"counting"}) - Weight(worker[w], {"counting"})
        /\ Cardinality(In({"raised"})') = Cardinality(In({"raised"}))
               + Weight(task, {"raised"}) - Weight(worker[w], {"raised"})
    BY <1>1, <1>2, StepCounts
  <2>2. /\ Weight(worker[w], ActivePhase) = 1
        /\ Weight(worker[w], HoldingPhase) = 0
        /\ Weight(worker[w], LivePhase) = 1
        /\ Weight(worker[w], {"counting"}) = 0
        /\ Weight(worker[w], {"raised"}) = 0
    BY <1>1 DEF Weight, ActivePhase, HoldingPhase, LivePhase, Phase
  <2>3. /\ Weight(task, ActivePhase) = 0
        /\ Weight(task, HoldingPhase) = 0
        /\ Weight(task, LivePhase) = 1
        /\ Weight(task, {"counting"}) = 0
        /\ Weight(task, {"raised"}) = (IF fails THEN 1 ELSE 0)
    BY <1>1, <1>2 DEF Weight, ActivePhase, HoldingPhase, LivePhase, Phase
  <2>4. QED
    BY <2>1, <2>2, <2>3
<1>5. Ranges' /\ ReturnSettles' /\ Settling'
  <2>1. task.phase \notin {"requesting", "storing", "recording"} /\ ~Busy(w)
    BY <1>1, <1>2 DEF Busy
  <2>2. processed' \in Nat
    BY <1>1
  <2>3. QED
    BY <1>1, <1>2, <2>1, <2>2, SettledStep
<1>6. Counted'
  <2>1. unfinished = Len(queue) + Cardinality(Active) /\ Len(queue) \in Nat
    BY DEF CountingInv, Counted, MirrorInv, Typing
  <2>2. unfinished' = Len(queue') + Cardinality(Active')
    BY <1>1, <1>4, <2>1
  <2>3. QED
    BY <2>2 DEF Counted
<1>7. Marked'
  BY <1>1, <1>4 DEF CountingInv, Marked
<1>8. Accounted'
  BY <1>1, <1>4 DEF CountingInv, Accounted
<1>9. Lagging'
  <2> DEFINE r == processed % CheckpointEvery
             n == Cardinality(In({"raised"}))
             behind == Cardinality(Unsaved)
             counting == Cardinality(In({"counting"}))
  <2>1. /\ r \in Nat /\ n \in Nat /\ behind \in Nat /\ counting \in Nat
        /\ CheckpointEvery \in Nat /\ CheckpointEvery * n \in Nat
    BY <1>1, <1>4, UnsavedFinite, MirrorAssumption
  <2>2. /\ processed' % CheckpointEvery = r
        /\ Cardinality(In({"counting"})') = counting
        /\ Cardinality(In({"raised"})') = n + (IF fails THEN 1 ELSE 0)
    BY <1>1, <1>4
  <2>3. CASE ~fails
    <3>1. Unsaved' = {}
      BY <1>1, <1>2, <2>3 DEF Unsaved
    <3>2. Cardinality(Unsaved') = 0
      BY <3>1, FS_EmptySet
    <3> HIDE DEF r, n, behind, counting
    <3>3. /\ 0 <= r + counting + CheckpointEvery * n
          /\ 0 <= CheckpointEvery + counting + CheckpointEvery * n
      BY <2>1
    <3>4. Cardinality(In({"raised"})') = n
      BY <2>1, <2>2, <2>3
    <3>5. QED
      BY <2>2, <3>2, <3>3, <3>4 DEF Lagging
  <2>4. CASE fails
    <3>1. Unsaved' = Unsaved
      BY <1>1, <1>2, <2>4 DEF Unsaved
    <3>2. In({"saving"}) # {}
      BY <1>1 DEF In
    <3>3. behind <= CheckpointEvery + counting + CheckpointEvery * n
      BY <3>2 DEF CountingInv, Lagging
    <3> HIDE DEF r, n, behind, counting
    <3>4. CheckpointEvery * (n + 1) = CheckpointEvery * n + CheckpointEvery
      BY <2>1
    <3>5. /\ behind <= r + counting + CheckpointEvery * (n + 1)
          /\ behind <= CheckpointEvery + counting + CheckpointEvery * (n + 1)
      BY <2>1, <3>3, <3>4
    <3>6. Cardinality(Unsaved') = behind /\ Cardinality(In({"raised"})') = n + 1
      BY <2>2, <2>4, <3>1 DEF behind
    <3>7. QED
      BY <2>2, <3>5, <3>6 DEF Lagging
  <2>5. QED
    BY <2>3, <2>4
<1>10. QED
  BY <1>5, <1>6, <1>7, <1>8, <1>9 DEF CountingInv

\* When all workers do the same, all or none are in the phases.
LEMMA SamePhase ==
  ASSUME NEW phase, NEW phases, worker' = [w \in Worker |-> Doing(phase)]
  PROVE  /\ Cardinality(In(phases)') = IF phase \in phases THEN Cardinality(Worker) ELSE 0
         /\ Cardinality(Worker) \in Nat
<1>1. Doing(phase).phase = phase
  BY DEF Doing
<1>2. In(phases)' = IF phase \in phases THEN Worker ELSE {}
  BY <1>1 DEF In
<1>3. QED
  BY <1>2, FS_EmptySet, FS_CardinalityType, MirrorAssumption

\* A run begins with its queue full, every worker waiting for its end marker,
\* and memory as the file is.
LEMMA StartCounting ==
  ASSUME MirrorInv, CountingInv, StartRun
  PROVE  CountingInv'
<1> DEFINE n == Cardinality(Worker)
           k == Cardinality(pending')
<1>1. /\ run' = "joining" /\ saved' = saved /\ entries' = saved
      /\ listed' \in SUBSET Url /\ pending' = ToDownload(listed')
      /\ queue' = QueueOf(pending') /\ unfinished' = Len(queue') /\ processed' = 0
      /\ worker' = [w \in Worker |-> Doing("waiting")]
      /\ runs' \in 0..MaxRuns
  <2>1. runs' \in 0..MaxRuns
    BY MirrorAssumption DEF StartRun, CountingInv, Ranges
  <2>2. QED
    BY <2>1 DEF StartRun
<1>2. /\ pending' \in SUBSET Url /\ pending' \subseteq listed'
      /\ \A u \in listed' \ pending' : entries'[u] = "downloaded"
  BY <1>1 DEF ToDownload
<1>3. /\ n \in Nat /\ k \in Nat /\ Len(queue') = k + n
      /\ \A i \in 1..(k + n) : IF i <= k THEN queue'[i] \in pending' ELSE queue'[i] = None
      /\ \A u \in pending' : \E i \in 1..k : queue'[i] = u
  <2> DEFINE S == pending'
  <2>1. S \in SUBSET Url /\ queue' = QueueOf(S)
    BY <1>1, <1>2
  <2> HIDE DEF S
  <2>2. /\ Cardinality(Worker) \in Nat /\ Cardinality(S) \in Nat
        /\ Len(QueueOf(S)) = Cardinality(S) + Cardinality(Worker)
        /\ \A i \in 1..(Cardinality(S) + Cardinality(Worker)) :
              IF i <= Cardinality(S) THEN QueueOf(S)[i] \in S ELSE QueueOf(S)[i] = None
        /\ \A u \in S : \E i \in 1..Cardinality(S) : QueueOf(S)[i] = u
    BY <2>1, QueueOfOrder
  <2>3. QED
    BY <2>1, <2>2 DEF S
<1>4. /\ Cardinality(Active') = 0
      /\ Cardinality(Holding') = 0
      /\ Cardinality(Live') = n
      /\ Cardinality(In({"counting"})') = 0
      /\ Cardinality(In({"raised"})') = 0
  <2>1. "waiting" \notin ActivePhase /\ "waiting" \notin HoldingPhase /\ "waiting" \in LivePhase
    BY DEF ActivePhase, HoldingPhase, LivePhase, Phase
  <2>2. Cardinality(Active') = 0 /\ Cardinality(Holding') = 0 /\ Cardinality(Live') = n
    BY <1>1, <2>1, SamePhase DEF Active, Holding, Live
  <2>3. In({"counting"})' = {} /\ In({"raised"})' = {}
    BY <1>1 DEF In, Doing
  <2>4. Cardinality(In({"counting"})') = 0 /\ Cardinality(In({"raised"})') = 0
    BY <2>3, FS_EmptySet
  <2>5. QED
    BY <2>2, <2>3, <2>4
<1>5. \A w \in Worker : worker'[w].phase = "waiting"
  BY <1>1 DEF Doing
<1> HIDE DEF n
<1>6. Ranges' /\ ReturnSettles'
  BY <1>1, <1>2 DEF Ranges, ReturnSettles
<1>7. Counted'
  BY <1>1, <1>3, <1>4 DEF Counted
<1>8. Marked'
  <2>1. n <= Len(queue')
    BY <1>3
  <2>2. \A i \in 1..Len(queue') : queue'[i] = None <=> i > Len(queue') - n
    BY <1>2, <1>3, MirrorAssumption
  <2>3. QED
    BY <1>4, <2>1, <2>2 DEF Marked
<1>9. Accounted'
  <2>1. processed' + (Len(queue') - n) + 0 = k
    BY <1>1, <1>3
  <2>2. QED
    BY <1>1, <1>4, <2>1 DEF Accounted
<1>10. Lagging'
  <2>1. Unsaved' = {} /\ In({"saving"})' = {}
    BY <1>1, <1>5 DEF Unsaved, In
  <2>2. 0 % CheckpointEvery \in Nat
    BY MirrorAssumption
  <2>3. Cardinality(Unsaved') = 0
    BY <2>1, FS_EmptySet
  <2>4. 0 <= (processed' % CheckpointEvery) + 0 + CheckpointEvery * 0
    BY <1>1, <2>2, MirrorAssumption
  <2>5. QED
    BY <1>4, <2>1, <2>3, <2>4 DEF Lagging
<1>11. Settling'
  <2>1. \A u \in pending' : \E i \in 1..Len(queue') : queue'[i] = u
    BY <1>3
  <2>2. QED
    BY <1>2, <1>5, <2>1 DEF Settling
<1>12. QED
  BY <1>6, <1>7, <1>8, <1>9, <1>10, <1>11 DEF CountingInv

\* When the queue is joined and no worker is left, everything was processed.
LEMMA JoinedIsAll ==
  ASSUME MirrorInv, CountingInv, Return
  PROVE  /\ queue = <<>>
         /\ processed = Cardinality(pending)
         /\ \A w \in Worker : worker[w].phase = "done"
<1>1. run = "joining" /\ unfinished = 0 /\ \A w \in Worker : worker[w].phase = "done"
  BY DEF Return, Joined
<1>2. Active = {} /\ Holding = {} /\ Live = {}
  BY <1>1 DEF Active, Holding, Live, In, ActivePhase, HoldingPhase, LivePhase
<1>3. Cardinality(Active) = 0 /\ Cardinality(Holding) = 0 /\ Cardinality(Live) = 0
  BY <1>2, FS_EmptySet
<1>4. queue \in Seq(Url \cup {None}) /\ Len(queue) \in Nat /\ processed \in Nat
  BY DEF MirrorInv, Typing, CountingInv, Ranges
<1>5. Len(queue) = 0
  BY <1>1, <1>3, <1>4 DEF CountingInv, Counted
<1>6. queue = <<>>
  BY <1>4, <1>5, EmptySeq
<1>7. processed + (Len(queue) - Cardinality(Live)) + Cardinality(Holding) = Cardinality(pending)
  BY <1>1 DEF CountingInv, Accounted
<1>8. processed = Cardinality(pending)
  BY <1>3, <1>4, <1>5, <1>7
<1>9. QED
  BY <1>1, <1>6, <1>8

\* The summary leaves nothing behind, and nothing that was listed unsettled.
LEMMA ReturnCounting ==
  ASSUME MirrorInv, CountingInv, Return
  PROVE  CountingInv'
<1>1. /\ saved' = entries /\ run' = "returned" /\ run = "joining"
      /\ UNCHANGED <<entries, runs, listed, pending, queue, unfinished, processed, worker>>
  BY DEF Return, Joined, plan
<1>2. queue = <<>> /\ processed = Cardinality(pending) /\ \A w \in Worker : worker[w].phase = "done"
  BY JoinedIsAll
<1>3. /\ In({"saving"})' = In({"saving"}) /\ In({"counting"})' = In({"counting"})
      /\ In({"raised"})' = In({"raised"})
      /\ Active' = Active /\ Holding' = Holding /\ Live' = Live
  BY <1>1 DEF In, Active, Holding, Live
<1>4. Ranges' /\ Settling'
  BY <1>1 DEF CountingInv, Ranges, Settling, Busy
<1>5. Counted' /\ Marked' /\ Accounted'
  BY <1>1, <1>3 DEF CountingInv, Counted, Marked, Accounted
<1>6. Lagging'
  <2>1. Cardinality(Unsaved') = 0
    <3>1. Unsaved' = {}
      BY <1>1 DEF Unsaved
    <3>2. QED
      BY <3>1, FS_EmptySet
  <2>2. /\ Cardinality(In({"counting"})) \in Nat /\ Cardinality(In({"raised"})) \in Nat
        /\ processed % CheckpointEvery \in Nat /\ CheckpointEvery \in Nat
    <3>1. IsFiniteSet(In({"counting"})) /\ IsFiniteSet(In({"raised"}))
      BY FS_Subset, MirrorAssumption DEF In
    <3>2. QED
      BY <3>1, FS_CardinalityType, MirrorAssumption DEF CountingInv, Ranges
  <2>3. /\ 0 <= (processed % CheckpointEvery) + Cardinality(In({"counting"}))
                    + CheckpointEvery * Cardinality(In({"raised"}))
        /\ 0 <= CheckpointEvery + Cardinality(In({"counting"}))
                    + CheckpointEvery * Cardinality(In({"raised"}))
    <3>1. CheckpointEvery * Cardinality(In({"raised"})) \in Nat
      BY <2>2
    <3>2. QED
      BY <2>2, <3>1
  <2>4. QED
    BY <1>1, <1>3, <2>1, <2>3 DEF Lagging
<1>7. ReturnSettles'
  <2>1. \A u \in pending : entries[u] # "none"
    BY <1>2 DEF CountingInv, Settling, Busy
  <2>2. \A u \in listed \ pending : entries[u] = "downloaded"
    BY DEF CountingInv, Settling
  <2>3. QED
    BY <1>1, <1>2, <2>1, <2>2 DEF ReturnSettles, CountingInv, Ranges
<1>8. QED
  BY <1>4, <1>5, <1>6, <1>7 DEF CountingInv

\* Where nothing but the store and the run changes, nothing is counted anew.
LEMMA SameCounting ==
  ASSUME CountingInv,
         UNCHANGED <<saved, entries, runs, listed, pending, queue, unfinished, processed, worker>>,
         run' = run \/ (run = "joining" /\ run' = "failed")
  PROVE  CountingInv'
<1>1. /\ \A phases : In(phases)' = In(phases)
      /\ Active' = Active /\ Holding' = Holding /\ Live' = Live
      /\ Unsaved' = Unsaved
  BY DEF In, Active, Holding, Live, Unsaved
<1>2. Ranges' /\ Settling' /\ ReturnSettles'
  BY DEF CountingInv, Ranges, Settling, Busy, ReturnSettles
<1>3. Counted' /\ Marked' /\ Accounted'
  BY <1>1 DEF CountingInv, Counted, Marked, Accounted
<1>4. Lagging'
  BY <1>1 DEF CountingInv, Lagging
<1>5. QED
  BY <1>2, <1>3, <1>4 DEF CountingInv

\* With no run there is nothing to count, and memory is as the file is.
Cleared ==
    /\ run = "stopped" /\ runs \in 0..MaxRuns
    /\ entries = saved /\ listed = {} /\ pending = {}
    /\ queue = <<>> /\ unfinished = 0 /\ processed = 0
    /\ worker = [w \in Worker |-> Doing("off")]

LEMMA ClearedCounting == Cleared => CountingInv
<1> SUFFICES ASSUME Cleared PROVE CountingInv
  OBVIOUS
<1>1. \A w \in Worker : worker[w].phase = "off"
  BY DEF Cleared, Doing
<1>2. Active = {} /\ In({"saving"}) = {} /\ In({"counting"}) = {} /\ In({"raised"}) = {}
      /\ Unsaved = {}
  BY <1>1 DEF Cleared, Active, In, ActivePhase, HoldingPhase, Unsaved
<1>3. Ranges /\ Settling /\ ReturnSettles
  BY <1>1 DEF Cleared, Ranges, Settling, ReturnSettles
<1>4. Counted /\ Marked /\ Accounted
  BY <1>2, FS_EmptySet DEF Cleared, Counted, Marked, Accounted
<1>5. Lagging
  <2>1. 0 % CheckpointEvery \in Nat /\ CheckpointEvery * 0 = 0
    BY MirrorAssumption
  <2>2. /\ Cardinality(Unsaved) = 0 /\ Cardinality(In({"counting"})) = 0
        /\ Cardinality(In({"raised"})) = 0
    BY <1>2, FS_EmptySet
  <2>3. processed = 0 /\ In({"saving"}) = {}
    BY <1>2 DEF Cleared
  <2>4. 0 <= (0 % CheckpointEvery) + 0 + CheckpointEvery * 0
    BY <2>1
  <2>5. QED
    BY <2>2, <2>3, <2>4 DEF Lagging
<1>6. QED
  BY <1>3, <1>4, <1>5 DEF CountingInv

\* No step of the mirror breaks the counts, wherever a kill or a failure falls.
LEMMA CountingStep == MirrorInv /\ CountingInv /\ [Next]_vars => CountingInv'
<1> SUFFICES ASSUME MirrorInv, CountingInv, [Next]_vars PROVE CountingInv'
  OBVIOUS
<1>1. CASE StartRun
  BY <1>1, StartCounting
<1>2. CASE Return
  BY <1>2, ReturnCounting
<1>3. CASE Fail
  BY <1>3, SameCounting DEF Fail, Joined, plan
<1>4. CASE Kill
  <2>1. Cleared'
    BY <1>4 DEF Kill, Cleared, CountingInv, Ranges
  <2>2. QED
    BY <2>1, ClearedCounting, PTL
<1>5. ASSUME NEW w \in Worker, Work(w) PROVE CountingInv'
  BY <1>5, TakeCounting, FetchCounting, RecordCounting, CountCounting, SaveCounting DEF Work
<1>6. CASE UNCHANGED vars
  BY <1>6, SameCounting DEF vars, plan
<1>7. QED
  BY <1>1, <1>2, <1>3, <1>4, <1>5, <1>6 DEF Next

-----------------------------------------------------------------------------
(* The theorems.                                                            *)

\* In every state of the mirror, whatever fails and whenever it is killed, an
\* artifact is queued once or with one worker, what is queued or at work is
\* not called downloaded, and what is has an object.
THEOREM MirrorInvariant == Spec => []MirrorInv
BY MirrorInit, MirrorStep, PTL DEF Spec

\* What the manifest file calls downloaded is stored whole, unless a write of
\* that object never finished or still goes on.
THEOREM DownloadedWhole == Spec => []DownloadedIsWhole
<1>1. MirrorInv => DownloadedIsWhole
  <2> SUFFICES ASSUME MirrorInv, NEW u \in Url, saved[u] = "downloaded"
               PROVE  LET k == ObjectOf[u] IN object[k] = "whole" \/ k \in torn \/ BeingWritten(k)
    BY DEF DownloadedIsWhole
  <2>1. ObjectOf[u] \in Object /\ object[ObjectOf[u]] # "absent"
    BY MirrorAssumption DEF MirrorInv, Kept, Present, Exists
  <2>2. QED
    BY <2>1 DEF MirrorInv, OnlyTornPartial, Typing, StoreTypeOK
<1>2. QED
  BY <1>1, MirrorInvariant, PTL

\* What the manifest file calls downloaded it never calls anything else again.
THEOREM DownloadedKept == Spec => DownloadedStays
<1>1. MirrorInv /\ [Next]_vars =>
        [\A u \in Url : saved[u] = "downloaded" => saved'[u] = "downloaded"]_vars
  <2> SUFFICES ASSUME MirrorInv, Next, NEW u \in Url, saved[u] = "downloaded"
               PROVE  saved'[u] = "downloaded"
    OBVIOUS
  <2>1. entries[u] = "downloaded"
    BY DEF MirrorInv, Kept
  <2>2. ASSUME NEW w \in Worker, Work(w) PROVE saved' \in {saved, entries}
    BY <2>2 DEF Work, Take, Retry, Refuse, Receive, OpenObject, CloseObject, LoseObject,
                Record, Count, Save, SaveRaises, Then
  <2>3. saved' \in {saved, entries}
    BY <2>2 DEF Next, StartRun, Return, Fail, Kill
  <2>4. QED
    BY <2>1, <2>3
<1>2. QED
  BY <1>1, MirrorInvariant, PTL DEF Spec, DownloadedStays

\* In every state of the mirror the queue's count is what is queued or at work,
\* an end marker is queued for each worker that lives, what is processed,
\* queued or held makes up what the run has to do, and what the file lacks is
\* bounded by where the workers stand.
THEOREM CountingInvariant == Spec => []CountingInv
<1>1. Init => CountingInv
  <2>1. Init => Cleared
    BY MirrorAssumption DEF Init, Cleared
  <2>2. QED
    BY <2>1, ClearedCounting
<1>2. QED
  BY <1>1, MirrorInvariant, CountingStep, PTL DEF Spec

\* The type invariant, the counters in their ranges.
THEOREM MirrorTypeCorrect == Spec => []TypeOK
<1>1. MirrorInv /\ CountingInv => TypeOK
  <2> SUFFICES ASSUME MirrorInv, CountingInv PROVE TypeOK
    OBVIOUS
  <2>1. /\ IsFiniteSet(pending) /\ Cardinality(pending) \in Nat
        /\ IsFiniteSet(Active) /\ Cardinality(Active) \in Nat
        /\ IsFiniteSet(Holding) /\ Cardinality(Holding) \in Nat
        /\ IsFiniteSet(Live) /\ Cardinality(Live) \in Nat
    BY FS_Subset, FS_CardinalityType, MirrorAssumption
       DEF MirrorInv, Typing, Active, Holding, Live, In
  <2>2. Len(queue) \in Nat
    BY DEF MirrorInv, Typing
  <2>3. unfinished \in Nat
    BY <2>1, <2>2 DEF CountingInv, Counted
  <2>4. processed \in 0..Cardinality(pending)
    <3>1. CASE run = "stopped"
      BY <2>1, <3>1 DEF CountingInv, Accounted
    <3>2. CASE run # "stopped"
      <4>1. /\ processed + (Len(queue) - Cardinality(Live)) + Cardinality(Holding)
                  = Cardinality(pending)
            /\ Cardinality(Live) <= Len(queue) /\ processed \in Nat
        BY <3>2 DEF CountingInv, Accounted, Marked, Ranges
      <4>2. QED
        BY <2>1, <2>2, <4>1
    <3>3. QED
      BY <3>1, <3>2
  <2>5. QED
    BY <2>3, <2>4 DEF TypeOK, MirrorInv, Typing, CountingInv, Ranges
<1>2. QED
  BY <1>1, MirrorInvariant, CountingInvariant, PTL

\* A kill makes the mirror forget fewer than CheckpointEvery artifacts, besides
\* those between recording and checkpoint, and a checkpoint's worth for each
\* checkpoint that raised.
THEOREM KillForgetsLittle == Spec => []CheckpointLag
<1>1. CountingInv => CheckpointLag
  <2> DEFINE r == processed % CheckpointEvery
             raised == CheckpointEvery * Cardinality(In({"raised"}))
  <2> SUFFICES ASSUME CountingInv
               PROVE  Cardinality(Unsaved) <=
                          CheckpointEvery - 1 + Cardinality(InPhase("counting"))
                          + Cardinality(InPhase("saving"))
                          + CheckpointEvery * Cardinality(InPhase("raised"))
    BY DEF CheckpointLag
  <2>1. /\ InPhase("counting") = In({"counting"}) /\ InPhase("saving") = In({"saving"})
        /\ InPhase("raised") = In({"raised"})
    BY DEF InPhase, In
  <2>2. /\ IsFiniteSet(In({"counting"})) /\ Cardinality(In({"counting"})) \in Nat
        /\ IsFiniteSet(In({"saving"})) /\ Cardinality(In({"saving"})) \in Nat
        /\ IsFiniteSet(In({"raised"})) /\ Cardinality(In({"raised"})) \in Nat
    BY FS_Subset, FS_CardinalityType, MirrorAssumption DEF In
  <2>3. /\ r \in 0..(CheckpointEvery - 1) /\ raised \in Nat /\ CheckpointEvery \in Nat
    BY <2>2, MirrorAssumption DEF CountingInv, Ranges
  <2>4. CASE In({"saving"}) = {}
    <3>1. Cardinality(Unsaved) <= r + Cardinality(In({"counting"})) + raised
      BY <2>4 DEF CountingInv, Lagging
    <3> HIDE DEF r, raised
    <3>2. Cardinality(Unsaved) <= CheckpointEvery - 1 + Cardinality(In({"counting"}))
                                  + Cardinality(In({"saving"})) + raised
      BY <2>2, <2>3, <3>1, UnsavedFinite
    <3>3. QED
      BY <2>1, <3>2 DEF raised
  <2>5. CASE In({"saving"}) # {}
    <3>1. Cardinality(Unsaved) <= CheckpointEvery + Cardinality(In({"counting"})) + raised
      BY <2>5 DEF CountingInv, Lagging
    <3>2. Cardinality(In({"saving"})) # 0
      BY <2>2, <2>5, FS_EmptySet
    <3> HIDE DEF r, raised
    <3>3. Cardinality(Unsaved) <= CheckpointEvery - 1 + Cardinality(In({"counting"}))
                                  + Cardinality(In({"saving"})) + raised
      BY <2>2, <2>3, <3>1, <3>2, UnsavedFinite
    <3>4. QED
      BY <2>1, <3>3 DEF raised
  <2>6. QED
    BY <2>4, <2>5
<1>2. QED
  BY <1>1, CountingInvariant, PTL

\* A run that returned settled every artifact listed to it, and its file says so.
THEOREM ReturnedIsSettled == Spec => []ReturnSettles
<1>1. CountingInv => ReturnSettles
  BY DEF CountingInv
<1>2. QED
  BY <1>1, CountingInvariant, PTL
=============================================================================
