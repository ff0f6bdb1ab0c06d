------------------------------- MODULE Mirror -------------------------------
(***************************************************************************)
(* mirror_working_group (mirror.py): the artifacts that the source lists   *)
(* are downloaded by a pool of workers over an asyncio queue into the      *)
(* object store, and what became of each is kept in a manifest, a file     *)
(* that is replaced as a whole after every CheckpointEvery artifacts.  A   *)
(* run may be killed; the next one reads the file and takes up what it     *)
(* does not show as downloaded.                                            *)
(*                                                                         *)
(* A worker is a coroutine: a step is what it does between two awaits      *)
(* that matter to the others.  The lock guards the entries and the         *)
(* counters; it is held across an await only while the file is written.    *)
(***************************************************************************)
EXTENDS ObjectStore, Integers, Sequences, FiniteSets, Functions

CONSTANTS
    Url,             \* the artifacts
    Order,           \* the order in which the source lists those of a set
    Worker,          \* max_concurrency coroutines, each a Client of the store
    ObjectOf,        \* key of each artifact's content; two may have one
    CheckpointEvery, \* the 25 of the code
    Retries,         \* settings.http.retries
    Fault,           \* see below
    MaxRuns          \* bound of the model on runs

None == "end"       \* the queue's end marker

\* "write": writing an object raises; "save": writing the manifest raises.
ASSUME MirrorAssumption ==
    /\ None \notin Url
    /\ IsFiniteSet(Url)
    /\ Order \in [SUBSET Url -> Seq(Url)]
    /\ \A S \in SUBSET Url : IsInjective(Order[S]) /\ Range(Order[S]) = S
    /\ IsFiniteSet(Worker)
    /\ Worker = Client
    /\ ObjectOf \in [Url -> Object]
    /\ CheckpointEvery \in Nat \ {0}
    /\ Retries \in Nat
    /\ Fault \subseteq {"write", "save"}
    /\ MaxRuns \in Nat

VARIABLES
    saved,      \* entries of the manifest file
    entries,    \* entries in memory
    run,        \* where mirror_working_group stands
    runs,       \* runs so far (bound of the model)
    listed,     \* artifacts that the source lists to this run
    pending,    \* those to download
    queue,      \* the queue
    unfinished, \* its count of tasks not done
    processed,  \* counters["processed"]
    worker      \* what each worker is doing

vars == <<storeVars, saved, entries, run, runs, listed, pending, queue,
          unfinished, processed, worker>>

plan == <<runs, listed, pending>>

-----------------------------------------------------------------------------
Entry == {"none", "downloaded", "failed"}

Phase == {"off", "waiting", "requesting", "storing", "recording", "counting",
          "saving", "done", "raised"}

\* What a worker does, with which artifact, in which attempt at downloading
\* it, and the status it is about to record.
Task == [phase : Phase, url : Url \cup {None}, attempt : Nat, status : Entry]

Doing(phase) == [phase |-> phase, url |-> None, attempt |-> 0, status |-> "none"]

Fetching(u) == [phase |-> "requesting", url |-> u, attempt |-> 1, status |-> "none"]

TypeOK ==
    /\ StoreTypeOK
    /\ saved \in [Url -> Entry]
    /\ entries \in [Url -> Entry]
    /\ run \in {"stopped", "joining", "returned", "failed"}
    /\ runs \in 0..MaxRuns
    /\ listed \subseteq Url
    /\ pending \subseteq listed
    /\ queue \in Seq(Url \cup {None})
    /\ unfinished \in Nat
    /\ processed \in 0..Cardinality(pending)
    /\ worker \in [Worker -> Task]

Init ==
    /\ StoreInit
    /\ saved = [u \in Url |-> "none"]
    /\ entries = [u \in Url |-> "none"]
    /\ run = "stopped"
    /\ runs = 0
    /\ listed = {}
    /\ pending = {}
    /\ queue = <<>>
    /\ unfinished = 0
    /\ processed = 0
    /\ worker = [w \in Worker |-> Doing("off")]

-----------------------------------------------------------------------------
\* mutant: a run always downloads everything that is listed
FetchAll(urls) == urls

\* Skipped is what the manifest shows as downloaded and the store still has.
ToDownload(urls) ==
    {u \in urls : ~(saved[u] = "downloaded" /\ Exists(ObjectOf[u]))}

\* mutant: one end marker for the whole pool
QueueOfOneMarker(urls) == Order[urls] \o <<None>>

\* The artifacts as listed, then an end marker for each worker.
QueueOf(urls) == Order[urls] \o [i \in 1..Cardinality(Worker) |-> None]

\* What the source lists to this run, and the manifest as the file has it:
\* entries of artifacts that are no longer listed stay.
StartRun ==
    /\ run # "joining"
    /\ runs < MaxRuns
    /\ runs' = runs + 1
    /\ run' = "joining"
    /\ entries' = saved
    /\ listed' \in (SUBSET Url) \ {{}}
    /\ pending' = ToDownload(listed')
    /\ queue' = QueueOf(pending')
    /\ unfinished' = Len(queue')
    /\ processed' = 0
    /\ worker' = [w \in Worker |-> Doing("waiting")]
    /\ UNCHANGED <<storeVars, saved>>

-----------------------------------------------------------------------------
(* worker()                                                                 *)

At(w, phase) == run = "joining" /\ worker[w].phase = phase

\* finally: queue.task_done()
TaskDone == unfinished' = unfinished - 1

\* async with lock
LockFree == \A w \in Worker : worker[w].phase # "saving"

\* mutant: acknowledged when taken, and again when done
TakeAcknowledged(w) ==
    /\ At(w, "waiting")
    /\ queue # <<>>
    /\ queue' = Tail(queue)
    /\ TaskDone
    /\ worker' = [worker EXCEPT ![w] =
            IF Head(queue) = None THEN Doing("done") ELSE Fetching(Head(queue))]
    /\ UNCHANGED <<storeVars, saved, entries, run, plan, processed>>

Take(w) ==
    /\ At(w, "waiting")
    /\ queue # <<>>
    /\ queue' = Tail(queue)
    /\ IF Head(queue) = None
       THEN worker' = [worker EXCEPT ![w] = Doing("done")] /\ TaskDone
       ELSE worker' = [worker EXCEPT ![w] = Fetching(Head(queue))] /\ UNCHANGED unfinished
    /\ UNCHANGED <<storeVars, saved, entries, run, plan, processed>>

Then(w, phase, status) ==
    /\ worker' = [worker EXCEPT ![w].phase = phase, ![w].status = status]
    /\ UNCHANGED <<saved, entries, run, plan, queue, unfinished, processed>>

\* The transport fails, or the source answers 429 or 5xx.
Retry(w) ==
    /\ At(w, "requesting")
    /\ worker[w].attempt <= Retries
    /\ worker' = [worker EXCEPT ![w].attempt = @ + 1]
    /\ UNCHANGED <<storeVars, saved, entries, run, plan, queue, unfinished, processed>>

\* The last attempt fails, the answer is another error or "not modified", or
\* the artifact is too large or an unsafe archive.
Refuse(w) ==
    /\ At(w, "requesting")
    /\ Then(w, "recording", "failed")
    /\ UNCHANGED storeVars

\* mutant: the entry is recorded while the object is being written
ReceiveUnwritten(w) ==
    /\ At(w, "requesting")
    /\ Then(w, "recording", "downloaded")
    /\ UNCHANGED storeVars

\* The download succeeds, and put looks for the object.
Receive(w) ==
    LET k == ObjectOf[worker[w].url] IN
    /\ At(w, "requesting")
    /\ \/ PutExisting(k) /\ Then(w, "recording", "downloaded")
       \/ PutSchedule(w, k) /\ Then(w, "storing", "none")

OpenObject(w) ==
    /\ At(w, "storing")
    /\ PutOpen(w)
    /\ UNCHANGED <<saved, entries, run, plan, queue, unfinished, processed, worker>>

CloseObject(w) ==
    /\ At(w, "storing")
    /\ PutComplete(w)
    /\ Then(w, "recording", "downloaded")

LoseObject(w) ==
    /\ At(w, "storing")
    /\ "write" \in Fault
    /\ PutFail(w)
    /\ Then(w, "recording", "failed")

\* mutant: only a success is recorded
RecordSuccess(w) ==
    /\ At(w, "recording")
    /\ LockFree
    /\ entries' = IF worker[w].status = "failed" THEN entries
                  ELSE [entries EXCEPT ![worker[w].url] = worker[w].status]
    /\ worker' = [worker EXCEPT ![w].phase = "counting"]
    /\ UNCHANGED <<storeVars, saved, run, plan, queue, unfinished, processed>>

\* entries[artifact.url] = ..., under the lock.
Record(w) ==
    /\ At(w, "recording")
    /\ LockFree
    /\ entries' = [entries EXCEPT ![worker[w].url] = worker[w].status]
    /\ worker' = [worker EXCEPT ![w].phase = "counting"]
    /\ UNCHANGED <<storeVars, saved, run, plan, queue, unfinished, processed>>

\* mutant: one checkpoint in two is skipped
EveryOther(n) == n % (2 * CheckpointEvery) = 0 \/ n = Cardinality(pending)

CheckpointDue(n) == n % CheckpointEvery = 0 \/ n = Cardinality(pending)

\* processed += 1, under the lock, which is kept for a checkpoint that is due.
Count(w) ==
    /\ At(w, "counting")
    /\ LockFree
    /\ processed' = processed + 1
    /\ IF CheckpointDue(processed')
       THEN worker' = [worker EXCEPT ![w].phase = "saving"] /\ UNCHANGED unfinished
       ELSE worker' = [worker EXCEPT ![w] = Doing("waiting")] /\ TaskDone
    /\ UNCHANGED <<storeVars, saved, entries, run, plan, queue>>

\* _write_manifest: a temporary file, then a rename.
Save(w) ==
    /\ At(w, "saving")
    /\ saved' = entries
    /\ TaskDone
    /\ worker' = [worker EXCEPT ![w] = Doing("waiting")]
    /\ UNCHANGED <<storeVars, entries, run, plan, queue, processed>>

\* It raises: the exception leaves the loop, and with it the worker.
SaveRaises(w) ==
    /\ At(w, "saving")
    /\ "save" \in Fault
    /\ TaskDone
    /\ worker' = [worker EXCEPT ![w] = Doing("raised")]
    /\ UNCHANGED <<storeVars, saved, entries, run, plan, queue, processed>>

-----------------------------------------------------------------------------
\* queue.join() and the workers are done.
Joined ==
    /\ run = "joining"
    /\ unfinished = 0
    /\ \A w \in Worker : worker[w].phase \in {"done", "raised"}

\* The summary is written with the entries.
Return ==
    /\ Joined
    /\ \A w \in Worker : worker[w].phase = "done"
    /\ saved' = entries
    /\ run' = "returned"
    /\ UNCHANGED <<storeVars, entries, plan, queue, unfinished, processed, worker>>

\* A worker raised, or writing the summary does.
Fail ==
    /\ Joined
    /\ \/ \E w \in Worker : worker[w].phase = "raised"
       \/ "save" \in Fault
    /\ run' = "failed"
    /\ UNCHANGED <<storeVars, saved, entries, plan, queue, unfinished, processed, worker>>

\* The process is killed: the file and the objects are left.
Kill ==
    /\ run = "joining"
    /\ PutsLost
    /\ run' = "stopped"
    /\ entries' = saved
    /\ listed' = {}
    /\ pending' = {}
    /\ queue' = <<>>
    /\ unfinished' = 0
    /\ processed' = 0
    /\ worker' = [w \in Worker |-> Doing("off")]
    /\ UNCHANGED <<saved, runs>>

Work(w) ==
    \/ Take(w)
    \/ Retry(w) \/ Refuse(w) \/ Receive(w)
    \/ OpenObject(w) \/ CloseObject(w) \/ LoseObject(w)
    \/ Record(w) \/ Count(w)
    \/ Save(w) \/ SaveRaises(w)

Next == StartRun \/ Return \/ Fail \/ Kill \/ \E w \in Worker : Work(w)

Spec == Init /\ [][Next]_vars

\* The event loop resumes every coroutine that can go on, the file system and
\* the source answer or time out; nothing obliges anyone to start or to kill
\* a run.
Fairness == WF_vars(Return \/ Fail) /\ \A w \in Worker : WF_vars(Work(w))

FairSpec == Spec /\ Fairness

-----------------------------------------------------------------------------
(* Safety.                                                                  *)

\* An artifact that the manifest file calls downloaded has its object stored
\* whole, unless a write of that very object never finished or still goes on:
\* put takes any file of that name for the object, after a restart too.
DownloadedIsWhole ==
    \A u \in Url : saved[u] = "downloaded" =>
        LET k == ObjectOf[u] IN object[k] = "whole" \/ k \in torn \/ BeingWritten(k)

\* What a kill makes the mirror forget is bounded: fewer than CheckpointEvery
\* artifacts, besides those of workers that stand between recording and
\* checkpoint, and a checkpoint's worth for each that failed.
Unsaved == {u \in Url : entries[u] # saved[u]}

InPhase(phase) == {w \in Worker : worker[w].phase = phase}

CheckpointLag ==
    run = "joining" =>
        Cardinality(Unsaved) <=
            CheckpointEvery - 1 + Cardinality(InPhase("counting"))
            + Cardinality(InPhase("saving"))
            + CheckpointEvery * Cardinality(InPhase("raised"))

\* A run that returned settled every artifact listed to it, and its file says
\* so; what the file still calls failed was tried in this run or is no longer
\* listed, and keeps ingest-manifests from accepting the file.
ReturnSettles ==
    run = "returned" =>
        /\ saved = entries
        /\ processed = Cardinality(pending)
        /\ \A u \in listed : saved[u] # "none"
        /\ \A u \in Url : saved[u] = "failed" => u \in pending \/ u \notin listed

\* What the file calls downloaded it never calls anything else again: neither
\* a kill between two checkpoints, nor a failure, nor a later run takes it back.
DownloadedStays ==
    [][\A u \in Url : saved[u] = "downloaded" => saved'[u] = "downloaded"]_vars

-----------------------------------------------------------------------------
(* Liveness.                                                                *)

\* A started run ends, by returning, by raising or by being killed, unless a
\* checkpoint could not be written: then a worker is gone with its end marker
\* still queued, and join() waits for ever.
MirrorEnds == run = "joining" ~> run # "joining" \/ InPhase("raised") # {}
=============================================================================
