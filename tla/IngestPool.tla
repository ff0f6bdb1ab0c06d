----------------------------- MODULE IngestPool -----------------------------
(***************************************************************************)
(* The bodies of one meeting's documents, ingested by a pool of workers    *)
(* over an asyncio queue (local_ingest.py, _ingest_document_entries), in   *)
(* one run of ingest-manifests after another: a run may be killed, and the     *)
(* next one takes up what the tables do not show as settled.               *)
(*                                                                         *)
(* A worker is a coroutine: a step is what it does between two awaits that *)
(* matter to the others.  The document's rows and its status are written   *)
(* in one transaction, a failure's status in a second one.                 *)
(***************************************************************************)
EXTENDS Ordered, Integers

CONSTANTS
    Document,   \* matched document ids, ordered: positive naturals
    Pool,       \* the worker coroutines (settings.parsers.document_workers)
    Fault,      \* what may go wrong besides the document itself, see below
    MaxRuns     \* bound of the model on runs

\* "commit": the commit is carried out, its acknowledgement is lost.
\* "record": _record_document_failure raises; it loads the artifact once more
\*           and needs the database.
ASSUME PoolAssumption ==
    /\ Document \subseteq Nat \ {0}
    /\ IsFiniteSet(Document)
    /\ IsFiniteSet(Pool)
    /\ Fault \subseteq {"commit", "record"}
    /\ MaxRuns \in Nat

None == 0       \* the queue's end marker

VARIABLES
    table,      \* parse_status of each document's artifact, as committed
    body,       \* documents whose blocks and chunks are committed
    run,        \* where the coroutine that started the pool stands
    runs,       \* runs so far (bound of the model)
    pending,    \* pending_ids of this run
    queue,      \* the queue
    unfinished, \* its count of tasks not done
    worker,     \* what each worker is doing
    results     \* the results list

vars == <<table, body, run, runs, pending, queue, unfinished, worker, results>>

memory == <<runs, pending>>

-----------------------------------------------------------------------------
Settled == {"parsed", "quarantined", "not_applicable"}

Status == Settled \cup {"failed"}

Outcome == [tdoc_id : Document, status : Status]

Phase == {"off", "waiting", "ingesting", "recording", "reporting", "done", "raised"}

Call == [phase : Phase, doc : Document \cup {None}, status : Status \cup {"none"}]

Calling(phase) == [phase |-> phase, doc |-> None, status |-> "none"]

\* unfinished \in Nat: task_done is never called more often than put.
TypeOK ==
    /\ table \in [Document -> Status \cup {"none"}]
    /\ body \subseteq Document
    /\ run \in {"stopped", "joining", "returned"}
    /\ runs \in Nat
    /\ pending \subseteq Document
    /\ queue \in Seq(Document \cup {None})
    /\ unfinished \in Nat
    /\ worker \in [Pool -> Call]
    /\ results \subseteq Outcome

Init ==
    /\ table = [d \in Document |-> "none"]
    /\ body = {}
    /\ run = "stopped"
    /\ runs = 0
    /\ pending = {}
    /\ queue = <<>>
    /\ unfinished = 0
    /\ worker = [w \in Pool |-> Calling("off")]
    /\ results = {}

-----------------------------------------------------------------------------
\* mutant: only parsed documents are skipped
ToIngestUnparsed == {d \in Document : table[d] # "parsed"}

ToIngest == {d \in Document : table[d] \notin Settled}

\* mutant: one end marker for the whole pool
QueueOfOneMarker(documents) ==
    Ascending(documents) \o <<None>>

\* The documents in order, then an end marker for each worker.
QueueOf(documents) ==
    Ascending(documents) \o [i \in 1..Cardinality(Pool) |-> None]

StartRun ==
    /\ run # "joining"
    /\ runs < MaxRuns
    /\ runs' = runs + 1
    /\ run' = "joining"
    /\ pending' = ToIngest
    /\ queue' = QueueOf(ToIngest)
    /\ unfinished' = Len(QueueOf(ToIngest))
    /\ worker' = [w \in Pool |-> Calling("waiting")]
    /\ results' = {}
    /\ UNCHANGED <<table, body>>

-----------------------------------------------------------------------------
(* worker()                                                                 *)

At(w, phase) == run = "joining" /\ worker[w].phase = phase

\* finally: queue.task_done()
TaskDone == unfinished' = unfinished - 1

\* mutant: acknowledged when taken
TakeAcknowledged(w) ==
    /\ At(w, "waiting")
    /\ queue # <<>>
    /\ queue' = Tail(queue)
    /\ TaskDone
    /\ worker' = [worker EXCEPT ![w] =
                    IF Head(queue) = None THEN Calling("done")
                    ELSE [Calling("ingesting") EXCEPT !.doc = Head(queue)]]
    /\ UNCHANGED <<table, body, run, memory, results>>

Take(w) ==
    /\ At(w, "waiting")
    /\ queue # <<>>
    /\ queue' = Tail(queue)
    /\ IF Head(queue) = None
       THEN worker' = [worker EXCEPT ![w] = Calling("done")] /\ TaskDone
       ELSE /\ worker' = [worker EXCEPT ![w] =
                            [Calling("ingesting") EXCEPT !.doc = Head(queue)]]
            /\ UNCHANGED unfinished
    /\ UNCHANGED <<table, body, run, memory, results>>

Then(w, phase, status) ==
    /\ worker' = [worker EXCEPT ![w].phase = phase, ![w].status = status]
    /\ UNCHANGED <<run, memory, queue, unfinished, results>>

\* The document's rows are inserted without asking whether they are there
\* (assume_new), so the transaction fails when they are.
Store(w) ==
    LET d == worker[w].doc IN
    /\ At(w, "ingesting")
    /\ d \notin body
    /\ body' = body \cup {d}
    /\ table' = [table EXCEPT ![d] = "parsed"]
    /\ \/ Then(w, "reporting", "parsed")
       \/ "commit" \in Fault /\ Then(w, "recording", "failed")

\* It raises before its commit: unsafe, unsupported, or any other error.
Reject(w) ==
    /\ At(w, "ingesting")
    /\ \E status \in Status \ {"parsed"} : Then(w, "recording", status)
    /\ UNCHANGED <<table, body>>

\* mutant: the failure is reported, the row keeps its status
RecordNothing(w) ==
    /\ At(w, "recording")
    /\ Then(w, "reporting", worker[w].status)
    /\ UNCHANGED <<table, body>>

\* mutant: the failure is recorded under the status of the success
RecordAsParsed(w) ==
    LET d == worker[w].doc IN
    /\ At(w, "recording")
    /\ table' = [table EXCEPT ![d] = "parsed"]
    /\ Then(w, "reporting", "parsed")
    /\ UNCHANGED body

\* _record_document_failure
Record(w) ==
    LET d == worker[w].doc IN
    /\ At(w, "recording")
    /\ table' = [table EXCEPT ![d] = worker[w].status]
    /\ Then(w, "reporting", worker[w].status)
    /\ UNCHANGED body

\* It raises: the exception leaves the loop, and with it the worker.
RecordRaises(w) ==
    /\ At(w, "recording")
    /\ "record" \in Fault
    /\ TaskDone
    /\ worker' = [worker EXCEPT ![w] = Calling("raised")]
    /\ UNCHANGED <<table, body, run, memory, queue, results>>

\* mutant: a failed document is put back on the queue
ReportRequeued(w) ==
    LET again == worker[w].status = "failed" IN
    /\ At(w, "reporting")
    /\ results' = results \cup {[tdoc_id |-> worker[w].doc, status |-> worker[w].status]}
    /\ queue' = IF again THEN <<worker[w].doc>> \o queue ELSE queue
    /\ unfinished' = IF again THEN unfinished ELSE unfinished - 1
    /\ worker' = [worker EXCEPT ![w] = Calling("waiting")]
    /\ UNCHANGED <<table, body, run, memory>>

Report(w) ==
    /\ At(w, "reporting")
    /\ results' = results \cup {[tdoc_id |-> worker[w].doc, status |-> worker[w].status]}
    /\ TaskDone
    /\ worker' = [worker EXCEPT ![w] = Calling("waiting")]
    /\ UNCHANGED <<table, body, run, memory, queue>>

-----------------------------------------------------------------------------
\* await queue.join(), then gather the workers: it waits for all of them, or
\* for the first that raised.
Return ==
    /\ run = "joining"
    /\ unfinished = 0
    /\ (\A w \in Pool : At(w, "done")) \/ (\E w \in Pool : At(w, "raised"))
    /\ run' = "returned"
    /\ UNCHANGED <<table, body, memory, queue, unfinished, worker, results>>

\* The process is killed: only what was committed is left.
Kill ==
    /\ run = "joining"
    /\ run' = "stopped"
    /\ pending' = {}
    /\ queue' = <<>>
    /\ unfinished' = 0
    /\ worker' = [w \in Pool |-> Calling("off")]
    /\ results' = {}
    /\ UNCHANGED <<table, body, runs>>

Work(w) ==
    \/ Take(w)
    \/ Store(w) \/ Reject(w)
    \/ Record(w) \/ RecordRaises(w)
    \/ Report(w)

Next == StartRun \/ Return \/ Kill \/ \E w \in Pool : Work(w)

Spec == Init /\ [][Next]_vars

\* The event loop resumes every coroutine that can go on, and the parser and
\* the database answer; nothing obliges anyone to start or to kill a run.
Fairness == WF_vars(Return) /\ \A w \in Pool : WF_vars(Work(w))

FairSpec == Spec /\ Fairness

-----------------------------------------------------------------------------
(* Safety.                                                                  *)

\* What the table calls parsed has its body stored, whatever was killed or
\* failed in between: the readiness assessment counts these rows as covered.
ParsedHasBody == \A d \in Document : table[d] = "parsed" => d \in body

\* A document is worked on once per run: by one worker, after which it is
\* neither queued nor reported a second time.
OncePerRun ==
    /\ \A v, w \in Pool : worker[v].doc = worker[w].doc /\ worker[v].doc # None => v = w
    /\ \A r, s \in results : r.tdoc_id = s.tdoc_id => r = s
    /\ \A w \in Pool, r \in results : worker[w].doc # r.tdoc_id

\* The summary of a run that returned accounts for every pending document, and
\* says of each what the table says.
ReturnIsComplete ==
    run = "returned" =>
        \A d \in pending :
            [tdoc_id |-> d, status |-> table[d]] \in results

\* A settled document is settled for good: neither the rest of its run nor a
\* resumed run changes it, except for the call that has just stored it and was
\* told that it failed.
SettledStays ==
    [][\A d \in Document :
         table[d] \in Settled /\ table'[d] # table[d] =>
            \E w \in Pool : worker[w].doc = d /\ worker[w].phase = "recording"]_vars

-----------------------------------------------------------------------------
(* Liveness.                                                                *)

\* A started run ends, by returning or by being killed, unless recording a
\* failure failed itself: every document is taken, every worker finds its end
\* marker, and the count of unfinished tasks reaches zero.
RunEnds == run = "joining" ~> run # "joining" \/ \E w \in Pool : worker[w].phase = "raised"
=============================================================================
