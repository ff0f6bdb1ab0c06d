# A formal model of 3GPP-KG

3GPP-KG turns the meeting documents of 3GPP working groups into a knowledge graph with evidence:
operators download and ingest meetings into *dataset versions*, publish one of them, and a service
answers queries from the published version. This directory holds TLA+ models of that code, TLC
configurations that check them on small instances, and TLAPS proofs of the main results for every
instance. Every definition that stands for code is listed with its lines under `map` in
`PROJECT.json`; paths below are relative to the repository, Python files to `src/threegpp_kg/`.

## Inventory

| Component | State it keeps | Operations | What makes it hard | What makes it correct |
|---|---|---|---|---|
| Job scheduler (`scheduler.py`) | `jobs` rows: state, attempts, available_at, lease | `enqueue_job`, `lease_next_job`, `finish_leased_job`, `retry_leased_job`, `JobWorker.run_once` | workers in several processes, leases that expire under a running handler, deaths, late reports, idempotent submission | one unexpired lease per job, one row per key, exact dead-lettering, outcomes only under the present lease, every job settles |
| Dataset life cycle (`publisher.py`, `backfill.py`, `local_ingest.py`, `graph_repair.py`, `cli.py`, `ingestion/pipeline.py`) | `dataset_versions` rows (state, is_active) and the meetings stored under each | `backfill [--activate]`, `ingest-manifests`, `rebuild-graph`, `activate-dataset` | check in one transaction and write in a later one, overlapping commands, READ COMMITTED, stale identity map, deaths half-way | one current version, complete, immutable, never none once there was one |
| Ingestion worker pool (`local_ingest.py`) | asyncio queue, results list, `parse_status` and bodies | `_ingest_document_entries`, `_record_document_failure` | shared queue, failure of the failure path, killed and resumed runs, lost commit acknowledgements | each document once per run, what is called parsed has its body, a run's summary is complete, a run ends |
| Meeting ingestion (`local_ingest.py`, `backfill.py`, `ingestion/pipeline.py`, `ingestion/normalize.py`) | meetings, TDocs, artifacts, blocks, chunks, graph facts of one meeting | workbook, reports, dates, duplicates, orphans | ids that depend on content or only on a name, `assume_new`, two runs at a time, a TDoc listed by two meetings | resumable, every file accounted for, dates agree, graph facts follow the rows |
| Source mirror (`mirror.py`) | download manifest (JSON file) | `mirror_working_group`, checkpoints | worker pool, checkpoint every 25 entries, crash and resume, entries no longer listed | what is called downloaded is stored whole and stays so, a kill forgets a bounded number, a run that returns has settled what was listed |
| Object store (`storage/object_store.py`) | files named by content hash | `put`, `get` | in-place write, existing path skipped, concurrent writers | what `get` returns has the hash asked for |
| Downloader (`ingestion/download.py`) | semaphore, rate-limit clock | `download` | limits shared by coroutines, retries | spacing and concurrency stay within the settings |
| Repository and service (`repository.py`, `service.py`) | none of its own; reads several times per request | search, get_tdoc, list_meetings, graph, chain | an activation between two reads of one request, pagination by offset, cyclic revision links | a response speaks of one version, pages do not overlap, walks end |
| Algorithms (`ingestion/chunking.py`, `ingestion/blocks.py`, `retrieval.py`, `graph_view.py`, `graph.py`, `topics.py`) | none | evidence blocks, chunks, section tree, revision chains, rank fusion, views, validation | boundaries, ties, cycles | no word lost or moved, limits kept, walks end, agreement with a reference definition |
| Token validation (`security.py`) | JWKS cache | `validate`, refresh | an unknown key id clears the cache for all | a known key stays usable |
| HTTP, MCP, newsletter, model client, parsers, source adapters, scripts, web client | none | — | — | not modelled: no state, or pure input and output |

How they interact. Operators' commands and readers meet only in PostgreSQL: commands write dataset
versions and their content, readers resolve the version with `is_active` on every repository call.
Within one command a pool of coroutines shares a queue. The mirror hands its manifest (a file) and
the objects it names to `ingest-manifests`. The scheduler is a library: its table is shared by
worker processes, its handlers are supplied by the caller. `hazards` in `PROJECT.json` lists, line
by line, what can go wrong in these interactions and which property is there to catch it.

## Modules

| Module | Stands for |
|---|---|
| `JobScheduler` | the `jobs` table, producers and workers |
| `JobQueue` | what the table promises those who submit jobs and those who run them (abstract) |
| `DatasetPublication` | the life cycle of dataset versions under several operators |
| `AtomicPublication` | what publication promises (abstract) |
| `IngestPool` | the worker pool over one meeting's documents, in one run after another |
| `ReadRequest` | one request of the service as a sequence of repository calls, while versions are built and published |
| `ObjectStore` | files named by content, and the threads that write them |
| `Mirror` | the download pool over the store, its manifest, and one run after another |
| `MeetingIngest` | what `ingest-manifests` and `rebuild-graph` make of changing manifests, transaction by transaction |
| `Revisions` | cycle search and chains over revision links, as operators |
| `Ordered` | sets as sequences: what `sorted` makes of ids, and what `ORDER BY` may make of rows by a key that ties |
| `EvidenceBlocks` | from a document's elements to evidence blocks, chunks and the section tree |
| `MC*` | instances for TLC: sets, the key function, symmetry |
| `JobSchedulerProofs`, `PublicationProofs`, `IngestPoolProofs`, `ReadRequestProofs`, `MirrorProofs`, `MeetingIngestProofs`, `EvidenceBlocksProofs`, `OrderedProofs` | the theorems; `OrderedProofs` holds what is about sets, orders and recursion and no component |

Definitions called *mutant* in the modules are not used by any specification: each is a plausible
mistake in the definition below it, and the property it is listed with in `PROJECT.json` fails when
the definition is replaced by it.

### JobScheduler

| Model | Code |
|---|---|
| `job[j]` (`state`, `attempts`, `available_at`, `leased_until`, `leased_by`) | `JobRow`; `"absent"` is no row |
| `lock[j]` | the PostgreSQL row lock of an open transaction (`FOR UPDATE`) |
| `producer[p]` | the id a caller has looked up and is about to insert |
| `worker[w]` | where `run_once` stands, which row it has, which lease it was given |
| `EnqueueLookup`, `EnqueueInsert` | the two statements of `enqueue_job`; the insert fails on either unique constraint |
| `LeaseSelect`, `LeaseCommit` | `SELECT … FOR UPDATE SKIP LOCKED LIMIT 1` with its order, and the commit of that transaction |
| `Handle` | the handler's return or exception (also the missing handler) |
| `RecordLock`, `FinishCommit`, `RetryCommit` | the second transaction: row lock, ownership check, write, commit |
| `Crash` | death or cancellation at any point: the open transaction is rolled back |
| `Tick` | time |

Abstracted: payload, `last_error`, job types. One clock serves all workers and counts in ticks; the
lease, the 30-second backoff unit and its 3600-second cap are constants. Several jobs of one key
model callers that make up an id each.

`JobQueue` has no locks, transactions or phases: `Submit`, `Give`, `Finish`, `Fail`, `Abandon` and `Pass` are one
step each, and `serving[w]` is the job a worker was given and until when. `JobScheduler` refines it with `serving`
mapped to the lease a worker holds while its handler runs or its outcome has yet to be recorded; looking up, selecting
a row, locking it and failing to insert are then stutters. The end of a lease is fixed when the row is selected and written when the transaction
commits, so `Give` allows any end up to `now + LeaseTicks`; and `Fail` bounds the next due time by
`now + BackoffCap`, since the prover knows nothing of the power in the code's backoff.
The pure functions on the `Job` dataclass (`lease_job`, `complete_job`, `fail_job`) state the guards of these
actions for the tests that call them; no worker does, and they are not mapped.

### DatasetPublication and AtomicPublication

| Model | Code |
|---|---|
| `row[d]` | committed `DatasetVersionRow.state` and `is_active` |
| `stored[d]` | committed content: of each meeting whether it is there and fit, and the counts of TDocs over the whole version |
| `lock[d]` | the row lock of an activation's transaction |
| `op[o]` | the command an operator runs: its step, dataset, the state it last read (`saw`, the session's identity map), the meetings of this run (`taken`) and whether they passed, and the progress of the activation's `UPDATE` |
| `StartBuild`, `Mark`, `IngestMeeting`, `FinishIngest` | `run_backfill` and `ingest_local_manifests` |
| `ValidateRead`, `ValidateCommit` | `validate_dataset` and the commit around it |
| `StartRebuild`, `RebuildCommit` | `rebuild_graph` (one transaction) |
| `StartActivate`, `Assess` | `assess_activation_readiness` |
| `ActivateLock`, `ActivateSnapshot`, `ActivateRetire`, `ActivateCommit` | `activate_dataset`: lock the candidate, `UPDATE … WHERE is_active` row by row, write the candidate, commit |
| `Abort` | an exception, a kill, or PostgreSQL's choice of a deadlock's victim |

The content keeps what the gate of `activate-dataset` reads. Some of it is asked of every meeting: it is `fit` when it
is dated, has a parsed report and no artifact of an invalid status, else `unfit`. The rest is asked of the version
as a whole: `tally` counts the TDocs listed, those of them that are actionable, and of these those with an archive and
those with a body, parsed or quarantined; `Covered` is the 99.5 % of `publisher.py:103-126`. Hence a small meeting
without any archive or body passes the gate beside enough covered ones, and `PublishedComplete` says no more
than that. A transaction may change the counts to any of `Tally` that lists no fewer TDocs. The
assessment's nine statements are one step. A row's `saw` matters: `activate-dataset` assesses and
activates in one session, and `SELECT … FOR UPDATE` does not refresh an object already loaded, so
`activate_dataset` compares the state seen by the assessment.

`AtomicPublication` has one `current` version. A step builds a version that is not current or
publishes one whose content is in the constant `Publishable`. `DatasetPublication` refines it with `current` mapped to the version with
`is_active`, `contents` to `stored` and `Publishable` to what the gate lets through.

### IngestPool

| Model | Code |
|---|---|
| `table[d]`, `body` | committed `parse_status` and the documents whose blocks are committed |
| `queue`, `unfinished` | the asyncio queue and the count behind `join()` |
| `worker[w]` | what a worker coroutine is doing, with which document and outcome |
| `results` | the list the pool returns |
| `StartRun`, `Return`, `Kill` | the coroutine that owns the pool, and the death of the process |
| `Take`, `Store`, `Reject`, `Record`, `RecordRaises`, `Report` | `worker()` between its awaits |

A run with nothing pending still starts its pool here; the code then has the same empty queue with
its end markers. Two faults are switched on by a constant: a commit carried out whose
acknowledgement is lost, and a `_record_document_failure` that raises.

### ReadRequest

Composed with publication by `INSTANCE AtomicPublication`: what changes under a request is exactly
what serial commands may do, which `PublicationProofs` shows they implement.

| Model | Code |
|---|---|
| `Program[kind]` | the repository calls of each operation of `KnowledgeService`, in order |
| `Resolve` | `active_dataset_version`, at the beginning of every repository call; raises when there is none |
| `Find`, `Detail`, `ReadPage`, `ReadPassages`, `ReadEvidence` | the query of a call, against what the version holds at that moment |
| `ReadScope`, `ReadMember` | `_working_group_scope`: pages until there is no cursor, then the gathered `meeting_tdocs` |
| `ReadLabel` | the call that gives the answer its `dataset_version` |
| `request.used`, `cited`, `evidence`, `label` | versions whose rows are in the answer, evidence ids found, evidence returned, version named |
| `during` | history: the versions that were current since the request began |

Filters match everything, a meeting stands for its TDocs, and of a row only its `Position` is kept, the value of
`ends_on` and `number` by which `list_meetings` orders; otherwise the properties ask from which version a row is. Resolving and querying are two steps, because a version
that was current may be rebuilt after another took its place. Positions may be equal: variants of one number that end on one day, and meetings without dates (which only
`backfill --activate` lets become current). Rows that tie come in any order, chosen anew by each query (`Listings`), so a listing
in pages may skip one of them and repeat another: that every meeting is listed does *not* hold. What holds
of a request that no activation overlaps is `QuietScopeUpToTies`: as many rows as meetings, in each place
one that ties with the row a single query has there, hence each meeting that ties with no other exactly once.
Preview mode (a fixed version) is left out.

### ObjectStore and Mirror

| Model | Code |
|---|---|
| `object[k]` | the file of a key: absent, partly written, whole |
| `put[c]` | a coroutine's `put` that found no file: its thread has yet to open it, or has it open |
| `torn` | history: keys of which a write broke off |
| `saved`, `entries` | `artifacts` of the manifest file and of the dictionary in memory |
| `queue`, `unfinished`, `processed` | the asyncio queue, the count behind `join()`, `counters["processed"]` |
| `StartRun` | reading the manifest and choosing what is pending; `listed` is what discovery found |
| `Take`, `Retry`, `Refuse`, `Receive`, `Record`, `Count`, `Save`, `SaveRaises` | `worker()` between its awaits, with the attempts of `SafeDownloader.download` |
| `OpenObject`, `CloseObject`, `LoseObject` | `path.write_bytes` in its thread |
| `Return`, `Fail`, `Kill` | after `join()`, the final summary; the death of the process |

The manifest's file is replaced by a rename, so that it is always whole; objects are written in place, so that
they are not. An object in part is found by `ingest-manifests` through its hash (`local_ingest.py:577`), and by
nothing before. The content behind a URL does not change between two runs of the model: one that changes
has another hash, hence another object, and its entry is made again only if the old one is missing.
`Order` is the order of discovery. Time, the semaphore and the spacing of requests are left out.

### MeetingIngest and Revisions

| Model | Code |
|---|---|
| `run` | the command: which step of `_ingest_local_meeting` it is at, the meeting, the files still to go through, and the dates it takes the meeting to have (`run.date`) |
| `date`, `row`, `artifact`, `body`, `evidence`, `node`, `edge` | the committed rows of one dataset version |
| `Source`, `Given` | files with what the parser makes of them; what a manifest says at the time of a run |
| `OpenMeeting`, `IngestIndex`, `StoreOther` | `persist_meeting`, `ingest_tdoc_workbook`, `persist_raw_artifact`, each with its commit |
| `SkipReport`, `StoreReport`, `FailReport`, `UndoReport` | `_ingest_report` and its second transaction when the first fails |
| `FinishReports` | `_recover_persisted_report_dates` and the choice of documents |
| `StoreDocument`, `RefuseDocument`, `StoreLeftOver` | the bodies, further copies and archives without a row |
| `Validate`, `RebuildGraph` | `validate_dataset`; `rebuild_graph` |
| `Stop` | a kill or an exception between two transactions |

The graph keeps containment and revision edges and TDoc nodes; other facts of a TDoc are written and dated by
the same statements. A document has at least one block, so that a second body under its id meets a unique
constraint. `misread` and `amended` are histories for the exceptions that `Dated` and `GraphFollowsRows`
name: a run that keeps a date whose transaction failed (`local_ingest.py:531-536`), and a later index that
gives other links to a TDoc whose row is kept (`pipeline.py:271-279`), whose `revises` edges then are in the
stored graph and not in the view until the graph is rebuilt.

`Dated` says of a meeting that a run leaves that nothing of it is undated. It excepts a meeting of which a report
was undone after its date was read, even when that is the date the meeting has: the run has the date in
memory, so that no later report of it calls `update_meeting_dates`, and what a changed index added before stays
without a date until a later run dates the meeting again. The proof failed at this step, and an instance with a
second, undone report of the right date (`Minutes` in `MCMeetingIngest`) shows it.

`Revisions` holds the three walks of the code over revision links and the depth-first search of
`validate_graph`, as recursive functions. `RevisionWalks` compares them on every set of rows the run produces:
circles, links that point one way only, links that lead out; it also says that a validated version has no circle,
which is a statement about the search, whereas `GraphFollowsRows` says that a validated version still passes the search.

### EvidenceBlocks

| Model | Code |
|---|---|
| `document` | the parser's elements: kind, section path, number of words |
| `group`, `blocks` | `current` and `result` of `coalesce_evidence_blocks` |
| `current`, `chunks` | the same of `build_chunks` |
| `ReadElement`, `EndDocument` | one turn of the first loop, and the last flush |
| `ChunkBlock`, `EndChunks` | one turn of the second loop, and the last flush |
| `SectionTree`, `ChildCount` | `_build_section_tree` |

A word is its place in the document. `estimate_tokens` is computed as the code does, 1.3 tokens a word rounded
down. Identifiers and the digests they are made of are left out.

## Runs

| Run | Instance | Shows |
|---|---|---|
| `job_safety` | 3 submissions (2 of one key), 2 producers, 2 workers, lease 1 tick, 2 attempts, clock to 3, 1 crash | leases expire under running handlers, late reports meet a row that was taken over, both racing inserts happen; the safety and action properties hold, and the table implements `JobQueue` |
| `job_liveness` | as above with 1 producer, `Timely` | every job settles |
| `publication_concurrent` | 2 versions, 1 meeting, 2 operators, all commands, any overlap | columns agree, no empty version is current, readers always find one |
| `publication_serial` | 2 versions, 2 meetings, 2 operators, one command at a time, no `backfill --activate`; counts on both sides of 99.5 % | one immutable version that is complete as the gate has it; refinement of `AtomicPublication` |
| `publication_two_active` | 2 versions, 2 operators, overlapping commands | two current versions, below |
| `publication_ungated` | 2 versions, 2 meetings, 2 operators, one command at a time | a version becomes current with an unfit meeting of an earlier run, below |
| `pool_runs` | 3 documents, 2 workers, 2 runs, both faults | the pool's safety, and that a run ends |
| `read_requests` | 2 versions, 2 meetings of 2 positions, pages of 1, every operation | a request that no activation overlaps is answered from one version with all its evidence, and lists a group up to ties; whatever happens, only versions that were current are read; every request ends |
| `read_passages` | the same, passages only | rows of a version that was never published, below |
| `corpus_mirror` | 3 artifacts, 2 of which are one object, 2 workers, checkpoints of 2, 1 retry, 2 runs, both faults | the manifest never calls downloaded what is not stored, except for objects of which a write broke off; what a kill forgets is bounded; a run ends unless a checkpoint cannot be written |
| `meeting_ingest` | 2 meetings, 3 TDocs, 15 files, 5 manifests, 2 runs over any meetings, failing commits | dates agree, every file is accounted for, the stored graph is that of the rows, the walks over revisions end and agree |
| `evidence_blocks` | every document of up to 4 elements of 0, 3 or 9 words, 3 kinds, 2 sections; blocks of 6 tokens, chunks of 2, 4 and 5 | no word lost, repeated or moved; limits kept; sections kept apart |

Bounds. Two workers (operators) suffice for the races, which are all between a holder and one
rival; a third would only repeat the rival. Three ticks with a lease of one let a lease expire,
be taken over, expire again, and a first retry come due; two attempts reach the dead letter through
a retry. Two versions are what the second activation of a pair needs; three operators would be
needed for nothing that two do not show. Two meetings are needed in the serial run, where one is
fit and the other is not, and in `publication_ungated`, where they are of two runs; the concurrent properties only ask
whether there is any. The serial run's counts are 0 of 1 TDoc, 199 of 200, which is 99.5 % exactly, and 199 of 200 with
198 bodies; the other runs ask nothing of the counts and have one covered TDoc or none. Three documents
over two workers bring a worker back to the queue while the other is busy, and two runs show what a
resumed run finds. Two meetings in pages of one make a scope of two pages, between which the version may
change, and two positions let the two tie or not, in either order; a version holds one of six contents. Publications are not bounded. Three artifacts are one more
than workers and than a checkpoint takes, and two with one object make the workers' writes meet; a second
run finds whatever the first left. The five manifests of `meeting_ingest` are the ways in which a source changes
between two mirrors: a report that disagrees or comes back under another URL, a copy that appears or
disappears, a row that comes later, a TDoc that moves to another meeting, links that change; any two of them
follow each other, in any choice of meetings. In `evidence_blocks`, 9 words are more than a block and two chunks
take, 3 are less than a target, and two elements of 3 fill a block exactly, which is then larger than
the sum of its parts says. `MaxClock`, `MaxCrashes` and `MaxRuns` bound the instances; `CHECK_DEADLOCK
FALSE` is set only where such a bound (or a returned run) ends a behaviour. The proofs need none of these
bounds to be small.

Fairness. `job_liveness` assumes that every worker goes on calling `run_once`, that a started insert
completes and that time passes. No production loop around `run_once` is in the repository (only
tests call it), so this is the deployment's obligation. `Timely` adds that handlers end within their
lease. Crashes are finitely many: `attempts` is counted by `retry_leased_job` alone, so a job that
kills its worker every time is leased for ever. `pool_runs` and `corpus_mirror` assume that the event
loop resumes every coroutine that can go on and that the parser, the database, the file system and the source answer or time out; nothing
obliges anybody to start or kill a run. `read_requests` assumes that the database answers the request;
publication may go on for ever or stop.

## Disagreements with the documentation

1. *Publication is atomic* (`docs/evidence-policy.md:12`). Two overlapping activations of different
   candidates leave two current versions (`publication_two_active`). `activate_dataset` locks its
   own candidate only, and the `UPDATE` sees what was active when it began.
2. *An active dataset version is immutable* (`backfill.py:84`, `local_ingest.py:63`). A build checks
   once, before it starts; a candidate activated meanwhile goes on being changed. `ActiveImmutable` is
   therefore checked, and proved, for serial commands only.
3. *Activation validates completeness* (`README.md:63`). `backfill --activate` asks about the meetings
   of its own run only: a first run leaves one meeting unfit, a second one takes another meeting and makes the version with
   both current (`publication_ungated`). Nor does it ask about the dates of its own meetings, or whether they have a report at all.
4. *Recorded and processing continues* (`local_ingest.py:413`). When recording raises, a worker
   ends without its end marker and `queue.join()` never returns; `RunEnds` excepts this case. The mirror's pool
   has it too, for a checkpoint that cannot be written (`MirrorEnds`).
5. *A request is evaluated entirely against the dataset version active when that request begins*
   (`docs/evidence-policy.md:12-13`). Passages are ranked within the version, but their rows are then
   loaded by chunk id from any version (`repository.py:555`), and chunk ids are the same in all versions
   that hold the document (`read_passages`). The sentence also fails for every other operation when an activation
   falls between two of its calls; `OnlyPublishedRead` bounds what can be mixed, and
   `QuietIsConsistent` says that this is the only way it fails.
6. *A 1,400-token ceiling* of evidence blocks (`docs/evidence-policy.md:20`). The sum compared at
   `ingestion/blocks.py:68` is of estimates rounded down part by part; the estimate of the joined text can be larger, by less than a token for each part
   (`WithinLimits` states the bound that holds).
7. *Resumed* (`local_ingest.py:208-216`). An archive that was an orphan or the lesser copy under one manifest stays
   `not_applicable` when a later manifest makes it the document of a row: its body is not read by any later run
   (`Accounted` names the case).

## Proofs

`JobSchedulerProofs` proves every safety and action property of the scheduler for any jobs, keys,
workers, lease lengths and attempt limits (`JobAssumption`: these are naturals, positive where zero
would make no sense). The inductive invariant is `TypeOK` with

* `LockInv`: a row is locked exactly by the transaction working on it. Needed because the ownership
  check and the write are separate from the lock that protects them;
* `SelectedInv`: a row a worker has selected stays leasable until it commits, because every other writer
  needs its lock and time only makes more rows leasable;
* `LeaseInv`: a call whose lease has not expired owns its row, and a call that owns its row owns it
  under its own lease. `ExclusiveLease` follows at once (a row has one owner), and so does
  `OutcomeOfPresentLease`.

`TableIsQueue` proves the refinement of `JobQueue` from the same invariant: a commit of a lease is a `Give`, because
`SelectedInv` says that the row is still due and nobody's; a recorded outcome is a `Finish` or a `Fail`, because the row
is locked since its lease was found to be the caller's; a late report and a death are an `Abandon`; the clock is a
`Pass`. `TakeoverAfterExpiry` is proved as well, and no run checks it any more: in the queue it is a guard of `Give`.

`PublicationProofs` proves what holds however commands overlap. `EvidenceInv` strengthens
`PublishedNonEmpty`: whoever believes a version validated (the table, a session's copy, a
validation about to commit) is right that it holds a meeting and a TDoc, because neither is ever removed.

Its second part assumes `Gated` (serial commands, no `backfill --activate`) and proves that
the version readers find is unique, complete (as the gate has it: each meeting fit, the version covered) and immutable, and that the tables implement
`AtomicPublication`. The invariant is `SerialInv` (at most one command is under way; a building command's
dataset is not current; an activation's copy of the state is the row's, and its `UPDATE` will
reach everything current) with `GateInv` (the assessment still holds when its candidate is
activated). Each step is then one of three: it changes no published row and no content, it changes
the content of one version that is not current, or it publishes a complete one.

`IngestPoolProofs` proves all safety of the pool for any finite set of documents and workers, any number of runs,
and both faults. `PoolInv` accounts for every document of a run: it is queued once, or with one worker,
or reported once, or some worker raised (`Once`, `Kept`); the unfinished count is the queue's length and
the busy workers (`Counted`), so that `join` returns only when both are none; end markers are the last of
the queue, one for each worker that lives (`Marked`), so that none waits behind a document; and what is
reported is what the table says (`Telling`). `ReturnIsComplete` needs all of these at once.

`OrderedProofs` proves that a finite set of naturals has exactly one ascending sequence, which lists it once.
`sorted` is modelled by `Ascending`, chosen as such a sequence, and not by the library's
`SetToSortSeq`, whose definition rests on an operator that only TLC evaluates. `ORDER BY` is modelled by `Orderings`, the
set of all orderings by a key; `OrderingsAgree` says that two of them have equal keys in each place: if a place had a smaller key in one than in
the other, that place and all before it would be at fewer places in the other (`OrderingsBound`, by the pigeonhole principle).
It also has what the proofs about loops and walks rest on. The library's induction theorems take an operator, which the
provers cannot instantiate; `InductionOnSet` and `MeasureInduction` are stated for a *set* instead, and follow from
there being no least number outside it (`WFMin`, `NatLessThanWellFounded`). `RecursionExists` says that a
function is defined by a recursion in which what is computed for `x` depends only on what is computed for arguments
that measure less.

`ReadRequestProofs` proves all safety of a request for any versions, meetings (finitely many: `ReadAssumption`)
and page size. `OnlyPublishedRead` needs `CurrentRecorded`: what is current while a request is under way is in its
history, so a version just resolved is. For a quiet request the history is one version, and what it holds cannot
change under the request because only versions that are not current are rebuilt (`QuietIsConsistent`). Its pages are then
consecutive pieces of listings of one version, though each of another listing: what has been read agrees in keys with
every one of them (`Agrees`, kept by `PageContinues`), which is `QuietScopeUpToTies` when all pages are read. That every operation which cites
reads its evidence after the last of its finds, and lists a group before anything else, is a lemma about `Program`
(`Programs`).

`MirrorProofs` proves `DownloadedIsWhole` and `DownloadedStays` for any artifacts, workers, keys, retries and size of
checkpoints, with kills, broken writes and failing checkpoints. Neither is inductive: a step breaks
`DownloadedStays` only after an entry in memory has gone back from downloaded, and that cannot be
because two workers never have one artifact. `MirrorInv` says so in parts: an artifact is in the
queue once or with one worker (`Once`, which rests on the assumption that a listing names an
artifact once, as the dictionary by URL in the code makes it); what is queued or at work is not
called downloaded (`Fresh`); memory is never behind the file (`Kept`); what is called downloaded
has a file (`Present`), and a worker writes that of its own artifact or none (`Writing`); a file in part
is being written or some write of it broke off (`OnlyTornPartial`). The steps of a worker that record nothing share one lemma,
`OnwardInv`, and the store's own steps two, `StoreKeeps` and `StoreStepInv`. `CountingInv` counts the same
workers: `processed`, the queue and the workers that hold an artifact add up to what was pending (`Accounted`), and
what memory is ahead of the file by is bounded by the count modulo the checkpoint and the workers that stand
between (`Lagging`). From it follow the exact ranges of the counters in `TypeOK`, `CheckpointLag` and `ReturnSettles`.

`MeetingIngestProofs` proves `Dated`, `Accounted` and `GraphFollowsRows` for any meetings, files, manifests, faults
and number of runs (`IngestAssumption`: meetings and TDocs are positive naturals, a URL is of one file, a
document's id is its TDoc's, a report's is none). `IngestInv` has the parts

* `Standing`: the work a run has left is of the kind it is at, and unsettled, since nobody else sets these statuses;
* `Known`, `OfDate`, `Faithful`: the date a run goes by is the stored one or the meeting is `misread`; what is stored
  bears the meeting's date or none; and nothing is undated once a run knows the date, unless a report it
  has been through was undone. One lemma, `DateStep`, is behind both transactions that give dates;
* `Progress`, `AllExplained`, `Stored`: what a run has been through has a status, every status tells what became of the
  file, and a file whose body is stored is not taken up again, so that `failed` never hides a stored body;
* `Rooted`: rows are of meetings there are, so a meeting that is opened brings no facts, and what the graph has
  revised has a row.

`GraphFollowsRows` is inductive with these: an index adds the facts of its own rows only (`AddedEdges`), and a row that
is there is kept. That part needs no more of `CycleFound` than that it depends on the edges.

`RevisionWalksRight` proves `RevisionWalks` from `IngestInv`, for any finite set of TDocs (finiteness is part of
`IngestAssumption`; a table has finitely many rows, and over infinitely many links a walk need not end). In order:

* *the search*. `Search` is defined over the triples (nodes to search, nodes being visited, nodes visited), of which
  each recursive call has one that measures less (`Remaining`): more nodes are being visited, or as many and fewer are
  to be searched. By induction over that measure, a search that meets a node it is visiting has found a cycle, as long as every visiting node leads to another or
  to what is being searched (`Leading`, `MetAgain`), and one that meets none leaves visited nodes that lead to
  each other only and hold no cycle (`Cleared`). `SearchFindsCycles` puts the two together: the verdict is exactly
  that there is a set of TDocs each of which revises one of the set;
* *the walks*. `WalkBack`, `WalkForward` and `PathTo` are three walks of one kind: a state has used up some rows, each
  step one more (`IsWay`). `WalkEnds` is proved once: a walk ends, and whatever each of its steps preserves holds where it
  ends, which is at a used row or at one whose link leads nowhere. What is preserved is named per walk: `Linked`
  (a chain repeats no row and each member's link leads to the next), `Passed`, `Backed`;
* *the families*. Where links agree, the predecessor of a member of a chain is the member before it (`BeforeInChain`), so
  the walk back from every member ends where the chain begins (`BackInChain`), the path of the graph view is
  the chain up to there (`PathInChain`), and the longest path, which exists because lexicographic order on equally long paths
  is total and transitive (`OneAhead`, `AheadOn`, `FirstOfAll`), is a whole chain (`FamilyLongest`).

`EvidenceBlocksProofs` proves `TextPreserved`, `WithinLimits` and `SectionsRespected` for every document, of any length,
and every setting of the limits. The invariant `EvidenceInv` has a part for each loop of the code:

* `GatheringInv`: the blocks and the open group hold, in order, the words of the pieces of the elements read so far
  (`Gotten`), each block is sound (its sum of estimates within the limit or one piece alone, its section and type those of
  each of its words), and blocks that adjoin are apart only for their sizes (`Apart`), the last one and what comes next included (`Spaced`). `TextPreserved`
  speaks of finished documents only, and so do the others in part; without the open group none of
  them is inductive;
* `ChunkingInv`: chunks and the open chunk hold the words of the blocks that went through the second loop, each chunk
  quotes consecutive pieces of the blocks it cites and is within its limit (`Chunked`).

The loops inside one step (splitting a block, joining texts, adding estimates) are recursive functions and folds of the
community modules. Each has a lemma that its recursion is defined and one on what its last turn
adds, by induction on the number of turns (`InductionOnSet`, `InductionOnSeq`; `LoopsAgree`: two functions that start and go on
alike are alike). `TreeSound` and `TreeRight` say of the section tree, built block by block, that each of its nodes counts
and spans exactly the blocks under it.

Only model-checked, and why: liveness (`JobsSettle`, `RunEnds`, `RequestEnds`, `MirrorEnds`), which is out of the prover's
reach, as is `ENABLED`. All invariants and action properties of the passing runs are proved.

## Not modelled, and plan

Not modelled for good: interfaces, parsers, adapters, newsletter, model client, configuration, schema,
scripts and the web client, which keep no state of their own (reasons in `PROJECT.json`).

Planned, most important first:

1. Two `ingest-manifests` at a time on one meeting, and `backfill`'s path through the same steps, in `MeetingIngest`.
2. `Paging`: `last_k_meetings`, and the different place of missing dates in the two repositories.
3. `Downloader` and `KeyCache`: concurrency, spacing and retries; cache and refresh.
4. Rank fusion and topics as operators against reference definitions.
5. The pure functions on `Job` (`scheduler.py:29-75`), against the steps of `JobQueue`.
