---------------------------- MODULE JobScheduler ----------------------------
(***************************************************************************)
(* The durable job table and the workers that drain it                     *)
(* (src/threegpp_kg/scheduler.py).                                         *)
(*                                                                         *)
(* A producer inserts a job once per idempotency key.  A worker leases the *)
(* oldest available row in one short transaction, runs its handler with no *)
(* transaction open, and records the outcome in a second one, in which it  *)
(* must still own the lease.  A worker may die at any point: nothing it    *)
(* had not committed survives, and its lease is left to expire.            *)
(*                                                                         *)
(* Time is one clock shared by all workers, in ticks.                      *)
(***************************************************************************)
EXTENDS Integers, FiniteSets

CONSTANTS
    Job,            \* row identifiers, ordered: naturals (ORDER BY ... id)
    Key,            \* idempotency keys
    KeyOf,          \* the key each submission uses
    Producer,       \* callers of enqueue_job
    Worker,         \* running JobWorkers, each with a worker_id of its own
    LeaseTicks,     \* lease_seconds
    MaxAttempts,    \* max_attempts
    BackoffUnit,    \* the 30 seconds of the retry delay
    BackoffCap,     \* its 3600 seconds
    MaxClock,       \* bound of the model on the clock
    MaxCrashes,     \* bound of the model on worker deaths
    Timely          \* TRUE: workers and handlers finish before a lease can expire

ASSUME JobAssumption ==
    /\ Job \subseteq Nat
    /\ KeyOf \in [Job -> Key]
    /\ LeaseTicks \in Nat \ {0}
    /\ MaxAttempts \in Nat \ {0}
    /\ BackoffUnit \in Nat \ {0}
    /\ BackoffCap \in Nat \ {0}
    /\ MaxClock \in Nat
    /\ MaxCrashes \in Nat
    /\ Timely \in BOOLEAN

Nobody == "nobody"
NoJob == -1

ASSUME NobodyAssumption == Nobody \notin Worker

VARIABLES
    clock,      \* now
    job,        \* the jobs table: a row for each inserted id
    lock,       \* the worker whose open transaction locks the row
    producer,   \* what each caller of enqueue_job is doing
    worker,     \* what each JobWorker is doing
    crashes     \* deaths so far (bound of the model)

vars == <<clock, job, lock, producer, worker, crashes>>

-----------------------------------------------------------------------------
State == {"absent", "pending", "running", "complete", "dead_letter"}

TERMINAL_JOB_STATES == {"complete", "dead_letter"}

\* A row of the table; "absent" stands for no row.
Row == [state : State, attempts : Nat, available_at : Int,
        leased_until : Nat, leased_by : Worker \cup {Nobody}]

NoRow == [state |-> "absent", attempts |-> 0, available_at |-> 0,
          leased_until |-> 0, leased_by |-> Nobody]

\* Where run_once stands: between calls, in the lease transaction, in the
\* handler, about to record its outcome, or in the recording transaction.
Phase == {"idle", "leasing", "handling", "succeeded", "failed",
          "finishing", "retrying"}

\* until: the lease this call was given.
Call == [phase : Phase, job : Job \cup {NoJob}, until : Nat]

Idle == [phase |-> "idle", job |-> NoJob, until |-> 0]

TypeOK ==
    /\ clock \in Nat
    /\ job \in [Job -> Row]
    /\ lock \in [Job -> Worker \cup {Nobody}]
    /\ producer \in [Producer -> Job \cup {NoJob}]
    /\ worker \in [Worker -> Call]
    /\ crashes \in Nat

-----------------------------------------------------------------------------
Init ==
    /\ clock = 0
    /\ job = [j \in Job |-> NoRow]
    /\ lock = [j \in Job |-> Nobody]
    /\ producer = [p \in Producer |-> NoJob]
    /\ worker = [w \in Worker |-> Idle]
    /\ crashes = 0

-----------------------------------------------------------------------------
(* enqueue_job: look the key up, insert when there is none.  The insert     *)
(* meets the unique constraints on the key and on the id, so a caller whose *)
(* look-up is out of date fails and inserts nothing.                        *)

NewRow(available) ==
    [state |-> "pending", attempts |-> 0, available_at |-> available,
     leased_until |-> 0, leased_by |-> Nobody]

Inserted(k) == \E i \in Job : job[i].state # "absent" /\ KeyOf[i] = k

EnqueueLookup(p, j) ==
    /\ producer[p] = NoJob
    /\ ~Inserted(KeyOf[j])
    /\ producer' = [producer EXCEPT ![p] = j]
    /\ UNCHANGED <<clock, job, lock, worker, crashes>>

\* mutant: no unique constraint on the key
EnqueueInsertTwice(p) ==
    /\ producer[p] # NoJob
    /\ LET j == producer[p] IN
         IF job[j].state = "absent"
         THEN job' = [job EXCEPT ![j] = NewRow(clock)]
         ELSE UNCHANGED job
    /\ producer' = [producer EXCEPT ![p] = NoJob]
    /\ UNCHANGED <<clock, lock, worker, crashes>>

EnqueueInsert(p) ==
    /\ producer[p] # NoJob
    /\ LET j == producer[p] IN
         IF job[j].state = "absent" /\ ~Inserted(KeyOf[j])
         THEN \E delay \in {0, BackoffUnit} :
                job' = [job EXCEPT ![j] = NewRow(clock + delay)]
         ELSE UNCHANGED job
    /\ producer' = [producer EXCEPT ![p] = NoJob]
    /\ UNCHANGED <<clock, lock, worker, crashes>>

-----------------------------------------------------------------------------
(* lease_next_job.                                                          *)

\* mutant: a running row is taken before its lease expires
LeasableUnexpired(j) ==
    /\ job[j].available_at <= clock
    /\ job[j].state \in {"pending", "running"}

\* mutant: a running row is never taken over
LeasablePending(j) == job[j].available_at <= clock /\ job[j].state = "pending"

Leasable(j) ==
    /\ job[j].available_at <= clock
    /\ \/ job[j].state = "pending"
       \/ job[j].state = "running" /\ job[j].leased_until <= clock

\* ORDER BY available_at, id
Before(i, j) ==
    \/ job[i].available_at < job[j].available_at
    \/ job[i].available_at = job[j].available_at /\ i < j

\* mutant: the row is read and not locked
LeaseSelectUnlocked(w) ==
    /\ worker[w].phase = "idle"
    /\ \E j \in Job :
         /\ Leasable(j)
         /\ \A i \in Job : Leasable(i) => i = j \/ Before(j, i)
         /\ worker' = [worker EXCEPT ![w] = [phase |-> "leasing", job |-> j,
                                             until |-> clock + LeaseTicks]]
    /\ UNCHANGED <<clock, job, lock, producer, crashes>>

\* FOR UPDATE SKIP LOCKED LIMIT 1: the first leasable row nobody has locked.
LeaseSelect(w) ==
    /\ worker[w].phase = "idle"
    /\ \E j \in Job :
         /\ Leasable(j) /\ lock[j] = Nobody
         /\ \A i \in Job : Leasable(i) /\ lock[i] = Nobody => i = j \/ Before(j, i)
         /\ lock' = [lock EXCEPT ![j] = w]
         /\ worker' = [worker EXCEPT ![w] = [phase |-> "leasing", job |-> j,
                                             until |-> clock + LeaseTicks]]
    /\ UNCHANGED <<clock, job, producer, crashes>>

Leased(row, w) ==
    [row EXCEPT !.state = "running", !.leased_by = w,
                !.leased_until = worker[w].until]

LeaseCommit(w) ==
    /\ worker[w].phase = "leasing"
    /\ LET j == worker[w].job IN
         /\ job' = [job EXCEPT ![j] = Leased(@, w)]
         /\ lock' = [lock EXCEPT ![j] = Nobody]
    /\ worker' = [worker EXCEPT ![w].phase = "handling"]
    /\ UNCHANGED <<clock, producer, crashes>>

-----------------------------------------------------------------------------
(* The handler returns or raises (a job type without a handler raises).     *)

Handle(w) ==
    /\ worker[w].phase = "handling"
    /\ \E outcome \in {"succeeded", "failed"} :
         worker' = [worker EXCEPT ![w].phase = outcome]
    /\ UNCHANGED <<clock, job, lock, producer, crashes>>

-----------------------------------------------------------------------------
(* The recording transaction: read the row FOR UPDATE, then write it when   *)
(* this worker still owns it.                                               *)

RecordLock(w) ==
    /\ worker[w].phase \in {"succeeded", "failed"}
    /\ LET j == worker[w].job IN
         /\ lock[j] = Nobody
         /\ lock' = [lock EXCEPT ![j] = w]
    /\ worker' = [worker EXCEPT ![w].phase =
                    IF @ = "succeeded" THEN "finishing" ELSE "retrying"]
    /\ UNCHANGED <<clock, job, producer, crashes>>

\* mutant: any holder of an older lease may record its outcome
OwnsRunning(w, j) == job[j].state = "running"

\* mutant: the row is not checked at all
OwnsAnything(w, j) == TRUE

Owns(w, j) == job[j].state = "running" /\ job[j].leased_by = w

\* min(3600, 2 ** attempts * 30)
RetryDelay(attempts) ==
    IF 2 ^ attempts * BackoffUnit < BackoffCap
    THEN 2 ^ attempts * BackoffUnit ELSE BackoffCap

Release(w, j) ==
    /\ lock' = [lock EXCEPT ![j] = Nobody]
    /\ worker' = [worker EXCEPT ![w] = Idle]
    /\ UNCHANGED <<clock, producer, crashes>>

\* mutant: a state the rest of the scheduler does not know
CompletedAsDone(row) ==
    [row EXCEPT !.state = "done", !.leased_by = Nobody, !.leased_until = 0]

Completed(row) ==
    [row EXCEPT !.state = "complete", !.leased_by = Nobody, !.leased_until = 0]

\* finish_leased_job: a worker that no longer owns the row raises instead.
FinishCommit(w) ==
    LET j == worker[w].job IN
    /\ worker[w].phase = "finishing"
    /\ IF Owns(w, j)
       THEN job' = [job EXCEPT ![j] = Completed(@)]
       ELSE UNCHANGED job
    /\ Release(w, j)

\* mutant: one attempt too many
FailedOnceMore(row) ==
    LET attempts == row.attempts + 1
        unleased == [row EXCEPT !.attempts = attempts,
                                !.leased_by = Nobody, !.leased_until = 0]
    IN IF attempts > MaxAttempts
       THEN [unleased EXCEPT !.state = "dead_letter"]
       ELSE [unleased EXCEPT !.state = "pending",
                             !.available_at = clock + RetryDelay(attempts)]

Failed(row) ==
    LET attempts == row.attempts + 1
        unleased == [row EXCEPT !.attempts = attempts,
                                !.leased_by = Nobody, !.leased_until = 0]
    IN IF attempts >= MaxAttempts
       THEN [unleased EXCEPT !.state = "dead_letter"]
       ELSE [unleased EXCEPT !.state = "pending",
                             !.available_at = clock + RetryDelay(attempts)]

\* retry_leased_job
RetryCommit(w) ==
    LET j == worker[w].job IN
    /\ worker[w].phase = "retrying"
    /\ IF Owns(w, j)
       THEN job' = [job EXCEPT ![j] = Failed(@)]
       ELSE UNCHANGED job
    /\ Release(w, j)

-----------------------------------------------------------------------------
(* A worker dies, or its task is cancelled (CancelledError is no Exception, *)
(* so no outcome is recorded): the open transaction is rolled back.         *)
Crash(w) ==
    /\ worker[w].phase # "idle"
    /\ crashes < MaxCrashes
    /\ crashes' = crashes + 1
    /\ lock' = [j \in Job |-> IF lock[j] = w THEN Nobody ELSE lock[j]]
    /\ worker' = [worker EXCEPT ![w] = Idle]
    /\ UNCHANGED <<clock, job, producer>>

\* Time passes; when Timely, only for a job that waits for it, so that the
\* bound on the clock is not spent while nothing is due.
Tick ==
    /\ clock < MaxClock
    /\ Timely => /\ \A w \in Worker : worker[w].phase = "idle"
                 /\ \A j \in Job : ~Leasable(j)
                 /\ \E j \in Job : job[j].state \in {"pending", "running"}
    /\ clock' = clock + 1
    /\ UNCHANGED <<job, lock, producer, worker, crashes>>

-----------------------------------------------------------------------------
Enqueue(p) == EnqueueInsert(p) \/ \E j \in Job : EnqueueLookup(p, j)

Run(w) ==
    \/ LeaseSelect(w) \/ LeaseCommit(w)
    \/ Handle(w)
    \/ RecordLock(w) \/ FinishCommit(w) \/ RetryCommit(w)

Next ==
    \/ \E p \in Producer : Enqueue(p)
    \/ \E w \in Worker : Run(w) \/ Crash(w)
    \/ Tick

Spec == Init /\ [][Next]_vars

\* A worker process keeps calling run_once, the database answers, time passes.
Fairness ==
    /\ \A w \in Worker : WF_vars(Run(w))
    /\ \A p \in Producer : WF_vars(EnqueueInsert(p))
    /\ WF_vars(Tick)

FairSpec == Spec /\ Fairness
-----------------------------------------------------------------------------
(* Safety.                                                                  *)

\* A call whose handler may be running, or whose outcome is not recorded yet.
Holding(w) == worker[w].phase \in Phase \ {"idle", "leasing"}

Unexpired(w) == clock < worker[w].until

\* Of two workers inside run_once for the same job, at most one still has an
\* unexpired lease: a handler shares its job only after its own lease ran out
\* (lease_next_job takes a running row only when leased_until has passed).
ExclusiveLease ==
    \A v, w \in Worker :
        /\ Holding(v) /\ Holding(w)
        /\ worker[v].job = worker[w].job
        /\ Unexpired(v) /\ Unexpired(w)
        => v = w

\* The table never holds two jobs of one idempotency key, whatever the
\* interleaving of look-ups and inserts in enqueue_job.
OneRowPerKey ==
    \A i, j \in Job :
        /\ job[i].state # "absent" /\ job[j].state # "absent"
        /\ KeyOf[i] = KeyOf[j]
        => i = j

\* A job is dead-lettered exactly when its recorded failures reach
\* max_attempts; no other state hides an exhausted job.
DeadLetterExact ==
    \A j \in Job : job[j].state = "dead_letter" <=> job[j].attempts >= MaxAttempts

\* Only the call that holds the row's present lease settles it: with its own
\* handler's outcome, and never under a lease that was since given to another
\* call (finish_leased_job and retry_leased_job check the owner).
OutcomeOfPresentLease ==
    [][\A j \in Job :
         job[j].state = "running" /\ job'[j].state # "running" =>
            LET w == job[j].leased_by IN
            /\ w \in Worker
            /\ worker[w].job = j
            /\ worker[w].until = job[j].leased_until
            /\ worker[w].phase =
                 IF job'[j].state = "complete" THEN "finishing" ELSE "retrying"]_vars

\* A lease changes hands only after it has expired.
TakeoverAfterExpiry ==
    [][\A j \in Job :
         /\ job[j].state = "running" /\ job'[j].state = "running"
         /\ job'[j] # job[j]
         => job[j].leased_until <= clock]_vars

\* A complete or dead-lettered job is never run, retried or changed again,
\* also by a worker whose lease expired and who reports late.
TerminalForever ==
    [][\A j \in Job : job[j].state \in TERMINAL_JOB_STATES => job'[j] = job[j]]_vars

-----------------------------------------------------------------------------
(* The queue the table implements: the job that a worker serves there is    *)
(* the one whose handler it runs or whose outcome it has yet to record.     *)

Serving == [w \in Worker |->
    IF Holding(w) THEN [job |-> worker[w].job, until |-> worker[w].until]
    ELSE [job |-> NoJob, until |-> 0]]

Queue == INSTANCE JobQueue WITH now <- clock, entries <- job, serving <- Serving

\* For those who submit jobs and those who run them, leasing a job and
\* recording its outcome are one step each, in whatever order their row locks,
\* reads, writes and the deaths of workers come (lease_next_job,
\* finish_leased_job, retry_leased_job, enqueue_job).
ImplementsJobQueue == Queue!Spec

-----------------------------------------------------------------------------
(* The inductive invariant behind ExclusiveLease and OutcomeOfPresentLease. *)

LockingPhases == {"leasing", "finishing", "retrying"}

\* A row is locked exactly by the transaction that is working on it, ...
LockInv ==
    /\ \A w \in Worker : worker[w].phase # "idle" => worker[w].job \in Job
    /\ \A w \in Worker, j \in Job :
         lock[j] = w <=> worker[w].job = j /\ worker[w].phase \in LockingPhases

\* ... so the row a worker has selected stays leasable until it commits, ...
SelectedInv ==
    \A w \in Worker : worker[w].phase = "leasing" => Leasable(worker[w].job)

\* ... and a call whose lease has not expired still owns its row; a call that
\* owns its row owns it under its own lease and not under a later one.
LeaseInv ==
    \A w \in Worker : Holding(w) =>
        LET j == worker[w].job IN
        /\ Unexpired(w) => Owns(w, j)
        /\ Owns(w, j) => job[j].leased_until = worker[w].until

IInv == TypeOK /\ LockInv /\ SelectedInv /\ LeaseInv /\ OneRowPerKey /\ DeadLetterExact

-----------------------------------------------------------------------------
(* Liveness.                                                                *)

\* Every job is completed or dead-lettered in the end, when workers keep
\* calling run_once, deaths are finitely many and handlers end within their
\* lease: an expired lease is reclaimed and failures are counted.
JobsSettle ==
    \A j \in Job : job[j].state = "pending" ~> job[j].state \in TERMINAL_JOB_STATES
=============================================================================
