------------------------- MODULE JobSchedulerProofs -------------------------
(***************************************************************************)
(* Proofs about JobScheduler for any number of jobs, keys, producers and   *)
(* workers, any lease length, retry budget and back-off, and any number of *)
(* worker deaths: the lease protocol of scheduler.py never lets two calls  *)
(* hold an unexpired lease of one job.                                     *)
(***************************************************************************)
EXTENDS JobScheduler, TLAPS

(***************************************************************************)
(* The retry delay is a number of ticks, so available_at stays a time.     *)
(***************************************************************************)
LEMMA RetryDelayType == ASSUME NEW a \in Nat PROVE RetryDelay(a) \in Int
<1>1. 2 ^ a \in Int
  BY SMT
<1>2. \A x \in Int : x * BackoffUnit \in Int
  BY JobAssumption DEF JobAssumption
<1>3. QED
  BY <1>1, <1>2, JobAssumption DEF RetryDelay, JobAssumption

(***************************************************************************)
(* The row retry_leased_job writes is a row of the table.                  *)
(***************************************************************************)
LEMMA FailedType ==
  ASSUME clock \in Nat, NEW r \in Row
  PROVE  /\ Failed(r) \in Row
         /\ Failed(r).state \in {"pending", "dead_letter"}
         /\ Failed(r).state = "dead_letter" <=> Failed(r).attempts >= MaxAttempts
<1>1. r.attempts + 1 \in Nat
  BY DEF Row
<1>2. clock + RetryDelay(r.attempts + 1) \in Int
  BY <1>1, RetryDelayType
<1>3. QED
  BY <1>1, <1>2, JobAssumption DEF Failed, Row, State, JobAssumption

(***************************************************************************)
(* So are the rows that enqueue_job, lease_next_job and finish_leased_job  *)
(* write; each write sets the columns it is meant to set and no other.     *)
(***************************************************************************)
LEMMA NewRowType ==
  ASSUME NEW t \in Int
  PROVE  NewRow(t) \in Row /\ NewRow(t).state = "pending" /\ NewRow(t).attempts = 0
BY DEF NewRow, Row, State

\* Taking a lease sets the state, the owner and the expiry.
LEMMA LeasedType ==
  ASSUME NEW r \in Row, NEW w \in Worker, worker[w] \in Call
  PROVE  /\ Leased(r, w) \in Row
         /\ Leased(r, w).state = "running"
         /\ Leased(r, w).leased_by = w
         /\ Leased(r, w).leased_until = worker[w].until
         /\ Leased(r, w).attempts = r.attempts
BY DEF Leased, Row, State, Call

\* Completing keeps the count of failures.
LEMMA CompletedType ==
  ASSUME NEW r \in Row
  PROVE  /\ Completed(r) \in Row
         /\ Completed(r).state = "complete"
         /\ Completed(r).attempts = r.attempts
BY DEF Completed, Row, State

\* A failed job waits for no more than the cap.
LEMMA RetryDelayBound == ASSUME NEW a \in Nat PROVE RetryDelay(a) \in Int /\ RetryDelay(a) <= BackoffCap
<1>1. RetryDelay(a) \in Int
  BY RetryDelayType
<1>2. \A x \in Int : x < BackoffCap => x <= BackoffCap
  BY JobAssumption DEF JobAssumption
<1>3. 2 ^ a * BackoffUnit < BackoffCap => RetryDelay(a) = 2 ^ a * BackoffUnit
  BY DEF RetryDelay
<1>4. ~(2 ^ a * BackoffUnit < BackoffCap) => RetryDelay(a) = BackoffCap
  BY DEF RetryDelay
<1>5. BackoffCap <= BackoffCap
  BY JobAssumption DEF JobAssumption
<1>6. QED
  BY <1>1, <1>2, <1>3, <1>4, <1>5

(***************************************************************************)
(* Type correctness: every step of producers, workers and the clock leaves *)
(* the table, the row locks and the calls well-formed.                     *)
(***************************************************************************)
LEMMA TypeInit == Init => TypeOK
BY JobAssumption DEF Init, TypeOK, NoRow, Row, State, Idle, Call, Phase, JobAssumption

\* Every step keeps the types.
LEMMA TypeStep == TypeOK /\ [Next]_vars => TypeOK'
<1> SUFFICES ASSUME TypeOK, [Next]_vars PROVE TypeOK'
  OBVIOUS
<1> USE DEF TypeOK
<1>1. ASSUME NEW p \in Producer, NEW j \in Job, EnqueueLookup(p, j)
      PROVE  TypeOK'
  BY <1>1 DEF EnqueueLookup
<1>2. ASSUME NEW p \in Producer, EnqueueInsert(p)
      PROVE  TypeOK'
  <2>1. producer[p] \in Job
    BY <1>2 DEF EnqueueInsert
  <2>2. ASSUME NEW delay \in {0, BackoffUnit}
        PROVE  NewRow(clock + delay) \in Row
    BY NewRowType, JobAssumption DEF JobAssumption
  <2>3. job' \in [Job -> Row]
    BY <1>2, <2>1, <2>2 DEF EnqueueInsert
  <2>4. QED
    BY <1>2, <2>3 DEF EnqueueInsert
<1>3. ASSUME NEW w \in Worker, LeaseSelect(w)
      PROVE  TypeOK'
  <2>1. PICK j \in Job :
           /\ lock' = [lock EXCEPT ![j] = w]
           /\ worker' = [worker EXCEPT ![w] = [phase |-> "leasing", job |-> j,
                                               until |-> clock + LeaseTicks]]
    BY <1>3 DEF LeaseSelect
  <2>2. [phase |-> "leasing", job |-> j, until |-> clock + LeaseTicks] \in Call
    BY JobAssumption DEF Call, Phase, JobAssumption
  <2>3. QED
    BY <1>3, <2>1, <2>2 DEF LeaseSelect
<1>4. ASSUME NEW w \in Worker, LeaseCommit(w)
      PROVE  TypeOK'
  <2>1. job' \in [Job -> Row]
    BY <1>4, LeasedType DEF LeaseCommit
  <2>2. QED
    BY <1>4, <2>1 DEF LeaseCommit, Call, Phase
<1>5. ASSUME NEW w \in Worker, Handle(w)
      PROVE  TypeOK'
  BY <1>5 DEF Handle, Call, Phase
<1>6. ASSUME NEW w \in Worker, RecordLock(w)
      PROVE  TypeOK'
  BY <1>6, ZenonT(40) DEF RecordLock, Call, Phase
<1>7. ASSUME NEW w \in Worker, FinishCommit(w)
      PROVE  TypeOK'
  <2>1. job' \in [Job -> Row]
    BY <1>7, CompletedType DEF FinishCommit
  <2>2. QED
    BY <1>7, <2>1 DEF FinishCommit, Release, Idle, Call, Phase
<1>8. ASSUME NEW w \in Worker, RetryCommit(w)
      PROVE  TypeOK'
  <2>1. job' \in [Job -> Row]
    BY <1>8, FailedType DEF RetryCommit
  <2>2. QED
    BY <1>8, <2>1 DEF RetryCommit, Release, Idle, Call, Phase
<1>9. ASSUME NEW w \in Worker, Crash(w)
      PROVE  TypeOK'
  BY <1>9 DEF Crash, Idle, Call, Phase
<1>10. CASE Tick
  BY <1>10 DEF Tick
<1>11. CASE UNCHANGED vars
  BY <1>11 DEF vars
<1>12. QED
  BY <1>1, <1>2, <1>3, <1>4, <1>5, <1>6, <1>7, <1>8, <1>9, <1>10, <1>11
     DEF Next, Enqueue, Run

\* The table, the row locks and the calls are well-formed in every reachable
\* state (run_once, enqueue_job and the clock).
THEOREM TypeCorrect == Spec => []TypeOK
BY TypeInit, TypeStep, PTL DEF Spec

(***************************************************************************)
(* The lease invariant.  It is inductive together with TypeOK: a row that  *)
(* a worker selected cannot change before it commits because every other   *)
(* writer needs the row lock, and a row under an unexpired lease is not    *)
(* leasable, so nobody can select it.                                      *)
(***************************************************************************)
Protocol == LockInv /\ SelectedInv /\ LeaseInv

\* It holds of the empty table.
LEMMA ProtocolInit == Init => Protocol
BY NobodyAssumption
   DEF Init, Protocol, LockInv, SelectedInv, LeaseInv, Idle, Holding, Phase, LockingPhases

(***************************************************************************)
(* Every step keeps it: whoever writes a row holds its lock, and time only *)
(* expires leases.                                                         *)
(***************************************************************************)
LEMMA ProtocolStep == TypeOK /\ Protocol /\ [Next]_vars => Protocol'
<1> SUFFICES ASSUME TypeOK, Protocol, [Next]_vars PROVE Protocol'
  OBVIOUS
<1> USE DEF Protocol
<1>n. Nobody \notin Worker
  BY NobodyAssumption
<1>1. ASSUME NEW p \in Producer, NEW j \in Job, EnqueueLookup(p, j)
      PROVE  Protocol'
  BY <1>1 DEF EnqueueLookup, LockInv, SelectedInv, LeaseInv, Leasable, Holding, Unexpired, Owns
<1>2. ASSUME NEW p \in Producer, EnqueueInsert(p)
      PROVE  Protocol'
  <2>1. \A j \in Job : job[j].state # "absent" => job'[j] = job[j]
    BY <1>2 DEF EnqueueInsert, TypeOK
  <2>2. \A j \in Job : job'[j] = job[j] \/ job'[j].state = "pending"
    BY <1>2, NewRowType, JobAssumption DEF EnqueueInsert, TypeOK, JobAssumption
  <2>3. UNCHANGED <<clock, lock, worker>>
    BY <1>2 DEF EnqueueInsert
  <2>4. LockInv'
    BY <2>3 DEF LockInv
  <2>5. SelectedInv'
    BY <2>1, <2>3 DEF SelectedInv, Leasable, LockInv
  <2>6. LeaseInv'
    BY <2>1, <2>2, <2>3 DEF LeaseInv, Holding, Unexpired, Owns, LockInv, Phase
  <2>7. QED
    BY <2>4, <2>5, <2>6
<1>3. ASSUME NEW w \in Worker, LeaseSelect(w)
      PROVE  Protocol'
  <2>1. PICK j \in Job :
           /\ Leasable(j) /\ lock[j] = Nobody
           /\ lock' = [lock EXCEPT ![j] = w]
           /\ worker' = [worker EXCEPT ![w] = [phase |-> "leasing", job |-> j,
                                               until |-> clock + LeaseTicks]]
    BY <1>3 DEF LeaseSelect
  <2>2. worker[w].phase = "idle" /\ UNCHANGED <<clock, job>>
    BY <1>3 DEF LeaseSelect
  <2>3. LockInv'
    BY <2>1, <2>2, <1>n DEF LockInv, LockingPhases, TypeOK
  <2>4. SelectedInv'
    BY <2>1, <2>2 DEF SelectedInv, Leasable, TypeOK
  <2>5. LeaseInv'
    BY <2>1, <2>2 DEF LeaseInv, Holding, Unexpired, Owns, TypeOK
  <2>6. QED
    BY <2>3, <2>4, <2>5
<1>4. ASSUME NEW w \in Worker, LeaseCommit(w)
      PROVE  Protocol'
  <2> DEFINE j == worker[w].job
  <2>1. worker[w].phase = "leasing" /\ j \in Job /\ Leasable(j)
    BY <1>4 DEF LeaseCommit, LockInv, SelectedInv
  <2>2. /\ \A i \in Job \ {j} : job'[i] = job[i] /\ lock'[i] = lock[i]
        /\ lock'[j] = Nobody
        /\ job'[j].state = "running"
        /\ job'[j].leased_by = w
        /\ job'[j].leased_until = worker[w].until
    BY <1>4, <2>1, LeasedType DEF LeaseCommit, TypeOK
  <2>3. /\ clock' = clock
        /\ worker' = [worker EXCEPT ![w].phase = "handling"]
        /\ worker'[w].phase = "handling"
        /\ worker'[w].job = j /\ worker'[w].until = worker[w].until
        /\ \A v \in Worker \ {w} : worker'[v] = worker[v]
    BY <1>4 DEF LeaseCommit, TypeOK, Call
  <2>4. \A v \in Worker \ {w} : worker[v].job = j => worker[v].phase \notin LockingPhases
    BY <2>1 DEF LockInv, LockingPhases, TypeOK
  <2>5. LockInv'
    BY <2>1, <2>2, <2>3, <2>4, <1>n DEF LockInv, LockingPhases
  <2>6. SelectedInv'
    BY <2>2, <2>3, <2>4 DEF SelectedInv, Leasable, LockInv, LockingPhases
  <2>7. LeaseInv'
    <3>1. ASSUME NEW v \in Worker \ {w}, Holding(v)', worker[v].job = j
          PROVE  ~ Unexpired(v)'
      BY <3>1, <2>1, <2>3 DEF LeaseInv, Holding, Unexpired, Owns, Leasable, TypeOK, Call, Row
    <3>2. QED
      BY <2>1, <2>2, <2>3, <3>1 DEF LeaseInv, Holding, Unexpired, Owns, LockInv
  <2>8. QED
    BY <2>5, <2>6, <2>7
<1>5. ASSUME NEW w \in Worker, Handle(w)
      PROVE  Protocol'
  <2>1. PICK outcome \in {"succeeded", "failed"} :
           worker' = [worker EXCEPT ![w].phase = outcome]
    BY <1>5 DEF Handle
  <2>2. worker[w].phase = "handling" /\ UNCHANGED <<clock, job, lock>>
    BY <1>5 DEF Handle
  <2>3. QED
    BY <2>1, <2>2 DEF TypeOK, Call, Phase, LockInv, LockingPhases, SelectedInv, LeaseInv,
                      Leasable, Holding, Unexpired, Owns
<1>6. ASSUME NEW w \in Worker, RecordLock(w)
      PROVE  Protocol'
  <2> DEFINE j == worker[w].job
  <2>1. /\ worker[w].phase \in {"succeeded", "failed"}
        /\ j \in Job /\ lock[j] = Nobody
        /\ UNCHANGED <<clock, job>>
    BY <1>6 DEF RecordLock, LockInv
  <2>2. /\ lock' = [lock EXCEPT ![j] = w]
        /\ worker'[w].phase \in {"finishing", "retrying"}
        /\ worker'[w].job = j /\ worker'[w].until = worker[w].until
        /\ \A v \in Worker \ {w} : worker'[v] = worker[v]
    BY <1>6 DEF RecordLock, TypeOK, Call
  <2>3. LockInv'
    BY <2>1, <2>2, <1>n DEF LockInv, LockingPhases, TypeOK
  <2>4. SelectedInv' /\ LeaseInv'
    BY <2>1, <2>2 DEF SelectedInv, LeaseInv, Leasable, Holding, Unexpired, Owns, Phase
  <2>5. QED
    BY <2>3, <2>4
<1>7. ASSUME NEW w \in Worker,
             FinishCommit(w) \/ RetryCommit(w)
      PROVE  Protocol'
  <2> DEFINE j == worker[w].job
  <2>1. worker[w].phase \in {"finishing", "retrying"} /\ j \in Job
    BY <1>7 DEF FinishCommit, RetryCommit, LockInv
  <2>2. /\ lock' = [lock EXCEPT ![j] = Nobody]
        /\ worker' = [worker EXCEPT ![w] = Idle]
        /\ clock' = clock
    BY <1>7 DEF FinishCommit, RetryCommit, Release
  <2>3. \/ job' = job
        \/ /\ Owns(w, j)
           /\ \A i \in Job \ {j} : job'[i] = job[i]
           /\ job'[j].state # "running"
    <3>1. CASE FinishCommit(w)
      BY <2>1, <3>1, CompletedType DEF FinishCommit, TypeOK
    <3>2. CASE RetryCommit(w)
      BY <2>1, <3>2, FailedType DEF RetryCommit, TypeOK
    <3>3. QED
      BY <1>7, <3>1, <3>2
  <2>4. \A v \in Worker \ {w} : worker[v].job = j => worker[v].phase \notin LockingPhases
    BY <2>1 DEF LockInv, LockingPhases, TypeOK
  <2>5. LockInv'
    BY <2>1, <2>2, <2>4, <1>n DEF LockInv, LockingPhases, TypeOK, Idle
  <2>6. SelectedInv'
    BY <2>2, <2>3, <2>4 DEF SelectedInv, Leasable, LockInv, LockingPhases, TypeOK, Idle
  <2>7. LeaseInv'
    BY <2>1, <2>2, <2>3 DEF LeaseInv, Holding, Unexpired, Owns, LockInv, TypeOK, Idle
  <2>8. QED
    BY <2>5, <2>6, <2>7
<1>8. ASSUME NEW w \in Worker, Crash(w)
      PROVE  Protocol'
  <2>1. /\ lock' = [j \in Job |-> IF lock[j] = w THEN Nobody ELSE lock[j]]
        /\ worker' = [worker EXCEPT ![w] = Idle]
        /\ UNCHANGED <<clock, job>>
    BY <1>8 DEF Crash
  <2>2. LockInv'
    BY <2>1, <1>n DEF LockInv, LockingPhases, TypeOK, Idle
  <2>3. SelectedInv' /\ LeaseInv'
    BY <2>1 DEF SelectedInv, LeaseInv, Leasable, Holding, Unexpired, Owns, TypeOK, Idle
  <2>4. QED
    BY <2>2, <2>3
<1>9. CASE Tick
  BY <1>9 DEF Tick, LockInv, SelectedInv, LeaseInv, Leasable, Holding, Unexpired, Owns,
              TypeOK, Call, Row
<1>10. CASE UNCHANGED vars
  BY <1>10 DEF vars, LockInv, SelectedInv, LeaseInv, Leasable, Holding, Unexpired, Owns
<1>11. QED
  BY <1>1, <1>2, <1>3, <1>4, <1>5, <1>6, <1>7, <1>8, <1>9, <1>10 DEF Next, Enqueue, Run

\* So it holds in every reachable state.
LEMMA ProtocolCorrect == Spec => []Protocol
BY ProtocolInit, ProtocolStep, TypeCorrect, PTL DEF Spec

(***************************************************************************)
(* Two handlers of one job never both run under an unexpired lease.        *)
(***************************************************************************)
THEOREM LeasesExclusive == Spec => []ExclusiveLease
<1>1. TypeOK /\ Protocol => ExclusiveLease
  BY DEF Protocol, LockInv, LeaseInv, ExclusiveLease, Owns, Holding
<1>2. QED
  BY <1>1, TypeCorrect, ProtocolCorrect, PTL

(***************************************************************************)
(* At most one row per idempotency key: the insert is refused when the     *)
(* look-up that preceded it is out of date.                                *)
(***************************************************************************)
THEOREM KeysUnique == Spec => []OneRowPerKey
<1>1. Init => OneRowPerKey
  BY DEF Init, OneRowPerKey, NoRow
<1>2. TypeOK /\ Protocol /\ OneRowPerKey /\ [Next]_vars => OneRowPerKey'
  <2> SUFFICES ASSUME TypeOK, Protocol, OneRowPerKey, [Next]_vars
               PROVE  OneRowPerKey'
    OBVIOUS
  <2>1. ASSUME NEW p \in Producer, EnqueueInsert(p)
        PROVE  OneRowPerKey'
    BY <2>1, NewRowType DEF EnqueueInsert, Inserted, OneRowPerKey, TypeOK
  <2>2. ASSUME \A j \in Job : job[j].state = "absent" => job'[j].state = "absent"
        PROVE  OneRowPerKey'
    BY <2>2 DEF OneRowPerKey
  <2>3. ASSUME NEW w \in Worker, LeaseCommit(w)
        PROVE  OneRowPerKey'
    BY <2>2, <2>3 DEF LeaseCommit, Protocol, SelectedInv, Leasable, TypeOK
  <2>4. ASSUME NEW w \in Worker, FinishCommit(w) \/ RetryCommit(w)
        PROVE  OneRowPerKey'
    BY <2>2, <2>4 DEF FinishCommit, RetryCommit, Owns, TypeOK
  <2>5. CASE UNCHANGED job
    BY <2>2, <2>5
  <2>6. QED
    BY <2>1, <2>3, <2>4, <2>5
       DEF Next, vars, Enqueue, Run, EnqueueLookup, LeaseSelect, Handle, RecordLock, Crash, Tick
<1>3. QED
  BY <1>1, <1>2, TypeCorrect, ProtocolCorrect, PTL DEF Spec

(***************************************************************************)
(* A job is dead-lettered when, and only when, max_attempts failures have  *)
(* been recorded for it.                                                   *)
(***************************************************************************)
THEOREM DeadLetters == Spec => []DeadLetterExact
<1>1. Init => DeadLetterExact
  BY JobAssumption DEF Init, DeadLetterExact, NoRow, JobAssumption
<1>2. TypeOK /\ Protocol /\ DeadLetterExact /\ [Next]_vars => DeadLetterExact'
  <2> SUFFICES ASSUME TypeOK, Protocol, DeadLetterExact, [Next]_vars,
                      NEW i \in Job
               PROVE  (job[i].state = "dead_letter" <=> job[i].attempts >= MaxAttempts)'
    BY DEF DeadLetterExact
  <2>1. CASE job'[i] = job[i]
    BY <2>1 DEF DeadLetterExact
  <2>2. ASSUME NEW p \in Producer, EnqueueInsert(p)
        PROVE  (job[i].state = "dead_letter" <=> job[i].attempts >= MaxAttempts)'
    BY <2>1, <2>2, NewRowType, JobAssumption DEF EnqueueInsert, TypeOK, JobAssumption
  <2>3. ASSUME NEW w \in Worker, LeaseCommit(w)
        PROVE  (job[i].state = "dead_letter" <=> job[i].attempts >= MaxAttempts)'
    BY <2>1, <2>3, LeasedType
       DEF LeaseCommit, Protocol, SelectedInv, Leasable, DeadLetterExact, TypeOK
  <2>4. ASSUME NEW w \in Worker, FinishCommit(w)
        PROVE  (job[i].state = "dead_letter" <=> job[i].attempts >= MaxAttempts)'
    BY <2>1, <2>4, CompletedType DEF FinishCommit, Owns, DeadLetterExact, TypeOK
  <2>5. ASSUME NEW w \in Worker, RetryCommit(w)
        PROVE  (job[i].state = "dead_letter" <=> job[i].attempts >= MaxAttempts)'
    BY <2>1, <2>5, FailedType DEF RetryCommit, TypeOK
  <2>6. CASE UNCHANGED job
    BY <2>1, <2>6
  <2>7. QED
    BY <2>2, <2>3, <2>4, <2>5, <2>6
       DEF Next, vars, Enqueue, Run, EnqueueLookup, LeaseSelect, Handle, RecordLock, Crash, Tick
<1>3. QED
  BY <1>1, <1>2, TypeCorrect, ProtocolCorrect, PTL DEF Spec

(***************************************************************************)
(* A job is settled by the call that holds its present lease, with that    *)
(* call's own outcome.                                                     *)
(***************************************************************************)
THEOREM OutcomesOfPresentLeases == Spec => OutcomeOfPresentLease
<1> DEFINE Settles(j) ==
      job[j].state = "running" /\ job'[j].state # "running" =>
         LET w == job[j].leased_by IN
         /\ w \in Worker
         /\ worker[w].job = j
         /\ worker[w].until = job[j].leased_until
         /\ worker[w].phase = IF job'[j].state = "complete" THEN "finishing" ELSE "retrying"
<1>1. TypeOK /\ Protocol /\ [Next]_vars => [\A j \in Job : Settles(j)]_vars
  <2> SUFFICES ASSUME TypeOK, Protocol, [Next]_vars, NEW j \in Job,
                      job[j].state = "running", job'[j].state # "running"
               PROVE  Settles(j)
    OBVIOUS
  <2>1. ASSUME NEW w \in Worker, FinishCommit(w)
        PROVE  Settles(j)
    BY <2>1, CompletedType DEF FinishCommit, Owns, Protocol, LeaseInv, Holding, Phase, TypeOK
  <2>2. ASSUME NEW w \in Worker, RetryCommit(w)
        PROVE  Settles(j)
    <3>1. worker[w].job = j /\ Owns(w, j) /\ job'[j] = Failed(job[j])
      BY <2>2 DEF RetryCommit, TypeOK
    <3>2. job'[j].state # "complete"
      BY <3>1, FailedType DEF TypeOK
    <3>3. QED
      BY <2>2, <3>1, <3>2 DEF RetryCommit, Owns, Protocol, LeaseInv, Holding, Phase
  <2>3. ASSUME NEW p \in Producer, EnqueueInsert(p)
        PROVE  Settles(j)
    BY <2>3 DEF EnqueueInsert, TypeOK
  <2>4. ASSUME NEW w \in Worker, LeaseCommit(w)
        PROVE  Settles(j)
    BY <2>4, LeasedType DEF LeaseCommit, TypeOK
  <2>5. CASE UNCHANGED job
    BY <2>5
  <2>6. QED
    BY <2>1, <2>2, <2>3, <2>4, <2>5
       DEF Next, vars, Enqueue, Run, EnqueueLookup, LeaseSelect, Handle, RecordLock, Crash, Tick
<1>2. QED
  BY <1>1, TypeCorrect, ProtocolCorrect, PTL DEF Spec, OutcomeOfPresentLease

(***************************************************************************)
(* A running job is given to another call only after its lease expired:    *)
(* what lease_next_job selected is still leasable when it commits.         *)
(***************************************************************************)
THEOREM TakeoversAfterExpiry == Spec => TakeoverAfterExpiry
<1> DEFINE Expired(j) ==
      /\ job[j].state = "running" /\ job'[j].state = "running"
      /\ job'[j] # job[j]
      => job[j].leased_until <= clock
<1>1. TypeOK /\ Protocol /\ [Next]_vars => [\A j \in Job : Expired(j)]_vars
  <2> SUFFICES ASSUME TypeOK, Protocol, [Next]_vars, NEW j \in Job
               PROVE  Expired(j)
    OBVIOUS
  <2>1. ASSUME NEW p \in Producer, EnqueueInsert(p)
        PROVE  Expired(j)
    BY <2>1 DEF EnqueueInsert, TypeOK, TERMINAL_JOB_STATES
  <2>2. ASSUME NEW w \in Worker, LeaseCommit(w)
        PROVE  Expired(j)
    BY <2>2 DEF LeaseCommit, Protocol, SelectedInv, Leasable, TypeOK, TERMINAL_JOB_STATES
  <2>3. ASSUME NEW w \in Worker, FinishCommit(w)
        PROVE  Expired(j)
    BY <2>3, CompletedType DEF FinishCommit, Owns, TypeOK, TERMINAL_JOB_STATES
  <2>4. ASSUME NEW w \in Worker, RetryCommit(w)
        PROVE  Expired(j)
    BY <2>4, FailedType DEF RetryCommit, Owns, TypeOK, TERMINAL_JOB_STATES
  <2>5. CASE UNCHANGED job
    BY <2>5
  <2>6. QED
    BY <2>1, <2>2, <2>3, <2>4, <2>5
       DEF Next, vars, Enqueue, Run, EnqueueLookup, LeaseSelect, Handle, RecordLock, Crash, Tick
<1>2. QED
  BY <1>1, TypeCorrect, ProtocolCorrect, PTL DEF Spec, TakeoverAfterExpiry

(***************************************************************************)
(* A settled job is never changed again, by anyone.                        *)
(***************************************************************************)
THEOREM SettledForever == Spec => TerminalForever
<1> DEFINE Kept(j) == job[j].state \in TERMINAL_JOB_STATES => job'[j] = job[j]
<1>1. TypeOK /\ Protocol /\ [Next]_vars => [\A j \in Job : Kept(j)]_vars
  <2> SUFFICES ASSUME TypeOK, Protocol, [Next]_vars, NEW j \in Job
               PROVE  Kept(j)
    OBVIOUS
  <2>1. ASSUME NEW p \in Producer, EnqueueInsert(p)
        PROVE  Kept(j)
    BY <2>1 DEF EnqueueInsert, TypeOK, TERMINAL_JOB_STATES
  <2>2. ASSUME NEW w \in Worker, LeaseCommit(w)
        PROVE  Kept(j)
    BY <2>2 DEF LeaseCommit, Protocol, SelectedInv, Leasable, TypeOK, TERMINAL_JOB_STATES
  <2>3. ASSUME NEW w \in Worker, FinishCommit(w)
        PROVE  Kept(j)
    BY <2>3, CompletedType DEF FinishCommit, Owns, TypeOK, TERMINAL_JOB_STATES
  <2>4. ASSUME NEW w \in Worker, RetryCommit(w)
        PROVE  Kept(j)
    BY <2>4, FailedType DEF RetryCommit, Owns, TypeOK, TERMINAL_JOB_STATES
  <2>5. CASE UNCHANGED job
    BY <2>5
  <2>6. QED
    BY <2>1, <2>2, <2>3, <2>4, <2>5
       DEF Next, vars, Enqueue, Run, EnqueueLookup, LeaseSelect, Handle, RecordLock, Crash, Tick
<1>2. QED
  BY <1>1, TypeCorrect, ProtocolCorrect, PTL DEF Spec, TerminalForever

(***************************************************************************)
(* The lease that a worker is about to commit is no longer than            *)
(* LeaseTicks, however long its transaction has been open.                 *)
(***************************************************************************)
GrantInv ==
    \A w \in Worker : worker[w].phase = "leasing" => worker[w].until \in 1..(clock + LeaseTicks)

\* It is fixed at the time of the look-up, and time only goes on.
LEMMA GrantCorrect == Spec => []GrantInv
<1>1. Init => GrantInv
  BY DEF Init, GrantInv, Idle
<1>2. TypeOK /\ GrantInv /\ [Next]_vars => GrantInv'
  <2> SUFFICES ASSUME TypeOK, GrantInv, [Next]_vars PROVE GrantInv'
    OBVIOUS
  <2>1. clock \in Nat /\ LeaseTicks \in Nat \ {0} /\ worker \in [Worker -> Call]
    BY JobAssumption DEF TypeOK, JobAssumption
  <2>2. ASSUME NEW w \in Worker, LeaseSelect(w)
        PROVE  GrantInv'
    BY <2>1, <2>2 DEF LeaseSelect, GrantInv
  <2>3. ASSUME clock' = clock,
               \A v \in Worker : worker'[v] = worker[v] \/ worker'[v].phase # "leasing"
        PROVE  GrantInv'
    BY <2>3 DEF GrantInv
  <2>4. ASSUME NEW w \in Worker, LeaseCommit(w) \/ Handle(w) \/ RecordLock(w)
        PROVE  GrantInv'
    BY <2>1, <2>3, <2>4 DEF LeaseCommit, Handle, RecordLock, Call
  <2>5. ASSUME NEW w \in Worker, FinishCommit(w) \/ RetryCommit(w) \/ Crash(w)
        PROVE  GrantInv'
    BY <2>1, <2>3, <2>5 DEF FinishCommit, RetryCommit, Crash, Release, Idle
  <2>6. CASE Tick
    BY <2>1, <2>6 DEF Tick, GrantInv
  <2>7. CASE UNCHANGED <<clock, worker>>
    BY <2>7 DEF GrantInv
  <2>8. QED
    BY <2>2, <2>4, <2>5, <2>6, <2>7
       DEF Next, vars, Enqueue, Run, EnqueueLookup, EnqueueInsert
<1>3. QED
  BY <1>1, <1>2, TypeCorrect, PTL DEF Spec

(***************************************************************************)
(* The rows that are written, column by column, as entries of the queue.   *)
(***************************************************************************)
LEMMA RowIsEntry ==
  ASSUME NEW r \in Row
  PROVE  r = Queue!Entry(r.state, r.attempts, r.available_at, r.leased_until, r.leased_by)
BY DEF Row, Queue!Entry

\* A lease keeps the count of failures and the time the job was due.
LEMMA LeasedEntry ==
  ASSUME NEW r \in Row, NEW w \in Worker, worker[w] \in Call
  PROVE  Leased(r, w) = Queue!Entry("running", r.attempts, r.available_at, worker[w].until, w)
<1>1. Leased(r, w).available_at = r.available_at
  BY DEF Leased, Row
<1>2. QED
  BY <1>1, LeasedType, RowIsEntry

\* A completed job is nobody's.
LEMMA CompletedEntry ==
  ASSUME NEW r \in Row
  PROVE  Completed(r) = Queue!Free("complete", r.attempts, r.available_at)
<1>1. /\ Completed(r).available_at = r.available_at
      /\ Completed(r).leased_until = 0 /\ Completed(r).leased_by = Nobody
  BY DEF Completed, Row
<1>2. QED
  BY <1>1, CompletedType, RowIsEntry DEF Queue!Free

\* A failed job is due again or dead-lettered, and nobody's.
LEMMA FailedEntry ==
  ASSUME clock \in Nat, NEW r \in Row, NEW attempts, attempts = r.attempts + 1
  PROVE  /\ attempts < MaxAttempts =>
                Failed(r) = Queue!Free("pending", attempts, clock + RetryDelay(attempts))
         /\ attempts >= MaxAttempts =>
                Failed(r) = Queue!Free("dead_letter", attempts, r.available_at)
<1>1. attempts \in Nat /\ MaxAttempts \in Nat
  BY JobAssumption DEF JobAssumption, Row
<1>2. Failed(r).attempts = attempts /\ Failed(r).leased_until = 0 /\ Failed(r).leased_by = Nobody
  BY DEF Failed, Row
<1>3. attempts < MaxAttempts =>
        Failed(r).state = "pending" /\ Failed(r).available_at = clock + RetryDelay(attempts)
  BY <1>1 DEF Failed, Row
<1>4. attempts >= MaxAttempts =>
        Failed(r).state = "dead_letter" /\ Failed(r).available_at = r.available_at
  BY <1>1 DEF Failed, Row
<1>5. Failed(r) \in Row
  BY FailedType
<1>6. QED
  BY <1>2, <1>3, <1>4, <1>5, RowIsEntry DEF Queue!Free

(***************************************************************************)
(* The table and its workers implement the queue.  Inserting a row,        *)
(* committing a lease and recording an outcome that is accepted are the    *)
(* queue's steps; an outcome that is refused and a death give the job up;  *)
(* everything else is not seen.                                            *)
(***************************************************************************)
\* The empty table is the empty queue.
LEMMA QueueInit == Init => Queue!Init
BY DEF Init, Queue!Init, Queue!Free, Queue!Entry, Queue!Nothing, NoRow, Serving, Idle, Holding, Phase

\* What a worker serves changes with its own call only.
LEMMA ServingOthers ==
  ASSUME NEW w \in Worker, \A v \in Worker \ {w} : worker'[v] = worker[v]
  PROVE  Serving' = [Serving EXCEPT ![w] = Serving'[w]]
BY DEF Serving, Holding

\* A worker whose call is idle serves nothing; one that holds a job serves it.
LEMMA ServesHeld ==
  ASSUME TypeOK, Protocol, NEW w \in Worker
  PROVE  /\ ~Holding(w) => Serving[w] = Queue!Nothing
         /\ Holding(w) => /\ Serving[w] = [job |-> worker[w].job, until |-> worker[w].until]
                          /\ Serving[w] # Queue!Nothing
<1>1. Holding(w) => worker[w].job \in Job /\ worker[w].job # NoJob
  BY JobAssumption DEF Holding, Protocol, LockInv, JobAssumption, NoJob, Phase
<1>2. QED
  BY <1>1 DEF Serving, Queue!Nothing

\* A call that owns the row it is about to record has it under its own lease.
LEMMA OwnerHas ==
  ASSUME TypeOK, Protocol, NEW w \in Worker, Holding(w), Owns(w, worker[w].job)
  PROVE  Queue!Has(w, worker[w].job)
<1>1. Serving[w].job = worker[w].job /\ Serving[w].until = worker[w].until
  BY DEF Serving
<1>2. job[worker[w].job].leased_until = worker[w].until
  BY DEF Protocol, LeaseInv
<1>3. QED
  BY <1>1, <1>2 DEF Owns, Queue!Has

\* Every step is one of the queue's, or is not seen.
LEMMA QueueStep ==
  ASSUME TypeOK, Protocol, GrantInv, [Next]_vars
  PROVE  [Queue!Next]_(Queue!vars)
<1> USE DEF Queue!vars
<1>1. CASE UNCHANGED <<clock, job, worker>>
  BY <1>1 DEF Serving, Holding
<1>2. ASSUME NEW p \in Producer, EnqueueInsert(p)
      PROVE  [Queue!Next]_(Queue!vars)
  <2> DEFINE j == producer[p]
  <2>1. j \in Job /\ UNCHANGED <<clock, worker, Serving>>
    BY <1>2 DEF EnqueueInsert, TypeOK, Serving, Holding
  <2>2. CASE job' = job
    BY <2>1, <2>2
  <2>3. CASE job' # job
    <3>1. PICK delay \in {0, BackoffUnit} : job' = [job EXCEPT ![j] = NewRow(clock + delay)]
      BY <1>2, <2>3 DEF EnqueueInsert
    <3>2. \A i \in Job : KeyOf[i] = KeyOf[j] => job[i].state = "absent"
      BY <1>2, <2>3 DEF EnqueueInsert, Inserted
    <3>3. NewRow(clock + delay) = Queue!Free("pending", 0, clock + delay)
      BY DEF NewRow, Queue!Free, Queue!Entry
    <3>4. Queue!Submit(j)
      BY <2>1, <3>1, <3>2, <3>3 DEF Queue!Submit
    <3>5. QED
      BY <2>1, <3>4 DEF Queue!Next
  <2>4. QED
    BY <2>2, <2>3
<1>3. ASSUME NEW w \in Worker, LeaseCommit(w)
      PROVE  [Queue!Next]_(Queue!vars)
  <2> DEFINE j == worker[w].job
  <2>1. /\ worker[w].phase = "leasing" /\ j \in Job /\ Leasable(j)
        /\ worker[w].until \in 1..(clock + LeaseTicks)
    BY <1>3 DEF LeaseCommit, Protocol, LockInv, SelectedInv, GrantInv
  <2>2. /\ clock' = clock
        /\ worker'[w].phase = "handling" /\ worker'[w].job = j
        /\ worker'[w].until = worker[w].until
        /\ \A v \in Worker \ {w} : worker'[v] = worker[v]
    BY <1>3 DEF LeaseCommit, TypeOK, Call
  <2>3. ~Holding(w) /\ Holding(w)'
    BY <2>1, <2>2 DEF Holding, Phase
  <2>4. Serving[w] = Queue!Nothing
    BY <2>3, ServesHeld
  <2>5. Serving'[w] = [job |-> j, until |-> worker[w].until]
    BY <2>2, <2>3 DEF Serving
  <2>6. Serving' = [Serving EXCEPT ![w] = [job |-> j, until |-> worker[w].until]]
    BY <2>2, <2>5, ServingOthers
  <2>7. job' = [job EXCEPT ![j] =
                    Queue!Entry("running", @.attempts, @.available_at, worker[w].until, w)]
    BY <1>3, <2>1, LeasedEntry DEF LeaseCommit, TypeOK
  <2>8. Queue!Give(w, j)
    BY <2>1, <2>2, <2>4, <2>6, <2>7 DEF Queue!Give, Leasable
  <2>9. QED
    BY <2>1, <2>8 DEF Queue!Next
<1>4. ASSUME NEW w \in Worker, Handle(w) \/ RecordLock(w) \/ LeaseSelect(w)
      PROVE  [Queue!Next]_(Queue!vars)
  <2>1. /\ UNCHANGED <<clock, job>>
        /\ \A v \in Worker \ {w} : worker'[v] = worker[v]
    BY <1>4 DEF Handle, RecordLock, LeaseSelect, TypeOK
  <2>2. \/ ~Holding(w) /\ ~Holding(w)'
        \/ /\ Holding(w) /\ Holding(w)'
           /\ worker'[w].job = worker[w].job /\ worker'[w].until = worker[w].until
    BY <1>4 DEF Handle, RecordLock, LeaseSelect, Holding, Phase, TypeOK, Call
  <2>3. Serving' = Serving
    BY <2>1, <2>2 DEF Serving, Holding
  <2>4. QED
    BY <2>1, <2>3
<1>5. ASSUME NEW w \in Worker, FinishCommit(w) \/ RetryCommit(w) \/ Crash(w), job' = job
      PROVE  [Queue!Next]_(Queue!vars)
  <2>1. UNCHANGED <<clock, job>> /\ worker' = [worker EXCEPT ![w] = Idle]
    BY <1>5 DEF FinishCommit, RetryCommit, Crash, Release
  <2>2. ~Holding(w)' /\ \A v \in Worker \ {w} : worker'[v] = worker[v]
    BY <2>1 DEF Holding, Idle, Phase, TypeOK
  <2>3. Serving'[w] = Queue!Nothing
    BY <2>2 DEF Serving, Queue!Nothing
  <2>4. Serving' = [Serving EXCEPT ![w] = Queue!Nothing]
    BY <2>2, <2>3, ServingOthers
  <2>5. CASE Holding(w)
    BY <2>1, <2>4, <2>5, ServesHeld DEF Queue!Abandon, Queue!Next
  <2>6. CASE ~Holding(w)
    <3>1. Serving[w] = Queue!Nothing
      BY <2>6, ServesHeld
    <3>2. Serving' = Serving
      BY <2>4, <3>1 DEF Serving
    <3>3. QED
      BY <2>1, <3>2
  <2>7. QED
    BY <2>5, <2>6
<1>6. ASSUME NEW w \in Worker, FinishCommit(w) \/ RetryCommit(w), job' # job
      PROVE  [Queue!Next]_(Queue!vars)
  <2> DEFINE j == worker[w].job
  <2>1. Holding(w) /\ j \in Job /\ Owns(w, j) /\ clock' = clock
    BY <1>6 DEF FinishCommit, RetryCommit, Release, Holding, Phase, Protocol, LockInv
  <2>2. worker' = [worker EXCEPT ![w] = Idle]
    BY <1>6 DEF FinishCommit, RetryCommit, Release
  <2>3. ~Holding(w)' /\ \A v \in Worker \ {w} : worker'[v] = worker[v]
    BY <2>2 DEF Holding, Idle, Phase, TypeOK
  <2>4. Serving'[w] = Queue!Nothing
    BY <2>3 DEF Serving, Queue!Nothing
  <2>5. Serving' = [Serving EXCEPT ![w] = Queue!Nothing]
    BY <2>3, <2>4, ServingOthers
  <2>6. Queue!Has(w, j)
    BY <2>1, OwnerHas
  <2>7. CASE FinishCommit(w)
    <3>1. job' = [job EXCEPT ![j] = Completed(@)]
      BY <2>1, <2>7 DEF FinishCommit
    <3>2. job' = [job EXCEPT ![j] = Queue!Free("complete", @.attempts, @.available_at)]
      BY <2>1, <3>1, CompletedEntry DEF TypeOK
    <3>3. QED
      BY <2>1, <2>5, <2>6, <3>2 DEF Queue!Finish, Queue!Next
  <2>8. CASE RetryCommit(w)
    <3> DEFINE attempts == job[j].attempts + 1
    <3>1. job' = [job EXCEPT ![j] = Failed(@)] /\ job'[j] = Failed(job[j])
      BY <2>1, <2>8 DEF RetryCommit, TypeOK
    <3>2. clock \in Nat /\ job[j] \in Row
      BY <2>1 DEF TypeOK
    <3>3. attempts \in Nat /\ MaxAttempts \in Nat
      BY <3>2, JobAssumption DEF Row, JobAssumption
    <3>4. CASE attempts < MaxAttempts
      <4>1. Failed(job[j]) = Queue!Free("pending", attempts, clock + RetryDelay(attempts))
        BY <3>2, <3>4, FailedEntry
      <4>2. job'[j].available_at = clock + RetryDelay(attempts)
        BY <3>1, <4>1 DEF Queue!Free, Queue!Entry
      <4>3. job'[j].available_at <= clock + BackoffCap
        BY <3>2, <3>3, <4>2, RetryDelayBound, JobAssumption DEF JobAssumption
      <4>4. job' = [job EXCEPT ![j] = Queue!Free("pending", attempts, job'[j].available_at)]
        BY <3>1, <4>1, <4>2
      <4>5. QED
        BY <2>1, <2>5, <2>6, <3>4, <4>3, <4>4 DEF Queue!Fail, Queue!Next
    <3>5. CASE attempts >= MaxAttempts
      <4>1. Failed(job[j]) = Queue!Free("dead_letter", attempts, job[j].available_at)
        BY <3>2, <3>5, FailedEntry
      <4>2. job' = [job EXCEPT ![j] = Queue!Free("dead_letter", attempts, @.available_at)]
        BY <3>1, <4>1
      <4>3. QED
        BY <2>1, <2>5, <2>6, <3>5, <4>2 DEF Queue!Fail, Queue!Next
    <3>6. QED
      BY <3>3, <3>4, <3>5
  <2>9. QED
    BY <1>6, <2>7, <2>8
<1>7. ASSUME NEW w \in Worker, Crash(w)
      PROVE  [Queue!Next]_(Queue!vars)
  BY <1>5, <1>7 DEF Crash
<1>8. CASE Tick
  BY <1>8 DEF Tick, Serving, Holding, Queue!Next, Queue!Pass
<1>9. ASSUME NEW w \in Worker, FinishCommit(w) \/ RetryCommit(w)
      PROVE  [Queue!Next]_(Queue!vars)
  BY <1>5, <1>6, <1>9
<1>10. QED
  BY <1>1, <1>2, <1>3, <1>4, <1>7, <1>8, <1>9 DEF Next, vars, Enqueue, Run, EnqueueLookup

\* The jobs table, its row locks and its workers are a queue of jobs in which
\* every operation is one step.
THEOREM TableIsQueue == Spec => ImplementsJobQueue
<1>1. TypeOK /\ Protocol /\ GrantInv /\ [Next]_vars
        => [Queue!Next]_(Queue!vars)
  BY QueueStep
<1>2. QED
  BY <1>1, QueueInit, TypeCorrect, ProtocolCorrect, GrantCorrect, PTL
     DEF Spec, ImplementsJobQueue, Queue!Spec
=============================================================================
