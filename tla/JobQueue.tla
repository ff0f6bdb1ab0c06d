------------------------------ MODULE JobQueue ------------------------------
(***************************************************************************)
(* What the durable job table promises to those who submit jobs and to     *)
(* those who run them: jobs are given out, and their outcomes are taken    *)
(* in, one at a time and in one step, without row locks, transactions and  *)
(* workers that are in the middle of one.                                  *)
(***************************************************************************)
EXTENDS Integers

CONSTANTS Job, KeyOf, Worker, LeaseTicks, MaxAttempts, BackoffUnit, BackoffCap,
          Nobody, NoJob

VARIABLES
    now,
    entries,    \* the jobs, by id
    serving     \* the job each worker was given, and until when

vars == <<now, entries, serving>>

Nothing == [job |-> NoJob, until |-> 0]

Entry(state, attempts, available_at, until, worker) ==
    [state |-> state, attempts |-> attempts, available_at |-> available_at,
     leased_until |-> until, leased_by |-> worker]

\* An entry that nobody has.
Free(state, attempts, available_at) == Entry(state, attempts, available_at, 0, Nobody)

Init ==
    /\ now = 0
    /\ entries = [j \in Job |-> Free("absent", 0, 0)]
    /\ serving = [w \in Worker |-> Nothing]

\* A job of a new key is there to be given out, at once or after a delay.
Submit(j) ==
    /\ \A i \in Job : KeyOf[i] = KeyOf[j] => entries[i].state = "absent"
    /\ \E delay \in {0, BackoffUnit} :
         entries' = [entries EXCEPT ![j] = Free("pending", 0, now + delay)]
    /\ UNCHANGED <<now, serving>>

\* A worker that has nothing to do is given a job that is due and nobody's,
\* or whose time with another worker is over, for no longer than LeaseTicks.
Give(w, j) ==
    /\ serving[w] = Nothing
    /\ entries[j].available_at <= now
    /\ \/ entries[j].state = "pending"
       \/ entries[j].state = "running" /\ entries[j].leased_until <= now
    /\ \E until \in 1..(now + LeaseTicks) :
         /\ entries' = [entries EXCEPT
                ![j] = Entry("running", @.attempts, @.available_at, until, w)]
         /\ serving' = [serving EXCEPT ![w] = [job |-> j, until |-> until]]
    /\ UNCHANGED now

\* The worker has the job under the lease it was given: nobody was given the
\* job since.
Has(w, j) ==
    /\ serving[w].job = j
    /\ entries[j].state = "running"
    /\ entries[j].leased_by = w /\ entries[j].leased_until = serving[w].until

Finish(w, j) ==
    /\ Has(w, j)
    /\ entries' = [entries EXCEPT ![j] = Free("complete", @.attempts, @.available_at)]
    /\ serving' = [serving EXCEPT ![w] = Nothing]
    /\ UNCHANGED now

\* A failure is counted; the last one that is allowed ends the job, after
\* another it is due again within BackoffCap.
Fail(w, j) ==
    LET attempts == entries[j].attempts + 1
        due == entries'[j].available_at
    IN
    /\ Has(w, j)
    /\ \/ /\ attempts < MaxAttempts
          /\ due <= now + BackoffCap
          /\ entries' = [entries EXCEPT ![j] = Free("pending", attempts, due)]
       \/ /\ attempts >= MaxAttempts
          /\ entries' = [entries EXCEPT ![j] = Free("dead_letter", attempts, @.available_at)]
    /\ serving' = [serving EXCEPT ![w] = Nothing]
    /\ UNCHANGED now

\* A worker that dies, or that comes too late, leaves the jobs as they are.
Abandon(w) ==
    /\ serving[w] # Nothing
    /\ serving' = [serving EXCEPT ![w] = Nothing]
    /\ UNCHANGED <<now, entries>>

Pass ==
    /\ now' = now + 1
    /\ UNCHANGED <<entries, serving>>

Next ==
    \/ \E j \in Job : Submit(j)
    \/ \E w \in Worker, j \in Job : Give(w, j) \/ Finish(w, j) \/ Fail(w, j)
    \/ \E w \in Worker : Abandon(w)
    \/ Pass

Spec == Init /\ [][Next]_vars
=============================================================================
