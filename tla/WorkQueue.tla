------------------------------ MODULE WorkQueue ------------------------------
(***************************************************************************)
(* What the outbox promises to the code that enqueues a job, with no word  *)
(* of workers, claims or leases: a submitted job stays open, its failures  *)
(* are counted one by one, and it is closed once and for all, either       *)
(* completed or buried in the deadletter state.                            *)
(***************************************************************************)
EXTENDS Naturals

CONSTANTS Job,          \* the jobs (OutboxJob rows)
          MaxRetries    \* OutboxJob.max_retries

VARIABLES state,        \* "absent", "open", "completed" or "deadletter"
          failures      \* failures counted so far (OutboxJob.retry_count)

wqVars == <<state, failures>>

WQInit ==
    /\ state = [j \in Job |-> "absent"]
    /\ failures = [j \in Job |-> 0]

Submit(j) ==
    /\ state[j] = "absent"
    /\ state' = [state EXCEPT ![j] = "open"]
    /\ UNCHANGED failures

\* A failure that leaves the job open is counted, and there is room for it.
Fail(j) ==
    /\ state[j] = "open"
    /\ failures[j] + 1 < MaxRetries
    /\ failures' = [failures EXCEPT ![j] = @ + 1]
    /\ UNCHANGED state

Close(j) ==
    /\ state[j] = "open"
    /\ \E s \in {"completed", "deadletter"} : state' = [state EXCEPT ![j] = s]
    /\ UNCHANGED failures

WQNext == \E j \in Job : Submit(j) \/ Fail(j) \/ Close(j)

WQSpec == WQInit /\ [][WQNext]_wqVars
=============================================================================
