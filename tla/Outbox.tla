-------------------------------- MODULE Outbox --------------------------------
(***************************************************************************)
(* The outbox of the backend (worker/outbox_worker.py, outbox_heartbeat.py *)
(* and the OutboxJob rows they share).                                     *)
(*                                                                         *)
(* A Worker is one poll thread of one backend process: the threads of a    *)
(* process poll disjoint sets of job types, so a job type has one thread   *)
(* per process.  Every action below is one committed transaction of the    *)
(* code, or one step that happens outside any transaction.                 *)
(*                                                                         *)
(* Time is not counted.  A lease is live or it is not, a pending row is    *)
(* due or it is not; LeaseExpires and BecomesDue are the passing of time.  *)
(* claim_token is a uuid4, never drawn twice: here the claims of a row are *)
(* numbered, and the token is the row with the number.                     *)
(***************************************************************************)
EXTENDS Naturals

CONSTANTS Job,          \* rows of outbox_jobs, ordered by created_at: numbers
          Worker,       \* poll threads (worker_id)
          NoJob, NoWorker, NoToken,
          MaxRetries,   \* OutboxJob.max_retries
          MaxDefers,    \* bound: results of one job that leave it unsettled
          MaxFaults     \* bound: crashes, stalls and database errors in a run

ASSUME OutboxAssumption ==
    /\ Job \subseteq Nat
    /\ NoJob \notin Job /\ NoWorker \notin Worker
    /\ NoToken \notin Job \X Nat
    /\ MaxRetries \in Nat \ {0}
    /\ MaxDefers \in Nat /\ MaxFaults \in Nat

VARIABLES job,          \* the rows: [Job -> Row]
          claim,        \* what each poll thread works on: [Worker -> Claim]
          claims,       \* how often each row was claimed: the next token
          defers,       \* results that left a job unsettled, for MaxDefers
          faults        \* faults so far, for MaxFaults

outboxVars == <<job, claim, claims, defers, faults>>

Terminal == {"completed", "deadletter"}
Status == {"absent", "pending", "running"} \cup Terminal

\* HandlerOutcome; an exception out of the handler counts as retryable_error.
Outcome == {"completed", "retry_later", "continue",
            "non_retryable", "retryable_error", "claim_lost"}

Token == Job \X Nat

Row == [status : Status, token : Token \cup {NoToken},
        owner : Worker \cup {NoWorker}, live : BOOLEAN, due : BOOLEAN,
        retries : 0 .. MaxRetries - 1]

\* A ClaimedJob (with the handler's result, once it has returned one).
Claim == [job : Job, token : Token,
          retries : 0 .. MaxRetries - 1, result : Outcome \cup {"none"}]

NoClaim == [job |-> NoJob, token |-> NoToken, retries |-> 0, result |-> "none"]

Idle(w) == claim[w].job = NoJob
Busy(w) == claim[w].job # NoJob

Unclaimed(row) == [row EXCEPT !.token = NoToken, !.owner = NoWorker, !.live = FALSE]
-------------------------------------------------------------------------------
(* claim_one *)

\* Mutants: a row is claimable whatever its status, unless it is leased ...
EligibleUnlessLeased(j) ==
    /\ job[j].status # "absent"
    /\ job[j].status = "running" => ~job[j].live
    /\ job[j].due

\* ... or only when it is pending: expired leases are forgotten.
EligibleIfPending(j) == job[j].status = "pending" /\ job[j].due

Eligible(j) ==
    /\ \/ job[j].status = "pending"
       \/ job[j].status = "running" /\ ~job[j].live
    /\ job[j].due

\* ORDER BY created_at LIMIT 1
Head(j) == Eligible(j) /\ \A i \in Job : i < j => ~Eligible(i)

ClaimOne(w, j) ==
    LET t == <<j, claims[j] + 1>> IN
    /\ Idle(w)
    /\ Head(j)
    /\ claims' = [claims EXCEPT ![j] = @ + 1]
    /\ job' = [job EXCEPT ![j] = [@ EXCEPT !.status = "running", !.token = t,
                                           !.owner = w, !.live = TRUE]]
    /\ claim' = [claim EXCEPT ![w] = [job |-> j, token |-> t,
                                      retries |-> job[j].retries, result |-> "none"]]
    /\ UNCHANGED <<defers, faults>>
-------------------------------------------------------------------------------
(* Enqueueing, and the handler as _dispatch_one sees it *)

Enqueue(j) ==
    /\ job[j].status = "absent"
    /\ \A i \in Job : i < j => job[i].status # "absent"
    /\ job' = [job EXCEPT ![j] = [@ EXCEPT !.status = "pending", !.due = TRUE]]
    /\ UNCHANGED <<claim, claims, defers, faults>>

\* handler(claimed) returns, or raises; a job without a handler or with an
\* unsupported schema_version goes straight to the non_retryable branch.
HandlerReturns(w, o) ==
    LET j == claim[w].job IN
    /\ Busy(w)
    /\ claim[w].result = "none"
    /\ claim' = [claim EXCEPT ![w].result = o]
    /\ IF o \in {"retry_later", "continue", "claim_lost"}
       THEN defers[j] < MaxDefers /\ defers' = [defers EXCEPT ![j] = @ + 1]
       ELSE UNCHANGED defers
    /\ UNCHANGED <<job, claims, faults>>
-------------------------------------------------------------------------------
(* The fenced writes: UPDATE ... WHERE id, claim_token, locked_by, running *)

\* Mutant: the UPDATE matches the row and its status only.
FencedByStatus(w, j) == job[j].status = "running"

Fenced(w, j) ==
    /\ job[j].status = "running"
    /\ job[j].token = claim[w].token
    /\ job[j].owner = w

\* Write the row if the fence holds, log a violation if not; either way poll
\* drops the claim from the registry (its finally clause).
Settle(w, row) ==
    LET j == claim[w].job IN
    /\ job' = IF Fenced(w, j) THEN [job EXCEPT ![j] = row] ELSE job
    /\ claim' = [claim EXCEPT ![w] = NoClaim]
    /\ UNCHANGED <<claims, defers, faults>>

Closed(j, s) == [Unclaimed(job[j]) EXCEPT !.status = s]
Reopened(j, isDue, r) ==
    [Unclaimed(job[j]) EXCEPT !.status = "pending", !.due = isDue, !.retries = r]

FinalizeJob(w) ==
    /\ claim[w].result = "completed"
    /\ Settle(w, Closed(claim[w].job, "completed"))

RetryLater(w) ==
    /\ claim[w].result = "retry_later"
    /\ Settle(w, Reopened(claim[w].job, FALSE, job[claim[w].job].retries))

ContinueLater(w) ==
    /\ claim[w].result = "continue"
    /\ Settle(w, Reopened(claim[w].job, TRUE, job[claim[w].job].retries))

\* Mutant: the retry limit is never looked at.
RetryFailedUnlimited(w) ==
    /\ claim[w].result = "retryable_error"
    /\ Settle(w, Reopened(claim[w].job, FALSE, claim[w].retries + 1))

\* The failure is counted from the ClaimedJob copy, not from the row.
RetryFailed(w) ==
    /\ claim[w].result = "retryable_error"
    /\ claim[w].retries + 1 < MaxRetries
    /\ Settle(w, Reopened(claim[w].job, FALSE, claim[w].retries + 1))

MustDeadletter(w) ==
    \/ claim[w].result = "non_retryable"
    \/ claim[w].result = "retryable_error" /\ claim[w].retries + 1 >= MaxRetries

Deadletter(w) ==
    /\ MustDeadletter(w)
    /\ Settle(w, Closed(claim[w].job, "deadletter"))

\* CLAIM_LOST is only logged: the row is left to whoever took it over.
DropLostClaim(w) ==
    /\ claim[w].result = "claim_lost"
    /\ claim' = [claim EXCEPT ![w] = NoClaim]
    /\ UNCHANGED <<job, claims, defers, faults>>
-------------------------------------------------------------------------------
(* The heartbeat thread, time, and faults *)

\* It matches the claim, never the lease: a lease that ran out is revived
\* if nobody has taken the row over yet.
Heartbeat(w) ==
    /\ Busy(w)
    /\ Fenced(w, claim[w].job)
    /\ job' = [job EXCEPT ![claim[w].job].live = TRUE]
    /\ UNCHANGED <<claim, claims, defers, faults>>

Orphan(j) ==
    /\ job[j].status = "running"
    /\ \A w \in Worker : ~(claim[w].job = j /\ Fenced(w, j))

\* The lease of a job whose holder is gone runs out.
LeaseExpires(j) ==
    /\ Orphan(j)
    /\ job[j].live
    /\ job' = [job EXCEPT ![j].live = FALSE]
    /\ UNCHANGED <<claim, claims, defers, faults>>

\* The process stalls, or the heartbeat cannot reach the database, for longer
\* than LEASE_DURATION while the handler still runs.
HolderStalls(w) ==
    /\ Busy(w)
    /\ faults < MaxFaults
    /\ Fenced(w, claim[w].job) /\ job[claim[w].job].live
    /\ job' = [job EXCEPT ![claim[w].job].live = FALSE]
    /\ faults' = faults + 1
    /\ UNCHANGED <<claim, claims, defers>>

BecomesDue(j) ==
    /\ job[j].status = "pending" /\ ~job[j].due
    /\ job' = [job EXCEPT ![j].due = TRUE]
    /\ UNCHANGED <<claim, claims, defers, faults>>

\* The process dies and is restarted, or a finalizer raises out of poll: the
\* claim is forgotten and its row stays running until the lease runs out.
LoseClaim(w) ==
    /\ Busy(w)
    /\ faults < MaxFaults
    /\ claim' = [claim EXCEPT ![w] = NoClaim]
    /\ faults' = faults + 1
    /\ UNCHANGED <<job, claims, defers>>
-------------------------------------------------------------------------------
Init ==
    /\ job = [j \in Job |-> [status |-> "absent", token |-> NoToken,
                             owner |-> NoWorker, live |-> FALSE, due |-> FALSE,
                             retries |-> 0]]
    /\ claim = [w \in Worker |-> NoClaim]
    /\ claims = [j \in Job |-> 0]
    /\ defers = [j \in Job |-> 0]
    /\ faults = 0

Finalize(w) ==
    \/ FinalizeJob(w) \/ RetryLater(w) \/ ContinueLater(w)
    \/ RetryFailed(w) \/ Deadletter(w) \/ DropLostClaim(w)

WorkerStep(w) ==
    \/ \E j \in Job : ClaimOne(w, j)
    \/ \E o \in Outcome : HandlerReturns(w, o)
    \/ Finalize(w)
    \/ Heartbeat(w)
    \/ HolderStalls(w)
    \/ LoseClaim(w)

Next ==
    \/ \E w \in Worker : WorkerStep(w)
    \/ \E j \in Job : Enqueue(j) \/ LeaseExpires(j) \/ BecomesDue(j)

(***************************************************************************)
(* Handlers return, the poll thread finishes what it started, time passes. *)
(* A row that comes due again and again is claimed: poll asks for the next *)
(* row as soon as a handler returns, while a row that was put off stays    *)
(* away for seconds, so no older row can always be in front of it.         *)
(***************************************************************************)
Fairness ==
    /\ \A w \in Worker : WF_outboxVars(\E o \in Outcome : HandlerReturns(w, o))
    /\ \A w \in Worker : WF_outboxVars(Finalize(w))
    /\ \A j \in Job : WF_outboxVars(LeaseExpires(j)) /\ WF_outboxVars(BecomesDue(j))
    /\ \A j \in Job : SF_outboxVars(\E w \in Worker : ClaimOne(w, j))

Spec == Init /\ [][Next]_outboxVars
FairSpec == Spec /\ Fairness
-------------------------------------------------------------------------------
TypeOK ==
    /\ job \in [Job -> Row]
    /\ claim \in [Worker -> Claim \cup {NoClaim}]
    /\ claims \in [Job -> Nat]
    /\ defers \in [Job -> 0 .. MaxDefers]
    /\ faults \in 0 .. MaxFaults

\* The retry_count a worker copied when it claimed the row is still the row's
\* own while the worker holds it, so the count it writes back is exact.
CopiedRetriesExact ==
    \A w \in Worker :
        Busy(w) /\ Fenced(w, claim[w].job) => claim[w].retries = job[claim[w].job].retries

\* A running row leaves that state only by the hand of the worker that holds
\* its claim, and that worker drops the claim in the same step: a worker that
\* was taken over can no longer complete, reopen or bury the job.
OnlyHolderSettles ==
    [][\A j \in Job :
          job[j].status = "running" /\ job'[j].status # "running" =>
             \E w \in Worker : /\ claim[w].job = j /\ claim[w].token = job[j].token
                               /\ claim'[w] = NoClaim]_outboxVars

\* completed and deadletter are final: no late result, reclaim or retry ever
\* touches the row again.
TerminalIsFinal ==
    [][\A j \in Job : job[j].status \in Terminal => job'[j] = job[j]]_outboxVars

\* retry_count moves up by one or not at all: a late failure of an execution
\* that was taken over cannot set the count back and buy the job more attempts.
RetriesNeverRegress ==
    [][\A j \in Job : job'[j].retries \in {job[j].retries, job[j].retries + 1}]_outboxVars

\* With finitely many faults and deferrals every enqueued job is closed.
EventuallyTerminal ==
    \A j \in Job : job[j].status # "absent" ~> job[j].status \in Terminal

\* The outbox implements the abstract work queue.
Queue == INSTANCE WorkQueue WITH
    state <- [j \in Job |-> IF job[j].status \in {"pending", "running"}
                            THEN "open" ELSE job[j].status],
    failures <- [j \in Job |-> job[j].retries]

ImplementsWorkQueue == Queue!WQSpec
===============================================================================
