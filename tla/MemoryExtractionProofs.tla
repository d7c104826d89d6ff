------------------------ MODULE MemoryExtractionProofs ------------------------
(***************************************************************************)
(* What holds of the outbox, and of memory extraction, for every set of     *)
(* turns, jobs and workers and every retry limit.  Memory extraction is an *)
(* outbox whose handlers take several steps: what the first part proves of *)
(* the outbox holds of it.                                                 *)
(***************************************************************************)
EXTENDS MemoryExtraction, TLAPS

\* The outbox.

\* Every way an action rewrites a row gives a row again.
LEMMA RowUpdates ==
    ASSUME NEW r \in Row
    PROVE  /\ \A b \in BOOLEAN : [r EXCEPT !.live = b] \in Row
           /\ [r EXCEPT !.due = TRUE] \in Row
           /\ [r EXCEPT !.status = "pending", !.due = TRUE] \in Row
           /\ \A t \in Token, w \in Worker :
                [r EXCEPT !.status = "running", !.token = t,
                          !.owner = w, !.live = TRUE] \in Row
  BY DEF Row, Status, Terminal

LEMMA UnclaimedRow ==
    ASSUME NEW r \in Row
    PROVE  Unclaimed(r) \in Row /\ Unclaimed(r).retries = r.retries
  BY DEF Row, Unclaimed

\* What the finalizers write is a row that is no longer running.
LEMMA ClosedRow ==
    ASSUME NEW j \in Job, job[j] \in Row, NEW s \in {"completed", "deadletter"}
    PROVE  /\ Closed(j, s) \in Row
           /\ Closed(j, s).status = s
           /\ Closed(j, s).retries = job[j].retries
<1> DEFINE r == Unclaimed(job[j])
<1>1. r \in Row /\ r.retries = job[j].retries
  BY UnclaimedRow
<1>2. /\ [r EXCEPT !.status = s] \in Row
      /\ [r EXCEPT !.status = s].status = s
      /\ [r EXCEPT !.status = s].retries = r.retries
  <2> HIDE DEF r
  <2> QED BY <1>1 DEF Row, Status, Terminal
<1> QED BY <1>1, <1>2 DEF Closed

LEMMA ReopenedRow ==
    ASSUME NEW j \in Job, job[j] \in Row, NEW b \in BOOLEAN, NEW n \in 0 .. MaxRetries - 1
    PROVE  /\ Reopened(j, b, n) \in Row
           /\ Reopened(j, b, n).status = "pending"
           /\ Reopened(j, b, n).retries = n
<1> DEFINE r == Unclaimed(job[j])
           q == [r EXCEPT !.status = "pending", !.due = b, !.retries = n]
<1>1. r \in Row
  BY UnclaimedRow
<1>2. q \in Row /\ q.status = "pending" /\ q.retries = n
  <2> HIDE DEF r
  <2> QED BY <1>1 DEF Row, Status, Terminal
<1> QED BY <1>2 DEF Reopened

\* What a finalizer may write over the row of job j when the worker counted
\* n failures at the claim.
MaySettle(j, n, row) ==
    /\ row \in Row
    /\ \/ row.status \in Terminal /\ row.retries = job[j].retries
       \/ row.status = "pending" /\ row.retries \in {job[j].retries, n + 1}

\* Finalizing drops the claim, and writes the row only through the fence.
LEMMA FinalizeSettles ==
    ASSUME TypeOK, NEW w \in Worker, Finalize(w)
    PROVE  LET j == claim[w].job IN
           /\ claim[w] \in Claim
           /\ claim' = [claim EXCEPT ![w] = NoClaim]
           /\ \/ job' = job
              \/ /\ Fenced(w, j)
                 /\ \E row : /\ MaySettle(j, claim[w].retries, row)
                             /\ job' = [job EXCEPT ![j] = row]
           /\ UNCHANGED <<claims, defers, faults>>
<1> USE OutboxAssumption
<1> DEFINE j == claim[w].job
           n == claim[w].retries
<1>1. claim[w] \in Claim
  <2>1. claim[w].result # "none"
    BY DEF Finalize, FinalizeJob, RetryLater, ContinueLater, RetryFailed,
           Deadletter, MustDeadletter, DropLostClaim
  <2>2. claim[w] \in Claim \cup {NoClaim}
    BY DEF TypeOK
  <2> QED BY <2>1, <2>2 DEF NoClaim
<1>2. j \in Job /\ n \in 0 .. MaxRetries - 1
  BY <1>1 DEF Claim
<1>3. job[j] \in Row /\ job[j].retries \in 0 .. MaxRetries - 1
  BY <1>2 DEF TypeOK, Row
<1> HIDE DEF j, n
<1>4. ASSUME NEW row, MaySettle(j, n, row), Settle(w, row)
      PROVE  /\ claim' = [claim EXCEPT ![w] = NoClaim]
             /\ \/ job' = job
                \/ Fenced(w, j) /\ job' = [job EXCEPT ![j] = row]
             /\ UNCHANGED <<claims, defers, faults>>
  BY <1>4 DEF Settle, j
<1>5. CASE DropLostClaim(w)
  BY <1>1, <1>5 DEF DropLostClaim
<1>6. ASSUME NEW s \in {"completed", "deadletter"}, Settle(w, Closed(j, s))
      PROVE  \E row : MaySettle(j, n, row) /\ Settle(w, row)
  BY <1>2, <1>3, <1>6, ClosedRow DEF MaySettle, Terminal
<1>7. ASSUME NEW b \in BOOLEAN, NEW m \in 0 .. MaxRetries - 1,
             m \in {job[j].retries, n + 1}, Settle(w, Reopened(j, b, m))
      PROVE  \E row : MaySettle(j, n, row) /\ Settle(w, row)
  BY <1>2, <1>3, <1>7, ReopenedRow DEF MaySettle
<1>8. CASE FinalizeJob(w) \/ Deadletter(w)
  BY <1>1, <1>4, <1>6, <1>8 DEF FinalizeJob, Deadletter, j, n
<1>9. CASE RetryLater(w) \/ ContinueLater(w)
  <2>1. \E b \in BOOLEAN : Settle(w, Reopened(j, b, job[j].retries))
    BY <1>9 DEF RetryLater, ContinueLater, j
  <2>2. \E row : MaySettle(j, n, row) /\ Settle(w, row)
    BY <1>3, <1>7, <2>1
  <2> QED BY <1>1, <1>4, <2>2 DEF j, n
<1>10. CASE RetryFailed(w)
  <2>1. n + 1 < MaxRetries
    BY <1>10 DEF RetryFailed, n
  <2>2. Settle(w, Reopened(j, FALSE, n + 1))
    BY <1>10 DEF RetryFailed, j, n
  <2>3. n + 1 \in 0 .. MaxRetries - 1
    BY <1>2, <2>1
  <2>4. \E row : MaySettle(j, n, row) /\ Settle(w, row)
    BY <1>7, <2>2, <2>3
  <2> QED BY <1>1, <1>4, <2>4 DEF j, n
<1> QED BY <1>5, <1>8, <1>9, <1>10 DEF Finalize

(***************************************************************************)
(* Types, and the copied retry count: the inductive invariant.  A worker    *)
(* that holds the row was the last to claim it (the fence compares locked_by*)
(* and claim_token), and every write that changes retry_count also takes   *)
(* the row away from its holder.                                           *)
(***************************************************************************)
IInv == TypeOK /\ CopiedRetriesExact

LEMMA InitIInv == Init => IInv
<1> SUFFICES ASSUME Init PROVE IInv
  OBVIOUS
<1> USE OutboxAssumption
<1>1. TypeOK
  BY DEF Init, TypeOK, Row, Status, NoClaim
<1>2. CopiedRetriesExact
  BY DEF Init, CopiedRetriesExact, Busy, NoClaim
<1> QED BY <1>1, <1>2 DEF IInv

LEMMA StepIInv == IInv /\ [Next]_outboxVars => IInv'
<1> SUFFICES ASSUME TypeOK, CopiedRetriesExact, [Next]_outboxVars PROVE IInv'
  BY DEF IInv
<1> USE OutboxAssumption DEF TypeOK
<1>1. ASSUME NEW w \in Worker, NEW j \in Job, ClaimOne(w, j) PROVE IInv'
  <2> DEFINE t == <<j, claims[j] + 1>>
  <2>1. t \in Token
    BY DEF Token
  <2> HIDE DEF t
  <2>2. job' = [job EXCEPT ![j] = [@ EXCEPT !.status = "running", !.token = t,
                                           !.owner = w, !.live = TRUE]]
    BY <1>1 DEF ClaimOne, t
  <2>3. claim' = [claim EXCEPT ![w] = [job |-> j, token |-> t,
                                       retries |-> job[j].retries, result |-> "none"]]
    BY <1>1 DEF ClaimOne, t
  <2>4. job' \in [Job -> Row]
    BY <2>1, <2>2, RowUpdates
  <2>5. claim' \in [Worker -> Claim \cup {NoClaim}]
    <3>1. job[j].retries \in 0 .. MaxRetries - 1
      BY DEF Row
    <3>2. claim'[w] \in Claim
      BY <2>1, <2>3, <3>1 DEF Claim
    <3> QED BY <2>3, <3>2
  <2>6. job'[j].owner = w /\ job'[j].retries = job[j].retries
    BY <2>2 DEF Row
  <2>7. CopiedRetriesExact'
    BY <2>2, <2>3, <2>6 DEF CopiedRetriesExact, Busy, Fenced
  <2> QED BY <1>1, <2>4, <2>5, <2>7 DEF ClaimOne, IInv
<1>2. ASSUME NEW w \in Worker, NEW o \in Outcome, HandlerReturns(w, o) PROVE IInv'
  <2>1. claim[w] \in Claim
    BY <1>2 DEF HandlerReturns, Busy, NoClaim
  <2>2. claim' = [claim EXCEPT ![w].result = o]
    BY <1>2 DEF HandlerReturns
  <2>3. [claim[w] EXCEPT !.result = o] \in Claim
    BY <2>1 DEF Claim
  <2>4. claim' \in [Worker -> Claim \cup {NoClaim}]
    BY <2>2, <2>3
  <2>5. defers' \in [Job -> 0 .. MaxDefers]
    BY <1>2, <2>1 DEF HandlerReturns, Claim
  <2>6. \A v \in Worker : /\ claim'[v].job = claim[v].job
                          /\ claim'[v].token = claim[v].token
                          /\ claim'[v].retries = claim[v].retries
    BY <2>1, <2>2 DEF Claim
  <2>7. CopiedRetriesExact'
    BY <1>2, <2>6 DEF HandlerReturns, CopiedRetriesExact, Busy, Fenced
  <2> QED BY <1>2, <2>4, <2>5, <2>7 DEF HandlerReturns, IInv
<1>3. ASSUME NEW w \in Worker, Finalize(w) PROVE IInv'
  <2>1. claim' = [claim EXCEPT ![w] = NoClaim] /\ claim[w].job \in Job
    BY <1>3, FinalizeSettles DEF Claim
  <2>2. CASE job' = job
    <3>1. CopiedRetriesExact'
      BY <2>1, <2>2 DEF CopiedRetriesExact, Busy, Fenced, NoClaim
    <3> QED BY <1>3, <2>1, <2>2, <3>1, FinalizeSettles DEF IInv
  <2>3. ASSUME NEW row, MaySettle(claim[w].job, claim[w].retries, row),
               job' = [job EXCEPT ![claim[w].job] = row]
        PROVE  IInv'
    <3>1. job'[claim[w].job].status # "running"
      BY <2>1, <2>3 DEF MaySettle, Terminal
    <3>2. CopiedRetriesExact'
      BY <2>1, <2>3, <3>1 DEF CopiedRetriesExact, Busy, Fenced, NoClaim
    <3> QED BY <1>3, <2>1, <2>3, <3>2, FinalizeSettles DEF IInv, MaySettle
  <2> QED BY <1>3, <2>2, <2>3, FinalizeSettles
<1>4. ASSUME NEW w \in Worker, LoseClaim(w) PROVE IInv'
  BY <1>4 DEF LoseClaim, IInv, CopiedRetriesExact, Busy, Fenced, NoClaim
<1>5. ASSUME NEW j \in Job, NEW b \in BOOLEAN, faults' \in 0 .. MaxFaults,
             job' = [job EXCEPT ![j].live = b], UNCHANGED <<claim, claims, defers>>
      PROVE  IInv'
  <2>1. job' \in [Job -> Row]
    BY <1>5, RowUpdates
  <2>2. \A i \in Job : /\ job'[i].status = job[i].status /\ job'[i].token = job[i].token
                       /\ job'[i].owner = job[i].owner /\ job'[i].retries = job[i].retries
    BY <1>5 DEF Row
  <2>3. \A w \in Worker : claim[w].job # NoJob => claim[w].job \in Job
    BY DEF Claim, NoClaim
  <2>4. CopiedRetriesExact'
    BY <1>5, <2>2, <2>3 DEF CopiedRetriesExact, Busy, Fenced
  <2> QED BY <1>5, <2>1, <2>4 DEF IInv
<1>6. ASSUME NEW w \in Worker, Heartbeat(w) \/ HolderStalls(w) PROVE IInv'
  <2>1. claim[w].job \in Job
    BY <1>6 DEF Heartbeat, HolderStalls, Busy, Claim, NoClaim
  <2>2. faults' \in 0 .. MaxFaults
    BY <1>6 DEF Heartbeat, HolderStalls
  <2>3. \E b \in BOOLEAN : job' = [job EXCEPT ![claim[w].job].live = b]
    BY <1>6 DEF Heartbeat, HolderStalls
  <2>4. UNCHANGED <<claim, claims, defers>>
    BY <1>6 DEF Heartbeat, HolderStalls
  <2> QED BY <1>5, <2>1, <2>2, <2>3, <2>4
<1>7. ASSUME NEW j \in Job, LeaseExpires(j) PROVE IInv'
  <2>1. job' = [job EXCEPT ![j].live = FALSE] /\ UNCHANGED <<claim, claims, defers, faults>>
    BY <1>7 DEF LeaseExpires
  <2> QED BY <1>5, <2>1
<1>8. ASSUME NEW j \in Job, Enqueue(j) \/ BecomesDue(j) PROVE IInv'
  <2>1. PICK row \in Row : /\ row.status # "running"
                           /\ job' = [job EXCEPT ![j] = row]
    <3>1. CASE Enqueue(j)
      <4>1. job' = [job EXCEPT ![j] = [job[j] EXCEPT !.status = "pending", !.due = TRUE]]
        BY <3>1 DEF Enqueue
      <4>2. [job[j] EXCEPT !.status = "pending", !.due = TRUE].status # "running"
        BY DEF Row
      <4> QED BY <4>1, <4>2, RowUpdates
    <3>2. CASE BecomesDue(j)
      <4>1. job' = [job EXCEPT ![j] = [job[j] EXCEPT !.due = TRUE]]
        BY <3>2 DEF BecomesDue
      <4>2. [job[j] EXCEPT !.due = TRUE].status # "running"
        BY <3>2 DEF BecomesDue, Row
      <4> QED BY <4>1, <4>2, RowUpdates
    <3> QED BY <1>8, <3>1, <3>2
  <2>2. UNCHANGED <<claim, claims, defers, faults>>
    BY <1>8 DEF Enqueue, BecomesDue
  <2>3. \A w \in Worker : claim[w].job # NoJob => claim[w].job \in Job
    BY DEF Claim, NoClaim
  <2>4. CopiedRetriesExact'
    BY <2>1, <2>2, <2>3 DEF CopiedRetriesExact, Busy, Fenced
  <2> QED BY <2>1, <2>2, <2>4 DEF IInv
<1>9. CASE UNCHANGED outboxVars
  BY <1>9 DEF outboxVars, IInv, CopiedRetriesExact, Busy, Fenced
<1> QED BY <1>1, <1>2, <1>3, <1>4, <1>6, <1>7, <1>8, <1>9 DEF Next, WorkerStep

\* TypeOK: every reachable row and claim is well formed, and no counter
\* leaves its range; retry_count stays below max_retries.
THEOREM TypeCorrect == Spec => []TypeOK
<1>1. IInv => TypeOK
  BY DEF IInv
<1> QED BY <1>1, InitIInv, StepIInv, PTL DEF Spec

\* The copy of retry_count a worker took at the claim is exact while it holds
\* the row: what RetryFailed writes back loses no failure (outbox_worker.py,
\* _retry_or_deadletter).
THEOREM CopiedRetriesCorrect == Spec => []CopiedRetriesExact
<1>1. IInv => CopiedRetriesExact
  BY DEF IInv
<1> QED BY <1>1, InitIInv, StepIInv, PTL DEF Spec
-------------------------------------------------------------------------------
(* What one step can do to one row, whichever action it is. *)

Kept(j) == job'[j].retries = job[j].retries

SettledBy(w, j) ==
    /\ claim[w].job = j /\ claim[w].token = job[j].token
    /\ claim'[w] = NoClaim
    /\ job[j].status = "running"
    /\ \/ job'[j].status \in Terminal /\ Kept(j)
       \/ job'[j].status = "pending" /\ job'[j].retries \in {job[j].retries, job[j].retries + 1}

RowStep(j) ==
    \/ job'[j] = job[j]
    \/ job[j].status = "absent" /\ job'[j].status = "pending" /\ Kept(j)
    \/ job[j].status = "pending" /\ job'[j].status \in {"pending", "running"} /\ Kept(j)
    \/ job[j].status = "running" /\ job'[j].status = "running" /\ Kept(j)
    \/ \E w \in Worker : SettledBy(w, j)

OneRowSteps == \E j \in Job : RowStep(j) /\ \A i \in Job \ {j} : job'[i] = job[i]

LEMMA StepIsRowStep == IInv /\ [Next]_outboxVars => OneRowSteps \/ job' = job
<1> SUFFICES ASSUME TypeOK, CopiedRetriesExact, [Next]_outboxVars, job' # job
             PROVE  OneRowSteps
  BY DEF IInv
<1> USE OutboxAssumption DEF TypeOK
<1>1. ASSUME NEW w \in Worker, NEW j \in Job, ClaimOne(w, j) PROVE OneRowSteps
  <2>1. job' = [job EXCEPT ![j] = [@ EXCEPT !.status = "running", !.token = <<j, claims[j] + 1>>,
                                           !.owner = w, !.live = TRUE]]
    BY <1>1 DEF ClaimOne
  <2>2. job[j].status \in {"pending", "running"}
    BY <1>1 DEF ClaimOne, Head, Eligible
  <2>3. job'[j].status = "running" /\ Kept(j)
    BY <2>1 DEF Row, Kept
  <2>4. RowStep(j)
    BY <2>2, <2>3 DEF RowStep
  <2> QED BY <2>1, <2>4 DEF OneRowSteps
<1>2. ASSUME NEW w \in Worker, NEW o \in Outcome, HandlerReturns(w, o) PROVE FALSE
  BY <1>2 DEF HandlerReturns
<1>3. ASSUME NEW w \in Worker, Finalize(w) PROVE OneRowSteps
  <2> DEFINE j == claim[w].job
  <2>1. j \in Job /\ Fenced(w, j) /\ claim'[w] = NoClaim
    BY <1>3, FinalizeSettles DEF Claim
  <2>2. PICK row : /\ MaySettle(j, claim[w].retries, row)
                   /\ job' = [job EXCEPT ![j] = row]
    BY <1>3, FinalizeSettles
  <2>3. claim[w].retries = job[j].retries
    <3>1. Busy(w)
      BY <2>1, OutboxAssumption DEF Busy
    <3> QED BY <2>1, <3>1 DEF CopiedRetriesExact
  <2>4. job'[j] = row
    BY <2>1, <2>2
  <2>5. SettledBy(w, j)
    <3>1. job[j].status = "running" /\ claim[w].token = job[j].token
      BY <2>1 DEF Fenced
    <3>2. \/ job'[j].status \in Terminal /\ Kept(j)
          \/ /\ job'[j].status = "pending"
             /\ job'[j].retries \in {job[j].retries, job[j].retries + 1}
      BY <2>2, <2>3, <2>4 DEF MaySettle, Kept
    <3> QED BY <2>1, <3>1, <3>2 DEF SettledBy
  <2>6. \A i \in Job \ {j} : job'[i] = job[i]
    BY <2>1, <2>2
  <2> QED BY <2>1, <2>5, <2>6 DEF OneRowSteps, RowStep
<1>4. ASSUME NEW w \in Worker, LoseClaim(w) PROVE FALSE
  BY <1>4 DEF LoseClaim
<1>5. ASSUME NEW j \in Job, NEW b \in BOOLEAN, job[j].status = "running",
             job' = [job EXCEPT ![j].live = b]
      PROVE  OneRowSteps
  <2>1. job'[j].status = "running" /\ Kept(j)
    BY <1>5 DEF Row, Kept
  <2> QED BY <1>5, <2>1 DEF OneRowSteps, RowStep
<1>6. ASSUME NEW w \in Worker, Heartbeat(w) \/ HolderStalls(w) PROVE OneRowSteps
  <2>1. claim[w].job \in Job
    BY <1>6 DEF Heartbeat, HolderStalls, Busy, Claim, NoClaim
  <2>2. job[claim[w].job].status = "running"
    BY <1>6 DEF Heartbeat, HolderStalls, Fenced
  <2>3. \E b \in BOOLEAN : job' = [job EXCEPT ![claim[w].job].live = b]
    BY <1>6 DEF Heartbeat, HolderStalls
  <2> QED BY <1>5, <2>1, <2>2, <2>3
<1>7. ASSUME NEW j \in Job, LeaseExpires(j) PROVE OneRowSteps
  <2>1. job[j].status = "running" /\ job' = [job EXCEPT ![j].live = FALSE]
    BY <1>7 DEF LeaseExpires, Orphan
  <2> QED BY <1>5, <2>1
<1>8. ASSUME NEW j \in Job, Enqueue(j) PROVE OneRowSteps
  <2>1. job' = [job EXCEPT ![j] = [job[j] EXCEPT !.status = "pending", !.due = TRUE]]
    BY <1>8 DEF Enqueue
  <2>2. job'[j].status = "pending" /\ Kept(j)
    BY <2>1 DEF Row, Kept
  <2> QED BY <1>8, <2>1, <2>2 DEF Enqueue, OneRowSteps, RowStep
<1>9. ASSUME NEW j \in Job, BecomesDue(j) PROVE OneRowSteps
  <2>1. job' = [job EXCEPT ![j].due = TRUE] /\ job[j].status = "pending"
    BY <1>9 DEF BecomesDue
  <2>2. job'[j].status = "pending" /\ Kept(j)
    BY <2>1 DEF Row, Kept
  <2> QED BY <2>1, <2>2 DEF OneRowSteps, RowStep
<1>10. CASE UNCHANGED outboxVars
  BY <1>10 DEF outboxVars
<1> QED BY <1>1, <1>2, <1>3, <1>4, <1>6, <1>7, <1>8, <1>9, <1>10 DEF Next, WorkerStep

LEMMA EveryRowStep == IInv /\ [Next]_outboxVars => \A j \in Job : RowStep(j)
<1> SUFFICES ASSUME IInv, [Next]_outboxVars, NEW j \in Job PROVE RowStep(j)
  OBVIOUS
<1>1. OneRowSteps \/ job' = job
  BY StepIsRowStep
<1> QED BY <1>1 DEF OneRowSteps, RowStep

\* A running row is settled only by the worker whose claim_token it carries.
THEOREM OnlyHolderSettlesCorrect == Spec => OnlyHolderSettles
<1>1. IInv /\ [Next]_outboxVars =>
        [\A j \in Job :
           job[j].status = "running" /\ job'[j].status # "running" =>
             \E w \in Worker : /\ claim[w].job = j /\ claim[w].token = job[j].token
                               /\ claim'[w] = NoClaim]_outboxVars
  BY EveryRowStep DEF RowStep, SettledBy
<1> QED BY <1>1, InitIInv, StepIInv, PTL DEF Spec, OnlyHolderSettles

\* A row in a terminal status is never written again.
THEOREM TerminalIsFinalCorrect == Spec => TerminalIsFinal
<1>1. IInv /\ [Next]_outboxVars =>
        [\A j \in Job : job[j].status \in Terminal => job'[j] = job[j]]_outboxVars
  BY EveryRowStep DEF RowStep, SettledBy, Terminal
<1> QED BY <1>1, InitIInv, StepIInv, PTL DEF Spec, TerminalIsFinal

\* retry_count goes up one failure at a time and never back.
THEOREM RetriesNeverRegressCorrect == Spec => RetriesNeverRegress
<1>1. IInv /\ [Next]_outboxVars =>
        [\A j \in Job : job'[j].retries \in {job[j].retries, job[j].retries + 1}]_outboxVars
  BY EveryRowStep DEF RowStep, SettledBy, Kept
<1> QED BY <1>1, InitIInv, StepIInv, PTL DEF Spec, RetriesNeverRegress

\* Every step of the outbox is a step of the work queue, or none at all.
THEOREM OutboxImplementsWorkQueue == Spec => ImplementsWorkQueue
<1> DEFINE S(r) == IF r.status \in {"pending", "running"} THEN "open" ELSE r.status
           st == [j \in Job |-> S(job[j])]
           fl == [j \in Job |-> job[j].retries]
<1>1. Init => Queue!WQInit
  BY DEF Init, Queue!WQInit
<1>2. IInv /\ IInv' /\ [Next]_outboxVars => [Queue!WQNext]_(Queue!wqVars)
  <2> SUFFICES ASSUME IInv, IInv', [Next]_outboxVars
               PROVE  Queue!WQNext \/ (st' = st /\ fl' = fl)
    BY DEF Queue!wqVars
  <2>1. CASE job' = job
    BY <2>1
  <2>2. CASE OneRowSteps
    <3>1. PICK j \in Job : RowStep(j) /\ \A i \in Job \ {j} : job'[i] = job[i]
      BY <2>2 DEF OneRowSteps
    <3>2. /\ st' = [st EXCEPT ![j] = S(job'[j])]
          /\ fl' = [fl EXCEPT ![j] = job'[j].retries]
      BY <3>1
    <3>3. /\ st[j] = S(job[j]) /\ fl[j] = job[j].retries
          /\ job[j].retries \in Nat /\ job'[j].retries < MaxRetries
      BY OutboxAssumption DEF IInv, TypeOK, Row
    <3>4. CASE job[j].status = "absent" /\ job'[j].status = "pending" /\ Kept(j)
      <4>1. Queue!Submit(j)
        BY <3>2, <3>3, <3>4 DEF Queue!Submit, Kept
      <4> QED BY <4>1 DEF Queue!WQNext
    <3>5. CASE ~(job[j].status = "absent" /\ job'[j].status = "pending" /\ Kept(j))
      <4>1. CASE S(job'[j]) = S(job[j]) /\ Kept(j)
        BY <3>2, <4>1 DEF Kept
      <4>2. CASE job[j].status = "running" /\ job'[j].status \in Terminal /\ Kept(j)
        <5>1. Queue!Close(j)
          BY <3>2, <3>3, <4>2 DEF Queue!Close, Terminal, Kept
        <5> QED BY <5>1 DEF Queue!WQNext
      <4>3. CASE /\ job[j].status = "running" /\ job'[j].status = "pending"
                 /\ job'[j].retries = job[j].retries + 1
        <5>1. Queue!Fail(j)
          BY <3>2, <3>3, <4>3 DEF Queue!Fail
        <5> QED BY <5>1 DEF Queue!WQNext
      <4> QED BY <3>1, <3>5, <4>1, <4>2, <4>3 DEF RowStep, SettledBy, Kept
    <3> QED BY <3>4, <3>5
  <2> QED BY <2>1, <2>2, StepIsRowStep
<1> QED BY <1>1, <1>2, InitIInv, StepIInv, PTL DEF Spec, ImplementsWorkQueue, Queue!WQSpec

-------------------------------------------------------------------------------
\* Memory extraction.

\* Every step of an extraction is a step of the outbox, or none of it.
LEMMA StepOfOutbox == [MXNext]_mxVars => [Next]_outboxVars
<1> SUFFICES ASSUME [MXNext]_mxVars PROVE [Next]_outboxVars
  OBVIOUS
<1>1. ASSUME NEW w \in Worker, NEW o \in Outcome, NEW r, Return(w, o, r)
      PROVE  Next
  BY <1>1 DEF Return, Next, WorkerStep
<1>2. ASSUME NEW w \in Worker, NEW p, Continue(w, p)
      PROVE  UNCHANGED outboxVars
  BY <1>2 DEF Continue
<1>3. ASSUME NEW w \in Worker, NEW j \in Job, StartHandler(w, j) PROVE Next
  BY <1>3 DEF StartHandler, Next, WorkerStep
<1>4. ASSUME NEW w \in Worker, Progress(w) \/ Error(w) PROVE [Next]_outboxVars
  <2>1. \/ \E o \in Outcome, r \in BOOLEAN : Return(w, o, r)
        \/ \E p \in Phase : Continue(w, p)
    BY <1>4 DEF Progress, Error, AcquireRun, LeaveRun, RejectSource, GuardRefuses,
                GuardPasses, Extract, WriteBatch, RefuseBatch, RaiseBeforeExtract,
                FailRun, Outcome, Phase
  <2> QED BY <1>1, <1>2, <2>1
<1>5. ASSUME NEW w \in Worker, BuryJob(w) \/ SettleJob(w) PROVE Next
  BY <1>5 DEF BuryJob, SettleJob, Next, WorkerStep, Finalize
<1>6. ASSUME NEW w \in Worker, Die(w) \/ Beat(w) PROVE Next
  BY <1>6 DEF Die, Beat, Next, WorkerStep
<1>7. ASSUME NEW j \in Job, Enqueue(j) \/ LeaseExpires(j) \/ BecomesDue(j) PROVE Next
  BY <1>7 DEF Next
<1>8. ASSUME NEW j \in Job, ForgetPhaseA(j) PROVE UNCHANGED outboxVars
  BY <1>8 DEF ForgetPhaseA
<1>9. CASE UNCHANGED mxVars
  BY <1>9 DEF mxVars
<1> QED BY <1>3, <1>4, <1>5, <1>6, <1>7, <1>8, <1>9 DEF MXNext

\* Every behaviour of the extraction is one of the outbox: the handler does to
\* its row only what the worker does for it.
THEOREM ExtractionImplementsOutbox == MXSpec => Spec
<1>1. MXInit => Init
  BY DEF MXInit
<1> QED BY <1>1, StepOfOutbox, PTL DEF MXSpec, Spec
-------------------------------------------------------------------------------
(***************************************************************************)
(* The inductive invariant.  MXTypeOK and the invariant of the outbox say   *)
(* what the rest is about.  A batch is written together with the success of *)
(* its run, which is for ever (WrittenMeansSucceeded); a result "completed" *)
(* is a promise about the run that still holds when it is written to the    *)
(* job, however late that is (ResultIsTrue); and from the guard to the      *)
(* batch no turn is shielded, as Forget waits for the handler (Unshielded). *)
(***************************************************************************)
Done == {j \in Job : run[j].status = "succeeded" \/ j \in shielded \/ source[j] = "other"}

WrittenMeansSucceeded ==
    \A j \in Job : written[j] = 0 \/ (written[j] = 1 /\ run[j].status = "succeeded")

ResultIsTrue ==
    \A w \in Worker : claim[w].result = "completed" => claim[w].job \in Done

Unshielded ==
    \A w \in Worker : phase[w] \in {"B", "C"} => claim[w].job \notin shielded

MXInv ==
    /\ IInv /\ MXTypeOK
    /\ WrittenMeansSucceeded /\ BuriedTogether
    /\ ResultIsTrue /\ CompletedMeansSucceeded
    /\ Unshielded

LEMMA InitMXInv == MXInit => MXInv
<1> SUFFICES ASSUME MXInit PROVE MXInv
  OBVIOUS
<1>1. IInv
  BY InitIInv DEF MXInit
<1>2. MXTypeOK
  BY <1>1 DEF IInv, MXInit, MXTypeOK, Run, Phase, Authorized
<1>3. WrittenMeansSucceeded /\ BuriedTogether /\ Unshielded
  BY DEF MXInit, WrittenMeansSucceeded, BuriedTogether, Unshielded
<1>4. ResultIsTrue /\ CompletedMeansSucceeded
  BY DEF MXInit, Init, ResultIsTrue, CompletedMeansSucceeded, NoClaim
<1> QED BY <1>1, <1>2, <1>3, <1>4 DEF MXInv

\* A handler that is at work has a claim that says nothing yet.
LEMMA AtWork ==
    ASSUME MXInv, NEW w \in Worker, phase[w] # "none"
    PROVE  /\ claim[w] \in Claim /\ claim[w].job \in Job /\ claim[w].token \in Token
           /\ claim[w].result = "none"
<1>1. claim[w] \in Claim \cup {NoClaim} /\ claim[w].job # NoJob /\ claim[w].result = "none"
  BY DEF MXInv, MXTypeOK, TypeOK, Authorized, Busy
<1>2. claim[w] \in Claim
  BY <1>1 DEF NoClaim
<1> QED BY <1>1, <1>2 DEF Claim

\* What a return does to the claims.
LEMMA ReturnEffect ==
    ASSUME MXInv, NEW w \in Worker, phase[w] # "none", NEW o, NEW r, Return(w, o, r)
    PROVE  /\ claim'[w].result = o /\ claim'[w].job = claim[w].job
           /\ \A v \in Worker \ {w} : claim'[v] = claim[v]
           /\ phase' = [phase EXCEPT ![w] = "none"]
           /\ named' = [named EXCEPT ![w] = r]
           /\ job' = job
<1>1. claim' = [claim EXCEPT ![w].result = o] /\ job' = job
  BY DEF Return, HandlerReturns
<1>2. claim \in [Worker -> Claim \cup {NoClaim}]
  BY DEF MXInv, IInv, TypeOK
<1>3. claim'[w] = [claim[w] EXCEPT !.result = o]
  BY <1>1, <1>2
<1>4. claim'[w].result = o /\ claim'[w].job = claim[w].job
  BY <1>3, AtWork DEF Claim
<1> QED BY <1>1, <1>2, <1>4 DEF Return

\* A run that is marked, by whoever still holds it, was running.
LEMMA MarkRunEffect ==
    ASSUME MXInv, NEW w \in Worker, NEW j \in Job,
           NEW s \in {"failed", "succeeded"}, NEW t,
           s = "succeeded" => t \in Token \cup {NoToken}, s = "failed" => t = NoToken,
           MarkRun(w, j, s, t)
    PROVE  /\ run' \in [Job -> Run]
           /\ \A i \in Job : run'[i] = run[i] \/ (run[i].status = "running" /\ i = j)
           /\ \A i \in Job : run'[i].status = "deadletter" => run[i].status = "deadletter"
           /\ HoldsRun(w, j) /\ run[j].status = "running" => run'[j].status = s
<1>1. run \in [Job -> Run]
  BY DEF MXInv, MXTypeOK
<1>2. [status |-> s, token |-> t] \in Run
  BY DEF Run
<1>3. \/ run' = run /\ ~(HoldsRun(w, j) /\ run[j].status = "running")
      \/ run[j].status = "running" /\ run' = [run EXCEPT ![j] = [status |-> s, token |-> t]]
  BY DEF MarkRun
<1> QED BY <1>1, <1>2, <1>3

\* Only a worker whose handler reported success completes a job.
LEMMA CompletedByResult ==
    ASSUME TypeOK, Next, NEW j \in Job,
           job[j].status # "completed", job'[j].status = "completed"
    PROVE  \E w \in Worker : claim[w].job = j /\ claim[w].result = "completed"
<1> USE OutboxAssumption DEF TypeOK
<1>1. ASSUME NEW w \in Worker, NEW i \in Job, ClaimOne(w, i) PROVE FALSE
  <2>1. job' = [job EXCEPT ![i] = [@ EXCEPT !.status = "running", !.token = <<i, claims[i] + 1>>,
                                           !.owner = w, !.live = TRUE]]
    BY <1>1 DEF ClaimOne
  <2>2. job'[i].status = "running"
    BY <2>1 DEF Row
  <2> QED BY <2>1, <2>2
<1>2. ASSUME NEW w \in Worker, NEW o \in Outcome, HandlerReturns(w, o) PROVE FALSE
  BY <1>2 DEF HandlerReturns
<1>3. ASSUME NEW w \in Worker, Finalize(w)
      PROVE  claim[w].job = j /\ claim[w].result = "completed"
  <2> DEFINE k == claim[w].job
  <2>1. claim[w] \in Claim /\ k \in Job /\ job[k] \in Row
    BY <1>3, FinalizeSettles DEF Claim
  <2>2. job[k].retries \in 0 .. MaxRetries - 1 /\ claim[w].retries \in 0 .. MaxRetries - 1
    BY <2>1 DEF Row, Claim
  <2>3. ASSUME NEW row, Settle(w, row)
        PROVE  k = j /\ row.status = "completed"
    BY <2>1, <2>3 DEF Settle
  <2>4. CASE FinalizeJob(w)
    BY <2>3, <2>4 DEF FinalizeJob
  <2>5. CASE RetryLater(w) \/ ContinueLater(w)
    <3>1. \E b \in BOOLEAN : Settle(w, Reopened(k, b, job[k].retries))
      BY <2>5 DEF RetryLater, ContinueLater
    <3> HIDE DEF k
    <3>2. PICK b \in BOOLEAN : Settle(w, Reopened(k, b, job[k].retries))
      BY <3>1
    <3>3. Reopened(k, b, job[k].retries).status = "pending"
      BY <2>1, <2>2, ReopenedRow
    <3> QED BY <2>3, <3>2, <3>3
  <2>6. CASE RetryFailed(w)
    <3>1. claim[w].retries + 1 \in 0 .. MaxRetries - 1
      BY <2>2, <2>6 DEF RetryFailed
    <3>2. Settle(w, Reopened(k, FALSE, claim[w].retries + 1))
      BY <2>6 DEF RetryFailed
    <3> HIDE DEF k
    <3>3. Reopened(k, FALSE, claim[w].retries + 1).status = "pending"
      BY <2>1, <3>1, ReopenedRow
    <3> QED BY <2>3, <3>2, <3>3
  <2>7. CASE Deadletter(w)
    <3>1. Settle(w, Closed(k, "deadletter"))
      BY <2>7 DEF Deadletter
    <3> HIDE DEF k
    <3>2. Closed(k, "deadletter").status = "deadletter"
      BY <2>1, ClosedRow
    <3> QED BY <2>3, <3>1, <3>2
  <2>8. CASE DropLostClaim(w)
    BY <2>8 DEF DropLostClaim
  <2> QED BY <1>3, <2>4, <2>5, <2>6, <2>7, <2>8 DEF Finalize
<1>4. ASSUME NEW w \in Worker, LoseClaim(w) PROVE FALSE
  BY <1>4 DEF LoseClaim
<1>5. ASSUME NEW i \in Job, NEW b \in BOOLEAN, job' = [job EXCEPT ![i].live = b] PROVE FALSE
  <2>1. job'[i].status = job[i].status
    BY <1>5 DEF Row
  <2> QED BY <1>5, <2>1
<1>6. ASSUME NEW w \in Worker, Heartbeat(w) \/ HolderStalls(w) PROVE FALSE
  <2>1. claim[w].job \in Job
    BY <1>6 DEF Heartbeat, HolderStalls, Busy, Claim, NoClaim
  <2>2. \E b \in BOOLEAN : job' = [job EXCEPT ![claim[w].job].live = b]
    BY <1>6 DEF Heartbeat, HolderStalls
  <2> QED BY <1>5, <2>1, <2>2
<1>7. ASSUME NEW i \in Job, LeaseExpires(i) PROVE FALSE
  BY <1>5, <1>7 DEF LeaseExpires
<1>8. ASSUME NEW i \in Job, Enqueue(i) PROVE FALSE
  <2>1. job' = [job EXCEPT ![i] = [job[i] EXCEPT !.status = "pending", !.due = TRUE]]
    BY <1>8 DEF Enqueue
  <2>2. job'[i].status = "pending"
    BY <2>1 DEF Row
  <2> QED BY <2>1, <2>2
<1>9. ASSUME NEW i \in Job, BecomesDue(i) PROVE FALSE
  <2>1. job' = [job EXCEPT ![i].due = TRUE]
    BY <1>9 DEF BecomesDue
  <2>2. job'[i].status = job[i].status
    BY <2>1 DEF Row
  <2> QED BY <2>1, <2>2
<1> QED BY <1>1, <1>2, <1>3, <1>4, <1>6, <1>7, <1>8, <1>9 DEF Next, WorkerStep

\* Types: a handler that returns or dies is at work no more, and nothing else
\* touches the claim of a handler that is.
LEMMA TypesStep == MXInv /\ IInv' /\ [MXNext]_mxVars => MXTypeOK'
<1> SUFFICES ASSUME MXInv, IInv', [MXNext]_mxVars PROVE MXTypeOK'
  OBVIOUS
<1> USE DEF MXInv, MXTypeOK
<1>1. TypeOK'
  BY DEF IInv
<1>2. TypeOK
  BY DEF IInv
<1> DEFINE AtRest == \A w \in Worker :
                        Authorized(w)' => (Busy(w) /\ claim[w].result = "none")'
<1>3. ASSUME NEW w \in Worker, NEW j \in Job, StartHandler(w, j) PROVE MXTypeOK'
  <2>1. claim' = [claim EXCEPT ![w] = [job |-> j, token |-> <<j, claims[j] + 1>>,
                                       retries |-> job[j].retries, result |-> "none"]]
    BY <1>3 DEF StartHandler, ClaimOne
  <2>2. claim'[w].job # NoJob /\ claim'[w].result = "none"
    BY <1>2, <2>1, OutboxAssumption DEF TypeOK
  <2>3. \A v \in Worker \ {w} : claim'[v] = claim[v]
    BY <1>2, <2>1 DEF TypeOK
  <2>4. phase' = [phase EXCEPT ![w] = "A"] /\ named' = [named EXCEPT ![w] = FALSE]
    BY <1>3 DEF StartHandler
  <2>5. AtRest
    BY <2>2, <2>3, <2>4 DEF Authorized, Busy
  <2> QED BY <1>1, <1>3, <2>4, <2>5 DEF StartHandler, Phase
<1>4. ASSUME NEW w \in Worker, phase[w] # "none", NEW o, NEW r \in BOOLEAN, Return(w, o, r),
             run' \in [Job -> Run], written' \in [Job -> Nat],
             UNCHANGED <<source, shielded>>
      PROVE  MXTypeOK'
  <2>1. AtRest
    BY <1>4, ReturnEffect DEF Authorized, Busy
  <2> QED BY <1>1, <1>4, <2>1, ReturnEffect DEF Phase
<1>5. ASSUME NEW w \in Worker, phase[w] # "none", NEW p \in Phase, Continue(w, p),
             run' \in [Job -> Run], UNCHANGED <<written, source, shielded>>
      PROVE  MXTypeOK'
  BY <1>1, <1>5 DEF Continue, outboxVars, Authorized, Busy
<1>6. ASSUME NEW w \in Worker, Progress(w) PROVE MXTypeOK'
  <2>1. CASE AcquireRun(w)
    <3>1. phase[w] # "none"
      BY <2>1 DEF AcquireRun, InPhaseA
    <3>2. run' = [run EXCEPT ![claim[w].job] = [status |-> "running", token |-> claim[w].token]]
      BY <2>1 DEF AcquireRun
    <3>3. run' \in [Job -> Run]
      BY <3>1, <3>2, AtWork DEF Run
    <3> QED BY <1>5, <2>1, <3>1, <3>3 DEF AcquireRun, Phase
  <2>2. CASE LeaveRun(w)
    BY <1>4, <2>2 DEF LeaveRun, InPhaseA
  <2>3. CASE RejectSource(w)
    BY <1>4, <2>3 DEF RejectSource
  <2>4. CASE GuardRefuses(w)
    <3>1. phase[w] # "none" /\ claim[w].job \in Job
      BY <2>4, AtWork DEF GuardRefuses
    <3>2. run' \in [Job -> Run]
      BY <2>4, <3>1, MarkRunEffect DEF GuardRefuses
    <3> QED BY <1>4, <2>4, <3>1, <3>2 DEF GuardRefuses
  <2>5. CASE GuardPasses(w) \/ Extract(w)
    BY <1>5, <2>5 DEF GuardPasses, Extract, Phase
  <2>6. CASE WriteBatch(w)
    <3>1. phase[w] # "none" /\ claim[w].job \in Job /\ claim[w].token \in Token
      BY <2>6, AtWork DEF WriteBatch
    <3>2. run' \in [Job -> Run]
      BY <2>6, <3>1, MarkRunEffect DEF WriteBatch
    <3>3. written' \in [Job -> Nat]
      BY <2>6, <3>1 DEF WriteBatch
    <3> QED BY <1>4, <2>6, <3>1, <3>2, <3>3 DEF WriteBatch
  <2>7. CASE RefuseBatch(w)
    BY <1>4, <2>7 DEF RefuseBatch
  <2> QED BY <1>6, <2>1, <2>2, <2>3, <2>4, <2>5, <2>6, <2>7 DEF Progress
<1>7. ASSUME NEW w \in Worker, Error(w) PROVE MXTypeOK'
  <2>1. CASE RaiseBeforeExtract(w)
    BY <1>4, <2>1 DEF RaiseBeforeExtract
  <2>2. CASE FailRun(w)
    <3>1. phase[w] # "none" /\ claim[w].job \in Job
      BY <2>2, AtWork DEF FailRun
    <3>2. run' \in [Job -> Run]
      BY <2>2, <3>1, MarkRunEffect DEF FailRun
    <3> QED BY <1>4, <2>2, <3>1, <3>2 DEF FailRun
  <2> QED BY <1>7, <2>1, <2>2 DEF Error
<1>8. ASSUME NEW w \in Worker, BuryJob(w) \/ SettleJob(w) PROVE MXTypeOK'
  <2>1. Finalize(w)
    BY <1>8 DEF BuryJob, SettleJob, Finalize
  <2>2. claim' = [claim EXCEPT ![w] = NoClaim] /\ claim[w].job \in Job
    BY <1>2, <2>1, FinalizeSettles DEF Claim
  <2>3. claim[w].result # "none"
    BY <2>1 DEF Finalize, FinalizeJob, RetryLater, ContinueLater, RetryFailed,
                Deadletter, MustDeadletter, DropLostClaim
  <2>4. phase' = phase
    BY <1>8 DEF BuryJob, SettleJob, handlerVars
  <2>5. AtRest
    BY <2>2, <2>3, <2>4 DEF Authorized, Busy
  <2>6. run' \in [Job -> Run]
    <3>1. [status |-> "deadletter", token |-> NoToken] \in Run
      BY DEF Run
    <3> QED BY <1>8, <2>2, <3>1 DEF BuryJob, SettleJob, handlerVars
  <2> QED BY <1>1, <1>8, <2>5, <2>6 DEF BuryJob, SettleJob, handlerVars
<1>9. ASSUME NEW w \in Worker, Die(w) PROVE MXTypeOK'
  <2>1. claim' = [claim EXCEPT ![w] = NoClaim] /\ phase' = [phase EXCEPT ![w] = "none"]
    BY <1>9 DEF Die, LoseClaim
  <2>2. AtRest
    BY <2>1 DEF Authorized, Busy
  <2> QED BY <1>1, <1>9, <2>1, <2>2 DEF Die, Phase
<1>10. ASSUME UNCHANGED claim, UNCHANGED handlerVars PROVE MXTypeOK'
  BY <1>1, <1>10 DEF handlerVars, Authorized, Busy
<1>11. ASSUME NEW w \in Worker, Beat(w) PROVE MXTypeOK'
  BY <1>10, <1>11 DEF Beat, Heartbeat, HolderStalls
<1>12. ASSUME NEW j \in Job, (Enqueue(j) \/ LeaseExpires(j) \/ BecomesDue(j)) /\ UNCHANGED handlerVars
       PROVE  MXTypeOK'
  BY <1>10, <1>12 DEF Enqueue, LeaseExpires, BecomesDue
<1>13. ASSUME NEW j \in Job, ForgetPhaseA(j) PROVE MXTypeOK'
  BY <1>1, <1>13 DEF ForgetPhaseA, outboxVars, Authorized, Busy
<1>14. CASE UNCHANGED mxVars
  BY <1>10, <1>14 DEF mxVars, outboxVars
<1> QED BY <1>3, <1>6, <1>7, <1>8, <1>9, <1>11, <1>12, <1>13, <1>14 DEF MXNext

\* A run that succeeded has succeeded for ever; so what is done stays done.
LEMMA DoneStaysDone ==
    ASSUME MXInv, [MXNext]_mxVars, NEW j \in Job
    PROVE  /\ run[j].status = "succeeded" => run'[j].status = "succeeded"
           /\ j \in Done => j \in Done'
           /\ j \in shielded => j \in shielded'
<1> USE DEF MXInv, MXTypeOK
<1>1. ASSUME run' = run \/ run[j].status # "succeeded" \/ run'[j] = run[j],
             shielded \subseteq shielded', source' = source
      PROVE  /\ run[j].status = "succeeded" => run'[j].status = "succeeded"
             /\ j \in Done => j \in Done'
             /\ j \in shielded => j \in shielded'
  BY <1>1 DEF Done
<1>2. shielded \subseteq shielded' /\ source' = source
  BY DEF MXNext, StartHandler, Progress, Error, AcquireRun, LeaveRun, RejectSource,
         GuardRefuses, GuardPasses, Extract, WriteBatch, RefuseBatch, RaiseBeforeExtract,
         FailRun, BuryJob, SettleJob, Die, Beat, ForgetPhaseA, handlerVars, mxVars
<1>3. ASSUME NEW w \in Worker, NEW s \in {"failed", "succeeded"}, NEW t,
             phase[w] # "none", s = "succeeded" => t \in Token \cup {NoToken},
             s = "failed" => t = NoToken,
             MarkRun(w, claim[w].job, s, t)
      PROVE  run[j].status # "succeeded" \/ run'[j] = run[j]
  BY <1>3, AtWork, MarkRunEffect
<1>4. run' = run \/ run[j].status # "succeeded" \/ run'[j] = run[j]
  <2>1. ASSUME NEW w \in Worker, NEW i \in Job, StartHandler(w, i) PROVE run' = run
    BY <2>1 DEF StartHandler
  <2>2. ASSUME NEW w \in Worker, AcquireRun(w)
        PROVE  run[j].status # "succeeded" \/ run'[j] = run[j]
    BY <2>2 DEF AcquireRun, RunOpen
  <2>3. ASSUME NEW w \in Worker,
               LeaveRun(w) \/ RejectSource(w) \/ GuardPasses(w) \/ Extract(w)
               \/ RefuseBatch(w) \/ RaiseBeforeExtract(w)
        PROVE  run' = run
    BY <2>3 DEF LeaveRun, RejectSource, GuardPasses, Extract, RefuseBatch, RaiseBeforeExtract
  <2>4. ASSUME NEW w \in Worker, GuardRefuses(w)
        PROVE  run[j].status # "succeeded" \/ run'[j] = run[j]
    BY <1>3, <2>4 DEF GuardRefuses
  <2>5. ASSUME NEW w \in Worker, FailRun(w)
        PROVE  run[j].status # "succeeded" \/ run'[j] = run[j]
    BY <1>3, <2>5 DEF FailRun
  <2>6. ASSUME NEW w \in Worker, WriteBatch(w)
        PROVE  run[j].status # "succeeded" \/ run'[j] = run[j]
    <3>1. phase[w] # "none"
      BY <2>6 DEF WriteBatch
    <3> QED BY <1>3, <2>6, <3>1, AtWork DEF WriteBatch
  <2>7. ASSUME NEW w \in Worker, BuryJob(w)
        PROVE  run[j].status # "succeeded" \/ run'[j] = run[j]
    BY <2>7 DEF BuryJob
  <2>8. ASSUME NEW w \in Worker, SettleJob(w) \/ Die(w) \/ Beat(w) PROVE run' = run
    BY <2>8 DEF SettleJob, Die, Beat, handlerVars
  <2>9. ASSUME NEW i \in Job, ForgetPhaseA(i) \/ UNCHANGED handlerVars PROVE run' = run
    BY <2>9 DEF ForgetPhaseA, handlerVars
  <2>10. CASE UNCHANGED mxVars
    BY <2>10 DEF mxVars, handlerVars
  <2> QED BY <2>1, <2>2, <2>3, <2>4, <2>5, <2>6, <2>7, <2>8, <2>9, <2>10
          DEF MXNext, Progress, Error
<1> QED BY <1>1, <1>2, <1>4

\* A batch is written by the worker that holds the running run, which succeeds
\* by it.
LEMMA WriteBatchEffect ==
    ASSUME MXInv, NEW w \in Worker, WriteBatch(w)
    PROVE  LET j == claim[w].job IN
           /\ j \in Job /\ j \notin shielded
           /\ run[j].status = "running" /\ run'[j].status = "succeeded"
           /\ \A i \in Job \ {j} : written'[i] = written[i]
           /\ written'[j] \in {written[j], written[j] + 1}
<1> USE DEF MXInv, MXTypeOK
<1> DEFINE j == claim[w].job
<1>1. phase[w] = "C" /\ j \in Job /\ claim[w].token \in Token
  BY AtWork DEF WriteBatch
<1>2. HoldsRun(w, j) /\ run[j].status = "running"
  BY DEF WriteBatch, MayWrite
<1>3. j \notin shielded
  BY <1>1 DEF Unshielded
<1>4. run'[j].status = "succeeded"
  BY <1>1, <1>2, MarkRunEffect DEF WriteBatch
<1>5. \E n \in {0, 1} : written' = [written EXCEPT ![j] = @ + n]
  BY DEF WriteBatch
<1> QED BY <1>1, <1>2, <1>3, <1>4, <1>5

LEMMA OnlyBatchesWrite ==
    [MXNext]_mxVars => written' = written \/ \E w \in Worker : WriteBatch(w)
  BY DEF MXNext, StartHandler, Progress, Error, AcquireRun, LeaveRun, RejectSource,
         GuardRefuses, GuardPasses, Extract, RefuseBatch, RaiseBeforeExtract,
         FailRun, BuryJob, SettleJob, Die, Beat, ForgetPhaseA, handlerVars, mxVars

LEMMA WrittenStep == MXInv /\ [MXNext]_mxVars => WrittenMeansSucceeded'
<1> SUFFICES ASSUME MXInv, [MXNext]_mxVars, NEW j \in Job
             PROVE  written'[j] = 0 \/ (written'[j] = 1 /\ run'[j].status = "succeeded")
  BY DEF WrittenMeansSucceeded
<1>1. written[j] = 0 \/ (written[j] = 1 /\ run[j].status = "succeeded")
  BY DEF MXInv, WrittenMeansSucceeded
<1>2. CASE written'[j] = written[j]
  BY <1>1, <1>2, DoneStaysDone
<1>3. ASSUME NEW w \in Worker, WriteBatch(w), written'[j] # written[j]
      PROVE  written'[j] = 1 /\ run'[j].status = "succeeded"
  <2>1. j = claim[w].job
    BY <1>3, WriteBatchEffect
  <2> QED BY <1>1, <1>3, <2>1, WriteBatchEffect
<1> QED BY <1>2, <1>3, OnlyBatchesWrite

\* A run is buried by the worker that buries the job, and a buried job stays.
LEMMA BuriedStep == MXInv /\ [MXNext]_mxVars => BuriedTogether'
<1> SUFFICES ASSUME MXInv, [MXNext]_mxVars, NEW j \in Job, run'[j].status = "deadletter"
             PROVE  job'[j].status = "deadletter"
  BY DEF BuriedTogether
<1> USE DEF MXInv, MXTypeOK
<1>1. job[j].status = "deadletter" => job'[j].status = "deadletter"
  <2>1. RowStep(j)
    BY EveryRowStep, StepOfOutbox
  <2> QED BY <2>1 DEF RowStep, SettledBy
<1>2. CASE run[j].status = "deadletter"
  BY <1>1, <1>2 DEF BuriedTogether
<1>3. ASSUME NEW w \in Worker, BuryJob(w), run[j].status # "deadletter"
      PROVE  job'[j].status = "deadletter"
  <2>1. j = claim[w].job /\ Fenced(w, j)
    BY <1>3 DEF BuryJob
  <2>2. job' = [job EXCEPT ![j] = Closed(j, "deadletter")]
    BY <1>3, <2>1 DEF BuryJob, Deadletter, Settle
  <2>3. Closed(j, "deadletter").status = "deadletter"
    <3>1. job[j] \in Row
      BY DEF IInv, TypeOK
    <3> QED BY <3>1, ClosedRow
  <2>4. job'[j] = Closed(j, "deadletter")
    BY <2>2 DEF IInv, TypeOK
  <2> QED BY <2>3, <2>4
<1>4. run[j].status = "deadletter" \/ \E w \in Worker : BuryJob(w)
  <2>1. ASSUME NEW w \in Worker, AcquireRun(w) PROVE run'[j].status = "deadletter" => run[j].status = "deadletter"
    BY <2>1 DEF AcquireRun
  <2>2. ASSUME NEW w \in Worker, NEW s \in {"failed", "succeeded"}, NEW t,
               phase[w] # "none", s = "succeeded" => t \in Token \cup {NoToken},
               s = "failed" => t = NoToken, MarkRun(w, claim[w].job, s, t)
        PROVE  run[j].status = "deadletter"
    BY <2>2, AtWork, MarkRunEffect
  <2>3. ASSUME NEW w \in Worker, GuardRefuses(w) \/ FailRun(w) \/ WriteBatch(w)
        PROVE  run[j].status = "deadletter"
    <3>1. phase[w] # "none"
      BY <2>3 DEF GuardRefuses, FailRun, WriteBatch
    <3>2. CASE GuardRefuses(w)
      BY <2>2, <3>1, <3>2 DEF GuardRefuses
    <3>3. CASE FailRun(w)
      BY <2>2, <3>1, <3>3 DEF FailRun
    <3>4. CASE WriteBatch(w)
      BY <2>2, <3>1, <3>4, AtWork DEF WriteBatch
    <3> QED BY <2>3, <3>2, <3>3, <3>4
  <2>4. CASE run' = run
    BY <2>4
  <2>5. \/ run' = run
        \/ \E w \in Worker : \/ AcquireRun(w) \/ BuryJob(w)
                             \/ GuardRefuses(w) \/ FailRun(w) \/ WriteBatch(w)
    BY DEF MXNext, StartHandler, Progress, Error, LeaveRun, RejectSource,
           GuardPasses, Extract, RefuseBatch, RaiseBeforeExtract,
           SettleJob, Die, Beat, ForgetPhaseA, handlerVars, mxVars
  <2> QED BY <2>1, <2>3, <2>4, <2>5
<1> QED BY <1>2, <1>3, <1>4

\* Who says "completed" has seen its reason, and the reason does not go away.
LEMMA ResultStep == MXInv /\ [MXNext]_mxVars => ResultIsTrue'
<1> SUFFICES ASSUME MXInv, [MXNext]_mxVars, NEW v \in Worker, claim'[v].result = "completed"
             PROVE  claim'[v].job \in Done'
  BY DEF ResultIsTrue
<1> USE DEF MXInv, MXTypeOK
<1>1. claim \in [Worker -> Claim \cup {NoClaim}] /\ NoClaim.result = "none"
  BY DEF IInv, TypeOK, NoClaim
<1>2. CASE claim'[v] = claim[v]
  <2>1. claim[v].job \in Job
    BY <1>1, <1>2 DEF Claim
  <2> QED BY <1>2, <2>1, DoneStaysDone DEF ResultIsTrue
<1>3. ASSUME NEW w \in Worker, phase[w] # "none", NEW o, NEW r, Return(w, o, r),
             o = "completed" => claim[w].job \in Done'
      PROVE  claim'[v].job \in Done'
  <2>1. CASE v = w
    BY <1>3, <2>1, ReturnEffect
  <2>2. CASE v # w
    BY <1>2, <1>3, <2>2, ReturnEffect
  <2> QED BY <2>1, <2>2
<1>4. ASSUME NEW w \in Worker, NEW j \in Job, StartHandler(w, j) PROVE claim'[v].job \in Done'
  <2>1. claim' = [claim EXCEPT ![w] = [job |-> j, token |-> <<j, claims[j] + 1>>,
                                       retries |-> job[j].retries, result |-> "none"]]
    BY <1>4 DEF StartHandler, ClaimOne
  <2>2. v # w
    BY <1>1, <2>1
  <2> QED BY <1>2, <2>1, <2>2
<1>5. ASSUME NEW w \in Worker, Progress(w) PROVE claim'[v].job \in Done'
  <2> DEFINE j == claim[w].job
  <2>1. CASE AcquireRun(w) \/ GuardPasses(w) \/ Extract(w)
    BY <1>2, <2>1 DEF AcquireRun, GuardPasses, Extract, Continue, outboxVars
  <2>2. phase[w] # "none" => j \in Job /\ claim[w].token \in Token
    BY AtWork
  <2>3. CASE LeaveRun(w)
    <3>1. phase[w] # "none"
      BY <2>3 DEF LeaveRun, InPhaseA
    <3>2. run[j].status = "succeeded" => j \in Done'
      BY <2>2, <3>1, DoneStaysDone DEF Done
    <3> QED BY <1>3, <2>3, <3>1, <3>2 DEF LeaveRun
  <2>4. CASE RejectSource(w)
    <3>1. phase[w] # "none"
      BY <2>4 DEF RejectSource
    <3>2. source[j] = "other" => j \in Done'
      BY <2>2, <3>1, DoneStaysDone DEF Done
    <3> QED BY <1>3, <2>4, <3>1, <3>2 DEF RejectSource
  <2>5. CASE GuardRefuses(w)
    <3>1. phase[w] # "none"
      BY <2>5 DEF GuardRefuses
    <3>2. SourceBlocked(j) => j \in Done'
      BY <2>2, <3>1, DoneStaysDone DEF Done, SourceBlocked
    <3> QED BY <1>3, <2>5, <3>1, <3>2 DEF GuardRefuses
  <2>6. CASE WriteBatch(w)
    <3>1. phase[w] # "none"
      BY <2>6 DEF WriteBatch
    <3>2. j \in Done'
      BY <2>6, WriteBatchEffect DEF Done
    <3> QED BY <1>3, <2>6, <3>1, <3>2 DEF WriteBatch
  <2>7. CASE RefuseBatch(w)
    <3>1. phase[w] # "none"
      BY <2>7 DEF RefuseBatch
    <3>2. run[j].status = "succeeded" => j \in Done'
      BY <2>2, <3>1, DoneStaysDone DEF Done
    <3> QED BY <1>3, <2>7, <3>1, <3>2 DEF RefuseBatch
  <2> QED BY <1>5, <2>1, <2>3, <2>4, <2>5, <2>6, <2>7 DEF Progress
<1>6. ASSUME NEW w \in Worker, Error(w) PROVE claim'[v].job \in Done'
  BY <1>3, <1>6 DEF Error, RaiseBeforeExtract, FailRun
<1>7. ASSUME NEW w \in Worker, BuryJob(w) \/ SettleJob(w) \/ Die(w) PROVE claim'[v].job \in Done'
  <2>1. claim' = [claim EXCEPT ![w] = NoClaim]
    <3>1. CASE BuryJob(w) \/ SettleJob(w)
      <4>1. Finalize(w)
        BY <3>1 DEF BuryJob, SettleJob, Finalize
      <4> QED BY <4>1, FinalizeSettles DEF IInv
    <3>2. CASE Die(w)
      BY <3>2 DEF Die, LoseClaim
    <3> QED BY <1>7, <3>1, <3>2
  <2>2. v # w
    BY <1>1, <2>1
  <2> QED BY <1>2, <2>1, <2>2
<1>8. ASSUME claim' = claim PROVE claim'[v].job \in Done'
  BY <1>2, <1>8
<1>9. claim' = claim \/ \E w \in Worker :
          \/ \E j \in Job : StartHandler(w, j)
          \/ Progress(w) \/ Error(w) \/ BuryJob(w) \/ SettleJob(w) \/ Die(w)
  BY DEF MXNext, Beat, Heartbeat, HolderStalls, Enqueue, LeaseExpires, BecomesDue,
         ForgetPhaseA, mxVars, outboxVars
<1> QED BY <1>4, <1>5, <1>6, <1>7, <1>8, <1>9

\* The worker completes a job on the word of a handler, which is true.
LEMMA CompletedStep == MXInv /\ [MXNext]_mxVars => CompletedMeansSucceeded'
<1> SUFFICES ASSUME MXInv, [MXNext]_mxVars, NEW j \in Job, job'[j].status = "completed"
             PROVE  j \in Done'
  BY DEF CompletedMeansSucceeded, Done
<1>1. j \in Done => j \in Done'
  BY DoneStaysDone
<1>2. CASE job[j].status = "completed"
  BY <1>1, <1>2 DEF MXInv, CompletedMeansSucceeded, Done
<1>3. CASE job[j].status # "completed"
  <2>1. Next
    <3>1. ~ UNCHANGED outboxVars
      BY <1>3 DEF outboxVars
    <3> QED BY <3>1, StepOfOutbox
  <2>2. \E w \in Worker : claim[w].job = j /\ claim[w].result = "completed"
    BY <1>3, <2>1, CompletedByResult DEF MXInv, IInv
  <2> QED BY <1>1, <2>2 DEF MXInv, ResultIsTrue
<1> QED BY <1>2, <1>3

\* Forget waits for whoever is at work; the guard looks at the shield.
LEMMA UnshieldedStep == MXInv /\ [MXNext]_mxVars => Unshielded'
<1> SUFFICES ASSUME MXInv, [MXNext]_mxVars, NEW v \in Worker, phase'[v] \in {"B", "C"}
             PROVE  claim'[v].job \notin shielded'
  BY DEF Unshielded
<1> USE DEF MXInv, MXTypeOK
<1>1. claim \in [Worker -> Claim \cup {NoClaim}] /\ phase \in [Worker -> Phase]
  BY DEF IInv, TypeOK
<1>2. ASSUME phase'[v] = phase[v], claim'[v] = claim[v], shielded' = shielded
      PROVE  claim'[v].job \notin shielded'
  BY <1>2 DEF Unshielded
<1>3. ASSUME NEW w \in Worker, NEW j \in Job, StartHandler(w, j)
      PROVE  claim'[v].job \notin shielded'
  <2>1. phase' = [phase EXCEPT ![w] = "A"] /\ shielded' = shielded
    BY <1>3 DEF StartHandler
  <2>2. v # w
    BY <1>1, <2>1
  <2>3. claim'[v] = claim[v]
    BY <1>1, <1>3, <2>2 DEF StartHandler, ClaimOne
  <2> QED BY <1>1, <1>2, <2>1, <2>2, <2>3
<1>4. ASSUME NEW w \in Worker, phase[w] # "none", NEW o, NEW r, Return(w, o, r),
             shielded' = shielded
      PROVE  claim'[v].job \notin shielded'
  <2>1. v # w
    BY <1>1, <1>4, ReturnEffect
  <2> QED BY <1>1, <1>2, <1>4, <2>1, ReturnEffect
<1>5. ASSUME NEW w \in Worker, NEW p, Continue(w, p), shielded' = shielded,
             p = "guard" \/ claim[w].job \notin shielded
      PROVE  claim'[v].job \notin shielded'
  <2>1. phase' = [phase EXCEPT ![w] = p] /\ claim' = claim
    BY <1>5 DEF Continue, outboxVars
  <2> QED BY <1>1, <1>2, <1>5, <2>1
<1>6. ASSUME NEW w \in Worker, Progress(w) PROVE claim'[v].job \notin shielded'
  <2>1. CASE AcquireRun(w)
    BY <1>5, <2>1 DEF AcquireRun
  <2>2. CASE GuardPasses(w)
    BY <1>5, <2>2 DEF GuardPasses, SourceBlocked
  <2>3. CASE Extract(w)
    BY <1>5, <2>3 DEF Extract, Unshielded
  <2>4. CASE LeaveRun(w) \/ RejectSource(w) \/ RefuseBatch(w)
    BY <1>4, <2>4 DEF LeaveRun, InPhaseA, RejectSource, RefuseBatch
  <2>5. CASE GuardRefuses(w) \/ WriteBatch(w)
    BY <1>4, <2>5 DEF GuardRefuses, WriteBatch
  <2> QED BY <1>6, <2>1, <2>2, <2>3, <2>4, <2>5 DEF Progress
<1>7. ASSUME NEW w \in Worker, Error(w) PROVE claim'[v].job \notin shielded'
  BY <1>4, <1>7 DEF Error, RaiseBeforeExtract, FailRun
<1>8. ASSUME NEW w \in Worker, BuryJob(w) \/ SettleJob(w)
      PROVE  claim'[v].job \notin shielded'
  <2>1. Finalize(w)
    BY <1>8 DEF BuryJob, SettleJob, Finalize
  <2>2. claim' = [claim EXCEPT ![w] = NoClaim] /\ claim[w].result # "none"
    <3>1. claim[w].result # "none"
      BY <2>1 DEF Finalize, FinalizeJob, RetryLater, ContinueLater, RetryFailed,
                  Deadletter, MustDeadletter, DropLostClaim
    <3> QED BY <2>1, <3>1, FinalizeSettles DEF IInv
  <2>3. phase' = phase /\ shielded' = shielded
    BY <1>8 DEF BuryJob, SettleJob, handlerVars
  <2>4. v # w
    BY <2>2, <2>3, AtWork
  <2> QED BY <1>1, <1>2, <2>2, <2>3, <2>4
<1>9. ASSUME NEW w \in Worker, Die(w) PROVE claim'[v].job \notin shielded'
  <2>1. phase' = [phase EXCEPT ![w] = "none"] /\ claim' = [claim EXCEPT ![w] = NoClaim]
    BY <1>9 DEF Die, LoseClaim
  <2> QED BY <1>1, <1>2, <1>9, <2>1 DEF Die
<1>10. ASSUME NEW j \in Job, ForgetPhaseA(j) PROVE claim'[v].job \notin shielded'
  BY <1>10 DEF ForgetPhaseA, Authorized
<1>11. ASSUME claim' = claim, UNCHANGED handlerVars PROVE claim'[v].job \notin shielded'
  BY <1>2, <1>11 DEF handlerVars
<1>12. \/ claim' = claim /\ UNCHANGED handlerVars
       \/ \E w \in Worker :
            \/ \E j \in Job : StartHandler(w, j)
            \/ Progress(w) \/ Error(w) \/ BuryJob(w) \/ SettleJob(w) \/ Die(w)
       \/ \E j \in Job : ForgetPhaseA(j)
  BY DEF MXNext, Beat, Heartbeat, HolderStalls, Enqueue, LeaseExpires, BecomesDue,
         mxVars, outboxVars
<1> QED BY <1>3, <1>6, <1>7, <1>8, <1>9, <1>10, <1>11, <1>12

LEMMA StepMXInv == MXInv /\ [MXNext]_mxVars => MXInv'
<1> SUFFICES ASSUME MXInv, [MXNext]_mxVars PROVE MXInv'
  OBVIOUS
<1>1. IInv'
  BY StepOfOutbox, StepIInv DEF MXInv
<1> QED BY <1>1, TypesStep, WrittenStep, BuriedStep, ResultStep, CompletedStep,
           UnshieldedStep DEF MXInv
-------------------------------------------------------------------------------
\* MXInv always holds.
LEMMA MXInvHolds == MXSpec => []MXInv
  BY InitMXInv, StepMXInv, PTL DEF MXSpec

\* The memories of a turn are written at most once, however often the job of
\* the turn crashes, is taken over, or is tried again (worker/
\* outbox_handlers.py, phase C of handle_memory_extraction).
THEOREM WrittenAtMostOnceCorrect == MXSpec => []WrittenAtMostOnce
<1>1. MXInv => WrittenAtMostOnce
  BY DEF MXInv, WrittenMeansSucceeded, WrittenAtMostOnce
<1> QED BY <1>1, MXInvHolds, PTL

\* No extraction is lost: a job that is completed has a run that succeeded,
\* unless Forget shielded the turn or no user wrote it.
THEOREM CompletedMeansSucceededCorrect == MXSpec => []CompletedMeansSucceeded
<1>1. MXInv => CompletedMeansSucceeded
  BY DEF MXInv
<1> QED BY <1>1, MXInvHolds, PTL

\* An ingestion run is in deadletter only together with its job
\* (worker/outbox_worker.py, the transaction of the deadletter).
THEOREM BuriedTogetherCorrect == MXSpec => []BuriedTogether
<1>1. MXInv => BuriedTogether
  BY DEF MXInv
<1> QED BY <1>1, MXInvHolds, PTL

\* Once Forget has shielded a turn no batch is written for it, not even by a
\* handler that had been claimed before.
THEOREM NoWriteAfterShieldCorrect == MXSpec => NoWriteAfterShield
<1>1. MXInv /\ [MXNext]_mxVars =>
        [\A j \in Job : written'[j] # written[j] => j \notin shielded]_mxVars
  <2> SUFFICES ASSUME MXInv, [MXNext]_mxVars, NEW j \in Job, written'[j] # written[j]
               PROVE  j \notin shielded
    OBVIOUS
  <2>1. PICK w \in Worker : WriteBatch(w)
    BY OnlyBatchesWrite
  <2> QED BY <2>1, WriteBatchEffect
<1> QED BY <1>1, MXInvHolds, PTL DEF MXSpec, NoWriteAfterShield

\* What the outbox promises its callers it promises for extraction as well:
\* no job is executed by two workers under one claim, or left behind.
THEOREM ExtractionImplementsWorkQueue == MXSpec => ImplementsWorkQueue
  BY ExtractionImplementsOutbox, OutboxImplementsWorkQueue
===============================================================================
