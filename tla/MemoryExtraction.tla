--------------------------- MODULE MemoryExtraction ---------------------------
(***************************************************************************)
(* handle_memory_extraction (worker/outbox_handlers.py) on top of the      *)
(* outbox: every job extracts memories from one turn, and shares the       *)
(* MemoryIngestionRun of that turn with all its other executions.  The     *)
(* handler is a chain of short transactions with a model call in between:  *)
(*   A  resolve the run and take it with the claim token                   *)
(*   guard  is the claim still good, are the sources visible               *)
(*   B  the model extracts proposals (no transaction)                      *)
(*   C  both fences again, write the batch, mark the run succeeded         *)
(* Forget (forget/phase_a_shield.py) may shield a source between two       *)
(* handlers, never under one: the handler holds the shared advisory lock.  *)
(***************************************************************************)
EXTENDS Outbox

VARIABLES run,          \* memory_ingestion_runs, one per source turn
          phase,        \* where in the handler each worker is
          named,        \* does the handler's result carry ingestion_run_id
          written,      \* batches of memories committed for each turn
          source,       \* the message of the turn: "user", "other" or "bad"
          shielded      \* turns covered by an active ForgetShield

handlerVars == <<run, phase, named, written, source, shielded>>
mxVars == <<outboxVars, handlerVars>>

\* The execution token of a run is the claim token of the job that took it.
Run == [status : {"absent", "failed", "deadletter"}, token : {NoToken}]
       \cup [status : {"running"}, token : Token]
       \cup [status : {"succeeded"}, token : Token \cup {NoToken}]
Phase == {"none", "A", "guard", "B", "C"}

\* The shared execution authorization, from handler start to handler return.
Authorized(w) == phase[w] # "none"

\* The handler returns outcome o; r says whether the run is named in it.
Return(w, o, r) ==
    /\ HandlerReturns(w, o)
    /\ phase' = [phase EXCEPT ![w] = "none"]
    /\ named' = [named EXCEPT ![w] = r]

Continue(w, p) ==
    /\ phase' = [phase EXCEPT ![w] = p]
    /\ UNCHANGED <<outboxVars, named>>
-------------------------------------------------------------------------------
MXInit ==
    /\ Init
    /\ run = [j \in Job |-> [status |-> "absent", token |-> NoToken]]
    /\ phase = [w \in Worker |-> "none"]
    /\ named = [w \in Worker |-> FALSE]
    /\ written = [j \in Job |-> 0]
    /\ source \in [Job -> {"user", "other", "bad"}]   \* what _validate_source_turn will find
    /\ shielded = {}

StartHandler(w, j) ==
    /\ ClaimOne(w, j)
    /\ phase' = [phase EXCEPT ![w] = "A"]
    /\ named' = [named EXCEPT ![w] = FALSE]
    /\ UNCHANGED <<run, written, source, shielded>>
-------------------------------------------------------------------------------
(* Phase A: _resolve_ingestion_run.  It looks at the lease of whoever took  *)
(* the run, not at its own claim, which may be stale by now.               *)

\* Mutant: whoever took the run keeps it, lease or no lease.
RunBusyWhileRunning(j) == run[j].status = "running"

RunBusy(j) ==
    /\ run[j].status = "running"
    /\ \E i \in Job : /\ job[i].token = run[j].token
                      /\ job[i].status = "running"
                      /\ job[i].live

\* Mutant: a run that succeeded is taken again.
RunOpenAlways(j) == run[j].status # "deadletter" /\ ~RunBusy(j)

RunOpen(j) == run[j].status \notin {"succeeded", "deadletter"} /\ ~RunBusy(j)

InPhaseA(w, j) == phase[w] = "A" /\ source[j] = "user"

AcquireRun(w) ==
    LET j == claim[w].job IN
    /\ InPhaseA(w, j)
    /\ RunOpen(j)
    /\ run' = [run EXCEPT ![j] = [status |-> "running", token |-> claim[w].token]]
    /\ Continue(w, "guard")
    /\ UNCHANGED <<written, source, shielded>>

LeaveRun(w) ==
    LET j == claim[w].job IN
    /\ InPhaseA(w, j)
    /\ \/ run[j].status = "succeeded" /\ Return(w, "completed", TRUE)
       \/ run[j].status = "deadletter" /\ Return(w, "non_retryable", TRUE)
       \/ RunBusy(j) /\ Return(w, "retry_later", FALSE)
    /\ UNCHANGED <<run, written, source, shielded>>

RejectSource(w) ==
    /\ phase[w] = "A"
    /\ \/ source[claim[w].job] = "bad" /\ Return(w, "non_retryable", FALSE)
       \/ source[claim[w].job] = "other" /\ Return(w, "completed", FALSE)
    /\ UNCHANGED <<run, written, source, shielded>>

\* Phase A or the guard raises (a database error): the transaction is rolled
\* back and the result, or the exception _dispatch_one catches, names no run.
RaiseBeforeExtract(w) ==
    /\ phase[w] \in {"A", "guard"}
    /\ Return(w, "retryable_error", FALSE)
    /\ UNCHANGED <<run, written, source, shielded>>
-------------------------------------------------------------------------------
(* The guard, and the fenced short transactions that settle the run *)

HoldsRun(w, j) == run[j].token = claim[w].token

ClaimMatches(w, j) == Fenced(w, j) /\ job[j].live

\* UPDATE ... WHERE id, execution_token, status = running; a run that fails
\* forgets its token, one that succeeds keeps it (unless Forget settled it).
MarkRun(w, j, s, tk) ==
    run' = IF HoldsRun(w, j) /\ run[j].status = "running"
           THEN [run EXCEPT ![j] = [status |-> s, token |-> tk]] ELSE run

\* Mutant: the shield is not looked up.
SourceBlockedNever(j) == FALSE

SourceBlocked(j) == j \in shielded

GuardRefuses(w) ==
    LET j == claim[w].job IN
    /\ phase[w] = "guard"
    /\ \/ /\ ~ClaimMatches(w, j)
          /\ UNCHANGED run
          /\ Return(w, "claim_lost", FALSE)
       \/ /\ ClaimMatches(w, j) /\ SourceBlocked(j)
          /\ MarkRun(w, j, "succeeded", NoToken)
          /\ Return(w, "completed", TRUE)
    /\ UNCHANGED <<written, source, shielded>>

GuardPasses(w) ==
    LET j == claim[w].job IN
    /\ phase[w] = "guard"
    /\ ClaimMatches(w, j) /\ ~SourceBlocked(j)
    /\ Continue(w, "B")
    /\ UNCHANGED <<run, written, source, shielded>>

Extract(w) ==
    /\ phase[w] = "B"
    /\ Continue(w, "C")
    /\ UNCHANGED <<run, written, source, shielded>>

\* The model call (phase B) or the batch write (phase C) fails.
FailRun(w) ==
    /\ phase[w] \in {"B", "C"}
    /\ MarkRun(w, claim[w].job, "failed", NoToken)
    /\ Return(w, "retryable_error", TRUE)
    /\ UNCHANGED <<written, source, shielded>>
-------------------------------------------------------------------------------
(* Phase C: one transaction under FOR UPDATE of the job and of the run *)

MayWrite(w, j) ==
    ClaimMatches(w, j) /\ HoldsRun(w, j) /\ run[j].status = "running"

WriteBatch(w) ==
    LET j == claim[w].job IN
    /\ phase[w] = "C"
    /\ MayWrite(w, j)
    \* Nothing is written if the model proposed nothing, or if the source is
    \* shielded by now (which the shared authorization already rules out).
    /\ \E n \in IF SourceBlocked(j) THEN {0} ELSE {0, 1} :
          written' = [written EXCEPT ![j] = @ + n]
    /\ MarkRun(w, j, "succeeded", IF SourceBlocked(j) THEN NoToken ELSE claim[w].token)
    /\ Return(w, "completed", TRUE)
    /\ UNCHANGED <<source, shielded>>

\* Mutant: whoever lost the run reports the turn as done.
RefuseBatchCareless(w) ==
    LET j == claim[w].job IN
    /\ phase[w] = "C"
    /\ ~MayWrite(w, j) /\ Return(w, "completed", TRUE)
    /\ UNCHANGED <<run, written, source, shielded>>

RefuseBatch(w) ==
    LET j == claim[w].job IN
    /\ phase[w] = "C"
    /\ \/ ~ClaimMatches(w, j) /\ Return(w, "claim_lost", TRUE)
       \/ /\ ClaimMatches(w, j) /\ ~MayWrite(w, j)
          /\ \/ run[j].status = "succeeded" /\ Return(w, "completed", TRUE)
             \/ run[j].status = "deadletter" /\ Return(w, "non_retryable", TRUE)
             \/ /\ run[j].status \notin {"succeeded", "deadletter"}
                /\ Return(w, "claim_lost", TRUE)
    /\ UNCHANGED <<run, written, source, shielded>>
-------------------------------------------------------------------------------
(* The worker's part, with the run *)

\* Mutant: the run is buried even if the job was taken over.
BuryJobUnfenced(w) ==
    /\ Deadletter(w)
    /\ run' = IF named[w] THEN [run EXCEPT ![claim[w].job] =
                                  [status |-> "deadletter", token |-> NoToken]]
              ELSE run
    /\ UNCHANGED <<phase, named, written, source, shielded>>

\* Job and run go to deadletter in one transaction, if the result names a run.
BuryJob(w) ==
    LET j == claim[w].job IN
    /\ Deadletter(w)
    /\ run' = IF /\ Fenced(w, j) /\ named[w]
                 /\ run[j].status \in {"running", "failed"}
              THEN [run EXCEPT ![j] = [status |-> "deadletter", token |-> NoToken]]
              ELSE run
    /\ UNCHANGED <<phase, named, written, source, shielded>>

SettleJob(w) ==
    /\ FinalizeJob(w) \/ RetryLater(w) \/ RetryFailed(w) \/ DropLostClaim(w)
    /\ UNCHANGED handlerVars

Die(w) ==
    /\ LoseClaim(w)
    /\ phase' = [phase EXCEPT ![w] = "none"]
    /\ UNCHANGED <<run, named, written, source, shielded>>

Beat(w) == (Heartbeat(w) \/ HolderStalls(w)) /\ UNCHANGED handlerVars

\* Forget, Phase A: the exclusive advisory lock waits for every handler.
ForgetPhaseA(j) ==
    /\ \A w \in Worker : ~Authorized(w)
    /\ shielded' = shielded \cup {j}
    /\ UNCHANGED <<outboxVars, run, phase, named, written, source>>

Progress(w) ==
    \/ AcquireRun(w) \/ LeaveRun(w) \/ RejectSource(w)
    \/ GuardRefuses(w) \/ GuardPasses(w) \/ Extract(w)
    \/ WriteBatch(w) \/ RefuseBatch(w)

Error(w) == RaiseBeforeExtract(w) \/ FailRun(w)

MXNext ==
    \/ \E w \in Worker :
          \/ \E j \in Job : StartHandler(w, j)
          \/ Progress(w) \/ Error(w) \/ BuryJob(w) \/ SettleJob(w) \/ Die(w) \/ Beat(w)
    \/ \E j \in Job :
          \/ (Enqueue(j) \/ LeaseExpires(j) \/ BecomesDue(j)) /\ UNCHANGED handlerVars
          \/ ForgetPhaseA(j)

\* Time passes, handlers go on and return, results are written, free workers
\* claim what is due: the fairness of Outbox, for the actions of this module.
\* Errors may happen but need not.
MXFairness ==
    /\ \A w \in Worker : WF_mxVars(Progress(w)) /\ WF_mxVars(BuryJob(w) \/ SettleJob(w))
    /\ \A j \in Job :
          /\ WF_mxVars(LeaseExpires(j) /\ UNCHANGED handlerVars)
          /\ WF_mxVars(BecomesDue(j) /\ UNCHANGED handlerVars)
          /\ SF_mxVars(\E w \in Worker : StartHandler(w, j))

MXSpec == MXInit /\ [][MXNext]_mxVars
MXFairSpec == MXSpec /\ MXFairness
-------------------------------------------------------------------------------
\* Every variable keeps its shape, and only a claim without a result is authorized.
MXTypeOK ==
    /\ TypeOK
    /\ run \in [Job -> Run]
    /\ phase \in [Worker -> Phase]
    /\ \A w \in Worker : Authorized(w) => Busy(w) /\ claim[w].result = "none"
    /\ named \in [Worker -> BOOLEAN]
    /\ written \in [Job -> Nat]
    /\ source \in [Job -> {"user", "other", "bad"}]
    /\ shielded \subseteq Job

\* The memories of a turn are written once, whatever crashes, takeovers and
\* retries its job goes through.
WrittenAtMostOnce ==
    /\ MXTypeOK
    /\ \A j \in Job : written[j] <= 1

\* No extraction gets lost: a job completes only if its run succeeded, not
\* because another execution was busy with it or had lost it.  Only a turn
\* that Forget shielded, or that no user wrote, completes without one.
CompletedMeansSucceeded ==
    \A j \in Job : job[j].status = "completed" =>
        run[j].status = "succeeded" \/ j \in shielded \/ source[j] = "other"

\* A run is buried only together with its job.
BuriedTogether ==
    \A j \in Job : run[j].status = "deadletter" => job[j].status = "deadletter"

\* Once a turn is shielded nothing is extracted from it any more, not even by
\* a handler that was claimed before Forget ran.
NoWriteAfterShield ==
    [][\A j \in Job : written'[j] # written[j] => j \notin shielded]_mxVars

\* Every extraction job ends, through crashes, takeovers and busy runs.
ExtractionEnds ==
    \A j \in Job : job[j].status # "absent" ~> job[j].status \in Terminal

\* "atomic deadletter: OutboxJob and IngestionRun in one transaction": no job
\* is in deadletter while its run is still running or waits for a retry.  Not
\* kept by the code: README, section 4.
DeadletterAtomic ==
    \A j \in Job : job[j].status = "deadletter" =>
        run[j].status \notin {"running", "failed"}

===============================================================================
